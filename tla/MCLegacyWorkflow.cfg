SPECIFICATION FairSpec
CONSTANTS
    a = a
    b = b
    None = None
    MinImprovement = 5
    Confs <- MCConfs
    Limit = 1
    Verdict <- MCVerdict
    TunedScheds <- MCTuned
    Perfs <- MCPerfs
    MaxIterations = 2
    MaxProposals = 1
CHECK_DEADLOCK FALSE
INVARIANTS ExportSound TuningSound
PROPERTIES RunEnds
