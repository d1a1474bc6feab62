SPECIFICATION FairSpec
CONSTANTS
    Leader = leaderProc
    Kin = {k1, k2}
    Solver = TRUE
CHECK_DEADLOCK FALSE
INVARIANTS GoneMeansGone NoStrangerSignalled
PROPERTIES CallReturns
