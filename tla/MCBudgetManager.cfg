SPECIFICATION FairSpec
CONSTANTS
    initial = initial
    repair = repair
    Stages <- MCStages
    InitialStage = initial
    PerRound <- MCPerRound
    Total <- MCTotal
    CpuBudget = 2
    MaxThreads = 2
    MaxParallel = 2
    ModelTimeout = 2
    Reserve = 1
    MaxRounds = 1
    RunWall = 3
    LeaseIds = {1, 2, 3}
    Workers = {w1}
    NoRequest = NoRequest
    NoParent = NoParent
    MaxClock = 4
CHECK_DEADLOCK FALSE
INVARIANTS TypeOK CpuAccounting GrantsFit
PROPERTIES SleepersReturn NoGrantAfterCancel UsageOnlyGrows
