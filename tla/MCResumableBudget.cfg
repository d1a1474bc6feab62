SPECIFICATION RSpec
CONSTANTS
    initial = initial
    repair = repair
    Stages <- MCStages
    InitialStage = initial
    PerRound <- MCPerRound
    Total <- MCTotal
    CpuBudget = 1
    MaxThreads = 1
    MaxParallel = 1
    ModelTimeout = 2
    Reserve = 1
    MaxRounds = 2
    RunWall = 4
    LeaseIds = {1, 2}
    Workers = {w1}
    NoRequest = NoRequest
    NoParent = NoParent
    NoCheckpoint = NoCheckpoint
    MaxClock = 4
CHECK_DEADLOCK FALSE
INVARIANTS LimitsHonoured ResumeNeverRefunds
