SPECIFICATION Spec
CHECK_DEADLOCK FALSE
CONSTANTS
    h1 = h1
    h2 = h2
    None = None
    Rival = Rival
    HostList <- MCHosts
    Roots = {1, 2}
    RivalHosts = {h1}
    MaxSize = 4
    MinSizes = 1
    Launches = 1
    MaxRounds = 2
    Pairs = 2
    AlphaInverse = 2
    CapInverse = 2
    Workloads <- MCWorkloads
INVARIANTS GpuSafe AlphaWithinTask ModelApplies
