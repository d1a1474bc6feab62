SPECIFICATION FairNSpec
CONSTANTS
    r0 = r0
    r1 = r1
    Ranks <- MCRanks
    Bodies <- MCBodies
    MaxRequests = 2
    MaxSeq = 16
CHECK_DEADLOCK FALSE
INVARIANTS GroupInStep BuffersHeldWhileGpuRuns
PROPERTIES OperationsEnd
