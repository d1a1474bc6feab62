SPECIFICATION Spec
CHECK_DEADLOCK FALSE
CONSTANTS
    c1 = c1
    b1 = b1
    b2 = b2
    p1 = p1
    None = None
    CaseList <- MCCases
    Baselines <- MCBaselines
    Unmatched = {}
    Pair <- MCPair
    Sizes = {1, 2}
    Size <- MCSize
    Requests <- MCRequests
    Tables <- MCTables
    Programs = {1}
    MaxVersion = 2
    MaxInvocations = 2
    MaxFaults = 1
    MaxChanges = 2
INVARIANTS RecordsSound ResultsSound
