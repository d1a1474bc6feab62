SPECIFICATION LiveSpec
CONSTANTS
    r0 = r0
    r1 = r1
    Ranks <- MCRanks
    Host = r0
    READY = READY
    START = START
    ok = ok
    error = error
    Phases = {READY, START}
    Payloads = {ok, error}
    None = None
    MaxSeq = 3
    MaxConns = 2
    Calls <- MCCalls
CHECK_DEADLOCK FALSE
INVARIANTS Agreement CoordinatorSafe
PROPERTIES RefinesGroupDecision GroupAdvances
