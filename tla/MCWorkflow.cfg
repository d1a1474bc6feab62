SPECIFICATION FairSpec
CONSTANTS
    a = a
    b = b
    Scheds <- MCScheds
    MaxModel = 1
    Tables <- MCTables
    Requests = {"solve", "verify", "verify_tune", "calibrate"}
    Calibrate = TRUE
    Measure = FALSE
    MaxRounds = 2
    MaxLives = 2
    None = None
CHECK_DEADLOCK FALSE
INVARIANTS PublicationSound AcceptedExecutes
PROPERTIES IncumbentMonotone RunEnds
