SPECIFICATION Spec
CONSTANTS
    Commands = 5
    Notes = 0
    Losses = 0
INVARIANTS
    SendOkMeansSent
CHECK_DEADLOCK FALSE
