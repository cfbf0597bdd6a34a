SPECIFICATION Spec
CONSTANTS
    Readings <- MCReadings
    Writes <- MCWrites
    Tasks = {"para"}
    Sessions = 1
    Delays = 1
    Damages = 0
    Pending = 1
    DogSeconds = 3
INVARIANTS
    IP2IsNotAPN
CHECK_DEADLOCK FALSE
