SPECIFICATION BoardSpec
CONSTANTS
    Readings <- MCReadings
    Writes <- MCWrites
    Tasks = {"direct", "write"}
    Sessions = 3
    Delays = 6
    Damages = 0
    Pending = 1
    DogSeconds = 2
PROPERTIES
    SessionEnds
CHECK_DEADLOCK FALSE
