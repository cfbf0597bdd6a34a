SPECIFICATION Spec
CONSTANTS
    Readings <- MCReadings
    Writes <- MCWrites
    Tasks = {"para", "freeze", "direct", "write"}
    Sessions = 3
    Delays = 3
    Damages = 1
    Pending = 2
    DogSeconds = 3
INVARIANTS
    TypeOK
    OwnValues
    LossesNeverMislabel
    FreshSession
    UsedInOrder
CHECK_DEADLOCK FALSE
