SPECIFICATION FairSpec
CONSTANTS
    Frames = 4
    Width = 3
    Faults = 2
INVARIANTS
    TypeOK
    Covered
PROPERTIES
    Drained
    Quiesces
    AskingEnds
