SPECIFICATION FairSpec
CONSTANTS
    Smalls = 1
    SmallPages = 2
    LargePages = 2
    Bits = {b1, b2}
    Lines = {hour, uart}
    Faults = 1
INVARIANTS
    TypeOK
    Masked
    FaultlessCalls
PROPERTIES
    Implements
    Served
