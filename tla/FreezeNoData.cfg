SPECIFICATION Spec
CONSTANTS
    Hours = 3
    Days = 6
    Months = 2
    Restarts = 0
    Misses = 1
    Rolls = 0
    Sets = 0
    Faults = 1
INVARIANTS
    NoDataMeansNone
