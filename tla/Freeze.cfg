SPECIFICATION Spec
CONSTANTS
    Hours = 3
    Days = 5
    Months = 2
    Restarts = 1
    Misses = 2
    Rolls = 1
    Sets = 1
    Faults = 2
INVARIANTS
    TypeOK
    DistinctDays
    HourNotLost
    FiledByHour
    TodayKept
PROPERTIES
    WriteOnce
