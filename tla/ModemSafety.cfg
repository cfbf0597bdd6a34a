SPECIFICATION Spec
CONSTANTS
    Commands = 6
    Notes = 1
    Losses = 1
INVARIANTS
    TypeOK
    SoundVerdict
    PromptAnswerSeen
PROPERTIES
    EverySuccessEarned
CHECK_DEADLOCK FALSE
