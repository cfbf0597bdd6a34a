SPECIFICATION Spec
CONSTANTS
    ByteValues = 64
    StartByte = 40
    EndByte = 22
    Identity <- MCIdentity
    MaxLength = 2
    Greatest <- MCGreatest
    Ten = 2
    Payloads <- MCPayloads
    ListLength = 3
INVARIANTS
    TypeOK
    FrameJudged
    SetRight
    ReadRight
    EveryCommandTried
    AnswerSound
    RecordFits
