SPECIFICATION Spec
CONSTANTS
    Left = "left"
    Right = "right"
    Prefix = 2
    MaxFrame = 3
    Modes <- MCModes
    Depth = 1
    Capacity = 3
    MaxErrors = 2
    Longest = 3
INVARIANT TypeOK
INVARIANT LegalStreamDecodes
PROPERTY ImplementsChannel
PROPERTY SentGetsHandled
PROPERTY WritesFinish
CHECK_DEADLOCK FALSE
