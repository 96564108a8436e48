SPECIFICATION Spec
CONSTANTS
    Initiator = "init"
    Responder = "resp"
    Bodies = {"t"}
    Modes <- MCModes
    Closers = {}
    Picky = {}
    MaxErrors = 2
    MaxOps = 2
PROPERTY ConfirmedCatchesUp
PROPERTY TerminateSettles
CHECK_DEADLOCK FALSE
