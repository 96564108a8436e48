SPECIFICATION Spec
CONSTANTS
    Initiator = "init"
    Responder = "resp"
    Bodies = {"t"}
    Modes <- MCModes
    Closers = {"init"}
    Picky = {"resp"}
    MaxErrors = 2
    MaxOps = 3
INVARIANT TypeOK
INVARIANT AcceptedMeansAgreed
INVARIANT ConfirmedIsCommon
INVARIANT TipCommitsToLog
INVARIANT TerminateIsLast
PROPERTY ConfirmedNeverShrinks
CHECK_DEADLOCK FALSE
