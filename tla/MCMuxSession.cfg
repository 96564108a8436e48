SPECIFICATION Spec
CONSTANTS
    Sessions = {"s1", "s2"}
    Waits = {"w1", "w2"}
    Bodies = {"t"}
    Home <- MCHome
    Answer <- MCAnswer
    Timed = {"w1"}
    Cancellable = {"w1"}
    Inits <- MCInits
    Modes <- MCModes
    MaxFrames = 2
    MaxOpening = 1
INVARIANT RoutingIsExact
INVARIANT CapturedStillTrue
INVARIANT IdleMeansClosed
INVARIANT SettledLeavesNothing
PROPERTY SettledOnce
PROPERTY TimedWaitSettles
PROPERTY MatchingTurnResolves
CHECK_DEADLOCK FALSE
