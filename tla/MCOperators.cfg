SPECIFICATION Spec
CONSTANTS
    Peers = {p1, p2, p3}
    Ids = {f1, f2, f3}
    Walls = {0, 2}
    MaxSkew = 1
    Replicas = {r1, r2}
    Frames <- MCFrames
    MaxLog = 4
    Names = {n1, n2}
    OutAtoms <- MCOutAtoms
    InAtoms <- MCInAtoms
    Order <- MCOrder
    MaxCommitted = 2
    NULL = NULL
    MaxSafe = 9
    Exponential = 16
    Documents <- MCDocuments
    MaxCache = 2
INVARIANTS
    ClockIsSound
    SessionLogsAgree
    WiringLaws
    MembershipExact
    MeantIsParsed
    AdmittedStaysUsable
CHECK_DEADLOCK FALSE
SYMMETRY Symmetry
