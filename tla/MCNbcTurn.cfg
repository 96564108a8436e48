SPECIFICATION TurnSpec
CONSTANTS
    a1 = a1
    a2 = a2
    o1 = o1
    o2 = o2
    o3 = o3
    p1 = p1
    p2 = p2
    s1 = s1
    s2 = s2
    NoPort = NoPort
    Party <- MCParty
    Offer <- MCOffer
    Port <- MCPort
    Session <- MCSession
    Bodies <- MCBodies
    Strategies = {"sqlite"}
    Windows <- MCWindows
    Policies <- MCPolicies
    Caps = {1}
    MaxExposes = 3
    MaxRevoked = 1
    MaxTime = 2
INVARIANT TurnTypeOK
INVARIANT PayloadsFitPolicy
INVARIANT BindsBelongToCommittedTurns
INVARIANT BindablePortsAdmissible
PROPERTY TurnsImplementStore
PROPERTY RevokedNeverBound
PROPERTY TurnsFinish
CHECK_DEADLOCK FALSE
