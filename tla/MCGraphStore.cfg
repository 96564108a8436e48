SPECIFICATION Spec
CONSTANTS
    a1 = a1
    o1 = o1
    o2 = o2
    p1 = p1
    p2 = p2
    p3 = p3
    NoPort = NoPort
    Party <- MCParty
    Offer <- MCOffer
    Port <- MCPort
    Strategies = {"memory", "sqlite"}
    Windows <- MCWindows
    Policies <- MCPolicies
    Caps = {0, 1}
    MaxExposes = 3
    MaxRevoked = 1
SYMMETRY Symmetry
INVARIANT TypeOK
INVARIANT RefsResolve
INVARIANT CapacityRespected
INVARIANT BoundPortsExposedIfAtomic
PROPERTY ListingsFrozen
PROPERTY RevocationFinal
PROPERTY ImplementsLedger
CHECK_DEADLOCK FALSE
