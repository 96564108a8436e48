----------------------------- MODULE GraphStore -----------------------------
(***************************************************************************)
(* The OBP persistence graph: parties extend offers, offers expose ports,  *)
(* offers bind ports.  One module stands for both stores of                *)
(* packages/core/src/persistence: the in-memory strategy, whose methods    *)
(* mutate maps in order and leave the earlier writes behind when a later   *)
(* check throws, and the SQLite strategy, whose methods run inside one     *)
(* transaction that rolls back.  `strategy' picks one for a whole run.     *)
(*                                                                         *)
(* Every method body is synchronous up to its return, so one call is one   *)
(* action.  A call that throws without a lasting write is no action.       *)
(***************************************************************************)
EXTENDS Integers, Sequences, FiniteSets

CONSTANTS
    Party, Offer, Port,    \* identities
    NoPort,                \* the empty string, as `ref' and as bind target
    Strategies,            \* the strategies a run may start with
    Windows,               \* NBC bind windows callers supply
    Policies,              \* bind_policy documents callers supply
    Caps,                  \* max_bindings values callers supply (0: refused)
    MaxExposes,            \* bound on EXPOSES edges: re-exposing repeats them
    MaxRevoked             \* bound on revoked windows

ASSUME NoPortAssumption == NoPort \notin Port
ASSUME FiniteAssumption == IsFiniteSet(Port)
ASSUME StrategyAssumption == Strategies \subseteq {"memory", "sqlite"}
ASSUME WindowAssumption == Windows \subseteq [turn : Nat, at : Nat]
ASSUME CapsAssumption == Caps \subseteq Nat

VARIABLES
    strategy,     \* which implementation runs; never changes
    parties,      \* registered party ids
    extends,      \* offer id -> issuing party (its domain: the offers)
    ports,        \* port id -> [ref, policy] (its domain: the ports)
    exposes,      \* EXPOSES edges, in insertion order
    caps,         \* port id -> max_bindings recorded at expose
    offerNbc,     \* offer id -> bind window
    portNbc,      \* port id -> bind window
    binds         \* BINDS rows, in insertion order

storeVars == <<strategy, parties, extends, ports, exposes, caps, offerNbc,
               portNbc, binds>>

Offers == DOMAIN extends
Ports  == DOMAIN ports

Window     == [turn : Nat, at : Nat]
ExpiredNow == [turn |-> 0, at |-> 1]
NoWindow   == [turn |-> 0, at |-> 0]

\* Whether the writes a call made before it threw are there afterwards.
NeverRollsBack == TRUE
KeepsPartialWrites == strategy = "memory"

Put(f, k, v) == [x \in DOMAIN f \cup {k} |-> IF x = k THEN v ELSE f[x]]
-----------------------------------------------------------------------------
(***************************************************************************)
(* Port.ref resolution.  The code walks from a port along `ref' until it   *)
(* meets an empty ref (canonical), an id outside the map (missing) or an   *)
(* id already on the path (cycle).  The ids on that path are the least set *)
(* that holds the start and is closed under `ref'.                         *)
(***************************************************************************)
Closed(m, S) ==
    \A x \in S \cap DOMAIN m : m[x].ref # NoPort => m[x].ref \in S

Visited(m, p) ==
    LET closures == {S \in SUBSET Port : p \in S /\ Closed(m, S)}
    IN  {q \in Port : \A S \in closures : q \in S}

\* The canonical ids of p under m: one when the walk ends, none otherwise.
Canonical(m, p) ==
    {q \in Visited(m, p) \cap DOMAIN m : m[q].ref = NoPort}

\* countBindsForCanonicalPort: every bind whose target resolves to c.
Tally(c) ==
    Cardinality({i \in DOMAIN binds : c \in Canonical(ports, binds[i].port)})

\* Slips in the capacity check: an unresolved ref let through, the binds of an
\* alias counted apart from those of its canonical port, `>' written for `>='.
HasCapacityUnresolved(p) ==
    \A c \in Canonical(ports, p) : c \in DOMAIN caps /\ Tally(c) < caps[c]

HasCapacityOfAlias(p) ==
    /\ p \in DOMAIN caps
    /\ Cardinality({i \in DOMAIN binds : binds[i].port = p}) < caps[p]

HasCapacityOffByOne(p) ==
    \E c \in Canonical(ports, p) : c \in DOMAIN caps /\ Tally(c) <= caps[c]

\* assertCanonicalBindCapacity
HasCapacity(p) ==
    \E c \in Canonical(ports, p) : c \in DOMAIN caps /\ Tally(c) < caps[c]

IsBound(o, p) == \E i \in DOMAIN binds : binds[i] = [offer |-> o, port |-> p]

IsExposed(p) == \E i \in DOMAIN exposes : exposes[i].port = p

AddBind(o, p) == binds' = Append(binds, [offer |-> o, port |-> p])
-----------------------------------------------------------------------------
Init ==
    /\ strategy \in Strategies
    /\ parties = {}
    /\ extends = [o \in {} |-> 0]
    /\ ports = [p \in {} |-> 0]
    /\ exposes = <<>>
    /\ caps = [p \in {} |-> 0]
    /\ offerNbc = [o \in {} |-> 0]
    /\ portNbc = [p \in {} |-> 0]
    /\ binds = <<>>

RegisterParty(a) ==
    /\ parties' = parties \cup {a}
    /\ UNCHANGED <<strategy, extends, ports, exposes, caps, offerNbc, portNbc,
                   binds>>

(***************************************************************************)
(* extendOffer.  SQLite requires the party and takes the caller's id; the  *)
(* in-memory store draws a fresh id and checks neither.  The in-memory     *)
(* store writes the offer before it checks the bind leg, so a refused bind *)
(* leaves an unbound offer; SQLite rolls the whole call back.              *)
(***************************************************************************)
ExtendOffer(o, a, w, b) ==
    LET binding == b # NoPort /\ HasCapacity(b) /\ ~IsBound(o, b) IN
    /\ o \notin Offers
    /\ strategy = "sqlite" => a \in parties
    /\ b = NoPort \/ binding \/ KeepsPartialWrites
    /\ extends' = Put(extends, o, a)
    /\ offerNbc' = Put(offerNbc, o, w)
    /\ IF binding THEN AddBind(o, b) ELSE UNCHANGED binds
    /\ UNCHANGED <<strategy, parties, ports, exposes, caps, portNbc>>

(***************************************************************************)
(* exposePort.  An id already in the store only gains an EXPOSES edge: its *)
(* ref, policy, capacity and window stay what the first expose recorded.   *)
(* The ref chain of a new port is resolved over the map that already holds *)
(* it.  normalizeMaxBindings runs after the in-memory store has put the    *)
(* port and its bind_policy in their maps, and nothing takes them out.     *)
(***************************************************************************)
RefPresent(m, p) == m[p].ref # NoPort => m[p].ref \in DOMAIN m

RefAccepted(m, p) ==
    /\ m[p].ref # NoPort => m[p].ref \in DOMAIN m
    /\ Canonical(m, p) # {}

ExposeNew(o, p, port, n, w) ==
    /\ RefAccepted(Put(ports, p, port), p)
    /\ n >= 1 \/ KeepsPartialWrites
    /\ ports' = Put(ports, p, port)
    /\ IF n >= 1
       THEN /\ caps' = Put(caps, p, n)
            /\ portNbc' = Put(portNbc, p, w)
            /\ exposes' = Append(exposes, [offer |-> o, port |-> p])
       ELSE UNCHANGED <<caps, portNbc, exposes>>

\* Slips: the second expose replaces the listing, or renews its window.
ReExposeOverwriting(o, p, port, n, w) ==
    /\ ports' = Put(ports, p, port)
    /\ caps' = Put(caps, p, n)
    /\ portNbc' = Put(portNbc, p, w)
    /\ exposes' = Append(exposes, [offer |-> o, port |-> p])

ReExposeRenewing(o, p, port, n, w) ==
    /\ exposes' = Append(exposes, [offer |-> o, port |-> p])
    /\ portNbc' = Put(portNbc, p, w)
    /\ UNCHANGED <<ports, caps>>

ReExpose(o, p, port, n, w) ==
    /\ exposes' = Append(exposes, [offer |-> o, port |-> p])
    /\ UNCHANGED <<ports, caps, portNbc>>

ExposePort(o, p, port, n, w) ==
    /\ o \in Offers
    /\ IF p \in Ports THEN ReExpose(o, p, port, n, w)
                      ELSE ExposeNew(o, p, port, n, w)
    /\ UNCHANGED <<strategy, parties, extends, offerNbc, binds>>

(***************************************************************************)
(* bindPort with the admission verdict the caller's assertAdmissible gives *)
(* on a snapshot of this very state; without one the verdict is            *)
(* HasCapacity(p).  Only SQLite looks the offer up.                        *)
(***************************************************************************)
BindPort(o, p, admitted) ==
    /\ ~IsBound(o, p)
    /\ strategy = "sqlite" => o \in Offers /\ p \in Ports
    /\ admitted
    /\ AddBind(o, p)
    /\ UNCHANGED <<strategy, parties, extends, ports, exposes, caps, offerNbc,
                   portNbc>>

SetPortExpiredNow(p) ==
    /\ p \in Ports
    /\ portNbc' = Put(portNbc, p, ExpiredNow)
    /\ UNCHANGED <<strategy, parties, extends, ports, exposes, caps, offerNbc,
                   binds>>

\* The offer's own window and that of every port with an edge from it.
SetOfferExpiredNow(o) ==
    LET exposed == {exposes[i].port : i \in {j \in DOMAIN exposes :
                                               exposes[j].offer = o}} IN
    /\ o \in Offers
    /\ offerNbc' = Put(offerNbc, o, ExpiredNow)
    /\ portNbc' = [p \in DOMAIN portNbc \cup exposed |->
                     IF p \in exposed THEN ExpiredNow ELSE portNbc[p]]
    /\ UNCHANGED <<strategy, parties, extends, ports, exposes, caps, binds>>

Revoked == {p \in DOMAIN portNbc : portNbc[p] = ExpiredNow}
             \cup {o \in DOMAIN offerNbc : offerNbc[o] = ExpiredNow}

PortRecord == [ref : Port \cup {NoPort}, policy : Policies]

Next ==
    \/ \E a \in Party : RegisterParty(a)
    \/ \E o \in Offer, a \in Party, w \in Windows, b \in Port \cup {NoPort} :
          ExtendOffer(o, a, w, b)
    \/ \E o \in Offer, p \in Port, port \in PortRecord, n \in Caps,
          w \in Windows :
          Len(exposes) < MaxExposes /\ ExposePort(o, p, port, n, w)
    \/ \E o \in Offer, p \in Port : BindPort(o, p, HasCapacity(p))
    \/ \E p \in Port :
          Cardinality(Revoked) < MaxRevoked /\ SetPortExpiredNow(p)
    \/ \E o \in Offer :
          Cardinality(Revoked) < MaxRevoked /\ SetOfferExpiredNow(o)

Spec == Init /\ [][Next]_storeVars
-----------------------------------------------------------------------------
\* Every variable holds what its comment says.
TypeOK ==
    /\ strategy \in Strategies
    /\ parties \subseteq Party
    /\ Offers \subseteq Offer /\ extends \in [Offers -> Party]
    /\ Ports \subseteq Port /\ ports \in [Ports -> PortRecord]
    /\ exposes \in Seq([offer : Offers, port : Ports])
    /\ DOMAIN caps \subseteq Ports /\ caps \in [DOMAIN caps -> Nat \ {0}]
    /\ offerNbc \in [Offers -> Window]
    /\ DOMAIN portNbc \subseteq Ports
    /\ portNbc \in [DOMAIN portNbc -> Window]
    /\ binds \in Seq([offer : Offer, port : Ports])

\* Persistence rule 3 and NBC N3 (exposePort): the ref chain of every stored
\* port ends, at exactly one canonical port.  No order of exposes can store a
\* cycle or a dangling ref, whichever ports share ids.
RefsResolve ==
    \A p \in Ports : \E c \in Ports : Canonical(ports, p) = {c}

\* NBC N2 and N5 (assertCanonicalBindCapacity): the binds of a canonical port,
\* counted over every port that refers to it, never exceed its max_bindings,
\* whether they came from bindPort or from the bind leg of extendOffer.
CapacityRespected == \A c \in DOMAIN caps : Tally(c) <= caps[c]

\* Persistence rule 2 (bindPort, extendOffer): a bound port is the target of
\* at least one EXPOSES edge.
BoundPortsExposed == \A i \in DOMAIN binds : IsExposed(binds[i].port)

\* The same, of a store whose calls are transactions.
BoundPortsExposedIfAtomic == strategy = "sqlite" => BoundPortsExposed

\* The first expose of an id is final (exposePort's early return): no later
\* call changes what a port refers to, its policy or its capacity, so a bind
\* counted against a canonical port is counted against it for good.
ListingsKept ==
    /\ \A p \in Ports : p \in Ports' /\ ports'[p] = ports[p]
    /\ \A p \in DOMAIN caps : p \in DOMAIN caps' /\ caps'[p] = caps[p]
    /\ \A p \in Ports : Canonical(ports', p) = Canonical(ports, p)

ListingsFrozen == [][ListingsKept]_storeVars

\* NBC N8 (setPortExpiredNow, setOfferExpiredNow): a revoked window stays
\* revoked; exposing the port again from another offer does not reopen it.
RevocationsKept ==
    /\ \A p \in DOMAIN portNbc :
         portNbc[p] = ExpiredNow => portNbc'[p] = ExpiredNow
    /\ \A o \in DOMAIN offerNbc :
         offerNbc[o] = ExpiredNow => offerNbc'[o] = ExpiredNow

RevocationFinal == [][RevocationsKept]_storeVars

(***************************************************************************)
(* The capacity the graph offers, as a BindLedger.                         *)
(***************************************************************************)
Listings == {p \in DOMAIN caps : ports[p].ref = NoPort}

Ledger == INSTANCE BindLedger
            WITH capacity <- [c \in Listings |-> caps[c]],
                 used     <- [c \in Listings |-> Tally(c)]

\* The store implements the ledger: capacity is listed once, taken one unit at
\* a time and never given back.
ImplementsLedger == Ledger!Spec
=============================================================================
