-------------------------- MODULE GraphStoreProofs --------------------------
(***************************************************************************)
(* Proofs about GraphStore for every value of its constants: typing, that  *)
(* every ref chain ends at one canonical port, and that max_bindings holds *)
(* over the canonical tally.                                               *)
(***************************************************************************)
EXTENDS GraphStore, FiniteSetTheorems, SequenceTheorems, TLAPS

(***************************************************************************)
(* Ref resolution.  A ref map is a function from some ports to records     *)
(* whose `ref' is a port or NoPort.                                        *)
(***************************************************************************)
IsRefMap(m) ==
    /\ DOMAIN m \subseteq Port
    /\ \A x \in DOMAIN m : m[x].ref \in Port \cup {NoPort}

\* No ref dangles.
IsRefClosed(m) == \A x \in DOMAIN m : m[x].ref # NoPort => m[x].ref \in DOMAIN m

\* A walk begins at its start.
LEMMA VisitedStart ==
  ASSUME NEW m, NEW p \in Port
  PROVE  p \in Visited(m, p)
BY DEF Visited

\* A walk stays inside every closed set that holds its start.
LEMMA VisitedLeast ==
  ASSUME NEW m, NEW p, NEW S \in SUBSET Port, p \in S, Closed(m, S)
  PROVE  Visited(m, p) \subseteq S
BY DEF Visited

\* A walk follows every ref it meets.
LEMMA VisitedFollows ==
  ASSUME NEW m, IsRefMap(m), NEW p, NEW x \in Visited(m, p),
         x \in DOMAIN m, m[x].ref # NoPort
  PROVE  m[x].ref \in Visited(m, p)
BY DEF Visited, Closed, IsRefMap

\* A walk from an id with nothing to follow ends there.
LEMMA VisitedStops ==
  ASSUME NEW m, NEW p \in Port, p \in DOMAIN m => m[p].ref = NoPort
  PROVE  Visited(m, p) = {p}
<1>1. Closed(m, {p})
  BY DEF Closed
<1>2. {p} \in SUBSET Port
  OBVIOUS
<1>. QED
  BY <1>1, <1>2, VisitedStart, VisitedLeast

\* What a walk meets after its first port, the walk from the next port meets.
LEMMA VisitedNext ==
  ASSUME NEW m, NEW x \in Port, x \in DOMAIN m, m[x].ref \in Port,
         NEW c \in Visited(m, x), c # x
  PROVE  c \in Visited(m, m[x].ref)
<1> DEFINE y == m[x].ref
<1>1. SUFFICES ASSUME NEW S \in SUBSET Port, y \in S, Closed(m, S)
               PROVE  c \in S
  BY DEF Visited
<1>2. Closed(m, S \cup {x}) /\ S \cup {x} \in SUBSET Port
  BY <1>1 DEF Closed
<1>3. c \in S \cup {x}
  BY <1>2, VisitedLeast
<1>. QED
  BY <1>3

\* A walk ends at one port at most: `ref' is a function.
LEMMA CanonicalUnique ==
  ASSUME NEW m, IsRefMap(m), NEW p \in Port,
         NEW c \in Canonical(m, p), NEW d \in Canonical(m, p)
  PROVE  c = d
<1> DEFINE S == {x \in Visited(m, p) : c \in Visited(m, x)}
<1>1. c \in Visited(m, p) /\ c \in Port /\ m[c].ref = NoPort
  BY DEF Canonical, IsRefMap
<1>2. d \in Visited(m, p) /\ d \in Port /\ m[d].ref = NoPort
  BY DEF Canonical, IsRefMap
<1>3. S \in SUBSET Port
  BY DEF Visited
<1>4. p \in S
  BY <1>1, VisitedStart
<1>5. Closed(m, S)
  <2>1. SUFFICES ASSUME NEW x \in S, x \in DOMAIN m, m[x].ref # NoPort
                 PROVE  m[x].ref \in S
    BY DEF Closed
  <2>2. m[x].ref \in Port /\ x \in Port
    BY <2>1 DEF IsRefMap
  <2>3. m[x].ref \in Visited(m, p)
    BY <2>1, VisitedFollows
  <2>4. c # x
    BY <1>1, <2>1
  <2>5. c \in Visited(m, m[x].ref)
    BY <2>1, <2>2, <2>4, VisitedNext
  <2>. QED
    BY <2>3, <2>5
<1>6. d \in S
  BY <1>2, <1>3, <1>4, <1>5, VisitedLeast
<1>7. Visited(m, d) = {d}
  BY <1>2, VisitedStops
<1>. QED
  BY <1>6, <1>7

\* Adding a port to a map whose refs do not dangle changes no earlier walk.
LEMMA VisitedStable ==
  ASSUME NEW m, IsRefMap(m), IsRefClosed(m), NEW k \in Port \ DOMAIN m, NEW v,
         NEW p \in DOMAIN m
  PROVE  /\ Visited(Put(m, k, v), p) = Visited(m, p)
         /\ Visited(m, p) \subseteq DOMAIN m
         /\ Canonical(Put(m, k, v), p) = Canonical(m, p)
<1> DEFINE n == Put(m, k, v)
<1>1. /\ DOMAIN n = DOMAIN m \cup {k}
      /\ \A x \in DOMAIN m : n[x] = m[x]
  BY DEF Put
<1>2. Visited(m, p) \subseteq DOMAIN m
  <2>1. Closed(m, DOMAIN m) /\ DOMAIN m \in SUBSET Port
    BY DEF Closed, IsRefClosed, IsRefMap
  <2>. QED
    BY <2>1, VisitedLeast
<1>3. ASSUME NEW S \in SUBSET Port, p \in S, Closed(m, S)
      PROVE  Visited(n, p) \subseteq S
  <2> DEFINE T == S \cap DOMAIN m
  <2>1. T \in SUBSET Port /\ p \in T
    BY <1>3
  <2>2. Closed(n, T)
    BY <1>1, <1>3 DEF Closed, IsRefClosed
  <2>3. Visited(n, p) \subseteq T
    BY <2>1, <2>2, VisitedLeast
  <2>. QED
    BY <2>3
<1>4. ASSUME NEW S \in SUBSET Port, p \in S, Closed(n, S)
      PROVE  Visited(m, p) \subseteq S
  <2>1. Closed(m, S)
    BY <1>1, <1>4 DEF Closed
  <2>. QED
    BY <1>4, <2>1, VisitedLeast
<1>5. Visited(n, p) \subseteq Visited(m, p)
  BY <1>3 DEF Visited
<1>6. Visited(m, p) \subseteq Visited(n, p)
  BY <1>4 DEF Visited
<1>7. Visited(n, p) = Visited(m, p)
  BY <1>5, <1>6
<1>8. Canonical(n, p) = Canonical(m, p)
  BY <1>1, <1>2, <1>7 DEF Canonical
<1>. QED
  BY <1>2, <1>7, <1>8
-----------------------------------------------------------------------------
(***************************************************************************)
(* Type correctness.                                                       *)
(***************************************************************************)
\* A call's record of one bind keeps the BINDS rows well typed.
LEMMA AddBindType ==
  ASSUME TypeOK, NEW o \in Offer, NEW p \in Ports, AddBind(o, p)
  PROVE  binds' \in Seq([offer : Offer, port : Ports])
BY AppendProperties DEF TypeOK, AddBind

\* Capacity is only ever found for a port that exists.
LEMMA CapacityNeedsPort ==
  ASSUME TypeOK, NEW p \in Port, HasCapacity(p)
  PROVE  p \in Ports
<1>1. SUFFICES ASSUME p \notin Ports PROVE FALSE
  OBVIOUS
<1>2. Visited(ports, p) = {p}
  BY <1>1, VisitedStops DEF Ports
<1>. QED
  BY <1>1, <1>2 DEF HasCapacity, Canonical, Ports

LEMMA RegisterPartyType ==
  ASSUME TypeOK, NEW a \in Party, RegisterParty(a)
  PROVE  TypeOK'
BY DEF TypeOK, RegisterParty, Offers, Ports, PortRecord

LEMMA ExtendOfferType ==
  ASSUME TypeOK, NEW o \in Offer, NEW a \in Party, NEW w \in Windows,
         NEW b \in Port \cup {NoPort}, ExtendOffer(o, a, w, b)
  PROVE  TypeOK'
<1>1. /\ Offers' = Offers \cup {o}
      /\ extends' \in [Offers' -> Party]
  BY DEF TypeOK, ExtendOffer, Offers, Put
<1>2. offerNbc' \in [Offers' -> Window]
  BY <1>1, WindowAssumption DEF TypeOK, ExtendOffer, Offers, Window, Put
<1>3. binds' \in Seq([offer : Offer, port : Ports])
  <2>1. CASE b # NoPort /\ HasCapacity(b) /\ ~IsBound(o, b)
    BY <2>1, AddBindType, CapacityNeedsPort DEF ExtendOffer
  <2>2. CASE ~(b # NoPort /\ HasCapacity(b) /\ ~IsBound(o, b))
    BY <2>2 DEF ExtendOffer, TypeOK
  <2>. QED
    BY <2>1, <2>2
<1>4. exposes' \in Seq([offer : Offers', port : Ports])
  <2>1. [offer : Offers, port : Ports] \subseteq [offer : Offers', port : Ports]
    BY <1>1
  <2>2. exposes' \in Seq([offer : Offers, port : Ports])
    BY DEF ExtendOffer, TypeOK
  <2>. QED
    BY <2>1, <2>2, SeqMonotonic
<1>5. /\ UNCHANGED <<strategy, parties, ports, caps, portNbc>>
      /\ Offers' \subseteq Offer
  BY <1>1 DEF ExtendOffer, TypeOK
<1>. QED
  BY <1>1, <1>2, <1>3, <1>4, <1>5 DEF TypeOK, Ports, PortRecord

LEMMA ExposePortType ==
  ASSUME TypeOK, NEW o \in Offer, NEW p \in Port, NEW port \in PortRecord,
         NEW n \in Caps, NEW w \in Windows, ExposePort(o, p, port, n, w)
  PROVE  TypeOK'
<1> DEFINE e == [offer |-> o, port |-> p]
<1>1. /\ UNCHANGED <<strategy, parties, extends, offerNbc, binds>>
      /\ o \in Offers /\ Offers' = Offers
  BY DEF ExposePort, Offers
<1>2. CASE p \in Ports
  <2>1. UNCHANGED <<ports, caps, portNbc>> /\ exposes' = Append(exposes, e)
    BY <1>2 DEF ExposePort, ReExpose
  <2>2. exposes' \in Seq([offer : Offers, port : Ports])
    BY <1>1, <1>2, <2>1, AppendProperties DEF TypeOK
  <2>. QED
    BY <1>1, <2>1, <2>2 DEF TypeOK, Ports, PortRecord
<1>3. CASE p \notin Ports
  <2>1. ExposeNew(o, p, port, n, w)
    BY <1>3 DEF ExposePort
  <2>2. /\ Ports' = Ports \cup {p}
        /\ ports' \in [Ports' -> PortRecord]
    BY <2>1 DEF ExposeNew, Ports, TypeOK, Put
  <2>3. binds \in Seq([offer : Offer, port : Ports'])
    <3>1. [offer : Offer, port : Ports] \subseteq [offer : Offer, port : Ports']
      BY <2>2
    <3>2. binds \in Seq([offer : Offer, port : Ports])
      BY DEF TypeOK
    <3>. QED
      BY <3>1, <3>2, SeqMonotonic
  <2>4. exposes \in Seq([offer : Offers, port : Ports'])
    <3>1. [offer : Offers, port : Ports] \subseteq [offer : Offers, port : Ports']
      BY <2>2
    <3>2. exposes \in Seq([offer : Offers, port : Ports])
      BY DEF TypeOK
    <3>. QED
      BY <3>1, <3>2, SeqMonotonic
  <2>5. CASE n >= 1
    <3>1. /\ caps' = Put(caps, p, n) /\ portNbc' = Put(portNbc, p, w)
          /\ exposes' = Append(exposes, e)
      BY <2>1, <2>5 DEF ExposeNew
    <3>2. n \in Nat \ {0} /\ w \in Window
      BY <2>5, CapsAssumption, WindowAssumption DEF Window
    <3>3. /\ DOMAIN caps' = DOMAIN caps \cup {p}
          /\ caps' \in [DOMAIN caps' -> Nat \ {0}]
      BY <3>1, <3>2 DEF TypeOK, Put
    <3>4. /\ DOMAIN portNbc' = DOMAIN portNbc \cup {p}
          /\ portNbc' \in [DOMAIN portNbc' -> Window]
      BY <3>1, <3>2 DEF TypeOK, Put
    <3>5. exposes' \in Seq([offer : Offers, port : Ports'])
      BY <1>1, <2>2, <2>4, <3>1, AppendProperties
    <3>. QED
      BY <1>1, <2>2, <2>3, <3>3, <3>4, <3>5 DEF TypeOK
  <2>6. CASE ~(n >= 1)
    <3>1. UNCHANGED <<caps, portNbc, exposes>>
      BY <2>1, <2>6 DEF ExposeNew
    <3>. QED
      BY <1>1, <2>2, <2>3, <2>4, <3>1 DEF TypeOK
  <2>. QED
    BY <2>5, <2>6
<1>. QED
  BY <1>2, <1>3

LEMMA BindPortType ==
  ASSUME TypeOK, NEW o \in Offer, NEW p \in Port, BindPort(o, p, HasCapacity(p))
  PROVE  TypeOK'
<1>1. binds' \in Seq([offer : Offer, port : Ports])
  BY AddBindType, CapacityNeedsPort DEF BindPort
<1>. QED
  BY <1>1 DEF TypeOK, BindPort, Offers, Ports, PortRecord

LEMMA SetPortExpiredNowType ==
  ASSUME TypeOK, NEW p \in Port, SetPortExpiredNow(p)
  PROVE  TypeOK'
<1>1. /\ DOMAIN portNbc' = DOMAIN portNbc \cup {p}
      /\ portNbc' \in [DOMAIN portNbc' -> Window]
  BY DEF SetPortExpiredNow, TypeOK, Window, ExpiredNow, Put
<1>. QED
  BY <1>1 DEF TypeOK, SetPortExpiredNow, Offers, Ports, PortRecord

LEMMA SetOfferExpiredNowType ==
  ASSUME TypeOK, NEW o \in Offer, SetOfferExpiredNow(o)
  PROVE  TypeOK'
<1> DEFINE exposed == {exposes[i].port : i \in {j \in DOMAIN exposes :
                                                  exposes[j].offer = o}}
<1>1. exposed \subseteq Ports
  <2>1. exposes \in [1..Len(exposes) -> [offer : Offers, port : Ports]]
    BY LenProperties DEF TypeOK
  <2>. QED
    BY <2>1
<1>2. /\ DOMAIN portNbc' = DOMAIN portNbc \cup exposed
      /\ portNbc' \in [DOMAIN portNbc' -> Window]
  BY DEF SetOfferExpiredNow, TypeOK, Window, ExpiredNow
<1>3. offerNbc' \in [Offers -> Window]
  BY DEF SetOfferExpiredNow, TypeOK, Window, ExpiredNow, Put, Offers
<1>. QED
  BY <1>1, <1>2, <1>3 DEF TypeOK, SetOfferExpiredNow, Offers, Ports, PortRecord

LEMMA InitType == Init => TypeOK
BY EmptySeq DEF Init, TypeOK, Offers, Ports

LEMMA NextType == TypeOK /\ [Next]_storeVars => TypeOK'
<1> SUFFICES ASSUME TypeOK, [Next]_storeVars PROVE TypeOK'
  OBVIOUS
<1>1. CASE Next
  BY <1>1, RegisterPartyType, ExtendOfferType, ExposePortType, BindPortType,
     SetPortExpiredNowType, SetOfferExpiredNowType DEF Next
<1>2. CASE UNCHANGED storeVars
  BY <1>2 DEF storeVars, TypeOK, Offers, Ports, PortRecord
<1>. QED
  BY <1>1, <1>2

\* In every state of the store each variable has its type: in particular no
\* BINDS or EXPOSES row names a port that does not exist.
THEOREM TypeCorrect == Spec => []TypeOK
BY InitType, NextType, PTL DEF Spec
-----------------------------------------------------------------------------
(***************************************************************************)
(* The tally of a canonical port.                                          *)
(***************************************************************************)
Counted(c) == {i \in DOMAIN binds : c \in Canonical(ports, binds[i].port)}

LEMMA TypedRefMap == TypeOK => IsRefMap(ports)
BY DEF TypeOK, IsRefMap, PortRecord, Ports

\* The rows counted for a port are finitely many.
LEMMA CountedFinite ==
  ASSUME TypeOK, NEW c
  PROVE  /\ Counted(c) \subseteq 1..Len(binds)
         /\ Len(binds) \in Nat
         /\ IsFiniteSet(Counted(c))
         /\ Tally(c) = Cardinality(Counted(c))
         /\ Tally(c) \in Nat
<1>1. Len(binds) \in Nat /\ DOMAIN binds = 1..Len(binds)
  BY LenProperties DEF TypeOK
<1>2. Counted(c) \subseteq 1..Len(binds)
  BY <1>1 DEF Counted
<1>3. IsFiniteSet(1..Len(binds))
  BY <1>1, FS_Interval
<1>4. IsFiniteSet(Counted(c))
  BY <1>2, <1>3, FS_Subset
<1>5. Tally(c) = Cardinality(Counted(c))
  BY DEF Tally, Counted
<1>. QED
  BY <1>1, <1>2, <1>4, <1>5, FS_CardinalityType

\* One more bind adds one to the canonical port it resolves to and nothing to
\* any other.
LEMMA TallyOfAddBind ==
  ASSUME TypeOK, UNCHANGED ports, NEW o \in Offer, NEW p \in Ports,
         AddBind(o, p), NEW c
  PROVE  Tally(c)' = IF c \in Canonical(ports, p) THEN Tally(c) + 1
                                                  ELSE Tally(c)
<1> DEFINE e == [offer |-> o, port |-> p]
           k == Len(binds) + 1
<1>1. binds \in Seq([offer : Offer, port : Ports]) /\ e \in [offer : Offer, port : Ports]
  BY DEF TypeOK
<1>2. /\ binds' \in Seq([offer : Offer, port : Ports])
      /\ Len(binds') = k
      /\ \A i \in 1..Len(binds) : binds'[i] = binds[i]
      /\ binds'[k] = e
  BY <1>1, AppendProperties DEF AddBind
<1>3. /\ Len(binds) \in Nat
      /\ DOMAIN binds = 1..Len(binds)
      /\ DOMAIN binds' = 1..Len(binds')
  BY <1>1, <1>2, LenProperties
<1>4. 1..k = 1..Len(binds) \cup {k} /\ k \notin 1..Len(binds)
  BY <1>3
<1>5. /\ Counted(c)' = {i \in 1..k : c \in Canonical(ports, binds'[i].port)}
      /\ Counted(c) = {i \in 1..Len(binds) : c \in Canonical(ports, binds[i].port)}
  BY <1>2, <1>3 DEF Counted
<1>6. Tally(c)' = Cardinality(Counted(c)') /\ Tally(c) = Cardinality(Counted(c))
  BY DEF Tally, Counted
<1>7. CASE c \in Canonical(ports, p)
  <2>1. Counted(c)' = Counted(c) \cup {k}
    BY <1>2, <1>4, <1>5, <1>7
  <2>2. k \notin Counted(c)
    BY <1>4, <1>5
  <2>. QED
    <3>1. IsFiniteSet(Counted(c))
      BY CountedFinite
    <3>2. Cardinality(Counted(c) \cup {k}) = Cardinality(Counted(c)) + 1
      BY <2>2, <3>1, FS_AddElement
    <3>. QED
      BY <1>6, <1>7, <2>1, <3>2
<1>8. CASE c \notin Canonical(ports, p)
  <2>1. Counted(c)' = Counted(c)
    BY <1>2, <1>4, <1>5, <1>8
  <2>. QED
    BY <1>6, <1>8, <2>1
<1>. QED
  BY <1>7, <1>8

\* Storing a new port changes no tally, and nothing is counted against it yet.
LEMMA TallyOfNewPort ==
  ASSUME TypeOK, IsRefClosed(ports), UNCHANGED binds,
         NEW k \in Port \ Ports, NEW v, ports' = Put(ports, k, v), NEW c
  PROVE  /\ Tally(c)' = Tally(c)
         /\ Tally(k) = 0
<1>1. IsRefMap(ports)
  BY TypedRefMap
<1>2. \A i \in DOMAIN binds : binds[i].port \in Ports
  <2>1. binds \in [1..Len(binds) -> [offer : Offer, port : Ports]]
    BY LenProperties DEF TypeOK
  <2>. QED
    BY <2>1
<1>3. \A q \in Ports : /\ Canonical(ports', q) = Canonical(ports, q)
                       /\ Canonical(ports, q) \subseteq Ports
  BY <1>1, VisitedStable DEF Ports, Canonical
<1>4. Tally(c)' = Tally(c)
  BY <1>2, <1>3 DEF Tally
<1>5. {i \in DOMAIN binds : k \in Canonical(ports, binds[i].port)} = {}
  BY <1>2, <1>3
<1>. QED
  BY <1>4, <1>5, FS_EmptySet DEF Tally
-----------------------------------------------------------------------------
(***************************************************************************)
(* The inductive invariant.  Neither RefsResolve nor CapacityRespected is  *)
(* inductive alone: a port stored later could bend an earlier walk unless  *)
(* refs never dangle, and a bind is checked against one canonical port     *)
(* only because there is just one.                                         *)
(***************************************************************************)
IInv ==
    /\ TypeOK
    /\ IsRefClosed(ports)
    /\ RefsResolve
    /\ CapacityRespected

\* A bind that found capacity leaves every port within its capacity.
LEMMA AddBindCapacity ==
  ASSUME IInv, UNCHANGED <<ports, caps>>, NEW o \in Offer, NEW p \in Port,
         HasCapacity(p), AddBind(o, p)
  PROVE  CapacityRespected'
<1>1. PICK c \in Canonical(ports, p) : c \in DOMAIN caps /\ Tally(c) < caps[c]
  BY DEF HasCapacity
<1>2. p \in Ports
  BY CapacityNeedsPort DEF IInv
<1>3. SUFFICES ASSUME NEW d \in DOMAIN caps
               PROVE  Tally(d)' <= caps[d]
  BY DEF CapacityRespected
<1>4. Tally(d)' = IF d \in Canonical(ports, p) THEN Tally(d) + 1 ELSE Tally(d)
  BY <1>2, TallyOfAddBind DEF IInv
<1>5. Tally(d) \in Nat /\ caps[d] \in Nat /\ Tally(d) <= caps[d]
  BY CountedFinite DEF IInv, CapacityRespected, TypeOK
<1>6. CASE d \in Canonical(ports, p)
  <2>1. d = c
    BY <1>1, <1>6, CanonicalUnique, TypedRefMap DEF IInv
  <2>. QED
    BY <1>1, <1>4, <1>5, <1>6, <2>1
<1>7. CASE d \notin Canonical(ports, p)
  BY <1>4, <1>5, <1>7
<1>. QED
  BY <1>6, <1>7

\* A step that leaves the graph of refs alone leaves resolution alone.
LEMMA RefsKept ==
  ASSUME IInv, UNCHANGED ports
  PROVE  IsRefClosed(ports)' /\ RefsResolve'
BY DEF IInv, IsRefClosed, RefsResolve, Ports

LEMMA CapacityKept ==
  ASSUME IInv, UNCHANGED <<ports, caps, binds>>
  PROVE  CapacityRespected'
BY DEF IInv, CapacityRespected, Tally

LEMMA ExtendOfferInv ==
  ASSUME IInv, NEW o \in Offer, NEW a \in Party, NEW w \in Windows,
         NEW b \in Port \cup {NoPort}, ExtendOffer(o, a, w, b)
  PROVE  IInv'
<1>1. TypeOK'
  BY ExtendOfferType DEF IInv
<1>2. UNCHANGED <<ports, caps>>
  BY DEF ExtendOffer
<1>3. CapacityRespected'
  <2>1. CASE b # NoPort /\ HasCapacity(b) /\ ~IsBound(o, b)
    BY <1>2, <2>1, AddBindCapacity DEF ExtendOffer
  <2>2. CASE ~(b # NoPort /\ HasCapacity(b) /\ ~IsBound(o, b))
    BY <1>2, <2>2, CapacityKept DEF ExtendOffer
  <2>. QED
    BY <2>1, <2>2
<1>. QED
  BY <1>1, <1>2, <1>3, RefsKept DEF IInv

LEMMA BindPortInv ==
  ASSUME IInv, NEW o \in Offer, NEW p \in Port, BindPort(o, p, HasCapacity(p))
  PROVE  IInv'
<1>1. TypeOK'
  BY BindPortType DEF IInv
<1>2. CapacityRespected'
  BY AddBindCapacity DEF BindPort
<1>. QED
  BY <1>1, <1>2, RefsKept DEF BindPort, IInv

LEMMA ExposePortInv ==
  ASSUME IInv, NEW o \in Offer, NEW p \in Port, NEW port \in PortRecord,
         NEW n \in Caps, NEW w \in Windows, ExposePort(o, p, port, n, w)
  PROVE  IInv'
<1>1. TypeOK'
  BY ExposePortType DEF IInv
<1>2. CASE p \in Ports
  BY <1>1, <1>2, RefsKept, CapacityKept DEF ExposePort, ReExpose, IInv
<1>3. CASE p \notin Ports
  <2>1. /\ ports' = Put(ports, p, port)
        /\ RefAccepted(ports', p)
        /\ UNCHANGED binds
        /\ IF n >= 1 THEN caps' = Put(caps, p, n) ELSE UNCHANGED caps
    BY <1>3 DEF ExposePort, ExposeNew
  <2>2. /\ Ports' = Ports \cup {p}
        /\ \A q \in Ports : ports'[q] = ports[q]
    <3>1. ports' = Put(ports, p, port)
      BY <2>1
    <3>2. /\ DOMAIN ports' = DOMAIN ports \cup {p}
          /\ \A q \in DOMAIN ports : q # p => ports'[q] = ports[q]
      BY <3>1 DEF Put
    <3>. QED
      BY <1>3, <3>2 DEF Ports
  <2>3. IsRefMap(ports')
    BY <1>1, TypedRefMap DEF TypeOK, IsRefMap, PortRecord, Ports
  <2>4. IsRefClosed(ports')
    BY <2>1, <2>2 DEF IsRefClosed, RefAccepted, IInv, Ports
  <2>5. RefsResolve'
    <3>1. SUFFICES ASSUME NEW q \in Ports'
                   PROVE  \E c \in Ports' : Canonical(ports', q) = {c}
      BY DEF RefsResolve
    <3>2. CASE q \in Ports
      <4>1. Canonical(ports', q) = Canonical(ports, q)
        BY <1>3, <2>1, <3>2, TypedRefMap, VisitedStable DEF IInv, Ports
      <4>. QED
        BY <2>2, <3>2, <4>1 DEF IInv, RefsResolve
    <3>3. CASE q = p
      <4>1. PICK c : c \in Canonical(ports', p)
        BY <2>1 DEF RefAccepted
      <4>2. \A d \in Canonical(ports', p) : d = c
        BY <2>3, <4>1, CanonicalUnique
      <4>3. c \in Ports'
        BY <4>1 DEF Canonical, Ports
      <4>. QED
        BY <3>3, <4>1, <4>2, <4>3
    <3>. QED
      BY <2>2, <3>2, <3>3
  <2>6. CapacityRespected'
    <3>1. SUFFICES ASSUME NEW c \in DOMAIN caps'
                   PROVE  Tally(c)' <= caps'[c]
      BY DEF CapacityRespected
    <3>2. Tally(c)' = Tally(c) /\ Tally(p) = 0
      BY <1>3, <2>1, TallyOfNewPort DEF IInv
    <3>3. p \notin DOMAIN caps
      BY <1>3 DEF IInv, TypeOK
    <3>4. CASE c \in DOMAIN caps
      BY <2>1, <3>2, <3>3, <3>4 DEF Put, IInv, CapacityRespected
    <3>5. CASE c \notin DOMAIN caps
      <4>1. n >= 1 /\ c = p /\ caps'[c] = n
        BY <2>1, <3>5 DEF Put
      <4>. QED
        BY <3>2, <4>1, CapsAssumption
    <3>. QED
      BY <3>4, <3>5
  <2>. QED
    BY <1>1, <2>4, <2>5, <2>6 DEF IInv
<1>. QED
  BY <1>2, <1>3

LEMMA InitInv == Init => IInv
<1> SUFFICES ASSUME Init PROVE IInv
  OBVIOUS
<1>1. TypeOK
  BY InitType
<1>2. Ports = {} /\ DOMAIN ports = {} /\ DOMAIN caps = {}
  BY DEF Init, Ports
<1>. QED
  BY <1>1, <1>2 DEF IInv, IsRefClosed, RefsResolve, CapacityRespected

LEMMA NextInv == IInv /\ [Next]_storeVars => IInv'
<1> SUFFICES ASSUME IInv, [Next]_storeVars PROVE IInv'
  OBVIOUS
<1>1. TypeOK'
  BY NextType DEF IInv
<1>2. ASSUME NEW a \in Party, RegisterParty(a) PROVE IInv'
  BY <1>1, <1>2, RefsKept, CapacityKept DEF RegisterParty, IInv
<1>3. ASSUME NEW p \in Port, SetPortExpiredNow(p) PROVE IInv'
  BY <1>1, <1>3, RefsKept, CapacityKept DEF SetPortExpiredNow, IInv
<1>4. ASSUME NEW o \in Offer, SetOfferExpiredNow(o) PROVE IInv'
  BY <1>1, <1>4, RefsKept, CapacityKept DEF SetOfferExpiredNow, IInv
<1>5. CASE UNCHANGED storeVars
  BY <1>1, <1>5, RefsKept, CapacityKept DEF storeVars, IInv
<1>. QED
  BY <1>2, <1>3, <1>4, <1>5, ExtendOfferInv, ExposePortInv, BindPortInv DEF Next

\* The invariant of the store holds in every state, over any sequence of calls.
THEOREM Invariant == Spec => []IInv
BY InitInv, NextInv, PTL DEF Spec

\* Every stored port resolves to exactly one canonical port, however many
\* ports refer to each other and in whatever order they were exposed.
THEOREM RefsAlwaysResolve == Spec => []RefsResolve
BY Invariant, PTL DEF IInv

\* max_bindings holds for every canonical port, counted over all its aliases.
THEOREM CapacityAlwaysRespected == Spec => []CapacityRespected
BY Invariant, PTL DEF IInv
-----------------------------------------------------------------------------
(***************************************************************************)
(* What no step may do.                                                    *)
(***************************************************************************)
LEMMA NextKeepsListings == IInv /\ [Next]_storeVars => [ListingsKept]_storeVars
<1> SUFFICES ASSUME IInv, Next PROVE ListingsKept
  BY DEF ListingsKept
<1>1. ASSUME UNCHANGED <<ports, caps>> PROVE ListingsKept
  BY <1>1 DEF ListingsKept, Ports
<1>2. ASSUME NEW o \in Offer, NEW p \in Port, NEW port \in PortRecord,
             NEW n \in Caps, NEW w \in Windows, ExposePort(o, p, port, n, w)
      PROVE  ListingsKept
  <2>1. CASE p \in Ports
    BY <1>1, <1>2, <2>1 DEF ExposePort, ReExpose
  <2>2. CASE p \notin Ports
    <3>1. /\ ports' = Put(ports, p, port)
          /\ \/ caps' = Put(caps, p, n)
             \/ caps' = caps
      BY <1>2, <2>2 DEF ExposePort, ExposeNew
    <3>2. p \notin DOMAIN caps /\ IsRefMap(ports) /\ IsRefClosed(ports)
      BY <2>2, TypedRefMap DEF IInv, TypeOK
    <3>3. \A q \in Ports : q \in Ports' /\ ports'[q] = ports[q]
      BY <2>2, <3>1 DEF Put, Ports
    <3>4. \A q \in DOMAIN caps : q \in DOMAIN caps' /\ caps'[q] = caps[q]
      BY <3>1, <3>2 DEF Put
    <3>5. \A q \in Ports : Canonical(ports', q) = Canonical(ports, q)
      BY <2>2, <3>1, <3>2, VisitedStable DEF Ports
    <3>. QED
      BY <3>3, <3>4, <3>5 DEF ListingsKept
  <2>. QED
    BY <2>1, <2>2
<1>. QED
  BY <1>1, <1>2 DEF Next, RegisterParty, ExtendOffer, BindPort,
     SetPortExpiredNow, SetOfferExpiredNow

\* Whatever is exposed, extended, bound or revoked later, a stored port keeps
\* its record, its capacity and its canonical port.
THEOREM ListingsStayFrozen == Spec => ListingsFrozen
BY Invariant, NextKeepsListings, PTL DEF Spec, ListingsFrozen

LEMMA NextKeepsRevocations ==
  IInv /\ [Next]_storeVars => [RevocationsKept]_storeVars
<1> SUFFICES ASSUME IInv, Next PROVE RevocationsKept
  BY DEF RevocationsKept
<1>1. ASSUME UNCHANGED <<offerNbc, portNbc>> PROVE RevocationsKept
  BY <1>1 DEF RevocationsKept
<1>2. ASSUME NEW o \in Offer, NEW a \in Party, NEW w \in Windows,
             NEW b \in Port \cup {NoPort}, ExtendOffer(o, a, w, b)
      PROVE  RevocationsKept
  <2>1. o \notin DOMAIN offerNbc
    BY <1>2 DEF ExtendOffer, IInv, TypeOK
  <2>. QED
    BY <1>2, <2>1 DEF ExtendOffer, RevocationsKept, Put
<1>3. ASSUME NEW o \in Offer, NEW p \in Port, NEW port \in PortRecord,
             NEW n \in Caps, NEW w \in Windows, ExposePort(o, p, port, n, w)
      PROVE  RevocationsKept
  <2>1. CASE p \in Ports
    BY <1>1, <1>3, <2>1 DEF ExposePort, ReExpose
  <2>2. CASE p \notin Ports
    <3>1. p \notin DOMAIN portNbc
      BY <2>2 DEF IInv, TypeOK
    <3>2. /\ UNCHANGED offerNbc
          /\ \/ portNbc' = Put(portNbc, p, w)
             \/ portNbc' = portNbc
      BY <1>3, <2>2 DEF ExposePort, ExposeNew
    <3>. QED
      BY <3>1, <3>2 DEF RevocationsKept, Put
  <2>. QED
    BY <2>1, <2>2
<1>4. ASSUME NEW p \in Port, SetPortExpiredNow(p) PROVE RevocationsKept
  BY <1>4 DEF SetPortExpiredNow, RevocationsKept, Put
<1>5. ASSUME NEW o \in Offer, SetOfferExpiredNow(o) PROVE RevocationsKept
  BY <1>5 DEF SetOfferExpiredNow, RevocationsKept, Put
<1>. QED
  BY <1>1, <1>2, <1>3, <1>4, <1>5 DEF Next, RegisterParty, BindPort

\* A revoked window is never reopened, by no call and in no order of calls.
THEOREM RevocationsStayFinal == Spec => RevocationFinal
BY Invariant, NextKeepsRevocations, PTL DEF Spec, RevocationFinal
-----------------------------------------------------------------------------
(***************************************************************************)
(* Exposure.  A transactional store never holds a port without an edge: an *)
(* id enters the map together with its first edge, and edges stay.         *)
(***************************************************************************)
PortsExposed == strategy = "sqlite" => \A p \in Ports : IsExposed(p)

HasEdge(edges, o, p) ==
    \E j \in DOMAIN edges : edges[j] = [offer |-> o, port |-> p]

\* The rows of a step's `exposes' are all there after it.
EdgesKept == \A x, q : HasEdge(exposes, x, q) => HasEdge(exposes', x, q)

\* The rows of `exposes', whichever offers and ports they name.
Edge == [offer : Offer, port : Port]

LEMMA TypedEdges == TypeOK => exposes \in Seq(Edge)
<1> SUFFICES ASSUME TypeOK PROVE exposes \in Seq(Edge)
  OBVIOUS
<1>1. [offer : Offers, port : Ports] \subseteq Edge
  BY DEF TypeOK, Edge
<1>2. exposes \in Seq([offer : Offers, port : Ports])
  BY DEF TypeOK
<1>. QED
  BY <1>1, <1>2, SeqMonotonic

\* The row an expose appends hides no earlier one.
LEMMA EdgeAppended ==
  ASSUME TypeOK, NEW o \in Offer, NEW p \in Port,
         exposes' = Append(exposes, [offer |-> o, port |-> p])
  PROVE  /\ HasEdge(exposes', o, p)
         /\ EdgesKept
         /\ IsExposed(p)'
         /\ \A q : IsExposed(q) => IsExposed(q)'
<1> DEFINE e == [offer |-> o, port |-> p]
<1>1. exposes \in Seq(Edge) /\ e \in Edge
  BY TypedEdges DEF Edge
<1>2. /\ exposes' \in Seq(Edge)
      /\ Len(exposes') = Len(exposes) + 1
      /\ \A i \in 1..Len(exposes) : exposes'[i] = exposes[i]
      /\ exposes'[Len(exposes) + 1] = e
  BY <1>1, AppendProperties
<1>3. /\ Len(exposes) \in Nat
      /\ DOMAIN exposes = 1..Len(exposes)
      /\ DOMAIN exposes' = 1..(Len(exposes) + 1)
  BY <1>1, <1>2, LenProperties
<1>. QED
  BY <1>2, <1>3 DEF HasEdge, EdgesKept, IsExposed

LEMMA NextExposed ==
  ASSUME IInv, PortsExposed, [Next]_storeVars
  PROVE  PortsExposed'
<1>1. ASSUME UNCHANGED <<strategy, ports, exposes>> PROVE PortsExposed'
  BY <1>1 DEF PortsExposed, IsExposed, Ports
<1>2. ASSUME NEW o \in Offer, NEW p \in Port, NEW port \in PortRecord,
             NEW n \in Caps, NEW w \in Windows, ExposePort(o, p, port, n, w)
      PROVE  PortsExposed'
  <2> SUFFICES ASSUME strategy' = "sqlite", NEW q \in Ports'
               PROVE  IsExposed(q)'
    BY DEF PortsExposed
  <2>1. strategy = "sqlite" /\ o \in Offers
    BY <1>2 DEF ExposePort
  <2>2. /\ exposes' = Append(exposes, [offer |-> o, port |-> p])
        /\ q \in Ports \/ q = p
    <3>1. CASE p \in Ports
      BY <1>2, <3>1 DEF ExposePort, ReExpose, Ports
    <3>2. CASE p \notin Ports
      BY <1>2, <2>1, <3>2 DEF ExposePort, ExposeNew, KeepsPartialWrites, Ports, Put
    <3>. QED
      BY <3>1, <3>2
  <2>3. Ports \subseteq Port
    BY DEF IInv, TypeOK
  <2>. QED
    BY <2>1, <2>2, <2>3, EdgeAppended DEF IInv, PortsExposed
<1>3. CASE UNCHANGED storeVars
  BY <1>1, <1>3 DEF storeVars
<1>. QED
  BY <1>1, <1>2, <1>3 DEF Next, RegisterParty, ExtendOffer, BindPort,
     SetPortExpiredNow, SetOfferExpiredNow

\* Persistence rule 2, of the SQLite store: whatever calls fail in between, a
\* bound port is the target of an EXPOSES edge.
THEOREM BoundPortsStayExposed == Spec => []BoundPortsExposedIfAtomic
<1>1. Init => PortsExposed
  BY DEF Init, PortsExposed, Ports
<1>2. IInv /\ PortsExposed => BoundPortsExposedIfAtomic
  <2> SUFFICES ASSUME IInv, PortsExposed, strategy = "sqlite", NEW i \in DOMAIN binds
               PROVE  IsExposed(binds[i].port)
    BY DEF BoundPortsExposedIfAtomic, BoundPortsExposed
  <2>1. binds \in [1..Len(binds) -> [offer : Offer, port : Ports]]
    BY LenProperties DEF IInv, TypeOK
  <2>2. binds[i].port \in Ports
    BY <2>1
  <2>. QED
    BY <2>2 DEF PortsExposed
<1>. QED
  BY <1>1, <1>2, NextExposed, Invariant, PTL DEF Spec
-----------------------------------------------------------------------------
(***************************************************************************)
(* The refinement of BindLedger.  A listing is a canonical port with a     *)
(* recorded capacity; what is used of it is the tally over its aliases.    *)
(* The first expose of such a port is List, a bind is Take of the one port *)
(* its target resolves to, and every other call leaves the ledger alone.   *)
(***************************************************************************)
LEMMA LedgerKept ==
  ASSUME UNCHANGED <<ports, caps, binds>>
  PROVE  UNCHANGED Ledger!vars
BY DEF Ledger!vars, Listings, Tally

\* A bind that found capacity takes one unit of one listing.
LEMMA BindTakes ==
  ASSUME IInv, UNCHANGED <<ports, caps>>, NEW o \in Offer, NEW p \in Port,
         HasCapacity(p), AddBind(o, p)
  PROVE  Ledger!Next
<1>1. PICK c \in Canonical(ports, p) : c \in DOMAIN caps /\ Tally(c) < caps[c]
  BY DEF HasCapacity
<1>2. p \in Ports
  BY CapacityNeedsPort DEF IInv
<1>3. c \in Listings /\ Listings' = Listings
  BY <1>1 DEF Listings, Canonical
<1>4. \A d \in Listings : Tally(d)' = IF d = c THEN Tally(d) + 1 ELSE Tally(d)
  <2>1. \A d \in Listings : Tally(d)' = IF d \in Canonical(ports, p) THEN Tally(d) + 1
                                                                   ELSE Tally(d)
    BY <1>2, TallyOfAddBind DEF IInv
  <2>2. \A d \in Canonical(ports, p) : d = c
    BY <1>1, CanonicalUnique, TypedRefMap DEF IInv
  <2>. QED
    BY <1>1, <2>1, <2>2
<1>5. Ledger!Take(c)
  <2>1. [d \in Listings |-> Tally(d)]' = [[d \in Listings |-> Tally(d)]
                                           EXCEPT ![c] = @ + 1]
    BY <1>3, <1>4
  <2>2. [d \in Listings |-> caps[d]]' = [d \in Listings |-> caps[d]]
    BY <1>3
  <2>. QED
    BY <1>1, <1>3, <2>1, <2>2 DEF Ledger!Take
<1>. QED
  BY <1>3, <1>5 DEF Ledger!Next

\* An expose lists a new canonical port or leaves the ledger alone.
LEMMA ExposeLists ==
  ASSUME IInv, NEW o \in Offer, NEW p \in Port, NEW port \in PortRecord,
         NEW n \in Caps, NEW w \in Windows, ExposePort(o, p, port, n, w)
  PROVE  [Ledger!Next]_Ledger!vars
<1>1. CASE p \in Ports
  BY <1>1, LedgerKept DEF ExposePort, ReExpose
<1>2. CASE p \notin Ports
  <2>1. /\ ports' = Put(ports, p, port)
        /\ UNCHANGED binds
        /\ IF n >= 1 THEN caps' = Put(caps, p, n) ELSE UNCHANGED caps
    BY <1>2 DEF ExposePort, ExposeNew
  <2>2. /\ \A c \in DOMAIN caps : ports'[c] = ports[c] /\ c # p
        /\ ports'[p] = port
    BY <1>2, <2>1 DEF IInv, TypeOK, Ports, Put
  <2>3. \A c : Tally(c)' = Tally(c)
    BY <1>2, <2>1, TallyOfNewPort DEF IInv
  <2>4. Tally(p) = 0
    BY <1>2, <2>1, TallyOfNewPort DEF IInv
  <2>5. CASE n >= 1 /\ port.ref = NoPort
    <3>1. Listings' = Listings \cup {p} /\ p \notin Listings
      BY <2>1, <2>2, <2>5 DEF Listings, Put
    <3>2. \A c \in Listings' : caps'[c] = IF c = p THEN n ELSE caps[c]
      BY <2>1, <2>5 DEF Listings, Put
    <3>3. Ledger!List(p, n)
      BY <2>3, <2>4, <2>5, <3>1, <3>2 DEF Ledger!List, Ledger!Extended
    <3>. QED
      BY <3>3 DEF Ledger!Next
  <2>6. CASE ~(n >= 1 /\ port.ref = NoPort)
    <3>1. Listings' = Listings
      BY <2>1, <2>2, <2>6 DEF Listings, Put
    <3>2. \A c \in Listings : caps'[c] = caps[c]
      BY <2>1, <2>2 DEF Listings, Put
    <3>. QED
      BY <2>3, <3>1, <3>2 DEF Ledger!vars
  <2>. QED
    BY <2>5, <2>6
<1>. QED
  BY <1>1, <1>2

LEMMA NextLedger ==
  ASSUME IInv, [Next]_storeVars
  PROVE  [Ledger!Next]_Ledger!vars
<1>1. ASSUME NEW o \in Offer, NEW a \in Party, NEW w \in Windows,
             NEW b \in Port \cup {NoPort}, ExtendOffer(o, a, w, b)
      PROVE  [Ledger!Next]_Ledger!vars
  <2>1. CASE b # NoPort /\ HasCapacity(b) /\ ~IsBound(o, b)
    BY <1>1, <2>1, BindTakes DEF ExtendOffer
  <2>2. CASE ~(b # NoPort /\ HasCapacity(b) /\ ~IsBound(o, b))
    BY <1>1, <2>2, LedgerKept DEF ExtendOffer
  <2>. QED
    BY <2>1, <2>2
<1>2. ASSUME NEW o \in Offer, NEW p \in Port, BindPort(o, p, HasCapacity(p))
      PROVE  [Ledger!Next]_Ledger!vars
  BY <1>2, BindTakes DEF BindPort
<1>3. ASSUME UNCHANGED <<ports, caps, binds>> PROVE [Ledger!Next]_Ledger!vars
  BY <1>3, LedgerKept
<1>. QED
  BY <1>1, <1>2, <1>3, ExposeLists
     DEF Next, RegisterParty, SetPortExpiredNow, SetOfferExpiredNow, storeVars

\* The store implements the ledger: whichever aliases are bound, through
\* whichever call, capacity is listed once, taken unit by unit and kept.
THEOREM StoreRefinesLedger == Spec => ImplementsLedger
<1>1. Init => Ledger!Init
  BY DEF Init, Ledger!Init, Listings
<1>2. IInv /\ [Next]_storeVars => [Ledger!Next]_Ledger!vars
  BY NextLedger
<1>. QED
  BY <1>1, <1>2, Invariant, PTL DEF Spec, ImplementsLedger, Ledger!Spec
=============================================================================
