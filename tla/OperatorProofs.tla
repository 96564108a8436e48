-------------------------- MODULE OperatorProofs --------------------------
(***************************************************************************)
(* Proofs about the components that run checks MCOperators together, for   *)
(* any values of their constants: the hybrid clock, the interface algebra, *)
(* and what a host does beside the store - the cache of compiled bind      *)
(* policies, and the way of a turn from a model's output to the peer's     *)
(* parser - and the Merkle trees over logs and libraries.                  *)
(***************************************************************************)
EXTENDS HybridClock, OfferAlgebra, PolicyCache, TurnBodies, SessionLog, Library,
        Recursion, SequenceTheorems, TLAPS

-----------------------------------------------------------------------------
(***************************************************************************)
(* HybridClock: for any peers and frames, any readings of the wall clocks  *)
(* and any skew, stamps follow causality, and what a peer has heard of is  *)
(* past for it.                                                            *)
(***************************************************************************)
\* No two frames share an id.
IdsUnique == \A m, n \in mail : m.id = n.id => m = n

\* What anyone has heard of was sent.
HeardWasSent ==
    /\ \A p \in Peers : \A i \in heard[p] : \E m \in mail : m.id = i
    /\ \A n \in mail : \A i \in n.after : \E m \in mail : m.id = i

\* A clock is not behind the stamp of a frame its peer has heard of.
NotBehind ==
    \A p \in Peers, m \in mail : m.id \in heard[p] => ~Before(hlc[p], m.at)

ClockInv == ClockTypeOK /\ IdsUnique /\ HeardWasSent /\ NotBehind /\ CausalOrder
-----------------------------------------------------------------------------
\* sendHlc returns a stamp after the clock, whatever the wall clock says.
LEMMA SendIsLater ==
    ASSUME NEW s \in Stamp, NEW wall \in Nat
    PROVE  SendHlc(s, wall) \in Stamp /\ Before(s, SendHlc(s, wall))
  BY DEF Stamp, SendHlc, Before

\* recvHlc returns a stamp after the clock and after the message's.
LEMMA ReceiveIsLater ==
    ASSUME NEW s \in Stamp, NEW t \in Stamp, NEW wall \in Nat
    PROVE  /\ RecvHlc(s, t, wall) \in Stamp
           /\ Before(s, RecvHlc(s, t, wall))
           /\ Before(t, RecvHlc(s, t, wall))
  BY DEF Stamp, RecvHlc, Before, Larger

\* The order of stamps is a strict one.
LEMMA StampOrder ==
    ASSUME NEW s \in Stamp, NEW t \in Stamp, NEW u \in Stamp
    PROVE  /\ ~Before(s, s)
           /\ Before(s, t) /\ Before(t, u) => Before(s, u)
           /\ ~Before(t, s) /\ Before(t, u) => Before(s, u)
  BY DEF Stamp, Before
-----------------------------------------------------------------------------
\* Clocks that have sent nothing satisfy the invariant.
LEMMA InitClock == ClockInit => ClockInv
  <1> SUFFICES ASSUME ClockInit PROVE ClockInv
    OBVIOUS
  <1>1. ClockTypeOK
    BY ClockAssumption DEF ClockInit, ClockTypeOK, Stamp, Mail
  <1> QED
    BY <1>1 DEF ClockInit, ClockInv, IdsUnique, HeardWasSent, NotBehind, CausalOrder

\* sendHlc keeps the invariant.
LEMMA SendKeeps ==
    ASSUME ClockInv, NEW p \in Peers, Send(p)
    PROVE  ClockInv'
  <1>1. PICK id \in Ids, wall \in Walls :
          LET at == SendHlc(hlc[p], wall) IN
          /\ \A m \in mail : m.id # id
          /\ hlc' = [hlc EXCEPT ![p] = at]
          /\ mail' = mail \cup {[id |-> id, at |-> at, after |-> heard[p]]}
          /\ heard' = [heard EXCEPT ![p] = @ \cup {id}]
          /\ UNCHANGED samples
    BY DEF Send
  <1> DEFINE at == SendHlc(hlc[p], wall)
             new == [id |-> id, at |-> at, after |-> heard[p]]
  <1>2. /\ hlc \in [Peers -> Stamp] /\ mail \subseteq Mail
        /\ heard \in [Peers -> SUBSET Ids] /\ hlc[p] \in Stamp /\ wall \in Nat
    BY ClockAssumption DEF ClockInv, ClockTypeOK
  <1>3. at \in Stamp /\ Before(hlc[p], at)
    BY <1>2, SendIsLater
  <1> HIDE DEF at
  <1>4. new \in Mail /\ new.id = id /\ new.at = at /\ new.after = heard[p]
    BY <1>2, <1>3 DEF Mail
  <1>5. /\ \A m \in mail : m.id # id
        /\ mail' = mail \cup {new}
        /\ \A q \in Peers : hlc'[q] = IF q = p THEN at ELSE hlc[q]
        /\ \A q \in Peers : heard'[q] = IF q = p THEN heard[p] \cup {id} ELSE heard[q]
        /\ hlc' = [hlc EXCEPT ![p] = at] /\ samples' = samples
        /\ heard' = [heard EXCEPT ![p] = @ \cup {id}]
    BY <1>1, <1>2 DEF at
  <1> HIDE DEF new
  <1>6. \A i \in heard[p] : i # id
    BY <1>5 DEF ClockInv, HeardWasSent
  <1>7. ClockTypeOK'
    BY <1>2, <1>3, <1>4, <1>5 DEF ClockInv, ClockTypeOK
  <1>8. IdsUnique'
    BY <1>4, <1>5 DEF ClockInv, IdsUnique
  <1>9. HeardWasSent'
    BY <1>4, <1>5 DEF ClockInv, HeardWasSent
  <1>10. NotBehind'
    <2> SUFFICES ASSUME NEW q \in Peers, NEW m \in mail', m.id \in heard'[q]
                 PROVE  ~Before(hlc'[q], m.at)
      BY DEF NotBehind
    <2>1. CASE m = new
      <3>1. q = p
        BY <2>1, <1>4, <1>5 DEF ClockInv, HeardWasSent
      <3> QED
        BY <2>1, <3>1, <1>3, <1>4, <1>5, StampOrder
    <2>2. CASE m \in mail /\ q # p
      BY <2>2, <1>5 DEF ClockInv, NotBehind
    <2>3. CASE m \in mail /\ q = p
      <3>1. m.id \in heard[p] /\ m.at \in Stamp
        BY <2>3, <1>2, <1>5 DEF Mail
      <3>2. ~Before(hlc[p], m.at)
        BY <2>3, <3>1 DEF ClockInv, NotBehind
      <3> QED
        BY <2>3, <3>1, <3>2, <1>2, <1>3, <1>5, StampOrder
    <2> QED
      BY <2>1, <2>2, <2>3, <1>5
  <1>11. CausalOrder'
    <2> SUFFICES ASSUME NEW m \in mail', NEW n \in mail', m.id \in n.after
                 PROVE  Before(m.at, n.at)
      BY DEF CausalOrder
    <2>1. CASE m \in mail /\ n \in mail
      BY <2>1 DEF ClockInv, CausalOrder
    <2>2. CASE m = new
      BY <2>2, <1>4, <1>5, <1>6 DEF ClockInv, HeardWasSent
    <2>3. CASE m \in mail /\ n = new
      <3>1. m.id \in heard[p] /\ m.at \in Stamp
        BY <2>3, <1>2, <1>4 DEF Mail
      <3>2. ~Before(hlc[p], m.at)
        BY <2>3, <3>1 DEF ClockInv, NotBehind
      <3> QED
        BY <2>3, <3>1, <3>2, <1>2, <1>3, <1>4, StampOrder
    <2> QED
      BY <2>1, <2>2, <2>3, <1>5
  <1> QED
    BY <1>7, <1>8, <1>9, <1>10, <1>11 DEF ClockInv

\* recvHlc keeps the invariant.
LEMMA ReceiveKeeps ==
    ASSUME ClockInv, NEW p \in Peers, Receive(p)
    PROVE  ClockInv'
  <1>1. PICK k \in mail, wall \in Walls :
          /\ k.id \notin heard[p]
          /\ hlc' = [hlc EXCEPT ![p] = RecvHlc(@, k.at, wall)]
          /\ heard' = [heard EXCEPT ![p] = @ \cup k.after \cup {k.id}]
          /\ samples' = [samples EXCEPT ![p] =
                           [sum |-> @.sum + wall - k.at.pt, count |-> @.count + 1]]
          /\ UNCHANGED mail
    BY DEF Receive
  <1> DEFINE at == RecvHlc(hlc[p], k.at, wall)
  <1>2. /\ hlc \in [Peers -> Stamp] /\ mail \subseteq Mail
        /\ heard \in [Peers -> SUBSET Ids] /\ hlc[p] \in Stamp /\ wall \in Nat
        /\ k.at \in Stamp /\ k.id \in Ids /\ k.after \in SUBSET Ids
    BY ClockAssumption DEF ClockInv, ClockTypeOK, Mail
  <1>3. at \in Stamp /\ Before(hlc[p], at) /\ Before(k.at, at)
    BY <1>2, ReceiveIsLater
  <1>4. hlc' = [hlc EXCEPT ![p] = at]
    BY <1>1
  <1> HIDE DEF at
  <1>5. /\ mail' = mail
        /\ \A q \in Peers : hlc'[q] = IF q = p THEN at ELSE hlc[q]
        /\ \A q \in Peers : heard'[q] = IF q = p THEN heard[p] \cup k.after \cup {k.id}
                                        ELSE heard[q]
    BY <1>1, <1>2, <1>4
  <1>6. ClockTypeOK'
    <2>1. samples' \in [Peers -> [sum : Int, count : Nat]]
      BY <1>1, <1>2 DEF ClockInv, ClockTypeOK, Stamp
    <2> QED
      BY <2>1, <1>1, <1>2, <1>3, <1>4 DEF ClockInv, ClockTypeOK
  <1>7. IdsUnique' /\ CausalOrder'
    BY <1>5 DEF ClockInv, IdsUnique, CausalOrder
  <1>8. HeardWasSent'
    BY <1>5 DEF ClockInv, HeardWasSent
  <1>9. NotBehind'
    <2> SUFFICES ASSUME NEW q \in Peers, NEW m \in mail, m.id \in heard'[q]
                 PROVE  ~Before(hlc'[q], m.at)
      BY <1>5 DEF NotBehind
    <2>1. CASE q # p
      BY <2>1, <1>5 DEF ClockInv, NotBehind
    <2>2. CASE q = p
      <3>1. m.at \in Stamp /\ hlc'[q] = at
        BY <2>2, <1>2, <1>5 DEF Mail
      <3>2. CASE m.id \in heard[p]
        <4>1. ~Before(hlc[p], m.at)
          BY <3>2 DEF ClockInv, NotBehind
        <4> QED
          BY <4>1, <3>1, <1>2, <1>3, StampOrder
      <3>3. CASE m.id \in k.after
        <4>1. Before(m.at, k.at)
          BY <3>3 DEF ClockInv, CausalOrder
        <4> QED
          BY <4>1, <3>1, <1>2, <1>3, StampOrder
      <3>4. CASE m.id = k.id
        <4>1. m = k
          BY <3>4 DEF ClockInv, IdsUnique
        <4> QED
          BY <4>1, <3>1, <1>2, <1>3, StampOrder
      <3> QED
        BY <2>2, <3>2, <3>3, <3>4, <1>5
    <2> QED
      BY <2>1, <2>2
  <1> QED
    BY <1>6, <1>7, <1>8, <1>9 DEF ClockInv

\* The invariant says that heard stamps are past.
LEMMA HeardIsPast == ClockInv => ClosedForAllWhoHeard
  <1> SUFFICES ASSUME ClockInv, NEW p \in Peers, NEW m \in mail, NEW wall \in Walls,
                      m.id \in heard[p], Trusted(samples[p])
               PROVE  Passed(p, m.at.pt, wall)
    BY DEF ClosedForAllWhoHeard
  <1>1. hlc[p] \in Stamp /\ m.at \in Stamp /\ wall \in Nat
    BY ClockAssumption DEF ClockInv, ClockTypeOK, Mail
  <1>2. ~Before(hlc[p], m.at)
    BY DEF ClockInv, NotBehind
  <1>3. m.at.pt <= hlc[p].pt
    BY <1>1, <1>2 DEF Before, Stamp
  <1>4. hlc[p].pt <= HlcPhysicalNow(hlc[p], wall) /\ HlcPhysicalNow(hlc[p], wall) \in Nat
    BY <1>1 DEF HlcPhysicalNow, Larger, Stamp
  <1>5. m.at.pt <= HlcPhysicalNow(hlc[p], wall)
    BY <1>1, <1>3, <1>4 DEF Stamp
  <1> QED
    BY <1>5 DEF Passed

\* The invariant of hybrid clocks: ids, hearsay, clocks and stamps agree.
THEOREM ClockInvariant == ClockSpec => []ClockInv
  <1>1. ClockInit => ClockInv
    BY InitClock
  <1>2. ClockInv /\ [ClockNext]_clockVars => ClockInv'
    <2> SUFFICES ASSUME ClockInv, [ClockNext]_clockVars PROVE ClockInv'
      OBVIOUS
    <2>1. ASSUME NEW p \in Peers, Send(p) PROVE ClockInv'
      BY <2>1, SendKeeps
    <2>2. ASSUME NEW p \in Peers, Receive(p) PROVE ClockInv'
      BY <2>2, ReceiveKeeps
    <2>3. CASE UNCHANGED clockVars
      BY <2>3 DEF clockVars, ClockInv, ClockTypeOK, IdsUnique, HeardWasSent,
                  NotBehind, CausalOrder
    <2> QED
      BY <2>1, <2>2, <2>3 DEF ClockNext
  <1> QED
    BY <1>1, <1>2, PTL DEF ClockSpec

\* Stamps follow causality and a stamp heard of is past (sendHlc, recvHlc,
\* conservativeEffectiveNow), for every clock that jumps and every order of
\* arrival.
THEOREM ClocksAreSound == ClockSpec => []ClockIsSound
  <1>1. ClockInv => ClockIsSound
    BY HeardIsPast DEF ClockInv, ClockIsSound
  <1> QED
    BY <1>1, ClockInvariant, PTL

-----------------------------------------------------------------------------
(***************************************************************************)
(* OfferAlgebra: the wiring laws, for any port names and interfaces.       *)
(***************************************************************************)
\* A renaming names every port.
LEMMA RenamedType ==
    ASSUME NEW f \in Families
    PROVE  Renamed(f) \in [Names -> Names]
  BY DEF Families, Renamed

\* The parts of a composed interface.
LEMMA ComposeParts ==
    ASSUME NEW o1, NEW o2, NEW p
    PROVE  /\ Compose(o2, o1, p).in = o1.in \cup (o2.in \ {p})
           /\ Compose(o2, o1, p).out = o2.out \cup (o1.out \ {p})
  BY DEF Compose

\* compose closes the port it glues and leaves the name's other uses alone.
THEOREM GlueIsClosed ==
    ASSUME NEW o1 \in Interfaces, NEW o2 \in Interfaces
    PROVE  ComposeClosesGlue(o1, o2)
  <1> SUFFICES ASSUME NEW p \in Names, Composable(o2, o1, p)
               PROVE  LET o == Compose(o2, o1, p) IN
                      /\ p \in o.in <=> p \in o1.in
                      /\ p \in o.out <=> p \in o2.out
                      /\ Hide(o, {p}) = Hide(Parallel(o1, o2), {p})
    BY DEF ComposeClosesGlue
  <1> DEFINE o == Compose(o2, o1, p)
  <1>1. o.in = o1.in \cup (o2.in \ {p}) /\ o.out = o2.out \cup (o1.out \ {p})
    BY ComposeParts
  <1> HIDE DEF o
  <1>2. (p \in o.in <=> p \in o1.in) /\ (p \in o.out <=> p \in o2.out)
    BY <1>1
  <1>3. o.in \ {p} = (o1.in \cup o2.in) \ {p} /\ o.out \ {p} = (o1.out \cup o2.out) \ {p}
    BY <1>1
  <1>4. Hide(o, {p}) = Hide(Parallel(o1, o2), {p})
    BY <1>3 DEF Hide, Parallel
  <1> QED
    BY <1>2, <1>4 DEF o

\* The order in which two wires are laid does not matter, except for a name
\* with two uses.
THEOREM WiresAssociate ==
    ASSUME NEW o1 \in Interfaces, NEW o2 \in Interfaces, NEW o3 \in Interfaces
    PROVE  ComposeAssociates(o1, o2, o3)
  <1> SUFFICES ASSUME NEW p \in Names, NEW q \in Names,
                      Composable(o2, o1, p), Composable(o3, o2, q),
                      p \notin o3.in \/ p \in o1.in \/ p = q,
                      q \notin o1.out \/ q \in o3.out \/ p = q
               PROVE  Compose(o3, Compose(o2, o1, p), q) = Compose(Compose(o3, o2, q), o1, p)
    BY DEF ComposeAssociates
  <1>1. /\ (o1.in \cup (o2.in \ {p})) \cup (o3.in \ {q})
              = o1.in \cup ((o2.in \cup (o3.in \ {q})) \ {p})
        /\ o3.out \cup ((o2.out \cup (o1.out \ {p})) \ {q})
              = (o3.out \cup (o2.out \ {q})) \cup (o1.out \ {p})
    OBVIOUS
  <1> QED
    BY <1>1 DEF Compose

\* Renaming is a homomorphism, and families compose (applyRenameFamily,
\* composeRenameFamilies).
THEOREM RenamingIsNatural ==
    ASSUME NEW o1 \in Interfaces, NEW o2 \in Interfaces
    PROVE  RenameIsNatural(o1, o2)
  <1> SUFFICES ASSUME NEW f \in Families
               PROVE
        /\ \A g \in Families :
              Rename(Rename(o1, Renamed(g)), Renamed(f)) = Rename(o1, ComposeFamilies(f, g))
        /\ Rename(Parallel(o1, o2), Renamed(f)) =
              Parallel(Rename(o1, Renamed(f)), Rename(o2, Renamed(f)))
        /\ Injective(Renamed(f)) =>
              \A p \in Names : Composable(o2, o1, p) =>
                 Rename(Compose(o2, o1, p), Renamed(f)) =
                 Compose(Rename(o2, Renamed(f)), Rename(o1, Renamed(f)), Renamed(f)[p])
    BY DEF RenameIsNatural
  <1> DEFINE F == Renamed(f)
  <1>1. /\ F \in [Names -> Names]
        /\ o1.in \subseteq Names /\ o1.out \subseteq Names
        /\ o2.in \subseteq Names /\ o2.out \subseteq Names
    BY RenamedType DEF Interfaces
  <1>2. ASSUME NEW g \in Families
        PROVE  Rename(Rename(o1, Renamed(g)), Renamed(f)) = Rename(o1, ComposeFamilies(f, g))
    <2> DEFINE G == Renamed(g)
               H == ComposeFamilies(f, g)
    <2>1. G \in [Names -> Names]
      BY RenamedType
    <2>2. \A n \in Names : H[n] = F[G[n]]
      BY DEF ComposeFamilies
    <2> HIDE DEF F, G, H
    <2>3. {F[n] : n \in {G[m] : m \in o1.in}} = {H[m] : m \in o1.in}
      BY <1>1, <2>2
    <2>4. {F[n] : n \in {G[m] : m \in o1.out}} = {H[m] : m \in o1.out}
      BY <1>1, <2>2
    <2>5. Rename(Rename(o1, G), F) = Rename(o1, H)
      BY <2>3, <2>4 DEF Rename
    <2> QED
      BY <2>5 DEF F, G, H
  <1> HIDE DEF F
  <1>3. Rename(Parallel(o1, o2), F) = Parallel(Rename(o1, F), Rename(o2, F))
    <2>1. {F[n] : n \in o1.in \cup o2.in} = {F[n] : n \in o1.in} \cup {F[n] : n \in o2.in}
      OBVIOUS
    <2>2. {F[n] : n \in o1.out \cup o2.out} = {F[n] : n \in o1.out} \cup {F[n] : n \in o2.out}
      OBVIOUS
    <2> QED
      BY <2>1, <2>2 DEF Rename, Parallel
  <1>4. ASSUME Injective(F), NEW p \in Names, Composable(o2, o1, p)
        PROVE  Rename(Compose(o2, o1, p), F) = Compose(Rename(o2, F), Rename(o1, F), F[p])
    <2>1. \A m, n \in Names : F[m] = F[n] => m = n
      BY <1>1, <1>4 DEF Injective
    <2>2. \A S \in SUBSET Names : {F[n] : n \in S \ {p}} = {F[n] : n \in S} \ {F[p]}
      BY <2>1
    <2>3. {F[n] : n \in o1.in \cup (o2.in \ {p})}
            = {F[n] : n \in o1.in} \cup ({F[n] : n \in o2.in} \ {F[p]})
      <3>1. {F[n] : n \in o2.in \ {p}} = {F[n] : n \in o2.in} \ {F[p]}
        BY <1>1, <2>2
      <3>2. {F[n] : n \in o1.in \cup (o2.in \ {p})}
              = {F[n] : n \in o1.in} \cup {F[n] : n \in o2.in \ {p}}
        OBVIOUS
      <3> QED
        BY <3>1, <3>2
    <2>4. {F[n] : n \in o2.out \cup (o1.out \ {p})}
            = {F[n] : n \in o2.out} \cup ({F[n] : n \in o1.out} \ {F[p]})
      <3>1. {F[n] : n \in o1.out \ {p}} = {F[n] : n \in o1.out} \ {F[p]}
        BY <1>1, <2>2
      <3>2. {F[n] : n \in o2.out \cup (o1.out \ {p})}
              = {F[n] : n \in o2.out} \cup {F[n] : n \in o1.out \ {p}}
        OBVIOUS
      <3> QED
        BY <3>1, <3>2
    <2> QED
      BY <2>3, <2>4 DEF Rename, Compose
  <1> QED
    BY <1>2, <1>3, <1>4 DEF F

\* Glue atoms intersect exactly when a port can be wired; polarized ones never.
THEOREM GlueIsFound ==
    ASSUME NEW o1 \in Interfaces, NEW o2 \in Interfaces
    PROVE  AtomsFindTheGlue(o1, o2)
  <1>1. ASSUME NEW f \in Families
        PROVE  GlueIntersection(Rename(o1, Renamed(f)).out, o2.in) # {} <=>
                  \E p \in Names : Composable(o2, Rename(o1, Renamed(f)), p)
    <2> DEFINE o == Rename(o1, Renamed(f))
    <2>1. \A m, n : PortGlueAtom(m) = PortGlueAtom(n) => m = n
      BY DEF PortGlueAtom
    <2>2. o2.in \subseteq Names
      BY DEF Interfaces
    <2> HIDE DEF o
    <2>3. ASSUME GlueIntersection(o.out, o2.in) # {}
          PROVE  \E p \in Names : p \in o.out /\ p \in o2.in
      <3>1. PICK a : a \in GlueIntersection(o.out, o2.in)
        BY <2>3
      <3>2. PICK m \in o.out : a = PortGlueAtom(m)
        BY <3>1 DEF GlueIntersection
      <3>3. PICK n \in o2.in : a = PortGlueAtom(n)
        BY <3>1 DEF GlueIntersection
      <3> QED
        BY <2>1, <2>2, <3>2, <3>3
    <2>4. ASSUME NEW p \in Names, p \in o.out, p \in o2.in
          PROVE  PortGlueAtom(p) \in GlueIntersection(o.out, o2.in)
      BY <2>4 DEF GlueIntersection
    <2> QED
      BY <2>3, <2>4 DEF Composable, o
  <1>2. StructuralIntersection({PortAtom("expose", n) : n \in o1.out},
                               {PortAtom("require", n) : n \in o2.in}) = {}
    <2>1. \A m, n : PortAtom("expose", m) # PortAtom("require", n)
      BY DEF PortAtom
    <2> QED
      BY <2>1 DEF StructuralIntersection
  <1> QED
    BY <1>1, <1>2 DEF AtomsFindTheGlue

\* All laws, whatever three interfaces are put together.
THEOREM WiringIsLawful == offers \in [1 .. 3 -> Interfaces] => WiringLaws
  <1> SUFFICES ASSUME offers \in [1 .. 3 -> Interfaces] PROVE WiringLaws
    OBVIOUS
  <1>1. offers[1] \in Interfaces /\ offers[2] \in Interfaces /\ offers[3] \in Interfaces
    OBVIOUS
  <1>2. \A P \in SUBSET Names :
          Hide(Choice(offers[1], offers[2]), P) = Choice(Hide(offers[1], P), Hide(offers[2], P))
    BY DEF Hide, Choice, Parallel
  <1> QED
    BY <1>1, <1>2, GlueIsClosed, WiresAssociate, RenamingIsNatural, GlueIsFound DEF WiringLaws

-----------------------------------------------------------------------------
(* The cache of compiled policies.                                         *)

\* What the cache may hold, and what an expose may let through.
Compilable == {doc \in Documents : doc.root = "object" /\ doc.strict}
Entries == {[key |-> doc.content, compiled |-> doc.content] : doc \in Compilable}

CacheInv ==
    /\ compileCache \in Seq(Entries)
    /\ Len(compileCache) <= MaxCache
    /\ admitted \subseteq Compilable

\* An entry that answers for a document was compiled from it.
LEMMA HitIsCompilable ==
    ASSUME CacheInv, NEW doc \in Documents, NEW i \in Hits(doc)
    PROVE  doc \in Compilable /\ compileCache[i].compiled = doc.content
  <1>1. compileCache[i] \in Entries
    BY LenProperties DEF CacheInv, Hits
  <1>2. PICK d \in Compilable :
            compileCache[i] = [key |-> d.content, compiled |-> d.content]
    BY <1>1 DEF Entries
  <1>3. d.content = doc.content
    BY <1>2 DEF Hits, Key
  <1>4. d = doc
    BY <1>3, ContentAssumption DEF Compilable
  <1> QED
    BY <1>2, <1>4

\* Making room drops the oldest entry of a full cache.
LEMMA RoomIsLeft ==
    ASSUME CacheInv
    PROVE  Room \in Seq(Entries) /\ Len(Room) < MaxCache
  <1>1. Len(compileCache) \in Nat /\ MaxCache \in Nat \ {0}
    BY CacheAssumption, LenProperties DEF CacheInv
  <1>2. CASE Len(compileCache) >= MaxCache
    <2>1. compileCache # <<>>
      BY <1>1, <1>2, EmptySeq
    <2>2. Tail(compileCache) \in Seq(Entries) /\ Len(Tail(compileCache)) = Len(compileCache) - 1
      BY <2>1, HeadTailProperties DEF CacheInv
    <2> QED
      BY <1>1, <1>2, <2>2 DEF Room, CacheInv
  <1>3. CASE ~(Len(compileCache) >= MaxCache)
    BY <1>1, <1>3 DEF Room, CacheInv
  <1> QED
    BY <1>2, <1>3

\* A lookup leaves the cache sound, whether it hits, compiles or fails.
LEMMA LookupKeepsCache ==
    ASSUME CacheInv, NEW doc \in Documents, GetBindPayloadValidator(doc)
    PROVE  compileCache' \in Seq(Entries) /\ Len(compileCache') <= MaxCache
  <1>1. CASE doc.root # "object" \/ Hits(doc) # {}
    BY <1>1 DEF GetBindPayloadValidator, CacheInv
  <1>2. CASE doc.root = "object" /\ Hits(doc) = {} /\ ~AjvCompiles(doc)
    BY <1>2 DEF GetBindPayloadValidator, CacheInv
  <1>3. CASE doc.root = "object" /\ Hits(doc) = {} /\ AjvCompiles(doc)
    <2> DEFINE entry == [key |-> doc.content, compiled |-> doc.content]
    <2>1. compileCache' = Append(Room, entry)
      BY <1>3 DEF GetBindPayloadValidator, Key
    <2>2. entry \in Entries
      BY <1>3 DEF AjvCompiles, Entries, Compilable
    <2>3. Room \in Seq(Entries) /\ Len(Room) < MaxCache
      BY RoomIsLeft
    <2>4. /\ Append(Room, entry) \in Seq(Entries)
          /\ Len(Append(Room, entry)) = Len(Room) + 1
      BY <2>2, <2>3, AppendProperties
    <2>5. Len(Room) \in Nat /\ MaxCache \in Nat
      BY <2>3, CacheAssumption, LenProperties
    <2> QED
      BY <2>1, <2>3, <2>4, <2>5
  <1> QED
    BY <1>1, <1>2, <1>3

\* What gets past the check at the expose is a policy that compiles.
LEMMA ValidatorIsCompilable ==
    ASSUME CacheInv, NEW doc \in Documents, HasValidator(doc)
    PROVE  doc \in Compilable
  <1>1. CASE Hits(doc) # {}
    BY <1>1, HitIsCompilable
  <1>2. CASE AjvCompiles(doc)
    BY <1>2 DEF HasValidator, AjvCompiles, Compilable
  <1> QED
    BY <1>1, <1>2 DEF HasValidator

LEMMA NextCache ==
    ASSUME CacheInv, [CacheNext]_cacheVars
    PROVE  CacheInv'
  <1>1. CASE ValidateAtExpose
    <2>1. PICK doc \in Documents :
            /\ GetBindPayloadValidator(doc)
            /\ admitted' = IF HasValidator(doc) THEN admitted \cup {doc} ELSE admitted
      BY <1>1 DEF ValidateAtExpose
    <2>2. admitted' \subseteq Compilable
      BY <2>1, ValidatorIsCompilable DEF CacheInv
    <2> QED
      BY <2>1, <2>2, LookupKeepsCache DEF CacheInv
  <1>2. CASE ValidateAtBind
    <2>1. PICK doc \in admitted : GetBindPayloadValidator(doc) /\ UNCHANGED admitted
      BY <1>2 DEF ValidateAtBind
    <2>2. doc \in Documents
      BY DEF CacheInv, Compilable
    <2> QED
      BY <2>1, <2>2, LookupKeepsCache DEF CacheInv
  <1>3. CASE UNCHANGED cacheVars
    BY <1>3 DEF cacheVars, CacheInv
  <1> QED
    BY <1>1, <1>2, <1>3 DEF CacheNext

\* A policy without an $id that was let through has its validator for good.
LEMMA CacheServes == CacheInv => AdmittedStaysUsable
  <1> SUFFICES ASSUME CacheInv PROVE AdmittedStaysUsable
    OBVIOUS
  <1>1. ASSUME NEW doc \in Documents, NEW i \in DOMAIN compileCache, i \in Hits(doc)
        PROVE  compileCache[i].compiled = doc.content
    BY <1>1, HitIsCompilable
  <1>2. ASSUME NEW doc \in admitted
        PROVE  HasValidator(doc) \/ (doc.id # {} /\ Hits(doc) = {})
    BY <1>2 DEF CacheInv, Compilable, HasValidator, AjvCompiles
  <1> QED
    BY <1>1, <1>2 DEF AdmittedStaysUsable, CacheInv

\* Whatever the sessions of a process expose and bind, in any order and with
\* any size of the cache: a policy let through at the expose has its validator
\* at the bind, unless it has an $id and was evicted, and it is its own.
THEOREM AdmittedPoliciesServe == CacheSpec => []AdmittedStaysUsable
  <1>1. CacheInit => CacheInv
    BY CacheAssumption, EmptySeq DEF CacheInit, CacheInv
  <1> QED
    BY <1>1, NextCache, CacheServes, PTL DEF CacheSpec

-----------------------------------------------------------------------------
(* From the model's output to the peer's turn.                             *)

\* A field is absent or has one value.
AtMostOne(field) == \A v, w \in field : v = w

\* The numbers of a port that the model may have written.
Numbers(p) == {p.expires_turn, p.expires_at_ms, p.max_bindings}

\* What a model puts out: ports from any set, numbers that count halves, at
\* most one list of ports, one bind and one payload.
RawTurnOK(Ports) ==
    /\ AtMostOne(raw.expose) /\ raw.expose \subseteq Seq(Ports)
    /\ AtMostOne(raw.bind)
    /\ \A b \in raw.bind : AtMostOne(b.payload)
    /\ \A p \in Ports : \A field \in Numbers(p) : AtMostOne(field) /\ field \subseteq Int

\* The port as the wire carries it.
OnWire(p) == PortForWire(OpeningPortToSpec(p))

\* The value a field gives is the one it has.
LEMMA GivenValue ==
    ASSUME NEW field, NEW default, AtMostOne(field), NEW v \in field
    PROVE  Given(field, default) = v
  BY DEF Given, AtMostOne

\* The ports put out are a list, the empty one when none is.
LEMMA ExposedIsList ==
    ASSUME NEW Ports, RawTurnOK(Ports)
    PROVE  Given(raw.expose, <<>>) \in Seq(Ports)
  <1>1. CASE raw.expose = {}
    BY <1>1, EmptySeq DEF Given
  <1>2. CASE raw.expose # {}
    <2>1. PICK ports \in raw.expose : TRUE
      BY <1>2
    <2>2. Given(raw.expose, <<>>) = ports
      BY <2>1, GivenValue DEF RawTurnOK
    <2> QED
      BY <2>2 DEF RawTurnOK
  <1> QED
    BY <1>1, <1>2

\* A number the host profile lets through is given as it is, or as zero.
LEMMA GivenNonneg ==
    ASSUME NEW field, AtMostOne(field), field \subseteq Int, NonnegInt(field)
    PROVE  Given(field, 0) \in Nat /\ IsInteger(Given(field, 0))
  <1>1. CASE field = {}
    BY <1>1 DEF Given, IsInteger
  <1>2. CASE field # {}
    <2>1. PICK n \in field : TRUE
      BY <1>2
    <2>2. Given(field, 0) = n
      BY GivenValue
    <2> QED
      BY <2>2 DEF NonnegInt
  <1> QED
    BY <1>1, <1>2

\* A deadline prints with an exponent only if the model gave one that large.
LEMMA TextIsLarge ==
    ASSUME NEW field, AtMostOne(field), field \subseteq Int
    PROVE  EpochMsForWire(Given(field, 0)).as = "text" <=> \E n \in field : n >= Exponential
  <1>1. CASE field = {}
    BY <1>1, NumberAssumption DEF Given, EpochMsForWire
  <1>2. CASE field # {}
    <2>1. PICK n \in field : TRUE
      BY <1>2
    <2>2. Given(field, 0) = n /\ \A m \in field : m = n
      BY GivenValue DEF AtMostOne
    <2>3. n \in Int
      BY <2>1
    <2>4. EpochMsForWire(n).as = "text" <=> n >= Exponential
      BY <2>3, NumberAssumption DEF EpochMsForWire
    <2> QED
      BY <2>1, <2>2, <2>4
  <1> QED
    BY <1>1, <1>2

\* A port the host profile accepts is parsed from the wire unless it is one of
\* the two kinds only the host lets through, and is then the port it was.
LEMMA PortCrossesWire ==
    ASSUME NEW p, OpeningPortOK(p),
           \A field \in Numbers(p) : AtMostOne(field) /\ field \subseteq Int
    PROVE  /\ PortSpecOK(OnWire(p)) <=> ~Unparsable(p)
           /\ ParsedPort(OnWire(p)) = OpeningPortToSpec(p)
  <1>1. /\ AtMostOne(p.expires_turn) /\ p.expires_turn \subseteq Int
        /\ AtMostOne(p.expires_at_ms) /\ p.expires_at_ms \subseteq Int
        /\ p.max_bindings \subseteq Int
    BY DEF Numbers
  <1> DEFINE at == Given(p.expires_at_ms, 0)
             turn == Given(p.expires_turn, 0)
  <1>2. turn \in Nat /\ IsInteger(turn) /\ at \in Nat /\ IsInteger(at)
    BY <1>1, GivenNonneg DEF OpeningPortOK
  <1>3. EpochMsForWire(at).as = "text" <=> \E n \in p.expires_at_ms : n >= Exponential
    BY <1>1, TextIsLarge
  <1>4. /\ OnWire(p).kind = p.kind /\ OnWire(p).expires_turn = turn
        /\ OnWire(p).expires_at_ms = EpochMsForWire(at)
        /\ OnWire(p).max_bindings = p.max_bindings
    BY DEF OnWire, PortForWire, OpeningPortToSpec
  <1>5. EpochMsForWire(at).value = at
    BY DEF EpochMsForWire
  <1>6. (\A n \in p.max_bindings : IsInteger(n) /\ n >= 2)
            <=> ~\E n \in p.max_bindings : ~IsInteger(n) \/ n < 2
    BY <1>1
  <1>7. PortSpecOK(OnWire(p)) <=> ~Unparsable(p)
    <2>1. OnWire(p).kind # ""
      BY <1>4 DEF OpeningPortOK
    <2>2. IsInteger(OnWire(p).expires_turn) /\ OnWire(p).expires_turn >= 0
      BY <1>2, <1>4
    <2>3. /\ IsInteger(OnWire(p).expires_at_ms.value)
          /\ OnWire(p).expires_at_ms.value >= 0
      BY <1>2, <1>4, <1>5
    <2>4. OnWire(p).expires_at_ms.as # "text" <=> ~\E n \in p.expires_at_ms : n >= Exponential
      BY <1>3, <1>4
    <2>5. (\A n \in OnWire(p).max_bindings : IsInteger(n) /\ n >= 2)
              <=> ~\E n \in p.max_bindings : ~IsInteger(n) \/ n < 2
      BY <1>4, <1>6
    <2> QED
      BY <2>1, <2>2, <2>3, <2>4, <2>5 DEF PortSpecOK, Unparsable
  <1>8. ParsedPort(OnWire(p)) = OpeningPortToSpec(p)
    BY DEF OnWire, PortForWire, ParsedPort, OpeningPortToSpec, EpochMsForWire
  <1> QED
    BY <1>7, <1>8

\* The turn of a continue names a bind of the model and a payload accepted for it.
LEMMA ContinueIsChosen ==
    ASSUME NEW turn \in ContinueTurn(context.ports, raw)
    PROVE  \E bind \in raw.bind, payload \in {"empty", "payload", "other"} :
              /\ turn = [profile |-> "continue", expose |-> raw.expose,
                         bind |-> {[portId |-> bind.portId, payload |-> payload]}]
              /\ Bindable(context.ports, bind.portId)
              /\ payload \in AcceptedPayload(PolicyOf(context.ports, bind.portId), bind.payload)
              /\ \A exposed \in raw.expose : \A p \in ToSet(exposed) : OpeningPortOK(p)
  <1>1. PICK chosen \in raw.bind \X {"empty", "payload", "other"} :
            /\ turn = [profile |-> "continue", expose |-> raw.expose,
                       bind |-> {[portId |-> chosen[1].portId, payload |-> chosen[2]]}]
            /\ Bindable(context.ports, chosen[1].portId)
            /\ chosen[2] \in AcceptedPayload(PolicyOf(context.ports, chosen[1].portId),
                                             chosen[1].payload)
            /\ \A exposed \in raw.expose : \A p \in ToSet(exposed) : OpeningPortOK(p)
    BY Zenon DEF ContinueTurn
  <1>2. chosen[1] \in raw.bind /\ chosen[2] \in {"empty", "payload", "other"}
    OBVIOUS
  <1> QED
    BY <1>1, <1>2, Zenon

\* A profile that offers passes on the ports it was given, all of them sound.
LEMMA ProfileKeepsPorts ==
    ASSUME NEW turn \in ParseEnvelope(raw, context), turn.profile # "leave"
    PROVE  /\ turn.expose = raw.expose
           /\ \A ports \in raw.expose : \A p \in ToSet(ports) : OpeningPortOK(p)
           /\ context.opening => turn.bind = {}
           /\ ~context.opening => turn \in ContinueTurn(context.ports, raw)
  <1>1. turn \notin LeaveTurn(raw)
    <2> SUFFICES ASSUME turn \in LeaveTurn(raw) PROVE FALSE
      OBVIOUS
    <2>1. turn = [profile |-> "leave", expose |-> {}, bind |-> {}]
      BY Zenon DEF LeaveTurn
    <2> QED
      BY <2>1
  <1>2. CASE context.opening
    <2>1. turn \in OpeningTurn(raw)
      BY <1>1, <1>2 DEF ParseEnvelope
    <2> QED
      BY <1>2, <2>1 DEF OpeningTurn
  <1>3. CASE ~context.opening
    <2>1. turn \in ContinueTurn(context.ports, raw)
      BY <1>1, <1>3 DEF ParseEnvelope
    <2>2. turn.expose = raw.expose
      BY <2>1, ContinueIsChosen
    <2>3. \A ports \in raw.expose : \A p \in ToSet(ports) : OpeningPortOK(p)
      BY <2>1, ContinueIsChosen
    <2> QED
      BY <1>3, <2>1, <2>2, <2>3
  <1> QED
    BY <1>2, <1>3

\* A turn that continues binds the port the model named, one the host listed
\* if it listed any, with the payload its policy accepts.
LEMMA ContinueBinds ==
    ASSUME NEW Ports, RawTurnOK(Ports), NEW turn \in ContinueTurn(context.ports, raw)
    PROVE  LET bind == Given(raw.bind, NULL)
               taken == Given(turn.bind, NULL) IN
           /\ turn.bind # {} /\ taken.portId = bind.portId
           /\ context.ports # {} => \E p \in context.ports : p.id = taken.portId
           /\ {taken.payload} =
                 AcceptedPayload(PolicyOf(context.ports, taken.portId), bind.payload)
  <1>1. PICK bind \in raw.bind, payload \in {"empty", "payload", "other"} :
            /\ turn = [profile |-> "continue", expose |-> raw.expose,
                       bind |-> {[portId |-> bind.portId, payload |-> payload]}]
            /\ Bindable(context.ports, bind.portId)
            /\ payload \in AcceptedPayload(PolicyOf(context.ports, bind.portId), bind.payload)
    BY ContinueIsChosen, Zenon
  <1> DEFINE taken == [portId |-> bind.portId, payload |-> payload]
             policy == PolicyOf(context.ports, bind.portId)
  <1>2. Given(raw.bind, NULL) = bind
    BY <1>1, GivenValue DEF RawTurnOK
  <1>3. turn.bind = {taken}
    BY <1>1
  <1>4. turn.bind # {} /\ Given(turn.bind, NULL) = taken
    BY <1>3, GivenValue DEF AtMostOne
  <1>5. context.ports # {} => \E p \in context.ports : p.id = bind.portId
    BY <1>1 DEF Bindable
  <1>6. AtMostOne(bind.payload)
    BY <1>1 DEF RawTurnOK
  <1>7. payload \in AcceptedPayload(policy, bind.payload)
    BY <1>1
  <1>8. {payload} = AcceptedPayload(policy, bind.payload)
    <2> HIDE DEF policy
    <2> QED
      BY <1>6, <1>7 DEF AcceptedPayload, AtMostOne
  <1> QED
    BY <1>2, <1>4, <1>5, <1>8

\* The ports of a turn as they cross the wire, and as they are parsed.
LEMMA PortsCrossWire ==
    ASSUME NEW Ports, RawTurnOK(Ports), NEW turn, turn.expose = raw.expose
    PROVE  LET exposed == Given(raw.expose, <<>>)
               wire == Serialized(HostTurnToNbcBody(turn)).ports IN
           /\ wire = [i \in 1 .. Len(exposed) |-> OnWire(exposed[i])]
           /\ DOMAIN exposed = 1 .. Len(exposed) /\ Len(exposed) \in Nat
  <1> DEFINE exposed == Given(raw.expose, <<>>)
             specs == [i \in 1 .. Len(exposed) |-> OpeningPortToSpec(exposed[i])]
  <1>1. exposed \in Seq(Ports)
    BY ExposedIsList
  <1>2. HostTurnToNbcBody(turn).ports = specs
    BY DEF HostTurnToNbcBody
  <1>3. DOMAIN HostTurnToNbcBody(turn) = {"type", "ports", "bind_port_id", "bind_payload"}
    BY DEF HostTurnToNbcBody
  <1>4. Serialized(HostTurnToNbcBody(turn)).ports =
            [i \in DOMAIN specs |-> PortForWire(specs[i])]
    <2> DEFINE body == HostTurnToNbcBody(turn)
    <2> HIDE DEF specs, body
    <2>1. "ports" \in DOMAIN body /\ body.ports = specs
      BY <1>2, <1>3 DEF body
    <2>2. Serialized(body).ports =
            [i \in DOMAIN body.ports |-> PortForWire(body.ports[i])]
      BY <2>1 DEF Serialized
    <2> QED
      BY <2>1, <2>2 DEF body
  <1>5. [i \in DOMAIN specs |-> PortForWire(specs[i])]
            = [i \in 1 .. Len(exposed) |-> OnWire(exposed[i])]
    BY DEF OnWire
  <1>6. DOMAIN exposed = 1 .. Len(exposed) /\ Len(exposed) \in Nat
    BY <1>1, LenProperties
  <1> QED
    BY <1>4, <1>5, <1>6

\* Whatever the host's model puts out and the profile accepts, for any ports,
\* numbers and payloads: the peer parses a turn with the same ports in the same
\* order, that binds the port the model named, one the host listed if it listed
\* any, with a payload that fits its policy; but for a max_bindings that is no
\* positive integer and a deadline printed with an exponent, which no peer parses.
THEOREM HostTurnsAreParsed ==
    ASSUME NEW Ports, RawTurnOK(Ports)
    PROVE  MeantIsParsed
  <1> DEFINE exposed == Given(raw.expose, <<>>)
             Meant(body) ==
               LET parsed == ParseNbcTurnBody(body) IN
               /\ parsed = {} <=> \E p \in ToSet(exposed) : Unparsable(p)
               /\ \A turn \in parsed :
                     /\ Len(turn.ports) = Len(exposed)
                     /\ \A i \in DOMAIN exposed :
                           turn.ports[i] = OpeningPortToSpec(exposed[i])
                     /\ turn.bind_port_id =
                           IF context.opening THEN "" ELSE Given(raw.bind, NULL).portId
                     /\ ~context.opening =>
                           /\ context.ports # {} =>
                                 \E p \in context.ports : p.id = turn.bind_port_id
                           /\ {turn.bind_payload} =
                                 AcceptedPayload(PolicyOf(context.ports, turn.bind_port_id),
                                                 Given(raw.bind, NULL).payload)
  <1> SUFFICES ASSUME NEW body \in Offered PROVE Meant(body)
    BY DEF MeantIsParsed
  <1>1. PICK host \in ParseEnvelope(raw, context) :
            /\ host.profile # "leave"
            /\ body = Serialized(HostTurnToNbcBody(host))
    BY DEF Offered, Outputs, OutputToWire
  <1>2. /\ host.expose = raw.expose
        /\ \A ports \in raw.expose : \A p \in ToSet(ports) : OpeningPortOK(p)
        /\ context.opening => host.bind = {}
        /\ ~context.opening => host \in ContinueTurn(context.ports, raw)
    BY <1>1, ProfileKeepsPorts
  <1>3. /\ body.ports = [i \in 1 .. Len(exposed) |-> OnWire(exposed[i])]
        /\ DOMAIN exposed = 1 .. Len(exposed) /\ Len(exposed) \in Nat
    BY <1>1, <1>2, PortsCrossWire
  <1>4. \A i \in DOMAIN exposed :
            /\ PortSpecOK(OnWire(exposed[i])) <=> ~Unparsable(exposed[i])
            /\ ParsedPort(OnWire(exposed[i])) = OpeningPortToSpec(exposed[i])
    <2> SUFFICES ASSUME NEW i \in DOMAIN exposed
                 PROVE  /\ PortSpecOK(OnWire(exposed[i])) <=> ~Unparsable(exposed[i])
                        /\ ParsedPort(OnWire(exposed[i])) = OpeningPortToSpec(exposed[i])
      OBVIOUS
    <2>1. exposed \in Seq(Ports)
      BY ExposedIsList
    <2>2. exposed[i] \in Ports
      BY <1>3, <2>1, ElementOfSeq
    <2>3. PICK ports \in raw.expose : exposed = ports
      <3>1. CASE raw.expose = {}
        BY <3>1 DEF Given
      <3>2. CASE raw.expose # {}
        BY <3>2, GivenValue DEF RawTurnOK
      <3> QED
        BY <3>1, <3>2
    <2>4. OpeningPortOK(exposed[i])
      BY <1>2, <2>3 DEF ToSet
    <2> QED
      BY <2>2, <2>4, PortCrossesWire DEF RawTurnOK
  <1>5. ParseNbcTurnBody(body) = {} <=> \E p \in ToSet(exposed) : Unparsable(p)
    <2>1. (\A p \in ToSet(body.ports) : PortSpecOK(p))
              <=> \A i \in DOMAIN exposed : PortSpecOK(OnWire(exposed[i]))
      BY <1>3 DEF ToSet
    <2> QED
      BY <1>4, <2>1 DEF ParseNbcTurnBody, ToSet
  <1>6. DOMAIN body = {"type", "ports", "bind_port_id", "bind_payload"}
    BY <1>1 DEF Serialized, HostTurnToNbcBody
  <1>7. ASSUME NEW turn \in ParseNbcTurnBody(body)
        PROVE  /\ turn.ports = [i \in 1 .. Len(exposed) |-> OpeningPortToSpec(exposed[i])]
               /\ turn.bind_port_id = HostTurnToNbcBody(host).bind_port_id
               /\ turn.bind_payload = HostTurnToNbcBody(host).bind_payload
    <2>1. turn = [body EXCEPT !.ports = [i \in DOMAIN @ |-> ParsedPort(@[i])]]
      BY Zenon DEF ParseNbcTurnBody
    <2>2. turn.ports = [i \in DOMAIN body.ports |-> ParsedPort(body.ports[i])]
      BY <1>6, <2>1
    <2>3. /\ turn.bind_port_id = body.bind_port_id
          /\ turn.bind_payload = body.bind_payload
      BY <1>6, <2>1
    <2>4. /\ body.bind_port_id = HostTurnToNbcBody(host).bind_port_id
          /\ body.bind_payload = HostTurnToNbcBody(host).bind_payload
      BY <1>1 DEF Serialized, HostTurnToNbcBody
    <2> QED
      BY <1>3, <1>4, <2>2, <2>3, <2>4
  <1>8. ASSUME NEW turn \in ParseNbcTurnBody(body)
        PROVE  /\ Len(turn.ports) = Len(exposed)
               /\ \A i \in DOMAIN exposed : turn.ports[i] = OpeningPortToSpec(exposed[i])
    <2> DEFINE n == Len(exposed)
    <2>1. /\ turn.ports = [i \in 1 .. n |-> OpeningPortToSpec(exposed[i])]
          /\ n \in Nat /\ DOMAIN exposed = 1 .. n
      BY <1>3, <1>7
    <2> HIDE DEF n
    <2>2. Len(turn.ports) = n
      BY <2>1
    <2>3. \A i \in DOMAIN exposed : turn.ports[i] = OpeningPortToSpec(exposed[i])
      BY <2>1
    <2> QED
      BY <2>2, <2>3 DEF n
  <1>9. ASSUME NEW turn \in ParseNbcTurnBody(body), context.opening
        PROVE  turn.bind_port_id = ""
    BY <1>2, <1>7, <1>9 DEF HostTurnToNbcBody
  <1>10. ASSUME NEW turn \in ParseNbcTurnBody(body), ~context.opening
         PROVE  /\ turn.bind_port_id = Given(raw.bind, NULL).portId
                /\ context.ports # {} =>
                      \E p \in context.ports : p.id = turn.bind_port_id
                /\ {turn.bind_payload} =
                      AcceptedPayload(PolicyOf(context.ports, turn.bind_port_id),
                                      Given(raw.bind, NULL).payload)
    <2> DEFINE taken == Given(host.bind, NULL)
    <2>1. /\ host.bind # {} /\ taken.portId = Given(raw.bind, NULL).portId
          /\ context.ports # {} => \E p \in context.ports : p.id = taken.portId
          /\ {taken.payload} =
                AcceptedPayload(PolicyOf(context.ports, taken.portId),
                                Given(raw.bind, NULL).payload)
      BY <1>2, <1>10, ContinueBinds
    <2>2. turn.bind_port_id = taken.portId /\ turn.bind_payload = taken.payload
      BY <1>7, <2>1 DEF HostTurnToNbcBody
    <2> QED
      BY <2>1, <2>2
  <1> QED
    BY <1>5, <1>8, <1>9, <1>10

-----------------------------------------------------------------------------
(***************************************************************************)
(* Commitments: for lists of any length, a root tells what it is the root  *)
(* of, proofs lead to it and nothing else does.  The levels of a tree are  *)
(* numbered from the leaves, so that what is said of a root goes down from *)
(* level to level and what is said of a leaf goes up.                      *)
(***************************************************************************)
\* A sequence, of whatever it holds.
IsList(s) == Len(s) \in Nat /\ s = [i \in 1 .. Len(s) |-> s[i]]

Distinct(s) == \A i, j \in 1 .. Len(s) : s[i] = s[j] => i = j

\* What hashing keeps apart.
LEMMA HashesApart ==
    /\ \A a, b, c, d : Node(a, b) = Node(c, d) => a = c /\ b = d
    /\ \A x, y : Leaf(x) = Leaf(y) => x = y
    /\ \A x, a, b : Leaf(x) # Node(a, b)
    /\ \A x : Leaf(x) # EmptyRoot
    /\ \A a, b : Node(a, b) # EmptyRoot
  BY DEF Node, Leaf, EmptyRoot

\* A function on 1 .. n is a list of n.
LEMMA FunctionIsList ==
    ASSUME NEW n \in Nat, NEW f, f = [i \in 1 .. n |-> f[i]]
    PROVE  IsList(f) /\ Len(f) = n
  <1> DEFINE R == {f[i] : i \in 1 .. n}
  <1>1. f \in [1 .. n -> R]
    <2> DEFINE g == [i \in 1 .. n |-> f[i]]
    <2>1. g \in [1 .. n -> R]
      OBVIOUS
    <2> QED
      BY <2>1
  <1>2. f \in Seq(R)
    <2> HIDE DEF R
    <2> QED
      BY <1>1, IsASeq
  <1>3. Len(f) \in Nat /\ DOMAIN f = 1 .. Len(f)
    BY <1>2, LenProperties
  <1>4. DOMAIN f = 1 .. n
    BY <1>1
  <1>5. Len(f) = n
    BY <1>3, <1>4
  <1> QED
    BY <1>5 DEF IsList

\* A sequence is a list.
LEMMA SeqIsList ==
    ASSUME NEW S, NEW s \in Seq(S)
    PROVE  IsList(s)
  BY LenProperties DEF IsList

\* Lists of one length that agree everywhere are equal.
LEMMA ListsEqual ==
    ASSUME NEW s, NEW t, IsList(s), IsList(t), Len(s) = Len(t),
           \A i \in 1 .. Len(s) : s[i] = t[i]
    PROVE  s = t
  <1>1. [i \in 1 .. Len(s) |-> s[i]] = [i \in 1 .. Len(t) |-> t[i]]
    OBVIOUS
  <1> QED
    BY <1>1 DEF IsList
-----------------------------------------------------------------------------
\* Half of n, rounded up.
LEMMA HalfUp ==
    ASSUME NEW n \in Nat, n >= 1
    PROVE  /\ (n + 1) \div 2 \in Nat /\ (n + 1) \div 2 >= 1
           /\ n >= 2 => (n + 1) \div 2 < n
           /\ 2 * ((n + 1) \div 2) = n \/ 2 * ((n + 1) \div 2) = n + 1
           /\ \A i \in 1 .. (n + 1) \div 2 : 2 * i - 1 \in 1 .. n /\ (2 * i <= n => 2 * i \in 1 .. n)
           /\ \A j \in 1 .. n : (j + 1) \div 2 \in 1 .. (n + 1) \div 2
  <1> DEFINE h == (n + 1) \div 2
  <1>1. h \in Nat /\ h >= 1 /\ (n >= 2 => h < n) /\ (2 * h = n \/ 2 * h = n + 1)
    OBVIOUS
  <1>2. ASSUME NEW j \in 1 .. n PROVE (j + 1) \div 2 \in 1 .. h
    BY <1>1
  <1> HIDE DEF h
  <1>3. \A i \in 1 .. h : 2 * i - 1 \in 1 .. n /\ (2 * i <= n => 2 * i \in 1 .. n)
    BY <1>1
  <1> QED
    BY <1>1, <1>2, <1>3 DEF h

\* One level up: half as many, each over one or two.
LEMMA ParentsAre ==
    ASSUME NEW s, IsList(s), Len(s) >= 1
    PROVE  /\ IsList(Parents(s)) /\ Len(Parents(s)) = (Len(s) + 1) \div 2
           /\ \A i \in 1 .. (Len(s) + 1) \div 2 :
                 Parents(s)[i] = Node(s[2 * i - 1],
                                      IF 2 * i <= Len(s) THEN s[2 * i] ELSE s[2 * i - 1])
  <1> DEFINE n == (Len(s) + 1) \div 2
  <1>1. n \in Nat
    BY HalfUp DEF IsList
  <1>2. Parents(s) = [i \in 1 .. n |-> Parents(s)[i]]
    BY DEF Parents
  <1>3. IsList(Parents(s)) /\ Len(Parents(s)) = n
    <2> HIDE DEF n
    <2> QED
      BY <1>1, <1>2, FunctionIsList
  <1> QED
    BY <1>3 DEF Parents

\* Every node of the next level is over nodes of this one.
LEMMA NodesOver ==
    ASSUME NEW s, IsList(s), Len(s) >= 1, NEW i \in 1 .. Len(Parents(s))
    PROVE  \E j, k \in 1 .. Len(s) : Parents(s)[i] = Node(s[j], s[k])
  <1>1. i \in 1 .. (Len(s) + 1) \div 2 /\ Len(s) \in Nat
    BY ParentsAre DEF IsList
  <1>2. 2 * i - 1 \in 1 .. Len(s) /\ (2 * i <= Len(s) => 2 * i \in 1 .. Len(s))
    BY <1>1, HalfUp
  <1>3. Parents(s)[i] = Node(s[2 * i - 1], IF 2 * i <= Len(s) THEN s[2 * i] ELSE s[2 * i - 1])
    BY <1>1, ParentsAre
  <1> QED
    BY <1>2, <1>3
-----------------------------------------------------------------------------
\* The levels up to the n-th.
UpTo(leaves, n, g) ==
    /\ g = [k \in 0 .. n |-> g[k]]
    /\ g[0] = [i \in 1 .. Len(leaves) |-> Leaf(leaves[i])]
    /\ \A k \in 1 .. n : g[k] = Parents(g[k - 1])

\* There are levels up to every n.
LEMMA LevelsExist ==
    ASSUME NEW leaves
    PROVE  \A n \in Nat : \E g : UpTo(leaves, n, g)
  <1> DEFINE S == {n \in Nat : \E g : UpTo(leaves, n, g)}
             hashes == [i \in 1 .. Len(leaves) |-> Leaf(leaves[i])]
  <1>1. 0 \in S
    <2> DEFINE g == [k \in 0 .. 0 |-> hashes]
    <2>1. UpTo(leaves, 0, g)
      BY DEF UpTo
    <2> QED
      BY <2>1
  <1>2. ASSUME NEW n \in Nat, n \in S PROVE n + 1 \in S
    <2>1. PICK h : UpTo(leaves, n, h)
      BY <1>2
    <2> DEFINE g == [k \in 0 .. (n + 1) |-> IF k = n + 1 THEN Parents(h[n]) ELSE h[k]]
    <2>2. g = [k \in 0 .. (n + 1) |-> g[k]]
      OBVIOUS
    <2>3. \A k \in 0 .. n : g[k] = h[k]
      OBVIOUS
    <2>4. g[n + 1] = Parents(h[n])
      OBVIOUS
    <2> HIDE DEF g
    <2>5. ASSUME NEW k \in 1 .. (n + 1) PROVE g[k] = Parents(g[k - 1])
      <3>1. g[k - 1] = h[k - 1]
        BY <2>3
      <3>2. CASE k = n + 1
        BY <2>4, <3>1, <3>2
      <3>3. CASE k # n + 1
        <4>1. k \in 1 .. n /\ k \in 0 .. n
          BY <3>3
        <4> QED
          BY <2>1, <2>3, <3>1, <4>1 DEF UpTo
      <3> QED
        BY <3>2, <3>3
    <2>6. g[0] = hashes
      BY <2>1, <2>3 DEF UpTo
    <2>7. UpTo(leaves, n + 1, g)
      BY <2>2, <2>5, <2>6 DEF UpTo
    <2> QED
      BY <2>7
  <1>3. Nat \subseteq S
    <2> HIDE DEF S
    <2> QED
      BY <1>1, <1>2, SetInduction
  <1> QED
    BY <1>3

\* They are the same however far up they go.
LEMMA LevelsAgree ==
    ASSUME NEW leaves, NEW m \in Nat, NEW n \in Nat, m <= n, NEW g, NEW h,
           UpTo(leaves, m, g), UpTo(leaves, n, h)
    PROVE  g[m] = h[m]
  <1> DEFINE S == {k \in Nat : k <= m => g[k] = h[k]}
  <1>1. 0 \in S
    BY DEF UpTo
  <1>2. ASSUME NEW k \in Nat, k \in S PROVE k + 1 \in S
    <2> SUFFICES ASSUME k + 1 <= m PROVE g[k + 1] = h[k + 1]
      OBVIOUS
    <2>1. k + 1 \in 1 .. m /\ k + 1 \in 1 .. n /\ (k + 1) - 1 = k
      OBVIOUS
    <2>2. g[k + 1] = Parents(g[k]) /\ h[k + 1] = Parents(h[k])
      BY <2>1 DEF UpTo
    <2> QED
      BY <1>2, <2>2
  <1>3. Nat \subseteq S
    <2> HIDE DEF S
    <2> QED
      BY <1>1, <1>2, SetInduction
  <1> QED
    BY <1>3

\* The function of all levels.
IsLayers(leaves, f) ==
    f = [n \in Nat |-> IF n = 0 THEN [i \in 1 .. Len(leaves) |-> Leaf(leaves[i])]
                       ELSE Parents(f[n - 1])]

\* The levels: the hashes of the leaves, and from each the next.
LEMMA LayersAre ==
    ASSUME NEW leaves
    PROVE  /\ Layers(leaves)[0] = [i \in 1 .. Len(leaves) |-> Leaf(leaves[i])]
           /\ \A n \in Nat : Layers(leaves)[n + 1] = Parents(Layers(leaves)[n])
  <1> DEFINE up == [n \in Nat |-> CHOOSE g : UpTo(leaves, n, g)]
             f == [n \in Nat |-> up[n][n]]
             hashes == [i \in 1 .. Len(leaves) |-> Leaf(leaves[i])]
  <1>1. \A n \in Nat : UpTo(leaves, n, up[n])
    BY LevelsExist
  <1> HIDE DEF up
  <1>2. ASSUME NEW n \in Nat
        PROVE  f[n] = IF n = 0 THEN hashes ELSE Parents(f[n - 1])
    <2>1. CASE n = 0
      BY <1>1, <2>1 DEF UpTo
    <2>2. CASE n # 0
      <3>1. n - 1 \in Nat /\ n - 1 <= n /\ n \in 1 .. n
        BY <2>2
      <3>2. up[n - 1][n - 1] = up[n][n - 1]
        BY <1>1, <3>1, LevelsAgree
      <3>3. up[n][n] = Parents(up[n][n - 1])
        BY <1>1, <3>1 DEF UpTo
      <3> QED
        BY <2>2, <3>1, <3>2, <3>3
    <2> QED
      BY <2>1, <2>2
  <1>3. IsLayers(leaves, f)
    <2>1. f = [n \in Nat |-> f[n]]
      OBVIOUS
    <2> HIDE DEF f
    <2> QED
      BY <1>2, <2>1 DEF IsLayers
  <1>4. Layers(leaves) = CHOOSE g : IsLayers(leaves, g)
    BY DEF Layers, IsLayers
  <1>5. IsLayers(leaves, Layers(leaves))
    <2> HIDE DEF f
    <2> QED
      BY <1>3, <1>4
  <1> HIDE DEF f
  <1>6. ASSUME NEW n \in Nat
        PROVE  Layers(leaves)[n] = IF n = 0 THEN hashes ELSE Parents(Layers(leaves)[n - 1])
    BY <1>5 DEF IsLayers
  <1>7. ASSUME NEW n \in Nat PROVE Layers(leaves)[n + 1] = Parents(Layers(leaves)[n])
    <2>1. n + 1 \in Nat /\ n + 1 # 0 /\ (n + 1) - 1 = n
      OBVIOUS
    <2> QED
      BY <1>6, <2>1
  <1> QED
    BY <1>6, <1>7
-----------------------------------------------------------------------------
\* What defines the rounds.
IsRounds(f) == f = [n \in Nat |-> IF n <= 1 THEN 0 ELSE 1 + f[(n + 1) \div 2]]

\* The rounds are those of half as many, and one; one node takes none.
LEMMA RoundsAre ==
    /\ Rounds \in [Nat -> Nat]
    /\ \A n \in Nat : Rounds[n] = IF n <= 1 THEN 0 ELSE 1 + Rounds[(n + 1) \div 2]
  <1> DEFINE step == [n \in Nat |-> [g \in [0 .. (n - 1) -> Nat] |->
                         IF n <= 1 THEN 0 ELSE 1 + g[(n + 1) \div 2]]]
  <1>1. ASSUME NEW n \in Nat, n > 1 PROVE (n + 1) \div 2 \in 0 .. (n - 1)
    BY <1>1
  <1>2. IsStep(step, Nat)
    <2> SUFFICES ASSUME NEW n \in Nat, NEW g \in [0 .. (n - 1) -> Nat]
                 PROVE  step[n][g] \in Nat
      BY DEF IsStep
    <2>1. CASE n <= 1
      BY <2>1
    <2>2. CASE n > 1
      <3> DEFINE h == (n + 1) \div 2
      <3>1. h \in 0 .. (n - 1)
        BY <1>1, <2>2
      <3>2. step[n][g] = 1 + g[h]
        BY <2>2
      <3> HIDE DEF h
      <3>3. g[h] \in Nat
        BY <3>1
      <3> QED
        BY <3>2, <3>3
    <2> QED
      BY <2>1, <2>2
  <1>3. PICK f \in [Nat -> Nat] : \A n \in Nat : f[n] = step[n][Below(f, n)]
    <2> HIDE DEF step
    <2> QED
      BY <1>2, RecursiveFunctionExists
  <1>4. ASSUME NEW n \in Nat
        PROVE  f[n] = IF n <= 1 THEN 0 ELSE 1 + f[(n + 1) \div 2]
    <2> DEFINE less == Below(f, n)
    <2>1. less \in [0 .. (n - 1) -> Nat] /\ \A k \in 0 .. (n - 1) : less[k] = f[k]
      BY DEF Below
    <2> HIDE DEF less
    <2>2. step[n][less] = IF n <= 1 THEN 0 ELSE 1 + less[(n + 1) \div 2]
      BY <2>1
    <2>3. f[n] = step[n][less]
      BY <1>3 DEF less
    <2> HIDE DEF step
    <2>4. CASE n <= 1
      BY <2>2, <2>3, <2>4
    <2>5. CASE n > 1
      <3> DEFINE h == (n + 1) \div 2
      <3>1. h \in 0 .. (n - 1)
        BY <1>1, <2>5
      <3>2. step[n][less] = 1 + less[h] /\ ~(n <= 1)
        BY <2>2, <2>5
      <3> HIDE DEF h
      <3>3. less[h] = f[h]
        BY <2>1, <3>1
      <3> QED
        BY <2>3, <3>2, <3>3 DEF h
    <2> QED
      BY <2>4, <2>5
  <1>5. f = [n \in Nat |-> f[n]]
    BY <1>3
  <1>6. IsRounds(f)
    BY <1>4, <1>5 DEF IsRounds
  <1>7. Rounds = CHOOSE g : IsRounds(g)
    BY DEF Rounds, IsRounds
  <1>8. IsRounds(Rounds)
    BY <1>6, <1>7
  <1>9. ASSUME NEW n \in Nat
        PROVE  Rounds[n] = IF n <= 1 THEN 0 ELSE 1 + Rounds[(n + 1) \div 2]
    BY <1>8 DEF IsRounds
  <1> DEFINE S == {n \in Nat : Rounds[n] \in Nat}
  <1>10. ASSUME NEW n \in Nat, 0 .. (n - 1) \subseteq S PROVE n \in S
    <2>1. CASE n <= 1
      BY <1>9, <2>1
    <2>2. CASE n > 1
      <3> DEFINE h == (n + 1) \div 2
      <3>1. h \in 0 .. (n - 1)
        BY <1>1, <2>2
      <3>2. Rounds[n] = 1 + Rounds[h]
        BY <1>9, <2>2
      <3> HIDE DEF h
      <3>3. Rounds[h] \in Nat
        BY <1>10, <3>1
      <3> QED
        BY <3>2, <3>3
    <2> QED
      BY <2>1, <2>2
  <1>11. Nat \subseteq S
    <2> HIDE DEF S
    <2> QED
      BY <1>10, StrongSetInduction
  <1>12. \A n \in Nat : Rounds[n] \in Nat
    BY <1>11
  <1>13. Rounds = [n \in Nat |-> Rounds[n]]
    BY <1>8, Zenon DEF IsRounds
  <1> QED
    BY <1>9, <1>12, <1>13

\* Every level is a list and not empty, and what is left of the rounds is the
\* rounds of what is left.
LEMMA LevelShape ==
    ASSUME NEW s, IsList(s), Len(s) >= 1
    PROVE  \A n \in Nat :
              /\ IsList(Layers(s)[n]) /\ Len(Layers(s)[n]) >= 1
              /\ n <= Rounds[Len(s)] => Rounds[Len(Layers(s)[n])] = Rounds[Len(s)] - n
  <1> DEFINE level(n) == Layers(s)[n]
             all == Rounds[Len(s)]
             S == {n \in Nat : /\ IsList(level(n)) /\ Len(level(n)) >= 1
                               /\ n <= all => Rounds[Len(level(n))] = all - n}
  <1>0. Len(s) \in Nat /\ all \in Nat
    BY RoundsAre DEF IsList
  <1>1. 0 \in S
    <2>1. IsList(level(0)) /\ Len(level(0)) = Len(s)
      <3>1. level(0) = [i \in 1 .. Len(s) |-> Leaf(s[i])]
        BY LayersAre
      <3>2. level(0) = [i \in 1 .. Len(s) |-> level(0)[i]]
        BY <3>1
      <3> HIDE DEF level
      <3> QED
        BY <1>0, <3>2, FunctionIsList
    <2> HIDE DEF level
    <2> QED
      BY <1>0, <2>1
  <1>2. ASSUME NEW n \in Nat, n \in S PROVE n + 1 \in S
    <2> DEFINE len == Len(level(n))
               half == (len + 1) \div 2
    <2>1. IsList(level(n)) /\ len \in Nat /\ len >= 1
      BY <1>2 DEF IsList
    <2>2. level(n + 1) = Parents(level(n))
      BY LayersAre
    <2> HIDE DEF level
    <2>3. IsList(level(n + 1)) /\ Len(level(n + 1)) = half
      BY <2>1, <2>2, ParentsAre
    <2>4. half \in Nat /\ half >= 1
      <3> HIDE DEF len
      <3> QED
        BY <2>1, HalfUp
    <2>5. ASSUME n + 1 <= all PROVE Rounds[half] = all - (n + 1)
      <3>1. Rounds[len] = all - n
        BY <1>0, <1>2, <2>5
      <3>2. all - n >= 1
        BY <1>0, <2>5
      <3>3. Rounds[len] = 1 + Rounds[half] /\ Rounds[half] \in Nat
        <4>1. Rounds[len] = IF len <= 1 THEN 0 ELSE 1 + Rounds[half]
          BY <2>1, RoundsAre
        <4> HIDE DEF half, len
        <4>2. Rounds[half] \in Nat
          BY <2>4, RoundsAre
        <4> QED
          BY <1>0, <3>1, <3>2, <4>1, <4>2
      <3> HIDE DEF half, len, all
      <3> QED
        BY <1>0, <3>1, <3>3
    <2> HIDE DEF half, all
    <2> QED
      BY <1>0, <2>3, <2>4, <2>5
  <1>3. Nat \subseteq S
    <2> HIDE DEF S
    <2> QED
      BY <1>1, <1>2, SetInduction
  <1> QED
    BY <1>3

\* The loops leave one node.
LEMMA LastLevel ==
    ASSUME NEW s, IsList(s), Len(s) >= 1
    PROVE  /\ Rounds[Len(s)] \in Nat
           /\ IsList(Layers(s)[Rounds[Len(s)]])
           /\ Len(Layers(s)[Rounds[Len(s)]]) = 1
  <1> DEFINE all == Rounds[Len(s)]
             len == Len(Layers(s)[all])
  <1> HIDE DEF len
  <1>1. all \in Nat
    BY RoundsAre DEF IsList
  <1>2. IsList(Layers(s)[all]) /\ len >= 1 /\ Rounds[len] = all - all
    <2>1. \A n \in Nat :
              /\ IsList(Layers(s)[n]) /\ Len(Layers(s)[n]) >= 1
              /\ n <= all => Rounds[Len(Layers(s)[n])] = all - n
      BY LevelShape
    <2> HIDE DEF all
    <2> QED
      BY <1>1, <2>1 DEF len
  <1>3. len \in Nat /\ Rounds[len] = 0
    BY <1>1, <1>2 DEF IsList, len
  <1>4. len <= 1
    <2>1. Rounds[len] = IF len <= 1 THEN 0 ELSE 1 + Rounds[(len + 1) \div 2]
      BY <1>3, RoundsAre
    <2>2. (len + 1) \div 2 \in Nat
      BY <1>2, <1>3, HalfUp
    <2>3. Rounds[(len + 1) \div 2] \in Nat
      BY <2>2, RoundsAre
    <2> QED
      BY <1>3, <2>1, <2>3
  <1>5. len = 1
    BY <1>2, <1>3, <1>4
  <1> QED
    BY <1>1, <1>2, <1>5 DEF len
-----------------------------------------------------------------------------
\* No hash of a level of s is d levels up in the tree of t.
Apart(s, t, d) ==
    \A n \in Nat : \A i \in 1 .. Len(Layers(s)[n]), j \in 1 .. Len(Layers(t)[n + d]) :
        Layers(s)[n][i] # Layers(t)[n + d][j]

\* The hash of a leaf is on the first level and the node of two hashes on the
\* next, so that no hash is on two levels, of the same tree or of two.
LEMMA LevelsApart ==
    ASSUME NEW s, NEW t, IsList(s), IsList(t), Len(s) >= 1, Len(t) >= 1,
           NEW d \in Nat, d >= 1
    PROVE  Apart(s, t, d)
  <1> DEFINE a(n) == Layers(s)[n]
             b(n) == Layers(t)[n]
             S == {n \in Nat : \A i \in 1 .. Len(a(n)), j \in 1 .. Len(b(n + d)) : a(n)[i] # b(n + d)[j]}
  <1>1. ASSUME NEW n \in Nat
        PROVE  /\ IsList(a(n)) /\ Len(a(n)) >= 1 /\ a(n + 1) = Parents(a(n))
               /\ IsList(b(n)) /\ Len(b(n)) >= 1 /\ b(n + 1) = Parents(b(n))
    BY LevelShape, LayersAre
  <1>2. a(0) = [i \in 1 .. Len(s) |-> Leaf(s[i])] /\ Len(a(0)) = Len(s)
    <2>1. a(0) = [i \in 1 .. Len(s) |-> Leaf(s[i])]
      BY LayersAre
    <2>2. a(0) = [i \in 1 .. Len(s) |-> a(0)[i]] /\ Len(s) \in Nat
      BY <2>1 DEF IsList
    <2> HIDE DEF a
    <2>3. Len(a(0)) = Len(s)
      BY <2>2, FunctionIsList
    <2> QED
      BY <2>1, <2>3
  <1> HIDE DEF a, b
  <1>3. ASSUME NEW n \in Nat, NEW j \in 1 .. Len(b(n + 1))
        PROVE  \E k, l \in 1 .. Len(b(n)) : b(n + 1)[j] = Node(b(n)[k], b(n)[l])
    <2>1. IsList(b(n)) /\ Len(b(n)) >= 1 /\ b(n + 1) = Parents(b(n))
      BY <1>1
    <2>2. j \in 1 .. Len(Parents(b(n)))
      BY <2>1
    <2>3. \E k, l \in 1 .. Len(b(n)) : Parents(b(n))[j] = Node(b(n)[k], b(n)[l])
      BY <2>1, <2>2, NodesOver
    <2> QED
      BY <2>1, <2>3
  <1>4. 0 \in S
    <2> SUFFICES ASSUME NEW i \in 1 .. Len(a(0)), NEW j \in 1 .. Len(b(0 + d))
                 PROVE  a(0)[i] # b(0 + d)[j]
      OBVIOUS
    <2> DEFINE e == d - 1
    <2>1. e \in Nat /\ 0 + d = e + 1
      OBVIOUS
    <2> HIDE DEF e
    <2>4. j \in 1 .. Len(b(e + 1))
      BY <2>1
    <2>5. \E k, l \in 1 .. Len(b(e)) : b(e + 1)[j] = Node(b(e)[k], b(e)[l])
      BY <1>3, <2>1, <2>4
    <2>2. \E x, y : b(0 + d)[j] = Node(x, y)
      BY <2>1, <2>5
    <2>3. a(0)[i] = Leaf(s[i])
      BY <1>2
    <2> QED
      BY <2>2, <2>3, HashesApart
  <1>5. ASSUME NEW n \in Nat, n \in S PROVE n + 1 \in S
    <2> SUFFICES ASSUME NEW i \in 1 .. Len(a(n + 1)), NEW j \in 1 .. Len(b((n + 1) + d))
                 PROVE  a(n + 1)[i] # b((n + 1) + d)[j]
      OBVIOUS
    <2> DEFINE e == n + d
    <2>1. e \in Nat /\ (n + 1) + d = e + 1
      OBVIOUS
    <2>5. \A p \in 1 .. Len(a(n)), k \in 1 .. Len(b(e)) : a(n)[p] # b(e)[k]
      BY <1>5
    <2> HIDE DEF e
    <2>6. j \in 1 .. Len(b(e + 1))
      BY <2>1
    <2>2. PICK k, l \in 1 .. Len(b(e)) : b(e + 1)[j] = Node(b(e)[k], b(e)[l])
      BY <1>3, <2>1, <2>6
    <2>7. /\ IsList(a(n)) /\ Len(a(n)) >= 1 /\ a(n + 1) = Parents(a(n))
          /\ i \in 1 .. Len(Parents(a(n)))
      BY <1>1
    <2>3. PICK p, q \in 1 .. Len(a(n)) : Parents(a(n))[i] = Node(a(n)[p], a(n)[q])
      BY <2>7, NodesOver
    <2>4. a(n)[p] # b(e)[k]
      BY <2>5
    <2>8. a(n + 1)[i] # b(e + 1)[j]
      BY <2>2, <2>3, <2>4, <2>7, HashesApart
    <2> QED
      BY <2>1, <2>8
  <1>6. Nat \subseteq S
    <2> HIDE DEF S
    <2> QED
      BY <1>4, <1>5, SetInduction
  <1> QED
    BY <1>6 DEF a, b, Apart

\* Trees with one root have one height.
LEMMA SameHeight ==
    ASSUME NEW s, NEW t, IsList(s), IsList(t), Len(s) >= 1, Len(t) >= 1,
           Layers(s)[Rounds[Len(s)]][1] = Layers(t)[Rounds[Len(t)]][1]
    PROVE  Rounds[Len(s)] = Rounds[Len(t)]
  <1> DEFINE m == Rounds[Len(s)]
             n == Rounds[Len(t)]
  <1>1. m \in Nat /\ n \in Nat /\ Len(Layers(s)[m]) = 1 /\ Len(Layers(t)[n]) = 1
    BY LastLevel
  <1>2. Layers(s)[m][1] = Layers(t)[n][1]
    OBVIOUS
  <1> HIDE DEF m, n
  <1>3. ASSUME m < n PROVE FALSE
    <2> DEFINE d == n - m
    <2>1. d \in Nat /\ d >= 1 /\ m + d = n
      BY <1>1, <1>3
    <2> HIDE DEF d
    <2>2. Apart(s, t, d)
      BY <2>1, LevelsApart
    <2>3. \A i \in 1 .. Len(Layers(s)[m]), j \in 1 .. Len(Layers(t)[n]) :
              Layers(s)[m][i] # Layers(t)[n][j]
      BY <1>1, <2>1, <2>2 DEF Apart
    <2> QED
      BY <1>1, <1>2, <2>3
  <1>4. ASSUME n < m PROVE FALSE
    <2> DEFINE d == m - n
    <2>1. d \in Nat /\ d >= 1 /\ n + d = m
      BY <1>1, <1>4
    <2> HIDE DEF d
    <2>2. Apart(t, s, d)
      BY <2>1, LevelsApart
    <2>3. \A i \in 1 .. Len(Layers(t)[n]), j \in 1 .. Len(Layers(s)[m]) :
              Layers(t)[n][i] # Layers(s)[m][j]
      BY <1>1, <2>1, <2>2 DEF Apart
    <2> QED
      BY <1>1, <1>2, <2>3
  <1>5. m = n
    BY <1>1, <1>3, <1>4
  <1> QED
    BY <1>5 DEF m, n
-----------------------------------------------------------------------------
\* What a node of the next level says of this one.
LEMMA NodeSplits ==
    ASSUME NEW s, NEW t, IsList(s), IsList(t), Len(s) >= 1, Len(t) >= 1,
           NEW i \in 1 .. Len(Parents(s)), NEW j \in 1 .. Len(Parents(t)),
           Parents(s)[i] = Parents(t)[j]
    PROVE  /\ s[2 * i - 1] = t[2 * j - 1]
           /\ (IF 2 * i <= Len(s) THEN s[2 * i] ELSE s[2 * i - 1])
                = (IF 2 * j <= Len(t) THEN t[2 * j] ELSE t[2 * j - 1])
  <1>1. i \in 1 .. (Len(s) + 1) \div 2 /\ j \in 1 .. (Len(t) + 1) \div 2
    BY ParentsAre
  <1> DEFINE x == IF 2 * i <= Len(s) THEN s[2 * i] ELSE s[2 * i - 1]
             y == IF 2 * j <= Len(t) THEN t[2 * j] ELSE t[2 * j - 1]
             p == s[2 * i - 1]
             q == t[2 * j - 1]
  <1>2. Node(p, x) = Node(q, y)
    <2>1. Parents(s)[i] = Node(p, x)
      BY <1>1, ParentsAre
    <2>2. Parents(t)[j] = Node(q, y)
      BY <1>1, ParentsAre
    <2> QED
      BY <2>1, <2>2
  <1>3. p = q /\ x = y
    <2> HIDE DEF p, q, x, y
    <2> QED
      BY <1>2, HashesApart
  <1> QED
    BY <1>3

\* Levels of one length differ in the next one.
LEMMA ParentsTell ==
    ASSUME NEW s, NEW t, IsList(s), IsList(t), Len(s) >= 1, Len(t) = Len(s),
           Parents(s) = Parents(t)
    PROVE  s = t
  <1> DEFINE n == Len(s)
  <1>1. n \in Nat
    BY DEF IsList
  <1>2. ASSUME NEW j \in 1 .. n PROVE s[j] = t[j]
    <2> DEFINE i == (j + 1) \div 2
    <2>1. i \in 1 .. (n + 1) \div 2
      BY <1>1, HalfUp
    <2>2. Len(Parents(s)) = (n + 1) \div 2 /\ Len(Parents(t)) = (n + 1) \div 2
      BY ParentsAre
    <2>3. j = 2 * i - 1 \/ (j = 2 * i /\ 2 * i <= n)
      BY <1>1
    <2>4. i \in 1 .. Len(Parents(s)) /\ i \in 1 .. Len(Parents(t))
      BY <2>1, <2>2
    <2> HIDE DEF i
    <2>5. /\ s[2 * i - 1] = t[2 * i - 1]
          /\ (IF 2 * i <= n THEN s[2 * i] ELSE s[2 * i - 1])
                = (IF 2 * i <= n THEN t[2 * i] ELSE t[2 * i - 1])
      BY <2>4, NodeSplits
    <2> QED
      BY <2>3, <2>5
  <1> QED
    BY <1>2, ListsEqual

\* Distinct hashes have distinct parents.
LEMMA ParentsDistinct ==
    ASSUME NEW s, IsList(s), Len(s) >= 1, Distinct(s)
    PROVE  Distinct(Parents(s))
  <1> SUFFICES ASSUME NEW i \in 1 .. Len(Parents(s)), NEW j \in 1 .. Len(Parents(s)),
                      Parents(s)[i] = Parents(s)[j]
               PROVE  i = j
    BY DEF Distinct
  <1>1. s[2 * i - 1] = s[2 * j - 1]
    BY NodeSplits
  <1>2. Len(s) \in Nat /\ i \in 1 .. (Len(s) + 1) \div 2 /\ j \in 1 .. (Len(s) + 1) \div 2
    BY ParentsAre DEF IsList
  <1>3. 2 * i - 1 \in 1 .. Len(s) /\ 2 * j - 1 \in 1 .. Len(s)
    BY <1>2, HalfUp
  <1>4. 2 * i - 1 = 2 * j - 1
    BY <1>1, <1>3 DEF Distinct
  <1> QED
    BY <1>2, <1>4

\* The hashes of distinct leaves are distinct.
LEMMA FirstLevel ==
    ASSUME NEW s, IsList(s)
    PROVE  /\ IsList(Layers(s)[0]) /\ Len(Layers(s)[0]) = Len(s)
           /\ \A i \in 1 .. Len(s) : Layers(s)[0][i] = Leaf(s[i])
           /\ Distinct(s) => Distinct(Layers(s)[0])
  <1> DEFINE level == Layers(s)[0]
  <1>1. level = [i \in 1 .. Len(s) |-> Leaf(s[i])]
    BY LayersAre
  <1>2. level = [i \in 1 .. Len(s) |-> level[i]] /\ Len(s) \in Nat
    BY <1>1 DEF IsList
  <1>3. \A i \in 1 .. Len(s) : level[i] = Leaf(s[i])
    BY <1>1
  <1> HIDE DEF level
  <1>4. IsList(level) /\ Len(level) = Len(s)
    BY <1>2, FunctionIsList
  <1>5. Distinct(s) => Distinct(level)
    BY <1>3, <1>4, HashesApart DEF Distinct
  <1> QED
    BY <1>3, <1>4, <1>5 DEF level

\* A level whose last node is paired with itself is no level of distinct
\* hashes with one more.
LEMMA OddTells ==
    ASSUME NEW s, NEW t, IsList(s), IsList(t), Len(s) >= 1, Len(t) = Len(s) + 1,
           Distinct(t), Parents(s) = Parents(t), Len(Parents(s)) = Len(Parents(t))
    PROVE  FALSE
  <1> DEFINE n == Len(s)
             i == (n + 1) \div 2
  <1>1. n \in Nat /\ n >= 1 /\ n + 1 \in Nat
    BY DEF IsList
  <1>2. Len(Parents(s)) = i /\ Len(Parents(t)) = ((n + 1) + 1) \div 2
    <2>1. Len(t) >= 1
      BY <1>1
    <2>2. Len(Parents(t)) = (Len(t) + 1) \div 2
      BY <2>1, ParentsAre
    <2>3. Len(Parents(s)) = i
      BY ParentsAre
    <2> QED
      BY <2>2, <2>3
  <1>3. i = ((n + 1) + 1) \div 2
    BY <1>2
  <1>4. 2 * i = n + 1 /\ i >= 1 /\ i \in Nat
    BY <1>1, <1>3
  <1>5. i \in 1 .. Len(Parents(s)) /\ i \in 1 .. Len(Parents(t))
    <2> HIDE DEF i
    <2> QED
      BY <1>2, <1>3, <1>4
  <1> HIDE DEF i
  <1>6. /\ s[2 * i - 1] = t[2 * i - 1]
        /\ (IF 2 * i <= n THEN s[2 * i] ELSE s[2 * i - 1])
                = (IF 2 * i <= n + 1 THEN t[2 * i] ELSE t[2 * i - 1])
    BY <1>5, NodeSplits
  <1>7. t[2 * i] = t[2 * i - 1]
    BY <1>1, <1>4, <1>6
  <1>8. 2 * i \in 1 .. Len(t) /\ 2 * i - 1 \in 1 .. Len(t)
    BY <1>1, <1>4
  <1>9. 2 * i = 2 * i - 1
    BY <1>7, <1>8 DEF Distinct
  <1> QED
    BY <1>4, <1>9

\* Levels of distinct hashes differ in the next one, whatever their lengths.
LEMMA DistinctParentsTell ==
    ASSUME NEW s, NEW t, IsList(s), IsList(t), Len(s) >= 1, Len(t) >= 1,
           Distinct(s), Distinct(t), Parents(s) = Parents(t)
    PROVE  s = t
  <1> DEFINE m == Len(s)
             n == Len(t)
  <1>1. m \in Nat /\ n \in Nat
    BY DEF IsList
  <1>2. Len(Parents(s)) = Len(Parents(t))
    OBVIOUS
  <1>3. (m + 1) \div 2 = (n + 1) \div 2
    BY <1>2, ParentsAre
  <1>4. m = n \/ n = m + 1 \/ m = n + 1
    BY <1>1, <1>3
  <1>5. n # m + 1
    BY <1>2, OddTells
  <1>6. m # n + 1
    BY <1>2, OddTells
  <1>7. Len(t) = Len(s)
    BY <1>4, <1>5, <1>6
  <1> QED
    BY <1>7, ParentsTell
-----------------------------------------------------------------------------
\* The levels of s are told apart from those of t by the next ones.
Telling(s, t) ==
    \A n \in Nat : Layers(s)[n + 1] = Layers(t)[n + 1] => Layers(s)[n] = Layers(t)[n]

\* A root tells what is under it when every level tells the one below.
LEMMA RootTells ==
    ASSUME NEW s, NEW t, IsList(s), IsList(t), Len(s) >= 1, Len(t) >= 1,
           Telling(s, t), Root(s) = Root(t)
    PROVE  s = t
  <1> DEFINE a(n) == Layers(s)[n]
             b(n) == Layers(t)[n]
             top == Rounds[Len(s)]
             S == {n \in Nat : a(n) = b(n) => a(0) = b(0)}
  <1>1. s # <<>> /\ t # <<>>
    OBVIOUS
  <1>2. Layers(s)[Rounds[Len(s)]][1] = Layers(t)[Rounds[Len(t)]][1]
    BY <1>1 DEF Root
  <1>3. Rounds[Len(t)] = top
    BY <1>2, SameHeight
  <1>4. top \in Nat /\ a(top)[1] = b(top)[1]
    BY <1>2, <1>3, LastLevel
  <1>5. IsList(a(top)) /\ Len(a(top)) = 1 /\ IsList(b(top)) /\ Len(b(top)) = 1
    <2>1. IsList(a(top)) /\ Len(a(top)) = 1
      BY LastLevel
    <2>2. IsList(Layers(t)[Rounds[Len(t)]]) /\ Len(Layers(t)[Rounds[Len(t)]]) = 1
      BY LastLevel
    <2> QED
      BY <1>3, <2>1, <2>2
  <1>6. a(0) = [i \in 1 .. Len(s) |-> Leaf(s[i])] /\ b(0) = [i \in 1 .. Len(t) |-> Leaf(t[i])]
    BY LayersAre
  <1>7. \A n \in Nat : a(n + 1) = b(n + 1) => a(n) = b(n)
    BY DEF Telling
  <1> HIDE DEF a, b, top
  <1>8. a(top) = b(top)
    <2>1. \A i \in 1 .. Len(a(top)) : a(top)[i] = b(top)[i]
      BY <1>4, <1>5
    <2> QED
      BY <1>5, <2>1, ListsEqual
  <1>9. Nat \subseteq S
    <2>1. 0 \in S /\ \A n \in Nat : n \in S => n + 1 \in S
      BY <1>7
    <2> HIDE DEF S
    <2> QED
      BY <2>1, SetInduction
  <1>10. a(0) = b(0)
    BY <1>4, <1>8, <1>9
  <1>11. Len(s) \in Nat /\ Len(t) \in Nat
    BY DEF IsList
  <1>12. 1 .. Len(s) = 1 .. Len(t)
    <2>1. DOMAIN a(0) = 1 .. Len(s) /\ DOMAIN b(0) = 1 .. Len(t)
      BY <1>6
    <2> QED
      BY <1>10, <2>1
  <1>13. Len(s) = Len(t)
    BY <1>11, <1>12
  <1>14. \A i \in 1 .. Len(s) : s[i] = t[i]
    <2>1. \A i \in 1 .. Len(s) : Leaf(s[i]) = Leaf(t[i])
      BY <1>6, <1>10, <1>12
    <2> QED
      BY <2>1, HashesApart
  <1> QED
    BY <1>13, <1>14, ListsEqual

\* Lists of one length with one root are the same (checkpointForSessionOps
\* puts the length beside the root).
THEOREM RootBindsLog ==
    ASSUME NEW s, NEW t, IsList(s), IsList(t), Len(s) = Len(t), Root(s) = Root(t)
    PROVE  s = t
  <1>1. Len(s) \in Nat
    BY DEF IsList
  <1>2. CASE Len(s) = 0
    <2>1. \A i \in 1 .. Len(s) : s[i] = t[i]
      BY <1>2
    <2> QED
      BY <2>1, ListsEqual
  <1>3. CASE Len(s) >= 1
    <2> DEFINE a(n) == Layers(s)[n]
               b(n) == Layers(t)[n]
               S == {n \in Nat : Len(a(n)) = Len(b(n))}
    <2>1. ASSUME NEW n \in Nat
          PROVE  /\ IsList(a(n)) /\ Len(a(n)) >= 1 /\ a(n + 1) = Parents(a(n))
                 /\ IsList(b(n)) /\ Len(b(n)) >= 1 /\ b(n + 1) = Parents(b(n))
      BY <1>3, LevelShape, LayersAre
    <2>2. a(0) = [i \in 1 .. Len(s) |-> Leaf(s[i])] /\ b(0) = [i \in 1 .. Len(t) |-> Leaf(t[i])]
      BY LayersAre
    <2>3. Telling(s, t) <=> \A n \in Nat : a(n + 1) = b(n + 1) => a(n) = b(n)
      BY DEF Telling
    <2> HIDE DEF a, b
    <2>4. 0 \in S
      <3>1. a(0) = [i \in 1 .. Len(s) |-> a(0)[i]] /\ b(0) = [i \in 1 .. Len(s) |-> b(0)[i]]
        BY <2>2
      <3> QED
        BY <1>1, <3>1, FunctionIsList
    <2>5. ASSUME NEW n \in Nat, n \in S PROVE n + 1 \in S
      <3>1. Len(Parents(a(n))) = (Len(a(n)) + 1) \div 2 /\ Len(Parents(b(n))) = (Len(b(n)) + 1) \div 2
        BY <2>1, ParentsAre
      <3>2. Len(a(n)) = Len(b(n))
        BY <2>5
      <3>3. Len(a(n + 1)) = Len(b(n + 1))
        BY <2>1, <3>1, <3>2
      <3> QED
        BY <3>3
    <2>6. Nat \subseteq S
      <3> HIDE DEF S
      <3> QED
        BY <2>4, <2>5, SetInduction
    <2>7. Telling(s, t)
      <3> SUFFICES ASSUME NEW n \in Nat, a(n + 1) = b(n + 1) PROVE a(n) = b(n)
        BY <2>3
      <3>1. Len(b(n)) = Len(a(n))
        BY <2>6
      <3>2. Parents(a(n)) = Parents(b(n))
        BY <2>1
      <3> QED
        BY <2>1, <3>1, <3>2, ParentsTell
    <2> QED
      BY <1>3, <2>7, RootTells
  <1> QED
    BY <1>1, <1>2, <1>3

\* Sorted lists of unique atoms with one root are the same, whatever their
\* lengths (commitLibrary).
THEOREM RootBindsLibrary ==
    ASSUME NEW s, NEW t, IsList(s), IsList(t), Distinct(s), Distinct(t), Root(s) = Root(t)
    PROVE  s = t
  <1>1. Len(s) \in Nat /\ Len(t) \in Nat
    BY DEF IsList
  <1>2. ASSUME NEW u, IsList(u), Len(u) >= 1
        PROVE  u # <<>> /\ Root(u) # EmptyRoot
    <2>1. u # <<>>
      BY <1>2
    <2> DEFINE top == Rounds[Len(u)]
    <2>2. Root(u) = Layers(u)[top][1] /\ top \in Nat /\ Len(Layers(u)[top]) = 1
      BY <1>2, <2>1, LastLevel DEF Root
    <2> HIDE DEF top
    <2>3. CASE top = 0
      <3>1. Len(u) \in Nat /\ 1 \in 1 .. Len(u)
        BY <1>2 DEF IsList
      <3>2. Layers(u)[0][1] = Leaf(u[1])
        BY <1>2, <3>1, FirstLevel
      <3> QED
        BY <2>1, <2>2, <2>3, <3>2, HashesApart
    <2>4. CASE top # 0
      <3> DEFINE n == top - 1
      <3>1. n \in Nat /\ top = n + 1
        BY <2>2, <2>4
      <3> HIDE DEF n
      <3>2. IsList(Layers(u)[n]) /\ Len(Layers(u)[n]) >= 1 /\ Layers(u)[top] = Parents(Layers(u)[n])
        BY <1>2, <3>1, LevelShape, LayersAre
      <3>3. 1 \in 1 .. Len(Parents(Layers(u)[n]))
        BY <2>2, <3>2
      <3>4. \E x, y : Parents(Layers(u)[n])[1] = Node(x, y)
        BY <3>2, <3>3, NodesOver
      <3> QED
        BY <2>1, <2>2, <3>2, <3>4, HashesApart
    <2> QED
      BY <2>3, <2>4
  <1>3. ASSUME NEW u, IsList(u), Len(u) = 0 PROVE u = <<>> /\ Root(u) = EmptyRoot
    <2>1. u = <<>>
      <3>1. u = [i \in 1 .. 0 |-> u[i]]
        BY <1>3 DEF IsList
      <3>2. IsList(<<>>) /\ Len(<<>>) = 0
        BY SeqIsList, EmptySeq
      <3> QED
        BY <1>3, <3>2, ListsEqual
    <2> QED
      BY <2>1 DEF Root
  <1>4. CASE Len(s) = 0 \/ Len(t) = 0
    <2>1. Len(s) = 0 /\ Len(t) = 0
      BY <1>1, <1>2, <1>3, <1>4
    <2> QED
      BY <1>3, <2>1
  <1>5. CASE Len(s) >= 1 /\ Len(t) >= 1
    <2> DEFINE a(n) == Layers(s)[n]
               b(n) == Layers(t)[n]
               S == {n \in Nat : Distinct(a(n)) /\ Distinct(b(n))}
    <2>1. ASSUME NEW n \in Nat
          PROVE  /\ IsList(a(n)) /\ Len(a(n)) >= 1 /\ a(n + 1) = Parents(a(n))
                 /\ IsList(b(n)) /\ Len(b(n)) >= 1 /\ b(n + 1) = Parents(b(n))
      BY <1>5, LevelShape, LayersAre
    <2>2. Telling(s, t) <=> \A n \in Nat : a(n + 1) = b(n + 1) => a(n) = b(n)
      BY DEF Telling
    <2>3. Distinct(a(0)) /\ Distinct(b(0))
      BY <1>5, FirstLevel
    <2> HIDE DEF a, b
    <2>4. 0 \in S
      BY <2>3
    <2>5. ASSUME NEW n \in Nat, n \in S PROVE n + 1 \in S
      <3>1. Distinct(a(n)) /\ Distinct(b(n))
        BY <2>5
      <3>2. Distinct(Parents(a(n))) /\ Distinct(Parents(b(n)))
        BY <2>1, <3>1, ParentsDistinct
      <3>3. Distinct(a(n + 1)) /\ Distinct(b(n + 1))
        BY <2>1, <3>2
      <3> QED
        BY <3>3
    <2>6. Nat \subseteq S
      <3> HIDE DEF S
      <3> QED
        BY <2>4, <2>5, SetInduction
    <2>7. Telling(s, t)
      <3> SUFFICES ASSUME NEW n \in Nat, a(n + 1) = b(n + 1) PROVE a(n) = b(n)
        BY <2>2
      <3>1. Distinct(a(n)) /\ Distinct(b(n))
        BY <2>6
      <3>2. Parents(a(n)) = Parents(b(n))
        BY <2>1
      <3> QED
        BY <2>1, <3>1, <3>2, DistinctParentsTell
    <2> QED
      BY <1>5, <2>7, RootTells
  <1> QED
    BY <1>1, <1>4, <1>5
-----------------------------------------------------------------------------
\* The hashes of the first n steps of a path.
ClimbsTo(leaf, path, n, g) ==
    /\ g = [k \in 0 .. n |-> g[k]]
    /\ g[0] = leaf
    /\ \A k \in 1 .. n : g[k] = Climb(path[k], g[k - 1])

\* There are hashes for every number of steps.
LEMMA ClimbsExist ==
    ASSUME NEW leaf, NEW path
    PROVE  \A n \in Nat : \E g : ClimbsTo(leaf, path, n, g)
  <1> DEFINE S == {n \in Nat : \E g : ClimbsTo(leaf, path, n, g)}
  <1>1. 0 \in S
    <2> DEFINE g == [k \in 0 .. 0 |-> leaf]
    <2>1. ClimbsTo(leaf, path, 0, g)
      BY DEF ClimbsTo
    <2> QED
      BY <2>1
  <1>2. ASSUME NEW n \in Nat, n \in S PROVE n + 1 \in S
    <2>1. PICK h : ClimbsTo(leaf, path, n, h)
      BY <1>2
    <2> DEFINE g == [k \in 0 .. (n + 1) |-> IF k = n + 1 THEN Climb(path[n + 1], h[n]) ELSE h[k]]
    <2>2. g = [k \in 0 .. (n + 1) |-> g[k]]
      OBVIOUS
    <2>3. \A k \in 0 .. n : g[k] = h[k]
      OBVIOUS
    <2>4. g[n + 1] = Climb(path[n + 1], h[n])
      OBVIOUS
    <2> HIDE DEF g
    <2>5. ASSUME NEW k \in 1 .. (n + 1) PROVE g[k] = Climb(path[k], g[k - 1])
      <3>1. g[k - 1] = h[k - 1]
        BY <2>3
      <3>2. CASE k = n + 1
        BY <2>4, <3>1, <3>2
      <3>3. CASE k # n + 1
        <4>1. k \in 1 .. n /\ k \in 0 .. n
          BY <3>3
        <4> QED
          BY <2>1, <2>3, <3>1, <4>1 DEF ClimbsTo
      <3> QED
        BY <3>2, <3>3
    <2>6. g[0] = leaf
      BY <2>1, <2>3 DEF ClimbsTo
    <2>7. ClimbsTo(leaf, path, n + 1, g)
      BY <2>2, <2>5, <2>6 DEF ClimbsTo
    <2> QED
      BY <2>7
  <1>3. Nat \subseteq S
    <2> HIDE DEF S
    <2> QED
      BY <1>1, <1>2, SetInduction
  <1> QED
    BY <1>3

\* What defines the hashes.
IsHashes(leaf, path, f) ==
    f = [n \in 0 .. Len(path) |-> IF n = 0 THEN leaf ELSE Climb(path[n], f[n - 1])]

\* The hashes start at the leaf and climb one step after the other.
LEMMA HashesAre ==
    ASSUME NEW leaf, NEW path, Len(path) \in Nat
    PROVE  /\ Hashes(leaf, path)[0] = leaf
           /\ \A n \in 1 .. Len(path) :
                 Hashes(leaf, path)[n] = Climb(path[n], Hashes(leaf, path)[n - 1])
  <1> DEFINE len == Len(path)
  <1>1. PICK g : ClimbsTo(leaf, path, len, g)
    BY ClimbsExist
  <1>2. IsHashes(leaf, path, g)
    <2>1. \A n \in 0 .. len : g[n] = IF n = 0 THEN leaf ELSE Climb(path[n], g[n - 1])
      BY <1>1 DEF ClimbsTo
    <2> QED
      BY <1>1, <2>1 DEF ClimbsTo, IsHashes
  <1>3. Hashes(leaf, path) = CHOOSE f : IsHashes(leaf, path, f)
    BY DEF Hashes, IsHashes
  <1>4. IsHashes(leaf, path, Hashes(leaf, path))
    BY <1>2, <1>3
  <1>5. ASSUME NEW n \in 0 .. len
        PROVE  Hashes(leaf, path)[n]
                 = IF n = 0 THEN leaf ELSE Climb(path[n], Hashes(leaf, path)[n - 1])
    BY <1>4 DEF IsHashes
  <1> QED
    BY <1>5
-----------------------------------------------------------------------------
\* What defines the places.
IsPlaces(i, f) == f = [n \in Nat |-> IF n = 0 THEN i ELSE (f[n - 1] + 1) \div 2]

\* The places start at the leaf's and are halved from level to level.
LEMMA PlacesAre ==
    ASSUME NEW i \in Nat
    PROVE  /\ Places(i)[0] = i
           /\ \A n \in Nat : Places(i)[n + 1] = (Places(i)[n] + 1) \div 2
  <1> DEFINE step == [n \in Nat |-> [g \in [0 .. (n - 1) -> Nat] |->
                         IF n = 0 THEN i ELSE (g[n - 1] + 1) \div 2]]
  <1>1. IsStep(step, Nat)
    <2> SUFFICES ASSUME NEW n \in Nat, NEW g \in [0 .. (n - 1) -> Nat]
                 PROVE  step[n][g] \in Nat
      BY DEF IsStep
    <2>1. CASE n = 0
      BY <2>1
    <2>2. CASE n # 0
      <3>1. g[n - 1] \in Nat
        BY <2>2
      <3> QED
        BY <2>2, <3>1
    <2> QED
      BY <2>1, <2>2
  <1>2. PICK f \in [Nat -> Nat] : \A n \in Nat : f[n] = step[n][Below(f, n)]
    <2> HIDE DEF step
    <2> QED
      BY <1>1, RecursiveFunctionExists
  <1>3. ASSUME NEW n \in Nat
        PROVE  f[n] = IF n = 0 THEN i ELSE (f[n - 1] + 1) \div 2
    <2> DEFINE less == Below(f, n)
    <2>1. less \in [0 .. (n - 1) -> Nat] /\ \A k \in 0 .. (n - 1) : less[k] = f[k]
      BY DEF Below
    <2>2. f[n] = step[n][less]
      BY <1>2
    <2> HIDE DEF less
    <2>3. step[n][less] = IF n = 0 THEN i ELSE (less[n - 1] + 1) \div 2
      BY <2>1
    <2> HIDE DEF step
    <2>4. CASE n = 0
      BY <2>2, <2>3, <2>4
    <2>5. CASE n # 0
      <3>1. less[n - 1] = f[n - 1]
        BY <2>1, <2>5
      <3> QED
        BY <2>2, <2>3, <2>5, <3>1
    <2> QED
      BY <2>4, <2>5
  <1>4. f = [n \in Nat |-> f[n]]
    BY <1>2
  <1>5. IsPlaces(i, f)
    BY <1>3, <1>4 DEF IsPlaces
  <1>6. Places(i) = CHOOSE g : IsPlaces(i, g)
    BY DEF Places, IsPlaces
  <1>7. IsPlaces(i, Places(i))
    BY <1>5, <1>6
  <1>8. ASSUME NEW n \in Nat
        PROVE  Places(i)[n] = IF n = 0 THEN i ELSE (Places(i)[n - 1] + 1) \div 2
    BY <1>7 DEF IsPlaces
  <1>9. ASSUME NEW n \in Nat PROVE Places(i)[n + 1] = (Places(i)[n] + 1) \div 2
    <2>1. n + 1 \in Nat /\ n + 1 # 0 /\ (n + 1) - 1 = n
      OBVIOUS
    <2> QED
      BY <1>8, <2>1
  <1> QED
    BY <1>8, <1>9

\* A node and its sibling make the node above them.
LEMMA SiblingClimbs ==
    ASSUME NEW s, IsList(s), Len(s) >= 1, NEW j \in 1 .. Len(s)
    PROVE  /\ (j + 1) \div 2 \in 1 .. Len(Parents(s))
           /\ Climb(Sibling(s, j), s[j]) = Parents(s)[(j + 1) \div 2]
  <1> DEFINE n == Len(s)
             i == (j + 1) \div 2
  <1>1. n \in Nat
    BY DEF IsList
  <1>2. i \in 1 .. (n + 1) \div 2
    BY <1>1, HalfUp
  <1>3. /\ Len(Parents(s)) = (n + 1) \div 2
        /\ Parents(s)[i] = Node(s[2 * i - 1], IF 2 * i <= n THEN s[2 * i] ELSE s[2 * i - 1])
    BY <1>2, ParentsAre
  <1>4. CASE j % 2 = 0
    <2>1. j = 2 * i /\ j - 1 = 2 * i - 1 /\ j - 1 <= n /\ 2 * i <= n
      BY <1>1, <1>4
    <2>2. Sibling(s, j) = [sibling |-> s[j - 1], side |-> "left"]
      BY <1>4, <2>1 DEF Sibling
    <2>3. Climb(Sibling(s, j), s[j]) = Node(s[j - 1], s[j])
      BY <2>2 DEF Climb
    <2> HIDE DEF i
    <2> QED
      BY <1>2, <1>3, <2>1, <2>3 DEF i
  <1>5. CASE j % 2 # 0
    <2>1. j = 2 * i - 1 /\ j + 1 = 2 * i
      BY <1>1, <1>5
    <2>2. Sibling(s, j) = [sibling |-> IF j + 1 <= n THEN s[j + 1] ELSE s[j], side |-> "right"]
      BY <1>5 DEF Sibling
    <2>3. Climb(Sibling(s, j), s[j]) = Node(s[j], IF j + 1 <= n THEN s[j + 1] ELSE s[j])
      BY <2>2 DEF Climb
    <2> HIDE DEF i
    <2> QED
      BY <1>2, <1>3, <2>1, <2>3 DEF i
  <1> QED
    BY <1>4, <1>5

\* A proof has a step for every round.
LEMMA PathIsList ==
    ASSUME NEW s, IsList(s), NEW i
    PROVE  Rounds[Len(s)] \in Nat /\ Len(Siblings(s, i)) = Rounds[Len(s)]
  <1> DEFINE top == Rounds[Len(s)]
             path == Siblings(s, i)
  <1>1. top \in Nat
    BY RoundsAre DEF IsList
  <1>2. path = [n \in 1 .. top |-> path[n]]
    BY DEF Siblings
  <1>3. Len(path) = top
    <2> HIDE DEF path, top
    <2> QED
      BY <1>1, <1>2, FunctionIsList
  <1> QED
    BY <1>1, <1>3

\* A proof leads from its leaf to the root (proveMembership, verifyMembership).
THEOREM ProofsVerify ==
    ASSUME NEW s, IsList(s), NEW i \in 1 .. Len(s)
    PROVE  HashUp(Leaf(s[i]), Siblings(s, i)) = Root(s)
  <1> DEFINE level(n) == Layers(s)[n]
             top == Rounds[Len(s)]
             path == Siblings(s, i)
             hash(n) == Hashes(Leaf(s[i]), path)[n]
             place(n) == Places(i)[n]
             S == {n \in Nat : n <= top => /\ place(n) \in 1 .. Len(level(n))
                                            /\ hash(n) = level(n)[place(n)]}
  <1>1. Len(s) \in Nat /\ Len(s) >= 1 /\ i \in Nat
    BY DEF IsList
  <1>2. top \in Nat /\ Len(level(top)) = 1
    BY <1>1, LastLevel
  <1>3. path = [n \in 1 .. top |-> Sibling(level(n - 1), place(n - 1))]
    BY DEF Siblings
  <1>4. Len(path) = top
    BY PathIsList
  <1>5. /\ hash(0) = Leaf(s[i])
        /\ \A n \in 1 .. top : hash(n) = Climb(path[n], hash(n - 1))
    BY <1>2, <1>4, HashesAre
  <1>6. place(0) = i /\ \A n \in Nat : place(n + 1) = (place(n) + 1) \div 2
    BY <1>1, PlacesAre
  <1>7. Len(level(0)) = Len(s) /\ level(0)[i] = Leaf(s[i])
    BY FirstLevel
  <1>8. ASSUME NEW n \in Nat
        PROVE  IsList(level(n)) /\ Len(level(n)) >= 1 /\ level(n + 1) = Parents(level(n))
    BY <1>1, LevelShape, LayersAre
  <1>9. s # <<>>
    BY <1>1
  <1>10. Root(s) = level(top)[1] /\ HashUp(Leaf(s[i]), path) = hash(top)
    BY <1>4, <1>9 DEF Root, HashUp
  <1> HIDE DEF level, top, path, hash, place
  <1>11. 0 \in S
    BY <1>5, <1>6, <1>7
  <1>12. ASSUME NEW n \in Nat, n \in S PROVE n + 1 \in S
    <2> SUFFICES ASSUME n + 1 <= top
                 PROVE  /\ place(n + 1) \in 1 .. Len(level(n + 1))
                        /\ hash(n + 1) = level(n + 1)[place(n + 1)]
      OBVIOUS
    <2>1. place(n) \in 1 .. Len(level(n)) /\ hash(n) = level(n)[place(n)]
      BY <1>2, <1>12
    <2>2. n + 1 \in 1 .. top /\ (n + 1) - 1 = n
      BY <1>2
    <2>3. path[n + 1] = Sibling(level(n), place(n))
      BY <1>3, <2>2
    <2>4. hash(n + 1) = Climb(Sibling(level(n), place(n)), level(n)[place(n)])
      BY <1>5, <2>1, <2>2, <2>3
    <2>5. /\ (place(n) + 1) \div 2 \in 1 .. Len(Parents(level(n)))
          /\ Climb(Sibling(level(n), place(n)), level(n)[place(n)])
                = Parents(level(n))[(place(n) + 1) \div 2]
      BY <1>8, <2>1, SiblingClimbs
    <2>6. place(n + 1) = (place(n) + 1) \div 2 /\ level(n + 1) = Parents(level(n))
      BY <1>6, <1>8
    <2> QED
      BY <2>4, <2>5, <2>6
  <1>13. Nat \subseteq S
    <2> HIDE DEF S
    <2> QED
      BY <1>11, <1>12, SetInduction
  <1>14. place(top) \in 1 .. Len(level(top)) /\ hash(top) = level(top)[place(top)]
    BY <1>2, <1>13
  <1>15. hash(top) = level(top)[1]
    BY <1>2, <1>14
  <1> QED
    BY <1>10, <1>15 DEF path

\* What a step makes is a node over the hash it was given.
LEMMA ClimbIsNode ==
    ASSUME NEW step, NEW hash, NEW x, NEW y, Climb(step, hash) = Node(x, y)
    PROVE  hash = x \/ hash = y
  BY HashesApart DEF Climb

\* No path, made or made up, leads to the root from the hash of an atom that is
\* not a leaf (verifyMembership): from the root down, the hash a path climbs to
\* is on a level of the tree, and the hash of an atom is only on the first.
THEOREM OnlyLeavesVerify ==
    ASSUME NEW s, IsList(s), NEW b, NEW path, Len(path) \in Nat,
           HashUp(Leaf(b), path) = Root(s)
    PROVE  \E i \in 1 .. Len(s) : s[i] = b
  <1> DEFINE level(n) == Layers(s)[n]
             top == Rounds[Len(s)]
             len == Len(path)
             hash(n) == Hashes(Leaf(b), path)[n]
             On(n, k) == \E i \in 1 .. Len(level(n)) : hash(k) = level(n)[i]
             S == {d \in Nat : d <= len => d <= top /\ On(top - d, len - d)}
  <1>1. /\ hash(0) = Leaf(b)
        /\ \A n \in 1 .. len : hash(n) = Climb(path[n], hash(n - 1))
    BY HashesAre
  <1>2. hash(len) = Root(s)
    BY DEF HashUp
  <1>3. Len(s) \in Nat
    BY DEF IsList
  <1>4. \A n \in 1 .. len : \A x : hash(n) # Leaf(x) /\ hash(n) # EmptyRoot
    <2> SUFFICES ASSUME NEW n \in 1 .. len, NEW x
                 PROVE  hash(n) # Leaf(x) /\ hash(n) # EmptyRoot
      OBVIOUS
    <2> HIDE DEF hash
    <2>1. \E p, q : hash(n) = Node(p, q)
      BY <1>1 DEF Climb
    <2> QED
      BY <2>1, HashesApart
  <1>5. Len(s) >= 1
    <2> SUFFICES ASSUME Len(s) = 0 PROVE FALSE
      BY <1>3
    <2>1. s = <<>>
      <3>1. IsList(<<>>) /\ Len(<<>>) = 0
        BY SeqIsList, EmptySeq
      <3> QED
        BY <3>1, ListsEqual
    <2>2. hash(len) = EmptyRoot
      BY <1>2, <2>1 DEF Root
    <2> HIDE DEF hash
    <2>3. len = 0
      BY <1>4, <2>2
    <2> QED
      BY <1>1, <2>2, <2>3, HashesApart
  <1>6. top \in Nat /\ Len(level(top)) = 1
    BY <1>5, LastLevel
  <1>7. hash(len) = level(top)[1]
    <2>1. s # <<>>
      BY <1>5
    <2> QED
      BY <1>2, <2>1 DEF Root
  <1>8. ASSUME NEW n \in Nat
        PROVE  IsList(level(n)) /\ Len(level(n)) >= 1 /\ level(n + 1) = Parents(level(n))
    BY <1>5, LevelShape, LayersAre
  <1>9. Len(level(0)) = Len(s) /\ \A i \in 1 .. Len(s) : level(0)[i] = Leaf(s[i])
    BY FirstLevel
  <1> HIDE DEF level, top, len, hash
  <1>10. len \in Nat
    BY DEF len
  <1>11. 0 \in S
    BY <1>6, <1>7, <1>10
  <1>12. ASSUME NEW d \in Nat, d \in S PROVE d + 1 \in S
    <2> SUFFICES ASSUME d + 1 <= len
                 PROVE  d + 1 <= top /\ On(top - (d + 1), len - (d + 1))
      OBVIOUS
    <2> DEFINE n == top - d
               k == len - d
    <2>1. d <= top /\ On(n, k)
      BY <1>10, <1>12
    <2>2. n \in Nat /\ k \in 1 .. len
      BY <1>6, <1>10, <2>1
    <2>3. PICK i \in 1 .. Len(level(n)) : hash(k) = level(n)[i]
      BY <2>1
    <2> HIDE DEF n, k
    <2>4. n # 0
      <3> SUFFICES ASSUME n = 0 PROVE FALSE
        OBVIOUS
      <3>1. hash(k) = Leaf(s[i])
        BY <1>9, <2>3
      <3> QED
        BY <1>4, <2>2, <3>1
    <2> DEFINE m == n - 1
               j == k - 1
    <2>5. m \in Nat /\ n = m + 1
      BY <2>2, <2>4
    <2> HIDE DEF m
    <2>6. PICK p, q \in 1 .. Len(level(m)) : level(n)[i] = Node(level(m)[p], level(m)[q])
      <3>1. IsList(level(m)) /\ Len(level(m)) >= 1 /\ level(n) = Parents(level(m))
        BY <1>8, <2>5
      <3>2. i \in 1 .. Len(Parents(level(m)))
        BY <3>1
      <3> QED
        BY <3>1, <3>2, NodesOver
    <2>7. Climb(path[k], hash(j)) = Node(level(m)[p], level(m)[q])
      BY <1>1, <2>2, <2>3, <2>6
    <2>8. hash(j) = level(m)[p] \/ hash(j) = level(m)[q]
      <3> HIDE DEF j
      <3> QED
        BY <2>7, ClimbIsNode
    <2>9. On(m, j)
      BY <2>6, <2>8
    <2> HIDE DEF On
    <2>10. m = top - (d + 1) /\ j = len - (d + 1) /\ d + 1 <= top
      BY <1>6, <1>10, <2>1, <2>2, <2>5 DEF n, k, m
    <2> QED
      BY <2>9, <2>10
  <1>13. Nat \subseteq S
    <2> HIDE DEF S
    <2> QED
      BY <1>11, <1>12, SetInduction
  <1>14. len <= top /\ On(top - len, 0)
    <2> HIDE DEF On
    <2>1. len \in S
      BY <1>10, <1>13
    <2>2. len <= top /\ On(top - len, len - len) /\ len - len = 0
      BY <1>10, <2>1
    <2> QED
      BY <2>2
  <1> DEFINE n == top - len
  <1>15. n \in Nat
    BY <1>6, <1>10, <1>14
  <1>16. PICK i \in 1 .. Len(level(n)) : Leaf(b) = level(n)[i]
    BY <1>1, <1>14
  <1> HIDE DEF n
  <1>17. n = 0
    <2> SUFFICES ASSUME n # 0 PROVE FALSE
      OBVIOUS
    <2> DEFINE m == n - 1
    <2>1. m \in Nat /\ n = m + 1
      BY <1>15
    <2> HIDE DEF m
    <2>2. IsList(level(m)) /\ Len(level(m)) >= 1 /\ level(n) = Parents(level(m))
      BY <1>8, <2>1
    <2>3. i \in 1 .. Len(Parents(level(m)))
      BY <2>2
    <2>4. \E p, q \in 1 .. Len(level(m)) : Parents(level(m))[i] = Node(level(m)[p], level(m)[q])
      BY <2>2, <2>3, NodesOver
    <2> QED
      BY <1>16, <2>2, <2>4, HashesApart
  <1> QED
    BY <1>9, <1>16, <1>17, HashesApart

-----------------------------------------------------------------------------
(***************************************************************************)
(* SessionLog: for any replicas, frames and lengths.                       *)
(***************************************************************************)
Ops == {FrameToSessionOp(frame) : frame \in Frames}

\* An envelope is of a log and of a prefix of it.
EnvelopeOf(e, whole, n) ==
    e = [base |-> Checkpoint(SubSeq(whole, 1, n)),
         delta |-> SubSeq(whole, n + 1, Len(whole)),
         new |-> Checkpoint(whole),
         whole |-> whole]

\* The inductive invariant of the logs.
LogInv ==
    /\ log \in [Replicas -> Seq(Ops)]
    /\ \A e \in envelope :
          e.whole \in Seq(Ops) /\ \E n \in 0 .. Len(e.whole) : EnvelopeOf(e, e.whole, n)

\* Logs are lists of ops and envelopes are made of one, whatever was lost,
\* late or repeated.
THEOREM LogInvariant == LogSpec => []LogInv
  <1>1. LogInit => LogInv
    <2> SUFFICES ASSUME LogInit PROVE LogInv
      OBVIOUS
    <2>1. <<>> \in Seq(Ops)
      BY EmptySeq
    <2> QED
      BY <2>1 DEF LogInit, LogInv
  <1>2. LogInv /\ [LogNext]_logVars => LogInv'
    <2> SUFFICES ASSUME LogInv, [LogNext]_logVars PROVE LogInv'
      OBVIOUS
    <2>1. \A r \in Replicas : log[r] \in Seq(Ops)
      BY DEF LogInv
    <2>2. ASSUME NEW r \in Replicas, Record(r) PROVE LogInv'
      <3>1. PICK frame \in Frames :
                /\ log' = [log EXCEPT ![r] = Append(@, FrameToSessionOp(frame))]
                /\ UNCHANGED envelope
        BY <2>2 DEF Record
      <3>2. Append(log[r], FrameToSessionOp(frame)) \in Seq(Ops)
        <4>1. FrameToSessionOp(frame) \in Ops
          BY DEF Ops
        <4> QED
          BY <2>1, <4>1, AppendProperties
      <3> QED
        BY <3>1, <3>2 DEF LogInv
    <2>3. ASSUME NEW r \in Replicas, Propose(r) PROVE LogInv'
      <3>1. PICK n \in 0 .. Len(log[r]) :
                /\ envelope' = {[base |-> Checkpoint(SubSeq(log[r], 1, n)),
                                 delta |-> SubSeq(log[r], n + 1, Len(log[r])),
                                 new |-> Checkpoint(log[r]),
                                 whole |-> log[r]]}
                /\ UNCHANGED log
        BY <2>3 DEF Propose
      <3>2. ASSUME NEW e \in envelope'
            PROVE  e.whole = log[r] /\ EnvelopeOf(e, log[r], n)
        BY <3>1, <3>2 DEF EnvelopeOf
      <3> QED
        BY <2>1, <3>1, <3>2 DEF LogInv
    <2>4. ASSUME NEW r \in Replicas, Apply(r) PROVE LogInv'
      <3>1. PICK e \in envelope : log' = [log EXCEPT ![r] = @ \o e.delta] /\ UNCHANGED envelope
        BY <2>4 DEF Apply
      <3>2. e.delta \in Seq(Ops)
        <4>1. PICK n \in 0 .. Len(e.whole) : EnvelopeOf(e, e.whole, n)
          BY DEF LogInv
        <4>2. e.whole \in Seq(Ops) /\ Len(e.whole) \in Nat
          BY LenProperties DEF LogInv
        <4>3. e.delta = SubSeq(e.whole, n + 1, Len(e.whole))
          BY <4>1 DEF EnvelopeOf
        <4> QED
          BY <4>2, <4>3
      <3>3. log[r] \o e.delta \in Seq(Ops)
        BY <2>1, <3>2, ConcatProperties
      <3> QED
        BY <3>1, <3>3 DEF LogInv
    <2>5. CASE UNCHANGED logVars
      BY <2>5 DEF LogInv, logVars
    <2> QED
      BY <2>2, <2>3, <2>4, <2>5 DEF LogNext
  <1> QED
    BY <1>1, <1>2, PTL DEF LogSpec

\* Equal checkpoints are of one log.
LEMMA CheckpointBinds ==
    ASSUME NEW s \in Seq(Ops), NEW t \in Seq(Ops),
           Len(s) = Len(t), Root(s) = Root(t)
    PROVE  s = t
  BY SeqIsList, RootBindsLog

\* The rest of a log completes the prefix before it, and no other list.
LEMMA OnlyPrefixCompletes ==
    ASSUME NEW S, NEW w \in Seq(S), NEW n \in 0 .. Len(w), NEW s \in Seq(S)
    PROVE  /\ SubSeq(w, n + 1, Len(w)) \in Seq(S)
           /\ s \o SubSeq(w, n + 1, Len(w)) = w => s = SubSeq(w, 1, n)
  <1> DEFINE rest == SubSeq(w, n + 1, Len(w))
             start == SubSeq(w, 1, n)
  <1>1. Len(w) \in Nat /\ Len(s) \in Nat
    OBVIOUS
  <1>2. rest \in Seq(S) /\ Len(rest) = Len(w) - n
    BY <1>1
  <1>3. start \in Seq(S) /\ Len(start) = n /\ \A i \in 1 .. n : start[i] = w[i]
    BY <1>1
  <1> HIDE DEF rest, start
  <1>4. ASSUME s \o rest = w PROVE s = start
    <2>1. Len(w) = Len(s) + Len(rest)
      BY <1>2, <1>4, ConcatProperties
    <2>2. Len(s) = n
      BY <1>1, <1>2, <2>1
    <2>3. \A i \in 1 .. n : (s \o rest)[i] = s[i]
      BY <1>2, <2>2, ConcatProperties
    <2>4. \A i \in 1 .. n : s[i] = start[i]
      BY <1>3, <1>4, <2>3
    <2> QED
      BY <1>3, <2>2, <2>4, SeqIsList, ListsEqual
  <1> QED
    BY <1>2, <1>4 DEF rest, start

\* Checkpoints tell logs apart, and an envelope is accepted where it completes
\* the log its sender meant and nowhere else (verifySessionEnvelope,
\* verifySessionOpsExtends), though logs of different length may share a root.
THEOREM LogsAgree == LogSpec => []SessionLogsAgree
  <1>1. LogInv => SessionLogsAgree
    <2> SUFFICES ASSUME LogInv PROVE SessionLogsAgree
      OBVIOUS
    <2>1. \A r \in Replicas : log[r] \in Seq(Ops)
      BY DEF LogInv
    <2>2. ASSUME NEW r \in Replicas, NEW s \in Replicas,
                 CheckpointsEqual(Checkpoint(log[r]), Checkpoint(log[s]))
          PROVE  log[r] = log[s]
      <3>1. Len(log[r]) = Len(log[s]) /\ Root(log[r]) = Root(log[s])
        BY <2>2 DEF CheckpointsEqual, Checkpoint
      <3> QED
        BY <2>1, <3>1, CheckpointBinds
    <2>3. ASSUME NEW r \in Replicas, NEW e \in envelope
          PROVE  LET meant == log[r] \o e.delta = e.whole IN
                 /\ VerifySessionEnvelope(log[r], e) <=> meant
                 /\ VerifySessionOpsExtends(log[r], e.delta, e.new) <=> meant
      <3> DEFINE s == log[r]
                 w == e.whole
                 full == s \o e.delta
      <3>1. s \in Seq(Ops) /\ w \in Seq(Ops)
        BY <2>1 DEF LogInv
      <3>2. PICK n \in 0 .. Len(w) : EnvelopeOf(e, w, n)
        BY DEF LogInv
      <3>3. /\ e.base = Checkpoint(SubSeq(w, 1, n))
            /\ e.delta = SubSeq(w, n + 1, Len(w))
            /\ e.new = Checkpoint(w)
        BY <3>2 DEF EnvelopeOf
      <3>4. e.delta \in Seq(Ops) /\ (full = w => s = SubSeq(w, 1, n))
        <4>1. /\ SubSeq(w, n + 1, Len(w)) \in Seq(Ops)
              /\ s \o SubSeq(w, n + 1, Len(w)) = w => s = SubSeq(w, 1, n)
          <5> HIDE DEF s, w, Ops
          <5> QED
            BY <3>1, OnlyPrefixCompletes
        <4> QED
          BY <3>3, <4>1
      <3>5. full \in Seq(Ops)
        BY <3>1, <3>4, ConcatProperties
      <3> HIDE DEF full, w
      <3>6. Len(full) = Len(w) /\ Root(full) = Root(w) => full = w
        BY <3>1, <3>5, CheckpointBinds
      <3>7. VerifySessionEnvelope(s, e) <=> full = w
        <4>1. VerifySessionEnvelope(s, e) <=>
                 /\ CheckpointsEqual(Checkpoint(s), e.base)
                 /\ CheckpointsEqual(Checkpoint(full), e.new)
          BY DEF VerifySessionEnvelope, full
        <4>2. CheckpointsEqual(Checkpoint(full), e.new)
                 <=> Len(full) = Len(w) /\ Root(full) = Root(w)
          BY <3>3 DEF CheckpointsEqual, Checkpoint
        <4>3. full = w => CheckpointsEqual(Checkpoint(s), e.base)
          BY <3>3, <3>4 DEF CheckpointsEqual
        <4> QED
          BY <3>6, <4>1, <4>2, <4>3
      <3>8. VerifySessionOpsExtends(s, e.delta, e.new) <=> full = w
        <4>1. VerifySessionOpsExtends(s, e.delta, e.new)
                 <=> Len(full) = e.new.seq /\ Checkpoint(full).root = e.new.root
          BY DEF VerifySessionOpsExtends, full
        <4>2. e.new.seq = Len(w) /\ e.new.root = Root(w) /\ Checkpoint(full).root = Root(full)
          BY <3>3 DEF Checkpoint
        <4> QED
          BY <3>6, <4>1, <4>2
      <3> QED
        BY <3>7, <3>8 DEF full, w
    <2> QED
      BY <2>2, <2>3 DEF SessionLogsAgree
  <1> QED
    BY <1>1, LogInvariant, PTL

-----------------------------------------------------------------------------
(***************************************************************************)
(* Library: for any order of the atoms and any repertoires.                *)
(***************************************************************************)
\* s holds the atoms found up to the n-th place of the order, each of them once.
KeptFrom(atoms, s, n) ==
    /\ s \in Seq(Atoms) /\ Distinct(s)
    /\ \A i \in 1 .. Len(s) : s[i] \in atoms /\ \E k \in 1 .. n : s[i] = Order[k]
    /\ \A k \in 1 .. n : Order[k] \in atoms => \E i \in 1 .. Len(s) : s[i] = Order[k]

\* The order is a sequence of the atoms.
LEMMA OrderIsSeq ==
    /\ Order \in Seq(Atoms) /\ Len(Order) \in Nat
    /\ \A k \in 1 .. Len(Order) : Order[k] \in Atoms
  BY LibraryAssumption, LenProperties, ElementOfSeq

\* They stay so when the atom of the next place follows, if it is one of them.
LEMMA KeepOne ==
    ASSUME NEW atoms, NEW n \in 1 .. Len(Order), NEW s, KeptFrom(atoms, s, n - 1)
    PROVE  /\ Order[n] \notin atoms => KeptFrom(atoms, s, n)
           /\ Order[n] \in atoms => KeptFrom(atoms, Append(s, Order[n]), n)
  <1> DEFINE t == Append(s, Order[n])
  <1>1. n \in Nat /\ Len(s) \in Nat /\ Order[n] \in Atoms
    BY OrderIsSeq, LenProperties DEF KeptFrom
  <1>2. /\ t \in Seq(Atoms) /\ Len(t) = Len(s) + 1
        /\ \A i \in 1 .. Len(s) : t[i] = s[i]
        /\ t[Len(s) + 1] = Order[n]
    BY <1>1, AppendProperties DEF KeptFrom
  <1>3. /\ \A i \in 1 .. Len(s) : s[i] \in atoms /\ \E k \in 1 .. (n - 1) : s[i] = Order[k]
        /\ \A k \in 1 .. (n - 1) : Order[k] \in atoms => \E i \in 1 .. Len(s) : s[i] = Order[k]
    BY DEF KeptFrom
  <1>4. \A i \in 1 .. Len(s) : s[i] # Order[n]
    <2>1. \A k \in 1 .. (n - 1) : Order[k] # Order[n]
      BY <1>1, OrderIsSeq, LibraryAssumption
    <2> QED
      BY <1>3, <2>1
  <1>5. \A i \in 1 .. Len(s) : s[i] \in atoms /\ \E k \in 1 .. n : s[i] = Order[k]
    BY <1>1, <1>3
  <1>6. \A k \in 1 .. n : k \in 1 .. (n - 1) \/ k = n
    BY <1>1
  <1> HIDE DEF t
  <1>7. Distinct(t)
    <2> SUFFICES ASSUME NEW i \in 1 .. Len(t), NEW j \in 1 .. Len(t), t[i] = t[j]
                 PROVE  i = j
      BY DEF Distinct
    <2>1. (i \in 1 .. Len(s) \/ i = Len(s) + 1) /\ (j \in 1 .. Len(s) \/ j = Len(s) + 1)
      BY <1>1, <1>2
    <2>2. CASE i \in 1 .. Len(s) /\ j \in 1 .. Len(s)
      BY <1>2, <2>2 DEF KeptFrom, Distinct
    <2>3. CASE i \in 1 .. Len(s) /\ j = Len(s) + 1
      BY <1>2, <1>4, <2>3
    <2>4. CASE i = Len(s) + 1 /\ j \in 1 .. Len(s)
      BY <1>2, <1>4, <2>4
    <2> QED
      BY <2>1, <2>2, <2>3, <2>4
  <1>8. ASSUME Order[n] \in atoms, NEW i \in 1 .. Len(t)
        PROVE  t[i] \in atoms /\ \E k \in 1 .. n : t[i] = Order[k]
    <2>1. i \in 1 .. Len(s) \/ i = Len(s) + 1
      BY <1>1, <1>2
    <2>2. n \in 1 .. n
      BY <1>1
    <2> QED
      BY <1>2, <1>5, <1>8, <2>1, <2>2
  <1>9. ASSUME NEW k \in 1 .. n, Order[k] \in atoms
        PROVE  \E i \in 1 .. Len(t) : t[i] = Order[k]
    <2>1. \A i \in 1 .. Len(s) : i \in 1 .. Len(t)
      BY <1>1, <1>2
    <2>2. Len(s) + 1 \in 1 .. Len(t)
      BY <1>1, <1>2
    <2>3. CASE k = n
      BY <1>2, <2>2, <2>3
    <2>4. CASE k # n
      <3>1. PICK i \in 1 .. Len(s) : s[i] = Order[k]
        BY <1>3, <1>6, <1>9, <2>4
      <3> QED
        BY <1>2, <2>1, <3>1
    <2> QED
      BY <2>3, <2>4
  <1>10. ASSUME Order[n] \notin atoms PROVE KeptFrom(atoms, s, n)
    BY <1>3, <1>5, <1>6, <1>10 DEF KeptFrom
  <1>11. ASSUME Order[n] \in atoms PROVE KeptFrom(atoms, t, n)
    BY <1>2, <1>7, <1>8, <1>9, <1>11 DEF KeptFrom
  <1> QED
    BY <1>10, <1>11 DEF t

\* What defines the sorted atoms.
KeepRound(atoms, n, g) ==
    IF n = 0 THEN <<>>
    ELSE IF Order[n] \in atoms THEN Append(g[n - 1], Order[n])
    ELSE g[n - 1]

IsKept(atoms, f) == f = [n \in 0 .. Len(Order) |-> KeepRound(atoms, n, f)]

\* The leaves of a commitment are the atoms it is to, each once.
THEOREM LeavesAreAtoms ==
    ASSUME NEW atoms \in SUBSET Atoms
    PROVE  LET leaves == CommitLibrary(atoms).leaves IN
           leaves \in Seq(Atoms) /\ Distinct(leaves) /\ ToSet(leaves) = atoms
  <1> DEFINE len == Len(Order)
             V == Seq(Atoms)
             step == [n \in Nat |-> [g \in [0 .. (n - 1) -> V] |->
                         IF n <= len THEN KeepRound(atoms, n, g) ELSE <<>>]]
  <1>0. len \in Nat /\ <<>> \in V /\ \A k \in 1 .. len : Order[k] \in Atoms
    BY OrderIsSeq, EmptySeq
  <1>1. IsStep(step, V)
    <2> SUFFICES ASSUME NEW n \in Nat, NEW g \in [0 .. (n - 1) -> V]
                 PROVE  step[n][g] \in V
      BY DEF IsStep
    <2>1. step[n][g] = IF n <= len THEN KeepRound(atoms, n, g) ELSE <<>>
      OBVIOUS
    <2>2. CASE n <= len /\ n # 0
      <3>1. g[n - 1] \in Seq(Atoms) /\ Order[n] \in Atoms
        BY <1>0, <2>2
      <3>2. Append(g[n - 1], Order[n]) \in Seq(Atoms)
        BY <3>1, AppendProperties
      <3> QED
        BY <2>1, <2>2, <3>1, <3>2 DEF KeepRound
    <2>3. CASE n = 0
      BY <1>0, <2>1, <2>3 DEF KeepRound
    <2>4. CASE ~(n <= len)
      BY <1>0, <2>1, <2>4
    <2> QED
      BY <2>2, <2>3, <2>4
  <1>2. PICK f \in [Nat -> V] : \A n \in Nat : f[n] = step[n][Below(f, n)]
    <2> HIDE DEF step, V
    <2> QED
      BY <1>1, RecursiveFunctionExists
  <1> DEFINE g == [n \in 0 .. len |-> f[n]]
  <1>3. ASSUME NEW n \in 0 .. len PROVE g[n] = KeepRound(atoms, n, g)
    <2> DEFINE less == Below(f, n)
    <2>1. n \in Nat /\ n <= len
      BY <1>0
    <2>2. less \in [0 .. (n - 1) -> V] /\ \A k \in 0 .. n - 1 : less[k] = f[k]
      <3> HIDE DEF V
      <3> QED
        BY <2>1 DEF Below
    <2>3. f[n] = step[n][less]
      BY <1>2, <2>1
    <2> HIDE DEF less
    <2>4. step[n][less] = KeepRound(atoms, n, less)
      BY <2>1, <2>2
    <2> HIDE DEF step
    <2>5. CASE n = 0
      BY <2>3, <2>4, <2>5 DEF KeepRound
    <2>6. CASE n # 0
      <3>1. less[n - 1] = f[n - 1] /\ g[n - 1] = f[n - 1] /\ g[n] = f[n]
        BY <2>1, <2>2, <2>6
      <3> HIDE DEF g
      <3> QED
        BY <2>3, <2>4, <2>6, <3>1 DEF KeepRound
    <2> QED
      BY <2>5, <2>6
  <1>4. g = [n \in 0 .. len |-> g[n]]
    OBVIOUS
  <1> HIDE DEF g
  <1>5. IsKept(atoms, g)
    BY <1>3, <1>4 DEF IsKept
  <1>6. Sorted(atoms) = CHOOSE h : IsKept(atoms, h)
    BY DEF Sorted, IsKept, KeepRound
  <1>7. IsKept(atoms, Sorted(atoms))
    BY <1>5, <1>6
  <1> DEFINE kept == Sorted(atoms)
             S == {n \in Nat : n <= len => KeptFrom(atoms, kept[n], n)}
  <1>8. ASSUME NEW n \in 0 .. len PROVE kept[n] = KeepRound(atoms, n, kept)
    BY <1>7 DEF IsKept
  <1> HIDE DEF kept
  <1>9. 0 \in S
    <2>1. kept[0] = <<>>
      BY <1>0, <1>8 DEF KeepRound
    <2>2. KeptFrom(atoms, <<>>, 0)
      BY EmptySeq DEF KeptFrom, Distinct
    <2> QED
      BY <2>1, <2>2
  <1>10. ASSUME NEW n \in Nat, n \in S PROVE n + 1 \in S
    <2> SUFFICES ASSUME n + 1 <= len PROVE KeptFrom(atoms, kept[n + 1], n + 1)
      OBVIOUS
    <2> DEFINE m == n + 1
    <2>1. m \in 1 .. len /\ m \in 0 .. len /\ m - 1 = n /\ m # 0
      BY <1>0
    <2>2. KeptFrom(atoms, kept[n], n)
      BY <1>0, <1>10, <2>1
    <2> HIDE DEF m
    <2>3. /\ Order[m] \notin atoms => KeptFrom(atoms, kept[n], m)
          /\ Order[m] \in atoms => KeptFrom(atoms, Append(kept[n], Order[m]), m)
      BY <2>1, <2>2, KeepOne
    <2>4. kept[m] = IF Order[m] \in atoms THEN Append(kept[n], Order[m]) ELSE kept[n]
      BY <1>8, <2>1 DEF KeepRound
    <2>5. KeptFrom(atoms, kept[m], m)
      BY <2>3, <2>4
    <2> QED
      BY <2>5 DEF m
  <1>11. Nat \subseteq S
    <2> HIDE DEF S
    <2> QED
      BY <1>9, <1>10, SetInduction
  <1>12. KeptFrom(atoms, kept[len], len)
    BY <1>0, <1>11
  <1> DEFINE leaves == kept[len]
  <1>13. CommitLibrary(atoms).leaves = leaves
    BY DEF CommitLibrary, kept
  <1> HIDE DEF leaves
  <1>14. leaves \in Seq(Atoms) /\ Distinct(leaves)
    BY <1>12 DEF KeptFrom, leaves
  <1>15. ToSet(leaves) = {leaves[i] : i \in 1 .. Len(leaves)}
    BY <1>14, LenProperties DEF ToSet
  <1>16. \A a \in Atoms : \E k \in 1 .. len : Order[k] = a
    <2>1. ToSet(Order) = {Order[k] : k \in 1 .. len}
      BY OrderIsSeq, LenProperties DEF ToSet
    <2> QED
      BY <2>1, LibraryAssumption
  <1>17. \A i \in 1 .. Len(leaves) : leaves[i] \in atoms
    BY <1>12 DEF KeptFrom, leaves
  <1>18. \A a \in atoms : \E i \in 1 .. Len(leaves) : leaves[i] = a
    <2> SUFFICES ASSUME NEW a \in atoms PROVE \E i \in 1 .. Len(leaves) : leaves[i] = a
      OBVIOUS
    <2>1. PICK k \in 1 .. len : Order[k] = a
      BY <1>16
    <2> QED
      BY <1>12, <2>1 DEF KeptFrom, leaves
  <1>19. ToSet(leaves) = atoms
    BY <1>15, <1>17, <1>18
  <1> QED
    BY <1>13, <1>14, <1>19
-----------------------------------------------------------------------------
\* The inductive invariant of the libraries.
LibraryInv ==
    /\ out \subseteq OutAtoms /\ in \subseteq InAtoms
    /\ \A c \in committed : \E atoms \in SUBSET Atoms : c = CommitLibrary(atoms)

\* Repertoires hold atoms of their polarity, and what was handed out commits to
\* a set of atoms, whatever the repertoire became.
THEOREM LibraryInvariant == LibrarySpec => []LibraryInv
  <1>1. LibraryInit => LibraryInv
    BY DEF LibraryInit, LibraryInv
  <1>2. LibraryInv /\ [LibraryNext]_libraryVars => LibraryInv'
    <2> SUFFICES ASSUME LibraryInv, [LibraryNext]_libraryVars PROVE LibraryInv'
      OBVIOUS
    <2>1. CASE AddOut
      BY <2>1 DEF AddOut, LibraryInv
    <2>2. CASE AddIn
      BY <2>2 DEF AddIn, LibraryInv
    <2>3. CASE RemoveOut
      BY <2>3 DEF RemoveOut, LibraryInv
    <2>4. CASE RemoveIn
      BY <2>4 DEF RemoveIn, LibraryInv
    <2>5. CASE Commit
      <3>1. PICK atoms \in {out, in, out \cup in} :
                /\ committed' = committed \cup {CommitLibrary(atoms)}
                /\ UNCHANGED <<out, in>>
        BY <2>5 DEF Commit
      <3>2. atoms \in SUBSET Atoms
        BY <3>1 DEF LibraryInv, Atoms
      <3> QED
        BY <3>1, <3>2 DEF LibraryInv
    <2>6. CASE UNCHANGED libraryVars
      BY <2>6 DEF LibraryInv, libraryVars
    <2> QED
      BY <2>1, <2>2, <2>3, <2>4, <2>5, <2>6 DEF LibraryNext
  <1> QED
    BY <1>1, <1>2, PTL DEF LibrarySpec

\* Proofs verify for every leaf and for nothing else, against every commitment
\* handed out, whichever commitment they were made for (proveMembership,
\* verifyMembershipInCommitment).
THEOREM MembershipIsExact == LibrarySpec => []MembershipExact
  <1>1. LibraryInv => MembershipExact
    <2> SUFFICES ASSUME LibraryInv, NEW c \in committed, NEW d \in committed
                 PROVE  /\ c.root = d.root => c.leaves = d.leaves
                        /\ \A a \in Atoms :
                              LET proofs == ProveMembership(a, d) IN
                              /\ a \in ToSet(d.leaves) => \E proof \in proofs : VerifyInCommitment(proof, d)
                              /\ \A proof \in proofs :
                                    VerifyInCommitment(proof, c) => a \in ToSet(c.leaves)
                              /\ \A proof \in proofs, b \in Atoms :
                                    VerifyInCommitment([proof EXCEPT !.leaf = b, !.root = c.root], c) =>
                                        b \in ToSet(c.leaves)
      BY DEF MembershipExact
    <2>1. ASSUME NEW e \in committed
          PROVE  /\ IsList(e.leaves) /\ Distinct(e.leaves) /\ e.root = Root(e.leaves)
                 /\ ToSet(e.leaves) = {e.leaves[i] : i \in 1 .. Len(e.leaves)}
      <3>1. PICK atoms \in SUBSET Atoms : e = CommitLibrary(atoms)
        BY DEF LibraryInv
      <3> DEFINE leaves == CommitLibrary(atoms).leaves
      <3>2. leaves \in Seq(Atoms) /\ Distinct(leaves)
        BY LeavesAreAtoms
      <3>3. e.leaves = leaves /\ e.root = Root(leaves)
        BY <3>1 DEF CommitLibrary
      <3> HIDE DEF leaves
      <3>4. IsList(leaves) /\ DOMAIN leaves = 1 .. Len(leaves)
        BY <3>2, SeqIsList, LenProperties
      <3> QED
        BY <3>2, <3>3, <3>4 DEF ToSet
    <2>2. c.root = d.root => c.leaves = d.leaves
      BY <2>1, RootBindsLibrary
    <2>3. ASSUME NEW a, NEW proof \in ProveMembership(a, d)
          PROVE  \E i \in 1 .. Len(d.leaves) :
                    /\ d.leaves[i] = a
                    /\ proof = [leaf |-> a, root |-> d.root, path |-> Siblings(d.leaves, i)]
      BY DEF ProveMembership
    <2>4. ASSUME NEW a \in Atoms, a \in ToSet(d.leaves)
          PROVE  \E proof \in ProveMembership(a, d) : VerifyInCommitment(proof, d)
      <3>1. PICK i \in 1 .. Len(d.leaves) : d.leaves[i] = a
        BY <2>1, <2>4
      <3> DEFINE proof == [leaf |-> a, root |-> d.root, path |-> Siblings(d.leaves, i)]
      <3>2. proof \in ProveMembership(a, d)
        BY <3>1 DEF ProveMembership
      <3>3. HashUp(Leaf(d.leaves[i]), Siblings(d.leaves, i)) = Root(d.leaves)
        BY <2>1, ProofsVerify
      <3>4. VerifyInCommitment(proof, d)
        BY <2>1, <3>1, <3>3 DEF VerifyInCommitment, VerifyMembership
      <3> QED
        BY <3>2, <3>4
    <2>5. ASSUME NEW a \in Atoms, NEW proof \in ProveMembership(a, d), VerifyInCommitment(proof, c)
          PROVE  a \in ToSet(c.leaves)
      <3>1. PICK i \in 1 .. Len(d.leaves) : d.leaves[i] = a /\ proof.root = d.root
        BY <2>3
      <3>2. c.root = d.root
        BY <2>5, <3>1 DEF VerifyInCommitment
      <3> QED
        BY <2>1, <2>2, <3>1, <3>2
    <2>6. ASSUME NEW a \in Atoms, NEW proof \in ProveMembership(a, d), NEW b \in Atoms,
                 VerifyInCommitment([proof EXCEPT !.leaf = b, !.root = c.root], c)
          PROVE  b \in ToSet(c.leaves)
      <3>1. PICK i \in 1 .. Len(d.leaves) :
                proof = [leaf |-> a, root |-> d.root, path |-> Siblings(d.leaves, i)]
        BY <2>3
      <3> DEFINE path == Siblings(d.leaves, i)
      <3>2. Len(path) \in Nat
        BY <2>1, PathIsList
      <3>3. HashUp(Leaf(b), path) = Root(c.leaves)
        BY <2>1, <2>6, <3>1 DEF VerifyInCommitment, VerifyMembership
      <3> HIDE DEF path
      <3>4. \E k \in 1 .. Len(c.leaves) : c.leaves[k] = b
        BY <2>1, <3>2, <3>3, OnlyLeavesVerify
      <3> QED
        BY <2>1, <3>4
    <2> QED
      BY <2>2, <2>4, <2>5, <2>6
  <1> QED
    BY <1>1, LibraryInvariant, PTL
=============================================================================
