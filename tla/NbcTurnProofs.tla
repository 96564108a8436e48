---------------------------- MODULE NbcTurnProofs ----------------------------
(***************************************************************************)
(* Proofs about NbcTurn: whatever the interleaving of the sessions, their  *)
(* turns are calls of the store, so the store's theorems hold under them.  *)
(***************************************************************************)
EXTENDS NbcTurn, GraphStoreProofs

(***************************************************************************)
(* Typing of the sessions' own state.                                      *)
(***************************************************************************)
BusyTyped ==
    \A s \in Session : turn[s].stage # "idle" => turn[s] \in TurnInProgress

LEMMA TypedBusy == TurnTypeOK => BusyTyped
BY DEF TurnTypeOK, BusyTyped, Idle

\* The fields of a body are what the store's calls take.
LEMMA TypedBody ==
  ASSUME NEW body \in Bodies
  PROVE  /\ body.offer \in Offer /\ body.party \in Party /\ body.w \in Windows
         /\ body.ports \in Seq(PortSpec)
         /\ body.bind \in Port \cup {NoPort} /\ body.payload \in Policies
BY BodiesAssumption DEF Body

\* The step of the store a session's step makes, if it makes one.
LEMMA BeginTurnStores ==
  ASSUME NEW s \in Session, NEW body \in Bodies, NEW now, BeginTurn(s, body, now)
  PROVE  Next
<1>1. ExtendOffer(body.offer, body.party, body.w, NoPort)
  BY DEF BeginTurn
<1>. QED
  BY <1>1, TypedBody DEF Next

LEMMA ExposeNextStores ==
  ASSUME TurnTypeOK, NEW s \in Session, ExposeNext(s)
  PROVE  Next
<1> DEFINE spec == Head(turn[s].left)
           port == [ref |-> spec.ref, policy |-> spec.policy]
<1>1. turn[s] \in TurnInProgress
  BY TypedBusy DEF BusyTyped, ExposeNext
<1>2. turn[s].left \in Seq(PortSpec) /\ turn[s].left # <<>> /\ turn[s].body \in Bodies
  BY <1>1 DEF TurnInProgress, ExposeNext
<1>3. spec \in PortSpec
  BY <1>2, HeadTailProperties
<1>4. /\ spec.id \in Port /\ port \in PortRecord /\ spec.n \in Caps /\ spec.w \in Windows
  BY <1>3 DEF PortSpec, PortRecord
<1>5. turn[s].body.offer \in Offer
  BY <1>2, TypedBody
<1>6. /\ Len(exposes) < MaxExposes
      /\ ExposePort(turn[s].body.offer, spec.id, port, spec.n, spec.w)
  BY DEF ExposeNext
<1>. QED
  BY <1>4, <1>5, <1>6 DEF Next

\* What admission lets through, the store's own capacity check lets through.
LEMMA AdmittedHasCapacity ==
  ASSUME NEW s, BindVerdict(s)
  PROVE  /\ HasCapacity(turn[s].body.bind)
         /\ turn[s].body.bind \in Ports
BY DEF BindVerdict, Admissible

LEMMA BindAdmittedStores ==
  ASSUME TurnTypeOK, TypeOK, NEW s \in Session, BindAdmitted(s)
  PROVE  /\ BindPort(turn[s].body.offer, turn[s].body.bind,
                     HasCapacity(turn[s].body.bind))
         /\ Next
<1> DEFINE o == turn[s].body.offer
           p == turn[s].body.bind
<1>1. turn[s].body \in Bodies
  BY TypedBusy DEF BusyTyped, BindAdmitted, TurnInProgress
<1>2. o \in Offer
  BY <1>1, TypedBody
<1>3. HasCapacity(p) /\ p \in Port
  BY AdmittedHasCapacity DEF BindAdmitted, BindPort, TypeOK
<1>4. BindPort(o, p, HasCapacity(p))
  BY <1>3 DEF BindAdmitted, BindPort
<1>. QED
  BY <1>2, <1>3, <1>4 DEF Next

\* Every step of the composition is a step of the store or leaves it alone.
LEMMA TurnNextStores ==
  ASSUME TurnTypeOK, TypeOK, [TurnNext]_vars
  PROVE  [Next]_storeVars
<1>1. ASSUME UNCHANGED storeVars PROVE [Next]_storeVars
  BY <1>1
<1>2. ASSUME NEW s \in Session, TurnStep(s) PROVE [Next]_storeVars
  BY <1>1, <1>2, ExposeNextStores, BindAdmittedStores
     DEF TurnStep, ExposeRefused, ExposedAll, PayloadAccepted, PayloadRefused,
         BindRefused, Abandon
<1>3. CASE HostStep
  BY <1>3 DEF HostStep, Next
<1>4. CASE Tick \/ UNCHANGED vars
  BY <1>1, <1>4 DEF Tick, vars
<1>. QED
  BY <1>2, <1>3, <1>4, BeginTurnStores DEF TurnNext
-----------------------------------------------------------------------------
\* The sessions' variables under a step of one session.
LEMMA AbandonType ==
  ASSUME TurnTypeOK, NEW s \in Session, Abandon(s)
  PROVE  TurnTypeOK'
<1>1. turn' \in [Session -> {Idle} \cup TurnInProgress]
  BY DEF TurnTypeOK, Abandon
<1>. QED
  BY <1>1 DEF TurnTypeOK, Abandon, storeVars

\* A commit appends the turn's body to the session's log.
LEMMA CommitType ==
  ASSUME TurnTypeOK, NEW s \in Session, turn[s].stage # "idle", Commit(s)
  PROVE  /\ turn' \in [Session -> {Idle} \cup TurnInProgress]
         /\ log' \in [Session -> Seq(Bodies)]
<1>1. turn[s].body \in Bodies
  BY TypedBusy DEF BusyTyped, TurnInProgress
<1>2. log[s] \in Seq(Bodies)
  BY DEF TurnTypeOK
<1>3. Append(log[s], turn[s].body) \in Seq(Bodies)
  BY <1>1, <1>2, AppendProperties
<1>4. log' \in [Session -> Seq(Bodies)]
  BY <1>3 DEF TurnTypeOK, Commit
<1>. QED
  BY <1>4 DEF TurnTypeOK, Commit

LEMMA BeginTurnType ==
  ASSUME TurnTypeOK, NEW s \in Session, NEW body \in Bodies,
         NEW now \in {NoTime, clock}, BeginTurn(s, body, now)
  PROVE  TurnTypeOK'
<1>1. Len(log[s]) \in Nat
  BY LenProperties DEF TurnTypeOK
<1>2. now \in 0..MaxTime
  BY MaxTimeAssumption DEF TurnTypeOK, NoTime
<1>3. Working("expose", body, body.ports, Len(log[s]), now) \in TurnInProgress
  BY <1>1, <1>2, TypedBody DEF Working, TurnInProgress
<1>4. turn' \in [Session -> {Idle} \cup TurnInProgress]
  BY <1>3 DEF BeginTurn, TurnTypeOK
<1>5. UNCHANGED binds
  BY DEF BeginTurn, ExtendOffer
<1>. QED
  BY <1>4, <1>5 DEF TurnTypeOK, BeginTurn

\* Moving on to the next stage keeps the rest of the turn.
LEMMA AdvanceType ==
  ASSUME TurnTypeOK, NEW s \in Session, turn[s].stage # "idle",
         NEW stage \in {"expose", "policy", "bind"}, Advance(s, stage)
  PROVE  turn' \in [Session -> {Idle} \cup TurnInProgress]
<1>1. turn[s] \in TurnInProgress
  BY TypedBusy DEF BusyTyped
<1>2. [turn[s] EXCEPT !.stage = stage] \in TurnInProgress
  BY <1>1 DEF TurnInProgress
<1>. QED
  BY <1>2 DEF Advance, TurnTypeOK

LEMMA TurnStepType ==
  ASSUME TurnTypeOK, TypeOK, NEW s \in Session, TurnStep(s)
  PROVE  TurnTypeOK'
<1>1. CASE ExposeNext(s)
  <2>1. turn[s] \in TurnInProgress /\ turn[s].left # <<>>
    BY <1>1, TypedBusy DEF BusyTyped, ExposeNext
  <2>2. Tail(turn[s].left) \in Seq(PortSpec)
    BY <2>1, HeadTailProperties DEF TurnInProgress
  <2>3. [turn[s] EXCEPT !.left = Tail(@)] \in TurnInProgress
    BY <2>1, <2>2 DEF TurnInProgress
  <2>4. turn' \in [Session -> {Idle} \cup TurnInProgress]
    BY <1>1, <2>3 DEF ExposeNext, TurnTypeOK
  <2>. QED
    BY <1>1, <2>4 DEF ExposeNext, ExposePort, TurnTypeOK
<1>2. CASE ExposedAll(s)
  <2>1. /\ turn' \in [Session -> {Idle} \cup TurnInProgress]
        /\ log' \in [Session -> Seq(Bodies)]
    BY <1>2, CommitType, AdvanceType DEF ExposedAll, TurnTypeOK
  <2>. QED
    BY <1>2, <2>1 DEF ExposedAll, TurnTypeOK, storeVars
<1>3. CASE PayloadAccepted(s)
  <2>1. turn' \in [Session -> {Idle} \cup TurnInProgress]
    BY <1>3, AdvanceType DEF PayloadAccepted
  <2>. QED
    BY <1>3, <2>1 DEF PayloadAccepted, TurnTypeOK, storeVars
<1>4. CASE BindAdmitted(s)
  <2>1. /\ turn' \in [Session -> {Idle} \cup TurnInProgress]
        /\ log' \in [Session -> Seq(Bodies)]
    BY <1>4, CommitType DEF BindAdmitted
  <2>2. turn[s].body.payload \in Policies
    BY <1>4, TypedBusy, TypedBody DEF BusyTyped, BindAdmitted, TurnInProgress
  <2>3. fits' \in Seq(Policies) /\ Len(fits') = Len(fits) + 1
    BY <1>4, <2>2, AppendProperties DEF BindAdmitted, TurnTypeOK
  <2>4. Len(binds') = Len(binds) + 1
    <3> DEFINE e == [offer |-> turn[s].body.offer, port |-> turn[s].body.bind]
    <3>1. binds' = Append(binds, e)
      BY <1>4 DEF BindAdmitted, BindPort, AddBind
    <3>2. binds \in Seq([offer : Offer, port : Ports])
      BY DEF TypeOK
    <3>3. e \in [offer : Offer, port : Ports]
      BY <1>4, AdmittedHasCapacity, TypedBusy, TypedBody
         DEF BusyTyped, BindAdmitted, BindPort, TurnInProgress
    <3>. QED
      BY <3>1, <3>2, <3>3, AppendProperties
  <2>. QED
    BY <1>4, <2>1, <2>3, <2>4 DEF BindAdmitted, TurnTypeOK
<1>5. CASE ExposeRefused(s) \/ PayloadRefused(s) \/ BindRefused(s)
  BY <1>5, AbandonType DEF ExposeRefused, PayloadRefused, BindRefused
<1>. QED
  BY <1>1, <1>2, <1>3, <1>4, <1>5 DEF TurnStep

LEMMA TurnNextType ==
  ASSUME TurnTypeOK, TypeOK, [TurnNext]_vars
  PROVE  TurnTypeOK'
<1>1. CASE HostStep
  BY <1>1 DEF HostStep, TurnTypeOK, turnVars, RegisterParty, SetPortExpiredNow,
     SetOfferExpiredNow
<1>2. CASE Tick
  BY <1>2, MaxTimeAssumption DEF Tick, TurnTypeOK, storeVars
<1>3. CASE UNCHANGED vars
  BY <1>3 DEF vars, turnVars, storeVars, TurnTypeOK
<1>. QED
  BY <1>1, <1>2, <1>3, BeginTurnType, TurnStepType DEF TurnNext

LEMMA TurnInitType == TurnInit => TurnTypeOK
BY EmptySeq, MaxTimeAssumption DEF TurnInit, Init, TurnTypeOK

TurnInv == TurnTypeOK /\ IInv

LEMMA TurnNextInv == TurnInv /\ [TurnNext]_vars => TurnInv'
BY TurnNextType, TurnNextStores, NextInv DEF TurnInv, IInv

\* The invariant of turns holds in every state, however their steps interleave.
THEOREM TurnInvariant == TurnSpec => []TurnInv
<1>1. TurnInit => TurnInv
  BY TurnInitType, InitInv DEF TurnInit, TurnInv
<1>. QED
  BY <1>1, TurnNextInv, PTL DEF TurnSpec

\* The sessions' own state is well typed in every reachable state.
THEOREM TurnsTypeCorrect == TurnSpec => []TurnTypeOK
BY TurnInvariant, PTL DEF TurnInv

\* Concurrent turns, rejected ones included, implement the store.
THEOREM TurnsRefineStore == TurnSpec => TurnsImplementStore
<1>1. TurnInit => Init
  BY DEF TurnInit
<1>2. TurnInv /\ [TurnNext]_vars => [Next]_storeVars
  BY TurnNextStores DEF TurnInv, IInv
<1>. QED
  BY <1>1, <1>2, TurnInvariant, PTL DEF TurnSpec, TurnsImplementStore, Spec

\* NBC N6: no interleaving of turns takes more than max_bindings.
THEOREM TurnsRespectCapacity == TurnSpec => []CapacityRespected
BY TurnsRefineStore, CapacityAlwaysRespected, PTL DEF TurnsImplementStore
-----------------------------------------------------------------------------
\* A revoked window is open at no sequence number and no time.
LEMMA RevokedIsShut ==
  ASSUME NEW seq, NEW now \in Nat
  PROVE  ~IsOpen(ExpiredNow, seq, now)
BY DEF IsOpen, ExpiredNow, NoTime

LEMMA TurnNextBindsOpen ==
  ASSUME TurnInv, [TurnNext]_vars
  PROVE  [RevokedNeverBoundStep]_vars
<1>1. ASSUME UNCHANGED binds PROVE RevokedNeverBoundStep
  BY <1>1 DEF RevokedNeverBoundStep
<1>2. ASSUME NEW s \in Session, BindAdmitted(s) PROVE RevokedNeverBoundStep
  <2> DEFINE o == turn[s].body.offer
             p == turn[s].body.bind
  <2>1. turn[s].now \in Nat
    BY <1>2, TypedBusy, MaxTimeAssumption
       DEF TurnInv, BusyTyped, BindAdmitted, TurnInProgress
  <2>2. /\ o \in DOMAIN offerNbc /\ p \in DOMAIN portNbc
        /\ IsOpen(offerNbc[o], turn[s].seq, turn[s].now)
        /\ IsOpen(portNbc[p], turn[s].seq, turn[s].now)
    BY <1>2 DEF BindAdmitted, BindPort, BindVerdict, Admissible
  <2>3. offerNbc[o] # ExpiredNow /\ portNbc[p] # ExpiredNow
    BY <2>1, <2>2, RevokedIsShut
  <2>4. /\ binds' = Append(binds, [offer |-> o, port |-> p])
        /\ binds \in Seq([offer : Offer, port : Ports])
        /\ o \in Offer /\ p \in Ports
    BY <1>2, AdmittedHasCapacity, TypedBusy, TypedBody
       DEF TurnInv, IInv, TypeOK, BusyTyped, BindAdmitted, BindPort, AddBind,
           TurnInProgress
  <2>5. /\ DOMAIN binds' \ DOMAIN binds = {Len(binds) + 1}
        /\ binds'[Len(binds) + 1] = [offer |-> o, port |-> p]
    <3>1. /\ Len(binds') = Len(binds) + 1
          /\ binds' \in Seq([offer : Offer, port : Ports])
          /\ binds'[Len(binds) + 1] = [offer |-> o, port |-> p]
      BY <2>4, AppendProperties
    <3>2. /\ Len(binds) \in Nat
          /\ DOMAIN binds = 1..Len(binds)
          /\ DOMAIN binds' = 1..Len(binds')
      BY <2>4, <3>1, LenProperties
    <3>. QED
      BY <3>1, <3>2
  <2>. QED
    BY <2>3, <2>5 DEF RevokedNeverBoundStep
<1>3. ASSUME NEW s \in Session, TurnStep(s) PROVE RevokedNeverBoundStep
  BY <1>1, <1>2, <1>3
     DEF TurnStep, ExposeNext, ExposePort, ExposeRefused, ExposedAll,
         PayloadAccepted, PayloadRefused, BindRefused, Abandon, storeVars
<1>4. CASE HostStep \/ Tick
  BY <1>1, <1>4 DEF HostStep, Tick, RegisterParty, SetPortExpiredNow,
     SetOfferExpiredNow, storeVars
<1>5. ASSUME NEW s \in Session, NEW body \in Bodies, NEW now, BeginTurn(s, body, now)
      PROVE  RevokedNeverBoundStep
  BY <1>1, <1>5 DEF BeginTurn, ExtendOffer
<1>. QED
  BY <1>3, <1>4, <1>5 DEF TurnNext

\* NBC N8: a bind never commits against a window revoked before it, whatever
\* the turn had read by then.
THEOREM RevokedStayUnbound == TurnSpec => RevokedNeverBound
<1>1. TurnInv /\ [TurnNext]_vars => [RevokedNeverBoundStep]_vars
  BY TurnNextBindsOpen
<1>. QED
  BY <1>1, TurnInvariant, PTL DEF TurnSpec, RevokedNeverBound
-----------------------------------------------------------------------------
(***************************************************************************)
(* What the store gains from a step of the composition.                    *)
(***************************************************************************)
\* The row a bind appends, and the payload stored with it.
LEMMA BindAppended ==
  ASSUME TurnInv, NEW s \in Session, BindAdmitted(s)
  PROVE  /\ Len(binds) \in Nat /\ Len(fits) = Len(binds)
         /\ DOMAIN binds = 1..Len(binds)
         /\ DOMAIN binds' = 1..(Len(binds) + 1)
         /\ \A i \in 1..Len(binds) : binds'[i] = binds[i] /\ fits'[i] = fits[i]
         /\ binds'[Len(binds) + 1] =
               [offer |-> turn[s].body.offer, port |-> turn[s].body.bind]
         /\ fits'[Len(binds) + 1] = turn[s].body.payload
<1> DEFINE e == [offer |-> turn[s].body.offer, port |-> turn[s].body.bind]
           B == [offer : Offer, port : Ports]
<1>1. turn[s].body \in Bodies
  BY TypedBusy DEF TurnInv, BusyTyped, BindAdmitted, TurnInProgress
<1>2. e \in B /\ turn[s].body.payload \in Policies
  BY <1>1, AdmittedHasCapacity, TypedBody DEF BindAdmitted, BindPort
<1>3. /\ binds \in Seq(B) /\ binds' = Append(binds, e)
      /\ fits \in Seq(Policies) /\ Len(fits) = Len(binds)
      /\ fits' = Append(fits, turn[s].body.payload)
  BY DEF TurnInv, TurnTypeOK, IInv, TypeOK, BindAdmitted, BindPort, AddBind
<1>4. /\ binds' \in Seq(B) /\ Len(binds') = Len(binds) + 1
      /\ \A i \in 1..Len(binds) : binds'[i] = binds[i]
      /\ binds'[Len(binds) + 1] = e
  BY <1>2, <1>3, AppendProperties
<1>5. /\ \A i \in 1..Len(binds) : fits'[i] = fits[i]
      /\ fits'[Len(binds) + 1] = turn[s].body.payload
  BY <1>2, <1>3, AppendProperties
<1>6. /\ Len(binds) \in Nat /\ DOMAIN binds = 1..Len(binds)
      /\ DOMAIN binds' = 1..(Len(binds) + 1)
  BY <1>3, <1>4, LenProperties
<1>. QED
  BY <1>3, <1>4, <1>5, <1>6
-----------------------------------------------------------------------------
(***************************************************************************)
(* Bindable ports.  A turn exposes with a capacity of at least one, so a   *)
(* port in the store always has a capacity and a window on record.         *)
(***************************************************************************)
Listed == DOMAIN caps = Ports /\ DOMAIN portNbc = Ports

LEMMA ExposeNextListed ==
  ASSUME TurnInv, Listed, NEW s \in Session, ExposeNext(s)
  PROVE  Listed'
<1> DEFINE spec == Head(turn[s].left)
           port == [ref |-> spec.ref, policy |-> spec.policy]
<1>1. turn[s].left \in Seq(PortSpec) /\ turn[s].left # <<>>
  BY TypedBusy DEF TurnInv, BusyTyped, ExposeNext, TurnInProgress
<1>2. spec \in PortSpec
  BY <1>1, HeadTailProperties
<1>3. spec.n >= 1
  <2>1. spec.n \in Caps \ {0}
    BY <1>2 DEF PortSpec
  <2>2. \A n \in Caps \ {0} : n >= 1
    BY CapsAssumption
  <2>. QED
    BY <2>1, <2>2
<1>4. ExposePort(turn[s].body.offer, spec.id, port, spec.n, spec.w)
  BY DEF ExposeNext
<1>5. CASE spec.id \in Ports
  BY <1>4, <1>5 DEF ExposePort, ReExpose, Listed, Ports
<1>6. CASE spec.id \notin Ports
  BY <1>3, <1>4, <1>6 DEF ExposePort, ExposeNew, Listed, Ports, Put
<1>. QED
  BY <1>5, <1>6

LEMMA NextListed ==
  ASSUME TurnInv, Listed, [TurnNext]_vars
  PROVE  Listed'
<1>1. ASSUME UNCHANGED <<ports, caps, portNbc>> PROVE Listed'
  BY <1>1 DEF Listed, Ports
<1>2. ASSUME NEW s \in Session, TurnStep(s) PROVE Listed'
  BY <1>1, <1>2, ExposeNextListed
     DEF TurnStep, ExposeRefused, ExposedAll, PayloadAccepted, PayloadRefused,
         BindAdmitted, BindPort, BindRefused, Abandon, storeVars
<1>3. ASSUME NEW p \in Port, SetPortExpiredNow(p) PROVE Listed'
  BY <1>3 DEF SetPortExpiredNow, Listed, Ports, Put
<1>4. ASSUME NEW o \in Offer, SetOfferExpiredNow(o) PROVE Listed'
  <2>1. \A i \in DOMAIN exposes : exposes[i].port \in Ports
    <3>1. exposes \in [1..Len(exposes) -> [offer : Offers, port : Ports]]
      BY LenProperties DEF TurnInv, IInv, TypeOK
    <3>. QED
      BY <3>1
  <2>. QED
    BY <1>4, <2>1 DEF SetOfferExpiredNow, Listed, Ports
<1>5. CASE HostStep
  BY <1>1, <1>3, <1>4, <1>5 DEF HostStep, RegisterParty
<1>6. ASSUME NEW s \in Session, NEW body \in Bodies, NEW now, BeginTurn(s, body, now)
      PROVE  Listed'
  BY <1>1, <1>6 DEF BeginTurn, ExtendOffer
<1>7. CASE Tick \/ UNCHANGED vars
  BY <1>1, <1>7 DEF Tick, vars, storeVars
<1>. QED
  BY <1>2, <1>5, <1>6, <1>7 DEF TurnNext

\* A port the read helpers do not count as used up has capacity left.
LEMMA NotUsedUpHasCapacity ==
  ASSUME IInv, Listed, NEW p \in Port, ~UsedUp(p)
  PROVE  HasCapacity(p)
<1>1. PICK c \in Canonical(ports, p) :
            ~(Tally(c) >= IF c \in DOMAIN caps THEN caps[c] ELSE 1)
  BY DEF UsedUp
<1>2. c \in DOMAIN caps
  BY DEF Canonical, Listed, Ports
<1>3. Tally(c) \in Nat /\ caps[c] \in Nat
  BY <1>2, CountedFinite DEF IInv, TypeOK
<1>. QED
  BY <1>1, <1>2, <1>3 DEF HasCapacity

\* A port with capacity left is not counted as used up.
LEMMA HasCapacityNotUsedUp ==
  ASSUME IInv, NEW p \in Port, HasCapacity(p)
  PROVE  ~UsedUp(p)
<1>1. PICK c \in Canonical(ports, p) : c \in DOMAIN caps /\ Tally(c) < caps[c]
  BY DEF HasCapacity
<1>2. Tally(c) \in Nat /\ caps[c] \in Nat
  BY <1>1, CountedFinite DEF IInv, TypeOK
<1>. QED
  BY <1>1, <1>2 DEF UsedUp

LEMMA ListedIffAdmitted == IInv /\ Listed => BindablePortsAdmissible
<1> SUFFICES ASSUME IInv, Listed, NEW a \in Party, NEW seq \in 0..1,
                    NEW now \in 0..MaxTime, NEW p
             PROVE  p \in BindablePorts(a, seq, now)
                      <=> /\ p \in OpenlyExposed(a, seq, now)
                          /\ \A o \in Offers : IsOpen(offerNbc[o], seq, now)
                                                 => Admissible(o, p, seq, now)
  BY DEF BindablePortsAdmissible
<1>1. ASSUME p \in BindablePorts(a, seq, now),
             NEW o \in Offers, IsOpen(offerNbc[o], seq, now)
      PROVE  Admissible(o, p, seq, now)
  <2>1. p \in Port /\ ~UsedUp(p)
    BY <1>1 DEF BindablePorts
  <2>2. PICK i \in DOMAIN exposes :
              exposes[i].port = p /\ IsOpen(PortWindow(p), seq, now)
    BY <1>1 DEF BindablePorts, OpenEdges
  <2>3. IsExposed(p)
    BY <2>2 DEF IsExposed
  <2>4. HasCapacity(p)
    BY <2>1, NotUsedUpHasCapacity
  <2>5. p \in Ports
    BY <2>1, <2>4, CapacityNeedsPort DEF IInv
  <2>6. o \in DOMAIN offerNbc
    BY DEF IInv, TypeOK
  <2>. QED
    BY <1>1, <2>2, <2>3, <2>4, <2>5, <2>6 DEF Admissible, Listed, PortWindow
<1>2. ASSUME p \in BindablePorts(a, seq, now)
      PROVE  p \in OpenlyExposed(a, seq, now)
  BY <1>2 DEF BindablePorts, OpenEdges, OpenlyExposed
<1>3. ASSUME p \in OpenlyExposed(a, seq, now),
             \A o \in Offers : IsOpen(offerNbc[o], seq, now) => Admissible(o, p, seq, now)
      PROVE  p \in BindablePorts(a, seq, now)
  <2>1. p \in Port
    BY <1>3 DEF OpenlyExposed
  <2>2. PICK i \in DOMAIN exposes :
              /\ exposes[i].port = p /\ extends[exposes[i].offer] = a
              /\ IsOpen(offerNbc[exposes[i].offer], seq, now)
    BY <1>3 DEF OpenlyExposed
  <2>3. exposes[i].offer \in Offers
    <3>1. exposes \in [1..Len(exposes) -> [offer : Offers, port : Ports]]
      BY LenProperties DEF IInv, TypeOK
    <3>. QED
      BY <3>1
  <2>4. Admissible(exposes[i].offer, p, seq, now)
    BY <1>3, <2>2, <2>3
  <2>5. HasCapacity(p) /\ IsOpen(PortWindow(p), seq, now)
    BY <2>4 DEF Admissible, PortWindow
  <2>6. ~UsedUp(p)
    BY <2>1, <2>5, HasCapacityNotUsedUp
  <2>. QED
    BY <2>1, <2>2, <2>5, <2>6 DEF BindablePorts, OpenEdges
<1>. QED
  BY <1>1, <1>2, <1>3

\* The ports the helpers offer for binding are, at every timing, exactly the
\* openly exposed ones that the bind transaction would admit for every offer
\* whose own window is open.
THEOREM OfferedPortsAdmitted == TurnSpec => []BindablePortsAdmissible
<1>1. TurnInit => Listed
  BY DEF TurnInit, Init, Listed, Ports
<1>2. TurnInv /\ Listed /\ [TurnNext]_vars => Listed'
  BY NextListed
<1>3. TurnInv /\ Listed => BindablePortsAdmissible
  BY ListedIffAdmitted DEF TurnInv
<1>. QED
  BY <1>1, <1>2, <1>3, TurnInvariant, PTL DEF TurnSpec
-----------------------------------------------------------------------------
(***************************************************************************)
(* Committed bodies.  A log only grows, so what a bind owes to the turn    *)
(* that committed it can be read off the log for good.                     *)
(***************************************************************************)
LEMMA CommitAppends ==
  ASSUME TurnTypeOK, NEW s \in Busy, Commit(s)
  PROVE  /\ \A t \in Session : \A i \in DOMAIN log[t] :
                i \in DOMAIN log'[t] /\ log'[t][i] = log[t][i]
         /\ Len(log[s]) + 1 \in DOMAIN log'[s]
         /\ log'[s][Len(log[s]) + 1] = turn[s].body
         /\ \A t \in Session : \A i \in DOMAIN log'[t] :
                \/ i \in DOMAIN log[t]
                \/ t = s /\ i = Len(log[s]) + 1
<1>1. s \in Session /\ turn[s].body \in Bodies
  BY TypedBusy DEF Busy, BusyTyped, TurnInProgress
<1>2. /\ log'[s] = Append(log[s], turn[s].body) /\ log[s] \in Seq(Bodies)
      /\ \A t \in Session : t # s => log'[t] = log[t]
  BY <1>1 DEF Commit, TurnTypeOK
<1>3. /\ log'[s] \in Seq(Bodies) /\ Len(log'[s]) = Len(log[s]) + 1
      /\ \A i \in 1..Len(log[s]) : log'[s][i] = log[s][i]
      /\ log'[s][Len(log[s]) + 1] = turn[s].body
  BY <1>1, <1>2, AppendProperties
<1>4. /\ Len(log[s]) \in Nat /\ DOMAIN log[s] = 1..Len(log[s])
      /\ DOMAIN log'[s] = 1..(Len(log[s]) + 1)
  BY <1>2, <1>3, LenProperties
<1>5. /\ \A i \in DOMAIN log[s] : i \in DOMAIN log'[s] /\ log'[s][i] = log[s][i]
      /\ Len(log[s]) + 1 \in DOMAIN log'[s]
      /\ \A i \in DOMAIN log'[s] : i \in DOMAIN log[s] \/ i = Len(log[s]) + 1
  BY <1>3, <1>4
<1>. QED
  BY <1>1, <1>2, <1>3, <1>5

LEMMA NextLogs ==
  ASSUME TurnTypeOK, [TurnNext]_vars
  PROVE  \A t \in Session : \A i \in DOMAIN log[t] :
            i \in DOMAIN log'[t] /\ log'[t][i] = log[t][i]
<1>1. CASE UNCHANGED log
  BY <1>1
<1>2. ASSUME NEW s \in Session, TurnStep(s), ~UNCHANGED log
      PROVE  s \in Busy /\ Commit(s)
  BY <1>2 DEF TurnStep, ExposeNext, ExposeRefused, ExposedAll, PayloadAccepted,
     PayloadRefused, BindAdmitted, BindRefused, Abandon, Busy
<1>3. ASSUME NEW s \in Session, TurnStep(s) PROVE
         \A t \in Session : \A i \in DOMAIN log[t] :
            i \in DOMAIN log'[t] /\ log'[t][i] = log[t][i]
  BY <1>1, <1>2, <1>3, CommitAppends
<1>. QED
  BY <1>1, <1>3 DEF TurnNext, BeginTurn, HostStep, turnVars, Tick, vars
-----------------------------------------------------------------------------
(***************************************************************************)
(* Payloads.  The policy is read before an await and used after it.  It    *)
(* still holds then: either the turn put it on the port itself, which its  *)
(* body says for good, or it is the stored port's, which is final.         *)
(***************************************************************************)
OwnPolicies(body) == {body.ports[j].policy : j \in LocalPolicy(body)}

Fitting(listed, body) ==
    \/ body.payload \in OwnPolicies(body)
    \/ /\ OwnPolicies(body) = {}
       /\ body.bind \in DOMAIN listed /\ body.payload = listed[body.bind].policy

TurnsReady ==
    \A s \in Busy : turn[s].stage = "bind" => Fitting(ports, turn[s].body)

\* The body under which a bind was made, and its payload accepted.
BoundUnder(listed, body, bind, payload) ==
    /\ body.offer = bind.offer /\ body.bind = bind.port /\ body.payload = payload
    /\ Fitting(listed, body)

PayloadsReady ==
    \A i \in DOMAIN binds : \E s \in Session : \E k \in DOMAIN log[s] :
        BoundUnder(ports, log[s][k], binds[i], fits[i])

LEMMA ReadyFits == PayloadsReady => PayloadsFitPolicy
<1> SUFFICES ASSUME PayloadsReady, NEW i \in DOMAIN binds
             PROVE  \E s \in Session : \E k \in DOMAIN log[s] :
                       /\ log[s][k].offer = binds[i].offer
                       /\ log[s][k].bind = binds[i].port
                       /\ IF OwnPolicies(log[s][k]) # {}
                          THEN fits[i] \in OwnPolicies(log[s][k])
                          ELSE fits[i] = ports[binds[i].port].policy
  BY DEF PayloadsFitPolicy, OwnPolicies
<1>1. PICK s \in Session : \E k \in DOMAIN log[s] :
            BoundUnder(ports, log[s][k], binds[i], fits[i])
  BY DEF PayloadsReady
<1>2. PICK k \in DOMAIN log[s] : BoundUnder(ports, log[s][k], binds[i], fits[i])
  BY <1>1
<1>. QED
  BY <1>2 DEF BoundUnder, Fitting

\* What fits goes on fitting: a stored port keeps its policy.
LEMMA FittingKept ==
  ASSUME IInv, [Next]_storeVars, NEW body, Fitting(ports, body)
  PROVE  Fitting(ports', body)
<1>1. \A p : p \in Ports => p \in Ports' /\ ports'[p] = ports[p]
  BY NextKeepsListings DEF ListingsKept, storeVars, Ports
<1>. QED
  BY <1>1 DEF Fitting, Ports

\* The payload that passed fits the turn's own policy or the stored one.
LEMMA PayloadAcceptedFits ==
  ASSUME NEW s, PayloadAccepted(s)
  PROVE  Fitting(ports, turn[s].body)
<1> DEFINE body == turn[s].body
<1>1. CASE LocalPolicy(body) # {}
  BY <1>1 DEF PayloadAccepted, PolicyInEffect, Fitting, OwnPolicies
<1>2. CASE LocalPolicy(body) = {}
  <2>1. OwnPolicies(body) = {}
    BY <1>2 DEF OwnPolicies
  <2>. QED
    BY <1>2, <2>1 DEF PayloadAccepted, PolicyInEffect, Fitting, Ports
<1>. QED
  BY <1>1, <1>2

LEMMA NextReady ==
  ASSUME TurnInv, TurnsReady, [TurnNext]_vars
  PROVE  TurnsReady'
<1>1. /\ \A body : Fitting(ports, body) => Fitting(ports', body)
      /\ TurnTypeOK
  BY TurnNextStores, FittingKept DEF TurnInv, IInv
<1>2. SUFFICES ASSUME NEW t \in Busy', turn'[t].stage = "bind"
               PROVE  Fitting(ports', turn'[t].body)
  BY DEF TurnsReady
<1>3. ASSUME turn'[t] = turn[t] PROVE Fitting(ports', turn'[t].body)
  BY <1>1, <1>2, <1>3 DEF TurnsReady, Busy
<1>4. ASSUME NEW s \in Session, s # t, \E new : turn' = [turn EXCEPT ![s] = new]
      PROVE  turn'[t] = turn[t]
  BY <1>1, <1>2, <1>4 DEF TurnTypeOK, Busy
<1>5. ASSUME NEW s \in Session, NEW body \in Bodies, NEW now, BeginTurn(s, body, now)
      PROVE  turn'[t] = turn[t]
  BY <1>1, <1>2, <1>4, <1>5 DEF BeginTurn, Working, TurnTypeOK, Busy
<1>6. ASSUME TurnStep(t), ~PayloadAccepted(t) PROVE FALSE
  <2>1. t \in Session /\ (turn[t].stage # "idle" => turn[t] \in TurnInProgress)
    BY <1>1, <1>2, TypedBusy DEF Busy, BusyTyped
  <2>2. CASE ExposeNext(t)
    <3>1. turn'[t].stage = turn[t].stage
      BY <1>1, <2>1, <2>2 DEF ExposeNext, TurnTypeOK, TurnInProgress
    <3>. QED
      BY <1>2, <2>2, <3>1 DEF ExposeNext
  <2>3. ASSUME Advance(t, "policy"), turn[t].stage = "expose" PROVE FALSE
    <3>1. turn'[t].stage = "policy"
      BY <1>1, <2>1, <2>3 DEF Advance, TurnTypeOK, TurnInProgress
    <3>. QED
      BY <1>2, <3>1
  <2>4. ASSUME Commit(t) \/ Abandon(t) PROVE FALSE
    BY <1>1, <1>2, <2>1, <2>4 DEF Commit, Abandon, TurnTypeOK, Idle
  <2>. QED
    BY <1>6, <2>2, <2>3, <2>4
       DEF TurnStep, ExposeRefused, ExposedAll, PayloadRefused, BindAdmitted,
           BindRefused
<1>7. ASSUME PayloadAccepted(t) PROVE Fitting(ports', turn'[t].body)
  <2>1. turn[t] \in TurnInProgress /\ t \in Session
    BY <1>1, <1>2, <1>7, TypedBusy DEF BusyTyped, PayloadAccepted, Busy
  <2>2. turn'[t].body = turn[t].body
    BY <1>1, <1>7, <2>1 DEF PayloadAccepted, Advance, TurnTypeOK, TurnInProgress
  <2>. QED
    BY <1>1, <1>7, <2>2, PayloadAcceptedFits
<1>8. ASSUME NEW s \in Session, s # t, TurnStep(s) PROVE turn'[t] = turn[t]
  BY <1>1, <1>2, <1>8
     DEF TurnStep, ExposeNext, ExposeRefused, ExposedAll, PayloadAccepted,
         PayloadRefused, BindAdmitted, BindRefused, Commit, Abandon, Advance,
         TurnTypeOK, Busy
<1>. QED
  BY <1>3, <1>5, <1>6, <1>7, <1>8 DEF TurnNext, HostStep, Tick, turnVars, vars

\* A bind and the body it was made under are there, and fit, from then on.
LEMMA NextPayloads ==
  ASSUME TurnInv, TurnsReady, PayloadsReady, [TurnNext]_vars
  PROVE  PayloadsReady'
<1>1. [Next]_storeVars /\ IInv /\ TurnTypeOK
  BY TurnNextStores DEF TurnInv, IInv
<1>2. \A body, bind, payload : BoundUnder(ports, body, bind, payload)
                                  => BoundUnder(ports', body, bind, payload)
  BY <1>1, FittingKept DEF BoundUnder
<1>3. ASSUME NEW i \in DOMAIN binds, binds'[i] = binds[i], fits'[i] = fits[i]
      PROVE  \E s \in Session : \E k \in DOMAIN log'[s] :
                BoundUnder(ports', log'[s][k], binds'[i], fits'[i])
  <2>1. PICK s \in Session : \E k \in DOMAIN log[s] :
              BoundUnder(ports, log[s][k], binds[i], fits[i])
    BY DEF PayloadsReady
  <2>2. PICK k \in DOMAIN log[s] : BoundUnder(ports, log[s][k], binds[i], fits[i])
    BY <2>1
  <2>3. k \in DOMAIN log'[s] /\ log'[s][k] = log[s][k]
    BY <1>1, NextLogs
  <2>. QED
    BY <1>2, <1>3, <2>2, <2>3
<1>4. CASE UNCHANGED <<binds, fits>>
  BY <1>3, <1>4 DEF PayloadsReady
<1>5. ASSUME NEW s \in Session, BindAdmitted(s) PROVE PayloadsReady'
  <2> DEFINE n == Len(binds) + 1
  <2>1. /\ DOMAIN binds = 1..Len(binds) /\ Len(binds) \in Nat
        /\ DOMAIN binds' = 1..(Len(binds) + 1)
        /\ \A i \in 1..Len(binds) : binds'[i] = binds[i] /\ fits'[i] = fits[i]
        /\ binds'[Len(binds) + 1] =
              [offer |-> turn[s].body.offer, port |-> turn[s].body.bind]
        /\ fits'[Len(binds) + 1] = turn[s].body.payload
    BY <1>5, BindAppended
  <2>2. s \in Busy /\ Commit(s) /\ turn[s].stage = "bind"
    BY <1>5 DEF BindAdmitted, Busy
  <2>3. /\ Len(log[s]) + 1 \in DOMAIN log'[s]
        /\ log'[s][Len(log[s]) + 1] = turn[s].body
    BY <1>1, <2>2, CommitAppends
  <2>4. BoundUnder(ports, turn[s].body, binds'[n], fits'[n])
    <3>1. Fitting(ports, turn[s].body)
      BY <2>2 DEF TurnsReady
    <3>. QED
      BY <2>1, <3>1 DEF BoundUnder
  <2>5. \E k \in DOMAIN log'[s] : BoundUnder(ports', log'[s][k], binds'[n], fits'[n])
    BY <1>2, <2>3, <2>4
  <2>6. \A i \in DOMAIN binds' : i \in DOMAIN binds \/ i = n
    BY <2>1
  <2>7. \A i \in DOMAIN binds : binds'[i] = binds[i] /\ fits'[i] = fits[i]
    BY <2>1
  <2>. QED
    BY <1>3, <2>5, <2>6, <2>7 DEF PayloadsReady
<1>6. ASSUME NEW s \in Session, TurnStep(s), ~BindAdmitted(s)
      PROVE  UNCHANGED <<binds, fits>>
  BY <1>6 DEF TurnStep, ExposeNext, ExposePort, ExposeRefused, ExposedAll,
     PayloadAccepted, PayloadRefused, BindRefused, Abandon, storeVars
<1>7. ASSUME NEW s \in Session, NEW body \in Bodies, NEW now, BeginTurn(s, body, now)
      PROVE  UNCHANGED <<binds, fits>>
  BY <1>7 DEF BeginTurn, ExtendOffer
<1>8. ASSUME HostStep \/ Tick \/ UNCHANGED vars
      PROVE  UNCHANGED <<binds, fits>>
  BY <1>8 DEF HostStep, Tick, RegisterParty, SetPortExpiredNow, SetOfferExpiredNow,
     storeVars, turnVars, vars
<1>. QED
  BY <1>4, <1>5, <1>6, <1>7, <1>8 DEF TurnNext

\* NBC N4: every bind is that of a committed turn whose payload fits the policy
\* the turn itself put on the port, or else the one the store has for it,
\* whatever the other sessions did between the read of the policy and the bind.
THEOREM PayloadsAlwaysFit == TurnSpec => []PayloadsFitPolicy
<1>1. TurnInit => TurnsReady /\ PayloadsReady
  BY DEF TurnInit, Init, TurnsReady, Busy, Idle, PayloadsReady
<1>2. TurnInv /\ TurnsReady /\ [TurnNext]_vars => TurnsReady'
  BY NextReady
<1>3. TurnInv /\ TurnsReady /\ PayloadsReady /\ [TurnNext]_vars => PayloadsReady'
  BY NextPayloads
<1>. QED
  BY <1>1, <1>2, <1>3, ReadyFits, TurnInvariant, PTL DEF TurnSpec
-----------------------------------------------------------------------------
(***************************************************************************)
(* Committed turns.  An offer belongs to one turn: extendOffer refuses an  *)
(* id the store has, so a turn under way holds an offer no other turn and  *)
(* no log has, and its commit is the only one that will ever log it.       *)
(***************************************************************************)
OffersOwned ==
    /\ \A o : Committed(o) # {} => o \in Offers
    /\ \A s \in Busy : /\ turn[s].body.offer \in Offers
                       /\ Committed(turn[s].body.offer) = {}
    /\ \A s, t \in Busy : turn[s].body.offer = turn[t].body.offer => s = t
    /\ \A o : \A s, t \in Committed(o) : s = t

BindsOwned ==
    /\ \A i \in DOMAIN binds : Committed(binds[i].offer) # {}
    /\ \A i, j \in DOMAIN binds : binds[i].offer = binds[j].offer => i = j

\* The sessions that have an offer in their log, of any log.
LoggedIn(lg, o) == {s \in Session : \E i \in DOMAIN lg[s] : lg[s][i].offer = o}

\* A commit adds its session to those that have logged the turn's offer.
LEMMA CommitLogs ==
  ASSUME TurnTypeOK, NEW s \in Busy, Commit(s), NEW o
  PROVE  LoggedIn(log', o) = IF o = turn[s].body.offer THEN LoggedIn(log, o) \cup {s}
                                                       ELSE LoggedIn(log, o)
<1> DEFINE own == turn[s].body.offer
           k == Len(log[s]) + 1
<1>1. s \in Session
  BY DEF Busy
<1>2. /\ \A t \in Session : \A i \in DOMAIN log[t] :
            i \in DOMAIN log'[t] /\ log'[t][i] = log[t][i]
      /\ k \in DOMAIN log'[s] /\ log'[s][k].offer = own
      /\ \A t \in Session : \A i \in DOMAIN log'[t] :
            i \in DOMAIN log[t] \/ (t = s /\ i = k)
  BY CommitAppends
<1>3. \A t \in Session : (\E i \in DOMAIN log'[t] : log'[t][i].offer = o)
         <=> (\E i \in DOMAIN log[t] : log[t][i].offer = o) \/ (t = s /\ o = own)
  BY <1>2
<1>. QED
  BY <1>1, <1>3 DEF LoggedIn

\* A turn begins with an offer of its own.
LEMMA BeginTurnOwns ==
  ASSUME TurnInv, OffersOwned, NEW s \in Session, NEW body \in Bodies, NEW now,
         BeginTurn(s, body, now)
  PROVE  OffersOwned'
<1>1. /\ body.offer \notin Offers /\ Offers' = Offers \cup {body.offer}
      /\ s \notin Busy /\ log' = log
  BY DEF BeginTurn, ExtendOffer, Put, Offers, Busy
<1>2. turn' = [turn EXCEPT ![s] =
                  Working("expose", body, body.ports, Len(log[s]), now)]
  BY DEF BeginTurn
<1>3. /\ turn'[s].body = body
      /\ Busy' = Busy \cup {s}
      /\ \A t \in Busy : t # s /\ turn'[t] = turn[t]
  BY <1>1, <1>2 DEF TurnInv, TurnTypeOK, Working, Busy
<1>4. \A o : Committed(o)' = Committed(o)
  BY <1>1 DEF Committed
<1>5. Committed(body.offer) = {}
  BY <1>1 DEF OffersOwned
<1>6. \A t \in Busy : turn[t].body.offer # body.offer
  BY <1>1 DEF OffersOwned
<1>7. \A t \in Busy' : \/ t = s /\ turn'[t].body.offer = body.offer
                       \/ t \in Busy /\ turn'[t].body.offer = turn[t].body.offer
  BY <1>3
<1>8. \A t \in Busy' : turn'[t].body.offer \in Offers'
  BY <1>1, <1>7 DEF OffersOwned
<1>9. \A t \in Busy' : LoggedIn(log', turn'[t].body.offer) = {}
  BY <1>1, <1>5, <1>7 DEF OffersOwned, Committed, LoggedIn
<1>10. \A t, u \in Busy' : turn'[t].body.offer = turn'[u].body.offer => t = u
  BY <1>6, <1>7 DEF OffersOwned
<1>11. \A o : LoggedIn(log', o) = LoggedIn(log, o)
  BY <1>1 DEF LoggedIn
<1>. QED
  BY <1>1, <1>8, <1>9, <1>10, <1>11 DEF OffersOwned, Committed, LoggedIn

LEMMA CommitOwns ==
  ASSUME TurnTypeOK, OffersOwned, UNCHANGED extends, NEW s \in Busy, Commit(s)
  PROVE  OffersOwned'
<1> DEFINE own == turn[s].body.offer
<1>1. \A o : LoggedIn(log', o) = IF o = own THEN LoggedIn(log, o) \cup {s}
                                            ELSE LoggedIn(log, o)
  BY CommitLogs
<1>2. /\ Offers' = Offers /\ own \in Offers /\ LoggedIn(log, own) = {}
      /\ \A t \in Busy : t # s => turn[t].body.offer # own
  BY DEF OffersOwned, Committed, LoggedIn, Offers
<1>3. Busy' \subseteq Busy \ {s} /\ \A t \in Busy' : turn'[t] = turn[t]
  BY DEF Commit, Idle, Busy, TurnTypeOK
<1>4. /\ \A o : LoggedIn(log, o) # {} => o \in Offers
      /\ \A o : \A t, u \in LoggedIn(log, o) : t = u
      /\ \A t \in Busy : /\ turn[t].body.offer \in Offers
                         /\ LoggedIn(log, turn[t].body.offer) = {}
      /\ \A t, u \in Busy : turn[t].body.offer = turn[u].body.offer => t = u
  BY DEF OffersOwned, Committed, LoggedIn
<1>5. \A o : LoggedIn(log', o) # {} => o \in Offers'
  BY <1>1, <1>2, <1>4
<1>6. \A o : \A t, u \in LoggedIn(log', o) : t = u
  BY <1>1, <1>2, <1>4
<1>7. \A t \in Busy' : /\ turn'[t].body.offer \in Offers'
                       /\ LoggedIn(log', turn'[t].body.offer) = {}
  BY <1>1, <1>2, <1>3, <1>4
<1>8. \A t, u \in Busy' : turn'[t].body.offer = turn'[u].body.offer => t = u
  BY <1>3, <1>4
<1>. QED
  BY <1>5, <1>6, <1>7, <1>8 DEF OffersOwned, Committed, LoggedIn

\* A step that only drops a turn or moves it on keeps what is owned.
LEMMA OwnedKept ==
  ASSUME OffersOwned, UNCHANGED <<extends, log>>, Busy' \subseteq Busy,
         \A t \in Busy' : turn'[t].body = turn[t].body
  PROVE  OffersOwned'
<1>1. Offers' = Offers /\ \A o : LoggedIn(log', o) = LoggedIn(log, o)
  BY DEF Offers, LoggedIn
<1>2. /\ \A o : LoggedIn(log, o) # {} => o \in Offers
      /\ \A o : \A t, u \in LoggedIn(log, o) : t = u
      /\ \A t \in Busy : /\ turn[t].body.offer \in Offers
                         /\ LoggedIn(log, turn[t].body.offer) = {}
      /\ \A t, u \in Busy : turn[t].body.offer = turn[u].body.offer => t = u
  BY DEF OffersOwned, Committed, LoggedIn
<1>3. \A t \in Busy' : /\ turn'[t].body.offer \in Offers'
                       /\ LoggedIn(log', turn'[t].body.offer) = {}
  BY <1>1, <1>2
<1>4. \A t, u \in Busy' : turn'[t].body.offer = turn'[u].body.offer => t = u
  BY <1>2
<1>. QED
  BY <1>1, <1>2, <1>3, <1>4 DEF OffersOwned, Committed, LoggedIn

LEMMA TurnStepOwns ==
  ASSUME TurnInv, OffersOwned, NEW s \in Session, TurnStep(s)
  PROVE  OffersOwned'
<1>1. CASE ExposeNext(s)
  <2>1. s \in Busy /\ turn[s] \in TurnInProgress
    BY <1>1, TypedBusy DEF ExposeNext, Busy, TurnInv, BusyTyped
  <2>2. /\ turn'[s].body = turn[s].body
        /\ \A t \in Session : t # s => turn'[t] = turn[t]
    BY <1>1, <2>1 DEF ExposeNext, TurnInv, TurnTypeOK, TurnInProgress
  <2>3. Busy' \subseteq Busy
    BY <2>1, <2>2 DEF Busy
  <2>. QED
    BY <1>1, <2>2, <2>3, OwnedKept DEF ExposeNext, ExposePort, Busy
<1>2. ASSUME NEW stage, turn[s].stage # "idle", Advance(s, stage),
             UNCHANGED <<extends, log>>
      PROVE  OffersOwned'
  <2>1. s \in Busy /\ turn[s] \in TurnInProgress
    BY <1>2, TypedBusy DEF Busy, TurnInv, BusyTyped
  <2>2. /\ turn'[s].body = turn[s].body
        /\ \A t \in Session : t # s => turn'[t] = turn[t]
    BY <1>2, <2>1 DEF Advance, TurnInv, TurnTypeOK, TurnInProgress
  <2>3. Busy' \subseteq Busy
    BY <2>1, <2>2 DEF Busy
  <2>. QED
    BY <1>2, <2>2, <2>3, OwnedKept DEF Busy
<1>3. CASE Abandon(s)
  <2>1. Busy' \subseteq Busy /\ \A t \in Busy' : turn'[t] = turn[t]
    BY <1>3 DEF Abandon, Idle, Busy, TurnInv, TurnTypeOK
  <2>. QED
    BY <1>3, <2>1, OwnedKept DEF Abandon, storeVars
<1>4. ASSUME s \in Busy, Commit(s), UNCHANGED extends
      PROVE  OffersOwned'
  BY <1>4, CommitOwns DEF TurnInv
<1>5. CASE ExposedAll(s)
  BY <1>2, <1>4, <1>5 DEF ExposedAll, Busy, storeVars
<1>6. CASE PayloadAccepted(s)
  BY <1>2, <1>6 DEF PayloadAccepted, storeVars
<1>7. CASE BindAdmitted(s)
  BY <1>4, <1>7 DEF BindAdmitted, BindPort, Busy
<1>. QED
  BY <1>1, <1>3, <1>5, <1>6, <1>7
     DEF TurnStep, ExposeRefused, PayloadRefused, BindRefused

LEMMA NextOwns ==
  ASSUME TurnInv, OffersOwned, [TurnNext]_vars
  PROVE  OffersOwned'
<1>1. ASSUME UNCHANGED turnVars, UNCHANGED extends PROVE OffersOwned'
  <2>1. UNCHANGED <<extends, log>> /\ Busy' = Busy /\ turn' = turn
    BY <1>1 DEF turnVars, Busy
  <2>. QED
    BY <2>1, OwnedKept
<1>2. CASE HostStep
  BY <1>1, <1>2 DEF HostStep, RegisterParty, SetPortExpiredNow, SetOfferExpiredNow
<1>3. CASE Tick
  <2>1. UNCHANGED <<extends, log>> /\ Busy' = Busy /\ turn' = turn
    BY <1>3 DEF Tick, storeVars, Busy
  <2>. QED
    BY <2>1, OwnedKept
<1>4. CASE UNCHANGED vars
  BY <1>1, <1>4 DEF vars, storeVars
<1>. QED
  BY <1>2, <1>3, <1>4, BeginTurnOwns, TurnStepOwns DEF TurnNext

\* A bind is one of the turn that commits with it, which binds nothing else.
LEMMA NextBindsOwned ==
  ASSUME TurnInv, OffersOwned, BindsOwned, [TurnNext]_vars
  PROVE  BindsOwned'
<1>1. ASSUME NEW s \in Busy, Commit(s)
      PROVE  \A o : LoggedIn(log, o) # {} => LoggedIn(log', o) # {}
  BY <1>1, CommitLogs DEF TurnInv
<1>2. ASSUME \A o : LoggedIn(log, o) # {} => LoggedIn(log', o) # {}, UNCHANGED binds
      PROVE  BindsOwned'
  BY <1>2 DEF BindsOwned, Committed, LoggedIn
<1>3. ASSUME UNCHANGED <<binds, log>> PROVE BindsOwned'
  BY <1>2, <1>3 DEF LoggedIn
<1>4. ASSUME NEW s \in Session, BindAdmitted(s) PROVE BindsOwned'
  <2> DEFINE own == turn[s].body.offer
             k == Len(binds) + 1
  <2>1. s \in Busy /\ Commit(s)
    BY <1>4 DEF BindAdmitted, Busy
  <2>2. /\ DOMAIN binds = 1..Len(binds) /\ Len(binds) \in Nat
        /\ DOMAIN binds' = 1..k
        /\ \A i \in 1..Len(binds) : binds'[i] = binds[i]
        /\ binds'[k].offer = own
    <3>1. /\ DOMAIN binds = 1..Len(binds) /\ Len(binds) \in Nat
          /\ DOMAIN binds' = 1..(Len(binds) + 1)
          /\ \A i \in 1..Len(binds) : binds'[i] = binds[i]
          /\ binds'[Len(binds) + 1] = [offer |-> own, port |-> turn[s].body.bind]
      BY <1>4, BindAppended
    <3>. QED
      BY <3>1
  <2>3. LoggedIn(log', own) = LoggedIn(log, own) \cup {s}
    BY <2>1, CommitLogs DEF TurnInv
  <2>4. \A i \in DOMAIN binds : LoggedIn(log, binds[i].offer) # {}
    BY DEF BindsOwned, Committed, LoggedIn
  <2>5. LoggedIn(log, own) = {}
    BY <2>1 DEF OffersOwned, Committed, LoggedIn
  <2>6. \A i \in DOMAIN binds' : i \in DOMAIN binds \/ i = k
    BY <2>2
  <2>7. \A i \in DOMAIN binds' : LoggedIn(log', binds'[i].offer) # {}
    BY <1>1, <2>1, <2>2, <2>3, <2>4, <2>6
  <2>8. \A i, j \in DOMAIN binds' : binds'[i].offer = binds'[j].offer => i = j
    BY <2>2, <2>4, <2>5, <2>6 DEF BindsOwned
  <2>. QED
    BY <2>7, <2>8 DEF BindsOwned, Committed, LoggedIn
<1>5. ASSUME NEW s \in Session, ExposedAll(s) PROVE BindsOwned'
  BY <1>1, <1>2, <1>3, <1>5 DEF ExposedAll, storeVars, Busy
<1>6. ASSUME NEW s \in Session, TurnStep(s) PROVE BindsOwned'
  BY <1>3, <1>4, <1>5, <1>6
     DEF TurnStep, ExposeNext, ExposePort, ExposeRefused, PayloadAccepted,
         PayloadRefused, BindRefused, Abandon, storeVars
<1>7. ASSUME NEW s \in Session, NEW body \in Bodies, NEW now, BeginTurn(s, body, now)
      PROVE  BindsOwned'
  BY <1>3, <1>7 DEF BeginTurn, ExtendOffer
<1>8. CASE HostStep \/ Tick \/ UNCHANGED vars
  BY <1>3, <1>8 DEF HostStep, Tick, RegisterParty, SetPortExpiredNow,
     SetOfferExpiredNow, storeVars, turnVars, vars
<1>. QED
  BY <1>6, <1>7, <1>8 DEF TurnNext

LEMMA OwnedBelongs == OffersOwned /\ BindsOwned => BindsBelongToCommittedTurns
<1> SUFFICES ASSUME OffersOwned, BindsOwned, NEW i \in DOMAIN binds
             PROVE  /\ Cardinality(Committed(binds[i].offer)) = 1
                    /\ \A j \in DOMAIN binds :
                          binds[j].offer = binds[i].offer => j = i
  BY DEF BindsBelongToCommittedTurns
<1>1. PICK s : s \in Committed(binds[i].offer)
  BY DEF BindsOwned
<1>2. Committed(binds[i].offer) = {s}
  BY <1>1 DEF OffersOwned
<1>3. Cardinality(Committed(binds[i].offer)) = 1
  BY <1>2, FS_Singleton
<1>. QED
  BY <1>3 DEF BindsOwned

\* A rejected turn leaves no bind: every bind is of an offer that exactly one
\* session has committed, in a turn that binds nothing else.
THEOREM BindsStayCommitted == TurnSpec => []BindsBelongToCommittedTurns
<1>1. TurnInit => OffersOwned /\ BindsOwned
  <2> SUFFICES ASSUME TurnInit PROVE OffersOwned /\ BindsOwned
    OBVIOUS
  <2>1. Busy = {} /\ \A o : Committed(o) = {}
    BY DEF TurnInit, Busy, Idle, Committed
  <2>2. DOMAIN binds = {}
    BY DEF TurnInit, Init
  <2>. QED
    BY <2>1, <2>2 DEF OffersOwned, BindsOwned
<1>2. TurnInv /\ OffersOwned /\ [TurnNext]_vars => OffersOwned'
  BY NextOwns
<1>3. TurnInv /\ OffersOwned /\ BindsOwned /\ [TurnNext]_vars => BindsOwned'
  BY NextBindsOwned
<1>. QED
  BY <1>1, <1>2, <1>3, OwnedBelongs, TurnInvariant, PTL DEF TurnSpec
-----------------------------------------------------------------------------
\* NBC N5 and N6, seen from the ledger: the turns of all the sessions together
\* list a capacity once and take it unit by unit, never more than there is.
THEOREM TurnsRefineLedger == TurnSpec => ImplementsLedger
BY TurnsRefineStore, StoreRefinesLedger, PTL DEF TurnsImplementStore

\* Under any interleaving of turns a listing, once made, is final.
THEOREM TurnsKeepListings == TurnSpec => ListingsFrozen
BY TurnsRefineStore, ListingsStayFrozen, PTL DEF TurnsImplementStore

\* Under any interleaving of turns a revoked window stays revoked.
THEOREM TurnsKeepRevocations == TurnSpec => RevocationFinal
BY TurnsRefineStore, RevocationsStayFinal, PTL DEF TurnsImplementStore
=============================================================================
