------------------------------- MODULE NbcTurn -------------------------------
(***************************************************************************)
(* Sessions that share one persistence store and apply NBC turns to it     *)
(* (applyNbcTurn in packages/nbc/src/nbc-turn.ts; every connection of      *)
(* packages/wire/src/http2/http2-serve.ts is given the same client).       *)
(*                                                                         *)
(* A turn awaits between its store calls, so the turns of different        *)
(* sessions interleave there; within a session the frame mutex runs one    *)
(* turn at a time.  A turn that is rejected half way keeps what it wrote.  *)
(***************************************************************************)
EXTENDS NbcViews

CONSTANTS
    Session,      \* sessions attached to the store
    Bodies,       \* NbcTurnBody values the sessions may send
    MaxTime       \* bound on the clock

\* A port spec and a turn body.  A payload is named by the one policy it fits;
\* NoPolicy is the empty policy and the empty payload.
NoPolicy == "none"

PortSpec == [id : Port, ref : Port \cup {NoPort}, policy : Policies,
             n : Caps \ {0}, w : Windows]

Body == [offer : Offer, party : Party, w : Windows, ports : Seq(PortSpec),
         bind : Port \cup {NoPort}, payload : Policies]

ASSUME BodiesAssumption == Bodies \subseteq Body
ASSUME MaxTimeAssumption == MaxTime \in Nat \ {0}

VARIABLES
    clock,      \* wall clock of the host, from 1
    turn,       \* session -> the turn it is applying
    log,        \* session -> bodies of the turns it has committed, in order
    fits        \* for each row of binds, the policy its bind_payload fits

turnVars == <<clock, turn, log, fits>>
vars == <<storeVars, turnVars>>

\* A turn in progress: its stage, its body, the port specs still to expose and
\* the timing captured when it began.
TurnInProgress ==
    [stage : {"expose", "policy", "bind"}, body : Bodies,
     left : Seq(PortSpec), seq : Nat, now : 0..MaxTime]

Idle == [stage |-> "idle"]

Working(stage, body, left, seq, now) ==
    [stage |-> stage, body |-> body, left |-> left, seq |-> seq, now |-> now]

Busy == {s \in Session : turn[s].stage # "idle"}

Advance(s, stage) == turn' = [turn EXCEPT ![s].stage = stage]

Abandon(s) ==
    /\ turn' = [turn EXCEPT ![s] = Idle]
    /\ UNCHANGED <<storeVars, clock, log, fits>>

Commit(s) ==
    /\ turn' = [turn EXCEPT ![s] = Idle]
    /\ log' = [log EXCEPT ![s] = Append(@, turn[s].body)]
-----------------------------------------------------------------------------
TurnInit ==
    /\ Init
    /\ clock = 1
    /\ turn = [s \in Session |-> Idle]
    /\ log = [s \in Session |-> <<>>]
    /\ fits = <<>>

\* Slip: the bind leg handed to extendOffer, before the payload is validated.
BeginTurnBinding(s, body, now) ==
    /\ turn[s].stage = "idle"
    /\ ExtendOffer(body.offer, body.party, body.w, body.bind)
    /\ turn' = [turn EXCEPT ![s] =
                  Working("expose", body, body.ports, Len(log[s]), now)]
    /\ UNCHANGED <<clock, log, fits>>

(***************************************************************************)
(* The frame runtime fixes the timing - turnSeq is the length of the       *)
(* session's log, effectiveNowMs the clock or undefined - and extendOffer  *)
(* takes effect before the first await.  It never carries a bind leg.      *)
(***************************************************************************)
BeginTurn(s, body, now) ==
    /\ turn[s].stage = "idle"
    /\ ExtendOffer(body.offer, body.party, body.w, NoPort)
    /\ turn' = [turn EXCEPT ![s] =
                  Working("expose", body, body.ports, Len(log[s]), now)]
    /\ UNCHANGED <<clock, log, fits>>

\* One exposePort call of the loop over body.ports.
ExposeNext(s) ==
    LET spec == Head(turn[s].left) IN
    /\ turn[s].stage = "expose" /\ turn[s].left # <<>>
    /\ Len(exposes) < MaxExposes
    /\ ExposePort(turn[s].body.offer, spec.id,
                  [ref |-> spec.ref, policy |-> spec.policy], spec.n, spec.w)
    /\ turn' = [turn EXCEPT ![s].left = Tail(@)]
    /\ UNCHANGED <<clock, log, fits>>

\* exposePort throws: the ref is unknown or its chain does not end.
ExposeRefused(s) ==
    LET spec == Head(turn[s].left)
        port == [ref |-> spec.ref, policy |-> spec.policy] IN
    /\ turn[s].stage = "expose" /\ turn[s].left # <<>>
    /\ spec.id \notin Ports /\ ~RefAccepted(Put(ports, spec.id, port), spec.id)
    /\ Abandon(s)

\* Nothing left to expose: a turn that binds nothing is done.
ExposedAll(s) ==
    /\ turn[s].stage = "expose" /\ turn[s].left = <<>>
    /\ IF turn[s].body.bind = NoPort
       THEN Commit(s)
       ELSE Advance(s, "policy") /\ UNCHANGED log
    /\ UNCHANGED <<storeVars, clock, fits>>

(***************************************************************************)
(* resolveNbcBindPolicyForPort: a policy the turn itself put on the target *)
(* wins over the stored one; a port the store does not know is an error.   *)
(* normalizeNbcBindPayload then accepts the payload that fits the policy.  *)
(***************************************************************************)
LocalPolicy(body) ==
    {i \in DOMAIN body.ports :
        /\ body.ports[i].id = body.bind
        /\ body.ports[i].policy # NoPolicy
        /\ \A j \in (i + 1)..Len(body.ports) :
              body.ports[j].id = body.bind => body.ports[j].policy = NoPolicy}

\* Slip: a port that is not found counts as one without a policy.
PolicyOrDefault(body) ==
    IF LocalPolicy(body) # {}
    THEN {body.ports[i].policy : i \in LocalPolicy(body)}
    ELSE IF body.bind \in Ports THEN {ports[body.bind].policy} ELSE {NoPolicy}

\* The policies in effect: one, or none when the port is not found.
PolicyInEffect(body) ==
    IF LocalPolicy(body) # {}
    THEN {body.ports[i].policy : i \in LocalPolicy(body)}
    ELSE {ports[p].policy : p \in {body.bind} \cap Ports}

PayloadAccepted(s) ==
    /\ turn[s].stage = "policy"
    /\ turn[s].body.payload \in PolicyInEffect(turn[s].body)
    /\ Advance(s, "bind")
    /\ UNCHANGED <<storeVars, clock, log, fits>>

\* Slip: a policy that is not found is not treated as an error.
PayloadRefusedIfFound(s) ==
    /\ turn[s].stage = "policy"
    /\ PolicyInEffect(turn[s].body) \ {turn[s].body.payload} # {}
    /\ Abandon(s)

PayloadRefused(s) ==
    /\ turn[s].stage = "policy"
    /\ turn[s].body.payload \notin PolicyInEffect(turn[s].body)
    /\ Abandon(s)

\* bindPort with checkNbcBindAdmission inside the store's transaction.
BindVerdict(s) ==
    Admissible(turn[s].body.offer, turn[s].body.bind, turn[s].seq, turn[s].now)

BindAdmitted(s) ==
    /\ turn[s].stage = "bind"
    /\ BindPort(turn[s].body.offer, turn[s].body.bind, BindVerdict(s))
    /\ fits' = Append(fits, turn[s].body.payload)
    /\ Commit(s)
    /\ UNCHANGED clock

BindRefused(s) ==
    /\ turn[s].stage = "bind"
    /\ BindVerdict(s) => IsBound(turn[s].body.offer, turn[s].body.bind)
    /\ Abandon(s)

TurnStep(s) ==
    \/ ExposeNext(s)
    \/ ExposeRefused(s)
    \/ ExposedAll(s)
    \/ PayloadAccepted(s)
    \/ PayloadRefused(s)
    \/ BindAdmitted(s)
    \/ BindRefused(s)

\* What the host does to the store beside the sessions.
HostStep ==
    /\ \/ \E a \in Party : RegisterParty(a)
       \/ \E p \in Port :
             Cardinality(Revoked) < MaxRevoked /\ SetPortExpiredNow(p)
       \/ \E o \in Offer :
             Cardinality(Revoked) < MaxRevoked /\ SetOfferExpiredNow(o)
    /\ UNCHANGED turnVars

Tick ==
    /\ clock < MaxTime
    /\ clock' = clock + 1
    /\ UNCHANGED <<storeVars, turn, log, fits>>

TurnNext ==
    \/ \E s \in Session, body \in Bodies, now \in {NoTime, clock} :
          BeginTurn(s, body, now)
    \/ \E s \in Session : TurnStep(s)
    \/ HostStep
    \/ Tick

\* A turn under way is a chain of promises that all settle: the event loop
\* runs each continuation.  New turns, the host and time owe nothing.
TurnSpec == TurnInit /\ [][TurnNext]_vars /\ \A s \in Session : WF_vars(TurnStep(s))
-----------------------------------------------------------------------------
\* Every variable holds what its comment says, and a stored bind has a payload.
TurnTypeOK ==
    /\ clock \in 1..MaxTime
    /\ turn \in [Session -> {Idle} \cup TurnInProgress]
    /\ log \in [Session -> Seq(Bodies)]
    /\ fits \in Seq(Policies) /\ Len(fits) = Len(binds)

\* NBC N6 and N7 (applyNbcTurn over a shared client): however the turns of the
\* sessions interleave, and wherever one is rejected, the store sees only the
\* calls it specifies, so every property of GraphStore holds of it.  What a
\* turn checked before an await is worth nothing at the bind; the admission
\* check inside the transaction must imply what the store needs.
TurnsImplementStore == Spec

\* NBC N1 and N8 (checkNbcBindAdmission in the bind transaction): a port or an
\* offer revoked before a bind commits is not bound, even when the turn began,
\* and read its policy, before the revocation.
RevokedNeverBoundStep ==
    \A i \in DOMAIN binds' \ DOMAIN binds :
        /\ offerNbc[binds'[i].offer] # ExpiredNow
        /\ portNbc[binds'[i].port] # ExpiredNow

RevokedNeverBound == [][RevokedNeverBoundStep]_vars

\* NBC N4 (resolveNbcBindPolicyForPort, read before an await and used after
\* it): every bind is that of a committed turn whose payload fits the last
\* active policy the turn itself put on the port; when it put none, the payload
\* fits the policy the store has for the port - a port the turn found then, with
\* the policy it found, whatever the other sessions did since.
PayloadsFitPolicy ==
    \A i \in DOMAIN binds :
        \E s \in Session : \E k \in DOMAIN log[s] :
            LET body == log[s][k]
                own == {body.ports[j].policy : j \in LocalPolicy(body)}
            IN  /\ body.offer = binds[i].offer /\ body.bind = binds[i].port
                /\ IF own # {} THEN fits[i] \in own
                               ELSE fits[i] = ports[binds[i].port].policy

\* applyNbcTurn: a turn that is rejected leaves no bind behind - every bind
\* belongs to the offer of a turn committed by exactly one session, which
\* binds nothing else.
Committed(o) == {s \in Session : \E i \in DOMAIN log[s] : log[s][i].offer = o}

BindsBelongToCommittedTurns ==
    \A i \in DOMAIN binds :
        /\ Cardinality(Committed(binds[i].offer)) = 1
        /\ \A j \in DOMAIN binds : binds[j].offer = binds[i].offer => j = i

\* getBindablePortsForParty against checkNbcBindAdmission, two readings of the
\* same rules, at the same timing: the ports offered for binding are exactly
\* those exposed by an open offer of the party that every open offer would be
\* admitted to bind.  (A port whose exposing offers are all closed is admitted
\* and not listed: the admission check does not look at them.)
OpenlyExposed(a, seq, now) ==
    {p \in Port : \E i \in DOMAIN exposes :
        /\ exposes[i].port = p /\ extends[exposes[i].offer] = a
        /\ IsOpen(offerNbc[exposes[i].offer], seq, now)}

BindablePortsAdmissible ==
    \A a \in Party, seq \in 0..1, now \in 0..MaxTime :
        BindablePorts(a, seq, now) =
            {p \in OpenlyExposed(a, seq, now) : \A o \in Offers :
                IsOpen(offerNbc[o], seq, now) => Admissible(o, p, seq, now)}

\* A turn, once begun, is committed or abandoned: no await is left hanging
\* when the bind target is unknown, revoked or taken meanwhile.
TurnsFinish == \A s \in Session : s \in Busy ~> s \notin Busy

\* packages/nbc/src/nbc-session.ts:88 on nbcNaturalStop: a turn that exposes
\* nothing ends the session naturally when `no prior exposed affordance
\* remains bindable'.
StopsWhenNothingBindable ==
    \A seq \in 0..1, now \in 0..MaxTime :
        (\A a \in Party : BindablePorts(a, seq, now) = {})
            => NaturalStop(0, seq, now)

\* docs/spec/nbc/negotiated-binding-convention.smithy:26 (N4): a port exposed
\* with a non-empty bind_policy is bound only with a payload that validates
\* against that policy.
BoundPayloadsFitStoredPolicy ==
    \A i \in DOMAIN binds :
        LET policy == ports[binds[i].port].policy IN
        policy # NoPolicy => fits[i] = policy

\* packages/nbc/README.md:19 on whoShouldAct: when the last committed offer is
\* one party's and another party of the graph still has ports to bind, that
\* other party is to act.
OtherPartyActs ==
    \A s \in Session :
        log[s] # <<>> /\ Busy = {} =>
            LET last == extends[log[s][Len(log[s])].offer] IN
            \A a \in GraphParties \ {last} :
                AvailablePortsFor(a) # {} => a \in WhoShouldAct(last)
=============================================================================
