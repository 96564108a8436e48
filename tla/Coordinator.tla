---------------------------- MODULE Coordinator ----------------------------
(***************************************************************************)
(* createNegotiationCoordinator (packages/wire): calls of waitForTurn that *)
(* hold a promise until a turn fits their predicate, their time is up,     *)
(* their signal is aborted, or the chain ends.  A session has one          *)
(* coordinator; a wait stands for one call.                                *)
(*                                                                         *)
(* A second resolve or reject of a JavaScript promise does nothing and is  *)
(* never noticed; here it would overwrite the outcome, so that a property  *)
(* can say that none is attempted.                                         *)
(***************************************************************************)
EXTENDS Integers, FiniteSets

CONSTANTS
    Sessions,       \* sessions, each with its coordinator
    Waits,          \* calls of waitForTurn
    Bodies,         \* bodies of turns
    Home,           \* wait -> the session it waits on
    Answer,         \* wait -> what its predicate does on a body
    Timed,          \* waits with a timeoutMs
    Cancellable     \* waits with a signal

ASSUME WaitAssumption ==
    /\ IsFiniteSet(Waits)
    /\ Home \in [Waits -> Sessions]
    /\ Answer \in [Waits -> [Bodies -> {"yes", "no", "throws"}]]
    /\ Timed \subseteq Waits /\ Cancellable \subseteq Waits

VARIABLES
    promise,    \* wait -> "new", "pending", "resolved" or "rejected"
    place,      \* wait -> how many calls came before it
    listed,     \* waits in the list of waiters
    timer,      \* waits whose timeout is set
    listener,   \* waits listening to their signal
    aborted     \* waits whose signal has been aborted

coordVars == <<promise, place, listed, timer, listener, aborted>>

CoordTypeOK ==
    /\ promise \in [Waits -> {"new", "pending", "resolved", "rejected"}]
    /\ place \in [Waits -> Nat]
    /\ listed \subseteq Waits /\ timer \subseteq Waits
    /\ listener \subseteq Waits /\ aborted \subseteq Waits

CoordInit ==
    /\ promise = [w \in Waits |-> "new"]
    /\ place = [w \in Waits |-> 0]
    /\ listed = {} /\ timer = {} /\ listener = {} /\ aborted = {}
-----------------------------------------------------------------------------
\* Slip: the timers of settled waits run on.
SettleAlone(W, outcome) ==
    /\ promise' = [w \in Waits |-> IF w \in W THEN outcome ELSE promise[w]]
    /\ listed' = listed \ W
    /\ timer' = timer
    /\ listener' = listener \ W
    /\ UNCHANGED <<place, aborted>>

\* Promises settle, their timers and listeners go, and they leave the list.
Settle(W, outcome) ==
    /\ promise' = [w \in Waits |-> IF w \in W THEN outcome ELSE promise[w]]
    /\ listed' = listed \ W
    /\ timer' = timer \ W
    /\ listener' = listener \ W
    /\ UNCHANGED <<place, aborted>>

\* Slip: a wait that came with a signal is given no timer.
WaitForTurnUntimed(w) ==
    /\ promise[w] = "new" /\ w \notin aborted
    /\ promise' = [promise EXCEPT ![w] = "pending"]
    /\ place' = [place EXCEPT ![w] = Cardinality({v \in Waits : promise[v] # "new"})]
    /\ listed' = listed \cup {w}
    /\ timer' = timer \cup ({w} \cap (Timed \ Cancellable))
    /\ listener' = listener \cup ({w} \cap Cancellable)
    /\ UNCHANGED aborted

\* waitForTurn: the caller gets a promise, with its listener and its timer.
WaitForTurn(w) ==
    /\ promise[w] = "new" /\ w \notin aborted
    /\ promise' = [promise EXCEPT ![w] = "pending"]
    /\ place' = [place EXCEPT ![w] = Cardinality({v \in Waits : promise[v] # "new"})]
    /\ listed' = listed \cup {w}
    /\ timer' = timer \cup ({w} \cap Timed)
    /\ listener' = listener \cup ({w} \cap Cancellable)
    /\ UNCHANGED aborted

\* waitForTurn on a signal already aborted: nothing is set up.
WaitRefused(w) ==
    /\ promise[w] = "new" /\ w \in aborted
    /\ promise' = [promise EXCEPT ![w] = "rejected"]
    /\ UNCHANGED <<place, listed, timer, listener, aborted>>

\* The host aborts the signal: onAbort rejects a wait that still listens.
Abort(w) ==
    /\ w \in Cancellable \ aborted
    /\ aborted' = aborted \cup {w}
    /\ promise' = [promise EXCEPT ![w] = IF w \in listener THEN "rejected" ELSE @]
    /\ listed' = listed \ ({w} \cap listener)
    /\ timer' = timer \ ({w} \cap listener)
    /\ listener' = listener \ {w}
    /\ UNCHANGED place

\* The timeout passes.
TimeUp(w) == w \in timer /\ Settle({w}, "rejected")
-----------------------------------------------------------------------------
Waiting(c) == {w \in listed : Home[w] = c}

\* Whether a predicate throws on the body, which ends fulfillMatchingWaiters.
SomeThrows(c, body) == \E w \in Waiting(c) : Answer[w][body] = "throws"

\* Slip: the loop stops one short of the earliest.
ExaminedButOne(c, body) ==
    {w \in Waiting(c) : \E v \in Waiting(c) : place[v] < place[w]}

\* The waits it looks at before that, from the latest to the earliest.
Examined(c, body) ==
    {w \in Waiting(c) :
        \A v \in Waiting(c) : Answer[v][body] = "throws" => place[v] < place[w]}

Matched(c, body) == {w \in Examined(c, body) : Answer[w][body] = "yes"}

\* fulfillMatchingWaiters.
Fulfil(c, body) == Settle(Matched(c, body), "resolved")

\* rejectAll: a TERMINATE of the peer, or dispose.
RejectAll(c) == Settle(Waiting(c), "rejected")

Dispose(c) == Waiting(c) # {} /\ RejectAll(c)

HostWaits ==
    \/ \E w \in Waits : WaitForTurn(w) \/ WaitRefused(w) \/ Abort(w) \/ TimeUp(w)
    \/ \E c \in Sessions : Dispose(c)

CoordNext ==
    \/ HostWaits
    \/ \E c \in Sessions : RejectAll(c) \/ \E body \in Bodies : Fulfil(c, body)
-----------------------------------------------------------------------------
\* A wait leaves nothing behind (waiters, setTimeout, addEventListener): the
\* list holds exactly the open promises, and of those exactly the timed ones
\* have a timer running and the cancellable ones a listener on their signal -
\* however a timeout, an abort, a turn, a TERMINATE and dispose race.
SettledLeavesNothing ==
    /\ listed = {w \in Waits : promise[w] = "pending"}
    /\ timer = listed \cap Timed
    /\ listener = listed \cap Cancellable

\* Nobody settles a promise twice (resolve or reject after either): of several
\* ways a wait can end that come close together, one happens.
SettledOnce ==
    [][\A w \in Waits :
        promise[w] \in {"resolved", "rejected"} => promise'[w] = promise[w]]_coordVars
=============================================================================
