----------------------------- MODULE MuxSession -----------------------------
(***************************************************************************)
(* One MultiplexSessionRuntime (packages/wire) and the sessions it carries *)
(* over one channel: how chains are opened by the host, by its plans and   *)
(* by the peer, how frames find their chain, what the frame mutex spans,   *)
(* when the channel is closed, and how waits for a turn end (Coordinator). *)
(* The peer sends anything that is signed; what two peers make of one      *)
(* chain, envelopes and END_OFFERS are in FrameChain.                      *)
(*                                                                         *)
(* `jobs' is a call stack: what runs under the mutex, step by step between *)
(* awaits, and below it the jobs whose callback called it.  The mutex is   *)
(* re-entrant: a turn or a terminate that a callback awaits, on the handle *)
(* of any open chain, runs at once, inside the job that called back.       *)
(***************************************************************************)
EXTENDS Coordinator, Sequences

CONSTANTS
    Inits,      \* inits that may be sent: [sid, genesis]
    Modes,      \* arguments of runFrameMultiplexSession, see Mode
    MaxFrames,  \* bound on the frames a runtime handles
    MaxOpening  \* bound on the inits being written at once

Genesis == {i.genesis : i \in Inits}

\* A template is the set of inits it matches, {} where none is set.
Mode == [role : {"opener", "plans", "responder"}, plans : Seq(Inits),
         template : SUBSET Inits, closeWhenIdle : BOOLEAN,
         closeOnTerminate : BOOLEAN]

\* validateRunFrameMultiplexSessionArgs, and the first plan in run().
ValidMode(m) ==
    /\ m.role = "plans" <=> m.plans # <<>>
    /\ m.role # "opener" => \E i \in Inits : m.template = {i}
    /\ m.role = "plans" => m.plans[1] \in m.template

ASSUME InitAssumption == Inits \subseteq [sid : Sessions, genesis : Genesis]
ASSUME ModeAssumption == Modes \subseteq Mode /\ \A m \in Modes : ValidMode(m)
ASSUME BoundAssumption == MaxFrames \in Nat /\ MaxOpening \in Nat

Goodbye == "terminate"
Op == [by : {"me", "peer"}, body : Bodies \cup {Goodbye}]
Tip == [genesis : Genesis, ops : Seq(Op)]
Frame == [parent : Tip, op : Op]

VARIABLES
    mode,       \* which of Modes the runtime was started with
    template,   \* lazyTemplate
    open,       \* sessions with a chain
    tip,        \* session -> tip of its DAG
    log,        \* session -> sessionOps
    hooked,     \* open sessions whose chain has the host's hooks
    table,      \* tipToSession: [tip, sid]
    seen,       \* globalDedupe, never emptied
    opening,    \* inits being written, or whose plan is being announced: [init, by]
    jobs,       \* the jobs under the mutex, the innermost last
    openerDone, \* openerFinished
    through,    \* sequentialOpenedThrough
    reading,    \* whether the read loop has started
    dead,       \* channelDead
    closed,     \* whether the channel is closed
    broken      \* whether a callback threw, or a plan could not be opened

muxVars == <<mode, template, open, tip, log, hooked, table, seen, opening, jobs,
             openerDone, through, reading, dead, closed, broken>>

vars == <<coordVars, muxVars>>

NoTip == [genesis |-> "none", ops |-> <<>>]

\* The job of a frame: what it has read when it began, whether the read loop
\* waits for it, and whether its chain came with the host's hooks.
Job == [stage : {"applying", "sending", "terminating", "repeating", "announcing",
                 "answering", "notifying", "advancing", "greeting"},
        sid : Sessions, frame : Frame, turnSeq : Nat, inbound : BOOLEAN,
        hooks : BOOLEAN]

\* Stages at which a callback of the host is awaited: onGraphAdvanced,
\* onIncomingOffer, onTerminate and onSessionReady.
CallingBack == {"announcing", "answering", "notifying", "greeting"}

Running == jobs # <<>>
Top == jobs[Len(jobs)]
At(stage) == Running /\ Top.stage = stage

Enter(job) == jobs' = Append(jobs, job)
Becomes(stage) == jobs' = [jobs EXCEPT ![Len(jobs)].stage = stage]
Done == jobs' = SubSeq(jobs, 1, Len(jobs) - 1)
NextTip(f) == [f.parent EXCEPT !.ops = Append(@, f.op)]
-----------------------------------------------------------------------------
Init ==
    /\ CoordInit
    /\ mode \in Modes
    /\ template = mode.template
    /\ open = {} /\ hooked = {} /\ table = {} /\ seen = {} /\ jobs = <<>>
    /\ tip = [s \in Sessions |-> NoTip]
    /\ log = [s \in Sessions |-> <<>>]
    /\ opening = IF mode.role = "plans"
                 THEN {[init |-> mode.plans[1], by |-> "run"]} ELSE {}
    /\ openerDone = (mode.role # "opener")
    /\ through = -1
    /\ reading = (mode.role # "plans")
    /\ dead = FALSE /\ closed = FALSE /\ broken = FALSE

Matches(i) == template = {} \/ i \in template

Taken(g) == \E e \in table : e.tip = [genesis |-> g, ops |-> <<>>]

\* Slip: the genesis is not looked up among the tips.
RegistrableBySession(i) == Matches(i) /\ i.sid \notin open

\* registerChain throws on anything else.  Only tips are looked up: the
\* genesis of a chain that has moved on is free again.
Registrable(i) == Matches(i) /\ i.sid \notin open /\ ~Taken(i.genesis)

\* The first chain pins the template of a host that gave none.
Register(i, hooks) ==
    LET start == [genesis |-> i.genesis, ops |-> <<>>] IN
    /\ template' = IF template = {} THEN {i} ELSE template
    /\ open' = open \cup {i.sid}
    /\ tip' = [tip EXCEPT ![i.sid] = start]
    /\ hooked' = hooked \cup (IF hooks THEN {i.sid} ELSE {})
    /\ table' = {e \in table : e.tip # start} \cup {[tip |-> start, sid |-> i.sid]}

\* maybeCloseIdle: who closes a channel without chains, and when.
ClosesIdle(chains, done) ==
    /\ mode.closeWhenIdle /\ ~dead /\ chains = {}
    /\ \/ mode.role = "opener" /\ done
       \/ mode.role = "plans"

CloseIf(condition) == dead' = (dead \/ condition) /\ closed' = (closed \/ condition)

\* The read loop goes on once what it last read has been dealt with.
ReadLoopFree == reading /\ ~dead /\ ~closed /\ \A i \in DOMAIN jobs : ~jobs[i].inbound
-----------------------------------------------------------------------------
\* opener.init up to the awaited write.
OpenInit(i) ==
    LET o == [init |-> i, by |-> "host"] IN
    /\ mode.role = "opener" /\ o \notin opening /\ Cardinality(opening) < MaxOpening
    /\ opening' = opening \cup {o}
    /\ UNCHANGED <<coordVars, mode, template, open, tip, log, hooked, table, seen,
                   jobs, openerDone, through, reading, dead, closed, broken>>

\* An init of the host or of a plan is written and its chain registered; what
\* awaits it is told (onSessionReady).
InitWritten(o) ==
    /\ o \in opening /\ o.by # "ready" /\ Registrable(o.init)
    /\ opening' = (opening \ {o})
                     \cup (IF o.by = "plan" THEN {[init |-> o.init, by |-> "ready"]} ELSE {})
    /\ Register(o.init, o.by = "host")
    /\ IF o.by = "job" THEN Becomes("greeting") ELSE UNCHANGED jobs
    /\ UNCHANGED <<coordVars, mode, log, seen, openerDone, through, reading, dead,
                   closed, broken>>

\* The write fails, or registerChain throws after it.
InitRefused(o) ==
    /\ o \in opening /\ o.by # "ready" /\ (closed \/ ~Registrable(o.init))
    /\ opening' = opening \ {o}
    /\ IF o.by = "job" THEN Done ELSE UNCHANGED jobs
    /\ broken' = (broken \/ o.by # "host")
    /\ UNCHANGED <<coordVars, mode, template, open, tip, log, hooked, table, seen,
                   openerDone, through, reading, dead, closed>>

\* The end of destroyChain, and the close that closeChannelOnTerminate asks for.
ChainEnded(chains) == CloseIf(ClosesIdle(chains, openerDone) \/ mode.closeOnTerminate)

\* onSessionReady has returned, or thrown, to a plan that no job awaits: what
\* follows the end of the chain before it goes on.
PlanReady(o) ==
    /\ o \in opening /\ o.by = "ready"
    /\ opening' = opening \ {o}
    /\ \/ ChainEnded(open) /\ UNCHANGED broken
       \/ broken' = TRUE /\ UNCHANGED <<dead, closed>>
    /\ UNCHANGED <<coordVars, mode, template, open, tip, log, hooked, table, seen,
                   jobs, openerDone, through, reading>>

\* The same within the job that ended the chain before.
Greeted ==
    /\ At("greeting")
    /\ ChainEnded(open)
    /\ Done
    /\ UNCHANGED <<coordVars, mode, template, open, tip, log, hooked, table, seen,
                   opening, openerDone, through, reading, broken>>

\* Slip: the idle channel is left to the next chain's end.
CloseOpenerOnly ==
    /\ mode.role = "opener" /\ ~openerDone
    /\ openerDone' = TRUE
    /\ CloseIf(FALSE)
    /\ UNCHANGED <<coordVars, mode, template, open, tip, log, hooked, table, seen,
                   opening, jobs, through, reading, broken>>

\* opener.close.
CloseOpener ==
    /\ mode.role = "opener" /\ ~openerDone
    /\ openerDone' = TRUE
    /\ CloseIf(ClosesIdle(open, TRUE))
    /\ UNCHANGED <<coordVars, mode, template, open, tip, log, hooked, table, seen,
                   opening, jobs, through, reading, broken>>

\* run() with plans: the first chain is up and its onSessionReady has returned.
StartReading ==
    /\ ~reading /\ ~broken
    /\ \A o \in opening : o.by # "run"
    /\ reading' = TRUE /\ through' = 0
    /\ UNCHANGED <<coordVars, mode, template, open, tip, log, hooked, table, seen,
                   opening, jobs, openerDone, dead, closed, broken>>

\* processYield of an init, which does not take the mutex.
ReceiveInit(i) ==
    /\ ReadLoopFree
    /\ Registrable(i)
    /\ Register(i, FALSE)
    /\ UNCHANGED <<coordVars, mode, log, seen, opening, jobs, openerDone, through,
                   reading, dead, closed, broken>>
-----------------------------------------------------------------------------
\* Slip: a call runs at once, inside whatever else runs (a call a callback
\* left running when it returned, which still counts as inside the mutex).
MayRunDetached(s) == TRUE

\* enqueueMux: the mutex is free, or the call comes from the callback that the
\* innermost job awaits - of whatever chain, on whatever chain's handle.
MayRun(s) == Running => Top.stage \in CallingBack

OwnFrame(s, body) == [parent |-> tip[s], op |-> [by |-> "me", body |-> body]]

Start(s, stage, f) ==
    Enter([stage |-> stage, sid |-> s, frame |-> f, turnSeq |-> Len(log[s]),
           inbound |-> FALSE, hooks |-> s \in hooked])

\* emitOutboundTurn up to the store: the tip and the position of the turn are
\* read here, and used after several awaits.  A frame it has seen is dropped.
SendTurn(s, body) ==
    LET f == OwnFrame(s, body) IN
    /\ MayRun(s) /\ s \in open
    /\ f \notin seen /\ Cardinality(seen) < MaxFrames
    /\ Start(s, "applying", f)
    /\ UNCHANGED <<coordVars, mode, template, open, tip, log, hooked, table, seen,
                   opening, openerDone, through, reading, dead, closed, broken>>

\* terminate up to the write, which comes before noting and logging.  A frame it
\* has seen - of an earlier chain with this genesis - is not written again, but
\* the chain is ended all the same.
Terminate(s) ==
    LET f == OwnFrame(s, Goodbye) IN
    /\ MayRun(s) /\ s \in open
    /\ IF f \in seen THEN Start(s, "repeating", f)
       ELSE Cardinality(seen) < MaxFrames /\ Start(s, "terminating", f)
    /\ UNCHANGED <<coordVars, mode, template, open, tip, log, hooked, table, seen,
                   opening, openerDone, through, reading, dead, closed, broken>>

\* handleInboundFrame of a TURN up to the store: a tip of the table names the
\* chain (resolveChain), whose DAG must have that tip (verifyInboundChild).
ReceiveTurn(e, body) ==
    LET f == [parent |-> e.tip, op |-> [by |-> "peer", body |-> body]] IN
    /\ ReadLoopFree /\ ~Running
    /\ e \in table /\ e.sid \in open /\ tip[e.sid] = e.tip
    /\ f \notin seen /\ Cardinality(seen) < MaxFrames
    /\ Enter([stage |-> "applying", sid |-> e.sid, frame |-> f,
              turnSeq |-> Len(log[e.sid]), inbound |-> TRUE,
              hooks |-> e.sid \in hooked])
    /\ UNCHANGED <<coordVars, mode, template, open, tip, log, hooked, table, seen,
                   opening, openerDone, through, reading, dead, closed, broken>>

\* Slip: a frame is not noted in the dedupe set.
NoteNothing(f) == seen' = seen

Note(f) == seen' = seen \cup {f}

\* commitTip and advanceTip.
MoveTip(s, f) ==
    /\ tip' = [tip EXCEPT ![s] = NextTip(f)]
    /\ table' = {e \in table : e.tip \notin {f.parent, NextTip(f)}}
                \cup {[tip |-> NextTip(f), sid |-> s]}

\* The store has taken the turn: one's own goes out, the peer's moves the tip.
Applied ==
    LET f == Top.frame IN
    /\ At("applying")
    /\ Note(f)
    /\ log' = [log EXCEPT ![Top.sid] = Append(@, f.op)]
    /\ IF f.op.by = "me"
       THEN Becomes("sending") /\ UNCHANGED <<tip, table>>
       ELSE Becomes("announcing") /\ MoveTip(Top.sid, f)
    /\ UNCHANGED <<coordVars, mode, template, open, hooked, opening, openerDone,
                   through, reading, dead, closed, broken>>

Sent ==
    /\ At("sending")
    /\ MoveTip(Top.sid, Top.frame)
    /\ Becomes("announcing")
    /\ UNCHANGED <<coordVars, mode, template, open, log, hooked, seen, opening,
                   openerDone, through, reading, dead, closed, broken>>

\* The store refuses the turn, or the write of a frame fails.
GivenUp ==
    /\ \/ At("applying")
       \/ closed /\ (At("sending") \/ At("terminating"))
    /\ Done
    /\ UNCHANGED <<coordVars, mode, template, open, tip, log, hooked, table, seen,
                   opening, openerDone, through, reading, dead, closed, broken>>

\* onGraphAdvanced has returned to a turn of one's own.
Announced ==
    /\ At("announcing") /\ Top.frame.op.by = "me"
    /\ Done
    /\ UNCHANGED <<coordVars, mode, template, open, tip, log, hooked, table, seen,
                   opening, openerDone, through, reading, dead, closed, broken>>

\* onGraphAdvanced has returned to a turn of the peer; onIncomingOffer of a chain
\* that came with hooks is the coordinator's, also when the chain has ended since.
\* A predicate that throws ends the job.
Offered ==
    LET body == Top.frame.op.body
        thrown == Top.hooks /\ SomeThrows(Top.sid, body) IN
    /\ At("announcing") /\ Top.frame.op.by = "peer"
    /\ IF Top.hooks THEN Fulfil(Top.sid, body) ELSE UNCHANGED coordVars
    /\ IF thrown THEN Done ELSE Becomes("answering")
    /\ broken' = (broken \/ thrown)
    /\ UNCHANGED <<mode, template, open, tip, log, hooked, table, seen, opening,
                   openerDone, through, reading, dead, closed>>

\* A callback throws, or passes on what a call it awaited threw.
CallbackThrows ==
    /\ Running /\ Top.stage \in CallingBack
    /\ Done
    /\ broken' = TRUE
    /\ UNCHANGED <<coordVars, mode, template, open, tip, log, hooked, table, seen,
                   opening, openerDone, through, reading, dead, closed>>

\* onIncomingOffer returns null, or the turn it returned has been sent.
Answered ==
    /\ At("answering")
    /\ Done
    /\ UNCHANGED <<coordVars, mode, template, open, tip, log, hooked, table, seen,
                   opening, openerDone, through, reading, dead, closed, broken>>
-----------------------------------------------------------------------------
\* Slip: the hooks of the chain outlive it.
DestroyWithoutHooks(s) ==
    /\ open' = open \ {s}
    /\ hooked' = hooked
    /\ tip' = [tip EXCEPT ![s] = NoTip]
    /\ log' = [log EXCEPT ![s] = <<>>]

\* destroyChain up to its callback.
Destroy(s) ==
    /\ open' = open \ {s}
    /\ hooked' = hooked \ {s}
    /\ tip' = [tip EXCEPT ![s] = NoTip]
    /\ log' = [log EXCEPT ![s] = <<>>]

\* removeTipsForSession.  Slip: only the genesis is looked for.
GenesisForgotten(s) == table' = {e \in table : ~(e.sid = s /\ e.tip.ops = <<>>)}

TipsForgotten(s) == table' = {e \in table : e.sid # s}

(***************************************************************************)
(* advanceSequentialAfterChainEnd, then the end of destroyChain; a next    *)
(* plan's init is awaited first, by the job unless it is a terminate that  *)
(* no callback called, whose destroyChain comes after its job; and one     *)
(* that the template refuses throws.  `chains' are those left.             *)
(***************************************************************************)
Awaited == Top.inbound \/ Len(jobs) > 1

Advance(chains) ==
    LET next == through + 1
        more == mode.role = "plans" /\ next < Len(mode.plans)
        plan == mode.plans[next + 1] IN
    /\ through' = IF mode.role = "plans" THEN next ELSE through
    /\ \/ /\ more /\ plan \in template
          /\ opening' = opening \cup
                {[init |-> plan, by |-> IF Awaited THEN "job" ELSE "plan"]}
          /\ IF Awaited THEN Becomes("advancing") ELSE Done
          /\ UNCHANGED <<dead, closed, broken>>
       \/ /\ more /\ plan \notin template
          /\ broken' = TRUE
          /\ Done
          /\ UNCHANGED <<opening, dead, closed>>
       \/ /\ ~more
          /\ ChainEnded(chains)
          /\ Done
          /\ UNCHANGED <<opening, broken>>

\* terminate after its write: no callback, no word to the waits.
Terminated ==
    /\ At("terminating") \/ At("repeating")
    /\ Note(Top.frame)
    /\ Destroy(Top.sid)
    /\ TipsForgotten(Top.sid)
    /\ Advance(open \ {Top.sid})
    /\ UNCHANGED <<coordVars, mode, template, openerDone, reading>>

\* handleInboundFrame of a TERMINATE: routed by a tip; onTerminate of a hooked
\* chain rejects its waits and goes on to the host's own.
ReceiveTerminate(e) ==
    LET f == [parent |-> e.tip, op |-> [by |-> "peer", body |-> Goodbye]] IN
    /\ ReadLoopFree /\ ~Running
    /\ e \in table /\ e.sid \in open
    /\ f \notin seen /\ Cardinality(seen) < MaxFrames
    /\ Note(f)
    /\ Destroy(e.sid)
    /\ TipsForgotten(e.sid)
    /\ IF e.sid \in hooked THEN RejectAll(e.sid) ELSE UNCHANGED coordVars
    /\ Enter([stage |-> "notifying", sid |-> e.sid, frame |-> f,
              turnSeq |-> Len(log[e.sid]), inbound |-> TRUE,
              hooks |-> e.sid \in hooked])
    /\ UNCHANGED <<mode, template, opening, openerDone, through, reading, dead,
                   closed, broken>>

\* onTerminate has returned.
Notified ==
    /\ At("notifying")
    /\ Advance(open)
    /\ UNCHANGED <<coordVars, mode, template, open, tip, log, hooked, table, seen,
                   openerDone, reading>>
-----------------------------------------------------------------------------
\* The peer closes, the transport fails, or an overflow ends the stream.
ChannelLost ==
    /\ ~closed /\ closed' = TRUE
    /\ UNCHANGED <<coordVars, mode, template, open, tip, log, hooked, table, seen,
                   opening, jobs, openerDone, through, reading, dead, broken>>

\* runReadLoop gives up on a peer whose messages were all refused.
TooManyErrors ==
    /\ ReadLoopFree /\ CloseIf(TRUE)
    /\ UNCHANGED <<coordVars, mode, template, open, tip, log, hooked, table, seen,
                   opening, jobs, openerDone, through, reading, broken>>

Host ==
    \/ \E i \in Inits : OpenInit(i)
    \/ CloseOpener
    \/ \E s \in Sessions : Terminate(s) \/ \E body \in Bodies : SendTurn(s, body)
    \/ HostWaits /\ UNCHANGED muxVars

Peer ==
    \/ \E i \in Inits : ReceiveInit(i)
    \/ \E e \in table : ReceiveTerminate(e) \/ \E body \in Bodies : ReceiveTurn(e, body)
    \/ ChannelLost
    \/ TooManyErrors

\* What goes on by itself once a write, the store or a callback answers.
Progress ==
    \/ \E o \in opening : InitWritten(o) \/ InitRefused(o) \/ PlanReady(o)
    \/ StartReading
    \/ Applied \/ Sent \/ GivenUp \/ Announced \/ Offered \/ Answered
    \/ CallbackThrows \/ Terminated \/ Notified \/ Greeted

Next == Host \/ Peer \/ Progress

\* Timers fire.  Nothing is assumed of writes, of the store or of callbacks, which
\* may never answer.
Spec ==
    /\ Init /\ [][Next]_vars
    /\ \A w \in Waits : WF_vars(TimeUp(w) /\ UNCHANGED muxVars)
-----------------------------------------------------------------------------
\* Every variable holds what its comment says.
TypeOK ==
    /\ CoordTypeOK
    /\ mode \in Modes /\ template \subseteq Inits
    /\ open \subseteq Sessions /\ hooked \subseteq open
    /\ tip \in [Sessions -> Tip \cup {NoTip}] /\ log \in [Sessions -> Seq(Op)]
    /\ \A s \in open : tip[s] \in Tip
    /\ table \subseteq [tip : Tip, sid : Sessions] /\ seen \subseteq Frame
    /\ opening \subseteq [init : Inits, by : {"host", "run", "plan", "ready", "job"}]
    /\ jobs \in Seq(Job)
    /\ openerDone \in BOOLEAN /\ reading \in BOOLEAN /\ dead \in BOOLEAN
    /\ closed \in BOOLEAN /\ broken \in BOOLEAN
    /\ through \in Int /\ through >= -1
    /\ dead => closed

\* docs/spec/frame: `Implementations MUST route each Frame to the unique open
\* chain whose current tip or registered genesis_hash equals p_hash'.  The
\* table holds the tip of every open chain, nothing else, and no tip twice,
\* although a genesis may be used again once its chain has moved on.
RoutingIsExact ==
    /\ table = {[tip |-> tip[s], sid |-> s] : s \in open}
    /\ \A s, r \in open : tip[s] = tip[r] => s = r

\* What a turn or a terminate read when it began (tipHash, turnSeq) still holds
\* when the store gets it, or its write settles, several awaits later - of every
\* job on the stack, not only the innermost.
CapturedStillTrue ==
    \A i \in DOMAIN jobs :
        LET j == jobs[i] IN
        /\ j.stage = "applying" =>
            j.sid \in open /\ j.frame.parent = tip[j.sid] /\ j.turnSeq = Len(log[j.sid])
        /\ j.stage \in {"sending", "terminating", "repeating"} =>
            j.sid \in open /\ j.frame.parent = tip[j.sid]

\* A channel without chains, with nothing under way and no chain to come, has
\* been closed, whichever came last: the end of a chain, opener.close, or a
\* plan (maybeCloseIdle) - unless a callback or a plan's init failed.
IdleMeansClosed ==
    /\ mode.closeWhenIdle /\ open = {} /\ ~Running /\ opening = {} /\ ~broken
    /\ \/ mode.role = "opener" /\ openerDone
       \/ mode.role = "plans" /\ reading
    => dead

\* A wait with a timeout ends, whatever becomes of the chain and the channel.
TimedWaitSettles ==
    \A w \in Timed : promise[w] = "pending" ~> promise[w] \in {"resolved", "rejected"}

\* Once onGraphAdvanced has returned to a turn of the peer, the turn resolves every
\* wait of its chain that it fits, also one that came while the store or a
\* callback was awaited; no other promise moves with it; and when a predicate
\* throws, the waits it leaves pending are those called before that one.
Fits(w) == /\ promise[w] = "pending" /\ Home[w] = Top.sid /\ Top.hooks
           /\ Answer[w][Top.frame.op.body] = "yes"

BehindThrow(w) ==
    \E v \in Waits : /\ promise[v] = "pending" /\ Home[v] = Top.sid
                     /\ Answer[v][Top.frame.op.body] = "throws" /\ place[w] < place[v]

MatchingTurnResolvesStep ==
    At("announcing") /\ Top.frame.op.by = "peer" /\ jobs' # jobs /\ Len(jobs') <= Len(jobs) =>
        /\ \A w \in Waits :
              promise'[w] # promise[w] => Fits(w) /\ promise'[w] = "resolved"
        /\ Len(jobs') = Len(jobs) => \A w \in Waits : Fits(w) => promise'[w] # promise[w]
        /\ promise' # promise =>
              \A w \in Waits : Fits(w) /\ promise'[w] = promise[w] => BehindThrow(w)

MatchingTurnResolves == [][MatchingTurnResolvesStep]_vars
=============================================================================
