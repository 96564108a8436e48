----------------------------- MODULE FrameChain -----------------------------
(***************************************************************************)
(* One negotiation chain between two peers (MultiplexSessionRuntime of     *)
(* packages/wire): signed frames that each name the tip they extend, the   *)
(* session envelopes that confirm the common log, and the end of a chain.  *)
(*                                                                         *)
(* A tip is the hash of the frames so far; hashes do not collide, so a tip *)
(* is here the sequence of operations it commits to, and the Merkle root   *)
(* in a checkpoint the log it was computed from.  Ed25519 signatures are   *)
(* deterministic: signing the same operation at the same tip gives the     *)
(* same frame.                                                             *)
(*                                                                         *)
(* Each peer handles one frame at a time (enqueueMux): `job' holds what is *)
(* under way while a write is awaited.  The stream keeps its order and     *)
(* loses nothing until it is closed; closing it drops later writes.        *)
(***************************************************************************)
EXTENDS Integers, Sequences

CONSTANTS
    Initiator, Responder,   \* the two peers
    Bodies,                 \* TURN bodies
    Modes,                  \* [sync, echo]: envelope sync on, relay echoes
    Closers,                \* peers that close the channel when a chain ends
    Picky,                  \* peers whose store may refuse a turn
    MaxErrors,              \* MAX_CONSECUTIVE_FRAME_ERRORS
    MaxOps                  \* bound on the length of a log

ASSUME PeerAssumption == Initiator # Responder
ASSUME ModeAssumption == Modes \subseteq [sync : BOOLEAN, echo : BOOLEAN]
ASSUME BoundAssumption == MaxErrors \in Nat \ {0} /\ MaxOps \in Nat

Peer == {Initiator, Responder}

Other(p) == IF p = Initiator THEN Responder ELSE Initiator

NoBody == "none"
Op == [type : {"TURN"}, actor : Peer, body : Bodies]
        \cup [type : {"END_OFFERS", "TERMINATE"}, actor : Peer, body : {NoBody}]

Frame == [parent : Seq(Op), op : Op]

Message == [kind : {"init"}]
             \cup [kind : {"frame"}, frame : Frame]
             \cup [kind : {"envelope"}, from : Peer, base : Nat, log : Seq(Op)]

VARIABLES
    mode,        \* which of Modes this connection runs in
    chain,       \* peer -> "none", "open" or "ended"
    ops,         \* peer -> sessionOps, the log of the chain
    tip,         \* peer -> the tip of its DAG, the key frames are routed by
    seen,        \* peer -> frames in its dedupe set
    confirmed,   \* peer -> confirmedSeq
    ack,         \* peer -> pendingAck
    job,         \* peer -> the frame whose write it awaits
    inbox,       \* peer -> messages on their way to it
    errors,      \* peer -> consecutive frame errors
    dead,        \* peers that closed the channel (channelDead)
    closed       \* whether the channel is closed

vars == <<mode, chain, ops, tip, seen, confirmed, ack, job, inbox, errors,
          dead, closed>>

Idle == [stage |-> "idle"]

Sending(f) == [stage |-> "sending", frame |-> f]

NextTip(f) == Append(f.parent, f.op)

FrameMessage(f) == [kind |-> "frame", frame |-> f]
-----------------------------------------------------------------------------
\* Writes of p, in order: to the other peer and, through a relay, to itself.
Written(box, p, msgs) ==
    IF closed THEN box
    ELSE [box EXCEPT ![Other(p)] = @ \o msgs,
                     ![p] = @ \o (IF mode.echo THEN msgs ELSE <<>>)]

Write(p, msgs) == inbox' = Written(inbox, p, msgs)

Consume(p, msgs) == inbox' = Written([inbox EXCEPT ![p] = Tail(@)], p, msgs)

\* Slips: an envelope only in answer to one, and no word of what is new.
FlushedOnAck(p, log, base, acking) ==
    IF mode.sync /\ p \notin dead /\ acking
    THEN <<[kind |-> "envelope", from |-> p, base |-> base, log |-> log]>>
    ELSE <<>>

\* Slip: an acknowledgement repeats what is confirmed, not what is logged.
FlushedConfirmed(p, log, base, acking) ==
    IF mode.sync /\ p \notin dead /\ (Len(log) > base \/ acking)
    THEN <<[kind |-> "envelope", from |-> p, base |-> base,
            log |-> IF acking THEN SubSeq(log, 1, base) ELSE log]>>
    ELSE <<>>

\* flushSessionEnvelopeFor: the envelope for a log of which the first `base'
\* ops are confirmed, when there is something new or an acknowledgement owed.
Flushed(p, log, base, acking) ==
    IF mode.sync /\ p \notin dead /\ (Len(log) > base \/ acking)
    THEN <<[kind |-> "envelope", from |-> p, base |-> base, log |-> log]>>
    ELSE <<>>

AckAfter(p, acking) == acking /\ ~(mode.sync /\ p \notin dead)
-----------------------------------------------------------------------------
\* The initiator has sent its init and registered the chain.
Init ==
    /\ mode \in Modes
    /\ chain = [p \in Peer |-> IF p = Initiator THEN "open" ELSE "none"]
    /\ ops = [p \in Peer |-> <<>>]
    /\ tip = [p \in Peer |-> <<>>]
    /\ seen = [p \in Peer |-> {}]
    /\ confirmed = [p \in Peer |-> 0]
    /\ ack = [p \in Peer |-> FALSE]
    /\ job = [p \in Peer |-> Idle]
    /\ inbox = [p \in Peer |-> IF p = Responder \/ mode.echo
                               THEN <<[kind |-> "init"]>> ELSE <<>>]
    /\ errors = [p \in Peer |-> 0]
    /\ dead = {}
    /\ closed = FALSE

(***************************************************************************)
(* emitOutboundTurn and emitOutboundEndOffers up to the awaited write: the *)
(* frame is signed at the tip, applied, noted and logged, then written.  A *)
(* frame already in the dedupe set, and a turn the store refuses, leave    *)
(* everything as it was.                                                   *)
(***************************************************************************)
Emit(p, op) ==
    LET f == [parent |-> tip[p], op |-> op] IN
    /\ job[p] = Idle
    /\ chain[p] = "open" /\ Len(ops[p]) < MaxOps
    /\ f \notin seen[p]
    /\ seen' = [seen EXCEPT ![p] = @ \cup {f}]
    /\ ops' = [ops EXCEPT ![p] = Append(@, op)]
    /\ job' = [job EXCEPT ![p] = Sending(f)]
    /\ Write(p, <<FrameMessage(f)>>)
    /\ UNCHANGED <<mode, chain, tip, confirmed, ack, errors, dead, closed>>

SendTurn(p, body) == Emit(p, [type |-> "TURN", actor |-> p, body |-> body])

EndOffers(p) == Emit(p, [type |-> "END_OFFERS", actor |-> p, body |-> NoBody])

\* The write of a turn or END_OFFERS is done: the tip moves, an envelope goes.
Sent(p) ==
    /\ job[p].stage = "sending"
    /\ tip' = [tip EXCEPT ![p] = NextTip(job[p].frame)]
    /\ Write(p, Flushed(p, ops[p], confirmed[p], ack[p]))
    /\ ack' = [ack EXCEPT ![p] = AckAfter(p, @)]
    /\ job' = [job EXCEPT ![p] = Idle]
    /\ UNCHANGED <<mode, chain, ops, seen, confirmed, errors, dead, closed>>

\* A write on a closed channel may be reported as failed: sendTurn rejects.
WriteFailed(p) ==
    /\ closed /\ job[p] # Idle
    /\ job' = [job EXCEPT ![p] = Idle]
    /\ UNCHANGED <<mode, chain, ops, tip, seen, confirmed, ack, inbox, errors,
                   dead, closed>>

\* terminate: here the frame is written before it is noted and logged.
Terminate(p) ==
    LET f == [parent |-> tip[p],
              op |-> [type |-> "TERMINATE", actor |-> p, body |-> NoBody]] IN
    /\ job[p] = Idle
    /\ chain[p] = "open" /\ Len(ops[p]) < MaxOps
    /\ f \notin seen[p]
    /\ job' = [job EXCEPT ![p] = [stage |-> "terminating", frame |-> f]]
    /\ Write(p, <<FrameMessage(f)>>)
    /\ UNCHANGED <<mode, chain, ops, tip, seen, confirmed, ack, errors, dead,
                   closed>>

\* destroyChain, and the close that follows it where the host asked for one.
EndChain(p) ==
    /\ chain' = [chain EXCEPT ![p] = "ended"]
    /\ dead' = dead \cup ({p} \cap Closers)
    /\ closed' = (closed \/ p \in Closers)

Terminated(p) ==
    /\ job[p].stage = "terminating"
    /\ Write(p, Flushed(p, ops[p], confirmed[p], ack[p]))
    /\ ack' = [ack EXCEPT ![p] = AckAfter(p, @)]
    /\ seen' = [seen EXCEPT ![p] = @ \cup {job[p].frame}]
    /\ ops' = [ops EXCEPT ![p] = Append(@, job[p].frame.op)]
    /\ tip' = [tip EXCEPT ![p] = NextTip(job[p].frame)]
    /\ job' = [job EXCEPT ![p] = Idle]
    /\ EndChain(p)
    /\ UNCHANGED <<mode, confirmed, errors>>
-----------------------------------------------------------------------------
\* Slip: frames taken from the stream while a write is awaited (no mutex).
ReadsAnyTime(p, kind) ==
    /\ p \notin dead
    /\ inbox[p] # <<>> /\ Head(inbox[p]).kind = kind

\* The read loop hands p its next message: a frame or an envelope once the
\* frame mutex is free (enqueueMux), an init at once.
Reads(p, kind) ==
    /\ kind = "init" \/ job[p] = Idle
    /\ p \notin dead
    /\ inbox[p] # <<>> /\ Head(inbox[p]).kind = kind

NoError(p) == errors' = [errors EXCEPT ![p] = 0]

ReceiveInit(p) ==
    /\ Reads(p, "init")
    /\ chain[p] = "none"
    /\ chain' = [chain EXCEPT ![p] = "open"]
    /\ Consume(p, <<>>) /\ NoError(p)
    /\ UNCHANGED <<mode, ops, tip, seen, confirmed, ack, job, dead, closed>>

\* A frame is routed by the tip it extends; verifyInboundChild asks for the
\* same tip again.  Slip: any tip as far along.
ExtendsSomeTip(p, f) == Len(f.parent) = Len(tip[p])

Routed(p, f) == f.parent = tip[p]

Fresh(p, f) == chain[p] = "open" /\ f \notin seen[p]

\* Noting, logging and committing an inbound frame.
Accept(p, f) ==
    /\ seen' = [seen EXCEPT ![p] = @ \cup {f}]
    /\ ops' = [ops EXCEPT ![p] = Append(@, f.op)]
    /\ tip' = [tip EXCEPT ![p] = NextTip(f)]

\* handleInboundFrame for TURN without a reply, and for END_OFFERS.
ReceiveMove(p) ==
    LET f == Head(inbox[p]).frame IN
    /\ Reads(p, "frame") /\ Fresh(p, f) /\ Routed(p, f)
    /\ f.op.type # "TERMINATE"
    /\ Accept(p, f)
    /\ Consume(p, Flushed(p, ops'[p], confirmed[p], ack[p]))
    /\ ack' = [ack EXCEPT ![p] = AckAfter(p, @)]
    /\ NoError(p)
    /\ UNCHANGED <<mode, chain, confirmed, job, dead, closed>>

\* onIncomingOffer answers a TURN: the reply is emitted inside the same job.
ReceiveAndReply(p, body) ==
    LET f == Head(inbox[p]).frame
        reply == [parent |-> NextTip(f),
                  op |-> [type |-> "TURN", actor |-> p, body |-> body]] IN
    /\ Reads(p, "frame") /\ Fresh(p, f) /\ Routed(p, f)
    /\ f.op.type = "TURN"
    /\ Len(ops[p]) + 1 < MaxOps
    /\ seen' = [seen EXCEPT ![p] = @ \cup {f, reply}]
    /\ ops' = [ops EXCEPT ![p] = @ \o <<f.op, reply.op>>]
    /\ tip' = [tip EXCEPT ![p] = NextTip(f)]
    /\ job' = [job EXCEPT ![p] = Sending(reply)]
    /\ Consume(p, <<FrameMessage(reply)>>)
    /\ NoError(p)
    /\ UNCHANGED <<mode, chain, confirmed, ack, dead, closed>>

\* Slip: a TERMINATE is noted and logged, and the chain kept.
ReceiveTerminateNoted(p) ==
    LET f == Head(inbox[p]).frame IN
    /\ Reads(p, "frame") /\ Fresh(p, f) /\ Routed(p, f)
    /\ f.op.type = "TERMINATE"
    /\ seen' = [seen EXCEPT ![p] = @ \cup {f}]
    /\ ops' = [ops EXCEPT ![p] = Append(@, f.op)]
    /\ Consume(p, <<>>) /\ NoError(p)
    /\ UNCHANGED <<mode, chain, tip, confirmed, ack, job, dead, closed>>

\* TERMINATE is noted and logged; the tip stays, the chain goes.
ReceiveTerminate(p) ==
    LET f == Head(inbox[p]).frame IN
    /\ Reads(p, "frame") /\ Fresh(p, f) /\ Routed(p, f)
    /\ f.op.type = "TERMINATE"
    /\ seen' = [seen EXCEPT ![p] = @ \cup {f}]
    /\ ops' = [ops EXCEPT ![p] = Append(@, f.op)]
    /\ EndChain(p)
    /\ Consume(p, <<>>) /\ NoError(p)
    /\ UNCHANGED <<mode, tip, confirmed, ack, job>>

\* A frame in the dedupe set, as the echo of one's own, is passed over.
SkipFrame(p) ==
    /\ Reads(p, "frame")
    /\ chain[p] = "open" /\ Head(inbox[p]).frame \in seen[p]
    /\ Consume(p, <<>>) /\ NoError(p)
    /\ UNCHANGED <<mode, chain, ops, tip, seen, confirmed, ack, job, dead, closed>>
-----------------------------------------------------------------------------
Delta(e) == SubSeq(e.log, e.base + 1, Len(e.log))

\* Slip: the lengths compared, the operations and the root not.
EnvelopeLongEnough(p, e) ==
    /\ mode.sync /\ chain[p] = "open" /\ e.from # p
    /\ e.base <= Len(ops[p])
    /\ Len(e.log) <= Len(ops[p])

\* handleInboundSessionEnvelope: the base is not longer than the local log,
\* the local base with the delta has the claimed root (verifyExtends), and
\* the delta is what the local log has in its place.
EnvelopeAccepted(p, e) ==
    /\ mode.sync /\ chain[p] = "open" /\ e.from # p
    /\ e.base <= Len(ops[p])
    /\ SubSeq(ops[p], 1, e.base) \o Delta(e) = e.log
    /\ Len(e.log) <= Len(ops[p])
    /\ Delta(e) = SubSeq(ops[p], e.base + 1, Len(e.log))

ReceiveEnvelope(p) ==
    LET e == Head(inbox[p]) IN
    /\ Reads(p, "envelope") /\ EnvelopeAccepted(p, e)
    /\ confirmed' = [confirmed EXCEPT ![p] = Len(e.log)]
    /\ ack' = [ack EXCEPT ![p] = AckAfter(p, TRUE)]
    /\ Consume(p, Flushed(p, ops[p], Len(e.log), TRUE))
    /\ NoError(p)
    /\ UNCHANGED <<mode, chain, ops, tip, seen, job, dead, closed>>

SkipEnvelope(p) ==
    /\ Reads(p, "envelope")
    /\ mode.sync /\ chain[p] = "ended"
    /\ Consume(p, <<>>) /\ NoError(p)
    /\ UNCHANGED <<mode, chain, ops, tip, seen, confirmed, ack, job, dead, closed>>

(***************************************************************************)
(* A message that is not accepted is skipped and counted; too many in a    *)
(* row close the channel (runReadLoop).                                    *)
(***************************************************************************)
Unacceptable(p, m) ==
    CASE m.kind = "init" -> chain[p] # "none"
      [] m.kind = "frame" ->
           \/ chain[p] # "open"
           \/ Fresh(p, m.frame) /\ ~Routed(p, m.frame)
           \/ Fresh(p, m.frame) /\ m.frame.op.type = "TURN" /\ p \in Picky
      [] m.kind = "envelope" ->
           ~EnvelopeAccepted(p, m) /\ ~(mode.sync /\ chain[p] = "ended")

\* Slip: the count runs one too far before the channel is closed.
CountErrorLate(p) ==
    LET last == errors[p] + 1 > MaxErrors IN
    /\ errors' = [errors EXCEPT ![p] = IF last THEN @ ELSE @ + 1]
    /\ dead' = dead \cup (IF last THEN {p} ELSE {})
    /\ closed' = (closed \/ last)

CountError(p) ==
    LET last == errors[p] + 1 >= MaxErrors IN
    /\ errors' = [errors EXCEPT ![p] = IF last THEN @ ELSE @ + 1]
    /\ dead' = dead \cup (IF last THEN {p} ELSE {})
    /\ closed' = (closed \/ last)

Refuse(p) ==
    /\ inbox[p] # <<>> /\ Reads(p, Head(inbox[p]).kind)
    /\ Unacceptable(p, Head(inbox[p]))
    /\ Consume(p, <<>>) /\ CountError(p)
    /\ UNCHANGED <<mode, chain, ops, tip, seen, confirmed, ack, job>>

\* The turn was accepted and the store refused the reply to it.
RefuseReply(p) ==
    LET f == Head(inbox[p]).frame IN
    /\ Reads(p, "frame") /\ Fresh(p, f) /\ Routed(p, f)
    /\ f.op.type = "TURN" /\ p \in Picky
    /\ Accept(p, f)
    /\ Consume(p, <<>>) /\ CountError(p)
    /\ UNCHANGED <<mode, chain, confirmed, ack, job>>
-----------------------------------------------------------------------------
HostCall(p) ==
    \/ \E body \in Bodies : SendTurn(p, body)
    \/ EndOffers(p)
    \/ Terminate(p)

Finish(p) == Sent(p) \/ Terminated(p) \/ WriteFailed(p)

Receive(p) ==
    \/ ReceiveInit(p)
    \/ ReceiveMove(p)
    \/ \E body \in Bodies : ReceiveAndReply(p, body)
    \/ ReceiveTerminate(p)
    \/ SkipFrame(p)
    \/ ReceiveEnvelope(p)
    \/ SkipEnvelope(p)
    \/ Refuse(p)
    \/ RefuseReply(p)

Next == \E p \in Peer : HostCall(p) \/ Finish(p) \/ Receive(p)

\* Awaited writes settle and the read loop goes on; hosts owe nothing.
Spec ==
    Init /\ [][Next]_vars /\ \A p \in Peer : WF_vars(Finish(p)) /\ WF_vars(Receive(p))
-----------------------------------------------------------------------------
\* Every variable holds what its comment says.
TypeOK ==
    /\ mode \in Modes
    /\ chain \in [Peer -> {"none", "open", "ended"}]
    /\ ops \in [Peer -> Seq(Op)]
    /\ tip \in [Peer -> Seq(Op)]
    /\ seen \in [Peer -> SUBSET Frame]
    /\ confirmed \in [Peer -> Nat] /\ ack \in [Peer -> BOOLEAN]
    /\ job \in [Peer -> {Idle} \cup [stage : {"sending", "terminating"}, frame : Frame]]
    /\ inbox \in [Peer -> Seq(Message)]
    /\ errors \in [Peer -> 0 .. MaxErrors - 1]
    /\ dead \subseteq Peer /\ closed \in BOOLEAN
    /\ dead # {} => closed

\* Both logs hold the first n operations of p's.
Agree(p, n) ==
    /\ n <= Len(ops[Other(p)])
    /\ SubSeq(ops[p], 1, n) = SubSeq(ops[Other(p)], 1, n)

\* The log is what the tip commits to, but for one operation under way or last.
Intact(p) ==
    /\ Len(ops[p]) \in Len(tip[p]) .. Len(tip[p]) + 1
    /\ SubSeq(ops[p], 1, Len(tip[p])) = tip[p]

\* Strict ordering (verifyInboundChild, resolveChain), as the two replicas see
\* it: when a peer's log holds an operation of the other, the two logs are the
\* same up to and including it - whatever was sent at the same time, refused
\* by a store, or cut off by a close.  A TERMINATE may be read before its sender
\* has logged it; a write that fails at a close leaves its sender with an
\* operation in the log that its tip never took in (or the reverse).
AcceptedMeansAgreed ==
    \A p \in Peer : \A n \in DOMAIN ops[p] :
        ops[p][n].actor # p =>
            \/ Agree(p, n)
            \/ /\ ops[p][n].type = "TERMINATE" /\ Agree(p, n - 1)
               /\ job[Other(p)].stage = "terminating" \/ closed
            \/ closed /\ ~Intact(p)

\* Session sync (handleInboundSessionEnvelope): what a peer holds confirmed,
\* both peers have in their logs, operation for operation.
ConfirmedIsCommon ==
    \A p \in Peer :
        /\ confirmed[p] <= Len(ops[p])
        /\ Agree(p, confirmed[p])

\* What was confirmed stays confirmed (confirmedSeq = newSeq, without a
\* comparison): envelopes come in order and a peer's log never shrinks.
ConfirmedNeverShrinks == [][\A p \in Peer : confirmed'[p] >= confirmed[p]]_vars

\* The tip a peer signs at and routes by commits to exactly its log, except
\* when a write failed on a closed channel after the log had grown.
TipCommitsToLog ==
    \A p \in Peer : job[p] = Idle /\ chain[p] = "open" =>
        tip[p] = ops[p] \/ closed

\* A TERMINATE ends the log it is in: neither peer records anything after it,
\* though moves of the other peer may be on their way (destroyChain).
TerminateIsLast ==
    \A p \in Peer : \A n \in DOMAIN ops[p] :
        ops[p][n].type = "TERMINATE" => n = Len(ops[p])

\* Session sync makes progress: every logged operation gets confirmed, unless
\* a message was refused, or the chain or the channel ended.
Undisturbed == ~closed /\ \A q \in Peer : chain[q] # "ended" /\ errors[q] = 0

ConfirmedCatchesUp ==
    \A p \in Peer : \A n \in 1..MaxOps :
        (mode.sync /\ Len(ops[p]) >= n) ~> (confirmed[p] >= n \/ ~Undisturbed)

\* A TERMINATE reaches the other peer's chain (destroyChain): where no store
\* refuses a turn, the chain ends on both sides, unless the channel closed or
\* a move of the other peer crossed the TERMINATE, whose p_hash is then no
\* longer routed (resolveChain).
TerminateSettles ==
    \A p \in Peer :
        (Picky = {} /\ chain[p] = "ended")
            ~> \/ chain[Other(p)] = "ended"
               \/ closed
               \/ ~Agree(Other(p), Len(ops[Other(p)]))

\* docs/spec/session on verification: `the peer MUST verify base_checkpoint
\* equals its local agreed checkpoint' before it takes an envelope.
BaseIsAgreed ==
    \A p \in Peer :
        inbox[p] # <<>> /\ Reads(p, "envelope") /\ EnvelopeAccepted(p, Head(inbox[p]))
            => Head(inbox[p]).base = confirmed[p]
=============================================================================
