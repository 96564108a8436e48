----------------------------- MODULE SessionLog -----------------------------
(***************************************************************************)
(* packages/wire/src/session: replicas keep a log of session ops, commit   *)
(* to it by checkpoint and send one another envelopes with the ops past an *)
(* agreed prefix.  An envelope may be lost, late or repeated; a replica    *)
(* may have written ops of its own in the meantime.                        *)
(***************************************************************************)
EXTENDS Commitments

CONSTANTS
    Replicas,
    Frames,     \* frames a replica may record: [type, actor, body]
    MaxLog      \* bound: ops in a log

ASSUME LogAssumption == MaxLog \in Nat

VARIABLES
    log,        \* log[r]: the ops of r, in order
    envelope    \* the envelope on its way ({} or {e})

logVars == <<log, envelope>>

\* frameToSessionOps: a terminate op does not say who sent it.
FrameToSessionOp(frame) ==
    [kind |-> frame.type,
     payload |-> IF frame.type = "terminate" THEN <<frame.body>>
                 ELSE <<frame.actor, frame.body>>]

\* checkpointForSessionOps
Checkpoint(ops) == [seq |-> Len(ops), root |-> Root(ops)]

\* Slip: checkpoints are told apart by their roots.
RootsEqual(a, b) == a.root = b.root

CheckpointsEqual(a, b) == a.seq = b.seq /\ a.root = b.root

\* verifySessionEnvelope finds no error.
VerifySessionEnvelope(ops, e) ==
    /\ CheckpointsEqual(Checkpoint(ops), e.base)
    /\ CheckpointsEqual(Checkpoint(ops \o e.delta), e.new)

\* verifySessionOpsExtends, as the default sync adapter of the runtime calls it.
VerifySessionOpsExtends(base, delta, claimed) ==
    LET full == base \o delta IN
    /\ Len(full) = claimed.seq
    /\ Checkpoint(full).root = claimed.root

LogInit == log = [r \in Replicas |-> <<>>] /\ envelope = {}

\* accumulateTaggedSessionOps
Record(r) ==
    \E frame \in Frames :
        /\ Len(log[r]) < MaxLog
        /\ log' = [log EXCEPT ![r] = Append(@, FrameToSessionOp(frame))]
        /\ UNCHANGED envelope

\* r sends what follows any prefix it holds; `whole` is the log it means.
Propose(r) ==
    \E n \in 0 .. Len(log[r]) :
        LET base == SubSeq(log[r], 1, n) IN
        /\ envelope' = {[base |-> Checkpoint(base),
                         delta |-> SubSeq(log[r], n + 1, Len(log[r])),
                         new |-> Checkpoint(log[r]),
                         whole |-> log[r]]}
        /\ UNCHANGED log

Apply(r) ==
    \E e \in envelope :
        /\ VerifySessionEnvelope(log[r], e)
        /\ log' = [log EXCEPT ![r] = @ \o e.delta]
        /\ UNCHANGED envelope

LogNext == \E r \in Replicas : Record(r) \/ Propose(r) \/ Apply(r)

LogSpec == LogInit /\ [][LogNext]_logVars
-----------------------------------------------------------------------------
\* Two replicas at one checkpoint hold one log, and both verifiers accept an
\* envelope exactly where applying it gives the log its sender meant: late,
\* repeated or crossing envelopes are refused, and an odd level of the tree,
\* which gives different logs one root, misleads neither.
SessionLogsAgree ==
    /\ \A r, s \in Replicas :
            CheckpointsEqual(Checkpoint(log[r]), Checkpoint(log[s])) => log[r] = log[s]
    /\ \A r \in Replicas, e \in envelope :
            LET meant == log[r] \o e.delta = e.whole IN
            /\ VerifySessionEnvelope(log[r], e) <=> meant
            /\ VerifySessionOpsExtends(log[r], e.delta, e.new) <=> meant
=============================================================================
