------------------------- MODULE FrameChainProofs -------------------------
(***************************************************************************)
(* Proofs about FrameChain, for any bodies, any of the modes, any choice   *)
(* of closers and picky stores, any error limit and logs of any length:    *)
(* types and what each action needs, then that the two logs agree, and that *)
(* what envelopes confirm is common and stays so.                          *)
(***************************************************************************)
EXTENDS FrameChain, SequenceTheorems, TLAPS

-----------------------------------------------------------------------------
(* Types.                                                                  *)

\* What is written reaches the other peer's inbox, and one's own by a relay.
LEMMA WrittenType ==
    ASSUME NEW box \in [Peer -> Seq(Message)], NEW p \in Peer,
           NEW msgs \in Seq(Message)
    PROVE  Written(box, p, msgs) \in [Peer -> Seq(Message)]
  <1>1. Other(p) \in Peer
    BY DEF Other, Peer
  <1>2. \A a \in Seq(Message), b \in Seq(Message) : a \o b \in Seq(Message)
    OBVIOUS
  <1> DEFINE back == IF mode.echo THEN msgs ELSE <<>>
  <1>3. back \in Seq(Message)
    OBVIOUS
  <1>4. box[Other(p)] \o msgs \in Seq(Message) /\ box[p] \o back \in Seq(Message)
    BY <1>1, <1>2, <1>3
  <1>5. Written(box, p, msgs) = IF closed THEN box
             ELSE [box EXCEPT ![Other(p)] = box[Other(p)] \o msgs, ![p] = box[p] \o back]
    BY PeerAssumption DEF Written, Other, Peer
  <1> HIDE DEF back
  <1> QED
    BY <1>1, <1>4, <1>5

\* At most one envelope is flushed.
LEMMA FlushedType ==
    ASSUME NEW p \in Peer, NEW log \in Seq(Op), NEW base \in Nat,
           NEW acking \in BOOLEAN
    PROVE  Flushed(p, log, base, acking) \in Seq(Message)
  <1> DEFINE e == [kind |-> "envelope", from |-> p, base |-> base, log |-> log]
  <1>1. e \in Message
    BY DEF Message
  <1> HIDE DEF e
  <1>2. <<e>> \in Seq(Message)
    BY <1>1
  <1> QED
    BY <1>2 DEF Flushed, e

LEMMA MessageKinds ==
    ASSUME NEW m \in Message
    PROVE  /\ m.kind = "frame" => m.frame \in Frame
           /\ m.kind = "envelope" => m.base \in Nat /\ m.log \in Seq(Op)
  BY DEF Message

LEMMA FrameMessageType ==
    ASSUME NEW f \in Frame
    PROVE  <<FrameMessage(f)>> \in Seq(Message)
  <1>1. FrameMessage(f) \in Message
    BY DEF FrameMessage, Message
  <1> QED
    BY <1>1

LEMMA NextTipType ==
    ASSUME NEW f \in Frame
    PROVE  f.parent \in Seq(Op) /\ f.op \in Op /\ NextTip(f) \in Seq(Op)
  BY DEF Frame, NextTip

\* The message a peer reads next, and the inbox without it.
LEMMA HeadType ==
    ASSUME TypeOK, NEW p \in Peer, inbox[p] # <<>>
    PROVE  /\ Head(inbox[p]) \in Message
           /\ Tail(inbox[p]) \in Seq(Message)
           /\ [inbox EXCEPT ![p] = Tail(@)] \in [Peer -> Seq(Message)]
  <1>1. inbox[p] \in Seq(Message)
    BY DEF TypeOK
  <1>2. Head(inbox[p]) \in Message /\ Tail(inbox[p]) \in Seq(Message)
    BY <1>1
  <1> QED
    BY <1>2 DEF TypeOK

\* A read and the writes that answer it leave inboxes of messages.
LEMMA ConsumeType ==
    ASSUME TypeOK, NEW p \in Peer, inbox[p] # <<>>,
           NEW msgs \in Seq(Message), Consume(p, msgs)
    PROVE  inbox' \in [Peer -> Seq(Message)]
  BY HeadType, WrittenType DEF Consume

LEMMA WriteType ==
    ASSUME TypeOK, NEW p \in Peer, NEW msgs \in Seq(Message), Write(p, msgs)
    PROVE  inbox' \in [Peer -> Seq(Message)]
  BY WrittenType DEF Write, TypeOK

\* Noting frames leaves a set of frames.
LEMMA NotedType ==
    ASSUME TypeOK, NEW p \in Peer, NEW F \in SUBSET Frame,
           seen' = [seen EXCEPT ![p] = @ \cup F]
    PROVE  seen' \in [Peer -> SUBSET Frame]
  <1>1. seen \in [Peer -> SUBSET Frame]
    BY DEF TypeOK
  <1>2. seen[p] \cup F \in SUBSET Frame
    BY <1>1
  <1> QED
    BY <1>1, <1>2

\* Ending a chain and counting an error keep the types of what they change.
LEMMA EndChainType ==
    ASSUME TypeOK, NEW p \in Peer, EndChain(p)
    PROVE  /\ chain' \in [Peer -> {"none", "open", "ended"}]
           /\ dead' \subseteq Peer /\ closed' \in BOOLEAN
           /\ dead' # {} => closed'
  BY DEF TypeOK, EndChain

LEMMA CountErrorType ==
    ASSUME TypeOK, NEW p \in Peer, CountError(p)
    PROVE  /\ errors' \in [Peer -> 0 .. MaxErrors - 1]
           /\ dead' \subseteq Peer /\ closed' \in BOOLEAN
           /\ dead' # {} => closed'
  <1> DEFINE last == errors[p] + 1 >= MaxErrors
  <1>1. /\ errors' = [errors EXCEPT ![p] = IF last THEN @ ELSE @ + 1]
        /\ dead' = dead \cup (IF last THEN {p} ELSE {})
        /\ closed' = (closed \/ last)
    BY DEF CountError
  <1>2. errors' \in [Peer -> 0 .. MaxErrors - 1]
    BY <1>1, BoundAssumption DEF TypeOK
  <1> HIDE DEF last
  <1>3. dead' \subseteq Peer /\ closed' \in BOOLEAN
    BY <1>1 DEF TypeOK
  <1>4. dead' # {} => closed'
    BY <1>1 DEF TypeOK
  <1> QED
    BY <1>2, <1>3, <1>4

LEMMA NoErrorType ==
    ASSUME TypeOK, NEW p \in Peer, NoError(p)
    PROVE  errors' \in [Peer -> 0 .. MaxErrors - 1]
  BY BoundAssumption DEF TypeOK, NoError

LEMMA AckType ==
    ASSUME NEW p \in Peer, NEW acking \in BOOLEAN
    PROVE  AckAfter(p, acking) \in BOOLEAN
  BY DEF AckAfter

\* The frame a peer reads is one.
LEMMA ReadFrame ==
    ASSUME TypeOK, NEW p \in Peer, Reads(p, "frame")
    PROVE  /\ inbox[p] # <<>>
           /\ Head(inbox[p]).frame \in Frame
  BY HeadType, MessageKinds DEF Reads

\* Every step of a host keeps the types.
LEMMA HostTypes ==
    ASSUME TypeOK, NEW p \in Peer, HostCall(p)
    PROVE  TypeOK'
  <1>1. ASSUME NEW op \in Op, Emit(p, op)
        PROVE  TypeOK'
    <2> DEFINE f == [parent |-> tip[p], op |-> op]
    <2>1. f \in Frame
      BY DEF TypeOK, Frame
    <2>2. inbox' \in [Peer -> Seq(Message)]
      BY <1>1, <2>1, FrameMessageType, WriteType DEF Emit
    <2>3. ops' \in [Peer -> Seq(Op)]
      BY <1>1 DEF Emit, TypeOK
    <2> HIDE DEF f
    <2>4. Emit(p, op) => seen' = [seen EXCEPT ![p] = @ \cup {f}]
                         /\ job' = [job EXCEPT ![p] = Sending(f)]
      BY DEF Emit, f
    <2>5. seen' \in [Peer -> SUBSET Frame]
      <3>1. {f} \in SUBSET Frame
        BY <2>1
      <3> QED
        BY <1>1, <2>4, <3>1, NotedType
    <2>6. Sending(f) \in [stage : {"sending", "terminating"}, frame : Frame]
      BY <2>1 DEF Sending
    <2>7. job' \in [Peer -> {Idle} \cup [stage : {"sending", "terminating"}, frame : Frame]]
      BY <1>1, <2>4, <2>6 DEF TypeOK
    <2> QED
      BY <1>1, <2>2, <2>3, <2>5, <2>7 DEF Emit, TypeOK
  <1>2. ASSUME NEW body \in Bodies, SendTurn(p, body)
        PROVE  TypeOK'
    BY <1>1, <1>2 DEF SendTurn, Op
  <1>3. CASE EndOffers(p)
    BY <1>1, <1>3 DEF EndOffers, Op
  <1>4. CASE Terminate(p)
    <2> DEFINE op == [type |-> "TERMINATE", actor |-> p, body |-> NoBody]
               f == [parent |-> tip[p], op |-> op]
    <2>1. op \in Op
      BY DEF Op
    <2>2. f \in Frame
      BY <2>1 DEF TypeOK, Frame
    <2>3. inbox' \in [Peer -> Seq(Message)]
      BY <1>4, <2>2, FrameMessageType, WriteType DEF Terminate
    <2>4. [stage |-> "terminating", frame |-> f]
            \in [stage : {"sending", "terminating"}, frame : Frame]
      BY <2>2
    <2>5. job' \in [Peer -> {Idle} \cup [stage : {"sending", "terminating"}, frame : Frame]]
      BY <1>4, <2>4 DEF Terminate, TypeOK
    <2> QED
      BY <1>4, <2>3, <2>5 DEF Terminate, TypeOK
  <1> QED
    BY <1>2, <1>3, <1>4 DEF HostCall

\* So does the end of a write.
LEMMA FinishTypes ==
    ASSUME TypeOK, NEW p \in Peer, Finish(p)
    PROVE  TypeOK'
  <1>1. Flushed(p, ops[p], confirmed[p], ack[p]) \in Seq(Message)
    BY FlushedType DEF TypeOK
  <1>2. AckAfter(p, ack[p]) \in BOOLEAN
    BY AckType DEF TypeOK
  <1>3. ASSUME job[p].stage \in {"sending", "terminating"}
        PROVE  job[p].frame \in Frame
    BY <1>3 DEF TypeOK, Idle
  <1>4. CASE Sent(p)
    <2>1. NextTip(job[p].frame) \in Seq(Op)
      BY <1>3, <1>4, NextTipType DEF Sent
    <2>2. inbox' \in [Peer -> Seq(Message)]
      BY <1>1, <1>4, WriteType DEF Sent
    <2> QED
      BY <1>2, <1>4, <2>1, <2>2 DEF Sent, TypeOK
  <1>5. CASE Terminated(p)
    <2>1. job[p].frame \in Frame /\ job[p].frame.op \in Op
             /\ NextTip(job[p].frame) \in Seq(Op)
      BY <1>3, <1>5, NextTipType DEF Terminated
    <2>2. inbox' \in [Peer -> Seq(Message)]
      BY <1>1, <1>5, WriteType DEF Terminated
    <2>3. /\ ops' \in [Peer -> Seq(Op)] /\ tip' \in [Peer -> Seq(Op)]
          /\ seen' \in [Peer -> SUBSET Frame]
      BY <1>5, <2>1 DEF Terminated, TypeOK
    <2> QED
      BY <1>2, <1>5, <2>2, <2>3, EndChainType DEF Terminated, TypeOK
  <1>6. CASE WriteFailed(p)
    BY <1>6 DEF WriteFailed, TypeOK
  <1> QED
    BY <1>4, <1>5, <1>6 DEF Finish

\* So does what the read loop does with a frame that extends the tip.
LEMMA ReceiveFrameTypes ==
    ASSUME TypeOK, NEW p \in Peer,
           \/ ReceiveMove(p) \/ ReceiveTerminate(p) \/ RefuseReply(p)
           \/ \E body \in Bodies : ReceiveAndReply(p, body)
    PROVE  TypeOK'
  <1> DEFINE f == Head(inbox[p]).frame
  <1>1. Reads(p, "frame")
    BY DEF ReceiveMove, ReceiveTerminate, RefuseReply, ReceiveAndReply
  <1>2. inbox[p] # <<>> /\ f \in Frame
    BY <1>1, ReadFrame
  <1>3. f.op \in Op /\ NextTip(f) \in Seq(Op)
    BY <1>2, NextTipType
  <1>4. <<>> \in Seq(Message)
    OBVIOUS
  <1> HIDE DEF f
  <1>5. ASSUME Accept(p, f)
        PROVE  /\ ops' \in [Peer -> Seq(Op)] /\ tip' \in [Peer -> Seq(Op)]
               /\ seen' \in [Peer -> SUBSET Frame]
    <2>1. seen' \in [Peer -> SUBSET Frame]
      BY <1>2, <1>5, NotedType DEF Accept
    <2> QED
      BY <1>3, <1>5, <2>1 DEF Accept, TypeOK
  <1>6. CASE ReceiveMove(p)
    <2>1. Accept(p, f) /\ NoError(p)
      BY <1>6 DEF ReceiveMove, f
    <2>2. Flushed(p, ops'[p], confirmed[p], ack[p]) \in Seq(Message)
      BY <2>1, <1>5, FlushedType DEF TypeOK
    <2>3. inbox' \in [Peer -> Seq(Message)]
      BY <1>2, <1>6, <2>2, ConsumeType DEF ReceiveMove
    <2>4. AckAfter(p, ack[p]) \in BOOLEAN
      BY AckType DEF TypeOK
    <2> QED
      BY <1>5, <1>6, <2>1, <2>3, <2>4, NoErrorType DEF ReceiveMove, TypeOK
  <1>7. CASE ReceiveTerminate(p)
    <2>1. EndChain(p) /\ NoError(p)
      BY <1>7 DEF ReceiveTerminate
    <2>2. inbox' \in [Peer -> Seq(Message)]
      BY <1>2, <1>4, <1>7, ConsumeType DEF ReceiveTerminate
    <2>3. ops' \in [Peer -> Seq(Op)]
      BY <1>3, <1>7 DEF ReceiveTerminate, TypeOK, f
    <2>4. seen' \in [Peer -> SUBSET Frame]
      BY <1>2, <1>7, NotedType DEF ReceiveTerminate, f
    <2> QED
      BY <1>7, <2>1, <2>2, <2>3, <2>4, EndChainType, NoErrorType
         DEF ReceiveTerminate, TypeOK
  <1>8. CASE RefuseReply(p)
    <2>1. Accept(p, f) /\ CountError(p)
      BY <1>8 DEF RefuseReply, f
    <2>2. inbox' \in [Peer -> Seq(Message)]
      BY <1>2, <1>4, <1>8, ConsumeType DEF RefuseReply
    <2> QED
      BY <1>5, <1>8, <2>1, <2>2, CountErrorType DEF RefuseReply, TypeOK
  <1>9. ASSUME NEW body \in Bodies, ReceiveAndReply(p, body)
        PROVE  TypeOK'
    <2> DEFINE op == [type |-> "TURN", actor |-> p, body |-> body]
               reply == [parent |-> NextTip(f), op |-> op]
    <2>1. op \in Op
      BY DEF Op
    <2>2. reply \in Frame
      BY <1>3, <2>1 DEF Frame
    <2>3. /\ seen' = [seen EXCEPT ![p] = @ \cup {f, reply}]
          /\ ops' = [ops EXCEPT ![p] = @ \o <<f.op, op>>]
          /\ tip' = [tip EXCEPT ![p] = NextTip(f)]
          /\ job' = [job EXCEPT ![p] = Sending(reply)]
          /\ Consume(p, <<FrameMessage(reply)>>)
          /\ NoError(p)
      BY <1>9 DEF ReceiveAndReply, f
    <2> HIDE DEF op, reply
    <2>4. inbox' \in [Peer -> Seq(Message)]
      BY <1>2, <2>2, <2>3, FrameMessageType, ConsumeType
    <2>5. seen' \in [Peer -> SUBSET Frame]
      BY <1>2, <2>2, <2>3, NotedType
    <2>6. <<f.op, op>> \in Seq(Op)
      BY <1>3, <2>1
    <2>7. ops' \in [Peer -> Seq(Op)] /\ tip' \in [Peer -> Seq(Op)]
      BY <1>3, <2>3, <2>6 DEF TypeOK
    <2>8. Sending(reply) \in [stage : {"sending", "terminating"}, frame : Frame]
      BY <2>2 DEF Sending
    <2>9. job' \in [Peer -> {Idle} \cup [stage : {"sending", "terminating"}, frame : Frame]]
      BY <2>3, <2>8 DEF TypeOK
    <2> QED
      BY <1>9, <2>3, <2>4, <2>5, <2>7, <2>9, NoErrorType DEF ReceiveAndReply, TypeOK
  <1> QED
    BY <1>6, <1>7, <1>8, <1>9

\* And what it does with any other message.
LEMMA ReceiveOtherTypes ==
    ASSUME TypeOK, NEW p \in Peer,
           \/ ReceiveInit(p) \/ SkipFrame(p) \/ ReceiveEnvelope(p)
           \/ SkipEnvelope(p) \/ Refuse(p)
    PROVE  TypeOK'
  <1>1. inbox[p] # <<>>
    BY DEF ReceiveInit, SkipFrame, ReceiveEnvelope, SkipEnvelope, Refuse, Reads
  <1>2. ASSUME Consume(p, <<>>)
        PROVE  inbox' \in [Peer -> Seq(Message)]
    <2>1. <<>> \in Seq(Message)
      OBVIOUS
    <2> QED
      BY <1>1, <1>2, <2>1, ConsumeType
  <1>3. CASE ReceiveInit(p)
    BY <1>2, <1>3, NoErrorType DEF ReceiveInit, TypeOK
  <1>4. CASE SkipFrame(p)
    BY <1>2, <1>4, NoErrorType DEF SkipFrame, TypeOK
  <1>5. CASE SkipEnvelope(p)
    BY <1>2, <1>5, NoErrorType DEF SkipEnvelope, TypeOK
  <1>6. CASE Refuse(p)
    BY <1>2, <1>6, CountErrorType DEF Refuse, TypeOK
  <1>7. CASE ReceiveEnvelope(p)
    <2> DEFINE e == Head(inbox[p])
    <2>1. e \in Message /\ e.kind = "envelope"
      BY <1>1, <1>7, HeadType DEF ReceiveEnvelope, Reads
    <2>2. e.log \in Seq(Op)
      BY <2>1, MessageKinds
    <2>3. Len(e.log) \in Nat
      BY <2>2
    <2>4. Flushed(p, ops[p], Len(e.log), TRUE) \in Seq(Message)
      BY <2>3, FlushedType DEF TypeOK
    <2>5. inbox' \in [Peer -> Seq(Message)]
      BY <1>1, <1>7, <2>4, ConsumeType DEF ReceiveEnvelope
    <2>6. AckAfter(p, TRUE) \in BOOLEAN
      BY AckType
    <2> QED
      BY <1>7, <2>3, <2>5, <2>6, NoErrorType DEF ReceiveEnvelope, TypeOK
  <1> QED
    BY <1>3, <1>4, <1>5, <1>6, <1>7

\* Types hold in every reachable state.
LEMMA NextTypes ==
    ASSUME TypeOK, [Next]_vars
    PROVE  TypeOK'
  <1>1. ASSUME NEW p \in Peer, Receive(p)
        PROVE  TypeOK'
    BY <1>1, ReceiveFrameTypes, ReceiveOtherTypes DEF Receive
  <1>2. CASE UNCHANGED vars
    BY <1>2 DEF TypeOK, vars
  <1> QED
    BY <1>1, <1>2, HostTypes, FinishTypes DEF Next

LEMMA InitTypes ==
    ASSUME Init
    PROVE  TypeOK
  <1>1. [kind |-> "init"] \in Message
    BY DEF Message
  <1> DEFINE m == [kind |-> "init"]
             box(p) == IF p = Responder \/ mode.echo THEN <<m>> ELSE <<>>
  <1>2. inbox = [p \in Peer |-> box(p)]
    BY DEF Init
  <1>3. m \in Message
    BY <1>1
  <1> HIDE DEF m
  <1>4. \A p \in Peer : box(p) \in Seq(Message)
    BY <1>3
  <1> HIDE DEF box
  <1>5. inbox \in [Peer -> Seq(Message)]
    BY <1>2, <1>4
  <1>6. /\ mode \in Modes /\ dead = {} /\ closed = FALSE
        /\ chain \in [Peer -> {"none", "open", "ended"}]
        /\ ops \in [Peer -> Seq(Op)] /\ tip \in [Peer -> Seq(Op)]
    BY DEF Init
  <1>7. /\ seen \in [Peer -> SUBSET Frame]
        /\ confirmed \in [Peer -> Nat] /\ ack \in [Peer -> BOOLEAN]
    BY DEF Init
  <1>8. job \in [Peer -> {Idle} \cup [stage : {"sending", "terminating"}, frame : Frame]]
    BY DEF Init
  <1>9. errors \in [Peer -> 0 .. MaxErrors - 1]
    BY BoundAssumption DEF Init
  <1> QED
    BY <1>5, <1>6, <1>7, <1>8, <1>9 DEF TypeOK

\* Types (FrameChain!TypeOK): a peer never holds anything but frames, logs and
\* messages of the protocol, and a peer that gave up has closed the channel.
THEOREM ChainTypeCorrect == Spec => []TypeOK
  <1>1. Init => TypeOK
    BY InitTypes
  <1>2. TypeOK /\ [Next]_vars => TypeOK'
    BY NextTypes
  <1> QED
    BY <1>1, <1>2, PTL DEF Spec

-----------------------------------------------------------------------------
(* One peer's chain: what its tip commits to, and what ends its log.       *)

\* Where the log of an open chain stands: at the tip, or one ahead of it
\* while the write of the operation is awaited.
Reached(p) == IF job[p].stage = "sending" THEN NextTip(job[p].frame) ELSE tip[p]

ChainInv(p) ==
    /\ job[p] # Idle => chain[p] = "open"
    /\ chain[p] = "none" => ops[p] = <<>> /\ tip[p] = <<>>
    /\ chain[p] = "open" => ops[p] = Reached(p) \/ closed
    /\ \A n \in DOMAIN ops[p] :
        ops[p][n].type = "TERMINATE" => n = Len(ops[p]) /\ chain[p] = "ended"

IInv == TypeOK /\ \A p \in Peer : ChainInv(p)

\* A step of p changes p's chain, log, tip and job, and never opens the channel.
StepOf(p) ==
    /\ closed => closed'
    /\ \A q \in Peer \ {p} :
        /\ chain'[q] = chain[q] /\ ops'[q] = ops[q]
        /\ tip'[q] = tip[q] /\ job'[q] = job[q]

LEMMA OtherChainsStay ==
    ASSUME IInv, TypeOK', NEW p \in Peer, StepOf(p), ChainInv(p)'
    PROVE  IInv'
  <1>1. ASSUME NEW q \in Peer \ {p}
        PROVE  ChainInv(q)'
    BY <1>1 DEF IInv, StepOf, ChainInv, Reached, Idle
  <1> QED
    BY <1>1 DEF IInv

\* Appending to a log that holds no TERMINATE and is not to get one.
LEMMA AppendKeepsOpen ==
    ASSUME NEW log \in Seq(Op), NEW op \in Op,
           \A n \in DOMAIN log : log[n].type # "TERMINATE",
           NEW n \in DOMAIN Append(log, op), Append(log, op)[n].type = "TERMINATE"
    PROVE  n = Len(Append(log, op)) /\ op.type = "TERMINATE"
  OBVIOUS

\* While a chain is open its log holds no TERMINATE.
LEMMA OpenLogs ==
    ASSUME IInv, NEW p \in Peer, chain[p] # "ended"
    PROVE  \A n \in DOMAIN ops[p] : ops[p][n].type # "TERMINATE"
  BY DEF IInv, ChainInv

\* A host's call takes the log at most one operation past the tip.
LEMMA HostKeepsChain ==
    ASSUME IInv, NEW p \in Peer, HostCall(p)
    PROVE  StepOf(p) /\ ChainInv(p)'
  <1> USE DEF IInv
  <1>1. ASSUME NEW op \in Op, op.type # "TERMINATE", Emit(p, op)
        PROVE  StepOf(p) /\ ChainInv(p)'
    <2> DEFINE f == [parent |-> tip[p], op |-> op]
    <2>1. /\ ops'[p] = Append(ops[p], op) /\ job'[p] = Sending(f)
          /\ chain'[p] = "open" /\ closed' = closed
          /\ job[p] = Idle /\ chain[p] = "open"
      BY <1>1 DEF Emit, TypeOK
    <2>2. ops[p] = tip[p] \/ closed
      BY <2>1 DEF ChainInv, Reached, Idle
    <2>3. Reached(p)' = Append(tip[p], op)
      BY <2>1 DEF Reached, Sending, NextTip
    <2>4. \A n \in DOMAIN ops'[p] : ops'[p][n].type # "TERMINATE"
      <3>1. ops[p] \in Seq(Op)
        BY DEF TypeOK
      <3>2. \A n \in DOMAIN ops[p] : ops[p][n].type # "TERMINATE"
        BY <2>1, OpenLogs
      <3> DEFINE log == ops[p]
      <3>3. ops'[p] = Append(log, op)
        BY <2>1
      <3> HIDE DEF log
      <3>4. \A n \in DOMAIN Append(log, op) : Append(log, op)[n].type # "TERMINATE"
        BY <1>1, <3>1, <3>2, AppendKeepsOpen DEF log
      <3> QED
        BY <3>3, <3>4
    <2>5. StepOf(p)
      BY <1>1 DEF Emit, StepOf, TypeOK
    <2> QED
      BY <2>1, <2>2, <2>3, <2>4, <2>5 DEF ChainInv
  <1>2. ASSUME NEW body \in Bodies, SendTurn(p, body)
        PROVE  StepOf(p) /\ ChainInv(p)'
    BY <1>1, <1>2 DEF SendTurn, Op
  <1>3. CASE EndOffers(p)
    BY <1>1, <1>3 DEF EndOffers, Op
  <1>4. CASE Terminate(p)
    BY <1>4 DEF Terminate, StepOf, ChainInv, Reached, Idle, TypeOK
  <1> QED
    BY <1>2, <1>3, <1>4 DEF HostCall

\* When the write is done the tip catches up, or the chain ends, or the channel
\* is closed.
LEMMA FinishKeepsChain ==
    ASSUME IInv, NEW p \in Peer, Finish(p)
    PROVE  StepOf(p) /\ ChainInv(p)'
  <1> USE DEF IInv
  <1>1. CASE Sent(p)
    BY <1>1 DEF Sent, StepOf, ChainInv, Reached, Idle, TypeOK
  <1>2. CASE WriteFailed(p)
    BY <1>2 DEF WriteFailed, StepOf, ChainInv, Reached, Idle, TypeOK
  <1>3. CASE Terminated(p)
    <2>1. /\ ops'[p] = Append(ops[p], job[p].frame.op)
          /\ job'[p] = Idle /\ chain'[p] = "ended"
          /\ job[p].stage = "terminating"
      BY <1>3 DEF Terminated, EndChain, TypeOK
    <2>2. job[p] # Idle /\ chain[p] = "open"
      BY <2>1 DEF ChainInv, Idle
    <2>3. job[p].frame.op \in Op
      BY <2>1, <2>2, NextTipType DEF TypeOK
    <2>4. \A n \in DOMAIN ops'[p] :
            ops'[p][n].type = "TERMINATE" => n = Len(ops'[p])
      <3> DEFINE op == job[p].frame.op
      <3>1. ops[p] \in Seq(Op) /\ op \in Op
        BY <2>3 DEF TypeOK
      <3>2. \A n \in DOMAIN ops[p] : ops[p][n].type # "TERMINATE"
        BY <2>2, OpenLogs
      <3>3. ops'[p] = Append(ops[p], op)
        BY <2>1
      <3> HIDE DEF op
      <3> QED
        BY <3>1, <3>2, <3>3, AppendKeepsOpen
    <2>5. StepOf(p)
      BY <1>3 DEF Terminated, EndChain, StepOf, TypeOK
    <2> QED
      BY <2>1, <2>4, <2>5 DEF ChainInv
  <1> QED
    BY <1>1, <1>2, <1>3 DEF Finish

\* A frame is logged where the tip it was routed by is the log.
LEMMA ReceiveKeepsChain ==
    ASSUME IInv, NEW p \in Peer, Receive(p)
    PROVE  StepOf(p) /\ ChainInv(p)'
  <1> USE DEF IInv
  <1> DEFINE f == Head(inbox[p]).frame
             Extends == /\ job[p] = Idle /\ chain[p] = "open" /\ f.parent = tip[p]
                        /\ f \in Frame
  <1>1. ASSUME Reads(p, "frame"), Fresh(p, f), Routed(p, f)
        PROVE  Extends
    BY <1>1, ReadFrame DEF Reads, Fresh, Routed
  <1>2. ASSUME Extends
        PROVE  /\ f.op \in Op /\ (ops[p] = tip[p] \/ closed)
               /\ \A n \in DOMAIN ops[p] : ops[p][n].type # "TERMINATE"
    BY <1>2, NextTipType, OpenLogs DEF ChainInv, Reached, Idle
  <1>3. ASSUME Extends, Accept(p, f), f.op.type # "TERMINATE",
               UNCHANGED <<chain, job>>, closed => closed'
        PROVE  StepOf(p) /\ ChainInv(p)'
    <2>1. ops'[p] = Append(ops[p], f.op) /\ tip'[p] = Append(tip[p], f.op)
      BY <1>3 DEF Accept, NextTip, TypeOK
    <2>2. \A n \in DOMAIN ops'[p] : ops'[p][n].type # "TERMINATE"
      BY <1>2, <1>3, <2>1, AppendKeepsOpen DEF TypeOK
    <2>3. StepOf(p)
      BY <1>3 DEF Accept, StepOf, TypeOK
    <2>4. job'[p] = Idle /\ chain'[p] = "open" /\ Reached(p)' = tip'[p]
      BY <1>3 DEF Reached, Idle
    <2>5. ops'[p] = tip'[p] \/ closed'
      BY <1>2, <1>3, <2>1
    <2> HIDE DEF f
    <2> QED
      BY <2>2, <2>3, <2>4, <2>5 DEF ChainInv
  <1>4. CASE ReceiveMove(p)
    BY <1>1, <1>3, <1>4 DEF ReceiveMove
  <1>5. CASE RefuseReply(p)
    BY <1>1, <1>3, <1>5 DEF RefuseReply, CountError
  <1>6. CASE ReceiveTerminate(p)
    <2>1. Extends
      BY <1>1, <1>6 DEF ReceiveTerminate
    <2>2. /\ ops'[p] = Append(ops[p], f.op) /\ chain'[p] = "ended"
          /\ job'[p] = Idle
      BY <1>6, <2>1 DEF ReceiveTerminate, EndChain, TypeOK
    <2>3. \A n \in DOMAIN ops'[p] :
            ops'[p][n].type = "TERMINATE" => n = Len(ops'[p])
      BY <1>2, <2>1, <2>2, AppendKeepsOpen DEF TypeOK
    <2>4. StepOf(p)
      BY <1>6 DEF ReceiveTerminate, EndChain, StepOf, TypeOK
    <2> QED
      BY <2>2, <2>3, <2>4 DEF ChainInv
  <1>7. ASSUME NEW body \in Bodies, ReceiveAndReply(p, body)
        PROVE  StepOf(p) /\ ChainInv(p)'
    <2> DEFINE op == [type |-> "TURN", actor |-> p, body |-> body]
               reply == [parent |-> NextTip(f), op |-> op]
    <2>1. Extends /\ f.op.type = "TURN"
      BY <1>1, <1>7 DEF ReceiveAndReply
    <2>2. op \in Op /\ op.type = "TURN"
      BY DEF Op
    <2>3. /\ ops'[p] = ops[p] \o <<f.op, op>> /\ job'[p] = Sending(reply)
          /\ chain'[p] = "open" /\ closed' = closed
      BY <1>7, <2>1 DEF ReceiveAndReply, TypeOK
    <2> HIDE DEF f, op
    <2>4. ops'[p] = Append(Append(ops[p], f.op), op)
          /\ Append(ops[p], f.op) \in Seq(Op)
      BY <1>2, <2>1, <2>2, <2>3 DEF TypeOK
    <2>5. Reached(p)' = Append(Append(tip[p], f.op), op)
      BY <2>1, <2>3 DEF Reached, Sending, NextTip
    <2>6. \A n \in DOMAIN Append(ops[p], f.op) :
            Append(ops[p], f.op)[n].type # "TERMINATE"
      BY <1>2, <2>1, AppendKeepsOpen DEF TypeOK
    <2>7. \A n \in DOMAIN ops'[p] : ops'[p][n].type # "TERMINATE"
      BY <2>2, <2>4, <2>6, AppendKeepsOpen
    <2>8. StepOf(p)
      BY <1>7 DEF ReceiveAndReply, StepOf, TypeOK
    <2> QED
      BY <1>2, <2>1, <2>3, <2>4, <2>5, <2>7, <2>8 DEF ChainInv
  <1>8. CASE ReceiveInit(p)
    BY <1>8 DEF ReceiveInit, StepOf, ChainInv, Reached, Idle, TypeOK
  <1>9. CASE SkipFrame(p) \/ ReceiveEnvelope(p) \/ SkipEnvelope(p) \/ Refuse(p)
    BY <1>9 DEF SkipFrame, ReceiveEnvelope, SkipEnvelope, Refuse, CountError, StepOf,
                ChainInv, Reached, Idle, TypeOK
  <1> QED
    BY <1>4, <1>5, <1>6, <1>7, <1>8, <1>9 DEF Receive

LEMMA NextKeepsChains ==
    ASSUME IInv, [Next]_vars
    PROVE  IInv'
  <1>1. TypeOK'
    BY NextTypes DEF IInv
  <1>2. CASE UNCHANGED vars
    BY <1>1, <1>2 DEF IInv, ChainInv, Reached, Idle, vars
  <1>3. CASE Next
    BY <1>1, <1>3, HostKeepsChain, FinishKeepsChain, ReceiveKeepsChain, OtherChainsStay
       DEF Next
  <1> QED
    BY <1>2, <1>3

\* The inductive invariant of one chain.
THEOREM ChainInvariant == Spec => []IInv
  <1>1. Init => IInv
    <2>1. ASSUME Init, NEW p \in Peer
          PROVE  /\ ops[p] = <<>> /\ tip[p] = <<>> /\ job[p] = Idle
                 /\ DOMAIN ops[p] = {}
      BY <2>1 DEF Init
    <2>2. ASSUME Init, NEW p \in Peer
          PROVE  ChainInv(p)
      BY <2>1, <2>2 DEF ChainInv, Reached, Idle
    <2> QED
      BY <2>2, InitTypes DEF IInv
  <1>2. IInv /\ [Next]_vars => IInv'
    BY NextKeepsChains
  <1> QED
    BY <1>1, <1>2, PTL DEF Spec

\* The tip a peer signs at and routes by commits to exactly its log when no
\* write is awaited, unless one failed on a closed channel (emitOutboundTurn).
THEOREM TipsCommitToLogs == Spec => []TipCommitsToLog
  <1>1. IInv => TipCommitsToLog
    BY DEF IInv, ChainInv, Reached, Idle, TipCommitsToLog
  <1> QED
    BY <1>1, ChainInvariant, PTL

\* Nothing is logged after a TERMINATE, by either peer (destroyChain).
THEOREM NothingAfterTerminate == Spec => []TerminateIsLast
  <1>1. IInv => TerminateIsLast
    BY DEF IInv, ChainInv, TerminateIsLast
  <1> QED
    BY <1>1, ChainInvariant, PTL

-----------------------------------------------------------------------------
(* The logs agree.                                                         *)

\* s is the beginning of t.
Begins(s, t) == Len(s) <= Len(t) /\ \A i \in 1 .. Len(s) : s[i] = t[i]

\* Both logs hold the first n operations of p's (Agree, place by place).
Shared(p, n) ==
    n <= Len(ops[Other(p)]) /\ \A i \in 1 .. n : ops[p][i] = ops[Other(p)][i]

\* The log is the tip, or one operation ahead of it.
Follows(log, t) == Len(log) <= Len(t) + 1 /\ Begins(t, log)

Whole(p) == Follows(ops[p], tip[p])

\* A frame is from the actor's own log, or a TERMINATE it has yet to log.
Backed(f) ==
    LET a == f.op.actor IN
    \/ Begins(NextTip(f), ops[a])
    \/ /\ f.op.type = "TERMINATE" /\ Begins(f.parent, ops[a])
       /\ closed \/ (job[a].stage = "terminating" /\ job[a].frame = f)

EnvelopeBacked(e) == e.base <= Len(e.log) /\ Begins(e.log, ops[e.from])

InFlight(p) ==
    \A k \in DOMAIN inbox[p] :
        /\ inbox[p][k].kind = "frame" => Backed(inbox[p][k].frame)
        /\ inbox[p][k].kind = "envelope" => EnvelopeBacked(inbox[p][k])

FromOther(p, m) == m.kind = "envelope" /\ m.from # p

\* Envelopes come in the order of their logs, none older than is confirmed.
InOrder(p) ==
    \A k \in DOMAIN inbox[p] : FromOther(p, inbox[p][k]) =>
        /\ confirmed[p] <= Len(inbox[p][k].log)
        /\ \A l \in DOMAIN inbox[p] : k < l /\ FromOther(p, inbox[p][l])
                => Len(inbox[p][k].log) <= Len(inbox[p][l].log)

\* How a log and its tip may have parted: by an operation whose frame is noted,
\* so that no second frame takes the tip the same way.
Trunk(p) ==
    /\ Len(tip[p]) <= Len(ops[p])
    /\ job[p] # Idle => job[p].frame.parent = tip[p] /\ job[p].frame.op.actor = p
    /\ chain[p] = "open" /\ Begins(tip[p], ops[p]) /\ Len(tip[p]) < Len(ops[p]) =>
         [parent |-> tip[p], op |-> ops[p][Len(tip[p]) + 1]] \in seen[p]
    /\ job[p].stage = "sending" =>
         /\ Len(tip[p]) < Len(ops[p])
         /\ Begins(NextTip(job[p].frame), ops[p]) => Len(ops[p]) = Len(tip[p]) + 1

\* Where an operation of the other peer stands in p's log.
HeardAt(p, n) ==
    \/ Shared(p, n)
    \/ /\ ops[p][n].type = "TERMINATE" /\ Shared(p, n - 1)
       /\ \/ closed
          \/ /\ job[Other(p)].stage = "terminating"
             /\ n = Len(ops[Other(p)]) + 1
             /\ ops[p][n] = job[Other(p)].frame.op
    \/ closed /\ ~Whole(p)

Heard(p) == \A n \in DOMAIN ops[p] : ops[p][n].actor # p => HeardAt(p, n)

Common(p) == confirmed[p] <= Len(ops[p]) /\ Shared(p, confirmed[p])

AgreementInv ==
    /\ IInv
    /\ \A p \in Peer : Trunk(p) /\ InFlight(p) /\ InOrder(p) /\ Heard(p) /\ Common(p)

-----------------------------------------------------------------------------
(* Beginnings of logs.                                                     *)

LEMMA BeginsTransitive ==
    ASSUME NEW s \in Seq(Op), NEW t \in Seq(Op), NEW u \in Seq(Op),
           Begins(s, t), Begins(t, u)
    PROVE  Begins(s, u)
  BY DEF Begins

LEMMA BeginsAppend ==
    ASSUME NEW s \in Seq(Op), NEW x \in Op
    PROVE  Begins(s, s) /\ Begins(s, Append(s, x))
  BY DEF Begins

LEMMA BeginsConcat ==
    ASSUME NEW s \in Seq(Op), NEW x \in Op, NEW y \in Op
    PROVE  Begins(s, s \o <<x, y>>)
  BY DEF Begins

LEMMA TwoAppended ==
    ASSUME NEW s \in Seq(Op), NEW x \in Op, NEW y \in Op
    PROVE  /\ Append(s, x) \in Seq(Op) /\ s \o <<x, y>> \in Seq(Op)
           /\ s \o <<x, y>> = Append(Append(s, x), y)
  OBVIOUS

\* What two sequences begin with alike, longer ones begin with alike.
LEMMA BeginAlike ==
    ASSUME NEW s \in Seq(Op), NEW t \in Seq(Op),
           NEW s2 \in Seq(Op), NEW t2 \in Seq(Op), Begins(s, s2), Begins(t, t2),
           NEW n \in Int, n <= Len(s), n <= Len(t), \A i \in 1 .. n : s[i] = t[i]
    PROVE  n <= Len(s2) /\ n <= Len(t2) /\ \A i \in 1 .. n : s2[i] = t2[i]
  <1>1. n <= Len(s2) /\ n <= Len(t2)
    BY DEF Begins
  <1>2. ASSUME NEW i \in 1 .. n
        PROVE  s2[i] = t2[i]
    <2>1. i \in 1 .. Len(s) /\ i \in 1 .. Len(t)
      OBVIOUS
    <2> QED
      BY <2>1 DEF Begins
  <1> QED
    BY <1>1, <1>2

\* A log and its tip that have parted do not meet again: not by an operation
\* logged alone, ...
LEMMA PartedByLog ==
    ASSUME NEW t \in Seq(Op), NEW log \in Seq(Op), NEW y \in Op,
           Len(t) <= Len(log), ~Follows(log, t)
    PROVE  ~Follows(Append(log, y), t)
  BY DEF Begins, Follows

\* ... nor by one that both take, ...
LEMMA PartedByBoth ==
    ASSUME NEW t \in Seq(Op), NEW log \in Seq(Op), NEW x \in Op, NEW y \in Op,
           Len(t) <= Len(log), ~Follows(log, t)
    PROVE  ~Follows(Append(log, y), Append(t, x))
  <1>1. CASE Len(log) > Len(t) + 1
    BY <1>1 DEF Follows
  <1>2. CASE ~Begins(t, log)
    <2>1. PICK i \in 1 .. Len(t) : t[i] # log[i]
      BY <1>2 DEF Begins
    <2>2. Append(t, x)[i] # Append(log, y)[i] /\ i \in 1 .. Len(Append(t, x))
      BY <2>1
    <2> QED
      BY <2>2 DEF Follows, Begins
  <1> QED
    BY <1>1, <1>2 DEF Follows

\* ... nor by the tip catching up with another operation than the log's.
LEMMA PartedByTip ==
    ASSUME NEW t \in Seq(Op), NEW log \in Seq(Op), NEW x \in Op,
           Begins(Append(t, x), log) => Len(log) = Len(t) + 1,
           ~Follows(log, t)
    PROVE  ~Follows(log, Append(t, x))
  BY DEF Begins, Follows

\* A frame that is not noted takes the tip another way than the log went.
LEMMA NewFrameParts ==
    ASSUME NEW t \in Seq(Op), NEW log \in Seq(Op), NEW x \in Op, NEW S,
           Len(t) < Len(log),
           Begins(t, log) => [parent |-> t, op |-> log[Len(t) + 1]] \in S,
           [parent |-> t, op |-> x] \notin S
    PROVE  ~Begins(Append(t, x), log)
  <1>1. SUFFICES ASSUME Begins(Append(t, x), log)
                 PROVE  FALSE
    OBVIOUS
  <1>2. Begins(t, log) /\ log[Len(t) + 1] = x
    BY <1>1 DEF Begins
  <1> QED
    BY <1>2

LEMMA NotBegunStays ==
    ASSUME NEW s \in Seq(Op), NEW log \in Seq(Op), NEW u \in Seq(Op),
           Len(s) <= Len(log), ~Begins(s, log), Begins(log, u)
    PROVE  ~Begins(s, u)
  <1>1. PICK i \in 1 .. Len(s) : s[i] # log[i]
    BY DEF Begins
  <1> QED
    BY <1>1 DEF Begins

LEMMA AppendBegins ==
    ASSUME NEW t \in Seq(Op), NEW log \in Seq(Op), NEW x \in Op,
           Begins(Append(t, x), log)
    PROVE  Begins(t, log)
  BY DEF Begins

-----------------------------------------------------------------------------
(* What a step does.                                                       *)

StepBy(p) == HostCall(p) \/ Finish(p) \/ Receive(p)

\* Steps that touch neither logs nor tips nor jobs.
Quiet(p) ==
    \/ ReceiveInit(p) \/ SkipFrame(p) \/ ReceiveEnvelope(p)
    \/ SkipEnvelope(p) \/ Refuse(p)

\* A turn or END_OFFERS of the host.
Emits(p, f) ==
    /\ f \in Frame /\ f.op.actor = p /\ f.parent = tip[p] /\ f.op.type # "TERMINATE"
    /\ Emit(p, f.op)

LEMMA StepCases ==
    ASSUME TypeOK, NEW p \in Peer, StepBy(p)
    PROVE  \/ \E f \in Frame : Emits(p, f)
           \/ Terminate(p) \/ Sent(p) \/ Terminated(p) \/ WriteFailed(p)
           \/ ReceiveMove(p) \/ RefuseReply(p) \/ ReceiveTerminate(p)
           \/ \E body \in Bodies : ReceiveAndReply(p, body)
           \/ Quiet(p)
  <1>1. ASSUME NEW op \in Op, op.actor = p, op.type # "TERMINATE", Emit(p, op)
        PROVE  \E f \in Frame : Emits(p, f)
    <2> DEFINE f == [parent |-> tip[p], op |-> op]
    <2>1. f \in Frame
      BY DEF TypeOK, Frame
    <2> QED
      BY <1>1, <2>1 DEF Emits
  <1>2. ASSUME NEW body \in Bodies, SendTurn(p, body)
        PROVE  \E f \in Frame : Emits(p, f)
    BY <1>1, <1>2 DEF SendTurn, Op
  <1>3. ASSUME EndOffers(p)
        PROVE  \E f \in Frame : Emits(p, f)
    BY <1>1, <1>3 DEF EndOffers, Op
  <1> QED
    BY <1>2, <1>3 DEF StepBy, HostCall, Finish, Receive, Quiet

\* What an accepted frame is: the next one at the tip, and a new one.
Extends(p, f) ==
    /\ f \in Frame /\ f.op \in Op /\ f.parent = tip[p] /\ f \notin seen[p]
    /\ f = [parent |-> tip[p], op |-> f.op]
    /\ NextTip(f) = Append(tip[p], f.op)
    /\ job[p] = Idle /\ chain[p] = "open"
    /\ ops[p] = tip[p] \/ closed

LEMMA AcceptedExtends ==
    ASSUME IInv, NEW p \in Peer,
           Reads(p, "frame"), Fresh(p, Head(inbox[p]).frame),
           Routed(p, Head(inbox[p]).frame)
    PROVE  Extends(p, Head(inbox[p]).frame)
  <1> DEFINE f == Head(inbox[p]).frame
  <1>1. f \in Frame /\ f.parent = tip[p] /\ f \notin seen[p] /\ chain[p] = "open"
    BY ReadFrame DEF IInv, Fresh, Routed
  <1>2. job[p] = Idle
    BY DEF Reads
  <1> HIDE DEF f
  <1>3. f.op \in Op /\ f = [parent |-> f.parent, op |-> f.op]
    BY <1>1, NextTipType DEF Frame
  <1>4. ops[p] = tip[p] \/ closed
    BY <1>1, <1>2 DEF IInv, ChainInv, Reached, Idle
  <1>5. Extends(p, f)
    BY <1>1, <1>2, <1>3, <1>4 DEF Extends, NextTip
  <1> QED
    BY <1>5 DEF f

\* Each inbound frame that is logged is such a frame.
LEMMA ReceivedExtends ==
    ASSUME IInv, NEW p \in Peer,
           \/ ReceiveMove(p) \/ RefuseReply(p) \/ ReceiveTerminate(p)
           \/ \E body \in Bodies : ReceiveAndReply(p, body)
    PROVE  Extends(p, Head(inbox[p]).frame)
  BY AcceptedExtends DEF ReceiveMove, RefuseReply, ReceiveTerminate, ReceiveAndReply

LEMMA EmittedExtends ==
    ASSUME IInv, NEW p \in Peer, NEW f \in Frame,
           Emits(p, f)
    PROVE  /\ Extends(p, f)
           /\ ops'[p] = Append(ops[p], f.op) /\ tip'[p] = tip[p]
           /\ seen'[p] = seen[p] \cup {f} /\ job'[p] = Sending(f)
           /\ chain' = chain /\ closed' = closed
  <1>1. f.op \in Op /\ f = [parent |-> tip[p], op |-> f.op]
    BY NextTipType DEF Emits, Frame
  <1>2. job[p] = Idle /\ chain[p] = "open" /\ f \notin seen[p]
    BY <1>1 DEF Emits, Emit
  <1>3. ops[p] = tip[p] \/ closed
    BY <1>2 DEF IInv, ChainInv, Reached, Idle
  <1>4. Extends(p, f)
    BY <1>1, <1>2, <1>3 DEF Extends, Emits, NextTip
  <1>5. /\ ops' = [ops EXCEPT ![p] = Append(@, f.op)]
        /\ seen' = [seen EXCEPT ![p] = @ \cup {f}]
        /\ job' = [job EXCEPT ![p] = Sending(f)]
        /\ tip' = tip /\ chain' = chain /\ closed' = closed
    BY <1>1 DEF Emits, Emit
  <1> QED
    BY <1>4, <1>5 DEF IInv, TypeOK

\* What happens to a log, its tip and its job when a frame comes in ...
LEMMA ReceivedMoves ==
    ASSUME IInv, NEW p \in Peer, NEW f, f = Head(inbox[p]).frame,
           ReceiveMove(p) \/ RefuseReply(p)
    PROVE  /\ ops'[p] = Append(ops[p], f.op) /\ tip'[p] = Append(tip[p], f.op)
           /\ job'[p] = Idle /\ chain'[p] = "open"
  BY ReceivedExtends DEF IInv, TypeOK, ReceiveMove, RefuseReply, Accept, Extends

LEMMA ReceivedEnds ==
    ASSUME IInv, NEW p \in Peer, NEW f, f = Head(inbox[p]).frame,
           ReceiveTerminate(p)
    PROVE  /\ ops'[p] = Append(ops[p], f.op) /\ tip'[p] = tip[p]
           /\ job'[p] = Idle /\ chain'[p] = "ended"
  BY ReceivedExtends DEF IInv, TypeOK, ReceiveTerminate, EndChain, Extends

Reply(p, f, body) ==
    [parent |-> NextTip(f), op |-> [type |-> "TURN", actor |-> p, body |-> body]]

LEMMA ReceivedReplies ==
    ASSUME IInv, NEW p \in Peer, NEW f, f = Head(inbox[p]).frame, NEW body \in Bodies,
           NEW r, r = Reply(p, f, body),
           ReceiveAndReply(p, body)
    PROVE  /\ r \in Frame /\ r.op \in Op /\ r.op.actor = p
           /\ r.parent = Append(tip[p], f.op)
           /\ ops'[p] = ops[p] \o <<f.op, r.op>> /\ tip'[p] = Append(tip[p], f.op)
           /\ seen'[p] = seen[p] \cup {f, r} /\ job'[p] = Sending(r)
           /\ chain' = chain /\ closed' = closed
  <1>1. Extends(p, f)
    BY ReceivedExtends
  <1>2. r.op \in Op /\ r.op.actor = p
    BY DEF Reply, Op
  <1>3. r.parent = Append(tip[p], f.op) /\ r.parent \in Seq(Op)
    <2>1. r.parent = NextTip(f)
      BY DEF Reply
    <2>2. NextTip(f) = Append(tip[p], f.op) /\ f.op \in Op
      BY <1>1 DEF Extends
    <2>3. tip[p] \in Seq(Op)
      BY DEF IInv, TypeOK
    <2>4. Append(tip[p], f.op) \in Seq(Op)
      BY <2>2, <2>3, TwoAppended
    <2> QED
      BY <2>1, <2>2, <2>4
  <1>4. r \in Frame
    BY <1>2, <1>3 DEF Reply, Frame
  <1>5. /\ ops' = [ops EXCEPT ![p] = @ \o <<f.op, r.op>>]
        /\ tip' = [tip EXCEPT ![p] = NextTip(f)]
        /\ seen' = [seen EXCEPT ![p] = @ \cup {f, r}]
        /\ job' = [job EXCEPT ![p] = Sending(r)]
        /\ chain' = chain /\ closed' = closed
    BY DEF ReceiveAndReply, Reply
  <1>6. NextTip(f) = Append(tip[p], f.op)
    BY <1>1 DEF Extends
  <1> QED
    BY <1>2, <1>3, <1>4, <1>5, <1>6 DEF IInv, TypeOK

\* ... when a write is done ...
LEMMA WriteDone ==
    ASSUME IInv, NEW p \in Peer, Sent(p) \/ Terminated(p)
    PROVE  /\ job[p].frame \in Frame /\ job[p].frame.op \in Op
           /\ job[p].frame.parent \in Seq(Op) /\ job[p] # Idle
           /\ tip'[p] = NextTip(job[p].frame) /\ job'[p] = Idle
           /\ Sent(p) => /\ ops' = ops /\ job[p].stage = "sending"
                         /\ seen' = seen /\ closed' = closed
           /\ Terminated(p) => /\ ops'[p] = Append(ops[p], job[p].frame.op)
                               /\ chain'[p] = "ended"
                               /\ job[p].stage = "terminating"
  <1>1. job[p].stage \in {"sending", "terminating"}
    BY DEF Sent, Terminated
  <1>2. job[p].frame \in Frame /\ job[p] # Idle
    BY <1>1 DEF IInv, TypeOK, Idle
  <1>3. job[p].frame.op \in Op /\ job[p].frame.parent \in Seq(Op)
    BY <1>2, NextTipType
  <1> QED
    BY <1>2, <1>3 DEF IInv, TypeOK, Sent, Terminated, EndChain

\* ... and otherwise.
LEMMA QuietMoves ==
    ASSUME IInv, NEW p \in Peer, Quiet(p) \/ WriteFailed(p) \/ Terminate(p)
    PROVE  /\ ops' = ops /\ tip' = tip /\ seen' = seen
           /\ Quiet(p) => job' = job
           /\ Quiet(p) => chain'[p] = chain[p] \/ (chain[p] = "none" /\ chain'[p] = "open")
           /\ WriteFailed(p) => closed' /\ job'[p] = Idle /\ chain' = chain
  BY DEF IInv, TypeOK, Quiet, ReceiveInit, SkipFrame, ReceiveEnvelope, SkipEnvelope,
         Refuse, WriteFailed, Terminate

\* A peer's steps leave the other's part of the state alone.
LEMMA OthersStay ==
    ASSUME IInv, NEW p \in Peer, StepBy(p)
    PROVE  /\ closed => closed'
           /\ \A q \in Peer \ {p} :
                /\ chain'[q] = chain[q] /\ ops'[q] = ops[q] /\ tip'[q] = tip[q]
                /\ job'[q] = job[q] /\ seen'[q] = seen[q]
                /\ confirmed'[q] = confirmed[q]
  <1>1. StepOf(p)
    BY HostKeepsChain, FinishKeepsChain, ReceiveKeepsChain DEF StepBy
  <1>2. \A q \in Peer \ {p} : seen'[q] = seen[q] /\ confirmed'[q] = confirmed[q]
    <2>1. CASE HostCall(p)
      BY <2>1 DEF IInv, TypeOK, HostCall, SendTurn, EndOffers, Emit, Terminate
    <2>2. CASE Finish(p)
      BY <2>2 DEF IInv, TypeOK, Finish, Sent, Terminated, WriteFailed
    <2>3. CASE Receive(p)
      BY <2>3 DEF IInv, TypeOK, Receive, ReceiveInit, ReceiveMove, ReceiveAndReply,
                  ReceiveTerminate, SkipFrame, ReceiveEnvelope, SkipEnvelope, Refuse,
                  RefuseReply, Accept
    <2> QED
      BY <2>1, <2>2, <2>3 DEF StepBy
  <1> QED
    BY <1>1, <1>2 DEF StepOf

\* Logs only grow.
LEMMA LogsGrow ==
    ASSUME IInv, NEW p \in Peer, StepBy(p), NEW q \in Peer
    PROVE  Begins(ops[q], ops'[q])
  <1>1. ops[q] \in Seq(Op)
    BY DEF IInv, TypeOK
  <1>2. CASE ops'[q] = ops[q]
    BY <1>1, <1>2 DEF Begins
  <1>3. ASSUME ops'[q] # ops[q]
        PROVE  q = p
    BY <1>3, OthersStay
  <1>4. CASE q = p
    <2>1. ASSUME NEW f \in Frame, Emits(p, f)
          PROVE  Begins(ops[p], ops'[p])
      <3>1. f.op \in Op /\ ops'[p] = Append(ops[p], f.op)
        BY <2>1, EmittedExtends DEF Extends
      <3> QED
        BY <1>1, <1>4, <3>1, BeginsAppend
    <2>2. CASE ReceiveMove(p) \/ RefuseReply(p) \/ ReceiveTerminate(p)
      <3> DEFINE x == Head(inbox[p]).frame.op
      <3>1. x \in Op
        BY <2>2, ReceivedExtends DEF Extends
      <3>2. ops'[p] = Append(ops[p], x)
        BY <2>2, ReceivedMoves, ReceivedEnds
      <3> HIDE DEF x
      <3> QED
        BY <1>1, <1>4, <3>1, <3>2, BeginsAppend
    <2>4. ASSUME NEW body \in Bodies, ReceiveAndReply(p, body)
          PROVE  Begins(ops[p], ops'[p])
      <3> DEFINE f == Head(inbox[p]).frame
                 r == Reply(p, f, body)
      <3>1. f.op \in Op
        BY <2>4, ReceivedExtends DEF Extends
      <3>2. r.op \in Op /\ ops'[p] = ops[p] \o <<f.op, r.op>>
        BY <2>4, ReceivedReplies
      <3> HIDE DEF f, r
      <3> QED
        BY <1>1, <1>4, <3>1, <3>2, BeginsConcat
    <2>5. CASE Sent(p) \/ Terminated(p)
      BY <1>1, <1>2, <1>4, <2>5, WriteDone, BeginsAppend
    <2>6. CASE Terminate(p) \/ WriteFailed(p) \/ Quiet(p)
      BY <1>2, <2>6, QuietMoves
    <2> QED
      BY <1>4, <2>1, <2>2, <2>4, <2>5, <2>6, StepCases DEF IInv
  <1> QED
    BY <1>2, <1>3, <1>4

-----------------------------------------------------------------------------
(* Trunks.                                                                 *)

\* A new frame at the tip of an open chain, seen from the trunk.
LEMMA ExtendsParts ==
    ASSUME IInv, NEW p \in Peer, Trunk(p), NEW f, Extends(p, f),
           Len(tip[p]) # Len(ops[p])
    PROVE  ~Begins(Append(tip[p], f.op), ops[p])
  <1>1. tip[p] \in Seq(Op) /\ ops[p] \in Seq(Op) /\ f.op \in Op
    BY DEF IInv, TypeOK, Extends
  <1>2. Len(tip[p]) < Len(ops[p])
    BY <1>1 DEF Trunk
  <1>3. Begins(tip[p], ops[p])
          => [parent |-> tip[p], op |-> ops[p][Len(tip[p]) + 1]] \in seen[p]
    BY <1>2 DEF Trunk, Extends
  <1>4. [parent |-> tip[p], op |-> f.op] \notin seen[p]
    BY DEF Extends
  <1> QED
    BY <1>1, <1>2, <1>3, <1>4, NewFrameParts

LEMMA TrunkKeeps ==
    ASSUME IInv, IInv', NEW p \in Peer, Trunk(p), StepBy(p)
    PROVE  Trunk(p)'
  <1>1. /\ tip[p] \in Seq(Op) /\ ops[p] \in Seq(Op)
        /\ Len(tip[p]) \in Nat /\ Len(ops[p]) \in Nat /\ Len(tip[p]) <= Len(ops[p])
    BY DEF IInv, TypeOK, Trunk
  <1>2. tip'[p] \in Seq(Op) /\ ops'[p] \in Seq(Op)
    BY DEF IInv, TypeOK
  <1>3. ASSUME NEW f \in Frame, Emits(p, f)
        PROVE  Trunk(p)'
    <2> DEFINE t == tip[p]
               log == ops[p]
               x == f.op
    <2>1. /\ Extends(p, f)
          /\ ops'[p] = Append(log, x) /\ tip'[p] = t /\ x \in Op
          /\ seen'[p] = seen[p] \cup {f} /\ job'[p] = Sending(f)
      BY <1>3, EmittedExtends DEF Extends
    <2>2. f.parent = t /\ x = f.op /\ f.op.actor = p
          /\ f = [parent |-> t, op |-> x] /\ NextTip(f) = Append(t, x)
      BY <1>3, <2>1 DEF Extends, Emits
    <2>3. Len(t) # Len(log) => ~Begins(Append(t, x), log)
      BY <2>1, ExtendsParts
    <2>4. Begins(t, log) /\ Len(t) < Len(log)
            => [parent |-> t, op |-> log[Len(t) + 1]] \in seen[p]
      BY <2>1 DEF Trunk, Extends
    <2> HIDE DEF t, log, x
    <2>5. t \in Seq(Op) /\ log \in Seq(Op) /\ Len(t) <= Len(log)
      BY <1>1 DEF t, log
    <2>6. ASSUME Begins(t, Append(log, x)), Len(t) < Len(Append(log, x))
          PROVE  [parent |-> t, op |-> Append(log, x)[Len(t) + 1]] \in seen'[p]
      <3>1. CASE Len(t) = Len(log)
        BY <2>1, <2>2, <2>5, <3>1
      <3>2. CASE Len(t) < Len(log)
        <4>1. Begins(t, log) /\ Append(log, x)[Len(t) + 1] = log[Len(t) + 1]
          BY <2>1, <2>5, <2>6, <3>2 DEF Begins
        <4> QED
          BY <2>1, <2>4, <3>2, <4>1
      <3> QED
        BY <2>5, <3>1, <3>2
    <2>7. ASSUME Begins(Append(t, x), Append(log, x))
          PROVE  Len(Append(log, x)) = Len(t) + 1
      <3>1. CASE Len(t) = Len(log)
        BY <2>1, <2>5, <3>1
      <3>2. CASE Len(t) < Len(log)
        BY <2>1, <2>3, <2>5, <2>7, <3>2 DEF Begins
      <3> QED
        BY <2>5, <3>1, <3>2
    <2>8. job'[p].frame = f /\ job'[p].stage = "sending"
      BY <2>1 DEF Sending
    <2>9. Len(tip'[p]) < Len(ops'[p]) /\ Len(tip'[p]) <= Len(ops'[p])
      BY <2>1, <2>5
    <2>10. job'[p].frame.parent = tip'[p] /\ job'[p].frame.op.actor = p
      BY <2>1, <2>2, <2>8
    <2>11. Begins(tip'[p], ops'[p]) /\ Len(tip'[p]) < Len(ops'[p])
             => [parent |-> tip'[p], op |-> ops'[p][Len(tip'[p]) + 1]] \in seen'[p]
      BY <2>1, <2>6
    <2>12. Begins(NextTip(job'[p].frame), ops'[p]) => Len(ops'[p]) = Len(tip'[p]) + 1
      BY <2>1, <2>2, <2>7, <2>8
    <2> QED
      BY <2>8, <2>9, <2>10, <2>11, <2>12 DEF Trunk
  <1>4. CASE ReceiveMove(p) \/ RefuseReply(p)
    <2> DEFINE f == Head(inbox[p]).frame
               x == f.op
    <2>1. Extends(p, f)
      BY <1>4, ReceivedExtends
    <2>2. /\ ops'[p] = Append(ops[p], x) /\ tip'[p] = Append(tip[p], x)
          /\ job'[p] = Idle /\ x \in Op
      BY <1>4, <2>1, ReceivedMoves DEF Extends
    <2>3. Len(tip[p]) # Len(ops[p]) => ~Begins(Append(tip[p], x), ops[p])
      BY <2>1, ExtendsParts
    <2> HIDE DEF x
    <2>4. Begins(tip'[p], ops'[p]) => Len(tip'[p]) = Len(ops'[p])
      BY <1>1, <2>2, <2>3 DEF Begins
    <2>5. Len(tip'[p]) <= Len(ops'[p])
      BY <1>1, <2>2
    <2> QED
      BY <1>2, <2>2, <2>4, <2>5 DEF Trunk, Idle
  <1>5. CASE ReceiveTerminate(p)
    <2> DEFINE x == Head(inbox[p]).frame.op
    <2>1. /\ ops'[p] = Append(ops[p], x) /\ tip'[p] = tip[p]
          /\ job'[p] = Idle /\ chain'[p] = "ended" /\ x \in Op
      BY <1>5, ReceivedEnds, ReceivedExtends DEF Extends
    <2> HIDE DEF x
    <2>2. Len(tip'[p]) <= Len(ops'[p])
      BY <1>1, <2>1
    <2> QED
      BY <2>1, <2>2 DEF Trunk, Idle
  <1>6. ASSUME NEW body \in Bodies, ReceiveAndReply(p, body)
        PROVE  Trunk(p)'
    <2> DEFINE f == Head(inbox[p]).frame
               x == f.op
               r == Reply(p, f, body)
    <2>1. Extends(p, f) /\ x \in Op
      BY <1>6, ReceivedExtends DEF Extends
    <2>2. /\ r \in Frame /\ r.op \in Op /\ r.op.actor = p
          /\ r.parent = Append(tip[p], x)
          /\ ops'[p] = ops[p] \o <<x, r.op>> /\ tip'[p] = Append(tip[p], x)
          /\ seen'[p] = seen[p] \cup {f, r} /\ job'[p] = Sending(r)
      BY <1>6, ReceivedReplies
    <2>3. Len(tip[p]) # Len(ops[p]) => ~Begins(Append(tip[p], x), ops[p])
      BY <2>1, ExtendsParts
    <2>4. r = [parent |-> r.parent, op |-> r.op]
      BY DEF Reply
    <2>5. NextTip(r) = Append(r.parent, r.op)
      BY DEF NextTip
    <2> HIDE DEF x, r
    <2>6. Begins(tip'[p], ops'[p]) => Len(tip[p]) = Len(ops[p])
      BY <1>1, <2>1, <2>2, <2>3 DEF Begins
    <2>7. ops'[p] = Append(Append(ops[p], x), r.op)
      <3>1. ops[p] \in Seq(Op) /\ ops'[p] = ops[p] \o <<x, r.op>>
        BY <1>1, <2>2
      <3> QED
        BY <2>1, <2>2, <3>1, TwoAppended
    <2>8. Len(tip'[p]) = Len(tip[p]) + 1 /\ Len(ops'[p]) = Len(ops[p]) + 2
      BY <1>1, <2>1, <2>2
    <2>9. ASSUME Begins(tip'[p], ops'[p])
          PROVE  [parent |-> tip'[p], op |-> ops'[p][Len(tip'[p]) + 1]] \in seen'[p]
      <3>1. ops'[p][Len(tip'[p]) + 1] = r.op
        <4> DEFINE log == Append(ops[p], x)
        <4>1. log \in Seq(Op) /\ Len(log) = Len(ops[p]) + 1
          BY <1>1, <2>1
        <4>2. Len(tip'[p]) + 1 = Len(log) + 1 /\ ops'[p] = Append(log, r.op)
          BY <2>6, <2>7, <2>8, <2>9, <4>1
        <4> HIDE DEF log
        <4> QED
          <5>1. Append(log, r.op)[Len(log) + 1] = r.op
            BY <2>2, <4>1
          <5> QED
            BY <4>2, <5>1
      <3> QED
        BY <2>2, <2>4, <3>1
    <2>10. ASSUME Begins(NextTip(r), ops'[p])
           PROVE  Len(ops'[p]) = Len(tip'[p]) + 1
      <3>1. Begins(tip'[p], ops'[p])
        <4>1. NextTip(r) = Append(tip'[p], r.op)
          BY <2>2, <2>5
        <4>2. Begins(Append(tip'[p], r.op), ops'[p])
          BY <2>10, <4>1
        <4> QED
          BY <1>2, <2>2, <4>2, AppendBegins
      <3>2. Len(tip[p]) = Len(ops[p]) /\ Len(ops[p]) \in Nat
        BY <1>1, <2>6, <3>1, LenProperties
      <3> QED
        BY <2>8, <3>2
    <2>11. job'[p].frame = r /\ job'[p].stage = "sending"
      BY <2>2 DEF Sending
    <2>12. Len(tip'[p]) < Len(ops'[p]) /\ Len(tip'[p]) <= Len(ops'[p])
      BY <1>1, <2>8
    <2>13. job'[p].frame.parent = tip'[p] /\ job'[p].frame.op.actor = p
      BY <2>2, <2>11
    <2> QED
      BY <2>9, <2>10, <2>11, <2>12, <2>13 DEF Trunk
  <1>7. CASE Sent(p)
    <2> DEFINE f == job[p].frame
    <2>1. /\ f.parent = tip[p] /\ f.op \in Op /\ job'[p] = Idle
          /\ tip'[p] = Append(tip[p], f.op) /\ ops'[p] = ops[p]
          /\ Len(tip[p]) < Len(ops[p])
          /\ Begins(NextTip(f), ops[p]) => Len(ops[p]) = Len(tip[p]) + 1
          /\ NextTip(f) = Append(tip[p], f.op)
      BY <1>7, WriteDone DEF Trunk, NextTip
    <2> HIDE DEF f
    <2>2. Len(tip'[p]) = Len(tip[p]) + 1
      BY <1>1, <2>1
    <2>3. Begins(tip'[p], ops'[p]) => Len(tip'[p]) = Len(ops'[p])
      BY <1>1, <2>1, <2>2
    <2> QED
      BY <1>1, <2>1, <2>2, <2>3 DEF Trunk, Idle
  <1>8. CASE Terminated(p)
    <2>1. /\ tip'[p] = Append(tip[p], job[p].frame.op)
          /\ ops'[p] = Append(ops[p], job[p].frame.op) /\ job[p].frame.op \in Op
          /\ job'[p] = Idle /\ chain'[p] = "ended"
      BY <1>8, WriteDone DEF Trunk, NextTip
    <2>2. Len(tip'[p]) <= Len(ops'[p])
      BY <1>1, <2>1
    <2> QED
      BY <2>1, <2>2 DEF Trunk, Idle
  <1>9. CASE WriteFailed(p)
    BY <1>9, QuietMoves DEF Trunk, Idle
  <1>10. CASE Quiet(p)
    <2>1. /\ ops' = ops /\ tip' = tip /\ seen' = seen /\ job' = job
          /\ chain'[p] = chain[p] \/ (ops[p] = <<>> /\ tip[p] = <<>>)
      BY <1>10, QuietMoves DEF IInv, ChainInv
    <2> QED
      BY <2>1 DEF Trunk
  <1>11. CASE Terminate(p)
    <2>1. /\ ops' = ops /\ tip' = tip /\ seen' = seen /\ chain' = chain
          /\ job'[p].stage = "terminating"
          /\ job'[p].frame.parent = tip[p] /\ job'[p].frame.op.actor = p
      BY <1>11 DEF Terminate, IInv, TypeOK
    <2> QED
      BY <2>1 DEF Trunk
  <1> QED
    BY <1>3, <1>4, <1>5, <1>6, <1>7, <1>8, <1>9, <1>10, <1>11, StepCases DEF IInv

\* A log that has parted from its tip never follows it again.
LEMMA WholeNeverAgain ==
    ASSUME IInv, NEW p \in Peer, Trunk(p), StepBy(p), ~Whole(p)
    PROVE  ~Whole(p)'
  <1>1. tip[p] \in Seq(Op) /\ ops[p] \in Seq(Op) /\ Len(tip[p]) <= Len(ops[p])
    BY DEF IInv, TypeOK, Trunk
  <1>2. ~Follows(ops[p], tip[p])
    BY DEF Whole
  <1>3. SUFFICES ~Follows(ops'[p], tip'[p])
    BY DEF Whole
  <1>4. ASSUME NEW f \in Frame, Emits(p, f)
        PROVE  ~Follows(ops'[p], tip'[p])
    <2>1. ops'[p] = Append(ops[p], f.op) /\ tip'[p] = tip[p] /\ f.op \in Op
      BY <1>4, EmittedExtends DEF Extends
    <2> QED
      BY <1>1, <1>2, <2>1, PartedByLog
  <1>5. CASE ReceiveMove(p) \/ RefuseReply(p)
    <2> DEFINE x == Head(inbox[p]).frame.op
    <2>1. ops'[p] = Append(ops[p], x) /\ tip'[p] = Append(tip[p], x) /\ x \in Op
      BY <1>5, ReceivedMoves, ReceivedExtends DEF Extends
    <2> QED
      BY <1>1, <1>2, <2>1, PartedByBoth
  <1>6. CASE ReceiveTerminate(p)
    <2> DEFINE x == Head(inbox[p]).frame.op
    <2>1. ops'[p] = Append(ops[p], x) /\ tip'[p] = tip[p] /\ x \in Op
      BY <1>6, ReceivedEnds, ReceivedExtends DEF Extends
    <2> QED
      BY <1>1, <1>2, <2>1, PartedByLog
  <1>7. ASSUME NEW body \in Bodies, ReceiveAndReply(p, body)
        PROVE  ~Follows(ops'[p], tip'[p])
    <2> DEFINE f == Head(inbox[p]).frame
               x == f.op
               y == Reply(p, f, body).op
    <2>1. x \in Op
      BY <1>7, ReceivedExtends DEF Extends
    <2>2. /\ ops'[p] = ops[p] \o <<x, y>> /\ tip'[p] = Append(tip[p], x) /\ y \in Op
      BY <1>7, ReceivedReplies
    <2> HIDE DEF x, y
    <2>3. ops'[p] = Append(Append(ops[p], x), y)
      <3>1. ops[p] \in Seq(Op)
        BY <1>1
      <3>2. ops[p] \o <<x, y>> = Append(Append(ops[p], x), y)
        BY <2>1, <2>2, <3>1, TwoAppended
      <3> QED
        BY <2>2, <3>2
    <2>4. ~Follows(Append(ops[p], x), Append(tip[p], x))
      BY <1>1, <1>2, <2>1, PartedByBoth
    <2>5. /\ Append(ops[p], x) \in Seq(Op) /\ Append(tip[p], x) \in Seq(Op)
          /\ Len(Append(tip[p], x)) <= Len(Append(ops[p], x))
      BY <1>1, <2>1
    <2> QED
      BY <2>2, <2>3, <2>4, <2>5, PartedByLog
  <1>8. CASE Sent(p)
    <2>1. /\ job[p].frame.parent = tip[p] /\ job[p].frame.op \in Op
          /\ tip'[p] = Append(tip[p], job[p].frame.op) /\ ops'[p] = ops[p]
          /\ Begins(Append(tip[p], job[p].frame.op), ops[p])
               => Len(ops[p]) = Len(tip[p]) + 1
      BY <1>8, WriteDone DEF Trunk, NextTip
    <2> QED
      BY <1>1, <1>2, <2>1, PartedByTip
  <1>9. CASE Terminated(p)
    <2>1. /\ tip'[p] = Append(tip[p], job[p].frame.op)
          /\ ops'[p] = Append(ops[p], job[p].frame.op) /\ job[p].frame.op \in Op
      BY <1>9, WriteDone DEF Trunk, NextTip
    <2> QED
      BY <1>1, <1>2, <2>1, PartedByBoth
  <1>10. CASE Terminate(p) \/ WriteFailed(p) \/ Quiet(p)
    BY <1>2, <1>10, QuietMoves
  <1> QED
    BY <1>4, <1>5, <1>6, <1>7, <1>8, <1>9, <1>10, StepCases DEF IInv

-----------------------------------------------------------------------------
(* Messages on their way.                                                  *)

\* What becomes of a TERMINATE whose write is awaited.
LEMMA TerminateFate ==
    ASSUME IInv, NEW p \in Peer, StepBy(p),
           NEW a \in Peer, job[a].stage = "terminating"
    PROVE  \/ job'[a] = job[a] /\ ops'[a] = ops[a]
           \/ closed'
           \/ Terminated(a)
  <1>1. job[a] # Idle
    BY DEF Idle
  <1>2. CASE a # p
    BY <1>2, OthersStay
  <1>3. CASE a = p
    <2>1. ASSUME NEW f, Extends(p, f)
          PROVE  FALSE
      BY <1>1, <1>3, <2>1 DEF Extends
    <2>2. ~\E f \in Frame : Emits(p, f)
      BY <2>1, EmittedExtends
    <2>3. ~(\/ ReceiveMove(p) \/ RefuseReply(p) \/ ReceiveTerminate(p)
            \/ \E body \in Bodies : ReceiveAndReply(p, body))
      BY <2>1, ReceivedExtends
    <2>4. ~Terminate(p) /\ ~Sent(p)
      BY <1>1, <1>3 DEF Terminate, Sent
    <2>5. WriteFailed(p) => closed'
      BY QuietMoves
    <2>6. Quiet(p) => job' = job /\ ops' = ops
      BY QuietMoves
    <2> QED
      BY <1>3, <2>2, <2>3, <2>4, <2>5, <2>6, StepCases DEF IInv
  <1> QED
    BY <1>2, <1>3

\* A frame in flight stays backed by its actor's log.
LEMMA BackedStays ==
    ASSUME IInv, IInv', \A q \in Peer : Trunk(q), NEW p \in Peer, StepBy(p),
           NEW f \in Frame, Backed(f)
    PROVE  Backed(f)'
  <1> DEFINE a == f.op.actor
  <1>1. f.parent \in Seq(Op) /\ f.op \in Op /\ NextTip(f) \in Seq(Op)
    BY NextTipType
  <1>2. a \in Peer
    BY <1>1 DEF Op
  <1>3. ops[a] \in Seq(Op) /\ ops'[a] \in Seq(Op) /\ Begins(ops[a], ops'[a])
    BY <1>2, LogsGrow DEF IInv, TypeOK
  <1>4. CASE Begins(NextTip(f), ops[a])
    BY <1>1, <1>3, <1>4, BeginsTransitive DEF Backed, NextTip
  <1>5. CASE /\ f.op.type = "TERMINATE" /\ Begins(f.parent, ops[a])
             /\ closed \/ (job[a].stage = "terminating" /\ job[a].frame = f)
    <2>1. Begins(f.parent, ops'[a])
      BY <1>1, <1>3, <1>5, BeginsTransitive
    <2>2. CASE closed'
      BY <1>5, <2>1, <2>2 DEF Backed
    <2>3. CASE ~closed' /\ job'[a] = job[a]
      BY <1>5, <2>1, <2>3, OthersStay DEF Backed
    <2>4. CASE ~closed' /\ Terminated(a)
      <3>1. ~closed /\ job[a].stage = "terminating" /\ job[a].frame = f
        BY <1>5, <2>4, OthersStay
      <3>2. job[a] # Idle /\ ops'[a] = Append(ops[a], f.op)
        BY <1>2, <2>4, <3>1, WriteDone
      <3>3. ops[a] = tip[a]
        BY <1>2, <3>1, <3>2 DEF IInv, ChainInv, Reached
      <3>4. f.parent = tip[a]
        BY <1>2, <3>1, <3>2 DEF Trunk
      <3>5. ops'[a] = NextTip(f)
        BY <3>2, <3>3, <3>4 DEF NextTip
      <3>6. Begins(NextTip(f), ops'[a])
        BY <1>1, <1>3, <3>5, BeginsAppend
      <3> QED
        BY <3>6 DEF Backed, NextTip
    <2> QED
      BY <1>2, <1>5, <2>2, <2>3, <2>4, TerminateFate, OthersStay
  <1> QED
    BY <1>4, <1>5 DEF Backed

LEMMA EnvelopeBackedStays ==
    ASSUME IInv, IInv', NEW p \in Peer, StepBy(p),
           NEW e \in Message, e.kind = "envelope", EnvelopeBacked(e)
    PROVE  EnvelopeBacked(e)'
  <1>1. e.log \in Seq(Op) /\ e.from \in Peer
    BY DEF Message
  <1>2. ops[e.from] \in Seq(Op) /\ ops'[e.from] \in Seq(Op)
    BY <1>1 DEF IInv, TypeOK
  <1> QED
    BY <1>1, <1>2, LogsGrow, BeginsTransitive DEF EnvelopeBacked

\* The inboxes when p has taken its next message, or not.
Box(p, read) == IF read THEN [inbox EXCEPT ![p] = Tail(@)] ELSE inbox

\* In a step p takes a message or not, and writes msgs.
Posts(p, read, msgs) ==
    /\ read => inbox[p] # <<>>
    /\ inbox' = Written(Box(p, read), p, msgs) \/ (~read /\ inbox' = inbox)

\* At most one message is appended.
LEMMA AppendedAt ==
    ASSUME NEW s \in Seq(Message), NEW t \in Seq(Message), Len(t) \in {0, 1},
           NEW i \in DOMAIN (s \o t)
    PROVE  \/ i \in DOMAIN s /\ (s \o t)[i] = s[i]
           \/ i = Len(s) + 1 /\ Len(t) = 1 /\ (s \o t)[i] = t[1]
  <1>1. s \o t \in Seq(Message) /\ Len(s \o t) = Len(s) + Len(t)
    BY ConcatProperties
  <1>2. DOMAIN (s \o t) = 1 .. Len(s) + Len(t)
    BY <1>1, LenProperties
  <1>3. Len(s) \in Nat /\ DOMAIN s = 1 .. Len(s)
    BY LenProperties
  <1>4. \A k \in 1 .. Len(s) + Len(t) :
          (s \o t)[k] = IF k <= Len(s) THEN s[k] ELSE t[k - Len(s)]
    BY ConcatProperties
  <1>5. i \in 1 .. Len(s) + Len(t)
    BY <1>2
  <1>6. CASE i <= Len(s)
    BY <1>3, <1>4, <1>5, <1>6
  <1>7. CASE i > Len(s)
    BY <1>3, <1>4, <1>5, <1>7
  <1> QED
    BY <1>3, <1>5, <1>6, <1>7

LEMMA WrittenAt ==
    ASSUME NEW box \in [Peer -> Seq(Message)], NEW p \in Peer,
           NEW msgs \in Seq(Message), Len(msgs) \in {0, 1},
           NEW r \in Peer, NEW k \in DOMAIN Written(box, p, msgs)[r]
    PROVE  \/ k \in DOMAIN box[r] /\ Written(box, p, msgs)[r][k] = box[r][k]
           \/ /\ ~closed /\ k = Len(box[r]) + 1 /\ Len(msgs) = 1
              /\ Written(box, p, msgs)[r][k] = msgs[1]
  <1>1. box[r] \in Seq(Message)
    OBVIOUS
  <1>2. ASSUME NEW i \in DOMAIN (box[r] \o msgs)
        PROVE  \/ i \in DOMAIN box[r] /\ (box[r] \o msgs)[i] = box[r][i]
               \/ /\ i = Len(box[r]) + 1 /\ Len(msgs) = 1
                  /\ (box[r] \o msgs)[i] = msgs[1]
    BY <1>1, <1>2, AppendedAt
  <1>3. box[r] \o <<>> = box[r]
    BY <1>1
  <1>4. \/ Written(box, p, msgs)[r] = box[r]
        \/ ~closed /\ Written(box, p, msgs)[r] = box[r] \o msgs
    BY <1>3, PeerAssumption DEF Written, Other, Peer
  <1> QED
    BY <1>1, <1>2, <1>4

\* How far a message has come forward.
Taken(p, read, r) == IF read /\ r = p THEN 1 ELSE 0

LEMMA Delivered ==
    ASSUME TypeOK, NEW p \in Peer, NEW read \in BOOLEAN, NEW msgs \in Seq(Message),
           Len(msgs) \in {0, 1}, Posts(p, read, msgs),
           NEW r \in Peer, NEW k \in DOMAIN inbox'[r]
    PROVE  \/ /\ k + Taken(p, read, r) \in DOMAIN inbox[r]
              /\ inbox'[r][k] = inbox[r][k + Taken(p, read, r)]
           \/ /\ ~closed /\ k = Len(inbox[r]) + 1 - Taken(p, read, r)
              /\ Len(msgs) = 1 /\ inbox'[r][k] = msgs[1]
  <1> DEFINE d == Taken(p, read, r)
             box == Box(p, read)
  <1>1. inbox[r] \in Seq(Message)
    BY DEF TypeOK
  <1>2. box \in [Peer -> Seq(Message)]
    BY HeadType DEF Box, TypeOK, Posts
  <1>3. \/ d = 0 /\ box[r] = inbox[r]
        \/ d = 1 /\ box[r] = Tail(inbox[r]) /\ inbox[r] # <<>>
    BY DEF Box, Posts, TypeOK, Taken
  <1>4. /\ Len(box[r]) = Len(inbox[r]) - d
        /\ \A i \in DOMAIN box[r] :
             i + d \in DOMAIN inbox[r] /\ box[r][i] = inbox[r][i + d]
    <2>1. DOMAIN inbox[r] = 1 .. Len(inbox[r]) /\ Len(inbox[r]) \in Nat
      BY <1>1, LenProperties
    <2>2. DOMAIN box[r] = 1 .. Len(box[r])
      BY <1>2, LenProperties
    <2> HIDE DEF d, box
    <2>3. CASE d = 0
      BY <1>3, <2>1, <2>3
    <2>4. CASE d = 1
      <3>1. box[r] = Tail(inbox[r]) /\ inbox[r] # <<>>
        BY <1>3, <2>4
      <3>2. /\ Len(box[r]) = Len(inbox[r]) - 1
            /\ \A i \in 1 .. Len(box[r]) : box[r][i] = inbox[r][i + 1]
        BY <1>1, <3>1, HeadTailProperties
      <3> QED
        BY <2>1, <2>2, <2>4, <3>2
    <2> QED
      BY <1>3, <2>3, <2>4
  <1>5. CASE ~read /\ inbox' = inbox
    <2>1. d = 0
      BY <1>5 DEF Taken
    <2>2. k + 0 = k
      BY <1>1, <1>5
    <2> HIDE DEF d
    <2>3. k + d \in DOMAIN inbox[r] /\ inbox'[r][k] = inbox[r][k + d]
      BY <1>5, <2>1, <2>2
    <2> QED
      BY <2>3 DEF d
  <1>6. CASE inbox' = Written(box, p, msgs)
    <2> HIDE DEF box
    <2>1. \/ k \in DOMAIN box[r] /\ inbox'[r][k] = box[r][k]
          \/ /\ ~closed /\ k = Len(box[r]) + 1 /\ Len(msgs) = 1
             /\ inbox'[r][k] = msgs[1]
      BY <1>2, <1>6, WrittenAt
    <2>2. Len(inbox[r]) \in Nat /\ d \in {0, 1}
      BY <1>1 DEF Taken
    <2> HIDE DEF d
    <2>3. \/ k + d \in DOMAIN inbox[r] /\ inbox'[r][k] = inbox[r][k + d]
          \/ /\ ~closed /\ k = Len(inbox[r]) + 1 - d /\ Len(msgs) = 1
             /\ inbox'[r][k] = msgs[1]
      BY <1>4, <2>1, <2>2
    <2> QED
      BY <2>3 DEF d
  <1> QED
    BY <1>5, <1>6 DEF Posts

\* What p writes: frames its log backs, and envelopes no older than its log.
Says(p, m) ==
    /\ m.kind = "frame" => Backed(m.frame)'
    /\ m.kind = "envelope" =>
         /\ m.from = p /\ m.base <= Len(m.log)
         /\ Len(ops[p]) <= Len(m.log) /\ Begins(m.log, ops'[p])

SaysAll(p, msgs) ==
    /\ Len(msgs) \in {0, 1}
    /\ ~closed => \A i \in DOMAIN msgs : Says(p, msgs[i])

LEMMA NothingSaid ==
    ASSUME NEW p \in Peer
    PROVE  <<>> \in Seq(Message) /\ SaysAll(p, <<>>)
  BY DEF SaysAll

LEMMA FrameSaid ==
    ASSUME NEW p \in Peer, NEW f \in Frame, ~closed => Backed(f)'
    PROVE  <<FrameMessage(f)>> \in Seq(Message) /\ SaysAll(p, <<FrameMessage(f)>>)
  <1>1. FrameMessage(f).kind = "frame" /\ FrameMessage(f).frame = f
    BY DEF FrameMessage
  <1>2. ~closed => Says(p, FrameMessage(f))
    BY <1>1 DEF Says
  <1> HIDE DEF FrameMessage
  <1>3. SaysAll(p, <<FrameMessage(f)>>)
    BY <1>2 DEF SaysAll
  <1> QED
    BY <1>3, FrameMessageType

LEMMA FlushSaid ==
    ASSUME NEW p \in Peer, NEW log \in Seq(Op), NEW base \in Nat,
           NEW acking \in BOOLEAN,
           base <= Len(log), Len(ops[p]) <= Len(log), Begins(log, ops'[p])
    PROVE  \E msgs \in Seq(Message) :
             msgs = Flushed(p, log, base, acking) /\ SaysAll(p, msgs)
  <1> DEFINE e == [kind |-> "envelope", from |-> p, base |-> base, log |-> log]
  <1>1. Says(p, e)
    BY DEF Says
  <1>2. Flushed(p, log, base, acking) \in {<<>>, <<e>>}
    BY DEF Flushed
  <1> HIDE DEF e
  <1>3. SaysAll(p, <<>>) /\ SaysAll(p, <<e>>)
    BY <1>1 DEF SaysAll
  <1>4. Flushed(p, log, base, acking) \in Seq(Message)
    BY FlushedType
  <1> QED
    BY <1>2, <1>3, <1>4

\* A step of p takes at most its next message and says at most one thing.
SaysOne(p) ==
    \E read \in BOOLEAN, msgs \in Seq(Message) :
        /\ Posts(p, read, msgs) /\ SaysAll(p, msgs)
        /\ ReceiveEnvelope(p) => read
        /\ ~ReceiveEnvelope(p) => confirmed' = confirmed

LEMMA StepSays ==
    ASSUME IInv, IInv', NEW p \in Peer, Trunk(p), Common(p), StepBy(p)
    PROVE  SaysOne(p)
  <1>1. /\ ops[p] \in Seq(Op) /\ ops'[p] \in Seq(Op) /\ tip[p] \in Seq(Op)
        /\ confirmed[p] \in Nat /\ ack[p] \in BOOLEAN
        /\ confirmed[p] <= Len(ops[p]) /\ Begins(ops[p], ops'[p])
    BY LogsGrow DEF IInv, TypeOK, Common
  <1>2. ASSUME NEW msgs \in Seq(Message), Write(p, msgs), SaysAll(p, msgs),
               confirmed' = confirmed, job' # job
        PROVE  SaysOne(p)
    <2>1. Posts(p, FALSE, msgs)
      BY <1>2 DEF Posts, Box, Write
    <2>2. ~ReceiveEnvelope(p)
      BY <1>2 DEF ReceiveEnvelope
    <2> QED
      BY <1>2, <2>1, <2>2 DEF SaysOne
  <1>3. ASSUME NEW msgs \in Seq(Message), inbox[p] # <<>>, Consume(p, msgs),
               SaysAll(p, msgs),
               ReceiveEnvelope(p) \/ confirmed' = confirmed
        PROVE  SaysOne(p)
    <2>1. Posts(p, TRUE, msgs)
      BY <1>3 DEF Posts, Box, Consume
    <2> QED
      BY <1>3, <2>1 DEF SaysOne
  <1>4. ASSUME NEW f \in Frame, Emits(p, f)
        PROVE  SaysOne(p)
    <2>1. Extends(p, f) /\ ops'[p] = Append(ops[p], f.op) /\ f.op.actor = p
          /\ job'[p] = Sending(f) /\ job[p] = Idle
      BY <1>4, EmittedExtends DEF Extends, Emits
    <2>2. ASSUME ~closed
          PROVE  Backed(f)'
      <3>1. NextTip(f) = ops'[p]
        BY <2>1, <2>2 DEF Extends
      <3>2. Begins(NextTip(f), ops'[p])
        BY <1>1, <3>1 DEF Begins
      <3> QED
        BY <2>1, <3>2 DEF Backed, NextTip
    <2>3. f = [parent |-> tip[p], op |-> f.op]
      BY <2>1 DEF Extends
    <2>4. Write(p, <<FrameMessage(f)>>) /\ confirmed' = confirmed
      BY <1>4, <2>3 DEF Emits, Emit
    <2>5. job' # job
      BY <2>1 DEF Idle, Sending
    <2> QED
      BY <1>2, <2>2, <2>4, <2>5, FrameSaid
  <1>5. CASE Terminate(p)
    <2> PICK f \in Frame :
               f = [parent |-> tip[p],
                    op |-> [type |-> "TERMINATE", actor |-> p, body |-> NoBody]]
      BY <1>1 DEF Frame, Op
    <2>1. f.parent = tip[p] /\ f.op.actor = p /\ f.op.type = "TERMINATE"
      OBVIOUS
    <2>2. /\ Write(p, <<FrameMessage(f)>>) /\ confirmed' = confirmed
          /\ job'[p] = [stage |-> "terminating", frame |-> f]
          /\ job[p] = Idle /\ chain[p] = "open" /\ ops' = ops
      BY <1>5 DEF Terminate, IInv, TypeOK
    <2>3. ASSUME ~closed
          PROVE  Backed(f)'
      <3>1. ops[p] = tip[p]
        BY <2>2, <2>3 DEF IInv, ChainInv, Reached, Idle
      <3>2. Begins(f.parent, ops'[p])
        BY <1>1, <2>1, <2>2, <3>1 DEF Begins
      <3>3. job'[p].stage = "terminating" /\ job'[p].frame = f
        BY <2>2
      <3> QED
        BY <2>1, <3>2, <3>3 DEF Backed
    <2>4. job' # job
      BY <2>2 DEF Idle
    <2> QED
      BY <1>2, <2>1, <2>2, <2>3, <2>4, FrameSaid
  <1>6. CASE Sent(p) \/ Terminated(p)
    <2>1. /\ Write(p, Flushed(p, ops[p], confirmed[p], ack[p]))
          /\ confirmed' = confirmed
      BY <1>6 DEF Sent, Terminated
    <2>2. job'[p] # job[p]
      BY <1>6, WriteDone
    <2>3. PICK log \in Seq(Op), base \in Nat, acking \in BOOLEAN :
            log = ops[p] /\ base = confirmed[p] /\ acking = ack[p]
      BY <1>1
    <2>4. PICK msgs \in Seq(Message) :
            msgs = Flushed(p, log, base, acking) /\ SaysAll(p, msgs)
      BY <1>1, <2>3, FlushSaid
    <2>5. Write(p, msgs)
      BY <2>1, <2>3, <2>4
    <2> QED
      BY <1>2, <2>1, <2>2, <2>4, <2>5
  <1>7. CASE WriteFailed(p)
    <2>1. Posts(p, FALSE, <<>>) /\ confirmed' = confirmed /\ job'[p] # job[p]
      BY <1>7, QuietMoves DEF WriteFailed, Posts
    <2>2. ~ReceiveEnvelope(p)
      BY <2>1 DEF ReceiveEnvelope
    <2> QED
      BY <2>1, <2>2, NothingSaid DEF SaysOne
  <1>8. CASE ReceiveMove(p)
    <2>1. /\ inbox[p] # <<>> /\ confirmed' = confirmed
          /\ Consume(p, Flushed(p, ops'[p], confirmed[p], ack[p]))
      BY <1>8 DEF ReceiveMove, Reads
    <2>2. /\ confirmed[p] <= Len(ops'[p]) /\ Len(ops[p]) <= Len(ops'[p])
          /\ Begins(ops'[p], ops'[p])
      BY <1>1 DEF Begins
    <2>3. PICK log \in Seq(Op), base \in Nat, acking \in BOOLEAN :
            log = ops'[p] /\ base = confirmed[p] /\ acking = ack[p]
      BY <1>1
    <2>4. PICK msgs \in Seq(Message) :
            msgs = Flushed(p, log, base, acking) /\ SaysAll(p, msgs)
      BY <2>2, <2>3, FlushSaid
    <2>5. Consume(p, msgs)
      BY <2>1, <2>3, <2>4
    <2> QED
      BY <1>3, <2>1, <2>4, <2>5
  <1>9. CASE RefuseReply(p) \/ ReceiveTerminate(p) \/ ReceiveInit(p)
               \/ SkipFrame(p) \/ SkipEnvelope(p) \/ Refuse(p)
    <2>1. inbox[p] # <<>> /\ Consume(p, <<>>) /\ confirmed' = confirmed
      BY <1>9 DEF RefuseReply, ReceiveTerminate, ReceiveInit, SkipFrame, SkipEnvelope,
                  Refuse, Reads
    <2> QED
      BY <1>3, <2>1, NothingSaid
  <1>10. ASSUME NEW body \in Bodies, ReceiveAndReply(p, body)
         PROVE  SaysOne(p)
    <2> DEFINE f == Head(inbox[p]).frame
               x == f.op
    <2>1. Extends(p, f) /\ x \in Op
      BY <1>10, ReceivedExtends DEF Extends
    <2>2. PICK r \in Frame :
            /\ r = Reply(p, f, body) /\ r.op \in Op /\ r.op.actor = p
            /\ r.parent = Append(tip[p], x) /\ ops'[p] = ops[p] \o <<x, r.op>>
      <3> DEFINE reply == Reply(p, f, body)
      <3>1. /\ reply \in Frame /\ reply.op \in Op /\ reply.op.actor = p
            /\ reply.parent = Append(tip[p], x) /\ ops'[p] = ops[p] \o <<x, reply.op>>
        BY <1>10, ReceivedReplies
      <3> HIDE DEF reply, x
      <3> QED
        BY <3>1 DEF reply
    <2>3. inbox[p] # <<>> /\ Consume(p, <<FrameMessage(r)>>) /\ confirmed' = confirmed
      BY <1>10, <2>2 DEF ReceiveAndReply, Reads, Reply
    <2>4. ops[p] = tip[p] \/ closed
      BY <2>1 DEF Extends
    <2>5. NextTip(r) = Append(r.parent, r.op)
      BY DEF NextTip
    <2> HIDE DEF x
    <2>6. ASSUME ~closed
          PROVE  Backed(r)'
      <3>1. NextTip(r) = ops'[p]
        <4>1. ops[p] \o <<x, r.op>> = Append(Append(ops[p], x), r.op)
          BY <1>1, <2>1, <2>2, TwoAppended
        <4> QED
          BY <2>2, <2>4, <2>5, <2>6, <4>1
      <3>2. Begins(NextTip(r), ops'[p])
        BY <1>1, <3>1 DEF Begins
      <3> QED
        BY <2>2, <3>2 DEF Backed, NextTip
    <2> QED
      BY <1>3, <2>2, <2>3, <2>6, FrameSaid
  <1>11. CASE ReceiveEnvelope(p)
    <2> DEFINE e == Head(inbox[p])
    <2>1. /\ inbox[p] # <<>> /\ e.kind = "envelope" /\ Len(e.log) <= Len(ops[p])
          /\ Consume(p, Flushed(p, ops[p], Len(e.log), TRUE))
      BY <1>11 DEF ReceiveEnvelope, Reads, EnvelopeAccepted
    <2>2. e.log \in Seq(Op)
      BY <2>1, HeadType, MessageKinds DEF IInv
    <2> HIDE DEF e
    <2>3. PICK log \in Seq(Op), base \in Nat : log = ops[p] /\ base = Len(e.log)
      BY <1>1, <2>2
    <2>4. PICK msgs \in Seq(Message) :
            msgs = Flushed(p, log, base, TRUE) /\ SaysAll(p, msgs)
      <3>1. base <= Len(log) /\ Len(ops[p]) <= Len(log) /\ Begins(log, ops'[p])
        BY <1>1, <2>1, <2>3
      <3> QED
        BY <3>1, FlushSaid
    <2>5. Consume(p, msgs)
      BY <2>1, <2>3, <2>4
    <2> QED
      BY <1>3, <1>11, <2>1, <2>4, <2>5
  <1> QED
    BY <1>4, <1>5, <1>6, <1>7, <1>8, <1>9, <1>10, <1>11, StepCases DEF IInv, Quiet

LEMMA InFlightKeeps ==
    ASSUME IInv, IInv', \A q \in Peer : Trunk(q), NEW p \in Peer, Common(p), StepBy(p),
           NEW r \in Peer, InFlight(r)
    PROVE  InFlight(r)'
  <1>1. PICK read \in BOOLEAN, msgs \in Seq(Message) :
          Posts(p, read, msgs) /\ SaysAll(p, msgs)
    BY StepSays DEF SaysOne
  <1>2. ASSUME NEW k \in DOMAIN inbox'[r], NEW m \in Message, m = inbox'[r][k]
        PROVE  /\ m.kind = "frame" => Backed(m.frame)'
               /\ m.kind = "envelope" => EnvelopeBacked(m)'
    <2> DEFINE d == Taken(p, read, r)
    <2>1. \/ k + d \in DOMAIN inbox[r] /\ inbox'[r][k] = inbox[r][k + d]
          \/ /\ ~closed /\ k = Len(inbox[r]) + 1 - d /\ Len(msgs) = 1
             /\ inbox'[r][k] = msgs[1]
      <3>1. TypeOK /\ Len(msgs) \in {0, 1}
        BY <1>1 DEF IInv, SaysAll
      <3> QED
        BY <1>1, <3>1, Delivered
    <2> HIDE DEF d
    <2>2. CASE k + d \in DOMAIN inbox[r] /\ inbox'[r][k] = inbox[r][k + d]
      <3>1. /\ m.kind = "frame" => Backed(m.frame)
            /\ m.kind = "envelope" => EnvelopeBacked(m)
        BY <1>2, <2>2 DEF InFlight
      <3>2. m.kind = "frame" => m.frame \in Frame
        BY MessageKinds
      <3> QED
        BY <3>1, <3>2, BackedStays, EnvelopeBackedStays
    <2>3. CASE ~closed /\ Len(msgs) = 1 /\ inbox'[r][k] = msgs[1]
      <3>1. Says(p, m)
        BY <1>1, <1>2, <2>3 DEF SaysAll
      <3> QED
        BY <3>1 DEF Says, EnvelopeBacked
    <2> QED
      BY <2>1, <2>2, <2>3
  <1>3. inbox'[r] \in Seq(Message)
    BY DEF IInv, TypeOK
  <1>4. ASSUME NEW k \in DOMAIN inbox'[r]
        PROVE  /\ inbox'[r][k].kind = "frame" => Backed(inbox[r][k].frame)'
               /\ inbox'[r][k].kind = "envelope" => EnvelopeBacked(inbox[r][k])'
    <2>1. PICK m \in Message : m = inbox'[r][k]
      BY <1>3, ElementOfSeq, LenProperties
    <2>2. /\ m.kind = "frame" => Backed(m.frame)'
          /\ m.kind = "envelope" => EnvelopeBacked(m)'
      BY <1>2, <2>1
    <2> QED
      BY <2>1, <2>2 DEF Backed, EnvelopeBacked
  <1> QED
    BY <1>4 DEF InFlight

-----------------------------------------------------------------------------
(* Confirmation.                                                           *)

\* What is common stays so while logs grow.
LEMMA SharedGrows ==
    ASSUME IInv, IInv', NEW p \in Peer, StepBy(p), NEW q \in Peer,
           NEW n \in Int, n <= Len(ops[q]), Shared(q, n)
    PROVE  n <= Len(ops'[q]) /\ Shared(q, n)'
  <1>1. Other(q) \in Peer
    BY DEF Other, Peer
  <1>2. /\ ops[q] \in Seq(Op) /\ ops'[q] \in Seq(Op)
        /\ ops[Other(q)] \in Seq(Op) /\ ops'[Other(q)] \in Seq(Op)
    BY <1>1 DEF IInv, TypeOK
  <1>3. Begins(ops[q], ops'[q]) /\ Begins(ops[Other(q)], ops'[Other(q)])
    BY <1>1, LogsGrow
  <1>4. n <= Len(ops[Other(q)]) /\ \A i \in 1 .. n : ops[q][i] = ops[Other(q)][i]
    BY DEF Shared
  <1>5. /\ n <= Len(ops'[q]) /\ n <= Len(ops'[Other(q)])
        /\ \A i \in 1 .. n : ops'[q][i] = ops'[Other(q)][i]
    <2> DEFINE s == ops[q]
               t == ops[Other(q)]
               s2 == ops'[q]
               t2 == ops'[Other(q)]
    <2>1. /\ s \in Seq(Op) /\ t \in Seq(Op) /\ s2 \in Seq(Op) /\ t2 \in Seq(Op)
          /\ Begins(s, s2) /\ Begins(t, t2) /\ n <= Len(s) /\ n <= Len(t)
          /\ \A i \in 1 .. n : s[i] = t[i]
      BY <1>2, <1>3, <1>4
    <2> HIDE DEF s, t, s2, t2
    <2>2. n <= Len(s2) /\ n <= Len(t2) /\ \A i \in 1 .. n : s2[i] = t2[i]
      BY <2>1, BeginAlike
    <2> QED
      BY <2>2 DEF s2, t2
  <1> QED
    BY <1>5 DEF Shared

LEMMA OtherPeer ==
    ASSUME NEW p \in Peer, NEW q \in Peer, p # q
    PROVE  q = Other(p) /\ p = Other(q)
  BY DEF Peer, Other

\* An envelope that is accepted is a beginning of both logs.
LEMMA AcceptedIsCommon ==
    ASSUME IInv, NEW p \in Peer, NEW e \in Message, e.kind = "envelope",
           EnvelopeBacked(e), EnvelopeAccepted(p, e)
    PROVE  Len(e.log) \in Nat /\ Len(e.log) <= Len(ops[p]) /\ Shared(p, Len(e.log))
  <1> DEFINE log == ops[p]
  <1>1. /\ e.log \in Seq(Op) /\ e.base \in Nat /\ e.from \in Peer /\ log \in Seq(Op)
        /\ e.from # p
    BY DEF IInv, TypeOK, Message, EnvelopeAccepted
  <1>2. /\ e.base <= Len(e.log) /\ Begins(e.log, ops[Other(p)])
        /\ Len(e.log) \in Nat
    BY <1>1, OtherPeer DEF EnvelopeBacked
  <1>3. /\ SubSeq(log, 1, e.base) \o SubSeq(log, e.base + 1, Len(e.log)) = e.log
        /\ Len(e.log) <= Len(log)
    BY DEF EnvelopeAccepted, Delta
  <1> HIDE DEF log
  <1>4. SubSeq(log, 1, Len(e.log)) = e.log
    <2>1. SubSeq(log, 1, e.base) \o SubSeq(log, e.base + 1, Len(e.log))
            = SubSeq(log, 1, Len(e.log))
      <3>1. /\ 1 \in 1 .. Len(log) + 1 /\ e.base \in 1 - 1 .. Len(log)
            /\ Len(e.log) \in e.base .. Len(log)
        BY <1>1, <1>2, <1>3, LenProperties
      <3> QED
        BY <1>1, <3>1, ConcatAdjacentSubSeq
    <2> QED
      BY <1>3, <2>1
  <1>5. \A i \in 1 .. Len(e.log) : log[i] = e.log[i]
    <2>1. \A i \in 1 .. Len(e.log) : log[i] \in Op
      BY <1>1, <1>2, <1>3, ElementOfSeq, LenProperties
    <2>2. \A i \in 1 .. Len(e.log) - 1 + 1 : SubSeq(log, 1, Len(e.log))[i] = log[1 + i - 1]
      BY <1>2, <2>1, SubSeqProperties
    <2> QED
      BY <1>2, <1>4, <2>2
  <1>6. \A i \in 1 .. Len(e.log) : ops[p][i] = ops[Other(p)][i]
    BY <1>2, <1>5 DEF Begins, log
  <1>7. Len(e.log) <= Len(ops[Other(p)])
    BY <1>2 DEF Begins
  <1>8. Len(e.log) <= Len(ops[p])
    BY <1>3 DEF log
  <1> QED
    BY <1>2, <1>6, <1>7, <1>8 DEF Shared

LEMMA CommonKeeps ==
    ASSUME IInv, IInv', NEW p \in Peer, Trunk(p), Common(p), InFlight(p), StepBy(p),
           NEW q \in Peer, Common(q)
    PROVE  Common(q)'
  <1>1. CASE ReceiveEnvelope(p) /\ q = p
    <2>1. /\ inbox[p] # <<>> /\ Head(inbox[p]).kind = "envelope"
          /\ EnvelopeAccepted(p, Head(inbox[p]))
          /\ confirmed'[p] = Len(Head(inbox[p]).log)
      BY <1>1 DEF ReceiveEnvelope, Reads, IInv, TypeOK
    <2>2. PICK e \in Message : e = Head(inbox[p])
      BY <2>1, HeadType DEF IInv
    <2>3. Head(inbox[p]) = inbox[p][1] /\ 1 \in DOMAIN inbox[p]
      <3>1. inbox[p] \in Seq(Message)
        BY DEF IInv, TypeOK
      <3> QED
        BY <2>1, <3>1, LenProperties
    <2>4. EnvelopeBacked(e)
      BY <2>1, <2>2, <2>3 DEF InFlight
    <2>5. PICK n \in Nat : n = Len(e.log)
      BY <2>1, <2>2, <2>4, AcceptedIsCommon
    <2>6. n <= Len(ops[p]) /\ Shared(p, n)
      BY <2>1, <2>2, <2>4, <2>5, AcceptedIsCommon
    <2>7. n <= Len(ops'[p]) /\ Shared(p, n)'
      BY <2>6, SharedGrows
    <2>8. n = confirmed'[p]
      BY <2>1, <2>2, <2>5
    <2> QED
      BY <1>1, <2>7, <2>8 DEF Common, Shared
  <1>2. CASE ~(ReceiveEnvelope(p) /\ q = p)
    <2>1. confirmed'[q] = confirmed[q]
      <3>1. CASE q = p
        BY <1>2, <3>1, StepSays DEF SaysOne
      <3> QED
        BY <3>1, OthersStay
    <2>2. PICK n \in Nat : n = confirmed[q]
      BY DEF IInv, TypeOK
    <2>3. n <= Len(ops[q]) /\ Shared(q, n)
      BY <2>2 DEF Common
    <2>4. n <= Len(ops'[q]) /\ Shared(q, n)'
      BY <2>3, SharedGrows
    <2> QED
      BY <2>1, <2>2, <2>4 DEF Common, Shared
  <1> QED
    BY <1>1, <1>2

\* The other peer's envelopes keep their order, and none falls behind what is
\* confirmed.
LEMMA InOrderKeeps ==
    ASSUME IInv, IInv', NEW p \in Peer, Trunk(p), Common(p), StepBy(p),
           NEW r \in Peer, InFlight(r), InOrder(r), Common(r)
    PROVE  InOrder(r)'
  <1> DEFINE theirs == Len(ops[Other(r)])
  <1>1. PICK read \in BOOLEAN, msgs \in Seq(Message) :
          /\ Posts(p, read, msgs) /\ SaysAll(p, msgs)
          /\ ReceiveEnvelope(p) => read
          /\ ~ReceiveEnvelope(p) => confirmed' = confirmed
    BY StepSays DEF SaysOne
  <1>2. /\ inbox[r] \in Seq(Message) /\ inbox'[r] \in Seq(Message)
        /\ confirmed[r] \in Nat /\ confirmed[r] <= theirs /\ theirs \in Nat
    <2>1. ops[Other(r)] \in Seq(Op)
      BY DEF IInv, TypeOK, Other, Peer
    <2>2. confirmed[r] <= theirs
      BY DEF Common, Shared
    <2>3. theirs \in Nat
      BY <2>1
    <2>4. inbox[r] \in Seq(Message) /\ inbox'[r] \in Seq(Message) /\ confirmed[r] \in Nat
      BY DEF IInv, TypeOK
    <2> QED
      BY <2>2, <2>3, <2>4
  <1>3. /\ DOMAIN inbox[r] = 1 .. Len(inbox[r]) /\ Len(inbox[r]) \in Nat
        /\ DOMAIN inbox'[r] = 1 .. Len(inbox'[r]) /\ Len(inbox'[r]) \in Nat
    BY <1>2, LenProperties
  <1> DEFINE d == Taken(p, read, r)
             Old(k) == k + d \in DOMAIN inbox[r] /\ inbox'[r][k] = inbox[r][k + d]
             New(k) == /\ ~closed /\ k = Len(inbox[r]) + 1 - d /\ Len(msgs) = 1
                       /\ inbox'[r][k] = msgs[1]
  <1>4. ASSUME NEW k \in DOMAIN inbox'[r]
        PROVE  Old(k) \/ New(k)
    <2>1. TypeOK /\ Len(msgs) \in {0, 1}
      BY <1>1 DEF IInv, SaysAll
    <2> QED
      BY <1>1, <2>1, Delivered
  <1>5. d \in {0, 1}
    BY DEF Taken
  <1> HIDE DEF d
  <1>6. ASSUME NEW m \in Message, FromOther(r, m), EnvelopeBacked(m)
        PROVE  Len(m.log) \in Nat /\ Len(m.log) <= theirs
    <2>1. m.log \in Seq(Op) /\ m.from \in Peer /\ m.from # r
      BY <1>6 DEF Message, FromOther
    <2> QED
      BY <1>6, <2>1, OtherPeer DEF EnvelopeBacked, Begins
  <1>7. ASSUME NEW k \in DOMAIN inbox[r], FromOther(r, inbox[r][k])
        PROVE  /\ Len(inbox[r][k].log) \in Nat /\ Len(inbox[r][k].log) <= theirs
               /\ confirmed[r] <= Len(inbox[r][k].log)
    <2>1. PICK m \in Message : m = inbox[r][k]
      BY <1>2, <1>3, ElementOfSeq
    <2>2. EnvelopeBacked(m)
      BY <1>7, <2>1 DEF InFlight, FromOther
    <2> QED
      BY <1>6, <1>7, <2>1, <2>2 DEF InOrder
  <1>8. ASSUME NEW k \in DOMAIN inbox'[r], New(k), FromOther(r, inbox'[r][k])
        PROVE  /\ r # p /\ theirs <= Len(inbox'[r][k].log)
               /\ Len(inbox'[r][k].log) \in Nat
    <2>1. PICK m \in Message : m = inbox'[r][k]
      BY <1>2, <1>3, ElementOfSeq
    <2>2. Says(p, m) /\ m.kind = "envelope" /\ m.from # r
      BY <1>1, <1>8, <2>1 DEF SaysAll, FromOther
    <2>3. m.from = p /\ Len(ops[p]) <= Len(m.log) /\ m.log \in Seq(Op)
      BY <2>2, MessageKinds DEF Says
    <2>4. p = Other(r)
      BY <2>2, <2>3, OtherPeer
    <2> QED
      BY <2>1, <2>2, <2>3, <2>4
  <1>9. ASSUME NEW k \in DOMAIN inbox'[r], FromOther(r, inbox'[r][k])
        PROVE  confirmed'[r] <= Len(inbox'[r][k].log)
    <2>1. CASE ReceiveEnvelope(p) /\ r = p
      <3>1. /\ inbox[p] # <<>> /\ FromOther(p, Head(inbox[p]))
            /\ confirmed'[p] = Len(Head(inbox[p]).log)
        BY <2>1 DEF ReceiveEnvelope, Reads, EnvelopeAccepted, FromOther, IInv, TypeOK
      <3>2. Head(inbox[p]) = inbox[p][1] /\ 1 \in DOMAIN inbox[p]
        BY <1>2, <2>1, <3>1, LenProperties
      <3>3. d = 1
        BY <1>1, <2>1 DEF Taken, d
      <3>4. CASE Old(k)
        <4>1. 1 < k + d /\ k + d \in DOMAIN inbox[p] /\ inbox'[p][k] = inbox[p][k + d]
          BY <1>3, <2>1, <3>3, <3>4
        <4>2. FromOther(p, inbox[p][1]) /\ FromOther(p, inbox[p][k + d])
          BY <1>9, <2>1, <3>1, <3>2, <4>1
        <4>3. Len(inbox[p][1].log) <= Len(inbox[p][k + d].log)
          BY <2>1, <3>2, <4>1, <4>2 DEF InOrder
        <4> QED
          BY <2>1, <3>1, <3>2, <4>1, <4>3
      <3>5. CASE New(k)
        BY <1>8, <1>9, <2>1, <3>5
      <3> QED
        BY <1>4, <3>4, <3>5
    <2>2. CASE ~(ReceiveEnvelope(p) /\ r = p)
      <3>1. confirmed'[r] = confirmed[r]
        <4>1. CASE r = p
          BY <1>1, <2>2, <4>1
        <4> QED
          BY <4>1, OthersStay
      <3>2. CASE Old(k)
        <4>1. confirmed[r] <= Len(inbox[r][k + d].log)
          BY <1>7, <1>9, <3>2
        <4> QED
          BY <3>1, <3>2, <4>1
      <3>3. CASE New(k)
        <4>1. theirs <= Len(inbox'[r][k].log) /\ Len(inbox'[r][k].log) \in Nat
          BY <1>8, <1>9, <3>3
        <4> QED
          BY <1>2, <3>1, <4>1
      <3> QED
        BY <1>4, <3>2, <3>3
    <2> QED
      BY <2>1, <2>2
  <1>10. ASSUME NEW k \in DOMAIN inbox'[r], NEW l \in DOMAIN inbox'[r], k < l,
                FromOther(r, inbox'[r][k]), FromOther(r, inbox'[r][l])
         PROVE  Len(inbox'[r][k].log) <= Len(inbox'[r][l].log)
    <2>1. Old(k)
      <3>1. ASSUME New(k)
            PROVE  FALSE
        <4>1. k = Len(inbox[r]) + 1 - d
          BY <3>1
        <4>2. Old(l) => l + d <= Len(inbox[r])
          BY <1>3
        <4>3. New(l) => l = Len(inbox[r]) + 1 - d
          OBVIOUS
        <4>4. l \in Nat /\ k \in Nat
          BY <1>3
        <4> QED
          BY <1>3, <1>4, <1>5, <1>10, <4>1, <4>2, <4>3, <4>4
      <3> QED
        BY <1>4, <3>1
    <2>2. CASE Old(l)
      <3>1. k + d < l + d
        BY <1>3, <1>5, <1>10
      <3>2. FromOther(r, inbox[r][k + d]) /\ FromOther(r, inbox[r][l + d])
        BY <1>10, <2>1, <2>2
      <3>3. Len(inbox[r][k + d].log) <= Len(inbox[r][l + d].log)
        BY <2>1, <2>2, <3>1, <3>2 DEF InOrder
      <3> QED
        BY <2>1, <2>2, <3>3
    <2>3. CASE New(l)
      <3>1. Len(inbox'[r][k].log) \in Nat /\ Len(inbox'[r][k].log) <= theirs
        BY <1>7, <1>10, <2>1
      <3>2. theirs <= Len(inbox'[r][l].log) /\ Len(inbox'[r][l].log) \in Nat
        BY <1>8, <1>10, <2>3
      <3> QED
        BY <1>2, <3>1, <3>2
    <2> QED
      BY <1>4, <2>2, <2>3
  <1> QED
    BY <1>9, <1>10 DEF InOrder, FromOther

-----------------------------------------------------------------------------
(* Agreement.                                                              *)

\* A frame that comes in where the log is ahead of the tip parts the two.
LEMMA PartedNow ==
    ASSUME IInv, NEW p \in Peer, Trunk(p), StepBy(p),
           NEW f, f = Head(inbox[p]).frame, ops[p] # tip[p],
           \/ ReceiveMove(p) \/ RefuseReply(p) \/ ReceiveTerminate(p)
           \/ \E body \in Bodies : ReceiveAndReply(p, body)
    PROVE  ~Whole(p)'
  <1> DEFINE t == tip[p]
             log == ops[p]
             x == f.op
  <1>1. Extends(p, f) /\ x \in Op /\ t \in Seq(Op) /\ log \in Seq(Op)
    BY ReceivedExtends DEF Extends, IInv, TypeOK
  <1>2. CASE ~Whole(p)
    BY <1>2, WholeNeverAgain
  <1>3. CASE Whole(p)
    <2>1. Begins(t, log) /\ Len(t) <= Len(log)
      BY <1>3 DEF Whole, Follows, Begins
    <2>2. Len(t) < Len(log)
      <3> HIDE DEF t, log
      <3>1. Len(t) = Len(log) /\ Begins(t, log) => t = log
        BY <1>1, SeqEqual DEF Begins
      <3>2. t # log
        BY DEF t, log
      <3> QED
        BY <1>1, <2>1, <3>1, <3>2
    <2>3. ~Begins(Append(t, x), log)
      BY <1>1, <2>1, <2>2, ExtendsParts
    <2> HIDE DEF t, log, x
    <2>4. CASE ReceiveTerminate(p)
      <3>1. ops'[p] = Append(log, x) /\ tip'[p] = t
        BY <2>4, ReceivedEnds DEF t, log, x
      <3> QED
        BY <1>1, <2>2, <3>1 DEF Whole, Follows
    <2>5. Append(t, x) \in Seq(Op) /\ Len(Append(t, x)) <= Len(log)
      BY <1>1, <2>2
    <2>6. CASE ReceiveMove(p) \/ RefuseReply(p)
      <3>1. ops'[p] = Append(log, x) /\ tip'[p] = Append(t, x)
        BY <2>6, ReceivedMoves DEF t, log, x
      <3>2. Append(log, x) \in Seq(Op) /\ Begins(log, Append(log, x))
        BY <1>1, BeginsAppend
      <3>3. ~Begins(Append(t, x), Append(log, x))
        BY <1>1, <2>3, <2>5, <3>2, NotBegunStays
      <3> QED
        BY <3>1, <3>3 DEF Whole, Follows
    <2>7. ASSUME NEW body \in Bodies, ReceiveAndReply(p, body)
          PROVE  ~Whole(p)'
      <3> DEFINE y == Reply(p, f, body).op
      <3>1. ops'[p] = log \o <<x, y>> /\ tip'[p] = Append(t, x) /\ y \in Op
        BY <2>7, ReceivedReplies DEF t, log, x
      <3> HIDE DEF y
      <3>2. log \o <<x, y>> \in Seq(Op) /\ Begins(log, log \o <<x, y>>)
        BY <1>1, <3>1, BeginsConcat
      <3>3. ~Begins(Append(t, x), log \o <<x, y>>)
        BY <1>1, <2>3, <2>5, <3>2, NotBegunStays
      <3> QED
        BY <3>1, <3>3 DEF Whole, Follows
    <2> QED
      BY <2>4, <2>6, <2>7
  <1> QED
    BY <1>2, <1>3

\* Where a frame of the other peer comes to stand in the log.
LEMMA NewlyHeard ==
    ASSUME IInv, IInv', NEW p \in Peer, StepBy(p), Trunk(Other(p)),
           NEW f \in Frame, Extends(p, f), Backed(f), f.op.actor # p,
           Begins(Append(ops[p], f.op), ops'[p]),
           ops[p] # tip[p] => ~Whole(p)',
           NEW n \in Nat, n = Len(ops[p]) + 1
    PROVE  HeardAt(p, n)'
  <1> DEFINE q == Other(p)
             log == ops[p]
             x == f.op
  <1>1. q \in Peer /\ q # p /\ x.actor = q
    BY NextTipType, OtherPeer, PeerAssumption DEF Other, Peer, Op
  <1>2. /\ log \in Seq(Op) /\ ops'[p] \in Seq(Op) /\ ops[q] \in Seq(Op) /\ x \in Op
        /\ ops'[q] = ops[q] /\ job'[q] = job[q] /\ (closed => closed')
    <2>1. x \in Op
      BY NextTipType
    <2>2. log \in Seq(Op) /\ ops'[p] \in Seq(Op) /\ ops[q] \in Seq(Op)
      BY <1>1 DEF IInv, TypeOK
    <2> QED
      BY <1>1, <2>1, <2>2, OthersStay
  <1>3. CASE log # tip[p]
    BY <1>2, <1>3 DEF HeardAt, Extends
  <1>4. CASE log = tip[p]
    <2>1. NextTip(f) = Append(log, x) /\ f.parent = log
      BY <1>4 DEF Extends
    <2> HIDE DEF log, x, q
    <2>2. /\ n = Len(log) + 1
          /\ \A i \in 1 .. Len(log) : ops'[p][i] = log[i]
          /\ ops'[p][n] = x
      <3>1. Begins(Append(log, x), ops'[p])
        BY DEF log, x
      <3>2. n = Len(log) + 1
        BY DEF log
      <3> DEFINE log1 == Append(log, x)
      <3>3. /\ log1 \in Seq(Op) /\ Len(log1) = n /\ log1[n] = x
            /\ \A i \in 1 .. Len(log) : log1[i] = log[i]
        BY <1>2, <3>2
      <3> HIDE DEF log1
      <3>4. \A i \in 1 .. n : ops'[p][i] = log1[i]
        BY <3>1, <3>3 DEF Begins, log1
      <3>5. n \in 1 .. n /\ \A i \in 1 .. Len(log) : i \in 1 .. n
        BY <1>2, <3>2
      <3> QED
        BY <3>2, <3>3, <3>4, <3>5
    <2>3. CASE Begins(NextTip(f), ops[q])
      <3>1. n <= Len(ops'[q]) /\ \A i \in 1 .. n : ops'[p][i] = ops'[q][i]
        <4> DEFINE log1 == Append(log, x)
        <4>1. log1 \in Seq(Op) /\ Len(log1) = n
          BY <1>2, <2>2
        <4>2. Begins(log1, ops'[q]) /\ Begins(log1, ops'[p])
          BY <1>2, <2>1, <2>3 DEF log, x
        <4> HIDE DEF log1
        <4> QED
          BY <4>1, <4>2 DEF Begins
      <3> QED
        BY <3>1 DEF HeardAt, Shared, q
    <2>4. CASE /\ x.type = "TERMINATE" /\ Begins(f.parent, ops[q])
               /\ closed \/ (job[q].stage = "terminating" /\ job[q].frame = f)
      <3>1. n - 1 <= Len(ops'[q]) /\ \A i \in 1 .. n - 1 : ops'[p][i] = ops'[q][i]
        BY <1>2, <2>1, <2>2, <2>4 DEF Begins
      <3>2. Shared(p, n - 1)' /\ ops'[p][n].type = "TERMINATE"
        BY <2>2, <2>4, <3>1 DEF Shared, q
      <3>3. CASE closed
        BY <1>2, <3>2, <3>3 DEF HeardAt
      <3>4. CASE ~closed
        <4>1. job[q].stage = "terminating" /\ job[q].frame = f
          BY <2>4, <3>4
        <4>2. job[q] # Idle
          BY <4>1 DEF Idle
        <4>3. ops[q] = tip[q]
          BY <1>1, <3>4, <4>1, <4>2 DEF IInv, ChainInv, Reached
        <4>4. f.parent = tip[q]
          BY <4>1, <4>2 DEF Trunk, q
        <4>5. n = Len(ops'[q]) + 1
          BY <1>2, <2>1, <2>2, <4>3, <4>4
        <4>6. /\ job'[q].stage = "terminating" /\ n = Len(ops'[q]) + 1
              /\ ops'[p][n] = job'[q].frame.op
          BY <1>2, <2>2, <4>1, <4>5 DEF x
        <4> QED
          BY <3>2, <4>6 DEF HeardAt, q
      <3> QED
        BY <3>3, <3>4
    <2> QED
      BY <1>1, <2>3, <2>4 DEF Backed, x
  <1> QED
    BY <1>3, <1>4

\* A step of p keeps what p has heard where it stands, ...
LEMMA OldHeardOwnStep ==
    ASSUME IInv, IInv', NEW p \in Peer, Trunk(p), StepBy(p),
           NEW n \in DOMAIN ops[p], HeardAt(p, n)
    PROVE  HeardAt(p, n)'
  <1>1. /\ Other(p) \in Peer /\ Other(p) # p
    BY PeerAssumption DEF Other, Peer
  <1>2. /\ ops'[Other(p)] = ops[Other(p)] /\ job'[Other(p)] = job[Other(p)]
        /\ closed => closed'
    BY <1>1, OthersStay
  <1>3. /\ ops[p] \in Seq(Op) /\ ops'[p] \in Seq(Op) /\ n \in 1 .. Len(ops[p])
        /\ Len(ops[p]) \in Nat
    BY LenProperties DEF IInv, TypeOK
  <1>4. ops'[p][n] = ops[p][n]
    BY <1>3, LogsGrow DEF Begins
  <1>5. /\ n \in Int /\ n <= Len(ops[p]) /\ n - 1 \in Int /\ n - 1 <= Len(ops[p])
    BY <1>3
  <1>6. CASE Shared(p, n)
    <2>1. Shared(p, n)'
      BY <1>5, <1>6, SharedGrows
    <2> QED
      BY <2>1 DEF HeardAt
  <1>7. CASE closed /\ ~Whole(p)
    <2>1. closed' /\ ~Whole(p)'
      BY <1>2, <1>7, WholeNeverAgain
    <2> QED
      BY <2>1 DEF HeardAt
  <1>8. CASE /\ ops[p][n].type = "TERMINATE" /\ Shared(p, n - 1)
             /\ \/ closed
                \/ /\ job[Other(p)].stage = "terminating"
                   /\ n = Len(ops[Other(p)]) + 1
                   /\ ops[p][n] = job[Other(p)].frame.op
    <2>1. Shared(p, n - 1)'
      BY <1>5, <1>8, SharedGrows
    <2> QED
      BY <1>2, <1>4, <1>8, <2>1 DEF HeardAt
  <1> QED
    BY <1>6, <1>7, <1>8 DEF HeardAt

\* ... and so does a step of the other peer.
LEMMA OldHeardOtherStep ==
    ASSUME IInv, IInv', NEW p \in Peer, StepBy(p), NEW q \in Peer, q # p,
           NEW n \in DOMAIN ops[q], HeardAt(q, n)
    PROVE  HeardAt(q, n)'
  <1>1. p = Other(q)
    BY OtherPeer
  <1>2. ops'[q] = ops[q] /\ tip'[q] = tip[q] /\ (closed => closed')
    BY OthersStay
  <1>3. /\ ops[q] \in Seq(Op) /\ n \in 1 .. Len(ops[q]) /\ Len(ops[q]) \in Nat
        /\ ops[p] \in Seq(Op)
    BY LenProperties DEF IInv, TypeOK
  <1>4. n \in Int /\ n <= Len(ops[q]) /\ n - 1 \in Int /\ n - 1 <= Len(ops[q])
    BY <1>3
  <1>5. CASE Shared(q, n)
    <2>1. Shared(q, n)'
      BY <1>4, <1>5, SharedGrows
    <2> QED
      BY <2>1 DEF HeardAt
  <1>6. CASE closed /\ ~Whole(q)
    BY <1>2, <1>6 DEF HeardAt, Whole
  <1>7. CASE /\ ops[q][n].type = "TERMINATE" /\ Shared(q, n - 1)
             /\ \/ closed
                \/ /\ job[p].stage = "terminating"
                   /\ n = Len(ops[p]) + 1
                   /\ ops[q][n] = job[p].frame.op
    <2>1. Shared(q, n - 1)' /\ ops'[q][n].type = "TERMINATE"
      BY <1>2, <1>4, <1>7, SharedGrows
    <2>2. CASE closed'
      BY <2>1, <2>2 DEF HeardAt
    <2>3. CASE ~closed'
      <3>1. /\ job[p].stage = "terminating" /\ n = Len(ops[p]) + 1
            /\ ops[q][n] = job[p].frame.op
        BY <1>2, <1>7, <2>3
      <3>2. (job'[p] = job[p] /\ ops'[p] = ops[p]) \/ Terminated(p)
        BY <2>3, <3>1, TerminateFate
      <3>3. CASE job'[p] = job[p] /\ ops'[p] = ops[p]
        BY <1>1, <1>2, <2>1, <3>1, <3>3 DEF HeardAt
      <3>4. CASE Terminated(p)
        <4>1. ops'[p] = Append(ops[p], job[p].frame.op) /\ job[p].frame.op \in Op
          BY <3>4, WriteDone
        <4>2. \A i \in 1 .. n - 1 : ops[q][i] = ops[p][i]
          BY <1>1, <1>7 DEF Shared
        <4>3. n <= Len(ops'[p]) /\ \A i \in 1 .. n : ops'[q][i] = ops'[p][i]
          BY <1>2, <1>3, <3>1, <4>1, <4>2
        <4> QED
          BY <1>1, <4>3 DEF HeardAt, Shared
      <3> QED
        BY <3>2, <3>3, <3>4
    <2> QED
      BY <2>2, <2>3
  <1> QED
    BY <1>1, <1>5, <1>6, <1>7 DEF HeardAt

LEMMA HeardKeeps ==
    ASSUME IInv, IInv', \A q \in Peer : Trunk(q), NEW p \in Peer, InFlight(p),
           StepBy(p), NEW q \in Peer, Heard(q)
    PROVE  Heard(q)'
  <1>1. CASE q # p
    <2>1. ops'[q] = ops[q]
      BY <1>1, OthersStay
    <2>2. ASSUME NEW n \in DOMAIN ops[q], ops[q][n].actor # q
          PROVE  HeardAt(q, n)'
      BY <1>1, <2>2, OldHeardOtherStep DEF Heard
    <2> QED
      BY <2>1, <2>2 DEF Heard
  <1>2. CASE q = p
    <2> DEFINE log == ops[p]
    <2>1. /\ log \in Seq(Op) /\ ops'[p] \in Seq(Op) /\ Begins(log, ops'[p])
          /\ Len(log) \in Nat
      <3>1. log \in Seq(Op) /\ ops'[p] \in Seq(Op)
        BY DEF IInv, TypeOK
      <3>2. Begins(log, ops'[p])
        BY LogsGrow
      <3> HIDE DEF log
      <3>3. Len(log) \in Nat
        BY <3>1, LenProperties
      <3> QED
        BY <3>1, <3>2, <3>3
    <2>2. DOMAIN log = 1 .. Len(log) /\ DOMAIN ops'[p] = 1 .. Len(ops'[p])
      BY <2>1, LenProperties
    <2>3. ASSUME NEW n \in DOMAIN log, ops'[p][n].actor # p
          PROVE  HeardAt(p, n)'
      <3>1. log[n].actor # p
        BY <2>1, <2>2, <2>3 DEF Begins
      <3> QED
        BY <1>2, <3>1, OldHeardOwnStep DEF Heard
    <2> DEFINE NewTurns == \A n \in DOMAIN ops'[p] :
                   n \notin DOMAIN log /\ ops'[p][n].actor # p => HeardAt(p, n)'
    <2>4. ASSUME ops'[p] = log
          PROVE  NewTurns
      BY <2>4
    <2>5. ASSUME NEW op, op \in Op, op.actor = p, ops'[p] = Append(log, op)
          PROVE  NewTurns
      BY <2>1, <2>2, <2>5
    <2>6. ASSUME \/ ReceiveMove(p) \/ RefuseReply(p) \/ ReceiveTerminate(p)
                 \/ \E body \in Bodies : ReceiveAndReply(p, body)
          PROVE  NewTurns
      <3>1. Extends(p, Head(inbox[p]).frame)
        BY <2>6, ReceivedExtends
      <3>2. PICK f \in Frame : f = Head(inbox[p]).frame /\ Extends(p, f)
        BY <3>1 DEF Extends
      <3>3. Backed(f)
        <4>1. Reads(p, "frame")
          BY <2>6 DEF ReceiveMove, RefuseReply, ReceiveTerminate, ReceiveAndReply
        <4>2. inbox[p] # <<>> /\ Head(inbox[p]).kind = "frame"
          BY <4>1 DEF Reads
        <4>3. Head(inbox[p]) = inbox[p][1] /\ 1 \in DOMAIN inbox[p]
          <5>1. inbox[p] \in Seq(Message)
            BY DEF IInv, TypeOK
          <5> QED
            BY <4>2, <5>1, LenProperties
        <4> QED
          BY <3>2, <4>2, <4>3 DEF InFlight
      <3>4. f.op \in Op
        BY <3>2 DEF Extends
      <3>5. log # tip[p] => ~Whole(p)'
        BY <2>6, <3>2, PartedNow
      <3>6. PICK n \in Nat : n = Len(log) + 1
        BY <2>1
      <3>7. \/ ops'[p] = Append(log, f.op)
            \/ \E y \in Op : y.actor = p /\ ops'[p] = log \o <<f.op, y>>
        <4>1. CASE ReceiveMove(p) \/ RefuseReply(p)
          BY <3>2, <4>1, ReceivedMoves
        <4>2. CASE ReceiveTerminate(p)
          BY <3>2, <4>2, ReceivedEnds
        <4>3. ASSUME NEW body \in Bodies, ReceiveAndReply(p, body)
              PROVE  \E y \in Op : y.actor = p /\ ops'[p] = log \o <<f.op, y>>
          <5> DEFINE y == Reply(p, f, body).op
          <5>1. y \in Op /\ y.actor = p /\ ops'[p] = log \o <<f.op, y>>
            BY <3>2, <4>3, ReceivedReplies
          <5> HIDE DEF y
          <5> QED
            BY <5>1
        <4> QED
          BY <2>6, <4>1, <4>2, <4>3
      <3>8. /\ Begins(Append(log, f.op), ops'[p])
            /\ \A k \in DOMAIN ops'[p] :
                 k \notin DOMAIN log /\ ops'[p][k].actor # p
                   => k = n /\ ops'[p][k] = f.op
        <4> HIDE DEF log
        <4>1. CASE ops'[p] = Append(log, f.op)
          BY <2>1, <2>2, <3>4, <3>6, <4>1 DEF Begins
        <4>2. ASSUME NEW y \in Op, y.actor = p, ops'[p] = log \o <<f.op, y>>
              PROVE  /\ Begins(Append(log, f.op), ops'[p])
                     /\ \A k \in DOMAIN ops'[p] :
                          k \notin DOMAIN log /\ ops'[p][k].actor # p
                            => k = n /\ ops'[p][k] = f.op
          <5> DEFINE log1 == Append(log, f.op)
          <5>1. /\ log1 \in Seq(Op) /\ Len(log1) = Len(log) + 1
                /\ log1[Len(log) + 1] = f.op
            BY <2>1, <3>4
          <5>2. ops'[p] = Append(log1, y)
            BY <2>1, <3>4, <4>2
          <5> HIDE DEF log1
          <5>3. Begins(log1, ops'[p])
            BY <4>2, <5>1, <5>2, BeginsAppend
          <5>4. Len(ops'[p]) = Len(log1) + 1 /\ ops'[p][Len(log1) + 1] = y
            BY <4>2, <5>1, <5>2
          <5>5. ops'[p][n] = f.op
            BY <2>1, <3>6, <5>1, <5>3 DEF Begins
          <5>6. ASSUME NEW k \in DOMAIN ops'[p], k \notin DOMAIN log,
                       ops'[p][k].actor # p
                PROVE  k = n
            <6>1. k \in {Len(log) + 1, Len(log) + 2}
              BY <2>1, <2>2, <5>1, <5>4, <5>6
            <6> QED
              BY <3>6, <4>2, <5>1, <5>4, <5>6, <6>1
          <5> QED
            BY <5>3, <5>5, <5>6 DEF log1
        <4> QED
          BY <3>7, <4>1, <4>2 DEF log
      <3>9. f.op.actor # p => HeardAt(p, n)'
        <4>1. Trunk(Other(p))
          BY DEF Other, Peer
        <4> QED
          BY <3>2, <3>3, <3>5, <3>6, <3>8, <4>1, NewlyHeard
      <3> QED
        BY <3>8, <3>9
    <2>7. NewTurns
      <3>1. ASSUME NEW f \in Frame, Emits(p, f)
            PROVE  NewTurns
        <4>1. f.op \in Op /\ f.op.actor = p /\ ops'[p] = Append(log, f.op)
          BY <3>1, EmittedExtends DEF Extends, Emits
        <4> HIDE DEF NewTurns
        <4> QED
          BY <2>5, <4>1
      <3>2. CASE Terminated(p)
        <4>1. /\ job[p].frame.op \in Op /\ ops'[p] = Append(log, job[p].frame.op)
              /\ job[p].frame.op.actor = p
          BY <3>2, WriteDone DEF Trunk
        <4> HIDE DEF NewTurns
        <4> QED
          BY <2>5, <4>1
      <3>3. CASE Sent(p) \/ WriteFailed(p) \/ Terminate(p) \/ Quiet(p)
        <4>1. ops'[p] = log
          BY <3>3, WriteDone, QuietMoves
        <4> HIDE DEF NewTurns
        <4> QED
          BY <2>4, <4>1
      <3> HIDE DEF NewTurns
      <3> QED
        BY <2>6, <3>1, <3>2, <3>3, StepCases DEF IInv
    <2>8. ASSUME NEW n \in DOMAIN ops'[p], ops'[p][n].actor # p
          PROVE  HeardAt(p, n)'
      BY <2>3, <2>7, <2>8
    <2> QED
      BY <1>2, <2>8 DEF Heard
  <1> QED
    BY <1>1, <1>2

-----------------------------------------------------------------------------
(* Theorems.                                                               *)

LEMMA NextKeepsAgreement ==
    ASSUME AgreementInv, [Next]_vars
    PROVE  AgreementInv'
  <1>1. IInv /\ IInv'
    BY NextKeepsChains DEF AgreementInv
  <1>2. CASE UNCHANGED vars
    <2> SUFFICES ASSUME NEW p \in Peer
                 PROVE  Trunk(p)' /\ InFlight(p)' /\ InOrder(p)' /\ Heard(p)' /\ Common(p)'
      BY <1>1 DEF AgreementInv
    <2>1. Trunk(p) /\ InFlight(p) /\ InOrder(p) /\ Heard(p) /\ Common(p)
      BY DEF AgreementInv
    <2>2. /\ ops' = ops /\ tip' = tip /\ seen' = seen /\ chain' = chain /\ job' = job
          /\ inbox' = inbox /\ confirmed' = confirmed /\ closed' = closed
      BY <1>2 DEF vars
    <2>3. Trunk(p)'
      BY <2>1, <2>2 DEF Trunk
    <2>4. InFlight(p)'
      BY <2>1, <2>2 DEF InFlight, Backed, EnvelopeBacked
    <2>5. InOrder(p)'
      BY <2>1, <2>2 DEF InOrder, FromOther
    <2>6. Heard(p)'
      BY <2>1, <2>2 DEF Heard, HeardAt, Shared, Whole
    <2>7. Common(p)'
      BY <2>1, <2>2 DEF Common, Shared
    <2> QED
      BY <2>3, <2>4, <2>5, <2>6, <2>7
  <1>3. ASSUME NEW p \in Peer, StepBy(p)
        PROVE  AgreementInv'
    <2>1. ASSUME NEW q \in Peer
          PROVE  Trunk(q)'
      <3>1. CASE q = p
        BY <1>1, <1>3, <3>1, TrunkKeeps DEF AgreementInv
      <3>2. CASE q # p
        <4>1. /\ chain'[q] = chain[q] /\ ops'[q] = ops[q] /\ tip'[q] = tip[q]
              /\ job'[q] = job[q] /\ seen'[q] = seen[q] /\ Trunk(q)
          BY <1>1, <1>3, <3>2, OthersStay DEF AgreementInv
        <4> QED
          BY <4>1 DEF Trunk
      <3> QED
        BY <3>1, <3>2
    <2>2. ASSUME NEW q \in Peer
          PROVE  InFlight(q)' /\ InOrder(q)' /\ Heard(q)' /\ Common(q)'
      BY <1>1, <1>3, InFlightKeeps, InOrderKeeps, HeardKeeps, CommonKeeps
         DEF AgreementInv
    <2> QED
      BY <1>1, <2>1, <2>2 DEF AgreementInv
  <1> QED
    BY <1>2, <1>3 DEF Next, StepBy

\* The inductive invariant of the two logs.
THEOREM AgreementInvariant == Spec => []AgreementInv
  <1>1. Init => AgreementInv
    <2>1. ASSUME Init
          PROVE  IInv
      <3>1. \A p \in Peer : ops[p] = <<>> /\ tip[p] = <<>> /\ job[p] = Idle
                            /\ DOMAIN ops[p] = {}
        BY <2>1 DEF Init
      <3> QED
        BY <2>1, <3>1, InitTypes DEF IInv, ChainInv, Reached, Idle
    <2>2. ASSUME Init, NEW p \in Peer
          PROVE  Trunk(p) /\ InFlight(p) /\ InOrder(p) /\ Heard(p) /\ Common(p)
      <3>1. /\ ops[p] = <<>> /\ tip[p] = <<>> /\ job[p] = Idle /\ confirmed[p] = 0
            /\ Len(ops[p]) = 0 /\ Len(tip[p]) = 0 /\ DOMAIN ops[p] = {}
        BY <2>2 DEF Init
      <3>2. \A k \in DOMAIN inbox[p] : inbox[p][k].kind = "init"
        BY <2>2 DEF Init
      <3>3. Len(ops[Other(p)]) = 0
        BY <2>2 DEF Init, Other, Peer
      <3>4. Trunk(p) /\ Heard(p)
        BY <3>1 DEF Trunk, Heard, Idle
      <3>5. InFlight(p) /\ InOrder(p)
        BY <3>2 DEF InFlight, InOrder, FromOther
      <3>6. Common(p)
        BY <3>1, <3>3 DEF Common, Shared
      <3> QED
        BY <3>4, <3>5, <3>6
    <2> QED
      BY <2>1, <2>2 DEF AgreementInv
  <1>2. AgreementInv /\ [Next]_vars => AgreementInv'
    BY NextKeepsAgreement
  <1> QED
    BY <1>1, <1>2, PTL DEF Spec

\* Shared and Agree, Whole and Intact say the same.
LEMMA SharedAgrees ==
    ASSUME TypeOK, NEW p \in Peer, NEW n \in Nat, n <= Len(ops[p]), Shared(p, n)
    PROVE  Agree(p, n)
  <1> DEFINE s == ops[p]
             t == ops[Other(p)]
  <1>1. s \in Seq(Op) /\ t \in Seq(Op)
    BY DEF TypeOK, Other, Peer
  <1>2. n <= Len(s) /\ n <= Len(t) /\ \A i \in 1 .. n : s[i] = t[i]
    BY DEF Shared
  <1> HIDE DEF s, t
  <1>3. SubSeq(s, 1, n) = SubSeq(t, 1, n)
    BY <1>1, <1>2
  <1> QED
    BY <1>2, <1>3 DEF Agree, s, t

LEMMA IntactIsWhole ==
    ASSUME TypeOK, NEW p \in Peer, Intact(p)
    PROVE  Whole(p)
  <1> DEFINE t == tip[p]
             log == ops[p]
  <1>1. t \in Seq(Op) /\ log \in Seq(Op)
    BY DEF TypeOK
  <1>2. Len(log) \in Len(t) .. Len(t) + 1 /\ SubSeq(log, 1, Len(t)) = t
    BY DEF Intact
  <1> HIDE DEF t, log
  <1>3. \A i \in 1 .. Len(t) : SubSeq(log, 1, Len(t))[i] = log[i]
    BY <1>1, <1>2
  <1>4. Len(t) <= Len(log) /\ Len(log) <= Len(t) + 1
    BY <1>1, <1>2
  <1>5. Begins(t, log)
    BY <1>2, <1>3, <1>4 DEF Begins
  <1> QED
    BY <1>4, <1>5 DEF Whole, Follows, t, log

\* Strict ordering (verifyInboundChild, resolveChain): an operation of the other
\* peer is in a log only where the other's log has it too, after the same
\* operations, but for the cases AcceptedMeansAgreed names.
THEOREM AcceptedAgrees == Spec => []AcceptedMeansAgreed
  <1>1. AgreementInv => AcceptedMeansAgreed
    <2> SUFFICES ASSUME AgreementInv, NEW p \in Peer, NEW n \in DOMAIN ops[p],
                        ops[p][n].actor # p
                 PROVE  \/ Agree(p, n)
                        \/ /\ ops[p][n].type = "TERMINATE" /\ Agree(p, n - 1)
                           /\ job[Other(p)].stage = "terminating" \/ closed
                        \/ closed /\ ~Intact(p)
      BY DEF AcceptedMeansAgreed
    <2>1. HeardAt(p, n) /\ TypeOK
      BY DEF AgreementInv, Heard, IInv
    <2>2. n \in 1 .. Len(ops[p]) /\ Len(ops[p]) \in Nat
      BY <2>1, LenProperties DEF TypeOK
    <2>3. /\ n \in Nat /\ n <= Len(ops[p])
          /\ n - 1 \in Nat /\ n - 1 <= Len(ops[p])
      BY <2>2
    <2>4. /\ Shared(p, n) => Agree(p, n)
          /\ Shared(p, n - 1) => Agree(p, n - 1)
      BY <2>1, <2>3, SharedAgrees
    <2>5. ~Whole(p) => ~Intact(p)
      BY <2>1, IntactIsWhole
    <2> QED
      BY <2>1, <2>4, <2>5 DEF HeardAt
  <1> QED
    BY <1>1, AgreementInvariant, PTL

\* Session sync (handleInboundSessionEnvelope): what one peer holds confirmed is
\* in both logs, operation for operation.
THEOREM ConfirmedStaysCommon == Spec => []ConfirmedIsCommon
  <1>1. AgreementInv => ConfirmedIsCommon
    <2> SUFFICES ASSUME AgreementInv, NEW p \in Peer
                 PROVE  confirmed[p] <= Len(ops[p]) /\ Agree(p, confirmed[p])
      BY DEF ConfirmedIsCommon
    <2>1. TypeOK /\ confirmed[p] \in Nat /\ Common(p)
      BY DEF AgreementInv, IInv, TypeOK
    <2> QED
      BY <2>1, SharedAgrees DEF Common
  <1> QED
    BY <1>1, AgreementInvariant, PTL

\* What is confirmed stays confirmed, although confirmedSeq is overwritten
\* without a comparison: envelopes come in the order of their logs.
THEOREM ConfirmedOnlyGrows == Spec => ConfirmedNeverShrinks
  <1>1. ASSUME AgreementInv, [Next]_vars
        PROVE  [\A p \in Peer : confirmed'[p] >= confirmed[p]]_vars
    <2>1. ASSUME NEW p \in Peer, StepBy(p), NEW q \in Peer
          PROVE  confirmed'[q] >= confirmed[q]
      <3>1. /\ IInv /\ IInv' /\ Trunk(p) /\ Common(p) /\ InOrder(p)
            /\ confirmed[q] \in Nat
        BY <1>1, NextKeepsChains DEF AgreementInv, IInv, TypeOK
      <3>2. CASE ReceiveEnvelope(p) /\ q = p
        <4>1. /\ inbox[p] # <<>> /\ FromOther(p, Head(inbox[p]))
              /\ confirmed'[p] = Len(Head(inbox[p]).log)
          BY <3>1, <3>2 DEF ReceiveEnvelope, Reads, EnvelopeAccepted, FromOther, IInv,
                            TypeOK
        <4>2. Head(inbox[p]) = inbox[p][1] /\ 1 \in DOMAIN inbox[p]
          <5>1. inbox[p] \in Seq(Message)
            BY <3>1 DEF IInv, TypeOK
          <5> QED
            BY <4>1, <5>1, LenProperties
        <4>3. confirmed[p] <= Len(inbox[p][1].log)
          BY <3>1, <4>1, <4>2 DEF InOrder
        <4>4. Len(inbox[p][1].log) \in Nat
          <5>1. confirmed'[p] \in Nat
            BY <3>1 DEF IInv, TypeOK
          <5> QED
            BY <4>1, <4>2, <5>1
        <4> QED
          BY <3>1, <3>2, <4>1, <4>2, <4>3, <4>4
      <3>3. CASE q # p
        BY <2>1, <3>1, <3>3, OthersStay
      <3>4. CASE q = p /\ ~ReceiveEnvelope(p)
        BY <2>1, <3>1, <3>4, StepSays DEF SaysOne
      <3> QED
        BY <3>2, <3>3, <3>4
    <2> QED
      BY <1>1, <2>1 DEF Next, StepBy
  <1> QED
    BY <1>1, AgreementInvariant, PTL DEF Spec, ConfirmedNeverShrinks
=============================================================================
