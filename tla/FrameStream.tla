---------------------------- MODULE FrameStream ----------------------------
(***************************************************************************)
(* Two peers and the stream between them: the byte streams of the          *)
(* repository (createMemoryDuplexByteStreamPair, the WebSocket bridge, an  *)
(* HTTP/2 stream), sendWireBytes, the decoder, and the read loop that hands *)
(* decoded messages on, frames under the frame mutex and inits not.        *)
(*                                                                         *)
(* Memory and WebSocket streams keep chunks, bound how many wait to be     *)
(* read, and do not hold a writer back.  An HTTP/2 stream cuts what is     *)
(* written anywhere, holds a bounded number of bytes, and a write is done  *)
(* when its last byte is taken; all the while the writer has the mutex.    *)
(***************************************************************************)
EXTENDS FrameDecoder, FiniteSets

CONSTANTS
    Left, Right,    \* the two peers
    Modes,          \* [kind, script, misread], see Mode
    Depth,          \* maxInboundQueueDepth
    Capacity,       \* bytes an HTTP/2 stream holds
    MaxErrors,      \* MAX_CONSECUTIVE_FRAME_ERRORS
    Longest         \* bound on the messages of a script

Peers == {Left, Right}

Other(p) == IF p = Left THEN Right ELSE Left

Mode == [kind : {"memory", "websocket", "http2"}, script : [Peers -> Seq(Message)],
         misread : 0 .. MaxFrame + 1]

ASSUME StreamAssumption == Left # Right /\ Modes \subseteq Mode
ASSUME StreamBounds ==
    /\ \A m \in Modes : \A p \in Peers : Len(m.script[p]) <= Longest
    /\ Depth \in Nat \ {0} /\ Capacity \in Nat \ {0} /\ MaxErrors \in Nat \ {0}

Byte == [msg : Nat, at : Nat]

VARIABLES
    mode,       \* which of Modes the stream runs in
    sent,       \* peer -> messages of its script it has begun to write
    writing,    \* peer -> bytes of an awaited write not yet taken
    network,    \* peer -> chunks (bytes on HTTP/2) on their way from it
    queue,      \* peer -> chunks that wait in its inbound queue
    buffer,     \* peer -> bytes its decoder holds
    parts,      \* peer -> decoded messages its read loop has in hand
    handled,    \* peer -> its messages that the other has handled
    errors,     \* peer -> consecutive frame errors it has counted
    reported,   \* peers with an error in what they sent (onFrameError)
    done        \* peers whose end of the stream is closed

vars == <<mode, sent, writing, network, queue, buffer, parts, handled, errors,
          reported, done>>

Init ==
    /\ mode \in Modes
    /\ sent = [p \in Peers |-> 0]
    /\ writing = [p \in Peers |-> <<>>]
    /\ network = [p \in Peers |-> <<>>]
    /\ queue = [p \in Peers |-> <<>>]
    /\ buffer = [p \in Peers |-> <<>>]
    /\ parts = [p \in Peers |-> <<>>]
    /\ handled = [p \in Peers |-> <<>>]
    /\ errors = [p \in Peers |-> 0]
    /\ reported = {} /\ done = {}

Script(p) == mode.script[p]
-----------------------------------------------------------------------------
\* Slip: the queue grows by one too many.
OverflowsLate(p) == Len(queue[p]) > Depth

\* enqueueInbound at its limit: the chunk is dropped.
Overflows(p) == Len(queue[p]) >= Depth

\* Slip: an overflow drops the chunk and nothing else.
DoneWithoutOverflow(p, ends) == done' = done

\* closeBoth, closeStream.
DoneAfterOverflow(p, ends) == done' = done \cup (IF Overflows(p) THEN ends ELSE {})

Enqueue(p, chunk, ends) ==
    /\ queue' = [queue EXCEPT ![p] = IF Overflows(p) THEN @ ELSE Append(@, chunk)]
    /\ DoneAfterOverflow(p, ends)

(***************************************************************************)
(* sendWireBytes: the next message of the host is written.  A memory or    *)
(* WebSocket stream that is done drops it and says nothing.                *)
(***************************************************************************)
Write(p) ==
    LET n == sent[p] + 1
        bytes == Encoded(n, Script(p)[n]) IN
    /\ writing[p] = <<>>
    /\ sent[p] < Len(Script(p))
    /\ sent' = [sent EXCEPT ![p] = n]
    /\ CASE p \in done -> UNCHANGED <<writing, network, queue, done>>
         [] p \notin done /\ mode.kind = "memory" ->
              /\ Enqueue(Other(p), bytes, Peers)
              /\ UNCHANGED <<writing, network>>
         [] p \notin done /\ mode.kind = "websocket" ->
              /\ network' = [network EXCEPT ![p] = Append(@, bytes)]
              /\ UNCHANGED <<writing, queue, done>>
         [] p \notin done /\ mode.kind = "http2" ->
              /\ writing' = [writing EXCEPT ![p] = bytes]
              /\ UNCHANGED <<network, queue, done>>
    /\ UNCHANGED <<mode, buffer, parts, handled, errors, reported>>

\* HTTP/2: the stream takes a byte of a write when it has room.
Flow(p) ==
    /\ writing[p] # <<>> /\ Len(network[p]) < Capacity
    /\ network' = [network EXCEPT ![p] = Append(@, Head(writing[p]))]
    /\ writing' = [writing EXCEPT ![p] = Tail(@)]
    /\ UNCHANGED <<mode, sent, queue, buffer, parts, handled, errors, reported, done>>

\* onMessage at q of what its peer sent.
Arrive(q) ==
    LET p == Other(q) IN
    /\ mode.kind = "websocket" /\ network[p] # <<>>
    /\ network' = [network EXCEPT ![p] = Tail(@)]
    /\ IF q \in done THEN UNCHANGED <<queue, done>>
       ELSE Enqueue(q, Head(network[p]), {q})
    /\ UNCHANGED <<mode, sent, writing, buffer, parts, handled, errors, reported>>

\* onClose at q: its peer has closed the socket, after what it sent before.
SocketClosed(q) ==
    /\ mode.kind = "websocket" /\ Other(q) \in done /\ q \notin done
    /\ network[Other(q)] = <<>>
    /\ done' = done \cup {q}
    /\ UNCHANGED <<mode, sent, writing, network, queue, buffer, parts, handled,
                   errors, reported>>

\* channel.close by the host.
Close(p) ==
    /\ p \notin done /\ writing[p] = <<>>
    /\ done' = IF mode.kind = "memory" THEN Peers ELSE done \cup {p}
    /\ UNCHANGED <<mode, sent, writing, network, queue, buffer, parts, handled,
                   errors, reported>>
-----------------------------------------------------------------------------
\* Slip: an error is counted and not reported.
DecodedQuietly(q, result) ==
    /\ buffer' = [buffer EXCEPT ![q] = result.rest]
    /\ parts' = [parts EXCEPT ![q] = result.out]
    /\ errors' = [errors EXCEPT ![q] = IF result.ok THEN @ ELSE @ + 1]
    /\ reported' = reported
    /\ done' = IF errors'[q] < MaxErrors THEN done
               ELSE IF mode.kind = "memory" THEN Peers ELSE done \cup {q}

\* What runReadLoop does with a chunk: its messages are next, or an error is
\* reported and counted, and at the limit the stream is closed.
Decoded(q, result) ==
    /\ buffer' = [buffer EXCEPT ![q] = result.rest]
    /\ parts' = [parts EXCEPT ![q] = result.out]
    /\ errors' = [errors EXCEPT ![q] = IF result.ok THEN @ ELSE @ + 1]
    /\ reported' = reported \cup (IF result.ok THEN {} ELSE {Other(q)})
    /\ done' = IF errors'[q] < MaxErrors THEN done
               ELSE IF mode.kind = "memory" THEN Peers ELSE done \cup {q}

\* The read loop goes on to the next chunk, unless it gave up.
Reads(q) == parts[q] = <<>> /\ errors[q] < MaxErrors

\* A chunk from the inbound queue.
ReadQueued(q) ==
    /\ Reads(q) /\ queue[q] # <<>>
    /\ queue' = [queue EXCEPT ![q] = Tail(@)]
    /\ Decoded(q, Push(Script(Other(q)), buffer[q], Head(queue[q]), mode.misread))
    /\ UNCHANGED <<mode, sent, writing, network, handled>>

\* HTTP/2: a chunk is any stretch of what has arrived.
ReadCut(q) ==
    LET p == Other(q) IN
    /\ mode.kind = "http2" /\ Reads(q)
    /\ \E k \in 1 .. Len(network[p]) :
        /\ network' = [network EXCEPT ![p] = SubSeq(@, k + 1, Len(@))]
        /\ Decoded(q, Push(Script(p), buffer[q], SubSeq(network[p], 1, k), mode.misread))
    /\ UNCHANGED <<mode, sent, writing, queue, handled>>

\* Slip: an init waits for the mutex as well.
MutexFreeForAll(q, sort) == writing[q] = <<>>

MutexFree(q, sort) == sort = "init" \/ writing[q] = <<>>

\* processYield: an init at once, a frame when the mutex is free.
Process(q) ==
    LET p == Other(q)
        n == parts[q][1] IN
    /\ parts[q] # <<>>
    /\ MutexFree(q, Script(p)[n].sort)
    /\ parts' = [parts EXCEPT ![q] = Tail(@)]
    /\ handled' = [handled EXCEPT ![p] = Append(@, n)]
    /\ errors' = [errors EXCEPT ![q] = 0]
    /\ UNCHANGED <<mode, sent, writing, network, queue, buffer, reported, done>>

Next ==
    \E p \in Peers :
        \/ Write(p) \/ Flow(p) \/ Arrive(p) \/ SocketClosed(p) \/ Close(p)
        \/ ReadQueued(p) \/ ReadCut(p) \/ Process(p)

\* The network moves on, and the read loop runs; hosts owe nothing.
Spec ==
    /\ Init /\ [][Next]_vars
    /\ \A p \in Peers :
        /\ WF_vars(Flow(p)) /\ WF_vars(Arrive(p)) /\ WF_vars(SocketClosed(p))
        /\ WF_vars(ReadQueued(p)) /\ WF_vars(ReadCut(p)) /\ WF_vars(Process(p))
-----------------------------------------------------------------------------
\* Every variable holds what its comment says, and the bounds hold that are
\* to keep a peer from filling the other's memory.
TypeOK ==
    /\ mode \in Modes
    /\ sent \in [Peers -> Nat] /\ handled \in [Peers -> Seq(Nat)]
    /\ writing \in [Peers -> Seq(Byte)] /\ parts \in [Peers -> Seq(Nat)]
    /\ network \in [Peers -> IF mode.kind = "http2" THEN Seq(Byte) ELSE Seq(Seq(Byte))]
    /\ queue \in [Peers -> Seq(Seq(Byte))] /\ buffer \in [Peers -> Seq(Byte)]
    /\ \A p \in Peers : Len(queue[p]) <= Depth /\ Len(buffer[p]) < MaxBuffer
    /\ errors \in [Peers -> 0 .. MaxErrors]
    /\ reported \subseteq Peers /\ done \subseteq Peers

\* The stream and the decoder are an ordered channel: nothing garbled is taken
\* for a message, whatever was cut or thrown away, and messages are passed over
\* only after an error; a close or an overflow leaves a gapless beginning.
Channel == INSTANCE OrderedChannel
ImplementsChannel == Channel!Spec

\* A legal stream is decoded without an error when the chunks that arrive keep
\* its frames clear of the decoder's limit: the last chunk of a frame may hold
\* the start of the next, and must fit as well.
LegalStreamDecodes ==
    \A p \in Peers :
        (\A n \in DOMAIN Script(p) :
            /\ Script(p)[n].sort # "bad"
            /\ mode.kind = "http2" => Script(p)[n].size + Capacity <= MaxFrame + 1)
        => p \notin reported

Handled(p, n) == \E k \in DOMAIN handled[p] : handled[p][k] = n

\* Each peer awaits a write that the other does not read, because the frame it
\* has in hand waits for the mutex its own write holds.
MutuallyBlocked ==
    \A p \in Peers :
        /\ writing[p] # <<>> /\ Len(network[p]) = Capacity
        /\ parts[p] # <<>> /\ Script(Other(p))[parts[p][1]].sort = "frame"

\* What is sent gets handled, unless its stream had an error, an end was
\* closed, or both peers block each other.
SentGetsHandled ==
    \A p \in Peers : \A n \in 1 .. Longest :
        sent[p] >= n ~> (Handled(p, n) \/ p \in reported \/ done # {} \/ MutuallyBlocked)

\* An awaited write is done at some time - the mutex it holds comes free -
\* unless an end was closed or both peers block each other: one peer alone that
\* sends much, or receives much, is never stuck.
WritesFinish ==
    \A p \in Peers : writing[p] # <<>> ~> (writing[p] = <<>> \/ done # {} \/ MutuallyBlocked)
=============================================================================
