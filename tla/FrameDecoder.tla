---------------------------- MODULE FrameDecoder ----------------------------
(***************************************************************************)
(* createFrameDecoder (packages/wire): from chunks of bytes to messages.   *)
(*                                                                         *)
(* A byte is its place in what one peer writes: [msg, at], the at-th byte  *)
(* of its msg-th message, whose first Prefix bytes state the length of the *)
(* rest.  What the decoder holds is always a stretch of the stream, but it *)
(* may start inside a message when bytes before it were thrown away.  Read *)
(* there, text (all of it 0x20 or more) states a length far over           *)
(* MAX_FRAME_BYTES; the middle of a prefix states some length `misread',   *)
(* and what follows it is no JSON.                                         *)
(***************************************************************************)
EXTENDS Integers, Sequences

CONSTANTS
    Prefix,     \* bytes of a length prefix
    MaxFrame    \* MAX_FRAME_BYTES

ASSUME DecoderAssumption == Prefix \in Nat \ {0} /\ MaxFrame \in Nat \ {0}

MaxBuffer == MaxFrame + Prefix

\* A message: its length, and what its payload is.
Message == [size : 1 .. MaxFrame, sort : {"init", "frame", "bad"}]

\* encodeLengthPrefixed: the bytes of the n-th message.
Encoded(n, m) == [k \in 1 .. Prefix + m.size |-> [msg |-> n, at |-> k]]

\* declaredPayloadLen at the start of the buffer.
Declared(script, buffer, misread) ==
    LET first == buffer[1] IN
    IF first.at = 1 THEN script[first.msg].size
    ELSE IF first.at <= Prefix THEN misread
    ELSE MaxFrame + 1

\* Whether the payload at the start of the buffer is the JSON of one message.
IsMessage(script, buffer) == buffer[1].at = 1 /\ script[buffer[1].msg].sort # "bad"

Failed == [ok |-> FALSE, out |-> <<>>, rest |-> <<>>]

\* tryParseOne with `rest' in the buffer; `loop' is what comes of the buffer
\* when fewer bytes are left.  JSON.parse throws once the payload has left the
\* buffer; the messages decoded before it in the chunk go with it.
TryParseOne(script, rest, misread, loop) ==
    LET len == Declared(script, rest, misread)
        after == SubSeq(rest, Prefix + len + 1, Len(rest))
        later == loop[Len(rest) - Prefix - len]
        waiting == [ok |-> TRUE, out |-> <<>>, rest |-> rest] IN
    IF Len(rest) < Prefix THEN waiting
    ELSE IF len > MaxFrame THEN Failed
    ELSE IF Len(rest) < Prefix + len THEN waiting
    ELSE IF ~IsMessage(script, rest) THEN [ok |-> FALSE, out |-> <<>>, rest |-> after]
    ELSE IF ~later.ok THEN later
    ELSE [ok |-> TRUE, out |-> <<rest[1].msg>> \o later.out, rest |-> later.rest]

\* The loop of push, by the number of bytes that are left.
Loop(script, buffer, misread) ==
    LET loop[n \in 0 .. Len(buffer)] ==
            TryParseOne(script, SubSeq(buffer, Len(buffer) - n + 1, Len(buffer)),
                        misread, loop)
    IN  loop

Parse(script, buffer, misread) == Loop(script, buffer, misread)[Len(buffer)]

\* Slip: a chunk that just fits is refused.
PushTight(script, buffer, chunk, misread) ==
    IF Len(buffer) + Len(chunk) >= MaxBuffer THEN Failed
    ELSE Parse(script, buffer \o chunk, misread)

\* Slip: the buffer is emptied after a message, with the start of the next.
PushEmpties(script, buffer, chunk, misread) ==
    IF Len(buffer) + Len(chunk) > MaxBuffer THEN Failed
    ELSE LET result == Parse(script, buffer \o chunk, misread) IN
         [result EXCEPT !.rest = IF result.out = <<>> THEN @ ELSE <<>>]

\* push: a chunk that does not fit resets the decoder, whatever it completes.
Push(script, buffer, chunk, misread) ==
    IF Len(buffer) + Len(chunk) > MaxBuffer THEN Failed
    ELSE Parse(script, buffer \o chunk, misread)
=============================================================================
