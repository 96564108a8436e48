--------------------------- MODULE MCFrameStream ---------------------------
(***************************************************************************)
(* Scripts for TLC: messages up to the largest size, good and bad, one way *)
(* and both ways, over each kind of stream.                                *)
(***************************************************************************)
EXTENDS FrameStream

Msg(size, sort) == [size |-> size, sort |-> sort]
Both(l, r) == [p \in Peers |-> IF p = Left THEN l ELSE r]

MCModes ==
    {[kind |-> k, misread |-> 1,
      script |-> Both(<<Msg(1, "init"), Msg(3, "bad"), Msg(2, "frame")>>,
                      <<Msg(1, "frame"), Msg(2, "frame"), Msg(1, "frame")>>)] :
        k \in {"memory", "websocket"}}
    \cup
    {[kind |-> "http2", misread |-> g,
      script |-> Both(<<Msg(3, "frame"), Msg(1, "bad"), Msg(2, "frame")>>, <<>>)] :
        g \in 0 .. 4}
    \cup
    {[kind |-> "http2", misread |-> 0,
      script |-> Both(<<Msg(1, s), Msg(1, "frame"), Msg(1, "frame")>>,
                      <<Msg(1, "frame"), Msg(1, "frame"), Msg(1, "frame")>>)] :
        s \in {"frame", "init"}}
=============================================================================
