------------------------ MODULE FrameDecoderProofs ------------------------
(***************************************************************************)
(* Proofs about the decoder: what a push returns, for any messages, sizes  *)
(* and chunks, and what of the stream is still to come after it.           *)
(***************************************************************************)
EXTENDS FrameDecoder, Recursion, SequenceTheorems, TLAPS

-----------------------------------------------------------------------------
(* Stretches of a stream.                                                  *)

\* The length of the n-th message with its prefix.
FrameLen(script, n) == Prefix + script[n].size

\* The bytes of a script.
ByteOf(script) ==
    {b \in [msg : 1 .. Len(script), at : Nat \ {0}] : b.at <= FrameLen(script, b.msg)}

\* The byte that comes after a byte.
Successor(script, b) ==
    IF b.at < FrameLen(script, b.msg) THEN [msg |-> b.msg, at |-> b.at + 1]
    ELSE [msg |-> b.msg + 1, at |-> 1]

\* Bytes one after the other, nothing left out.
IsStretch(script, s) ==
    /\ s \in Seq(ByteOf(script))
    /\ \A i \in 1 .. Len(s) - 1 : s[i + 1] = Successor(script, s[i])

\* What is left of s without its first k.
Suffix(s, k) == SubSeq(s, k + 1, Len(s))

\* A frame is longer than its prefix and fits the decoder's buffer.
LEMMA FrameLenType ==
    ASSUME NEW script \in Seq(Message), NEW n \in 1 .. Len(script)
    PROVE  /\ FrameLen(script, n) \in Nat /\ FrameLen(script, n) > Prefix
           /\ FrameLen(script, n) <= MaxBuffer
           /\ script[n].size \in 1 .. MaxFrame
  <1>1. script[n] \in Message
    BY ElementOfSeq
  <1> QED
    BY <1>1, DecoderAssumption DEF Message, FrameLen, MaxBuffer

\* Length and elements of a suffix.
LEMMA SuffixProperties ==
    ASSUME NEW S, NEW s \in Seq(S), NEW k \in 0 .. Len(s)
    PROVE  /\ Suffix(s, k) \in Seq(S) /\ Len(Suffix(s, k)) = Len(s) - k
           /\ \A i \in 1 .. Len(s) - k : Suffix(s, k)[i] = s[k + i]
  <1>1. Len(s) \in Nat
    BY LenProperties
  <1>2. \A i \in k + 1 .. Len(s) : s[i] \in S
    BY <1>1, ElementOfSeq
  <1> HIDE DEF Suffix
  <1>3. /\ SubSeq(s, k + 1, Len(s)) \in Seq(S)
        /\ Len(SubSeq(s, k + 1, Len(s))) =
              IF k + 1 <= Len(s) THEN Len(s) - (k + 1) + 1 ELSE 0
        /\ \A i \in 1 .. Len(s) - (k + 1) + 1 :
              SubSeq(s, k + 1, Len(s))[i] = s[(k + 1) + i - 1]
    BY <1>1, <1>2, SubSeqProperties
  <1> QED
    BY <1>1, <1>3 DEF Suffix

\* A suffix of a stretch is a stretch.
LEMMA SuffixIsStretch ==
    ASSUME NEW script, NEW s, IsStretch(script, s), NEW k \in 0 .. Len(s)
    PROVE  IsStretch(script, Suffix(s, k))
  <1>1. s \in Seq(ByteOf(script)) /\ Len(s) \in Nat
    BY LenProperties DEF IsStretch
  <1>2. /\ Suffix(s, k) \in Seq(ByteOf(script)) /\ Len(Suffix(s, k)) = Len(s) - k
        /\ \A i \in 1 .. Len(s) - k : Suffix(s, k)[i] = s[k + i]
    BY <1>1, SuffixProperties
  <1>3. ASSUME NEW i \in 1 .. Len(Suffix(s, k)) - 1
        PROVE  Suffix(s, k)[i + 1] = Successor(script, Suffix(s, k)[i])
    <2>1. /\ i \in 1 .. Len(s) - k /\ i + 1 \in 1 .. Len(s) - k
          /\ k + i \in 1 .. Len(s) - 1 /\ k + (i + 1) = (k + i) + 1
      BY <1>1, <1>2
    <2>2. Suffix(s, k)[i] = s[k + i] /\ Suffix(s, k)[i + 1] = s[k + (i + 1)]
      BY <1>2, <2>1
    <2>3. s[(k + i) + 1] = Successor(script, s[k + i])
      BY <2>1 DEF IsStretch
    <2> HIDE DEF Suffix
    <2> QED
      BY <2>1, <2>2, <2>3
  <1> QED
    BY <1>2, <1>3 DEF IsStretch

\* A suffix of a suffix.
LEMMA SuffixOfSuffix ==
    ASSUME NEW S, NEW s \in Seq(S), NEW j \in 0 .. Len(s), NEW k \in 0 .. Len(s) - j
    PROVE  Suffix(Suffix(s, j), k) = Suffix(s, j + k)
  <1>1. Len(s) \in Nat
    BY LenProperties
  <1>2. /\ Suffix(s, j) \in Seq(S) /\ Len(Suffix(s, j)) = Len(s) - j
        /\ \A i \in 1 .. Len(s) - j : Suffix(s, j)[i] = s[j + i]
    BY <1>1, SuffixProperties
  <1>3. k \in 0 .. Len(Suffix(s, j)) /\ j + k \in 0 .. Len(s)
    BY <1>1, <1>2
  <1>4. /\ Suffix(Suffix(s, j), k) \in Seq(S)
        /\ Len(Suffix(Suffix(s, j), k)) = Len(s) - j - k
        /\ \A i \in 1 .. Len(s) - j - k : Suffix(Suffix(s, j), k)[i] = Suffix(s, j)[k + i]
    BY <1>2, <1>3, SuffixProperties
  <1>5. /\ Suffix(s, j + k) \in Seq(S) /\ Len(Suffix(s, j + k)) = Len(s) - (j + k)
        /\ \A i \in 1 .. Len(s) - (j + k) : Suffix(s, j + k)[i] = s[(j + k) + i]
    BY <1>1, <1>3, SuffixProperties
  <1>6. ASSUME NEW i \in 1 .. Len(s) - j - k
        PROVE  Suffix(Suffix(s, j), k)[i] = Suffix(s, j + k)[i]
    <2>1. k + i \in 1 .. Len(s) - j /\ j + (k + i) = (j + k) + i /\ i \in 1 .. Len(s) - (j + k)
      BY <1>1
    <2> QED
      BY <1>2, <1>4, <1>5, <2>1
  <1> QED
    BY <1>1, <1>4, <1>5, <1>6, SeqEqual

\* A stretch that starts a message goes on with it, byte for byte.
LEMMA StretchOfFrame ==
    ASSUME NEW script \in Seq(Message), NEW s, IsStretch(script, s),
           s # <<>>, s[1].at = 1
    PROVE  \A i \in 1 .. Len(s) :
              i <= FrameLen(script, s[1].msg) => s[i] = [msg |-> s[1].msg, at |-> i]
  <1> DEFINE first == s[1]
             size == FrameLen(script, first.msg)
             S == {i \in Nat : i \in 1 .. Len(s) /\ i <= size
                                  => s[i] = [msg |-> first.msg, at |-> i]}
  <1>1. s \in Seq(ByteOf(script)) /\ Len(s) \in Nat \ {0}
    BY EmptySeq DEF IsStretch
  <1>2. first \in ByteOf(script)
    BY <1>1, ElementOfSeq
  <1>3. size \in Nat
    BY <1>2, FrameLenType DEF ByteOf
  <1>4. first = [msg |-> first.msg, at |-> 1]
    BY <1>2 DEF ByteOf
  <1>5. ASSUME NEW i \in Nat, i \in S PROVE i + 1 \in S
    <2> SUFFICES ASSUME i + 1 \in 1 .. Len(s), i + 1 <= size
                 PROVE  s[i + 1] = [msg |-> first.msg, at |-> i + 1]
      OBVIOUS
    <2>1. CASE i = 0
      BY <1>4, <2>1
    <2>2. CASE i # 0
      <3>1. i \in 1 .. Len(s) - 1 /\ i < size
        BY <1>1, <1>3, <2>2
      <3>2. s[i] = [msg |-> first.msg, at |-> i]
        <4>1. i \in 1 .. Len(s) /\ i <= size
          BY <1>1, <1>3, <3>1
        <4> HIDE DEF size, first
        <4> QED
          BY <1>5, <4>1
      <3>3. s[i + 1] = Successor(script, s[i])
        BY <3>1 DEF IsStretch
      <3> QED
        BY <3>1, <3>2, <3>3 DEF Successor
    <2> QED
      BY <2>1, <2>2
  <1>6. 0 \in S
    BY <1>1
  <1>7. Nat \subseteq S
    <2> HIDE DEF S
    <2> QED
      BY <1>5, <1>6, SetInduction
  <1> QED
    BY <1>1, <1>7

\* The messages of a stretch never go back.
LEMMA StretchGrows ==
    ASSUME NEW script, NEW s, IsStretch(script, s), NEW i \in 1 .. Len(s)
    PROVE  s[1].msg <= s[i].msg
  <1> DEFINE S == {k \in Nat : k \in 1 .. Len(s) => s[1].msg <= s[k].msg}
  <1>1. s \in Seq(ByteOf(script)) /\ Len(s) \in Nat
    BY LenProperties DEF IsStretch
  <1>2. \A k \in 1 .. Len(s) : s[k].msg \in Nat
    BY <1>1, ElementOfSeq DEF ByteOf
  <1>3. ASSUME NEW k \in Nat, k \in S PROVE k + 1 \in S
    <2> SUFFICES ASSUME k + 1 \in 1 .. Len(s) PROVE s[1].msg <= s[k + 1].msg
      OBVIOUS
    <2>1. CASE k = 0
      BY <1>2, <2>1
    <2>2. CASE k # 0
      <3>1. k \in 1 .. Len(s) - 1 /\ k \in 1 .. Len(s) /\ 1 \in 1 .. Len(s)
        BY <1>1, <2>2
      <3>2. s[k + 1] = Successor(script, s[k])
        BY <3>1 DEF IsStretch
      <3>3. s[k + 1].msg = s[k].msg \/ s[k + 1].msg = s[k].msg + 1
        BY <3>2 DEF Successor
      <3>4. s[1].msg <= s[k].msg
        BY <1>3, <3>1
      <3> QED
        BY <1>2, <3>1, <3>3, <3>4
    <2> QED
      BY <2>1, <2>2
  <1>4. Nat \subseteq S
    <2> HIDE DEF S
    <2>1. 0 \in S
      BY <1>1 DEF S
    <2> QED
      BY <1>3, <2>1, SetInduction
  <1> QED
    BY <1>1, <1>4

\* Nothing is left of a stretch, or all of it.
LEMMA SuffixEnds ==
    ASSUME NEW S, NEW s \in Seq(S)
    PROVE  Suffix(s, 0) = s /\ Suffix(s, Len(s)) = <<>>
  <1>1. Len(s) \in Nat
    BY LenProperties
  <1>2. /\ Suffix(s, 0) \in Seq(S) /\ Len(Suffix(s, 0)) = Len(s) - 0
        /\ \A i \in 1 .. Len(s) - 0 : Suffix(s, 0)[i] = s[0 + i]
    BY <1>1, SuffixProperties
  <1>3. Suffix(s, 0) = s
    BY <1>1, <1>2, SeqEqual
  <1>4. Suffix(s, Len(s)) = <<>>
    BY <1>1, SubSeqEmpty DEF Suffix
  <1> QED
    BY <1>3, <1>4

\* The next message of a stretch follows when one is complete.
LEMMA AfterFrame ==
    ASSUME NEW script \in Seq(Message), NEW s, IsStretch(script, s),
           s # <<>>, s[1].at = 1, FrameLen(script, s[1].msg) <= Len(s)
    PROVE  LET m == s[1].msg
               size == FrameLen(script, m) IN
           /\ m \in 1 .. Len(script) /\ size \in 1 .. Len(s) /\ size > Prefix
           /\ s[size] = [msg |-> m, at |-> size]
           /\ size < Len(s) => s[size + 1] = [msg |-> m + 1, at |-> 1]
  <1> DEFINE m == s[1].msg
             size == FrameLen(script, m)
  <1>1. s \in Seq(ByteOf(script)) /\ Len(s) \in Nat \ {0}
    BY EmptySeq DEF IsStretch
  <1>2. s[1] \in ByteOf(script)
    BY <1>1, ElementOfSeq
  <1>3. m \in 1 .. Len(script)
    BY <1>2 DEF ByteOf
  <1>4. size \in Nat /\ size > Prefix /\ size <= Len(s)
    BY <1>3, FrameLenType
  <1>5. size \in 1 .. Len(s)
    BY <1>1, <1>4, DecoderAssumption
  <1>6. s[size] = [msg |-> m, at |-> size]
    BY <1>5, StretchOfFrame
  <1>7. ASSUME size < Len(s) PROVE s[size + 1] = [msg |-> m + 1, at |-> 1]
    <2>1. size \in 1 .. Len(s) - 1
      BY <1>1, <1>5, <1>7
    <2>2. s[size + 1] = Successor(script, s[size])
      BY <2>1 DEF IsStretch
    <2>3. s[size].msg = m /\ s[size].at = size
      BY <1>6
    <2>4. ~(s[size].at < FrameLen(script, s[size].msg))
      BY <1>4, <2>3
    <2> QED
      BY <2>2, <2>3, <2>4 DEF Successor
  <1> QED
    BY <1>3, <1>4, <1>5, <1>6, <1>7

-----------------------------------------------------------------------------
(***************************************************************************)
(* What the decoder makes of a stretch: consecutive messages from its      *)
(* start, and a stretch that goes on where they end.  It fails on a bad    *)
(* message or when it does not start at one, and loses what it decoded.    *)
(***************************************************************************)
Aligned(s) == s # <<>> => s[1].at = 1

AllGood(script) == \A n \in DOMAIN script : script[n].sort # "bad"

\* After the messages read from an aligned stretch comes the next, incomplete.
GoesOn(script, s, out, rest) ==
    LET next == s[1].msg + Len(out) IN
    IF rest = <<>>
    THEN s[Len(s)] = [msg |-> next - 1, at |-> FrameLen(script, next - 1)]
    ELSE rest[1] = [msg |-> next, at |-> 1] /\ Len(rest) < FrameLen(script, next)

Reading(script, s, ok, out, rest) ==
    /\ out \in Seq(Nat)
    /\ \E k \in 0 .. Len(s) : rest = Suffix(s, k)
    /\ Len(s) <= MaxBuffer => Len(rest) < MaxBuffer
    /\ \A i \in 1 .. Len(out) : out[i] = s[1].msg + i - 1
    /\ Len(out) > 0 => /\ s # <<>> /\ s[1].at = 1
                       /\ s[1].msg + Len(out) - 1 <= s[Len(s)].msg
    /\ ~ok => out = <<>>
    /\ ok /\ s # <<>> /\ Aligned(s) => GoesOn(script, s, out, rest)
    /\ AllGood(script) /\ Aligned(s) => ok

\* A stretch that is too short for the message it starts is kept.
LEMMA WaitingReads ==
    ASSUME NEW script \in Seq(Message), NEW s, IsStretch(script, s),
           Len(s) < MaxBuffer,
           s # <<>> /\ s[1].at = 1 => Len(s) < FrameLen(script, s[1].msg)
    PROVE  Reading(script, s, TRUE, <<>>, s)
  <1>1. s \in Seq(ByteOf(script)) /\ Len(s) \in Nat
    BY LenProperties DEF IsStretch
  <1>2. Len(<<>>) = 0 /\ <<>> \in Seq(Nat)
    BY EmptySeq
  <1>3. s = Suffix(s, 0) /\ 0 \in 0 .. Len(s)
    BY <1>1, SuffixEnds
  <1>4. ASSUME s # <<>>, Aligned(s) PROVE GoesOn(script, s, <<>>, s)
    <2>1. s[1] \in ByteOf(script) /\ s[1].at = 1
      BY <1>1, <1>4, EmptySeq, ElementOfSeq DEF Aligned
    <2>2. s[1] = [msg |-> s[1].msg, at |-> 1] /\ s[1].msg + 0 = s[1].msg
      BY <2>1 DEF ByteOf
    <2> QED
      BY <1>2, <1>4, <2>1, <2>2 DEF GoesOn
  <1> QED
    BY <1>2, <1>3, <1>4 DEF Reading

\* A stretch the decoder gives up on, and of which it keeps less.
LEMMA FailureReads ==
    ASSUME NEW script, NEW s, IsStretch(script, s), NEW k \in 1 .. Len(s),
           ~(AllGood(script) /\ Aligned(s))
    PROVE  Reading(script, s, FALSE, <<>>, Suffix(s, k))
  <1>1. s \in Seq(ByteOf(script)) /\ Len(s) \in Nat
    BY LenProperties DEF IsStretch
  <1>2. k \in 0 .. Len(s)
    BY <1>1
  <1>3. Suffix(s, k) \in Seq(ByteOf(script)) /\ Len(Suffix(s, k)) = Len(s) - k
    BY <1>1, <1>2, SuffixProperties
  <1>4. Len(<<>>) = 0 /\ <<>> \in Seq(Nat)
    BY EmptySeq
  <1>5. Len(s) <= MaxBuffer => Len(Suffix(s, k)) < MaxBuffer
    BY <1>1, <1>3, DecoderAssumption DEF MaxBuffer
  <1> QED
    BY <1>2, <1>4, <1>5 DEF Reading

\* A message in front of others.
LEMMA InFront ==
    ASSUME NEW x \in Nat, NEW out \in Seq(Nat)
    PROVE  /\ <<x>> \o out \in Seq(Nat) /\ Len(<<x>> \o out) = Len(out) + 1
           /\ (<<x>> \o out)[1] = x
           /\ \A i \in 2 .. Len(out) + 1 : (<<x>> \o out)[i] = out[i - 1]
  <1>1. <<x>> \in Seq(Nat) /\ Len(<<x>>) = 1 /\ <<x>>[1] = x /\ Len(out) \in Nat
    BY LenProperties
  <1>2. /\ <<x>> \o out \in Seq(Nat) /\ Len(<<x>> \o out) = Len(<<x>>) + Len(out)
        /\ \A i \in 1 .. Len(<<x>>) + Len(out) :
              (<<x>> \o out)[i] = IF i <= Len(<<x>>) THEN <<x>>[i] ELSE out[i - Len(<<x>>)]
    BY <1>1, ConcatProperties
  <1> DEFINE all == <<x>> \o out
  <1> HIDE DEF all
  <1>3. \A i \in 1 .. 1 + Len(out) : all[i] = IF i <= 1 THEN x ELSE out[i - 1]
    BY <1>1, <1>2 DEF all
  <1>4. all[1] = x /\ \A i \in 2 .. Len(out) + 1 : all[i] = out[i - 1]
    BY <1>1, <1>3
  <1> QED
    BY <1>1, <1>2, <1>4 DEF all

\* One message more than what comes of the rest.
LEMMA MessageReads ==
    ASSUME NEW script \in Seq(Message), NEW s, IsStretch(script, s),
           s # <<>>, s[1].at = 1, FrameLen(script, s[1].msg) <= Len(s),
           NEW later, NEW rest,
           Reading(script, Suffix(s, FrameLen(script, s[1].msg)), TRUE, later, rest)
    PROVE  Reading(script, s, TRUE, <<s[1].msg>> \o later, rest)
  <1> DEFINE m == s[1].msg
             size == FrameLen(script, m)
             t == Suffix(s, size)
             out == <<m>> \o later
  <1>1. s \in Seq(ByteOf(script)) /\ Len(s) \in Nat
    BY LenProperties DEF IsStretch
  <1>2. /\ m \in 1 .. Len(script) /\ m \in Nat
        /\ size \in 1 .. Len(s) /\ size \in 0 .. Len(s)
        /\ s[size] = [msg |-> m, at |-> size]
        /\ size < Len(s) => s[size + 1] = [msg |-> m + 1, at |-> 1]
    BY <1>1, AfterFrame
  <1>3. /\ t \in Seq(ByteOf(script)) /\ Len(t) = Len(s) - size
        /\ \A i \in 1 .. Len(s) - size : t[i] = s[size + i]
    BY <1>1, <1>2, SuffixProperties
  <1>4. later \in Seq(Nat) /\ Len(later) \in Nat
    BY LenProperties DEF Reading
  <1>5. /\ out \in Seq(Nat) /\ Len(out) = Len(later) + 1
        /\ out[1] = m /\ \A i \in 2 .. Len(later) + 1 : out[i] = later[i - 1]
    BY <1>2, <1>4, InFront
  <1>6. Reading(script, t, TRUE, later, rest)
    OBVIOUS
  <1>7. s[1].msg = m /\ size = FrameLen(script, m)
    OBVIOUS
  <1> HIDE DEF m, size, t, out
  <1>8. /\ t # <<>> => Len(t) > 0 /\ t[1] = s[size + 1] /\ t[Len(t)] = s[Len(s)]
        /\ t = <<>> => size = Len(s)
    <2>1. CASE t = <<>>
      BY <1>1, <1>2, <1>3, <2>1, EmptySeq
    <2>2. CASE t # <<>>
      <3>1. Len(t) \in Nat /\ Len(t) > 0
        BY <1>3, <2>2, EmptySeq, LenProperties
      <3>2. 1 \in 1 .. Len(s) - size /\ Len(t) \in 1 .. Len(s) - size
        BY <1>1, <1>2, <1>3, <3>1
      <3>3. t[1] = s[size + 1] /\ t[Len(t)] = s[size + Len(t)]
        BY <1>3, <3>2
      <3>4. size + Len(t) = Len(s)
        BY <1>1, <1>2, <1>3
      <3> QED
        BY <2>2, <3>1, <3>3, <3>4
    <2> QED
      BY <2>1, <2>2
  <1>9. t # <<>> => t[1] = [msg |-> m + 1, at |-> 1] /\ Aligned(t)
    BY <1>1, <1>2, <1>3, <1>8 DEF Aligned
  <1>10. \E k \in 0 .. Len(s) : rest = Suffix(s, k)
    <2>1. PICK k \in 0 .. Len(t) : rest = Suffix(t, k)
      BY <1>6 DEF Reading
    <2>2. Suffix(t, k) = Suffix(s, size + k)
      BY <1>1, <1>2, <1>3, <2>1, SuffixOfSuffix DEF t
    <2>3. size + k \in 0 .. Len(s)
      BY <1>1, <1>2, <1>3, <2>1
    <2> QED
      BY <2>1, <2>2, <2>3
  <1>11. Len(s) <= MaxBuffer => Len(rest) < MaxBuffer
    <2>1. Len(t) <= Len(s) /\ MaxBuffer \in Nat /\ Len(t) \in Nat
      BY <1>1, <1>2, <1>3, DecoderAssumption DEF MaxBuffer
    <2> QED
      BY <1>1, <1>6, <2>1 DEF Reading
  <1>12. ASSUME NEW i \in 1 .. Len(out) PROVE out[i] = m + i - 1
    <2>1. CASE i = 1
      BY <1>2, <1>5, <2>1
    <2>2. CASE i # 1
      <3>1. i \in 2 .. Len(later) + 1 /\ i - 1 \in 1 .. Len(later)
        BY <1>4, <1>5, <2>2
      <3>2. out[i] = later[i - 1]
        BY <1>5, <3>1
      <3>3. later[i - 1] = t[1].msg + (i - 1) - 1
        BY <1>6, <3>1 DEF Reading
      <3>4. t[1].msg = m + 1
        BY <1>4, <1>6, <1>9, <3>1 DEF Reading
      <3> QED
        BY <1>2, <3>1, <3>2, <3>3, <3>4
    <2> QED
      BY <2>1, <2>2
  <1>13. m + Len(out) - 1 <= s[Len(s)].msg
    <2>1. CASE Len(later) = 0
      <3>1. m + Len(out) - 1 = m
        BY <1>2, <1>5, <2>1
      <3>2. Len(s) \in 1 .. Len(s)
        BY <1>1, <1>2
      <3>3. m <= s[Len(s)].msg
        BY <1>7, <3>2, StretchGrows
      <3> QED
        BY <3>1, <3>3
    <2>2. CASE Len(later) # 0
      <3>1. t # <<>> /\ t[1].msg + Len(later) - 1 <= t[Len(t)].msg
        BY <1>4, <1>6, <2>2 DEF Reading
      <3>2. t[1].msg = m + 1 /\ t[Len(t)] = s[Len(s)]
        BY <1>8, <1>9, <3>1
      <3>3. m + Len(out) - 1 = t[1].msg + Len(later) - 1
        BY <1>2, <1>4, <1>5, <3>2
      <3> QED
        BY <3>1, <3>2, <3>3
    <2> QED
      BY <2>1, <2>2
  <1>14. GoesOn(script, s, out, rest)
    <2>1. CASE t = <<>>
      <3>1. rest = <<>>
        <4>1. PICK k \in 0 .. Len(t) : rest = Suffix(t, k)
          BY <1>6 DEF Reading
        <4>2. k = 0
          BY <1>2, <1>3, <1>8, <2>1, <4>1
        <4> QED
          BY <1>3, <2>1, <4>1, <4>2, SuffixEnds
      <3>2. Len(later) = 0
        BY <1>4, <1>6, <2>1 DEF Reading
      <3>3. m + Len(out) - 1 = m /\ m + Len(out) = m + 1
        BY <1>2, <1>5, <3>2
      <3>4. s[Len(s)] = [msg |-> m, at |-> FrameLen(script, m)]
        BY <1>2, <1>7, <1>8, <2>1
      <3>5. (m + Len(out)) - 1 = m
        BY <1>2, <1>5, <3>2
      <3> QED
        BY <1>7, <3>1, <3>4, <3>5 DEF GoesOn
    <2>2. CASE t # <<>>
      <3>1. GoesOn(script, t, later, rest)
        BY <1>6, <1>9, <2>2 DEF Reading
      <3>2. t[1].msg + Len(later) = m + Len(out)
        BY <1>2, <1>4, <1>5, <1>9, <2>2
      <3> QED
        BY <1>7, <1>8, <2>2, <3>1, <3>2 DEF GoesOn
    <2> QED
      BY <2>1, <2>2
  <1>15. Reading(script, s, TRUE, out, rest)
    BY <1>5, <1>7, <1>10, <1>11, <1>12, <1>13, <1>14 DEF Reading
  <1> QED
    BY <1>15 DEF out, m

\* The messages of a stretch are lost with one that comes after them.
LEMMA LossReads ==
    ASSUME NEW script \in Seq(Message), NEW s, IsStretch(script, s),
           NEW k \in 1 .. Len(s), Aligned(s) => Aligned(Suffix(s, k)),
           NEW later, NEW rest, Reading(script, Suffix(s, k), FALSE, later, rest)
    PROVE  Reading(script, s, FALSE, later, rest)
  <1> DEFINE t == Suffix(s, k)
  <1>1. s \in Seq(ByteOf(script)) /\ Len(s) \in Nat /\ k \in 0 .. Len(s) /\ k \in Nat
    BY LenProperties DEF IsStretch
  <1>2. t \in Seq(ByteOf(script)) /\ Len(t) = Len(s) - k
    BY <1>1, SuffixProperties
  <1>3. Reading(script, t, FALSE, later, rest)
    OBVIOUS
  <1>4. \E j \in 0 .. Len(s) : rest = Suffix(s, j)
    <2>1. PICK j \in 0 .. Len(t) : rest = Suffix(t, j)
      BY <1>3 DEF Reading
    <2>2. j \in 0 .. Len(s) - k /\ k + j \in 0 .. Len(s)
      BY <1>1, <1>2, <2>1
    <2>3. Suffix(t, j) = Suffix(s, k + j)
      BY <1>1, <2>2, SuffixOfSuffix
    <2> QED
      BY <2>1, <2>2, <2>3
  <1> HIDE DEF t
  <1>5. Len(s) <= MaxBuffer => Len(rest) < MaxBuffer
    <2>1. Len(t) <= Len(s) /\ MaxBuffer \in Nat /\ Len(t) \in Nat
      BY <1>1, <1>2, DecoderAssumption DEF MaxBuffer
    <2> QED
      BY <1>1, <1>3, <2>1 DEF Reading
  <1>6. later = <<>> /\ later \in Seq(Nat) /\ Len(later) = 0
    BY <1>3, EmptySeq DEF Reading
  <1>7. ~(AllGood(script) /\ Aligned(s))
    BY <1>3 DEF Reading, t
  <1> QED
    BY <1>4, <1>5, <1>6, <1>7 DEF Reading

\* What a run of the decoder returns.
Result(script) == [ok : BOOLEAN, out : Seq(Nat), rest : Seq(ByteOf(script))]

\* A round of the loop, when the loop is right about what it leaves.
LEMMA RoundReads ==
    ASSUME NEW script \in Seq(Message), NEW s, IsStretch(script, s),
           NEW misread \in Nat, NEW loop,
           \A k \in 1 .. Len(s) :
              /\ loop[Len(s) - k].ok \in BOOLEAN
              /\ Reading(script, Suffix(s, k), loop[Len(s) - k].ok,
                         loop[Len(s) - k].out, loop[Len(s) - k].rest)
    PROVE  LET r == TryParseOne(script, s, misread, loop) IN
           r.ok \in BOOLEAN /\ Reading(script, s, r.ok, r.out, r.rest)
  <1> DEFINE len == Declared(script, s, misread)
             r == TryParseOne(script, s, misread, loop)
             Good == r.ok \in BOOLEAN /\ Reading(script, s, r.ok, r.out, r.rest)
  <1>1. s \in Seq(ByteOf(script)) /\ Len(s) \in Nat
    BY LenProperties DEF IsStretch
  <1>2. Prefix \in Nat \ {0} /\ MaxFrame \in Nat \ {0} /\ MaxBuffer = MaxFrame + Prefix
    BY DecoderAssumption DEF MaxBuffer
  <1>3. ASSUME s # <<>>
        PROVE  /\ len \in Nat
               /\ s[1].at = 1 => /\ s[1].msg \in 1 .. Len(script)
                                 /\ len = script[s[1].msg].size
                                 /\ Prefix + len = FrameLen(script, s[1].msg)
                                 /\ len <= MaxFrame
    <2>1. s[1] \in ByteOf(script)
      BY <1>1, <1>3, EmptySeq, ElementOfSeq
    <2>2. s[1].msg \in 1 .. Len(script) /\ s[1].at \in Nat \ {0}
      BY <2>1 DEF ByteOf
    <2>3. script[s[1].msg].size \in 1 .. MaxFrame
      BY <2>2, FrameLenType
    <2> QED
      BY <1>2, <2>2, <2>3 DEF Declared, FrameLen
  <1>4. ASSUME r = [ok |-> TRUE, out |-> <<>>, rest |-> s], Len(s) < MaxBuffer,
               s # <<>> /\ s[1].at = 1 => Len(s) < FrameLen(script, s[1].msg)
        PROVE  Good
    <2>1. Reading(script, s, TRUE, <<>>, s)
      BY <1>4, WaitingReads
    <2>2. r.ok = TRUE /\ r.out = <<>> /\ r.rest = s
      BY <1>4
    <2> QED
      BY <2>1, <2>2
  <1>5. ASSUME NEW k \in 1 .. Len(s), ~(AllGood(script) /\ Aligned(s)),
               r = [ok |-> FALSE, out |-> <<>>, rest |-> Suffix(s, k)]
        PROVE  Good
    <2>1. Reading(script, s, FALSE, <<>>, Suffix(s, k))
      BY <1>5, FailureReads
    <2>2. r.ok = FALSE /\ r.out = <<>> /\ r.rest = Suffix(s, k)
      BY <1>5
    <2> QED
      BY <2>1, <2>2
  <1>6. CASE Len(s) < Prefix
    <2>1. r = [ok |-> TRUE, out |-> <<>>, rest |-> s]
      BY <1>6 DEF TryParseOne
    <2>2. Len(s) < MaxBuffer
      BY <1>1, <1>2, <1>6
    <2>3. ASSUME s # <<>>, s[1].at = 1 PROVE Len(s) < FrameLen(script, s[1].msg)
      <3>1. FrameLen(script, s[1].msg) > Prefix /\ FrameLen(script, s[1].msg) \in Nat
        BY <1>3, <2>3, FrameLenType
      <3> QED
        BY <1>1, <1>2, <1>6, <3>1
    <2> QED
      BY <1>4, <2>1, <2>2, <2>3
  <1>7. CASE Len(s) >= Prefix
    <2>1. s # <<>> /\ ~(Len(s) < Prefix) /\ Len(s) > 0
      BY <1>1, <1>2, <1>7, EmptySeq
    <2>2. len \in Nat
      BY <1>3, <2>1
    <2>3. CASE len > MaxFrame
      <3>1. r = Failed
        BY <2>1, <2>3 DEF TryParseOne
      <3>2. s[1].at # 1
        <4> HIDE DEF len
        <4> QED
          BY <1>2, <1>3, <2>1, <2>2, <2>3
      <3>3. Len(s) \in 1 .. Len(s)
        BY <1>1, <2>1
      <3>4. Suffix(s, Len(s)) = <<>>
        BY <1>1, SuffixEnds
      <3> QED
        BY <1>5, <2>1, <3>1, <3>2, <3>3, <3>4 DEF Failed, Aligned
    <2>4. CASE len <= MaxFrame /\ Len(s) < Prefix + len
      <3>1. ~(len > MaxFrame)
        BY <1>2, <2>2, <2>4
      <3>2. r = [ok |-> TRUE, out |-> <<>>, rest |-> s]
        BY <2>1, <2>4, <3>1 DEF TryParseOne
      <3>3. Len(s) < MaxBuffer
        BY <1>1, <1>2, <2>2, <2>4
      <3>4. s[1].at = 1 => Len(s) < FrameLen(script, s[1].msg)
        BY <1>3, <2>1, <2>4
      <3> QED
        BY <1>4, <3>2, <3>3, <3>4
    <2>5. CASE len <= MaxFrame /\ Len(s) >= Prefix + len
      <3>1. ~(len > MaxFrame) /\ ~(Len(s) < Prefix + len) /\ Prefix + len \in 1 .. Len(s)
        BY <1>1, <1>2, <2>2, <2>5
      <3>2. CASE ~IsMessage(script, s)
        <4>1. r = [ok |-> FALSE, out |-> <<>>,
                   rest |-> SubSeq(s, Prefix + len + 1, Len(s))]
          BY <2>1, <3>1, <3>2 DEF TryParseOne
        <4>2. ASSUME s[1].at = 1, AllGood(script) PROVE FALSE
          <5>1. s[1].msg \in DOMAIN script
            BY <1>3, <2>1, <4>2, LenProperties
          <5> QED
            BY <3>2, <4>2, <5>1 DEF IsMessage, AllGood
        <4> QED
          BY <1>5, <2>1, <3>1, <4>1, <4>2 DEF Suffix, Aligned
      <3>3. CASE IsMessage(script, s)
        <4> DEFINE size == FrameLen(script, s[1].msg)
                   later == loop[Len(s) - size]
        <4>1. s[1].at = 1 /\ Prefix + len = size /\ size \in 1 .. Len(s)
          BY <1>3, <2>1, <3>1, <3>3 DEF IsMessage
        <4>2. Len(s) - Prefix - len = Len(s) - size
          <5> HIDE DEF len, size
          <5> QED
            BY <1>1, <1>2, <2>2, <4>1
        <4>3. r = IF ~later.ok THEN later
                  ELSE [ok |-> TRUE, out |-> <<s[1].msg>> \o later.out,
                        rest |-> later.rest]
          <5> DEFINE other == loop[Len(s) - Prefix - len]
          <5>1. r = IF ~other.ok THEN other
                    ELSE [ok |-> TRUE, out |-> <<s[1].msg>> \o other.out,
                          rest |-> other.rest]
            BY <2>1, <3>1, <3>3 DEF TryParseOne
          <5>2. other = later
            BY <4>2
          <5> QED
            BY <5>1, <5>2
        <4>4. /\ later.ok \in BOOLEAN
              /\ Reading(script, Suffix(s, size), later.ok, later.out, later.rest)
          BY <4>1
        <4>5. size <= Len(s)
          BY <4>1
        <4>6. CASE later.ok
          <5>1. Reading(script, Suffix(s, size), TRUE, later.out, later.rest)
            BY <4>4, <4>6
          <5>2. Reading(script, s, TRUE, <<s[1].msg>> \o later.out, later.rest)
            BY <2>1, <4>1, <4>5, <5>1, MessageReads
          <5>3. /\ r.ok = TRUE /\ r.out = <<s[1].msg>> \o later.out
                /\ r.rest = later.rest
            <6> HIDE DEF r, later
            <6>1. r = [ok |-> TRUE, out |-> <<s[1].msg>> \o later.out, rest |-> later.rest]
              BY <4>3, <4>6
            <6> QED
              BY <6>1
          <5>4. Good
            <6> HIDE DEF r
            <6> QED
              BY <5>2, <5>3
          <5> QED
            BY <5>4
        <4>7. CASE ~later.ok
          <5>1. Reading(script, Suffix(s, size), FALSE, later.out, later.rest)
            BY <4>4, <4>7
          <5>2. Aligned(Suffix(s, size))
            <6> DEFINE t == Suffix(s, size)
            <6>1. size < Len(s) => s[size + 1] = [msg |-> s[1].msg + 1, at |-> 1]
              BY <2>1, <4>1, <4>5, AfterFrame
            <6>2. size \in 0 .. Len(s) /\ size \in Nat
              <7> HIDE DEF size
              <7> QED
                BY <1>1, <4>1
            <6>3. /\ t \in Seq(ByteOf(script)) /\ Len(t) = Len(s) - size
                  /\ \A i \in 1 .. Len(s) - size : t[i] = s[size + i]
              BY <1>1, <6>2, SuffixProperties
            <6> HIDE DEF t, size
            <6>4. ASSUME t # <<>> PROVE t[1].at = 1
              <7>1. Len(t) \in Nat /\ Len(t) # 0
                BY <6>3, <6>4, EmptySeq, LenProperties
              <7>2. 1 \in 1 .. Len(s) - size /\ size < Len(s)
                BY <1>1, <6>2, <6>3, <7>1
              <7>3. t[1] = [msg |-> s[1].msg + 1, at |-> 1]
                BY <6>1, <6>3, <7>2
              <7> QED
                BY <7>3
            <6> QED
              BY <6>4 DEF Aligned, t
          <5>3. Reading(script, s, FALSE, later.out, later.rest)
            BY <4>1, <5>1, <5>2, LossReads
          <5>4. r = later /\ r.ok = FALSE
            BY <4>3, <4>4, <4>7
          <5>5. Good
            <6> HIDE DEF r
            <6> QED
              BY <5>3, <5>4
          <5> QED
            BY <5>5
        <4> QED
          BY <4>6, <4>7
      <3> QED
        BY <3>2, <3>3
    <2> QED
      <3> HIDE DEF len, Good
      <3> QED
        BY <1>1, <1>2, <2>2, <2>3, <2>4, <2>5
  <1> QED
    BY <1>1, <1>2, <1>6, <1>7

\* What is at the start of a stretch states a length.
LEMMA DeclaredType ==
    ASSUME NEW script \in Seq(Message), NEW s \in Seq(ByteOf(script)), s # <<>>,
           NEW misread \in Nat
    PROVE  Declared(script, s, misread) \in Nat
  <1>1. s[1] \in ByteOf(script)
    BY EmptySeq, ElementOfSeq
  <1>2. s[1].msg \in 1 .. Len(script) /\ s[1].at \in Nat \ {0}
    BY <1>1 DEF ByteOf
  <1>3. script[s[1].msg].size \in 1 .. MaxFrame
    BY <1>2, FrameLenType
  <1> QED
    BY <1>2, <1>3, DecoderAssumption DEF Declared

\* A round returns a result when what comes after is one.
LEMMA RoundType ==
    ASSUME NEW script \in Seq(Message), NEW s \in Seq(ByteOf(script)),
           NEW misread \in Nat, NEW loop,
           \A n \in 0 .. Len(s) - 1 : loop[n] \in Result(script)
    PROVE  TryParseOne(script, s, misread, loop) \in Result(script)
  <1> DEFINE len == Declared(script, s, misread)
             after == SubSeq(s, Prefix + len + 1, Len(s))
             later == loop[Len(s) - Prefix - len]
             message == [ok |-> TRUE, out |-> <<s[1].msg>> \o later.out,
                         rest |-> later.rest]
             waiting == [ok |-> TRUE, out |-> <<>>, rest |-> s]
             lost == [ok |-> FALSE, out |-> <<>>, rest |-> after]
  <1>1. Len(s) \in Nat /\ Prefix \in Nat \ {0} /\ <<>> \in Seq(Nat)
        /\ <<>> \in Seq(ByteOf(script))
    BY LenProperties, EmptySeq, DecoderAssumption
  <1>2. waiting \in Result(script) /\ Failed \in Result(script)
    BY <1>1 DEF Result, Failed
  <1>3. ASSUME ~(Len(s) < Prefix), ~(Len(s) < Prefix + len)
        PROVE  lost \in Result(script) /\ later \in Result(script) /\ message \in Result(script)
    <2>1. s # <<>>
      BY <1>1, <1>3, EmptySeq
    <2>2. len \in Nat
      BY <2>1, DeclaredType
    <2> HIDE DEF len
    <2>3. Prefix + len \in 0 .. Len(s) /\ Len(s) - Prefix - len \in 0 .. Len(s) - 1
      BY <1>1, <1>3, <2>2
    <2>4. after \in Seq(ByteOf(script))
      BY <2>3, SuffixProperties DEF Suffix
    <2>5. later \in Result(script)
      BY <2>3
    <2>6. s[1].msg \in Nat
      <3>1. s[1] \in ByteOf(script)
        BY <2>1, EmptySeq, ElementOfSeq
      <3> QED
        BY <3>1 DEF ByteOf
    <2> HIDE DEF after, later
    <2>7. later.out \in Seq(Nat) /\ later.rest \in Seq(ByteOf(script))
      BY <2>5 DEF Result
    <2>8. <<s[1].msg>> \o later.out \in Seq(Nat)
      BY <2>6, <2>7, InFront
    <2> QED
      BY <1>1, <2>4, <2>5, <2>7, <2>8 DEF Result
  <1>4. TryParseOne(script, s, misread, loop) =
          IF Len(s) < Prefix THEN waiting
          ELSE IF len > MaxFrame THEN Failed
          ELSE IF Len(s) < Prefix + len THEN waiting
          ELSE IF ~IsMessage(script, s) THEN lost
          ELSE IF ~later.ok THEN later ELSE message
    BY DEF TryParseOne
  <1> HIDE DEF len, waiting, lost, later, message
  <1> QED
    BY <1>2, <1>3, <1>4

\* A round asks only what comes of fewer bytes.
LEMMA RoundLooksBelow ==
    ASSUME NEW script \in Seq(Message), NEW s \in Seq(ByteOf(script)),
           NEW misread \in Nat, NEW f, NEW g,
           \A n \in 0 .. Len(s) - 1 : f[n] = g[n]
    PROVE  TryParseOne(script, s, misread, f) = TryParseOne(script, s, misread, g)
  <1> DEFINE len == Declared(script, s, misread)
             from == Len(s) - Prefix - len
             after == SubSeq(s, Prefix + len + 1, Len(s))
             waiting == [ok |-> TRUE, out |-> <<>>, rest |-> s]
             lost == [ok |-> FALSE, out |-> <<>>, rest |-> after]
             Then(later) == IF ~later.ok THEN later
                            ELSE [ok |-> TRUE, out |-> <<s[1].msg>> \o later.out,
                                  rest |-> later.rest]
             Round(later) == IF Len(s) < Prefix THEN waiting
                             ELSE IF len > MaxFrame THEN Failed
                             ELSE IF Len(s) < Prefix + len THEN waiting
                             ELSE IF ~IsMessage(script, s) THEN lost
                             ELSE Then(later)
  <1>1. Len(s) \in Nat /\ Prefix \in Nat \ {0}
    BY LenProperties, DecoderAssumption
  <1>2. ASSUME ~(Len(s) < Prefix), ~(Len(s) < Prefix + len)
        PROVE  f[from] = g[from]
    <2>1. s # <<>>
      BY <1>1, <1>2, EmptySeq
    <2>2. len \in Nat
      BY <2>1, DeclaredType
    <2> HIDE DEF len
    <2>3. from \in 0 .. Len(s) - 1
      BY <1>1, <1>2, <2>2
    <2> QED
      BY <2>3
  <1>3. /\ TryParseOne(script, s, misread, f) = Round(f[from])
        /\ TryParseOne(script, s, misread, g) = Round(g[from])
    BY DEF TryParseOne
  <1>4. ASSUME Len(s) < Prefix \/ Len(s) < Prefix + len
        PROVE  Round(f[from]) = Round(g[from])
    <2> HIDE DEF Then, waiting, lost, len, from
    <2> QED
      BY <1>4
  <1> HIDE DEF Round, from, len
  <1> QED
    BY <1>2, <1>3, <1>4

\* The loop of the decoder is the function its rounds define.
LEMMA LoopIsFunction ==
    ASSUME NEW script \in Seq(Message), NEW s \in Seq(ByteOf(script)),
           NEW misread \in Nat
    PROVE  LET loop == Loop(script, s, misread) IN
           \A n \in 0 .. Len(s) :
              loop[n] = TryParseOne(script, Suffix(s, Len(s) - n), misread, loop)
  <1> DEFINE V == Result(script)
             At(n) == Suffix(s, Len(s) - n)
             Round(n, g) == TryParseOne(script, At(n), misread, g)
             step == [n \in Nat |-> [g \in [0 .. (n - 1) -> V] |->
                         IF n <= Len(s) THEN Round(n, g) ELSE Failed]]
  <1>1. Len(s) \in Nat
    BY LenProperties
  <1>2. ASSUME NEW n \in 0 .. Len(s)
        PROVE  At(n) \in Seq(ByteOf(script)) /\ Len(At(n)) = n
    <2>1. Len(s) - n \in 0 .. Len(s) /\ Len(s) - (Len(s) - n) = n
      BY <1>1
    <2> QED
      BY <2>1, SuffixProperties
  <1>3. Failed \in V
    BY EmptySeq DEF Failed, Result
  <1>4. ASSUME NEW n \in 0 .. Len(s), NEW g \in [0 .. (n - 1) -> V]
        PROVE  Round(n, g) \in V
    <2> DEFINE here == At(n)
    <2>1. here \in Seq(ByteOf(script)) /\ Len(here) = n
      BY <1>2
    <2> HIDE DEF here
    <2>2. \A k \in 0 .. Len(here) - 1 : g[k] \in V
      BY <2>1
    <2>3. TryParseOne(script, here, misread, g) \in V
      BY <2>1, <2>2, RoundType
    <2> QED
      BY <2>3 DEF here
  <1>5. IsStep(step, V)
    <2> SUFFICES ASSUME NEW n \in Nat, NEW g \in [0 .. (n - 1) -> V]
                 PROVE  step[n][g] \in V
      BY DEF IsStep
    <2> HIDE DEF Round, V
    <2>1. step[n][g] = IF n <= Len(s) THEN Round(n, g) ELSE Failed
      OBVIOUS
    <2>2. CASE n <= Len(s)
      <3>1. n \in 0 .. Len(s)
        BY <2>2
      <3>2. Round(n, g) \in V
        BY <1>4, <3>1
      <3> QED
        BY <2>1, <2>2, <3>2
    <2>3. CASE ~(n <= Len(s))
      BY <1>3, <2>1, <2>3
    <2> QED
      BY <2>2, <2>3
  <1>6. PICK f \in [Nat -> V] : \A n \in Nat : f[n] = step[n][Below(f, n)]
    <2> HIDE DEF step, V
    <2> QED
      BY <1>5, RecursiveFunctionExists
  <1> DEFINE g == [n \in 0 .. Len(s) |-> f[n]]
  <1>7. ASSUME NEW n \in 0 .. Len(s) PROVE g[n] = Round(n, g)
    <2> DEFINE here == At(n)
               less == Below(f, n)
    <2>1. n \in Nat /\ n <= Len(s)
      BY <1>1
    <2>2. less \in [0 .. (n - 1) -> V] /\ \A k \in 0 .. n - 1 : less[k] = f[k]
      <3> HIDE DEF V
      <3> QED
        BY <2>1 DEF Below
    <2> HIDE DEF less
    <2>3. step[n][less] = Round(n, less)
      <3> HIDE DEF Round, V
      <3> QED
        BY <2>1, <2>2
    <2>4. f[n] = step[n][less]
      BY <1>6, <2>1 DEF less
    <2>5. here \in Seq(ByteOf(script)) /\ Len(here) = n
      BY <1>2
    <2> HIDE DEF here
    <2>6. \A k \in 0 .. Len(here) - 1 : less[k] = g[k]
      <3> SUFFICES ASSUME NEW k \in 0 .. n - 1 PROVE less[k] = g[k]
        BY <2>5
      <3>1. k \in 0 .. Len(s)
        BY <1>1, <2>1
      <3> QED
        BY <2>2, <3>1
    <2>7. TryParseOne(script, here, misread, less) = TryParseOne(script, here, misread, g)
      <3> HIDE DEF g
      <3> QED
        BY <2>5, <2>6, RoundLooksBelow
    <2>8. g[n] = f[n]
      OBVIOUS
    <2> HIDE DEF g, step
    <2> QED
      BY <2>3, <2>4, <2>7, <2>8 DEF here
  <1> DEFINE IsLoop(h) == h = [n \in 0 .. Len(s) |-> Round(n, h)]
             loop == CHOOSE h : IsLoop(h)
  <1>8. IsLoop(g)
    <2> HIDE DEF Round
    <2>1. g = [n \in 0 .. Len(s) |-> g[n]]
      OBVIOUS
    <2> HIDE DEF g
    <2> QED
      BY <1>7, <2>1
  <1>9. IsLoop(loop)
    <2> HIDE DEF g, IsLoop
    <2> QED
      BY <1>8
  <1>10. ASSUME NEW n \in 0 .. Len(s)
         PROVE  SubSeq(s, Len(s) - n + 1, Len(s)) = At(n)
    BY <1>1 DEF Suffix
  <1>11. Loop(script, s, misread) = loop
    <2> DEFINE body(h) == [n \in 0 .. Len(s) |->
                  TryParseOne(script, SubSeq(s, Len(s) - n + 1, Len(s)), misread, h)]
    <2>1. Loop(script, s, misread) = CHOOSE h : h = body(h)
      BY DEF Loop
    <2>2. ASSUME NEW h PROVE body(h) = [n \in 0 .. Len(s) |-> Round(n, h)]
      BY DEF Suffix
    <2> QED
      BY <2>1, <2>2
  <1>12. \A n \in 0 .. Len(s) : loop[n] = Round(n, loop)
    <2> HIDE DEF Round, loop
    <2> QED
      BY <1>9
  <1> HIDE DEF loop
  <1> QED
    BY <1>11, <1>12

\* The loop of push reads a stretch as Reading says, round by round.
LEMMA ParseReads ==
    ASSUME NEW script \in Seq(Message), NEW s, IsStretch(script, s),
           NEW misread \in Nat
    PROVE  LET r == Parse(script, s, misread) IN
           r.ok \in BOOLEAN /\ Reading(script, s, r.ok, r.out, r.rest)
  <1> DEFINE loop == Loop(script, s, misread)
             At(n) == Suffix(s, Len(s) - n)
             Correct(n) == /\ loop[n].ok \in BOOLEAN
                         /\ Reading(script, At(n), loop[n].ok, loop[n].out, loop[n].rest)
             S == {n \in Nat : n \in 0 .. Len(s) => Correct(n)}
  <1>1. s \in Seq(ByteOf(script)) /\ Len(s) \in Nat
    BY LenProperties DEF IsStretch
  <1>2. \A n \in 0 .. Len(s) : loop[n] = TryParseOne(script, At(n), misread, loop)
    BY <1>1, LoopIsFunction
  <1> HIDE DEF loop
  <1>3. ASSUME NEW n \in Nat, 0 .. (n - 1) \subseteq S PROVE n \in S
    <2> SUFFICES ASSUME n \in 0 .. Len(s) PROVE Correct(n)
      OBVIOUS
    <2> DEFINE here == At(n)
    <2>1. Len(s) - n \in 0 .. Len(s) /\ Len(s) - (Len(s) - n) = n
      BY <1>1
    <2>2. IsStretch(script, here) /\ Len(here) = n
      BY <1>1, <2>1, SuffixIsStretch, SuffixProperties
    <2>3. ASSUME NEW k \in 1 .. n
          PROVE  /\ loop[n - k].ok \in BOOLEAN
                 /\ Reading(script, Suffix(here, k), loop[n - k].ok,
                            loop[n - k].out, loop[n - k].rest)
      <3>1. n - k \in 0 .. (n - 1) /\ n - k \in 0 .. Len(s)
        BY <1>1
      <3>2. Correct(n - k)
        BY <1>3, <3>1
      <3>3. k \in 0 .. Len(s) - (Len(s) - n) /\ (Len(s) - n) + k = Len(s) - (n - k)
        BY <1>1
      <3>4. Suffix(here, k) = At(n - k)
        <4>1. Suffix(here, k) = Suffix(s, (Len(s) - n) + k)
          BY <1>1, <2>1, <3>3, SuffixOfSuffix
        <4> QED
          BY <3>3, <4>1
      <3> QED
        BY <3>2, <3>4
    <2> DEFINE r == TryParseOne(script, here, misread, loop)
    <2> HIDE DEF here
    <2>4. r.ok \in BOOLEAN /\ Reading(script, here, r.ok, r.out, r.rest)
      BY <2>2, <2>3, RoundReads
    <2>5. loop[n] = r
      BY <1>2 DEF here
    <2> HIDE DEF r
    <2> QED
      BY <2>4, <2>5 DEF here
  <1>4. Nat \subseteq S
    <2> HIDE DEF S
    <2> QED
      BY <1>3, StrongSetInduction
  <1>5. Correct(Len(s))
    BY <1>1, <1>4
  <1>6. At(Len(s)) = s
    <2>1. Len(s) - Len(s) = 0
      BY <1>1
    <2>2. Suffix(s, 0) = s
      BY <1>1, SuffixEnds
    <2> QED
      BY <2>1, <2>2
  <1>7. Parse(script, s, misread) = loop[Len(s)]
    BY DEF Parse, loop
  <1> QED
    BY <1>5, <1>6, <1>7

-----------------------------------------------------------------------------
(***************************************************************************)
(* push: the chunk goes on where the buffer ends.                          *)
(***************************************************************************)
\* push reads what it holds together with the chunk, or, over the limit,
\* throws both away.
THEOREM PushReads ==
    ASSUME NEW script \in Seq(Message), NEW buf \in Seq(ByteOf(script)),
           NEW chunk \in Seq(ByteOf(script)), IsStretch(script, buf \o chunk),
           NEW misread \in Nat
    PROVE  LET r == Push(script, buf, chunk, misread) IN
           /\ r.ok \in BOOLEAN
           /\ Len(r.rest) < MaxBuffer /\ r.rest \in Seq(ByteOf(script))
           /\ IF Len(buf) + Len(chunk) > MaxBuffer THEN r = Failed
              ELSE Reading(script, buf \o chunk, r.ok, r.out, r.rest)
  <1> DEFINE s == buf \o chunk
             r == Push(script, buf, chunk, misread)
             p == Parse(script, s, misread)
  <1>1. /\ Len(buf) \in Nat /\ Len(chunk) \in Nat
        /\ s \in Seq(ByteOf(script)) /\ Len(s) = Len(buf) + Len(chunk)
    BY LenProperties, ConcatProperties
  <1>2. MaxBuffer \in Nat \ {0}
    BY DecoderAssumption DEF MaxBuffer
  <1>3. CASE Len(buf) + Len(chunk) > MaxBuffer
    <2>1. r = Failed
      BY <1>3 DEF Push
    <2>2. Failed.ok = FALSE /\ Failed.rest = <<>> /\ Len(<<>>) = 0
      BY EmptySeq DEF Failed
    <2>3. /\ Failed.ok \in BOOLEAN /\ Len(Failed.rest) < MaxBuffer
          /\ Failed.rest \in Seq(ByteOf(script))
      <3>1. 0 < MaxBuffer /\ <<>> \in Seq(ByteOf(script))
        BY <1>2, EmptySeq
      <3> QED
        BY <2>2, <3>1
    <2> HIDE DEF r
    <2> QED
      BY <1>3, <2>1, <2>3 DEF r
  <1>4. CASE ~(Len(buf) + Len(chunk) > MaxBuffer)
    <2>1. r = p
      BY <1>4 DEF Push
    <2>2. p.ok \in BOOLEAN /\ Reading(script, s, p.ok, p.out, p.rest)
      BY ParseReads
    <2> HIDE DEF p, s
    <2>3. Len(s) <= MaxBuffer
      BY <1>1, <1>2, <1>4
    <2>4. Len(p.rest) < MaxBuffer
      BY <2>2, <2>3 DEF Reading
    <2>5. p.rest \in Seq(ByteOf(script))
      <3>1. PICK k \in 0 .. Len(s) : p.rest = Suffix(s, k)
        BY <2>2 DEF Reading
      <3> QED
        BY <1>1, <3>1, SuffixProperties
    <2>6. /\ p.ok \in BOOLEAN /\ Len(p.rest) < MaxBuffer /\ p.rest \in Seq(ByteOf(script))
          /\ Reading(script, buf \o chunk, p.ok, p.out, p.rest)
      BY <2>2, <2>4, <2>5 DEF s
    <2> HIDE DEF r
    <2> QED
      BY <1>4, <2>1, <2>6 DEF r
  <1> QED
    BY <1>3, <1>4

-----------------------------------------------------------------------------
(***************************************************************************)
(* Sequences taken apart and put together.                                 *)
(***************************************************************************)
Associative(T) == \A x, y, z \in T : (x \o y) \o z = x \o (y \o z)

\* Concatenation is associative, as a fact that can be cited of a hidden set.
LEMMA Associates ==
    ASSUME NEW S PROVE Associative(Seq(S))
  BY ConcatAssociative DEF Associative

\* What is left of a sequence and what comes after it.
LEMMA SuffixOfConcat ==
    ASSUME NEW S, NEW u \in Seq(S), NEW v \in Seq(S), NEW k \in 0 .. Len(u)
    PROVE  Suffix(u, k) \o v = Suffix(u \o v, k)
  <1>1. /\ Len(u) \in Nat /\ Len(v) \in Nat
        /\ u \o v \in Seq(S) /\ Len(u \o v) = Len(u) + Len(v)
        /\ \A i \in 1 .. Len(u) + Len(v) :
              (u \o v)[i] = IF i <= Len(u) THEN u[i] ELSE v[i - Len(u)]
    BY LenProperties, ConcatProperties
  <1>2. /\ Suffix(u, k) \in Seq(S) /\ Len(Suffix(u, k)) = Len(u) - k
        /\ \A i \in 1 .. Len(u) - k : Suffix(u, k)[i] = u[k + i]
    BY SuffixProperties
  <1> DEFINE l == Suffix(u, k) \o v
             r == Suffix(u \o v, k)
  <1>3. /\ l \in Seq(S) /\ Len(l) = Len(Suffix(u, k)) + Len(v)
        /\ \A i \in 1 .. Len(Suffix(u, k)) + Len(v) :
              l[i] = IF i <= Len(Suffix(u, k)) THEN Suffix(u, k)[i]
                     ELSE v[i - Len(Suffix(u, k))]
    BY <1>2, ConcatProperties
  <1>4. k \in 0 .. Len(u \o v)
    BY <1>1
  <1>5. /\ r \in Seq(S) /\ Len(r) = Len(u \o v) - k
        /\ \A i \in 1 .. Len(u \o v) - k : r[i] = (u \o v)[k + i]
    <2> DEFINE w == u \o v
    <2>1. w \in Seq(S) /\ k \in 0 .. Len(w)
      BY <1>1, <1>4
    <2> HIDE DEF w
    <2>2. /\ Suffix(w, k) \in Seq(S) /\ Len(Suffix(w, k)) = Len(w) - k
          /\ \A i \in 1 .. Len(w) - k : Suffix(w, k)[i] = w[k + i]
      BY <2>1, SuffixProperties
    <2> QED
      BY <2>2 DEF w
  <1> HIDE DEF l, r
  <1>6. Len(l) = Len(r)
    BY <1>1, <1>2, <1>3, <1>5
  <1>7. ASSUME NEW i \in 1 .. Len(l) PROVE l[i] = r[i]
    <2>1. i \in 1 .. Len(u) - k + Len(v) /\ k + i \in 1 .. Len(u) + Len(v)
          /\ i \in 1 .. Len(u \o v) - k
      BY <1>1, <1>2, <1>3
    <2>2. r[i] = IF k + i <= Len(u) THEN u[k + i] ELSE v[(k + i) - Len(u)]
      BY <1>1, <1>5, <2>1
    <2>3. l[i] = IF i <= Len(u) - k THEN Suffix(u, k)[i] ELSE v[i - (Len(u) - k)]
      BY <1>2, <1>3, <2>1
    <2>4. i <= Len(u) - k <=> k + i <= Len(u)
      BY <1>1, <2>1
    <2>5. CASE i <= Len(u) - k
      <3>1. i \in 1 .. Len(u) - k
        BY <1>1, <2>1, <2>5
      <3> QED
        BY <1>2, <2>2, <2>3, <2>4, <2>5, <3>1
    <2>6. CASE ~(i <= Len(u) - k)
      <3>1. i - (Len(u) - k) = (k + i) - Len(u)
        BY <1>1, <2>1
      <3> QED
        BY <2>2, <2>3, <2>4, <2>6, <3>1
    <2> QED
      BY <2>5, <2>6
  <1>8. l = r
    BY <1>3, <1>5, <1>6, <1>7, SeqEqual
  <1> QED
    BY <1>8 DEF l, r

\* The beginning of a stretch is one.
LEMMA PrefixIsStretch ==
    ASSUME NEW script, NEW u \in Seq(ByteOf(script)), NEW v \in Seq(ByteOf(script)),
           IsStretch(script, u \o v)
    PROVE  IsStretch(script, u)
  <1>1. /\ Len(u) \in Nat /\ Len(v) \in Nat /\ Len(u \o v) = Len(u) + Len(v)
        /\ \A i \in 1 .. Len(u) + Len(v) :
              (u \o v)[i] = IF i <= Len(u) THEN u[i] ELSE v[i - Len(u)]
    BY LenProperties, ConcatProperties
  <1>2. ASSUME NEW i \in 1 .. Len(u) - 1 PROVE u[i + 1] = Successor(script, u[i])
    <2>1. /\ i \in 1 .. Len(u) + Len(v) /\ i + 1 \in 1 .. Len(u) + Len(v)
          /\ i <= Len(u) /\ i + 1 <= Len(u) /\ i \in 1 .. Len(u \o v) - 1
      BY <1>1
    <2>2. (u \o v)[i] = u[i] /\ (u \o v)[i + 1] = u[i + 1]
      BY <1>1, <2>1
    <2> QED
      BY <2>1, <2>2 DEF IsStretch
  <1> QED
    BY <1>2 DEF IsStretch

\* The bytes of a message.
LEMMA EncodedProperties ==
    ASSUME NEW script \in Seq(Message), NEW n \in 1 .. Len(script)
    PROVE  LET bytes == Encoded(n, script[n]) IN
           /\ IsStretch(script, bytes) /\ Len(bytes) = FrameLen(script, n)
           /\ bytes # <<>> /\ bytes[1] = [msg |-> n, at |-> 1]
           /\ bytes[Len(bytes)] = [msg |-> n, at |-> FrameLen(script, n)]
  <1> DEFINE bytes == Encoded(n, script[n])
             size == FrameLen(script, n)
  <1>1. size \in Nat /\ size > Prefix /\ Prefix \in Nat \ {0}
    BY FrameLenType, DecoderAssumption
  <1>2. bytes = [k \in 1 .. size |-> [msg |-> n, at |-> k]]
    BY DEF Encoded, FrameLen
  <1>3. \A k \in 1 .. size : [msg |-> n, at |-> k] \in ByteOf(script)
    BY <1>1 DEF ByteOf
  <1> HIDE DEF bytes
  <1>4. bytes \in [1 .. size -> ByteOf(script)]
    BY <1>2, <1>3
  <1>5. bytes \in Seq(ByteOf(script)) /\ Len(bytes) = size
    <2> HIDE DEF size
    <2> QED
      BY <1>1, <1>4, SeqDef, LenProperties
  <1>6. ASSUME NEW i \in 1 .. Len(bytes) - 1 PROVE bytes[i + 1] = Successor(script, bytes[i])
    <2>1. i \in 1 .. size /\ i + 1 \in 1 .. size /\ i < size
      BY <1>1, <1>5
    <2>2. bytes[i] = [msg |-> n, at |-> i] /\ bytes[i + 1] = [msg |-> n, at |-> i + 1]
      BY <1>2, <2>1
    <2> QED
      BY <2>1, <2>2 DEF Successor
  <1>7. 1 \in 1 .. size /\ size \in 1 .. size
    <2> HIDE DEF size
    <2> QED
      BY <1>1
  <1>8. bytes[1] = [msg |-> n, at |-> 1] /\ bytes[size] = [msg |-> n, at |-> size]
    BY <1>2, <1>7
  <1>9. bytes # <<>>
    BY <1>1, <1>5, EmptySeq
  <1> QED
    BY <1>5, <1>6, <1>8, <1>9 DEF bytes, IsStretch

\* A message goes on a stretch that ends with the one before.
LEMMA StretchExtends ==
    ASSUME NEW script \in Seq(Message), NEW s, IsStretch(script, s),
           NEW n \in 1 .. Len(script),
           s # <<>> => s[Len(s)] = [msg |-> n - 1, at |-> FrameLen(script, n - 1)]
    PROVE  LET all == s \o Encoded(n, script[n]) IN
           /\ IsStretch(script, all) /\ all # <<>>
           /\ all[1] = IF s = <<>> THEN [msg |-> n, at |-> 1] ELSE s[1]
           /\ all[Len(all)] = [msg |-> n, at |-> FrameLen(script, n)]
  <1> DEFINE bytes == Encoded(n, script[n])
             all == s \o bytes
  <1>1. /\ IsStretch(script, bytes) /\ bytes # <<>> /\ bytes[1] = [msg |-> n, at |-> 1]
        /\ bytes[Len(bytes)] = [msg |-> n, at |-> FrameLen(script, n)]
    BY EncodedProperties
  <1> HIDE DEF bytes
  <1>2. /\ s \in Seq(ByteOf(script)) /\ Len(s) \in Nat
        /\ bytes \in Seq(ByteOf(script)) /\ Len(bytes) \in Nat \ {0}
    BY <1>1, LenProperties, EmptySeq DEF IsStretch
  <1>3. /\ all \in Seq(ByteOf(script)) /\ Len(all) = Len(s) + Len(bytes)
        /\ \A i \in 1 .. Len(s) + Len(bytes) :
              all[i] = IF i <= Len(s) THEN s[i] ELSE bytes[i - Len(s)]
    BY <1>2, ConcatProperties
  <1> HIDE DEF all
  <1>4. ASSUME NEW i \in 1 .. Len(all) - 1 PROVE all[i + 1] = Successor(script, all[i])
    <2>1. i \in 1 .. Len(s) + Len(bytes) /\ i + 1 \in 1 .. Len(s) + Len(bytes)
      BY <1>2, <1>3
    <2>2. CASE i < Len(s)
      <3>1. i \in 1 .. Len(s) - 1 /\ i <= Len(s) /\ i + 1 <= Len(s)
        BY <1>2, <2>1, <2>2
      <3>2. all[i] = s[i] /\ all[i + 1] = s[i + 1]
        BY <1>3, <2>1, <3>1
      <3> QED
        BY <3>1, <3>2 DEF IsStretch
    <2>3. CASE i = Len(s)
      <3>1. s # <<>> /\ i <= Len(s) /\ ~(i + 1 <= Len(s)) /\ (i + 1) - Len(s) = 1
        BY <1>2, <2>1, <2>3, EmptySeq
      <3>2. all[i] = [msg |-> n - 1, at |-> FrameLen(script, n - 1)]
        BY <1>3, <2>1, <2>3, <3>1
      <3>3. all[i + 1] = [msg |-> n, at |-> 1]
        BY <1>1, <1>3, <2>1, <3>1
      <3>4. s[Len(s)] \in ByteOf(script)
        BY <1>2, <2>1, <2>3, ElementOfSeq
      <3>5. s[Len(s)] = [msg |-> n - 1, at |-> FrameLen(script, n - 1)]
        BY <3>1
      <3>6. FrameLen(script, n - 1) \in Nat /\ (n - 1) + 1 = n
        BY <3>4, <3>5 DEF ByteOf
      <3>7. all[i].msg = n - 1 /\ all[i].at = FrameLen(script, n - 1)
        BY <3>2
      <3>8. ~(all[i].at < FrameLen(script, all[i].msg))
        BY <3>6, <3>7
      <3> QED
        BY <3>3, <3>6, <3>7, <3>8 DEF Successor
    <2>4. CASE i > Len(s)
      <3>1. /\ ~(i <= Len(s)) /\ ~(i + 1 <= Len(s)) /\ i - Len(s) \in 1 .. Len(bytes) - 1
            /\ (i + 1) - Len(s) = (i - Len(s)) + 1
        BY <1>2, <1>3, <2>1, <2>4
      <3>2. all[i] = bytes[i - Len(s)] /\ all[i + 1] = bytes[(i - Len(s)) + 1]
        BY <1>3, <2>1, <3>1
      <3> QED
        BY <1>1, <3>1, <3>2 DEF IsStretch
    <2> QED
      BY <1>2, <2>1, <2>2, <2>3, <2>4
  <1>5. all # <<>> /\ 1 \in 1 .. Len(s) + Len(bytes) /\ Len(all) \in 1 .. Len(s) + Len(bytes)
    BY <1>2, <1>3, EmptySeq
  <1>6. all[1] = IF s = <<>> THEN [msg |-> n, at |-> 1] ELSE s[1]
    <2>1. CASE s = <<>>
      <3>1. Len(s) = 0
        BY <2>1, EmptySeq
      <3>2. ~(1 <= Len(s)) /\ 1 - Len(s) = 1
        BY <3>1
      <3> QED
        BY <1>1, <1>3, <1>5, <2>1, <3>2
    <2>2. CASE s # <<>>
      <3>1. 1 <= Len(s)
        BY <1>2, <2>2, EmptySeq
      <3> QED
        BY <1>3, <1>5, <2>2, <3>1
    <2> QED
      BY <2>1, <2>2
  <1>7. all[Len(all)] = [msg |-> n, at |-> FrameLen(script, n)]
    <2>1. ~(Len(all) <= Len(s)) /\ Len(all) - Len(s) = Len(bytes)
      BY <1>2, <1>3
    <2>2. all[Len(all)] = bytes[Len(all) - Len(s)]
      BY <1>3, <1>5, <2>1
    <2> QED
      BY <1>1, <2>1, <2>2
  <1> QED
    BY <1>3, <1>4, <1>5, <1>6, <1>7 DEF IsStretch, all, bytes

-----------------------------------------------------------------------------
(***************************************************************************)
(* What a reading of the start of a stretch leaves to come.                *)
(***************************************************************************)
LastOf(got, top) == IF got = <<>> THEN top ELSE got[Len(got)]

\* From `all', of which nothing up to message `top' is left, the messages `out'
\* were taken and `left' is to come, the first of it in the decoder's `rest'.
\* Without an error, nothing was passed over.
Leaves(script, all, top, last, ok, out, rest, left) ==
    LET next == LastOf(out, top) IN
    /\ IsStretch(script, left) /\ out \in Seq(Nat) /\ rest \in Seq(ByteOf(script))
    /\ \A i \in 1 .. Len(out) : out[i] = out[1] + i - 1
    /\ out # <<>> => top < out[1]
    /\ next \in Nat /\ top <= next
    /\ out # <<>> => next <= last
    /\ left # <<>> => next < left[1].msg /\ left[Len(left)] = all[Len(all)]
    /\ ok /\ all[1] = [msg |-> top + 1, at |-> 1] =>
        /\ out # <<>> => out[1] = top + 1
        /\ left # <<>> => left[1] = [msg |-> next + 1, at |-> 1]
        /\ left = <<>> => all[Len(all)].msg = next
        /\ rest # <<>> => Len(rest) < FrameLen(script, next + 1)

\* What is left is a stretch with the same end, or nothing.
LEMMA LeftOver ==
    ASSUME NEW script \in Seq(Message), NEW s \in Seq(ByteOf(script)),
           NEW after \in Seq(ByteOf(script)), IsStretch(script, s \o after),
           NEW k \in 0 .. Len(s)
    PROVE  LET all == s \o after
               left == Suffix(s, k) \o after IN
           /\ IsStretch(script, left)
           /\ left # <<>> => /\ k < Len(all) /\ left[1] = all[k + 1]
                             /\ left[Len(left)] = all[Len(all)]
                             /\ all # <<>> /\ all[1].msg <= left[1].msg
           /\ left = <<>> => k = Len(s) /\ s = all
  <1> DEFINE all == s \o after
             left == Suffix(s, k) \o after
  <1>1. /\ Len(s) \in Nat /\ Len(after) \in Nat
        /\ all \in Seq(ByteOf(script)) /\ Len(all) = Len(s) + Len(after)
    BY LenProperties, ConcatProperties
  <1>2. left = Suffix(all, k)
    BY SuffixOfConcat
  <1> HIDE DEF left
  <1>3. IsStretch(script, all) /\ k \in 0 .. Len(all) /\ k \in Nat
    BY <1>1
  <1>4. after = <<>> => s = all
    BY ConcatEmptySeq
  <1> HIDE DEF all
  <1>5. IsStretch(script, left)
    BY <1>2, <1>3, SuffixIsStretch
  <1>6. /\ left \in Seq(ByteOf(script)) /\ Len(left) = Len(all) - k
        /\ \A i \in 1 .. Len(all) - k : left[i] = all[k + i]
    BY <1>1, <1>2, <1>3, SuffixProperties
  <1>7. ASSUME left # <<>>
        PROVE  /\ k < Len(all) /\ left[1] = all[k + 1]
               /\ left[Len(left)] = all[Len(all)]
               /\ all # <<>> /\ all[1].msg <= left[1].msg
    <2>1. Len(left) \in Nat \ {0}
      BY <1>6, <1>7, EmptySeq
    <2>2. /\ 1 \in 1 .. Len(all) - k /\ Len(left) \in 1 .. Len(all) - k
          /\ k + Len(left) = Len(all) /\ k < Len(all) /\ k + 1 \in 1 .. Len(all)
      BY <1>1, <1>3, <1>6, <2>1
    <2>3. left[1] = all[k + 1] /\ left[Len(left)] = all[k + Len(left)]
      BY <1>6, <2>2
    <2>4. all # <<>>
      BY <1>3, <2>2, EmptySeq
    <2>5. all[1].msg <= all[k + 1].msg
      BY <1>3, <2>2, StretchGrows
    <2> QED
      BY <2>2, <2>3, <2>4, <2>5
  <1>8. ASSUME left = <<>> PROVE k = Len(s) /\ s = all
    <2>1. Len(left) = 0
      BY <1>8, EmptySeq
    <2>2. Len(after) = 0 /\ k = Len(s)
      BY <1>1, <1>6, <2>1
    <2>3. after = <<>>
      BY <2>2, EmptySeq
    <2> QED
      BY <1>4, <2>2, <2>3
  <1> QED
    BY <1>5, <1>7, <1>8 DEF left, all

\* After a reading of the beginning of what comes, the messages it found are
\* done, and what comes starts after them.
LEMMA ReadingLeaves ==
    ASSUME NEW script \in Seq(Message), NEW s \in Seq(ByteOf(script)), s # <<>>,
           NEW after \in Seq(ByteOf(script)),
           NEW all, all = s \o after, IsStretch(script, all),
           NEW ok \in BOOLEAN, NEW out, NEW rest, Reading(script, s, ok, out, rest),
           NEW top \in Nat, NEW last \in Nat,
           top < all[1].msg, all[Len(all)].msg <= last
    PROVE  Leaves(script, all, top, last, ok, out, rest, rest \o after)
  <1> DEFINE left == rest \o after
             next == LastOf(out, top)
             first == s[1].msg
  <1>1. /\ Len(s) \in Nat \ {0} /\ Len(after) \in Nat
        /\ all \in Seq(ByteOf(script)) /\ Len(all) = Len(s) + Len(after)
        /\ \A i \in 1 .. Len(s) + Len(after) :
              all[i] = IF i <= Len(s) THEN s[i] ELSE after[i - Len(s)]
    BY LenProperties, ConcatProperties, EmptySeq
  <1>2. PICK k \in 0 .. Len(s) : rest = Suffix(s, k)
    BY DEF Reading
  <1>3. /\ IsStretch(script, left)
        /\ left # <<>> => /\ k < Len(all) /\ left[1] = all[k + 1]
                          /\ left[Len(left)] = all[Len(all)]
                          /\ all # <<>> /\ all[1].msg <= left[1].msg
        /\ left = <<>> => k = Len(s) /\ s = all
    <2> DEFINE rem == Suffix(s, k) \o after
    <2>1. /\ IsStretch(script, rem)
          /\ rem # <<>> => /\ k < Len(all) /\ rem[1] = all[k + 1]
                           /\ rem[Len(rem)] = all[Len(all)]
                           /\ all # <<>> /\ all[1].msg <= rem[1].msg
          /\ rem = <<>> => k = Len(s) /\ s = all
      <3>1. IsStretch(script, s \o after)
        OBVIOUS
      <3>2. /\ IsStretch(script, Suffix(s, k) \o after)
            /\ Suffix(s, k) \o after # <<>> =>
                  /\ k < Len(s \o after) /\ (Suffix(s, k) \o after)[1] = (s \o after)[k + 1]
                  /\ (Suffix(s, k) \o after)[Len(Suffix(s, k) \o after)] =
                        (s \o after)[Len(s \o after)]
                  /\ s \o after # <<>>
                  /\ (s \o after)[1].msg <= (Suffix(s, k) \o after)[1].msg
            /\ Suffix(s, k) \o after = <<>> => k = Len(s) /\ s = s \o after
        BY <3>1, LeftOver
      <3> QED
        BY <3>2 DEF rem
    <2> QED
      BY <1>2, <2>1
  <1>4. IsStretch(script, all) /\ top < all[1].msg /\ all[Len(all)].msg <= last
    OBVIOUS
  <1>5. /\ rest \in Seq(ByteOf(script)) /\ Len(rest) = Len(s) - k
        /\ \A i \in 1 .. Len(s) - k : rest[i] = s[k + i]
    BY <1>2, SuffixProperties
  <1>6. /\ Len(left) = Len(rest) + Len(after)
        /\ \A i \in 1 .. Len(rest) + Len(after) :
              left[i] = IF i <= Len(rest) THEN rest[i] ELSE after[i - Len(rest)]
    BY <1>5, ConcatProperties
  <1> HIDE DEF left
  <1>7. /\ all[1] = s[1] /\ all[Len(s)] = s[Len(s)] /\ 1 \in 1 .. Len(all)
        /\ Len(s) \in 1 .. Len(all) /\ Len(all) \in 1 .. Len(all)
    BY <1>1
  <1>8. /\ out \in Seq(Nat) /\ Len(out) \in Nat
        /\ \A i \in 1 .. Len(out) : out[i] = first + i - 1
        /\ Len(out) > 0 => s[1].at = 1 /\ first + Len(out) - 1 <= s[Len(s)].msg
    BY LenProperties DEF Reading
  <1>9. /\ \A i \in 1 .. Len(all) : all[i] \in ByteOf(script)
        /\ \A i \in 1 .. Len(all) : all[i].msg \in Nat
    <2>1. \A i \in 1 .. Len(all) : all[i] \in ByteOf(script)
      BY <1>1, ElementOfSeq
    <2>2. \A b \in ByteOf(script) : b.msg \in Nat
      BY DEF ByteOf
    <2> QED
      BY <2>1, <2>2
  <1>10. first \in Nat /\ first = all[1].msg /\ top < first
    BY <1>4, <1>7, <1>9
  <1>11. s[Len(s)].msg <= all[Len(all)].msg /\ s[Len(s)].msg \in Nat
    <2> DEFINE end == Suffix(all, Len(s) - 1)
    <2>1. Len(s) - 1 \in 0 .. Len(all)
      BY <1>1
    <2>2. /\ IsStretch(script, end) /\ Len(end) = Len(all) - (Len(s) - 1)
          /\ \A i \in 1 .. Len(all) - (Len(s) - 1) : end[i] = all[(Len(s) - 1) + i]
      <3>1. IsStretch(script, end)
        BY <1>4, <2>1, SuffixIsStretch
      <3>2. all \in Seq(ByteOf(script))
        BY <1>1
      <3> QED
        BY <2>1, <3>1, <3>2, SuffixProperties
    <2> HIDE DEF end
    <2>3. /\ 1 \in 1 .. Len(all) - (Len(s) - 1) /\ Len(end) \in 1 .. Len(all) - (Len(s) - 1)
          /\ (Len(s) - 1) + 1 = Len(s) /\ (Len(s) - 1) + Len(end) = Len(all)
          /\ Len(end) \in 1 .. Len(end)
      BY <1>1, <2>2
    <2>4. end[1] = all[Len(s)] /\ end[Len(end)] = all[Len(all)]
      BY <2>2, <2>3
    <2>5. end[1].msg <= end[Len(end)].msg
      BY <2>2, <2>3, StretchGrows
    <2> QED
      BY <1>7, <1>9, <2>4, <2>5
  <1>12. CASE out = <<>>
    <2>1. Len(out) = 0 /\ next = top
      BY <1>12, EmptySeq DEF LastOf
    <2>6. next = LastOf(out, top)
      OBVIOUS
    <2> HIDE DEF next
    <2>2. ASSUME left # <<>> PROVE next < left[1].msg
      <3>1. all[1].msg <= left[1].msg /\ left[1] = all[k + 1] /\ k + 1 \in 1 .. Len(all)
        BY <1>1, <1>2, <1>3, <2>2
      <3> QED
        BY <1>9, <1>10, <2>1, <3>1
    <2>3. ASSUME ok, all[1] = [msg |-> top + 1, at |-> 1]
          PROVE  /\ left # <<>> => left[1] = [msg |-> next + 1, at |-> 1]
                 /\ left = <<>> => all[Len(all)].msg = next
                 /\ rest # <<>> => Len(rest) < FrameLen(script, next + 1)
      <3>1. Aligned(s) /\ s[1].msg = top + 1
        BY <1>7, <2>3 DEF Aligned
      <3>2. GoesOn(script, s, out, rest)
        BY <2>3, <3>1 DEF Reading
      <3>3. s[1].msg + Len(out) = next + 1 /\ (s[1].msg + Len(out)) - 1 = next
        BY <2>1, <3>1
      <3>4. IF rest = <<>> THEN s[Len(s)] = [msg |-> next, at |-> FrameLen(script, next)]
            ELSE rest[1] = [msg |-> next + 1, at |-> 1] /\ Len(rest) < FrameLen(script, next + 1)
        BY <3>2, <3>3 DEF GoesOn
      <3>5. rest # <<>>
        <4> SUFFICES ASSUME rest = <<>> PROVE FALSE
          OBVIOUS
        <4>1. s[Len(s)].msg = next
          BY <3>4
        <4>2. s[1].msg <= s[Len(s)].msg
          <5>1. IsStretch(script, s) /\ Len(s) \in 1 .. Len(s)
            BY <1>1, PrefixIsStretch
          <5> QED
            BY <5>1, StretchGrows
        <4> QED
          BY <2>1, <3>1, <4>1, <4>2
      <3>6. Len(rest) \in Nat \ {0}
        BY <1>5, <3>5, EmptySeq
      <3>7. 1 \in 1 .. Len(rest) + Len(after) /\ 1 <= Len(rest) /\ Len(left) # 0
        BY <1>1, <1>6, <3>6
      <3>8. left # <<>> /\ left[1] = rest[1]
        BY <1>6, <3>7, EmptySeq
      <3> QED
        BY <3>4, <3>5, <3>8
    <2>4. \A i \in 1 .. Len(out) : out[i] = out[1] + i - 1
      BY <2>1
    <2>5. next \in Nat /\ top <= next
      BY <2>1
    <2> QED
      BY <1>3, <1>5, <1>8, <1>12, <2>1, <2>2, <2>3, <2>4, <2>5, <2>6
       DEF left, Leaves
  <1>13. CASE out # <<>>
    <2>1. Len(out) \in Nat \ {0} /\ next = out[Len(out)]
      BY <1>8, <1>13, EmptySeq DEF LastOf
    <2>2. /\ 1 \in 1 .. Len(out) /\ Len(out) \in 1 .. Len(out)
          /\ out[1] = first + 1 - 1 /\ out[Len(out)] = first + Len(out) - 1
      <3>1. 1 \in 1 .. Len(out) /\ Len(out) \in 1 .. Len(out)
        BY <2>1
      <3>2. \A i \in 1 .. Len(out) : out[i] = first + i - 1
        BY <1>8
      <3> HIDE DEF first
      <3> QED
        BY <3>1, <3>2
    <2> HIDE DEF first, next
    <2>3. out[1] = first /\ next = first + Len(out) - 1 /\ next \in Nat /\ top < next
      <3> DEFINE l == Len(out)
                 o == out[1]
      <3>1. /\ o = first + 1 - 1 /\ next = first + l - 1 /\ l \in Nat \ {0}
            /\ first \in Nat /\ top < first /\ top \in Nat
        BY <1>10, <2>1, <2>2
      <3> HIDE DEF l, o
      <3>2. o = first /\ next \in Nat /\ top < next
        BY <3>1
      <3> QED
        BY <3>1, <3>2 DEF l, o
    <2>4. \A i \in 1 .. Len(out) : out[i] = out[1] + i - 1
      <3>1. \A i \in 1 .. Len(out) : out[i] = first + i - 1
        BY <1>8 DEF first
      <3> QED
        BY <2>3, <3>1
    <2>5. next <= last
      <3>1. next <= s[Len(s)].msg
        BY <1>8, <2>1, <2>3
      <3> QED
        <4>1. s[Len(s)].msg \in Nat /\ all[Len(all)].msg \in Nat
          BY <1>7, <1>9, <1>11
        <4>2. s[Len(s)].msg <= all[Len(all)].msg /\ all[Len(all)].msg <= last
          BY <1>11
        <4>3. next \in Nat
          BY <2>3
        <4> QED
          BY <3>1, <4>1, <4>2, <4>3
    <2>6. ok
      BY <1>13 DEF Reading
    <2>7. /\ IF rest = <<>> THEN s[Len(s)] = [msg |-> next, at |-> FrameLen(script, next)]
             ELSE rest[1] = [msg |-> next + 1, at |-> 1] /\ Len(rest) < FrameLen(script, next + 1)
      <3>1. Aligned(s)
        BY <1>8, <2>1 DEF Aligned
      <3>2. GoesOn(script, s, out, rest)
        BY <2>6, <3>1 DEF Reading
      <3>3. first + Len(out) = next + 1 /\ (first + Len(out)) - 1 = next
        <4>1. first \in Nat /\ Len(out) \in Nat
          BY <1>10, <2>1
        <4>2. next = first + Len(out) - 1
          BY <2>3
        <4> QED
          BY <4>1, <4>2
      <3> QED
        BY <3>2, <3>3 DEF GoesOn, first
    <2>8. ASSUME left # <<>> PROVE left[1] = [msg |-> next + 1, at |-> 1]
      <3>1. CASE rest = <<>>
        <4>1. Len(rest) = 0 /\ k = Len(s) /\ k \in 1 .. Len(all) - 1
          <5>1. Len(rest) = 0
            BY <3>1, EmptySeq
          <5>2. k < Len(all)
            BY <1>3, <2>8
          <5> QED
            BY <1>1, <1>2, <1>5, <5>1, <5>2
        <4>2. all[k + 1] = Successor(script, all[k])
          BY <1>4, <4>1 DEF IsStretch
        <4>3. all[k] = [msg |-> next, at |-> FrameLen(script, next)]
          BY <1>7, <2>7, <3>1, <4>1
        <4>4. all[k] \in ByteOf(script)
          BY <1>9, <4>1
        <4>5. FrameLen(script, next) \in Nat
          BY <4>3, <4>4 DEF ByteOf
        <4>6. all[k].msg = next /\ all[k].at = FrameLen(script, next)
          BY <4>3
        <4>7. ~(all[k].at < FrameLen(script, all[k].msg))
          BY <4>5, <4>6
        <4> QED
          BY <1>3, <2>8, <4>2, <4>6, <4>7 DEF Successor
      <3>2. CASE rest # <<>>
        <4>1. Len(rest) \in Nat \ {0}
          BY <1>5, <3>2, EmptySeq
        <4>2. 1 \in 1 .. Len(rest) + Len(after) /\ 1 <= Len(rest)
          BY <1>1, <4>1
        <4>3. left[1] = rest[1]
          BY <1>6, <4>2
        <4> QED
          BY <2>7, <3>2, <4>3
      <3> QED
        BY <3>1, <3>2
    <2>9. ASSUME left # <<>> PROVE next < left[1].msg
      BY <2>3, <2>8, <2>9
    <2>10. ASSUME left = <<>> PROVE all[Len(all)].msg = next
      <3>1. s = all /\ k = Len(s)
        BY <1>3, <2>10
      <3>2. rest = <<>>
        BY <1>1, <1>2, <3>1, SuffixEnds
      <3> QED
        BY <2>7, <3>1, <3>2
    <2>11. ASSUME all[1] = [msg |-> top + 1, at |-> 1] PROVE out[1] = top + 1
      BY <1>10, <2>3, <2>11
    <2>12. next = LastOf(out, top)
      BY DEF next
    <2>13. ASSUME rest # <<>> PROVE Len(rest) < FrameLen(script, next + 1)
      BY <2>7, <2>13
    <2>14. top \in Nat /\ top <= next /\ top < out[1]
      BY <1>10, <2>3
    <2> QED
      BY <1>3, <1>5, <1>8, <2>3, <2>4, <2>5, <2>8, <2>9, <2>10, <2>11, <2>12,
         <2>13, <2>14 DEF left, Leaves
  <1> QED
    BY <1>12, <1>13

\* A chunk that is one message, with nothing before it.
LEMMA PushOfMessage ==
    ASSUME NEW script \in Seq(Message), NEW n \in 1 .. Len(script), NEW misread \in Nat
    PROVE  Push(script, <<>>, Encoded(n, script[n]), misread) =
             IF script[n].sort # "bad"
             THEN [ok |-> TRUE, out |-> <<n>>, rest |-> <<>>]
             ELSE [ok |-> FALSE, out |-> <<>>, rest |-> <<>>]
  <1> DEFINE s == Encoded(n, script[n])
             size == FrameLen(script, n)
             loop == Loop(script, s, misread)
             round == TryParseOne(script, s, misread, loop)
  <1>1. /\ s \in Seq(ByteOf(script)) /\ Len(s) = size /\ s # <<>>
        /\ s[1] = [msg |-> n, at |-> 1]
    BY EncodedProperties DEF IsStretch
  <1>2. /\ size \in Nat /\ size > Prefix /\ size <= MaxBuffer
        /\ script[n].size \in 1 .. MaxFrame /\ size = Prefix + script[n].size
        /\ Prefix \in Nat \ {0} /\ MaxFrame \in Nat
    BY FrameLenType, DecoderAssumption DEF FrameLen
  <1>3. <<>> \o s = s /\ Len(<<>>) = 0
    BY <1>1, ConcatEmptySeq, EmptySeq
  <1> HIDE DEF s
  <1>4. Push(script, <<>>, s, misread) = loop[Len(s)]
    <2>1. ~(Len(<<>>) + Len(s) > MaxBuffer)
      BY <1>1, <1>2, <1>3, DecoderAssumption DEF MaxBuffer
    <2> QED
      BY <1>3, <2>1 DEF Push, Parse
  <1>5. \A k \in 0 .. Len(s) :
           loop[k] = TryParseOne(script, Suffix(s, Len(s) - k), misread, loop)
    BY <1>1, LoopIsFunction
  <1> HIDE DEF loop, size
  <1>6. loop[Len(s)] = round
    <2>1. Len(s) \in 0 .. Len(s) /\ Len(s) - Len(s) = 0
      BY <1>1, <1>2
    <2>2. Suffix(s, 0) = s
      BY <1>1, SuffixEnds
    <2> QED
      BY <1>5, <2>1, <2>2
  <1>7. loop[0] = [ok |-> TRUE, out |-> <<>>, rest |-> <<>>]
    <2>1. 0 \in 0 .. Len(s) /\ Len(s) - 0 = Len(s)
      BY <1>1, <1>2
    <2>2. Suffix(s, Len(s)) = <<>>
      BY <1>1, SuffixEnds
    <2>3. loop[0] = TryParseOne(script, <<>>, misread, loop)
      BY <1>5, <2>1, <2>2
    <2>4. Len(<<>>) < Prefix
      BY <1>2, <1>3
    <2> QED
      BY <2>3, <2>4 DEF TryParseOne
  <1>8. Declared(script, s, misread) = script[n].size
    BY <1>1 DEF Declared
  <1>9. /\ ~(Len(s) < Prefix) /\ ~(script[n].size > MaxFrame)
        /\ ~(Len(s) < Prefix + script[n].size)
        /\ Len(s) - Prefix - script[n].size = 0
    <2> DEFINE z == script[n].size
    <2> HIDE DEF z
    <2>1. Len(s) = Prefix + z /\ z \in 1 .. MaxFrame
      BY <1>1, <1>2 DEF z
    <2>2. ~(Len(s) < Prefix) /\ ~(z > MaxFrame) /\ ~(Len(s) < Prefix + z)
          /\ Len(s) - Prefix - z = 0
      BY <1>2, <2>1
    <2> QED
      BY <2>2 DEF z
  <1>10. IsMessage(script, s) <=> script[n].sort # "bad"
    BY <1>1 DEF IsMessage
  <1>11. SubSeq(s, Prefix + script[n].size + 1, Len(s)) = <<>>
    <2>1. Prefix + script[n].size = Len(s)
      BY <1>1, <1>2
    <2>2. Suffix(s, Len(s)) = <<>>
      BY <1>1, SuffixEnds
    <2> QED
      BY <2>1, <2>2 DEF Suffix
  <1>12. CASE script[n].sort # "bad"
    <2> DEFINE later == loop[Len(s) - Prefix - script[n].size]
    <2>1. round = IF ~later.ok THEN later
                  ELSE [ok |-> TRUE, out |-> <<s[1].msg>> \o later.out, rest |-> later.rest]
      BY <1>8, <1>9, <1>10, <1>12 DEF TryParseOne
    <2>2. later.ok = TRUE /\ later.out = <<>> /\ later.rest = <<>>
      BY <1>7, <1>9
    <2>3. s[1].msg = n /\ <<n>> \o <<>> = <<n>>
      <3>1. <<n>> \in Seq(Nat)
        OBVIOUS
      <3> QED
        BY <1>1, <3>1, ConcatEmptySeq
    <2> HIDE DEF later, round
    <2>4. round = [ok |-> TRUE, out |-> <<n>>, rest |-> <<>>]
      BY <2>1, <2>2, <2>3
    <2> QED
      BY <1>4, <1>6, <1>12, <2>4 DEF s
  <1>13. CASE script[n].sort = "bad"
    <2>1. round = [ok |-> FALSE, out |-> <<>>,
                   rest |-> SubSeq(s, Prefix + script[n].size + 1, Len(s))]
      BY <1>8, <1>9, <1>10, <1>13 DEF TryParseOne
    <2> QED
      BY <1>4, <1>6, <1>11, <1>13, <2>1 DEF s
  <1> QED
    BY <1>12, <1>13

\* When all that was read is thrown away, what comes after it is to come.
LEMMA LossLeaves ==
    ASSUME NEW script \in Seq(Message), NEW s \in Seq(ByteOf(script)),
           NEW after \in Seq(ByteOf(script)), NEW top \in Nat, NEW last,
           NEW all, all = s \o after, IsStretch(script, all), top < all[1].msg
    PROVE  Leaves(script, all, top, last, FALSE, <<>>, <<>>, <<>> \o after)
  <1> DEFINE left == Suffix(s, Len(s)) \o after
  <1>1. Len(s) \in Nat /\ Len(s) \in 0 .. Len(s)
    BY LenProperties
  <1>2. Suffix(s, Len(s)) = <<>>
    BY SuffixEnds
  <1>3. /\ IsStretch(script, left)
        /\ left # <<>> => /\ Len(s) < Len(all) /\ left[1] = all[Len(s) + 1]
                          /\ left[Len(left)] = all[Len(all)]
                          /\ all # <<>> /\ all[1].msg <= left[1].msg
    <2> DEFINE k == Len(s)
    <2>1. k \in 0 .. Len(s) /\ IsStretch(script, s \o after)
      BY <1>1
    <2> HIDE DEF k
    <2>2. /\ IsStretch(script, Suffix(s, k) \o after)
          /\ Suffix(s, k) \o after # <<>> =>
                /\ k < Len(s \o after) /\ (Suffix(s, k) \o after)[1] = (s \o after)[k + 1]
                /\ (Suffix(s, k) \o after)[Len(Suffix(s, k) \o after)] =
                      (s \o after)[Len(s \o after)]
                /\ s \o after # <<>>
                /\ (s \o after)[1].msg <= (Suffix(s, k) \o after)[1].msg
      BY <2>1, LeftOver
    <2> QED
      BY <2>2 DEF k
  <1>4. left = <<>> \o after
    BY <1>2
  <1> HIDE DEF left
  <1>5. all \in Seq(ByteOf(script)) /\ Len(all) \in Nat
    BY LenProperties DEF IsStretch
  <1>6. ASSUME left # <<>> PROVE top < left[1].msg
    <2>1. Len(s) + 1 \in 1 .. Len(all) /\ 1 \in 1 .. Len(all)
      BY <1>1, <1>3, <1>5, <1>6
    <2>2. all[1] \in ByteOf(script) /\ all[Len(s) + 1] \in ByteOf(script)
      BY <1>5, <2>1, ElementOfSeq
    <2>3. \A b \in ByteOf(script) : b.msg \in Nat
      BY DEF ByteOf
    <2>4. all[1].msg \in Nat /\ left[1].msg \in Nat /\ all[1].msg <= left[1].msg
      BY <1>3, <1>6, <2>2, <2>3
    <2> DEFINE x == all[1].msg
               y == left[1].msg
    <2>5. x \in Nat /\ y \in Nat /\ x <= y /\ top < x
      BY <2>4
    <2> HIDE DEF x, y
    <2>6. top < y
      BY <2>5
    <2> QED
      BY <2>6 DEF y
  <1>7. Len(<<>>) = 0 /\ <<>> \in Seq(Nat) /\ <<>> \in Seq(ByteOf(script))
    BY EmptySeq
  <1>8. LastOf(<<>>, top) = top
    BY DEF LastOf
  <1>9. Leaves(script, all, top, last, FALSE, <<>>, <<>>, left)
    BY <1>3, <1>6, <1>7, <1>8 DEF Leaves
  <1> QED
    BY <1>4, <1>9

\* The bytes to come when the decoder holds `buf': those on their way, and those
\* of a write.  Nothing up to message `top' is among them, none is after `last'.
AreComing(script, buf, net, wr, top, last, all) ==
    /\ all = (buf \o net) \o wr /\ IsStretch(script, all)
    /\ top < all[1].msg /\ all[Len(all)].msg <= last

\* What a push of the first k bytes on their way leaves; legal messages that fit
\* are read without an error.
CutLeaves(script, buf, net, wr, misread, k, top, last, all) ==
    LET chunk == SubSeq(net, 1, k)
        net2 == SubSeq(net, k + 1, Len(net))
        r == Push(script, buf, chunk, misread) IN
    /\ r.ok \in BOOLEAN /\ Len(r.rest) < MaxBuffer
    /\ net2 \in Seq(ByteOf(script)) /\ Len(net2) = Len(net) - k
    /\ Leaves(script, all, top, last, r.ok, r.out, r.rest, (r.rest \o net2) \o wr)
    /\ AllGood(script) /\ all[1].at = 1 /\ Len(buf) + k <= MaxBuffer => r.ok

\* The same of a chunk cut from the bytes on their way, pushed after what the
\* decoder holds.
LEMMA PushLeaves ==
    ASSUME NEW script \in Seq(Message), NEW buf \in Seq(ByteOf(script)),
           NEW net \in Seq(ByteOf(script)), NEW wr \in Seq(ByteOf(script)),
           NEW misread \in Nat, NEW k \in 1 .. Len(net),
           NEW top \in Nat, NEW last \in Nat, NEW all,
           AreComing(script, buf, net, wr, top, last, all)
    PROVE  CutLeaves(script, buf, net, wr, misread, k, top, last, all)
  <1> DEFINE B == Seq(ByteOf(script))
             chunk == SubSeq(net, 1, k)
             net2 == SubSeq(net, k + 1, Len(net))
             r == Push(script, buf, chunk, misread)
             got == buf \o chunk
             after == net2 \o wr
  <1>0. /\ all = (buf \o net) \o wr /\ IsStretch(script, all)
        /\ top < all[1].msg /\ all[Len(all)].msg <= last
    BY DEF AreComing
  <1>1. Len(net) \in Nat /\ Len(buf) \in Nat /\ k \in 0 .. Len(net) /\ k \in Nat
    BY LenProperties
  <1>2. /\ chunk \in B /\ Len(chunk) = k /\ chunk # <<>>
    <2>1. \A i \in 1 .. k : net[i] \in ByteOf(script)
      BY <1>1, ElementOfSeq
    <2>2. SubSeq(net, 1, k) \in Seq(ByteOf(script)) /\ Len(SubSeq(net, 1, k)) = k
      BY <1>1, <2>1, SubSeqProperties
    <2>3. Len(chunk) # 0
      BY <2>2
    <2> QED
      BY <2>2, <2>3, EmptySeq
  <1>3. net2 \in B /\ Len(net2) = Len(net) - k
    BY <1>1, SuffixProperties DEF Suffix
  <1>4. chunk \o net2 = net
    <2>1. SubSeq(net, 1, k) \o SubSeq(net, k + 1, Len(net)) = SubSeq(net, 1, Len(net))
      <3>1. 1 \in 1 .. Len(net) + 1 /\ k \in 1 - 1 .. Len(net) /\ Len(net) \in k .. Len(net)
        BY <1>1
      <3> QED
        BY <3>1, ConcatAdjacentSubSeq
    <2> QED
      BY <2>1, SubSeqFull
  <1> HIDE DEF chunk, net2
  <1>a. Associative(B)
    BY Associates
  <1>5. got \in B /\ after \in B /\ Len(got) = Len(buf) + k /\ got # <<>>
    <2>1. got \in B /\ after \in B /\ Len(got) = Len(buf) + k
      BY <1>2, <1>3, ConcatProperties
    <2>2. Len(got) # 0
      BY <1>1, <2>1
    <2> QED
      BY <2>1, <2>2, EmptySeq
  <1>6. all = got \o after
    <2>1. got \o after = (got \o net2) \o wr
      <3>1. (got \o net2) \o wr = got \o (net2 \o wr)
        <4>1. got \in B /\ net2 \in B /\ wr \in B
          BY <1>3, <1>5
        <4> HIDE DEF B
        <4> QED
          BY <1>a, <4>1 DEF Associative
      <3> QED
        BY <3>1 DEF after
    <2>2. got \o net2 = buf \o net
      <3>1. (buf \o chunk) \o net2 = buf \o (chunk \o net2)
        <4>1. buf \in B /\ chunk \in B /\ net2 \in B
          BY <1>2, <1>3
        <4> HIDE DEF B
        <4> QED
          BY <1>a, <4>1 DEF Associative
      <3> QED
        BY <1>4, <3>1 DEF got
    <2> QED
      BY <1>0, <2>1, <2>2
  <1> HIDE DEF got, after
  <1>7. IsStretch(script, got)
    BY <1>0, <1>5, <1>6, PrefixIsStretch
  <1>8. all[1] = got[1]
    <2>1. Len(got) \in Nat \ {0} /\ Len(after) \in Nat
      BY <1>5, EmptySeq, LenProperties
    <2>2. \A i \in 1 .. Len(got) + Len(after) :
             (got \o after)[i] = IF i <= Len(got) THEN got[i] ELSE after[i - Len(got)]
      BY <1>5, ConcatProperties
    <2>3. 1 \in 1 .. Len(got) + Len(after) /\ 1 <= Len(got)
      BY <2>1
    <2> QED
      BY <1>6, <2>2, <2>3
  <1>9. /\ r.ok \in BOOLEAN /\ Len(r.rest) < MaxBuffer /\ r.rest \in B
        /\ IF Len(buf) + k > MaxBuffer THEN r = Failed
           ELSE Reading(script, got, r.ok, r.out, r.rest)
    <2>1. IsStretch(script, buf \o chunk)
      BY <1>7 DEF got
    <2> QED
      BY <1>2, <2>1, PushReads DEF got
  <1> HIDE DEF r
  <1>10. (r.rest \o net2) \o wr = r.rest \o after
    <2>1. r.rest \in B /\ net2 \in B /\ wr \in B
      BY <1>3, <1>9
    <2> HIDE DEF B
    <2> QED
      BY <1>a, <2>1 DEF after, Associative
  <1>11. Leaves(script, all, top, last, r.ok, r.out, r.rest, r.rest \o after)
    <2>1. CASE Len(buf) + k > MaxBuffer
      <3>1. r.ok = FALSE /\ r.out = <<>> /\ r.rest = <<>>
        BY <1>9, <2>1 DEF Failed
      <3>2. Leaves(script, all, top, last, FALSE, <<>>, <<>>, <<>> \o after)
        BY <1>0, <1>5, <1>6, LossLeaves
      <3> QED
        BY <3>1, <3>2
    <2>2. CASE ~(Len(buf) + k > MaxBuffer)
      <3>1. Reading(script, got, r.ok, r.out, r.rest)
        BY <1>9, <2>2
      <3> QED
        BY <1>0, <1>5, <1>6, <1>9, <3>1, ReadingLeaves
    <2> QED
      BY <2>1, <2>2
  <1>12. ASSUME AllGood(script), all[1].at = 1, Len(buf) + k <= MaxBuffer PROVE r.ok
    <2>1. ~(Len(buf) + k > MaxBuffer)
      BY <1>1, <1>12, DecoderAssumption DEF MaxBuffer
    <2>2. Reading(script, got, r.ok, r.out, r.rest)
      BY <1>9, <2>1
    <2>3. Aligned(got)
      BY <1>8, <1>12 DEF Aligned
    <2> QED
      BY <1>12, <2>2, <2>3 DEF Reading
  <1> QED
    BY <1>3, <1>9, <1>10, <1>11, <1>12 DEF r, chunk, net2, CutLeaves
=============================================================================
