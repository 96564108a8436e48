------------------------- MODULE FrameStreamProofs -------------------------
(***************************************************************************)
(* Proofs about the byte streams: what is sent is decoded in order, and an *)
(* error is reported before anything is passed over, whatever is cut,      *)
(* dropped or closed.                                                      *)
(***************************************************************************)
EXTENDS FrameStream, FrameDecoderProofs

-----------------------------------------------------------------------------
(***************************************************************************)
(* The inductive invariant, for what p sends to its peer q.                *)
(***************************************************************************)
\* The number of the last message of p that was handled, and of the last that
\* was decoded.
LastHandled(p) == IF handled[p] = <<>> THEN 0 ELSE handled[p][Len(handled[p])]

Top(p) == LET got == parts[Other(p)] IN
          IF got = <<>> THEN LastHandled(p) ELSE got[Len(got)]

\* What is decoded and not handled is consecutive, later than what is handled,
\* next to it when there was no error, and was sent.
InHand(p) ==
    LET got == parts[Other(p)] IN
    /\ LastHandled(p) \in Nat /\ Top(p) \in 0 .. sent[p]
    /\ \A i \in 1 .. Len(got) : got[i] = got[1] + i - 1
    /\ got # <<>> => /\ LastHandled(p) < got[1]
                     /\ p \notin reported => got[1] = LastHandled(p) + 1

\* HTTP/2: the bytes that are still to be decoded.
Coming(p) == (buffer[Other(p)] \o network[p]) \o writing[p]

\* They are a stretch of the stream, which starts after what was decoded - at
\* once when there was no error, and then the decoder holds less than the
\* message it waits for - and ends with the last message, unless that was
\* dropped.
ComesCut(p) ==
    LET s == Coming(p) IN
    /\ {buffer[Other(p)], network[p], writing[p]} \subseteq Seq(ByteOf(Script(p)))
    /\ IsStretch(Script(p), s) /\ Len(network[p]) <= Capacity
    /\ s # <<>> => /\ Top(p) < s[1].msg /\ s[Len(s)].msg <= sent[p]
                   /\ p \notin reported => s[1] = [msg |-> Top(p) + 1, at |-> 1]
                   /\ p \notin done => s[Len(s)] =
                        [msg |-> sent[p], at |-> FrameLen(Script(p), sent[p])]
    /\ s = <<>> /\ p \notin done /\ p \notin reported => sent[p] = Top(p)
    /\ p \notin reported /\ buffer[Other(p)] # <<>> =>
          Len(buffer[Other(p)]) < FrameLen(Script(p), Top(p) + 1)

\* The messages after a up to b, one to a chunk.
Chunks(script, a, b) == [i \in 1 .. b - a |-> Encoded(a + i, script[a + i])]

\* Memory and WebSocket: whole messages, in order, gapless while no end is
\* closed and no error was reported.
ComesWhole(p) ==
    /\ buffer[Other(p)] = <<>> /\ writing[p] = <<>>
    /\ mode.kind = "memory" => network[p] = <<>>
    /\ \E a, b, c, d \in 0 .. sent[p] :
        /\ Top(p) <= a /\ a <= b /\ b <= c /\ c <= d
        /\ queue[Other(p)] = Chunks(Script(p), a, b)
        /\ network[p] = Chunks(Script(p), c, d)
        /\ p \notin reported => a = Top(p)
        /\ Other(p) \notin done => c = b
        /\ p \notin done => d = sent[p]

Comes(p) ==
    /\ sent[p] <= Len(Script(p))
    /\ InHand(p)
    /\ mode.kind = "http2" => ComesCut(p) /\ queue[Other(p)] = <<>>
    /\ mode.kind # "http2" => ComesWhole(p)

Invariant ==
    /\ TypeOK /\ LegalStreamDecodes
    /\ mode.kind = "memory" => done \in {{}, Peers}
    /\ \A p \in Peers : Comes(p)

-----------------------------------------------------------------------------
(***************************************************************************)
(* The invariant, action by action.                                        *)
(***************************************************************************)
LEMMA PeerFacts ==
    ASSUME NEW p \in Peers
    PROVE  /\ Other(p) \in Peers /\ Other(p) # p /\ Other(Other(p)) = p
           /\ \A q \in Peers : q = p \/ q = Other(p)
  BY StreamAssumption DEF Peers, Other

\* What StreamAssumption says of the mode a stream runs in.
LEMMA ModeFacts ==
    ASSUME mode \in Modes, NEW p \in Peers
    PROVE  /\ Script(p) \in Seq(Message) /\ mode.misread \in Nat
           /\ mode.kind \in {"memory", "websocket", "http2"}
  <1>1. mode \in Mode
    BY StreamAssumption
  <1>2. mode.script \in [Peers -> Seq(Message)] /\ mode.misread \in 0 .. MaxFrame + 1
        /\ mode.kind \in {"memory", "websocket", "http2"}
    BY <1>1 DEF Mode
  <1> QED
    BY <1>2, DecoderAssumption DEF Script

\* Nothing of what p sends is touched, and ends at most close.
LEMMA ComesUnchanged ==
    ASSUME NEW p \in Peers, Comes(p), mode' = mode, sent'[p] = sent[p],
           handled'[p] = handled[p], parts'[Other(p)] = parts[Other(p)],
           buffer'[Other(p)] = buffer[Other(p)], queue'[Other(p)] = queue[Other(p)],
           network'[p] = network[p], writing'[p] = writing[p],
           p \in reported' <=> p \in reported, done \subseteq done'
    PROVE  Comes(p)'
  <1>1. Script(p)' = Script(p) /\ LastHandled(p)' = LastHandled(p) /\ Top(p)' = Top(p)
        /\ Coming(p)' = Coming(p)
    BY DEF Script, LastHandled, Top, Coming
  <1>2. InHand(p)'
    <2>1. InHand(p)
      BY DEF Comes
    <2> QED
      BY <1>1, <2>1 DEF InHand
  <1>3. ASSUME ComesCut(p) PROVE ComesCut(p)'
    BY <1>1, <1>3 DEF ComesCut
  <1>4. ASSUME ComesWhole(p) PROVE ComesWhole(p)'
    BY <1>1, <1>4 DEF ComesWhole
  <1> QED
    BY <1>1, <1>2, <1>3, <1>4 DEF Comes

\* The chunks of consecutive messages: their number, the first of them, the
\* rest, and one more.
LEMMA ChunksProperties ==
    ASSUME NEW script \in Seq(Message), NEW a \in Nat, NEW b \in Nat, a <= b,
           b <= Len(script)
    PROVE  LET s == Chunks(script, a, b) IN
           /\ Len(s) = b - a /\ DOMAIN s = 1 .. b - a
           /\ s = <<>> <=> a = b
           /\ a < b => /\ Head(s) = Encoded(a + 1, script[a + 1])
                       /\ Tail(s) = Chunks(script, a + 1, b)
           /\ b < Len(script) =>
                Append(s, Encoded(b + 1, script[b + 1])) = Chunks(script, a, b + 1)
  <1> DEFINE At(i) == Encoded(a + i, script[a + i])
             S == {At(i) : i \in 1 .. b - a + 1}
             s == Chunks(script, a, b)
  <1>1. s = [i \in 1 .. b - a |-> At(i)]
    BY DEF Chunks
  <1>2. s \in Seq(S) /\ Len(s) = b - a /\ DOMAIN s = 1 .. b - a
    <2>1. s \in [1 .. b - a -> S]
      <3> HIDE DEF At, s
      <3> QED
        BY <1>1
    <2> HIDE DEF S, s
    <2>2. s \in Seq(S)
      BY <2>1, SeqDef
    <2> QED
      BY <2>1, <2>2, LenProperties
  <1>3. s = <<>> <=> a = b
    <2> HIDE DEF s, S
    <2> QED
      BY <1>2, EmptySeq
  <1>4. ASSUME a < b PROVE Head(s) = Encoded(a + 1, script[a + 1])
    <2>1. Head(s) = s[1]
      OBVIOUS
    <2>2. 1 \in 1 .. b - a
      BY <1>4
    <2> HIDE DEF s
    <2> QED
      BY <1>1, <2>1, <2>2
  <1>5. ASSUME a < b PROVE Tail(s) = Chunks(script, a + 1, b)
    <2> DEFINE t == Tail(s)
               u == Chunks(script, a + 1, b)
               n == b - (a + 1)
    <2>1. u = [i \in 1 .. n |-> At(i + 1)]
      <3>1. \A i \in 1 .. n : (a + 1) + i = a + (i + 1)
        OBVIOUS
      <3> QED
        BY <3>1 DEF Chunks
    <2>2. n \in Nat /\ n = (b - a) - 1
      BY <1>5
    <2>3. u \in Seq(S) /\ Len(u) = n
      <3>1. \A i \in 1 .. n : At(i + 1) \in S
        <4> HIDE DEF At
        <4> QED
          OBVIOUS
      <3> HIDE DEF At, S, u
      <3>2. u \in [1 .. n -> S]
        BY <2>1, <3>1
      <3> HIDE DEF n
      <3>3. u \in Seq(S)
        BY <2>2, <3>2, SeqDef
      <3> QED
        BY <2>2, <3>2, <3>3, LenProperties
    <2>4. s # <<>>
      BY <1>3, <1>5
    <2> HIDE DEF s, S, u, At
    <2>5. t \in Seq(S) /\ Len(t) = Len(s) - 1 /\ \A i \in 1 .. Len(t) : t[i] = s[i + 1]
      BY <1>2, <2>4, HeadTailProperties
    <2> HIDE DEF t, n
    <2>6. ASSUME NEW i \in 1 .. n PROVE t[i] = u[i]
      <3>1. i \in 1 .. Len(t) /\ i + 1 \in 1 .. b - a
        BY <1>2, <2>2, <2>5
      <3> QED
        BY <1>1, <2>1, <2>5, <3>1
    <2>7. t = u
      BY <1>2, <2>2, <2>3, <2>5, <2>6, SeqEqual
    <2> QED
      BY <2>7 DEF t, u
  <1>6. ASSUME b < Len(script)
        PROVE  Append(s, Encoded(b + 1, script[b + 1])) = Chunks(script, a, b + 1)
    <2> DEFINE n == b - a
               e == At(n + 1)
               t == Append(s, e)
               u == Chunks(script, a, b + 1)
    <2>1. u = [i \in 1 .. n + 1 |-> At(i)]
      <3>1. (b + 1) - a = n + 1
        OBVIOUS
      <3> QED
        BY <3>1 DEF Chunks
    <2>2. n \in Nat /\ a + (n + 1) = b + 1
      OBVIOUS
    <2>3. u \in Seq(S) /\ Len(u) = n + 1 /\ e \in S
      <3>1. \A i \in 1 .. n + 1 : At(i) \in S
        <4> HIDE DEF At
        <4> QED
          OBVIOUS
      <3> HIDE DEF At, S, u
      <3>2. u \in [1 .. n + 1 -> S] /\ e \in S
        BY <2>1, <2>2, <3>1
      <3> HIDE DEF n
      <3>3. u \in Seq(S)
        BY <2>2, <3>2, SeqDef
      <3> QED
        BY <2>2, <3>2, <3>3, LenProperties
    <2>4. e = Encoded(b + 1, script[b + 1])
      BY <2>2
    <2> HIDE DEF s, S, u, At, e
    <2>5. /\ t \in Seq(S) /\ Len(t) = Len(s) + 1
          /\ \A i \in 1 .. Len(s) : t[i] = s[i]
          /\ t[Len(s) + 1] = e
      BY <1>2, <2>3, AppendProperties
    <2>6. Len(s) = n /\ e = At(n + 1)
      BY <1>2 DEF e
    <2> HIDE DEF t, n
    <2>7. ASSUME NEW i \in 1 .. n + 1 PROVE t[i] = u[i]
      <3>1. CASE i = n + 1
        BY <2>1, <2>5, <2>6, <3>1
      <3>2. CASE i # n + 1
        <4>1. i \in 1 .. n
          BY <2>2, <3>2
        <4>2. s[i] = At(i)
          BY <1>1, <4>1 DEF n
        <4> QED
          BY <2>1, <2>5, <2>6, <4>1, <4>2
      <3> QED
        BY <3>1, <3>2
    <2>8. t = u
      BY <2>2, <2>3, <2>5, <2>6, <2>7, SeqEqual
    <2> QED
      BY <2>4, <2>8 DEF t, u
  <1> QED
    BY <1>2, <1>3, <1>4, <1>5, <1>6

\* There are no chunks when there are no messages.
LEMMA NoChunks ==
    ASSUME NEW script \in Seq(Message), NEW a \in Nat, NEW b \in Nat, a <= b,
           b <= Len(script)
    PROVE  Chunks(script, a, b) = <<>> <=> a = b
  BY ChunksProperties

\* The first chunk and the rest.
LEMMA ChunksTail ==
    ASSUME NEW script \in Seq(Message), NEW a \in Nat, NEW b \in Nat, a < b,
           b <= Len(script)
    PROVE  /\ Head(Chunks(script, a, b)) = Encoded(a + 1, script[a + 1])
           /\ Tail(Chunks(script, a, b)) = Chunks(script, a + 1, b)
  <1>1. a <= b
    OBVIOUS
  <1> QED
    BY <1>1, ChunksProperties

\* One more chunk.
LEMMA ChunksAppend ==
    ASSUME NEW script \in Seq(Message), NEW a \in Nat, NEW b \in Nat, a <= b,
           b < Len(script)
    PROVE  Append(Chunks(script, a, b), Encoded(b + 1, script[b + 1])) =
             Chunks(script, a, b + 1)
  <1>1. b <= Len(script)
    BY LenProperties
  <1> QED
    BY <1>1, ChunksProperties

\* What the invariant says of one direction, taken apart.
LEMMA InvariantFacts ==
    ASSUME Invariant, NEW p \in Peers
    PROVE  /\ Comes(p) /\ InHand(p) /\ Script(p) \in Seq(Message)
           /\ mode.misread \in Nat /\ mode.kind \in {"memory", "websocket", "http2"}
           /\ sent[p] \in Nat /\ Len(Script(p)) \in Nat /\ sent[p] <= Len(Script(p))
           /\ Other(p) \in Peers /\ Other(p) # p /\ Other(Other(p)) = p
           /\ Top(p) \in Nat /\ Top(p) <= sent[p] /\ LastHandled(p) \in Nat
  <1>1. TypeOK /\ Comes(p) /\ mode \in Modes /\ sent[p] \in Nat
    BY DEF Invariant, TypeOK
  <1>2. InHand(p) /\ sent[p] <= Len(Script(p))
    BY <1>1 DEF Comes
  <1>3. Script(p) \in Seq(Message) /\ mode.misread \in Nat
        /\ mode.kind \in {"memory", "websocket", "http2"}
    BY <1>1, ModeFacts
  <1>4. LastHandled(p) \in Nat /\ Top(p) \in 0 .. sent[p]
    BY <1>2 DEF InHand
  <1> QED
    BY <1>1, <1>2, <1>3, <1>4, PeerFacts, LenProperties

\* The next message of p is written: it comes after all that is to come.
LEMMA ComesWriteOwn ==
    ASSUME Invariant, NEW p \in Peers, Write(p)
    PROVE  Comes(p)'
  <1> DEFINE q == Other(p)
             script == Script(p)
             n == sent[p] + 1
             bytes == Encoded(n, script[n])
  <1>1. /\ Comes(p) /\ InHand(p) /\ script \in Seq(Message)
        /\ mode.kind \in {"memory", "websocket", "http2"}
        /\ sent[p] \in Nat /\ Len(script) \in Nat /\ sent[p] <= Len(script)
        /\ q \in Peers /\ q # p /\ Other(q) = p /\ Top(p) \in Nat /\ Top(p) <= sent[p]
    BY InvariantFacts
  <1>2. /\ sent[p] < Len(script) /\ sent' = [sent EXCEPT ![p] = n]
        /\ writing[p] = <<>>
        /\ UNCHANGED <<mode, buffer, parts, handled, errors, reported>>
    BY DEF Write
  <1>3. TypeOK
    BY DEF Invariant
  <1>4. sent'[p] = n /\ n \in 1 .. Len(script) /\ n - 1 = sent[p]
    <2>1. sent \in [Peers -> Nat]
      BY <1>3 DEF TypeOK
    <2>2. sent'[p] = n
      BY <1>2, <2>1
    <2>3. sent[p] + 1 \in 1 .. Len(script) /\ (sent[p] + 1) - 1 = sent[p]
      BY <1>1, <1>2
    <2> QED
      BY <2>2, <2>3
  <1>5. /\ Script(p)' = script /\ LastHandled(p)' = LastHandled(p) /\ Top(p)' = Top(p)
        /\ buffer'[q] = buffer[q]
    BY <1>2 DEF Script, LastHandled, Top
  <1>6. InHand(p)'
    <2>1. Top(p) \in 0 .. n
      BY <1>1, <1>4
    <2> QED
      BY <1>1, <1>2, <1>4, <1>5, <2>1 DEF InHand
  <1>7. CASE mode.kind = "http2"
    <2>1. /\ ComesCut(p) /\ queue[q] = <<>>
      BY <1>1, <1>7 DEF Comes
    <2>2. CASE p \in done
      <3>1. UNCHANGED <<writing, network, queue, done>>
        BY <1>7, <2>2 DEF Write
      <3>2. Coming(p)' = Coming(p)
        BY <1>2, <3>1 DEF Coming
      <3>3. ComesCut(p)'
        <4> DEFINE s == Coming(p)
        <4>1. s # <<>> => s[Len(s)].msg <= n
          <5> SUFFICES ASSUME s # <<>> PROVE s[Len(s)].msg <= n
            OBVIOUS
          <5>1. s[Len(s)].msg <= sent[p] /\ s \in Seq(ByteOf(script))
            BY <2>1 DEF ComesCut, IsStretch
          <5> HIDE DEF s
          <5>2. s[Len(s)] \in ByteOf(script)
            <6>1. Len(s) \in 1 .. Len(s)
              BY <5>1, EmptySeq
            <6> QED
              BY <5>1, <6>1, ElementOfSeq
          <5>3. s[Len(s)].msg \in Nat
            BY <5>2 DEF ByteOf
          <5> QED
            BY <1>1, <5>1, <5>3
        <4> HIDE DEF n
        <4> QED
          BY <1>2, <1>4, <1>5, <2>1, <2>2, <3>1, <3>2, <4>1 DEF ComesCut
      <3> QED
        BY <1>4, <1>5, <1>6, <1>2, <1>7, <2>1, <3>1, <3>3 DEF Comes
    <2>3. CASE p \notin done
      <3> DEFINE s == Coming(p)
      <3>1. writing' = [writing EXCEPT ![p] = bytes] /\ UNCHANGED <<network, queue, done>>
        BY <1>7, <2>3 DEF Write
      <3>2. writing'[p] = bytes /\ network'[p] = network[p]
        BY <1>3, <3>1 DEF TypeOK
      <3>3. Coming(p)' = s \o bytes
        <4> DEFINE u == buffer[q] \o network[p]
        <4>1. buffer[q] \in Seq(ByteOf(script)) /\ network[p] \in Seq(ByteOf(script))
          BY <2>1 DEF ComesCut
        <4>2. u \in Seq(ByteOf(script))
          BY <4>1, ConcatProperties
        <4>3. s = u \o <<>>
          BY <1>2 DEF Coming
        <4>4. Coming(p)' = u \o bytes
          BY <1>5, <3>2 DEF Coming
        <4> HIDE DEF u
        <4>5. u \o <<>> = u
          BY <4>2, ConcatEmptySeq
        <4> QED
          BY <4>3, <4>4, <4>5
      <3> DEFINE t == s \o bytes
      <3>4. IsStretch(script, s)
        BY <2>1 DEF ComesCut
      <3>5. s # <<>> => s[Len(s)] = [msg |-> n - 1, at |-> FrameLen(script, n - 1)]
        BY <1>4, <2>1, <2>3 DEF ComesCut
      <3> HIDE DEF s
      <3>6. /\ IsStretch(script, t) /\ t # <<>>
            /\ t[1] = IF s = <<>> THEN [msg |-> n, at |-> 1] ELSE s[1]
            /\ t[Len(t)] = [msg |-> n, at |-> FrameLen(script, n)]
        <4> HIDE DEF n
        <4> QED
          BY <1>1, <1>4, <3>4, <3>5, StretchExtends
      <3> HIDE DEF t, bytes
      <3>7. bytes \in Seq(ByteOf(script))
        BY <1>1, <1>4, EncodedProperties DEF IsStretch, bytes
      <3>8. Top(p) < t[1].msg /\ t[Len(t)].msg <= n
        <4>1. CASE s = <<>>
          <5>1. t[1].msg = n /\ t[Len(t)].msg = n
            BY <3>6, <4>1
          <5> QED
            BY <1>1, <1>4, <5>1
        <4>2. CASE s # <<>>
          <5>1. t[1] = s[1] /\ t[Len(t)].msg = n
            BY <3>6, <4>2
          <5>2. Top(p) < s[1].msg
            BY <2>1, <4>2 DEF ComesCut, s
          <5> QED
            BY <1>4, <5>1, <5>2
        <4> QED
          BY <4>1, <4>2
      <3>9. p \notin reported => t[1] = [msg |-> Top(p) + 1, at |-> 1]
        <4>1. CASE s = <<>>
          <5>1. t[1] = [msg |-> n, at |-> 1]
            BY <3>6, <4>1
          <5>2. p \notin reported => sent[p] = Top(p)
            BY <2>1, <2>3, <4>1 DEF ComesCut, s
          <5> QED
            BY <5>1, <5>2
        <4>2. CASE s # <<>>
          <5>1. t[1] = s[1]
            BY <3>6, <4>2
          <5>2. p \notin reported => s[1] = [msg |-> Top(p) + 1, at |-> 1]
            BY <2>1, <4>2 DEF ComesCut, s
          <5> QED
            BY <5>1, <5>2
        <4> QED
          BY <4>1, <4>2
      <3>10. ComesCut(p)'
        <4>1. Coming(p)' = t
          BY <3>3 DEF t
        <4>2. /\ {buffer[q], network[p]} \subseteq Seq(ByteOf(script))
              /\ Len(network[p]) <= Capacity
              /\ p \notin reported /\ buffer[q] # <<>> =>
                    Len(buffer[q]) < FrameLen(script, Top(p) + 1)
          BY <2>1 DEF ComesCut
        <4> HIDE DEF n
        <4> QED
          BY <1>2, <1>4, <1>5, <3>1, <3>2, <3>6, <3>7, <3>8, <3>9, <4>1, <4>2 DEF ComesCut
      <3> QED
        BY <1>4, <1>5, <1>6, <1>2, <1>7, <2>1, <3>1, <3>10 DEF Comes
    <2> QED
      BY <2>2, <2>3
  <1>8. CASE mode.kind # "http2"
    <2>1. ComesWhole(p)
      BY <1>1, <1>8 DEF Comes
    <2>2. /\ buffer[q] = <<>> /\ writing[p] = <<>>
          /\ mode.kind = "memory" => network[p] = <<>>
      BY <2>1 DEF ComesWhole
    <2>3. PICK a, b, c, d \in 0 .. sent[p] :
              /\ Top(p) <= a /\ a <= b /\ b <= c /\ c <= d
              /\ queue[q] = Chunks(script, a, b)
              /\ network[p] = Chunks(script, c, d)
              /\ p \notin reported => a = Top(p)
              /\ q \notin done => c = b
              /\ p \notin done => d = sent[p]
      BY <2>1 DEF ComesWhole
    <2>4. /\ {a, b, c, d, n} \subseteq 0 .. n /\ {a, b, c, d} \subseteq Nat
          /\ b <= Len(script) /\ d <= Len(script)
      BY <1>1, <1>4
    <2>5. ASSUME NEW b1 \in 0 .. n, NEW c1 \in 0 .. n, NEW d1 \in 0 .. n,
                 a <= b1, b1 <= c1, c1 <= d1, writing'[p] = <<>>,
                 queue'[q] = Chunks(script, a, b1), network'[p] = Chunks(script, c1, d1),
                 mode.kind = "memory" => network'[p] = <<>>,
                 q \notin done' => c1 = b1, p \notin done' => d1 = n
          PROVE  Comes(p)'
      <3>1. ComesWhole(p)'
        <4> HIDE DEF n
        <4> QED
          BY <1>2, <1>4, <1>5, <2>2, <2>3, <2>4, <2>5 DEF ComesWhole
      <3> QED
        BY <1>2, <1>4, <1>5, <1>6, <1>8, <3>1 DEF Comes
    <2>6. CASE p \in done
      <3>1. UNCHANGED <<writing, network, queue, done>>
        BY <2>6 DEF Write
      <3> QED
        BY <1>4, <2>2, <2>3, <2>4, <2>5, <2>6, <3>1
    <2>7. CASE p \notin done /\ mode.kind = "memory"
      <3>1. Enqueue(q, bytes, Peers) /\ UNCHANGED <<writing, network>>
        BY <2>7 DEF Write
      <3>2. done = {}
        BY <2>7 DEF Invariant
      <3>3. c = b /\ d = sent[p] /\ c = d
        <4>1. c = b /\ d = sent[p] /\ Chunks(script, c, d) = <<>>
          BY <2>2, <2>3, <2>7, <3>2
        <4>2. c = d
          BY <1>1, <2>3, <2>4, <4>1, ChunksProperties
        <4> QED
          BY <4>1, <4>2
      <3>4. CASE Overflows(q)
        <4>1. queue'[q] = queue[q] /\ done' = Peers
          BY <1>1, <1>3, <3>1, <3>2, <3>4 DEF Enqueue, DoneAfterOverflow, TypeOK
        <4> QED
          BY <1>1, <2>2, <2>3, <2>4, <2>5, <2>7, <3>1, <4>1
      <3>5. CASE ~Overflows(q)
        <4>1. queue'[q] = Append(queue[q], bytes)
          BY <1>1, <1>3, <3>1, <3>5 DEF Enqueue, TypeOK
        <4>2. n = b + 1 /\ b < Len(script) /\ a <= b + 1
          BY <1>1, <1>2, <2>3, <2>4, <3>3
        <4>3. queue'[q] = Chunks(script, a, n)
          <5>1. Append(Chunks(script, a, b), Encoded(b + 1, script[b + 1])) =
                   Chunks(script, a, b + 1)
            BY <1>1, <2>3, <2>4, <4>2, ChunksProperties
          <5> HIDE DEF n
          <5> QED
            BY <2>3, <4>1, <4>2, <5>1
        <4>4. Chunks(script, n, n) = <<>>
          BY <1>1, <1>4, ChunksProperties
        <4>5. n \in 0 .. n /\ n <= n /\ a <= n
          BY <2>4, <4>2
        <4> HIDE DEF n
        <4> QED
          BY <2>2, <2>5, <2>7, <3>1, <4>3, <4>4, <4>5
      <3> QED
        BY <3>4, <3>5
    <2>8. CASE p \notin done /\ mode.kind = "websocket"
      <3>1. network' = [network EXCEPT ![p] = Append(@, bytes)]
            /\ UNCHANGED <<writing, queue, done>>
        BY <2>8 DEF Write
      <3>2. network'[p] = Append(network[p], bytes)
        BY <1>3, <3>1 DEF TypeOK
      <3>3. d = sent[p] /\ n = d + 1 /\ d < Len(script) /\ c <= n /\ n \in 0 .. n
        BY <1>2, <1>4, <2>3, <2>4, <2>8
      <3>4. network'[p] = Chunks(script, c, n)
        <4>1. Append(Chunks(script, c, d), Encoded(d + 1, script[d + 1])) =
                 Chunks(script, c, d + 1)
          <5>1. c \in Nat /\ d \in Nat /\ c <= d /\ d < Len(script) /\ d <= Len(script)
            BY <2>3, <2>4, <3>3
          <5> QED
            BY <1>1, <5>1, ChunksAppend
        <4> HIDE DEF n
        <4> QED
          BY <2>3, <3>2, <3>3, <4>1
      <3> HIDE DEF n
      <3> QED
        BY <2>2, <2>3, <2>4, <2>5, <2>8, <3>1, <3>3, <3>4
    <2> QED
      BY <1>1, <1>8, <2>6, <2>7, <2>8
  <1> QED
    BY <1>7, <1>8

\* What p writes changes nothing of what the other sends.
LEMMA ComesWrite ==
    ASSUME Invariant, NEW r \in Peers, Write(r), NEW p \in Peers
    PROVE  Comes(p)'
  <1>1. CASE p = r
    BY <1>1, ComesWriteOwn
  <1>2. CASE p # r
    <2>1. /\ r = Other(p) /\ p = Other(r) /\ Comes(p) /\ TypeOK
      BY <1>2, PeerFacts DEF Invariant
    <2>2. UNCHANGED <<mode, buffer, parts, handled, reported>>
      BY DEF Write
    <2>3. sent'[p] = sent[p]
      BY <1>2, <2>1 DEF Write, TypeOK
    <2>4. /\ writing'[p] = writing[p] /\ network'[p] = network[p]
          /\ queue'[r] = queue[r] /\ done \subseteq done'
      <3> DEFINE bytes == Encoded(sent[r] + 1, Script(r)[sent[r] + 1])
      <3>1. \/ UNCHANGED <<writing, network, queue, done>>
            \/ Enqueue(Other(r), bytes, Peers) /\ UNCHANGED <<writing, network>>
            \/ /\ network' = [network EXCEPT ![r] = Append(@, bytes)]
               /\ UNCHANGED <<writing, queue, done>>
            \/ /\ writing' = [writing EXCEPT ![r] = bytes]
               /\ UNCHANGED <<network, queue, done>>
        <4>1. mode.kind \in {"memory", "websocket", "http2"}
          BY InvariantFacts
        <4> QED
          BY <4>1 DEF Write
      <3> HIDE DEF bytes
      <3>2. network' = network \/ network' = [network EXCEPT ![r] = Append(@, bytes)]
        BY <3>1
      <3>3. writing' = writing \/ writing' = [writing EXCEPT ![r] = bytes]
        BY <3>1
      <3>4. queue'[r] = queue[r] /\ done \subseteq done'
        <4>1. CASE UNCHANGED <<queue, done>>
          BY <4>1
        <4>2. CASE Enqueue(Other(r), bytes, Peers)
          <5>1. queue \in [Peers -> Seq(Seq(Byte))]
            BY <2>1 DEF TypeOK
          <5> QED
            BY <1>2, <2>1, <4>2, <5>1 DEF Enqueue, DoneAfterOverflow
        <4> QED
          BY <3>1, <4>1, <4>2
      <3> QED
        <4>1. DOMAIN network = Peers /\ DOMAIN writing = Peers
          BY <2>1 DEF TypeOK
        <4>2. network'[p] = network[p]
          BY <1>2, <3>2, <4>1
        <4>3. writing'[p] = writing[p]
          BY <1>2, <3>3, <4>1
        <4> QED
          BY <3>4, <4>2, <4>3
    <2> QED
      BY <2>1, <2>2, <2>3, <2>4, ComesUnchanged
  <1> QED
    BY <1>1, <1>2

\* The first of a sequence and the others.
LEMMA HeadThenTail ==
    ASSUME NEW S, NEW s \in Seq(S), s # <<>>
    PROVE  <<Head(s)>> \o Tail(s) = s
  <1> DEFINE h == Head(s)
             t == Tail(s)
             u == <<h>> \o t
  <1>1. h \in S /\ t \in Seq(S) /\ Len(t) = Len(s) - 1 /\ h = s[1]
        /\ \A i \in 1 .. Len(t) : t[i] = s[i + 1]
    BY HeadTailProperties
  <1>2. Len(s) \in Nat \ {0}
    BY EmptySeq
  <1> HIDE DEF h, t
  <1>3. <<h>> \in Seq(S) /\ Len(<<h>>) = 1 /\ <<h>>[1] = h
    BY <1>1
  <1>4. /\ u \in Seq(S) /\ Len(u) = Len(<<h>>) + Len(t)
        /\ \A i \in 1 .. Len(<<h>>) + Len(t) :
              u[i] = IF i <= Len(<<h>>) THEN <<h>>[i] ELSE t[i - Len(<<h>>)]
    BY <1>1, <1>3, ConcatProperties
  <1> HIDE DEF u
  <1>5. Len(u) = Len(s)
    BY <1>1, <1>2, <1>3, <1>4
  <1>6. ASSUME NEW i \in 1 .. Len(s) PROVE u[i] = s[i]
    <2>1. u[i] = IF i <= 1 THEN <<h>>[i] ELSE t[i - 1]
      BY <1>2, <1>3, <1>4, <1>5
    <2>2. CASE i = 1
      BY <1>1, <1>3, <2>1, <2>2
    <2>3. CASE i # 1
      <3>1. i - 1 \in 1 .. Len(t) /\ (i - 1) + 1 = i /\ ~(i <= 1)
        BY <1>1, <1>2, <2>3
      <3> QED
        BY <1>1, <2>1, <3>1
    <2> QED
      BY <2>2, <2>3
  <1>7. u = s
    BY <1>4, <1>5, <1>6, SeqEqual
  <1> QED
    BY <1>7 DEF u, h, t

\* A byte of a write that the stream takes stays where it is among the bytes
\* to come.
LEMMA ComesFlow ==
    ASSUME Invariant, NEW r \in Peers, Flow(r), NEW p \in Peers
    PROVE  Comes(p)'
  <1> DEFINE q == Other(p)
             script == Script(p)
  <1>1. /\ Comes(p) /\ InHand(p) /\ script \in Seq(Message)
        /\ q \in Peers /\ q # p /\ Other(q) = p /\ TypeOK
    BY InvariantFacts DEF Invariant
  <1>2. /\ writing[r] # <<>> /\ Len(network[r]) < Capacity
        /\ network' = [network EXCEPT ![r] = Append(@, Head(writing[r]))]
        /\ writing' = [writing EXCEPT ![r] = Tail(@)]
        /\ UNCHANGED <<mode, sent, queue, buffer, parts, handled, errors, reported, done>>
    BY DEF Flow
  <1>3. CASE p # r
    <2>1. network'[p] = network[p] /\ writing'[p] = writing[p]
      BY <1>1, <1>2, <1>3 DEF TypeOK
    <2> QED
      BY <1>1, <1>2, <2>1, ComesUnchanged
  <1>4. CASE p = r
    <2>1. mode.kind = "http2" /\ ComesCut(p) /\ queue[q] = <<>>
      BY <1>1, <1>2, <1>4 DEF Comes, ComesWhole
    <2> DEFINE B == Seq(ByteOf(script))
               h == Head(writing[p])
    <2>2. buffer[q] \in B /\ network[p] \in B /\ writing[p] \in B
      BY <2>1 DEF ComesCut
    <2>3. h \in ByteOf(script) /\ Tail(writing[p]) \in B /\ <<h>> \o Tail(writing[p]) = writing[p]
      <3>1. h \in ByteOf(script) /\ Tail(writing[p]) \in B
        BY <1>2, <1>4, <2>2, HeadTailProperties
      <3>2. <<h>> \o Tail(writing[p]) = writing[p]
        BY <1>2, <1>4, <2>2, HeadThenTail
      <3> QED
        BY <3>1, <3>2
    <2>4. network'[p] = Append(network[p], h) /\ writing'[p] = Tail(writing[p])
      BY <1>1, <1>2, <1>4 DEF TypeOK
    <2> HIDE DEF h
    <2>5. /\ network'[p] = network[p] \o <<h>> /\ network'[p] \in B
          /\ Len(network'[p]) = Len(network[p]) + 1 /\ <<h>> \in B
      BY <2>2, <2>3, <2>4, AppendIsConcat, AppendProperties
    <2>6. Coming(p)' = Coming(p)
      <3> DEFINE t == Tail(writing[p])
                 one == <<h>>
      <3>1. Coming(p)' = (buffer[q] \o (network[p] \o one)) \o t
        BY <1>2, <2>4, <2>5 DEF Coming
      <3>2. Coming(p) = (buffer[q] \o network[p]) \o (one \o t)
        BY <2>3 DEF Coming
      <3>3. t \in B /\ one \in B
        BY <2>3, <2>5
      <3> HIDE DEF t, one
      <3>4. buffer[q] \o network[p] \in B
        BY <2>2, ConcatProperties
      <3>5. Associative(B)
        BY Associates
      <3>6. buffer[q] \in B /\ network[p] \in B
        BY <2>2
      <3> HIDE DEF B
      <3>7. buffer[q] \o (network[p] \o one) = (buffer[q] \o network[p]) \o one
        BY <3>3, <3>5, <3>6 DEF Associative
      <3>8. ((buffer[q] \o network[p]) \o one) \o t = (buffer[q] \o network[p]) \o (one \o t)
        BY <3>3, <3>4, <3>5 DEF Associative
      <3> QED
        BY <3>1, <3>2, <3>7, <3>8
    <2>7. Script(p)' = script /\ LastHandled(p)' = LastHandled(p) /\ Top(p)' = Top(p)
      BY <1>2 DEF Script, LastHandled, Top
    <2>8. Len(network'[p]) <= Capacity
      <3>1. Len(network[p]) \in Nat
        BY <2>2, LenProperties
      <3> QED
        BY <1>2, <1>4, <2>5, <3>1, StreamBounds
    <2>9. ComesCut(p)'
      BY <1>2, <2>1, <2>2, <2>3, <2>4, <2>5, <2>6, <2>7, <2>8 DEF ComesCut
    <2>10. InHand(p)'
      BY <1>1, <1>2, <2>7 DEF InHand
    <2> QED
      BY <1>1, <1>2, <2>1, <2>7, <2>9, <2>10 DEF Comes
  <1> QED
    BY <1>3, <1>4

\* A WebSocket message leaves the network and waits in the queue, or is lost
\* at an end that is closed, or closes it.
LEMMA ComesArrive ==
    ASSUME Invariant, NEW r \in Peers, Arrive(r), NEW p \in Peers
    PROVE  Comes(p)'
  <1> DEFINE q == Other(p)
             script == Script(p)
             x == Other(r)
  <1>1. /\ Comes(p) /\ InHand(p) /\ script \in Seq(Message)
        /\ sent[p] \in Nat /\ Len(script) \in Nat /\ sent[p] <= Len(script)
        /\ q \in Peers /\ q # p /\ Other(q) = p /\ TypeOK /\ Top(p) \in Nat
    BY InvariantFacts DEF Invariant
  <1>2. /\ mode.kind = "websocket" /\ network[x] # <<>>
        /\ network' = [network EXCEPT ![x] = Tail(@)]
        /\ IF r \in done THEN UNCHANGED <<queue, done>>
           ELSE Enqueue(r, Head(network[x]), {r})
        /\ UNCHANGED <<mode, sent, writing, buffer, parts, handled, errors, reported>>
    BY DEF Arrive
  <1>3. CASE p = r
    <2>1. /\ network'[p] = network[p] /\ queue'[q] = queue[q] /\ done \subseteq done'
      BY <1>1, <1>2, <1>3 DEF TypeOK, Enqueue, DoneAfterOverflow
    <2> QED
      BY <1>1, <1>2, <2>1, ComesUnchanged
  <1>4. CASE p # r
    <2>1. r = q /\ x = p
      BY <1>1, <1>4, PeerFacts
    <2>2. ComesWhole(p)
      BY <1>1, <1>2 DEF Comes
    <2>3. PICK a, b, c, d \in 0 .. sent[p] :
              /\ Top(p) <= a /\ a <= b /\ b <= c /\ c <= d
              /\ queue[q] = Chunks(script, a, b)
              /\ network[p] = Chunks(script, c, d)
              /\ p \notin reported => a = Top(p)
              /\ q \notin done => c = b
              /\ p \notin done => d = sent[p]
      BY <2>2 DEF ComesWhole
    <2>4. /\ c < d /\ a \in Nat /\ b \in Nat /\ c \in Nat /\ d \in Nat
          /\ d <= Len(script) /\ c <= Len(script)
      <3>1. /\ a \in Nat /\ b \in Nat /\ c \in Nat /\ d \in Nat
            /\ d <= Len(script) /\ c <= Len(script)
        BY <1>1, <2>3
      <3>2. c # d
        <4>1. Chunks(script, c, d) # <<>> /\ c <= d
          BY <1>2, <2>1, <2>3
        <4> QED
          BY <1>1, <3>1, <4>1, NoChunks
      <3> QED
        BY <2>3, <3>1, <3>2
    <2>5. /\ network'[p] = Chunks(script, c + 1, d)
          /\ Head(network[p]) = Encoded(c + 1, script[c + 1])
          /\ c + 1 \in 0 .. sent[p]
      <3>1. network'[p] = Tail(network[p])
        BY <1>1, <1>2, <2>1 DEF TypeOK
      <3>2. /\ Tail(Chunks(script, c, d)) = Chunks(script, c + 1, d)
            /\ Head(Chunks(script, c, d)) = Encoded(c + 1, script[c + 1])
        BY <1>1, <2>4, ChunksTail
      <3>3. c + 1 \in 0 .. sent[p]
        <4>1. d <= sent[p]
          BY <2>3
        <4> QED
          BY <1>1, <2>4, <4>1
      <3> QED
        BY <2>3, <3>1, <3>2, <3>3
    <2>6. /\ Script(p)' = script /\ LastHandled(p)' = LastHandled(p) /\ Top(p)' = Top(p)
          /\ buffer'[q] = buffer[q] /\ writing'[p] = writing[p]
      BY <1>2 DEF Script, LastHandled, Top
    <2>7. ASSUME NEW b1 \in 0 .. sent[p], a <= b1, b1 <= c + 1,
                 queue'[q] = Chunks(script, a, b1), q \notin done' => c + 1 = b1,
                 done \subseteq done'
          PROVE  ComesWhole(p)'
      <3>1. c + 1 <= d
        BY <2>4
      <3>2. /\ sent'[p] = sent[p] /\ reported' = reported /\ mode' = mode
            /\ q \notin done' => q \notin done /\ c + 1 = b1
            /\ p \notin done' => p \notin done
        BY <1>2, <2>7
      <3>3. /\ buffer'[q] = <<>> /\ writing'[p] = <<>> /\ mode.kind # "memory"
        BY <1>2, <2>2, <2>6 DEF ComesWhole
      <3>4. \E a2, b2, c2, d2 \in 0 .. sent[p] :
                /\ Top(p) <= a2 /\ a2 <= b2 /\ b2 <= c2 /\ c2 <= d2
                /\ queue'[q] = Chunks(script, a2, b2)
                /\ network'[p] = Chunks(script, c2, d2)
                /\ p \notin reported => a2 = Top(p)
                /\ q \notin done' => c2 = b2
                /\ p \notin done' => d2 = sent[p]
        BY <2>3, <2>5, <2>7, <3>1, <3>2
      <3>5. Other(p) = q /\ Top(p)' = Top(p) /\ Script(p)' = script
        BY <2>6
      <3> HIDE DEF q, script
      <3> QED
        BY <3>2, <3>3, <3>4, <3>5 DEF ComesWhole
    <2>8. ComesWhole(p)'
      <3>1. CASE q \in done
        <4>1. queue'[q] = queue[q] /\ done' = done /\ b <= c + 1
          BY <1>2, <2>1, <2>3, <2>4, <3>1
        <4> QED
          BY <2>3, <2>7, <3>1, <4>1
      <3>2. CASE q \notin done
        <4>1. Enqueue(q, Head(network[p]), {q}) /\ c = b
          BY <1>2, <2>1, <2>3, <3>2
        <4>2. CASE Overflows(q)
          <5>1. queue'[q] = queue[q] /\ done' = done \cup {q} /\ b <= c + 1
            BY <1>1, <2>3, <2>4, <4>1, <4>2 DEF Enqueue, DoneAfterOverflow, TypeOK
          <5> QED
            BY <2>3, <2>7, <5>1
        <4>3. CASE ~Overflows(q)
          <5>1. queue'[q] = Append(queue[q], Head(network[p])) /\ done' = done
            BY <1>1, <4>1, <4>3 DEF Enqueue, DoneAfterOverflow, TypeOK
          <5>2. Append(Chunks(script, a, b), Encoded(b + 1, script[b + 1])) =
                   Chunks(script, a, b + 1)
            <6>1. b < Len(script) /\ b <= Len(script)
              BY <1>1, <2>3, <2>4, <4>1
            <6> QED
              BY <1>1, <2>3, <2>4, <6>1, ChunksAppend
          <5>3. queue'[q] = Chunks(script, a, c + 1) /\ a <= c + 1
            BY <2>3, <2>4, <2>5, <4>1, <5>1, <5>2
          <5>4. c + 1 <= c + 1
            BY <2>4
          <5> QED
            BY <2>5, <2>7, <5>1, <5>3, <5>4
        <4> QED
          BY <4>2, <4>3
      <3> QED
        BY <3>1, <3>2
    <2>9. InHand(p)'
      BY <1>1, <1>2, <2>6 DEF InHand
    <2> QED
      BY <1>1, <1>2, <2>6, <2>8, <2>9 DEF Comes
  <1> QED
    BY <1>3, <1>4

\* A close drops nothing.
LEMMA ComesClose ==
    ASSUME Invariant, NEW r \in Peers, SocketClosed(r) \/ Close(r), NEW p \in Peers
    PROVE  Comes(p)'
  <1>1. Comes(p)
    BY DEF Invariant
  <1>2. /\ UNCHANGED <<mode, sent, writing, network, queue, buffer, parts, handled,
                       errors, reported>>
        /\ done \subseteq done'
    <2>1. done \subseteq Peers
      BY DEF Invariant, TypeOK
    <2> QED
      BY <2>1 DEF SocketClosed, Close
  <1> QED
    BY <1>1, <1>2, ComesUnchanged

\* What the read loop changes, and leaves alone.
LEMMA DecodedFacts ==
    ASSUME Invariant, NEW q \in Peers, NEW result, result.ok \in BOOLEAN,
           Decoded(q, result), mode' = mode
    PROVE  /\ buffer'[q] = result.rest /\ parts'[q] = result.out
           /\ buffer'[Other(q)] = buffer[Other(q)] /\ parts'[Other(q)] = parts[Other(q)]
           /\ reported' = IF result.ok THEN reported ELSE reported \cup {Other(q)}
           /\ done \subseteq done' /\ done' \subseteq Peers
           /\ mode.kind = "memory" => done' \in {{}, Peers}
  <1>1. /\ TypeOK /\ Other(q) \in Peers /\ Other(q) # q
        /\ mode.kind = "memory" => done \in {{}, Peers}
    BY PeerFacts DEF Invariant
  <1>2. /\ buffer' = [buffer EXCEPT ![q] = result.rest]
        /\ parts' = [parts EXCEPT ![q] = result.out]
        /\ reported' = reported \cup (IF result.ok THEN {} ELSE {Other(q)})
        /\ done' = IF errors'[q] < MaxErrors THEN done
                   ELSE IF mode.kind = "memory" THEN Peers ELSE done \cup {q}
    BY DEF Decoded
  <1>3. buffer'[q] = result.rest /\ buffer'[Other(q)] = buffer[Other(q)]
    <2>1. buffer \in [Peers -> Seq(Byte)]
      BY <1>1 DEF TypeOK
    <2> QED
      BY <1>1, <1>2, <2>1
  <1>4. parts'[q] = result.out /\ parts'[Other(q)] = parts[Other(q)]
    <2>1. parts \in [Peers -> Seq(Nat)]
      BY <1>1 DEF TypeOK
    <2> QED
      BY <1>1, <1>2, <2>1
  <1>5. reported' = IF result.ok THEN reported ELSE reported \cup {Other(q)}
    BY <1>2
  <1>6. /\ done \subseteq done' /\ done' \subseteq Peers
        /\ mode.kind = "memory" => done' \in {{}, Peers}
    <2>1. done \subseteq Peers
      BY <1>1 DEF TypeOK
    <2> DEFINE over == errors'[q] < MaxErrors
    <2>2. done' = IF over THEN done ELSE IF mode.kind = "memory" THEN Peers ELSE done \cup {q}
      BY <1>2
    <2> HIDE DEF over
    <2> QED
      BY <1>1, <2>1, <2>2
  <1> QED
    BY <1>3, <1>4, <1>5, <1>6

\* The next chunk in r's queue, message a + 1 of x, is decoded, and is good or
\* reported; those up to b still wait, and those after c are on their way.
TakesNext(r, x, a, b, c, d, good) ==
    /\ Top(x) <= a /\ a + 1 <= b /\ b <= c /\ c <= d
    /\ Tail(queue[r]) = Chunks(Script(x), a + 1, b)
    /\ network[x] = Chunks(Script(x), c, d)
    /\ x \notin reported => a = Top(x)
    /\ r \notin done => c = b
    /\ x \notin done => d = sent[x]
    /\ a + 1 \in DOMAIN Script(x) /\ (good <=> Script(x)[a + 1].sort # "bad")
    /\ parts'[r] = IF good THEN <<a + 1>> ELSE <<>>
    /\ reported' = IF good THEN reported ELSE reported \cup {x}

\* A whole message is taken from the queue: the first of those that wait there.
LEMMA ReadQueuedTakes ==
    ASSUME Invariant, NEW r \in Peers, ReadQueued(r), NEW x \in Peers, x = Other(r)
    PROVE  /\ mode.kind # "http2" /\ parts[r] = <<>>
           /\ UNCHANGED <<mode, sent, writing, network, handled>>
           /\ queue' = [queue EXCEPT ![r] = Tail(@)]
           /\ ComesWhole(x) /\ buffer'[x] = buffer[x] /\ parts'[x] = parts[x]
           /\ done \subseteq done' /\ buffer'[r] = <<>>
           /\ \E a, b, c, d \in 0 .. sent[x] : \E good \in BOOLEAN :
                TakesNext(r, x, a, b, c, d, good)
  <1> DEFINE script == Script(x)
             result == Push(script, buffer[r], Head(queue[r]), mode.misread)
  <1>1. /\ script \in Seq(Message) /\ sent[x] \in Nat /\ Len(script) \in Nat
        /\ sent[x] <= Len(script) /\ mode.misread \in Nat
        /\ r # x /\ Other(x) = r /\ Comes(x)
    BY InvariantFacts, PeerFacts
  <1>2. /\ parts[r] = <<>> /\ queue[r] # <<>>
        /\ queue' = [queue EXCEPT ![r] = Tail(@)]
        /\ Decoded(r, result)
        /\ UNCHANGED <<mode, sent, writing, network, handled>>
    BY DEF ReadQueued, Reads
  <1>3. mode.kind # "http2" /\ ComesWhole(x)
    BY <1>1, <1>2 DEF Comes
  <1>4. PICK a, b, c, d \in 0 .. sent[x] :
            /\ Top(x) <= a /\ a <= b /\ b <= c /\ c <= d
            /\ queue[r] = Chunks(script, a, b)
            /\ network[x] = Chunks(script, c, d)
            /\ x \notin reported => a = Top(x)
            /\ r \notin done => c = b
            /\ x \notin done => d = sent[x]
    BY <1>1, <1>3 DEF ComesWhole
  <1> DEFINE n == a + 1
             good == script[n].sort # "bad"
  <1>5. a \in Nat /\ b \in Nat /\ a < b /\ b <= Len(script)
    <2>1. a \in Nat /\ b \in Nat /\ a <= b /\ b <= Len(script)
      BY <1>1, <1>4
    <2>2. a # b
      BY <1>1, <1>2, <1>4, <2>1, NoChunks
    <2> QED
      BY <2>1, <2>2
  <1>6. n \in 1 .. Len(script) /\ n <= b /\ n \in Nat /\ n \in DOMAIN script
    <2>1. n \in 1 .. Len(script) /\ n <= b /\ n \in Nat
      BY <1>1, <1>5
    <2> QED
      BY <1>1, <2>1, LenProperties
  <1>7. /\ Head(queue[r]) = Encoded(n, script[n])
        /\ Tail(queue[r]) = Chunks(script, n, b)
    BY <1>1, <1>4, <1>5, ChunksTail
  <1>8. buffer[r] = <<>>
    BY <1>1, <1>3 DEF ComesWhole
  <1>9. result = IF good THEN [ok |-> TRUE, out |-> <<n>>, rest |-> <<>>]
                 ELSE [ok |-> FALSE, out |-> <<>>, rest |-> <<>>]
    <2> HIDE DEF n
    <2> QED
      BY <1>1, <1>6, <1>7, <1>8, PushOfMessage
  <1> HIDE DEF good, result
  <1>10. result.ok \in BOOLEAN /\ (result.ok <=> good) /\ result.rest = <<>>
         /\ result.out = IF good THEN <<n>> ELSE <<>>
    BY <1>9
  <1>11. /\ buffer'[r] = <<>> /\ parts'[r] = IF good THEN <<n>> ELSE <<>>
         /\ buffer'[x] = buffer[x] /\ parts'[x] = parts[x]
         /\ reported' = IF good THEN reported ELSE reported \cup {x}
         /\ done \subseteq done'
    BY <1>2, <1>10, DecodedFacts
  <1>12. good \in BOOLEAN /\ (good <=> script[n].sort # "bad")
    BY DEF good
  <1>13. TakesNext(r, x, a, b, c, d, good)
    BY <1>4, <1>6, <1>7, <1>11, <1>12 DEF TakesNext
  <1> QED
    BY <1>2, <1>3, <1>11, <1>12, <1>13

\* The message that is read is next in hand, or its error is reported.
LEMMA ComesReadQueued ==
    ASSUME Invariant, NEW r \in Peers, ReadQueued(r), NEW p \in Peers
    PROVE  Comes(p)'
  <1> DEFINE q == Other(p)
             script == Script(p)
             x == Other(r)
  <1>1. /\ Comes(p) /\ InHand(p) /\ script \in Seq(Message)
        /\ sent[p] \in Nat /\ Len(script) \in Nat /\ sent[p] <= Len(script)
        /\ q \in Peers /\ q # p /\ Other(q) = p /\ TypeOK
        /\ LastHandled(p) \in Nat
    BY InvariantFacts DEF Invariant
  <1>3. x \in Peers /\ x # r /\ Other(x) = r /\ Comes(x) /\ sent[x] \in Nat
        /\ Top(x) \in Nat
    BY InvariantFacts DEF Invariant
  <1>2. /\ mode.kind # "http2" /\ parts[r] = <<>>
        /\ UNCHANGED <<mode, sent, writing, network, handled>>
        /\ queue' = [queue EXCEPT ![r] = Tail(@)]
        /\ ComesWhole(x) /\ buffer'[x] = buffer[x] /\ parts'[x] = parts[x]
        /\ done \subseteq done' /\ buffer'[r] = <<>>
    BY <1>3, ReadQueuedTakes
  <1>4. ComesWhole(x)
    BY <1>2
  <1>5. PICK a, b, c, d \in 0 .. sent[x] : \E good \in BOOLEAN :
            TakesNext(r, x, a, b, c, d, good)
    BY <1>3, ReadQueuedTakes
  <1>6. PICK good \in BOOLEAN : TakesNext(r, x, a, b, c, d, good)
    BY <1>5
  <1> DEFINE n == a + 1
  <1>7. a \in Nat /\ b \in Nat /\ a < b
    BY <1>3, <1>6 DEF TakesNext
  <1>8. n <= b /\ n \in 0 .. sent[x] /\ n \in Nat /\ a < n
    BY <1>3, <1>6, <1>7 DEF TakesNext
  <1>9. Tail(queue[r]) = Chunks(Script(x), n, b)
    BY <1>6 DEF TakesNext
  <1>10. buffer[r] = <<>> /\ writing[x] = <<>>
         /\ (mode.kind = "memory" => network[x] = <<>>)
    BY <1>3, <1>4 DEF ComesWhole
  <1>13. /\ buffer'[r] = <<>> /\ parts'[r] = IF good THEN <<n>> ELSE <<>>
         /\ buffer'[x] = buffer[x] /\ parts'[x] = parts[x]
         /\ reported' = IF good THEN reported ELSE reported \cup {x}
         /\ done \subseteq done'
    BY <1>2, <1>6 DEF TakesNext
  <1> HIDE DEF n
  <1>14. queue'[r] = Tail(queue[r]) /\ queue'[x] = queue[x]
    BY <1>1, <1>2, <1>3 DEF TypeOK
  <1>15. CASE p = r
    BY <1>1, <1>2, <1>3, <1>13, <1>14, <1>15, ComesUnchanged
  <1>16. CASE p # r
    <2>1. p = x /\ q = r
      BY <1>1, <1>3, <1>16, PeerFacts
    <2>2. /\ Script(p)' = script /\ LastHandled(p)' = LastHandled(p)
      BY <1>2 DEF Script, LastHandled
    <2>3. Top(p) = LastHandled(p)
      BY <1>2, <2>1 DEF Top
    <2>4. Top(p)' = IF good THEN n ELSE LastHandled(p)
      <3>1. CASE good
        <4>1. parts'[q] = <<n>>
          BY <1>13, <2>1, <3>1
        <4>2. <<n>> # <<>> /\ Len(<<n>>) = 1 /\ <<n>>[1] = n
          OBVIOUS
        <4> QED
          BY <3>1, <4>1, <4>2 DEF Top
      <3>2. CASE ~good
        <4>1. parts'[q] = <<>>
          BY <1>13, <2>1, <3>2
        <4> QED
          BY <2>2, <3>2, <4>1 DEF Top
      <3> QED
        BY <3>1, <3>2
    <2>5. Top(p)' <= n /\ Top(p)' \in 0 .. sent[p] /\ LastHandled(p) < n
      BY <1>1, <1>6, <1>7, <1>8, <2>1, <2>3, <2>4 DEF TakesNext
    <2>6. p \notin reported' => /\ good /\ p \notin reported /\ a = LastHandled(p)
                                /\ Top(p)' = n /\ n = LastHandled(p) + 1
      BY <1>6, <1>13, <2>1, <2>3, <2>4 DEF n, TakesNext
    <2>7. InHand(p)'
      <3>1. CASE good
        <4>1. parts'[q] = <<n>> /\ Len(<<n>>) = 1 /\ <<n>>[1] = n
          BY <1>13, <2>1, <3>1
        <4>2. \A i \in 1 .. Len(parts'[q]) : parts'[q][i] = parts'[q][1] + i - 1
          <5> SUFFICES ASSUME NEW i \in 1 .. Len(parts'[q])
                       PROVE  parts'[q][i] = parts'[q][1] + i - 1
            OBVIOUS
          <5>1. i = 1
            BY <4>1
          <5> QED
            BY <1>8, <4>1, <5>1
        <4> QED
          BY <1>1, <1>2, <2>2, <2>5, <2>6, <4>1, <4>2 DEF InHand
      <3>2. CASE ~good
        <4>1. parts'[q] = <<>> /\ Len(<<>>) = 0
          BY <1>13, <2>1, <3>2, EmptySeq
        <4> QED
          BY <1>1, <1>2, <2>2, <2>5, <4>1 DEF InHand
      <3> QED
        BY <3>1, <3>2
    <2>8. ComesWhole(p)'
      <3>1. /\ buffer'[q] = <<>> /\ writing'[p] = <<>> /\ network'[p] = network[p]
            /\ mode.kind = "memory" => network'[p] = <<>>
            /\ queue'[q] = Chunks(script, n, b)
        BY <1>2, <1>9, <1>10, <1>13, <1>14, <2>1
      <3>2. /\ Top(p)' <= n /\ n <= b /\ b <= c /\ c <= d
            /\ network'[p] = Chunks(script, c, d)
            /\ p \notin reported' => n = Top(p)'
            /\ q \notin done' => c = b
            /\ p \notin done' => d = sent'[p]
            /\ sent'[p] = sent[p] /\ n \in 0 .. sent[p]
        BY <1>2, <1>6, <1>8, <1>13, <2>1, <2>5, <2>6 DEF TakesNext
      <3> QED
        BY <1>2, <2>1, <2>2, <3>1, <3>2 DEF ComesWhole
    <2> QED
      BY <1>1, <1>2, <1>4, <1>3, <2>1, <2>2, <2>7, <2>8 DEF Comes
  <1> QED
    BY <1>15, <1>16

\* The script is legal for the stream it is sent on, see LegalStreamDecodes.
Legal(p) ==
    \A n \in DOMAIN Script(p) :
        /\ Script(p)[n].sort # "bad"
        /\ mode.kind = "http2" => Script(p)[n].size + Capacity <= MaxFrame + 1

\* A stretch of what has arrived is taken from an HTTP/2 stream: what comes of
\* it, with the bytes that stay, is what was to come.
LEMMA ReadCutLeaves ==
    ASSUME Invariant, NEW r \in Peers, ReadCut(r), NEW p \in Peers, p = Other(r)
    PROVE  /\ mode.kind = "http2" /\ parts[r] = <<>> /\ Coming(p) # <<>> /\ ComesCut(p)
           /\ UNCHANGED <<mode, sent, writing, queue, handled>>
           /\ network'[r] = network[r] /\ network'[p] \in Seq(ByteOf(Script(p)))
           /\ Len(network'[p]) <= Capacity /\ network' = [network EXCEPT ![p] = network'[p]]
           /\ buffer'[p] = buffer[p] /\ parts'[p] = parts[p]
           /\ Len(buffer'[r]) < MaxBuffer
           /\ done \subseteq done'
           /\ \E ok \in BOOLEAN :
                /\ reported' = IF ok THEN reported ELSE reported \cup {p}
                /\ Leaves(Script(p), Coming(p), Top(p), sent[p], ok, parts'[r], buffer'[r],
                          Coming(p)')
                /\ Legal(p) /\ p \notin reported => ok
  <1> DEFINE script == Script(p)
             B == Seq(ByteOf(script))
             all == Coming(p)
             buf == buffer[r]
             net == network[p]
             wr == writing[p]
  <1>1. /\ r # p /\ Other(p) = r /\ TypeOK /\ Comes(p) /\ script \in Seq(Message)
        /\ sent[p] \in Nat /\ Top(p) \in Nat /\ mode.misread \in Nat
    BY InvariantFacts, PeerFacts DEF Invariant
  <1>2. /\ mode.kind = "http2" /\ parts[r] = <<>>
        /\ UNCHANGED <<mode, sent, writing, queue, handled>>
    BY DEF ReadCut, Reads
  <1>3. PICK k \in 1 .. Len(net) :
            /\ network' = [network EXCEPT ![p] = SubSeq(@, k + 1, Len(@))]
            /\ Decoded(r, Push(script, buf, SubSeq(net, 1, k), mode.misread))
    BY DEF ReadCut
  <1> DEFINE result == Push(script, buf, SubSeq(net, 1, k), mode.misread)
             net2 == SubSeq(net, k + 1, Len(net))
  <1>4. /\ ComesCut(p) /\ buf \in B /\ net \in B /\ wr \in B /\ Len(net) <= Capacity
        /\ all = (buf \o net) \o wr /\ IsStretch(script, all)
    BY <1>1, <1>2 DEF Comes, ComesCut, Coming
  <1>5. Len(net) \in Nat /\ Len(buf) \in Nat /\ Len(wr) \in Nat /\ k \in Nat /\ k <= Capacity
        /\ 1 <= k /\ k <= Len(net) /\ Capacity \in Nat
    BY <1>4, LenProperties, StreamBounds
  <1>6. all # <<>>
    <2>1. buf \o net \in B /\ Len(buf \o net) = Len(buf) + Len(net)
      BY <1>4, ConcatProperties
    <2>2. Len((buf \o net) \o wr) = (Len(buf) + Len(net)) + Len(wr)
      BY <1>4, <2>1, ConcatProperties
    <2>3. Len(all) # 0
      <3>1. Len(all) = (Len(buf) + Len(net)) + Len(wr)
        BY <1>4, <2>2
      <3> DEFINE l == Len(all)
                 b == Len(buf)
                 n == Len(net)
                 w == Len(wr)
      <3>2. l = (b + n) + w /\ b \in Nat /\ w \in Nat /\ n \in Nat /\ k \in Nat /\ 1 <= k /\ k <= n
        BY <1>5, <3>1
      <3> HIDE DEF l, b, n, w
      <3>3. l # 0
        BY <3>2
      <3> QED
        BY <3>3 DEF l
    <2> QED
      BY <2>3, EmptySeq
  <1>7. /\ Top(p) < all[1].msg /\ all[Len(all)].msg <= sent[p]
        /\ p \notin reported => all[1] = [msg |-> Top(p) + 1, at |-> 1]
    BY <1>4, <1>6 DEF ComesCut
  <1> HIDE DEF all
  <1>8. /\ result.ok \in BOOLEAN /\ Len(result.rest) < MaxBuffer
        /\ net2 \in B /\ Len(net2) = Len(net) - k
        /\ Leaves(script, all, Top(p), sent[p], result.ok, result.out, result.rest,
                  (result.rest \o net2) \o wr)
        /\ AllGood(script) /\ all[1].at = 1 /\ Len(buf) + k <= MaxBuffer => result.ok
    <2> DEFINE top == Top(p)
               last == sent[p]
               misread == mode.misread
    <2>1. /\ script \in Seq(Message) /\ buf \in Seq(ByteOf(script))
          /\ net \in Seq(ByteOf(script)) /\ wr \in Seq(ByteOf(script))
          /\ misread \in Nat /\ k \in 1 .. Len(net) /\ top \in Nat /\ last \in Nat
      BY <1>1, <1>4
    <2>3. /\ all = (buf \o net) \o wr /\ IsStretch(script, all)
          /\ top < all[1].msg /\ all[Len(all)].msg <= last
      BY <1>4, <1>7
    <2>4. AreComing(script, buf, net, wr, top, last, all)
      BY <2>3 DEF AreComing
    <2> HIDE DEF script, buf, net, wr, top, last, misread, B
    <2>5. CutLeaves(script, buf, net, wr, misread, k, top, last, all)
      BY <2>1, <2>4, PushLeaves
    <2> QED
      BY <2>5 DEF CutLeaves, script, buf, net, wr, top, last, misread, B
  <1> HIDE DEF result
  <1>9. Decoded(r, result)
    BY <1>3 DEF result
  <1>10. /\ buffer'[r] = result.rest /\ parts'[r] = result.out
         /\ buffer'[p] = buffer[p] /\ parts'[p] = parts[p]
         /\ reported' = IF result.ok THEN reported ELSE reported \cup {p}
         /\ done \subseteq done'
    BY <1>2, <1>8, <1>9, DecodedFacts
  <1>11. network'[p] = net2 /\ network'[r] = network[r]
         /\ network' = [network EXCEPT ![p] = net2]
    <2>1. network' = [network EXCEPT ![p] = net2]
      BY <1>3
    <2>2. DOMAIN network = Peers
      BY <1>1 DEF TypeOK
    <2> QED
      BY <1>1, <2>1, <2>2
  <1>12. Len(network'[p]) <= Capacity
    BY <1>4, <1>5, <1>8, <1>11
  <1>13. Coming(p)' = (result.rest \o net2) \o wr
    BY <1>1, <1>2, <1>10, <1>11 DEF Coming
  <1> HIDE DEF net2
  <1>14. ASSUME Legal(p), p \notin reported PROVE result.ok
    <2> DEFINE n == Top(p) + 1
               z == script[n].size
    <2>1. all[1].msg = n /\ all[1].at = 1
      BY <1>7, <1>14
    <2>2. n \in 1 .. Len(script)
      <3>1. all \in B /\ Len(all) \in Nat
        BY <1>4, LenProperties DEF IsStretch
      <3>2. 1 \in 1 .. Len(all)
        BY <1>6, <3>1, EmptySeq
      <3>3. all[1] \in ByteOf(script)
        BY <3>1, <3>2, ElementOfSeq
      <3> QED
        BY <2>1, <3>3 DEF ByteOf
    <2>3. AllGood(script)
      BY <1>14 DEF Legal, AllGood
    <2>4. z + Capacity <= MaxFrame + 1 /\ z \in 1 .. MaxFrame
      <3>1. n \in DOMAIN script
        BY <1>1, <2>2, LenProperties
      <3> QED
        BY <1>1, <1>2, <1>14, <2>2, <3>1, FrameLenType DEF Legal
    <2>5. buf # <<>> => Len(buf) < Prefix + z
      BY <1>1, <1>4, <1>14 DEF ComesCut, FrameLen
    <2>6. buf = <<>> => Len(buf) = 0
      BY EmptySeq
    <2> DEFINE l == Len(buf)
    <2>7. l \in Nat /\ l < Prefix + z
      <3>1. Prefix \in Nat \ {0}
        BY DecoderAssumption
      <3> HIDE DEF l, z
      <3>2. l \in Nat /\ (l = 0 \/ l < Prefix + z)
        BY <1>5, <2>5, <2>6 DEF l
      <3> QED
        BY <2>4, <3>1, <3>2
    <2>8. l + k <= MaxBuffer
      <3> HIDE DEF l, z
      <3> QED
        BY <1>5, <2>4, <2>7, DecoderAssumption DEF MaxBuffer
    <2> QED
      BY <1>8, <2>1, <2>3, <2>8
  <1> QED
    BY <1>2, <1>4, <1>6, <1>8, <1>10, <1>11, <1>12, <1>13, <1>14 DEF all

\* The messages that are read are next in hand, or an error is reported.
LEMMA ComesReadCut ==
    ASSUME Invariant, NEW r \in Peers, ReadCut(r), NEW p \in Peers
    PROVE  Comes(p)'
  <1> DEFINE x == Other(r)
  <1>1. x \in Peers /\ x # r /\ Other(x) = r /\ (p = r \/ p = x) /\ Comes(p)
    BY PeerFacts DEF Invariant
  <1>2. /\ mode.kind = "http2" /\ parts[r] = <<>> /\ Coming(x) # <<>> /\ ComesCut(x)
        /\ UNCHANGED <<mode, sent, writing, queue, handled>>
        /\ network'[r] = network[r] /\ network'[x] \in Seq(ByteOf(Script(x)))
        /\ Len(network'[x]) <= Capacity
        /\ buffer'[x] = buffer[x] /\ parts'[x] = parts[x]
        /\ done \subseteq done'
    BY <1>1, ReadCutLeaves
  <1>3. PICK ok \in BOOLEAN :
            /\ reported' = IF ok THEN reported ELSE reported \cup {x}
            /\ Leaves(Script(x), Coming(x), Top(x), sent[x], ok, parts'[r], buffer'[r],
                      Coming(x)')
    BY <1>1, ReadCutLeaves
  <1> HIDE DEF x
  <1>4. CASE p = r
    <2>1. p \in reported' <=> p \in reported
      BY <1>1, <1>3, <1>4
    <2>2. Other(p) = x
      BY <1>1, <1>4, PeerFacts
    <2> QED
      BY <1>1, <1>2, <1>4, <2>1, <2>2, ComesUnchanged
  <1>5. CASE p = x
    <2> DEFINE script == Script(p)
               all == Coming(p)
               top == Top(p)
               out == parts'[r]
               rest == buffer'[r]
               next == LastOf(out, top)
               left == Coming(p)'
    <2>1. /\ Other(p) = r /\ InHand(p) /\ sent[p] <= Len(script)
          /\ mode.kind = "http2" /\ queue[r] = <<>>
          /\ sent[p] \in Nat /\ top \in Nat /\ top <= sent[p] /\ LastHandled(p) \in Nat
      BY <1>1, <1>2, <1>5, InvariantFacts DEF Comes
    <2>2. /\ IsStretch(script, left) /\ out \in Seq(Nat) /\ rest \in Seq(ByteOf(script))
          /\ \A i \in 1 .. Len(out) : out[i] = out[1] + i - 1
          /\ out # <<>> => top < out[1]
          /\ next \in Nat /\ top <= next
          /\ out # <<>> => next <= sent[p]
          /\ left # <<>> => next < left[1].msg /\ left[Len(left)] = all[Len(all)]
          /\ ok /\ all[1] = [msg |-> top + 1, at |-> 1] =>
                /\ out # <<>> => out[1] = top + 1
                /\ left # <<>> => left[1] = [msg |-> next + 1, at |-> 1]
                /\ left = <<>> => all[Len(all)].msg = next
                /\ rest # <<>> => Len(rest) < FrameLen(script, next + 1)
      <3>1. Leaves(script, all, top, sent[p], ok, out, rest, left)
        BY <1>3, <1>5
      <3> HIDE DEF script, all, top, out, rest, left
      <3> QED
        BY <3>1 DEF Leaves
    <2>3. /\ all # <<>> /\ all[Len(all)].msg <= sent[p]
          /\ p \notin reported => all[1] = [msg |-> top + 1, at |-> 1]
          /\ p \notin done => all[Len(all)] = [msg |-> sent[p], at |-> FrameLen(script, sent[p])]
          /\ writing[p] \in Seq(ByteOf(script))
      BY <1>2, <1>5 DEF ComesCut
    <2>4. p \notin reported' => ok /\ p \notin reported
      BY <1>3, <1>5
    <2>5. Script(p)' = script /\ LastHandled(p)' = LastHandled(p) /\ top = LastHandled(p)
      BY <1>2, <2>1 DEF Script, LastHandled, Top
    <2>6. Top(p)' = next
      BY <2>1, <2>5 DEF Top, LastOf
    <2>7. next <= sent[p]
      BY <2>1, <2>2 DEF LastOf
    <2>8. InHand(p)'
      <3>1. Top(p)' \in 0 .. sent[p]
        BY <2>1, <2>2, <2>6, <2>7
      <3>2. out # <<>> => /\ LastHandled(p) < out[1]
                          /\ p \notin reported' => out[1] = LastHandled(p) + 1
        BY <2>2, <2>3, <2>4, <2>5
      <3> QED
        BY <1>2, <2>1, <2>2, <2>5, <3>1, <3>2 DEF InHand
    <2>9. ComesCut(p)'
      <3>1. {rest, network'[p], writing'[p]} \subseteq Seq(ByteOf(script))
        BY <1>2, <1>5, <2>2, <2>3
      <3>2. ASSUME left # <<>>
            PROVE  /\ next < left[1].msg /\ left[Len(left)].msg <= sent[p]
                   /\ p \notin reported' => left[1] = [msg |-> next + 1, at |-> 1]
                   /\ p \notin done' =>
                         left[Len(left)] = [msg |-> sent[p], at |-> FrameLen(script, sent[p])]
        BY <1>2, <2>2, <2>3, <2>4, <3>2
      <3>3. ASSUME left = <<>>, p \notin done', p \notin reported' PROVE sent[p] = next
        <4>1. all[Len(all)].msg = next
          BY <2>2, <2>3, <2>4, <3>3
        <4>2. all[Len(all)] = [msg |-> sent[p], at |-> FrameLen(script, sent[p])]
          BY <1>2, <2>3, <3>3
        <4> QED
          BY <4>1, <4>2
      <3>4. p \notin reported' /\ rest # <<>> => Len(rest) < FrameLen(script, next + 1)
        BY <2>2, <2>3, <2>4
      <3>5. Len(network'[p]) <= Capacity
        BY <1>2, <1>5
      <3>6. IsStretch(script, left)
        BY <2>2
      <3> HIDE DEF left, next, script, rest, all
      <3> QED
        BY <1>2, <2>1, <2>5, <2>6, <3>1, <3>2, <3>3, <3>4, <3>5, <3>6
           DEF ComesCut, left, script, rest, FrameLen
    <2> QED
      BY <1>2, <2>1, <2>5, <2>8, <2>9 DEF Comes
  <1> QED
    BY <1>1, <1>4, <1>5

\* The frame or init in hand is handled: what was handled last is now it.
LEMMA ComesProcess ==
    ASSUME Invariant, NEW r \in Peers, Process(r), NEW p \in Peers
    PROVE  Comes(p)'
  <1> DEFINE x == Other(r)
             got == parts[r]
             n == got[1]
  <1>1. x \in Peers /\ x # r /\ Other(x) = r /\ (p = r \/ p = x) /\ Comes(p) /\ TypeOK
    BY PeerFacts DEF Invariant
  <1>2. /\ got # <<>>
        /\ parts' = [parts EXCEPT ![r] = Tail(@)]
        /\ handled' = [handled EXCEPT ![x] = Append(@, n)]
        /\ UNCHANGED <<mode, sent, writing, network, queue, buffer, reported, done>>
    BY DEF Process
  <1>3. /\ parts \in [Peers -> Seq(Nat)] /\ handled \in [Peers -> Seq(Nat)]
        /\ got \in Seq(Nat) /\ handled[x] \in Seq(Nat)
    BY <1>1 DEF TypeOK
  <1>4. /\ parts'[r] = Tail(got) /\ parts'[x] = parts[x]
        /\ handled'[x] = Append(handled[x], n) /\ handled'[r] = handled[r]
    BY <1>1, <1>2, <1>3
  <1>5. CASE p = r
    <2>1. Other(p) = x
      BY <1>5
    <2> HIDE DEF x
    <2> QED
      BY <1>1, <1>2, <1>4, <1>5, <2>1, ComesUnchanged
  <1>6. CASE p = x
    <2> DEFINE rest == Tail(got)
    <2>1. /\ Other(p) = r /\ InHand(p) /\ sent[p] \in Nat /\ LastHandled(p) \in Nat
          /\ Top(p) \in 0 .. sent[p] /\ sent[p] <= Len(Script(p))
      BY <1>1, <1>6, InvariantFacts DEF InHand
    <2>2. /\ \A i \in 1 .. Len(got) : got[i] = got[1] + i - 1
          /\ LastHandled(p) < n /\ Top(p) = got[Len(got)]
      BY <1>2, <2>1 DEF InHand, Top
    <2>3. /\ rest \in Seq(Nat) /\ Len(rest) = Len(got) - 1 /\ n \in Nat
          /\ \A i \in 1 .. Len(rest) : rest[i] = got[i + 1]
          /\ Len(got) \in Nat \ {0}
      BY <1>2, <1>3, HeadTailProperties, EmptySeq, LenProperties
    <2>4. LastHandled(p)' = n
      <3> DEFINE h == Append(handled[p], n)
      <3>1. h \in Seq(Nat) /\ Len(h) = Len(handled[p]) + 1 /\ h[Len(handled[p]) + 1] = n
        BY <1>3, <1>6, <2>3, AppendProperties
      <3>2. h # <<>>
        <4>1. Len(handled[p]) \in Nat
          BY <1>3, <1>6, LenProperties
        <4>2. Len(h) # 0
          BY <3>1, <4>1
        <4> QED
          BY <4>2, EmptySeq
      <3>3. handled'[p] = h
        BY <1>4, <1>6
      <3> HIDE DEF h
      <3> QED
        BY <3>1, <3>2, <3>3 DEF LastHandled
    <2> HIDE DEF rest, got, n
    <2>5. parts'[r] = rest
      BY <1>4 DEF rest
    <2>6. Top(p)' = Top(p)
      <3>1. CASE rest = <<>>
        <4>1. Len(got) = 1
          BY <2>3, <3>1, EmptySeq
        <4>2. Top(p) = n
          BY <2>2, <4>1 DEF n
        <4> QED
          BY <2>1, <2>4, <2>5, <3>1, <4>2 DEF Top
      <3>2. CASE rest # <<>>
        <4>1. Len(rest) \in 1 .. Len(rest) /\ Len(rest) + 1 = Len(got)
          BY <2>3, <3>2, EmptySeq
        <4>2. rest[Len(rest)] = got[Len(got)]
          BY <2>3, <4>1
        <4> QED
          BY <2>1, <2>2, <2>5, <3>2, <4>2 DEF Top
      <3> QED
        BY <3>1, <3>2
    <2>7. Script(p)' = Script(p) /\ Coming(p)' = Coming(p)
      BY <1>2 DEF Script, Coming
    <2>8. InHand(p)'
      <3>1. \A i \in 1 .. Len(rest) : rest[i] = n + i
        <4> SUFFICES ASSUME NEW i \in 1 .. Len(rest) PROVE rest[i] = n + i
          OBVIOUS
        <4>1. i + 1 \in 1 .. Len(got) /\ rest[i] = got[i + 1]
          BY <2>3
        <4>2. got[i + 1] = n + (i + 1) - 1
          BY <2>2, <4>1 DEF n
        <4> QED
          BY <2>3, <4>1, <4>2
      <3>2. rest # <<>> => rest[1] = n + 1
        <4>1. rest # <<>> => 1 \in 1 .. Len(rest)
          BY <2>3, EmptySeq
        <4> QED
          BY <3>1, <4>1
      <3>3. \A i \in 1 .. Len(rest) : rest[i] = rest[1] + i - 1
        <4> SUFFICES ASSUME NEW i \in 1 .. Len(rest) PROVE rest[i] = rest[1] + i - 1
          OBVIOUS
        <4>1. 1 \in 1 .. Len(rest)
          BY <2>3
        <4> QED
          BY <2>3, <3>1, <4>1
      <3>4. rest # <<>> => n < rest[1] /\ (p \notin reported' => rest[1] = n + 1)
        BY <2>3, <3>2
      <3> QED
        BY <1>2, <2>1, <2>3, <2>4, <2>5, <2>6, <3>3, <3>4 DEF InHand
    <2>9. ComesCut(p) => ComesCut(p)'
      BY <1>2, <2>6, <2>7 DEF ComesCut
    <2>10. ComesWhole(p) => ComesWhole(p)'
      BY <1>2, <2>6, <2>7 DEF ComesWhole
    <2> QED
      BY <1>1, <1>2, <2>1, <2>7, <2>8, <2>9, <2>10 DEF Comes
  <1> QED
    BY <1>1, <1>5, <1>6

-----------------------------------------------------------------------------
(***************************************************************************)
(* Types, and the bounds on what waits.                                    *)
(***************************************************************************)
LEMMA BytesOfScript ==
    ASSUME NEW script \in Seq(Message)
    PROVE  Seq(ByteOf(script)) \subseteq Seq(Byte)
  <1>1. ByteOf(script) \subseteq Byte
    <2> SUFFICES ASSUME NEW b \in ByteOf(script) PROVE b \in Byte
      OBVIOUS
    <2>1. b \in [msg : 1 .. Len(script), at : Nat \ {0}]
      BY DEF ByteOf
    <2>2. Len(script) \in Nat
      BY LenProperties
    <2> QED
      BY <2>1, <2>2 DEF Byte
  <1> QED
    BY <1>1, SeqMonotonic

\* The bytes of a message are bytes.
LEMMA EncodedType ==
    ASSUME NEW script \in Seq(Message), NEW n \in 1 .. Len(script)
    PROVE  Encoded(n, script[n]) \in Seq(Byte)
  BY EncodedProperties, BytesOfScript DEF IsStretch

\* The inbound queue stays typed and bounded.
LEMMA EnqueueType ==
    ASSUME TypeOK, NEW q \in Peers, NEW chunk \in Seq(Byte), NEW ends \in SUBSET Peers,
           Enqueue(q, chunk, ends)
    PROVE  /\ queue' \in [Peers -> Seq(Seq(Byte))]
           /\ \A p \in Peers : Len(queue'[p]) <= Depth
           /\ done' \subseteq Peers
  <1>1. /\ queue \in [Peers -> Seq(Seq(Byte))] /\ done \subseteq Peers
        /\ \A p \in Peers : Len(queue[p]) <= Depth
    BY DEF TypeOK
  <1>2. /\ queue' = [queue EXCEPT ![q] = IF Overflows(q) THEN @ ELSE Append(@, chunk)]
        /\ done' = done \cup (IF Overflows(q) THEN ends ELSE {})
    BY DEF Enqueue, DoneAfterOverflow
  <1> DEFINE next == IF Overflows(q) THEN queue[q] ELSE Append(queue[q], chunk)
  <1>3. next \in Seq(Seq(Byte)) /\ Len(next) <= Depth
    <2>1. CASE Overflows(q)
      BY <1>1, <2>1
    <2>2. CASE ~Overflows(q)
      <3>1. /\ Append(queue[q], chunk) \in Seq(Seq(Byte))
            /\ Len(Append(queue[q], chunk)) = Len(queue[q]) + 1
        <4>1. queue[q] \in Seq(Seq(Byte))
          BY <1>1
        <4> QED
          BY <4>1, AppendProperties
      <3>2. Len(queue[q]) \in Nat /\ ~(Len(queue[q]) >= Depth) /\ Depth \in Nat
        BY <1>1, <2>2, LenProperties, StreamBounds DEF Overflows
      <3> QED
        BY <2>2, <3>1, <3>2
    <2> QED
      BY <2>1, <2>2
  <1>4. queue' = [queue EXCEPT ![q] = next]
    BY <1>1, <1>2
  <1> HIDE DEF next
  <1>5. /\ queue' \in [Peers -> Seq(Seq(Byte))]
        /\ \A p \in Peers : queue'[p] = IF p = q THEN next ELSE queue[p]
    BY <1>1, <1>3, <1>4
  <1> QED
    BY <1>1, <1>2, <1>3, <1>5

\* What the read loop changes stays typed.
LEMMA DecodedType ==
    ASSUME TypeOK, NEW q \in Peers, NEW result, Reads(q), Decoded(q, result),
           buffer'[q] \in Seq(Byte), Len(buffer'[q]) < MaxBuffer, parts'[q] \in Seq(Nat),
           reported' \subseteq Peers, done' \subseteq Peers
    PROVE  /\ buffer' \in [Peers -> Seq(Byte)] /\ parts' \in [Peers -> Seq(Nat)]
           /\ \A p \in Peers : Len(buffer'[p]) < MaxBuffer
           /\ errors' \in [Peers -> 0 .. MaxErrors]
  <1>1. /\ buffer \in [Peers -> Seq(Byte)] /\ parts \in [Peers -> Seq(Nat)]
        /\ \A p \in Peers : Len(buffer[p]) < MaxBuffer
    BY DEF TypeOK
  <1>2. errors \in [Peers -> 0 .. MaxErrors]
    BY DEF TypeOK
  <1>3. /\ buffer' = [buffer EXCEPT ![q] = result.rest]
        /\ parts' = [parts EXCEPT ![q] = result.out]
    BY DEF Decoded
  <1>4. errors' = [errors EXCEPT ![q] = IF result.ok THEN @ ELSE @ + 1]
    BY DEF Decoded
  <1>5. buffer'[q] = result.rest /\ \A p \in Peers \ {q} : buffer'[p] = buffer[p]
    BY <1>1, <1>3
  <1>6. buffer' \in [Peers -> Seq(Byte)]
    BY <1>1, <1>3, <1>5
  <1>7. parts' \in [Peers -> Seq(Nat)]
    BY <1>1, <1>3
  <1>8. errors' \in [Peers -> 0 .. MaxErrors]
    <2>1. errors[q] \in Nat /\ errors[q] < MaxErrors /\ MaxErrors \in Nat
      BY <1>2, StreamBounds DEF Reads
    <2> DEFINE e == IF result.ok THEN errors[q] ELSE errors[q] + 1
    <2>2. e \in 0 .. MaxErrors
      BY <2>1
    <2>3. errors' = [errors EXCEPT ![q] = e]
      BY <1>2, <1>4
    <2> HIDE DEF e
    <2> QED
      BY <1>2, <2>2, <2>3
  <1> QED
    BY <1>1, <1>5, <1>6, <1>7, <1>8

\* Each action keeps the types and bounds.
LEMMA WriteType ==
    ASSUME Invariant, NEW p \in Peers, Write(p)
    PROVE  TypeOK'
  <1> DEFINE script == Script(p)
             n == sent[p] + 1
             bytes == Encoded(n, script[n])
  <1>1. /\ TypeOK /\ script \in Seq(Message) /\ sent[p] \in Nat /\ Len(script) \in Nat
        /\ Other(p) \in Peers
    BY InvariantFacts DEF Invariant
  <1>2. /\ sent[p] < Len(script) /\ sent' = [sent EXCEPT ![p] = n]
        /\ UNCHANGED <<mode, buffer, parts, handled, errors, reported>>
    BY DEF Write
  <1>3. n \in 1 .. Len(script) /\ bytes \in Seq(Byte)
    <2>1. n \in 1 .. Len(script)
      BY <1>1, <1>2
    <2> HIDE DEF n, script
    <2> QED
      BY <1>1, <2>1, EncodedType
  <1>4. sent' \in [Peers -> Nat]
    <2>1. sent \in [Peers -> Nat] /\ n \in Nat
      BY <1>1 DEF TypeOK
    <2> QED
      BY <1>2, <2>1
  <1> DEFINE Net == [Peers -> IF mode.kind = "http2" THEN Seq(Byte) ELSE Seq(Seq(Byte))]
  <1>5. /\ writing' \in [Peers -> Seq(Byte)] /\ network' \in Net
        /\ queue' \in [Peers -> Seq(Seq(Byte))] /\ \A q \in Peers : Len(queue'[q]) <= Depth
        /\ done' \subseteq Peers
    <2>1. /\ writing \in [Peers -> Seq(Byte)] /\ network \in Net
          /\ queue \in [Peers -> Seq(Seq(Byte))] /\ \A q \in Peers : Len(queue[q]) <= Depth
          /\ done \subseteq Peers
      BY <1>1 DEF TypeOK
    <2>2. CASE UNCHANGED <<writing, network, queue, done>>
      BY <2>1, <2>2
    <2>3. CASE Enqueue(Other(p), bytes, Peers) /\ UNCHANGED <<writing, network>>
      <3>1. Peers \in SUBSET Peers
        OBVIOUS
      <3> HIDE DEF bytes
      <3>2. /\ queue' \in [Peers -> Seq(Seq(Byte))] /\ \A q \in Peers : Len(queue'[q]) <= Depth
            /\ done' \subseteq Peers
        BY <1>1, <1>3, <2>3, <3>1, EnqueueType
      <3> QED
        BY <2>1, <2>3, <3>2
    <2>4. CASE /\ mode.kind = "websocket"
               /\ network' = [network EXCEPT ![p] = Append(@, bytes)]
               /\ UNCHANGED <<writing, queue, done>>
      <3> HIDE DEF bytes
      <3>1. network \in [Peers -> Seq(Seq(Byte))]
        BY <2>1, <2>4
      <3>2. Append(network[p], bytes) \in Seq(Seq(Byte))
        BY <1>3, <3>1, AppendProperties
      <3>3. network' \in [Peers -> Seq(Seq(Byte))]
        BY <2>4, <3>1, <3>2
      <3> QED
        BY <2>1, <2>4, <3>3
    <2>5. CASE writing' = [writing EXCEPT ![p] = bytes] /\ UNCHANGED <<network, queue, done>>
      <3> HIDE DEF bytes
      <3>1. writing' \in [Peers -> Seq(Byte)]
        BY <1>3, <2>1, <2>5
      <3> QED
        BY <2>1, <2>5, <3>1
    <2>6. mode.kind \in {"memory", "websocket", "http2"}
      BY InvariantFacts
    <2> HIDE DEF Net
    <2> QED
      BY <2>2, <2>3, <2>4, <2>5, <2>6 DEF Write
  <1> QED
    BY <1>1, <1>2, <1>4, <1>5 DEF TypeOK

LEMMA FlowType ==
    ASSUME Invariant, NEW p \in Peers, Flow(p)
    PROVE  TypeOK'
  <1>1. /\ TypeOK /\ Comes(p)
    BY DEF Invariant
  <1>2. /\ writing[p] # <<>>
        /\ network' = [network EXCEPT ![p] = Append(@, Head(writing[p]))]
        /\ writing' = [writing EXCEPT ![p] = Tail(@)]
        /\ UNCHANGED <<mode, sent, queue, buffer, parts, handled, errors, reported, done>>
    BY DEF Flow
  <1>3. mode.kind = "http2"
    BY <1>1, <1>2 DEF Comes, ComesWhole
  <1>4. writing \in [Peers -> Seq(Byte)] /\ network \in [Peers -> Seq(Byte)]
    BY <1>1, <1>3 DEF TypeOK
  <1>5. Head(writing[p]) \in Byte /\ Tail(writing[p]) \in Seq(Byte)
    BY <1>2, <1>4, HeadTailProperties
  <1>6. Append(network[p], Head(writing[p])) \in Seq(Byte)
    BY <1>4, <1>5, AppendProperties
  <1>7. network' \in [Peers -> Seq(Byte)]
    BY <1>2, <1>4, <1>6
  <1>8. writing' \in [Peers -> Seq(Byte)]
    BY <1>2, <1>4, <1>5
  <1> QED
    BY <1>1, <1>2, <1>3, <1>7, <1>8 DEF TypeOK

LEMMA ArriveType ==
    ASSUME Invariant, NEW q \in Peers, Arrive(q)
    PROVE  TypeOK'
  <1> DEFINE p == Other(q)
  <1>1. TypeOK /\ p \in Peers
    BY PeerFacts DEF Invariant
  <1>2. /\ mode.kind = "websocket" /\ network[p] # <<>>
        /\ network' = [network EXCEPT ![p] = Tail(@)]
        /\ UNCHANGED <<mode, sent, writing, buffer, parts, handled, errors, reported>>
    BY DEF Arrive
  <1>3. \/ UNCHANGED <<queue, done>>
        \/ Enqueue(q, Head(network[p]), {q})
    BY DEF Arrive
  <1> HIDE DEF p
  <1>4. network \in [Peers -> Seq(Seq(Byte))]
    BY <1>1, <1>2 DEF TypeOK
  <1>5. Head(network[p]) \in Seq(Byte) /\ Tail(network[p]) \in Seq(Seq(Byte))
    BY <1>1, <1>2, <1>4, HeadTailProperties
  <1>6. network' \in [Peers -> Seq(Seq(Byte))]
    BY <1>2, <1>4, <1>5
  <1>7. /\ queue' \in [Peers -> Seq(Seq(Byte))] /\ \A r \in Peers : Len(queue'[r]) <= Depth
        /\ done' \subseteq Peers
    <2>1. CASE UNCHANGED <<queue, done>>
      BY <1>1, <2>1 DEF TypeOK
    <2>2. CASE Enqueue(q, Head(network[p]), {q})
      <3>1. {q} \in SUBSET Peers
        OBVIOUS
      <3> QED
        BY <1>1, <1>5, <2>2, <3>1, EnqueueType
    <2> QED
      BY <1>3, <2>1, <2>2
  <1> QED
    BY <1>1, <1>2, <1>6, <1>7 DEF TypeOK

LEMMA CloseType ==
    ASSUME Invariant, NEW p \in Peers, SocketClosed(p) \/ Close(p)
    PROVE  TypeOK'
  <1>1. TypeOK
    BY DEF Invariant
  <1>2. /\ UNCHANGED <<mode, sent, writing, network, queue, buffer, parts, handled,
                       errors, reported>>
        /\ done' = Peers \/ done' = done \cup {p}
    BY DEF SocketClosed, Close
  <1> QED
    BY <1>1, <1>2 DEF TypeOK

LEMMA ReadQueuedType ==
    ASSUME Invariant, NEW r \in Peers, ReadQueued(r)
    PROVE  TypeOK'
  <1> DEFINE x == Other(r)
             result == Push(Script(x), buffer[r], Head(queue[r]), mode.misread)
  <1>1. TypeOK /\ x \in Peers /\ sent[x] \in Nat
    BY InvariantFacts, PeerFacts DEF Invariant
  <1>2. /\ Reads(r) /\ Decoded(r, result) /\ queue[r] # <<>>
        /\ queue' = [queue EXCEPT ![r] = Tail(@)]
        /\ UNCHANGED <<mode, sent, writing, network, handled>>
    BY DEF ReadQueued
  <1> HIDE DEF result, x
  <1>3. /\ buffer'[r] = <<>>
        /\ \E a, b, c, d \in 0 .. sent[x] : \E good \in BOOLEAN :
              TakesNext(r, x, a, b, c, d, good)
    BY <1>1, ReadQueuedTakes DEF x
  <1>4. parts'[r] \in Seq(Nat) /\ reported' \subseteq Peers
    <2>1. PICK a, b, c, d \in 0 .. sent[x] : \E good \in BOOLEAN :
             TakesNext(r, x, a, b, c, d, good)
      BY <1>3
    <2>2. PICK good \in BOOLEAN : TakesNext(r, x, a, b, c, d, good)
      BY <2>1
    <2>3. /\ parts'[r] = IF good THEN <<a + 1>> ELSE <<>>
          /\ reported' = IF good THEN reported ELSE reported \cup {x}
      BY <2>2 DEF TakesNext
    <2>4. <<a + 1>> \in Seq(Nat) /\ <<>> \in Seq(Nat)
      BY <1>1
    <2> QED
      BY <1>1, <2>3, <2>4 DEF TypeOK
  <1>5. buffer'[r] \in Seq(Byte) /\ Len(buffer'[r]) < MaxBuffer
    BY <1>3, DecoderAssumption DEF MaxBuffer
  <1>6. done' \subseteq Peers
    BY <1>1, <1>2 DEF Decoded, TypeOK
  <1>7. /\ buffer' \in [Peers -> Seq(Byte)] /\ parts' \in [Peers -> Seq(Nat)]
        /\ \A p \in Peers : Len(buffer'[p]) < MaxBuffer
        /\ errors' \in [Peers -> 0 .. MaxErrors]
    BY <1>1, <1>2, <1>4, <1>5, <1>6, DecodedType
  <1>8. queue' \in [Peers -> Seq(Seq(Byte))] /\ \A p \in Peers : Len(queue'[p]) <= Depth
    <2>1. queue \in [Peers -> Seq(Seq(Byte))] /\ \A p \in Peers : Len(queue[p]) <= Depth
      BY <1>1 DEF TypeOK
    <2>2. Tail(queue[r]) \in Seq(Seq(Byte)) /\ Len(Tail(queue[r])) = Len(queue[r]) - 1
      BY <1>2, <2>1, HeadTailProperties
    <2>3. queue' \in [Peers -> Seq(Seq(Byte))]
          /\ \A p \in Peers : queue'[p] = IF p = r THEN Tail(queue[r]) ELSE queue[p]
      BY <1>2, <2>1, <2>2
    <2>4. Len(Tail(queue[r])) <= Depth
      <3>1. Len(queue[r]) \in Nat /\ Len(queue[r]) <= Depth /\ Depth \in Nat
        BY <2>1, LenProperties, StreamBounds
      <3> QED
        BY <2>2, <3>1
    <2> QED
      BY <2>1, <2>3, <2>4
  <1> QED
    BY <1>1, <1>2, <1>4, <1>6, <1>7, <1>8 DEF TypeOK

LEMMA ReadCutType ==
    ASSUME Invariant, NEW r \in Peers, ReadCut(r)
    PROVE  TypeOK'
  <1> DEFINE x == Other(r)
             script == Script(x)
  <1>1. TypeOK /\ x \in Peers /\ script \in Seq(Message)
    BY InvariantFacts, PeerFacts DEF Invariant
  <1>2. /\ mode.kind = "http2" /\ UNCHANGED <<mode, sent, writing, queue, handled>>
        /\ network'[x] \in Seq(ByteOf(script))
        /\ network' = [network EXCEPT ![x] = network'[x]]
        /\ Len(buffer'[r]) < MaxBuffer
        /\ \E ok \in BOOLEAN :
             /\ reported' = IF ok THEN reported ELSE reported \cup {x}
             /\ Leaves(script, Coming(x), Top(x), sent[x], ok, parts'[r], buffer'[r],
                       Coming(x)')
    BY <1>1, ReadCutLeaves
  <1>3. PICK k \in 1 .. Len(network[x]) :
            Decoded(r, Push(script, buffer[r], SubSeq(network[x], 1, k), mode.misread))
    BY DEF ReadCut
  <1> DEFINE result == Push(script, buffer[r], SubSeq(network[x], 1, k), mode.misread)
  <1>4. Decoded(r, result) /\ Reads(r)
    BY <1>3 DEF ReadCut
  <1> HIDE DEF result, x, script
  <1>5. /\ parts'[r] \in Seq(Nat) /\ buffer'[r] \in Seq(ByteOf(script))
        /\ reported' \subseteq Peers
    BY <1>1, <1>2 DEF Leaves, TypeOK
  <1>6. buffer'[r] \in Seq(Byte) /\ network'[x] \in Seq(Byte)
    BY <1>1, <1>2, <1>5, BytesOfScript
  <1>7. done' \subseteq Peers
    BY <1>1, <1>4 DEF Decoded, TypeOK
  <1>8. /\ buffer' \in [Peers -> Seq(Byte)] /\ parts' \in [Peers -> Seq(Nat)]
        /\ \A p \in Peers : Len(buffer'[p]) < MaxBuffer
        /\ errors' \in [Peers -> 0 .. MaxErrors]
    BY <1>1, <1>2, <1>4, <1>5, <1>6, <1>7, DecodedType
  <1>9. network' \in [Peers -> Seq(Byte)]
    <2>1. network \in [Peers -> Seq(Byte)]
      BY <1>1, <1>2 DEF TypeOK
    <2> QED
      BY <1>2, <1>6, <2>1
  <1> QED
    BY <1>1, <1>2, <1>5, <1>7, <1>8, <1>9 DEF TypeOK

LEMMA ProcessType ==
    ASSUME Invariant, NEW r \in Peers, Process(r)
    PROVE  TypeOK'
  <1> DEFINE x == Other(r)
             n == parts[r][1]
  <1>1. TypeOK /\ x \in Peers
    BY PeerFacts DEF Invariant
  <1>2. /\ parts[r] # <<>>
        /\ parts' = [parts EXCEPT ![r] = Tail(@)]
        /\ handled' = [handled EXCEPT ![x] = Append(@, n)]
        /\ errors' = [errors EXCEPT ![r] = 0]
        /\ UNCHANGED <<mode, sent, writing, network, queue, buffer, reported, done>>
    BY DEF Process
  <1>3. parts \in [Peers -> Seq(Nat)] /\ handled \in [Peers -> Seq(Nat)]
        /\ errors \in [Peers -> 0 .. MaxErrors]
    BY <1>1 DEF TypeOK
  <1>4. n \in Nat /\ Tail(parts[r]) \in Seq(Nat)
    <2>1. Head(parts[r]) \in Nat /\ Tail(parts[r]) \in Seq(Nat)
      BY <1>2, <1>3, HeadTailProperties
    <2> QED
      BY <2>1
  <1> HIDE DEF n, x
  <1>5. Append(handled[x], n) \in Seq(Nat)
    BY <1>1, <1>3, <1>4, AppendProperties
  <1>6. handled' \in [Peers -> Seq(Nat)]
    BY <1>2, <1>3, <1>5
  <1>7. parts' \in [Peers -> Seq(Nat)]
    BY <1>2, <1>3, <1>4
  <1>8. errors' \in [Peers -> 0 .. MaxErrors]
    BY <1>2, <1>3, StreamBounds
  <1> QED
    BY <1>1, <1>2, <1>6, <1>7, <1>8 DEF TypeOK

-----------------------------------------------------------------------------
(***************************************************************************)
(* The invariant holds.                                                    *)
(***************************************************************************)
LEMMA InitInvariant == Init => Invariant
  <1> SUFFICES ASSUME Init PROVE Invariant
    OBVIOUS
  <1>1. /\ mode \in Modes /\ sent = [p \in Peers |-> 0]
        /\ writing = [p \in Peers |-> <<>>] /\ network = [p \in Peers |-> <<>>]
        /\ queue = [p \in Peers |-> <<>>] /\ buffer = [p \in Peers |-> <<>>]
        /\ parts = [p \in Peers |-> <<>>] /\ handled = [p \in Peers |-> <<>>]
        /\ errors = [p \in Peers |-> 0] /\ reported = {} /\ done = {}
    BY DEF Init
  <1>2. \A T : <<>> \in Seq(T)
    OBVIOUS
  <1>3. Len(<<>>) = 0 /\ Depth \in Nat /\ MaxErrors \in Nat /\ Capacity \in Nat
        /\ MaxBuffer \in Nat /\ 0 < MaxBuffer
    BY StreamBounds, DecoderAssumption, EmptySeq DEF MaxBuffer
  <1>4. TypeOK
    <2>1. /\ sent \in [Peers -> Nat] /\ handled \in [Peers -> Seq(Nat)]
          /\ writing \in [Peers -> Seq(Byte)] /\ parts \in [Peers -> Seq(Nat)]
          /\ queue \in [Peers -> Seq(Seq(Byte))] /\ buffer \in [Peers -> Seq(Byte)]
      BY <1>1, <1>2
    <2>2. network \in [Peers -> IF mode.kind = "http2" THEN Seq(Byte) ELSE Seq(Seq(Byte))]
      BY <1>1, <1>2
    <2>3. \A p \in Peers : Len(queue[p]) <= Depth /\ Len(buffer[p]) < MaxBuffer
      BY <1>1, <1>3
    <2>4. errors \in [Peers -> 0 .. MaxErrors]
      BY <1>1, <1>3
    <2> QED
      BY <1>1, <2>1, <2>2, <2>3, <2>4 DEF TypeOK
  <1>5. ASSUME NEW p \in Peers PROVE Comes(p)
    <2> DEFINE q == Other(p)
               script == Script(p)
    <2>1. q \in Peers /\ script \in Seq(Message) /\ Len(script) \in Nat
      BY <1>1, PeerFacts, ModeFacts, LenProperties
    <2>2. /\ sent[p] = 0 /\ writing[p] = <<>> /\ network[p] = <<>> /\ queue[q] = <<>>
          /\ buffer[q] = <<>> /\ parts[q] = <<>> /\ handled[p] = <<>>
      BY <1>1, <2>1
    <2>3. LastHandled(p) = 0 /\ Top(p) = 0
      BY <2>2 DEF LastHandled, Top
    <2>4. InHand(p)
      BY <1>3, <2>2, <2>3 DEF InHand
    <2>5. ComesCut(p)
      <3>1. Coming(p) = <<>>
        <4>1. <<>> \in Seq(Nat) /\ <<>> \o <<>> = <<>>
          BY ConcatEmptySeq
        <4> QED
          BY <2>2, <4>1 DEF Coming
      <3>2. IsStretch(script, <<>>)
        BY <1>2, <1>3 DEF IsStretch
      <3> QED
        BY <1>2, <1>3, <2>2, <2>3, <3>1, <3>2 DEF ComesCut
    <2>6. ComesWhole(p)
      <3>1. Chunks(script, 0, 0) = <<>>
        BY <2>1, NoChunks
      <3>2. 0 \in 0 .. sent[p]
        BY <2>2
      <3> QED
        BY <2>2, <2>3, <3>1, <3>2 DEF ComesWhole
    <2> QED
      BY <2>1, <2>2, <2>4, <2>5, <2>6 DEF Comes
  <1>6. LegalStreamDecodes
    BY <1>1 DEF LegalStreamDecodes
  <1> QED
    BY <1>1, <1>4, <1>5, <1>6 DEF Invariant

\* It is enough that no legal stream is newly reported.
LEMMA LegalUnchanged ==
    ASSUME LegalStreamDecodes, mode' = mode,
           \A p \in Peers : Legal(p) /\ p \notin reported => p \notin reported'
    PROVE  LegalStreamDecodes'
  <1> SUFFICES ASSUME NEW p \in Peers, Legal(p)' PROVE p \notin reported'
    BY DEF LegalStreamDecodes, Legal
  <1>1. Legal(p)
    BY DEF Legal, Script
  <1>2. p \notin reported
    BY <1>1 DEF LegalStreamDecodes, Legal
  <1> QED
    BY <1>1, <1>2

\* Only what is read is reported.
LEMMA NextReports ==
    ASSUME Invariant, NEW r \in Peers
    PROVE  /\ Write(r) \/ Flow(r) \/ Arrive(r) \/ SocketClosed(r) \/ Close(r) \/ Process(r)
                => UNCHANGED <<mode, reported>>
           /\ ReadQueued(r) \/ ReadCut(r) =>
                /\ UNCHANGED <<mode, sent, handled>>
                /\ \/ reported' = reported
                   \/ /\ reported' = reported \cup {Other(r)}
                      /\ Legal(Other(r)) => Other(r) \in reported
  <1> DEFINE x == Other(r)
  <1>1. Write(r) \/ Flow(r) \/ Arrive(r) \/ SocketClosed(r) \/ Close(r) \/ Process(r)
          => UNCHANGED <<mode, reported>>
    BY DEF Write, Flow, Arrive, SocketClosed, Close, Process
  <1>2. x \in Peers /\ sent[x] \in Nat
    BY InvariantFacts, PeerFacts
  <1>3. ASSUME ReadQueued(r)
        PROVE  /\ UNCHANGED <<mode, sent, handled>>
               /\ \/ reported' = reported
                  \/ /\ reported' = reported \cup {x}
                     /\ Legal(x) => x \in reported
    <2> HIDE DEF x
    <2>1. /\ UNCHANGED <<mode, sent, handled>>
          /\ \E a, b, c, d \in 0 .. sent[x] : \E good \in BOOLEAN :
                TakesNext(r, x, a, b, c, d, good)
      BY <1>2, <1>3, ReadQueuedTakes DEF x
    <2>2. PICK a, b, c, d \in 0 .. sent[x] : \E good \in BOOLEAN :
             TakesNext(r, x, a, b, c, d, good)
      BY <2>1
    <2>3. PICK good \in BOOLEAN : TakesNext(r, x, a, b, c, d, good)
      BY <2>2
    <2>4. /\ a + 1 \in DOMAIN Script(x) /\ (good <=> Script(x)[a + 1].sort # "bad")
          /\ reported' = IF good THEN reported ELSE reported \cup {x}
      BY <2>3 DEF TakesNext
    <2>5. Legal(x) => good
      BY <2>4 DEF Legal
    <2> QED
      BY <2>1, <2>4, <2>5
  <1>4. ASSUME ReadCut(r)
        PROVE  /\ UNCHANGED <<mode, sent, handled>>
               /\ \/ reported' = reported
                  \/ /\ reported' = reported \cup {x}
                     /\ Legal(x) => x \in reported
    <2>1. /\ UNCHANGED <<mode, sent, handled>>
          /\ \E ok \in BOOLEAN :
                /\ reported' = IF ok THEN reported ELSE reported \cup {x}
                /\ Legal(x) /\ x \notin reported => ok
      BY <1>2, <1>4, ReadCutLeaves
    <2>2. PICK ok \in BOOLEAN :
             /\ reported' = IF ok THEN reported ELSE reported \cup {x}
             /\ Legal(x) /\ x \notin reported => ok
      BY <2>1
    <2> QED
      BY <2>1, <2>2
  <1> QED
    BY <1>1, <1>3, <1>4

\* Every step keeps the invariant, one lemma an action.
LEMMA NextInvariant ==
    ASSUME Invariant, Next
    PROVE  Invariant'
  <1>1. PICK r \in Peers :
            \/ Write(r) \/ Flow(r) \/ Arrive(r) \/ SocketClosed(r) \/ Close(r)
            \/ ReadQueued(r) \/ ReadCut(r) \/ Process(r)
    BY DEF Next
  <1>2. TypeOK /\ LegalStreamDecodes /\ Other(r) \in Peers
    BY PeerFacts DEF Invariant
  <1>3. TypeOK'
    BY <1>1, WriteType, FlowType, ArriveType, CloseType, ReadQueuedType, ReadCutType,
       ProcessType
  <1>4. \A p \in Peers : Comes(p)'
    BY <1>1, ComesWrite, ComesFlow, ComesArrive, ComesClose, ComesReadQueued,
       ComesReadCut, ComesProcess
  <1>5. LegalStreamDecodes'
    <2>1. mode' = mode /\ \A p \in Peers : Legal(p) /\ p \notin reported => p \notin reported'
      BY <1>1, <1>2, NextReports
    <2> QED
      BY <1>2, <2>1, LegalUnchanged
  <1>6. (mode.kind = "memory" => done \in {{}, Peers})'
    <2> SUFFICES ASSUME mode'.kind = "memory" PROVE done' \in {{}, Peers}
      OBVIOUS
    <2>1. mode' = mode
      BY <1>1, NextReports
    <2>2. mode.kind = "memory" /\ done \in {{}, Peers}
      BY <2>1 DEF Invariant
    <2>3. CASE Write(r)
      <3>1. done' = done \/ done' = done \cup Peers \/ done' = done \cup {}
        BY <2>2, <2>3 DEF Write, Enqueue, DoneAfterOverflow
      <3> QED
        BY <2>2, <3>1
    <2>4. CASE Flow(r) \/ Process(r)
      BY <2>2, <2>4 DEF Flow, Process
    <2>5. CASE Arrive(r) \/ SocketClosed(r) \/ ReadCut(r)
      BY <2>2, <2>5 DEF Arrive, SocketClosed, ReadCut
    <2>6. CASE Close(r)
      BY <2>2, <2>6 DEF Close
    <2>7. CASE ReadQueued(r)
      BY <2>2, <2>7 DEF ReadQueued, Decoded
    <2> QED
      BY <1>1, <2>3, <2>4, <2>5, <2>6, <2>7
  <1> QED
    BY <1>3, <1>4, <1>5, <1>6 DEF Invariant

\* So does a step that changes nothing.
LEMMA StutterInvariant ==
    ASSUME Invariant, UNCHANGED vars
    PROVE  Invariant'
  <1>1. UNCHANGED <<mode, sent, writing, network, queue, buffer, parts, handled, errors,
                    reported, done>>
    BY DEF vars
  <1>2. TypeOK'
    BY <1>1 DEF Invariant, TypeOK
  <1>3. ASSUME NEW p \in Peers PROVE Comes(p)'
    <2>1. Comes(p)
      BY DEF Invariant
    <2> QED
      BY <1>1, <2>1, ComesUnchanged
  <1>4. LegalStreamDecodes'
    BY <1>1, LegalUnchanged DEF Invariant
  <1> QED
    BY <1>1, <1>2, <1>3, <1>4 DEF Invariant

\* In every state the bytes to come are in order.
THEOREM StreamInvariant == Spec => []Invariant
  <1>1. Invariant /\ [Next]_vars => Invariant'
    BY NextInvariant, StutterInvariant
  <1> QED
    BY <1>1, InitInvariant, PTL DEF Spec

\* Every state is well typed, and neither the inbound queue nor the decoder's
\* buffer outgrows its bound.
THEOREM StreamTypeOK == Spec => []TypeOK
  <1>1. Invariant => TypeOK
    BY DEF Invariant
  <1> QED
    BY <1>1, StreamInvariant, PTL

\* A legal stream that keeps clear of the decoder's limit is never reported.
THEOREM LegalStreamsDecode == Spec => []LegalStreamDecodes
  <1>1. Invariant => LegalStreamDecodes
    BY DEF Invariant
  <1> QED
    BY <1>1, StreamInvariant, PTL

-----------------------------------------------------------------------------
(***************************************************************************)
(* The stream implements the channel.                                      *)
(***************************************************************************)
\* What a peer handles comes after what it has handled, was sent, and is the
\* next unless an error was reported.
LEMMA ProcessHandles ==
    ASSUME Invariant, NEW q \in Peers, Process(q)
    PROVE  LET p == Other(q)
               n == parts[q][1] IN
           n \in 1 .. sent[p] /\ Channel!Handle(p, n)
  <1> DEFINE p == Other(q)
             got == parts[q]
             n == got[1]
  <1>1. /\ p \in Peers /\ Other(p) = q /\ InHand(p) /\ sent[p] \in Nat /\ Top(p) \in Nat
        /\ Top(p) <= sent[p] /\ LastHandled(p) \in Nat
    BY InvariantFacts, PeerFacts
  <1>2. /\ got # <<>> /\ handled' = [handled EXCEPT ![p] = Append(@, n)]
        /\ UNCHANGED <<sent, reported>>
    BY DEF Process
  <1>3. got \in Seq(Nat)
    BY DEF Invariant, TypeOK
  <1> HIDE DEF p
  <1>4. /\ \A i \in 1 .. Len(got) : got[i] = got[1] + i - 1
        /\ LastHandled(p) < n /\ Top(p) = got[Len(got)]
        /\ p \notin reported => n = LastHandled(p) + 1
    BY <1>1, <1>2 DEF InHand, Top
  <1>5. n \in Nat /\ n <= Top(p)
    <2>1. Len(got) \in Nat \ {0}
      BY <1>2, <1>3, EmptySeq, LenProperties
    <2>2. got[1] \in Nat
      BY <1>3, <2>1, ElementOfSeq
    <2>3. got[Len(got)] = got[1] + Len(got) - 1
      BY <1>4, <2>1
    <2> HIDE DEF got
    <2> QED
      BY <1>4, <2>1, <2>2, <2>3
  <1>6. Channel!Last(p) = LastHandled(p)
    BY DEF Channel!Last, LastHandled
  <1> HIDE DEF n
  <1>7. n \in 1 .. sent[p] /\ n \in LastHandled(p) + 1 .. sent[p]
    BY <1>1, <1>4, <1>5
  <1>8. n = LastHandled(p) + 1 \/ p \in reported
    BY <1>4
  <1> QED
    BY <1>2, <1>6, <1>7, <1>8 DEF Channel!Handle, n, p

\* The stream and the decoder are an ordered channel: every step of theirs is
\* a message sent, an error reported, the next message handled, or nothing.
THEOREM StreamIsChannel == Spec => ImplementsChannel
  <1>1. Init => Channel!Init
    BY DEF Init, Channel!Init
  <1>2. ASSUME Invariant, [Next]_vars PROVE [Channel!Next]_(Channel!channelVars)
    <2>1. CASE UNCHANGED vars
      BY <2>1 DEF vars, Channel!channelVars
    <2>2. CASE Next
      <3>1. PICK r \in Peers :
                \/ Write(r) \/ Flow(r) \/ Arrive(r) \/ SocketClosed(r) \/ Close(r)
                \/ ReadQueued(r) \/ ReadCut(r) \/ Process(r)
        BY <2>2 DEF Next
      <3>2. CASE Write(r)
        BY <3>2 DEF Write, Channel!Send, Channel!Next
      <3>3. CASE Flow(r) \/ Arrive(r) \/ SocketClosed(r) \/ Close(r)
        BY <3>3 DEF Flow, Arrive, SocketClosed, Close, Channel!channelVars
      <3>4. CASE ReadQueued(r) \/ ReadCut(r)
        <4>1. /\ UNCHANGED <<sent, handled>> /\ Other(r) \in Peers
              /\ reported' = reported \/ reported' = reported \cup {Other(r)}
          BY <1>2, <3>4, NextReports, PeerFacts
        <4>2. CASE reported' = reported
          BY <4>1, <4>2 DEF Channel!channelVars
        <4>3. CASE reported' = reported \cup {Other(r)}
          BY <4>1, <4>3 DEF Channel!Report, Channel!Next
        <4> QED
          BY <4>1, <4>2, <4>3
      <3>5. CASE Process(r)
        BY <1>2, <3>5, ProcessHandles, PeerFacts DEF Channel!Next
      <3> QED
        BY <3>1, <3>2, <3>3, <3>4, <3>5
    <2> QED
      BY <1>2, <2>1, <2>2
  <1> QED
    BY <1>1, <1>2, StreamInvariant, PTL DEF Spec, ImplementsChannel, Channel!Spec
=============================================================================
