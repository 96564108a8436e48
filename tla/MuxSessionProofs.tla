-------------------------- MODULE MuxSessionProofs --------------------------
(***************************************************************************)
(* Proofs about MuxSession and the Coordinator it drives, for any sets of  *)
(* sessions, waits, inits and bodies, any predicates and any of the modes  *)
(* a runtime can be started with.                                          *)
(***************************************************************************)
EXTENDS MuxSession, FiniteSetTheorems, SequenceTheorems, TLAPS

-----------------------------------------------------------------------------
(* The coordinator.                                                        *)

CoordInv == CoordTypeOK /\ SettledLeavesNothing

\* Settling some waits keeps the types and leaves nothing of them behind.
LEMMA SettleKeeps ==
    ASSUME CoordInv, NEW W, NEW outcome \in {"resolved", "rejected"}, Settle(W, outcome)
    PROVE  CoordInv'
  BY DEF CoordInv, CoordTypeOK, SettledLeavesNothing, Settle

\* Every operation of the coordinator keeps its invariant.
LEMMA CoordKeeps ==
    ASSUME CoordInv, CoordNext \/ UNCHANGED coordVars
    PROVE  CoordInv'
  <1>1. ASSUME NEW w \in Waits, WaitForTurn(w)
        PROVE  CoordInv'
    <2>1. Cardinality({v \in Waits : promise[v] # "new"}) \in Nat
      <3>1. IsFiniteSet({v \in Waits : promise[v] # "new"})
        BY WaitAssumption, FS_Subset
      <3> QED
        BY <3>1, FS_CardinalityType
    <2>2. CoordTypeOK'
      BY <1>1, <2>1 DEF CoordInv, CoordTypeOK, WaitForTurn
    <2>3. SettledLeavesNothing'
      BY <1>1 DEF CoordInv, CoordTypeOK, SettledLeavesNothing, WaitForTurn
    <2> QED
      BY <2>2, <2>3 DEF CoordInv
  <1>2. ASSUME NEW w \in Waits, WaitRefused(w)
        PROVE  CoordInv'
    BY <1>2 DEF CoordInv, CoordTypeOK, SettledLeavesNothing, WaitRefused
  <1>3. ASSUME NEW w \in Waits, Abort(w)
        PROVE  CoordInv'
    BY <1>3 DEF CoordInv, CoordTypeOK, SettledLeavesNothing, Abort
  <1>4. ASSUME NEW w \in Waits, TimeUp(w)
        PROVE  CoordInv'
    BY <1>4, SettleKeeps DEF TimeUp
  <1>5. ASSUME NEW c \in Sessions, RejectAll(c)
        PROVE  CoordInv'
    BY <1>5, SettleKeeps DEF RejectAll
  <1>6. ASSUME NEW c \in Sessions, NEW body \in Bodies, Fulfil(c, body)
        PROVE  CoordInv'
    BY <1>6, SettleKeeps DEF Fulfil
  <1>7. CASE UNCHANGED coordVars
    BY <1>7 DEF CoordInv, CoordTypeOK, SettledLeavesNothing, coordVars
  <1> QED
    BY <1>1, <1>2, <1>3, <1>4, <1>5, <1>6, <1>7 DEF CoordNext, HostWaits, Dispose

\* What SettledOnce says of one step.
NoneSettledAgain ==
    \A w \in Waits :
        promise[w] \in {"resolved", "rejected"} => promise'[w] = promise[w]

\* A settled wait is not in the list, so no operation reaches it.
LEMMA CoordSettlesOnce ==
    ASSUME CoordInv, CoordNext \/ UNCHANGED coordVars
    PROVE  NoneSettledAgain
  <1>1. ASSUME NEW W \in SUBSET listed, NEW outcome, Settle(W, outcome)
        PROVE  NoneSettledAgain
    BY <1>1 DEF CoordInv, CoordTypeOK, SettledLeavesNothing, Settle, NoneSettledAgain
  <1>2. ASSUME NEW w \in Waits, WaitForTurn(w) \/ WaitRefused(w) \/ Abort(w)
        PROVE  NoneSettledAgain
    BY <1>2 DEF CoordInv, CoordTypeOK, SettledLeavesNothing, WaitForTurn, WaitRefused,
                Abort, NoneSettledAgain
  <1>3. ASSUME NEW w \in Waits, TimeUp(w)
        PROVE  NoneSettledAgain
    BY <1>3, <1>1 DEF TimeUp, CoordInv, SettledLeavesNothing
  <1>4. ASSUME NEW c \in Sessions, RejectAll(c)
        PROVE  NoneSettledAgain
    BY <1>4, <1>1 DEF RejectAll, Waiting
  <1>5. ASSUME NEW c \in Sessions, NEW body \in Bodies, Fulfil(c, body)
        PROVE  NoneSettledAgain
    BY <1>5, <1>1 DEF Fulfil, Matched, Examined, Waiting
  <1>6. CASE UNCHANGED coordVars
    BY <1>6 DEF coordVars, NoneSettledAgain
  <1> QED
    BY <1>2, <1>3, <1>4, <1>5, <1>6 DEF CoordNext, HostWaits, Dispose

\* Waits that are pending have places of their own, after those called before.
Called == {w \in Waits : promise[w] # "new"}

PlacesDiffer ==
    /\ \A w \in Waits \ Called : place[w] = 0
    /\ \A w \in Called : place[w] < Cardinality(Called)
    /\ \A v, w \in Waits :
        promise[v] = "pending" /\ promise[w] = "pending" /\ place[v] = place[w] => v = w

\* Finitely many waits have been called.
LEMMA CalledFinite == IsFiniteSet(Called) /\ Cardinality(Called) \in Nat
  <1>1. IsFiniteSet(Called)
    BY WaitAssumption, FS_Subset DEF Called
  <1> QED
    BY <1>1, FS_CardinalityType

\* Nobody is pending anew, and no place changes.
LEMMA NoNewPlaces ==
    ASSUME PlacesDiffer, Called' = Called, UNCHANGED place,
           \A w \in Waits : promise'[w] = "pending" => promise[w] = "pending"
    PROVE  PlacesDiffer'
  BY DEF PlacesDiffer

\* A settled wait was called before.
LEMMA SettlePlaces ==
    ASSUME CoordInv, PlacesDiffer, NEW W \in SUBSET listed,
           NEW outcome \in {"resolved", "rejected"}, Settle(W, outcome)
    PROVE  PlacesDiffer'
  <1>1. Called' = Called
    BY DEF Called, Settle, CoordInv, SettledLeavesNothing
  <1>2. \A w \in Waits : promise'[w] = "pending" => promise[w] = "pending"
    BY DEF Settle
  <1> QED
    BY <1>1, <1>2, NoNewPlaces DEF Settle

\* One more wait has been called.
LEMMA CalledGrows ==
    ASSUME NEW w \in Waits, w \notin Called, Called' = Called \cup {w}
    PROVE  Cardinality(Called') = Cardinality(Called) + 1
  BY CalledFinite, FS_AddElement

\* Every operation of the coordinator keeps the places apart.
LEMMA PlacesKeep ==
    ASSUME CoordInv, PlacesDiffer, CoordNext \/ UNCHANGED coordVars
    PROVE  PlacesDiffer'
  <1> USE CalledFinite
  <1>1. ASSUME NEW w \in Waits, WaitForTurn(w)
        PROVE  PlacesDiffer'
    <2>1. /\ promise' = [promise EXCEPT ![w] = "pending"] /\ w \notin Called
          /\ place' = [place EXCEPT ![w] = Cardinality(Called)]
      BY <1>1 DEF WaitForTurn, Called
    <2>2. promise'[w] = "pending" /\ \A v \in Waits : v # w => promise'[v] = promise[v]
      BY <2>1 DEF CoordInv, CoordTypeOK
    <2>3. Called' = Called \cup {w}
      BY <2>2 DEF Called
    <2>4. Cardinality(Called') = Cardinality(Called) + 1
      BY <2>1, <2>3, CalledGrows
    <2>5. place'[w] = Cardinality(Called) /\ \A v \in Waits : v # w => place'[v] = place[v]
      BY <2>1 DEF CoordInv, CoordTypeOK
    <2>6. \A v \in Waits : place[v] \in Nat
      BY DEF CoordInv, CoordTypeOK
    <2>7. \A v \in Waits : promise[v] = "pending" => v \in Called
      BY DEF Called
    <2>8. Called \subseteq Waits
      BY DEF Called
    <2>9. \A v \in Waits \ Called' : place'[v] = 0
      BY <2>3, <2>5 DEF PlacesDiffer
    <2>10. \A v \in Called' : place'[v] < Cardinality(Called')
      BY <2>3, <2>4, <2>5, <2>6, <2>8 DEF PlacesDiffer
    <2>11. ASSUME NEW u \in Waits, NEW v \in Waits,
                  promise'[u] = "pending", promise'[v] = "pending", place'[u] = place'[v]
           PROVE  u = v
      BY <2>2, <2>5, <2>6, <2>7, <2>11 DEF PlacesDiffer
    <2> QED
      BY <2>9, <2>10, <2>11 DEF PlacesDiffer
  <1>2. ASSUME NEW w \in Waits, WaitRefused(w)
        PROVE  PlacesDiffer'
    <2>1. /\ promise' = [promise EXCEPT ![w] = "rejected"] /\ w \notin Called
          /\ place' = place
      BY <1>2 DEF WaitRefused, Called
    <2>2. promise'[w] = "rejected" /\ \A v \in Waits : v # w => promise'[v] = promise[v]
      BY <2>1 DEF CoordInv, CoordTypeOK
    <2>3. Called' = Called \cup {w}
      BY <2>2 DEF Called
    <2>4. Cardinality(Called') = Cardinality(Called) + 1
      BY <2>1, <2>3, CalledGrows
    <2>5. Called \subseteq Waits /\ \A v \in Waits : place[v] \in Nat
      BY DEF Called, CoordInv, CoordTypeOK
    <2>6. place[w] = 0
      BY <2>1 DEF PlacesDiffer
    <2>7. \A v \in Called' : place'[v] < Cardinality(Called')
      BY <2>1, <2>3, <2>4, <2>5, <2>6 DEF PlacesDiffer
    <2>8. \A v \in Waits \ Called' : place'[v] = 0
      BY <2>1, <2>3 DEF PlacesDiffer
    <2> QED
      BY <2>1, <2>2, <2>7, <2>8 DEF PlacesDiffer
  <1>3. ASSUME NEW w \in Waits, Abort(w)
        PROVE  PlacesDiffer'
    <2>1. promise' = [promise EXCEPT ![w] = IF w \in listener THEN "rejected" ELSE @]
      BY <1>3 DEF Abort
    <2>2. w \in listener => promise[w] = "pending"
      BY DEF CoordInv, SettledLeavesNothing
    <2>3. Called' = Called
      BY <2>1, <2>2 DEF Called, CoordInv, CoordTypeOK
    <2>4. \A v \in Waits : promise'[v] = "pending" => promise[v] = "pending"
      BY <2>1 DEF CoordInv, CoordTypeOK
    <2> QED
      BY <1>3, <2>3, <2>4, NoNewPlaces DEF Abort
  <1>4. ASSUME NEW w \in Waits, TimeUp(w)
        PROVE  PlacesDiffer'
    <2>1. {w} \in SUBSET listed
      BY <1>4 DEF TimeUp, CoordInv, SettledLeavesNothing
    <2> QED
      BY <1>4, <2>1, SettlePlaces DEF TimeUp
  <1>5. ASSUME NEW c \in Sessions, RejectAll(c)
        PROVE  PlacesDiffer'
    <2>1. Waiting(c) \in SUBSET listed
      BY DEF Waiting
    <2> QED
      BY <1>5, <2>1, SettlePlaces DEF RejectAll
  <1>6. ASSUME NEW c \in Sessions, NEW body \in Bodies, Fulfil(c, body)
        PROVE  PlacesDiffer'
    <2>1. Matched(c, body) \in SUBSET listed
      BY DEF Matched, Examined, Waiting
    <2> QED
      BY <1>6, <2>1, SettlePlaces DEF Fulfil
  <1>7. CASE UNCHANGED coordVars
    BY <1>7 DEF coordVars, PlacesDiffer, Called
  <1> QED
    BY <1>1, <1>2, <1>3, <1>4, <1>5, <1>6, <1>7 DEF CoordNext, HostWaits, Dispose
-----------------------------------------------------------------------------
(* The call stack.                                                         *)

TurnStages == {"applying", "sending", "announcing", "answering"}

\* Jobs at the stages of a turn are about a turn; and a job that has called
\* another is at a stage at which a callback is awaited.
StackInv ==
    /\ jobs \in Seq(Job)
    /\ \A i \in 1 .. Len(jobs) : jobs[i].stage \in TurnStages => jobs[i].frame.op.body \in Bodies
    /\ \A i \in 1 .. Len(jobs) - 1 : jobs[i].stage \in CallingBack

\* Whether some onTerminate has yet to return.
Notifying == \E i \in 1 .. Len(jobs) : jobs[i].stage = "notifying"

\* The innermost job of a stack that is not empty.
LEMMA TopJob ==
    ASSUME StackInv, Running
    PROVE  /\ Len(jobs) \in Nat /\ Len(jobs) >= 1 /\ Top \in Job
           /\ Top.stage \in TurnStages => Top.frame.op.body \in Bodies
  <1>1. jobs \in Seq(Job) /\ jobs # <<>>
    BY DEF StackInv, Running
  <1>2. Len(jobs) \in Nat /\ Len(jobs) >= 1
    BY <1>1
  <1>3. Len(jobs) \in 1 .. Len(jobs)
    BY <1>2
  <1>4. Top \in Job
    BY <1>1, <1>3 DEF Top
  <1> QED
    BY <1>2, <1>3, <1>4 DEF StackInv, Top

\* A job begins inside the callback that the innermost one awaits.
LEMMA EnterKeeps ==
    ASSUME StackInv, NEW j \in Job, Running => Top.stage \in CallingBack,
           j.stage \in TurnStages => j.frame.op.body \in Bodies, Enter(j)
    PROVE  /\ StackInv' /\ Running' /\ Top' = j /\ Len(jobs') = Len(jobs) + 1
           /\ Notifying => Notifying'
  <1>1. jobs \in Seq(Job) /\ Len(jobs) \in Nat
    BY DEF StackInv
  <1>2. jobs' = Append(jobs, j)
    BY DEF Enter
  <1>3. jobs' \in Seq(Job) /\ Len(jobs') = Len(jobs) + 1
    BY <1>1, <1>2
  <1>4. jobs'[Len(jobs) + 1] = j /\ \A i \in 1 .. Len(jobs) : jobs'[i] = jobs[i]
    BY <1>1, <1>2
  <1> HIDE DEF Enter
  <1>5. Running' /\ Top' = j
    <2>1. Len(jobs') # 0
      BY <1>1, <1>3
    <2>2. jobs' # <<>>
      BY <2>1
    <2> QED
      BY <1>3, <1>4, <2>2 DEF Running, Top
  <1>6. \A i \in 1 .. Len(jobs') :
            jobs'[i].stage \in TurnStages => jobs'[i].frame.op.body \in Bodies
    BY <1>1, <1>3, <1>4 DEF StackInv
  <1>7. \A i \in 1 .. Len(jobs') - 1 : jobs'[i].stage \in CallingBack
    <2> SUFFICES ASSUME NEW i \in 1 .. Len(jobs) PROVE jobs[i].stage \in CallingBack
      BY <1>1, <1>3, <1>4
    <2>1. CASE i = Len(jobs)
      <3>1. jobs # <<>>
        BY <1>1, <2>1
      <3> QED
        BY <2>1, <3>1 DEF Running, Top
    <2>2. CASE i # Len(jobs)
      BY <1>1, <2>2 DEF StackInv
    <2> QED
      BY <2>1, <2>2
  <1>8. Notifying => Notifying'
    BY <1>1, <1>3, <1>4 DEF Notifying
  <1> QED
    BY <1>3, <1>5, <1>6, <1>7, <1>8 DEF StackInv

\* The innermost job goes from stage to stage.
LEMMA BecomesKeeps ==
    ASSUME StackInv, Running,
           NEW stage \in {"applying", "sending", "terminating", "repeating", "announcing",
                          "answering", "notifying", "advancing", "greeting"},
           stage \in TurnStages => Top.frame.op.body \in Bodies, Becomes(stage)
    PROVE  /\ StackInv' /\ Running' /\ Len(jobs') = Len(jobs)
           /\ Top'.stage = stage /\ Top'.sid = Top.sid /\ Top'.frame = Top.frame
           /\ Top.stage # "notifying" => (Notifying => Notifying')
  <1> DEFINE n == Len(jobs)
             new == [Top EXCEPT !.stage = stage]
  <1>1. jobs \in Seq(Job) /\ n \in Nat /\ n >= 1 /\ Top \in Job
    BY TopJob DEF StackInv
  <1>2. /\ new \in Job /\ new.stage = stage /\ new.sid = Top.sid /\ new.frame = Top.frame
    BY <1>1 DEF Job
  <1>3. jobs' = [jobs EXCEPT ![n] = new]
    BY DEF Becomes, Top
  <1> HIDE DEF new
  <1>4. jobs' \in Seq(Job) /\ Len(jobs') = n
    BY <1>1, <1>2, <1>3
  <1>5. jobs'[n] = new /\ \A i \in 1 .. n - 1 : jobs'[i] = jobs[i]
    BY <1>1, <1>3
  <1>6. Running' /\ Top' = new
    <2>1. jobs' # <<>>
      BY <1>1, <1>4
    <2> QED
      BY <1>4, <1>5, <2>1 DEF Running, Top
  <1>7. \A i \in 1 .. Len(jobs') :
            jobs'[i].stage \in TurnStages => jobs'[i].frame.op.body \in Bodies
    BY <1>1, <1>2, <1>4, <1>5 DEF StackInv
  <1>8. \A i \in 1 .. Len(jobs') - 1 : jobs'[i].stage \in CallingBack
    BY <1>4, <1>5 DEF StackInv
  <1>9. Top.stage # "notifying" => (Notifying => Notifying')
    BY <1>1, <1>4, <1>5 DEF Notifying, Top
  <1> QED
    BY <1>2, <1>4, <1>6, <1>7, <1>8, <1>9 DEF StackInv

\* The innermost job ends, and the one that called it goes on in its callback.
LEMMA DoneKeeps ==
    ASSUME StackInv, Running, Done
    PROVE  /\ StackInv' /\ Len(jobs') = Len(jobs) - 1
           /\ Running' => Top'.stage \in CallingBack
           /\ Top.stage # "notifying" => (Notifying => Notifying')
  <1> DEFINE n == Len(jobs)
  <1>1. jobs \in Seq(Job) /\ n \in Nat /\ n >= 1
    BY TopJob DEF StackInv
  <1>2. jobs' = SubSeq(jobs, 1, n - 1)
    BY DEF Done
  <1>3. jobs' \in Seq(Job) /\ Len(jobs') = n - 1 /\ \A i \in 1 .. n - 1 : jobs'[i] = jobs[i]
    <2>1. \A i \in 1 .. n - 1 : jobs[i] \in Job
      BY <1>1
    <2> DEFINE m == n - 1
               front == SubSeq(jobs, 1, m)
    <2>2. m \in Nat /\ \A i \in 1 .. m : jobs[i] \in Job
      BY <1>1, <2>1
    <2> HIDE DEF m
    <2>3. /\ front \in Seq(Job) /\ Len(front) = IF 1 <= m THEN m - 1 + 1 ELSE 0
          /\ \A i \in 1 .. m - 1 + 1 : front[i] = jobs[1 + i - 1]
      BY <2>2, SubSeqProperties
    <2> HIDE DEF front
    <2>4. Len(front) = m
      BY <2>2, <2>3
    <2>5. ASSUME NEW i \in 1 .. m
          PROVE  front[i] = jobs[i]
      <3>1. i \in 1 .. m - 1 + 1 /\ 1 + i - 1 = i
        BY <2>2
      <3> QED
        BY <2>3, <3>1
    <2>6. jobs' = front
      BY <1>2 DEF front, m
    <2> QED
      BY <2>3, <2>4, <2>5, <2>6 DEF m
  <1>4. \A i \in 1 .. n - 1 : jobs'[i] = jobs[i]
    BY <1>3
  <1>5. Running' => Top'.stage \in CallingBack
    <2> SUFFICES ASSUME jobs' # <<>> PROVE jobs'[n - 1].stage \in CallingBack
      BY <1>3 DEF Running, Top
    <2>1. n - 1 \in 1 .. n - 1
      BY <1>1, <1>3
    <2> QED
      BY <1>4, <2>1 DEF StackInv
  <1>6. /\ \A i \in 1 .. Len(jobs') :
             jobs'[i].stage \in TurnStages => jobs'[i].frame.op.body \in Bodies
        /\ \A i \in 1 .. Len(jobs') - 1 : jobs'[i].stage \in CallingBack
    BY <1>1, <1>3, <1>4 DEF StackInv
  <1>7. Top.stage # "notifying" => (Notifying => Notifying')
    BY <1>1, <1>3, <1>4 DEF Notifying, Top
  <1> QED
    BY <1>3, <1>5, <1>6, <1>7 DEF StackInv
-----------------------------------------------------------------------------
(* The runtime's types.                                                    *)

\* A sequence made longer is a sequence, and not empty.
LEMMA AppendType ==
    ASSUME NEW s \in Seq(Op), NEW x \in Op
    PROVE  Append(s, x) \in Seq(Op) /\ Append(s, x) # <<>>
  <1>1. Append(s, x) \in Seq(Op)
    OBVIOUS
  <1>2. Len(Append(s, x)) = Len(s) + 1 /\ Len(s) \in Nat
    OBVIOUS
  <1>3. Len(Append(s, x)) # 0
    BY <1>2
  <1>4. Len(<<>>) = 0
    OBVIOUS
  <1> DEFINE longer == Append(s, x)
  <1> HIDE DEF longer
  <1>5. longer # <<>>
    BY <1>3, <1>4 DEF longer
  <1> QED
    BY <1>1, <1>5 DEF longer

\* The tip after a frame.
LEMMA NextTipType ==
    ASSUME NEW f \in Frame
    PROVE  /\ NextTip(f) \in Tip
           /\ NextTip(f).genesis = f.parent.genesis
           /\ NextTip(f).ops = Append(f.parent.ops, f.op)
           /\ NextTip(f).ops # <<>>
  <1> DEFINE ops1 == Append(f.parent.ops, f.op)
  <1>1. f.parent \in Tip /\ f.parent.ops \in Seq(Op) /\ f.op \in Op
    BY DEF Frame, Tip
  <1>2. ops1 \in Seq(Op) /\ ops1 # <<>>
    BY <1>1, AppendType
  <1> HIDE DEF ops1
  <1>3. NextTip(f) = [f.parent EXCEPT !.ops = ops1]
    BY DEF NextTip, ops1
  <1>4. /\ NextTip(f) \in Tip
        /\ NextTip(f).genesis = f.parent.genesis /\ NextTip(f).ops = ops1
    BY <1>1, <1>2, <1>3 DEF Tip
  <1> QED
    BY <1>2, <1>4 DEF ops1

\* Two sequences made longer agree only if they agreed.
LEMMA AppendTells ==
    ASSUME NEW s \in Seq(Op), NEW t \in Seq(Op), NEW x \in Op, NEW y \in Op,
           Append(s, x) = Append(t, y)
    PROVE  s = t /\ x = y
  <1>1. Len(s) = Len(t)
    <2>1. Len(Append(s, x)) = Len(s) + 1 /\ Len(Append(t, y)) = Len(t) + 1
      OBVIOUS
    <2> QED
      BY <2>1
  <1>2. x = y
    <2>1. Append(s, x)[Len(s) + 1] = x /\ Append(t, y)[Len(t) + 1] = y
      OBVIOUS
    <2> QED
      BY <1>1, <2>1
  <1>3. ASSUME NEW i \in 1 .. Len(s)
        PROVE  s[i] = t[i]
    <2>1. Append(s, x)[i] = s[i] /\ Append(t, y)[i] = t[i]
      BY <1>1
    <2> QED
      BY <2>1
  <1> QED
    BY <1>1, <1>2, <1>3

\* A tip is reached by one frame only: it commits to all that came before.
LEMMA NextTipInjective ==
    ASSUME NEW f \in Frame, NEW g \in Frame, NextTip(f) = NextTip(g)
    PROVE  f = g
  <1>1. /\ f.parent.genesis = g.parent.genesis
        /\ Append(f.parent.ops, f.op) = Append(g.parent.ops, g.op)
    BY NextTipType
  <1>2. f.parent.ops \in Seq(Op) /\ g.parent.ops \in Seq(Op) /\ f.op \in Op /\ g.op \in Op
    BY DEF Frame, Tip
  <1> DEFINE s == f.parent.ops
             t == g.parent.ops
  <1> HIDE DEF s, t
  <1>3. s \in Seq(Op) /\ t \in Seq(Op) /\ Append(s, f.op) = Append(t, g.op)
    BY <1>1, <1>2 DEF s, t
  <1>4. s = t /\ f.op = g.op
    BY <1>2, <1>3, AppendTells
  <1> QED
    BY <1>1, <1>4 DEF Frame, Tip, s, t
-----------------------------------------------------------------------------
MuxTypes == TypeOK /\ StackInv

\* A step of the coordinator keeps its types.
LEMMA CoordTypes ==
    ASSUME TypeOK, SettledLeavesNothing, CoordNext \/ UNCHANGED coordVars
    PROVE  CoordTypeOK'
  BY CoordKeeps DEF CoordInv, TypeOK

\* The innermost job of a turn is about a session and a body.
LEMMA OfferedBody ==
    ASSUME MuxTypes, Running, Top.stage \in TurnStages
    PROVE  Top.sid \in Sessions /\ Top.frame.op.body \in Bodies
  BY TopJob DEF MuxTypes, Job

\* Each step of the runtime is one of its coordinators', or none.
LEMMA MuxStepIsCoordStep ==
    ASSUME MuxTypes, [Next]_vars
    PROVE  CoordNext \/ UNCHANGED coordVars
  <1>1. CASE Host
    BY <1>1 DEF Host, OpenInit, CloseOpener, Terminate, SendTurn, CoordNext, coordVars
  <1>2. CASE Peer
    <2>1. ASSUME NEW e \in table, ReceiveTerminate(e)
          PROVE  CoordNext \/ UNCHANGED coordVars
      BY <2>1 DEF ReceiveTerminate, CoordNext, MuxTypes, TypeOK, coordVars
    <2> QED
      BY <1>2, <2>1 DEF Peer, ReceiveInit, ReceiveTurn, ChannelLost, TooManyErrors, coordVars
  <1>3. CASE Progress
    <2>1. ASSUME Offered
          PROVE  CoordNext \/ UNCHANGED coordVars
      <3>1. Top.sid \in Sessions /\ Top.frame.op.body \in Bodies
        BY <2>1, OfferedBody DEF Offered, At, TurnStages
      <3> QED
        BY <2>1, <3>1 DEF Offered, CoordNext, coordVars
    <2>2. ASSUME \/ \E o \in opening : InitWritten(o) \/ InitRefused(o) \/ PlanReady(o)
                 \/ StartReading \/ Answered \/ Announced \/ Notified \/ Greeted
          PROVE  CoordNext \/ UNCHANGED coordVars
      BY <2>2 DEF InitWritten, InitRefused, PlanReady, StartReading, Answered, Announced,
                  Notified, Greeted, coordVars
    <2>3. ASSUME Applied \/ Sent \/ Terminated \/ GivenUp \/ CallbackThrows
          PROVE  CoordNext \/ UNCHANGED coordVars
      BY <2>3 DEF Applied, Sent, GivenUp, CallbackThrows, Terminated, coordVars
    <2> QED
      BY <1>3, <2>1, <2>2, <2>3 DEF Progress
  <1> QED
    BY <1>1, <1>2, <1>3 DEF Next, vars
-----------------------------------------------------------------------------
\* Register puts a chain at its genesis.
LEMMA RegisterTypes ==
    ASSUME TypeOK, NEW i \in Inits, NEW hooks \in BOOLEAN, Register(i, hooks)
    PROVE  /\ template' \subseteq Inits
           /\ open' \subseteq Sessions /\ hooked' \subseteq open'
           /\ tip' \in [Sessions -> Tip \cup {NoTip}]
           /\ \A s \in open' : tip'[s] \in Tip
           /\ table' \subseteq [tip : Tip, sid : Sessions]
  <1> DEFINE start == [genesis |-> i.genesis, ops |-> <<>>]
  <1>1. start \in Tip /\ i.sid \in Sessions
    BY InitAssumption DEF Tip, Genesis
  <1>2. /\ template' = IF template = {} THEN {i} ELSE template
        /\ open' = open \cup {i.sid}
        /\ tip' = [tip EXCEPT ![i.sid] = start]
        /\ hooked' = hooked \cup (IF hooks THEN {i.sid} ELSE {})
        /\ table' = {e \in table : e.tip # start} \cup {[tip |-> start, sid |-> i.sid]}
    BY DEF Register
  <1> HIDE DEF start
  <1> QED
    BY <1>1, <1>2 DEF TypeOK

\* MoveTip puts an open chain at the frame's tip.
LEMMA MoveTipTypes ==
    ASSUME TypeOK, NEW s \in Sessions, NEW f \in Frame, MoveTip(s, f)
    PROVE  /\ tip' \in [Sessions -> Tip \cup {NoTip}]
           /\ \A r \in open : tip'[r] \in Tip
           /\ table' \subseteq [tip : Tip, sid : Sessions]
  <1>1. NextTip(f) \in Tip
    BY NextTipType
  <1> QED
    BY <1>1 DEF TypeOK, MoveTip

\* destroyChain forgets the chain.
LEMMA DestroyTypes ==
    ASSUME TypeOK, NEW s \in Sessions, Destroy(s), TipsForgotten(s)
    PROVE  /\ open' \subseteq Sessions /\ hooked' \subseteq open'
           /\ tip' \in [Sessions -> Tip \cup {NoTip}] /\ log' \in [Sessions -> Seq(Op)]
           /\ \A r \in open' : tip'[r] \in Tip
           /\ table' \subseteq [tip : Tip, sid : Sessions]
  BY DEF TypeOK, Destroy, TipsForgotten

\* Closing the channel at the end of a chain keeps its types.
LEMMA EndedTypes ==
    ASSUME TypeOK, NEW chains, ChainEnded(chains)
    PROVE  dead' \in BOOLEAN /\ closed' \in BOOLEAN /\ (dead' => closed')
  BY DEF TypeOK, ChainEnded, CloseIf

\* What is left at the top of the stack when the end of a chain is dealt with.
Quiet == CallingBack \cup {"advancing"}

\* What follows a chain's end keeps the types of what it touches.
LEMMA AdvanceTypes ==
    ASSUME MuxTypes, Running, NEW chains, Advance(chains)
    PROVE  /\ through' \in Int /\ through' >= -1
           /\ opening' \subseteq [init : Inits, by : {"host", "run", "plan", "ready", "job"}]
           /\ StackInv' /\ (Running' => Top'.stage \in Quiet)
           /\ dead' \in BOOLEAN /\ closed' \in BOOLEAN /\ broken' \in BOOLEAN
           /\ dead' => closed'
  <1> DEFINE next == through + 1
             more == mode.role = "plans" /\ next < Len(mode.plans)
             plan == mode.plans[next + 1]
  <1>1. through' = IF mode.role = "plans" THEN next ELSE through
    BY DEF Advance
  <1>2. through' \in Int /\ through' >= -1
    BY <1>1 DEF MuxTypes, TypeOK
  <1>3. Becomes("advancing") => StackInv' /\ Top'.stage \in Quiet
    BY BecomesKeeps DEF MuxTypes, TurnStages, Quiet
  <1>4. Done => StackInv' /\ (Running' => Top'.stage \in Quiet)
    BY DoneKeeps DEF MuxTypes, Quiet
  <1>5. CASE /\ more /\ plan \in template
             /\ opening' = opening \cup
                   {[init |-> plan, by |-> IF Awaited THEN "job" ELSE "plan"]}
             /\ IF Awaited THEN Becomes("advancing") ELSE Done
             /\ UNCHANGED <<dead, closed, broken>>
    <2>1. plan \in Inits
      BY <1>5 DEF MuxTypes, TypeOK
    <2>2. opening' \subseteq [init : Inits, by : {"host", "run", "plan", "ready", "job"}]
      BY <1>5, <2>1 DEF MuxTypes, TypeOK
    <2> QED
      BY <1>2, <1>3, <1>4, <1>5, <2>2 DEF MuxTypes, TypeOK
  <1>6. CASE /\ more /\ plan \notin template
             /\ broken' = TRUE
             /\ Done
             /\ UNCHANGED <<opening, dead, closed>>
    BY <1>2, <1>4, <1>6 DEF MuxTypes, TypeOK
  <1>7. CASE /\ ~more
             /\ ChainEnded(chains)
             /\ Done
             /\ UNCHANGED <<opening, broken>>
    BY <1>2, <1>4, <1>7, EndedTypes DEF MuxTypes, TypeOK
  <1> QED
    BY <1>5, <1>6, <1>7 DEF Advance
-----------------------------------------------------------------------------
\* A job of the host is well typed, and is about the tip it has read.
LEMMA StartTypes ==
    ASSUME MuxTypes, NEW s \in open, MayRun(s), NEW body \in Bodies \cup {Goodbye},
           NEW stage \in {"applying", "terminating", "repeating"},
           stage = "applying" => body \in Bodies, Start(s, stage, OwnFrame(s, body))
    PROVE  /\ StackInv' /\ Running' /\ Top'.stage = stage /\ Top'.sid = s
           /\ Top'.frame = OwnFrame(s, body) /\ Top'.turnSeq = Len(log[s])
           /\ Top'.frame.parent = tip[s]
           /\ Len(jobs') = Len(jobs) + 1 /\ (Notifying => Notifying')
  <1> DEFINE f == OwnFrame(s, body)
             new == [stage |-> stage, sid |-> s, frame |-> f, turnSeq |-> Len(log[s]),
                     inbound |-> FALSE, hooks |-> s \in hooked]
  <1>1. tip[s] \in Tip /\ s \in Sessions /\ Len(log[s]) \in Nat /\ StackInv
    BY DEF MuxTypes, TypeOK
  <1>2. f \in Frame /\ f.op.body = body /\ f.parent = tip[s]
    BY <1>1 DEF Frame, Op, OwnFrame
  <1> HIDE DEF f
  <1>3. /\ new \in Job /\ new.stage = stage /\ new.sid = s /\ new.frame = f
        /\ new.turnSeq = Len(log[s])
    BY <1>1, <1>2 DEF Job
  <1>4. Enter(new)
    BY DEF Start, f
  <1> HIDE DEF new
  <1>5. Running => Top.stage \in CallingBack
    BY DEF MayRun
  <1>6. new.stage \in TurnStages => new.frame.op.body \in Bodies
    BY <1>2, <1>3 DEF TurnStages
  <1>7. /\ StackInv' /\ Running' /\ Top' = new /\ Len(jobs') = Len(jobs) + 1
        /\ Notifying => Notifying'
    BY <1>1, <1>3, <1>4, <1>5, <1>6, EnterKeeps
  <1> QED
    BY <1>2, <1>3, <1>7 DEF f

\* A job of the read loop, alone on the stack.
LEMMA ReadTypes ==
    ASSUME MuxTypes, ~Running, NEW e \in table, NEW body \in Bodies \cup {Goodbye},
           NEW stage \in {"applying", "notifying"}, NEW hooks \in BOOLEAN,
           stage = "applying" => body \in Bodies,
           NEW f, f = [parent |-> e.tip, op |-> [by |-> "peer", body |-> body]],
           Enter([stage |-> stage, sid |-> e.sid, frame |-> f,
                  turnSeq |-> Len(log[e.sid]), inbound |-> TRUE, hooks |-> hooks])
    PROVE  /\ f \in Frame /\ e.sid \in Sessions
           /\ StackInv' /\ Running' /\ Top'.stage = stage /\ Top'.sid = e.sid
           /\ Top'.frame = f /\ Top'.turnSeq = Len(log[e.sid]) /\ Top'.frame.parent = e.tip
           /\ Len(jobs') = Len(jobs) + 1 /\ (stage = "notifying" => Notifying')
  <1> DEFINE new == [stage |-> stage, sid |-> e.sid, frame |-> f,
                     turnSeq |-> Len(log[e.sid]), inbound |-> TRUE, hooks |-> hooks]
  <1>1. e.sid \in Sessions /\ e.tip \in Tip /\ Len(log[e.sid]) \in Nat /\ StackInv
    BY DEF MuxTypes, TypeOK
  <1>2. f \in Frame /\ f.op.body = body /\ f.parent = e.tip
    BY <1>1 DEF Frame, Op
  <1>3. /\ new \in Job /\ new.stage = stage /\ new.sid = e.sid /\ new.frame = f
        /\ new.turnSeq = Len(log[e.sid])
    BY <1>1, <1>2 DEF Job
  <1>4. Enter(new)
    OBVIOUS
  <1> HIDE DEF new
  <1>5. new.stage \in TurnStages => new.frame.op.body \in Bodies
    BY <1>2, <1>3 DEF TurnStages
  <1>6. StackInv' /\ Running' /\ Top' = new /\ Len(jobs') = Len(jobs) + 1
    BY <1>1, <1>3, <1>4, <1>5, EnterKeeps
  <1>7. stage = "notifying" => Notifying'
    <2>1. Len(jobs') \in 1 .. Len(jobs')
      BY <1>1, <1>6 DEF StackInv
    <2> QED
      BY <1>3, <1>6, <2>1 DEF Notifying, Top
  <1> QED
    BY <1>1, <1>2, <1>3, <1>6, <1>7

\* What the host does keeps the types.
LEMMA HostTypes ==
    ASSUME MuxTypes, SettledLeavesNothing, Host
    PROVE  MuxTypes'
  <1>1. ASSUME NEW i \in Inits, OpenInit(i)
        PROVE  MuxTypes'
    BY <1>1 DEF OpenInit, MuxTypes, TypeOK, CoordTypeOK, StackInv, coordVars
  <1>2. CASE CloseOpener
    BY <1>2 DEF CloseOpener, CloseIf, MuxTypes, TypeOK, CoordTypeOK, StackInv, coordVars
  <1>3. ASSUME NEW s \in Sessions, Terminate(s)
        PROVE  MuxTypes'
    <2>1. StackInv'
      BY <1>3, StartTypes DEF Terminate
    <2> QED
      BY <1>3, <2>1 DEF Terminate, MuxTypes, TypeOK, CoordTypeOK, StackInv, coordVars
  <1>4. ASSUME NEW s \in Sessions, NEW body \in Bodies, SendTurn(s, body)
        PROVE  MuxTypes'
    <2>1. StackInv'
      BY <1>4, StartTypes DEF SendTurn
    <2> QED
      BY <1>4, <2>1 DEF SendTurn, MuxTypes, TypeOK, CoordTypeOK, StackInv, coordVars
  <1>5. CASE HostWaits /\ UNCHANGED muxVars
    <2>1. CoordTypeOK'
      BY <1>5, CoordTypes DEF MuxTypes, CoordNext
    <2> QED
      BY <1>5, <2>1 DEF MuxTypes, TypeOK, StackInv, muxVars
  <1> QED
    BY <1>1, <1>2, <1>3, <1>4, <1>5 DEF Host

\* What the peer does keeps the types.
LEMMA PeerTypes ==
    ASSUME MuxTypes, SettledLeavesNothing, Peer
    PROVE  MuxTypes'
  <1>1. ASSUME NEW i \in Inits, ReceiveInit(i)
        PROVE  MuxTypes'
    BY <1>1, RegisterTypes DEF ReceiveInit, MuxTypes, TypeOK, CoordTypeOK, StackInv, coordVars
  <1>2. ASSUME NEW e \in table, ReceiveTerminate(e)
        PROVE  MuxTypes'
    <2> DEFINE f == [parent |-> e.tip, op |-> [by |-> "peer", body |-> Goodbye]]
    <2>1. f \in Frame /\ e.sid \in Sessions /\ StackInv'
      <3>1. ~Running /\ (e.sid \in hooked) \in BOOLEAN /\ Goodbye \in Bodies \cup {Goodbye}
        BY <1>2 DEF ReceiveTerminate
      <3>2. Enter([stage |-> "notifying", sid |-> e.sid, frame |-> f,
                   turnSeq |-> Len(log[e.sid]), inbound |-> TRUE,
                   hooks |-> e.sid \in hooked])
        BY <1>2 DEF ReceiveTerminate
      <3> QED
        BY <3>1, <3>2, ReadTypes
    <2>2. seen' = seen \cup {f}
      BY <1>2 DEF ReceiveTerminate, Note
    <2>3. CoordTypeOK'
      BY <1>2, <2>1, CoordTypes DEF ReceiveTerminate, CoordNext, MuxTypes
    <2> HIDE DEF f
    <2> QED
      BY <1>2, <2>1, <2>2, <2>3, DestroyTypes
         DEF ReceiveTerminate, MuxTypes, TypeOK, StackInv
  <1>3. ASSUME NEW e \in table, NEW body \in Bodies, ReceiveTurn(e, body)
        PROVE  MuxTypes'
    <2> DEFINE f == [parent |-> e.tip, op |-> [by |-> "peer", body |-> body]]
    <2>1. StackInv'
      <3>1. ~Running /\ (e.sid \in hooked) \in BOOLEAN
        BY <1>3 DEF ReceiveTurn
      <3>2. Enter([stage |-> "applying", sid |-> e.sid, frame |-> f,
                   turnSeq |-> Len(log[e.sid]), inbound |-> TRUE,
                   hooks |-> e.sid \in hooked])
        BY <1>3 DEF ReceiveTurn
      <3> QED
        BY <3>1, <3>2, ReadTypes
    <2> HIDE DEF f
    <2> QED
      BY <1>3, <2>1 DEF ReceiveTurn, MuxTypes, TypeOK, CoordTypeOK, StackInv, coordVars
  <1>4. CASE ChannelLost \/ TooManyErrors
    BY <1>4 DEF ChannelLost, TooManyErrors, CloseIf, MuxTypes, TypeOK, CoordTypeOK, StackInv,
                coordVars
  <1> QED
    BY <1>1, <1>2, <1>3, <1>4 DEF Peer

\* What goes on by itself keeps the types.
LEMMA ProgressTypes ==
    ASSUME MuxTypes, SettledLeavesNothing, Progress,
           \A o \in opening : o.by = "job" => Running
    PROVE  MuxTypes'
  <1> USE DEF MuxTypes
  <1>1. ASSUME NEW o \in opening, InitWritten(o)
        PROVE  MuxTypes'
    <2>1. o.init \in Inits
      BY DEF TypeOK
    <2>2. StackInv'
      <3>1. CASE o.by = "job"
        BY <1>1, <3>1, BecomesKeeps DEF InitWritten, TurnStages
      <3>2. CASE o.by # "job"
        BY <1>1, <3>2 DEF InitWritten, StackInv
      <3> QED
        BY <3>1, <3>2
    <2>3. opening' \subseteq [init : Inits, by : {"host", "run", "plan", "ready", "job"}]
      BY <1>1, <2>1 DEF InitWritten, TypeOK
    <2> QED
      BY <1>1, <2>1, <2>2, <2>3, RegisterTypes
         DEF InitWritten, TypeOK, CoordTypeOK, StackInv, coordVars
  <1>2. ASSUME NEW o \in opening, InitRefused(o)
        PROVE  MuxTypes'
    <2>1. StackInv'
      <3>1. CASE o.by = "job"
        BY <1>2, <3>1, DoneKeeps DEF InitRefused
      <3>2. CASE o.by # "job"
        BY <1>2, <3>2 DEF InitRefused, StackInv
      <3> QED
        BY <3>1, <3>2
    <2> QED
      BY <1>2, <2>1 DEF InitRefused, TypeOK, CoordTypeOK, StackInv, coordVars
  <1>3. ASSUME NEW o \in opening, PlanReady(o)
        PROVE  MuxTypes'
    <2>1. dead' \in BOOLEAN /\ closed' \in BOOLEAN /\ (dead' => closed')
      <3>1. CASE ChainEnded(open)
        BY <3>1, EndedTypes
      <3>2. CASE UNCHANGED <<dead, closed>>
        BY <3>2 DEF TypeOK
      <3> QED
        BY <1>3, <3>1, <3>2 DEF PlanReady
    <2>2. broken' \in BOOLEAN
      BY <1>3 DEF PlanReady, TypeOK
    <2>3. opening' \subseteq opening
      BY <1>3 DEF PlanReady
    <2>4. UNCHANGED <<coordVars, mode, template, open, tip, log, hooked, table, seen, jobs,
                      openerDone, through, reading>>
      BY <1>3 DEF PlanReady
    <2> QED
      BY <2>1, <2>2, <2>3, <2>4 DEF TypeOK, CoordTypeOK, StackInv, coordVars
  <1>4. CASE StartReading
    BY <1>4 DEF StartReading, TypeOK, CoordTypeOK, StackInv, coordVars
  <1>5. CASE Applied
    <2>1. /\ Running /\ Top \in Job /\ Top.sid \in Sessions /\ Top.frame \in Frame
          /\ Top.frame.op \in Op /\ Top.frame.op.body \in Bodies
      BY <1>5, TopJob DEF Applied, At, Job, Frame, TurnStages
    <2>2. seen' \subseteq Frame
      BY <1>5, <2>1 DEF Applied, Note, TypeOK
    <2>3. log' \in [Sessions -> Seq(Op)]
      BY <1>5, <2>1 DEF Applied, TypeOK
    <2>4. /\ tip' \in [Sessions -> Tip \cup {NoTip}]
          /\ \A r \in open : tip'[r] \in Tip
          /\ table' \subseteq [tip : Tip, sid : Sessions]
      BY <1>5, <2>1, MoveTipTypes DEF Applied, TypeOK
    <2>5. StackInv'
      BY <1>5, <2>1, BecomesKeeps DEF Applied
    <2> QED
      BY <1>5, <2>2, <2>3, <2>4, <2>5 DEF Applied, TypeOK, CoordTypeOK, StackInv, coordVars
  <1>6. CASE Sent
    <2>1. Running /\ Top.sid \in Sessions /\ Top.frame \in Frame /\ Top.frame.op.body \in Bodies
      BY <1>6, TopJob DEF Sent, At, Job, TurnStages
    <2>2. StackInv'
      BY <1>6, <2>1, BecomesKeeps DEF Sent
    <2> QED
      BY <1>6, <2>1, <2>2, MoveTipTypes DEF Sent, TypeOK, CoordTypeOK, StackInv, coordVars
  <1>7. CASE GivenUp \/ CallbackThrows \/ Answered \/ Announced
    <2>1. Running /\ Done /\ broken' \in BOOLEAN
      BY <1>7 DEF GivenUp, CallbackThrows, Answered, Announced, At, TypeOK
    <2>2. StackInv'
      BY <2>1, DoneKeeps
    <2>3. UNCHANGED <<coordVars, mode, template, open, tip, log, hooked, table, seen,
                      opening, openerDone, through, reading, dead, closed>>
      BY <1>7 DEF GivenUp, CallbackThrows, Answered, Announced
    <2> QED
      BY <2>1, <2>2, <2>3 DEF TypeOK, CoordTypeOK, StackInv, coordVars
  <1>8. CASE Offered
    <2>1. CoordTypeOK'
      <3>1. [Next]_vars
        BY <1>8 DEF Next, Progress
      <3> QED
        BY <3>1, MuxStepIsCoordStep, CoordTypes
    <2>2. Running /\ Top.frame.op.body \in Bodies
      BY <1>8, TopJob DEF Offered, At, TurnStages
    <2>3. StackInv'
      BY <1>8, <2>2, BecomesKeeps, DoneKeeps DEF Offered
    <2>4. broken' \in BOOLEAN
      BY <1>8 DEF Offered, TypeOK
    <2> QED
      BY <1>8, <2>1, <2>3, <2>4 DEF Offered, TypeOK, StackInv
  <1>9. CASE Terminated
    <2>1. Running /\ Top.sid \in Sessions /\ Top.frame \in Frame
      BY <1>9, TopJob DEF Terminated, At, Job
    <2>2. seen' \subseteq Frame
      BY <1>9, <2>1 DEF Terminated, Note, TypeOK
    <2> QED
      BY <1>9, <2>1, <2>2, DestroyTypes, AdvanceTypes
         DEF Terminated, TypeOK, CoordTypeOK, StackInv, coordVars
  <1>10. CASE Notified
    <2>1. Running
      BY <1>10 DEF Notified, At
    <2> QED
      BY <1>10, <2>1, AdvanceTypes DEF Notified, TypeOK, CoordTypeOK, StackInv, coordVars
  <1>11. CASE Greeted
    <2>1. StackInv'
      BY <1>11, DoneKeeps DEF Greeted, At
    <2> QED
      BY <1>11, <2>1, EndedTypes DEF Greeted, TypeOK, CoordTypeOK, StackInv, coordVars
  <1> QED
    BY <1>1, <1>2, <1>3, <1>4, <1>5, <1>6, <1>7, <1>8, <1>9, <1>10, <1>11 DEF Progress
-----------------------------------------------------------------------------
(* The chains and what runs under the mutex.                               *)

\* What the innermost job captured still holds, and what it writes is new.
TopTrue ==
    Running =>
        /\ Top.stage \in {"applying", "sending", "terminating", "repeating"} =>
            Top.sid \in open /\ Top.frame.parent = tip[Top.sid]
        /\ Top.stage = "applying" => Top.turnSeq = Len(log[Top.sid]) /\ Top.frame \notin seen
        /\ Top.stage = "sending" =>
            Top.frame \in seen /\ \A s \in open : tip[s] # NextTip(Top.frame)

\* A chain past its genesis got there by a frame that was noted.
TipsNoted ==
    \A s \in open : tip[s].ops # <<>> => \E f \in seen : tip[s] = NextTip(f)

\* A job awaits the init of at most one plan.
PlanAwaited ==
    \A o \in opening : o.by = "job" =>
        At("advancing") /\ \A p \in opening : p.by = "job" => p = o

ChainInv == TopTrue /\ TipsNoted /\ RoutingIsExact

\* Nothing but a job changes, to one about an open chain's tip.
LEMMA JobBegins ==
    ASSUME ChainInv, UNCHANGED <<open, tip, log, table, seen>>, Running',
           Top'.stage \in {"applying", "terminating", "repeating"}, Top'.sid \in open,
           Top'.frame.parent = tip[Top'.sid],
           Top'.stage = "applying" => Top'.turnSeq = Len(log[Top'.sid]) /\ Top'.frame \notin seen
    PROVE  ChainInv'
  <1>1. TopTrue'
    BY DEF TopTrue
  <1> QED
    BY <1>1 DEF ChainInv, TipsNoted, RoutingIsExact

\* Nothing changes but the stack, at whose top a callback or a plan is awaited.
LEMMA JobsQuiet ==
    ASSUME ChainInv, UNCHANGED <<open, tip, log, table, seen>>,
           jobs' = jobs \/ (Running' => Top'.stage \in Quiet)
    PROVE  ChainInv'
  <1>1. TopTrue'
    BY DEF ChainInv, TopTrue, Quiet, CallingBack, Running, Top
  <1> QED
    BY <1>1 DEF ChainInv, TipsNoted, RoutingIsExact

\* A chain is opened at a genesis that no tip holds.
LEMMA RegisterKeeps ==
    ASSUME MuxTypes, ChainInv, NEW i \in Inits, NEW hooks \in BOOLEAN, Registrable(i),
           Register(i, hooks), UNCHANGED <<log, seen>>,
           jobs' = jobs \/ (Running' => Top'.stage \in Quiet)
    PROVE  ChainInv'
  <1> DEFINE start == [genesis |-> i.genesis, ops |-> <<>>]
  <1>1. /\ open' = open \cup {i.sid} /\ i.sid \notin open /\ i.sid \in Sessions
        /\ tip' = [tip EXCEPT ![i.sid] = start]
        /\ table' = {e \in table : e.tip # start} \cup {[tip |-> start, sid |-> i.sid]}
        /\ \A e \in table : e.tip # start
    BY InitAssumption DEF Register, Registrable, Taken
  <1>2. \A s \in open : tip'[s] = tip[s] /\ s # i.sid
    BY <1>1 DEF MuxTypes, TypeOK
  <1>3. tip'[i.sid] = start /\ start.ops = <<>>
    BY <1>1 DEF MuxTypes, TypeOK
  <1>4. \A f \in Frame : NextTip(f) # start
    BY <1>3, NextTipType
  <1> HIDE DEF start
  <1>5. \A s \in open : tip[s] # start
    <2> SUFFICES ASSUME NEW s \in open PROVE tip[s] # start
      OBVIOUS
    <2> DEFINE e == [tip |-> tip[s], sid |-> s]
    <2>1. e \in table
      BY DEF ChainInv, RoutingIsExact
    <2>2. e.tip = tip[s]
      OBVIOUS
    <2> QED
      BY <2>1, <2>2, <1>1
  <1>6. TopTrue'
    <2>1. CASE Running' => Top'.stage \in Quiet
      BY <2>1 DEF TopTrue, Quiet, CallingBack
    <2>2. CASE jobs' = jobs /\ Running
      <3>1. Top \in Job /\ Top.frame \in Frame
        BY <2>2, TopJob DEF MuxTypes, Job
      <3>2. Top' = Top /\ Running'
        BY <2>2 DEF Top, Running
      <3> DEFINE j == Top
      <3>3. /\ j.stage \in {"applying", "sending", "terminating", "repeating"} =>
                j.sid \in open' /\ j.frame.parent = tip'[j.sid]
            /\ j.stage = "applying" =>
                j.turnSeq = Len(log'[j.sid]) /\ j.frame \notin seen'
        BY <1>1, <1>2, <2>2 DEF ChainInv, TopTrue
      <3>4. j.stage = "sending" =>
                j.frame \in seen' /\ \A s \in open' : tip'[s] # NextTip(j.frame)
        BY <1>1, <1>2, <1>3, <1>4, <2>2, <3>1 DEF ChainInv, TopTrue
      <3> QED
        BY <3>2, <3>3, <3>4 DEF TopTrue
    <2>3. CASE jobs' = jobs /\ ~Running
      BY <2>3 DEF TopTrue, Running
    <2> QED
      BY <2>1, <2>2, <2>3
  <1>7. TipsNoted'
    BY <1>1, <1>2, <1>3 DEF ChainInv, TipsNoted
  <1>8. RoutingIsExact'
    <2>1. table' = {[tip |-> tip'[s], sid |-> s] : s \in open'}
      BY <1>1, <1>2, <1>3 DEF ChainInv, RoutingIsExact
    <2>2. \A s, r \in open' : tip'[s] = tip'[r] => s = r
      BY <1>1, <1>2, <1>3, <1>5 DEF ChainInv, RoutingIsExact
    <2> QED
      BY <2>1, <2>2 DEF RoutingIsExact
  <1> QED
    BY <1>6, <1>7, <1>8 DEF ChainInv

\* The tip of an open chain moves along a frame that leads to no tip.
LEMMA MoveTipKeeps ==
    ASSUME MuxTypes, ChainInv, NEW c \in open, NEW f, f.parent = tip[c],
           \A s \in open : tip[s] # NextTip(f), MoveTip(c, f),
           UNCHANGED open, seen' = seen \cup {f}, Running' => Top'.stage \in Quiet
    PROVE  ChainInv'
  <1> DEFINE n == NextTip(f)
  <1>1. /\ tip' = [tip EXCEPT ![c] = n]
        /\ table' = {e \in table : e.tip \notin {tip[c], n}} \cup {[tip |-> n, sid |-> c]}
    BY DEF MoveTip
  <1>2. /\ tip'[c] = n
        /\ \A s \in open : s # c => tip'[s] = tip[s] /\ tip[s] # tip[c]
    BY <1>1 DEF MuxTypes, TypeOK, ChainInv, RoutingIsExact
  <1>3. TopTrue'
    BY DEF TopTrue, Quiet, CallingBack
  <1>4. TipsNoted'
    BY <1>2 DEF ChainInv, TipsNoted
  <1>5. \A s \in open : tip[s] # n
    OBVIOUS
  <1> HIDE DEF n
  <1>6. RoutingIsExact'
    <2>1. table = {[tip |-> tip[s], sid |-> s] : s \in open}
      BY DEF ChainInv, RoutingIsExact
    <2>2. {e \in table : e.tip \notin {tip[c], n}}
            = {[tip |-> tip[s], sid |-> s] : s \in open \ {c}}
      BY <2>1, <1>2, <1>5
    <2>3. table' = {[tip |-> tip'[s], sid |-> s] : s \in open'}
      BY <2>2, <1>1, <1>2
    <2>4. \A s, r \in open' : tip'[s] = tip'[r] => s = r
      BY <1>2, <1>5 DEF ChainInv, RoutingIsExact
    <2> QED
      BY <2>3, <2>4 DEF RoutingIsExact
  <1> QED
    BY <1>3, <1>4, <1>6 DEF ChainInv

\* A chain ends, and what is left of the stack claims nothing about it.
LEMMA DestroyKeeps ==
    ASSUME MuxTypes, ChainInv, NEW s \in Sessions, Destroy(s), TipsForgotten(s),
           seen \subseteq seen', Running' => Top'.stage \in Quiet
    PROVE  ChainInv'
  <1>1. /\ open' = open \ {s}
        /\ tip' = [tip EXCEPT ![s] = NoTip]
        /\ table' = {e \in table : e.sid # s}
    BY DEF Destroy, TipsForgotten
  <1>2. \A r \in open' : tip'[r] = tip[r] /\ r # s /\ r \in open
    BY <1>1 DEF MuxTypes, TypeOK
  <1>3. TopTrue'
    BY DEF TopTrue, Quiet, CallingBack
  <1>4. TipsNoted'
    BY <1>2 DEF ChainInv, TipsNoted
  <1>5. RoutingIsExact'
    <2>1. table' = {[tip |-> tip[r], sid |-> r] : r \in open \ {s}}
      BY <1>1 DEF ChainInv, RoutingIsExact
    <2>2. table' = {[tip |-> tip'[r], sid |-> r] : r \in open'}
      BY <2>1, <1>1, <1>2
    <2>3. \A q, r \in open' : tip'[q] = tip'[r] => q = r
      BY <1>2 DEF ChainInv, RoutingIsExact
    <2> QED
      BY <2>2, <2>3 DEF RoutingIsExact
  <1> QED
    BY <1>3, <1>4, <1>5 DEF ChainInv

\* Chains, tips and jobs agree after every step of the host.
LEMMA HostKeepsChains ==
    ASSUME MuxTypes, ChainInv, Host
    PROVE  ChainInv'
  <1>1. ASSUME NEW s \in Sessions, Terminate(s)
        PROVE  ChainInv'
    <2>1. \E stage \in {"terminating", "repeating"} : Start(s, stage, OwnFrame(s, Goodbye))
      BY <1>1 DEF Terminate
    <2>2. s \in open /\ MayRun(s)
      BY <1>1 DEF Terminate
    <2>3. /\ Running' /\ Top'.stage \in {"terminating", "repeating"} /\ Top'.sid = s
          /\ Top'.frame.parent = tip[s]
      BY <2>1, <2>2, StartTypes
    <2> QED
      BY <1>1, <2>2, <2>3, JobBegins DEF Terminate
  <1>2. ASSUME NEW s \in Sessions, NEW body \in Bodies, SendTurn(s, body)
        PROVE  ChainInv'
    <2>1. s \in open /\ MayRun(s) /\ OwnFrame(s, body) \notin seen
      BY <1>2 DEF SendTurn
    <2>2. /\ Running' /\ Top'.stage = "applying" /\ Top'.sid = s
          /\ Top'.frame.parent = tip[s] /\ Top'.frame = OwnFrame(s, body)
          /\ Top'.turnSeq = Len(log[s])
      BY <1>2, <2>1, StartTypes DEF SendTurn
    <2> QED
      BY <1>2, <2>1, <2>2, JobBegins DEF SendTurn
  <1>3. ASSUME NEW i \in Inits, OpenInit(i)
        PROVE  ChainInv'
    BY <1>3, JobsQuiet DEF OpenInit
  <1>4. CASE CloseOpener
    BY <1>4, JobsQuiet DEF CloseOpener
  <1>5. CASE UNCHANGED muxVars
    BY <1>5, JobsQuiet DEF muxVars
  <1> QED
    BY <1>1, <1>2, <1>3, <1>4, <1>5 DEF Host

\* Chains, tips and jobs agree after every step of the peer.
LEMMA PeerKeepsChains ==
    ASSUME MuxTypes, ChainInv, Peer
    PROVE  ChainInv'
  <1>1. ASSUME NEW i \in Inits, ReceiveInit(i)
        PROVE  ChainInv'
    BY <1>1, RegisterKeeps DEF ReceiveInit
  <1>2. ASSUME NEW e \in table, ReceiveTerminate(e)
        PROVE  ChainInv'
    <2>1. e.sid \in Sessions /\ seen \subseteq seen'
      BY <1>2 DEF ReceiveTerminate, Note, MuxTypes, TypeOK
    <2>2. Running' /\ Top'.stage = "notifying"
      <3> DEFINE f == [parent |-> e.tip, op |-> [by |-> "peer", body |-> Goodbye]]
      <3>1. ~Running /\ (e.sid \in hooked) \in BOOLEAN /\ Goodbye \in Bodies \cup {Goodbye}
        BY <1>2 DEF ReceiveTerminate
      <3>2. Enter([stage |-> "notifying", sid |-> e.sid, frame |-> f,
                   turnSeq |-> Len(log[e.sid]), inbound |-> TRUE,
                   hooks |-> e.sid \in hooked])
        BY <1>2 DEF ReceiveTerminate
      <3> QED
        BY <3>1, <3>2, ReadTypes
    <2> QED
      BY <1>2, <2>1, <2>2, DestroyKeeps DEF ReceiveTerminate, Quiet, CallingBack
  <1>3. ASSUME NEW e \in table, NEW body \in Bodies, ReceiveTurn(e, body)
        PROVE  ChainInv'
    <2> DEFINE f == [parent |-> e.tip, op |-> [by |-> "peer", body |-> body]]
    <2>1. f \notin seen /\ tip[e.sid] = e.tip /\ e.sid \in open
      BY <1>3 DEF ReceiveTurn
    <2>2. /\ Running' /\ Top'.stage = "applying" /\ Top'.sid = e.sid /\ Top'.frame = f
          /\ Top'.frame.parent = e.tip /\ Top'.turnSeq = Len(log[e.sid])
      <3>1. ~Running /\ (e.sid \in hooked) \in BOOLEAN
        BY <1>3 DEF ReceiveTurn
      <3>2. Enter([stage |-> "applying", sid |-> e.sid, frame |-> f,
                   turnSeq |-> Len(log[e.sid]), inbound |-> TRUE,
                   hooks |-> e.sid \in hooked])
        BY <1>3 DEF ReceiveTurn
      <3>3. f = [parent |-> e.tip, op |-> [by |-> "peer", body |-> body]]
        OBVIOUS
      <3>4. body \in Bodies \cup {Goodbye} /\ "applying" \in {"applying", "notifying"}
        OBVIOUS
      <3> HIDE DEF f
      <3> QED
        BY <3>1, <3>2, <3>3, <3>4, ReadTypes
    <2> HIDE DEF f
    <2> QED
      BY <1>3, <2>1, <2>2, JobBegins DEF ReceiveTurn
  <1>4. CASE ChannelLost \/ TooManyErrors
    BY <1>4, JobsQuiet DEF ChannelLost, TooManyErrors
  <1> QED
    BY <1>1, <1>2, <1>3, <1>4 DEF Peer

\* Chains, tips and jobs agree after every step that goes on by itself.
LEMMA ProgressKeepsChains ==
    ASSUME MuxTypes, ChainInv, PlanAwaited, Progress
    PROVE  ChainInv'
  <1>1. ASSUME NEW o \in opening, InitWritten(o)
        PROVE  ChainInv'
    <2>1. o.init \in Inits /\ (o.by = "host") \in BOOLEAN
      BY DEF MuxTypes, TypeOK
    <2>2. jobs' = jobs \/ (Running' => Top'.stage \in Quiet)
      <3>1. CASE o.by = "job"
        BY <1>1, <3>1, BecomesKeeps
           DEF InitWritten, MuxTypes, PlanAwaited, At, TurnStages, Quiet, CallingBack
      <3>2. CASE o.by # "job"
        BY <1>1, <3>2 DEF InitWritten
      <3> QED
        BY <3>1, <3>2
    <2> QED
      BY <1>1, <2>1, <2>2, RegisterKeeps DEF InitWritten
  <1>2. ASSUME NEW o \in opening, InitRefused(o)
        PROVE  ChainInv'
    <2>1. jobs' = jobs \/ (Running' => Top'.stage \in Quiet)
      BY <1>2, DoneKeeps DEF InitRefused, MuxTypes, PlanAwaited, At, Quiet
    <2> QED
      BY <1>2, <2>1, JobsQuiet DEF InitRefused
  <1>3. ASSUME NEW o \in opening, PlanReady(o)
        PROVE  ChainInv'
    BY <1>3, JobsQuiet DEF PlanReady
  <1>4. CASE StartReading
    BY <1>4, JobsQuiet DEF StartReading
  <1>5. CASE Applied
    <2> DEFINE f == Top.frame
    <2>1. /\ Running /\ StackInv /\ Top \in Job /\ f \in Frame /\ f.op.body \in Bodies
          /\ Top.sid \in open /\ f.parent = tip[Top.sid] /\ f \notin seen
      BY <1>5, TopJob DEF Applied, At, MuxTypes, Job, ChainInv, TopTrue, TurnStages
    <2>2. \A s \in open : tip[s] # NextTip(f)
      <3> SUFFICES ASSUME NEW s \in open, tip[s] = NextTip(f) PROVE FALSE
        OBVIOUS
      <3>1. tip[s].ops # <<>>
        BY <2>1, NextTipType
      <3>2. PICK g \in seen : tip[s] = NextTip(g)
        BY <3>1 DEF ChainInv, TipsNoted
      <3>3. g \in Frame
        BY DEF MuxTypes, TypeOK
      <3> QED
        BY <2>1, <3>2, <3>3, NextTipInjective
    <2>3. seen' = seen \cup {f} /\ open' = open
      BY <1>5 DEF Applied, Note
    <2>4. CASE f.op.by = "me"
      <3>1. Becomes("sending") /\ UNCHANGED <<tip, table>>
        BY <1>5, <2>4 DEF Applied
      <3>2. Running' /\ Top'.stage = "sending" /\ Top'.sid = Top.sid /\ Top'.frame = f
        BY <2>1, <3>1, BecomesKeeps
      <3>3. TopTrue'
        BY <2>1, <2>2, <2>3, <3>1, <3>2 DEF TopTrue
      <3> QED
        BY <2>3, <3>1, <3>3 DEF ChainInv, TipsNoted, RoutingIsExact
    <2>5. CASE f.op.by # "me"
      <3>1. Becomes("announcing") /\ MoveTip(Top.sid, f)
        BY <1>5, <2>5 DEF Applied
      <3>2. Top'.stage \in Quiet
        BY <2>1, <3>1, BecomesKeeps DEF Quiet, CallingBack
      <3> HIDE DEF f
      <3> QED
        BY <2>1, <2>2, <2>3, <3>1, <3>2, MoveTipKeeps
    <2> QED
      BY <2>4, <2>5
  <1>6. CASE Sent
    <2> DEFINE f == Top.frame
    <2>1. /\ Running /\ StackInv /\ f.op.body \in Bodies
          /\ Top.sid \in open /\ f.parent = tip[Top.sid]
          /\ \A s \in open : tip[s] # NextTip(f)
          /\ seen' = seen \cup {f}
          /\ MoveTip(Top.sid, f) /\ UNCHANGED open
      BY <1>6, TopJob DEF Sent, At, MuxTypes, ChainInv, TopTrue, TurnStages
    <2>2. Top'.stage \in Quiet
      BY <1>6, <2>1, BecomesKeeps DEF Sent, Quiet, CallingBack
    <2> HIDE DEF f
    <2> QED
      BY <2>1, <2>2, MoveTipKeeps
  <1>7. CASE GivenUp \/ CallbackThrows \/ Answered \/ Announced \/ Greeted
    <2>1. Running /\ Done /\ UNCHANGED <<open, tip, log, table, seen>>
      BY <1>7 DEF GivenUp, CallbackThrows, Answered, Announced, Greeted, At
    <2> QED
      BY <2>1, DoneKeeps, JobsQuiet DEF MuxTypes, Quiet
  <1>8. CASE Offered
    <2>1. Running /\ StackInv /\ Top.frame.op.body \in Bodies
      BY <1>8, TopJob DEF Offered, At, MuxTypes, TurnStages
    <2>2. Running' => Top'.stage \in Quiet
      BY <1>8, <2>1, BecomesKeeps, DoneKeeps DEF Offered, Quiet, CallingBack
    <2> QED
      BY <1>8, <2>2, JobsQuiet DEF Offered
  <1>9. CASE Terminated
    <2>1. Running /\ Top.sid \in Sessions
      BY <1>9, TopJob DEF Terminated, At, MuxTypes, Job
    <2>2. Running' => Top'.stage \in Quiet
      BY <1>9, <2>1, AdvanceTypes DEF Terminated
    <2> QED
      BY <1>9, <2>1, <2>2, DestroyKeeps DEF Terminated, Note
  <1>10. CASE Notified
    <2>1. Running' => Top'.stage \in Quiet
      BY <1>10, AdvanceTypes DEF Notified, At
    <2> QED
      BY <1>10, <2>1, JobsQuiet DEF Notified
  <1> QED
    BY <1>1, <1>2, <1>3, <1>4, <1>5, <1>6, <1>7, <1>8, <1>9, <1>10 DEF Progress
-----------------------------------------------------------------------------
(* The channel without chains.                                             *)

\* Without a chain, an opener that is done has closed the channel, or an
\* onTerminate has yet to return; one with plans has, or is opening the next.
IdleInv ==
    /\ \A o \in opening : o.by = "host" => mode.role = "opener"
    /\ mode.closeWhenIdle /\ open = {} /\ ~broken =>
        /\ mode.role = "opener" /\ openerDone => dead \/ Notifying
        /\ mode.role = "plans" => dead \/ Notifying \/ opening # {}

\* A plan is awaited by the innermost job; nothing else touches that.
LEMMA AwaitedKept ==
    ASSUME PlanAwaited, UNCHANGED jobs, \A o \in opening' : o.by = "job" => o \in opening
    PROVE  PlanAwaited'
  BY DEF PlanAwaited, At, Running, Top

\* Nobody awaits a plan unless the innermost job does.
LEMMA NoneAwaited ==
    ASSUME PlanAwaited, ~At("advancing")
    PROVE  \A o \in opening : o.by # "job"
  BY DEF PlanAwaited

\* Whoever ends the last chain goes on to a plan, fails, or closes the channel.
LEMMA AdvanceCloses ==
    ASSUME MuxTypes, PlanAwaited, IdleInv, Running, ~At("advancing"), NEW chains,
           Advance(chains), chains = open', UNCHANGED <<mode, openerDone>>
    PROVE  IdleInv' /\ PlanAwaited'
  <1> DEFINE next == through + 1
             more == mode.role = "plans" /\ next < Len(mode.plans)
             plan == mode.plans[next + 1]
             planned == [init |-> plan, by |-> IF Awaited THEN "job" ELSE "plan"]
  <1>1. \A o \in opening : o.by # "job"
    BY NoneAwaited
  <1>2. CASE /\ more /\ plan \in template
             /\ opening' = opening \cup {planned}
             /\ IF Awaited THEN Becomes("advancing") ELSE Done
             /\ UNCHANGED <<dead, closed, broken>>
    <2>1. /\ planned.by # "host" /\ mode.role = "plans"
          /\ planned.by = "job" => Awaited
      BY <1>2
    <2>2. Becomes("advancing") => Running' /\ Top'.stage = "advancing"
      BY BecomesKeeps DEF MuxTypes, TurnStages
    <2> HIDE DEF planned
    <2>3. IdleInv'
      BY <1>2, <2>1 DEF IdleInv
    <2>4. PlanAwaited'
      BY <1>1, <1>2, <2>1, <2>2 DEF PlanAwaited, At
    <2> QED
      BY <2>3, <2>4
  <1>3. CASE /\ more /\ plan \notin template
             /\ broken' = TRUE
             /\ Done
             /\ UNCHANGED <<opening, dead, closed>>
    BY <1>1, <1>3 DEF IdleInv, PlanAwaited
  <1>4. CASE /\ ~more
             /\ ChainEnded(chains)
             /\ Done
             /\ UNCHANGED <<opening, broken>>
    BY <1>1, <1>4 DEF IdleInv, PlanAwaited, ChainEnded, CloseIf, ClosesIdle
  <1> QED
    BY <1>2, <1>3, <1>4 DEF Advance

\* What the host or the peer does leaves no idle channel open.
LEMMA CallsKeepIdle ==
    ASSUME MuxTypes, PlanAwaited, IdleInv, Host \/ Peer
    PROVE  IdleInv' /\ PlanAwaited'
  <1>1. ASSUME NEW i \in Inits, OpenInit(i)
        PROVE  IdleInv' /\ PlanAwaited'
    <2>1. PlanAwaited'
      BY <1>1, AwaitedKept DEF OpenInit
    <2> QED
      BY <1>1, <2>1 DEF OpenInit, IdleInv, Notifying
  <1>2. CASE CloseOpener
    <2>1. PlanAwaited'
      BY <1>2, AwaitedKept DEF CloseOpener
    <2> QED
      BY <1>2, <2>1 DEF CloseOpener, CloseIf, ClosesIdle, IdleInv, Notifying
  <1>3. ASSUME NEW s \in Sessions, NEW body \in Bodies \cup {Goodbye},
               NEW stage \in {"applying", "terminating", "repeating"},
               stage = "applying" => body \in Bodies,
               s \in open, MayRun(s), Start(s, stage, OwnFrame(s, body)),
               UNCHANGED <<mode, open, opening, openerDone, dead, broken>>
        PROVE  IdleInv' /\ PlanAwaited'
    <2>1. Notifying => Notifying'
      BY <1>3, StartTypes
    <2>2. ~At("advancing")
      BY <1>3 DEF MayRun, At, CallingBack
    <2>3. \A o \in opening : o.by # "job"
      BY <2>2, NoneAwaited
    <2> QED
      BY <1>3, <2>1, <2>3 DEF IdleInv, PlanAwaited
  <1>4. ASSUME NEW s \in Sessions, Terminate(s)
        PROVE  IdleInv' /\ PlanAwaited'
    <2>1. \E stage \in {"terminating", "repeating"} : Start(s, stage, OwnFrame(s, Goodbye))
      BY <1>4 DEF Terminate
    <2> QED
      BY <1>3, <1>4, <2>1 DEF Terminate
  <1>5. ASSUME NEW s \in Sessions, NEW body \in Bodies, SendTurn(s, body)
        PROVE  IdleInv' /\ PlanAwaited'
    BY <1>3, <1>5 DEF SendTurn
  <1>6. CASE UNCHANGED muxVars
    BY <1>6, AwaitedKept DEF muxVars, IdleInv, Notifying
  <1>7. ASSUME NEW i \in Inits, ReceiveInit(i)
        PROVE  IdleInv' /\ PlanAwaited'
    <2>1. PlanAwaited'
      BY <1>7, AwaitedKept DEF ReceiveInit
    <2> QED
      BY <1>7, <2>1 DEF ReceiveInit, Register, IdleInv, Notifying
  <1>8. ASSUME NEW e \in table, ReceiveTerminate(e)
        PROVE  IdleInv' /\ PlanAwaited'
    <2> DEFINE f == [parent |-> e.tip, op |-> [by |-> "peer", body |-> Goodbye]]
    <2>1. ~Running /\ (e.sid \in hooked) \in BOOLEAN /\ Goodbye \in Bodies \cup {Goodbye}
      BY <1>8 DEF ReceiveTerminate
    <2>2. Notifying'
      <3>1. Enter([stage |-> "notifying", sid |-> e.sid, frame |-> f,
                   turnSeq |-> Len(log[e.sid]), inbound |-> TRUE,
                   hooks |-> e.sid \in hooked])
        BY <1>8 DEF ReceiveTerminate
      <3> QED
        BY <2>1, <3>1, ReadTypes
    <2>3. \A o \in opening : o.by # "job"
      BY <2>1, NoneAwaited DEF At
    <2> QED
      BY <1>8, <2>2, <2>3 DEF ReceiveTerminate, IdleInv, PlanAwaited
  <1>9. ASSUME NEW e \in table, NEW body \in Bodies, ReceiveTurn(e, body)
        PROVE  IdleInv' /\ PlanAwaited'
    <2>1. \A o \in opening : o.by # "job"
      BY <1>9, NoneAwaited DEF At, ReceiveTurn
    <2> QED
      BY <1>9, <2>1 DEF ReceiveTurn, IdleInv, PlanAwaited
  <1>10. CASE ChannelLost \/ TooManyErrors
    <2>1. UNCHANGED <<mode, open, opening, jobs, openerDone, broken>>
      BY <1>10 DEF ChannelLost, TooManyErrors
    <2>2. dead => dead'
      BY <1>10 DEF ChannelLost, TooManyErrors, CloseIf
    <2>3. PlanAwaited'
      BY <2>1, AwaitedKept
    <2> QED
      BY <2>1, <2>2, <2>3 DEF IdleInv, Notifying
  <1> QED
    BY <1>1, <1>2, <1>4, <1>5, <1>6, <1>7, <1>8, <1>9, <1>10 DEF Host, Peer

\* What goes on by itself leaves no idle channel open.
LEMMA ProgressKeepsIdle ==
    ASSUME MuxTypes, ChainInv, PlanAwaited, IdleInv, Progress
    PROVE  IdleInv' /\ PlanAwaited'
  <1>1. ASSUME NEW o \in opening, InitWritten(o)
        PROVE  IdleInv' /\ PlanAwaited'
    <2>1. open' # {} /\ \A p \in opening' : p.by # "host" => p.by = "ready" \/ p \in opening \ {o}
      BY <1>1 DEF InitWritten, Register
    <2>2. IdleInv'
      BY <1>1, <2>1 DEF InitWritten, IdleInv
    <2>3. \A p \in opening' : p.by = "job" => p \in opening \ {o}
      <3> SUFFICES ASSUME NEW p \in opening', p.by = "job" PROVE p \in opening \ {o}
        OBVIOUS
      <3> QED
        BY <2>1
    <2>4. PlanAwaited'
      <3>1. CASE o.by = "job"
        <4>1. \A p \in opening' : p.by # "job"
          BY <2>3, <3>1 DEF PlanAwaited
        <4> QED
          BY <4>1 DEF PlanAwaited
      <3>2. CASE o.by # "job"
        BY <1>1, <2>3, <3>2, AwaitedKept DEF InitWritten
      <3> QED
        BY <3>1, <3>2
    <2> QED
      BY <2>2, <2>4
  <1>2. ASSUME NEW o \in opening, InitRefused(o)
        PROVE  IdleInv' /\ PlanAwaited'
    <2>1. opening' = opening \ {o}
      BY <1>2 DEF InitRefused
    <2>2. PlanAwaited'
      <3>1. CASE o.by = "job"
        BY <2>1, <3>1 DEF PlanAwaited
      <3>2. CASE o.by # "job"
        BY <1>2, <2>1, <3>2, AwaitedKept DEF InitRefused
      <3> QED
        BY <3>1, <3>2
    <2>3. CASE o.by = "host"
      <3>1. jobs' = jobs /\ mode.role = "opener"
        BY <1>2, <2>3 DEF InitRefused, IdleInv
      <3> QED
        BY <1>2, <2>1, <2>2, <2>3, <3>1 DEF InitRefused, IdleInv, Notifying
    <2>4. CASE o.by # "host"
      BY <1>2, <2>2, <2>4 DEF InitRefused, IdleInv
    <2> QED
      BY <2>3, <2>4
  <1>3. ASSUME NEW o \in opening, PlanReady(o)
        PROVE  IdleInv' /\ PlanAwaited'
    <2>1. /\ opening' = opening \ {o} /\ o.by = "ready" /\ jobs' = jobs
          /\ UNCHANGED <<mode, open, openerDone>>
      BY <1>3 DEF PlanReady
    <2>2. PlanAwaited'
      BY <2>1, AwaitedKept
    <2>3. CASE ChainEnded(open)
      <3>1. UNCHANGED broken \/ broken' = TRUE
        BY <1>3 DEF PlanReady
      <3> QED
        BY <2>1, <2>2, <2>3, <3>1
           DEF IdleInv, Notifying, ChainEnded, CloseIf, ClosesIdle
    <2>4. CASE broken' = TRUE
      BY <2>1, <2>2, <2>4 DEF IdleInv
    <2> QED
      BY <1>3, <2>3, <2>4 DEF PlanReady
  <1>4. CASE StartReading
    <2>1. PlanAwaited'
      BY <1>4, AwaitedKept DEF StartReading
    <2> QED
      BY <1>4, <2>1 DEF StartReading, IdleInv, Notifying
  <1>5. CASE Applied \/ Sent \/ GivenUp
    <2>1. Running /\ ~At("advancing") /\ Top.sid \in open
      BY <1>5 DEF Applied, Sent, GivenUp, At, ChainInv, TopTrue
    <2>2. open' = open /\ UNCHANGED <<mode, opening>>
      BY <1>5 DEF Applied, Sent, GivenUp
    <2>3. \A o \in opening : o.by # "job"
      BY <2>1, NoneAwaited
    <2> QED
      BY <2>1, <2>2, <2>3 DEF IdleInv, PlanAwaited
  <1>6. CASE Offered \/ Answered \/ Announced
    <2>1. /\ Running /\ ~At("advancing") /\ Top.stage # "notifying" /\ StackInv
          /\ Top.stage \in TurnStages
      BY <1>6 DEF Offered, Answered, Announced, At, MuxTypes, TurnStages
    <2>2. UNCHANGED <<mode, open, opening, openerDone, dead>>
      BY <1>6 DEF Offered, Answered, Announced
    <2>3. Notifying => Notifying'
      BY <1>6, <2>1, TopJob, BecomesKeeps, DoneKeeps DEF Offered, Answered, Announced
    <2>4. \A o \in opening : o.by # "job"
      BY <2>1, NoneAwaited
    <2>5. broken => broken'
      BY <1>6 DEF Offered, Answered, Announced
    <2> QED
      BY <2>2, <2>3, <2>4, <2>5 DEF IdleInv, PlanAwaited
  <1>7. CASE CallbackThrows
    <2>1. ~At("advancing")
      BY <1>7 DEF CallbackThrows, At, CallingBack
    <2>2. \A o \in opening : o.by # "job"
      BY <2>1, NoneAwaited
    <2> QED
      BY <1>7, <2>2 DEF CallbackThrows, IdleInv, PlanAwaited
  <1>8. CASE Terminated
    <2>1. open' = open \ {Top.sid} /\ Running /\ ~At("advancing")
      BY <1>8 DEF Terminated, Destroy, At
    <2> QED
      BY <1>8, <2>1, AdvanceCloses DEF Terminated
  <1>9. CASE Notified
    <2>1. Running /\ ~At("advancing")
      BY <1>9 DEF Notified, At
    <2> QED
      BY <1>9, <2>1, AdvanceCloses DEF Notified
  <1>10. CASE Greeted
    <2>1. Running /\ ~At("advancing") /\ Top.stage # "notifying" /\ Done
      BY <1>10 DEF Greeted, At
    <2>2. Notifying => Notifying'
      BY <2>1, DoneKeeps DEF MuxTypes
    <2>3. \A o \in opening : o.by # "job"
      BY <2>1, NoneAwaited
    <2> QED
      BY <1>10, <2>2, <2>3 DEF Greeted, ChainEnded, CloseIf, IdleInv, PlanAwaited
  <1> QED
    BY <1>1, <1>2, <1>3, <1>4, <1>5, <1>6, <1>7, <1>8, <1>9, <1>10 DEF Progress
-----------------------------------------------------------------------------
(* The specification.                                                      *)

MuxInv ==
    /\ MuxTypes /\ SettledLeavesNothing /\ PlacesDiffer
    /\ ChainInv /\ PlanAwaited /\ IdleInv

\* A runtime that has just been started satisfies the invariant.
LEMMA InitMux == Init => MuxInv
  <1> SUFFICES ASSUME Init PROVE MuxInv
    OBVIOUS
  <1>1. mode \in Mode /\ ValidMode(mode) /\ mode \in Modes
    BY ModeAssumption DEF Init
  <1>2. CoordTypeOK /\ SettledLeavesNothing /\ PlacesDiffer
    BY DEF Init, CoordInit, CoordTypeOK, SettledLeavesNothing, PlacesDiffer, Called
  <1>3. opening \subseteq [init : Inits, by : {"host", "run", "plan", "ready", "job"}]
    <2>1. CASE mode.role = "plans"
      <3>1. mode.plans[1] \in mode.template /\ mode.template \subseteq Inits
        BY <1>1, <2>1 DEF Mode, ValidMode
      <3> QED
        BY <2>1, <3>1 DEF Init
    <2> QED
      BY <2>1 DEF Init
  <1>4. TypeOK
    <2>1. mode.template \subseteq Inits /\ mode.role \in {"opener", "plans", "responder"}
      BY <1>1 DEF Mode
    <2>2. openerDone \in BOOLEAN /\ reading \in BOOLEAN
      BY DEF Init
    <2>3. /\ tip \in [Sessions -> Tip \cup {NoTip}] /\ log \in [Sessions -> Seq(Op)]
          /\ open = {} /\ hooked = {} /\ table = {} /\ seen = {} /\ jobs = <<>>
      BY DEF Init
    <2>4. /\ dead = FALSE /\ closed = FALSE /\ broken = FALSE /\ through = -1
          /\ template = mode.template
      BY DEF Init
    <2>5. /\ open \subseteq Sessions /\ hooked \subseteq open
          /\ \A s \in open : tip[s] \in Tip
          /\ table \subseteq [tip : Tip, sid : Sessions] /\ seen \subseteq Frame
          /\ jobs \in Seq(Job)
      BY <2>3
    <2>6. /\ dead \in BOOLEAN /\ closed \in BOOLEAN /\ broken \in BOOLEAN /\ (dead => closed)
      BY <2>4
    <2>7. through \in Int /\ through >= -1
      BY <2>4
    <2>8. template \subseteq Inits
      BY <2>1, <2>4
    <2> QED
      BY <1>1, <1>2, <1>3, <2>2, <2>3, <2>5, <2>6, <2>7, <2>8 DEF TypeOK
  <1>5. StackInv /\ ChainInv
    <2>1. jobs = <<>> /\ open = {} /\ table = {}
      BY DEF Init
    <2>2. StackInv
      BY <2>1 DEF StackInv
    <2>3. TopTrue
      BY <2>1 DEF TopTrue, Running
    <2> QED
      BY <2>1, <2>2, <2>3 DEF ChainInv, TipsNoted, RoutingIsExact
  <1>6. IdleInv /\ PlanAwaited
    <2>1. mode.role = "opener" => ~openerDone
      BY DEF Init
    <2>2. ASSUME mode.role = "plans"
          PROVE  opening # {} /\ \A o \in opening : o.by = "run"
      <3> DEFINE first == [init |-> mode.plans[1], by |-> "run"]
      <3>1. opening = {first} /\ first.by = "run"
        <4>1. opening = {first}
          BY <2>2 DEF Init
        <4> QED
          BY <4>1
      <3> HIDE DEF first
      <3> QED
        BY <3>1
    <2>3. mode.role # "plans" => opening = {}
      BY DEF Init
    <2> QED
      BY <2>1, <2>2, <2>3 DEF IdleInv, PlanAwaited
  <1> QED
    BY <1>2, <1>4, <1>5, <1>6 DEF MuxInv, MuxTypes

\* Every step keeps the invariant.
LEMMA NextMux == ASSUME MuxInv, [Next]_vars PROVE MuxInv'
  <1>1. SettledLeavesNothing' /\ PlacesDiffer'
    BY MuxStepIsCoordStep, CoordKeeps, PlacesKeep DEF MuxInv, MuxTypes, TypeOK, CoordInv
  <1>2. CASE Next
    <2>1. \A o \in opening : o.by = "job" => Running
      BY DEF MuxInv, PlanAwaited, At
    <2> QED
      BY <1>1, <1>2, <2>1, HostTypes, PeerTypes, ProgressTypes, HostKeepsChains,
         PeerKeepsChains, ProgressKeepsChains, CallsKeepIdle, ProgressKeepsIdle
         DEF Next, MuxInv
  <1>3. CASE UNCHANGED vars
    <2>1. UNCHANGED coordVars /\ UNCHANGED muxVars
      BY <1>3 DEF vars
    <2>2. MuxTypes'
      BY <2>1 DEF MuxInv, MuxTypes, TypeOK, CoordTypeOK, StackInv, coordVars, muxVars
    <2>3. ChainInv' /\ IdleInv' /\ PlanAwaited'
      BY <2>1, JobsQuiet, AwaitedKept DEF MuxInv, IdleInv, Notifying, muxVars
    <2> QED
      BY <1>1, <2>2, <2>3 DEF MuxInv
  <1> QED
    BY <1>2, <1>3

\* The invariant of a multiplex runtime and its coordinators.
THEOREM MuxInvariant == Spec => []MuxInv
  <1> QED
    BY InitMux, NextMux, PTL DEF Spec

\* Types, for any modes, inits and bodies.
THEOREM MuxTypeCorrect == Spec => []TypeOK
  <1>1. MuxInv => TypeOK
    BY DEF MuxInv, MuxTypes
  <1> QED
    BY <1>1, MuxInvariant, PTL

\* The routing table (tipToSession) holds exactly the tips of the open chains,
\* and no two chains share one, however often a genesis is used.
THEOREM RoutingStaysExact == Spec => []RoutingIsExact
  <1>1. MuxInv => RoutingIsExact
    BY DEF MuxInv, ChainInv
  <1> QED
    BY <1>1, MuxInvariant, PTL

\* What emitOutboundTurn and handleInboundFrame read before their awaits holds
\* after them, thanks to the frame mutex, however deep callbacks call each other.
THEOREM CapturedStaysTrue == Spec => []CapturedStillTrue
  <1>1. ASSUME MuxInv
        PROVE  CapturedStillTrue
    <2> SUFFICES ASSUME NEW i \in DOMAIN jobs
                 PROVE  /\ jobs[i].stage = "applying" =>
                            /\ jobs[i].sid \in open
                            /\ jobs[i].frame.parent = tip[jobs[i].sid]
                            /\ jobs[i].turnSeq = Len(log[jobs[i].sid])
                        /\ jobs[i].stage \in {"sending", "terminating", "repeating"} =>
                            /\ jobs[i].sid \in open
                            /\ jobs[i].frame.parent = tip[jobs[i].sid]
      BY DEF CapturedStillTrue
    <2>1. jobs \in Seq(Job) /\ i \in 1 .. Len(jobs) /\ Len(jobs) \in Nat
      BY <1>1 DEF MuxInv, MuxTypes, StackInv
    <2>2. CASE i = Len(jobs)
      <3>1. jobs # <<>>
        BY <2>1
      <3> QED
        BY <1>1, <2>2, <3>1 DEF MuxInv, ChainInv, TopTrue, Running, Top
    <2>3. CASE i # Len(jobs)
      <3>1. i \in 1 .. Len(jobs) - 1
        BY <2>1, <2>3
      <3>2. jobs[i].stage \in CallingBack
        BY <1>1, <3>1 DEF MuxInv, MuxTypes, StackInv
      <3> QED
        BY <3>2 DEF CallingBack
    <2> QED
      BY <2>2, <2>3
  <1> QED
    BY <1>1, MuxInvariant, PTL

\* maybeCloseIdle is called wherever the last chain can end.
THEOREM IdleIsClosed == Spec => []IdleMeansClosed
  <1>1. ASSUME MuxInv
        PROVE  IdleMeansClosed
    <2>1. ~Running => ~Notifying
      BY DEF Running, Notifying
    <2> QED
      BY <1>1, <2>1 DEF MuxInv, IdleInv, IdleMeansClosed
  <1> QED
    BY <1>1, MuxInvariant, PTL

\* No timer, listener or list entry outlives its wait.
THEOREM WaitsLeaveNothing == Spec => []SettledLeavesNothing
  <1>1. MuxInv => SettledLeavesNothing
    BY DEF MuxInv
  <1> QED
    BY <1>1, MuxInvariant, PTL

\* No wait is settled twice, whatever races.
THEOREM WaitsSettleOnce == Spec => SettledOnce
  <1>1. MuxInv /\ [Next]_vars => [NoneSettledAgain]_coordVars
    BY MuxStepIsCoordStep, CoordSettlesOnce DEF MuxInv, MuxTypes, TypeOK, CoordInv
  <1>2. SettledOnce <=> [][NoneSettledAgain]_coordVars
    BY DEF SettledOnce, NoneSettledAgain
  <1> QED
    BY <1>1, <1>2, MuxInvariant, PTL DEF Spec
-----------------------------------------------------------------------------
(* What a turn of the peer does to the waits.                              *)

\* The coordinator resolves waits that fit, and looks at every wait of its list
\* up to the latest whose predicate throws.
LEMMA FulfilResolves ==
    ASSUME CoordInv, PlacesDiffer, NEW c, NEW body \in Bodies, Fulfil(c, body)
    PROVE  \A w \in Waits :
             LET fits == promise[w] = "pending" /\ Home[w] = c /\ Answer[w][body] = "yes" IN
             /\ promise'[w] # promise[w] => fits /\ promise'[w] = "resolved"
             /\ fits /\ promise'[w] = promise[w] =>
                  \E v \in Waits : /\ promise[v] = "pending" /\ Home[v] = c
                                   /\ Answer[v][body] = "throws" /\ place[w] < place[v]
  <1> SUFFICES ASSUME NEW w \in Waits
               PROVE  LET fits == /\ promise[w] = "pending" /\ Home[w] = c
                                  /\ Answer[w][body] = "yes" IN
                      /\ promise'[w] # promise[w] => fits /\ promise'[w] = "resolved"
                      /\ fits /\ promise'[w] = promise[w] =>
                           \E v \in Waits : /\ promise[v] = "pending" /\ Home[v] = c
                                            /\ Answer[v][body] = "throws"
                                            /\ place[w] < place[v]
    OBVIOUS
  <1> DEFINE fits == promise[w] = "pending" /\ Home[w] = c /\ Answer[w][body] = "yes"
  <1>1. \A v \in Waits : v \in Waiting(c) <=> promise[v] = "pending" /\ Home[v] = c
    BY DEF Waiting, CoordInv, SettledLeavesNothing
  <1>2. promise'[w] = IF w \in Matched(c, body) THEN "resolved" ELSE promise[w]
    BY DEF Fulfil, Settle
  <1>3. promise'[w] # promise[w] => fits /\ promise'[w] = "resolved"
    BY <1>1, <1>2 DEF Matched, Examined
  <1>4. ASSUME fits, promise'[w] = promise[w]
        PROVE  \E v \in Waits : /\ promise[v] = "pending" /\ Home[v] = c
                                /\ Answer[v][body] = "throws" /\ place[w] < place[v]
    <2>1. w \in Waiting(c) /\ w \notin Examined(c, body)
      BY <1>1, <1>2, <1>4 DEF Matched
    <2>2. PICK v \in Waiting(c) : Answer[v][body] = "throws" /\ ~(place[v] < place[w])
      BY <2>1 DEF Examined
    <2>3. v \in Waits /\ promise[v] = "pending" /\ Home[v] = c
      BY <1>1 DEF Waiting, CoordInv, CoordTypeOK
    <2>4. v # w
      BY <1>4, <2>2
    <2>5. place[v] # place[w] /\ place[v] \in Nat /\ place[w] \in Nat
      BY <1>4, <2>3, <2>4 DEF PlacesDiffer, CoordInv, CoordTypeOK
    <2> QED
      BY <2>2, <2>3, <2>5
  <1> QED
    BY <1>3, <1>4

\* Without a predicate that throws, the coordinator looks at every wait.
LEMMA FulfilReachesAll ==
    ASSUME CoordInv, NEW c, NEW body, Fulfil(c, body), ~SomeThrows(c, body), NEW w \in Waits,
           promise[w] = "pending", Home[w] = c, Answer[w][body] = "yes"
    PROVE  promise'[w] = "resolved"
  <1>1. Examined(c, body) = Waiting(c)
    BY DEF SomeThrows, Examined
  <1>2. w \in Matched(c, body)
    BY <1>1 DEF Matched, Waiting, CoordInv, SettledLeavesNothing
  <1> QED
    BY <1>2 DEF Fulfil, Settle

\* A job that announces a turn of the peer keeps the mutex until its callback has
\* returned: no step but Offered, or a throw, ends or changes it.
LEMMA NextResolves ==
    ASSUME MuxInv, [Next]_vars
    PROVE  MatchingTurnResolvesStep
  <1> SUFFICES ASSUME At("announcing"), Top.frame.op.by = "peer", jobs' # jobs,
                      Len(jobs') <= Len(jobs)
               PROVE  /\ \A w \in Waits :
                           promise'[w] # promise[w] => Fits(w) /\ promise'[w] = "resolved"
                      /\ Len(jobs') = Len(jobs) =>
                           \A w \in Waits : Fits(w) => promise'[w] # promise[w]
                      /\ promise' # promise =>
                           \A w \in Waits :
                               Fits(w) /\ promise'[w] = promise[w] => BehindThrow(w)
    BY DEF MatchingTurnResolvesStep
  <1>1. /\ Running /\ StackInv /\ Len(jobs) \in Nat /\ Top.sid \in Sessions
        /\ Top.frame.op.body \in Bodies /\ Top.stage = "announcing"
    BY TopJob, OfferedBody DEF At, MuxInv, MuxTypes, TurnStages
  <1>2. MuxTypes /\ CoordInv /\ PlacesDiffer
    BY DEF MuxInv, MuxTypes, TypeOK, CoordInv
  <1>3. ~Host
    <2>1. ASSUME NEW s \in open, MayRun(s), NEW body \in Bodies \cup {Goodbye},
                 NEW stage \in {"applying", "terminating", "repeating"},
                 stage = "applying" => body \in Bodies,
                 Start(s, stage, OwnFrame(s, body))
          PROVE  FALSE
      <3>1. Len(jobs') = Len(jobs) + 1
        BY <1>2, <2>1, StartTypes
      <3> QED
        BY <1>1, <3>1
    <2>2. ASSUME NEW s \in Sessions, Terminate(s)
          PROVE  FALSE
      <3>1. \E stage \in {"terminating", "repeating"} : Start(s, stage, OwnFrame(s, Goodbye))
        BY <2>2 DEF Terminate
      <3> QED
        BY <2>1, <2>2, <3>1 DEF Terminate
    <2>3. ASSUME NEW s \in Sessions, NEW body \in Bodies, SendTurn(s, body)
          PROVE  FALSE
      BY <2>1, <2>3 DEF SendTurn
    <2> QED
      BY <2>2, <2>3 DEF Host, OpenInit, CloseOpener, muxVars
  <1>4. ~Peer
    BY <1>1 DEF Peer, ReceiveInit, ReceiveTerminate, ReceiveTurn, ChannelLost, TooManyErrors
  <1>5. Progress
    BY <1>3, <1>4 DEF Next, vars, muxVars
  <1>6. \A o \in opening : ~InitWritten(o) /\ ~InitRefused(o) /\ ~PlanReady(o)
    <2>1. \A o \in opening : o.by # "job"
      BY <1>1, NoneAwaited DEF MuxInv, At
    <2> QED
      BY <2>1 DEF InitWritten, InitRefused, PlanReady
  <1>7. Offered \/ CallbackThrows
    BY <1>1, <1>5, <1>6
       DEF Progress, StartReading, Applied, Sent, GivenUp, Announced, Answered, Terminated,
           Notified, Greeted, At
  <1>8. CASE CallbackThrows
    <2>1. promise' = promise /\ Done
      BY <1>8 DEF CallbackThrows, coordVars
    <2>2. Len(jobs') = Len(jobs) - 1
      BY <1>1, <2>1, DoneKeeps
    <2>3. Len(jobs') # Len(jobs)
      BY <1>1, <2>2
    <2> QED
      BY <2>1, <2>3
  <1>9. CASE Offered /\ ~Top.hooks
    <2>1. promise' = promise
      BY <1>9 DEF Offered, coordVars
    <2> QED
      BY <1>9, <2>1 DEF Fits
  <1>10. CASE Offered /\ Top.hooks
    <2> DEFINE body == Top.frame.op.body
    <2>1. Fulfil(Top.sid, body)
      BY <1>10 DEF Offered
    <2>2. \A w \in Waits :
             LET fits == /\ promise[w] = "pending" /\ Home[w] = Top.sid
                         /\ Answer[w][body] = "yes" IN
             /\ promise'[w] # promise[w] => fits /\ promise'[w] = "resolved"
             /\ fits /\ promise'[w] = promise[w] =>
                  \E v \in Waits : /\ promise[v] = "pending" /\ Home[v] = Top.sid
                                   /\ Answer[v][body] = "throws" /\ place[w] < place[v]
      BY <1>1, <1>2, <2>1, FulfilResolves
    <2>3. ASSUME Len(jobs') = Len(jobs), NEW w \in Waits, Fits(w)
          PROVE  promise'[w] # promise[w]
      <3>1. ~SomeThrows(Top.sid, body)
        <4>1. ~Done
          <5> SUFFICES ASSUME Done PROVE FALSE
            OBVIOUS
          <5>1. Len(jobs') = Len(jobs) - 1
            BY <1>1, DoneKeeps
          <5> QED
            BY <1>1, <2>3, <5>1
        <4> QED
          BY <1>10, <4>1 DEF Offered
      <3>2. promise'[w] = "resolved" /\ promise[w] = "pending"
        BY <1>2, <2>1, <2>3, <3>1, FulfilReachesAll DEF Fits
      <3> QED
        BY <3>2
    <2> QED
      BY <1>10, <2>2, <2>3 DEF Fits, BehindThrow
  <1> QED
    BY <1>7, <1>8, <1>9, <1>10

\* A turn of the peer resolves exactly the waits it fits, the ones that came
\* while the store or a callback was awaited included; where a predicate throws,
\* it leaves pending only waits called before that one.
THEOREM TurnsResolveWaits == Spec => MatchingTurnResolves
  <1>1. MuxInv /\ [Next]_vars => [MatchingTurnResolvesStep]_vars
    BY NextResolves
  <1> QED
    BY <1>1, MuxInvariant, PTL DEF Spec, MatchingTurnResolves
=============================================================================
