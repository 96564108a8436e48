----------------------------- MODULE Recursion -----------------------------
(***************************************************************************)
(* Induction over the naturals and recursive functions, stated of sets and *)
(* functions so that they can be cited: what is to hold of every number is *)
(* the set of the numbers it holds of.                                     *)
(***************************************************************************)
EXTENDS Integers, FiniteSets, FiniteSetTheorems, TLAPS

\* A set with zero and the successors of its numbers holds every number: were
\* n left out, n - 1 would be, and counting down would map the numbers left out
\* up to some bound one to one into fewer.
LEMMA SetInduction ==
    ASSUME NEW S, 0 \in S, \A n \in Nat : n \in S => n + 1 \in S
    PROVE  Nat \subseteq S
  <1> SUFFICES ASSUME NEW last \in Nat, last \notin S PROVE FALSE
    OBVIOUS
  <1> DEFINE Out == {n \in 0 .. last : n \notin S}
             Lower == [n \in Out |-> n - 1]
  <1>1. IsFiniteSet(Out) /\ IsFiniteSet(0 .. last)
    <2>1. IsFiniteSet(0 .. last)
      BY FS_Interval
    <2> QED
      BY <2>1, FS_Subset
  <1>2. last \in Out
    OBVIOUS
  <1>3. IsFiniteSet(Out \ {last}) /\ Cardinality(Out \ {last}) = Cardinality(Out) - 1
    BY <1>1, <1>2, FS_RemoveElement
  <1>4. Cardinality(Out) \in Nat
    BY <1>1, FS_CardinalityType
  <1>5. ASSUME NEW n \in Out PROVE n - 1 \in Out \ {last}
    <2>1. n \in Nat /\ n <= last /\ n # 0 /\ n \notin S
      OBVIOUS
    <2>2. n - 1 \in Nat /\ (n - 1) + 1 = n
      BY <2>1
    <2> QED
      BY <2>1, <2>2
  <1>6. Lower \in [Out -> Out \ {last}]
    BY <1>5
  <1>7. PICK m, n \in Out : m # n /\ Lower[m] = Lower[n]
    <2> HIDE DEF Out, Lower
    <2> QED
      BY <1>1, <1>3, <1>4, <1>6, FS_PigeonHole
  <1> QED
    BY <1>7

\* The same, when each number follows from all that are less.
LEMMA StrongSetInduction ==
    ASSUME NEW S, \A n \in Nat : 0 .. (n - 1) \subseteq S => n \in S
    PROVE  Nat \subseteq S
  <1> DEFINE T == {n \in Nat : 0 .. (n - 1) \subseteq S}
  <1>1. 0 \in T
    OBVIOUS
  <1>2. ASSUME NEW n \in Nat, n \in T PROVE n + 1 \in T
    <2>1. n \in S
      BY <1>2
    <2>2. \A k \in 0 .. ((n + 1) - 1) : k \in 0 .. (n - 1) \/ k = n
      OBVIOUS
    <2> QED
      BY <1>2, <2>1, <2>2
  <1>3. Nat \subseteq T
    <2> HIDE DEF T
    <2> QED
      BY <1>1, <1>2, SetInduction
  <1> QED
    BY <1>3

-----------------------------------------------------------------------------
(***************************************************************************)
(* Recursive functions.  `step[n]' computes the value at n from the values *)
(* below n, a function on 0 .. n - 1.                                      *)
(***************************************************************************)
Below(f, n) == [k \in 0 .. (n - 1) |-> f[k]]

IsStep(step, V) ==
    \A n \in Nat : \A g \in [0 .. (n - 1) -> V] : step[n][g] \in V

\* The functions that follow the step up to n.
Runs(step, V, n) ==
    {g \in [0 .. n -> V] : \A k \in 0 .. n : g[k] = step[k][Below(g, k)]}

\* Two runs agree as far as both go.
LEMMA RunsAgree ==
    ASSUME NEW step, NEW V, NEW m \in Nat, NEW n \in Nat, m <= n,
           NEW g \in Runs(step, V, m), NEW h \in Runs(step, V, n)
    PROVE  \A k \in 0 .. m : g[k] = h[k]
  <1> DEFINE S == {k \in Nat : k <= m => g[k] = h[k]}
  <1>1. ASSUME NEW k \in Nat, 0 .. (k - 1) \subseteq S PROVE k \in S
    <2> SUFFICES ASSUME k <= m PROVE g[k] = h[k]
      OBVIOUS
    <2>1. \A j \in 0 .. (k - 1) : g[j] = h[j]
      BY <1>1
    <2>2. Below(g, k) = Below(h, k)
      BY <2>1 DEF Below
    <2> QED
      BY <2>2 DEF Runs
  <1>2. Nat \subseteq S
    <2> HIDE DEF S
    <2> QED
      BY <1>1, StrongSetInduction
  <1> QED
    BY <1>2

\* There is a run of every length.
LEMMA RunsExist ==
    ASSUME NEW step, NEW V, IsStep(step, V)
    PROVE  \A n \in Nat : Runs(step, V, n) # {}
  <1> DEFINE S == {n \in Nat : Runs(step, V, n) # {}}
  <1>1. 0 \in S
    <2> DEFINE none == [k \in 0 .. (0 - 1) |-> {}]
               g == [k \in 0 .. 0 |-> step[0][none]]
    <2>1. none \in [0 .. (0 - 1) -> V]
      OBVIOUS
    <2>2. step[0][none] \in V
      BY <2>1 DEF IsStep
    <2>3. Below(g, 0) = none
      BY DEF Below
    <2>4. g \in Runs(step, V, 0)
      BY <2>2, <2>3 DEF Runs
    <2> QED
      BY <2>4
  <1>2. ASSUME NEW n \in Nat, n \in S PROVE n + 1 \in S
    <2>1. PICK h \in Runs(step, V, n) : TRUE
      BY <1>2
    <2>2. h \in [0 .. n -> V] /\ \A k \in 0 .. n : h[k] = step[k][Below(h, k)]
      BY <2>1 DEF Runs
    <2> DEFINE new == step[n + 1][h]
               g == [k \in 0 .. (n + 1) |-> IF k = n + 1 THEN new ELSE h[k]]
    <2>3. new \in V
      BY <2>2 DEF IsStep
    <2>4. g \in [0 .. (n + 1) -> V]
      BY <2>2, <2>3
    <2>5. ASSUME NEW k \in 0 .. n PROVE g[k] = step[k][Below(g, k)]
      <3>1. Below(g, k) = Below(h, k)
        BY DEF Below
      <3> QED
        BY <2>2, <3>1
    <2>6. Below(g, n + 1) = h
      BY <2>2 DEF Below
    <2>7. g[n + 1] = step[n + 1][Below(g, n + 1)]
      <3>1. g[n + 1] = new
        OBVIOUS
      <3> HIDE DEF g
      <3> QED
        BY <2>6, <3>1
    <2>8. g \in Runs(step, V, n + 1)
      <3> HIDE DEF g
      <3> QED
        BY <2>4, <2>5, <2>7 DEF Runs
    <2> QED
      BY <2>8
  <1>3. Nat \subseteq S
    <2> HIDE DEF S
    <2> QED
      BY <1>1, <1>2, SetInduction
  <1> QED
    BY <1>3

\* A step defines a function on all numbers.
LEMMA RecursiveFunctionExists ==
    ASSUME NEW step, NEW V, IsStep(step, V)
    PROVE  \E f \in [Nat -> V] : \A n \in Nat : f[n] = step[n][Below(f, n)]
  <1> DEFINE run == [n \in Nat |-> CHOOSE g \in Runs(step, V, n) : TRUE]
             f == [n \in Nat |-> run[n][n]]
  <1>1. \A n \in Nat : run[n] \in Runs(step, V, n)
    BY RunsExist
  <1> HIDE DEF run
  <1>2. f \in [Nat -> V]
    BY <1>1 DEF Runs
  <1>3. ASSUME NEW n \in Nat PROVE f[n] = step[n][Below(f, n)]
    <2>1. \A k \in 0 .. n : run[k][k] = run[n][k]
      <3> SUFFICES ASSUME NEW k \in 0 .. n PROVE run[k][k] = run[n][k]
        OBVIOUS
      <3>1. k \in Nat /\ k <= n
        OBVIOUS
      <3> QED
        BY <1>1, <3>1, RunsAgree
    <2>2. Below(f, n) = Below(run[n], n)
      BY <2>1 DEF Below
    <2>3. run[n][n] = step[n][Below(run[n], n)]
      BY <1>1 DEF Runs
    <2> QED
      BY <2>2, <2>3
  <1> QED
    BY <1>2, <1>3
=============================================================================
