---------------------------- MODULE Commitments ----------------------------
(***************************************************************************)
(* The two Merkle trees: over the session op log (packages/wire) and over  *)
(* a library of port atoms (packages/algebra).  SHA-256 is an injective    *)
(* constructor.  Both pair left to right and pair an odd last node with    *)
(* itself, so that different leaf lists may share a root.                  *)
(***************************************************************************)
EXTENDS Integers, Sequences

Leaf(x) == <<"leaf", x>>
EmptyRoot == <<"empty">>
Node(left, right) == <<"node", left, right>>

\* One level up.
Parents(level) ==
    [i \in 1 .. (Len(level) + 1) \div 2 |->
        Node(level[2 * i - 1],
             IF 2 * i <= Len(level) THEN level[2 * i] ELSE level[2 * i - 1])]

\* buildMerkleLayers: the levels, from the hashes of the leaves up.
Layers(leaves) ==
    LET layer[n \in Nat] ==
            IF n = 0 THEN [i \in 1 .. Len(leaves) |-> Leaf(leaves[i])]
            ELSE Parents(layer[n - 1])
    IN  layer

\* How often the loops go round until one of n nodes is left.
Rounds[n \in Nat] == IF n <= 1 THEN 0 ELSE 1 + Rounds[(n + 1) \div 2]

\* merkleRootHexFromLeafDigests
Root(leaves) ==
    IF leaves = <<>> THEN EmptyRoot ELSE Layers(leaves)[Rounds[Len(leaves)]][1]

\* The place of the i-th leaf's ancestor in each level.
Places(i) ==
    LET place[n \in Nat] == IF n = 0 THEN i ELSE (place[n - 1] + 1) \div 2 IN place

\* The step of a proof from the place `index' of a level.
Sibling(level, index) ==
    LET isRight == index % 2 = 0
        j == IF isRight THEN index - 1 ELSE index + 1 IN
    [sibling |-> IF j <= Len(level) THEN level[j] ELSE level[index],
     side |-> IF isRight THEN "left" ELSE "right"]

\* proveMembership: the siblings from the i-th leaf to the root.
Siblings(leaves, i) ==
    [n \in 1 .. Rounds[Len(leaves)] |->
        Sibling(Layers(leaves)[n - 1], Places(i)[n - 1])]

\* hashUp: one step, and all of them.
Climb(step, hash) ==
    IF step.side = "left" THEN Node(step.sibling, hash) ELSE Node(hash, step.sibling)

Hashes(leaf, path) ==
    LET hash[n \in 0 .. Len(path)] ==
            IF n = 0 THEN leaf ELSE Climb(path[n], hash[n - 1])
    IN  hash

HashUp(leaf, path) == Hashes(leaf, path)[Len(path)]
=============================================================================
