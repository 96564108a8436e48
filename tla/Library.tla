------------------------------ MODULE Library ------------------------------
(***************************************************************************)
(* packages/algebra: an agent's repertoire of port atoms, commitments to   *)
(* it and membership proofs.  The repertoire goes on changing after a      *)
(* commitment was handed out, and proofs outlive the one they were made    *)
(* for.                                                                    *)
(***************************************************************************)
EXTENDS Commitments, FiniteSets, SequencesExt

CONSTANTS
    OutAtoms, InAtoms,  \* the atoms of either polarity
    Order,              \* all of them, as sort() orders their hashes
    MaxCommitted        \* bound: commitments handed out

Atoms == OutAtoms \cup InAtoms

ASSUME LibraryAssumption ==
    /\ Order \in Seq(Atoms) /\ ToSet(Order) = Atoms
    /\ \A i, j \in 1 .. Len(Order) : Order[i] = Order[j] => i = j
    /\ MaxCommitted \in Nat

VARIABLES
    out, in,    \* the repertoire
    committed   \* the commitments handed out

libraryVars == <<out, in, committed>>

\* The atoms, sorted, by the places of the order that were looked at.
Sorted(atoms) ==
    LET kept[n \in 0 .. Len(Order)] ==
            IF n = 0 THEN <<>>
            ELSE IF Order[n] \in atoms THEN Append(kept[n - 1], Order[n])
            ELSE kept[n - 1]
    IN  kept

\* commitLibrary: sorted, unique leaves.
CommitLibrary(atoms) ==
    LET leaves == Sorted(atoms)[Len(Order)] IN
    [root |-> Root(leaves), leaves |-> leaves]

\* proveMembership: no proof for an atom that is not a leaf ({} or {proof}).
ProveMembership(atom, commitment) ==
    {[leaf |-> atom, root |-> commitment.root, path |-> Siblings(commitment.leaves, i)] :
        i \in {k \in 1 .. Len(commitment.leaves) : commitment.leaves[k] = atom}}

VerifyMembership(proof) == HashUp(Leaf(proof.leaf), proof.path) = proof.root

\* Slip: the proof is checked against the root it names itself.
VerifyAgainstOwnRoot(proof, commitment) == VerifyMembership(proof)

VerifyInCommitment(proof, commitment) ==
    proof.root = commitment.root /\ VerifyMembership(proof)

LibraryInit == out = {} /\ in = {} /\ committed = {}

AddOut == \E a \in OutAtoms : out' = out \cup {a} /\ UNCHANGED <<in, committed>>
AddIn == \E a \in InAtoms : in' = in \cup {a} /\ UNCHANGED <<out, committed>>
RemoveOut == \E a \in out : out' = out \ {a} /\ UNCHANGED <<in, committed>>
RemoveIn == \E a \in in : in' = in \ {a} /\ UNCHANGED <<out, committed>>

\* The two sides are committed to apart or, as the tests do, together.
Commit ==
    \E atoms \in {out, in, out \cup in} :
        /\ Cardinality(committed) < MaxCommitted
        /\ committed' = committed \cup {CommitLibrary(atoms)}
        /\ UNCHANGED <<out, in>>

LibraryNext == AddOut \/ AddIn \/ RemoveOut \/ RemoveIn \/ Commit

LibrarySpec == LibraryInit /\ [][LibraryNext]_libraryVars
-----------------------------------------------------------------------------
\* Against every commitment handed out, each leaf has a proof that verifies, no
\* proof made for any commitment verifies for an atom that is not a leaf, also
\* when its leaf or its root is exchanged, and two libraries never share a root.
MembershipExact ==
    \A c, d \in committed :
        /\ c.root = d.root => c.leaves = d.leaves
        /\ \A a \in Atoms :
              LET proofs == ProveMembership(a, d) IN
              /\ a \in ToSet(d.leaves) => \E proof \in proofs : VerifyInCommitment(proof, d)
              /\ \A proof \in proofs :
                    VerifyInCommitment(proof, c) => a \in ToSet(c.leaves)
              /\ \A proof \in proofs, b \in Atoms :
                    VerifyInCommitment([proof EXCEPT !.leaf = b, !.root = c.root], c) =>
                        b \in ToSet(c.leaves)
=============================================================================
