---------------------------- MODULE MCGraphStore ----------------------------
(***************************************************************************)
(* A small store for TLC: two offers and three ports suffice for a port    *)
(* that refers to another, a self reference, a second expose of the same   *)
(* id and two binds that compete for one unit.                             *)
(***************************************************************************)
EXTENDS GraphStore, TLC

CONSTANTS a1, o1, o2, p1, p2, p3

MCParty    == {a1}
MCOffer    == {o1, o2}
MCPort     == {p1, p2, p3}
MCWindows  == {[turn |-> 0, at |-> 0]}
MCPolicies == {"none"}

\* Identities carry no meaning to the store.
Symmetry == Permutations(MCOffer) \cup Permutations(MCPort)
=============================================================================
