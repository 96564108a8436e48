----------------------------- MODULE BindLedger -----------------------------
(***************************************************************************)
(* What a persistence store promises about bind capacity (rules N2, N5 and *)
(* N6 of the Negotiated Binding Convention), with the graph abstracted     *)
(* away.  A canonical port is listed once, with a capacity that never      *)
(* changes; binds take its units one at a time; units are never given      *)
(* back.  GraphStore and NbcTurn are shown to implement this               *)
(* specification.                                                          *)
(***************************************************************************)
EXTENDS Naturals

CONSTANTS
    Port,              \* identities a canonical port may have
    Caps               \* capacities a listing may ask for

VARIABLES capacity,    \* listed canonical port -> max_bindings
          used         \* listed canonical port -> binds counted against it

vars == <<capacity, used>>

Extended(f, k, v) == [x \in DOMAIN f \cup {k} |-> IF x = k THEN v ELSE f[x]]

Init ==
    /\ capacity = [c \in {} |-> 0]
    /\ used = [c \in {} |-> 0]

\* A canonical port is listed with a positive capacity, wholly unused.
List(c, n) ==
    /\ c \notin DOMAIN capacity
    /\ n >= 1
    /\ capacity' = Extended(capacity, c, n)
    /\ used' = Extended(used, c, 0)

\* One bind takes one unit of what is left.
Take(c) ==
    /\ used[c] < capacity[c]
    /\ used' = [used EXCEPT ![c] = @ + 1]
    /\ UNCHANGED capacity

Next ==
    \/ \E c \in Port : \E n \in Caps : List(c, n)
    \/ \E c \in DOMAIN capacity : Take(c)

Spec == Init /\ [][Next]_vars
=============================================================================
