--------------------------- MODULE OrderedChannel ---------------------------
(***************************************************************************)
(* What the frame layer asks of a byte stream and its decoder: the         *)
(* messages of each peer are handled in the order they were sent, each at  *)
(* most once, and none is passed over unless an error was reported first.  *)
(***************************************************************************)
EXTENDS Integers, Sequences

CONSTANT Peers

VARIABLES
    sent,       \* peer -> how many messages it has sent
    handled,    \* peer -> numbers of its messages the other has handled
    reported    \* peers whose stream had an error reported to the other

channelVars == <<sent, handled, reported>>

Init ==
    /\ sent = [p \in Peers |-> 0]
    /\ handled = [p \in Peers |-> <<>>]
    /\ reported = {}

Last(p) == IF handled[p] = <<>> THEN 0 ELSE handled[p][Len(handled[p])]

Send(p) ==
    /\ sent' = [sent EXCEPT ![p] = @ + 1]
    /\ UNCHANGED <<handled, reported>>

Handle(p, n) ==
    /\ n \in Last(p) + 1 .. sent[p]
    /\ n = Last(p) + 1 \/ p \in reported
    /\ handled' = [handled EXCEPT ![p] = Append(@, n)]
    /\ UNCHANGED <<sent, reported>>

Report(p) ==
    /\ reported' = reported \cup {p}
    /\ UNCHANGED <<sent, handled>>

Next == \E p \in Peers : Send(p) \/ Report(p) \/ \E n \in 1 .. sent[p] : Handle(p, n)

Spec == Init /\ [][Next]_channelVars
=============================================================================
