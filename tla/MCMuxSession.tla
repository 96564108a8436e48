---------------------------- MODULE MCMuxSession ----------------------------
(***************************************************************************)
(* Two sessions for TLC, whose inits share a genesis, and two waits: one   *)
(* with a timeout and a signal, and one whose predicate throws.            *)
(***************************************************************************)
EXTENDS MuxSession

MCFirst == [sid |-> "s1", genesis |-> "g1"]
MCShared == [sid |-> "s2", genesis |-> "g1"]
MCInits == {MCFirst, MCShared}

Started(role, plans, admits, whenIdle, onTerminate) ==
    [role |-> role, plans |-> plans, template |-> admits,
     closeWhenIdle |-> whenIdle, closeOnTerminate |-> onTerminate]

\* Opener with the parties pinned, opener without a template, plans that
\* repeat and plans that differ, and a responder.
MCModes ==
    {Started("opener", <<>>, MCInits, TRUE, FALSE),
     Started("opener", <<>>, {}, TRUE, TRUE),
     Started("plans", <<MCFirst, MCFirst>>, {MCFirst}, TRUE, FALSE),
     Started("plans", <<MCFirst, MCShared>>, {MCFirst}, TRUE, TRUE),
     Started("responder", <<>>, {MCFirst}, TRUE, FALSE)}

MCHome == [w \in {"w1", "w2"} |-> "s1"]
MCAnswer == [w \in {"w1", "w2"} |->
                IF w = "w1" THEN [b \in {"t"} |-> "yes"] ELSE [b \in {"t"} |-> "throws"]]
=============================================================================
