---------------------------- MODULE HybridClock ----------------------------
(***************************************************************************)
(* nbc-hlc.ts: hybrid logical clocks of peers that stamp turns and judge   *)
(* bind windows.  Date.now() is an argument of every call and may jump     *)
(* either way between two of them.  Frames may be delayed, reordered or    *)
(* lost; a replayed one is refused before its clock block is read.         *)
(***************************************************************************)
EXTENDS Integers

CONSTANTS
    Peers,
    Ids,        \* frames that may be sent
    Walls,      \* readings of the wall clocks
    MaxSkew     \* HLC_MAX_SKEW_MS

ASSUME ClockAssumption == Walls \subseteq Nat /\ MaxSkew \in Nat

VARIABLES
    hlc,        \* hlc[p]: its HlcState
    mail,       \* the stamped frames, with what their sender had heard before
    heard,      \* heard[p]: frames p sent or received, and what they follow
    samples     \* samples[p]: how many observations p has, and their sum

clockVars == <<hlc, mail, heard, samples>>

Stamp == [pt : Nat, lc : Nat]
Mail == [id : Ids, at : Stamp, after : SUBSET Ids]

ClockTypeOK ==
    /\ hlc \in [Peers -> Stamp]
    /\ mail \subseteq Mail
    /\ heard \in [Peers -> SUBSET Ids]
    /\ samples \in [Peers -> [sum : Int, count : Nat]]

Larger(a, b) == IF a >= b THEN a ELSE b

ClockInit ==
    /\ hlc \in [Peers -> {[pt |-> w, lc |-> 0] : w \in Walls}]
    /\ mail = {}
    /\ heard = [p \in Peers |-> {}]
    /\ samples = [p \in Peers |-> [sum |-> 0, count |-> 0]]

SendHlc(state, wall) ==
    IF state.pt >= wall
    THEN [state EXCEPT !.lc = @ + 1]
    ELSE [pt |-> wall, lc |-> 0]

\* Slip: a tie with the message counts on from the local counter.
RecvHlcLocally(state, msg, wall) ==
    LET pt == Larger(Larger(state.pt, msg.pt), wall) IN
    [pt |-> pt,
     lc |-> CASE pt = state.pt -> state.lc + 1
              [] pt # state.pt /\ pt = msg.pt -> msg.lc + 1
              [] pt # state.pt /\ pt # msg.pt -> 0]

RecvHlc(state, msg, wall) ==
    LET pt == Larger(Larger(state.pt, msg.pt), wall) IN
    [pt |-> pt,
     lc |-> CASE pt = state.pt /\ pt = msg.pt -> Larger(state.lc, msg.lc) + 1
              [] pt = state.pt /\ pt # msg.pt -> state.lc + 1
              [] pt # state.pt /\ pt = msg.pt -> msg.lc + 1
              [] pt # state.pt /\ pt # msg.pt -> 0]

Send(p) ==
    \E id \in Ids, wall \in Walls :
        LET at == SendHlc(hlc[p], wall) IN
        /\ \A m \in mail : m.id # id
        /\ hlc' = [hlc EXCEPT ![p] = at]
        /\ mail' = mail \cup {[id |-> id, at |-> at, after |-> heard[p]]}
        /\ heard' = [heard EXCEPT ![p] = @ \cup {id}]
        /\ UNCHANGED samples

Receive(p) ==
    \E m \in mail, wall \in Walls :
        /\ m.id \notin heard[p]
        /\ hlc' = [hlc EXCEPT ![p] = RecvHlc(@, m.at, wall)]
        /\ heard' = [heard EXCEPT ![p] = @ \cup m.after \cup {m.id}]
        /\ samples' = [samples EXCEPT ![p] =
                         [sum |-> @.sum + wall - m.at.pt, count |-> @.count + 1]]
        /\ UNCHANGED mail

ClockNext == \E p \in Peers : Send(p) \/ Receive(p)

ClockSpec == ClockInit /\ [][ClockNext]_clockVars

HlcPhysicalNow(state, wall) == Larger(state.pt, wall)

\* estimateSkewMs averages; both sides are multiplied by the count instead.
Trusted(s) == s.count >= 1 /\ s.sum <= MaxSkew * s.count /\ -s.sum <= MaxSkew * s.count

\* Slip: the clock itself is left out of the effective time.
PassedBySkew(p, deadline, wall) ==
    deadline * samples[p].count <= wall * samples[p].count + samples[p].sum

\* conservativeEffectiveNow, compared with a deadline (once Trusted).
Passed(p, deadline, wall) ==
    \/ deadline <= HlcPhysicalNow(hlc[p], wall)
    \/ deadline * samples[p].count <= wall * samples[p].count + samples[p].sum
-----------------------------------------------------------------------------
Before(s, t) == s.pt < t.pt \/ (s.pt = t.pt /\ s.lc < t.lc)

\* A frame sent after its sender had heard of another carries a later stamp,
\* however the wall clocks jump and whatever order frames arrive in.
CausalOrder ==
    \A m, n \in mail : m.id \in n.after => Before(m.at, n.at)

\* A time some peer has stamped is past for everyone who heard of the stamp,
\* directly or not: a bind window that had closed by a stamp is closed for all of
\* them.  (One that closed by a peer's wall clock alone, short of a stamp, is not
\* covered: no frame carries that.)
ClosedForAllWhoHeard ==
    \A p \in Peers, m \in mail, wall \in Walls :
        m.id \in heard[p] /\ Trusted(samples[p]) => Passed(p, m.at.pt, wall)

\* Both promises of the clock: stamps follow causality, and the clock follows stamps.
ClockIsSound == CausalOrder /\ ClosedForAllWhoHeard
=============================================================================
