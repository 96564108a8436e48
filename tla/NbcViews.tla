------------------------------ MODULE NbcViews ------------------------------
(***************************************************************************)
(* What the NBC package reads off the persistence graph: the admission     *)
(* check that runs inside the bind transaction, and the helpers a host     *)
(* uses to decide which ports to offer, whose turn it is and whether the   *)
(* negotiation has run out (packages/nbc/src).  No state of its own.       *)
(*                                                                         *)
(* A timing is a turn sequence number and an effective time; time 0 stands *)
(* for `undefined', when the clock has no conservative estimate.           *)
(***************************************************************************)
EXTENDS GraphStore

NoTime == 0

\* isTurnExpiryOk and isEpochExpiryOk; an unknown time fails closed.
IsOpen(w, seq, now) ==
    /\ w.turn = 0 \/ seq < w.turn
    /\ w.at = 0 \/ (now # NoTime /\ now < w.at)

\* Slips in the admission check: the port's window not looked at, the tally
\* left out.
AdmissibleIgnoringPortWindow(o, p, seq, now) ==
    /\ o \in DOMAIN offerNbc /\ p \in DOMAIN portNbc
    /\ IsOpen(offerNbc[o], seq, now)
    /\ IsExposed(p)
    /\ HasCapacity(p)

AdmissibleIgnoringCapacity(o, p, seq, now) ==
    /\ o \in DOMAIN offerNbc /\ p \in DOMAIN portNbc
    /\ IsOpen(offerNbc[o], seq, now)
    /\ IsOpen(portNbc[p], seq, now)
    /\ IsExposed(p)

\* checkNbcBindAdmission
Admissible(o, p, seq, now) ==
    /\ o \in DOMAIN offerNbc
    /\ p \in Ports /\ p \in DOMAIN portNbc
    /\ IsOpen(offerNbc[o], seq, now)
    /\ IsOpen(portNbc[p], seq, now)
    /\ IsExposed(p)
    /\ HasCapacity(p)

\* Slip: `>' for `>='.
UsedUpIfListed(p) ==
    \A c \in Canonical(ports, p) : c \in DOMAIN caps /\ Tally(c) > caps[c]

\* Used up, as the read helpers see it: a canonical port without a recorded
\* policy counts as DEFAULT_MAX_BINDINGS, one.
UsedUp(p) ==
    \A c \in Canonical(ports, p) :
        Tally(c) >= IF c \in DOMAIN caps THEN caps[c] ELSE 1

\* getNbcBindWindowForPort gives a port without a recorded window an open one.
PortWindow(p) == IF p \in DOMAIN portNbc THEN portNbc[p] ELSE NoWindow

\* EXPOSES edges whose port and exposing offer are both still open: the common
\* part of getBindablePortsForParty and isSessionAdvanceable.
OpenEdges(seq, now) ==
    {i \in DOMAIN exposes :
        /\ IsOpen(PortWindow(exposes[i].port), seq, now)
        /\ IsOpen(offerNbc[exposes[i].offer], seq, now)}

\* getBindablePortsForParty: the ports a counterparty offers for binding.
BindablePorts(party, seq, now) ==
    {p \in Port : ~UsedUp(p) /\ \E i \in OpenEdges(seq, now) :
        exposes[i].port = p /\ extends[exposes[i].offer] = party}

\* isSessionAdvanceable and nbcNaturalStop; max_bindings is not consulted.
IsSessionAdvanceable(seq, now) == OpenEdges(seq, now) # {}

NaturalStop(exposedThisTurn, seq, now) ==
    exposedThisTurn = 0 /\ ~IsSessionAdvanceable(seq, now)
-----------------------------------------------------------------------------
(***************************************************************************)
(* collectNbcChainGraph orders offers by their first mention in the        *)
(* EXPOSES edges and then in the BINDS rows, and knows only those offers   *)
(* and the parties that extended them.                                     *)
(***************************************************************************)
Mentions == [i \in DOMAIN exposes |-> exposes[i].offer]
              \o [i \in DOMAIN binds |-> binds[i].offer]

GraphOffers == {Mentions[i] : i \in DOMAIN Mentions} \cap Offers

GraphParties == {extends[o] : o \in GraphOffers}

FirstMention(o) ==
    CHOOSE i \in DOMAIN Mentions :
        Mentions[i] = o /\ \A j \in 1..(i - 1) : Mentions[j] # o

\* The offer the graph lists last.
LastOffer ==
    CHOOSE o \in GraphOffers :
        \A x \in GraphOffers : FirstMention(x) <= FirstMention(o)

\* availablePortsFor, without a timing (as whoShouldActWithChainState calls it).
AvailablePortsFor(party) ==
    {p \in Port : ~UsedUp(p) /\ \E i \in DOMAIN exposes :
        exposes[i].port = p /\ extends[exposes[i].offer] # party}

\* whoShouldAct of a bilateral negotiation: the party that acts next, or none.
WhoShouldAct(initiator) ==
    IF GraphOffers = {}
    THEN {initiator}
    ELSE {p \in GraphParties : p # extends[LastOffer] /\ AvailablePortsFor(p) # {}}
=============================================================================
