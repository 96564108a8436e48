----------------------------- MODULE MCNbcTurn ------------------------------
(***************************************************************************)
(* Turns for TLC: one listing with room for one bind, an alias of it, a    *)
(* second listing of it with another policy, and four ways to bind it.     *)
(***************************************************************************)
EXTENDS NbcTurn

CONSTANTS a1, a2, o1, o2, o3, p1, p2, s1, s2

MCParty    == {a1, a2}
MCOffer    == {o1, o2, o3}
MCPort     == {p1, p2}
MCSession  == {s1, s2}
MCPolicies == {"none", "strict", "lax"}

Until2    == [turn |-> 0, at |-> 2]
OneTurn   == [turn |-> 1, at |-> 0]
MCWindows == {NoWindow, Until2, OneTurn}

Spec1(id, ref, policy, w) ==
    [id |-> id, ref |-> ref, policy |-> policy, n |-> 1, w |-> w]

Turn1(o, a, specs, bind, payload) ==
    [offer |-> o, party |-> a, w |-> NoWindow, ports |-> specs, bind |-> bind,
     payload |-> payload]

Opening == Turn1(o1, a1, <<Spec1(p1, NoPort, "strict", NoWindow)>>, NoPort, "none")
Binding   == Turn1(o2, a2, <<>>, p1, "strict")
Unfit     == Turn1(o3, a2, <<>>, p1, "none")
Relisting == Turn1(o2, a2, <<Spec1(p1, NoPort, "lax", Until2)>>, p1, "lax")
Alias     == Turn1(o3, a2, <<Spec1(p2, p1, "none", OneTurn)>>, p2, "none")

MCBodies == {Opening, Binding, Unfit, Relisting, Alias}

\* Opening, a bind of it, and a further offer by the first party.
Further  == Turn1(o3, a1, <<Spec1(p2, NoPort, "none", NoWindow)>>, NoPort, "none")
ReadBodies == {Opening, Binding, Further}

\* A port listed with one policy, and a turn that lists it again with another.
RelistBodies == {Opening, Relisting}

\* One session, for the questions about a single negotiation.
OneSession == {s1}
=============================================================================
