---------------------------- MODULE MCOperators ----------------------------
(***************************************************************************)
(* The parts that share no state with the session, each explored alone:    *)
(* `part` says which one, the others stay as they began.                   *)
(***************************************************************************)
EXTENDS HybridClock, SessionLog, OfferAlgebra, Library, TurnBodies, PolicyCache

VARIABLE part

vars == <<part, clockVars, logVars, algebraVars, libraryVars, bodyVars, cacheVars>>

MCFrames ==
    {[type |-> "turn", actor |-> "A", body |-> "x"],
     [type |-> "terminate", actor |-> "B", body |-> "x"]}

MCOutAtoms == {"b", "d", "e"}
MCInAtoms == {"a", "c"}
MCOrder == <<"a", "b", "c", "d", "e">>

MCPolicies == {[fits |-> {{"payload"}}], [fits |-> {{"empty"}, {"payload"}}]}

\* One sound port, and ports that differ from it in one field.
Port ==
    [id |-> {}, kind |-> "slot", promise |-> "p", expires_turn |-> {}, expires_at_ms |-> {},
     bind_policy |-> {}, ref |-> {}, max_bindings |-> {}, terminal |-> {}]

MCRawPorts ==
    {Port} \cup {[Port EXCEPT !.id = {"x"}, !.ref = {"y"}, !.terminal = {TRUE}]}
    \cup {[Port EXCEPT !.kind = ""], [Port EXCEPT !.promise = ""]}
    \cup {[Port EXCEPT !.max_bindings = {n}] : n \in {-2, 0, 1, 2, 4, 5}}
    \cup {[Port EXCEPT !.expires_turn = {n}] : n \in {-2, 0, 1, 2}}
    \cup {[Port EXCEPT !.expires_at_ms = {n}] : n \in {-2, 0, 1, 2, 8, 10, 14, 16, 18}}
    \cup {[Port EXCEPT !.bind_policy = {p}] : p \in MCPolicies \cup {NULL}}

MCExposed ==
    {{}, {<<>>}} \cup {{<<p>>} : p \in MCRawPorts}
    \cup {{<<Port, p>>} : p \in MCRawPorts} \cup {{<<p, Port>>} : p \in MCRawPorts}

MCBinds ==
    {{}} \cup {{[portId |-> id, payload |-> payload]} :
        id \in {"", "x", "y"},
        payload \in {{}, {NULL}, {"empty"}, {"payload"}, {"other"}}}

MCRawTurns == [expose : MCExposed, bind : MCBinds, disconnect : {{}, {TRUE}, {FALSE}}]

MCPeerPorts ==
    {{}} \cup {{[id |-> "x", policy |-> p]} : p \in MCPolicies \cup {NULL}}
    \cup {{[id |-> "x", policy |-> NULL], [id |-> "y", policy |-> p]} : p \in MCPolicies}

MCDocuments ==
    {[content |-> c, root |-> "object", strict |-> TRUE, id |-> {}] : c \in {"a", "b", "c"}}
    \cup {[content |-> c, root |-> "object", strict |-> TRUE, id |-> {"i"}] : c \in {"d", "e"}}
    \cup {[content |-> "f", root |-> "array", strict |-> TRUE, id |-> {}],
          [content |-> "g", root |-> "object", strict |-> FALSE, id |-> {"j"}]}

NoOffer == [in |-> {}, out |-> {}]
NoTurn == [expose |-> {}, bind |-> {}, disconnect |-> {TRUE}]

Init ==
    /\ part \in {"clock", "log", "algebra", "library", "bodies", "cache"}
    /\ ClockInit
    /\ part # "clock" => \A p \in Peers : hlc[p].pt = 0
    /\ LogInit
    /\ offers \in IF part = "algebra"
                  THEN [1 .. 3 -> Interfaces] ELSE {[i \in 1 .. 3 |-> NoOffer]}
    /\ LibraryInit
    /\ raw \in IF part = "bodies" THEN MCRawTurns ELSE {NoTurn}
    /\ context \in IF part = "bodies"
                   THEN [opening : BOOLEAN, ports : MCPeerPorts]
                   ELSE {[opening |-> TRUE, ports |-> {}]}
    /\ CacheInit

Next ==
    \/ /\ part = "clock" /\ ClockNext
       /\ UNCHANGED <<part, logVars, algebraVars, libraryVars, bodyVars, cacheVars>>
    \/ /\ part = "log" /\ LogNext
       /\ UNCHANGED <<part, clockVars, algebraVars, libraryVars, bodyVars, cacheVars>>
    \/ /\ part = "library" /\ LibraryNext
       /\ UNCHANGED <<part, clockVars, logVars, algebraVars, bodyVars, cacheVars>>
    \/ /\ part = "cache" /\ CacheNext
       /\ UNCHANGED <<part, clockVars, logVars, algebraVars, libraryVars, bodyVars>>

Symmetry == Permutations(Peers) \cup Permutations(Ids)

Spec == Init /\ [][Next]_vars
=============================================================================
