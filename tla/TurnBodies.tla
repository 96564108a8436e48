----------------------------- MODULE TurnBodies -----------------------------
(***************************************************************************)
(* packages/nbc: from what a host's model puts out, over the host profiles *)
(* (opening, continue, leave) to the wire body, and from the wire body to  *)
(* the turn the peer parses.  Data from outside is a record whose fields   *)
(* are {} when absent and {v} when given.  A number is counted in halves,  *)
(* so that an odd one is no integer; NULL is the JSON null.                *)
(***************************************************************************)
EXTENDS Integers, Sequences, SequencesExt

CONSTANTS
    NULL,
    MaxSafe,        \* Number.MAX_SAFE_INTEGER
    Exponential     \* the first number String() prints with an exponent

ASSUME NumberAssumption == MaxSafe \in Nat /\ Exponential \in Nat /\ MaxSafe < Exponential

VARIABLES
    raw,        \* what the model put out
    context     \* [opening, ports]: the host's view of the negotiation

bodyVars == <<raw, context>>

Given(field, default) == IF field = {} THEN default ELSE CHOOSE v \in field : TRUE
IsInteger(n) == n % 2 = 0
NonnegInt(field) == \A n \in field : IsInteger(n) /\ n >= 0

\* parseOpeningPort: max_bindings is any number, whatever PORT_JSON_SCHEMA says.
OpeningPortOK(p) ==
    /\ p.kind # "" /\ p.promise # ""
    /\ NonnegInt(p.expires_turn) /\ NonnegInt(p.expires_at_ms)

\* bindPayloadSchemaForPort: {} refused, {v} accepted as v.  An active policy
\* lists the payloads that fit it.
AcceptedPayload(policy, payload) ==
    IF policy = NULL
    THEN IF payload \in {{}, {NULL}, {"empty"}} THEN {"empty"} ELSE {}
    ELSE IF payload \in policy.fits THEN payload ELSE {}

\* openingTurnSchema
OpeningTurn(v) ==
    IF /\ v.expose # {} /\ v.bind = {} /\ v.disconnect = {}
       /\ \A ports \in v.expose : ports # <<>> /\ \A p \in ToSet(ports) : OpeningPortOK(p)
    THEN {[profile |-> "opening", expose |-> v.expose, bind |-> {}]}
    ELSE {}

\* leaveTurnSchema
LeaveTurn(v) ==
    IF v.disconnect = {TRUE}
    THEN {[profile |-> "leave", expose |-> {}, bind |-> {}]} ELSE {}

\* Slip: the list of bindable ports is not consulted.
BindableAll(ports, id) == TRUE

\* An empty list allows every port.
Bindable(ports, id) == ports = {} \/ \E p \in ports : p.id = id

PolicyOf(ports, id) ==
    LET listed == {p \in ports : p.id = id} IN
    IF listed = {} THEN NULL ELSE (CHOOSE p \in listed : TRUE).policy

\* continueTurnSchemaForPorts
ContinueTurn(ports, v) ==
    {[profile |-> "continue", expose |-> v.expose,
      bind |-> {[portId |-> chosen[1].portId, payload |-> chosen[2]]}] :
        chosen \in {x \in v.bind \X {"empty", "payload", "other"} :
                /\ v.disconnect # {TRUE}
                /\ x[1].portId # "" /\ Bindable(ports, x[1].portId)
                /\ x[2] \in AcceptedPayload(PolicyOf(ports, x[1].portId), x[1].payload)
                /\ \A exposed \in v.expose : \A p \in ToSet(exposed) : OpeningPortOK(p)}}

\* negotiationTurnEnvelopeSchema: a disconnect is a leave whatever else it says.
ParseEnvelope(v, ctx) ==
    IF v.disconnect = {TRUE} THEN LeaveTurn(v)
    ELSE IF ctx.opening THEN OpeningTurn(v)
    ELSE ContinueTurn(ctx.ports, v)

\* openingPortToSpec
OpeningPortToSpec(p) ==
    [id |-> Given(p.id, ""), kind |-> p.kind, promise |-> p.promise,
     expires_turn |-> Given(p.expires_turn, 0),
     expires_at_ms |-> Given(p.expires_at_ms, 0),
     bind_policy |-> Given(p.bind_policy, NULL), ref |-> Given(p.ref, ""),
     max_bindings |-> p.max_bindings, terminal |-> p.terminal]

\* offerTypeFor: after the first port exposed.
OfferType(turn) ==
    IF \E ports \in turn.expose : ports # <<>>
    THEN Given(turn.expose, <<>>)[1].kind ELSE "slot"

\* Slip: a turn that exposes is taken for an opening.
HostTurnToBodyByExpose(turn) ==
    [type |-> OfferType(turn),
     ports |-> LET exposed == Given(turn.expose, <<>>) IN
               [i \in 1 .. Len(exposed) |-> OpeningPortToSpec(exposed[i])],
     bind_port_id |-> IF turn.expose # {} \/ turn.bind = {} THEN ""
                      ELSE Given(turn.bind, NULL).portId,
     bind_payload |-> IF turn.bind = {} THEN NULL ELSE Given(turn.bind, NULL).payload]

\* hostTurnToNbcBody
HostTurnToNbcBody(turn) ==
    [type |-> OfferType(turn),
     ports |-> LET exposed == Given(turn.expose, <<>>) IN
               [i \in 1 .. Len(exposed) |-> OpeningPortToSpec(exposed[i])],
     bind_port_id |-> IF turn.bind = {} THEN "" ELSE Given(turn.bind, NULL).portId,
     bind_payload |-> IF turn.bind = {} THEN NULL ELSE Given(turn.bind, NULL).payload]

\* epochMsForWire: past MAX_SAFE_INTEGER a number is sent as the string it prints as.
EpochMsForWire(n) ==
    [value |-> n,
     as |-> IF n <= MaxSafe THEN "number" ELSE IF n < Exponential THEN "digits" ELSE "text"]

\* serializeNbcTurnBodyForWire
PortForWire(p) == [p EXCEPT !.expires_at_ms = EpochMsForWire(@)]
Serialized(body) ==
    [body EXCEPT !.ports = [i \in DOMAIN @ |-> PortForWire(@[i])]]

\* negotiationOutputToWire: {} when it throws.
OutputToWire(v, ctx) ==
    {IF turn.profile = "leave" THEN [kind |-> "disconnect"]
     ELSE [kind |-> "offer", body |-> Serialized(HostTurnToNbcBody(turn))] :
        turn \in ParseEnvelope(v, ctx)}

\* parseNbcPortSpec does not throw.
PortSpecOK(p) ==
    /\ p.kind # ""
    /\ IsInteger(p.expires_turn) /\ p.expires_turn >= 0
    /\ p.expires_at_ms.as # "text"
    /\ IsInteger(p.expires_at_ms.value) /\ p.expires_at_ms.value >= 0
    /\ \A n \in p.max_bindings : IsInteger(n) /\ n >= 2

\* The port parseNbcPortSpec returns: toEpochMs reads a string of digits back.
ParsedPort(p) == [p EXCEPT !.expires_at_ms = @.value]

\* parseNbcTurnBody: {} when it throws.
ParseNbcTurnBody(body) ==
    IF \A p \in ToSet(body.ports) : PortSpecOK(p)
    THEN {[body EXCEPT !.ports = [i \in DOMAIN @ |-> ParsedPort(@[i])]]}
    ELSE {}
-----------------------------------------------------------------------------
\* A port the host profile lets through and no peer parses: max_bindings is not
\* a positive integer, or its deadline prints with an exponent.
Unparsable(p) ==
    \/ \E n \in p.max_bindings : ~IsInteger(n) \/ n < 2
    \/ \E n \in p.expires_at_ms : n >= Exponential

Outputs == OutputToWire(raw, context)
Offered == {w.body : w \in {x \in Outputs : x.kind = "offer"}}

\* Whatever the host's model puts out and the profile accepts, the peer parses
\* a turn with the same ports in the same order, that binds the port the model
\* named, one the host listed if it listed any, with a payload that fits its
\* policy; but for the two values above, which the host alone lets through.
MeantIsParsed ==
    \A body \in Offered :
        LET exposed == Given(raw.expose, <<>>)
            parsed == ParseNbcTurnBody(body) IN
        /\ parsed = {} <=> \E p \in ToSet(exposed) : Unparsable(p)
        /\ \A turn \in parsed :
              /\ Len(turn.ports) = Len(exposed)
              /\ \A i \in DOMAIN exposed : turn.ports[i] = OpeningPortToSpec(exposed[i])
              /\ turn.bind_port_id =
                    IF context.opening THEN "" ELSE Given(raw.bind, NULL).portId
              /\ ~context.opening =>
                    /\ context.ports # {} =>
                          \E p \in context.ports : p.id = turn.bind_port_id
                    /\ {turn.bind_payload} =
                          AcceptedPayload(PolicyOf(context.ports, turn.bind_port_id),
                                          Given(raw.bind, NULL).payload)
=============================================================================
