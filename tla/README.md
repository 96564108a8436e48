# Open Binding Protocol: specifications

TLA+ specifications of the Open Binding Protocol reference implementation
(`src/packages`), model-checked with TLC and, for the theorems, proved with
TLAPS. `PROJECT.json` lists the components, the runs, the source lines behind
every definition, the hazards and the theorems; this file explains them.

## 1. The system

Two parties negotiate by exchanging signed frames. Each TURN frame extends an
*offer*, may *expose* ports on it and may *bind* one port of the other party.
Every peer applies the turns it sends and receives to a *persistence graph* of
parties, offers and ports.

| Component | State | Operations | Modelled in |
|---|---|---|---|
| Persistence graph store (`core/persistence`: in-memory, SQLite) | parties, EXTENDS, ports with `ref` and `bind_policy`, EXPOSES and BINDS rows, capacities, bind windows | `registerParty`, `extendOffer`, `exposePort`, `bindPort`, `setPortExpiredNow`, `setOfferExpiredNow` | `GraphStore`, `BindLedger` |
| NBC turn application (`nbc/nbc-turn.ts`, `nbc-invariants.ts`) | none of its own: locals across awaits, over the store | `applyNbcTurn` | `NbcTurn` |
| NBC read helpers (`nbc-session.ts`, `nbc-acting-party.ts`, `nbc-chain-graph.ts`) | none | bindable ports, natural stop, who should act | `NbcViews` |
| Frame multiplex runtime (`wire/frame`) | per chain: log, DAG tip, confirmed length, owed acknowledgement; per channel: chains, tip routing, dedupe set, frame mutex, session template, error count, `channelDead` | `init`, `close`, sequential plans, read loop, `sendTurn`, `endOffers`, `terminate`, callbacks, envelope flush, idle close | `FrameChain` (one chain, both peers), `MuxSession` (one runtime, all its chains) |
| Negotiation coordinator | waits with predicate, timer and signal listener | `waitForTurn`, fulfilment, rejection, `dispose` | `Coordinator`, composed in `MuxSession` |
| Byte streams and frame decoder | bounded inbound queue, partial frame buffer | `write`, overflow, `close`; `push` | `FrameDecoder`, `FrameStream`, `OrderedChannel` |
| Session checkpoints | an op log | ops of a frame, checkpoint, both verifiers | `Commitments`, `SessionLog` |
| Hybrid logical clock | `pt`, `lc`, samples of observed time | `sendHlc`, `recvHlc`, `conservativeEffectiveNow` | `HybridClock` |
| Turn bodies and profiles | none | host profiles, wire body, parser | `TurnBodies` |
| Bind policy validators | cache of compiled schemas, `$id`s of the Ajv instance | check at expose, lookup at bind | `PolicyCache` |
| Interface algebra, port atoms | none | `compose`, `hide`, `rename`, ... | `OfferAlgebra` |
| Repertoire and library commitment | a set of atoms per polarity | add, remove, commit, prove, verify | `Library`, `Commitments` |
| Transports, signatures, SQLite schema, client facade, scripts | sockets, files | I/O and conversion | partly or not (reasons in section 7) |

How they interact. The read loop of a peer takes frames from the byte stream
and handles each under the *frame mutex* (`enqueueMux`); host calls queue for
the same mutex. A TURN calls `applyNbcTurn`, a chain of awaited store calls. All
sessions of one server share one store client (`http2-serve.ts`), so turns of
different sessions interleave between those awaits, and the host may revoke
ports beside them. After a frame the runtime flushes a *session envelope* that
carries the whole-log checkpoint; the other peer compares it with its own log
and acknowledges.

What is hard, and where it is checked:

* turns that interleave on one store, check-then-bind, a rejected turn's left
  over writes: `NbcTurn`;
* a graph of references built by arbitrary legal calls, capacity counted over
  aliases from two entry points, partial writes of the store that has no
  transactions: `GraphStore`;
* two replicas that may send at the same tip, refuse one another's frames, lose
  writes at a close, confirm a log that is still growing: `FrameChain`;
* several chains on one channel, opened by the host, by its plans and by the peer,
  with steps of the mutex holder between awaits, and an idle close that several
  events must remember: `MuxSession`;
* a wait that a timer, an abort, a turn, a TERMINATE and `dispose` may each settle:
  `Coordinator`, driven by the steps of `MuxSession`;
* bounded queues, chunks cut anywhere, what a bad message takes with it, and back
  pressure under the frame mutex: `FrameStream`;
* clocks that jump, envelopes that cross, Merkle levels of odd length, values one
  side accepts and the other refuses, a cache that forgets: the operator modules.

## 2. Modules

```
BindLedger          what a store promises about capacity
   ^ implements
GraphStore          both persistence stores       GraphStoreProofs
   ^ EXTENDS / implements
NbcViews -> NbcTurn turns on a shared store       NbcTurnProofs

FrameChain          one negotiation chain between two peers   FrameChainProofs

Coordinator         waits for turns
   ^ EXTENDS / implements
MuxSession          one runtime, its chains and coordinators   MuxSessionProofs

OrderedChannel      what the frame layer asks of a stream
   ^ implements
FrameDecoder -> FrameStream   two peers over one byte stream
                    FrameDecoderProofs -> FrameStreamProofs, over Recursion

HybridClock, OfferAlgebra, TurnBodies, PolicyCache      OperatorProofs
Commitments -> SessionLog, Library
```

The modules whose names begin with `MC` give the constants for TLC; `MCOperators`
puts the modules of the last two lines side by side.
Operators whose comment begins with "Slip" are plausible mistakes in the code
beside the operator they stand next to; no specification uses them. Each
property is checked to fail when one of them takes the place of its original.

### GraphStore

One action per mutating call; both stores are async interfaces over synchronous
bodies, so a call is one step. `strategy` chooses the implementation for a run:
the in-memory store (`in-memory-strategy.ts`) keeps what it wrote before a later
check threw, SQLite (`sqlite/strategy.ts`) rolls back. A call that throws and
leaves no trace is no action.

* `Visited`, `Canonical`: `resolveCanonicalPortId`. The code walks along `ref`
  with a set of visited ids; the ids on the walk are the least set that holds
  the start and is closed under `ref`. Written this way it needs no recursion
  and can be proved about. The set of canonical ids is empty exactly when the
  code throws (missing port, cycle).
* `Tally`, `HasCapacity`: `countBindsForCanonicalPort` and
  `assertCanonicalBindCapacity`; both `bindPort` and the bind leg of
  `extendOffer` go through it.
* `ExposeNew`, `ReExpose`: the two halves of `exposePort`. A known id gains only
  an edge. The in-memory store has put the port and its policy in their maps
  when `normalizeMaxBindings` throws, which is the branch with `n = 0`.
* `BindPort(o, p, admitted)`: the verdict is a parameter, because the caller may
  hand in `assertAdmissible`; it is evaluated on the very state it changes.

Left out: names, offer types, promises, local tags; `max_bindings` other than
integers.

### BindLedger

Listed canonical ports with a fixed capacity, units taken one at a time and never
given back. `ImplementsLedger` maps `capacity` to the capacities of ports with an
empty `ref` and `used` to `Tally`.

### NbcViews and NbcTurn

`NbcTurn` extends the store with `turn` (per session, the stage an
`applyNbcTurn` call has reached), `log` (committed turns: its length is the
`turnSeq`), `clock`, and `fits` (for each BINDS row, the policy its stored
payload fits). The stages are the awaits of the function: `extendOffer`, one
`exposePort` per port, `getPort` for the policy, `bindPort` with the admission
check as its callback. The payload is judged between the policy read and the
bind. A failure at any stage abandons the turn and keeps what the earlier stages
wrote, as the code does. Within a session the frame mutex serializes turns, so a
session has one turn at a time; sessions interleave freely. `now` is captured at
the beginning, and may be undefined (`NoTime`), which fails closed in
`isEpochExpiryOk`.

`NbcViews` has `Admissible` (`checkNbcBindAdmission`) and the read helpers,
which repeat the same rules in other words: `BindablePorts`,
`IsSessionAdvanceable`, `NaturalStop`, `AvailablePortsFor`, `WhoShouldAct`.

### FrameChain

One chain, both peers. A tip is a hash over all frames so far, so it is modelled
as the sequence of operations it commits to; a Merkle root with its length
likewise by the log. This assumes that SHA-256 does not collide. Ed25519
signatures are deterministic, which matters: signing the same body at the same
tip gives a frame that is already in the dedupe set.

| Variable | Code |
|---|---|
| `chain` | `chains` and `endedSessionIds` (open, ended) |
| `ops` | `sessionOps` of the chain |
| `tip` | `FrameDag.tip`, the key in `tipToSession` |
| `seen` | `globalDedupe` |
| `confirmed`, `ack` | `confirmedSeq`, `pendingAck` |
| `job` | the frame a mutex holder is awaiting the write of |
| `inbox` | bytes written and not yet read, as messages |
| `errors`, `dead`, `closed` | `consecutiveErrors`, `channelDead`, the channel |

A frame is signed, applied, noted, logged and then written; only after the
awaited write does the tip move (`Emit`, `Sent`). `terminate` writes first and
logs afterwards (`Terminate`, `Terminated`); the peer may have read the TERMINATE
by then. While a job is under way the peer reads no frame. A callback that
answers a TURN runs inside the job that received it (`ReceiveAndReply`). Everything
the read loop would throw at is one action, `Refuse`, which counts an error and at
`MaxErrors` closes the channel. `Closers` are the peers with
`closeChannelOnTerminate`, or whose idle close follows the end of their only
chain; `Picky` peers have a store that may refuse any turn. `mode` switches
envelope sync and relay echo.

Simplified: a job's store calls are one step with its beginning (`NbcTurn` has
them in detail; the mutex keeps other frames out meanwhile); an envelope's write
is one step with the step that computes it, since nothing changes after it; a
failing envelope write on a closed channel, which would count one more error, is
left out. One chain only; what several chains of one runtime do to one another is
in `MuxSession`.

### Coordinator and MuxSession

`Coordinator` is `createNegotiationCoordinator`: a wait is one call of
`waitForTurn`, its `Answer` is what its predicate says of each body (`"throws"`
included), `listed`, `timer` and `listener` are what it has registered. A second
`resolve` of a JavaScript promise is silently ignored, so the model lets it
overwrite the outcome: a double settlement would be seen.

`MuxSession` extends it with one `MultiplexSessionRuntime`.

| Variable | Code |
|---|---|
| `mode` | the arguments of `runFrameMultiplexSession` |
| `template` | `lazyTemplate`, as the set of inits it matches |
| `open`, `tip`, `log`, `hooked` | `chains`, `FrameDag.tip`, `sessionOps`, a chain's `hooks` |
| `table`, `seen` | `tipToSession`, `globalDedupe` |
| `opening` | inits whose write is awaited: of the host, of `run`, of a plan |
| `jobs` | the calls inside the frame mutex, each in the callback of the one before, with the stage its awaits have reached |
| `openerDone`, `through`, `reading` | `openerFinished`, `sequentialOpenedThrough`, whether the read loop has begun |
| `dead`, `closed`, `broken` | `channelDead`, the channel, whether a callback or a plan has thrown |

A job passes through `applying` (the store), `sending` or `terminating` (the write),
`announcing` (`onGraphAdvanced`), `answering` (`onIncomingOffer`), `notifying`
(`onTerminate`), `advancing` and `greeting` (the next plan's init and its
`onSessionReady`). Every stage is a separate step, so that inits, channel loss,
timeouts, aborts and calls of the host fall between any two. `ReceiveInit` and
`opener.init` do not take the mutex, as in the code.

The mutex is re-entrant by `AsyncLocalStorage`: whatever a callback calls runs at
once, on the handle of whatever open chain. So `jobs` is a stack. While a callback
of its last job is awaited (`CallingBack`), `MayRun` lets a `sendTurn`, a reply or a
`terminate` of any chain be pushed on it (`Enter`); that job may call back and be
called into in turn, and only when it is done does the one below go on. A chain may
so end inside the callback of a turn of its own, which is why `Offered` and
`Answered` take nothing from the chain. Two things are left out: a call that a
callback starts and does not await, and two calls it awaits at the same time. They
run beside one another without the mutex; the mutant of `CapturedStillTrue` is such
a call and shows what it does.

### FrameDecoder, FrameStream and OrderedChannel

A byte is its place in what a peer writes, so that a decoder that starts in the
middle of a message is a state of its own and needs no coding of lengths: text read
as a length prefix exceeds `MAX_FRAME_BYTES`, the middle of a prefix states some
length, `misread`. `FrameStream` has the three kinds of stream (`kind`): in-memory
and WebSocket streams keep chunks, bound those that wait and hold no writer back;
an HTTP/2 stream cuts bytes anywhere and holds a writer, who holds the mutex, back.
`Decoded` and `Process` are the read loop. `OrderedChannel` is what the frame layer
relies on: messages in order, at most once, and none passed over without a reported
error. The refinement keeps `sent`, `handled` and `reported` as they are.

### The operator modules

Each is small, has its own variables and is explored alone (`part` in
`MCOperators` says which). `HybridClock`: peers with jumping wall clocks.
`SessionLog` over `Commitments`: replicas that record, propose and apply. `Library`
over `Commitments`: a repertoire and the commitments handed out. `OfferAlgebra`:
operators with laws over any three interfaces. `TurnBodies`: the way of a turn from
what a host's model puts out over the host profile, the wire body and its
serialization to the parser of the peer; numbers are counted in halves so that some
are no integers. `PolicyCache`: cache and Ajv instance, with policies that have a
`$id` and policies that have none.

## 3. Runs

| Run | Question | Bounds |
|---|---|---|
| `graph_store` | store invariants under every order of calls, both strategies, and refinement of the ledger | 2 offers, 3 ports, capacities 0 and 1, 3 EXPOSES edges, 1 revocation |
| `graph_store_memory` | is a bound port always exposed, in memory? (no) | same, in-memory only |
| `nbc_turn` | turns of two sessions, host and clock on one store | 5 bodies, 3 offers, 2 ports, 2 time steps |
| `nbc_stop` | does a session end when nothing is bindable? (no) | 1 session, 3 bodies |
| `nbc_relist` | does a bound payload fit the policy the store holds? (no) | 1 session, 2 bodies |
| `nbc_acting` | does the other party act while it has a port? (no) | 1 session, 3 bodies |
| `frame_chain` | replicas stay consistent whatever is sent, refused or closed | logs of 3, error limit 2, one closer, one picky peer, two modes |
| `frame_chain_sync` | confirmation and termination make progress | logs of 2, nobody closes at will |
| `frame_base` | is an envelope's base the agreed checkpoint? (no) | as `frame_chain_sync` |
| `mux_session` | one runtime and its waits under everything hosts, their callbacks, peers and channels do | 5 modes, 2 sessions of one genesis, 2 waits, 2 frames, 1 init being written |
| `streams` | is the stream with its decoder an ordered channel that makes progress? | 9 modes, 3 messages a side, frames to 3 bytes, queue of 1, 3 bytes of HTTP/2 window, 2 errors |
| `operators` | the parts without shared state | 3 peers and 3 frames; logs of 4; 2 names; 5 atoms and 2 commitments; 7 documents and a cache of 2 |

What the passing runs show:

* **graph_store** `RefsResolve`: no order of exposes, with shared ids, forward and
  self references, stores a chain that dangles or loops. `CapacityRespected`: a
  canonical port is never overbooked, through an alias or through the bind leg of
  `extendOffer`. `BoundPortsExposedIfAtomic`: with transactions, a bound port has
  an EXPOSES edge. `ListingsFrozen`, `RevocationFinal`: no later call changes a
  listing or reopens a revoked window. `ImplementsLedger`: the refinement.
* **nbc_turn** `TurnsImplementStore`: whatever the interleaving, the store sees
  only calls `GraphStore` specifies, in particular the admission check in the
  transaction implies the capacity check the store would make itself.
  `RevokedNeverBound`: no bind commits after the revocation of its offer or port,
  although the turn read its policy earlier. `PayloadsFitPolicy`: each payload bound
  is of a committed turn and was validated against the policy that is in effect for
  that turn, its own listing of the port if it has one with a policy and what the
  store holds otherwise; the two need not agree, which is finding 5.
  `BindsBelongToCommittedTurns`: a rejected turn leaves no bind.
  `BindablePortsAdmissible`: the host is shown as bindable exactly what is admitted,
  of the ports an open offer exposes: nothing that would be refused, and nothing
  usable is kept from it. (A port all of whose exposing offers are closed is admitted
  and not listed, since `checkNbcBindAdmission` looks at the binding offer and at the
  port, not at the exposing offers.)
  `TurnsFinish`: a turn settles.
* **frame_chain** `AcceptedMeansAgreed`: once a peer's log holds an operation of
  the other, the logs are equal up to it, although both may send at the same tip.
  The formula names the exceptions: a TERMINATE read before its sender logged it,
  and a log with an operation whose write failed at a close. `ConfirmedIsCommon`,
  `ConfirmedNeverShrinks`: envelopes confirm only what both have, and never go
  back. `TipCommitsToLog`: no await lets the tip and the log part.
  `TerminateIsLast`: nothing is recorded after a TERMINATE.
* **frame_chain_sync** `ConfirmedCatchesUp`, `TerminateSettles`.
* **mux_session** `RoutingIsExact`: the routing table is exactly the tips of the open
  chains, and no tip names two, although a genesis is free again once its chain has
  moved on. `CapturedStillTrue`: the tip and the position a turn read when it began
  still hold when the store gets them. `IdleMeansClosed`: whichever event comes last,
  a channel with nothing left to do has been closed. `SettledLeavesNothing`,
  `SettledOnce`, `TimedWaitSettles`: the waits. `MatchingTurnResolves`: a turn of the
  peer resolves every pending wait it fits and nothing else, and where a predicate
  throws, the fitting waits it does not reach are the ones called before that one;
  they stay listed and timed, by `SettledLeavesNothing`.
* **streams** `ImplementsChannel`: the refinement; a bad message, an overflow or a
  resynchronisation never lets a message be taken out of order, twice, or after an
  unreported gap. `LegalStreamDecodes`: legal traffic decodes if chunks leave the
  decoder the margin the formula states, with messages of the largest size at the
  exact limit. `SentGetsHandled`, `WritesFinish`: progress, except when both peers
  await a write while a frame they have read waits for the mutex that write holds
  (`MutuallyBlocked`); an init, which takes no mutex, or traffic one way never
  blocks. `TypeOK` includes both memory bounds.
* **operators** `ClockIsSound`: stamps follow causality and a stamp heard of is past.
  `SessionLogsAgree`: equal checkpoints mean equal logs, and both verifiers accept an
  envelope exactly where its sender meant it. `WiringLaws`: gluing closes one port,
  wires associate, renaming is natural, atoms find exactly the glue.
  `MembershipExact`: proofs for every leaf and for nothing else. `MeantIsParsed`: what
  a model puts out and the profile accepts arrives as meant, or is refused by the
  peer for one of the two named values. `AdmittedStaysUsable`: an admitted policy
  keeps its validator unless it has a `$id` and was evicted.

Why the bounds are enough. Three ports allow a port, an alias of it and an alias
of the alias, a self reference and a loop of three; two offers compete for a
unit; capacity 1 puts every bind at the limit and 0 is the refused value. The
five turn bodies are an opening, a bind that fits, one that does not, a second
listing of the same id with another policy and window, and an alias bound in the
turn that exposes it; two sessions suffice for every pairwise race. Logs of three
hold a turn, its answer and a crossing move or TERMINATE; an error limit of two
allows a first error that is forgiven and a second that closes. Two sessions of one
genesis let a chain be opened where another began and moved on, and two frames let
the second be sent at the tip the first led to, or repeated, or be
called from a callback of the first. One wait has a timeout and a signal, the other a
predicate that throws, in either order of calls. Messages of three bytes after a
prefix of two are the largest legal ones, cut at every place by a window of three;
a queue of one overflows at the second chunk. Logs of four reach an odd level with
a node paired with itself above the leaves; five atoms do so twice. Three peers give
a chain of hearsay and two readings of a wall clock a jump either way.

Bounds on counters are in guards of `Next` or of the action and are named
(`MaxExposes`, `MaxRevoked`, `MaxTime`, `MaxOps`, `MaxFrames`, `MaxOpening`,
`MaxLog`, `MaxCommitted`). `graph_store` uses symmetry in offers and ports, `operators`
in peers and frame ids; both check safety only, for which symmetry is sound. Deadlock is
not checked: the bounds, and a closed channel or an exhausted set of turn bodies,
end a behaviour in all models.

## 4. Fairness

`TurnSpec` has weak fairness of each session's turn steps: an `applyNbcTurn` under
way is a chain of promises on synchronous store bodies and nothing it awaits
depends on another session. `FrameChain` has weak fairness of `Finish` (an
awaited write settles, by success or by the failure a closed channel reports) and
of `Receive` (the read loop takes the next message once the mutex is free).
Nothing is assumed of hosts: they need not send, reply, revoke or terminate, and
clocks need not tick. Back pressure could break the assumption on writes, and
`FrameStream` says when: its fairness is of the network (a byte moves if there is
room, a message arrives, a close arrives) and of the read loop (a chunk is read, a
message is processed when it may be), never of a write being done. `MuxSession` has
weak fairness of each timer and of nothing else: a timed wait settles although a
write, the store or a callback of the host never answers.

## 5. Findings

Runs marked "no" above check one sentence of the documentation and find a trace
the code can take that contradicts it.

1. `graph_store_memory`: persistence rule 2 (only exposed ports are bound) fails in
   the in-memory store, whose `exposePort` stores a port before it refuses its
   `max_bindings`; when that port refers to one with capacity, it can be bound.
2. `nbc_stop`: `nbcNaturalStop` never fires for a session whose ports are used up,
   because `isSessionAdvanceable` looks at windows only.
3. `nbc_acting`: `whoShouldAct` takes the last offer from a graph that lists offers
   by EXPOSES edges first and BINDS rows second, so an offer that only binds is
   not where it expects it.
4. `frame_base`: the specification has the receiver verify that `base_checkpoint`
   is its agreed checkpoint; the code compares its `seq` with the length of the
   log. The properties of `frame_chain` hold nevertheless, since the delta is
   compared operation by operation.
5. `nbc_relist`: N4 has a payload validate against the policy of the port it binds,
   and N5 makes the strictest of several listings the baseline. A turn that lists the
   other party's port again, under a laxer policy, and binds it is checked against its
   own policy, while the store keeps the first: the payload stored does not fit it.

Met while modelling, contrary to a sentence of the documentation but without a run:

* The first chain registered by a host that gave no template pins its template, and
  inits that differ in session or genesis are refused from then on (`Register`);
  `docs/spec/frame/frame-protocol.smithy:83` says `each distinct session_id /
  genesis_hash pair starts a separate causal chain'.
* `docs/theory/algebra.md:32` says of `compose` that `port p is removed from the
  composed boundary'. It stays there when the first offer also requires it or the
  second also exposes it. The formula below the sentence (35-36), the code, its tests
  and `WiringLaws` agree with one another; the sentence is too short.
* `PORT_JSON_SCHEMA` (`turn-profiles.ts:55`) asks for a `max_bindings` that is an
  integer of at least 1, while the `validate` of the same profiles takes any number
  (94); the peer's parser refuses the others (`MeantIsParsed`, `Unparsable`).
* `validate-bind-payload.ts:42` has the check of a payload throw `on mismatch or
  invalid schema'. A policy with a `$id` that was evicted from the cache of validators
  cannot be compiled again, so every bind under it throws (`AdmittedStaysUsable` names
  exactly this exception).

Met while modelling and stated by the properties as the exceptions they name, no
document saying otherwise: a deadline that is printed with an exponent is accepted by
the host profile and refused by the peer's parser (`MeantIsParsed`, `Unparsable`); a
legal frame is refused when the chunk that completes it holds too much of the next
(`LegalStreamDecodes`); two peers with full windows block each other (`MutuallyBlocked`);
a TERMINATE equal to one already sent, in a chain begun again from the same genesis, is
not written to the peer although the chain is ended (the stage `repeating`); a wait
without a timeout stays pending when its own side terminates or the channel is lost, as
only a TERMINATE of the peer and `dispose` reject it (`TimedWaitSettles` is about timed
waits); a fitting wait called before one whose predicate throws is passed over by that
turn (`MatchingTurnResolves`).

Met while reading and not made runs of: `CHANGELOG.md:26` says the tip is
committed before the send, `emitOutboundTurn` commits it after; the frame
specification has originators behind a relay apply effects from the echo only,
the runtime applies before it sends and skips the echo.

## 6. Proofs

Eight modules hold proofs, for every value of the constants under the named assumptions of
the modules they extend:

* `GraphStoreProofs`: `TypeCorrect`, `RefsAlwaysResolve`, `CapacityAlwaysRespected`,
  `ListingsStayFrozen`, `RevocationsStayFinal`, `BoundPortsStayExposed`,
  `StoreRefinesLedger` of the store;
* `NbcTurnProofs`: `TurnsTypeCorrect`, `TurnsRefineStore`, `TurnsRespectCapacity`,
  `RevokedStayUnbound`, `TurnsRefineLedger`, `OfferedPortsAdmitted`, `PayloadsAlwaysFit`,
  `BindsStayCommitted`, `TurnsKeepListings`, `TurnsKeepRevocations` of concurrent turns;
* `FrameChainProofs`: `ChainTypeCorrect`, `TipsCommitToLogs`, `NothingAfterTerminate`
  of one peer's chain, and on top of them `AcceptedAgrees`, `ConfirmedStaysCommon`,
  `ConfirmedOnlyGrows` of the two logs;
* `MuxSessionProofs`: `MuxTypeCorrect`, `RoutingStaysExact`, `CapturedStaysTrue`,
  `IdleIsClosed`, `WaitsLeaveNothing`, `WaitsSettleOnce`, `TurnsResolveWaits` of a runtime and its waits;
* `FrameDecoderProofs`: `PushReads`, what the decoder makes of a chunk, and on top of it
  `FrameStreamProofs`: `StreamTypeOK`, `LegalStreamsDecode`, `StreamIsChannel` of two
  peers and the stream between them;
* `Recursion` has the two lemmas on recursive functions which those rest on, and states
  nothing of the code;
* `OperatorProofs`, of what the run `operators` puts side by side: `ClocksAreSound`,
  `WiringIsLawful` from one theorem per law, `AdmittedPoliciesServe` of the policy cache,
  `HostTurnsAreParsed` of the way from a model's output to the peer's turn, `LogsAgree`
  of the session logs and `MembershipIsExact` of the libraries, from `RootBindsLog`,
  `RootBindsLibrary`, `ProofsVerify` and `OnlyLeavesVerify` of the Merkle trees.

The invariant of the store is

```
IInv == TypeOK /\ IsRefClosed(ports) /\ RefsResolve /\ CapacityRespected
```

`RefsResolve` alone is not inductive: the walk from a new port passes through
stored ports, and for it to stay among them every stored `ref` must name a stored
port (`IsRefClosed`). Given that, the visited set of an old port is the same
before and after a new port is added (closed sets of the old map are exactly the
closed sets of the new one, restricted), so canonical ports do not move, so no
tally moves, so capacity survives an expose; the new port has no binds, because
`TypeOK` keeps every bind on a stored port. A bind raises the tally of exactly the
one canonical port whose room was checked; that counting step rests on a lemma
about `Cardinality` of an index set that grows by one. `ListingsFrozen` follows
from the same lemmas. So does `StoreRefinesLedger`: an expose lists the new port with
nothing used or, by reference, lists nothing, and a bind takes one unit of the one
canonical port (`BindTakes`). `BoundPortsStayExposed` needs that in the transactional
store every stored port is the target of an edge (`PortsExposed`), not only a bound one.

For turns the argument is a refinement: each turn step is a store call or leaves
the store alone. The one step that needs an argument is `BindAdmitted`, where
`Admissible` must imply `HasCapacity`. Capacity, ledger, listings and revocations of
turns then follow from the store's theorems by refinement and are not proved again.
The invariants of turns alone need three more parts, each checked with TLC before it
was proved. `Listed`: every stored port has a capacity and a window on record, so the
view and the admission read the same entries. `TurnsReady`: a turn that is at its bind
carries a payload that fits the policy its own body lists for the target, if any, and
what the store holds for it otherwise; other turns do not undo this, since a stored port
keeps its policy. The bind carries it over to `PayloadsReady`, which says the same of
every row and the body logged for it. `OffersOwned` and `BindsOwned`: the offer of a turn under way is stored,
in no log and no other turn's, and each bind is by an offer that was logged, one bind
an offer.

The invariant of one chain is `ChainInv`: while the chain is open, the log is what the
tip commits to, or one operation ahead of it while the write of that operation is
awaited (`Reached`), unless the channel has closed; only an open chain has a job; and
only an ended one holds a TERMINATE, as its last operation. Each action is argued
about once, in terms of what it does to the log, tip and job of the peer that takes it.

That the two logs agree is not inductive, because an accepted frame says nothing about
the log of its sender at the time it is read. `AgreementInv` adds five parts.
`InFlight`: the operations of a frame on its way, or of an envelope, are the beginning
of its actor's log (or it is a TERMINATE its sender is still waiting to log). `Trunk`:
where a log and its tip have parted, they did so by an operation whose frame is noted
in `seen`, so no second frame can take the tip the way the log went. A log that has
parted from its tip stays parted, so a write that failed never heals into agreement by
accident (`WholeNeverAgain`). `Heard`: every operation of the other peer in a log is
common, or one of the cases `AcceptedMeansAgreed` names. `Common`: what is confirmed is
common. `InOrder`: envelopes come in the order of their logs and none is older than
what is confirmed, which is why `confirmedSeq` may be overwritten without a comparison.
The step that matters is a received frame: its parent equals the receiver's tip, which
is the receiver's log, and by `InFlight` its parent and operation begin the sender's.

The invariant of a runtime is `MuxInv`: types, with the shape of the call stack
(`StackInv`: all jobs but the innermost are in a callback), `SettledLeavesNothing`, the
places of waits on the list (`PlacesDiffer`), `ChainInv`, `PlanAwaited` (at most one
plan's init is awaited by a job, the innermost) and `IdleInv`. `RoutingIsExact` is not
inductive. A tip moves after several awaits, to
where no other chain may be by then; that holds because a frame is handled once
(`seen`), because every chain past its genesis got there by a noted frame
(`TipsNoted`), because a frame determines the tip it leads to and is determined by it
(`NextTipInjective`), and because only the innermost job has not given way to a callback and
what it captured is still so (`TopTrue`): a job that is called into has passed the
stages at which it uses what it captured. `IdleMeansClosed` speaks of states at rest; `IdleInv` says what is
still to come in the others. For the waits, every step of the runtime is a step of
the coordinator or leaves it alone (`MuxStepIsCoordStep`), so they are argued about
in the coordinator only. `TurnsResolveWaits` is an action property: the step that follows
the announcing of a turn is the coordinator's fulfilment, whose walk over the waits
reaches all of them or ends at one that throws, and then all it did not reach are in
the places before that one.

The decoder's loop is a recursive function of the number of bytes that are left. The
library's induction theorems take an operator as a parameter and cannot be cited, so
`Recursion` proves the two facts that are needed of sets and functions: a set of
numbers closed under the step holds all numbers, from the pigeonhole theorem for finite
sets, and a function whose value at n is computed from the values below n exists. Then
`ParseReads` says by induction what the loop returns for a *stretch* of the stream,
bytes one after the other with nothing left out: a suffix of it, and consecutive
messages, none when it starts inside a message. The invariant of the streams (`Comes`)
says where the stretch is. On HTTP/2 what the decoder holds, what is on its way and what
a write has yet to give, put end to end, are a stretch (`Coming`) which begins right
after what was decoded unless an error was reported, and ends with the last message
sent unless an end was closed; moving bytes along leaves it as it is, and a read takes a
beginning away (`PushLeaves`). On the other streams chunks are whole messages: those
that wait and those on their way are two runs of consecutive messages (`Chunks`), with
a gap between or before them only after a close or an error. `LegalStreamDecodes` needs
one number more, that what the decoder holds is less than the message it waits for.
`StreamIsChannel` follows: what is handled next is the first in hand, and `InHand` says
it comes right after what was handled last. TLC found `Invariant` true of every state of
the run `streams`.

For the clocks `CausalOrder` needs that ids are unique, that what anyone has heard of
was sent, and that a clock is never behind what its peer has heard of (`NotBehind`),
from which the second promise follows as well.

The cache holds only entries compiled from documents that compile, at most `MaxCache`
of them, and only such documents were admitted (`CacheInv`); that an entry answers for
no other document is `ContentAssumption`: key and validator are read off the content.
`HostTurnsAreParsed` is about one output: a port the profile accepts parses back to
itself (`PortCrossesWire`), ports keep their order and number (`PortsCrossWire`), and a
continue names one bind and one payload (`ContinueBinds`). Its hypothesis `RawTurnOK`
says what JSON can hold - a list of ports, numbers, at most one value per field - and
nothing of the values; TLC finds it true of every output the run `operators` tries.

The Merkle trees are recursive functions numbered by level (`Layers`), whose existence
is proved from `Recursion` (`LayersAre`). Three arguments go over the levels. Down from a
root: no hash is on two levels (`LevelsApart`), so trees with one root have one height,
and each level tells the one below it, when both have one length (`ParentsTell`, which is
all a checkpoint needs, since it names the length) or when no hash is on a level twice
(`DistinctParentsTell`, for libraries, whose leaves are sorted and unique; there a last
node paired with itself is no pair of two distinct ones). Up from a leaf: a node and its
sibling make the node above (`SiblingClimbs`), so a proof reaches the root. And down
again along any path whatever: a hash climbed to that is on a level was climbed to from
one that is on the level below, so a path from a leaf's hash has the height of the tree
and begins at one of its leaves (`OnlyLeavesVerify`); nothing is assumed of the path but
that it is finite. `LogInv` adds that an envelope on its way is of one log and of a prefix
of it, `LibraryInv` that every commitment handed out is one to a set of atoms, which
`LeavesAreAtoms` then finds on its leaves, each once; TLC found both true of every state
of the run `operators`.

Assumptions used: `NoPort` is no port, `Port` is finite, the windows, capacities
and bodies have the shapes `GraphStore` and `NbcTurn` declare.

`FrameChain` needs `PeerAssumption` (two distinct peers) and `BoundAssumption` (the error
limit is positive); nothing is assumed of the modes, of the bodies or of which stores
are picky, and the logs may have any length.
`MuxSession` needs `WaitAssumption`, `InitAssumption` and `ModeAssumption`, the decoder
`DecoderAssumption` (prefix and frame limit are positive), the streams `StreamAssumption`
(two distinct peers) and the three positive limits of `StreamBounds`, the clocks
`ClockAssumption`, the algebra none, the cache `CacheAssumption` and
`ContentAssumption`, the bodies `NumberAssumption`, the logs none, the libraries
`LibraryAssumption` (the order lists every atom, and none twice, as sorting hashes does).
That hashing is injective is not assumed of a constant: `Leaf`, `Node` and `EmptyRoot`
are tuples with different tags.

Model-checked only: liveness under fairness (`TurnsFinish`, `ConfirmedCatchesUp`,
`TerminateSettles`, `TimedWaitSettles`, `SentGetsHandled`, `WritesFinish`), which is
beyond the prover. Every invariant, action property and refinement that a passing run
checks is also a theorem.

## 7. Not modelled

* Transports: sockets, TLS, ALPN, HTTP status and upgrade handling. They hold no
  state of the protocol; the stream they give is in `FrameStream`, the store a server
  shares in `NbcTurn`.
* Byte encodings: canonical JSON, framing of JSON, signatures, SHA-256. They are taken
  as injective, and a frame whose signature or JSON is bad as a refused message.
* JSON Schema documents given to language models, error texts, and the fields of a
  turn body that no profile produces (clock block, tags, extensions).
* What Ajv says of a document: an attribute of the document.
* SQLite DDL, connection and durability; the client facade, which delegates.
* The host overlay `whoShouldActWithChainState`, with turn limits and outcomes: a pure
  function over `whoShouldAct`, whose finding it inherits.
* Calls a callback starts and does not await, and several it awaits at once (see
  `MayRun`).
* The MLS hub envelope (two functions on bytes nothing here calls), the private
  intersection stubs (the protocols are not in the repository), and the build and
  publish scripts.
* A crash of a process: the runtime persists nothing, and a restarted one begins with
  an empty table; the store's transactions are in `GraphStore`.

## 8. Plan

1. Relay mode with envelopes in `FrameChain`, and the host overlay on top of `NbcViews`.
