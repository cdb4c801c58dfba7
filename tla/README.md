# TLA+ models of siphon-rtp

siphon-rtp is a media engine for SIP calls: a control protocol asks it to anchor,
relay, transcode, record or mix the RTP of a call, and a datapath moves the packets.
This directory holds TLA+ modules for the parts of it that can be model-checked, the
TLC configurations that check them on small instances, and TLAPS proofs of the
properties that matter most. Source paths below are relative to `src/crates/`.

## 1. The system

One process serves many calls. The actors that touch shared state are

- one *receive task* per endpoint (`recv_loop`), which runs the whole ingress path of a
  datagram, plus a second feeder per endpoint when a TURN allocation arrives over TCP or
  TLS (`ingest_relayed`);
- the *control tasks*, one per control connection, which run the session engine's
  commands (offer, answer, delete, block, ...) and through them the datapath's operations;
- the *sweep*, which drives ICE agents, consent checks and media timeouts on a tick.

They run on a multi-thread tokio runtime and share concurrent maps that have no common
lock, so an operation that touches three maps is three steps.

| Component | State | Operations | Hard behaviours |
|---|---|---|---|
| Datapath, UDP backend (`siphon-rtp-datapath`) | flows, latches, ICE credentials, nominations, publishers, endpoint entries | receive, dispatch, handle_stun, install_flow, set_ice, set_ice_agent, adopt_source, watch_ice_validated, remove_endpoint | packets in flight while a rule is replaced; restart while a check is handled; removal while a packet is handled |
| Port pool and endpoint budget (same crate) | in-use ports, cursor, live count | alloc, alloc on a port, remove | concurrent allocation at the limit; release before close |
| XDP backend (`siphon-rtp-xdp`, `-ebpf-common`) | kernel maps, the same rules | the same trait | kernel and userspace copies of the latch |
| Session engine (`siphon-rtp-engine/src/engine`) | calls, legs, pipelines, pending answers | offer, answer, re-offer, delete, promote, sweep, drain, snapshot, restore | retransmitted commands, glare, delete during answer, half-installed calls |
| ICE agent and consent (`siphon-rtp-ice`, engine `ice/`) | checklist, pairs, roles, consent deadline | check, response, nominate, restart, consent tick | lost and late responses, role conflict, consent expiry |
| STUN / TURN (`-stun`, `-turn`) | allocations, permissions, channels, nonces | allocate, refresh, bind, send, expire | expiry racing refresh, retransmission, server failover |
| SRTP / SRTCP (`-srtp`) | rollover counter, replay window, indices | protect, unprotect, restore | 16-bit wrap, reordering across the wrap, restart |
| DTLS (`-dtls`, engine `dtls_*`) | handshake, keys | start, flight, timeout, export | handshake before the ICE selection, retransmission |
| Media pipeline (`-media`) | jitter buffer, translator, mixer, DTMF, playback | push, pop, tick | reordering, wrap, late packets, underrun |
| Conference, forwarding rooms, floor control (engine) | seats, speakers, floor holder and queue | join, leave, request, grant, revoke | simultaneous requests, revoke timers, leave while speaking |
| High availability (engine `ha.rs`, `snapshot.rs`, `cluster.rs`) | checkpoints, ownership | checkpoint, restore, take over | crash between checkpoint and change |
| Control plane (`-proto`, `-ngcompat`, engine `server.rs`, `app_events.rs`) | connections, identities, event queues | attach, command, event, detach | a reconnect racing the old connection's close |
| Lawful interception (`-li`, engine `x3.rs`), HEP (`-hep`), recording | delivery queues | deliver, reconnect | bounded queue, reconnect |
| Codecs, DSP, SIMD (`-codec`, `-dsp`, `-simd`) | filter state | encode, decode | numeric; pure functions over samples |
| Load generator (`-loadgen`), fuzz targets | - | - | test tools |

What has to be true of the parts that are modelled:

- a media source is believed only if somebody vouched for it, and media goes only where
  it was signalled or to a believed source;
- an established stream keeps its latch, and a replaced peer loses it;
- on an ICE leg the path is the nominated pair of the current session, and whoever follows
  it is told of every change;
- removing an endpoint ends, and leaves nothing behind;
- a media port has one owner, capacity is neither leaked nor given back twice, and
  allocation ends;
- an SRTP packet is accepted at most once, with the index it was protected with, across
  the wrap of the sequence number and a takeover;
- what a media leg ingests it plays in the source's order, each packet once, within its cap;
- a context of a floor-control leg never uses a key and index twice; the leg accepts a packet at
  most once and, while it is keyed, replies only where an authentic packet came from;
- a consenting peer is not declared gone, and a silent one is asked five times first;
- a controller's identity keeps its event channel and its newest connection, and a call ends
  once and is counted;
- a relay the TURN client believes in is there, its data reaches its holder and nobody else,
  and the server is rid of it in time.

## 2. Modules

### The datapath

**`Latch`** has the pure decisions: the action of a flow, the rule of an answered leg
(`IngressRule`), the signalled-source gate (`Accepts`, a source filter is the set of
addresses it accepts), the SSRC-consistent latch (`SourceLatchVerdict`), and the order of
nominations. Addresses are model values with an IP address (`IpOf`) in a block (`SubnetOf`).

**`Datapath`** is the UDP backend. Its variables are the maps of `Inner` (`flows`,
`latched` as `latchSrc`/`latchSsrc`, `ice`, `ice_nominated`, `ice_forward_only`,
`ice_validated` as `watched`/`pub`, `endpoints` as `alive`/`aborted`), the program counter
and locals of each receive worker, and the remaining accesses of the control thread
(`todo`). Four history variables (`admitted`, `validated`, `nomUfrag`, `nomSrc`) record
what a property has to remember and are read by no guard.

A datagram walks through `ReceiveMedia` or `ReceiveStun`, then the labels of `receive`,
`handle_stun` and `dispatch`: `stunIce` (clone the credentials), `check` (authenticate,
compare-and-insert the nomination), `adopt` (store the latch), `publish`; or `gate`
(layers 4 and 2), `iceLatch`, `latch` and `learn` (layer 3, a read and a store),
`resolve` (destination), `emit`. A label is an access to a map that another actor
also writes; a map that only the control thread writes is read with the next access.

An operation of the trait is a sequence of accesses (`InstallFlow`, `SetIce`, `ClearIce`,
`SetIceAgent`, `WatchIceValidated`, `RemoveEndpoint`); one action performs one access.
`AgentSelect`, `AdoptSource` and `PublishAdopted` are the ICE driver's side.

`MultiThreaded` chooses the runtime. When it is false (the runtime of the repository's
tests) an actor is preempted only where the code awaits: the receive worker at the socket
read and at the send, `remove_endpoint` where it waits for the task.

**`RelayCall`** gives the programs of the control thread for one two-party call: what
answer, re-answer, ICE answer, restart, block, promotion and delete ask of the datapath, in
the engine's order (ICE is armed before any flow is installed). An answer that carries ICE and
signals a mismatch leaves the far leg without ICE, under a rule that does not latch.
**`MCPlainRelay`** and **`MCIce`** instantiate it; **`MCIceThreads`** has the programs of a leg
that is first under the ice-lite responder and, after a re-offer with candidates, under a full
agent.

**`DatapathUse`** states how the engine uses the datapath, as conditions on the programs: what is
armed, installed and removed, and in which order. The proofs about ICE assume these conditions and
nothing else of the programs; the MC modules state as an `ASSUME` that theirs meet them.

### Consent

**`IceConsent`** is consent freshness for one endpoint: the supervisor's entry and its
checker, the STUN transaction of the check in flight with its retransmission timetable, the
bounded queue of answers from the datapath, and the sweep that drains it, polls and reaps
once per tick, while the peer validates another address and the control path registers the
endpoint again. Ticks are kept as distances to the clock, so that time has no bound.
**`MCIceSession`** runs it, or the sessions of an ICE-lite leg, one of the two per behaviour.

### Ports

**`PortLease`** is the promise to the datapath's callers: an endpoint that was handed out
has a port of its own until its removal begins, and there are at most `Limit` of them.

**`PortPool`** is the code: the budget counter (`live`), `PortAllocator` (`reserved`,
`cursor`), and for each endpoint the next access of the task that allocates or removes it.
The loops of `reserve_next` and `bind_in_range` are kept, with their counters, as is the
order of `remove_endpoint`: port back, task joined, socket dropped, slot back. Senders clone
the socket, and other processes of the host bind and close ports at any time. `LeaseKept`
states the refinement. `Ranged` chooses between a configured range and ports from the
operating system. **`MCEnds`** runs the pool, or the operations of an ICE call, under
fairness.

### SRTP

**`ReplayWindow`** is the filter: a top and the bits below it, `IsReplay`, `Record`,
`Anchor` and `CloseAt`. **`SrtpStream`** is one stream of a leg: `index_for` as `Estimate`,
`IndexOf` and `Advance`, `protect`, `unprotect`, the checkpoint and the takeover of a sender
and of a receiver. The source's packets have a true position that never wraps; the sequence
number and the rollover counter have the widths `SeqSize` and `RocSize` (2^16 and 2^32 in the
code), and the first packet of a stream takes rollover counter 0. A packet authenticates
exactly under the index it was protected with. The network repeats, loses, delays and
reorders, up to `Reorder` positions before the packet reaches the sender.

### The media leg

**`MediaLeg`** is the receiving half of a leg: the sequence statistics (`on_rtp` of
`IngressStats`: base, cycles, maximum, expected) and the jitter buffer (push with its late and
duplicate tests, the cap, priming, pop with concealment). A packet is the number its source
gave it, of which the leg sees the low 16 bits. **`MediaPath`** puts it behind `SrtpStream`:
what `unprotect` lets through is ingested in the same step, and a standby that takes over has
the checkpointed rollover state and a new leg. The stream may also end on a bridge, which only
hands on. `Serial` is what the path assumes of the network: a packet that is ingested is ahead of
those before it, and of the playout, by less than half a cycle (32768 packets in the code, against
a buffer of at most 16).

### The floor-control leg

**`FloorLeg`** is one leg of `CallFloors` with its SRTCP context: the ring of at most two
keys, each with a replay filter, the send index, the reply latch, the checkpoint and the
restore of a standby with its margin. The actor handles one input at a time, so an action is
one input. A registration is an answer's or a re-answer's; the offerer's leg of a re-answer has
no keys, because `take_offer_keys` returns those of an offer once. A nonce is a key, an SSRC and an
index; the SSRC is the one a build request names, or the number of the registration that drew the
leg's own. Contexts are numbered, as histories, so that an index is one of the context that sealed
with it. The phone's packets, under a key or in the clear, may arrive at any time and any number
of times, or never.

### Control plane and registry

**`ControlPlane`** has the control connections, the controller identities they claim
(`controllers`, `controller_ids`), the event channels (`events`), and the registry of calls
with the count per client and the pipelines under a call id. The tasks are the loop of each
connection, the task a connection spawns for a command that dials a WebSocket server, and the
sweep. One action is one access to a map, or the accesses made under one row's lock: claiming
gives up the connection's own channel, is admitted or refused, takes the row with its channel and
publishes both; an offer replaces, builds, inserts and indexes; a bridge redirects its endpoint
and is then registered; ending a call is the removal, the pipelines, the count and the reap of the identity
that has nothing left. Commands are `offer`, `wsOffer` (an offer that dials), `answerLocal`
and `delete`.

### TURN

**`TurnServer`** is the allocation actor of the server: its allocations with permissions and
channels, `relay_index`, the quota, the relay endpoints it holds and the routes it gave the
kernel fast path. A handler is one action, since the actor handles one message at a time:
`Refusals` has the codes with which a request may be refused, which changes nothing, and `Served`
what it does otherwise. A peer's datagram may wait in the mailbox while the allocation it was for
goes away. A credential is good or not and a nonce has an age.

**`TurnClient`** is the client's state machine as operators on a client record: the queue of
requests with at most one in flight, its retransmission timetable, the refresh clocks of the
allocation, the permissions and the channels, and what each response does.

**`TurnPath`** composes them into the life of one leg's relay: the gathering race, the drive
tick that adds peers, polls and tells the datapath what to frame, the responses the agent
hands on, the client that ends, and the release with its one delete. Requests and responses
travel on a network that loses, delays and reorders, and duplicates requests. Time jumps to
the next thing that is due, so lifetimes of minutes cost a few states. **`MCTurn`** runs the
path, or the server alone under any requests and data on two five-tuples.

Definitions marked "Faulty variant" are not used by any action. Each is a plausible
mistake in the definition it precedes, and substituting it makes the named property fail.

## 3. Runs

| Run | Module | Checks |
|---|---|---|
| `plain_relay` | `MCPlainRelay`, multi-thread | `LatchProvenance`, `EmitJustified`, `SsrcContinuity` |
| `reanswer_race` | `MCPlainRelay`, multi-thread | `LatchAdmittedByGate` is violated |
| `ice_threads` | `MCIceThreads`, multi-thread | `IceLatchValidated`, `LiteLatchFollows`, `WatcherCaughtUp`, `LiteLeavesNothing` |
| `ice_session` | `MCIceSession`, multi-thread | `RestartForgets`, `AnsweredIsKept`, `FiveUnanswered`, `RefreshedByThisPath` |
| `ice_consent_restart` | `MCIce`, single-thread | `NominationOfThisSession` is violated |
| `ends` | `MCEnds`, multi-thread, fair | `OperationsReturn`, `WorkEnds` |
| `port_pool` | `MCPortPool` | `ReservationsExact`, `SlotsExact`, `EndpointsBounded`, `LeaseKept` |
| `media_path` | `MCMediaPath` | `UnprotectedOnce`, `NewestAccepted`, `TakeoverBounded`, `IndexFollowsSource`, `SlotsWithinExpected`, `HeldAhead`, `PlayedInOrder` |
| `floor_leg` | `MCFloorLeg` | `IndexUsedOnce`, `AcceptedOnce`, `ClosedStaysClosed`, `LatchAuthenticated` |
| `floor_unkeyed` | `MCFloorLeg` | `NonceUsedOnce` is violated |
| `control_plane` | `MCControlPlane` | `TypeOK`, `IdentityHears`, `NewestServes`, `EventsFollow`, `EndsOnce`, `QuotaCovers` |
| `turn` | `MCTurn` | `BooksAgree`, `RelayedToHolder`, `FramedForItsPeer`, `AllocatedIsHeld`, `RelayCarries`, `ServerForgets` |

A run whose module names two kinds of behaviour chooses one of them in the initial state; the
properties of the other then hold of variables that do not move.

Bounds.

- A call has two RTP endpoints, near and far. The plain relay has an offerer behind a
  NAT with two mappings of one address and two answerers in one block, two SSRCs and an RTCP
  packet without one: enough for a rebind, a hijack, a re-answer to another party and a
  re-answer back. The ICE runs have two addresses, two sessions and two priorities: enough
  for a superseding and a blocked nomination within a session and for a nomination left over
  from the one before. The set of control programs is finite and each may be run any number
  of times in any order until the call is deleted, so there is no bound on the length of a
  behaviour. `ice_threads` has one check per session and one media source, since its agent
  may select any address at any time; the blocked nomination within a session is in
  `ice_session`.
- `port_pool` has three endpoints, three ports and a budget of two: a refusal, a contended
  port, a port another process holds and a port released before its socket is closed all
  happen, and the handles are used again and again. Handles are interchangeable (symmetry).
  `ends` has two endpoints and a sender that keeps a socket, without symmetry.
- `ice_session` has three nominating checks, two of the first session, and the programs of an
  answer with ICE on both legs, of a restart that finds a mismatch on the far one and of the
  deletion. Its other half has the default periods of `ConsentConfig` (interval 5, timeout 30) and of the
  STUN client (`Rto` 1, `Rc` 7, `Rm` 16), two addresses, a queue of two answers, and two
  transaction ids, which are used again once nothing on its way carries them.
- `media_path` has a cycle of eight sequence numbers and seven positions that cross its end,
  a window of three, a buffer with target and cap two, one takeover of each side from a
  checkpoint at most one packet old, and reordering by one. Half of the cycle is four, so every
  packet that reordering and staleness allow is inside the range where the estimate is defined,
  as in the code. A leg's packets are within half a cycle of those it ingested and of the playout
  (`Serial`), which is what the code's serial arithmetic (RFC 1982) asks of its input.
- `floor_leg` has two keys and four key lists (one is empty, one is cut to its newest two, one
  is refused), two source addresses, four packets of the phone, two send indices, a margin of one,
  two registrations, two contexts and a takeover: a re-answer, removal of the keys, rollover,
  exhaustion, a restore with and without room for the margin all happen. No request names an SSRC,
  which `IndexUsedOnce` does not look at.
- `control_plane` has two connections, one controller id and one scoped call id. The first
  connection sends the offer that dials or a local answer, the second an offer and deletes; each
  asks for one call. The first may be refused a claim once (`MaxChannels`). Claim, eviction,
  reconnection and close happen at any time, beside three kinds of task.
- `turn` counts time in units of which a full retransmission run takes three (the code: 39.5 s).
  An allocation and a channel live for 44 and are refreshed at 33, a permission for 22 and is
  refreshed at 16, so the margin of the allocation is 3.7 runs (the code: 3.8) and that of a
  permission two (the code: 1.9). A nonce goes stale after 20, within the life of an
  allocation. A datagram takes at most one unit or is lost, any number of them are lost, and two
  are on their way at a time. The leg has one relayed peer and may start on a port whose last
  user left an allocation. The other behaviours have two five-tuples, one of them a stream, two
  users with a quota of one, two channels, two peers and one that is denied, and a byte budget
  of one datagram.

Deadlock is checked in `turn`, where a leg that is over and forgotten stutters. Elsewhere it is
not: a deleted call, a stream at its last packet, a closed connection and a leg that is
deregistered have nothing left to do.

Fairness. `Datapath`'s `FairSpec` assumes weak fairness of each receive worker's steps after
the receive and of the control thread's accesses, `PortPool`'s of each allocation's and
removal's own steps: a runnable tokio task is polled eventually, and an aborted one stops at
its next await. Nothing is assumed of arrivals, commands, the agent's selections, senders or
other processes. The other modules are reactive, and no liveness is claimed for them;
`ServerForgets` is the bounded form of one: `gone` measures how long a leg has been without its
relay, and time does not stop before the bound.

## 4. What is proved

All theorems hold for any values of the constants that satisfy the named assumptions; the
assumptions give the types of the constants and keep `None` apart from the values beside it.

**`DatapathProofs`**, on either runtime, for any endpoints, addresses, credentials,
datagrams and programs:

- `TypeCorrect`: `Spec => []TypeOK`. It needs more than types: the destination lookup reads
  the latch map at the rule's out endpoint, which exists only because a worker at `resolve`
  carries a forward rule.
- `LatchIsVouchedFor`: `Spec => []LatchProvenance`.
- `ForwardingIsJustified`: `Spec => []EmitJustified`.

The inductive invariant is `IInv == TypeOK /\ FlowsRecorded /\ LatchProvenance /\
WorkersJustified`. `LatchProvenance` alone is not inductive: a worker that is about to store
a latch was admitted by a rule that may be gone. `FlowsRecorded` says that the gate of every
installed latching rule is in `admitted`; `WorkersJustified` says what a worker carries past
each gate: the rule it copied was recorded, its datagram was accepted by that rule or its
source was known, and the destination it resolved was signalled or known. The history only
grows (`Grows`), so another actor's step never takes that away (`CarriedStable`).

- `LatchMovesWithItsSsrc`: `SsrcContinuity`, for calls without ICE (`NoIce`) and one
  receive task per endpoint. `SsrcInv` says of a
  worker between its decision and its store that the latch it saw is still there, has the SSRC of
  its packet, or is gone: `update_latch` decides in one access and stores in another.

The module ends with what a step of each actor may change; `IceProofs` uses these lemmas instead of
the actions.

**`IceProofs`**, for any endpoints, addresses, sessions and datagrams and every set of programs that
meets the named conditions of `DatapathUse`, which `MCIceThreads` and `MCIceSession` evaluate:

| Theorem | Property | Conditions | Inductive invariant |
|---|---|---|---|
| `IcePathIsValidated` | `IceLatchValidated` | `IceLegsDoNotLatch` | `IceLegInv`: neither the rule nor a copy a worker carries latches on an ICE leg |
| `WatchersAreCaughtUp` | `WatcherCaughtUp` | `IceLegsDoNotLatch`, `RemovalsAlone`, `WatchersAreTold` | `WatcherInv`: who was not told is about to be told, or dropped |
| `LatchIsNominated` | `LiteLatchFollows` | one receive task, `IceLegsDoNotLatch`, `IceLegsAreKept`, `AgentsAreKept` | `NominationInv`: the one receive task stands between the nomination and the latch, or they agree |
| `RemovalLeavesNothing` | `LiteLeavesNothing` | one receive task, `RemovalsAlone`, `RemovalsClear`, `AgentsAreKept` | `ClearedInv`: what is left of a removed endpoint has its removal ahead, and after the join nobody writes |
| `RestartForgetsNominations` | `RestartForgets` | `SessionsRestart` | `SessionInv`: a nomination that no restart overtook outlives its credentials only between two accesses of one operation |

"One receive task" excludes the second feeder of a TURN allocation over TCP or TLS
(`Carrier = {"socket"}`); section 5 says what happens with it. The last theorem's condition fails
for programs that restart the way `set_ice_agent` does: that is the run `ice_consent_restart`.

**`PortPoolProofs`**, for any finite set of endpoints, any range, limit and senders:
`PoolTyped`, `PortsExclusive` (`ReservationsExact`), `CounterIsExact` (`SlotsExact`), `BudgetKept`
(`EndpointsBounded`) and `PoolKeepsLeases` (`LeaseKept`, the refinement). Typing needs to know
which labels carry a port and that the loop counters stay below the range. Exclusivity rests on
what a step of one endpoint leaves to the others. The budget rests on `live` being the number of
busy endpoints: a step that raises it and finds it within the limit has counted everybody admitted
before.

**`SrtpProofs`** starts with the facts about the replay filter: what is recorded is refused from
then on, and recording keeps what was refused. On them rest

- for a stream, with every width of the sequence number, the counter and the window:
  `StreamTyped`, `SrtpAcceptsOnce` (`UnprotectedOnce`: every index accepted so far is one the
  filter refuses) and `SrtpTakeoverIsBounded` (`TakeoverBounded`); and, where the stream starts
  in its first cycle, ends before the counter does and is reordered by less than half a cycle
  (`InReach`), `IndicesFollowTheSource` (`IndexFollowsSource`) and `NewerPacketsAreAccepted`
  (`NewestAccepted`). Their invariant says that the estimator's state is a number the source has
  sent: the newest of those protected, accepted or checkpointed. A number within half a cycle of
  it is then estimated as itself, on either side of a wrap;
- for a floor leg, without further assumptions: `FloorTyped`, `IndicesAreFresh` (`IndexUsedOnce`),
  `PhonePacketsOnce` (`AcceptedOnce`), `StandbyStaysClosed` (`ClosedStaysClosed`) and
  `LatchIsAuthentic` (`LatchAuthenticated`). `IndexUsedOnce` is about one context: "it only ever moves
  forward" (`srtcp_gcm.rs:369-370`) through rekeying, and a standby skips what the primary may have
  sealed, unless its checkpoint is more than the margin behind (`lapsed`). Its invariant bounds the
  indices the context has used below the next one, and those used since a checkpoint below the
  index a standby would resume at. That two contexts under one key and SSRC do not share an index
  is not so: `floor_unkeyed` and section 5. `LatchIsAuthentic` is about legs keyed since they were
  registered; its invariant is that such a leg holds keys, and so does its checkpoint.

**`MediaPathProofs`** puts the leg behind the stream. `PathIsAStream` shows that a bridge or a leg
only takes steps of the stream, so that the theorems above hold of it. Where a standby's filter and
the age of its checkpoint span half a cycle at most (`LegInReach`, which `MCMediaPath` evaluates):
`LegPlaysInOrder` (`PlayedInOrder`), `SlotsAreExpected` (`SlotsWithinExpected`) and `HeldStaysAhead`
(`HeldAhead`), for every width, target and cap and any number of cycles. The leg has only the low
bits of a number, so the invariant (`LegPlaced`) supplies the rest: there are numbers `b`, the first
this leg took, `d`, whose turn it is, and `x`, the newest, with `b <= d <= x + 1`; the cursor is `d`
and the statistics are `b` and `x`, each modulo the cycle; what is held lies in `d .. x`, what was
played below `d`, and every number from `b` to `d` was played or counted as lost.

**The control plane**, for any connections, controller ids, call ids, workers and limits.
`ControlPlaneInvariants` has the invariants, `ControlPlaneProofs` what a step on a
call's books keeps and then the identities, `ControlPlaneSteps` which of these steps each action
takes.

- `TypeCorrect` (`TypeOK`), `IdentityAlwaysHears` (`IdentityHears`), `NewestAlwaysServes`
  (`NewestServes`). The inductive invariant is `IInv == IdentityOK /\ RegistryOK /\ JobOK /\
  JobData /\ ConnShape /\ RowShape /\ ReapShape /\ Newest`. The first four are the types and what
  a task's label says of the data it carries. `ConnShape` ties a connection's stage to what it
  holds, `RowShape` ties an identity's row to the channel registered for its client and to the
  attached connection, `ReapShape` says that a client whose row was reaped is nobody's any more
  when the rest of it is cleared, and `Newest` is the property with the connection that is about
  to be told. `IdentityHears` alone is not inductive: a reap that has removed a row clears the
  channel in a later step, and only `ReapShape` says that no new claim has taken that client.
- `EventsAlwaysFollow` (`EventsFollow`), `CallsEndOnce` (`EndsOnce`), `QuotaAlwaysCovers`
  (`QuotaCovers`). A call has a number, given once. `NumbersOK` says where a number may be: in
  reserve with the task that builds the call, registered under one id, or with the one task that
  ends the call. `Traced` says that a pipeline knows the owner of the call with its number, however
  late the task that builds it registers it, `ClaimsOK` and `ChanOK` that it emits into the
  owner's channel once the owner has claimed. Every action is one of six steps on these books
  (`LedgerStep`), so that a property is proved once for each of six steps and not for each action.
  The quota counts: what a client has registered or still to give back, less what is about to
  be counted.

**`TurnServerProofs`**, for any five-tuples, users, peers, channels, lifetimes and limits, and every
sequence of requests, data, datagrams and clock readings: `ServerBooksAgree` (`BooksAgree`),
`InboundReachesHolder` (`RelayedToHolder`), `InboundFramedForPeer` (`FramedForItsPeer`). The
invariant is the agreement of the tables (`Indexed`, `Counted`, `Backed`, `Routed`) and
`AllPaired`: the reverse index of an allocation names a channel only while that channel is bound to
the same peer, which the reaper keeps when it takes expired channels.

Checked by TLC only, with the reason:

- `OperationsReturn`, `WorkEnds`: liveness under fairness, out of the prover's reach.
- `AnsweredIsKept`, `FiveUnanswered`, `RefreshedByThisPath` of consent and `AllocatedIsHeld`,
  `RelayCarries`, `ServerForgets` of a relayed leg: they depend on the proportion of lifetimes,
  periods and the retransmission timetable, which the instances take from the code.

## 5. Where code and comments disagree

With a run:

- `reanswer_race`: a datagram admitted by the old rule re-creates the latch a re-answer has
  just dropped; the new party's media is then refused until the stale latch goes. On the
  single-thread runtime `LatchAdmittedByGate` holds.
- `ice_consent_restart`: `set_ice_agent` does not drop the nomination of the session it
  replaces, `set_ice` does.
- `floor_unkeyed`: removing the keys of a floor leg drops its context, and giving the same key
  again starts at index 0 on the same SSRC.

Seen with TLC by changing an instance as described, and not kept as a run:

- On the multi-thread runtime of the daemon (`main.rs:29`) a receive task that cloned the
  credentials before `set_ice` replaced them stores the nomination of the old session after
  `set_ice` has dropped it, and it orders and blocks the new session's nominations, contrary to
  `udp.rs:1294-1296` (`NominationOfThisSession` in place of `RestartForgets` in `ice_session`; with
  `MultiThreaded = FALSE` it holds).
- ICE armed on a leg that relayed plainly keeps the media latch, which
  `ice_validated_source` then reports (`IceLatchValidated`, with `Answer` before `IceAnswer`).
- `remove_endpoint` leaves the `ice_forward_only` entry (`RemovedClearsAgentMode`, on
  a full-agent leg), although the trait's comment names it as a way to clear it.
- With `ingest_relayed` beside the receive loop (`Carrier = {"socket", "stream"}`), the
  nomination order and the store order can differ (`LiteLatchFollows`).
- A socket cloned by a sender is open after `remove_endpoint` returned (`RemovedIsClosed`),
  although a comment says it is fully closed.
- A stream whose first packet comes just after sequence number 0 and is followed by one from
  before it gets rollover counter 2^32 - 1 for the latter, and everything after it is refused
  as a replay (`NewestAccepted`, with `Start = {8}` and `Base = 6`).
- After a takeover from a stale checkpoint the packets accepted since are accepted again, so
  the span is wider than the window a comment gives as its limit (`SpanWithinWindow`, with
  `Stale = 2`).
- A re-answer whose profile gives the answerer the keys it had starts a context at index 0, and
  `build` takes the SSRC from the request: requests that name one SSRC before and after it repeat a
  nonce (`NonceUsedOnce`, with two registrations, `KeySets` of one list and `Asked = {9}`; with
  `Asked = {}` it holds, because each registration draws an SSRC).
- A latch learned in the clear stays when the leg is keyed (`LatchAuthenticated` without `~clear`).
- `replace_keys` leaves `exhausted` set (`ExhaustedUnderThisKey`).
- A checkpoint that is more than the margin behind, or that is restored again after its standby
  has sealed, resumes at an index that was used (`NonceUsedOnce`, with two takeovers);
  `IndexUsedOnce` sets such contexts apart (`lapsed`).
- Stated of `ControlPlane`, these are violated. `NotStranded`: an identity is reaped while a
  command that dials still builds its call, which then belongs to an identity that cannot be
  presented again, although `engine/dispatch.rs:103-105` sets out to prevent that (the task is
  not cancelled with its connection, `server.rs:434`). `OwnPipelineOnly`: the end of a call
  deregisters by call id and may take the pipeline of its successor. `ReapsTheIdleCall`: the
  second pass of the idle sweep goes by id as well. `EndpointsNamed`: two offers on one id both
  insert, and nobody names the first one's endpoints any more. A call that is deleted between the
  redirect of its bridge and the registration (`takeover.rs:312`, `:505`) leaves a bridge under an
  id that has no call, until another call under that id ends.
- `ChecksRecur` of `IceConsent`: a comment says checks recur every interval
  (`ice/consent.rs:15`); after a lost answer the retransmissions at 0, 1, 3, 7 and 15 ticks
  take the place of fresh checks.
- The margin of a refresh, "75 % leaves room for a full RFC 8489 retransmission run"
  (`turn_client.rs:52-53`), is one run for the whole queue, and requests are serialised. With
  one peer a Refresh and a ChannelBind that both take the whole run use 79 s, more than the 75 s
  of a permission; the client gives up seconds later. `RelayCarries` is therefore stated for a
  client with nothing under way.

Without a formula:

- The keys of an offer are held once (`offer.rs:919`) and taken by the answer, so a re-answer
  registers the offerer's floor leg in the clear, although keys that cannot be applied are to end
  in "not serving the stream, never by serving it in the clear" (`floor.rs:248-249`).
- A refused claim replaces the event channel under pipelines that are live
  (`server.rs:135-144`), and a claim beside a command that dials moves the channel;
  `EventsFollow` is stated for calls asked for after the claim.
- A call is inserted before it is counted, so a teardown in between leaves the count one too
  high; `QuotaCovers` says it is never too low.
- `fraction_lost_since_last_report` returns 0 when more packets were lost than expected in the
  interval, although its comment says it saturates at 255. A leg does not resynchronise after a
  jump of more than half a cycle, nor after several outages of less between which the playout does
  not catch up: without the second conjunct of `Serial`, and with `Last = 15`,
  `PlayedInOrder` fails.
- A consent entry that is re-registered between the poll and the unregistration of a failed one
  is removed with it. A call seated in a conference hears of the timeout only, and has no
  consent until the next answer.
- A ChannelBind that is rejected when it *refreshes* leaves the permission's clock unset with no
  channel, so the permission is never refreshed again, although `turn_client.rs:730-733` says
  the permission is kept.
- A peer the server denies is added and asked for again on every tick, although
  `engine/sweep.rs` calls adding idempotent. The drive tick may publish a relay after the
  release of the endpoint has cleared it.
- A delayed delete on a reused port deletes the allocation of the leg that has the port now
  (`handle_refresh` goes by the five-tuple); a duplicated Allocate that arrives after the delete makes an
  allocation that lives until it lapses.
- `reserve_next` takes its candidates from a cursor that all allocations share, so one
  allocation may try a port twice and skip another, although a comment says it tries each
  reservable port once; it may then fail with a free port in the range.

## 6. What is not modelled

In the parts that are modelled: packet contents below the class, the SSRC, the credentials,
the key and the index; statistics and the activity clock; the framing of TURN channel data in
the datapath (a datagram is what is left after it); the RTCP companion endpoints (the same rules
on another pair of endpoints); the telemetry tap; ciphers and key derivation; the failure of the
random source; TURN over TCP and TLS and a race of several TURN servers; the media negotiation
of a call and the answer that is still pending in a two-stage offer; attach and detach of a
WebSocket bridge on a live call. Three things are coarser than the code: the drive tick of `TurnPath`
polls and publishes in one step, and its Init has no delete of the port's last user on the wire
(both consequences are in section 5, and `AllocatedIsHeld` is stated without the second);
`PipeRegister` reads the owner's event channel in the step that registers the bridge
(`takeover.rs:434`, `:505-544`, no await between them).

Whole parts, with the reason:

- Codecs, DSP and SIMD kernels, tones, prompts, mixing: numeric code over samples, outside
  TLC's reach. STUN, SDP, bencode and file formats: byte formats without state.
- DTLS and the data channel: the handshake and the acknowledgements are libraries'. What the
  engine's floor channel does around them hangs on when the SCTP library reports, which this
  source does not show. Two things were noticed while reading: an old driver's `Drop` may clear
  `open` after a new driver has set it, and a send may be completed with an error while the
  library still retransmits it.
- The application event queue: one lock and a bounded deque that sheds its head; the one race
  (a producer sheds although the consumer has just made room) loses an event that its limit
  allows it to lose.
- The ICE agent's checklist: the datapath is checked against an agent that may select anything
  at any time, which is more than the checklist does.
- Conference and forwarding rooms: one actor per room, so no interleaving inside it; moving a
  live call's leg into a room is part of the negotiation left out above.
- The XDP backend: the rules are `Latch`'s; the two copies of a latch are not modelled.
- SRTCP with AES-CM: the index scheme of `FloorLeg` without the margin.
- Recording, interception, HEP, metrics: output behind bounded queues on which no decision of a
  call depends. Configuration, start and the load generator have no protocol.

## 7. What could follow

The AES-CM SRTCP context beside `FloorLeg`; the latch's two copies in the XDP backend; seating a
live call in a room; a race of several TURN servers; a proof of `ServerForgets` for every
timetable in which a retransmission run fits the margin of a refresh.
