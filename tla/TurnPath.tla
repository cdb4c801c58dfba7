------------------------------ MODULE TurnPath ------------------------------
(***************************************************************************)
(* One leg's relay: the engine drives a TURN client over UDP against the   *)
(* project's own server, from the gathering race to the release of the     *)
(* endpoint, and tells the datapath what the relay carries.                *)
(*                                                                         *)
(* The network between them loses, duplicates and reorders: it delivers    *)
(* within MaxDelay or not at all.  Time moves to the next thing that is    *)
(* due, and not past one the engine polls for: its ticks are far closer    *)
(* together than any of these clocks.                                      *)
(***************************************************************************)
EXTENDS TurnServer

CONSTANTS Leg,         \* the leg's five-tuple
          Remote,      \* remote candidates its agent may learn of
          Username, Ask, FirstChannel, MaxChannel, Rto, Rc, Rm,
          LastRelay, LastTx,   \* of an earlier leg on the port
          Deadline,    \* TURN_GATHER_DEADLINE_MS
          MaxDelay,    \* bound on the time a datagram spends on the network
          MaxWire,     \* bound on the datagrams on the network: one more is lost
          Never

VARIABLES
  client,              \* the TurnClient its task holds, None without one
  phase,               \* "gather", "driven", and "over" without an allocation
  gatherIn,            \* time left of the gathering race
  relay,               \* the datapath's TurnRelay of the endpoint
  wire,                \* datagrams between client and server
  gone                 \* how long the leg has been without a relay

C == INSTANCE TurnClient

leg == <<client, phase, gatherIn, relay, wire, gone>>
path == <<server, leg>>

NoRelay == [p \in Peer |-> None]

(* The port's last user may have left an allocation that has not lapsed.   *)
Leftover(left) ==
  [relay |-> LastRelay, user |-> Username, left |-> left,
   perms |-> [ip \in Ip |-> 0], channels |-> [c \in Channel |-> None],
   peerToChannel |-> [p \in Peer |-> None], tx |-> LastTx, life |-> Ask, used |-> 0]

Occupied(left) ==
  /\ allocs = [t \in Tuple |-> IF t = Leg THEN Leftover(left) ELSE None]
  /\ relayIndex = [e \in Endpoint |-> IF e = LastRelay THEN Leg ELSE None]
  /\ quota = [u \in User |-> IF u = Username THEN 1 ELSE 0]
  /\ endpoints = {LastRelay} /\ routes = {} /\ inbox = <<>> /\ handed = None

PathInit ==
  /\ ServerInit \/ Occupied(1) \/ Occupied(Ask)
  /\ \E secret \in BOOLEAN : client = C!New(secret)
  /\ phase = "gather" /\ gatherIn = Deadline
  /\ relay = None /\ wire = {} /\ gone = 0

-----------------------------------------------------------------------------
(* The network.                                                            *)

Put(w, to, body) ==
  IF Cardinality(w) >= MaxWire THEN w ELSE w \cup {[to |-> to, body |-> body, age |-> 0]}

(* The engine's sends.                                                     *)
Send(r) == wire' = IF r = None THEN wire ELSE Put(wire, "server", r)

(* A transaction id nothing refers to any more stands for a random one.    *)
FreshTx ==
  CHOOSE tx \in TxId :
    /\ \A m \in wire : m.body.tx # tx
    /\ allocs[Leg] # None => allocs[Leg].tx # tx
    /\ client # None => client.inFlight = None \/ client.inFlight.tx # tx

(* The engine polls a client and sends what it is handed.                  *)
Polled(c) ==
  \E polled \in {C!Poll(c, FreshTx)} :
    client' = polled.client /\ Send(polled.datagram)

(* A request may stay behind when it is delivered, to arrive once more; a  *)
(* response that does has no transaction left to answer.                   *)
Kept(m) == {wire, wire \ {m}}

Serve(m) ==
  /\ m.to = "server"
  /\ \E code \in Answers(Leg, m.body), rest \in Kept(m) :
       /\ HandleRequest(Leg, m.body, code)
       /\ wire' = Put(rest, "client", Response(Leg, m.body, code))
  /\ UNCHANGED <<client, phase, gatherIn, relay, gone>>

-----------------------------------------------------------------------------
(* The engine.                                                             *)

(* allocate_from_any, with one contender: poll and listen while the race   *)
(* is on ...                                                               *)
Racing ==
  phase = "gather" /\ ~C!Allocated(client) /\ ~C!Ends(client) /\ gatherIn > 0

GatherPoll ==
  /\ Racing
  /\ Polled(client)
  /\ UNCHANGED <<server, phase, gatherIn, relay, gone>>

GatherHear(m) ==
  /\ phase = "gather" /\ m.to = "client"
  /\ client' = C!OnDatagram(client, m.body, m.age)
  /\ wire' = wire \ {m}
  /\ UNCHANGED <<server, phase, gatherIn, relay, gone>>

(* ... keep the client that won, for the drive task, whose clock is ahead  *)
(* of the one the race was timed with, ...                                 *)
GatherWon ==
  /\ phase = "gather" /\ C!Allocated(client)
  /\ phase' = "driven" /\ relay' = NoRelay
  /\ \E k \in {0, client.refreshIn} : client' = [client EXCEPT !.refreshIn = k]
  /\ UNCHANGED <<server, gatherIn, wire, gone>>

(* ... or give up; an Allocate that may yet be granted is followed by a    *)
(* delete.                                                                 *)
GatherLost ==
  /\ phase = "gather" /\ ~C!Allocated(client) /\ ~Racing
  /\ Send(IF C!Challenged(client) /\ ~C!Ends(client)
          THEN C!Delete(client, FreshTx) ELSE None)
  /\ client' = None /\ phase' = "over"
  /\ UNCHANGED <<server, gatherIn, relay, gone>>

(* What the datapath is told of a client's peers.                          *)
Published(c) ==
  [p \in Peer |-> LET b == c.peers[p]
                  IN IF b # None /\ b.permitted THEN [channel |-> b.channel] ELSE None]

(* drive_turn_allocations: the peers the agent knows of, one poll, and the *)
(* relay the datapath is to frame for; ...                                 *)
DriveTick ==
  /\ phase = "driven" /\ ~C!Ends(client)
  /\ \E known \in SUBSET Remote :
       Polled(FoldSet(LAMBDA p, c : C!WithPeer(c, p), client, known))
  /\ relay' = Published(client')
  /\ UNCHANGED <<server, phase, gatherIn, gone>>

(* ... a client that has ended is taken out, and the relay with it.        *)
DriveEnds ==
  /\ phase = "driven" /\ C!Ends(client)
  /\ client' = None /\ relay' = None /\ phase' = "over"
  /\ UNCHANGED <<server, gatherIn, wire, gone>>

(* The agent forwards a response of the server (TurnDatagram).             *)
DriveHear(m) ==
  /\ phase = "driven" /\ m.to = "client"
  /\ client' = C!OnDatagram(client, m.body, m.age)
  /\ wire' = wire \ {m}
  /\ UNCHANGED <<server, phase, gatherIn, relay, gone>>

(* release_turn_allocation: the delete is sent once.                       *)
Release ==
  /\ phase = "driven"
  /\ Send(C!Delete(client, FreshTx))
  /\ client' = None /\ relay' = None /\ phase' = "over"
  /\ UNCHANGED <<server, gatherIn, gone>>

-----------------------------------------------------------------------------
(* Time.                                                                   *)

(* By when the server has nothing left of a leg (a bound on gone).         *)
Forgotten == Ask + MaxDelay + 1

Sooner ==
  {t \in UNION {ServerTimers, {gatherIn}, {Max({1, MaxDelay - m.age}) : m \in wire},
                IF client = None THEN {Forgotten - gone} ELSE C!ClientTimers(client)} :
     t \in 1..(Never - 1)}

(* What keeps the engine from sleeping.                                    *)
Busy ==
  \/ phase = "gather" /\ (~Racing \/ C!Due(client))
  \/ phase = "driven" /\ (C!Ends(client) \/ C!Due(client) \/ relay # Published(client))

AgedMessage(m, d) ==
  [m EXCEPT !.age = @ + d,
            !.body = IF m.to = "server" /\ @.user # None
                     THEN [@ EXCEPT !.nonce = Min({@ + d, NonceLife + 1})] ELSE @]

Pass ==
  /\ ~Busy /\ Sooner # {}
  /\ \E d \in {Min(Sooner)} :
       /\ ServerPass(d)
       /\ gatherIn' = IF phase = "gather" THEN Less(gatherIn, d) ELSE 0
       /\ wire' = {AgedMessage(m, d) : m \in {n \in wire : n.age < MaxDelay}}
       /\ client' = IF client = None THEN None ELSE C!AgedClient(client, d)
       /\ gone' = IF relay = None /\ phase # "gather" THEN Min({gone + d, Forgotten}) ELSE 0
  /\ UNCHANGED <<phase, relay>>

ReapTick == Reap /\ UNCHANGED leg

(* Nothing of the leg is left.                                             *)
Over ==
  /\ phase = "over" /\ wire = {} /\ Live = {}
  /\ UNCHANGED path

PathNext ==
  \/ GatherPoll \/ GatherWon \/ GatherLost \/ DriveTick \/ DriveEnds \/ Release
  \/ Pass \/ ReapTick \/ Over
  \/ \E m \in wire : Serve(m) \/ GatherHear(m) \/ DriveHear(m)

-----------------------------------------------------------------------------
(* As long as the client believes in its allocation the server has it, at  *)
(* the address that was advertised, and it has not lapsed: one relayed     *)
(* peer, any loss, a slow answer, a stale nonce and a rebind in the way of *)
(* the refresh do not use up the quarter of the lifetime that              *)
(* REFRESH_AT_PERCENT leaves.  (No delete of the port's last user is still *)
(* on its way: PathInit.)                                                  *)
AllocatedIsHeld ==
  phase \in {"gather", "driven"} /\ C!Allocated(client) =>
    /\ allocs[Leg] # None
    /\ allocs[Leg].relay = client.relayed /\ allocs[Leg].left > 0

(* Whenever the client has nothing under way, what the datapath was told   *)
(* the relay carries the server carries: a permission for each peer, and   *)
(* the channel bound to that peer (enqueue_due_maintenance, on_success).   *)
RelayCarries ==
  phase = "driven" /\ client.inFlight = None /\ ~Busy =>
    \A p \in Peer : relay[p] # None =>
      /\ allocs[Leg].perms[IpOf[p]] > 0
      /\ relay[p].channel # None =>
           /\ allocs[Leg].channels[relay[p].channel] # None
           /\ allocs[Leg].channels[relay[p].channel].peer = p
           /\ allocs[Leg].channels[relay[p].channel].left > 0

(* Once a leg is without its relay the server is rid of the allocation     *)
(* within one lifetime: the one delete may be lost, come before the        *)
(* Allocate it was to undo or meet a stale nonce, and nothing keeps the    *)
(* allocation alive any more (release_turn_allocation,                     *)
(* allocate_from_any, drive_turn_allocations).                             *)
ServerForgets ==
  gone >= Forgotten => \A t \in Live : allocs[t].left = 0
=============================================================================
