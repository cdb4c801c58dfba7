----------------------------- MODULE TurnServer -----------------------------
(***************************************************************************)
(* The TURN server's allocation actor: one task that owns every allocation *)
(* and handles one message of its mailbox at a time, a request, data from  *)
(* a client, a datagram of a peer on a relay endpoint, or the reaper's     *)
(* tick.                                                                   *)
(*                                                                         *)
(* Ticks are only compared with the clock, so each is kept as the time     *)
(* left until it; a permission with none left is as good as absent to      *)
(* every reader.  A request is what the codec has parsed.  `good` says     *)
(* that the credential has not expired and the integrity verifies; `nonce` *)
(* is the age of the nonce it carries.                                     *)
(***************************************************************************)
EXTENDS Integers, Sequences, FiniteSets, FiniteSetsExt

CONSTANTS Tuple,       \* FiveTuple: client, listener and transport
          Stream,      \* the ones over TCP or TLS
          User,        \* credential usernames
          Peer,        \* transport addresses of peers
          Ip, IpOf,    \* their addresses without the port
          Denied,      \* the peer denylist
          Channel,     \* channel numbers
          Endpoint,    \* relay endpoints the datapath may hand out
          TxId,        \* transaction ids
          MaxPerUser,  \* max_allocations_per_user
          Cap,         \* max_bytes_per_allocation, in datagrams
          DefaultLife, MaxLife, PermLife, ChanLife, NonceLife,
          Depth,       \* bound on datagrams that wait for the actor
          None

(* An allocation, and a channel's binding to a peer.                       *)
Binding == [peer : Peer, left : Nat]

Allocation ==
  [relay : Endpoint, user : User, left : Nat, perms : [Ip -> Nat],
   channels : [Channel -> Binding \cup {None}],
   peerToChannel : [Peer -> Channel \cup {None}], tx : TxId, life : Nat, used : Nat]

ParsedRequest ==
  [method : {"Allocate", "Refresh", "CreatePermission", "ChannelBind"}, tx : TxId,
   user : User \cup {None}, good : BOOLEAN, nonce : Nat, life : Nat \cup {None},
   udp : BOOLEAN, peers : SUBSET Peer, channel : Channel \cup {None}]

ASSUME TurnAssumption ==
  /\ IpOf \in [Peer -> Ip]
  /\ {DefaultLife, MaxLife, PermLife, ChanLife} \subseteq Nat
  /\ None \notin Tuple \cup User \cup Endpoint \cup Channel
  /\ None \notin Allocation \cup Binding

VARIABLES
  allocs,      \* allocations: FiveTuple -> Allocation
  relayIndex,  \* relay_index: EndpointId -> FiveTuple
  quota,       \* quota: username -> live allocations
  endpoints,   \* the datapath's live relay endpoints
  routes,      \* channels installed in the kernel fast path
  inbox,       \* datagrams of peers that wait in the mailbox
  handed       \* the datagram this handler handed to a client

books == <<allocs, relayIndex, quota, endpoints, routes>>
server == <<books, inbox, handed>>

ServerInit ==
  /\ allocs = [t \in Tuple |-> None]
  /\ relayIndex = [e \in Endpoint |-> None]
  /\ quota = [u \in User |-> 0]
  /\ endpoints = {} /\ routes = {} /\ inbox = <<>>
  /\ handed = None

Less(n, d) == IF n > d THEN n - d ELSE 0

-----------------------------------------------------------------------------
(* authenticate, and the challenge require_auth sends when it fails.       *)
Auth(r) ==
  IF r.user = None THEN "Unauthorized"
  ELSE IF r.nonce > NonceLife THEN "StaleNonce"
  ELSE IF r.good THEN "Ok" ELSE "Unauthorized"

-----------------------------------------------------------------------------
(* Allocations.                                                            *)

Route(t, c, a) ==
  [tuple |-> t, channel |-> c, peer |-> a.channels[c].peer, relay |-> a.relay]

Bound(a) == {c \in Channel : a.channels[c] # None}

(* What the fast path was told of an allocation's channels: only a UDP     *)
(* client's are offered to the kernel.                                     *)
RoutesOf(t, a, chans) == IF t \in Stream THEN {} ELSE {Route(t, c, a) : c \in chans}

(* delete_allocation, for each of a set of five-tuples.                    *)
(* Faulty variant: the relay's entry in relay_index stays.                 *)
DeletedUnindexed(T) ==
  LET gone == {allocs[t].relay : t \in T}
  IN /\ endpoints' = endpoints \ gone
     /\ quota' = [u \in User |-> Less(quota[u], Cardinality({t \in T : allocs[t].user = u}))]
     /\ UNCHANGED relayIndex

Deleted(T) ==
  LET gone == {allocs[t].relay : t \in T}
  IN /\ endpoints' = endpoints \ gone
     /\ quota' = [u \in User |-> Less(quota[u], Cardinality({t \in T : allocs[t].user = u}))]
     /\ relayIndex' = [e \in Endpoint |-> IF e \in gone THEN None ELSE relayIndex[e]]

(* A request without a LIFETIME asks for the configured default.           *)
Wanted(asked) == IF asked = None THEN DefaultLife ELSE asked

Granted(asked) == Max({Min({Wanted(asked), MaxLife}), 1})

(* An endpoint id is never used twice; one that nothing refers to stands   *)
(* for a new one.                                                          *)
Unused ==
  Endpoint \ (endpoints \cup {inbox[i].endpoint : i \in DOMAIN inbox}
              \cup {allocs[t].relay : t \in {u \in Tuple : allocs[u] # None}})

Fresh(r, e) ==
  [relay |-> e, user |-> r.user, left |-> Granted(r.life),
   perms |-> [ip \in Ip |-> 0], channels |-> [c \in Channel |-> None],
   peerToChannel |-> [p \in Peer |-> None],
   tx |-> r.tx, life |-> Granted(r.life), used |-> 0]

(* The codes handle_allocate refuses an authenticated request with: there  *)
(* is an allocation another request made, the transport is not UDP, an     *)
(* even port or a reservation is asked for or the pool cannot serve, the   *)
(* user is at the quota.                                                   *)
AllocateRefusals(t, r) ==
  IF allocs[t] # None
  THEN IF allocs[t].tx = r.tx THEN {} ELSE {"AllocationMismatch"}
  ELSE IF ~r.udp THEN {"UnsupportedTransport"}
  ELSE {"InsufficientCapacity"}
       \cup IF quota[r.user] >= MaxPerUser THEN {"QuotaReached"} ELSE {}

(* The retransmission of the request that made the allocation is answered  *)
(* with the cached response ...                                            *)
AllocateAgain(t, r) ==
  /\ Auth(r) = "Ok" /\ allocs[t] # None /\ allocs[t].tx = r.tx
  /\ handed' = None
  /\ UNCHANGED <<books, inbox>>

(* ... and the rest get a relay endpoint.                                  *)
AllocateGranted(t, r) ==
  /\ Auth(r) = "Ok" /\ allocs[t] = None
  /\ r.udp /\ quota[r.user] < MaxPerUser
  /\ Unused # {}
  /\ LET e == CHOOSE x \in Unused : TRUE
     IN /\ endpoints' = endpoints \cup {e}
        /\ relayIndex' = [relayIndex EXCEPT ![e] = t]
        /\ allocs' = [allocs EXCEPT ![t] = Fresh(r, e)]
  /\ quota' = [quota EXCEPT ![r.user] = @ + 1]
  /\ handed' = None
  /\ UNCHANGED <<routes, inbox>>

(* Faulty variant: the lifetime is added to what is left.                  *)
ExtendedOnTop(a, life) == [a EXCEPT !.left = @ + Granted(life)]

Extended(a, life) == [a EXCEPT !.left = Granted(life)]

(* handle_refresh; a lifetime of 0 deletes.                                *)
RefreshRefusals(t) == IF allocs[t] = None THEN {"AllocationMismatch"} ELSE {}

Refreshed(t, r) ==
  /\ Auth(r) = "Ok" /\ allocs[t] # None /\ Wanted(r.life) # 0
  /\ allocs' = [allocs EXCEPT ![t] = Extended(@, r.life)]
  /\ handed' = None
  /\ UNCHANGED <<relayIndex, quota, endpoints, routes, inbox>>

RefreshDeletes(t, r) ==
  /\ Auth(r) = "Ok" /\ allocs[t] # None /\ Wanted(r.life) = 0
  /\ Deleted({t})
  /\ routes' = routes \ RoutesOf(t, allocs[t], Bound(allocs[t]))
  /\ allocs' = [allocs EXCEPT ![t] = None]
  /\ handed' = None
  /\ UNCHANGED inbox

-----------------------------------------------------------------------------
(* Permissions and channels.                                               *)

Ips(peers) == {IpOf[p] : p \in peers}

(* handle_create_permission: one denied peer refuses them all.             *)
PermissionRefusals(t, r) ==
  IF allocs[t] = None THEN {"AllocationMismatch"}
  ELSE IF r.peers = {} THEN {"BadRequest"}
  ELSE IF Ips(r.peers) \cap Denied # {} THEN {"Forbidden"} ELSE {}

Permitted(t, r) ==
  /\ Auth(r) = "Ok" /\ allocs[t] # None
  /\ r.peers # {} /\ Ips(r.peers) \cap Denied = {}
  /\ allocs' = [allocs EXCEPT ![t].perms =
                  [ip \in Ip |-> IF ip \in Ips(r.peers) THEN PermLife ELSE @[ip]]]
  /\ handed' = None
  /\ UNCHANGED <<relayIndex, quota, endpoints, routes, inbox>>

(* A channel keeps its peer and a peer its channel, expired or not, until  *)
(* the reaper has taken the binding.                                       *)
Consistent(a, c, p) ==
  /\ a.channels[c] # None => a.channels[c].peer = p
  /\ a.peerToChannel[p] # None => a.peerToChannel[p] = c

(* handle_channel_bind; one of a request's peers is the address it names.  *)
ChannelRefusals(t, r) ==
  IF allocs[t] = None THEN {"AllocationMismatch"}
  ELSE IF r.channel = None \/ r.peers = {} THEN {"BadRequest"}
  ELSE UNION {IF ~Consistent(allocs[t], r.channel, p) THEN {"BadRequest"}
              ELSE IF IpOf[p] \in Denied THEN {"Forbidden"} ELSE {} : p \in r.peers}

(* The binding, the permission it implies, and the route for the kernel.   *)
ChannelBound(t, r) ==
  /\ Auth(r) = "Ok" /\ allocs[t] # None
  /\ r.channel # None /\ r.peers # {}
  /\ \E p \in r.peers :
       /\ Consistent(allocs[t], r.channel, p) /\ IpOf[p] \notin Denied
       /\ allocs' = [allocs EXCEPT
                       ![t].channels[r.channel] = [peer |-> p, left |-> ChanLife],
                       ![t].peerToChannel[p] = r.channel,
                       ![t].perms[IpOf[p]] = PermLife]
  /\ routes' = routes \cup RoutesOf(t, allocs'[t], {r.channel})
  /\ handed' = None
  /\ UNCHANGED <<relayIndex, quota, endpoints, inbox>>

-----------------------------------------------------------------------------
(* handle_client, for what is authenticated.                               *)

(* The codes a request may be refused with; a refusal changes nothing.     *)
Refusals(t, r) ==
  IF Auth(r) # "Ok" THEN {Auth(r)}
  ELSE CASE r.method = "Allocate" -> AllocateRefusals(t, r)
         [] r.method = "Refresh" -> RefreshRefusals(t)
         [] r.method = "CreatePermission" -> PermissionRefusals(t, r)
         [] r.method = "ChannelBind" -> ChannelRefusals(t, r)

Answers(t, r) == Refusals(t, r) \cup {"Success"}

Rejected(t, r, code) ==
  /\ code \in Refusals(t, r)
  /\ handed' = None
  /\ UNCHANGED <<books, inbox>>

Served(t, r) ==
  CASE r.method = "Allocate" -> AllocateAgain(t, r) \/ AllocateGranted(t, r)
    [] r.method = "Refresh" -> Refreshed(t, r) \/ RefreshDeletes(t, r)
    [] r.method = "CreatePermission" -> Permitted(t, r)
    [] r.method = "ChannelBind" -> ChannelBound(t, r)

HandleRequest(t, r, code) == Rejected(t, r, code) \/ (code = "Success" /\ Served(t, r))

(* The response: a granted Allocate names the relay endpoint and, like a   *)
(* Refresh, the lifetime; the first one's is kept with the allocation.     *)
Response(t, r, code) ==
  LET allocated == code = "Success" /\ r.method = "Allocate"
      refreshed == code = "Success" /\ r.method = "Refresh" /\ Wanted(r.life) # 0
  IN [tx |-> r.tx, code |-> code,
      relay |-> IF allocated THEN allocs'[t].relay ELSE None,
      life |-> IF allocated THEN allocs'[t].life
               ELSE IF refreshed THEN Granted(r.life) ELSE 0]

-----------------------------------------------------------------------------
(* Data.                                                                   *)

WithinBudget(t) == allocs[t].used < Cap

Relayed(t) ==
  /\ WithinBudget(t)
  /\ allocs' = [allocs EXCEPT ![t].used = @ + 1]
  /\ UNCHANGED <<relayIndex, quota, endpoints, routes>>

(* handle_send_indication and handle_channel_data, when the datagram goes  *)
(* out; one that does not changes nothing.                                 *)
HandleSendIndication(t, p) ==
  /\ allocs[t] # None /\ IpOf[p] \notin Denied
  /\ allocs[t].perms[IpOf[p]] > 0
  /\ Relayed(t) /\ handed' = None /\ UNCHANGED inbox

HandleChannelData(t, c) ==
  /\ allocs[t] # None /\ allocs[t].channels[c] # None
  /\ allocs[t].channels[c].left > 0
  /\ IpOf[allocs[t].channels[c].peer] \notin Denied
  /\ Relayed(t) /\ handed' = None /\ UNCHANGED inbox

(* The datapath's redirect queue and the task that feeds the mailbox; a    *)
(* datagram that finds the mailbox full is dropped.                        *)
PeerSends(e, p) ==
  /\ e \in endpoints /\ Len(inbox) < Depth
  /\ inbox' = Append(inbox, [endpoint |-> e, peer |-> p])
  /\ handed' = None
  /\ UNCHANGED books

(* The frame for a peer's data: its channel while the binding is live.     *)
FrameOf(a, p) ==
  LET c == a.peerToChannel[p]
  IN IF c # None /\ a.channels[c] # None /\ a.channels[c].left > 0 THEN c ELSE None

Deliverable(t, p) ==
  /\ allocs[t] # None
  /\ allocs[t].perms[IpOf[p]] > 0 /\ IpOf[p] \notin Denied
  /\ WithinBudget(t)

(* handle_relay_inbound.                                                   *)
HandleRelayInbound ==
  LET d == Head(inbox)
      t == relayIndex[d.endpoint]
  IN /\ inbox # <<>> /\ inbox' = Tail(inbox)
     /\ IF t # None /\ Deliverable(t, d.peer)
        THEN /\ Relayed(t)
             /\ handed' = [to |-> t, endpoint |-> d.endpoint, peer |-> d.peer,
                           frame |-> FrameOf(allocs[t], d.peer)]
        ELSE UNCHANGED books /\ handed' = None

-----------------------------------------------------------------------------
(* Time.                                                                   *)

(* The datapath's clock, seen from a channel and from an allocation.       *)
BindingAged(b, d) == IF b = None THEN None ELSE [b EXCEPT !.left = Less(@, d)]

Aged(a, d) ==
  IF a = None THEN None
  ELSE [a EXCEPT !.left = Less(@, d),
                 !.perms = [ip \in Ip |-> Less(@[ip], d)],
                 !.channels = [c \in Channel |-> BindingAged(@[c], d)]]

Expired(a) == {c \in Bound(a) : a.channels[c].left = 0}

(* Faulty variant: the reverse index keeps the peers of reaped channels.   *)
SweptOneWay(a) ==
  [a EXCEPT !.channels = [c \in Channel |-> IF c \in Expired(a) THEN None ELSE @[c]]]

(* reap, for the channels of one allocation ...                            *)
Swept(a) ==
  [a EXCEPT !.channels = [c \in Channel |-> IF c \in Expired(a) THEN None ELSE @[c]],
            !.peerToChannel = [p \in Peer |->
               IF \E c \in Expired(a) : a.channels[c].peer = p THEN None ELSE @[p]]]

Live == {t \in Tuple : allocs[t] # None}

(* ... and for all of them, with the allocations that have lapsed.         *)
(* Faulty variant: the routes of a lapsed allocation are not withdrawn.    *)
ReapLeavingRoutes ==
  LET lapsed == {t \in Live : allocs[t].left = 0}
  IN /\ \E t \in Live : allocs[t].left = 0 \/ Expired(allocs[t]) # {}
     /\ Deleted(lapsed)
     /\ routes' = routes \ UNION {RoutesOf(t, allocs[t], Expired(allocs[t])) : t \in Live}
     /\ allocs' = [t \in Tuple |-> IF t \in Live \ lapsed THEN Swept(allocs[t]) ELSE None]
     /\ handed' = None /\ UNCHANGED inbox

Reap ==
  LET lapsed == {t \in Live : allocs[t].left = 0}
      withdrawn(t) == IF t \in lapsed THEN Bound(allocs[t]) ELSE Expired(allocs[t])
  IN /\ \E t \in Live : allocs[t].left = 0 \/ Expired(allocs[t]) # {}
     /\ Deleted(lapsed)
     /\ routes' = routes \ UNION {RoutesOf(t, allocs[t], withdrawn(t)) : t \in Live}
     /\ allocs' = [t \in Tuple |-> IF t \in Live \ lapsed THEN Swept(allocs[t]) ELSE None]
     /\ handed' = None /\ UNCHANGED inbox

(* What the server's clock has to pass next.                               *)
ServerTimers ==
  UNION {{allocs[t].left} \cup {allocs[t].perms[ip] : ip \in Ip}
         \cup {allocs[t].channels[c].left : c \in Bound(allocs[t])} : t \in Live}

ServerPass(d) ==
  /\ allocs' = [t \in Tuple |-> Aged(allocs[t], d)]
  /\ handed' = None
  /\ UNCHANGED <<relayIndex, quota, endpoints, routes, inbox>>

(* The actor's loop (run), under any requests, data and times.             *)
ServerNext ==
  \/ \E t \in Tuple, r \in ParsedRequest : \E code \in Answers(t, r) :
       HandleRequest(t, r, code)
  \/ \E t \in Tuple, p \in Peer : HandleSendIndication(t, p)
  \/ \E t \in Tuple, c \in Channel : HandleChannelData(t, c)
  \/ \E e \in Endpoint, p \in Peer : PeerSends(e, p)
  \/ HandleRelayInbound \/ Reap
  \/ \E d \in Nat : ServerPass(d)

ServerSpec == ServerInit /\ [][ServerNext]_server

-----------------------------------------------------------------------------
(* The five tables agree after every handler: relay_index and the          *)
(* datapath's endpoints are those of the allocations, a user's count is    *)
(* the number of its allocations, and the kernel has a route for each      *)
(* channel bound over UDP and for no other (handle_allocate,               *)
(* delete_allocation, handle_channel_bind, reap).                          *)
BooksAgree ==
  /\ endpoints = {allocs[t].relay : t \in Live}
  /\ \A e \in Endpoint : relayIndex[e] =
       IF \E t \in Live : allocs[t].relay = e
       THEN CHOOSE t \in Live : allocs[t].relay = e ELSE None
  /\ \A u \in User : quota[u] = Cardinality({t \in Live : allocs[t].user = u})
  /\ routes = UNION {RoutesOf(t, allocs[t], Bound(allocs[t])) : t \in Live}

(* A peer's datagram reaches the client that holds the relay endpoint it   *)
(* was sent to when it is handed over, however long it waited in the       *)
(* mailbox (handle_relay_inbound, delete_allocation).                      *)
RelayedToHolder ==
  handed # None => /\ allocs[handed.to] # None
                   /\ allocs[handed.to].relay = handed.endpoint

(* The channel a datagram is framed with is the one its own peer is bound  *)
(* to: after expiry, reaping and rebinding the client is never told that   *)
(* one peer's data came from another (handle_channel_bind, reap).          *)
FramedForItsPeer ==
  handed # None /\ handed.frame # None =>
    allocs[handed.to].channels[handed.frame].peer = handed.peer
=============================================================================
