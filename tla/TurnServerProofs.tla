-------------------------- MODULE TurnServerProofs --------------------------
(***************************************************************************)
(* The tables of the TURN server agree after every handler, a datagram of  *)
(* a peer reaches the holder of its relay endpoint, framed for that peer:  *)
(* for any five-tuples, users, peers, channels, lifetimes and limits, and  *)
(* for every sequence of requests, data, datagrams and clock readings.     *)
(***************************************************************************)
EXTENDS TurnServer, FiniteSetTheorems, TLAPS

ServerTypeOK ==
  /\ allocs \in [Tuple -> Allocation \cup {None}]
  /\ relayIndex \in [Endpoint -> Tuple \cup {None}]
  /\ quota \in [User -> Nat]
  /\ inbox \in Seq([endpoint : Endpoint, peer : Peer])

(* relay_index is the inverse of the allocations' relay endpoints.         *)
Indexed ==
  /\ \A t \in Live : relayIndex[allocs[t].relay] = t
  /\ \A e \in Endpoint : relayIndex[e] # None =>
       relayIndex[e] \in Live /\ allocs[relayIndex[e]].relay = e

HeldBy(u) == {t \in Live : allocs[t].user = u}

(* A user's count is the number of its allocations, which are finitely     *)
(* many.                                                                   *)
Counted ==
  /\ IsFiniteSet(Live)
  /\ \A u \in User : quota[u] = Cardinality(HeldBy(u))

Backed == endpoints = {allocs[t].relay : t \in Live}

Routed == routes = UNION {RoutesOf(t, allocs[t], Bound(allocs[t])) : t \in Live}

(* The reverse index of an allocation names only channels that are bound   *)
(* to the peer it names them for.                                          *)
Paired(a) ==
  \A p \in Peer : a.peerToChannel[p] # None =>
    /\ a.channels[a.peerToChannel[p]] # None
    /\ a.channels[a.peerToChannel[p]].peer = p

AllPaired == \A t \in Live : Paired(allocs[t])

Tables == ServerTypeOK /\ Indexed /\ Counted /\ Backed /\ Routed /\ AllPaired

IInv == Tables /\ RelayedToHolder /\ FramedForItsPeer

-----------------------------------------------------------------------------
LEMMA LiveTyped ==
  ASSUME ServerTypeOK, NEW t \in Live
  PROVE  t \in Tuple /\ allocs[t] \in Allocation /\ allocs[t] # None
BY Zenon, TurnAssumption DEF Live, ServerTypeOK

(* The fields of an allocation.                                            *)
LEMMA Fields ==
  ASSUME NEW a \in Allocation
  PROVE  /\ a.relay \in Endpoint /\ a.user \in User /\ a.left \in Nat
         /\ a.perms \in [Ip -> Nat]
         /\ a.channels \in [Channel -> Binding \cup {None}]
         /\ a.peerToChannel \in [Peer -> Channel \cup {None}]
         /\ a.tx \in TxId /\ a.life \in Nat /\ a.used \in Nat
BY Zenon DEF Allocation

(* What a handler that only refreshes or counts leaves of an allocation.   *)
Alike(a, b) ==
  /\ b.relay = a.relay /\ b.user = a.user
  /\ b.peerToChannel = a.peerToChannel
  /\ \A c \in Channel : /\ (b.channels[c] = None) <=> (a.channels[c] = None)
                        /\ a.channels[c] # None => b.channels[c].peer = a.channels[c].peer

LEMMA AlikeRoutes ==
  ASSUME NEW t, NEW a, NEW b, Alike(a, b)
  PROVE  RoutesOf(t, b, Bound(b)) = RoutesOf(t, a, Bound(a))
<1>1. Bound(b) = Bound(a)
  BY Zenon DEF Alike, Bound
<1>2. \A c \in Bound(a) : Route(t, c, b) = Route(t, c, a)
  BY Zenon DEF Alike, Bound, Route
<1> QED
  BY Zenon, <1>1, <1>2 DEF RoutesOf

(* A step that leaves every allocation alike keeps the tables.             *)
LEMMA AlikeKeeps ==
  ASSUME Tables, ServerTypeOK', Live' = Live,
         \A t \in Live : Alike(allocs[t], allocs'[t]),
         UNCHANGED <<relayIndex, quota, endpoints, routes>>
  PROVE  Tables'
<1> USE DEF Tables
<1>1. Indexed'
  BY DEF Indexed, Alike
<1>2. Counted'
  <2>1. \A u \in User : HeldBy(u)' = HeldBy(u)
    BY Zenon DEF HeldBy, Alike
  <2> QED
    BY Zenon, <2>1 DEF Counted
<1>3. Backed'
  BY DEF Backed, Alike
<1>4. Routed'
  <2>1. \A t \in Live : RoutesOf(t, allocs'[t], Bound(allocs'[t]))
                          = RoutesOf(t, allocs[t], Bound(allocs[t]))
    BY Zenon, AlikeRoutes
  <2>2. routes' = UNION {RoutesOf(t, allocs'[t], Bound(allocs'[t])) : t \in Live'}
    BY Zenon, <2>1 DEF Routed
  <2> QED
    BY Zenon, <2>2 DEF Routed
<1>5. AllPaired'
  <2>1. ASSUME NEW t \in Live, NEW p \in Peer, allocs'[t].peerToChannel[p] # None
        PROVE  /\ allocs'[t].channels[allocs'[t].peerToChannel[p]] # None
               /\ allocs'[t].channels[allocs'[t].peerToChannel[p]].peer = p
    <3> DEFINE c == allocs[t].peerToChannel[p]
    <3>1. allocs'[t].peerToChannel[p] = c /\ c \in Channel
      BY <2>1, LiveTyped, Fields DEF Alike
    <3>2. allocs[t].channels[c] # None /\ allocs[t].channels[c].peer = p
      BY Zenon, <2>1, <3>1 DEF AllPaired, Paired
    <3> QED
      BY Zenon, <3>1, <3>2 DEF Alike
  <2> QED
    BY Zenon, <2>1 DEF AllPaired, Paired
<1> QED
  BY Zenon, <1>1, <1>2, <1>3, <1>4, <1>5

(* The lifetime a request is granted is a positive number of ticks.        *)
LEMMA GrantedNat ==
  ASSUME NEW asked \in Nat \cup {None}
  PROVE  Granted(asked) \in Nat \ {0}
<1> DEFINE low == Min({Wanted(asked), MaxLife})
<1>1. Wanted(asked) \in Nat /\ MaxLife \in Nat
  BY Zenon, TurnAssumption DEF Wanted
<1>2. low \in Nat
  <2>1. \E x \in {Wanted(asked), MaxLife} : \A y \in {Wanted(asked), MaxLife} : x <= y
    BY <1>1
  <2> QED
    BY Zenon, <1>1, <2>1 DEF Min
<1> HIDE DEF low
<1>3. Max({low, 1}) \in Nat \ {0}
  <2>1. \E x \in {low, 1} : \A y \in {low, 1} : x >= y
    BY <1>2
  <2>2. Max({low, 1}) >= 1 /\ Max({low, 1}) \in {low, 1}
    BY Zenon, <1>2, <2>1 DEF Max
  <2> QED
    BY <1>2, <2>2
<1>4. Granted(asked) = Max({low, 1})
  BY Zenon DEF Granted, low
<1> QED
  BY Zenon, <1>3, <1>4

(* One allocation replaced by one that is alike.                           *)
LEMMA OneAlike ==
  ASSUME Tables, NEW t \in Live, NEW b \in Allocation, Alike(allocs[t], b),
         allocs' = [allocs EXCEPT ![t] = b], inbox' \in Seq([endpoint : Endpoint, peer : Peer]),
         UNCHANGED <<relayIndex, quota, endpoints, routes>>
  PROVE  Tables'
<1>1. ServerTypeOK'
  BY Zenon, LiveTyped DEF Tables, ServerTypeOK
<1>2. Live' = Live
  BY Zenon, LiveTyped, TurnAssumption DEF Tables, Live, ServerTypeOK
<1>3. \A u \in Live : Alike(allocs[u], allocs'[u])
  BY Zenon, LiveTyped DEF Tables, ServerTypeOK, Alike, Live
<1> QED
  BY Zenon, <1>1, <1>2, <1>3, AlikeKeeps

-----------------------------------------------------------------------------
(* The handlers.                                                           *)

LEMMA RefreshedKeeps ==
  ASSUME Tables, NEW t \in Tuple, NEW r \in ParsedRequest, Refreshed(t, r)
  PROVE  Tables'
<1> DEFINE b == Extended(allocs[t], r.life)
<1>1. t \in Live
  BY Zenon DEF Refreshed, Live
<1>2. allocs[t] \in Allocation
  BY Zenon, <1>1, LiveTyped DEF Tables
<1>3. Granted(r.life) \in Nat
  BY Zenon, GrantedNat DEF ParsedRequest
<1>4. b \in Allocation /\ Alike(allocs[t], b)
  BY Zenon, <1>2, <1>3 DEF Extended, Allocation, Alike
<1>5. allocs' = [allocs EXCEPT ![t] = b]
  BY Zenon DEF Refreshed
<1> QED
  BY Zenon, <1>1, <1>4, <1>5, OneAlike DEF Refreshed, Tables, ServerTypeOK

LEMMA PermittedKeeps ==
  ASSUME Tables, NEW t \in Tuple, NEW r \in ParsedRequest, Permitted(t, r)
  PROVE  Tables'
<1> DEFINE perms == [ip \in Ip |-> IF ip \in Ips(r.peers) THEN PermLife ELSE allocs[t].perms[ip]]
           b == [allocs[t] EXCEPT !.perms = perms]
<1>1. t \in Live
  BY Zenon DEF Permitted, Live
<1>2. allocs[t] \in Allocation
  BY Zenon, <1>1, LiveTyped DEF Tables
<1>3. perms \in [Ip -> Nat]
  BY Zenon, <1>2, Fields, TurnAssumption
<1>4. b \in Allocation /\ Alike(allocs[t], b)
  <2> HIDE DEF perms
  <2> QED
    BY Zenon, <1>2, <1>3 DEF Allocation, Alike
<1>5. allocs' = [allocs EXCEPT ![t] = b]
  BY Zenon DEF Permitted
<1> QED
  BY Zenon, <1>1, <1>4, <1>5, OneAlike DEF Permitted, Tables, ServerTypeOK

LEMMA RelayedKeeps ==
  ASSUME Tables, NEW t \in Live, Relayed(t),
         inbox' \in Seq([endpoint : Endpoint, peer : Peer])
  PROVE  Tables' /\ Alike(allocs[t], allocs'[t]) /\ allocs'[t] \in Allocation
<1> DEFINE n == allocs[t].used + 1
           b == [allocs[t] EXCEPT !.used = n]
<1>1. allocs[t] \in Allocation /\ t \in Tuple
  BY Zenon, LiveTyped DEF Tables
<1>2. b \in Allocation /\ Alike(allocs[t], b)
  <2>1. n \in Nat
    BY <1>1, Fields
  <2> HIDE DEF n
  <2> QED
    BY Zenon, <1>1, <2>1 DEF Allocation, Alike
<1>3. allocs' = [allocs EXCEPT ![t] = b]
  BY Zenon DEF Relayed
<1>4. allocs'[t] = b
  BY Zenon, <1>1, <1>3 DEF Tables, ServerTypeOK
<1> QED
  BY Zenon, <1>2, <1>3, <1>4, OneAlike DEF Relayed

(* Aging keeps an allocation, and everything but its times.                *)
LEMMA PassKeeps ==
  ASSUME Tables, NEW d \in Nat, ServerPass(d)
  PROVE  Tables'
<1>1. ASSUME NEW t \in Live
      PROVE  allocs'[t] \in Allocation /\ Alike(allocs[t], allocs'[t])
  <2> DEFINE a == allocs[t]
  <2>1. a \in Allocation /\ a # None /\ t \in Tuple
    BY Zenon, LiveTyped DEF Tables
  <2>2. allocs'[t] = Aged(a, d)
    BY Zenon, <2>1 DEF ServerPass
  <2>3. \A n \in Nat : Less(n, d) \in Nat
    BY DEF Less
  <2> DEFINE perms == [ip \in Ip |-> Less(a.perms[ip], d)]
             channels == [c \in Channel |-> BindingAged(a.channels[c], d)]
  <2>4. perms \in [Ip -> Nat]
    BY Zenon, <2>1, <2>3, Fields
  <2>5. \A c \in Channel :
          /\ channels[c] \in Binding \cup {None}
          /\ (channels[c] = None) <=> (a.channels[c] = None)
          /\ a.channels[c] # None => channels[c].peer = a.channels[c].peer
    <3> SUFFICES ASSUME NEW c \in Channel
                 PROVE  /\ channels[c] \in Binding \cup {None}
                        /\ (channels[c] = None) <=> (a.channels[c] = None)
                        /\ a.channels[c] # None => channels[c].peer = a.channels[c].peer
      BY Zenon
    <3>1. CASE a.channels[c] = None
      BY Zenon, <3>1 DEF BindingAged
    <3>2. CASE a.channels[c] # None
      <4>1. a.channels[c] \in Binding
        BY Zenon, <2>1, <3>2, Fields
      <4>2. channels[c] = [a.channels[c] EXCEPT !.left = Less(@, d)]
        BY Zenon, <3>2 DEF BindingAged
      <4>3. channels[c] \in Binding /\ channels[c].peer = a.channels[c].peer
        BY Zenon, <4>1, <4>2, <2>3 DEF Binding
      <4> QED
        BY Zenon, <3>2, <4>3, TurnAssumption
    <3> QED
      BY Zenon, <3>1, <3>2
  <2>6. allocs'[t] = [a EXCEPT !.left = Less(a.left, d), !.perms = perms, !.channels = channels]
    BY Zenon, <2>1, <2>2 DEF Aged
  <2>7. Less(a.left, d) \in Nat
    BY Zenon, <2>1, <2>3, Fields
  <2>8. channels \in [Channel -> Binding \cup {None}]
    BY Zenon, <2>5
  <2> HIDE DEF perms, channels
  <2>9. allocs'[t] \in Allocation
    BY Zenon, <2>1, <2>4, <2>6, <2>7, <2>8 DEF Allocation
  <2>10. Alike(a, allocs'[t])
    BY Zenon, <2>1, <2>5, <2>6 DEF Allocation, Alike
  <2> QED
    BY Zenon, <2>9, <2>10
<1>2. \A t \in Tuple \ Live : allocs'[t] = None
  BY Zenon DEF ServerPass, Aged, Live
<1>3. ServerTypeOK'
  BY Zenon, <1>1, <1>2 DEF ServerPass, ServerTypeOK, Tables
<1>4. Live' = Live
  BY Zenon, <1>1, <1>2, TurnAssumption DEF Live
<1> QED
  BY Zenon, <1>1, <1>3, <1>4, AlikeKeeps DEF ServerPass

(* A new allocation: its endpoint is nobody's, so relay_index holds        *)
(* nothing for it, and one user's count goes up with its allocations.      *)
LEMMA AllocateKeeps ==
  ASSUME Tables, NEW t \in Tuple, NEW r \in ParsedRequest,
         AllocateGranted(t, r)
  PROVE  Tables'
<1> USE DEF Tables
<1> DEFINE e == CHOOSE x \in Unused : TRUE
           b == Fresh(r, e)
<1>1. /\ r.user \in User /\ t \notin Live /\ e \in Unused
      /\ endpoints' = endpoints \cup {e}
      /\ relayIndex' = [relayIndex EXCEPT ![e] = t]
      /\ allocs' = [allocs EXCEPT ![t] = b]
      /\ quota' = [quota EXCEPT ![r.user] = @ + 1]
      /\ UNCHANGED <<routes, inbox>>
  BY Zenon DEF AllocateGranted, Auth, ParsedRequest, Live
<1>2. e \in Endpoint /\ \A u \in Live : allocs[u].relay # e
  BY Zenon, <1>1 DEF Unused, Live
<1>3. b \in Allocation /\ Bound(b) = {} /\ b.relay = e /\ b.user = r.user /\ Paired(b)
  <2>1. Granted(r.life) \in Nat
    BY Zenon, GrantedNat DEF ParsedRequest
  <2> HIDE DEF e
  <2>2. b \in Allocation
    BY Zenon, <1>1, <1>2, <2>1 DEF Fresh, Allocation, ParsedRequest
  <2> QED
    BY Zenon, <2>2 DEF Fresh, Bound, Paired
<1> HIDE DEF b, e
<1>4. ServerTypeOK'
  BY <1>1, <1>2, <1>3 DEF ServerTypeOK
<1>5. Live' = Live \cup {t} /\ allocs'[t] = b /\ \A u \in Live : allocs'[u] = allocs[u] /\ u # t
  BY <1>1, <1>3, TurnAssumption DEF Live, ServerTypeOK
<1>6. Indexed'
  <2>1. \A u \in Live' : relayIndex'[allocs'[u].relay] = u
    BY <1>1, <1>2, <1>3, <1>5, LiveTyped, Fields DEF Indexed, ServerTypeOK
  <2>2. \A x \in Endpoint : relayIndex'[x] # None =>
          relayIndex'[x] \in Live' /\ allocs'[relayIndex'[x]].relay = x
    BY <1>1, <1>2, <1>3, <1>5 DEF Indexed, ServerTypeOK
  <2> QED
    BY Zenon, <2>1, <2>2 DEF Indexed
<1>7. Counted'
  <2>1. IsFiniteSet(Live')
    BY Zenon, <1>5, FS_AddElement DEF Counted
  <2>2. ASSUME NEW u \in User
        PROVE  quota'[u] = Cardinality(HeldBy(u)')
    <3>1. IsFiniteSet(HeldBy(u)) /\ quota[u] = Cardinality(HeldBy(u))
      BY Zenon, FS_Subset DEF Counted, HeldBy
    <3>2. CASE u = r.user
      <4>1. HeldBy(u)' = HeldBy(u) \cup {t} /\ t \notin HeldBy(u)
        BY Zenon, <1>1, <1>3, <1>5, <3>2 DEF HeldBy
      <4>2. Cardinality(HeldBy(u)') = Cardinality(HeldBy(u)) + 1
        BY Zenon, <4>1, <3>1, FS_AddElement
      <4> QED
        BY Zenon, <1>1, <3>1, <3>2, <4>2 DEF ServerTypeOK
    <3>3. CASE u # r.user
      <4>1. HeldBy(u)' = HeldBy(u)
        BY Zenon, <1>3, <1>5, <3>3 DEF HeldBy
      <4> QED
        BY Zenon, <1>1, <3>1, <3>3, <4>1 DEF ServerTypeOK
    <3> QED
      BY Zenon, <3>2, <3>3
  <2> QED
    BY Zenon, <2>1, <2>2 DEF Counted
<1>8. Backed'
  BY <1>1, <1>3, <1>5 DEF Backed
<1>9. Routed'
  <2>1. RoutesOf(t, allocs'[t], Bound(allocs'[t])) = {}
    BY Zenon, <1>3, <1>5 DEF RoutesOf
  <2>2. \A u \in Live : RoutesOf(u, allocs'[u], Bound(allocs'[u]))
                          = RoutesOf(u, allocs[u], Bound(allocs[u]))
    BY Zenon, <1>5
  <2>3. routes' = UNION {RoutesOf(u, allocs'[u], Bound(allocs'[u])) : u \in Live'}
    BY <1>1, <1>5, <2>1, <2>2 DEF Routed
  <2> QED
    BY Zenon, <2>3 DEF Routed
<1>10. AllPaired'
  BY <1>3, <1>5 DEF AllPaired, Paired
<1> QED
  BY Zenon, <1>4, <1>6, <1>7, <1>8, <1>9, <1>10

(* delete_allocation for a set of allocations, the others keeping their    *)
(* endpoint and their user.                                                *)
LEMMA DeletedKeeps ==
  ASSUME Tables, NEW T \in SUBSET Live, Deleted(T), Live' = Live \ T,
         \A t \in Live' : allocs'[t].relay = allocs[t].relay /\ allocs'[t].user = allocs[t].user
  PROVE  /\ Indexed' /\ Counted' /\ Backed'
         /\ relayIndex' \in [Endpoint -> Tuple \cup {None}] /\ quota' \in [User -> Nat]
<1> USE DEF Tables
<1> DEFINE gone == {allocs[t].relay : t \in T}
<1>1. /\ endpoints' = endpoints \ gone
      /\ quota' = [u \in User |-> Less(quota[u], Cardinality({t \in T : allocs[t].user = u}))]
      /\ relayIndex' = [e \in Endpoint |-> IF e \in gone THEN None ELSE relayIndex[e]]
  BY Zenon DEF Deleted
<1>2. \A t, u \in Live : allocs[t].relay = allocs[u].relay => t = u
  BY Zenon DEF Indexed
<1>3. \A t \in Live : t \in T <=> allocs[t].relay \in gone
  BY Zenon, <1>2
<1> HIDE DEF gone
<1>4. Indexed'
  <2>1. \A t \in Live' : relayIndex'[allocs'[t].relay] = t
    BY <1>1, <1>3, LiveTyped, Fields DEF Indexed
  <2>2. \A e \in Endpoint : relayIndex'[e] # None =>
          relayIndex'[e] \in Live' /\ allocs'[relayIndex'[e]].relay = e
    BY <1>1, <1>3 DEF Indexed
  <2> QED
    BY Zenon, <2>1, <2>2 DEF Indexed
<1>5. ASSUME NEW u \in User
      PROVE  quota'[u] = Cardinality(HeldBy(u)') /\ quota'[u] \in Nat
  <2> DEFINE D == {t \in T : allocs[t].user = u}
  <2>1. IsFiniteSet(HeldBy(u)) /\ quota[u] = Cardinality(HeldBy(u))
    BY Zenon, FS_Subset DEF Counted, HeldBy
  <2>2. HeldBy(u)' = HeldBy(u) \ D
    BY Zenon DEF HeldBy
  <2>3. HeldBy(u) \cap D = D
    BY Zenon DEF HeldBy
  <2>4. IsFiniteSet(D)
    BY Zenon, <2>1, <2>3, FS_Subset
  <2>5. Cardinality(HeldBy(u) \ D) = Cardinality(HeldBy(u)) - Cardinality(HeldBy(u) \cap D)
    BY Zenon, <2>1, FS_Difference
  <2>6. /\ Cardinality(HeldBy(u)) \in Nat /\ Cardinality(D) \in Nat
        /\ Cardinality(HeldBy(u) \ D) \in Nat
    BY Zenon, <2>1, <2>4, FS_CardinalityType, FS_Difference
  <2>7. quota'[u] = Less(quota[u], Cardinality(D))
    BY Zenon, <1>1
  <2>8. Cardinality(HeldBy(u)') = Cardinality(HeldBy(u)) - Cardinality(D)
    BY <2>2, <2>3, <2>5, Zenon
  <2>9. Cardinality(HeldBy(u)') \in Nat
    BY <2>2, <2>6, Zenon
  <2>10. \A x, y, z \in Nat : z = x - y => Less(x, y) = z
    BY DEF Less
  <2>11. Less(Cardinality(HeldBy(u)), Cardinality(D)) = Cardinality(HeldBy(u)')
    BY Zenon, <2>6, <2>8, <2>9, <2>10
  <2>12. quota'[u] = Cardinality(HeldBy(u)')
    BY Zenon, <2>1, <2>7, <2>11
  <2> QED
    BY Zenon, <2>9, <2>12
<1>6. IsFiniteSet(Live')
  BY Zenon, FS_Subset DEF Counted
<1>7. Backed'
  BY <1>1, <1>3 DEF Backed
<1> QED
  BY Zenon, <1>1, <1>4, <1>5, <1>6, <1>7 DEF Counted, ServerTypeOK

LEMMA RefreshDeletesKeeps ==
  ASSUME Tables, NEW t \in Tuple, NEW r \in ParsedRequest,
         RefreshDeletes(t, r)
  PROVE  Tables'
<1> USE DEF Tables
<1>1. /\ t \in Live /\ Deleted({t})
      /\ routes' = routes \ RoutesOf(t, allocs[t], Bound(allocs[t]))
      /\ allocs' = [allocs EXCEPT ![t] = None] /\ inbox' = inbox
  BY Zenon DEF RefreshDeletes, Live
<1>2. Live' = Live \ {t} /\ \A u \in Live' : allocs'[u] = allocs[u]
  BY Zenon, <1>1 DEF Live, ServerTypeOK
<1>3. /\ Indexed' /\ Counted' /\ Backed'
      /\ relayIndex' \in [Endpoint -> Tuple \cup {None}] /\ quota' \in [User -> Nat]
  BY Zenon, <1>1, <1>2, DeletedKeeps
<1>4. ServerTypeOK'
  BY Zenon, <1>1, <1>3 DEF ServerTypeOK
<1>5. Routed'
  <2> DEFINE R(u) == RoutesOf(u, allocs[u], Bound(allocs[u]))
  <2>1. \A u \in Live : \A x \in R(u) : x.tuple = u
    BY DEF RoutesOf, Route
  <2>2. \A u \in Live' : RoutesOf(u, allocs'[u], Bound(allocs'[u])) = R(u)
    BY Zenon, <1>2
  <2>3. routes = UNION {R(u) : u \in Live} /\ routes' = routes \ R(t)
    BY Zenon, <1>1 DEF Routed
  <2> HIDE DEF R
  <2>4. routes' = UNION {R(u) : u \in Live'}
    BY <1>2, <2>1, <2>3, <1>1
  <2>5. routes' = UNION {RoutesOf(u, allocs'[u], Bound(allocs'[u])) : u \in Live'}
    BY Zenon, <2>2, <2>4
  <2> QED
    BY Zenon, <2>5 DEF Routed
<1>6. AllPaired'
  BY <1>2 DEF AllPaired, Paired
<1> QED
  BY Zenon, <1>3, <1>4, <1>5, <1>6

(* Sweeping an allocation drops the expired channels and the peers that    *)
(* were bound to them, and leaves the others paired.                       *)
LEMMA SweptPaired ==
  ASSUME NEW a \in Allocation, Paired(a)
  PROVE  /\ Swept(a) \in Allocation
         /\ Swept(a).relay = a.relay /\ Swept(a).user = a.user
         /\ Bound(Swept(a)) = Bound(a) \ Expired(a)
         /\ \A c \in Bound(Swept(a)) : Swept(a).channels[c] = a.channels[c]
         /\ Paired(Swept(a))
<1> DEFINE channels == [c \in Channel |-> IF c \in Expired(a) THEN None ELSE a.channels[c]]
           peers == [p \in Peer |->
             IF \E c \in Expired(a) : a.channels[c].peer = p THEN None ELSE a.peerToChannel[p]]
<1>1. Swept(a) = [a EXCEPT !.channels = channels, !.peerToChannel = peers]
  BY Zenon DEF Swept
<1>2. /\ channels \in [Channel -> Binding \cup {None}]
      /\ peers \in [Peer -> Channel \cup {None}]
  BY Zenon, Fields
<1>3. /\ \A c \in Channel : /\ c \in Expired(a) => channels[c] = None
                            /\ c \notin Expired(a) => channels[c] = a.channels[c]
      /\ \A p \in Peer : peers[p] # None =>
           peers[p] = a.peerToChannel[p] /\ \A c \in Expired(a) : a.channels[c].peer # p
  BY Zenon
<1> HIDE DEF channels, peers
<1>4. /\ Swept(a) \in Allocation
      /\ Swept(a).relay = a.relay /\ Swept(a).user = a.user
      /\ Swept(a).channels = channels /\ Swept(a).peerToChannel = peers
  BY Zenon, <1>1, <1>2 DEF Allocation
<1>5. Bound(Swept(a)) = Bound(a) \ Expired(a)
  BY <1>3, <1>4 DEF Bound, Expired
<1>6. \A c \in Bound(Swept(a)) : Swept(a).channels[c] = a.channels[c]
  BY Zenon, <1>3, <1>4, <1>5 DEF Bound
<1>7. ASSUME NEW p \in Peer, peers[p] # None
      PROVE  channels[peers[p]] # None /\ channels[peers[p]].peer = p
  <2>1. peers[p] \in Channel /\ a.channels[peers[p]] # None /\ a.channels[peers[p]].peer = p
    BY <1>2, <1>3, <1>7 DEF Paired
  <2> QED
    BY Zenon, <2>1, <1>3, <1>7
<1> QED
  BY Zenon, <1>4, <1>5, <1>6, <1>7 DEF Paired

LEMMA ReapKeeps ==
  ASSUME Tables, Reap
  PROVE  Tables'
<1> USE DEF Tables
<1> DEFINE lapsed == {t \in Live : allocs[t].left = 0}
           W(t) == IF t \in lapsed THEN Bound(allocs[t]) ELSE Expired(allocs[t])
           R(t) == RoutesOf(t, allocs[t], Bound(allocs[t]))
           Out(t) == RoutesOf(t, allocs[t], W(t))
<1>1. /\ Deleted(lapsed)
      /\ routes' = routes \ UNION {Out(t) : t \in Live}
      /\ allocs' = [t \in Tuple |-> IF t \in Live \ lapsed THEN Swept(allocs[t]) ELSE None]
      /\ inbox' = inbox
  BY Zenon DEF Reap
<1>2. \A t \in Live : allocs[t] \in Allocation /\ t \in Tuple /\ Paired(allocs[t])
  BY Zenon, LiveTyped DEF AllPaired
<1>3. lapsed \subseteq Live /\ \A t \in lapsed : W(t) = Bound(allocs[t])
  BY Zenon
<1>4. \A t \in Live \ lapsed : W(t) = Expired(allocs[t])
  BY Zenon
<1> HIDE DEF lapsed, W
<1>5. Live' = Live \ lapsed /\ \A t \in Live' : allocs'[t] = Swept(allocs[t])
  <2>1. \A t \in Live \ lapsed : allocs'[t] = Swept(allocs[t]) /\ allocs'[t] # None
    BY <1>1, <1>2, SweptPaired, TurnAssumption
  <2>2. \A t \in Tuple \ (Live \ lapsed) : allocs'[t] = None
    BY Zenon, <1>1
  <2>3. Live' = Live \ lapsed
    BY Zenon, <2>1, <2>2, <1>2 DEF Live
  <2> QED
    BY Zenon, <2>1, <2>3
<1>6. \A t \in Live' : allocs'[t].relay = allocs[t].relay /\ allocs'[t].user = allocs[t].user
  BY <1>2, <1>5, SweptPaired
<1>7. /\ Indexed' /\ Counted' /\ Backed'
      /\ relayIndex' \in [Endpoint -> Tuple \cup {None}] /\ quota' \in [User -> Nat]
  BY Zenon, <1>1, <1>3, <1>5, <1>6, DeletedKeeps
<1>8. ServerTypeOK'
  <2>1. allocs' \in [Tuple -> Allocation \cup {None}]
    BY Zenon, <1>1, <1>2, SweptPaired
  <2> QED
    BY Zenon, <1>1, <1>7, <2>1 DEF ServerTypeOK
<1>9. AllPaired'
  BY Zenon, <1>2, <1>5, SweptPaired DEF AllPaired
<1>10. Routed'
  <2> DEFINE N(t) == RoutesOf(t, allocs'[t], Bound(allocs'[t]))
  <2>1. \A t \in Live : \A x \in R(t) : x.tuple = t
    BY DEF RoutesOf, Route
  <2>2. \A t \in Live : \A x \in Out(t) : x.tuple = t
    BY DEF RoutesOf, Route
  <2>3. \A t \in lapsed : Out(t) = R(t)
    BY Zenon, <1>3
  <2>4. ASSUME NEW t \in Live'
        PROVE  N(t) = R(t) \ Out(t)
    <3> DEFINE a == allocs[t]
    <3>1. /\ a \in Allocation /\ allocs'[t] = Swept(a) /\ W(t) = Expired(a)
          /\ Swept(a).relay = a.relay
          /\ Bound(Swept(a)) = Bound(a) \ Expired(a)
          /\ \A c \in Bound(Swept(a)) : Swept(a).channels[c] = a.channels[c]
      BY Zenon, <1>2, <1>4, <1>5, SweptPaired
    <3>2. \A c, k \in Channel : Route(t, c, a) = Route(t, k, a) => c = k
      BY Zenon DEF Route
    <3>3. \A c \in Bound(a) \ Expired(a) : Route(t, c, Swept(a)) = Route(t, c, a)
      BY Zenon, <3>1 DEF Route
    <3>4. Expired(a) \subseteq Bound(a) /\ Bound(a) \subseteq Channel
      BY Zenon DEF Expired, Bound
    <3> HIDE DEF a
    <3>5. RoutesOf(t, Swept(a), Bound(a) \ Expired(a))
            = RoutesOf(t, a, Bound(a)) \ RoutesOf(t, a, Expired(a))
      BY <3>2, <3>3, <3>4 DEF RoutesOf
    <3> QED
      BY Zenon, <3>1, <3>5 DEF a
  <2>5. routes = UNION {R(t) : t \in Live}
    BY Zenon DEF Routed
  <2> HIDE DEF R, Out, N
  <2>6. routes' = UNION {N(t) : t \in Live'}
    BY <1>1, <1>3, <1>5, <2>1, <2>2, <2>3, <2>4, <2>5
  <2> QED
    BY Zenon, <2>6 DEF Routed, N
<1> QED
  BY Zenon, <1>7, <1>8, <1>9, <1>10

(* A binding: the channel and its peer are each other's, so a channel      *)
(* that was bound keeps its route.                                         *)
LEMMA ChannelBoundKeeps ==
  ASSUME Tables, NEW t \in Tuple, NEW r \in ParsedRequest,
         ChannelBound(t, r)
  PROVE  Tables'
<1> USE DEF Tables
<1> DEFINE a == allocs[t]
           c == r.channel
<1>1. t \in Live /\ a \in Allocation /\ c \in Channel /\ Paired(a)
  BY Zenon, LiveTyped DEF ChannelBound, Live, ParsedRequest, AllPaired
<1>2. PICK p \in r.peers :
        /\ Consistent(a, c, p)
        /\ allocs' = [allocs EXCEPT
                        ![t].channels[c] = [peer |-> p, left |-> ChanLife],
                        ![t].peerToChannel[p] = c,
                        ![t].perms[IpOf[p]] = PermLife]
  BY Zenon DEF ChannelBound
<1>3. p \in Peer /\ IpOf[p] \in Ip /\ [peer |-> p, left |-> ChanLife] \in Binding
      /\ PermLife \in Nat
  BY Zenon, <1>2, TurnAssumption DEF ParsedRequest, Binding
<1> DEFINE channels == [a.channels EXCEPT ![c] = [peer |-> p, left |-> ChanLife]]
           peers == [a.peerToChannel EXCEPT ![p] = c]
           perms == [a.perms EXCEPT ![IpOf[p]] = PermLife]
<1>4. /\ channels \in [Channel -> Binding \cup {None}]
      /\ peers \in [Peer -> Channel \cup {None}] /\ perms \in [Ip -> Nat]
  BY Zenon, <1>1, <1>3, Fields
<1>5. /\ allocs'[t] = [a EXCEPT !.channels = channels, !.peerToChannel = peers, !.perms = perms]
      /\ \A u \in Tuple : u # t => allocs'[u] = allocs[u]
      /\ DOMAIN allocs' = Tuple
  BY Zenon, <1>1, <1>2, Fields DEF ServerTypeOK, Allocation
<1> HIDE DEF channels, peers, perms
<1>6. /\ allocs'[t] \in Allocation
      /\ allocs'[t].relay = a.relay /\ allocs'[t].user = a.user
      /\ allocs'[t].channels = channels /\ allocs'[t].peerToChannel = peers
  BY Zenon, <1>1, <1>4, <1>5 DEF Allocation
<1>7. /\ UNCHANGED <<relayIndex, quota, endpoints, inbox>>
      /\ routes' = routes \cup RoutesOf(t, allocs'[t], {c})
  BY Zenon DEF ChannelBound
<1>8. ServerTypeOK'
  <2>1. allocs' \in [Tuple -> Allocation \cup {None}]
    BY <1>2, <1>5, <1>6 DEF ServerTypeOK
  <2> QED
    BY Zenon, <1>7, <2>1 DEF ServerTypeOK
<1>9. Live' = Live
  BY <1>1, <1>5, <1>6, TurnAssumption DEF Live
<1>10. \A u \in Live : /\ u # t => allocs'[u] = allocs[u]
                       /\ allocs'[u].relay = allocs[u].relay
                       /\ allocs'[u].user = allocs[u].user
  BY Zenon, <1>5, <1>6, LiveTyped
<1>11. Indexed' /\ Backed'
  BY <1>7, <1>9, <1>10 DEF Indexed, Backed
<1>12. Counted'
  <2>1. \A u \in User : HeldBy(u)' = HeldBy(u)
    BY Zenon, <1>9, <1>10 DEF HeldBy
  <2> QED
    BY Zenon, <1>7, <1>9, <2>1 DEF Counted
<1>13. /\ channels[c] = [peer |-> p, left |-> ChanLife]
       /\ \A k \in Channel : k # c => channels[k] = a.channels[k]
       /\ peers[p] = c /\ \A q \in Peer : q # p => peers[q] = a.peerToChannel[q]
  BY Zenon, <1>1, <1>3, Fields DEF channels, peers
<1>14. channels[c] # None /\ channels[c].peer = p
  BY <1>3, <1>13, TurnAssumption
<1>15. AllPaired'
  <2>1. Paired(allocs'[t])
    <3> SUFFICES ASSUME NEW q \in Peer, peers[q] # None
                 PROVE  channels[peers[q]] # None /\ channels[peers[q]].peer = q
      BY Zenon, <1>6 DEF Paired
    <3>1. CASE q = p
      BY <3>1, <1>13, <1>14
    <3>2. CASE q # p
      <4>1. /\ peers[q] = a.peerToChannel[q] /\ peers[q] \in Channel
            /\ a.channels[peers[q]] # None /\ a.channels[peers[q]].peer = q
        BY <3>2, <1>1, <1>4, <1>13 DEF Paired
      <4>2. peers[q] # c
        BY Zenon, <4>1, <3>2, <1>2 DEF Consistent
      <4> QED
        BY Zenon, <4>1, <4>2, <1>13
    <3> QED
      BY Zenon, <3>1, <3>2
  <2> QED
    BY Zenon, <2>1, <1>9, <1>10 DEF AllPaired
<1>16. Routed'
  <2> DEFINE R(u) == RoutesOf(u, allocs[u], Bound(allocs[u]))
             N(u) == RoutesOf(u, allocs'[u], Bound(allocs'[u]))
             new == RoutesOf(t, allocs'[t], {c})
  <2>1. \A u \in Live : u # t => N(u) = R(u)
    BY Zenon, <1>10
  <2>2. N(t) = R(t) \cup new
    <3> DEFINE b == allocs'[t]
    <3>1. Bound(b) = Bound(a) \cup {c}
      BY Zenon, <1>1, <1>6, <1>13, <1>14 DEF Bound
    <3>2. \A k \in Bound(a) : Route(t, k, b) = Route(t, k, a)
      BY Zenon, <1>2, <1>6, <1>13, <1>14 DEF Route, Bound, Consistent
    <3> HIDE DEF a, b
    <3>3. RoutesOf(t, b, Bound(b)) = RoutesOf(t, a, Bound(a)) \cup RoutesOf(t, b, {c})
      BY Zenon, <3>1, <3>2 DEF RoutesOf
    <3> QED
      BY Zenon, <3>3 DEF a, b
  <2>3. routes = UNION {R(u) : u \in Live} /\ routes' = routes \cup new
    BY Zenon, <1>7 DEF Routed
  <2> HIDE DEF R, N, new
  <2>4. routes' = UNION {N(u) : u \in Live'}
    BY Zenon, <1>1, <1>9, <2>1, <2>2, <2>3
  <2> QED
    BY Zenon, <2>4 DEF Routed, N
<1> QED
  BY Zenon, <1>8, <1>11, <1>12, <1>15, <1>16

(* A handler that only answers, or drops, leaves every table as it is.     *)
LEMMA IdleKeeps ==
  ASSUME Tables, UNCHANGED books, inbox' \in Seq([endpoint : Endpoint, peer : Peer])
  PROVE  Tables'
BY DEF books, Tables, ServerTypeOK, Indexed, Counted, HeldBy, Backed, Routed, AllPaired,
       Paired, Live

LEMMA RequestKeeps ==
  ASSUME Tables, NEW t \in Tuple, NEW r \in ParsedRequest, NEW code,
         HandleRequest(t, r, code)
  PROVE  Tables' /\ handed' = None
<1>1. ASSUME UNCHANGED <<books, inbox>>, handed' = None PROVE Tables' /\ handed' = None
  BY Zenon, <1>1, IdleKeeps DEF Tables, ServerTypeOK
<1>2. CASE Rejected(t, r, code)
  BY Zenon, <1>1, <1>2 DEF Rejected
<1>3. AllocateAgain(t, r) => Tables' /\ handed' = None
  BY Zenon, <1>1 DEF AllocateAgain
<1>4. AllocateGranted(t, r) => Tables' /\ handed' = None
  BY Zenon, AllocateKeeps DEF AllocateGranted
<1>5. Refreshed(t, r) => Tables' /\ handed' = None
  BY Zenon, RefreshedKeeps DEF Refreshed
<1>6. RefreshDeletes(t, r) => Tables' /\ handed' = None
  BY Zenon, RefreshDeletesKeeps DEF RefreshDeletes
<1>7. Permitted(t, r) => Tables' /\ handed' = None
  BY Zenon, PermittedKeeps DEF Permitted
<1>8. ChannelBound(t, r) => Tables' /\ handed' = None
  BY Zenon, ChannelBoundKeeps DEF ChannelBound
<1>9. CASE Served(t, r)
  <2>1. r.method \in {"Allocate", "Refresh", "CreatePermission", "ChannelBind"}
    BY Zenon DEF ParsedRequest
  <2>2. \/ AllocateAgain(t, r) \/ AllocateGranted(t, r) \/ Refreshed(t, r)
        \/ RefreshDeletes(t, r) \/ Permitted(t, r) \/ ChannelBound(t, r)
    BY <1>9, <2>1 DEF Served
  <2> QED
    BY Zenon, <1>3, <1>4, <1>5, <1>6, <1>7, <1>8, <2>2
<1> QED
  BY Zenon, <1>2, <1>9 DEF HandleRequest

(* The peer's datagram: relay_index leads to the allocation that holds the *)
(* endpoint now, and the reverse index to a channel bound to this peer.    *)
LEMMA InboundKeeps ==
  ASSUME Tables, HandleRelayInbound
  PROVE  Tables' /\ RelayedToHolder' /\ FramedForItsPeer'
<1> DEFINE d == Head(inbox)
           t == relayIndex[d.endpoint]
           q == d.peer
<1>1. /\ inbox' \in Seq([endpoint : Endpoint, peer : Peer])
      /\ d.endpoint \in Endpoint /\ d.peer \in Peer
  <2> DEFINE S == [endpoint : Endpoint, peer : Peer]
  <2>1. inbox \in Seq(S) /\ inbox # <<>> /\ inbox' = Tail(inbox)
    BY Zenon DEF HandleRelayInbound, Tables, ServerTypeOK
  <2> HIDE DEF S
  <2>2. d \in S /\ inbox' \in Seq(S)
    BY <2>1
  <2> HIDE DEF d
  <2> QED
    BY Zenon, <2>2 DEF S
<1>2. \/ /\ t # None /\ Relayed(t)
         /\ handed' = [to |-> t, endpoint |-> d.endpoint, peer |-> q,
                       frame |-> FrameOf(allocs[t], q)]
      \/ UNCHANGED books /\ handed' = None
  BY Zenon DEF HandleRelayInbound
<1>3. CASE UNCHANGED books /\ handed' = None
  BY Zenon, <1>1, <1>3, IdleKeeps DEF RelayedToHolder, FramedForItsPeer
<1>4. CASE /\ t # None /\ Relayed(t)
           /\ handed' = [to |-> t, endpoint |-> d.endpoint, peer |-> q,
                         frame |-> FrameOf(allocs[t], q)]
  <2>1. t \in Live /\ allocs[t].relay = d.endpoint
    BY Zenon, <1>1, <1>4 DEF Tables, Indexed
  <2> HIDE DEF d, t, q
  <2>2. Tables' /\ Alike(allocs[t], allocs'[t]) /\ allocs'[t] \in Allocation
    BY Zenon, <1>1, <1>4, <2>1, RelayedKeeps
  <2>3. RelayedToHolder'
    BY Zenon, <1>4, <2>1, <2>2, TurnAssumption DEF RelayedToHolder, Alike
  <2>4. ASSUME FrameOf(allocs[t], q) # None
        PROVE  allocs'[t].channels[FrameOf(allocs[t], q)].peer = q
    <3> DEFINE a == allocs[t]
               c == a.peerToChannel[q]
    <3>1. a \in Allocation /\ Paired(a) /\ q \in Peer
      BY Zenon, <1>1, <2>1, LiveTyped DEF Tables, AllPaired, q
    <3>2. FrameOf(a, q) = c /\ c # None /\ a.channels[c] # None
      BY Zenon, <2>4 DEF FrameOf
    <3>3. c \in Channel /\ a.channels[c].peer = q
      BY <3>1, <3>2, Fields DEF Paired
    <3> QED
      BY Zenon, <2>2, <3>2, <3>3 DEF Alike
  <2>5. FramedForItsPeer'
    BY Zenon, <1>4, <2>4 DEF FramedForItsPeer
  <2> QED
    BY Zenon, <2>2, <2>3, <2>5
<1> QED
  BY Zenon, <1>2, <1>3, <1>4

-----------------------------------------------------------------------------
LEMMA IInvInit == ServerInit => IInv
<1> SUFFICES ASSUME ServerInit PROVE IInv
  BY Zenon
<1>1. Live = {} /\ ServerTypeOK /\ handed = None
  BY DEF ServerInit, Live, ServerTypeOK
<1>2. Indexed /\ Backed /\ Routed /\ AllPaired
  BY Zenon, <1>1 DEF ServerInit, Indexed, Backed, Routed, AllPaired
<1>3. Counted
  BY Zenon, <1>1, FS_EmptySet DEF ServerInit, Counted, HeldBy
<1> QED
  BY Zenon, <1>1, <1>2, <1>3 DEF IInv, Tables, RelayedToHolder, FramedForItsPeer

LEMMA IInvNext == IInv /\ [ServerNext]_server => IInv'
<1> SUFFICES ASSUME IInv, [ServerNext]_server PROVE IInv'
  BY Zenon
<1>1. Tables
  BY Zenon DEF IInv
<1>2. ASSUME Tables', handed' = None PROVE IInv'
  BY Zenon, <1>2 DEF IInv, RelayedToHolder, FramedForItsPeer
<1>3. CASE \E t \in Tuple, r \in ParsedRequest : \E code \in Answers(t, r) :
             HandleRequest(t, r, code)
  BY Zenon, <1>1, <1>2, <1>3, RequestKeeps
<1>4. CASE \E t \in Tuple, p \in Peer : HandleSendIndication(t, p)
  <2>1. PICK t \in Tuple, p \in Peer : HandleSendIndication(t, p)
    BY Zenon, <1>4
  <2>2. t \in Live /\ Relayed(t) /\ inbox' = inbox /\ handed' = None
    BY Zenon, <2>1 DEF HandleSendIndication, Live
  <2> QED
    BY Zenon, <1>1, <1>2, <2>2, RelayedKeeps DEF Tables, ServerTypeOK
<1>5. CASE \E t \in Tuple, c \in Channel : HandleChannelData(t, c)
  <2>1. PICK t \in Tuple, c \in Channel : HandleChannelData(t, c)
    BY Zenon, <1>5
  <2>2. t \in Live /\ Relayed(t) /\ inbox' = inbox /\ handed' = None
    BY Zenon, <2>1 DEF HandleChannelData, Live
  <2> QED
    BY Zenon, <1>1, <1>2, <2>2, RelayedKeeps DEF Tables, ServerTypeOK
<1>6. CASE \E e \in Endpoint, p \in Peer : PeerSends(e, p)
  <2>1. PICK e \in Endpoint, p \in Peer : PeerSends(e, p)
    BY Zenon, <1>6
  <2>2. inbox' \in Seq([endpoint : Endpoint, peer : Peer])
    BY <1>1, <2>1 DEF PeerSends, Tables, ServerTypeOK
  <2> QED
    BY Zenon, <1>1, <1>2, <2>1, <2>2, IdleKeeps DEF PeerSends
<1>7. CASE HandleRelayInbound
  BY Zenon, <1>1, <1>7, InboundKeeps DEF IInv
<1>8. CASE Reap
  BY Zenon, <1>1, <1>2, <1>8, ReapKeeps DEF Reap
<1>9. CASE \E d \in Nat : ServerPass(d)
  BY Zenon, <1>1, <1>2, <1>9, PassKeeps DEF ServerPass
<1>10. CASE UNCHANGED server
  <2>1. UNCHANGED books /\ inbox' = inbox /\ handed' = handed /\ allocs' = allocs
    BY Zenon, <1>10 DEF server, books
  <2>2. Tables'
    BY Zenon, <1>1, <2>1, IdleKeeps DEF Tables, ServerTypeOK
  <2> QED
    BY Zenon, <2>1, <2>2 DEF IInv, RelayedToHolder, FramedForItsPeer
<1> QED
  BY Zenon, <1>3, <1>4, <1>5, <1>6, <1>7, <1>8, <1>9, <1>10 DEF ServerNext

(* The invariant gives the tables in the form the runs check.              *)
LEMMA TablesAgree == IInv => BooksAgree
<1> SUFFICES ASSUME IInv PROVE BooksAgree
  BY Zenon
<1> USE DEF IInv, Tables
<1>1. ASSUME NEW e \in Endpoint
      PROVE  relayIndex[e] = IF \E t \in Live : allocs[t].relay = e
                             THEN CHOOSE t \in Live : allocs[t].relay = e ELSE None
  <2>1. CASE \E t \in Live : allocs[t].relay = e
    <3> DEFINE k == CHOOSE t \in Live : allocs[t].relay = e
    <3>1. k \in Live /\ allocs[k].relay = e
      BY Zenon, <2>1
    <3> QED
      BY Zenon, <2>1, <3>1 DEF Indexed
  <2>2. CASE ~\E t \in Live : allocs[t].relay = e
    BY Zenon, <2>2 DEF Indexed
  <2> QED
    BY Zenon, <2>1, <2>2
<1> QED
  BY Zenon, <1>1 DEF BooksAgree, Backed, Routed, Counted, HeldBy

(* The tables of the server always agree (handle_allocate,                 *)
(* delete_allocation, handle_channel_bind, reap).                          *)
THEOREM ServerBooksAgree == ServerSpec => []BooksAgree
<1>1. ServerSpec => []IInv
  BY IInvInit, IInvNext, PTL DEF ServerSpec
<1> QED
  BY <1>1, TablesAgree, PTL

(* A peer's datagram reaches the client that holds the relay endpoint it   *)
(* arrived on (handle_relay_inbound).                                      *)
THEOREM InboundReachesHolder == ServerSpec => []RelayedToHolder
<1>1. ServerSpec => []IInv
  BY IInvInit, IInvNext, PTL DEF ServerSpec
<1>2. IInv => RelayedToHolder
  BY Zenon DEF IInv
<1> QED
  BY <1>1, <1>2, PTL

(* It is framed with a channel only when the channel is bound to its peer  *)
(* (handle_relay_inbound's choice of ChannelData or Data indication).      *)
THEOREM InboundFramedForPeer == ServerSpec => []FramedForItsPeer
<1>1. ServerSpec => []IInv
  BY IInvInit, IInvNext, PTL DEF ServerSpec
<1>2. IInv => FramedForItsPeer
  BY Zenon DEF IInv
<1> QED
  BY <1>1, <1>2, PTL
=============================================================================
