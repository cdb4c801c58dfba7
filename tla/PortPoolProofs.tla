--------------------------- MODULE PortPoolProofs ---------------------------
(***************************************************************************)
(* Proofs about PortPool: reservations are exact, the budget holds, and    *)
(* the pool implements PortLease, for any number of endpoints, any range   *)
(* and any limit.                                                          *)
(***************************************************************************)
EXTENDS PortPool, FiniteSetTheorems, TLAPS

(* Where a task is, the port it works with is known.                       *)
PortKnown ==
  \A h \in Handle :
     /\ Open(h) => port[h] \in Port
     /\ Ranged /\ h \in Holding => port[h] \in Port
     /\ pc[h] = "claim" => port[h] \in Port
     /\ pc[h] \in {"exact", "scan", "claim", "retry", "undo"} => Ranged
     /\ pc[h] = "exact" => want[h] # None

(* The loops go on only below their bounds.                                *)
LoopsBounded ==
  \A h \in Handle :
     pc[h] \in {"idle", "exact", "scan", "claim", "bind", "retry"} =>
        scans[h] < Span /\ binds[h] < Span

Typed == TypeOK /\ PortKnown /\ LoopsBounded

LEMMA RangeFacts == InRange \subseteq Port /\ InRange \subseteq Nat /\ 0 \in InRange
  BY PoolAssumption DEF InRange, Port

LEMMA InitTyped == Init => Typed
  BY PoolAssumption, RangeFacts
  DEF Init, Typed, TypeOK, PortKnown, LoopsBounded, PcValues, Open, Holding

(* The type invariant is inductive once ports are known and loops bounded. *)
LEMMA NextTyped == Typed /\ [Next]_vars => Typed'
<1> SUFFICES ASSUME Typed, [Next]_vars PROVE Typed'
  BY Zenon
<1> USE PoolAssumption, RangeFacts DEF Goto, allocator, locals, environment
<1>t. TypeOK /\ PortKnown /\ LoopsBounded
  BY Zenon DEF Typed
<1>0. CASE UNCHANGED vars
  BY Zenon, <1>0, <1>t DEF vars, Typed, TypeOK, PortKnown, LoopsBounded, Open, Holding
<1>1. ASSUME NEW h \in Handle, NEW p \in Port \cup {None}, Begin(h, p) PROVE Typed'
  <2>1. TypeOK'
    BY <1>1, <1>t DEF Begin, TypeOK, PcValues
  <2>2. PortKnown' /\ LoopsBounded'
    BY <1>1, <1>t DEF Begin, TypeOK, PcValues, PortKnown, LoopsBounded, Open, Holding
  <2> QED
    BY Zenon, <2>1, <2>2 DEF Typed
<1>2. ASSUME NEW h \in Handle, ReserveExact(h) PROVE Typed'
  <2>1. TypeOK'
    <3>0. reserved' = reserved \/ (want[h] \in InRange /\ reserved' = reserved \cup {want[h]})
      BY <1>2, Zenon DEF ReserveExact
    <3>1. reserved' \subseteq Port
      BY Zenon, <1>t, <3>0 DEF TypeOK
    <3>2. port' \in [Handle -> Port \cup {None}]
      BY <1>2, <1>t DEF ReserveExact, TypeOK
    <3>3. pc' \in [Handle -> PcValues]
      BY <1>2, <1>t DEF ReserveExact, TypeOK, PcValues
    <3> QED
      BY Zenon, <1>2, <1>t, <3>1, <3>2, <3>3 DEF ReserveExact, TypeOK
  <2>2. PortKnown' /\ LoopsBounded'
    BY <1>2, <1>t DEF ReserveExact, TypeOK, PcValues, PortKnown, LoopsBounded, Open, Holding
  <2> QED
    BY Zenon, <2>1, <2>2 DEF Typed
<1>3. ASSUME NEW h \in Handle, NextCandidate(h) PROVE Typed'
  <2>0. (cursor + 1) % Span \in InRange
    BY <1>t DEF TypeOK, InRange
  <2>1. TypeOK'
    BY Zenon, <1>3, <1>t, <2>0 DEF NextCandidate, TypeOK, PcValues
  <2>2. PortKnown' /\ LoopsBounded'
    BY <1>3, <1>t DEF NextCandidate, TypeOK, PcValues, PortKnown, LoopsBounded, Open, Holding
  <2> QED
    BY Zenon, <2>1, <2>2 DEF Typed
<1>4. ASSUME NEW h \in Handle, Claim(h) PROVE Typed'
  <2>0. port[h] \in Port /\ scans[h] + 1 \in 0 .. Span
    BY <1>4, <1>t DEF Claim, TypeOK, PortKnown, LoopsBounded
  <2>1. TypeOK'
    <3>1. reserved' \subseteq Port
      BY Zenon, <1>4, <1>t, <2>0 DEF Claim, TypeOK
    <3>2. scans' \in [Handle -> 0 .. Span]
      BY <1>4, <1>t, <2>0 DEF Claim, TypeOK
    <3>3. pc' \in [Handle -> PcValues]
      BY <1>4, <1>t DEF Claim, TypeOK, PcValues
    <3> QED
      BY Zenon, <1>4, <1>t, <3>1, <3>2, <3>3 DEF Claim, TypeOK
  <2>2. PortKnown' /\ LoopsBounded'
    BY <1>4, <1>t, <2>0 DEF Claim, TypeOK, PcValues, PortKnown, LoopsBounded, Open, Holding
  <2> QED
    BY Zenon, <2>1, <2>2 DEF Typed
<1>5. ASSUME NEW h \in Handle, Bind(h) PROVE Typed'
  <2>0. PICK p \in Asked(h) : port' = [port EXCEPT ![h] = p]
    BY Zenon, <1>5 DEF Bind
  <2>1. p \in Port
    BY <1>5, <1>t, <2>0 DEF Bind, Asked, TypeOK, PortKnown, Holding
  <2>2. TypeOK'
    BY Zenon, <1>5, <1>t, <2>0, <2>1 DEF Bind, TypeOK, PcValues
  <2>3. PortKnown' /\ LoopsBounded'
    BY Zenon, <1>5, <1>t, <2>0, <2>1
       DEF Bind, TypeOK, PcValues, PortKnown, LoopsBounded, Open, Holding
  <2> QED
    BY Zenon, <2>2, <2>3 DEF Typed
<1>6. ASSUME NEW h \in Handle, BindInUse(h) \/ BindError(h) PROVE Typed'
  <2>0. Ranged => port[h] \in Port
    BY Zenon, <1>6, <1>t DEF BindInUse, BindError, PortKnown, Holding
  <2>1. pc' \in [Handle -> PcValues]
    BY <1>6, <1>t DEF BindInUse, BindError, TypeOK, PcValues
  <2>4. TypeOK'
    BY Zenon, <1>6, <1>t, <2>1 DEF BindInUse, BindError, TypeOK
  <2>2. PortKnown' /\ LoopsBounded'
    BY <1>6, <1>t, <2>0
    DEF BindInUse, BindError, TypeOK, PcValues, PortKnown, LoopsBounded, Open, Holding
  <2> QED
    BY Zenon, <2>2, <2>4 DEF Typed
<1>7. ASSUME NEW h \in Handle, Retry(h) PROVE Typed'
  <2>0. binds[h] + 1 \in 0 .. Span
    BY <1>7, <1>t DEF Retry, TypeOK, LoopsBounded
  <2>1. TypeOK'
    BY Zenon, <1>7, <1>t, <2>0 DEF Retry, TypeOK, PcValues
  <2>2. PortKnown'
    BY Zenon, <1>7, <1>t DEF Retry, TypeOK, PcValues, PortKnown, Open, Holding
  <2>3. LoopsBounded'
    BY <1>7, <1>t, <2>0 DEF Retry, TypeOK, PcValues, LoopsBounded
  <2> QED
    BY Zenon, <2>1, <2>2, <2>3 DEF Typed
<1>11. ASSUME NEW h \in Handle, Undo(h) PROVE Typed'
  BY Zenon, <1>11, <1>t DEF Undo, Typed, TypeOK, PcValues, PortKnown, LoopsBounded, Open, Holding
<1>8. ASSUME NEW h \in Handle,
             RegisterSocket(h) \/ RemoveEndpoint(h) \/ Release(h) \/ Close(h)
      PROVE  Typed'
  <2>1. TypeOK'
    <3>1. CASE RegisterSocket(h)
      <4>1. 0 \in 0 .. Span
        BY PoolAssumption
      <4> QED
        BY Zenon, <3>1, <4>1, <1>t DEF RegisterSocket, TypeOK, PcValues
    <3>2. CASE RemoveEndpoint(h) \/ Release(h) \/ Close(h)
      BY Zenon, <3>2, <1>t DEF RemoveEndpoint, Release, Close, TypeOK, PcValues
    <3> QED
      BY Zenon, <1>8, <3>1, <3>2
  <2>2. PortKnown' /\ LoopsBounded'
    BY <1>8, <1>t DEF RegisterSocket, RemoveEndpoint, Release, Close, TypeOK, PcValues,
                      PortKnown, LoopsBounded, Open, Holding
  <2> QED
    BY Zenon, <2>1, <2>2 DEF Typed
<1>9. ASSUME NEW h \in Handle, Refund(h) PROVE Typed'
  <2>1. TypeOK'
    BY <1>9, <1>t DEF Refund, TypeOK, PcValues
  <2>2. PortKnown' /\ LoopsBounded'
    BY <1>9, <1>t DEF Refund, TypeOK, PcValues, PortKnown, LoopsBounded, Open, Holding
  <2> QED
    BY Zenon, <2>1, <2>2 DEF Typed
<1>10. ASSUME \/ \E s \in Sender : SendDone(s) \/ \E h \in Handle : SendStart(s, h)
              \/ \E p \in Port : ForeignBind(p) \/ ForeignClose(p)
       PROVE  Typed'
  BY Zenon, <1>10, <1>t DEF SendDone, SendStart, ForeignBind, ForeignClose, Typed, TypeOK,
                     PortKnown, LoopsBounded, Open, Holding
<1> QED
  BY Zenon, <1>0, <1>1, <1>2, <1>3, <1>4, <1>5, <1>6, <1>7, <1>8, <1>9, <1>10, <1>11 DEF Next, Work

(* Types hold in every reachable state.                                    *)
THEOREM PoolTyped == Spec => []TypeOK
<1>1. Typed => TypeOK
  BY Zenon DEF Typed
<1> QED
  BY InitTyped, NextTyped, <1>1, PTL DEF Spec

-----------------------------------------------------------------------------
(* The three things a step can do to the reservations.                     *)
Stays ==
  /\ Holding' = Holding
  /\ reserved' = reserved
  /\ \A k \in Holding : port'[k] = port[k]

Takes(h) ==
  /\ h \notin Holding /\ Holding' = Holding \cup {h}
  /\ port'[h] \notin reserved /\ reserved' = reserved \cup {port'[h]}
  /\ \A k \in Holding : port'[k] = port[k]

Drops(h) ==
  /\ h \in Holding /\ Holding' = Holding \ {h}
  /\ reserved' = reserved \ {port[h]}
  /\ \A k \in Holding : port'[k] = port[k]

(* Each of them keeps the reservations exact.                              *)
LEMMA StaysExact == Ranged /\ ReservationsExact /\ Stays => ReservationsExact'
<1> SUFFICES ASSUME Ranged, ReservationsExact, Stays PROVE ReservationsExact'
  BY Zenon
<1>1. {port'[k] : k \in Holding'} = {port[k] : k \in Holding}
  BY Zenon DEF Stays
<1> QED
  BY <1>1 DEF Stays, ReservationsExact

LEMMA TakesExact ==
  ASSUME NEW h \in Handle, Ranged, ReservationsExact, Takes(h) PROVE ReservationsExact'
<1>1. {port'[k] : k \in Holding'} = {port[k] : k \in Holding} \cup {port'[h]}
  BY Zenon DEF Takes
<1>2. \A k \in Holding : port'[k] # port'[h]
  BY Zenon DEF Takes, ReservationsExact
<1> QED
  BY <1>1, <1>2 DEF Takes, ReservationsExact

LEMMA DropsExact ==
  ASSUME NEW h \in Handle, Ranged, ReservationsExact, Drops(h) PROVE ReservationsExact'
<1>1. {port'[k] : k \in Holding'} = {port[k] : k \in Holding} \ {port[h]}
  BY DEF Drops, ReservationsExact
<1> QED
  BY <1>1 DEF Drops, ReservationsExact

LEMMA NextReservations == Typed /\ ReservationsExact /\ [Next]_vars => ReservationsExact'
<1> SUFFICES ASSUME Typed, ReservationsExact, [Next]_vars, Ranged PROVE ReservationsExact'
  BY Zenon DEF ReservationsExact
<1> USE DEF Goto, allocator, locals, environment, Holding
<1>t. TypeOK /\ PortKnown
  BY Zenon DEF Typed
<1>0. CASE UNCHANGED vars
  <2>1. Stays
    BY Zenon, <1>0 DEF vars, Stays
  <2> QED
    BY Zenon, <2>1, StaysExact
<1>1. ASSUME NEW h \in Handle, NEW p \in Port \cup {None}, Begin(h, p) PROVE Stays
  BY Zenon, <1>1, <1>t DEF Begin, Stays, TypeOK
<1>2. ASSUME NEW h \in Handle, ReserveExact(h) PROVE Stays \/ Takes(h)
  <2>1. CASE want[h] \in InRange \ reserved
    BY <1>2, <1>t, <2>1 DEF ReserveExact, Takes, TypeOK
  <2>2. CASE want[h] \notin InRange \ reserved
    BY Zenon, <1>2, <1>t, <2>2 DEF ReserveExact, Stays, TypeOK
  <2> QED
    BY Zenon, <2>1, <2>2
<1>3. ASSUME NEW h \in Handle, NextCandidate(h) PROVE Stays
  BY Zenon, <1>3, <1>t DEF NextCandidate, Stays, TypeOK
<1>4. ASSUME NEW h \in Handle, Claim(h) PROVE Stays \/ Takes(h)
  <2>1. CASE port[h] \notin reserved
    BY <1>4, <1>t, <2>1 DEF Claim, Takes, TypeOK
  <2>2. CASE port[h] \in reserved
    BY <1>4, <1>t, <2>2 DEF Claim, Stays, TypeOK
  <2> QED
    BY Zenon, <2>1, <2>2
<1>5. ASSUME NEW h \in Handle, Bind(h) PROVE Stays
  <2>1. port' = [port EXCEPT ![h] = port[h]]
    BY Zenon, <1>5 DEF Bind, Asked
  <2> QED
    BY Zenon, <1>5, <1>t, <2>1 DEF Bind, Stays, TypeOK
<1>6. ASSUME NEW h \in Handle, BindInUse(h) \/ BindError(h) PROVE Stays
  BY Zenon, <1>6, <1>t DEF BindInUse, BindError, Stays, TypeOK
<1>7. ASSUME NEW h \in Handle, Retry(h) \/ Undo(h) \/ Release(h) PROVE Drops(h)
  BY <1>7, <1>t DEF Retry, Undo, Release, Drops, TypeOK
<1>8. ASSUME NEW h \in Handle,
             RegisterSocket(h) \/ RemoveEndpoint(h) \/ Close(h) \/ Refund(h)
      PROVE  Stays
  BY <1>8, <1>t DEF RegisterSocket, RemoveEndpoint, Close, Refund, Stays, TypeOK
<1>9. ASSUME \/ \E s \in Sender : SendDone(s) \/ \E h \in Handle : SendStart(s, h)
             \/ \E p \in Port : ForeignBind(p) \/ ForeignClose(p)
      PROVE  Stays
  BY Zenon, <1>9 DEF SendDone, SendStart, ForeignBind, ForeignClose, Stays
<1>10. Stays \/ (\E h \in Handle : Takes(h) \/ Drops(h)) \/ UNCHANGED vars
  BY Zenon, <1>1, <1>2, <1>3, <1>4, <1>5, <1>6, <1>7, <1>8, <1>9 DEF Next, Work
<1> QED
  BY Zenon, <1>0, <1>10, StaysExact, TakesExact, DropsExact

(* A reserved port has one owner, and only reserved ports have one.        *)
THEOREM PortsExclusive == Spec => []ReservationsExact
<1>1. Init => ReservationsExact
  BY Zenon DEF Init, ReservationsExact, Holding
<1> QED
  BY InitTyped, NextTyped, NextReservations, <1>1, PTL DEF Spec

-----------------------------------------------------------------------------
(* The budget: the counter is exact, so a slot that was kept was below the *)
(* limit when it was taken.                                                *)
Budget == SlotsExact /\ EndpointsBounded

LEMMA HandlesFinite ==
  /\ IsFiniteSet(Busy) /\ IsFiniteSet(Admitted)
  /\ Cardinality(Busy) \in Nat /\ Cardinality(Admitted) \in Nat
  BY Zenon, FiniteAssumption, FS_Subset, FS_CardinalityType DEF Busy, Admitted

LEMMA NextBudget == Typed /\ Budget /\ [Next]_vars => Budget'
<1> SUFFICES ASSUME Typed, Budget, [Next]_vars PROVE Budget'
  BY Zenon
<1> USE DEF Goto, allocator, locals, environment
<1>t. TypeOK
  BY Zenon DEF Typed
<1>b. live = Cardinality(Busy) /\ Cardinality(Admitted) <= Limit
  BY Zenon DEF Budget, SlotsExact, EndpointsBounded
<1>1. ASSUME live' = live, Busy' = Busy, Admitted' \subseteq Admitted PROVE Budget'
  <2>1. Cardinality(Admitted') <= Cardinality(Admitted) /\ Cardinality(Admitted') \in Nat
    BY Zenon, <1>1, HandlesFinite, FS_Subset, FS_CardinalityType
  <2> QED
    BY <1>1, <1>b, <2>1, HandlesFinite, PoolAssumption DEF Budget, SlotsExact, EndpointsBounded
<1>2. ASSUME NEW h \in Handle, NEW p \in Port \cup {None}, Begin(h, p) PROVE Budget'
  <2>1. h \notin Busy /\ Busy' = Busy \cup {h}
    BY Zenon, <1>2, <1>t DEF Begin, Busy, TypeOK
  <2>2. IsFiniteSet(Busy') /\ Cardinality(Busy') = Cardinality(Busy) + 1
    BY Zenon, <2>1, HandlesFinite, FS_AddElement
  <2>3. live' = live + 1
    BY Zenon, <1>2 DEF Begin
  <2>4. CASE live + 1 > Limit
    <3>1. Admitted' = Admitted
      BY Zenon, <1>2, <1>t, <2>4 DEF Begin, Admitted, TypeOK
    <3> QED
      BY Zenon, <1>b, <2>2, <2>3, <3>1 DEF Budget, SlotsExact, EndpointsBounded
  <2>5. CASE ~(live + 1 > Limit)
    <3>1. Admitted' \subseteq Busy'
      BY Zenon DEF Admitted, Busy
    <3>2. Cardinality(Admitted') <= Cardinality(Busy') /\ Cardinality(Admitted') \in Nat
      BY Zenon, <2>2, <3>1, FS_Subset, FS_CardinalityType
    <3> QED
      BY <1>b, <2>2, <2>3, <2>5, <3>2, HandlesFinite, PoolAssumption
      DEF Budget, SlotsExact, EndpointsBounded
  <2> QED
    BY Zenon, <2>4, <2>5
<1>3. ASSUME NEW h \in Handle, Refund(h) PROVE Budget'
  <2>1. h \in Busy /\ Busy' = Busy \ {h}
    BY Zenon, <1>3, <1>t DEF Refund, Busy, TypeOK
  <2>2. IsFiniteSet(Busy') /\ Cardinality(Busy') = Cardinality(Busy) - 1
    BY Zenon, <2>1, HandlesFinite, FS_RemoveElement
  <2>3. live' = live - 1 /\ Admitted' \subseteq Admitted
    BY Zenon, <1>3, <1>t DEF Refund, Admitted, TypeOK
  <2>4. Cardinality(Admitted') <= Cardinality(Admitted) /\ Cardinality(Admitted') \in Nat
    BY Zenon, <2>3, HandlesFinite, FS_Subset, FS_CardinalityType
  <2> QED
    BY <1>b, <2>2, <2>3, <2>4, HandlesFinite, PoolAssumption
    DEF Budget, SlotsExact, EndpointsBounded
<1>4. ASSUME NEW h \in Handle,
             \/ ReserveExact(h) \/ NextCandidate(h) \/ Claim(h) \/ Bind(h) \/ BindInUse(h)
             \/ BindError(h) \/ Retry(h) \/ Undo(h) \/ RegisterSocket(h)
             \/ RemoveEndpoint(h) \/ Release(h) \/ Close(h)
      PROVE  live' = live /\ Busy' = Busy /\ Admitted' \subseteq Admitted
  <2>1. live' = live
    BY SMTT(30), <1>4
       DEF ReserveExact, NextCandidate, Claim, Bind, BindInUse, BindError, Retry, Undo,
                RegisterSocket, RemoveEndpoint, Release, Close
  <2>2. pc[h] \notin {"idle", "refuse"}
    BY SMTT(30), <1>4
       DEF ReserveExact, NextCandidate, Claim, Bind, BindInUse, BindError, Retry, Undo,
                RegisterSocket, RemoveEndpoint, Release, Close
  <2>3. \E l \in PcValues \ {"idle", "refuse"} : pc' = [pc EXCEPT ![h] = l]
    BY SMTT(30), <1>4
       DEF ReserveExact, NextCandidate, Claim, Bind, BindInUse, BindError, Retry, Undo,
                RegisterSocket, RemoveEndpoint, Release, Close, PcValues
  <2> QED
    BY SMTT(30), <1>t, <2>1, <2>2, <2>3 DEF Busy, Admitted, TypeOK
<1>5. ASSUME \/ UNCHANGED vars
             \/ \E s \in Sender : SendDone(s) \/ \E h \in Handle : SendStart(s, h)
             \/ \E p \in Port : ForeignBind(p) \/ ForeignClose(p)
      PROVE  live' = live /\ Busy' = Busy /\ Admitted' \subseteq Admitted
  BY Zenon, <1>5 DEF vars, SendDone, SendStart, ForeignBind, ForeignClose, Busy, Admitted
<1> QED
  BY Zenon, <1>1, <1>2, <1>3, <1>4, <1>5 DEF Next, Work

LEMMA InitBudget == Init => Budget
<1> SUFFICES ASSUME Init PROVE Budget
  BY Zenon
<1>1. Busy = {} /\ Admitted = {}
  BY Zenon DEF Init, Busy, Admitted
<1> QED
  BY <1>1, FS_EmptySet, PoolAssumption DEF Init, Budget, SlotsExact, EndpointsBounded

(* The counter that admits an allocation is the number of slots in use     *)
(* (the fetch_add and fetch_sub of alloc_on and remove_endpoint).          *)
THEOREM CounterIsExact == Spec => []SlotsExact
<1>1. Budget => SlotsExact
  BY Zenon DEF Budget
<1> QED
  BY InitTyped, NextTyped, InitBudget, NextBudget, <1>1, PTL DEF Spec

(* No interleaving of allocations admits more endpoints than the limit.    *)
THEOREM BudgetKept == Spec => []EndpointsBounded
<1>1. Budget => EndpointsBounded
  BY Zenon DEF Budget
<1> QED
  BY InitTyped, NextTyped, InitBudget, NextBudget, <1>1, PTL DEF Spec

-----------------------------------------------------------------------------
(* The refinement.                                                         *)

(* No two open sockets of the backend have the same port.                  *)
SocketsApart == \A h, k \in Handle : Open(h) /\ Open(k) /\ port[h] = port[k] => h = k

LEMMA NextSockets == Typed /\ SocketsApart /\ [Next]_vars => SocketsApart'
<1> SUFFICES ASSUME Typed, SocketsApart, [Next]_vars PROVE SocketsApart'
  BY Zenon
<1> USE DEF Goto, allocator, locals, environment
<1>t. TypeOK
  BY Zenon DEF Typed
<1>1. ASSUME \A k \in Handle : Open(k)' => Open(k) /\ port'[k] = port[k] PROVE SocketsApart'
  BY Zenon, <1>1 DEF SocketsApart
<1>2. ASSUME NEW h \in Handle, Bind(h) PROVE SocketsApart'
  <2>1. PICK p : p \notin InUse /\ port' = [port EXCEPT ![h] = p]
    BY Zenon, <1>2 DEF Bind
  <2>2. \A k \in Handle : Open(k) => port[k] # p
    BY Zenon, <2>1 DEF InUse
  <2>3. pc' = [pc EXCEPT ![h] = "register"]
    BY Zenon, <1>2 DEF Bind
  <2>4. port'[h] = p /\ \A k \in Handle \ {h} : port'[k] = port[k] /\ (Open(k)' => Open(k))
    BY Zenon, <1>t, <2>1, <2>3 DEF TypeOK, Open
  <2> QED
    BY Zenon, <2>2, <2>4 DEF SocketsApart
<1>3. ASSUME NEW h \in Handle, NEW p \in Port \cup {None}, Begin(h, p)
      PROVE  \A k \in Handle : Open(k)' => Open(k) /\ port'[k] = port[k]
  BY Zenon, <1>3, <1>t DEF Begin, Open, TypeOK
<1>4. ASSUME NEW h \in Handle,
             \/ ReserveExact(h) \/ NextCandidate(h) \/ Claim(h) \/ BindInUse(h)
             \/ BindError(h) \/ Retry(h) \/ Undo(h) \/ RegisterSocket(h)
             \/ RemoveEndpoint(h) \/ Release(h) \/ Close(h) \/ Refund(h)
      PROVE  \A k \in Handle : Open(k)' => Open(k) /\ port'[k] = port[k]
  BY <1>4, <1>t DEF ReserveExact, NextCandidate, Claim, BindInUse, BindError, Retry, Undo,
                    RegisterSocket, RemoveEndpoint, Release, Close, Refund, Open, TypeOK
<1>5. ASSUME \/ UNCHANGED vars
             \/ \E s \in Sender : SendDone(s) \/ \E h \in Handle : SendStart(s, h)
             \/ \E p \in Port : ForeignBind(p) \/ ForeignClose(p)
      PROVE  \A k \in Handle : Open(k)' => Open(k) /\ port'[k] = port[k]
  BY Zenon, <1>5 DEF vars, SendDone, SendStart, ForeignBind, ForeignClose, Open
<1> QED
  BY Zenon, <1>1, <1>2, <1>3, <1>4, <1>5 DEF Next, Work

(* What callers see, as a function of the state.                           *)
Seen == [h \in Handle |-> IF pc[h] = "live" THEN port[h] ELSE None]

(* Every step of the pool grants a lease, returns one or changes none.     *)
LEMMA StepRefines ==
  Typed /\ Budget /\ SocketsApart /\ [Next]_vars => [Lease!Next]_Seen
<1> SUFFICES ASSUME Typed, Budget, SocketsApart, [Next]_vars PROVE [Lease!Next]_Seen
  BY Zenon
<1> USE DEF Goto, allocator, locals, environment
<1>t. TypeOK /\ PortKnown
  BY Zenon DEF Typed
<1>1. ASSUME NEW h \in Handle, RegisterSocket(h) PROVE Lease!Next
  <2>1. /\ pc[h] = "register" /\ pc' = [pc EXCEPT ![h] = "live"] /\ port' = port
    BY Zenon, <1>1 DEF RegisterSocket
  <2>2. Open(h) /\ port[h] \in Port /\ port[h] # None
    BY Zenon, <1>t, <2>1, PoolAssumption DEF Open, PortKnown
  <2>3. \A k \in Handle : Seen[k] # port[h]
    BY Zenon, <2>1, <2>2 DEF Seen, SocketsApart, Open
  <2>4. Seen' = [Seen EXCEPT ![h] = port[h]]
    BY Zenon, <1>t, <2>1 DEF Seen, TypeOK
  <2>5. {k \in Handle : Seen[k] # None} \subseteq Admitted \ {h}
    BY Zenon, <2>1 DEF Seen, Admitted
  <2>6. h \in Admitted
    BY Zenon, <2>1 DEF Admitted
  <2>7. /\ IsFiniteSet(Admitted \ {h})
        /\ Cardinality(Admitted \ {h}) = Cardinality(Admitted) - 1
    BY Zenon, <2>6, HandlesFinite, FS_RemoveElement
  <2>8. Cardinality({k \in Handle : Seen[k] # None}) < Limit
    <3>1. /\ Cardinality({k \in Handle : Seen[k] # None}) <= Cardinality(Admitted \ {h})
          /\ Cardinality({k \in Handle : Seen[k] # None}) \in Nat
      BY Zenon, <2>5, <2>7, FS_Subset, FS_CardinalityType
    <3> QED
      BY <2>7, <3>1, HandlesFinite, PoolAssumption DEF Budget, EndpointsBounded
  <2>9. Seen[h] = None
    BY Zenon, <2>1 DEF Seen
  <2>10. PICK p \in Port : p = port[h]
    BY Zenon, <2>2
  <2>11. Lease!Leased = {k \in Handle : Seen[k] # None}
    BY Zenon DEF Lease!Leased, Seen
  <2>12. Lease!Cardinality({k \in Handle : Seen[k] # None}) = Cardinality({k \in Handle : Seen[k] # None})
    BY SMTT(30) DEF Lease!Cardinality, Cardinality
  <2>13. Lease!Grant(h, p)
    BY Zenon, <2>12, <2>3, <2>4, <2>8, <2>9, <2>10, <2>11 DEF Lease!Grant, Seen
  <2> QED
    BY <2>13, Zenon DEF Lease!Next
<1>2. ASSUME NEW h \in Handle, RemoveEndpoint(h) PROVE Lease!Next
  <2>1. pc[h] = "live" /\ pc' = [pc EXCEPT ![h] = "release"] /\ port' = port
    BY Zenon, <1>2 DEF RemoveEndpoint
  <2>2. Seen[h] # None
    BY Zenon, <1>t, <2>1, PoolAssumption DEF Seen, PortKnown, Open
  <2>3. Seen' = [Seen EXCEPT ![h] = None]
    BY Zenon, <1>t, <2>1 DEF Seen, TypeOK
  <2>4. Lease!Return(h)
    BY Zenon, <2>2, <2>3 DEF Lease!Return, Seen
  <2> QED
    BY Zenon, <2>4 DEF Lease!Next
<1>3. ASSUME \A k \in Handle : /\ pc'[k] = "live" <=> pc[k] = "live"
                               /\ pc[k] = "live" => port'[k] = port[k]
      PROVE  Seen' = Seen
  BY Zenon, <1>3 DEF Seen
<1>4. ASSUME NEW h \in Handle,
             \/ ReserveExact(h) \/ NextCandidate(h) \/ Claim(h) \/ Bind(h) \/ BindInUse(h)
             \/ BindError(h) \/ Retry(h) \/ Undo(h) \/ Release(h) \/ Close(h) \/ Refund(h)
             \/ \E p \in Port \cup {None} : Begin(h, p)
      PROVE  Seen' = Seen
  BY <1>3, <1>4, <1>t
  DEF ReserveExact, NextCandidate, Claim, Bind, BindInUse, BindError, Retry, Undo,
      Release, Close, Refund, Begin, TypeOK
<1>5. ASSUME \/ UNCHANGED vars
             \/ \E s \in Sender : SendDone(s) \/ \E h \in Handle : SendStart(s, h)
             \/ \E p \in Port : ForeignBind(p) \/ ForeignClose(p)
      PROVE  Seen' = Seen
  BY Zenon, <1>3, <1>5 DEF vars, SendDone, SendStart, ForeignBind, ForeignClose
<1> QED
  BY Zenon, <1>1, <1>2, <1>4, <1>5 DEF Next, Work

(* The pool implements PortLease: endpoints handed out have distinct ports *)
(* and are at most Limit (alloc_on, alloc_specific_on, remove_endpoint).   *)
THEOREM PoolKeepsLeases == Spec => LeaseKept
<1>1. Init => Lease!Init
  BY Zenon DEF Init, Lease!Init
<1>2. Init => SocketsApart
  BY Zenon DEF Init, SocketsApart, Open
<1> QED
  BY InitTyped, NextTyped, InitBudget, NextBudget, NextSockets, StepRefines, <1>1, <1>2, PTL
  DEF Spec, LeaseKept, Lease!Spec, Seen
=============================================================================
