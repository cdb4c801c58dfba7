------------------------------ MODULE PortPool ------------------------------
(***************************************************************************)
(* The endpoint budget and the media-port range of the UDP backend, under  *)
(* concurrent allocation, allocation on a fixed port (a restore) and       *)
(* removal.                                                                *)
(*                                                                         *)
(* A handle is one endpoint from its allocation to its removal; `pc` is    *)
(* the next access of whoever works on it: the allocating task, then       *)
(* nobody ("live"), then the removing task.  `endpoints.remove` hands the  *)
(* entry to one remover only, so a second removal finds nothing to do.     *)
(* Endpoint ids are never reused by the code; a handle is, once its socket *)
(* is closed.                                                              *)
(*                                                                         *)
(* A port of the range is its offset from port_min.  The cursor is kept    *)
(* modulo the range, which is how it is read.                              *)
(***************************************************************************)
EXTENDS Integers, FiniteSets

CONSTANTS Handle,     \* endpoints that may exist at the same time
          Sender,     \* tasks that send through an endpoint's socket
          Span,       \* size of the range
          Outside,    \* ports outside the range
          Limit,      \* max_endpoints
          Ranged,     \* a port range is configured
          None

InRange == 0 .. Span - 1
Port == InRange \cup Outside

ASSUME PoolAssumption ==
  /\ Span \in Nat \ {0}
  /\ Outside \subseteq Nat /\ Outside \cap InRange = {}
  /\ Limit \in Nat
  /\ Ranged \in BOOLEAN
  /\ None \notin Port /\ None \notin Handle

ASSUME FiniteAssumption == IsFiniteSet(Handle)

VARIABLES
  live,       \* live: slots taken from the budget
  reserved,   \* PortAllocator::reserved
  cursor,     \* PortAllocator::cursor, modulo the range
  pc,         \* the next access of the task that works on the handle
  port,       \* the port it reserved, or its socket is bound to
  want,       \* the port alloc_specific asked for, None for alloc_endpoint
  scans,      \* candidates seen in this call of reserve_next
  binds,      \* binds tried in this call of bind_in_range
  sending,    \* the endpoint whose socket a sender has cloned
  foreign     \* ports bound by other processes of the host

allocator == <<live, reserved, cursor>>
locals == <<want, scans, binds>>
environment == <<sending, foreign>>
vars == <<allocator, pc, port, locals, environment>>

PcValues == {"idle", "exact", "scan", "claim", "bind", "retry", "undo", "register",
             "live", "release", "close", "refuse", "refund"}

TypeOK ==
  /\ live \in Int
  /\ reserved \subseteq Port
  /\ cursor \in InRange
  /\ pc \in [Handle -> PcValues]
  /\ port \in [Handle -> Port \cup {None}]
  /\ want \in [Handle -> Port \cup {None}]
  /\ scans \in [Handle -> 0 .. Span]
  /\ binds \in [Handle -> 0 .. Span]
  /\ sending \in [Sender -> Handle \cup {None}]
  /\ foreign \subseteq Port

Init ==
  /\ live = 0
  /\ reserved = {}
  /\ cursor = 0
  /\ pc = [h \in Handle |-> "idle"]
  /\ port = [h \in Handle |-> None]
  /\ want = [h \in Handle |-> None]
  /\ scans = [h \in Handle |-> 0]
  /\ binds = [h \in Handle |-> 0]
  /\ sending = [s \in Sender |-> None]
  /\ foreign = {}

(* The handle's own reference to an open socket: the local of the          *)
(* allocating task, the entry, or the entry the removing task took.        *)
Open(h) == pc[h] \in {"register", "live", "release", "close"}

(* A socket is closed when its last clone is dropped.                      *)
Cloned(h) == \E s \in Sender : sending[s] = h

InUse == foreign \cup {port[h] : h \in {k \in Handle : Open(k) \/ Cloned(k)}}

Goto(h, l) == pc' = [pc EXCEPT ![h] = l]

-----------------------------------------------------------------------------
(* Allocation.                                                             *)

(* alloc_on and alloc_specific_on take a slot of the budget first.         *)
(* Faulty variant: compares the count before its own slot is added.        *)
BeginLate(h, p) ==
  /\ pc[h] = "idle" /\ ~Cloned(h)
  /\ live' = live + 1
  /\ Goto(h, IF live > Limit THEN "refuse"
             ELSE IF ~Ranged THEN "bind"
             ELSE IF p = None THEN "scan" ELSE "exact")
  /\ want' = [want EXCEPT ![h] = p]
  /\ port' = [port EXCEPT ![h] = None]
  /\ UNCHANGED <<reserved, cursor, scans, binds, environment>>

Begin(h, p) ==
  /\ pc[h] = "idle" /\ ~Cloned(h)
  /\ live' = live + 1
  /\ Goto(h, IF live + 1 > Limit THEN "refuse"
             ELSE IF ~Ranged THEN "bind"
             ELSE IF p = None THEN "scan" ELSE "exact")
  /\ want' = [want EXCEPT ![h] = p]
  /\ port' = [port EXCEPT ![h] = None]
  /\ UNCHANGED <<reserved, cursor, scans, binds, environment>>

(* reserve_exact.  Faulty variant: a port that cannot be reserved is       *)
(* reported without giving the slot back.                                  *)
ReserveExactUnrefunded(h) ==
  /\ pc[h] = "exact"
  /\ IF want[h] \in InRange \ reserved
       THEN /\ reserved' = reserved \cup {want[h]}
            /\ port' = [port EXCEPT ![h] = want[h]]
            /\ Goto(h, "bind")
       ELSE Goto(h, "idle") /\ UNCHANGED <<reserved, port>>
  /\ UNCHANGED <<live, cursor, locals, environment>>

ReserveExact(h) ==
  /\ pc[h] = "exact"
  /\ IF want[h] \in InRange \ reserved
       THEN /\ reserved' = reserved \cup {want[h]}
            /\ port' = [port EXCEPT ![h] = want[h]]
            /\ Goto(h, "bind")
       ELSE Goto(h, "refund") /\ UNCHANGED <<reserved, port>>
  /\ UNCHANGED <<live, cursor, locals, environment>>

(* reserve_next draws a candidate from the shared cursor ...               *)
NextCandidate(h) ==
  /\ pc[h] = "scan"
  /\ port' = [port EXCEPT ![h] = cursor]
  /\ cursor' = (cursor + 1) % Span
  /\ Goto(h, "claim")
  /\ UNCHANGED <<live, reserved, locals, environment>>

(* ... and inserts it into the reserved set.  When every candidate of the  *)
(* loop was taken the allocation fails with PoolExhausted.                 *)
(* Faulty variant: takes the candidate without looking at the insert.      *)
ClaimBlind(h) ==
  /\ pc[h] = "claim"
  /\ reserved' = reserved \cup {port[h]}
  /\ Goto(h, "bind")
  /\ scans' = [scans EXCEPT ![h] = 0]
  /\ UNCHANGED <<live, cursor, port, want, binds, environment>>

Claim(h) ==
  /\ pc[h] = "claim"
  /\ reserved' = reserved \cup {port[h]}
  /\ IF port[h] \notin reserved
       THEN Goto(h, "bind") /\ scans' = [scans EXCEPT ![h] = 0]
       ELSE /\ Goto(h, IF scans[h] + 1 = Span THEN "refund" ELSE "scan")
            /\ scans' = [scans EXCEPT ![h] = @ + 1]
  /\ UNCHANGED <<live, cursor, port, want, binds, environment>>

(* The port a bind asks for: the reserved one, the one alloc_specific was  *)
(* given, or any (the OS picks a port nobody has).                         *)
Asked(h) ==
  IF Ranged THEN {port[h]} ELSE IF want[h] # None THEN {want[h]} ELSE Port

Bind(h) ==
  /\ pc[h] = "bind"
  /\ \E p \in Asked(h) \ InUse : port' = [port EXCEPT ![h] = p]
  /\ Goto(h, "register")
  /\ UNCHANGED <<allocator, want, scans, binds, environment>>

(* A failed bind.  Only EADDRINUSE on a port of the range is retried.      *)
BindInUse(h) ==
  /\ pc[h] = "bind"
  /\ Asked(h) \subseteq InUse
  /\ Goto(h, IF ~Ranged THEN "refund" ELSE IF want[h] = None THEN "retry" ELSE "undo")
  /\ UNCHANGED <<allocator, port, want, scans, binds, environment>>

BindError(h) ==
  /\ pc[h] = "bind"
  /\ Goto(h, IF Ranged THEN "undo" ELSE "refund")
  /\ UNCHANGED <<allocator, port, want, scans, binds, environment>>

(* bind_in_range returns the port and tries the next one, Span times.      *)
(* Faulty variant: goes on until a bind succeeds.                          *)
RetryForever(h) ==
  /\ pc[h] = "retry"
  /\ reserved' = reserved \ {port[h]}
  /\ Goto(h, "scan")
  /\ UNCHANGED <<live, cursor, port, locals, environment>>

Retry(h) ==
  /\ pc[h] = "retry"
  /\ reserved' = reserved \ {port[h]}
  /\ binds' = [binds EXCEPT ![h] = @ + 1]
  /\ Goto(h, IF binds[h] + 1 = Span THEN "refund" ELSE "scan")
  /\ UNCHANGED <<live, cursor, port, want, scans, environment>>

Undo(h) ==
  /\ pc[h] = "undo"
  /\ reserved' = reserved \ {port[h]}
  /\ Goto(h, "refund")
  /\ UNCHANGED <<live, cursor, port, locals, environment>>

(* The endpoint is registered; the allocation returns and its locals go.   *)
RegisterSocket(h) ==
  /\ pc[h] = "register"
  /\ Goto(h, "live")
  /\ want' = [want EXCEPT ![h] = None]
  /\ binds' = [binds EXCEPT ![h] = 0]
  /\ UNCHANGED <<allocator, port, scans, environment>>

-----------------------------------------------------------------------------
(* Removal.                                                                *)

(* endpoints.remove: the entry has one remover.                            *)
RemoveEndpoint(h) ==
  /\ pc[h] = "live"
  /\ Goto(h, "release")
  /\ UNCHANGED <<allocator, port, locals, environment>>

(* The port goes back to the pool while the socket is still open.          *)
Release(h) ==
  /\ pc[h] = "release"
  /\ reserved' = IF Ranged THEN reserved \ {port[h]} ELSE reserved
  /\ Goto(h, "close")
  /\ UNCHANGED <<live, cursor, port, locals, environment>>

(* The receive task is stopped and joined, and the entry's socket dropped. *)
Close(h) ==
  /\ pc[h] = "close"
  /\ Goto(h, "refund")
  /\ UNCHANGED <<allocator, port, locals, environment>>

(* The slot goes back to the budget, after a failure or a removal, and the *)
(* task's locals are gone.                                                 *)
Refund(h) ==
  /\ pc[h] \in {"refuse", "refund"}
  /\ live' = live - 1
  /\ Goto(h, "idle")
  /\ want' = [want EXCEPT ![h] = None]
  /\ scans' = [scans EXCEPT ![h] = 0]
  /\ binds' = [binds EXCEPT ![h] = 0]
  /\ port' = [port EXCEPT ![h] = IF Cloned(h) THEN @ ELSE None]
  /\ UNCHANGED <<reserved, cursor, environment>>

-----------------------------------------------------------------------------
(* Users of a socket, and the other processes of the host.                 *)

(* `send`, and the forwarding of another endpoint's datagram, clone the    *)
(* socket out of the entry and hold it until the send completes.           *)
SendStart(s, h) ==
  /\ sending[s] = None /\ pc[h] = "live"
  /\ sending' = [sending EXCEPT ![s] = h]
  /\ UNCHANGED <<allocator, pc, port, locals, foreign>>

SendDone(s) ==
  /\ sending[s] # None
  /\ sending' = [sending EXCEPT ![s] = None]
  /\ UNCHANGED <<allocator, pc, port, locals, foreign>>

ForeignBind(p) ==
  /\ p \notin InUse
  /\ foreign' = foreign \cup {p}
  /\ UNCHANGED <<allocator, pc, port, locals, sending>>

ForeignClose(p) ==
  /\ p \in foreign
  /\ foreign' = foreign \ {p}
  /\ UNCHANGED <<allocator, pc, port, locals, sending>>

-----------------------------------------------------------------------------
Work(h) ==
  \/ ReserveExact(h) \/ NextCandidate(h) \/ Claim(h)
  \/ Bind(h) \/ BindInUse(h) \/ BindError(h)
  \/ Retry(h) \/ Undo(h) \/ RegisterSocket(h)
  \/ Release(h) \/ Close(h) \/ Refund(h)

Next ==
  \/ \E h \in Handle : Work(h) \/ RemoveEndpoint(h)
  \/ \E h \in Handle : \E p \in Port \cup {None} : Begin(h, p)
  \/ \E s \in Sender : SendDone(s) \/ \E h \in Handle : SendStart(s, h)
  \/ \E p \in Port : ForeignBind(p) \/ ForeignClose(p)

Spec == Init /\ [][Next]_vars

(* A runnable task is polled eventually; the receive task stops at its     *)
(* next await once aborted.                                                *)
Fairness == \A h \in Handle : WF_vars(Work(h))

FairSpec == Spec /\ Fairness

-----------------------------------------------------------------------------
(* Whoever has a port of the range reserved.                               *)
Holding == {h \in Handle : pc[h] \in {"bind", "retry", "undo", "register", "live", "release"}}

(* Whoever took a slot of the budget, and whoever was let keep it.         *)
Busy == {h \in Handle : pc[h] # "idle"}
Admitted == {h \in Handle : pc[h] \notin {"idle", "refuse"}}

(* PortAllocator: a reserved port has exactly one owner and no port is     *)
(* leaked or freed under another owner, whatever order allocations,        *)
(* failed binds and removals take (reserve_next, reserve_exact, release).  *)
ReservationsExact ==
  Ranged =>
    /\ reserved = {port[h] : h \in Holding}
    /\ \A h, k \in Holding : port[h] = port[k] => h = k

(* Every failure path and every removal gives its slot back once: the      *)
(* counter is the number of endpoints that exist, are being made or being  *)
(* removed (alloc_on, alloc_specific_on, remove_endpoint).                 *)
SlotsExact == live = Cardinality(Busy)

(* A concurrent burst cannot overshoot max_endpoints (alloc_on).           *)
EndpointsBounded == Cardinality(Admitted) <= Limit

(* What callers see: the ports of the endpoints handed out.                *)
Lease == INSTANCE PortLease
           WITH lease <- [h \in Handle |-> IF pc[h] = "live" THEN port[h] ELSE None]

(* The pool keeps the promise of PortLease: an endpoint handed out has a   *)
(* port no other one has, and there are at most Limit of them.             *)
LeaseKept == Lease!Spec

(* An allocation or a removal ends, also when every port of the range is   *)
(* held by another process (the loops of bind_in_range and reserve_next    *)
(* are bounded although others move the cursor).                           *)
WorkEnds == \A h \in Handle : pc[h] \notin {"idle", "live"} ~> pc[h] \in {"idle", "live"}

(* remove_endpoint: "the OS socket is fully closed before we return".      *)
RemovedIsClosed == \A h \in Handle : pc[h] = "idle" => ~Cloned(h)
=============================================================================
