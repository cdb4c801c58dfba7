----------------------------- MODULE TurnClient -----------------------------
(***************************************************************************)
(* The TURN client's state machine for one allocation, as the engine's     *)
(* tasks drive it: poll hands back at most one datagram, on_datagram takes *)
(* a response of the server.                                               *)
(*                                                                         *)
(* A client is a record, an operator maps a client to the client after it, *)
(* a poll also to the datagram it hands back, None for Idle.  A deadline   *)
(* is kept as the time left until it, Never for u64::MAX, and the nonce as *)
(* its age.  A request that is sent again is built again: its transaction  *)
(* id and the nonce are those of the first time.                           *)
(***************************************************************************)
EXTENDS Integers, Sequences, FiniteSets, FiniteSetsExt

CONSTANTS Peer, TxId,
          Username,          \* the credential's username
          Ask,               \* DEFAULT_LIFETIME_SECONDS
          PermLife,          \* PERMISSION_LIFETIME_SECONDS
          ChanLife,          \* CHANNEL_LIFETIME_SECONDS
          FirstChannel, MaxChannel,
          Rto, Rc, Rm,       \* the retransmission timetable
          NonceLife,         \* bound on the age of a nonce: any older is as old
          Never, None

Later(n, d) == IF n = Never THEN Never ELSE IF n > d THEN n - d ELSE 0

Op(kind, life, peers, channel) ==
  [kind |-> kind, life |-> life, peers |-> peers, channel |-> channel]

Probe == Op("Probe", Ask, {}, None)
Allocate == Op("Allocate", Ask, {}, None)
Refresh(life) == Op("Refresh", life, {}, None)
CreatePermission(p) == Op("CreatePermission", None, {p}, None)
ChannelBind(p, c) == Op("ChannelBind", None, {p}, c)

(* TurnClient::new; `secret` is whether the password is the server's.      *)
New(secret) ==
  [state |-> "Allocating", relayed |-> None, secret |-> secret, nonce |-> None,
   inFlight |-> None, queue |-> <<Probe>>, peers |-> [p \in Peer |-> None],
   nextChannel |-> FirstChannel, refreshIn |-> Never, granted |-> Ask,
   retried |-> FALSE]

Terminal(c) == c.state = "Failed"
Allocated(c) == c.state = "Allocated"
Challenged(c) == c.nonce # None

(* refresh_interval_ms.                                                    *)
RefreshInterval(life) == (life * 75) \div 100

-----------------------------------------------------------------------------
(* Requests.                                                               *)

(* build and with_credentials.                                             *)
Build(c, op, tx) ==
  LET signed == op.kind # "Probe" /\ Challenged(c)
  IN [method |-> IF op.kind = "Probe" THEN "Allocate" ELSE op.kind, tx |-> tx,
      user |-> IF signed THEN Username ELSE None, good |-> c.secret,
      nonce |-> IF signed THEN c.nonce ELSE 0,
      life |-> op.life, udp |-> TRUE, peers |-> op.peers, channel |-> op.channel]

(* RetransmitSchedule: when the next request is due, and when to give up.  *)
SendOffset(attempt) == (2^attempt - 1) * Rto
TimeoutOffset == SendOffset(Rc - 1) + Rm * Rto

TimedOut(f) == f.age >= TimeoutOffset
ResendDue(f) == f.sent < Rc /\ f.age >= SendOffset(f.sent)

(* add_peer.                                                               *)
WithPeer(c, p) ==
  IF c.peers[p] # None THEN c
  ELSE [c EXCEPT !.peers[p] = [channel |-> None, permIn |-> Never, chanIn |-> Never,
                               permitted |-> FALSE],
                 !.queue = Append(@, CreatePermission(p))]

(* Whether a peer's permission or channel is due to be refreshed: a bound  *)
(* peer goes by the earlier of the two clocks.                             *)
(* Faulty variant: a bound peer goes by the channel's own clock.           *)
PeerDueByChannel(b) ==
  IF b = None THEN FALSE
  ELSE IF b.channel # None THEN b.chanIn = 0 ELSE b.permIn = 0

PeerDue(b) ==
  IF b = None THEN FALSE
  ELSE IF b.channel # None THEN Min({b.permIn, b.chanIn}) = 0 ELSE b.permIn = 0

PeerUpkeep(c, p) ==
  IF c.peers[p].channel # None THEN ChannelBind(p, c.peers[p].channel)
  ELSE CreatePermission(p)

(* enqueue_due_maintenance; the peers that are due are taken in any order. *)
Upkeep(c) ==
  LET due == {p \in Peer : PeerDue(c.peers[p])}
      order == CHOOSE s \in [1..Cardinality(due) -> due] :
                 \A p \in due : \E i \in DOMAIN s : s[i] = p
      refresh == IF c.refreshIn = 0 THEN <<Refresh(c.granted)>> ELSE <<>>
  IN IF ~Allocated(c) THEN c
     ELSE [c EXCEPT !.refreshIn = IF @ = 0 THEN Never ELSE @,
                    !.peers = [p \in Peer |-> IF p \in due
                       THEN [@[p] EXCEPT !.permIn = Never,
                               !.chanIn = IF c.peers[p].channel # None THEN Never ELSE @]
                       ELSE @[p]],
                    !.queue = @ \o refresh
                                \o [i \in DOMAIN order |-> PeerUpkeep(c, order[i])]]

(* poll, first case: the client has ended, or its request has timed out    *)
(* and it ends.                                                            *)
Ends(c) == Terminal(c) \/ (c.inFlight # None /\ TimedOut(c.inFlight))

Polled(c, datagram) == [client |-> c, datagram |-> datagram]

(* A request in flight is sent again or waits; ...                         *)
PollInFlight(c) ==
  IF ResendDue(c.inFlight)
  THEN Polled([c EXCEPT !.inFlight.sent = @ + 1], Build(c, c.inFlight.op, c.inFlight.tx))
  ELSE Polled(c, None)

(* ... otherwise the oldest queued request is started, if there is one.    *)
PollStart(c, tx) ==
  LET op == Head(c.queue)
  IN Polled([c EXCEPT !.queue = Tail(@),
                      !.inFlight = [tx |-> tx, op |-> op, sent |-> 1, age |-> 0]],
            Build(c, op, tx))

PollIdle(c) == Polled(c, None)

(* poll of a client that does not end.                                     *)
Poll(c, tx) ==
  LET u == Upkeep(c)
  IN IF c.inFlight # None THEN PollInFlight(c)
     ELSE IF u.queue # <<>> THEN PollStart(u, tx) ELSE PollIdle(u)

(* Whether a poll would do something.                                      *)
Due(c) ==
  IF c.inFlight # None THEN ResendDue(c.inFlight)
  ELSE Upkeep(c).queue # <<>>

(* close and the poll that follows it: whatever is in flight or queued is  *)
(* dropped and the delete goes out.                                        *)
Delete(c, tx) == IF Terminal(c) THEN None ELSE Build(c, Refresh(0), tx)

-----------------------------------------------------------------------------
(* Responses.                                                              *)

(* on_success and finish_allocation, with the request that was answered.   *)
AllocateDone(c, m) ==
  [c EXCEPT !.state = "Allocated", !.relayed = m.relay, !.granted = m.life,
            !.refreshIn = RefreshInterval(m.life)]

RefreshDone(c, m) ==
  [c EXCEPT !.granted = m.life, !.refreshIn = RefreshInterval(m.life)]

(* The first permission of a peer has a channel bound to it.               *)
PermissionDone(c, p) ==
  IF c.peers[p] = None THEN c
  ELSE LET d == [c EXCEPT !.peers[p].permitted = TRUE,
                          !.peers[p].permIn = RefreshInterval(PermLife)]
       IN IF c.peers[p].channel # None THEN d
          ELSE [d EXCEPT !.queue = Append(@, ChannelBind(p, c.nextChannel)),
                         !.nextChannel = Min({@ + 1, MaxChannel})]

ChannelDone(c, p, channel) ==
  IF c.peers[p] = None THEN c
  ELSE [c EXCEPT !.peers[p].channel = channel, !.peers[p].permitted = TRUE,
                 !.peers[p].chanIn = RefreshInterval(ChanLife),
                 !.peers[p].permIn = RefreshInterval(PermLife)]

Succeeded(c, op, m) ==
  LET d == [c EXCEPT !.retried = FALSE]
  IN CASE op.kind \in {"Probe", "Allocate"} -> AllocateDone(d, m)
       [] op.kind = "Refresh" -> RefreshDone(d, m)
       [] op.kind = "CreatePermission" -> PermissionDone(d, CHOOSE p \in op.peers : TRUE)
       [] op.kind = "ChannelBind" -> ChannelDone(d, CHOOSE p \in op.peers : TRUE, op.channel)

(* on_error: the challenge of the probe is answered, ...                   *)
Answered(c, age) == [c EXCEPT !.nonce = age, !.queue = <<Allocate>> \o @]

(* ... a stale nonce is replaced once per success, ...                     *)
(* Faulty variant: the request that met the stale nonce is forgotten.      *)
RenewedOnly(c, op, age) == [c EXCEPT !.nonce = age, !.retried = TRUE]

Renewed(c, op, age) ==
  [c EXCEPT !.nonce = age, !.retried = TRUE, !.queue = <<op>> \o @]

(* ... and any other error ends the allocation, or what it was for.        *)
Refused(c, op) ==
  CASE op.kind \in {"Probe", "Allocate", "Refresh"} -> [c EXCEPT !.state = "Failed"]
    [] op.kind = "CreatePermission" ->
         [c EXCEPT !.peers = [p \in Peer |-> IF p \in op.peers THEN None ELSE @[p]]]
    [] op.kind = "ChannelBind" ->
         [c EXCEPT !.peers = [p \in Peer |-> IF p \in op.peers /\ @[p] # None
                                THEN [@[p] EXCEPT !.channel = None] ELSE @[p]]]

Failed(c, op, m, age) ==
  IF m.code = "Unauthorized" /\ op.kind = "Probe" THEN Answered(c, age)
  ELSE IF m.code = "StaleNonce" /\ ~c.retried THEN Renewed(c, op, age)
  ELSE Refused(c, op)

(* on_datagram: a response that is not for the request in flight is        *)
(* ignored.  `age` is how long the response has been on its way.           *)
OnDatagram(c, m, age) ==
  LET f == c.inFlight
      d == [c EXCEPT !.inFlight = None]
  IN IF Terminal(c) \/ f = None \/ (f # None /\ f.tx # m.tx) THEN c
     ELSE IF m.code = "Success" THEN Succeeded(d, f.op, m) ELSE Failed(d, f.op, m, age)

-----------------------------------------------------------------------------
(* The clock its task polls it with.                                       *)

LaterPeer(b, d) ==
  IF b = None THEN None
  ELSE [b EXCEPT !.permIn = Later(@, d), !.chanIn = Later(@, d)]

AgedClient(c, d) ==
  [c EXCEPT !.refreshIn = Later(@, d),
            !.nonce = IF @ = None THEN None ELSE Min({@ + d, NonceLife + 1}),
            !.peers = [p \in Peer |-> LaterPeer(@[p], d)],
            !.inFlight = IF @ = None THEN None ELSE [@ EXCEPT !.age = @ + d]]

(* How long until the client wants to be polled for something.             *)
ClientTimers(c) ==
  {c.refreshIn}
  \cup UNION {{c.peers[p].permIn, c.peers[p].chanIn} : p \in {q \in Peer : c.peers[q] # None}}
  \cup IF c.inFlight = None THEN {}
       ELSE {TimeoutOffset - c.inFlight.age}
            \cup IF c.inFlight.sent < Rc
                 THEN {SendOffset(c.inFlight.sent) - c.inFlight.age} ELSE {}
=============================================================================
