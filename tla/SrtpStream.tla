----------------------------- MODULE SrtpStream -----------------------------
(***************************************************************************)
(* One SRTP stream (an SSRC under one key) between a sender's `protect`    *)
(* and a receiver's `unprotect`, each of which may fail over to a standby  *)
(* that is seeded from a checkpoint of its rollover state.                 *)
(*                                                                         *)
(* The media source numbers its packets Base, Base + 1, ...; a packet      *)
(* carries that number modulo SeqSize, and both ends estimate the rest of  *)
(* it.  The packets reach the sender out of order by at most Reorder, with *)
(* gaps that leave it within half a cycle of its checkpoint; the network   *)
(* between the ends loses, repeats, reorders and delays without limit.  A  *)
(* packet authenticates when the receiver estimates the rollover counter   *)
(* it was protected with.                                                  *)
(***************************************************************************)
EXTENDS Integers, FiniteSets, ReplayWindow

CONSTANTS SeqSize,    \* 2^16, sequence numbers
          RocSize,    \* 2^32, rollover counters
          Base, Last, \* the numbers of the source's packets
          Start,      \* those that may reach the sender first
          Reorder,    \* how far behind the newest one a packet reaches it
          Stale,      \* indices an end moves on from its checkpoint before it fails
          Failovers,  \* [sender, receiver]: how often each end fails over
          None

Half == SeqSize \div 2
SeqNo == 0 .. SeqSize - 1
Roc == 0 .. RocSize - 1
Number == Base .. Last
PacketIndex == 0 .. SeqSize * RocSize - 1

ASSUME StreamAssumption ==
  /\ SeqSize \in Nat \ {0} /\ RocSize \in Nat \ {0}
  /\ Base \in Nat /\ Last \in Nat /\ Reorder \in Nat /\ Stale \in Nat
  /\ Start \subseteq Number
  /\ Failovers \in [{"sender", "receiver"} -> Nat]
  /\ None \notin SeqNo \cup Number \cup PacketIndex

VARIABLES
  sender,      \* rollover state of the protecting context
  receiver,    \* rollover state of the unprotecting context
  filter,      \* the receiver's replay filter
  checkpoints, \* the last checkpoint of each end's rollover state
  standbys,    \* takeovers left
  sent,        \* packets on the wire, [n, index]
  accepted,    \* history: indices this receiver accepted
  repeated,    \* history: indices this receiver accepted again
  before,      \* history: indices the receivers it replaced accepted
  newest,      \* history: the highest number accepted, None at first
  anchor       \* history: the index this receiver was seeded at, None at first

history == <<accepted, repeated, before, newest, anchor>>
streamVars == <<sender, receiver, filter, checkpoints, standbys, sent, history>>

Rollover == [roc : Roc, highest : SeqNo \cup {None}]
Fresh == [roc |-> 0, highest |-> None]
End == {"sender", "receiver"}

StreamTypeOK ==
  /\ sender \in Rollover /\ receiver \in Rollover
  /\ filter \in ReplayState
  /\ checkpoints \in [End -> Rollover]
  /\ standbys \in [End -> Nat]
  /\ sent \subseteq [n : Number, index : PacketIndex]
  /\ accepted \subseteq PacketIndex /\ repeated \subseteq accepted /\ before \subseteq PacketIndex
  /\ newest \in Number \cup {None}
  /\ anchor \in PacketIndex \cup {None}

StreamInit ==
  /\ sender = Fresh /\ receiver = Fresh
  /\ filter = EmptyWindow
  /\ checkpoints = [e \in End |-> Fresh]
  /\ standbys = Failovers
  /\ sent = {} /\ accepted = {} /\ repeated = {} /\ before = {}
  /\ newest = None /\ anchor = None

-----------------------------------------------------------------------------
(* The rollover counter the estimate assumes for a sequence number.        *)
(* Faulty variant: a late packet from before the wrap counts as a new one. *)
EstimateNeverBack(s, seq) ==
  IF s.highest = None THEN s.roc
  ELSE IF s.highest >= Half /\ s.highest - seq > Half THEN (s.roc + 1) % RocSize
  ELSE s.roc

Estimate(s, seq) ==
  IF s.highest = None THEN s.roc
  ELSE IF s.highest < Half /\ seq - s.highest > Half THEN (s.roc - 1) % RocSize
  ELSE IF s.highest >= Half /\ s.highest - seq > Half THEN (s.roc + 1) % RocSize
  ELSE s.roc

IndexOf(roc, seq) == roc * SeqSize + seq
IndexFor(s, seq) == IndexOf(Estimate(s, seq), seq)

(* The state moves on for a newer packet of this or of the next cycle.     *)
(* Faulty variant: an old packet of this cycle moves it back.              *)
AdvanceBack(s, seq) ==
  LET v == Estimate(s, seq) IN
  IF s.highest = None \/ v = s.roc \/ v = (s.roc + 1) % RocSize
    THEN [roc |-> v, highest |-> seq] ELSE s

Advance(s, seq) ==
  LET v == Estimate(s, seq) IN
  IF \/ s.highest = None
     \/ v = s.roc /\ seq > s.highest
     \/ v = (s.roc + 1) % RocSize
    THEN [roc |-> v, highest |-> seq] ELSE s

-----------------------------------------------------------------------------
(* protect: a packet of the source arrives in reach of the newest one.     *)
Numbers == {p.n : p \in sent}

Reaches(n) ==
  IF sent = {} THEN n \in Start
  ELSE /\ n \notin Numbers
       /\ \A m \in Numbers : m - n <= Reorder
       /\ \E m \in Numbers : n - m < Half - Stale

Protect(n) ==
  /\ Reaches(n)
  /\ sent' = sent \cup {[n |-> n, index |-> IndexFor(sender, n % SeqSize)]}
  /\ sender' = Advance(sender, n % SeqSize)
  /\ UNCHANGED <<receiver, filter, checkpoints, standbys, history>>

(* unprotect: the replay filter, then the tag.                             *)
Verdict(p) ==
  LET i == IndexFor(receiver, p.n % SeqSize) IN
  IF IsReplay(filter, i) THEN "Replayed"
  ELSE IF i # p.index THEN "AuthFailed" ELSE "Ok"

(* Only an authentic packet changes the receiver's state.                  *)
Unprotect(p) ==
  /\ Verdict(p) = "Ok"
  /\ receiver' = Advance(receiver, p.n % SeqSize)
  /\ filter' = Record(filter, p.index)
  /\ accepted' = accepted \cup {p.index}
  /\ repeated' = repeated \cup ({p.index} \cap accepted)
  /\ newest' = IF newest = None \/ p.n > newest THEN p.n ELSE newest
  /\ UNCHANGED <<sender, checkpoints, standbys, sent, before, anchor>>

-----------------------------------------------------------------------------
(* Failover.  rollover_state has an entry only once a packet was seen.     *)
State(e) == IF e = "sender" THEN sender ELSE receiver

Position(s) == IndexOf(s.roc, s.highest)

CheckpointEnd(e) ==
  /\ standbys[e] > 0
  /\ State(e).highest # None
  /\ checkpoints' = [checkpoints EXCEPT ![e] = State(e)]
  /\ UNCHANGED <<sender, receiver, filter, standbys, sent, history>>

(* A standby takes over from a checkpoint that is not older than Stale.    *)
Recent(e) ==
  /\ standbys[e] > 0 /\ checkpoints[e].highest # None
  /\ Position(State(e)) - Position(checkpoints[e]) <= Stale

SenderTakeover ==
  /\ Recent("sender")
  /\ sender' = checkpoints["sender"]
  /\ standbys' = [standbys EXCEPT !["sender"] = @ - 1]
  /\ UNCHANGED <<receiver, filter, checkpoints, sent, history>>

(* seed_stream.                                                            *)
ReceiverTakeover ==
  /\ Recent("receiver")
  /\ receiver' = checkpoints["receiver"]
  /\ filter' = Anchor(Position(checkpoints["receiver"]))
  /\ standbys' = [standbys EXCEPT !["receiver"] = @ - 1]
  /\ before' = before \cup accepted
  /\ accepted' = {} /\ repeated' = {}
  /\ anchor' = Position(checkpoints["receiver"])
  /\ UNCHANGED <<sender, checkpoints, sent, newest>>

-----------------------------------------------------------------------------
StreamNext ==
  \/ \E n \in Number : Protect(n)
  \/ \E p \in sent : Unprotect(p)
  \/ \E e \in End : CheckpointEnd(e)
  \/ SenderTakeover
  \/ ReceiverTakeover

StreamSpec == StreamInit /\ [][StreamNext]_streamVars

-----------------------------------------------------------------------------
(* The index the source means: its numbers, counted from the cycle of the  *)
(* first one.                                                              *)
FirstCycle == Base \div SeqSize
TrueIndex(n) == n - FirstCycle * SeqSize

(* What the estimate needs: reordering stays within half a cycle, and the  *)
(* stream starts in its first cycle and ends before the last one.          *)
InReach ==
  /\ RocSize > 2 /\ Reorder < Half
  /\ \A n \in Start : n \div SeqSize = FirstCycle
  /\ Last \div SeqSize - FirstCycle < RocSize - 1

-----------------------------------------------------------------------------
(* protect: across wraps, reordering and a takeover of the sender the      *)
(* estimated indices are the source's numbers, so no two packets share a   *)
(* keystream (index_for, cipher_iv).                                       *)
IndexFollowsSource == \A p, q \in sent : p.index - q.index = p.n - q.n

(* unprotect accepts no packet twice, however the network repeats and      *)
(* reorders across the window and the wrap (is_replay, record).            *)
UnprotectedOnce == repeated = {}

(* A packet newer than every accepted one, by less than half a cycle, is   *)
(* accepted: `unprotect` returns "Replayed for a duplicated/too-old index" *)
(* and an authentic tag verifies, also by a standby within half a cycle of *)
(* its checkpoint.                                                         *)
NewestAccepted ==
  \A p \in sent :
    (newest # None /\ newest < p.n /\ p.n + Stale - newest < Half) => Verdict(p) = "Ok"

(* seed_stream: a standby rejects "the primary's last-seen packet" and     *)
(* everything a window below it: only the last indices below the           *)
(* checkpoint, or packets newer than it, are accepted again.               *)
Again == accepted \cap before
TakeoverBounded == \A i \in Again : i # anchor /\ i > anchor - Window

(* seed_stream: "at most a `REPLAY_WINDOW`-wide span may be re-accepted".  *)
SpanWithinWindow == \A i, j \in Again : i - j < Window
=============================================================================
