----------------------------- MODULE IceConsent -----------------------------
(***************************************************************************)
(* Consent freshness (RFC 7675) of one ICE endpoint: the checker, the STUN *)
(* transaction of its check in flight, the queue of answers from the       *)
(* datapath, and the sweep that drives them once per tick of the logical   *)
(* clock, while answers arrive, the peer validates another address and the *)
(* control path registers the endpoint again or ends the call.             *)
(*                                                                         *)
(* Ticks are only compared with each other, so each is kept as its         *)
(* distance to the clock: `age` ticks have passed since last_consent_tick, *)
(* next_check_tick is `wait` ticks ahead.  A transaction id is one that    *)
(* nothing on its way carries.  The jitter is any the generator may give,  *)
(* and the random source for ids works.                                    *)
(***************************************************************************)
EXTENDS Integers, Sequences, FiniteSets

CONSTANTS Address,    \* sources the peer may validate
          TxId,       \* transaction ids, enough for what is on its way
          Interval,   \* interval_ticks
          Timeout,    \* timeout_ticks
          Rto,        \* rto_ticks
          Rc, Rm,     \* requests per transaction, and the wait after the last
          Depth,      \* capacity of the queue of answers
          None

VARIABLES
  path,       \* the datapath's validated source
  registered, \* the supervisor has an entry for the endpoint
  checker,    \* the entry's checker
  queue,      \* answers that wait in the supervisor's queue, [id, age]
  wire,       \* checks the peer may still answer, [id, to]
  sweep,      \* the sweep's next step
  refresh     \* history: the address whose answer was last taken

consent == <<path, registered, checker, queue, wire, sweep, refresh>>

Spread == IF Interval \div 5 > 1 THEN Interval \div 5 ELSE 1
NextInterval == {IF d > 1 THEN d ELSE 1 : d \in Interval - Spread .. Interval + Spread}

SendOffset(attempt) == (2 ^ attempt - 1) * Rto
TimeoutOffset == SendOffset(Rc - 1) + Rm * Rto

ConsentInit ==
  /\ path = None /\ registered = FALSE /\ checker = None
  /\ queue = <<>> /\ wire = {} /\ sweep = "tick" /\ refresh = None

----------------------------------------------------------------------------
(* The sweep.                                                              *)

Older(c) ==
  IF c = None THEN None
  ELSE [c EXCEPT !.age = @ + 1, !.wait = IF @ = 0 THEN 0 ELSE @ - 1,
                 !.pending = IF @ = None THEN None ELSE [@ EXCEPT !.age = @ + 1]]

AdvanceClock ==
  /\ sweep = "tick" /\ sweep' = "drain"
  /\ checker' = Older(checker)
  /\ queue' = [i \in DOMAIN queue |-> [queue[i] EXCEPT !.age = @ + 1]]
  /\ UNCHANGED <<path, registered, wire, refresh>>

(* Faulty variant: one answer is taken per sweep.                          *)
DrainOneOnly ==
  LET answer == Head(queue)
  IN /\ sweep = "drain" /\ queue # <<>>
     /\ queue' = Tail(queue)
     /\ IF checker # None /\ checker.pending # None /\ checker.pending.id = answer.id
        THEN /\ checker' = [checker EXCEPT !.pending = None, !.age = answer.age]
             /\ refresh' = answer.from
        ELSE UNCHANGED <<checker, refresh>>
     /\ sweep' = "poll" /\ UNCHANGED <<path, registered, wire>>

(* drain_events and on_response: an answer to the check in flight counts   *)
(* from its arrival; every other is dropped.                               *)
DrainOne ==
  LET answer == Head(queue)
  IN /\ sweep = "drain" /\ queue # <<>>
     /\ queue' = Tail(queue)
     /\ IF checker # None /\ checker.pending # None /\ checker.pending.id = answer.id
        THEN /\ checker' = [checker EXCEPT !.pending = None, !.age = answer.age]
             /\ refresh' = answer.from
        ELSE UNCHANGED <<checker, refresh>>
     /\ UNCHANGED <<path, registered, wire, sweep>>

DrainEnd ==
  /\ sweep = "drain" /\ queue = <<>> /\ sweep' = "poll"
  /\ UNCHANGED <<path, registered, checker, queue, wire, refresh>>

(* ConsentSupervisor::poll arms a checker for the validated source ...     *)
(* Faulty variant: the check in flight is kept for the new address.        *)
ArmedKeepingCheck ==
  IF checker # None /\ checker.addr = path THEN checker
  ELSE [addr |-> path, age |-> 0, wait |-> 0,
        pending |-> IF checker = None THEN None ELSE checker.pending]

Armed ==
  IF checker # None /\ checker.addr = path THEN checker
  ELSE [addr |-> path, age |-> 0, wait |-> 0, pending |-> None]

(* ... and polls it.  Transaction::poll first: what is due for the check   *)
(* in flight.                                                              *)
Due(p) ==
  IF p = None THEN "Fresh"
  ELSE IF p.age >= TimeoutOffset THEN "Failed"
  ELSE IF p.sent < Rc /\ p.age >= SendOffset(p.sent) THEN "Retransmit" ELSE "Wait"

Free == TxId \ ({m.id : m \in wire} \cup {queue[i].id : i \in DOMAIN queue})

(* Faulty variant: a retransmission does not count as a request sent.      *)
PollCheckerUncounted(c) ==
  IF c.age >= Timeout THEN sweep' = "fail" /\ checker' = c /\ UNCHANGED wire
  ELSE /\ sweep' = "tick"
       /\ CASE Due(c.pending) = "Retransmit" ->
                 /\ checker' = c
                 /\ wire' = wire \cup {[id |-> c.pending.id, to |-> c.addr]}
            [] Due(c.pending) = "Wait" -> checker' = c /\ UNCHANGED wire
            [] Due(c.pending) \in {"Failed", "Fresh"} ->
                 IF c.wait > 0 THEN checker' = [c EXCEPT !.pending = None] /\ UNCHANGED wire
                 ELSE \E id \in Free, d \in NextInterval :
                        /\ checker' = [c EXCEPT !.wait = d,
                                                !.pending = [id |-> id, age |-> 0, sent |-> 1]]
                        /\ wire' = wire \cup {[id |-> id, to |-> c.addr]}

PollChecker(c) ==
  IF c.age >= Timeout THEN sweep' = "fail" /\ checker' = c /\ UNCHANGED wire
  ELSE /\ sweep' = "tick"
       /\ CASE Due(c.pending) = "Retransmit" ->
                 /\ checker' = [c EXCEPT !.pending.sent = @ + 1]
                 /\ wire' = wire \cup {[id |-> c.pending.id, to |-> c.addr]}
            [] Due(c.pending) = "Wait" -> checker' = c /\ UNCHANGED wire
            [] Due(c.pending) \in {"Failed", "Fresh"} ->
                 IF c.wait > 0 THEN checker' = [c EXCEPT !.pending = None] /\ UNCHANGED wire
                 ELSE \E id \in Free, d \in NextInterval :
                        /\ checker' = [c EXCEPT !.wait = d,
                                                !.pending = [id |-> id, age |-> 0, sent |-> 1]]
                        /\ wire' = wire \cup {[id |-> id, to |-> c.addr]}

Poll ==
  /\ sweep = "poll"
  /\ IF ~registered \/ path = None
     THEN checker' = None /\ sweep' = "tick" /\ UNCHANGED wire
     ELSE PollChecker(Armed)
  /\ UNCHANGED <<path, registered, queue, refresh>>

(* drive_consent on a failure: the endpoint is unregistered and its call   *)
(* reaped, both by name; a call seated in a conference only hears of it.   *)
Reap ==
  /\ sweep = "fail" /\ sweep' = "tick"
  /\ registered' = FALSE /\ checker' = None /\ path' \in {None, path}
  /\ UNCHANGED <<queue, wire, refresh>>

----------------------------------------------------------------------------
(* The others.                                                             *)

(* The answer (or a re-answer) registers the endpoint, replacing its entry. *)
Register ==
  /\ registered' = TRUE /\ checker' = None
  /\ UNCHANGED <<path, queue, wire, sweep, refresh>>

(* The end of the call, by unregister_call and remove_endpoint.            *)
Unregister ==
  /\ registered /\ registered' = FALSE /\ checker' = None /\ path' = None
  /\ UNCHANGED <<queue, wire, sweep, refresh>>

(* The datapath adopts the source of a check of the peer.                  *)
Validate(a) ==
  /\ registered /\ path # a /\ path' = a
  /\ UNCHANGED <<registered, checker, queue, wire, sweep, refresh>>

(* The peer answers a check and the datapath queues the answer with its    *)
(* tick; or either is lost, or the queue is full.                          *)
Answer(m) ==
  /\ wire' = wire \ {m}
  /\ \/ Len(queue) < Depth /\ queue' = Append(queue, [id |-> m.id, age |-> 0, from |-> m.to])
     \/ UNCHANGED queue
  /\ UNCHANGED <<path, registered, checker, sweep, refresh>>

ConsentNext ==
  \/ AdvanceClock \/ DrainOne \/ DrainEnd \/ Poll \/ Reap
  \/ Register \/ Unregister
  \/ \E a \in Address : Validate(a)
  \/ \E m \in wire : Answer(m)

----------------------------------------------------------------------------
(* drive_consent: "a response that arrived this tick must refresh consent  *)
(* before expiry is evaluated".  A pair is declared dead only if no answer *)
(* to its check in flight reached the datapath within the window; the one  *)
(* that waits in the queue came too late.                                  *)
AnsweredIsKept ==
  sweep = "fail" /\ checker # None /\ checker.pending # None =>
    \A i \in DOMAIN queue :
      queue[i].id = checker.pending.id => checker.age - queue[i].age >= Timeout

(* "only the RFC 7675 window declares the pair dead": a pair is declared   *)
(* dead only after `enough` requests of one check went unanswered          *)
(* (ConsentChecker::poll, RetransmitSchedule).                             *)
FailsAfter(enough) ==
  sweep = "fail" /\ checker # None =>
    checker.pending # None /\ checker.pending.sent >= enough

(* The module's header: "Checks recur every `interval_ticks` (~5 s)".      *)
(* Between two requests at most one jittered interval passes.  It does not *)
(* hold: the backed-off retransmissions of an unanswered check replace     *)
(* fresh ones (ConsentChecker::poll).                                      *)
ChecksRecur ==
  checker # None /\ checker.pending # None =>
    checker.pending.age - SendOffset(checker.pending.sent - 1) <= Interval + Spread

(* An answer from the address the peer left does not keep consent for the  *)
(* one it moved to alive (ConsentSupervisor::poll, on_response).           *)
RefreshedByThisPath ==
  [][checker # None /\ checker' # None /\ checker.pending # None
       /\ checker'.pending = None /\ sweep = "drain" => refresh' = checker.addr]_consent
=============================================================================
