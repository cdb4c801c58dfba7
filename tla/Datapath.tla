------------------------------ MODULE Datapath ------------------------------
(***************************************************************************)
(* The media datapath of one node (the UDP backend): per-endpoint receive  *)
(* tasks that run the ingress pipeline of `receive`, `handle_stun` and     *)
(* `dispatch`, one control thread that runs the trait's operations, and    *)
(* the ICE agent driver that adopts selected sources.  The maps have no    *)
(* common lock, so every map access is a step of its own and the actors    *)
(* interleave between them.  Variables that only the control thread writes *)
(* (flows, ice, forwardOnly) are read together with its next access.       *)
(*                                                                         *)
(* A datagram is what is left of it after the TURN de-encapsulation: a     *)
(* source, a class, the SSRC of an RTP packet, the credentials a STUN      *)
(* request verifies under and the priority of a nominating one.            *)
(***************************************************************************)
EXTENDS Latch, Sequences

CONSTANTS Carrier,        \* "socket": the receive loop; "stream": ingest_relayed
          Ufrag,          \* ICE credentials, one per ICE session
          Priority,       \* PRIORITY attributes of nominating checks
          Packet,         \* the datagrams that may arrive
          Programs,       \* the operation sequences the control thread may run
          MultiThreaded   \* actors preempt each other between map accesses

Worker == Endpoint \X Carrier

Class == {"rtp", "rtcp", "stun", "other"}

Datagram == [src : Addr, class : Class, ssrc : OptSsrc,
             ufrag : Ufrag \cup {None}, nominates : Priority \cup {None}]

Op == {"flow_insert", "forget_own", "forget_peer", "flow_remove",
       "ice_restart", "ice_insert", "mode_set", "ice_remove",
       "nominated_remove", "mode_remove", "subscribe", "publish",
       "unsubscribe", "endpoint_remove", "abort", "join", "latch_remove"}

(* One map access of the control thread.                                   *)
Step == [op : Op, e : Endpoint, action : Action, ufrag : Ufrag \cup {None},
         full : BOOLEAN]

ASSUME DatapathAssumption ==
  /\ Carrier \subseteq {"socket", "stream"}
  /\ Priority \subseteq Nat
  /\ None \notin Ufrag \cup Priority
  /\ Packet \subseteq Datagram /\ Packet # {}
  /\ Programs \subseteq Seq(Step)
  /\ MultiThreaded \in BOOLEAN

VARIABLES
  alive,        \* endpoints: the endpoint has an entry
  aborted,      \* the receive task of the endpoint was told to stop
  flows,        \* flows: the installed action
  latchSrc,     \* latched: the source, None without an entry
  latchSsrc,    \* latched: the SSRC
  ice,          \* ice: the local credentials of an ICE endpoint
  nominated,    \* ice_nominated: the priority of the selected pair
  forwardOnly,  \* ice_forward_only: the full agent answers checks
  watched,      \* ice_validated: the endpoint has a publisher
  pub,          \* the source last published to the watcher
  selected,     \* the agent driver: a selected pair not yet adopted
  adopting,     \* adopt_source stored the source and is about to publish it
  pc,           \* where each receive worker is
  pkt,          \* its datagram
  rule,         \* its copy of the endpoint's action
  cfg,          \* its clone of the ICE credentials
  dst,          \* the destination it resolved
  todo,         \* what is left of the control thread's operations
  previous,     \* the action install_flow replaced
  admitted,     \* history: addresses a latching rule of the endpoint accepted
  validated,    \* history: sources adopted by a check or by the agent
  nomUfrag,     \* history: the session of the nomination in `nominated`,
                \* None when its check was overtaken by a change of sessions
  nomSrc        \* history: its source

latched == <<latchSrc, latchSsrc>>
nomination == <<nominated, nomUfrag, nomSrc>>
watch == <<watched, pub>>
agent == <<selected, adopting>>
wiring == <<alive, aborted, flows, ice, forwardOnly, previous, admitted>>
worker == <<pc, pkt, rule, cfg, dst>>
shared == <<latched, nomination, watch, wiring, agent, todo, validated>>
vars == <<shared, worker>>

PcValues == {"idle", "stunIce", "check", "adopt", "publish", "gate", "iceLatch",
             "latch", "learn", "resolve", "emit"}

TypeOK ==
  /\ alive \in [Endpoint -> BOOLEAN]
  /\ aborted \in [Endpoint -> BOOLEAN]
  /\ flows \in [Endpoint -> Action]
  /\ latchSrc \in [Endpoint -> OptAddr]
  /\ latchSsrc \in [Endpoint -> OptSsrc]
  /\ ice \in [Endpoint -> Ufrag \cup {None}]
  /\ nominated \in [Endpoint -> Priority \cup {None}]
  /\ forwardOnly \in [Endpoint -> BOOLEAN]
  /\ watched \in [Endpoint -> BOOLEAN]
  /\ pub \in [Endpoint -> OptAddr]
  /\ selected \in [Endpoint -> OptAddr]
  /\ adopting \in [Endpoint -> BOOLEAN]
  /\ pc \in [Worker -> PcValues]
  /\ pkt \in [Worker -> Datagram]
  /\ rule \in [Worker -> Action]
  /\ cfg \in [Worker -> Ufrag \cup {None}]
  /\ dst \in [Worker -> OptAddr]
  /\ todo \in Seq(Step)
  /\ previous \in Action
  /\ admitted \in [Endpoint -> SUBSET Ip]
  /\ validated \in [Endpoint -> SUBSET Addr]
  /\ nomUfrag \in [Endpoint -> Ufrag \cup {None}]
  /\ nomSrc \in [Endpoint -> OptAddr]

AnyPacket == CHOOSE p \in Packet : TRUE

(* Right after the offer allocated the endpoints: nothing is installed.    *)
Init ==
  /\ alive = [e \in Endpoint |-> TRUE]
  /\ aborted = [e \in Endpoint |-> FALSE]
  /\ flows = [e \in Endpoint |-> NoRule("none")]
  /\ latchSrc = [e \in Endpoint |-> None]
  /\ latchSsrc = [e \in Endpoint |-> None]
  /\ ice = [e \in Endpoint |-> None]
  /\ nominated = [e \in Endpoint |-> None]
  /\ forwardOnly = [e \in Endpoint |-> FALSE]
  /\ watched = [e \in Endpoint |-> FALSE]
  /\ pub = [e \in Endpoint |-> None]
  /\ selected = [e \in Endpoint |-> None]
  /\ adopting = [e \in Endpoint |-> FALSE]
  /\ pc = [w \in Worker |-> "idle"]
  /\ pkt = [w \in Worker |-> AnyPacket]
  /\ rule = [w \in Worker |-> NoRule("none")]
  /\ cfg = [w \in Worker |-> None]
  /\ dst = [w \in Worker |-> None]
  /\ todo = <<>>
  /\ previous = NoRule("none")
  /\ admitted = [e \in Endpoint |-> {}]
  /\ validated = [e \in Endpoint |-> {}]
  /\ nomUfrag = [e \in Endpoint |-> None]
  /\ nomSrc = [e \in Endpoint |-> None]

-----------------------------------------------------------------------------
(* The runtime.  A worker is suspended only where it awaits: the socket    *)
(* read and the send.  On a current-thread runtime an actor runs alone     *)
(* between two awaits; on the multi-thread one there is no such order.     *)

Doing == IF todo = <<>> THEN "nothing" ELSE todo[1].op

Suspended(w) == pc[w] \in {"idle", "emit"}

Between == Doing \in {"nothing", "join"} /\ \A e \in Endpoint : ~adopting[e]

WorkerRuns(w) ==
  \/ MultiThreaded
  \/ Between /\ \A v \in Worker \ {w} : Suspended(v)

ControlRuns ==
  \/ MultiThreaded
  \/ /\ \A w \in Worker : Suspended(w)
     /\ \A e \in Endpoint : ~adopting[e]

AgentRuns(e) ==
  \/ MultiThreaded
  \/ adopting[e]
  \/ Between /\ \A w \in Worker : Suspended(w)

-----------------------------------------------------------------------------
(* The receive workers.                                                    *)

Goto(w, label) ==
  /\ pc' = [pc EXCEPT ![w] = label]
  /\ UNCHANGED <<pkt, rule, cfg, dst>>

Finish(w) ==
  /\ pc' = [pc EXCEPT ![w] = "idle"]
  /\ pkt' = [pkt EXCEPT ![w] = AnyPacket]
  /\ rule' = [rule EXCEPT ![w] = NoRule("none")]
  /\ cfg' = [cfg EXCEPT ![w] = None]
  /\ dst' = [dst EXCEPT ![w] = None]

(* dispatch up to its first gate: copy the action out of `flows`; only RTP *)
(* and RTCP pass a forward rule.                                           *)
Dispatch(w, p) ==
  LET a == flows[w[1]]
  IN  IF \/ a.kind \in {"none", "drop"}
         \/ a.kind = "forward" /\ p.class \notin {"rtp", "rtcp"}
      THEN Finish(w)
      ELSE /\ pc' = [pc EXCEPT ![w] = "gate"]
           /\ pkt' = [pkt EXCEPT ![w] = p]
           /\ rule' = [rule EXCEPT ![w] = a]
           /\ UNCHANGED <<cfg, dst>>

(* Faulty variant: the loop ignores the abort                               *)
MayReceiveUnaborted(w) == w[2] = "socket" \/ alive[w[1]]

(* The receive loop reads until its task is aborted; ingest_relayed looks  *)
(* the endpoint up first.                                                  *)
MayReceive(w) ==
  IF w[2] = "socket" THEN ~aborted[w[1]] ELSE alive[w[1]]

ReceiveMedia(w) ==
  /\ pc[w] = "idle" /\ MayReceive(w) /\ WorkerRuns(w)
  /\ \E p \in Packet : p.class # "stun" /\ Dispatch(w, p)
  /\ UNCHANGED shared

(* STUN on a full-agent endpoint is the agent's; the datapath stops there. *)
ReceiveStun(w) ==
  /\ pc[w] = "idle" /\ MayReceive(w) /\ WorkerRuns(w)
  /\ ~forwardOnly[w[1]]
  /\ \E p \in Packet :
       /\ p.class = "stun"
       /\ pc' = [pc EXCEPT ![w] = "stunIce"]
       /\ pkt' = [pkt EXCEPT ![w] = p]
  /\ UNCHANGED <<rule, cfg, dst>>
  /\ UNCHANGED shared

(* Clone the credentials, or fall through to the flow.                     *)
StunIce(w) ==
  /\ pc[w] = "stunIce" /\ WorkerRuns(w)
  /\ IF ice[w[1]] = None
     THEN Dispatch(w, pkt[w])
     ELSE /\ pc' = [pc EXCEPT ![w] = "check"]
          /\ cfg' = [cfg EXCEPT ![w] = ice[w[1]]]
          /\ UNCHANGED <<pkt, rule, dst>>
  /\ UNCHANGED shared

(* The session whose check stores a nomination, None when its credentials  *)
(* have been replaced since it cloned them, or are just about to be.       *)
Restarting(e) == Doing = "ice_insert" /\ todo[1].e = e /\ todo[1].ufrag # ice[e]
SessionOf(w) == IF cfg[w] = ice[w[1]] /\ ~Restarting(w[1]) THEN cfg[w] ELSE None

(* respond_to_stun_check under the cloned credentials, then the atomic     *)
(* compare-and-insert on `ice_nominated`.                                  *)
Check(w) ==
  LET e == w[1]
      p == pkt[w].nominates
  IN  /\ pc[w] = "check" /\ WorkerRuns(w)
      /\ IF /\ pkt[w].ufrag = cfg[w] /\ p # None
            /\ NominationSupersedes(nominated[e], p)
         THEN /\ nominated' = [nominated EXCEPT ![e] = p]
              /\ nomUfrag' = [nomUfrag EXCEPT ![e] = SessionOf(w)]
              /\ nomSrc' = [nomSrc EXCEPT ![e] = pkt[w].src]
              /\ Goto(w, "adopt")
         ELSE Finish(w) /\ UNCHANGED nomination
      /\ UNCHANGED <<latched, watch, wiring, agent, todo, validated>>

(* Faulty variant: the first adopted source stays                           *)
AdoptCheckedFirst(w) ==
  /\ pc[w] = "adopt" /\ WorkerRuns(w)
  /\ IF latchSrc[w[1]] = None
     THEN /\ latchSrc' = [latchSrc EXCEPT ![w[1]] = pkt[w].src]
          /\ validated' = [validated EXCEPT ![w[1]] = @ \cup {pkt[w].src}]
     ELSE UNCHANGED <<latchSrc, validated>>
  /\ Goto(w, "publish")
  /\ UNCHANGED <<latchSsrc, nomination, watch, wiring, agent, todo>>

AdoptChecked(w) ==
  /\ pc[w] = "adopt" /\ WorkerRuns(w)
  /\ latchSrc' = [latchSrc EXCEPT ![w[1]] = pkt[w].src]
  /\ latchSsrc' = [latchSsrc EXCEPT ![w[1]] = None]
  /\ validated' = [validated EXCEPT ![w[1]] = @ \cup {pkt[w].src}]
  /\ Goto(w, "publish")
  /\ UNCHANGED <<nomination, watch, wiring, agent, todo>>

(* Faulty variant: only the first validated source is published             *)
PublishIceValidatedOnce(e) ==
  /\ pub' = IF watched[e] /\ pub[e] = None THEN [pub EXCEPT ![e] = latchSrc[e]] ELSE pub
  /\ UNCHANGED watched

(* The publisher reads `latched` under its own lock.                       *)
PublishIceValidated(e) ==
  /\ pub' = IF watched[e] THEN [pub EXCEPT ![e] = latchSrc[e]] ELSE pub
  /\ UNCHANGED watched

PublishChecked(w) ==
  /\ pc[w] = "publish" /\ WorkerRuns(w)
  /\ PublishIceValidated(w[1])
  /\ Finish(w)
  /\ UNCHANGED <<latched, nomination, wiring, agent, todo, validated>>

(* Faulty variant: layer 2 is missing                                       *)
IceGateUngated(w) ==
  /\ pc[w] = "gate" /\ WorkerRuns(w)
  /\ IF ice[w[1]] # None THEN Goto(w, "iceLatch")
     ELSE IF rule[w].kind = "redirect" THEN Finish(w)
     ELSE Goto(w, IF rule[w].latch = "Off" THEN "resolve" ELSE "latch")
  /\ UNCHANGED shared

(* Layer 4, then on a leg without ICE layer 2 (the signalled-source gate). *)
IceGate(w) ==
  LET e == w[1]
      r == rule[w]
  IN  /\ pc[w] = "gate" /\ WorkerRuns(w)
      /\ IF ice[e] # None THEN Goto(w, "iceLatch")
         ELSE IF r.kind = "redirect" \/ ~Accepts(r.gate, pkt[w].src) THEN Finish(w)
         ELSE Goto(w, IF r.latch = "Off" THEN "resolve" ELSE "latch")
      /\ UNCHANGED shared

(* Faulty variant: media is heard before the first check                    *)
IceLatchBlind(w) ==
  /\ pc[w] = "iceLatch" /\ WorkerRuns(w)
  /\ IF rule[w].kind # "forward" THEN Finish(w)
     ELSE IF latchSrc[w[1]] = None THEN Goto(w, "latch")
     ELSE IF latchSrc[w[1]] = pkt[w].src THEN Goto(w, "resolve") ELSE Finish(w)
  /\ UNCHANGED shared

(* On an ICE endpoint only the adopted source is heard.                    *)
IceLatch(w) ==
  /\ pc[w] = "iceLatch" /\ WorkerRuns(w)
  /\ IF latchSrc[w[1]] = pkt[w].src /\ rule[w].kind = "forward"
     THEN Goto(w, "resolve")
     ELSE Finish(w)
  /\ UNCHANGED shared

(* Layer 3: update_latch copies the latch out, and stores what it learned  *)
(* in a second access.                                                     *)
UpdateLatch(w) ==
  LET v == SourceLatchVerdict(latchSrc[w[1]], latchSsrc[w[1]],
                              pkt[w].src, pkt[w].ssrc)
  IN  /\ pc[w] = "latch" /\ WorkerRuns(w)
      /\ \/ v = "Learn" /\ Goto(w, "learn")
         \/ v = "Keep" /\ Goto(w, "resolve")
         \/ v = "Reject" /\ Finish(w)
      /\ UNCHANGED shared

LearnSource(w) ==
  /\ pc[w] = "learn" /\ WorkerRuns(w)
  /\ latchSrc' = [latchSrc EXCEPT ![w[1]] = pkt[w].src]
  /\ latchSsrc' = [latchSsrc EXCEPT ![w[1]] = pkt[w].ssrc]
  /\ Goto(w, "resolve")
  /\ UNCHANGED <<nomination, watch, wiring, agent, todo, validated>>

(* Faulty variant: the wrong endpoint's latch is read                       *)
ResolveOwnLatch(w) ==
  LET r == rule[w]
      d == IF latchSrc[w[1]] # None THEN latchSrc[w[1]] ELSE r.dst
  IN  /\ pc[w] = "resolve" /\ WorkerRuns(w)
      /\ IF d = None \/ ~alive[r.out]
         THEN Finish(w)
         ELSE /\ dst' = [dst EXCEPT ![w] = d]
              /\ pc' = [pc EXCEPT ![w] = "emit"]
              /\ UNCHANGED <<pkt, rule, cfg>>
      /\ UNCHANGED shared

(* The packet is accepted.  RTCP the engine asked for is handed up; the    *)
(* rest goes to the peer's latched source, else to its signalled address.  *)
Resolve(w) ==
  LET r == rule[w]
      d == IF latchSrc[r.out] # None THEN latchSrc[r.out] ELSE r.dst
  IN  /\ pc[w] = "resolve" /\ WorkerRuns(w)
      /\ IF \/ r.rtcp /\ pkt[w].class = "rtcp"
            \/ d = None
            \/ ~alive[r.out]
         THEN Finish(w)
         ELSE /\ dst' = [dst EXCEPT ![w] = d]
              /\ pc' = [pc EXCEPT ![w] = "emit"]
              /\ UNCHANGED <<pkt, rule, cfg>>
      /\ UNCHANGED shared

(* The datagram leaves from the peer endpoint toward dst[w].               *)
Emit(w) ==
  /\ pc[w] = "emit" /\ WorkerRuns(w)
  /\ Finish(w)
  /\ UNCHANGED shared

-----------------------------------------------------------------------------
(* The ICE agent driver.  The agent of a full-agent endpoint selects a     *)
(* pair; the driver adopts its remote address some time later.             *)

AgentSelect(e) ==
  /\ forwardOnly[e] /\ selected[e] = None /\ ~adopting[e]
  /\ \E a \in Addr : selected' = [selected EXCEPT ![e] = a]
  /\ UNCHANGED <<adopting, latched, nomination, watch, wiring, worker, todo, validated>>

AdoptSource(e) ==
  /\ selected[e] # None /\ AgentRuns(e)
  /\ latchSrc' = [latchSrc EXCEPT ![e] = selected[e]]
  /\ latchSsrc' = [latchSsrc EXCEPT ![e] = None]
  /\ validated' = [validated EXCEPT ![e] = @ \cup {selected[e]}]
  /\ selected' = [selected EXCEPT ![e] = None]
  /\ adopting' = [adopting EXCEPT ![e] = TRUE]
  /\ UNCHANGED <<watch, nomination, wiring, worker, todo>>

PublishAdopted(e) ==
  /\ adopting[e] /\ AgentRuns(e)
  /\ PublishIceValidated(e)
  /\ adopting' = [adopting EXCEPT ![e] = FALSE]
  /\ UNCHANGED <<selected, latched, nomination, wiring, worker, todo, validated>>

-----------------------------------------------------------------------------
(* The control thread: the trait's operations as sequences of accesses.    *)

Access(op, e) == [op |-> op, e |-> e, action |-> NoRule("none"),
                  ufrag |-> None, full |-> FALSE]
WithAction(op, e, a) == [Access(op, e) EXCEPT !.action = a]
WithUfrag(op, e, u) == [Access(op, e) EXCEPT !.ufrag = u]

InstallFlow(e, a) ==
  IF a.kind = "forward"
  THEN <<WithAction("flow_insert", e, a), WithAction("forget_own", e, a),
         WithAction("forget_peer", e, a)>>
  ELSE <<WithAction("flow_insert", e, a)>>

SetIce(e, u) == <<WithUfrag("ice_restart", e, u), WithUfrag("ice_insert", e, u)>>

ClearIce(e) == <<Access("ice_remove", e), Access("nominated_remove", e),
                 Access("mode_remove", e), Access("unsubscribe", e)>>

SetIceAgent(e, u, full) ==
  <<WithUfrag("ice_insert", e, u), [Access("mode_set", e) EXCEPT !.full = full]>>

WatchIceValidated(e) == <<Access("subscribe", e), Access("publish", e)>>

RemoveEndpoint(e) ==
  <<Access("endpoint_remove", e), Access("abort", e), Access("join", e),
    Access("flow_remove", e), Access("latch_remove", e), Access("ice_remove", e),
    Access("nominated_remove", e), Access("unsubscribe", e)>>

(* The engine looks the call up before it starts.                          *)
Begin ==
  /\ todo = <<>> /\ ControlRuns
  /\ \A e \in Endpoint : alive[e]
  /\ \E program \in Programs : todo' = program
  /\ UNCHANGED <<latched, nomination, watch, wiring, agent, validated, worker>>

Now(op) == Doing = op /\ ControlRuns
Advance == todo' = Tail(todo)

(* install_flow: an endpoint that is gone is an error the command stops on. *)
FlowInsert ==
  LET s == todo[1]
      latches == s.action.kind = "forward" /\ s.action.latch # "Off"
  IN  /\ Now("flow_insert")
      /\ IF alive[s.e]
         THEN /\ previous' = flows[s.e]
              /\ flows' = [flows EXCEPT ![s.e] = s.action]
              /\ admitted' = IF latches
                             THEN [admitted EXCEPT ![s.e] = @ \cup s.action.gate]
                             ELSE admitted
              /\ Advance
         ELSE todo' = <<>> /\ UNCHANGED <<previous, flows, admitted>>
      /\ UNCHANGED <<latched, nomination, watch, alive, aborted, ice, forwardOnly,
                     agent, validated, worker>>

DropLatch(e) ==
  /\ latchSrc' = [latchSrc EXCEPT ![e] = None]
  /\ latchSsrc' = [latchSsrc EXCEPT ![e] = None]

(* forget_stale_latches, the endpoint's own latch: the new gate refuses it. *)
ForgetOwn ==
  LET s == todo[1]
  IN  /\ Now("forget_own") /\ Advance
      /\ IF /\ ice[s.e] = None /\ latchSrc[s.e] # None
            /\ ~Accepts(s.action.gate, latchSrc[s.e])
         THEN DropLatch(s.e)
         ELSE UNCHANGED latched
      /\ UNCHANGED <<nomination, watch, wiring, agent, validated, worker>>

(* forget_stale_latches, the peer's latch: its signalled address moved.    *)
ForgetPeer ==
  LET s == todo[1]
  IN  /\ Now("forget_peer") /\ Advance
      /\ IF /\ previous.kind = "forward" /\ previous.out = s.action.out
            /\ SignalledPeerMoved(previous.dst, s.action.dst)
            /\ ice[s.action.out] = None
         THEN DropLatch(s.action.out)
         ELSE UNCHANGED latched
      /\ UNCHANGED <<nomination, watch, wiring, agent, validated, worker>>

FlowRemove ==
  /\ Now("flow_remove") /\ Advance
  /\ flows' = [flows EXCEPT ![todo[1].e] = NoRule("none")]
  /\ UNCHANGED <<latched, nomination, watch, alive, aborted, ice, forwardOnly,
                 previous, admitted, agent, validated, worker>>

LatchRemove ==
  /\ Now("latch_remove") /\ Advance
  /\ DropLatch(todo[1].e)
  /\ UNCHANGED <<nomination, watch, wiring, agent, validated, worker>>

Unnominate(e) ==
  /\ nominated' = [nominated EXCEPT ![e] = None]
  /\ nomUfrag' = [nomUfrag EXCEPT ![e] = None]
  /\ nomSrc' = [nomSrc EXCEPT ![e] = None]

(* Faulty variant: a restart keeps the old nomination                       *)
IceRestartKeepsNomination ==
  /\ Now("ice_restart") /\ Advance
  /\ UNCHANGED <<nomination, latched, watch, wiring, agent, validated, worker>>

(* set_ice with new credentials: the old session's nomination is dropped,  *)
(* the latch stays.                                                        *)
IceRestart ==
  LET s == todo[1]
  IN  /\ Now("ice_restart") /\ Advance
      /\ IF ice[s.e] # None /\ ice[s.e] # s.ufrag
         THEN Unnominate(s.e)
         ELSE UNCHANGED nomination
      /\ UNCHANGED <<latched, watch, wiring, agent, validated, worker>>

IceInsert ==
  /\ Now("ice_insert") /\ Advance
  /\ ice' = [ice EXCEPT ![todo[1].e] = todo[1].ufrag]
  /\ UNCHANGED <<latched, nomination, watch, alive, aborted, flows, forwardOnly,
                 previous, admitted, agent, validated, worker>>

IceRemove ==
  /\ Now("ice_remove") /\ Advance
  /\ ice' = [ice EXCEPT ![todo[1].e] = None]
  /\ UNCHANGED <<latched, nomination, watch, alive, aborted, flows, forwardOnly,
                 previous, admitted, agent, validated, worker>>

NominatedRemove ==
  /\ Now("nominated_remove") /\ Advance
  /\ Unnominate(todo[1].e)
  /\ UNCHANGED <<latched, watch, wiring, agent, validated, worker>>

(* set_ice_agent's mode, and set_ice(None) clearing it.                    *)
ModeSet ==
  /\ \/ Now("mode_set") /\ forwardOnly' = [forwardOnly EXCEPT ![todo[1].e] = todo[1].full]
     \/ Now("mode_remove") /\ forwardOnly' = [forwardOnly EXCEPT ![todo[1].e] = FALSE]
  /\ Advance
  /\ UNCHANGED <<latched, nomination, watch, alive, aborted, flows, ice,
                 previous, admitted, agent, validated, worker>>

Subscribe ==
  /\ Now("subscribe") /\ Advance
  /\ watched' = [watched EXCEPT ![todo[1].e] = @ \/ ice[todo[1].e] # None]
  /\ UNCHANGED <<pub, latched, nomination, wiring, agent, validated, worker>>

PublishOnSubscribe ==
  /\ Now("publish") /\ Advance
  /\ PublishIceValidated(todo[1].e)
  /\ UNCHANGED <<latched, nomination, wiring, agent, validated, worker>>

Unsubscribe ==
  /\ Now("unsubscribe") /\ Advance
  /\ watched' = [watched EXCEPT ![todo[1].e] = FALSE]
  /\ pub' = [pub EXCEPT ![todo[1].e] = None]
  /\ UNCHANGED <<latched, nomination, wiring, agent, validated, worker>>

EndpointRemove ==
  /\ Now("endpoint_remove") /\ Advance
  /\ alive' = [alive EXCEPT ![todo[1].e] = FALSE]
  /\ UNCHANGED <<latched, nomination, watch, aborted, flows, ice, forwardOnly,
                 previous, admitted, agent, validated, worker>>

Abort ==
  /\ Now("abort") /\ Advance
  /\ aborted' = [aborted EXCEPT ![todo[1].e] = TRUE]
  /\ UNCHANGED <<latched, nomination, watch, alive, flows, ice, forwardOnly,
                 previous, admitted, agent, validated, worker>>

(* Faulty variant: the receive task is not awaited                          *)
JoinUnawaited ==
  /\ Now("join") /\ Advance
  /\ UNCHANGED <<nomination, latched, watch, wiring, agent, validated, worker>>

(* The aborted receive task ends where it awaits; a send it was in is lost. *)
Join ==
  LET w == <<todo[1].e, "socket">>
  IN  /\ Now("join") /\ Advance
      /\ IF "socket" \in Carrier
         THEN Suspended(w) /\ Finish(w)
         ELSE UNCHANGED worker
      /\ UNCHANGED <<latched, nomination, watch, wiring, agent, validated>>

-----------------------------------------------------------------------------
WorkerStep(w) ==
  \/ StunIce(w) \/ Check(w) \/ AdoptChecked(w) \/ PublishChecked(w)
  \/ IceGate(w) \/ IceLatch(w) \/ UpdateLatch(w) \/ LearnSource(w)
  \/ Resolve(w) \/ Emit(w)

ControlStep ==
  \/ FlowInsert \/ ForgetOwn \/ ForgetPeer \/ FlowRemove \/ LatchRemove
  \/ IceRestart \/ IceInsert \/ IceRemove \/ NominatedRemove \/ ModeSet
  \/ Subscribe \/ PublishOnSubscribe \/ Unsubscribe
  \/ EndpointRemove \/ Abort \/ Join

Next ==
  \/ \E w \in Worker : ReceiveMedia(w) \/ ReceiveStun(w) \/ WorkerStep(w)
  \/ \E e \in Endpoint : AgentSelect(e) \/ AdoptSource(e) \/ PublishAdopted(e)
  \/ Begin
  \/ ControlStep

Spec == Init /\ [][Next]_vars

(* A runnable task is eventually polled; what arrives, and what is asked   *)
(* of the engine, is up to the outside.                                    *)
Fairness ==
  /\ \A w \in Worker : WF_vars(WorkerStep(w))
  /\ WF_vars(ControlStep)

FairSpec == Spec /\ Fairness

-----------------------------------------------------------------------------
(* Properties. *)

(* A source ends up in `latched` only because a connectivity check or the  *)
(* agent adopted it, or because a latching rule of that endpoint accepted  *)
(* its address: no interleaving of re-answers, ICE changes and media       *)
(* latches a source that nobody vouched for (dispatch layers 2 to 4).      *)
LatchProvenance ==
  \A e \in Endpoint :
    latchSrc[e] # None => \/ latchSrc[e] \in validated[e]
                          \/ IpOf[latchSrc[e]] \in admitted[e]

(* What is on its way out of the relay came from a source that its rule's  *)
(* gate accepted or that ICE validated, and goes where the rule signalled  *)
(* or to a vouched-for latch of the peer endpoint (dispatch, the           *)
(* destination lookup).                                                    *)
EmitJustified ==
  \A w \in Worker :
    pc[w] = "emit" =>
      /\ \/ IpOf[pkt[w].src] \in rule[w].gate
         \/ pkt[w].src \in validated[w[1]]
         \/ IpOf[pkt[w].src] \in admitted[w[1]]
      /\ \/ dst[w] = rule[w].dst
         \/ dst[w] \in validated[rule[w].out]
         \/ IpOf[dst[w]] \in admitted[rule[w].out]

(* While a plain rule is in force, an endpoint's latch is one its gate     *)
(* accepts: forget_stale_latches says forwarding to a source the gate      *)
(* refuses to hear from is never right.                                    *)
LatchAdmittedByGate ==
  todo = <<>> =>
    \A e \in Endpoint :
      (ice[e] = None /\ flows[e].kind = "forward" /\ latchSrc[e] # None)
        => Accepts(flows[e].gate, latchSrc[e])

(* On a leg without ICE the latch moves from one source to another only on *)
(* a packet that carries the SSRC it was learned with (a NAT rebind).      *)
SsrcContinuity ==
  [][\A e \in Endpoint :
       (/\ latchSrc[e] # None /\ latchSrc'[e] # None
        /\ latchSrc'[e] # latchSrc[e])
         => latchSsrc[e] # None /\ latchSsrc'[e] = latchSsrc[e]]_vars

(* The path of an ICE endpoint is one a check or the agent adopted:        *)
(* ice_validated_source reports the latch as the check-validated path.     *)
IceLatchValidated ==
  \A e \in Endpoint :
    (ice[e] # None /\ latchSrc[e] # None) => latchSrc[e] \in validated[e]

(* The nomination that orders later ones belongs to the ICE session whose  *)
(* credentials are installed: "a pair nominated in the old one no longer   *)
(* orders (or blocks) the new session's nominations" (set_ice).            *)
NominationOfThisSession ==
  todo = <<>> =>
    \A e \in Endpoint :
      (ice[e] # None /\ nominated[e] # None) => nomUfrag[e] = ice[e]

(* What set_ice ensures of that on a multi-thread runtime: a nomination of *)
(* another session stands only if the check that stored it had cloned the  *)
(* credentials before they were replaced and was overtaken by the restart; *)
(* one that was stored before the restart never survives it (set_ice,      *)
(* handle_stun).                                                           *)
RestartForgets ==
  todo = <<>> =>
    \A e \in Endpoint :
      (ice[e] # None /\ nominated[e] # None) => nomUfrag[e] \in {ice[e], None}

(* The selected pair and the media path agree: once a nominating check is  *)
(* handled, the latch is the source of the nomination that stands.         *)
LatchFollowsNomination ==
  \A e \in Endpoint :
    (/\ alive[e] /\ ice[e] # None /\ nominated[e] # None
     /\ \A w \in Worker : w[1] = e => pc[w] # "adopt")
      => latchSrc[e] = nomSrc[e]

(* No full agent was installed: the datapath itself answers every check.   *)
DatapathAnswers == \A e \in Endpoint : ~forwardOnly[e]

(* The selected pair and the media path agree in an ICE-lite call: once a  *)
(* nominating check is handled, the latch is the source of the nomination  *)
(* that stands (record_nomination, update_latch).                          *)
LiteLatchFollows == DatapathAnswers => LatchFollowsNomination

(* A consumer that follows the validated source is never left on an older  *)
(* pair: with no publication under way it was told the current one.        *)
WatcherCaughtUp ==
  \A e \in Endpoint :
    (/\ todo = <<>> /\ ~adopting[e] /\ watched[e] /\ ice[e] # None
     /\ \A w \in Worker : w[1] = e => pc[w] # "publish")
      => pub[e] = latchSrc[e]

(* Once remove_endpoint has returned, no map keeps an entry for the        *)
(* endpoint (endpoint ids are never reused, so an entry left would stay).  *)
RemovedLeavesNothing ==
  todo = <<>> =>
    \A e \in Endpoint :
      ~alive[e] => /\ flows[e].kind = "none"
                   /\ latchSrc[e] = None /\ ice[e] = None
                   /\ nominated[e] = None /\ ~watched[e]

(* Once remove_endpoint has returned in an ICE-lite call, no map keeps an  *)
(* entry for the endpoint; its id is never used again (remove_endpoint).   *)
LiteLeavesNothing == DatapathAnswers => RemovedLeavesNothing

(* set_ice_agent's mode is cleared by remove_endpoint, as its doc says.    *)
RemovedClearsAgentMode ==
  todo = <<>> => \A e \in Endpoint : ~alive[e] => ~forwardOnly[e]

(* Every operation of the control thread returns; remove_endpoint in       *)
(* particular, although it waits for a receive task that traffic keeps     *)
(* busy.                                                                   *)
OperationsReturn == (todo # <<>>) ~> (todo = <<>>)
=============================================================================
