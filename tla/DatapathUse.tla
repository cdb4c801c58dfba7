---------------------------- MODULE DatapathUse ----------------------------
(***************************************************************************)
(* How the engine uses the datapath, stated on the programs of the control *)
(* thread: what the ICE properties of Datapath need of the order and the   *)
(* kind of the operations, whatever they are applied to.  The second half  *)
(* has the inductive invariants from which DatapathProofs derives those    *)
(* properties for every set of programs that keeps to this use.            *)
(***************************************************************************)
EXTENDS Datapath

Latches(a) == a.kind = "forward" /\ a.latch # "Off"

(* A later, or an earlier, operation of a program on the same endpoint.    *)
Follows(p, i, op) == \E j \in i + 1 .. Len(p) : p[j].op = op /\ p[j].e = p[i].e
Precedes(p, i, op) == \E j \in 1 .. i - 1 : p[j].op = op /\ p[j].e = p[i].e

(* The endpoints that are ever given ICE credentials, or a full agent.     *)
IceEndpoints ==
  {e \in Endpoint : \E p \in Programs : \E i \in 1 .. Len(p) :
                      p[i].op = "ice_insert" /\ p[i].e = e}
FullEndpoints ==
  {e \in Endpoint : \E p \in Programs : \E i \in 1 .. Len(p) :
                      p[i].op = "mode_set" /\ p[i].full /\ p[i].e = e}

(* set_ice and set_ice_agent are given credentials, and the rule of an ICE *)
(* leg does not latch from media (ingress_rule).                           *)
IceLegStep(s) ==
  /\ s.op = "ice_insert" => s.e \in IceEndpoints /\ s.ufrag # None
  /\ s.op = "flow_insert" /\ s.e \in IceEndpoints => ~Latches(s.action)

IceLegsDoNotLatch ==
  \A p \in Programs : \A i \in 1 .. Len(p) : IceLegStep(p[i])

(* Endpoints are removed by commands that do nothing else.                 *)
RemovalOp == {"endpoint_remove", "abort", "join", "flow_remove", "latch_remove",
              "ice_remove", "nominated_remove", "mode_remove", "unsubscribe"}

RemovalOnly(p) == \A i \in 1 .. Len(p) : p[i].op \in RemovalOp

RemovalsAlone ==
  \A p \in Programs : \A i \in 1 .. Len(p) :
    p[i].op = "endpoint_remove" => RemovalOnly(p)

(* A new watcher is published to, and one whose endpoint loses ICE or its  *)
(* latch is dropped (watch_ice_validated, set_ice, remove_endpoint).       *)
Told(p, i) ==
  /\ p[i].op = "subscribe" => Follows(p, i, "publish")
  /\ p[i].op \in {"ice_remove", "latch_remove"} => Follows(p, i, "unsubscribe")

WatchersAreTold == \A p \in Programs : \A i \in 1 .. Len(p) : Told(p, i)

(* An ICE leg keeps its credentials and its latch until it is removed.     *)
KeptUntilRemoved(p, i) ==
  p[i].op \in {"ice_remove", "latch_remove"} /\ p[i].e \in IceEndpoints
    => Precedes(p, i, "endpoint_remove")

IceLegsAreKept == \A p \in Programs : \A i \in 1 .. Len(p) : KeptUntilRemoved(p, i)

(* A leg given a full agent keeps it.                                      *)
AgentStep(s) ==
  s.op \in {"mode_set", "mode_remove"} =>
    IF s.op = "mode_set" /\ s.full THEN s.e \in FullEndpoints ELSE s.e \notin FullEndpoints

AgentsAreKept == \A p \in Programs : \A i \in 1 .. Len(p) : AgentStep(p[i])

(* remove_endpoint: every map is cleared, and the latch and the nomination *)
(* after the receive task was told to stop and has ended.                  *)
Cleared == {"abort", "join", "flow_remove", "latch_remove", "ice_remove",
            "nominated_remove", "unsubscribe"}

Clears(p, i) ==
  /\ p[i].op = "endpoint_remove" => \A op \in Cleared : Follows(p, i, op)
  /\ p[i].op = "join" => ~Follows(p, i, "abort")
  /\ p[i].op \in {"latch_remove", "nominated_remove"} => ~Follows(p, i, "join")

RemovalsClear == \A p \in Programs : \A i \in 1 .. Len(p) : Clears(p, i)

(* set_ice: credentials are inserted right after the old nomination was    *)
(* dropped, and removed right before it is.                                *)
Restarts(p, i) ==
  /\ p[i].op = "ice_insert" =>
       i > 1 /\ p[i - 1].op = "ice_restart" /\ p[i - 1].e = p[i].e
       /\ p[i - 1].ufrag = p[i].ufrag
  /\ p[i].op = "ice_remove" =>
       i < Len(p) /\ p[i + 1].op = "nominated_remove" /\ p[i + 1].e = p[i].e

SessionsRestart == \A p \in Programs : \A i \in 1 .. Len(p) : Restarts(p, i)

(* A call without ICE.                                                     *)
NoIce == IceEndpoints = {} /\ FullEndpoints = {}

-----------------------------------------------------------------------------
(* The inductive invariants.                                               *)

(* What the control thread has still to do to an endpoint.                 *)
Pending(op, e) == \E i \in 1 .. Len(todo) : todo[i].op = op /\ todo[i].e = e

(* On an ICE leg nothing latches, so the latch is a validated source.      *)
IceLegInv ==
  /\ \A i \in 1 .. Len(todo) : IceLegStep(todo[i])
  /\ \A e \in Endpoint : ice[e] # None => e \in IceEndpoints
  /\ \A e \in IceEndpoints :
       /\ ~Latches(flows[e])
       /\ latchSrc[e] # None => latchSrc[e] \in validated[e]
  /\ \A w \in Worker : w[1] \in IceEndpoints => ~Latches(rule[w])

(* Once an endpoint is gone only removals are left to do.                  *)
RemovalInv ==
  /\ (\E e \in Endpoint : ~alive[e]) => RemovalOnly(todo)
  /\ \A i \in 1 .. Len(todo) : todo[i].op = "endpoint_remove" => RemovalOnly(todo)

(* A watcher is told, or somebody is about to tell or to drop it.          *)
Publishing(e) ==
  \/ adopting[e] \/ (\E w \in Worker : w[1] = e /\ pc[w] = "publish")
  \/ Pending("publish", e) \/ Pending("unsubscribe", e)

WatcherInv ==
  /\ \A i \in 1 .. Len(todo) : Told(todo, i)
  /\ \A e \in Endpoint : watched[e] =>
       /\ e \in IceEndpoints
       /\ ice[e] = None => Pending("unsubscribe", e)
       /\ pub[e] = latchSrc[e] \/ Publishing(e)

(* Only a full agent selects a pair, and it stays.                         *)
AgentInv ==
  /\ \A i \in 1 .. Len(todo) : AgentStep(todo[i])
  /\ \A e \in Endpoint :
       /\ forwardOnly[e] => e \in FullEndpoints
       /\ selected[e] # None \/ adopting[e] => forwardOnly[e]

(* The one receive task of an endpoint is between a nomination and the     *)
(* latch, or they agree.                                                   *)
NominationInv ==
  /\ \A i \in 1 .. Len(todo) :
       todo[i].op \in {"ice_remove", "latch_remove"} /\ todo[i].e \in IceEndpoints
         => ~alive[todo[i].e] \/ Precedes(todo, i, "endpoint_remove")
  /\ \A w \in Worker : alive[w[1]] =>
       /\ nominated[w[1]] # None \/ pc[w] \in {"check", "adopt"} => ice[w[1]] # None
       /\ nominated[w[1]] # None /\ pc[w] = "adopt" => nomSrc[w[1]] = pkt[w].src
       /\ nominated[w[1]] # None /\ pc[w] # "adopt" /\ ~forwardOnly[w[1]]
            => latchSrc[w[1]] = nomSrc[w[1]]

(* What was not yet cleared of a removed endpoint is about to be.          *)
Stopped(e) == aborted[e] /\ \A w \in Worker : w[1] = e => pc[w] = "idle"

ClearedInv ==
  /\ \A i \in 1 .. Len(todo) : Clears(todo, i)
  /\ \A e \in Endpoint : ~alive[e] =>
       /\ aborted[e] \/ Pending("abort", e)
       /\ Stopped(e) \/ Pending("join", e)
       /\ flows[e].kind = "none" \/ Pending("flow_remove", e)
       /\ latchSrc[e] = None \/ forwardOnly[e] \/ Pending("latch_remove", e)
       /\ ice[e] = None \/ Pending("ice_remove", e)
       /\ nominated[e] = None \/ Pending("nominated_remove", e)
       /\ ~watched[e] \/ Pending("unsubscribe", e)
       /\ Pending("join", e) => Pending("latch_remove", e) /\ Pending("nominated_remove", e)

(* A nomination that was not overtaken outlives the credentials only       *)
(* between two accesses of one operation.                                  *)
SessionInv ==
  /\ \A i \in 1 .. Len(todo) : i > 1 \/ todo[i].op # "ice_insert" => Restarts(todo, i)
  /\ \A w \in Worker : pc[w] = "check" => cfg[w] # None
  /\ \A e \in Endpoint : nominated[e] # None =>
       \/ nomUfrag[e] = None
       \/ nomUfrag[e] = ice[e] /\ ice[e] # None
       \/ ice[e] = None /\ Doing = "nominated_remove" /\ todo[1].e = e
  /\ Doing = "ice_insert" =>
       \/ nominated[todo[1].e] = None \/ nomUfrag[todo[1].e] = None
       \/ ice[todo[1].e] = todo[1].ufrag

(* A source to be learned is new, the latched one, or has its SSRC.        *)
SsrcInv ==
  /\ \A e \in Endpoint : ice[e] = None /\ ~forwardOnly[e] /\ selected[e] = None
  /\ \A w \in Worker :
       /\ pc[w] \notin {"check", "adopt"}
       /\ pc[w] = "learn" /\ latchSrc[w[1]] # None /\ latchSrc[w[1]] # pkt[w].src
            => latchSsrc[w[1]] # None /\ pkt[w].ssrc = latchSsrc[w[1]]
  /\ \A i \in 1 .. Len(todo) :
       todo[i].op # "ice_insert" /\ (todo[i].op = "mode_set" => ~todo[i].full)

-----------------------------------------------------------------------------
(* What a step of each actor may change.                                   *)

Others(w) ==
  \A v \in Worker \ {w} : /\ pc'[v] = pc[v] /\ pkt'[v] = pkt[v]
                          /\ rule'[v] = rule[v] /\ cfg'[v] = cfg[v]

(* The moves of a receive worker: one that concerns neither ICE nor the    *)
(* latch, the clone of the credentials, the nomination, the adoption, the  *)
(* publication, the decision to learn and the learning.                    *)
Moves(w) ==
  /\ UNCHANGED shared
  /\ pc[w] \notin {"adopt", "publish", "learn"}
  /\ pc'[w] \notin {"check", "adopt", "publish", "learn"}
  /\ rule'[w] \in {rule[w], flows[w[1]], NoRule("none")}

Clones(w) ==
  /\ UNCHANGED shared
  /\ pc[w] = "stunIce" /\ ice[w[1]] # None /\ pc'[w] = "check"
  /\ cfg'[w] = ice[w[1]] /\ rule'[w] = rule[w]

Nominates(w) ==
  /\ UNCHANGED <<latched, watch, validated>>
  /\ pc[w] = "check" /\ pc'[w] = "adopt" /\ pkt'[w] = pkt[w] /\ rule'[w] = rule[w]
  /\ pkt[w].nominates # None
  /\ nominated' = [nominated EXCEPT ![w[1]] = pkt[w].nominates]
  /\ nomUfrag' = [nomUfrag EXCEPT ![w[1]] = SessionOf(w)]
  /\ nomSrc' = [nomSrc EXCEPT ![w[1]] = pkt[w].src]

Adopts(w) ==
  /\ UNCHANGED <<nomination, watch>>
  /\ pc[w] = "adopt" /\ pc'[w] = "publish" /\ rule'[w] = rule[w]
  /\ latchSrc' = [latchSrc EXCEPT ![w[1]] = pkt[w].src]
  /\ latchSsrc' = [latchSsrc EXCEPT ![w[1]] = None]
  /\ validated' = [validated EXCEPT ![w[1]] = @ \cup {pkt[w].src}]

Publishes(w) ==
  /\ UNCHANGED <<latched, nomination, watched, validated>>
  /\ pc[w] = "publish" /\ pc'[w] = "idle" /\ rule'[w] = NoRule("none")
  /\ pub' = IF watched[w[1]] THEN [pub EXCEPT ![w[1]] = latchSrc[w[1]]] ELSE pub

Decides(w) ==
  /\ UNCHANGED shared
  /\ pc[w] = "latch" /\ pc'[w] = "learn" /\ pkt'[w] = pkt[w] /\ rule'[w] = rule[w]
  /\ SourceLatchVerdict(latchSrc[w[1]], latchSsrc[w[1]], pkt[w].src, pkt[w].ssrc) = "Learn"

Learns(w) ==
  /\ UNCHANGED <<nomination, watch, validated>>
  /\ pc[w] = "learn" /\ pc'[w] = "resolve" /\ rule'[w] = rule[w]
  /\ latchSrc' = [latchSrc EXCEPT ![w[1]] = pkt[w].src]
  /\ latchSsrc' = [latchSsrc EXCEPT ![w[1]] = pkt[w].ssrc]

WorkerEffect(w) ==
  /\ WorkerRuns(w) /\ Others(w) /\ UNCHANGED <<wiring, agent, todo>>
  /\ pc[w] = "idle" => MayReceive(w)
  /\ \/ Moves(w) \/ Clones(w) \/ Nominates(w) \/ Adopts(w) \/ Publishes(w)
     \/ Decides(w) \/ Learns(w)

(* One access of the control thread, by the operation at the head of todo. *)
WiringEffect(s) ==
  /\ alive' = IF s.op = "endpoint_remove" THEN [alive EXCEPT ![s.e] = FALSE] ELSE alive
  /\ aborted' = IF s.op = "abort" THEN [aborted EXCEPT ![s.e] = TRUE] ELSE aborted
  /\ \/ flows' = flows /\ s.op # "flow_remove"
     \/ s.op = "flow_insert" /\ flows' = [flows EXCEPT ![s.e] = s.action]
     \/ s.op = "flow_remove" /\ flows' = [flows EXCEPT ![s.e] = NoRule("none")]
  /\ ice' = IF s.op = "ice_insert" THEN [ice EXCEPT ![s.e] = s.ufrag]
            ELSE IF s.op = "ice_remove" THEN [ice EXCEPT ![s.e] = None] ELSE ice
  /\ forwardOnly' = IF s.op = "mode_set" THEN [forwardOnly EXCEPT ![s.e] = s.full]
                    ELSE IF s.op = "mode_remove" THEN [forwardOnly EXCEPT ![s.e] = FALSE]
                    ELSE forwardOnly

LatchEffect(s) ==
  /\ \A e \in Endpoint :
       \/ latchSrc'[e] = latchSrc[e] /\ latchSsrc'[e] = latchSsrc[e]
       \/ latchSrc'[e] = None /\ ice[e] = None /\ s.op \in {"forget_own", "forget_peer"}
       \/ latchSrc'[e] = None /\ s.op = "latch_remove" /\ e = s.e
  /\ s.op = "latch_remove" => latchSrc'[s.e] = None

NominationEffect(s) ==
  \/ /\ UNCHANGED nomination /\ s.op # "nominated_remove"
     /\ s.op = "ice_restart" => ice[s.e] = None \/ ice[s.e] = s.ufrag
  \/ s.op \in {"ice_restart", "nominated_remove"} /\ Unnominate(s.e)

WatchEffect(s) ==
  \/ UNCHANGED watch /\ s.op \notin {"subscribe", "publish", "unsubscribe"}
  \/ /\ s.op = "subscribe" /\ UNCHANGED pub
     /\ watched' = [watched EXCEPT ![s.e] = @ \/ ice[s.e] # None]
  \/ s.op = "publish" /\ PublishIceValidated(s.e)
  \/ /\ s.op = "unsubscribe"
     /\ watched' = [watched EXCEPT ![s.e] = FALSE]
     /\ pub' = [pub EXCEPT ![s.e] = None]

ControlEffect ==
  /\ todo # <<>> /\ ControlRuns /\ UNCHANGED <<validated, agent>>
  /\ \/ todo' = Tail(todo)
     \/ todo' = <<>> /\ todo[1].op = "flow_insert" /\ ~alive[todo[1].e]
  /\ WiringEffect(todo[1]) /\ LatchEffect(todo[1])
  /\ NominationEffect(todo[1]) /\ WatchEffect(todo[1])
  /\ \/ UNCHANGED worker /\ ~(todo[1].op = "join" /\ "socket" \in Carrier)
     \/ /\ todo[1].op = "join" /\ "socket" \in Carrier
        /\ Suspended(<<todo[1].e, "socket">>) /\ Finish(<<todo[1].e, "socket">>)
=============================================================================
