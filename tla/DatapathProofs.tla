--------------------------- MODULE DatapathProofs ---------------------------
(***************************************************************************)
(* For any number of endpoints, addresses, sessions and datagrams, for     *)
(* every set of control programs and on either runtime: LatchProvenance    *)
(* and EmitJustified.  Then what a step of each actor may change, which is *)
(* all that IceProofs needs to know of the actions, and SsrcContinuity for *)
(* calls without ICE.                                                      *)
(***************************************************************************)
EXTENDS DatapathUse, TLAPS

Known(e, a) == a \in validated[e] \/ IpOf[a] \in admitted[e]

(* An installed rule that latches has its gate in `admitted`.              *)
FlowsRecorded ==
  \A e \in Endpoint :
    (flows[e].kind = "forward" /\ flows[e].latch # "Off")
      => flows[e].gate \subseteq admitted[e]

(* What a worker carries past each gate.                                   *)
Carried(w) ==
  /\ pc[w] \in {"gate", "iceLatch", "latch", "learn", "resolve", "emit"} =>
       ((rule[w].kind = "forward" /\ rule[w].latch # "Off")
          => rule[w].gate \subseteq admitted[w[1]])
  /\ pc[w] \in {"gate", "iceLatch"} => rule[w].kind \in {"forward", "redirect"}
  /\ pc[w] \in {"latch", "learn", "resolve", "emit"} => rule[w].kind = "forward"
  /\ pc[w] \in {"latch", "learn"} =>
       rule[w].latch # "Off" /\ Accepts(rule[w].gate, pkt[w].src)
  /\ pc[w] \in {"resolve", "emit"} =>
       Accepts(rule[w].gate, pkt[w].src) \/ Known(w[1], pkt[w].src)
  /\ pc[w] = "emit" => dst[w] = rule[w].dst \/ Known(rule[w].out, dst[w])

WorkersJustified == \A w \in Worker : Carried(w)

IInv == TypeOK /\ FlowsRecorded /\ LatchProvenance /\ WorkersJustified

-----------------------------------------------------------------------------
USE DEF OptAddr, OptSsrc

LEMMA WorkerFacts ==
  /\ \A w \in Worker : w[1] \in Endpoint
  /\ \A e \in Endpoint : "socket" \in Carrier => <<e, "socket">> \in Worker
BY Zenon DEF Worker

LEMMA RuleFacts ==
  /\ \A k \in {"none", "redirect", "drop"} : NoRule(k) \in Action
  /\ AnyPacket \in Packet
  /\ AnyPacket \in Datagram
<1>1. \A k \in {"none", "redirect", "drop"} : NoRule(k) \in Action
  BY Zenon DEF NoRule, Action
<1>2. AnyPacket \in Packet
  BY Zenon, DatapathAssumption DEF AnyPacket
<1>3. QED
  BY Zenon, <1>1, <1>2, DatapathAssumption

LEMMA TodoFacts ==
  ASSUME TypeOK, todo # <<>>
  PROVE  /\ todo[1] \in Step
         /\ Tail(todo) \in Seq(Step)
BY DEF TypeOK

(* Finish and Goto keep the workers' variables typed.                      *)
LEMMA FinishTyped ==
  ASSUME TypeOK, NEW w \in Worker, Finish(w)
  PROVE  /\ pc' \in [Worker -> PcValues]
         /\ pkt' \in [Worker -> Datagram]
         /\ rule' \in [Worker -> Action]
         /\ cfg' \in [Worker -> Ufrag \cup {None}]
         /\ dst' \in [Worker -> OptAddr]
BY Zenon, RuleFacts DEF TypeOK, Finish, PcValues

LEMMA DispatchTyped ==
  ASSUME TypeOK, NEW w \in Worker, NEW p \in Datagram, Dispatch(w, p)
  PROVE  /\ pc' \in [Worker -> PcValues]
         /\ pkt' \in [Worker -> Datagram]
         /\ rule' \in [Worker -> Action]
         /\ cfg' \in [Worker -> Ufrag \cup {None}]
         /\ dst' \in [Worker -> OptAddr]
<1> DEFINE a == flows[w[1]]
           drops == \/ a.kind \in {"none", "drop"}
                    \/ a.kind = "forward" /\ p.class \notin {"rtp", "rtcp"}
<1>1. CASE drops
  BY Zenon, <1>1, FinishTyped DEF Dispatch
<1>2. CASE ~drops
  <2>1. /\ pc' = [pc EXCEPT ![w] = "gate"]
        /\ pkt' = [pkt EXCEPT ![w] = p]
        /\ rule' = [rule EXCEPT ![w] = a]
        /\ UNCHANGED <<cfg, dst>>
    BY Zenon, <1>2 DEF Dispatch
  <2>2. QED
    BY Zenon, <2>1, WorkerFacts DEF TypeOK, PcValues
<1>3. QED
  BY Zenon, <1>1, <1>2

LEMMA WorkerTyped ==
  ASSUME TypeOK, WorkersJustified, NEW w \in Worker,
         ReceiveMedia(w) \/ ReceiveStun(w) \/ WorkerStep(w)
  PROVE  TypeOK'
<1> USE WorkerFacts, DatapathAssumption
<1>1. CASE ReceiveMedia(w)
  <2>1. PICK p \in Packet : Dispatch(w, p)
    BY Zenon, <1>1 DEF ReceiveMedia
  <2>2. QED
    BY Zenon, <1>1, <2>1, DispatchTyped
       DEF ReceiveMedia, TypeOK, shared, latched, nomination, watch, wiring, agent
<1>2. CASE ReceiveStun(w)
  BY <1>2 DEF ReceiveStun, TypeOK, PcValues, shared, latched, nomination, watch, wiring, agent
<1>3. CASE StunIce(w)
  <2>1. CASE ice[w[1]] = None
    <3>1. pkt[w] \in Datagram
      BY Zenon DEF TypeOK
    <3>2. QED
      BY Zenon, <1>3, <2>1, <3>1, DispatchTyped
         DEF StunIce, TypeOK, shared, latched, nomination, watch, wiring, agent
  <2>2. CASE ice[w[1]] # None
    BY Zenon, <1>3, <2>2
       DEF StunIce, TypeOK, PcValues, shared, latched, nomination, watch, wiring, agent
  <2>3. QED
    BY Zenon, <2>1, <2>2
<1>4. CASE Check(w)
  <2>1. CASE Finish(w) /\ UNCHANGED nomination
    BY Zenon, <1>4, <2>1, FinishTyped DEF Check, TypeOK, latched, nomination, watch, wiring, agent
  <2>2. CASE /\ nominated' = [nominated EXCEPT ![w[1]] = pkt[w].nominates]
             /\ nomUfrag' = [nomUfrag EXCEPT ![w[1]] = SessionOf(w)]
             /\ nomSrc' = [nomSrc EXCEPT ![w[1]] = pkt[w].src]
             /\ Goto(w, "adopt")
    <3>1. cfg[w] \in Ufrag \cup {None}
      BY Zenon DEF TypeOK
    <3>2. SessionOf(w) \in Ufrag \cup {None}
      BY Zenon, <3>1 DEF SessionOf
    <3> QED
      BY Zenon, <1>4, <2>2, <3>2
         DEF Check, Goto, TypeOK, Datagram, PcValues, latched, watch, wiring, agent
  <2>3. QED
    BY Zenon, <1>4, <2>1, <2>2 DEF Check
<1>5. CASE AdoptChecked(w)
  BY <1>5
     DEF AdoptChecked, Goto, TypeOK, Datagram, PcValues, latched, nomination, watch, wiring, agent
<1>6. CASE PublishChecked(w)
  BY Zenon, <1>6, FinishTyped
     DEF PublishChecked, PublishIceValidated, TypeOK, latched, nomination, watch, wiring, agent
<1>7. CASE IceGate(w)
  <2>1. CASE Finish(w)
    BY Zenon, <1>7, <2>1, FinishTyped
       DEF IceGate, TypeOK, shared, latched, nomination, watch, wiring, agent
  <2>2. CASE \E l \in {"iceLatch", "resolve", "latch"} : Goto(w, l)
    BY <1>7, <2>2
       DEF IceGate, Goto, TypeOK, PcValues, shared, latched, nomination, watch, wiring, agent
  <2>3. QED
    BY Zenon, <1>7, <2>1, <2>2 DEF IceGate
<1>8. CASE IceLatch(w)
  <2>1. CASE Finish(w)
    BY Zenon, <1>8, <2>1, FinishTyped
       DEF IceLatch, TypeOK, shared, latched, nomination, watch, wiring, agent
  <2>2. CASE ~Finish(w)
    BY <1>8, <2>2
       DEF IceLatch, Goto, TypeOK, PcValues, shared, latched, nomination, watch, wiring, agent
  <2>3. QED
    BY Zenon, <2>1, <2>2
<1>9. CASE UpdateLatch(w)
  <2>1. CASE Finish(w)
    BY Zenon, <1>9, <2>1, FinishTyped
       DEF UpdateLatch, TypeOK, shared, latched, nomination, watch, wiring, agent
  <2>2. CASE ~Finish(w)
    BY Zenon, <1>9, <2>2
       DEF UpdateLatch, SourceLatchVerdict, Goto, TypeOK, PcValues, shared, latched,
       nomination, watch, wiring, agent
  <2>3. QED
    BY Zenon, <2>1, <2>2
<1>10. CASE LearnSource(w)
  BY Zenon, <1>10
     DEF LearnSource, Goto, TypeOK, Datagram, PcValues, nomination, watch, wiring, agent
<1>11. CASE Resolve(w)
  <2>1. CASE Finish(w)
    BY Zenon, <1>11, <2>1, FinishTyped
       DEF Resolve, TypeOK, shared, latched, nomination, watch, wiring, agent
  <2>2. CASE /\ dst' = [dst EXCEPT ![w] = IF latchSrc[rule[w].out] # None
                                         THEN latchSrc[rule[w].out] ELSE rule[w].dst]
             /\ pc' = [pc EXCEPT ![w] = "emit"]
             /\ UNCHANGED <<pkt, rule, cfg>>
    <3>1. rule[w] \in Action /\ rule[w].kind = "forward"
      BY Zenon, <1>11 DEF Resolve, TypeOK, WorkersJustified, Carried
    <3>2. dst'[w] \in OptAddr
      BY <2>2, <3>1 DEF TypeOK, Action
    <3>3. QED
      BY Zenon, <1>11, <2>2, <3>2
         DEF Resolve, TypeOK, PcValues, shared, latched, nomination, watch, wiring, agent
  <2>3. QED
    BY Zenon, <1>11, <2>1, <2>2 DEF Resolve
<1>12. CASE Emit(w)
  BY Zenon, <1>12, FinishTyped DEF Emit, TypeOK, shared, latched, nomination, watch, wiring, agent
<1>13. QED
  BY Zenon, <1>1, <1>2, <1>3, <1>4, <1>5, <1>6, <1>7, <1>8, <1>9, <1>10, <1>11, <1>12
     DEF WorkerStep

LEMMA AgentTyped ==
  ASSUME TypeOK, NEW e \in Endpoint, AgentSelect(e) \/ AdoptSource(e) \/ PublishAdopted(e)
  PROVE  TypeOK'
<1> USE DEF TypeOK, latched, nomination, watch, wiring, worker
<1>1. CASE AgentSelect(e)
  BY <1>1 DEF AgentSelect
<1>2. CASE AdoptSource(e)
  BY <1>2 DEF AdoptSource
<1>3. CASE PublishAdopted(e)
  BY Zenon, <1>3 DEF PublishAdopted, PublishIceValidated
<1>4. QED
  BY Zenon, <1>1, <1>2, <1>3

LEMMA DropTyped ==
  ASSUME TypeOK, NEW e, DropLatch(e)
  PROVE  /\ latchSrc' \in [Endpoint -> OptAddr] /\ latchSsrc' \in [Endpoint -> OptSsrc]
BY Zenon DEF TypeOK, DropLatch

LEMMA ControlTyped ==
  ASSUME TypeOK, Begin \/ ControlStep
  PROVE  TypeOK'
<1> USE WorkerFacts DEF TypeOK, latched, nomination, watch, wiring, agent, worker
<1>1. CASE Begin
  BY <1>1, DatapathAssumption DEF Begin
<1> SUFFICES ASSUME ControlStep PROVE TypeOK'
  BY Zenon, <1>1
<1>2. todo # <<>> /\ todo[1] \in Step /\ Tail(todo) \in Seq(Step)
  <2>1. Doing # "nothing"
    BY Zenon DEF ControlStep, FlowInsert, ForgetOwn, ForgetPeer, FlowRemove, LatchRemove,
           IceRestart, IceInsert, IceRemove, NominatedRemove, ModeSet, Subscribe,
           PublishOnSubscribe, Unsubscribe, EndpointRemove, Abort, Join, Now
  <2>2. QED
    BY Zenon, <2>1, TodoFacts DEF Doing
<1>3. /\ todo[1].e \in Endpoint /\ todo[1].action \in Action
      /\ todo[1].ufrag \in Ufrag \cup {None} /\ todo[1].full \in BOOLEAN
  BY SMTT(30), <1>2 DEF Step
<1>4. CASE FlowInsert
  <2>1. todo[1].action.gate \subseteq Ip
    BY SMTT(30), <1>3 DEF Action
  <2>2. CASE alive[todo[1].e]
    <3>1. admitted' \in [Endpoint -> SUBSET Ip]
      BY SMTT(30), <1>3, <1>4, <2>1, <2>2 DEF FlowInsert
    <3>2. /\ flows' = [flows EXCEPT ![todo[1].e] = todo[1].action]
          /\ previous' = flows[todo[1].e] /\ todo' = Tail(todo)
      BY Zenon, <1>4, <2>2 DEF FlowInsert, Advance
    <3>3. flows' \in [Endpoint -> Action] /\ previous' \in Action
      BY SMTT(30), <1>3, <3>2
    <3>4. QED
      BY Zenon, <1>2, <1>4, <3>1, <3>2, <3>3 DEF FlowInsert
  <2>3. CASE ~alive[todo[1].e]
    BY SMTT(30), <1>3, <1>4, <2>3 DEF FlowInsert
  <2>4. QED
    BY Zenon, <2>2, <2>3
<1>5. CASE ForgetOwn
  BY SMTT(30), <1>2, <1>5, DropTyped DEF ForgetOwn, Advance
<1>6. CASE ForgetPeer
  BY Zenon, <1>2, <1>6, DropTyped DEF ForgetPeer, Advance
<1>7. CASE FlowRemove
  BY Zenon, <1>2, <1>7, RuleFacts DEF FlowRemove, Advance
<1>8. CASE LatchRemove
  BY Zenon, <1>2, <1>8, DropTyped DEF LatchRemove, Advance
<1>9. CASE IceRestart
  BY Zenon, <1>2, <1>9 DEF IceRestart, Advance, Unnominate
<1>10. CASE IceInsert
  BY Zenon, <1>2, <1>3, <1>10 DEF IceInsert, Advance
<1>11. CASE IceRemove
  BY Zenon, <1>2, <1>11 DEF IceRemove, Advance
<1>12. CASE NominatedRemove
  BY Zenon, <1>2, <1>12 DEF NominatedRemove, Advance, Unnominate
<1>13. CASE ModeSet
  BY Zenon, <1>2, <1>3, <1>13 DEF ModeSet, Advance
<1>14. CASE Subscribe
  BY SMTT(30), <1>2, <1>3, <1>14 DEF Subscribe, Advance
<1>15. CASE PublishOnSubscribe
  BY Zenon, <1>2, <1>3, <1>15 DEF PublishOnSubscribe, PublishIceValidated, Advance
<1>16. CASE Unsubscribe
  BY Zenon, <1>2, <1>16 DEF Unsubscribe, Advance
<1>17. CASE EndpointRemove
  BY Zenon, <1>2, <1>17 DEF EndpointRemove, Advance
<1>18. CASE Abort
  BY Zenon, <1>2, <1>18 DEF Abort, Advance
<1>19. CASE Join
  <2>1. CASE "socket" \in Carrier
    <3>1. Finish(<<todo[1].e, "socket">>) /\ <<todo[1].e, "socket">> \in Worker
      BY SMTT(30), <1>3, <1>19, <2>1 DEF Join
    <3>2. QED
      BY SMTT(30), <1>2, <1>19, <3>1, FinishTyped DEF Join, Advance
  <2>2. CASE "socket" \notin Carrier
    BY SMTT(30), <1>2, <1>19, <2>2 DEF Join, Advance
  <2>3. QED
    BY SMTT(30), <2>1, <2>2
<1>20. QED
  BY Zenon, <1>4, <1>5, <1>6, <1>7, <1>8, <1>9, <1>10, <1>11, <1>12, <1>13, <1>14, <1>15,
     <1>16, <1>17, <1>18, <1>19 DEF ControlStep

-----------------------------------------------------------------------------
(* The history only grows, so what a worker carries stays justified.       *)
Grows ==
  \A e \in Endpoint : admitted[e] \subseteq admitted'[e] /\ validated[e] \subseteq validated'[e]

LEMMA CarriedStable ==
  ASSUME TypeOK, Grows, NEW v \in Worker, Carried(v),
         pc'[v] = pc[v], pkt'[v] = pkt[v], rule'[v] = rule[v], dst'[v] = dst[v]
  PROVE  Carried(v)'
<1>1. v[1] \in Endpoint /\ rule[v] \in Action
  BY Zenon, WorkerFacts DEF TypeOK
<1>2. rule[v].kind = "forward" => rule[v].out \in Endpoint
  BY Zenon, <1>1 DEF Action
<1>3. \A e \in Endpoint : \A a : Known(e, a) => Known(e, a)'
  BY Zenon DEF Grows, Known
<1>4. QED
  BY Zenon, <1>1, <1>2, <1>3 DEF Carried, Grows, Accepts

(* A step of one worker that changes no flow and no history.               *)
LEMMA OthersStable ==
  ASSUME TypeOK, WorkersJustified, Grows, NEW w \in Worker,
         \A v \in Worker \ {w} : /\ pc'[v] = pc[v] /\ pkt'[v] = pkt[v]
                                 /\ rule'[v] = rule[v] /\ dst'[v] = dst[v],
         Carried(w)'
  PROVE  WorkersJustified'
<1>1. ASSUME NEW v \in Worker, v # w PROVE Carried(v)'
  BY Zenon, <1>1, CarriedStable DEF WorkersJustified
<1>2. QED
  BY Zenon, <1>1 DEF WorkersJustified

LEMMA FinishJustified ==
  ASSUME TypeOK, WorkersJustified, Grows, NEW w \in Worker, Finish(w)
  PROVE  WorkersJustified'
<1>1. pc'[w] = "idle"
  BY Zenon DEF Finish, TypeOK
<1>2. Carried(w)'
  BY Zenon, <1>1 DEF Carried
<1>3. QED
  BY Zenon, <1>2, OthersStable DEF Finish, TypeOK

LEMMA AllStable ==
  ASSUME TypeOK, WorkersJustified, Grows, UNCHANGED worker
  PROVE  WorkersJustified'
BY Zenon, CarriedStable DEF WorkersJustified, worker

LEMMA DispatchJustified ==
  ASSUME TypeOK, FlowsRecorded, WorkersJustified, Grows,
         NEW w \in Worker, NEW p \in Datagram, Dispatch(w, p)
  PROVE  WorkersJustified'
<1> DEFINE a == flows[w[1]]
           drops == \/ a.kind \in {"none", "drop"}
                    \/ a.kind = "forward" /\ p.class \notin {"rtp", "rtcp"}
<1>1. CASE drops
  BY Zenon, <1>1, FinishJustified DEF Dispatch
<1>2. CASE ~drops
  <2>1. /\ pc' = [pc EXCEPT ![w] = "gate"]
        /\ pkt' = [pkt EXCEPT ![w] = p]
        /\ rule' = [rule EXCEPT ![w] = a]
        /\ UNCHANGED <<cfg, dst>>
    BY Zenon, <1>2 DEF Dispatch
  <2>2. a \in Action /\ w[1] \in Endpoint
    BY Zenon, WorkerFacts DEF TypeOK
  <2>3. pc'[w] = "gate" /\ rule'[w] = a
    BY SMTT(30), <2>1 DEF TypeOK
  <2>4. Carried(w)'
    BY Zenon, <1>2, <2>2, <2>3 DEF Carried, FlowsRecorded, Grows, Action
  <2>5. QED
    BY Zenon, <2>1, <2>4, OthersStable DEF TypeOK
<1>3. QED
  BY Zenon, <1>1, <1>2

(* A move to another label with the same datagram and rule.                *)
LEMMA GotoJustified ==
  ASSUME TypeOK, WorkersJustified, Grows, NEW w \in Worker, NEW l, Goto(w, l), Carried(w)'
  PROVE  WorkersJustified'
BY Zenon, OthersStable DEF Goto, TypeOK

LEMMA GotoFacts ==
  ASSUME TypeOK, NEW w \in Worker, NEW l, Goto(w, l)
  PROVE  pc'[w] = l /\ pkt'[w] = pkt[w] /\ rule'[w] = rule[w] /\ dst'[w] = dst[w]
BY Zenon DEF Goto, TypeOK

LEMMA WorkerKeepsIInv ==
  ASSUME IInv, NEW w \in Worker, ReceiveMedia(w) \/ ReceiveStun(w) \/ WorkerStep(w)
  PROVE  IInv'
<1> USE DEF latched, nomination, watch, wiring, agent, shared
<1> DEFINE e == w[1]
           Kept == TypeOK' /\ FlowsRecorded' /\ LatchProvenance' /\ WorkersJustified'
<1> SUFFICES ASSUME TypeOK, FlowsRecorded, LatchProvenance, WorkersJustified
             PROVE  Kept
  BY Zenon DEF IInv
<1>1. TypeOK'
  BY Zenon, WorkerTyped
<1>2. /\ e \in Endpoint /\ pkt[w] \in Datagram /\ rule[w] \in Action
      /\ pkt[w].src \in Addr /\ Carried(w)
  BY SMTT(30), WorkerFacts DEF TypeOK, Datagram, WorkersJustified
<1>3. ASSUME UNCHANGED <<flows, latchSrc, admitted, validated>>
      PROVE  /\ FlowsRecorded' /\ LatchProvenance' /\ Grows
             /\ \A f, a : Known(f, a)' <=> Known(f, a)
  BY Zenon, <1>3 DEF FlowsRecorded, LatchProvenance, Grows, Known
<1>4. CASE ReceiveMedia(w)
  <2>1. PICK p \in Packet : Dispatch(w, p)
    BY Zenon, <1>4 DEF ReceiveMedia
  <2>2. p \in Datagram /\ UNCHANGED shared
    BY Zenon, <1>4, DatapathAssumption DEF ReceiveMedia
  <2>3. QED
    BY Zenon, <1>1, <1>3, <2>1, <2>2, DispatchJustified
<1>5. CASE ReceiveStun(w)
  <2>1. /\ pc' = [pc EXCEPT ![w] = "stunIce"] /\ UNCHANGED <<rule, dst>> /\ UNCHANGED shared
        /\ \A v \in Worker \ {w} : pc'[v] = pc[v] /\ pkt'[v] = pkt[v]
    BY Zenon, <1>5 DEF ReceiveStun, TypeOK
  <2>2. Carried(w)'
    BY Zenon, <2>1 DEF Carried, TypeOK
  <2>3. WorkersJustified'
    BY Zenon, <1>3, <2>1, <2>2, OthersStable
  <2>4. QED
    BY Zenon, <1>1, <1>3, <2>1, <2>3
<1>6. CASE StunIce(w)
  <2>1. CASE ice[e] = None
    BY Zenon, <1>1, <1>2, <1>3, <1>6, <2>1, DispatchJustified DEF StunIce
  <2>2. CASE ice[e] # None
    <3>1. pc' = [pc EXCEPT ![w] = "check"] /\ UNCHANGED <<pkt, rule, dst>> /\ UNCHANGED shared
      BY Zenon, <1>6, <2>2 DEF StunIce
    <3>2. Carried(w)'
      BY Zenon, <3>1 DEF Carried, TypeOK
    <3>3. QED
      BY Zenon, <1>1, <1>3, <3>1, <3>2, OthersStable DEF TypeOK
  <2>3. QED
    BY Zenon, <2>1, <2>2
<1>7. ASSUME Finish(w), UNCHANGED <<flows, latchSrc, admitted, validated>> PROVE Kept
  BY Zenon, <1>1, <1>3, <1>7, FinishJustified
<1>8. CASE Check(w)
  <2>1. CASE Goto(w, "adopt")
    <3>1. pc'[w] = "adopt"
      BY Zenon, <2>1, GotoFacts
    <3>2. Carried(w)'
      BY Zenon, <3>1 DEF Carried
    <3>3. UNCHANGED <<flows, latchSrc, admitted, validated>>
      BY Zenon, <1>8 DEF Check
    <3>4. QED
      BY Zenon, <1>1, <1>3, <2>1, <3>2, <3>3, GotoJustified
  <2>2. QED
    BY Zenon, <1>7, <1>8, <2>1 DEF Check
<1>9. CASE AdoptChecked(w)
  <2>1. /\ Goto(w, "publish") /\ UNCHANGED <<flows, admitted>>
        /\ latchSrc' = [latchSrc EXCEPT ![e] = pkt[w].src]
        /\ validated' = [validated EXCEPT ![e] = @ \cup {pkt[w].src}]
    BY Zenon, <1>9 DEF AdoptChecked
  <2>2. pc'[w] = "publish"
    BY Zenon, <2>1, GotoFacts
  <2>3. Carried(w)'
    BY Zenon, <2>2 DEF Carried
  <2>4. Grows /\ FlowsRecorded'
    BY Zenon, <2>1 DEF Grows, FlowsRecorded, TypeOK
  <2>5. LatchProvenance'
    BY Zenon, <1>2, <2>1 DEF LatchProvenance, TypeOK
  <2>6. QED
    BY Zenon, <1>1, <2>1, <2>3, <2>4, <2>5, GotoJustified
<1>10. CASE PublishChecked(w)
  BY Zenon, <1>7, <1>10 DEF PublishChecked
<1>11. CASE IceGate(w)
  <2>1. pc[w] = "gate" /\ UNCHANGED <<flows, latchSrc, admitted, validated>>
    BY Zenon, <1>11 DEF IceGate
  <2>2. ASSUME NEW l \in {"iceLatch", "resolve", "latch"}, Goto(w, l), Carried(w)'
        PROVE  Kept
    BY Zenon, <1>1, <1>3, <2>1, <2>2, GotoJustified
  <2>3. CASE Goto(w, "iceLatch")
    <3>1. pc'[w] = "iceLatch" /\ rule'[w] = rule[w]
      BY Zenon, <2>3, GotoFacts
    <3>2. Carried(w)'
      BY Zenon, <1>2, <2>1, <3>1 DEF Carried
    <3>3. QED
      BY Zenon, <2>2, <2>3, <3>2
  <2>4. CASE /\ Accepts(rule[w].gate, pkt[w].src) /\ rule[w].kind # "redirect"
             /\ Goto(w, IF rule[w].latch = "Off" THEN "resolve" ELSE "latch")
    <3> DEFINE l == IF rule[w].latch = "Off" THEN "resolve" ELSE "latch"
    <3>1. pc'[w] = l /\ rule'[w] = rule[w] /\ pkt'[w] = pkt[w]
      BY Zenon, <2>4, GotoFacts
    <3>2. Carried(w)'
      BY Zenon, <1>2, <2>1, <2>4, <3>1 DEF Carried, Accepts
    <3>3. QED
      BY Zenon, <2>2, <2>4, <3>2
  <2>5. QED
    BY Zenon, <1>7, <1>11, <2>3, <2>4 DEF IceGate
<1>12. CASE IceLatch(w)
  <2>1. CASE latchSrc[e] = pkt[w].src /\ rule[w].kind = "forward" /\ Goto(w, "resolve")
    <3>1. latchSrc[e] # None
      BY Zenon, <1>2, <2>1, AddressAssumption
    <3>2. Known(e, pkt[w].src)
      BY Zenon, <1>2, <2>1, <3>1 DEF LatchProvenance, Known
    <3>3. pc[w] = "iceLatch" /\ UNCHANGED <<flows, latchSrc, admitted, validated>>
      BY Zenon, <1>12 DEF IceLatch
    <3>4. pc'[w] = "resolve" /\ rule'[w] = rule[w] /\ pkt'[w] = pkt[w]
      BY Zenon, <2>1, GotoFacts
    <3>5. Known(e, pkt[w].src)'
      BY Zenon, <3>2, <3>3, <3>4 DEF Known
    <3>6. Carried(w)'
      BY Zenon, <1>2, <2>1, <3>3, <3>4, <3>5 DEF Carried
    <3>7. QED
      BY Zenon, <1>1, <1>3, <2>1, <3>3, <3>6, GotoJustified
  <2>2. QED
    BY Zenon, <1>7, <1>12, <2>1 DEF IceLatch
<1>13. CASE UpdateLatch(w)
  <2>1. ASSUME NEW l \in {"learn", "resolve"}, Goto(w, l) PROVE Kept
    <3>1. pc[w] = "latch" /\ UNCHANGED <<flows, latchSrc, admitted, validated>>
      BY Zenon, <1>13 DEF UpdateLatch
    <3>2. pc'[w] = l /\ rule'[w] = rule[w] /\ pkt'[w] = pkt[w]
      BY Zenon, <2>1, GotoFacts
    <3>3. Carried(w)'
      BY Zenon, <1>2, <2>1, <3>1, <3>2 DEF Carried, Accepts
    <3>4. QED
      BY Zenon, <1>1, <1>3, <2>1, <3>1, <3>3, GotoJustified
  <2>2. QED
    BY Zenon, <1>7, <1>13, <2>1 DEF UpdateLatch
<1>14. CASE LearnSource(w)
  <2>1. /\ pc[w] = "learn" /\ Goto(w, "resolve")
        /\ UNCHANGED <<flows, admitted, validated>>
        /\ latchSrc' = [latchSrc EXCEPT ![e] = pkt[w].src]
    BY Zenon, <1>14 DEF LearnSource
  <2>2. Grows /\ FlowsRecorded'
    BY Zenon, <2>1 DEF Grows, FlowsRecorded
  <2>3. IpOf[pkt[w].src] \in admitted[e] /\ rule[w].kind = "forward"
    BY Zenon, <1>2, <2>1 DEF Carried, Accepts
  <2>4. LatchProvenance'
    BY Zenon, <1>2, <2>1, <2>3 DEF LatchProvenance, TypeOK
  <2>5. pc'[w] = "resolve" /\ rule'[w] = rule[w] /\ pkt'[w] = pkt[w]
    BY Zenon, <2>1, GotoFacts
  <2>6. Carried(w)'
    BY Zenon, <1>2, <2>1, <2>3, <2>5 DEF Carried, Accepts
  <2>7. QED
    BY Zenon, <1>1, <2>1, <2>2, <2>4, <2>6, GotoJustified
<1>15. CASE Resolve(w)
  <2> DEFINE d == IF latchSrc[rule[w].out] # None THEN latchSrc[rule[w].out] ELSE rule[w].dst
  <2>1. CASE /\ dst' = [dst EXCEPT ![w] = d] /\ pc' = [pc EXCEPT ![w] = "emit"]
             /\ UNCHANGED <<pkt, rule, cfg>>
    <3>1. /\ pc[w] = "resolve" /\ rule[w].kind = "forward" /\ rule[w].out \in Endpoint
          /\ UNCHANGED shared
      BY Zenon, <1>2, <1>15 DEF Resolve, Carried, Action
    <3>2. d = rule[w].dst \/ Known(rule[w].out, d)
      BY Zenon, <3>1 DEF LatchProvenance, Known
    <3>3. pc'[w] = "emit" /\ dst'[w] = d /\ pkt'[w] = pkt[w] /\ rule'[w] = rule[w]
      BY Zenon, <2>1 DEF TypeOK
    <3>4. \A f, a : Known(f, a)' <=> Known(f, a)
      BY Zenon, <1>3, <3>1
    <3>5. Carried(w)'
      BY Zenon, <1>2, <3>1, <3>2, <3>3, <3>4 DEF Carried, Accepts
    <3>6. QED
      BY Zenon, <1>1, <1>3, <2>1, <3>1, <3>3, <3>5, OthersStable DEF TypeOK
  <2>2. QED
    BY Zenon, <1>7, <1>15, <2>1 DEF Resolve
<1>16. CASE Emit(w)
  BY Zenon, <1>7, <1>16 DEF Emit
<1>17. QED
  BY Zenon, <1>4, <1>5, <1>6, <1>8, <1>9, <1>10, <1>11, <1>12, <1>13, <1>14, <1>15, <1>16
     DEF WorkerStep

LEMMA AgentKeepsIInv ==
  ASSUME IInv, NEW e \in Endpoint, AgentSelect(e) \/ AdoptSource(e) \/ PublishAdopted(e)
  PROVE  IInv'
<1> USE DEF IInv
<1>1. TypeOK'
  BY Zenon, AgentTyped
<1>2. CASE AgentSelect(e) \/ PublishAdopted(e)
  <2>1. UNCHANGED <<flows, latchSrc, admitted, validated, worker>>
    BY Zenon, <1>2 DEF AgentSelect, PublishAdopted, latched, wiring
  <2>2. FlowsRecorded' /\ LatchProvenance' /\ Grows
    BY Zenon, <2>1 DEF FlowsRecorded, LatchProvenance, Grows
  <2>3. QED
    BY Zenon, <1>1, <2>1, <2>2, AllStable
<1>3. CASE AdoptSource(e)
  <2>1. UNCHANGED <<flows, admitted, worker>>
    BY Zenon, <1>3 DEF AdoptSource, wiring
  <2>2. FlowsRecorded' /\ Grows
    BY Zenon, <1>3, <2>1 DEF AdoptSource, FlowsRecorded, Grows, TypeOK
  <2>3. LatchProvenance'
    BY Zenon, <1>3, <2>1 DEF AdoptSource, LatchProvenance, TypeOK
  <2>4. QED
    BY Zenon, <1>1, <2>1, <2>2, <2>3, AllStable
<1>4. QED
  BY Zenon, <1>2, <1>3

(* The control thread only drops latches and adds to `admitted`.           *)
LEMMA ControlKeepsIInv ==
  ASSUME IInv, Begin \/ ControlStep
  PROVE  IInv'
<1> USE DEF IInv
<1>1. TypeOK'
  BY Zenon, ControlTyped
<1>2. UNCHANGED validated
  BY Zenon DEF Begin, ControlStep, FlowInsert, ForgetOwn, ForgetPeer, FlowRemove, LatchRemove,
         IceRestart, IceInsert, IceRemove, NominatedRemove, ModeSet, Subscribe,
         PublishOnSubscribe, Unsubscribe, EndpointRemove, Abort, Join
<1>3. Grows
  <2>1. CASE FlowInsert
    <3>1. admitted \in [Endpoint -> SUBSET Ip]
      BY Zenon DEF TypeOK
    <3>2. \E x : admitted' = [admitted EXCEPT ![todo[1].e] = @ \cup x] \/ admitted' = admitted
      BY Zenon, <2>1 DEF FlowInsert
    <3>3. \A e \in Endpoint : admitted[e] \subseteq admitted'[e]
      BY SMTT(30), <3>1, <3>2
    <3>4. QED
      BY Zenon, <1>2, <3>3 DEF Grows
  <2>2. CASE ~FlowInsert
    <3>1. UNCHANGED admitted
      BY Zenon, <2>2 DEF Begin, ControlStep, ForgetOwn, ForgetPeer, FlowRemove, LatchRemove,
             IceRestart, IceInsert, IceRemove, NominatedRemove, ModeSet, Subscribe,
             PublishOnSubscribe, Unsubscribe, EndpointRemove, Abort, Join, wiring
    <3>2. QED
      BY Zenon, <1>2, <3>1 DEF Grows
  <2>3. QED
    BY Zenon, <2>1, <2>2
<1>4. \A e \in Endpoint : latchSrc'[e] \in {latchSrc[e], None}
  BY Zenon DEF TypeOK, Begin, ControlStep, FlowInsert, ForgetOwn, ForgetPeer, FlowRemove,
         LatchRemove, DropLatch, IceRestart, IceInsert, IceRemove, NominatedRemove,
         ModeSet, Subscribe, PublishOnSubscribe, Unsubscribe, EndpointRemove, Abort, Join,
         latched
<1>5. LatchProvenance'
  BY Zenon, <1>3, <1>4 DEF LatchProvenance, Grows
<1>6. FlowsRecorded'
  <2>1. CASE FlowInsert
    <3>1. CASE alive[todo[1].e]
      <4>1. todo # <<>>
        BY Zenon, <2>1 DEF FlowInsert, Now, Doing
      <4>2. todo[1].e \in Endpoint /\ todo[1].action \in Action
        BY Zenon, <4>1, TodoFacts DEF Step
      <4>3. flows' = [flows EXCEPT ![todo[1].e] = todo[1].action]
        BY Zenon, <2>1, <3>1 DEF FlowInsert
      <4>4. (todo[1].action.kind = "forward" /\ todo[1].action.latch # "Off")
              => todo[1].action.gate \subseteq admitted'[todo[1].e]
        <5>1. admitted \in [Endpoint -> SUBSET Ip]
          BY Zenon DEF TypeOK
        <5>2. (todo[1].action.kind = "forward" /\ todo[1].action.latch # "Off")
                => admitted' = [admitted EXCEPT ![todo[1].e] = @ \cup todo[1].action.gate]
          BY Zenon, <2>1, <3>1 DEF FlowInsert
        <5>3. QED
          BY Zenon, <4>2, <5>1, <5>2
      <4>5. QED
        BY Zenon, <1>3, <4>2, <4>3, <4>4 DEF FlowsRecorded, Grows, TypeOK
    <3>2. CASE ~alive[todo[1].e]
      BY SMTT(30), <2>1, <3>2 DEF FlowInsert, FlowsRecorded
    <3>3. QED
      BY Zenon, <3>1, <3>2
  <2>2. CASE FlowRemove
    BY Zenon, <1>3, <2>2 DEF FlowRemove, FlowsRecorded, Grows, NoRule, TypeOK
  <2>3. CASE ~FlowInsert /\ ~FlowRemove
    <3>1. UNCHANGED flows
      BY Zenon, <2>3 DEF Begin, ControlStep, ForgetOwn, ForgetPeer, LatchRemove,
             IceRestart, IceInsert, IceRemove, NominatedRemove, ModeSet, Subscribe,
             PublishOnSubscribe, Unsubscribe, EndpointRemove, Abort, Join, wiring
    <3>2. QED
      BY Zenon, <1>3, <3>1 DEF FlowsRecorded, Grows
  <2>4. QED
    BY Zenon, <2>1, <2>2, <2>3
<1>7. WorkersJustified'
  <2>1. CASE Join /\ "socket" \in Carrier
    <3>1. todo # <<>>
      BY Zenon, <2>1 DEF Join, Now, Doing
    <3>2. <<todo[1].e, "socket">> \in Worker
      BY Zenon, <2>1, <3>1, TodoFacts, WorkerFacts DEF Step
    <3>3. QED
      BY Zenon, <1>3, <2>1, <3>2, FinishJustified DEF Join
  <2>2. CASE ~(Join /\ "socket" \in Carrier)
    <3>1. UNCHANGED worker
      BY Zenon, <2>2 DEF Begin, ControlStep, FlowInsert, ForgetOwn, ForgetPeer, FlowRemove,
             LatchRemove, IceRestart, IceInsert, IceRemove, NominatedRemove, ModeSet,
             Subscribe, PublishOnSubscribe, Unsubscribe, EndpointRemove, Abort, Join
    <3>2. QED
      BY Zenon, <1>3, <3>1, AllStable
  <2>3. QED
    BY Zenon, <2>1, <2>2
<1>8. QED
  BY Zenon, <1>1, <1>5, <1>6, <1>7

LEMMA InitIInv == Init => IInv
<1> SUFFICES ASSUME Init PROVE IInv
  BY Zenon
<1>1. TypeOK
  BY SMTT(30), RuleFacts DEF Init, TypeOK, PcValues
<1>2. FlowsRecorded /\ LatchProvenance
  BY Zenon DEF Init, FlowsRecorded, LatchProvenance, NoRule
<1>3. WorkersJustified
  BY Zenon DEF Init, WorkersJustified, Carried
<1>4. QED
  BY Zenon, <1>1, <1>2, <1>3 DEF IInv

LEMMA NextIInv == IInv /\ [Next]_vars => IInv'
<1> SUFFICES ASSUME IInv, [Next]_vars PROVE IInv'
  BY Zenon
<1>1. CASE UNCHANGED vars
  <2>1. UNCHANGED <<alive, aborted, flows, latchSrc, latchSsrc, ice, nominated, forwardOnly,
                    watched, pub, selected, adopting, pc, pkt, rule, cfg, dst, todo, previous,
                    admitted, validated, nomUfrag, nomSrc>>
    BY SMTT(30), <1>1 DEF vars, shared, worker, latched, nomination, watch, wiring, agent
  <2>2. TypeOK'
    BY Zenon, <2>1 DEF IInv, TypeOK
  <2>3. FlowsRecorded' /\ LatchProvenance' /\ WorkersJustified'
    BY Zenon, <2>1 DEF IInv, FlowsRecorded, LatchProvenance, WorkersJustified, Carried, Known
  <2>4. QED
    BY Zenon, <2>2, <2>3 DEF IInv
<1>2. CASE Next
  BY Zenon, <1>2, WorkerKeepsIInv, AgentKeepsIInv, ControlKeepsIInv DEF Next
<1>3. QED
  BY Zenon, <1>1, <1>2

(* Every reachable state is well typed.                                    *)
THEOREM TypeCorrect == Spec => []TypeOK
<1>1. IInv => TypeOK
  BY Zenon DEF IInv
<1>2. QED
  BY InitIInv, NextIInv, <1>1, PTL DEF Spec

(* No interleaving of receive tasks, operations and agent adoptions makes  *)
(* `latched` hold a source that neither ICE nor a latching rule of that    *)
(* endpoint vouched for.                                                   *)
THEOREM LatchIsVouchedFor == Spec => []LatchProvenance
<1>1. IInv => LatchProvenance
  BY SMTT(30) DEF IInv
<1>2. QED
  BY InitIInv, NextIInv, <1>1, PTL DEF Spec

(* Nothing is forwarded from an unvouched source or toward an unvouched    *)
(* destination, whatever changes between the gates of `dispatch`.          *)
THEOREM ForwardingIsJustified == Spec => []EmitJustified
<1>1. IInv => EmitJustified
  BY Zenon DEF IInv, WorkersJustified, Carried, EmitJustified, Known, Accepts
<1>2. QED
  BY InitIInv, NextIInv, <1>1, PTL DEF Spec

-----------------------------------------------------------------------------
(* What a step of each actor may change.                                   *)

LEMMA TailFacts ==
  ASSUME TypeOK, todo # <<>>
  PROVE  /\ Len(todo) \in Nat /\ Len(todo) > 0
         /\ Len(Tail(todo)) = Len(todo) - 1
         /\ \A i \in 1 .. Len(todo) - 1 : Tail(todo)[i] = todo[i + 1]
BY DEF TypeOK

LEMMA PendingFacts ==
  ASSUME TypeOK, todo # <<>>, todo' = Tail(todo), NEW op, NEW e
  PROVE  /\ Pending(op, e)' => Pending(op, e)
         /\ Pending(op, e) => Pending(op, e)' \/ (todo[1].op = op /\ todo[1].e = e)
         /\ todo[1].e = e /\ Follows(todo, 1, op) => Pending(op, e)'
<1>1. ASSUME Pending(op, e)' PROVE Pending(op, e)
  BY <1>1, TailFacts DEF Pending
<1>2. ASSUME NEW j \in 2 .. Len(todo), todo[j].op = op, todo[j].e = e PROVE Pending(op, e)'
  <2>1. j - 1 \in 1 .. Len(todo') /\ todo'[j - 1] = todo[j]
    BY <1>2, TailFacts
  <2> QED
    BY Zenon, <1>2, <2>1 DEF Pending
<1>3. ASSUME Pending(op, e) PROVE Pending(op, e)' \/ (todo[1].op = op /\ todo[1].e = e)
  BY <1>2, <1>3, TailFacts DEF Pending
<1>4. ASSUME todo[1].e = e, Follows(todo, 1, op) PROVE Pending(op, e)'
  BY <1>2, <1>4, TailFacts DEF Follows
<1> QED
  BY Zenon, <1>1, <1>3, <1>4

LEMMA ControlEffects ==
  ASSUME TypeOK, ControlStep
  PROVE  ControlEffect
<1> DEFINE s == todo[1]
<1> USE DEF wiring, Advance, Now, Doing
<1>1. ASSUME todo # <<>>, ControlRuns, UNCHANGED <<validated, agent>>, todo' = Tail(todo),
             WiringEffect(s), LatchEffect(s), NominationEffect(s), WatchEffect(s),
             UNCHANGED worker, s.op # "join"
      PROVE  ControlEffect
  BY Zenon, <1>1 DEF ControlEffect
<1>2. ASSUME UNCHANGED latched, s.op # "latch_remove" PROVE LatchEffect(s)
  BY Zenon, <1>2 DEF LatchEffect, latched
<1>3. ASSUME UNCHANGED nomination, s.op \notin {"nominated_remove", "ice_restart"}
      PROVE  NominationEffect(s)
  BY Zenon, <1>3 DEF NominationEffect
<1>4. ASSUME UNCHANGED watch, s.op \notin {"subscribe", "publish", "unsubscribe"}
      PROVE  WatchEffect(s)
  BY Zenon, <1>4 DEF WatchEffect
<1>5. ASSUME UNCHANGED wiring,
             s.op \notin {"endpoint_remove", "abort", "flow_remove", "ice_insert", "ice_remove",
                          "mode_set", "mode_remove"}
      PROVE  WiringEffect(s)
  BY Zenon, <1>5 DEF WiringEffect
<1>6. CASE FlowInsert
  <2>1. s.op = "flow_insert" /\ todo # <<>> /\ ControlRuns
    BY Zenon, <1>6 DEF FlowInsert
  <2>2. UNCHANGED <<latched, nomination, watch, alive, aborted, ice, forwardOnly, agent,
                    validated, worker>>
    BY Zenon, <1>6 DEF FlowInsert
  <2>3. flows' = flows \/ flows' = [flows EXCEPT ![s.e] = s.action]
    BY Zenon, <1>6 DEF FlowInsert
  <2>4. WiringEffect(s)
    BY Zenon, <2>1, <2>2, <2>3 DEF WiringEffect
  <2>5. todo' = Tail(todo) \/ (todo' = <<>> /\ ~alive[s.e])
    BY Zenon, <1>6 DEF FlowInsert
  <2> QED
    BY Zenon, <1>2, <1>3, <1>4, <2>1, <2>2, <2>4, <2>5 DEF ControlEffect
<1>7. CASE ForgetOwn
  <2>1. s.op = "forget_own" /\ todo # <<>> /\ ControlRuns /\ todo' = Tail(todo)
    BY Zenon, <1>7 DEF ForgetOwn
  <2>2. UNCHANGED <<nomination, watch, wiring, agent, validated, worker>>
    BY Zenon, <1>7 DEF ForgetOwn
  <2>3. UNCHANGED latched \/ (ice[s.e] = None /\ DropLatch(s.e))
    BY Zenon, <1>7 DEF ForgetOwn
  <2>4. LatchEffect(s)
    BY <2>1, <2>3 DEF LatchEffect, DropLatch, latched, TypeOK
  <2> QED
    BY Zenon, <1>1, <1>3, <1>4, <1>5, <2>1, <2>2, <2>4
<1>8. CASE ForgetPeer
  <2>1. s.op = "forget_peer" /\ todo # <<>> /\ ControlRuns /\ todo' = Tail(todo)
    BY Zenon, <1>8 DEF ForgetPeer
  <2>2. UNCHANGED <<nomination, watch, wiring, agent, validated, worker>>
    BY Zenon, <1>8 DEF ForgetPeer
  <2>3. UNCHANGED latched \/ (ice[s.action.out] = None /\ DropLatch(s.action.out))
    BY Zenon, <1>8 DEF ForgetPeer
  <2>4. LatchEffect(s)
    BY <2>1, <2>3 DEF LatchEffect, DropLatch, latched, TypeOK
  <2> QED
    BY Zenon, <1>1, <1>3, <1>4, <1>5, <2>1, <2>2, <2>4
<1>9. CASE FlowRemove
  BY Zenon, <1>1, <1>2, <1>3, <1>4, <1>9 DEF FlowRemove, WiringEffect
<1>10. CASE LatchRemove
  <2>1. LatchEffect(s)
    <3>1. s.e \in Endpoint
      BY Zenon, <1>10, TodoFacts DEF LatchRemove, Step
    <3> QED
      BY Zenon, <1>10, <3>1 DEF LatchRemove, LatchEffect, DropLatch, TypeOK
  <2> QED
    BY Zenon, <1>1, <1>3, <1>4, <1>5, <1>10, <2>1 DEF LatchRemove
<1>11. CASE IceRestart
  <2>1. NominationEffect(s)
    BY Zenon, <1>11 DEF IceRestart, NominationEffect
  <2> QED
    BY Zenon, <1>1, <1>2, <1>4, <1>5, <1>11, <2>1 DEF IceRestart
<1>12. CASE IceInsert
  BY Zenon, <1>1, <1>2, <1>3, <1>4, <1>12 DEF IceInsert, WiringEffect
<1>13. CASE IceRemove
  BY Zenon, <1>1, <1>2, <1>3, <1>4, <1>13 DEF IceRemove, WiringEffect
<1>14. CASE NominatedRemove
  BY Zenon, <1>1, <1>2, <1>4, <1>5, <1>14 DEF NominatedRemove, NominationEffect
<1>15. CASE ModeSet
  <2>1. WiringEffect(s)
    BY Zenon, <1>15 DEF ModeSet, WiringEffect
  <2> QED
    BY Zenon, <1>1, <1>2, <1>3, <1>4, <1>15, <2>1 DEF ModeSet
<1>16. CASE Subscribe
  BY Zenon, <1>1, <1>2, <1>3, <1>5, <1>16 DEF Subscribe, WatchEffect
<1>17. CASE PublishOnSubscribe
  BY Zenon, <1>1, <1>2, <1>3, <1>5, <1>17 DEF PublishOnSubscribe, WatchEffect
<1>18. CASE Unsubscribe
  BY Zenon, <1>1, <1>2, <1>3, <1>5, <1>18 DEF Unsubscribe, WatchEffect
<1>19. CASE EndpointRemove
  BY Zenon, <1>1, <1>2, <1>3, <1>4, <1>19 DEF EndpointRemove, WiringEffect
<1>20. CASE Abort
  BY Zenon, <1>1, <1>2, <1>3, <1>4, <1>20 DEF Abort, WiringEffect
<1>21. CASE Join
  <2>1. s.op = "join" /\ todo # <<>> /\ ControlRuns /\ todo' = Tail(todo)
    BY Zenon, <1>21 DEF Join
  <2>2. UNCHANGED <<latched, nomination, watch, wiring, agent, validated>>
    BY Zenon, <1>21 DEF Join
  <2> QED
    BY Zenon, <1>2, <1>3, <1>4, <1>5, <1>21, <2>1, <2>2 DEF Join, ControlEffect
<1> QED
  BY Zenon, <1>6, <1>7, <1>8, <1>9, <1>10, <1>11, <1>12, <1>13, <1>14, <1>15, <1>16, <1>17, <1>18,
     <1>19, <1>20, <1>21 DEF ControlStep


LEMMA FinishMoves ==
  ASSUME TypeOK, NEW w \in Worker, Finish(w)
  PROVE  Others(w) /\ pc'[w] = "idle" /\ rule'[w] = NoRule("none")
BY DEF Finish, Others, TypeOK

LEMMA GotoMoves ==
  ASSUME TypeOK, NEW w \in Worker, NEW l, Goto(w, l)
  PROVE  Others(w) /\ pc'[w] = l /\ rule'[w] = rule[w] /\ pkt'[w] = pkt[w]
BY DEF Goto, Others, TypeOK

LEMMA DispatchMoves ==
  ASSUME TypeOK, NEW w \in Worker, NEW p \in Datagram, Dispatch(w, p)
  PROVE  /\ Others(w) /\ pc'[w] \in {"idle", "gate"}
         /\ rule'[w] \in {flows[w[1]], NoRule("none")}
<1>1. CASE Finish(w)
  BY <1>1, FinishMoves
<1>2. CASE ~Finish(w)
  BY <1>2 DEF Dispatch, Others, TypeOK
<1> QED
  BY Zenon, <1>1, <1>2

LEMMA WorkerEffects ==
  ASSUME TypeOK, NEW w \in Worker, ReceiveMedia(w) \/ ReceiveStun(w) \/ WorkerStep(w)
  PROVE  WorkerEffect(w)
<1> USE DEF shared
<1>1. ASSUME WorkerRuns(w), pc[w] = "idle" => MayReceive(w), UNCHANGED shared, Others(w),
             pc[w] \notin {"adopt", "publish", "learn"},
             pc'[w] \notin {"check", "adopt", "publish", "learn"},
             rule'[w] \in {rule[w], flows[w[1]], NoRule("none")}
      PROVE  WorkerEffect(w)
  BY Zenon, <1>1 DEF WorkerEffect, Moves
<1>2. ASSUME WorkerRuns(w), pc[w] \notin {"idle", "adopt", "publish", "learn"},
             UNCHANGED shared, Finish(w)
      PROVE  WorkerEffect(w)
  BY Zenon, <1>1, <1>2, FinishMoves
<1>3. ASSUME WorkerRuns(w), pc[w] \notin {"idle", "adopt", "publish", "learn"},
             UNCHANGED shared,
             NEW l \in {"iceLatch", "latch", "resolve"}, Goto(w, l)
      PROVE  WorkerEffect(w)
  <2>1. Others(w) /\ pc'[w] = l /\ rule'[w] = rule[w]
    BY Zenon, <1>3, GotoMoves
  <2> QED
    BY Zenon, <1>1, <1>3, <2>1
<1>4. CASE ReceiveMedia(w)
  <2>1. PICK p \in Packet : Dispatch(w, p)
    BY Zenon, <1>4 DEF ReceiveMedia
  <2>2. p \in Datagram
    BY Zenon, DatapathAssumption
  <2> QED
    BY Zenon, <1>1, <1>4, <2>1, <2>2, DispatchMoves DEF ReceiveMedia
<1>5. CASE ReceiveStun(w)
  <2>1. Others(w) /\ pc'[w] = "stunIce" /\ rule'[w] = rule[w]
    BY Zenon, <1>5 DEF ReceiveStun, Others, TypeOK
  <2> QED
    BY Zenon, <1>1, <1>5, <2>1 DEF ReceiveStun
<1>6. CASE StunIce(w)
  <2>1. pkt[w] \in Datagram
    BY Zenon DEF TypeOK
  <2>2. CASE ice[w[1]] = None
    BY Zenon, <1>1, <1>6, <2>1, <2>2, DispatchMoves DEF StunIce
  <2>3. CASE ice[w[1]] # None
    <3>1. Others(w) /\ pc'[w] = "check" /\ cfg'[w] = ice[w[1]] /\ rule'[w] = rule[w]
      BY <1>6, <2>3 DEF StunIce, Others, TypeOK
    <3> QED
      BY Zenon, <1>6, <2>3, <3>1 DEF StunIce, WorkerEffect, Clones
  <2> QED
    BY Zenon, <2>2, <2>3
<1>7. CASE Check(w)
  <2>1. pc[w] = "check" /\ WorkerRuns(w)
        /\ UNCHANGED <<latched, watch, wiring, agent, todo, validated>>
    BY Zenon, <1>7 DEF Check
  <2>2. CASE Finish(w) /\ UNCHANGED nomination
    BY Zenon, <1>2, <2>1, <2>2
  <2>3. CASE ~(Finish(w) /\ UNCHANGED nomination)
    <3>1. /\ Goto(w, "adopt") /\ pkt[w].nominates # None
          /\ nominated' = [nominated EXCEPT ![w[1]] = pkt[w].nominates]
          /\ nomUfrag' = [nomUfrag EXCEPT ![w[1]] = SessionOf(w)]
          /\ nomSrc' = [nomSrc EXCEPT ![w[1]] = pkt[w].src]
      BY Zenon, <1>7, <2>3 DEF Check
    <3>2. Others(w) /\ pc'[w] = "adopt" /\ rule'[w] = rule[w] /\ pkt'[w] = pkt[w]
      BY Zenon, <3>1, GotoMoves
    <3>3. Nominates(w)
      BY Zenon, <2>1, <3>1, <3>2 DEF Nominates
    <3> QED
      BY Zenon, <2>1, <3>2, <3>3 DEF WorkerEffect
  <2> QED
    BY Zenon, <2>2, <2>3
<1>8. CASE AdoptChecked(w)
  <2>1. Others(w) /\ pc'[w] = "publish" /\ rule'[w] = rule[w]
    BY Zenon, <1>8, GotoMoves DEF AdoptChecked
  <2> QED
    BY Zenon, <1>8, <2>1 DEF AdoptChecked, WorkerEffect, Adopts
<1>9. CASE PublishChecked(w)
  <2>1. Others(w) /\ pc'[w] = "idle" /\ rule'[w] = NoRule("none")
    BY Zenon, <1>9, FinishMoves DEF PublishChecked
  <2> QED
    BY Zenon, <1>9, <2>1 DEF PublishChecked, PublishIceValidated, WorkerEffect, Publishes
<1>10. CASE IceGate(w)
  <2>1. Finish(w) \/ \E l \in {"iceLatch", "latch", "resolve"} : Goto(w, l)
    BY Zenon, <1>10 DEF IceGate
  <2> QED
    BY Zenon, <1>2, <1>3, <1>10, <2>1 DEF IceGate
<1>11. CASE IceLatch(w)
  BY Zenon, <1>2, <1>3, <1>11 DEF IceLatch
<1>12. CASE UpdateLatch(w)
  <2>1. CASE Goto(w, "learn")
    <3>1. Others(w) /\ pc'[w] = "learn" /\ rule'[w] = rule[w] /\ pkt'[w] = pkt[w]
      BY Zenon, <2>1, GotoMoves
    <3>2. SourceLatchVerdict(latchSrc[w[1]], latchSsrc[w[1]], pkt[w].src, pkt[w].ssrc) = "Learn"
      <4>1. ASSUME Goto(w, "resolve") \/ Finish(w) PROVE FALSE
        BY <3>1, <4>1, GotoMoves, FinishMoves
      <4> QED
        BY Zenon, <1>12, <4>1 DEF UpdateLatch
    <3> QED
      BY Zenon, <1>12, <3>1, <3>2 DEF UpdateLatch, WorkerEffect, Decides
  <2>2. CASE ~Goto(w, "learn")
    BY Zenon, <1>2, <1>3, <1>12, <2>2 DEF UpdateLatch
  <2> QED
    BY Zenon, <2>1, <2>2
<1>13. CASE LearnSource(w)
  <2>1. Others(w) /\ pc'[w] = "resolve" /\ rule'[w] = rule[w]
    BY Zenon, <1>13, GotoMoves DEF LearnSource
  <2> QED
    BY Zenon, <1>13, <2>1 DEF LearnSource, WorkerEffect, Learns
<1>14. CASE Resolve(w)
  <2>1. CASE Finish(w)
    BY Zenon, <1>2, <1>14, <2>1 DEF Resolve
  <2>2. CASE ~Finish(w)
    <3>1. Others(w) /\ pc'[w] = "emit" /\ rule'[w] = rule[w]
      BY Zenon, <1>14, <2>2 DEF Resolve, Others, TypeOK
    <3> QED
      BY Zenon, <1>1, <1>14, <3>1 DEF Resolve
  <2> QED
    BY Zenon, <2>1, <2>2
<1>15. CASE Emit(w)
  BY Zenon, <1>2, <1>15 DEF Emit
<1> QED
  BY <1>4, <1>5, <1>6, <1>7, <1>8, <1>9, <1>10, <1>11, <1>12, <1>13, <1>14, <1>15
     DEF WorkerStep


LEMMA Steps ==
  ASSUME TypeOK, [Next]_vars
  PROVE  \/ UNCHANGED vars
         \/ \E w \in Worker : WorkerEffect(w)
         \/ \E e \in Endpoint : AgentSelect(e) \/ AdoptSource(e) \/ PublishAdopted(e)
         \/ Begin \/ ControlEffect
BY Zenon, WorkerEffects, ControlEffects DEF Next

(* A condition on every step of a program, or on every step and what       *)
(* follows it, holds of what is left to do.                                *)
LEMMA TodoKept ==
  ASSUME TypeOK, todo # <<>>, todo' = Tail(todo)
  PROVE  /\ \A i \in 1 .. Len(todo') : i + 1 \in 1 .. Len(todo) /\ todo'[i] = todo[i + 1]
         /\ \A i \in 1 .. Len(todo') : \A op :
              Follows(todo', i, op) <=> Follows(todo, i + 1, op)
<1>1. \A i \in 1 .. Len(todo') : i + 1 \in 1 .. Len(todo) /\ todo'[i] = todo[i + 1]
  BY TailFacts
<1>2. ASSUME NEW i \in 1 .. Len(todo'), NEW op, Follows(todo', i, op)
      PROVE  Follows(todo, i + 1, op)
  BY <1>1, <1>2, TailFacts DEF Follows
<1>3. ASSUME NEW i \in 1 .. Len(todo'), NEW op, Follows(todo, i + 1, op)
      PROVE  Follows(todo', i, op)
  <2>1. PICK j \in i + 2 .. Len(todo) : todo[j].op = op /\ todo[j].e = todo[i + 1].e
    BY <1>3, TailFacts DEF Follows
  <2>2. j - 1 \in i + 1 .. Len(todo') /\ todo'[j - 1] = todo[j] /\ todo'[i] = todo[i + 1]
    BY <1>1, <2>1, TailFacts
  <2> QED
    BY Zenon, <2>1, <2>2 DEF Follows
<1> QED
  BY Zenon, <1>1, <1>2, <1>3

LEMMA LeftToDo ==
  ASSUME TypeOK, ControlEffect
  PROVE  /\ \A i \in 1 .. Len(todo') : \E j \in 1 .. Len(todo) : todo'[i] = todo[j]
         /\ 1 \in 1 .. Len(todo) /\ todo[1] \in Step /\ todo[1].e \in Endpoint
<1>1. CASE todo' = Tail(todo)
  BY <1>1, TodoKept, TodoFacts, TailFacts DEF ControlEffect, Step
<1>2. CASE todo' = <<>>
  BY <1>2, TodoFacts, TailFacts DEF ControlEffect, Step
<1> QED
  BY Zenon, <1>1, <1>2 DEF ControlEffect

(* Each endpoint has one receive task.                                     *)
LEMMA OneTask ==
  ASSUME Carrier = {"socket"}
  PROVE  \A v, w \in Worker : v[1] = w[1] => v = w
BY DEF Worker

-----------------------------------------------------------------------------
(* Without ICE a latch moves only with its SSRC.                           *)

LEMMA WorkerSsrc ==
  ASSUME Carrier = {"socket"}, IInv, SsrcInv, NEW w \in Worker, WorkerEffect(w)
  PROVE  /\ SsrcInv'
         /\ \A e \in Endpoint :
              latchSrc[e] # None /\ latchSrc'[e] # None /\ latchSrc'[e] # latchSrc[e]
                => latchSsrc[e] # None /\ latchSsrc'[e] = latchSsrc[e]
<1> USE DEF IInv
<1>1. w[1] \in Endpoint
  BY Zenon DEF Worker
<1>2. UNCHANGED <<todo, ice, forwardOnly, selected>> /\ Others(w)
  BY Zenon DEF WorkerEffect, wiring, agent
<1>3. Moves(w) \/ Publishes(w) \/ Decides(w) \/ Learns(w)
  BY Zenon, <1>1 DEF WorkerEffect, SsrcInv, Clones, Nominates, Adopts
<1>4. pc'[w] \notin {"check", "adopt"}
  BY Zenon, <1>3 DEF Moves, Publishes, Decides, Learns
<1>5. \A v \in Worker \ {w} : v[1] # w[1] /\ pc'[v] = pc[v] /\ pkt'[v] = pkt[v]
  BY Zenon, <1>2, OneTask DEF Others
<1>6. \A e \in Endpoint \ {w[1]} : latchSrc'[e] = latchSrc[e] /\ latchSsrc'[e] = latchSsrc[e]
  <2>1. CASE Learns(w)
    BY Zenon, <1>1, <2>1 DEF Learns, TypeOK
  <2>2. CASE ~Learns(w)
    BY Zenon, <1>3, <2>2 DEF Moves, Publishes, Decides, shared, latched
  <2> QED
    BY Zenon, <2>1, <2>2
<1>7. /\ latchSrc[w[1]] # None /\ latchSrc'[w[1]] # latchSrc[w[1]]
      => latchSsrc[w[1]] # None /\ latchSsrc'[w[1]] = latchSsrc[w[1]]
  <2>1. CASE Learns(w)
    <3>1. latchSrc'[w[1]] = pkt[w].src /\ latchSsrc'[w[1]] = pkt[w].ssrc
      BY Zenon, <1>1, <2>1 DEF Learns, TypeOK
    <3>2. pc[w] = "learn"
      BY Zenon, <2>1 DEF Learns
    <3> QED
      BY Zenon, <3>1, <3>2 DEF SsrcInv
  <2>2. CASE ~Learns(w)
    BY Zenon, <1>3, <2>2 DEF Moves, Publishes, Decides, shared, latched
  <2> QED
    BY Zenon, <2>1, <2>2
<1>8. pc'[w] = "learn" /\ latchSrc'[w[1]] # None /\ latchSrc'[w[1]] # pkt'[w].src
      => latchSsrc'[w[1]] # None /\ pkt'[w].ssrc = latchSsrc'[w[1]]
  <2>1. CASE Decides(w)
    <3>1. latchSrc' = latchSrc /\ latchSsrc' = latchSsrc /\ pkt'[w] = pkt[w]
      BY Zenon, <2>1 DEF Decides, shared, latched
    <3>2. SourceLatchVerdict(latchSrc[w[1]], latchSsrc[w[1]], pkt[w].src, pkt[w].ssrc) = "Learn"
      BY Zenon, <2>1 DEF Decides
    <3> QED
      BY Zenon, <3>1, <3>2 DEF SourceLatchVerdict
  <2>2. CASE ~Decides(w)
    BY Zenon, <1>3, <2>2 DEF Moves, Publishes, Learns
  <2> QED
    BY Zenon, <2>1, <2>2
<1>9. ASSUME NEW v \in Worker
      PROVE  /\ pc'[v] \notin {"check", "adopt"}
             /\ pc'[v] = "learn" /\ latchSrc'[v[1]] # None /\ latchSrc'[v[1]] # pkt'[v].src
                  => latchSsrc'[v[1]] # None /\ pkt'[v].ssrc = latchSsrc'[v[1]]
  <2>1. CASE v = w
    BY Zenon, <1>4, <1>8, <2>1
  <2>2. CASE v # w
    <3>1. v[1] \in Endpoint \ {w[1]}
      BY Zenon, <1>5, <2>2 DEF Worker
    <3>2. /\ pc'[v] = pc[v] /\ pkt'[v] = pkt[v]
          /\ latchSrc'[v[1]] = latchSrc[v[1]] /\ latchSsrc'[v[1]] = latchSsrc[v[1]]
      BY Zenon, <1>5, <1>6, <2>2, <3>1
    <3> QED
      BY Zenon, <3>2 DEF SsrcInv
  <2> QED
    BY Zenon, <2>1, <2>2
<1>10. SsrcInv'
  BY Zenon, <1>2, <1>9 DEF SsrcInv
<1> QED
  BY Zenon, <1>6, <1>7, <1>10

LEMMA ControlSsrc ==
  ASSUME IInv, SsrcInv, ControlEffect
  PROVE  /\ SsrcInv'
         /\ \A e \in Endpoint :
              latchSrc'[e] = None \/ (latchSrc'[e] = latchSrc[e] /\ latchSsrc'[e] = latchSsrc[e])
<1> USE DEF IInv
<1> DEFINE s == todo[1]
<1>1. s.e \in Endpoint /\ 1 \in 1 .. Len(todo)
  BY Zenon, LeftToDo
<1>2. s.op # "ice_insert" /\ (s.op = "mode_set" => ~s.full)
  BY Zenon, <1>1 DEF SsrcInv
<1>3. \A e \in Endpoint : ice'[e] = None /\ ~forwardOnly'[e] /\ selected'[e] = None
  BY Zenon, <1>1, <1>2 DEF SsrcInv, ControlEffect, WiringEffect, agent, TypeOK
<1>4. \A e \in Endpoint :
        latchSrc'[e] = None \/ (latchSrc'[e] = latchSrc[e] /\ latchSsrc'[e] = latchSsrc[e])
  BY Zenon DEF ControlEffect, LatchEffect
<1>5. \A v \in Worker : pc'[v] = "idle" \/ (pc'[v] = pc[v] /\ pkt'[v] = pkt[v])
  <2>1. CASE UNCHANGED worker
    BY Zenon, <2>1 DEF worker
  <2>2. CASE ~UNCHANGED worker
    <3>1. Finish(<<s.e, "socket">>) /\ <<s.e, "socket">> \in Worker
      BY Zenon, <1>1, <2>2, WorkerFacts DEF ControlEffect
    <3> QED
      BY Zenon, <3>1, FinishMoves DEF Others
  <2> QED
    BY Zenon, <2>1, <2>2
<1>6. ASSUME NEW v \in Worker
      PROVE  /\ pc'[v] \notin {"check", "adopt"}
             /\ pc'[v] = "learn" /\ latchSrc'[v[1]] # None /\ latchSrc'[v[1]] # pkt'[v].src
                  => latchSsrc'[v[1]] # None /\ pkt'[v].ssrc = latchSsrc'[v[1]]
  <2>1. v[1] \in Endpoint
    BY Zenon DEF Worker
  <2> QED
    BY <1>4, <1>5, <2>1 DEF SsrcInv
<1>7. \A i \in 1 .. Len(todo') :
        todo'[i].op # "ice_insert" /\ (todo'[i].op = "mode_set" => ~todo'[i].full)
  BY LeftToDo DEF SsrcInv
<1> QED
  BY <1>3, <1>4, <1>6, <1>7 DEF SsrcInv

LEMMA NextSsrc ==
  ASSUME Carrier = {"socket"}, NoIce, IInv, SsrcInv, [Next]_vars
  PROVE  /\ SsrcInv'
         /\ \A e \in Endpoint :
              latchSrc[e] # None /\ latchSrc'[e] # None /\ latchSrc'[e] # latchSrc[e]
                => latchSsrc[e] # None /\ latchSsrc'[e] = latchSsrc[e]
<1>1. CASE Begin
  <2>1. UNCHANGED <<ice, forwardOnly, selected, pc, pkt, latchSrc, latchSsrc>> /\ todo' \in Programs
    BY Zenon, <1>1 DEF Begin, wiring, agent, worker, latched
  <2>2. todo' \in Seq(Step)
    BY <2>1, DatapathAssumption
  <2>3. ASSUME NEW i \in 1 .. Len(todo')
        PROVE  todo'[i].op # "ice_insert" /\ (todo'[i].op = "mode_set" => ~todo'[i].full)
    <3>1. todo'[i] \in Step
      BY <2>2
    <3>2. todo'[i].e \in Endpoint
      BY <3>1 DEF Step
    <3> QED
      BY Zenon, <2>1, <3>2 DEF NoIce, IceEndpoints, FullEndpoints
  <2> QED
    BY Zenon, <2>1, <2>3 DEF SsrcInv
<1>2. CASE ControlEffect
  BY Zenon, <1>2, ControlSsrc
<1>3. ASSUME NEW w \in Worker, WorkerEffect(w)
      PROVE  /\ SsrcInv'
             /\ \A e \in Endpoint :
                  latchSrc[e] # None /\ latchSrc'[e] # None /\ latchSrc'[e] # latchSrc[e]
                    => latchSsrc[e] # None /\ latchSsrc'[e] = latchSsrc[e]
  BY Zenon, <1>3, WorkerSsrc
<1>4. ASSUME NEW f \in Endpoint, AgentSelect(f) \/ AdoptSource(f) \/ PublishAdopted(f)
      PROVE  UNCHANGED <<todo, ice, forwardOnly, selected, pc, pkt, latchSrc, latchSsrc>>
  BY Zenon, <1>4 DEF SsrcInv, AgentSelect, AdoptSource, PublishAdopted, wiring, worker, latched
<1>5. ASSUME UNCHANGED vars
      PROVE  UNCHANGED <<todo, ice, forwardOnly, selected, pc, pkt, latchSrc, latchSsrc>>
  BY Zenon, <1>5 DEF vars, shared, wiring, worker, latched, agent
<1>6. ASSUME UNCHANGED <<todo, ice, forwardOnly, selected, pc, pkt, latchSrc, latchSsrc>>
      PROVE  SsrcInv'
  BY Zenon, <1>6 DEF SsrcInv
<1> QED
  BY Zenon, <1>1, <1>2, <1>3, <1>4, <1>5, <1>6, Steps DEF IInv

LEMMA InitSsrc == Init => SsrcInv
<1> SUFFICES ASSUME Init PROVE SsrcInv
  BY Zenon
<1>1. /\ Len(todo) = 0 /\ \A w \in Worker : pc[w] = "idle"
      /\ \A e \in Endpoint : ice[e] = None /\ ~forwardOnly[e] /\ selected[e] = None
  BY Zenon DEF Init
<1> QED
  BY <1>1 DEF SsrcInv

(* In a call without ICE, a latch moves from one source to another only on *)
(* a packet that carries the SSRC it was learned with, although            *)
(* update_latch decides in one access and stores in another while          *)
(* re-answers drop latches in between.                                     *)
THEOREM LatchMovesWithItsSsrc ==
  ASSUME Carrier = {"socket"}, NoIce
  PROVE  Spec => SsrcContinuity
<1>1. IInv /\ SsrcInv /\ [Next]_vars => SsrcInv'
  BY Zenon, NextSsrc
<1>2. IInv /\ SsrcInv /\ [Next]_vars =>
        [\A e \in Endpoint :
           (/\ latchSrc[e] # None /\ latchSrc'[e] # None
            /\ latchSrc'[e] # latchSrc[e])
             => latchSsrc[e] # None /\ latchSsrc'[e] = latchSsrc[e]]_vars
  BY Zenon, NextSsrc
<1> QED
  BY InitIInv, NextIInv, InitSsrc, <1>1, <1>2, PTL DEF Spec, SsrcContinuity
=============================================================================
