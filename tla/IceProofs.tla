----------------------------- MODULE IceProofs ------------------------------
(***************************************************************************)
(* The ICE properties of Datapath, for any number of endpoints, addresses, *)
(* sessions and datagrams, and for every set of control programs that uses *)
(* the datapath the way the engine does (DatapathUse says how).  Each      *)
(* theorem has an inductive invariant of DatapathUse and one lemma for     *)
(* each actor: the receive task, the control thread, the agent.            *)
(***************************************************************************)
EXTENDS DatapathProofs

-----------------------------------------------------------------------------
(* On an ICE leg nothing latches from media.                               *)

LEMMA WorkerIceLeg ==
  ASSUME IInv, IceLegInv, NEW w \in Worker, WorkerEffect(w)
  PROVE  IceLegInv'
<1> USE DEF IInv, wiring
<1>1. w[1] \in Endpoint /\ IceEndpoints \subseteq Endpoint
  BY Zenon, WorkerFacts DEF IceEndpoints
<1>2. UNCHANGED <<todo, ice, flows>>
  BY Zenon DEF WorkerEffect
<1>3. ~Latches(NoRule("none"))
  BY Zenon DEF Latches, NoRule
<1>4. rule'[w] \in {rule[w], flows[w[1]], NoRule("none")}
  BY Zenon DEF WorkerEffect, Moves, Clones, Nominates, Adopts, Publishes, Decides, Learns
<1>5. \A v \in Worker : v[1] \in IceEndpoints => ~Latches(rule'[v])
  BY Zenon, <1>1, <1>3, <1>4 DEF WorkerEffect, Others, IceLegInv
<1>6. \A e \in IceEndpoints : latchSrc'[e] # None => latchSrc'[e] \in validated'[e]
  <2>1. CASE UNCHANGED <<latchSrc, validated>>
    BY Zenon, <2>1 DEF IceLegInv
  <2>2. CASE Adopts(w)
    BY Zenon, <1>1, <2>2 DEF Adopts, IceLegInv, TypeOK
  <2>3. CASE Learns(w)
    <3>1. w[1] \notin IceEndpoints
      BY Zenon, <2>3 DEF Learns, IceLegInv, WorkersJustified, Carried, Latches
    <3> QED
      BY Zenon, <1>1, <2>3, <3>1 DEF Learns, IceLegInv, TypeOK
  <2> QED
    BY Zenon, <2>1, <2>2, <2>3
    DEF WorkerEffect, Moves, Clones, Nominates, Publishes, Decides, shared, latched
<1> QED
  BY Zenon, <1>2, <1>5, <1>6 DEF IceLegInv

LEMMA ControlIceLeg ==
  ASSUME IInv, IceLegInv, ControlEffect
  PROVE  IceLegInv'
<1> USE DEF IInv
<1> DEFINE s == todo[1]
<1>1. s \in Step /\ s.e \in Endpoint /\ IceLegStep(s) /\ IceEndpoints \subseteq Endpoint
  BY TodoFacts, TailFacts DEF ControlEffect, Step, IceLegInv, IceEndpoints
<1>2. \A i \in 1 .. Len(todo') : IceLegStep(todo'[i])
  BY TodoKept DEF ControlEffect, IceLegInv
<1>3. \A e \in Endpoint : ice'[e] # None => e \in IceEndpoints
  BY Zenon, <1>1 DEF ControlEffect, WiringEffect, IceLegInv, IceLegStep, TypeOK
<1>4. \A e \in IceEndpoints : ~Latches(flows'[e])
  <2>1. ~Latches(NoRule("none"))
    BY Zenon DEF Latches, NoRule
  <2> QED
    BY Zenon, <1>1, <2>1 DEF ControlEffect, WiringEffect, IceLegInv, IceLegStep, TypeOK
<1>5. \A e \in IceEndpoints : latchSrc'[e] # None => latchSrc'[e] \in validated'[e]
  BY Zenon, <1>1 DEF ControlEffect, LatchEffect, IceLegInv
<1>6. \A w \in Worker : w[1] \in IceEndpoints => ~Latches(rule'[w])
  <2>1. CASE UNCHANGED worker
    BY Zenon, <2>1 DEF worker, IceLegInv
  <2>2. CASE ~UNCHANGED worker
    <3>1. Finish(<<s.e, "socket">>) /\ <<s.e, "socket">> \in Worker
      BY Zenon, <1>1, <2>2, WorkerFacts DEF ControlEffect
    <3>2. Others(<<s.e, "socket">>) /\ rule'[<<s.e, "socket">>] = NoRule("none")
      BY Zenon, <3>1, FinishMoves
    <3>3. ~Latches(NoRule("none"))
      BY Zenon DEF Latches, NoRule
    <3> QED
      BY Zenon, <3>1, <3>2, <3>3 DEF Others, IceLegInv
  <2> QED
    BY Zenon, <2>1, <2>2
<1> QED
  BY Zenon, <1>2, <1>3, <1>4, <1>5, <1>6 DEF IceLegInv

LEMMA NextIceLeg ==
  ASSUME IceLegsDoNotLatch, IInv, IceLegInv, [Next]_vars
  PROVE  IceLegInv'
<1> USE DEF IInv
<1>1. IceEndpoints \subseteq Endpoint
  BY Zenon DEF IceEndpoints
<1>2. CASE UNCHANGED vars
  BY Zenon, <1>2 DEF IceLegInv, vars, shared, wiring, latched, worker
<1>3. CASE Begin
  <2>1. UNCHANGED <<ice, flows, latchSrc, validated, rule>> /\ todo' \in Programs
    BY Zenon, <1>3 DEF Begin, wiring, latched, worker
  <2> QED
    BY Zenon, <2>1 DEF IceLegInv, IceLegsDoNotLatch
<1>4. ASSUME NEW e \in Endpoint, AgentSelect(e) \/ AdoptSource(e) \/ PublishAdopted(e)
      PROVE  IceLegInv'
  <2>1. UNCHANGED <<ice, flows, todo, rule>>
    BY Zenon, <1>4 DEF AgentSelect, AdoptSource, PublishAdopted, wiring, worker
  <2>2. \A f \in IceEndpoints : latchSrc'[f] # None => latchSrc'[f] \in validated'[f]
    BY <1>1, <1>4 DEF AgentSelect, AdoptSource, PublishAdopted, latched, IceLegInv, TypeOK
  <2> QED
    BY Zenon, <2>1, <2>2 DEF IceLegInv
<1> QED
  BY Zenon, <1>2, <1>3, <1>4, Steps, WorkerIceLeg, ControlIceLeg

LEMMA InitIceLeg == Init => IceLegInv
<1> SUFFICES ASSUME Init PROVE IceLegInv
  BY Zenon
<1>1. Len(todo) = 0
  BY Zenon DEF Init
<1> QED
  BY <1>1 DEF Init, IceLegInv, NoRule, Latches, IceEndpoints

(* Where the rules of the legs that are given ICE do not latch from media, *)
(* the path of an ICE endpoint is one a check or the agent adopted         *)
(* (dispatch, adopt_source), on either runtime and for every interleaving. *)
THEOREM IcePathIsValidated ==
  ASSUME IceLegsDoNotLatch
  PROVE  Spec => []IceLatchValidated
<1>1. IceLegInv => IceLatchValidated
  BY Zenon DEF IceLegInv, IceLatchValidated
<1>2. IInv /\ IceLegInv /\ [Next]_vars => IceLegInv'
  BY Zenon, NextIceLeg
<1> QED
  BY InitIInv, NextIInv, InitIceLeg, <1>1, <1>2, PTL DEF Spec


-----------------------------------------------------------------------------
(* Once an endpoint is gone only removals are left to do.                  *)

LEMMA NextRemoval ==
  ASSUME RemovalsAlone, IInv, RemovalInv, [Next]_vars
  PROVE  RemovalInv'
<1> USE DEF IInv
<1>1. CASE UNCHANGED <<alive, todo>>
  BY Zenon, <1>1 DEF RemovalInv, RemovalOnly
<1>2. CASE Begin
  <2>1. UNCHANGED alive /\ todo' \in Programs /\ \A e \in Endpoint : alive[e]
    BY Zenon, <1>2 DEF Begin, wiring
  <2> QED
    BY Zenon, <2>1 DEF RemovalInv, RemovalsAlone
<1>3. CASE ControlEffect
  <2>1. \A i \in 1 .. Len(todo') : \E j \in 1 .. Len(todo) : todo'[i] = todo[j]
    <3>1. CASE todo' = Tail(todo)
      BY Zenon, <1>3, <3>1, TodoKept DEF ControlEffect
    <3>2. CASE todo' = <<>>
      BY <3>2
    <3> QED
      BY Zenon, <1>3, <3>1, <3>2 DEF ControlEffect
  <2>2. RemovalOnly(todo) => RemovalOnly(todo')
    BY Zenon, <2>1 DEF RemovalOnly
  <2>3. 1 \in 1 .. Len(todo)
    BY <1>3, TailFacts DEF ControlEffect
  <2>4. alive' = alive \/ RemovalOnly(todo)
    BY Zenon, <1>3, <2>3 DEF ControlEffect, WiringEffect, RemovalInv
  <2> QED
    BY Zenon, <2>1, <2>2, <2>4 DEF RemovalInv
<1>4. ASSUME NEW w \in Worker, WorkerEffect(w) PROVE UNCHANGED <<alive, todo>>
  BY Zenon, <1>4 DEF WorkerEffect, wiring
<1>5. ASSUME NEW e \in Endpoint, AgentSelect(e) \/ AdoptSource(e) \/ PublishAdopted(e)
      PROVE  UNCHANGED <<alive, todo>>
  BY Zenon, <1>5 DEF AgentSelect, AdoptSource, PublishAdopted, wiring
<1>6. CASE UNCHANGED vars
  BY Zenon, <1>1, <1>6 DEF vars, shared, wiring
<1> QED
  BY Zenon, <1>1, <1>2, <1>3, <1>4, <1>5, <1>6, Steps

LEMMA InitRemoval == Init => RemovalInv
<1> SUFFICES ASSUME Init PROVE RemovalInv
  BY Zenon
<1>1. Len(todo) = 0 /\ \A e \in Endpoint : alive[e]
  BY Zenon DEF Init
<1> QED
  BY <1>1 DEF RemovalInv

(* So no operation of a program is given up for an endpoint that is gone.  *)
LEMMA NothingGivenUp ==
  ASSUME IInv, RemovalInv, ControlEffect
  PROVE  todo' = Tail(todo)
<1>1. 1 \in 1 .. Len(todo) /\ todo[1].e \in Endpoint
  BY TailFacts, TodoFacts DEF IInv, ControlEffect, Step
<1>2. todo[1].op = "flow_insert" => alive[todo[1].e]
  BY Zenon, <1>1 DEF RemovalInv, RemovalOnly, RemovalOp
<1> QED
  BY Zenon, <1>2 DEF ControlEffect


-----------------------------------------------------------------------------
(* A watcher is told of every change of the validated source.              *)

Watched(e) ==
  watched[e] =>
    /\ e \in IceEndpoints
    /\ ice[e] = None => Pending("unsubscribe", e)
    /\ pub[e] = latchSrc[e] \/ Publishing(e)

LEMMA WorkerWatcher ==
  ASSUME IInv, IceLegInv, NEW w \in Worker, WorkerEffect(w), NEW e \in Endpoint, Watched(e)
  PROVE  Watched(e)'
<1> USE DEF IInv, wiring, agent, watch, latched
<1>1. UNCHANGED <<todo, ice, adopting, watched>>
  BY Zenon DEF WorkerEffect, Moves, Clones, Nominates, Adopts, Publishes, Decides, Learns, shared
<1>2. \A op : Pending(op, e)' <=> Pending(op, e)
  BY Zenon, <1>1 DEF Pending
<1>3. w[1] \in Endpoint
  BY Zenon, WorkerFacts
<1>4. ASSUME UNCHANGED <<latchSrc, pub>>, pc[w] # "publish" PROVE Watched(e)'
  BY Zenon, <1>1, <1>2, <1>4 DEF Watched, Publishing, WorkerEffect, Others
<1>5. CASE Adopts(w)
  <2>1. CASE e = w[1]
    <3>1. Publishing(e)'
      BY Zenon, <1>5, <2>1 DEF Adopts, Publishing
    <3> QED
      BY Zenon, <1>1, <1>2, <3>1 DEF Watched
  <2>2. CASE e # w[1]
    <3>1. latchSrc'[e] = latchSrc[e] /\ pub'[e] = pub[e]
      BY Zenon, <1>5, <2>2 DEF Adopts, TypeOK
    <3> QED
      BY Zenon, <1>1, <1>2, <2>2, <3>1 DEF Watched, Publishing, WorkerEffect, Others
  <2> QED
    BY Zenon, <2>1, <2>2
<1>6. CASE Publishes(w)
  <2>1. CASE e = w[1]
    <3>1. watched[e] => pub'[e] = latchSrc'[e]
      BY Zenon, <1>6, <2>1 DEF Publishes, TypeOK
    <3> QED
      BY Zenon, <1>1, <1>2, <3>1 DEF Watched
  <2>2. CASE e # w[1]
    <3>1. latchSrc'[e] = latchSrc[e] /\ pub'[e] = pub[e]
      BY Zenon, <1>3, <1>6, <2>2 DEF Publishes, TypeOK
    <3> QED
      BY Zenon, <1>1, <1>2, <2>2, <3>1 DEF Watched, Publishing, WorkerEffect, Others
  <2> QED
    BY Zenon, <2>1, <2>2
<1>7. CASE Learns(w)
  <2>1. w[1] \notin IceEndpoints
    BY Zenon, <1>7 DEF Learns, IceLegInv, WorkersJustified, Carried, Latches
  <2>2. CASE e = w[1]
    BY Zenon, <1>1, <2>1, <2>2 DEF Watched
  <2>3. CASE e # w[1]
    <3>1. latchSrc'[e] = latchSrc[e] /\ pub'[e] = pub[e]
      BY Zenon, <1>7, <2>3 DEF Learns, TypeOK
    <3> QED
      BY Zenon, <1>1, <1>2, <2>3, <3>1 DEF Watched, Publishing, WorkerEffect, Others
  <2> QED
    BY Zenon, <2>2, <2>3
<1>8. CASE Moves(w) \/ Clones(w) \/ Nominates(w) \/ Decides(w)
  BY Zenon, <1>4, <1>8 DEF Moves, Clones, Nominates, Decides, shared
<1> QED
  BY Zenon, <1>5, <1>6, <1>7, <1>8 DEF WorkerEffect

LEMMA ControlWatcher ==
  ASSUME IInv, IceLegInv, ControlEffect, todo' = Tail(todo), Told(todo, 1),
         NEW e \in Endpoint, Watched(e)
  PROVE  Watched(e)'
<1> USE DEF IInv, agent, watch
<1> DEFINE s == todo[1]
<1>1. todo # <<>> /\ s \in Step /\ s.e \in Endpoint /\ IceLegStep(s)
  BY TodoFacts, TailFacts DEF ControlEffect, Step, IceLegInv
<1>2. SUFFICES ASSUME watched'[e]
               PROVE  /\ e \in IceEndpoints
                      /\ ice'[e] = None => Pending("unsubscribe", e)'
                      /\ pub'[e] = latchSrc'[e] \/ Publishing(e)'
  BY Zenon DEF Watched
<1>3. ASSUME ~watched[e]
      PROVE  e \in IceEndpoints /\ ice'[e] # None /\ Pending("publish", e)'
  <2>1. s.op = "subscribe" /\ s.e = e /\ ice[e] # None
    BY Zenon, <1>1, <1>2, <1>3 DEF ControlEffect, WatchEffect, PublishIceValidated, TypeOK
  <2>2. ice' = ice
    BY Zenon, <2>1 DEF ControlEffect, WiringEffect
  <2>3. Follows(todo, 1, "publish")
    BY Zenon, <2>1 DEF Told
  <2> QED
    BY Zenon, <1>1, <2>1, <2>2, <2>3, PendingFacts DEF IceLegInv
<1>4. CASE watched[e]
  <2>1. e \in IceEndpoints
    BY Zenon, <1>4 DEF Watched
  <2>2. ~(s.op = "unsubscribe" /\ s.e = e)
    BY Zenon, <1>2 DEF ControlEffect, WatchEffect, TypeOK
  <2>3. ice[e] = None => Pending("unsubscribe", e)'
    BY Zenon, <1>1, <1>4, <2>2, PendingFacts DEF Watched
  <2>4. s.op \in {"ice_remove", "latch_remove"} /\ s.e = e => Pending("unsubscribe", e)'
    BY Zenon, <1>1, PendingFacts DEF Told
  <2>5. ice'[e] = None => Pending("unsubscribe", e)'
    <3>1. ice'[e] = None => ice[e] = None \/ (s.op = "ice_remove" /\ s.e = e)
      BY Zenon, <1>1 DEF ControlEffect, WiringEffect, IceLegStep, TypeOK
    <3> QED
      BY Zenon, <2>3, <2>4, <3>1
  <2>6. ASSUME ~Pending("unsubscribe", e)' PROVE pub'[e] = latchSrc'[e] \/ Publishing(e)'
    <3>1. latchSrc'[e] = latchSrc[e]
      BY Zenon, <2>3, <2>4, <2>6 DEF ControlEffect, LatchEffect
    <3>2. CASE s.op = "publish" /\ s.e = e
      BY Zenon, <1>1, <1>4, <3>1, <3>2 DEF ControlEffect, WatchEffect, PublishIceValidated, TypeOK
    <3>3. CASE ~(s.op = "publish" /\ s.e = e)
      <4>1. pub'[e] = pub[e]
        BY <1>1, <2>2, <3>3 DEF ControlEffect, WatchEffect, PublishIceValidated, TypeOK
      <4>2. Pending("publish", e) => Pending("publish", e)'
        BY Zenon, <1>1, <3>3, PendingFacts
      <4>3. Pending("unsubscribe", e) => Pending("unsubscribe", e)'
        BY Zenon, <1>1, <2>2, PendingFacts
      <4>4. adopting' = adopting
        BY Zenon DEF ControlEffect
      <4>5. \A w \in Worker : pc[w] = "publish" => pc'[w] = "publish"
        <5>1. CASE UNCHANGED worker
          BY Zenon, <5>1 DEF worker
        <5>2. CASE ~UNCHANGED worker
          <6>1. /\ Finish(<<s.e, "socket">>) /\ <<s.e, "socket">> \in Worker
                /\ pc[<<s.e, "socket">>] # "publish"
            BY Zenon, <1>1, <5>2, WorkerFacts DEF ControlEffect, Suspended
          <6> QED
            BY Zenon, <6>1, FinishMoves DEF Others
        <5> QED
          BY Zenon, <5>1, <5>2
      <4> QED
        BY Zenon, <1>4, <3>1, <4>1, <4>2, <4>3, <4>4, <4>5 DEF Watched, Publishing
    <3> QED
      BY Zenon, <3>2, <3>3
  <2> QED
    BY Zenon, <2>1, <2>5, <2>6 DEF Publishing
<1> QED
  BY Zenon, <1>3, <1>4 DEF Publishing

LEMMA AgentWatcher ==
  ASSUME IInv, NEW f \in Endpoint, AgentSelect(f) \/ AdoptSource(f) \/ PublishAdopted(f),
         NEW e \in Endpoint, Watched(e)
  PROVE  Watched(e)'
<1> USE DEF IInv, wiring, worker, watch, latched
<1>1. UNCHANGED <<todo, ice, watched, pc>>
  BY Zenon DEF AgentSelect, AdoptSource, PublishAdopted, PublishIceValidated
<1>2. \A op : Pending(op, e)' <=> Pending(op, e)
  BY Zenon, <1>1 DEF Pending
<1>3. CASE UNCHANGED <<latchSrc, pub, adopting>>
  BY Zenon, <1>1, <1>2, <1>3 DEF Watched, Publishing
<1>4. CASE AdoptSource(f)
  <2>1. adopting'[f] /\ (e # f => adopting'[e] = adopting[e] /\ latchSrc'[e] = latchSrc[e])
        /\ pub' = pub
    BY Zenon, <1>4 DEF AdoptSource, TypeOK
  <2> QED
    BY Zenon, <1>1, <1>2, <2>1 DEF Watched, Publishing
<1>5. CASE PublishAdopted(f)
  <2>1. /\ watched[f] => pub'[f] = latchSrc'[f]
        /\ e # f => adopting'[e] = adopting[e] /\ pub'[e] = pub[e]
        /\ latchSrc' = latchSrc
    BY Zenon, <1>5 DEF PublishAdopted, PublishIceValidated, TypeOK
  <2> QED
    BY Zenon, <1>1, <1>2, <2>1 DEF Watched, Publishing
<1> QED
  BY Zenon, <1>3, <1>4, <1>5 DEF AgentSelect

LEMMA NextWatcher ==
  ASSUME WatchersAreTold, IInv, IceLegInv, RemovalInv, WatcherInv, [Next]_vars
  PROVE  WatcherInv'
<1>1. \A e \in Endpoint : Watched(e)
  BY Zenon DEF WatcherInv, Watched
<1>2. ASSUME \A i \in 1 .. Len(todo') : Told(todo', i), \A e \in Endpoint : Watched(e)'
      PROVE  WatcherInv'
  BY Zenon, <1>2 DEF WatcherInv, Watched
<1>3. ASSUME UNCHANGED todo PROVE \A i \in 1 .. Len(todo') : Told(todo', i)
  BY Zenon, <1>3 DEF WatcherInv
<1>4. CASE Begin
  <2>1. todo' \in Programs /\ UNCHANGED <<watch, latched, ice, adopting, pc>> /\ Len(todo) = 0
    BY Zenon, <1>4 DEF Begin, wiring, agent, worker
  <2>2. \A i \in 1 .. Len(todo') : Told(todo', i)
    BY Zenon, <2>1 DEF WatchersAreTold
  <2>3. \A op, e : ~Pending(op, e)
    BY <2>1 DEF Pending
  <2>4. \A e \in Endpoint : Watched(e)'
    BY Zenon, <1>1, <2>1, <2>3 DEF Watched, Publishing, watch, latched
  <2> QED
    BY Zenon, <1>2, <2>2, <2>4
<1>5. CASE ControlEffect
  <2>1. todo # <<>> /\ todo' = Tail(todo) /\ 1 \in 1 .. Len(todo)
    BY <1>5, NothingGivenUp, TailFacts DEF IInv, ControlEffect
  <2>2. ASSUME NEW i \in 1 .. Len(todo') PROVE Told(todo', i)
    <3>1. Told(todo, i + 1) /\ todo'[i] = todo[i + 1]
      BY Zenon, <2>1, <2>2, TodoKept DEF WatcherInv, IInv
    <3>2. \A op : Follows(todo', i, op) <=> Follows(todo, i + 1, op)
      BY Zenon, <2>1, <2>2, TodoKept DEF IInv
    <3> QED
      BY Zenon, <3>1, <3>2 DEF Told
  <2>3. Told(todo, 1)
    BY Zenon, <2>1 DEF WatcherInv
  <2> QED
    BY Zenon, <1>1, <1>2, <1>5, <2>1, <2>2, <2>3, ControlWatcher
<1>6. ASSUME NEW w \in Worker, WorkerEffect(w) PROVE WatcherInv'
  <2>1. UNCHANGED todo
    BY Zenon, <1>6 DEF WorkerEffect
  <2> QED
    BY Zenon, <1>1, <1>2, <1>3, <1>6, <2>1, WorkerWatcher
<1>7. ASSUME NEW f \in Endpoint, AgentSelect(f) \/ AdoptSource(f) \/ PublishAdopted(f)
      PROVE  WatcherInv'
  <2>1. UNCHANGED todo
    BY Zenon, <1>7 DEF AgentSelect, AdoptSource, PublishAdopted
  <2> QED
    BY Zenon, <1>1, <1>2, <1>3, <1>7, <2>1, AgentWatcher
<1>8. CASE UNCHANGED vars
  <2>1. UNCHANGED <<todo, watched, pub, latchSrc, ice, adopting, pc>>
    BY Zenon, <1>8 DEF vars, shared, watch, latched, wiring, agent, worker
  <2>2. \A e \in Endpoint : Watched(e)'
    BY <1>1, <2>1 DEF Watched, Publishing, Pending
  <2> QED
    BY Zenon, <1>2, <1>3, <2>1, <2>2
<1> QED
  BY Zenon, <1>4, <1>5, <1>6, <1>7, <1>8, Steps DEF IInv

LEMMA InitWatcher == Init => WatcherInv
<1> SUFFICES ASSUME Init PROVE WatcherInv
  BY Zenon
<1>1. Len(todo) = 0
  BY Zenon DEF Init
<1> QED
  BY <1>1 DEF Init, WatcherInv

(* A consumer that follows the validated source of an ICE leg was told the *)
(* current one whenever nobody is about to tell it (watch_ice_validated,   *)
(* publish_ice_validated), however subscription, checks, adoptions, ICE    *)
(* changes and removal interleave.                                         *)
THEOREM WatchersAreCaughtUp ==
  ASSUME IceLegsDoNotLatch, RemovalsAlone, WatchersAreTold
  PROVE  Spec => []WatcherCaughtUp
<1>1. WatcherInv => WatcherCaughtUp
  <2> SUFFICES ASSUME WatcherInv, NEW e \in Endpoint, todo = <<>>, ~adopting[e], watched[e],
                      \A w \in Worker : w[1] = e => pc[w] # "publish"
               PROVE  pub[e] = latchSrc[e]
    BY Zenon DEF WatcherCaughtUp
  <2>1. Len(todo) = 0
    BY Zenon
  <2> QED
    BY <2>1 DEF WatcherInv, Publishing, Pending
<1>2. IInv /\ IceLegInv /\ [Next]_vars => IceLegInv'
  BY Zenon, NextIceLeg
<1>3. IInv /\ RemovalInv /\ [Next]_vars => RemovalInv'
  BY Zenon, NextRemoval
<1>4. IInv /\ IceLegInv /\ RemovalInv /\ WatcherInv /\ [Next]_vars => WatcherInv'
  BY Zenon, NextWatcher
<1> QED
  BY InitIInv, NextIInv, InitIceLeg, InitRemoval, InitWatcher, <1>1, <1>2, <1>3, <1>4, PTL
  DEF Spec


-----------------------------------------------------------------------------
(* Only a full agent selects a pair, and it stays.                         *)

LEMMA ModeStays ==
  ASSUME TypeOK, AgentInv, ControlEffect, NEW e \in Endpoint, forwardOnly[e]
  PROVE  forwardOnly'[e]
<1>1. AgentStep(todo[1]) /\ todo[1].e \in Endpoint /\ e \in FullEndpoints
  BY Zenon, LeftToDo DEF AgentInv
<1> QED
  BY Zenon, <1>1 DEF ControlEffect, WiringEffect, AgentStep, TypeOK

LEMMA NextAgent ==
  ASSUME AgentsAreKept, IInv, AgentInv, [Next]_vars
  PROVE  AgentInv'
<1> USE DEF IInv, agent
<1>1. CASE UNCHANGED <<todo, forwardOnly, selected, adopting>>
  BY Zenon, <1>1 DEF AgentInv
<1>2. CASE Begin
  <2>1. UNCHANGED <<forwardOnly, selected, adopting>> /\ todo' \in Programs
    BY Zenon, <1>2 DEF Begin, wiring
  <2> QED
    BY Zenon, <2>1 DEF AgentInv, AgentsAreKept
<1>3. CASE ControlEffect
  <2>1. \A i \in 1 .. Len(todo') : AgentStep(todo'[i])
    BY Zenon, <1>3, LeftToDo DEF AgentInv
  <2>2. AgentStep(todo[1]) /\ todo[1].e \in Endpoint
    BY Zenon, <1>3, LeftToDo DEF AgentInv
  <2>3. ASSUME NEW e \in Endpoint, forwardOnly'[e] PROVE e \in FullEndpoints
    BY <1>3, <2>2, <2>3 DEF ControlEffect, WiringEffect, AgentStep, AgentInv, TypeOK
  <2>4. UNCHANGED <<selected, adopting>>
    BY Zenon, <1>3 DEF ControlEffect
  <2> QED
    BY Zenon, <1>3, <2>1, <2>3, <2>4, ModeStays DEF AgentInv
<1>4. ASSUME NEW w \in Worker, WorkerEffect(w)
      PROVE  UNCHANGED <<todo, forwardOnly, selected, adopting>>
  BY Zenon, <1>4 DEF WorkerEffect, wiring
<1>5. ASSUME NEW f \in Endpoint, AgentSelect(f) \/ AdoptSource(f) \/ PublishAdopted(f)
      PROVE  AgentInv'
  <2>1. UNCHANGED <<todo, forwardOnly>>
    BY Zenon, <1>5 DEF AgentSelect, AdoptSource, PublishAdopted, wiring
  <2>2. ASSUME NEW e \in Endpoint, selected'[e] # None \/ adopting'[e] PROVE forwardOnly[e]
    BY <1>5, <2>2 DEF AgentSelect, AdoptSource, PublishAdopted, AgentInv, TypeOK
  <2> QED
    BY Zenon, <2>1, <2>2 DEF AgentInv
<1>6. CASE UNCHANGED vars
  BY Zenon, <1>1, <1>6 DEF vars, shared, wiring
<1> QED
  BY Zenon, <1>1, <1>2, <1>3, <1>4, <1>5, <1>6, Steps

LEMMA InitAgent == Init => AgentInv
<1> SUFFICES ASSUME Init PROVE AgentInv
  BY Zenon
<1>1. Len(todo) = 0
  BY Zenon DEF Init
<1> QED
  BY <1>1 DEF Init, AgentInv

-----------------------------------------------------------------------------
(* The latch follows the nomination.                                       *)

Agrees(w) ==
  alive[w[1]] =>
    /\ nominated[w[1]] # None \/ pc[w] \in {"check", "adopt"} => ice[w[1]] # None
    /\ nominated[w[1]] # None /\ pc[w] = "adopt" => nomSrc[w[1]] = pkt[w].src
    /\ nominated[w[1]] # None /\ pc[w] # "adopt" /\ ~forwardOnly[w[1]]
         => latchSrc[w[1]] = nomSrc[w[1]]

LEMMA WorkerNomination ==
  ASSUME Carrier = {"socket"}, IInv, IceLegInv, NEW w \in Worker, WorkerEffect(w),
         NEW v \in Worker, Agrees(v)
  PROVE  Agrees(v)'
<1> USE DEF IInv, wiring
<1>1. UNCHANGED <<alive, ice, forwardOnly>> /\ w[1] \in Endpoint /\ v[1] \in Endpoint
  BY WorkerFacts DEF WorkerEffect
<1>2. CASE v # w
  <2>1. v[1] # w[1]
    BY Zenon, <1>2, OneTask
  <2>2. pc'[v] = pc[v] /\ pkt'[v] = pkt[v]
    BY Zenon, <1>2 DEF WorkerEffect, Others
  <2>3. /\ nominated'[v[1]] = nominated[v[1]] /\ nomSrc'[v[1]] = nomSrc[v[1]]
        /\ latchSrc'[v[1]] = latchSrc[v[1]]
    BY <1>1, <2>1 DEF WorkerEffect, Moves, Clones, Nominates, Adopts, Publishes, Decides, Learns,
       shared, latched, nomination, TypeOK
  <2> QED
    BY Zenon, <1>1, <2>2, <2>3 DEF Agrees
<1>3. CASE v = w
  <2>1. CASE Moves(w) \/ Clones(w) \/ Publishes(w) \/ Decides(w)
    <3>1. UNCHANGED <<nominated, nomSrc, latchSrc>>
      BY Zenon, <2>1 DEF Moves, Clones, Publishes, Decides, shared, latched, nomination
    <3>2. /\ pc[w] # "adopt" /\ pc'[w] # "adopt"
          /\ pc'[w] = "check" => ice[w[1]] # None
      BY Zenon, <2>1 DEF Moves, Clones, Publishes, Decides
    <3> QED
      BY Zenon, <1>1, <1>3, <3>1, <3>2 DEF Agrees
  <2>2. CASE Nominates(w)
    <3>1. pc[w] = "check" /\ pc'[w] = "adopt" /\ nomSrc'[w[1]] = pkt'[w].src
      BY Zenon, <1>1, <2>2 DEF Nominates, TypeOK
    <3> QED
      BY Zenon, <1>1, <1>3, <3>1 DEF Agrees
  <2>3. CASE Adopts(w)
    <3>1. /\ pc[w] = "adopt" /\ pc'[w] = "publish" /\ latchSrc'[w[1]] = pkt[w].src
          /\ UNCHANGED <<nominated, nomSrc>>
      BY Zenon, <1>1, <2>3 DEF Adopts, nomination, TypeOK
    <3> QED
      BY Zenon, <1>1, <1>3, <3>1 DEF Agrees
  <2>4. CASE Learns(w)
    <3>1. ice[w[1]] = None
      BY Zenon, <1>1, <2>4 DEF Learns, IceLegInv, WorkersJustified, Carried, Latches
    <3>2. UNCHANGED nominated /\ pc'[w] = "resolve"
      BY Zenon, <2>4 DEF Learns, nomination
    <3> QED
      BY Zenon, <1>1, <1>3, <3>1, <3>2 DEF Agrees
  <2> QED
    BY Zenon, <2>1, <2>2, <2>3, <2>4 DEF WorkerEffect
<1> QED
  BY Zenon, <1>2, <1>3

LEMMA ControlNomination ==
  ASSUME IInv, IceLegInv, AgentInv, NominationInv, ControlEffect, NEW w \in Worker, Agrees(w)
  PROVE  Agrees(w)'
<1> USE DEF IInv, nomination
<1> DEFINE s == todo[1]
           e == w[1]
<1>1. e \in Endpoint /\ s.e \in Endpoint /\ 1 \in 1 .. Len(todo) /\ IceLegStep(s)
  BY Zenon, WorkerFacts, LeftToDo DEF IceLegInv
<1>2. SUFFICES ASSUME alive'[e] PROVE Agrees(w)'
  BY Zenon DEF Agrees
<1>3. alive[e]
  BY Zenon, <1>1, <1>2 DEF ControlEffect, WiringEffect, TypeOK
<1>4. s.op \in {"ice_remove", "latch_remove"} /\ s.e = e => ice[e] = None
  <2>1. ~Precedes(todo, 1, "endpoint_remove")
    BY DEF Precedes
  <2>2. s.op \in {"ice_remove", "latch_remove"} /\ s.e = e => e \notin IceEndpoints
    BY Zenon, <1>1, <1>3, <2>1 DEF NominationInv
  <2> QED
    BY Zenon, <1>1, <2>2 DEF IceLegInv
<1>5. ice'[e] = None => ice[e] = None
  BY Zenon, <1>1, <1>4 DEF ControlEffect, WiringEffect, IceLegStep, TypeOK
<1>6. nominated'[e] # None => nominated'[e] = nominated[e] /\ nomSrc'[e] = nomSrc[e]
  BY <1>1 DEF ControlEffect, NominationEffect, Unnominate, TypeOK
<1>7. latchSrc'[e] = latchSrc[e] \/ ice[e] = None
  BY Zenon, <1>1, <1>4 DEF ControlEffect, LatchEffect
<1>8. /\ pc'[w] \in {"check", "adopt"} => pc'[w] = pc[w] /\ pkt'[w] = pkt[w]
      /\ pc'[w] # "adopt" => pc[w] # "adopt"
  <2>1. CASE UNCHANGED worker
    BY Zenon, <2>1 DEF worker
  <2>2. CASE ~UNCHANGED worker
    <3>1. /\ Finish(<<s.e, "socket">>) /\ <<s.e, "socket">> \in Worker
          /\ pc[<<s.e, "socket">>] # "adopt"
      BY Zenon, <1>1, <2>2, WorkerFacts DEF ControlEffect, Suspended
    <3>2. Others(<<s.e, "socket">>) /\ pc'[<<s.e, "socket">>] = "idle"
      BY Zenon, <3>1, FinishMoves
    <3> QED
      BY Zenon, <3>1, <3>2 DEF Others
  <2> QED
    BY Zenon, <2>1, <2>2
<1>9. forwardOnly[e] => forwardOnly'[e]
  BY Zenon, <1>1, ModeStays
<1> QED
  BY Zenon, <1>3, <1>5, <1>6, <1>7, <1>8, <1>9 DEF Agrees


LEMMA NextNomination ==
  ASSUME Carrier = {"socket"}, IceLegsAreKept, IInv, IceLegInv, AgentInv, NominationInv,
         [Next]_vars
  PROVE  NominationInv'
<1> USE DEF IInv
<1> DEFINE Guarded(i) ==
             todo[i].op \in {"ice_remove", "latch_remove"} /\ todo[i].e \in IceEndpoints
               => ~alive[todo[i].e] \/ Precedes(todo, i, "endpoint_remove")
<1>1. \A w \in Worker : Agrees(w)
  BY Zenon DEF NominationInv, Agrees
<1>2. ASSUME \A i \in 1 .. Len(todo') : Guarded(i)', \A w \in Worker : Agrees(w)'
      PROVE  NominationInv'
  BY Zenon, <1>2 DEF NominationInv, Agrees
<1>3. ASSUME UNCHANGED <<alive, todo>> PROVE \A i \in 1 .. Len(todo') : Guarded(i)'
  BY <1>3 DEF NominationInv, Precedes
<1>4. CASE Begin
  <2>1. /\ todo' \in Programs
        /\ UNCHANGED <<alive, nominated, nomSrc, ice, forwardOnly, latchSrc, pc, pkt>>
    BY Zenon, <1>4 DEF Begin, wiring, worker, latched, nomination
  <2>2. \A i \in 1 .. Len(todo') : Guarded(i)'
    BY Zenon, <2>1 DEF IceLegsAreKept, KeptUntilRemoved
  <2>3. \A w \in Worker : Agrees(w)'
    BY Zenon, <1>1, <2>1 DEF Agrees
  <2> QED
    BY Zenon, <1>2, <2>2, <2>3
<1>5. CASE ControlEffect
  <2>1. ASSUME NEW i \in 1 .. Len(todo') PROVE Guarded(i)'
    <3>1. todo' = Tail(todo) /\ todo # <<>>
      BY <1>5, <2>1 DEF ControlEffect
    <3>2. i + 1 \in 1 .. Len(todo) /\ todo'[i] = todo[i + 1] /\ Guarded(i + 1)
      BY Zenon, <2>1, <3>1, TodoKept DEF NominationInv
    <3>3. \A e \in Endpoint : ~alive[e] => ~alive'[e]
      BY Zenon, <1>5, LeftToDo DEF ControlEffect, WiringEffect, TypeOK
    <3>4. ASSUME Precedes(todo, i + 1, "endpoint_remove")
          PROVE  ~alive'[todo'[i].e] \/ Precedes(todo', i, "endpoint_remove")
      <4>1. PICK j \in 1 .. i : todo[j].op = "endpoint_remove" /\ todo[j].e = todo[i + 1].e
        BY <3>2, <3>4 DEF Precedes
      <4>2. CASE j = 1
        BY Zenon, <1>5, <3>2, <4>1, <4>2, LeftToDo DEF ControlEffect, WiringEffect, TypeOK
      <4>3. CASE j # 1
        <5>1. j - 1 \in 1 .. Len(todo') /\ j - 1 \in 1 .. i - 1 /\ todo'[j - 1] = todo[j]
          BY <2>1, <3>1, <4>1, <4>3, TailFacts
        <5> QED
          BY Zenon, <3>2, <4>1, <5>1 DEF Precedes
      <4> QED
        BY Zenon, <4>2, <4>3
    <3>5. todo[i + 1].e \in IceEndpoints => todo[i + 1].e \in Endpoint
      BY Zenon DEF IceEndpoints
    <3> QED
      BY Zenon, <3>2, <3>3, <3>4, <3>5
  <2> QED
    BY Zenon, <1>1, <1>2, <1>5, <2>1, ControlNomination
<1>6. ASSUME NEW w \in Worker, WorkerEffect(w) PROVE NominationInv'
  <2>1. UNCHANGED <<alive, todo>>
    BY Zenon, <1>6 DEF WorkerEffect, wiring
  <2> QED
    BY Zenon, <1>1, <1>2, <1>3, <1>6, <2>1, WorkerNomination
<1>7. ASSUME NEW f \in Endpoint, AgentSelect(f) \/ AdoptSource(f) \/ PublishAdopted(f)
      PROVE  NominationInv'
  <2>1. UNCHANGED <<alive, todo, nominated, nomSrc, ice, forwardOnly, pc, pkt>>
    BY Zenon, <1>7 DEF AgentSelect, AdoptSource, PublishAdopted, wiring, worker, nomination
  <2>2. \A e \in Endpoint : latchSrc'[e] = latchSrc[e] \/ forwardOnly[e]
    BY Zenon, <1>7 DEF AgentSelect, AdoptSource, PublishAdopted, latched, AgentInv, TypeOK
  <2>3. \A w \in Worker : Agrees(w)'
    BY Zenon, <1>1, <2>1, <2>2, WorkerFacts DEF Agrees
  <2> QED
    BY Zenon, <1>2, <1>3, <2>1, <2>3
<1>8. CASE UNCHANGED vars
  <2>1. UNCHANGED <<alive, todo, nominated, nomSrc, ice, forwardOnly, latchSrc, pc, pkt>>
    BY Zenon, <1>8 DEF vars, shared, latched, wiring, worker, nomination
  <2>2. \A w \in Worker : Agrees(w)'
    BY Zenon, <1>1, <2>1 DEF Agrees
  <2> QED
    BY Zenon, <1>2, <1>3, <2>1, <2>2
<1> QED
  BY Zenon, <1>4, <1>5, <1>6, <1>7, <1>8, Steps

LEMMA InitNomination == Init => NominationInv
<1> SUFFICES ASSUME Init PROVE NominationInv
  BY Zenon
<1>1. Len(todo) = 0
  BY Zenon DEF Init
<1> QED
  BY <1>1, WorkerFacts DEF Init, NominationInv

(* In an ICE-lite call whose legs keep ICE until they are removed, the     *)
(* latch is the source of the nomination that stands once the nominating   *)
(* check is handled (handle_stun, adopt_source), whatever re-answers and   *)
(* restarts run beside the receive task.                                   *)
THEOREM LatchIsNominated ==
  ASSUME Carrier = {"socket"}, IceLegsDoNotLatch, IceLegsAreKept, AgentsAreKept
  PROVE  Spec => []LiteLatchFollows
<1>1. NominationInv => LiteLatchFollows
  <2> SUFFICES ASSUME NominationInv, DatapathAnswers, NEW e \in Endpoint,
                      alive[e], nominated[e] # None,
                      \A w \in Worker : w[1] = e => pc[w] # "adopt"
               PROVE  latchSrc[e] = nomSrc[e]
    BY Zenon DEF LiteLatchFollows, LatchFollowsNomination
  <2>1. <<e, "socket">> \in Worker /\ <<e, "socket">>[1] = e
    BY Zenon DEF Worker
  <2> QED
    BY Zenon, <2>1 DEF NominationInv, DatapathAnswers
<1>2. IInv /\ IceLegInv /\ [Next]_vars => IceLegInv'
  BY Zenon, NextIceLeg
<1>3. IInv /\ AgentInv /\ [Next]_vars => AgentInv'
  BY Zenon, NextAgent
<1>4. IInv /\ IceLegInv /\ AgentInv /\ NominationInv /\ [Next]_vars => NominationInv'
  BY Zenon, NextNomination
<1> QED
  BY InitIInv, NextIInv, InitIceLeg, InitAgent, InitNomination, <1>1, <1>2, <1>3, <1>4, PTL
  DEF Spec


-----------------------------------------------------------------------------
(* A removed endpoint leaves nothing behind.                               *)

Clearing(e) ==
  ~alive[e] =>
    /\ aborted[e] \/ Pending("abort", e)
    /\ Stopped(e) \/ Pending("join", e)
    /\ flows[e].kind = "none" \/ Pending("flow_remove", e)
    /\ latchSrc[e] = None \/ forwardOnly[e] \/ Pending("latch_remove", e)
    /\ ice[e] = None \/ Pending("ice_remove", e)
    /\ nominated[e] = None \/ Pending("nominated_remove", e)
    /\ ~watched[e] \/ Pending("unsubscribe", e)
    /\ Pending("join", e) => Pending("latch_remove", e) /\ Pending("nominated_remove", e)

LEMMA WorkerClearing ==
  ASSUME Carrier = {"socket"}, IInv, NEW w \in Worker, WorkerEffect(w),
         NEW e \in Endpoint, Clearing(e)
  PROVE  Clearing(e)'
<1> USE DEF IInv
<1>1. UNCHANGED <<todo, alive, aborted, flows, ice, forwardOnly, watched>>
  BY Zenon DEF WorkerEffect, wiring, Moves, Clones, Nominates, Adopts, Publishes, Decides, Learns,
         shared, watch
<1>2. \A op : Pending(op, e)' <=> Pending(op, e)
  BY Zenon, <1>1 DEF Pending
<1>3. w[1] \in Endpoint /\ w[2] = "socket"
  BY Zenon DEF Worker
<1>4. CASE e # w[1]
  <2>1. latchSrc'[e] = latchSrc[e] /\ nominated'[e] = nominated[e]
    BY Zenon, <1>3, <1>4
       DEF WorkerEffect, Moves, Clones, Nominates, Adopts, Publishes, Decides, Learns,
       shared, latched, nomination, TypeOK
  <2>2. Stopped(e) => Stopped(e)'
    BY <1>1, <1>4 DEF Stopped, WorkerEffect, Others
  <2> QED
    BY Zenon, <1>1, <1>2, <2>1, <2>2 DEF Clearing
<1>5. CASE e = w[1]
  <2>1. ~Stopped(e)
    BY Zenon, <1>3, <1>5 DEF Stopped, WorkerEffect, MayReceive
  <2> QED
    BY Zenon, <1>1, <1>2, <2>1 DEF Clearing
<1> QED
  BY Zenon, <1>4, <1>5

LEMMA ControlClearing ==
  ASSUME Carrier = {"socket"}, IInv, AgentInv, RemovalInv, ControlEffect, todo' = Tail(todo),
         Clears(todo, 1), NEW e \in Endpoint, Clearing(e)
  PROVE  Clearing(e)'
<1> USE DEF IInv
<1> DEFINE s == todo[1]
<1>1. todo # <<>> /\ s.e \in Endpoint /\ 1 \in 1 .. Len(todo)
  BY Zenon, LeftToDo DEF ControlEffect
<1>2. SUFFICES ASSUME ~alive'[e] PROVE Clearing(e)'
  BY Zenon DEF Clearing
<1>3. CASE alive[e]
  <2>1. s.op = "endpoint_remove" /\ s.e = e
    BY Zenon, <1>1, <1>2, <1>3 DEF ControlEffect, WiringEffect, TypeOK
  <2>2. \A op \in Cleared : Pending(op, e)'
    BY Zenon, <1>1, <2>1, PendingFacts DEF Clears
  <2> QED
    BY Zenon, <2>2 DEF Clearing, Cleared
<1>4. CASE ~alive[e]
  <2>1. s.op \in RemovalOp
    BY Zenon, <1>1, <1>4 DEF RemovalInv, RemovalOnly
  <2>2. \A op : Pending(op, e) => Pending(op, e)' \/ (s.op = op /\ s.e = e)
    BY Zenon, <1>1, PendingFacts
  <2>3. \A op : Pending(op, e)' => Pending(op, e) /\ (s.e = e => Follows(todo, 1, op))
    <3>1. ASSUME NEW op, Pending(op, e)' PROVE Pending(op, e)
      BY Zenon, <1>1, <3>1, PendingFacts
    <3>2. ASSUME NEW op, Pending(op, e)', s.e = e PROVE Follows(todo, 1, op)
      <4>1. PICK i \in 1 .. Len(todo') : todo'[i].op = op /\ todo'[i].e = e
        BY Zenon, <3>2 DEF Pending
      <4>2. i + 1 \in 1 .. Len(todo) /\ todo'[i] = todo[i + 1]
        BY Zenon, <1>1, <4>1, TodoKept
      <4> QED
        BY <1>1, <3>2, <4>1, <4>2, TailFacts DEF Follows
    <3> QED
      BY Zenon, <3>1, <3>2
  <2>4. aborted[e] \/ (s.op = "abort" /\ s.e = e) => aborted'[e]
    BY Zenon, <1>1 DEF ControlEffect, WiringEffect, TypeOK
  <2>5. Stopped(e)' \/ Pending("join", e)'
    <3>1. CASE s.op = "join" /\ s.e = e
      <4>1. aborted[e]
        <5>1. ~Pending("abort", e)'
          BY Zenon, <2>3, <3>1 DEF Clears
        <5>2. aborted[e] \/ Pending("abort", e)
          BY Zenon, <1>4 DEF Clearing
        <5>3. s.op # "abort"
          BY <3>1
        <5> QED
          BY Zenon, <2>2, <5>1, <5>2, <5>3
      <4>2. Finish(<<e, "socket">>) /\ <<e, "socket">> \in Worker
        BY Zenon, <3>1, WorkerFacts DEF ControlEffect
      <4>3. \A w \in Worker : w[1] = e => w = <<e, "socket">>
        BY DEF Worker
      <4> QED
        BY Zenon, <2>4, <4>1, <4>2, <4>3, FinishMoves DEF Stopped
    <3>2. CASE ~(s.op = "join" /\ s.e = e)
      <4>1. Stopped(e) => Stopped(e)'
        <5>1. CASE UNCHANGED worker
          BY Zenon, <2>4, <5>1 DEF Stopped, worker
        <5>2. CASE ~UNCHANGED worker
          <6>1. Finish(<<s.e, "socket">>) /\ <<s.e, "socket">> \in Worker
            BY Zenon, <1>1, <5>2, WorkerFacts DEF ControlEffect
          <6>2. Others(<<s.e, "socket">>) /\ pc'[<<s.e, "socket">>] = "idle"
            BY Zenon, <6>1, FinishMoves
          <6> QED
            BY Zenon, <2>4, <6>1, <6>2 DEF Stopped, Others
        <5> QED
          BY Zenon, <5>1, <5>2
      <4> QED
        BY Zenon, <1>4, <2>2, <3>2, <4>1 DEF Clearing
    <3> QED
      BY Zenon, <3>1, <3>2
  <2>6. flows[e].kind = "none" \/ (s.op = "flow_remove" /\ s.e = e) => flows'[e].kind = "none"
    <3>1. CASE s.op = "flow_remove"
      <4>1. flows' = [flows EXCEPT ![s.e] = NoRule("none")]
        BY Zenon, <3>1 DEF ControlEffect, WiringEffect
      <4>2. flows'[e] = IF s.e = e THEN NoRule("none") ELSE flows[e]
        BY Zenon, <1>1, <4>1 DEF TypeOK
      <4> QED
        <5>1. NoRule("none").kind = "none"
          BY Zenon DEF NoRule
        <5> QED
          BY Zenon, <3>1, <4>2, <5>1
    <3>2. CASE s.op # "flow_remove"
      <4>1. flows' = flows
        BY Zenon, <2>1, <3>2 DEF ControlEffect, WiringEffect, RemovalOp
      <4> QED
        BY Zenon, <3>2, <4>1
    <3> QED
      BY Zenon, <3>1, <3>2
  <2>7. latchSrc[e] = None \/ (s.op = "latch_remove" /\ s.e = e) => latchSrc'[e] = None
    BY Zenon DEF ControlEffect, LatchEffect
  <2>8. ice[e] = None \/ (s.op = "ice_remove" /\ s.e = e) => ice'[e] = None
    BY Zenon, <1>1, <2>1 DEF ControlEffect, WiringEffect, RemovalOp, TypeOK
  <2>9. nominated[e] = None \/ (s.op = "nominated_remove" /\ s.e = e) => nominated'[e] = None
    BY Zenon, <1>1 DEF ControlEffect, NominationEffect, Unnominate, nomination, TypeOK
  <2>10. ~watched[e] \/ (s.op = "unsubscribe" /\ s.e = e) => ~watched'[e]
    BY Zenon, <1>1, <2>1
       DEF ControlEffect, WatchEffect, PublishIceValidated, RemovalOp, watch, TypeOK
  <2>11. forwardOnly[e] => forwardOnly'[e]
    BY Zenon, ModeStays
  <2>12. Pending("join", e)' => Pending("latch_remove", e)' /\ Pending("nominated_remove", e)'
    BY Zenon, <1>4, <2>2, <2>3 DEF Clearing, Clears
  <2>13. /\ aborted'[e] \/ Pending("abort", e)'
         /\ flows'[e].kind = "none" \/ Pending("flow_remove", e)'
         /\ latchSrc'[e] = None \/ forwardOnly'[e] \/ Pending("latch_remove", e)'
    BY Zenon, <1>4, <2>2, <2>4, <2>6, <2>7, <2>11 DEF Clearing
  <2>14. /\ ice'[e] = None \/ Pending("ice_remove", e)'
         /\ nominated'[e] = None \/ Pending("nominated_remove", e)'
         /\ ~watched'[e] \/ Pending("unsubscribe", e)'
    BY Zenon, <1>4, <2>2, <2>8, <2>9, <2>10 DEF Clearing
  <2> QED
    BY Zenon, <2>5, <2>12, <2>13, <2>14 DEF Clearing
<1> QED
  BY Zenon, <1>3, <1>4

LEMMA NextCleared ==
  ASSUME Carrier = {"socket"}, RemovalsClear, IInv, AgentInv, RemovalInv, ClearedInv, [Next]_vars
  PROVE  ClearedInv'
<1>1. \A e \in Endpoint : Clearing(e)
  BY Zenon DEF ClearedInv, Clearing
<1>2. ASSUME \A i \in 1 .. Len(todo') : Clears(todo', i), \A e \in Endpoint : Clearing(e)'
      PROVE  ClearedInv'
  BY Zenon, <1>2 DEF ClearedInv, Clearing
<1>3. ASSUME UNCHANGED todo PROVE \A i \in 1 .. Len(todo') : Clears(todo', i)
  BY Zenon, <1>3 DEF ClearedInv
<1>4. CASE Begin
  <2>1. todo' \in Programs /\ \A e \in Endpoint : alive'[e]
    BY Zenon, <1>4 DEF Begin, wiring
  <2>2. \A e \in Endpoint : Clearing(e)'
    BY Zenon, <2>1 DEF Clearing
  <2> QED
    BY Zenon, <1>2, <2>1, <2>2 DEF RemovalsClear
<1>5. CASE ControlEffect
  <2>1. todo # <<>> /\ todo' = Tail(todo) /\ 1 \in 1 .. Len(todo)
    BY <1>5, NothingGivenUp, TailFacts DEF IInv, ControlEffect
  <2>2. ASSUME NEW i \in 1 .. Len(todo') PROVE Clears(todo', i)
    <3>1. Clears(todo, i + 1) /\ todo'[i] = todo[i + 1]
      BY Zenon, <2>1, <2>2, TodoKept DEF ClearedInv, IInv
    <3>2. \A op : Follows(todo', i, op) <=> Follows(todo, i + 1, op)
      BY Zenon, <2>1, <2>2, TodoKept DEF IInv
    <3> QED
      BY Zenon, <3>1, <3>2 DEF Clears
  <2>3. Clears(todo, 1)
    BY Zenon, <2>1 DEF ClearedInv
  <2> QED
    BY Zenon, <1>1, <1>2, <1>5, <2>1, <2>2, <2>3, ControlClearing
<1>6. ASSUME NEW w \in Worker, WorkerEffect(w) PROVE ClearedInv'
  <2>1. UNCHANGED todo
    BY Zenon, <1>6 DEF WorkerEffect
  <2> QED
    BY Zenon, <1>1, <1>2, <1>3, <1>6, <2>1, WorkerClearing
<1>7. ASSUME NEW f \in Endpoint, AgentSelect(f) \/ AdoptSource(f) \/ PublishAdopted(f)
      PROVE  ClearedInv'
  <2>1. UNCHANGED <<todo, alive, aborted, flows, ice, forwardOnly, nominated, watched, pc>>
    BY Zenon, <1>7
       DEF AgentSelect, AdoptSource, PublishAdopted, PublishIceValidated, wiring, nomination,
       watch, worker
  <2>2. \A e \in Endpoint : latchSrc'[e] = latchSrc[e] \/ forwardOnly[e]
    BY Zenon, <1>7 DEF AgentSelect, AdoptSource, PublishAdopted, latched, AgentInv, IInv, TypeOK
  <2>3. \A e \in Endpoint : Clearing(e)'
    BY <1>1, <2>1, <2>2 DEF Clearing, Stopped, Pending
  <2> QED
    BY Zenon, <1>2, <1>3, <2>1, <2>3
<1>8. CASE UNCHANGED vars
  <2>1. UNCHANGED <<todo, alive, aborted, flows, ice, forwardOnly, nominated, watched, pc, latchSrc>>
    BY Zenon, <1>8 DEF vars, shared, latched, wiring, nomination, watch, worker
  <2>2. \A e \in Endpoint : Clearing(e)'
    BY <1>1, <2>1 DEF Clearing, Stopped, Pending
  <2> QED
    BY Zenon, <1>2, <1>3, <2>1, <2>2
<1> QED
  BY Zenon, <1>4, <1>5, <1>6, <1>7, <1>8, Steps DEF IInv

LEMMA InitCleared == Init => ClearedInv
<1> SUFFICES ASSUME Init PROVE ClearedInv
  BY Zenon
<1>1. Len(todo) = 0 /\ \A e \in Endpoint : alive[e]
  BY Zenon DEF Init
<1> QED
  BY <1>1 DEF ClearedInv

(* In an ICE-lite call whose endpoints are removed the way remove_endpoint *)
(* does it, no map keeps an entry once it has returned, although checks    *)
(* and media arrive until the receive task has ended.                      *)
THEOREM RemovalLeavesNothing ==
  ASSUME Carrier = {"socket"}, RemovalsAlone, RemovalsClear, AgentsAreKept
  PROVE  Spec => []LiteLeavesNothing
<1>1. ClearedInv => LiteLeavesNothing
  <2> SUFFICES ASSUME ClearedInv, DatapathAnswers, todo = <<>>, NEW e \in Endpoint, ~alive[e]
               PROVE  /\ flows[e].kind = "none" /\ latchSrc[e] = None /\ ice[e] = None
                      /\ nominated[e] = None /\ ~watched[e]
    BY Zenon DEF LiteLeavesNothing, RemovedLeavesNothing
  <2>1. \A op : ~Pending(op, e)
    <3>1. Len(todo) = 0
      BY Zenon
    <3> QED
      BY <3>1 DEF Pending
  <2> QED
    BY Zenon, <2>1 DEF ClearedInv, DatapathAnswers
<1>2. IInv /\ RemovalInv /\ [Next]_vars => RemovalInv'
  BY Zenon, NextRemoval
<1>3. IInv /\ AgentInv /\ [Next]_vars => AgentInv'
  BY Zenon, NextAgent
<1>4. IInv /\ AgentInv /\ RemovalInv /\ ClearedInv /\ [Next]_vars => ClearedInv'
  BY Zenon, NextCleared
<1> QED
  BY InitIInv, NextIInv, InitRemoval, InitAgent, InitCleared, <1>1, <1>2, <1>3, <1>4, PTL
  DEF Spec


-----------------------------------------------------------------------------
(* A nomination belongs to the ICE session whose credentials are installed *)
(* or was stored by a check that a restart overtook.                       *)

LEMMA RestartsKept ==
  ASSUME TypeOK, todo # <<>>, todo' = Tail(todo), NEW i \in 1 .. Len(todo'),
         Restarts(todo, i + 1), i > 1 \/ todo'[i].op # "ice_insert"
  PROVE  Restarts(todo', i)
<1>1. Len(todo) \in Nat /\ Len(todo') = Len(todo) - 1
  BY Zenon, TailFacts
<1>2. \A j \in 1 .. Len(todo') : todo'[j] = todo[j + 1]
  BY Zenon, TailFacts
<1>3. i \in Nat /\ i + 1 - 1 = i /\ todo'[i] = todo[i + 1]
  BY <1>1, <1>2
<1>4. i > 1 => todo'[i - 1] = todo[i]
  BY <1>1, <1>2, <1>3
<1>5. i + 1 < Len(todo) => i < Len(todo') /\ todo'[i + 1] = todo[i + 1 + 1]
  BY <1>1, <1>2, <1>3
<1> QED
  BY <1>3, <1>4, <1>5 DEF Restarts

LEMMA ControlSession ==
  ASSUME IInv, SessionInv, ControlEffect
  PROVE  SessionInv'
<1> USE DEF IInv
<1> DEFINE s == todo[1]
<1>1. todo \in Seq(Step) /\ todo # <<>> /\ s.e \in Endpoint /\ 1 \in 1 .. Len(todo) /\ Doing = s.op
  BY Zenon, LeftToDo DEF ControlEffect, Doing, TypeOK
<1>2. todo' = Tail(todo) \/ todo' = <<>>
  BY Zenon DEF ControlEffect
<1>3. \A w \in Worker : pc'[w] = "check" => cfg'[w] # None
  <2>1. CASE UNCHANGED worker
    BY Zenon, <2>1 DEF SessionInv, worker
  <2>2. CASE Finish(<<s.e, "socket">>)
    BY Zenon, <2>2 DEF SessionInv, Finish, TypeOK
  <2> QED
    BY Zenon, <2>1, <2>2 DEF ControlEffect
<1>4. ASSUME NEW i \in 1 .. Len(todo'), i > 1 \/ todo'[i].op # "ice_insert"
      PROVE  Restarts(todo', i)
  <2>1. todo' # <<>>
    BY <1>4
  <2>2. todo' = Tail(todo)
    BY Zenon, <1>2, <2>1
  <2>3. i + 1 \in 1 .. Len(todo) /\ i + 1 > 1
    BY <1>1, <2>2, TailFacts
  <2>4. Restarts(todo, i + 1)
    BY Zenon, <2>3 DEF SessionInv
  <2> QED
    BY Zenon, <1>1, <1>4, <2>2, <2>4, RestartsKept
<1>5. ASSUME NEW e \in Endpoint, nominated'[e] # None
      PROVE  /\ nominated'[e] = nominated[e] /\ nomUfrag'[e] = nomUfrag[e]
             /\ ~(s.op = "nominated_remove" /\ s.e = e)
  BY <1>1, <1>5 DEF ControlEffect, NominationEffect, Unnominate, nomination, TypeOK
<1>6. ASSUME NEW e \in Endpoint, nominated'[e] # None, nomUfrag'[e] # None
      PROVE  \/ nomUfrag'[e] = ice'[e] /\ ice'[e] # None
             \/ ice'[e] = None /\ Doing' = "nominated_remove" /\ todo'[1].e = e
  <2>1. nomUfrag'[e] = ice[e] /\ ice[e] # None
    BY Zenon, <1>1, <1>5, <1>6 DEF SessionInv
  <2>2. CASE s.op = "ice_insert" /\ s.e = e
    <3>1. ice[e] = s.ufrag
      BY Zenon, <1>1, <1>5, <1>6, <2>2 DEF SessionInv
    <3>2. ice'[e] = s.ufrag
      BY Zenon, <1>1, <2>2 DEF ControlEffect, WiringEffect, TypeOK
    <3> QED
      BY Zenon, <2>1, <3>1, <3>2
  <2>3. CASE s.op = "ice_remove" /\ s.e = e
    <3>1. ice'[e] = None
      BY Zenon, <1>1, <2>3 DEF ControlEffect, WiringEffect, TypeOK
    <3>2. Restarts(todo, 1)
      BY Zenon, <1>1, <2>3 DEF SessionInv
    <3>3. 1 < Len(todo) /\ todo[1 + 1].op = "nominated_remove" /\ todo[1 + 1].e = e
      BY Zenon, <2>3, <3>2 DEF Restarts
    <3>4. todo' = Tail(todo)
      BY Zenon, <2>3 DEF ControlEffect
    <3>5. Len(todo') > 0 /\ todo'[1] = todo[1 + 1] /\ todo' # <<>>
      <4>1. Len(todo') > 0 /\ todo'[1] = todo[1 + 1]
        BY <1>1, <3>3, <3>4, TailFacts
      <4>2. Len(<<>>) = 0
        BY Zenon
      <4> QED
        BY <4>1, <4>2
    <3> QED
      BY Zenon, <3>1, <3>3, <3>5 DEF Doing
  <2>4. CASE ~(s.op \in {"ice_insert", "ice_remove"} /\ s.e = e)
    <3>1. ice'[e] = ice[e]
      BY Zenon, <1>1, <2>4 DEF ControlEffect, WiringEffect, TypeOK
    <3> QED
      BY Zenon, <2>1, <3>1
  <2> QED
    BY Zenon, <2>2, <2>3, <2>4
<1>7. ASSUME Doing' = "ice_insert"
      PROVE  \/ nominated'[todo'[1].e] = None \/ nomUfrag'[todo'[1].e] = None
             \/ ice'[todo'[1].e] = todo'[1].ufrag
  <2>1. todo' # <<>> /\ todo' = Tail(todo) /\ todo'[1].op = "ice_insert"
    BY Zenon, <1>2, <1>7 DEF Doing
  <2>2. 1 \in 1 .. Len(todo') /\ 2 \in 1 .. Len(todo) /\ todo'[1] = todo[2]
    BY <1>1, <2>1, TailFacts
  <2>3. s.op = "ice_restart" /\ s.e = todo[2].e /\ s.ufrag = todo[2].ufrag
    <3>1. Restarts(todo, 2) /\ 2 - 1 = 1
      BY <2>2 DEF SessionInv
    <3> QED
      BY Zenon, <2>1, <2>2, <3>1 DEF Restarts
  <2>4. ice' = ice
    BY Zenon, <2>3 DEF ControlEffect, WiringEffect
  <2>5. nominated'[s.e] = None \/ (UNCHANGED nomination /\ (ice[s.e] = None \/ ice[s.e] = s.ufrag))
    <3>1. nominated \in [Endpoint -> Priority \cup {None}]
      BY Zenon DEF TypeOK
    <3> QED
      BY Zenon, <1>1, <2>3, <3>1 DEF ControlEffect, NominationEffect, Unnominate
  <2>6. ice[s.e] = None => nominated[s.e] = None \/ nomUfrag[s.e] = None
    BY Zenon, <1>1, <2>3 DEF SessionInv
  <2> QED
    BY Zenon, <2>2, <2>3, <2>4, <2>5, <2>6 DEF nomination
<1> QED
  BY Zenon, <1>3, <1>4, <1>6, <1>7 DEF SessionInv

LEMMA WorkerSession ==
  ASSUME IInv, SessionInv, NEW w \in Worker, WorkerEffect(w)
  PROVE  SessionInv'
<1> USE DEF IInv
<1>1. w[1] \in Endpoint
  BY Zenon DEF Worker
<1>2. UNCHANGED <<todo, ice>> /\ Doing' = Doing
  BY Zenon DEF WorkerEffect, wiring, Doing
<1>3. CASE Nominates(w)
  <2>1. cfg[w] # None
    BY Zenon, <1>3 DEF Nominates, SessionInv
  <2>2. \A e \in Endpoint : e # w[1] =>
          /\ nominated'[e] = nominated[e] /\ nomUfrag'[e] = nomUfrag[e]
    BY Zenon, <1>1, <1>3 DEF Nominates, TypeOK
  <2>3. nomUfrag'[w[1]] = SessionOf(w)
    BY Zenon, <1>1, <1>3 DEF Nominates, TypeOK
  <2>4. \A v \in Worker : pc'[v] = "check" => cfg'[v] # None
    BY Zenon, <1>3 DEF Nominates, WorkerEffect, Others, SessionInv
  <2>5. nomUfrag'[w[1]] = None \/ (nomUfrag'[w[1]] = ice'[w[1]] /\ ice'[w[1]] # None)
    BY Zenon, <1>2, <2>1, <2>3 DEF SessionOf
  <2>6. Doing = "ice_insert" =>
          \/ nominated'[todo[1].e] = None \/ nomUfrag'[todo[1].e] = None \/ ice[todo[1].e] = todo[1].ufrag
    <3> SUFFICES ASSUME Doing = "ice_insert"
                 PROVE  \/ nominated'[todo[1].e] = None \/ nomUfrag'[todo[1].e] = None
                        \/ ice[todo[1].e] = todo[1].ufrag
      BY Zenon
    <3>1. CASE todo[1].e = w[1]
      BY Zenon, <2>3, <3>1 DEF Restarting, SessionOf
    <3>2. CASE todo[1].e # w[1]
      <4>1. todo # <<>>
        BY Zenon DEF Doing
      <4>2. todo[1].e \in Endpoint
        BY <4>1, TodoFacts DEF Step
      <4> QED
        BY Zenon, <2>2, <3>2, <4>2 DEF SessionInv
    <3> QED
      BY Zenon, <3>1, <3>2
  <2> QED
    BY Zenon, <1>2, <2>2, <2>4, <2>5, <2>6 DEF SessionInv
<1>4. CASE ~Nominates(w)
  <2>1. UNCHANGED nomination
    BY Zenon, <1>4 DEF WorkerEffect, Moves, Clones, Adopts, Publishes, Decides, Learns, shared
  <2>2. pc'[w] = "check" => cfg'[w] # None
    BY Zenon, <1>4 DEF WorkerEffect, Moves, Clones, Adopts, Publishes, Decides, Learns
  <2>3. \A v \in Worker : pc'[v] = "check" => cfg'[v] # None
    BY Zenon, <2>2 DEF WorkerEffect, Others, SessionInv
  <2> QED
    BY Zenon, <1>2, <2>1, <2>3 DEF SessionInv, nomination
<1> QED
  BY Zenon, <1>3, <1>4

LEMMA NextSession ==
  ASSUME SessionsRestart, IInv, SessionInv, [Next]_vars
  PROVE  SessionInv'
<1>1. ASSUME UNCHANGED <<todo, ice, pc, cfg, nominated, nomUfrag>> PROVE SessionInv'
  BY Zenon, <1>1 DEF SessionInv, Doing
<1>2. CASE Begin
  <2>1. todo' \in Programs /\ Doing = "nothing"
        /\ UNCHANGED <<ice, pc, cfg, nominated, nomUfrag>>
    BY Zenon, <1>2 DEF Begin, nomination, wiring, worker, Doing
  <2>2. \A i \in 1 .. Len(todo') : Restarts(todo', i)
    BY Zenon, <2>1 DEF SessionsRestart
  <2>3. Doing' # "ice_insert"
    <3>1. SUFFICES ASSUME todo' # <<>> PROVE todo'[1].op # "ice_insert"
      BY Zenon DEF Doing
    <3>2. todo' \in Seq(Step)
      BY Zenon, <2>1, DatapathAssumption
    <3>3. 1 \in 1 .. Len(todo')
      BY <3>1, <3>2
    <3> QED
      BY <2>2, <3>3 DEF Restarts
  <2> QED
    BY Zenon, <2>1, <2>2, <2>3 DEF SessionInv
<1>3. CASE ControlEffect
  BY Zenon, <1>3, ControlSession
<1>4. ASSUME NEW w \in Worker, WorkerEffect(w) PROVE SessionInv'
  BY Zenon, <1>4, WorkerSession
<1>5. ASSUME NEW f \in Endpoint, AgentSelect(f) \/ AdoptSource(f) \/ PublishAdopted(f)
      PROVE  SessionInv'
  BY Zenon, <1>1, <1>5 DEF AgentSelect, AdoptSource, PublishAdopted, wiring, nomination, worker
<1>6. CASE UNCHANGED vars
  BY Zenon, <1>1, <1>6 DEF vars, shared, wiring, nomination, worker
<1> QED
  BY Zenon, <1>2, <1>3, <1>4, <1>5, <1>6, Steps DEF IInv

LEMMA InitSession == Init => SessionInv
<1> SUFFICES ASSUME Init PROVE SessionInv
  BY Zenon
<1>1. Len(todo) = 0 /\ Doing = "nothing" /\ (\A e \in Endpoint : nominated[e] = None)
      /\ \A w \in Worker : pc[w] = "idle"
  BY Zenon DEF Init, Doing
<1> QED
  BY <1>1 DEF SessionInv

(* When credentials change only the way set_ice changes them, a nomination *)
(* that was stored before a restart never outlives it, and one of another  *)
(* session than the installed one was stored by a check that the restart   *)
(* overtook: on either runtime, for any number of receive tasks, sessions  *)
(* and endpoints.                                                          *)
THEOREM RestartForgetsNominations ==
  ASSUME SessionsRestart
  PROVE  Spec => []RestartForgets
<1>1. SessionInv => RestartForgets
  BY Zenon DEF SessionInv, RestartForgets, Doing
<1>2. IInv /\ SessionInv /\ [Next]_vars => SessionInv'
  BY Zenon, NextSession
<1> QED
  BY InitIInv, NextIInv, InitSession, <1>1, <1>2, PTL DEF Spec
=============================================================================
