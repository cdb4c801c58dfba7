---------------------------- MODULE MCIceThreads ----------------------------
(* An ICE offerer on the multi-thread runtime: answered and restarted      *)
(* under the ice-lite responder, restarted with candidates under a full    *)
(* agent (the re-offer and its answer), followed by a userspace consumer   *)
(* and deleted, while checks of both sessions and media arrive and the     *)
(* agent selects a pair at any time.                                       *)
EXTENDS MCIce

ThreadPacket == {StunCheck(a1, u1, 1), StunCheck(a2, u2, 1), Rtp(a2)}

ThreadPrograms ==
  {IceAnswer(u1, "lite", FALSE, FALSE, a1, a2), IceAnswer(u2, "lite", FALSE, FALSE, a1, a2),
   ReofferRestart(u2) \o IceAnswer(u2, "full", FALSE, FALSE, a1, a2),
   FollowIce(near), Delete}

ASSUME ThreadUse ==
  /\ IceLegsDoNotLatch /\ RemovalsAlone /\ WatchersAreTold
  /\ IceLegsAreKept /\ AgentsAreKept /\ RemovalsClear
=============================================================================
