---------------------------- MODULE MCMediaPath ----------------------------
(* An instance of MediaPath with a cycle of eight sequence numbers.        *)
EXTENDS MediaPath

OneEach == [sender |-> 1, receiver |-> 1]

ASSUME PathInReach == LegInReach
=============================================================================
