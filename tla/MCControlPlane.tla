--------------------------- MODULE MCControlPlane ---------------------------
(* Two connections of one controller on one call id: the first asks for a  *)
(* call that dials or answers one itself, the second offers and deletes;   *)
(* each may claim the identity, be evicted and close at any time, and the  *)
(* first may be refused.                                                   *)
EXTENDS ControlPlane, TLC

CONSTANTS c1, c2

Channels == c1 :> 2 @@ c2 :> 1

Roles == c1 :> {"wsOffer", "answerLocal"} @@ c2 :> {"offer", "delete"}
=============================================================================
