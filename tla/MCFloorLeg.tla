----------------------------- MODULE MCFloorLeg -----------------------------
(* Instances of FloorLeg with two keys.                                    *)
EXTENDS FloorLeg

CONSTANTS k1, k2, a1, a2

Mkis == [k \in Key |-> IF k = k1 THEN 1 ELSE 2]

(* A rollover from k1 to k2, by way of a list that is cut to its newest    *)
(* two, no key at all, and a list that is refused.                         *)
Rollover == {<<>>, <<k1>>, <<k2, k1, k2>>, <<k1, k1>>}

(* Two packets under one key, one under the other and one in the clear,    *)
(* from two addresses.                                                     *)
Received(k, i, a) == [key |-> k, index |-> i, source |-> a]
Packets == {Received(k1, 0, a1), Received(k1, 1, a1), Received(k2, 2, a2), Received(Unset, 0, a2)}

(* A key, none, and the key again.                                         *)
Clearing == {<<>>, <<k1>>}
=============================================================================
