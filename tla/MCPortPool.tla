----------------------------- MODULE MCPortPool -----------------------------
(* Instances of PortPool: handles are interchangeable.                     *)
EXTENDS PortPool, TLC

Symmetry == Permutations(Handle)
=============================================================================
