------------------------------ MODULE PortLease ------------------------------
(***************************************************************************)
(* What the datapath promises to its callers about media ports: an         *)
(* endpoint that was handed out has a port of its own until its removal    *)
(* begins, and there are never more than `Limit` of them.                  *)
(***************************************************************************)
EXTENDS Naturals, FiniteSets

CONSTANTS Handle, Port, Limit, None

VARIABLE lease    \* the port of each endpoint that was handed out

Leased == {h \in Handle : lease[h] # None}

Init == lease = [h \in Handle |-> None]

Grant(h, p) ==
  /\ lease[h] = None
  /\ \A k \in Handle : lease[k] # p
  /\ Cardinality(Leased) < Limit
  /\ lease' = [lease EXCEPT ![h] = p]

Return(h) ==
  /\ lease[h] # None
  /\ lease' = [lease EXCEPT ![h] = None]

Next == \E h \in Handle : Return(h) \/ \E p \in Port : Grant(h, p)

Spec == Init /\ [][Next]_lease
=============================================================================
