------------------------------- MODULE MCEnds -------------------------------
(* What waits in the datapath ends: the operations of the control thread   *)
(* on an ICE call under traffic, and the allocation and removal of ports   *)
(* while other processes take them.  A behaviour follows one of the two.   *)
EXTENDS MCIce

CONSTANTS Handle, Sender, Span, Outside, Limit, Ranged

VARIABLES side,    \* "call" or "ports"
          live, reserved, cursor, task, port, want, scans, binds, sending, foreign

ports == <<live, reserved, cursor, task, port, want, scans, binds, sending, foreign>>

Ports == INSTANCE PortPool WITH pc <- task

EndsInit == Init /\ Ports!Init /\ side \in {"call", "ports"}

EndsNext ==
  /\ UNCHANGED side
  /\ \/ side = "call" /\ Next /\ UNCHANGED ports
     \/ side = "ports" /\ Ports!Next /\ UNCHANGED vars

(* Nothing of the side that rests is enabled but what the outside asks.    *)
EndsSpec ==
  /\ EndsInit /\ [][EndsNext]_<<vars, side, ports>>
  /\ Fairness /\ Ports!Fairness

(* An allocation or a removal of a port ends, whatever other processes     *)
(* hold (bind_in_range, reserve_next, remove_endpoint).                    *)
WorkEnds == Ports!WorkEnds
=============================================================================
