---------------------------- MODULE ReplayWindow ----------------------------
(***************************************************************************)
(* The sliding replay filter that SRTP (over the estimated 48-bit index)   *)
(* and SRTCP (over the explicit 31-bit index) share.  The bitmap is the    *)
(* set of its bits: j is in `mask` when index top - j was received.        *)
(***************************************************************************)
EXTENDS Integers

CONSTANT Window     \* REPLAY_WINDOW, the width of the bitmap

ASSUME WindowAssumption == Window \in Nat \ {0}

Bits == 0 .. Window - 1

ReplayState == [top : Nat, mask : SUBSET Bits, seen : BOOLEAN]

EmptyWindow == [top |-> 0, mask |-> {}, seen |-> FALSE]

(* Already recorded, or too old to tell.                                   *)
IsReplay(w, i) ==
  /\ w.seen /\ i <= w.top
  /\ w.top - i >= Window \/ w.top - i \in w.mask

(* Faulty variant: the bitmap is not moved when the window slides.         *)
RecordUnshifted(w, i) ==
  IF ~w.seen THEN [top |-> i, mask |-> {0}, seen |-> TRUE]
  ELSE IF i > w.top THEN [top |-> i, mask |-> {0} \cup w.mask, seen |-> TRUE]
  ELSE [w EXCEPT !.mask = @ \cup {w.top - i}]

Record(w, i) ==
  IF ~w.seen THEN [top |-> i, mask |-> {0}, seen |-> TRUE]
  ELSE IF i > w.top
    THEN [top |-> i, seen |-> TRUE,
          mask |-> {0} \cup {j \in Bits : j - (i - w.top) \in w.mask}]
    ELSE [w EXCEPT !.mask = @ \cup {w.top - i}]

(* What a standby starts from: everything up to i received, or only i.     *)
(* Faulty variant of CloseAt: marks the index and nothing below it.        *)
CloseAtTop(i) == [top |-> i, mask |-> {0}, seen |-> TRUE]

CloseAt(i) == [top |-> i, mask |-> Bits, seen |-> TRUE]

(* Faulty variant of Anchor: leaves the filter empty.                      *)
AnchorEmpty(i) == EmptyWindow

Anchor(i) == [top |-> i, mask |-> {0}, seen |-> TRUE]
=============================================================================
