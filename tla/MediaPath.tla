------------------------------ MODULE MediaPath ------------------------------
(***************************************************************************)
(* An SRTP stream that ends on a bridge, which hands on what `unprotect`   *)
(* lets through, or on a media leg, which ingests it.  A standby that      *)
(* takes the receiver over has the checkpointed rollover state and a new   *)
(* leg.                                                                    *)
(***************************************************************************)
EXTENDS SrtpStream

CONSTANTS Target, Cap    \* of the playout buffer

ASSUME LegAssumption ==
  /\ Target \in Nat \ {0} /\ Cap \in Nat /\ Target <= Cap
  /\ None \notin [base : SeqNo, cycles : Nat, max : SeqNo]

VARIABLES buffer, cursor, primed, losses, source, played,
          ends    \* what the stream ends on, a "bridge" or a "leg"

Leg == INSTANCE MediaLeg

legVars == <<buffer, cursor, primed, losses, source, played>>
pathVars == <<streamVars, legVars, ends>>

PathInit == StreamInit /\ Leg!LegInit /\ ends \in {"bridge", "leg"}

(* The number whose turn it is in the playout.                             *)
Due == (newest + 1) - Leg!Distance(Leg!Sequence(newest + 1), cursor)

(* The buffer and the statistics order sequence numbers by "RFC 1982       *)
(* serial arithmetic": a packet is ahead of those ingested, and of the     *)
(* playout, by less than half a cycle.                                     *)
Serial(p) ==
  /\ accepted # {} => \E i \in accepted : p.index - i < Half
  /\ cursor # None => p.n - Due < Half

(* The datagram is decrypted and then ingested.                            *)
UnprotectIngress(p) ==
  /\ Serial(p)
  /\ Unprotect(p)
  /\ Leg!IngestRtp(p.n)

(* The takeovers of the sender are those of a bridged stream: a leg sees   *)
(* no more of them than the indices.                                       *)
Bridged ==
  /\ ends = "bridge"
  /\ \/ \E p \in sent : Unprotect(p)
     \/ \E e \in End : CheckpointEnd(e)
     \/ SenderTakeover
     \/ ReceiverTakeover
  /\ UNCHANGED legVars

Terminated ==
  /\ ends = "leg"
  /\ \/ \E p \in sent : UnprotectIngress(p)
     \/ Leg!NextPcm /\ UNCHANGED streamVars
     \/ CheckpointEnd("receiver") /\ UNCHANGED legVars
     \/ ReceiverTakeover /\ Leg!Rebuilt

PathNext ==
  /\ \/ \E n \in Number : Protect(n) /\ UNCHANGED legVars
     \/ Bridged
     \/ Terminated
  /\ UNCHANGED ends

PathSpec == PathInit /\ [][PathNext]_pathVars

-----------------------------------------------------------------------------
(* What the order of a leg's packets needs besides: a standby's filter and *)
(* the age of its checkpoint span half a cycle at most.                    *)
LegInReach == InReach /\ Stale + Window <= Half

(* A leg plays the source's packets in their order and each once, whatever *)
(* the network repeats or reorders, across the wrap of the sequence number *)
(* and an overflow of the buffer (push, enforce_cap, pop).                 *)
PlayedInOrder ==
  [][(played'.count > played.count /\ played.last # None)
       => played.last < played'.last]_pathVars

(* The statistics count the source's packets: what is expected runs from   *)
(* the first packet this leg ingested to the newest (on_rtp, expected).    *)
(* Every slot of the playout, decoded, lost or waiting, is one of them, so *)
(* that losses over expected is a share (ingress_loss_percent).            *)
SlotsWithinExpected ==
  losses + played.count + Cardinality(buffer) <= Leg!Expected

(* The buffer never exceeds its cap, and a packet held is ahead of the     *)
(* cursor by less than half a cycle: none is overtaken, to be played a     *)
(* cycle later (push, enforce_cap, pop).                                   *)
HeldAhead ==
  /\ Cardinality(buffer) <= Cap
  /\ \A n \in buffer : Leg!Distance(n % SeqSize, cursor) < Half
=============================================================================
