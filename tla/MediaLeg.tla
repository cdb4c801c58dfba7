------------------------------ MODULE MediaLeg ------------------------------
(***************************************************************************)
(* The receiving half of a media leg: the receiver statistics of RFC 3550  *)
(* and the playout buffer, fed by packets in whatever order they arrive    *)
(* and drained one frame per tick of the consumer.                         *)
(*                                                                         *)
(* A packet is the number its source gave it, which is also its payload;   *)
(* the leg sees that number modulo SeqSize.  The buffer is the set of the  *)
(* payloads held, no two of them under one sequence number.                *)
(***************************************************************************)
EXTENDS Integers, FiniteSets

CONSTANTS SeqSize,  \* 2^16, sequence numbers
          Target,   \* target_depth, at least 1
          Cap,      \* max_depth, at least Target
          None

VARIABLES
  buffer,     \* JitterBuffer::buffer
  cursor,     \* JitterBuffer::next_out
  primed,     \* JitterBuffer::primed
  losses,     \* JitterStats::losses
  source,     \* IngressStats: base, cycles and max, None before a packet
  played      \* history: how many frames were decoded, and the last one

HalfRange == SeqSize \div 2
Sequence(n) == n % SeqSize
Distance(to, from) == (to - from) % SeqSize
Plus(seq, d) == (seq + d) % SeqSize

LegInit ==
  /\ buffer = {} /\ cursor = None /\ primed = FALSE /\ losses = 0
  /\ source = None
  /\ played = [count |-> 0, last |-> None]

(* What a leg that is built again starts from.                             *)
Rebuilt ==
  /\ buffer' = {} /\ cursor' = None /\ primed' = FALSE /\ losses' = 0
  /\ source' = None
  /\ played' = [count |-> 0, last |-> None]

-----------------------------------------------------------------------------
(* The receiver statistics.                                                *)

(* IngressStats::on_rtp.  Faulty variant: the wrap is not counted.         *)
OnRtpNoCycle(seq) ==
  source' =
    IF source = None THEN [base |-> seq, cycles |-> 0, max |-> seq]
    ELSE IF Distance(seq, source.max) < HalfRange
    THEN [source EXCEPT !.max = seq]
    ELSE source

OnRtp(seq) ==
  source' =
    IF source = None THEN [base |-> seq, cycles |-> 0, max |-> seq]
    ELSE IF Distance(seq, source.max) < HalfRange
    THEN [source EXCEPT !.cycles = IF seq < source.max THEN @ + 1 ELSE @, !.max = seq]
    ELSE source

Expected ==
  IF source = None THEN 0
  ELSE source.cycles * SeqSize + source.max - source.base + 1

-----------------------------------------------------------------------------
(* The playout buffer.                                                     *)

Held(seq) == {n \in buffer : Sequence(n) = seq}

(* enforce_cap gives up the slots from the cursor to the first one held.   *)
EnforceCap(held) ==
  LET Gap(n) == Distance(Sequence(n), cursor)
      oldest == CHOOSE n \in held : \A m \in held : Gap(n) <= Gap(m)
  IN IF Cardinality(held) > Cap
     THEN /\ buffer' = held \ {oldest}
          /\ cursor' = Plus(cursor, Gap(oldest) + 1)
          /\ losses' = losses + Gap(oldest) + 1
     ELSE buffer' = held /\ UNCHANGED <<cursor, losses>>

(* JitterBuffer::push: the first packet sets the origin; one behind the    *)
(* cursor is late, one whose slot is held a duplicate.                     *)
(* Faulty variant: any packet whose slot is free is buffered.              *)
PushLate(n) ==
  IF cursor = None
  THEN buffer' = {n} /\ cursor' = Sequence(n) /\ UNCHANGED losses
  ELSE IF Held(Sequence(n)) # {} THEN UNCHANGED <<buffer, cursor, losses>>
  ELSE EnforceCap(buffer \cup {n})

Push(n) ==
  IF cursor = None
  THEN buffer' = {n} /\ cursor' = Sequence(n) /\ UNCHANGED losses
  ELSE IF Distance(Sequence(n), cursor) >= HalfRange \/ Held(Sequence(n)) # {}
  THEN UNCHANGED <<buffer, cursor, losses>>
  ELSE EnforceCap(buffer \cup {n})

(* MediaLeg::ingest_rtp.                                                   *)
IngestRtp(n) ==
  /\ OnRtp(Sequence(n))
  /\ Push(n)
  /\ UNCHANGED <<primed, played>>

(* JitterBuffer::pop, unless it returns Starved without a change.          *)
Ready == cursor # None /\ (primed \/ Cardinality(buffer) >= Target)

PopPacket ==
  /\ Ready
  /\ \E n \in Held(cursor) :
       /\ buffer' = buffer \ {n}
       /\ played' = [count |-> played.count + 1, last |-> n]
  /\ primed' = TRUE /\ cursor' = Plus(cursor, 1)
  /\ UNCHANGED <<losses, source>>

PopConceal ==
  /\ Ready /\ Held(cursor) = {} /\ buffer # {}
  /\ primed' = TRUE /\ cursor' = Plus(cursor, 1) /\ losses' = losses + 1
  /\ UNCHANGED <<buffer, source, played>>

PopUnderrun ==
  /\ primed /\ buffer = {}
  /\ primed' = FALSE
  /\ UNCHANGED <<buffer, cursor, losses, source, played>>

NextPcm == PopPacket \/ PopConceal \/ PopUnderrun
=============================================================================
