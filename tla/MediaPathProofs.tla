--------------------------- MODULE MediaPathProofs ---------------------------
(***************************************************************************)
(* A media leg behind its SRTP stream, for every width of the sequence     *)
(* number, every target and cap of the buffer, any number of cycles and    *)
(* takeovers: what it plays is in the source's order, its slots are among  *)
(* those the statistics expect, and nothing it holds is overtaken.  The    *)
(* leg sees the low bits of a number only; LegPlaced says which numbers    *)
(* they stand for.                                                         *)
(***************************************************************************)
EXTENDS SrtpProofs, MediaPath

-----------------------------------------------------------------------------
(* Serial arithmetic.                                                      *)

LEMMA RestIsUnique ==
  \A k \in Int, y \in SeqNo : (k * SeqSize + y) % SeqSize = y
<1> SUFFICES ASSUME NEW k \in Int, NEW y \in SeqNo
             PROVE  (k * SeqSize + y) % SeqSize = y
  BY Zenon
<1> DEFINE n == k * SeqSize + y
<1> DEFINE q == n \div SeqSize
<1> DEFINE r == n % SeqSize
<1>1. SeqSize \in Int /\ SeqSize > 0 /\ y \in Int
  BY StreamAssumption DEF SeqNo
<1>2. n \in Int
  BY <1>1
<1>3. r \in SeqNo
  BY Zenon, <1>2, Modulo, StreamAssumption DEF SeqNo
<1> HIDE DEF n
<1>4. q \in Int /\ n = q * SeqSize + r
  <2>1. q \in Int
    BY <1>1, <1>2
  <2>2. n = SeqSize * q + r
    BY <1>1, <1>2
  <2>3. SeqSize * q = q * SeqSize
    BY <1>1, <2>1
  <2> QED
    BY <2>1, <2>2, <2>3
<1> HIDE DEF q, r
<1>5. k * SeqSize + y <= q * SeqSize + r /\ q * SeqSize + r <= k * SeqSize + y
  <2>1. n <= n
    BY <1>2
  <2> QED
    BY Zenon, <2>1, <1>4 DEF n
<1>6. k <= q /\ q <= k
  BY Zenon, <1>3, <1>4, <1>5, SameCycle
<1>7. k = q
  BY <1>6, <1>4
<1>8. q * SeqSize \in Int /\ r \in Int
  BY <1>1, <1>3, <1>4 DEF SeqNo
<1>9. k * SeqSize = q * SeqSize
  BY Zenon, <1>7
<1>10. r = y
  BY <1>1, <1>5, <1>8, <1>9
<1> QED
  BY Zenon, <1>10 DEF r, n

LEMMA Rest ==
  ASSUME NEW a \in Nat
  PROVE  \E q \in Int : a = q * SeqSize + (a % SeqSize) /\ a % SeqSize \in SeqNo
<1>1. a \div SeqSize \in Nat /\ a = (a \div SeqSize) * SeqSize + (a % SeqSize)
  BY Zenon, CycleAndRest
<1>2. a % SeqSize \in SeqNo
  <2>1. a \in Int
    OBVIOUS
  <2> QED
    BY Zenon, <2>1, Modulo, StreamAssumption DEF SeqNo
<1>3. a \div SeqSize \in Int
  BY <1>1
<1> QED
  BY Zenon, <1>1, <1>2, <1>3

(* The wrapping distance of two numbers less than a cycle apart.           *)
LEMMA SerialDistance ==
  ASSUME NEW a \in Nat, NEW b \in Nat
  PROVE  /\ b <= a /\ a - b < SeqSize => Leg!Distance(a % SeqSize, b % SeqSize) = a - b
         /\ a < b /\ b - a <= SeqSize =>
              Leg!Distance(a % SeqSize, b % SeqSize) = (a - b) + SeqSize
<1> DEFINE i == a % SeqSize
<1> DEFINE j == b % SeqSize
<1>1. PICK q \in Int : a = q * SeqSize + i /\ i \in SeqNo
  BY Zenon, Rest
<1>2. PICK k \in Int : b = k * SeqSize + j /\ j \in SeqNo
  BY Zenon, Rest
<1> HIDE DEF i, j
<1>3. i \in Int /\ j \in Int /\ SeqSize \in Nat
  BY <1>1, <1>2, StreamAssumption DEF SeqNo
<1>4. /\ q * SeqSize \in Int /\ k * SeqSize \in Int
      /\ (k - q) * SeqSize = k * SeqSize - q * SeqSize
      /\ (k - q - 1) * SeqSize = (k * SeqSize - q * SeqSize) - SeqSize
  BY <1>3
<1>5. CASE b <= a /\ a - b < SeqSize
  <2>1. i - j = (k - q) * SeqSize + (a - b)
    BY <1>1, <1>2, <1>3, <1>4
  <2>2. a - b \in SeqNo /\ k - q \in Int
    BY <1>5, <1>3 DEF SeqNo
  <2>3. (i - j) % SeqSize = a - b
    <3>1. ((k - q) * SeqSize + (a - b)) % SeqSize = a - b
      BY Zenon, <2>2, RestIsUnique
    <3> QED
      BY Zenon, <2>1, <3>1
  <2>4. ~(a < b)
    BY <1>5
  <2> QED
    BY Zenon, <2>3, <2>4 DEF Leg!Distance, i, j
<1>6. CASE a < b /\ b - a <= SeqSize
  <2>1. i - j = (k - q - 1) * SeqSize + ((a - b) + SeqSize)
    BY <1>1, <1>2, <1>3, <1>4
  <2>2. (a - b) + SeqSize \in SeqNo /\ k - q - 1 \in Int
    BY <1>6, <1>3 DEF SeqNo
  <2>3. (i - j) % SeqSize = (a - b) + SeqSize
    <3>1. ((k - q - 1) * SeqSize + ((a - b) + SeqSize)) % SeqSize = (a - b) + SeqSize
      BY Zenon, <2>2, RestIsUnique
    <3> QED
      BY Zenon, <2>1, <3>1
  <2>4. ~(b <= a)
    BY <1>6
  <2> QED
    BY Zenon, <2>3, <2>4 DEF Leg!Distance, i, j
<1> QED
  BY Zenon, <1>5, <1>6

LEMMA SerialPlus ==
  ASSUME NEW a \in Nat, NEW k \in Nat
  PROVE  Leg!Plus(a % SeqSize, k) = (a + k) % SeqSize
<1> DEFINE i == a % SeqSize
<1> DEFINE j == (a + k) % SeqSize
<1>1. PICK q \in Int : a = q * SeqSize + i /\ i \in SeqNo
  BY Zenon, Rest
<1>2. PICK h \in Int : a + k = h * SeqSize + j /\ j \in SeqNo
  <2>1. a + k \in Nat
    OBVIOUS
  <2> QED
    BY Zenon, <2>1, Rest
<1> HIDE DEF i, j
<1>3. i \in Int /\ j \in Int /\ SeqSize \in Nat
  BY <1>1, <1>2, StreamAssumption DEF SeqNo
<1>4. /\ q * SeqSize \in Int /\ h * SeqSize \in Int
      /\ (h - q) * SeqSize = h * SeqSize - q * SeqSize /\ h - q \in Int
  BY <1>3
<1>5. i + k = (h - q) * SeqSize + j
  BY <1>1, <1>2, <1>3, <1>4
<1>6. (i + k) % SeqSize = j
  BY Zenon, <1>2, <1>4, <1>5, RestIsUnique
<1> QED
  BY Zenon, <1>6 DEF Leg!Plus, i, j

(* What the proofs need to know of least elements and of finite sets:      *)
(* proved from the library's theorems at the end of the module, and        *)
(* assumed until then, because the provers are slow in their presence.     *)
Counting ==
  /\ \A T \in SUBSET Nat : T # {} => \E m \in T : \A k \in T : m <= k
  /\ IsFiniteSet({}) /\ Cardinality({}) = 0
  /\ \A x : IsFiniteSet({x}) /\ Cardinality({x}) = 1
  /\ \A T : IsFiniteSet(T) => Cardinality(T) \in Nat /\ (Cardinality(T) = 0 <=> T = {})
  /\ \A T, x : IsFiniteSet(T) =>
       /\ IsFiniteSet(T \cup {x})
       /\ Cardinality(T \cup {x}) =
            IF x \in T THEN Cardinality(T) ELSE Cardinality(T) + 1
       /\ IsFiniteSet(T \ {x})
       /\ Cardinality(T \ {x}) =
            IF x \in T THEN Cardinality(T) - 1 ELSE Cardinality(T)
  /\ \A a, b \in Int : \A T \in SUBSET (a .. b) :
       Cardinality(T) <= IF a > b THEN 0 ELSE b - a + 1

(* A leg's place in the source's numbers: it started with b, d is due next *)
(* and x is the newest it ingested.                                        *)
Playout(d, b, x) ==
  /\ cursor = d % SeqSize /\ b <= d /\ d <= x + 1
  /\ buffer \subseteq d .. x /\ \A n \in buffer : n - d < Half
  /\ losses + played.count = d - b
  /\ played.last # None => played.last < d
  /\ source # None /\ source.base = b % SeqSize /\ source.max = x % SeqSize
  /\ (source.cycles * SeqSize + source.max) - source.base = x - b
  /\ TrueIndex(x) \in accepted /\ \A i \in accepted : i <= TrueIndex(x)
  /\ newest # None /\ newest - d < Half /\ x <= newest

LegTypeOK ==
  /\ losses \in Nat
  /\ played \in [count : Nat, last : Nat \cup {None}]
  /\ source \in [base : SeqNo, cycles : Nat, max : SeqNo] \cup {None}
  /\ Cardinality(buffer) <= Cap /\ IsFiniteSet(buffer)

LegPlaced ==
  /\ cursor = None =>
       buffer = {} /\ losses = 0 /\ source = None /\ played = [count |-> 0, last |-> None]
  /\ cursor # None => ends = "leg" /\ \E d, b \in Nat : \E x \in Number : Playout(d, b, x)
  /\ ends = "leg" /\ cursor = None => accepted = {}

(* What a bridge or a leg does to the stream is a step of the stream.      *)
LEMMA PathStep == [PathNext]_pathVars => [StreamNext]_streamVars
<1>1. ASSUME UNCHANGED pathVars PROVE UNCHANGED streamVars
  BY Zenon, <1>1 DEF pathVars
<1>2. ASSUME Bridged PROVE StreamNext
  BY Zenon, <1>2 DEF Bridged, StreamNext
<1>3. ASSUME Terminated PROVE StreamNext \/ UNCHANGED streamVars
  <2>1. "receiver" \in End
    BY DEF End
  <2> QED
    BY Zenon, <1>3, <2>1 DEF Terminated, UnprotectIngress, StreamNext
<1>4. ASSUME NEW n \in Number, Protect(n) PROVE StreamNext
  BY Zenon, <1>4 DEF StreamNext
<1> QED
  BY Zenon, <1>1, <1>2, <1>3, <1>4 DEF PathNext

(* The stream of a path, whatever it ends on, is an SRTP stream.           *)
THEOREM PathIsAStream == PathSpec => StreamSpec
<1>1. PathInit => StreamInit
  BY Zenon DEF PathInit
<1> QED
  BY <1>1, PathStep, PTL DEF PathSpec, StreamSpec

(* What the stream guarantees a leg that ingests p.                        *)
StreamInv ==
  StreamTypeOK /\ StreamRefusals /\ UnprotectedOnce /\ SenderPlaced /\ ReceiverPlaced

LEMMA StreamInvAlways == ASSUME InReach PROVE StreamSpec => []StreamInv
<1>1. StreamInit => SenderPlaced /\ ReceiverPlaced
  BY Zenon, EndsInit
<1>2. StreamTypeOK /\ SenderPlaced /\ ReceiverPlaced /\ [StreamNext]_streamVars
        => SenderPlaced' /\ ReceiverPlaced'
  BY Zenon, EndsPlaced
<1> QED
  BY <1>1, <1>2, InitStreamRefusals, NextStreamRefusals, StreamTyped, PTL DEF StreamSpec, StreamInv

LEMMA Constants ==
  ASSUME LegInReach
  PROVE  /\ SeqSize \in Nat /\ Half \in Nat /\ Window \in Nat /\ Stale \in Nat
         /\ 2 * Half <= SeqSize /\ 0 < Half /\ Half < SeqSize
         /\ Stale + Window <= Half /\ Window <= Half
         /\ Number \subseteq Nat
<1>1. SeqSize \in Nat /\ Half \in Nat /\ 2 * Half <= SeqSize /\ Window \in Nat /\ Stale \in Nat
  BY StreamAssumption, WindowAssumption DEF Half
<1>2. 0 < Half
  BY <1>1, StreamAssumption DEF LegInReach, InReach
<1>3. Stale + Window <= Half
  BY Zenon DEF LegInReach
<1>4. Number \subseteq Nat
  BY StreamAssumption DEF Number
<1>5. Half < SeqSize /\ Window <= Half
  BY <1>1, <1>2, <1>3
<1> QED
  BY Zenon, <1>1, <1>2, <1>3, <1>4, <1>5

LEMMA HalfRangeIsHalf == Leg!HalfRange = Half
BY Zenon DEF Leg!HalfRange, Half

(* A packet that `unprotect` lets through is no older than the window, and *)
(* what this receiver accepted is not newer than the filter's top.         *)
LEMMA IngestedRecently ==
  ASSUME LegInReach, StreamInv, NEW p \in sent, Unprotect(p)
  PROVE  /\ p.n \in Number /\ p.index = TrueIndex(p.n)
         /\ newest # None => newest \in Number /\ newest - p.n < Half
         /\ \A x \in Number : TrueIndex(x) \in accepted => x - p.n < Window /\ newest # None
<1>1. /\ p.n \in Number /\ p.index = TrueIndex(p.n) /\ ~IsReplay(filter, p.index)
      /\ newest \in Number \cup {None}
  BY Zenon DEF StreamInv, StreamTypeOK, SenderPlaced, Unprotect, Verdict
<1>2. \A m \in Number : m \in Int /\ TrueIndex(m) \in Int /\ TrueIndex(m) - TrueIndex(p.n) = m - p.n
  <2>1. \A m \in Number : m \in Int
    BY StreamAssumption DEF Number
  <2> QED
    BY Zenon, <2>1, <1>1, TrueIndexDifference
<1>3. ASSUME newest # None
      PROVE  /\ newest \in Number /\ filter.top \in Int /\ TrueIndex(newest) - filter.top <= Stale
             /\ filter.top - TrueIndex(p.n) < Window
  <2>1. /\ newest \in Number /\ receiver \in Rollover /\ checkpoints["receiver"] \in Rollover
        /\ Behind(receiver, checkpoints["receiver"], TrueIndex(newest))
        /\ filter.seen /\ filter.top = Position(receiver)
    BY Zenon, <1>1, <1>3 DEF StreamInv, StreamTypeOK, ReceiverPlaced, End
  <2>2. Position(receiver) \in Int /\ TrueIndex(newest) - Position(receiver) <= Stale
    BY Zenon, <2>1, <1>2, BehindStale
  <2>3. TrueIndex(p.n) > filter.top \/ filter.top - TrueIndex(p.n) < Window
    <3>1. ~(p.index <= filter.top) \/ ~(filter.top - p.index >= Window)
      BY Zenon, <1>1, <2>1 DEF IsReplay
    <3>2. p.index \in Int /\ filter.top \in Int /\ Window \in Int
      BY <1>1, <1>2, <2>1, <2>2, WindowAssumption
    <3> QED
      BY <3>1, <3>2, <1>1
  <2>4. filter.top - TrueIndex(p.n) < Window
    BY <2>1, <2>2, <2>3, <1>1, <1>2, WindowAssumption
  <2> QED
    BY Zenon, <2>1, <2>2, <2>4
<1>4. ASSUME newest # None PROVE newest - p.n < Half
  <2>1. p.n \in Int /\ newest \in Int
    BY Zenon, <1>1, <1>2, <1>3, <1>4
  <2>2. TrueIndex(newest) \in Int /\ TrueIndex(p.n) \in Int
        /\ TrueIndex(newest) - TrueIndex(p.n) = newest - p.n
    BY Zenon, <1>1, <1>2, <1>3, <1>4
  <2>3. /\ filter.top \in Int /\ TrueIndex(newest) - filter.top <= Stale
        /\ filter.top - TrueIndex(p.n) < Window
    BY Zenon, <1>3, <1>4
  <2>4. Stale + Window <= Half /\ Stale \in Nat /\ Window \in Nat /\ Half \in Nat
    BY Zenon, Constants
  <2> QED
    BY <2>1, <2>2, <2>3, <2>4
<1>5. ASSUME NEW x \in Number, TrueIndex(x) \in accepted PROVE x - p.n < Window /\ newest # None
  <2>1. filter.seen /\ TrueIndex(x) <= filter.top
    BY Zenon, <1>5 DEF StreamInv, StreamRefusals, IsReplay
  <2>2. newest # None
    BY <2>1 DEF StreamInv, ReceiverPlaced, EmptyWindow
  <2>3. /\ x \in Int /\ p.n \in Int /\ TrueIndex(x) \in Int /\ TrueIndex(p.n) \in Int
        /\ TrueIndex(x) - TrueIndex(p.n) = x - p.n
    BY Zenon, <1>1, <1>2
  <2>4. filter.top \in Int /\ filter.top - TrueIndex(p.n) < Window
    BY Zenon, <1>3, <2>2
  <2>5. x - p.n < Window
    BY <2>1, <2>3, <2>4, WindowAssumption
  <2> QED
    BY Zenon, <2>2, <2>5
<1> QED
  BY Zenon, <1>1, <1>3, <1>4, <1>5


LEMMA LegCounts == \A T : Leg!Cardinality(T) = Cardinality(T)
BY Zenon DEF Leg!Cardinality, Cardinality

Later(n, x) == IF n >= x THEN n ELSE x

(* on_rtp follows the newest packet of the leg through the wraps.          *)
LEMMA OnRtpPlaced ==
  ASSUME LegInReach, NEW n \in Number, NEW x \in Number, NEW b \in Nat,
         source \in [base : SeqNo, cycles : Nat, max : SeqNo],
         source.base = b % SeqSize, source.max = x % SeqSize,
         (source.cycles * SeqSize + source.max) - source.base = x - b,
         n - x < Half, x - n < Window, Leg!OnRtp(n % SeqSize)
  PROVE  /\ source' \in [base : SeqNo, cycles : Nat, max : SeqNo]
         /\ source'.base = b % SeqSize /\ source'.max = Later(n, x) % SeqSize
         /\ (source'.cycles * SeqSize + source'.max) - source'.base = Later(n, x) - b
<1> DEFINE i == n % SeqSize
<1> DEFINE j == x % SeqSize
<1>1. n \in Nat /\ x \in Nat
  BY Zenon, Constants
<1>2. /\ SeqSize \in Nat /\ Half \in Nat /\ Window \in Nat /\ 2 * Half <= SeqSize
      /\ Half < SeqSize /\ Window <= Half
  BY Zenon, Constants
<1>3. source # None
  BY Zenon, LegAssumption
<1>4. PICK q \in Int : n = q * SeqSize + i /\ i \in SeqNo
  BY Zenon, <1>1, Rest
<1>5. PICK k \in Int : x = k * SeqSize + j /\ j \in SeqNo
  BY Zenon, <1>1, Rest
<1>6. /\ x <= n /\ n - x < SeqSize => Leg!Distance(i, j) = n - x
      /\ n < x /\ x - n <= SeqSize => Leg!Distance(i, j) = (n - x) + SeqSize
  BY Zenon, <1>1, SerialDistance
<1> HIDE DEF i, j
<1>7. CASE n >= x
  <2>1. Leg!Distance(i, source.max) < Leg!HalfRange
    <3>1. Leg!Distance(i, j) = n - x /\ n - x < Half
      BY <1>1, <1>2, <1>6, <1>7
    <3> QED
      BY Zenon, <3>1, HalfRangeIsHalf DEF j
  <2>2. source' = [source EXCEPT !.cycles = IF i < source.max THEN @ + 1 ELSE @, !.max = i]
    BY Zenon, <1>3, <2>1 DEF Leg!OnRtp, i
  <2>3. /\ source'.base = source.base /\ source'.max = i
        /\ source'.cycles = IF i < j THEN source.cycles + 1 ELSE source.cycles
        /\ source' \in [base : SeqNo, cycles : Nat, max : SeqNo]
    <3> DEFINE c == IF i < j THEN source.cycles + 1 ELSE source.cycles
    <3>1. c \in Nat
      OBVIOUS
    <3>2. source' = [source EXCEPT !.cycles = c, !.max = i]
      BY Zenon, <2>2 DEF j
    <3> HIDE DEF c
    <3>3. /\ source'.base = source.base /\ source'.max = i /\ source'.cycles = c
          /\ source' \in [base : SeqNo, cycles : Nat, max : SeqNo]
      BY <3>1, <3>2, <1>4
    <3> QED
      BY Zenon, <3>3 DEF c
  <2>4. i \in Int /\ j \in Int /\ 0 <= i /\ i < SeqSize /\ 0 <= j /\ j < SeqSize
    BY <1>2, <1>4, <1>5 DEF SeqNo
  <2>5. q * SeqSize \in Int /\ k * SeqSize \in Int /\ (k + 1) * SeqSize = k * SeqSize + SeqSize
    BY <1>2
  <2>6. /\ q < k => q * SeqSize + SeqSize <= k * SeqSize
        /\ k < q => k * SeqSize + SeqSize <= q * SeqSize
    BY Zenon, CycleApart
  <2>7. k + 1 < q => (k + 1) * SeqSize + SeqSize <= q * SeqSize
    <3>1. k + 1 \in Int
      OBVIOUS
    <3> QED
      BY Zenon, <3>1, CycleApart
  <2>8. ~(i < j) => q = k
    BY <1>1, <1>2, <1>4, <1>5, <1>7, <2>4, <2>5, <2>6
  <2>9. i < j => q = k + 1
    BY <1>1, <1>2, <1>4, <1>5, <1>7, <2>4, <2>5, <2>6, <2>7
  <2>10. source.cycles \in Nat /\ source.base \in Int /\ source.max = j
    BY <1>2 DEF SeqNo, j
  <2>11. /\ source.cycles * SeqSize \in Int
         /\ (source.cycles + 1) * SeqSize = source.cycles * SeqSize + SeqSize
    BY <1>2, <2>10
  <2>12. (source'.cycles * SeqSize + source'.max) - source'.base = n - b
    <3> DEFINE C == source.cycles * SeqSize
    <3> DEFINE Q == q * SeqSize
    <3> DEFINE K == k * SeqSize
    <3> DEFINE s == source.base
    <3>1. /\ (C + j) - s = x - b /\ n = Q + i /\ x = K + j
          /\ C \in Int /\ Q \in Int /\ K \in Int /\ s \in Int
      BY Zenon, <1>4, <1>5, <2>5, <2>10, <2>11
    <3>2. CASE i < j
      <4>1. source'.cycles * SeqSize = C + SeqSize
        BY Zenon, <2>3, <2>11, <3>2
      <4>2. Q = K + SeqSize
        BY Zenon, <2>5, <2>9, <3>2
      <4> HIDE DEF C, Q, K, s
      <4>3. ((C + SeqSize) + i) - s = n - b
        BY <4>2, <3>1, <1>1, <1>2, <2>4
      <4> QED
        BY Zenon, <4>1, <4>3, <2>3 DEF s
    <3>3. CASE ~(i < j)
      <4>1. source'.cycles * SeqSize = C
        BY Zenon, <2>3, <3>3
      <4>2. Q = K
        BY Zenon, <2>8, <3>3
      <4> HIDE DEF C, Q, K, s
      <4>3. (C + i) - s = n - b
        BY <4>2, <3>1, <1>1, <2>4
      <4> QED
        BY Zenon, <4>1, <4>3, <2>3 DEF s
    <3> QED
      BY Zenon, <3>2, <3>3
  <2>13. Later(n, x) = n
    BY Zenon, <1>7 DEF Later
  <2> QED
    BY Zenon, <2>3, <2>12, <2>13 DEF i
<1>8. CASE ~(n >= x)
  <2>1. ~(Leg!Distance(i, source.max) < Leg!HalfRange)
    <3>1. Leg!Distance(i, j) = (n - x) + SeqSize /\ ~((n - x) + SeqSize < Half)
      BY <1>1, <1>2, <1>6, <1>8
    <3> QED
      BY Zenon, <3>1, HalfRangeIsHalf DEF j
  <2>2. source' = source
    BY Zenon, <1>3, <2>1 DEF Leg!OnRtp, i
  <2> QED
    BY Zenon, <1>8, <2>2 DEF Later
<1> QED
  BY Zenon, <1>7, <1>8

(* push and enforce_cap keep the packets held in the half cycle ahead of   *)
(* the slot that is due, and count the slots they give up.                 *)
PlacedBuffer(e, x) ==
  /\ cursor = e % SeqSize /\ e <= x + 1
  /\ buffer \subseteq e .. x /\ \A m \in buffer : m - e < Half
  /\ IsFiniteSet(buffer) /\ Cardinality(buffer) <= Cap

LEMMA CapPlaced ==
  ASSUME Counting, LegInReach, NEW d \in Nat, NEW y \in Nat, NEW held,
         cursor = d % SeqSize, d <= y + 1,
         held \subseteq d .. y, \A m \in held : m - d < Half,
         IsFiniteSet(held), Cardinality(held) <= Cap + 1, losses \in Nat, Leg!EnforceCap(held)
  PROVE  \E e \in Nat : e >= d /\ losses' = losses + (e - d) /\ PlacedBuffer(e, y)'
<1> DEFINE Gap(m) == Leg!Distance(Leg!Sequence(m), cursor)
<1> DEFINE oldest == CHOOSE m \in held : \A k \in held : Gap(m) <= Gap(k)
<1>1. SeqSize \in Nat /\ Half \in Nat /\ Half < SeqSize /\ Cap \in Nat
  BY Zenon, Constants, LegAssumption
<1>2. Cardinality(held) \in Nat
  BY Zenon DEF Counting
<1>3. ASSUME NEW m \in held PROVE m \in Nat /\ d <= m /\ m <= y /\ Gap(m) = m - d
  <2>1. m \in Nat /\ d <= m /\ m <= y
    OBVIOUS
  <2>2. m - d < SeqSize
    BY <2>1, <1>1
  <2>3. Leg!Distance(m % SeqSize, d % SeqSize) = m - d
    BY Zenon, <2>1, <2>2, SerialDistance
  <2> QED
    BY Zenon, <2>1, <2>3 DEF Leg!Sequence
<1>4. CASE ~(Cardinality(held) > Cap)
  <2>1. buffer' = held /\ cursor' = cursor /\ losses' = losses
    BY Zenon, <1>4, LegCounts DEF Leg!EnforceCap
  <2>2. Cardinality(held) <= Cap /\ d >= d
    BY <1>1, <1>2, <1>4
  <2>3. PlacedBuffer(d, y)'
    BY Zenon, <2>1, <2>2 DEF PlacedBuffer
  <2>4. losses' = losses + (d - d)
    BY <2>1
  <2> QED
    BY Zenon, <2>2, <2>3, <2>4
<1>5. CASE Cardinality(held) > Cap
  <2>1. held # {}
    BY <1>1, <1>5 DEF Counting
  <2>2. PICK m \in held : \A k \in held : m <= k
    <3>1. held \subseteq Nat
      BY Zenon, <1>3
    <3> QED
      BY Zenon, <2>1, <3>1 DEF Counting
  <2>3. \A k \in held : Gap(m) <= Gap(k)
    <3> SUFFICES ASSUME NEW k \in held PROVE Gap(m) <= Gap(k)
      BY Zenon
    <3> HIDE DEF Gap
    <3> QED
      BY <1>3, <2>2
  <2>4. oldest \in held /\ \A k \in held : Gap(oldest) <= Gap(k)
    BY Zenon, <2>3
  <2>5. /\ buffer' = held \ {oldest} /\ cursor' = Leg!Plus(cursor, Gap(oldest) + 1)
        /\ losses' = losses + Gap(oldest) + 1
    BY Zenon, <1>5, LegCounts DEF Leg!EnforceCap
  <2>6. PICK o \in Nat : o = oldest
    BY Zenon, <1>3, <2>4
  <2> HIDE DEF oldest, Gap
  <2>7. o \in held /\ d <= o /\ o <= y /\ Gap(o) = o - d /\ \A k \in held : Gap(o) <= Gap(k)
    BY Zenon, <1>3, <2>4, <2>6
  <2>8. /\ buffer' = held \ {o} /\ cursor' = Leg!Plus(d % SeqSize, (o - d) + 1)
        /\ losses' = losses + (o - d) + 1
    BY Zenon, <2>5, <2>6, <2>7
  <2>9. (o - d) + 1 \in Nat /\ d + ((o - d) + 1) = o + 1 /\ o + 1 \in Nat
    BY <2>7
  <2>10. cursor' = (o + 1) % SeqSize
    <3>1. Leg!Plus(d % SeqSize, (o - d) + 1) = (d + ((o - d) + 1)) % SeqSize
      BY Zenon, <2>9, SerialPlus
    <3> QED
      BY Zenon, <2>8, <2>9, <3>1
  <2>11. losses' = losses + ((o + 1) - d)
    <3>1. losses + (o - d) + 1 = losses + ((o + 1) - d)
      OBVIOUS
    <3> QED
      BY Zenon, <2>8, <3>1
  <2>12. ASSUME NEW k \in buffer' PROVE k \in (o + 1) .. y /\ k - (o + 1) < Half
    <3>1. k \in held /\ k # o
      BY Zenon, <2>8
    <3>2. k \in Nat /\ d <= k /\ k <= y /\ Gap(k) = k - d /\ Gap(o) <= Gap(k)
      BY Zenon, <1>3, <2>7, <3>1
    <3>3. o + 1 <= k /\ k - d < Half
      BY <3>1, <3>2, <2>7
    <3> QED
      BY <3>2, <3>3, <2>7, <1>1
  <2>13. IsFiniteSet(buffer') /\ Cardinality(buffer') <= Cap
    <3>1. IsFiniteSet(buffer') /\ Cardinality(buffer') = Cardinality(held) - 1
      BY Zenon, <2>7, <2>8 DEF Counting
    <3> QED
      BY <3>1, <1>1, <1>2
  <2>14. o + 1 <= y + 1 /\ o + 1 >= d
    BY <2>7
  <2>15. PlacedBuffer(o + 1, y)'
    <3>1. buffer' \subseteq (o + 1) .. y /\ \A k \in buffer' : k - (o + 1) < Half
      BY Zenon, <2>12
    <3> QED
      BY Zenon, <2>10, <2>13, <2>14, <3>1 DEF PlacedBuffer
  <2> QED
    BY Zenon, <2>9, <2>11, <2>14, <2>15
<1> QED
  BY Zenon, <1>4, <1>5


LEMMA PushPlaced ==
  ASSUME Counting, LegInReach, NEW d \in Nat, NEW x \in Number, NEW n \in Number,
         PlacedBuffer(d, x), n - d < Half, d - n <= Half, losses \in Nat, Leg!Push(n)
  PROVE  \E e \in Nat : /\ e >= d /\ losses' = losses + (e - d)
                        /\ PlacedBuffer(e, Later(n, x))'
<1> DEFINE y == Later(n, x)
<1>1. n \in Nat /\ x \in Nat
  BY Zenon, Constants
<1>2. /\ SeqSize \in Nat /\ Half \in Nat /\ 2 * Half <= SeqSize /\ Half < SeqSize /\ Cap \in Nat
  BY Zenon, Constants, LegAssumption
<1>3. y \in Nat /\ x <= y /\ n <= y
  BY <1>1 DEF Later
<1>4. /\ cursor = d % SeqSize /\ d <= x + 1 /\ buffer \subseteq d .. x
      /\ \A m \in buffer : m - d < Half
      /\ IsFiniteSet(buffer) /\ Cardinality(buffer) <= Cap
  BY Zenon DEF PlacedBuffer
<1>5. cursor # None
  <2>1. d \in Int
    OBVIOUS
  <2>2. d % SeqSize \in SeqNo
    BY Zenon, <2>1, Modulo, StreamAssumption DEF SeqNo
  <2> QED
    BY Zenon, <1>4, <2>2, StreamAssumption
<1> HIDE DEF y
<1>6. CASE UNCHANGED <<buffer, cursor, losses>>
  <2>1. d >= d /\ losses + (d - d) = losses /\ d <= y + 1 /\ d .. x \subseteq d .. y
    BY <1>1, <1>3, <1>4
  <2>2. PlacedBuffer(d, y)'
    BY Zenon, <1>4, <1>6, <2>1 DEF PlacedBuffer
  <2>3. losses' = losses + (d - d)
    BY Zenon, <1>6, <2>1
  <2> QED
    BY Zenon, <2>1, <2>2, <2>3 DEF y
<1>7. CASE /\ ~(Leg!Distance(Leg!Sequence(n), cursor) >= Leg!HalfRange)
           /\ Leg!EnforceCap(buffer \cup {n})
  <2>1. d <= n
    <3>1. n < d => Leg!Distance(n % SeqSize, d % SeqSize) = (n - d) + SeqSize
      <4>1. n < d => d - n <= SeqSize
        BY <1>1, <1>2
      <4> QED
        BY Zenon, <4>1, <1>1, SerialDistance
    <3>2. ~(Leg!Distance(n % SeqSize, d % SeqSize) >= Half)
      BY Zenon, <1>4, <1>7, HalfRangeIsHalf DEF Leg!Sequence
    <3>3. n < d => (n - d) + SeqSize >= Half
      BY <1>1, <1>2
    <3>4. ~(n < d)
      BY Zenon, <3>1, <3>2, <3>3
    <3> QED
      BY <3>4, <1>1
  <2> DEFINE held == buffer \cup {n}
  <2>2. held \subseteq d .. y /\ \A m \in held : m - d < Half
    <3>1. d .. x \subseteq d .. y /\ n \in d .. y
      BY <1>1, <1>3, <2>1
    <3> QED
      BY Zenon, <3>1, <1>4
  <2>3. IsFiniteSet(held) /\ Cardinality(held) <= Cap + 1
    <3>1. /\ IsFiniteSet(held) /\ Cardinality(buffer) \in Nat
          /\ Cardinality(held) = IF n \in buffer THEN Cardinality(buffer) ELSE Cardinality(buffer) + 1
      BY Zenon, <1>4 DEF Counting
    <3> QED
      BY <3>1, <1>2, <1>4
  <2>4. d <= y + 1
    BY <1>1, <1>3, <1>4
  <2>5. Leg!EnforceCap(held)
    BY Zenon, <1>7
  <2> HIDE DEF held
  <2>6. \E e \in Nat : e >= d /\ losses' = losses + (e - d) /\ PlacedBuffer(e, y)'
    BY Zenon, <1>3, <1>4, <2>2, <2>3, <2>4, <2>5, CapPlaced DEF y
  <2> QED
    BY Zenon, <2>6 DEF y
<1> QED
  BY Zenon, <1>5, <1>6, <1>7 DEF Leg!Push


(* Legs that start, ingest, play and are built again.                      *)
LEMMA LegStarts ==
  ASSUME Counting PROVE PathInit => LegTypeOK /\ LegPlaced
<1>1. Cardinality({}) <= Cap /\ IsFiniteSet({})
  <2>1. IsFiniteSet({}) /\ Cardinality({}) = 0
    BY Zenon DEF Counting
  <2> QED
    BY <2>1, LegAssumption
<1>2. [count |-> 0, last |-> None] \in [count : Nat, last : Nat \cup {None}] /\ 0 \in Nat
  OBVIOUS
<1> QED
  BY Zenon, <1>1, <1>2 DEF PathInit, StreamInit, Leg!LegInit, LegTypeOK, LegPlaced

LEMMA RebuiltPlaced ==
  ASSUME Counting, Leg!Rebuilt, accepted' = {}
  PROVE  LegTypeOK' /\ LegPlaced'
<1>1. Cardinality({}) <= Cap /\ IsFiniteSet({})
  <2>1. IsFiniteSet({}) /\ Cardinality({}) = 0
    BY Zenon DEF Counting
  <2> QED
    BY <2>1, LegAssumption
<1>2. [count |-> 0, last |-> None] \in [count : Nat, last : Nat \cup {None}] /\ 0 \in Nat
  OBVIOUS
<1> QED
  BY Zenon, <1>1, <1>2 DEF Leg!Rebuilt, LegTypeOK, LegPlaced

(* unprotect_ingress: the first packet, and every later one.               *)
LEMMA FirstIngested ==
  ASSUME Counting, LegInReach, StreamInv, LegTypeOK, LegPlaced, ends = "leg", ends' = ends,
         cursor = None, NEW p \in sent, UnprotectIngress(p)
  PROVE  LegTypeOK' /\ LegPlaced'
<1> DEFINE n == p.n
<1>1. /\ n \in Number /\ p.index = TrueIndex(n)
      /\ newest # None => newest \in Number /\ newest - n < Half
  BY Zenon, IngestedRecently DEF UnprotectIngress
<1>2. /\ accepted' = accepted \cup {TrueIndex(n)}
      /\ newest' = IF newest = None \/ n > newest THEN n ELSE newest
  BY Zenon, <1>1 DEF UnprotectIngress, Unprotect
<1>3. /\ Leg!OnRtp(n % SeqSize) /\ Leg!Push(n) /\ primed' = primed /\ played' = played
  BY Zenon DEF UnprotectIngress, Leg!IngestRtp, Leg!Sequence
<1>4. n % SeqSize \in SeqNo /\ n % SeqSize # None
  BY Zenon, <1>1, SeqType, StreamAssumption
<1> HIDE DEF n
<1>5. /\ buffer = {} /\ losses = 0 /\ source = None /\ accepted = {}
      /\ played = [count |-> 0, last |-> None]
  BY Zenon DEF LegPlaced
<1>6. /\ buffer' = {n} /\ cursor' = n % SeqSize /\ losses' = 0
      /\ source' = [base |-> n % SeqSize, cycles |-> 0, max |-> n % SeqSize]
  BY Zenon, <1>3, <1>5 DEF Leg!Push, Leg!OnRtp, Leg!Sequence
<1>7. /\ n \in Nat /\ n # None /\ newest' # None /\ newest' - n < Half /\ n <= newest'
  <2>1. n \in Nat /\ Half \in Nat /\ 0 < Half /\ Number \subseteq Nat /\ n # None
    BY Zenon, <1>1, Constants, StreamAssumption
  <2>2. CASE newest = None \/ n > newest
    <3>1. newest' = n
      BY Zenon, <2>2, <1>2
    <3> QED
      BY <2>1, <3>1
  <2>3. CASE ~(newest = None \/ n > newest)
    <3>1. newest' = newest /\ newest \in Nat /\ newest # None /\ newest - n < Half
      BY Zenon, <2>1, <2>3, <1>1, <1>2
    <3>2. ~(n > newest)
      BY Zenon, <2>3
    <3>3. n <= newest
      BY <2>1, <3>1, <3>2
    <3> QED
      BY Zenon, <2>1, <3>1, <3>3
  <2> QED
    BY Zenon, <2>2, <2>3
<1>8. source' \in [base : SeqNo, cycles : Nat, max : SeqNo]
  BY <1>4, <1>6
<1>9. LegTypeOK'
  <2>1. IsFiniteSet({n}) /\ Cardinality({n}) = 1
    BY Zenon DEF Counting
  <2>2. Cardinality({n}) <= Cap
    BY <2>1, LegAssumption
  <2>3. 0 \in Nat /\ played' \in [count : Nat, last : Nat \cup {None}]
    BY <1>3, <1>5
  <2> QED
    BY Zenon, <2>1, <2>2, <2>3, <1>6, <1>8 DEF LegTypeOK
<1>10. Playout(n, n, n)'
  <2>1. /\ n <= n /\ n <= n + 1 /\ {n} \subseteq n .. n /\ 0 + 0 = n - n
        /\ n - n < Half
    BY <1>7, Constants
  <2>2. played'.count = 0 /\ played'.last = None
    BY <1>3, <1>5
  <2>3. /\ source'.base = n % SeqSize /\ source'.max = n % SeqSize /\ source'.cycles = 0
        /\ source' # None
    <3>1. source'.base = n % SeqSize /\ source'.max = n % SeqSize /\ source'.cycles = 0
      BY <1>6
    <3> QED
      BY Zenon, <3>1, <1>8, LegAssumption
  <2>4. (source'.cycles * SeqSize + source'.max) - source'.base = n - n
    BY <1>4, <1>7, <2>3, StreamAssumption DEF SeqNo
  <2>5. /\ TrueIndex(n) \in accepted' /\ \A i \in accepted' : i <= TrueIndex(n)
    <3>1. accepted' = {TrueIndex(n)} /\ TrueIndex(n) \in Int
      BY Zenon, <1>1, <1>2, <1>5, TrueIndexDifference
    <3>2. TrueIndex(n) <= TrueIndex(n)
      BY <3>1
    <3> QED
      BY Zenon, <3>1, <3>2
  <2>6. \A m \in buffer' : m - n < Half
    BY Zenon, <1>6, <2>1
  <2>7. losses' + played'.count = n - n
    BY Zenon, <1>6, <2>1, <2>2
  <2> QED
    BY Zenon, <1>6, <1>7, <2>1, <2>2, <2>3, <2>4, <2>5, <2>6, <2>7 DEF Playout
<1> QED
  BY Zenon, <1>1, <1>4, <1>6, <1>7, <1>9, <1>10 DEF LegPlaced


LEMMA DueIsDue ==
  ASSUME LegInReach, newest \in Number, NEW d \in Nat, cursor = d % SeqSize,
         d <= newest + 1, newest - d < Half
  PROVE  Due = d
<1>1. newest \in Nat /\ newest + 1 \in Nat
  BY Constants
<1>2. (newest + 1) - d < SeqSize
  BY <1>1, Constants
<1>3. Leg!Distance((newest + 1) % SeqSize, d % SeqSize) = (newest + 1) - d
  BY Zenon, <1>1, <1>2, SerialDistance
<1>4. (newest + 1) - ((newest + 1) - d) = d
  BY <1>1
<1> QED
  BY Zenon, <1>3, <1>4 DEF Due, Leg!Sequence

LEMMA NextIngested ==
  ASSUME Counting, LegInReach, StreamInv, LegTypeOK, LegPlaced, ends = "leg", ends' = ends,
         cursor # None, NEW p \in sent, UnprotectIngress(p)
  PROVE  LegTypeOK' /\ LegPlaced'
<1> DEFINE n == p.n
<1>1. PICK d \in Nat, b \in Nat : \E x \in Number : Playout(d, b, x)
  BY Zenon DEF LegPlaced
<1>2. PICK x \in Number : Playout(d, b, x)
  BY Zenon, <1>1
<1> DEFINE y == Later(n, x)
<1>3. /\ n \in Number /\ p.index = TrueIndex(n)
      /\ newest # None => newest \in Number /\ newest - n < Half
      /\ x - n < Window
  BY Zenon, <1>2, IngestedRecently DEF UnprotectIngress, Playout
<1>4. /\ accepted' = accepted \cup {TrueIndex(n)}
      /\ newest' = IF newest = None \/ n > newest THEN n ELSE newest
  BY Zenon, <1>3 DEF UnprotectIngress, Unprotect
<1>5. /\ Leg!OnRtp(n % SeqSize) /\ Leg!Push(n) /\ primed' = primed /\ played' = played
  BY Zenon DEF UnprotectIngress, Leg!IngestRtp, Leg!Sequence
<1>6. /\ accepted # {} => \E i \in accepted : TrueIndex(n) - i < Half
      /\ n - Due < Half
  BY Zenon, <1>3 DEF UnprotectIngress, Serial
<1> HIDE DEF n
<1>7. /\ n \in Nat /\ x \in Nat /\ newest \in Nat /\ newest \in Number /\ newest # None
      /\ Half \in Nat /\ Window \in Nat /\ Window <= Half /\ n # None
  BY Zenon, <1>2, <1>3, Constants, StreamAssumption DEF Playout
<1>8. n - d < Half
  <2>1. d <= newest + 1
    BY <1>2, <1>7 DEF Playout
  <2>2. Due = d
    BY Zenon, <1>2, <1>7, <2>1, DueIsDue DEF Playout
  <2> QED
    BY Zenon, <1>6, <2>2
<1>9. d - n <= Half
  <2>1. d <= x + 1
    BY Zenon, <1>2 DEF Playout
  <2> QED
    BY <2>1, <1>3, <1>7
<1>10. /\ TrueIndex(n) \in Int /\ TrueIndex(x) \in Int /\ TrueIndex(n) - TrueIndex(x) = n - x
  BY Zenon, <1>3, TrueIndexDifference
<1>11. n - x < Half
  <2>1. PICK i \in accepted : TrueIndex(n) - i < Half
    BY Zenon, <1>2, <1>6 DEF Playout
  <2>2. i <= TrueIndex(x)
    BY Zenon, <1>2, <2>1 DEF Playout
  <2>3. i \in Int
    <3>1. i \in PacketIndex
      BY Zenon DEF StreamInv, StreamTypeOK
    <3> QED
      BY <3>1 DEF PacketIndex
  <2> QED
    BY <2>1, <2>2, <2>3, <1>7, <1>10
<1>12. source \in [base : SeqNo, cycles : Nat, max : SeqNo]
  BY Zenon, <1>2 DEF Playout, LegTypeOK
<1>13. /\ source' \in [base : SeqNo, cycles : Nat, max : SeqNo]
       /\ source'.base = b % SeqSize /\ source'.max = y % SeqSize
       /\ (source'.cycles * SeqSize + source'.max) - source'.base = y - b
  BY Zenon, <1>2, <1>3, <1>5, <1>11, <1>12, OnRtpPlaced DEF Playout
<1>14. PICK e \in Nat : e >= d /\ losses' = losses + (e - d) /\ PlacedBuffer(e, y)'
  <2>1. PlacedBuffer(d, x) /\ losses \in Nat
    BY Zenon, <1>2 DEF Playout, PlacedBuffer, LegTypeOK
  <2> QED
    BY Zenon, <2>1, <1>3, <1>5, <1>8, <1>9, PushPlaced
<1>15. y \in Number /\ y \in Nat /\ n <= y /\ x <= y /\ (y = n \/ y = x)
  <2>1. y \in Number /\ (y = n \/ y = x)
    BY Zenon, <1>3 DEF Later
  <2>2. n <= y /\ x <= y /\ y \in Nat
    BY <1>7 DEF Later
  <2> QED
    BY Zenon, <2>1, <2>2
<1> HIDE DEF y
<1>16. LegTypeOK'
  <2>1. losses' \in Nat
    <3>1. losses \in Nat
      BY Zenon DEF LegTypeOK
    <3> DEFINE k == e - d
    <3>2. k \in Nat
      BY <1>14
    <3>3. losses' = losses + k
      BY Zenon, <1>14
    <3> HIDE DEF k
    <3> QED
      BY <3>1, <3>2, <3>3
  <2> QED
    BY Zenon, <2>1, <1>5, <1>13, <1>14 DEF LegTypeOK, PlacedBuffer
<1>17. Playout(e, b, y)'
  <2>1. cursor' = e % SeqSize /\ e <= y + 1 /\ buffer' \subseteq e .. y /\ \A m \in buffer' : m - e < Half
    BY Zenon, <1>14 DEF PlacedBuffer
  <2>2. b <= e /\ losses' + played'.count = e - b
    <3>1. losses \in Nat /\ played.count \in Nat /\ b <= d /\ losses + played.count = d - b
      BY Zenon, <1>2 DEF Playout, LegTypeOK
    <3> DEFINE c == played.count
    <3>2. losses' + played'.count = (losses + (e - d)) + c
      BY Zenon, <1>5, <1>14
    <3> HIDE DEF c
    <3>3. b <= e /\ (losses + (e - d)) + c = e - b
      BY <3>1, <1>14 DEF c
    <3> QED
      BY Zenon, <3>2, <3>3
  <2>3. played'.last # None => played'.last < e
    <3>1. played.last \in Nat \cup {None} /\ (played.last # None => played.last < d)
      BY Zenon, <1>2 DEF Playout, LegTypeOK
    <3>2. played' = played /\ e >= d
      BY Zenon, <1>5, <1>14
    <3> QED
      BY <3>1, <3>2
  <2>4. source' # None
    BY Zenon, <1>13, LegAssumption
  <2>5. TrueIndex(y) \in accepted' /\ \A i \in accepted' : i <= TrueIndex(y)
    <3>1. TrueIndex(y) \in accepted'
      BY Zenon, <1>2, <1>4, <1>15 DEF Playout
    <3>2. TrueIndex(n) <= TrueIndex(y) /\ TrueIndex(x) <= TrueIndex(y) /\ TrueIndex(y) \in Int
      <4>1. /\ TrueIndex(y) \in Int /\ TrueIndex(y) - TrueIndex(n) = y - n
            /\ TrueIndex(y) - TrueIndex(x) = y - x
        BY Zenon, <1>3, <1>15, TrueIndexDifference
      <4> QED
        BY <4>1, <1>7, <1>10, <1>15
    <3> SUFFICES ASSUME NEW i \in accepted' PROVE i <= TrueIndex(y)
      BY Zenon, <3>1
    <3>3. CASE i \in accepted
      <4>1. i <= TrueIndex(x)
        BY Zenon, <1>2, <3>3 DEF Playout
      <4>2. i \in Int
        <5>1. i \in PacketIndex
          BY Zenon, <3>3 DEF StreamInv, StreamTypeOK
        <5> QED
          BY <5>1 DEF PacketIndex
      <4> QED
        BY <4>1, <4>2, <3>2, <1>10
    <3> QED
      BY Zenon, <3>2, <3>3, <1>4
  <2>6. newest' # None /\ newest' - e < Half /\ y <= newest'
    <3>1. newest - d < Half /\ x <= newest
      BY Zenon, <1>2 DEF Playout
    <3>2. CASE n > newest
      <4>1. newest' = n
        BY Zenon, <3>2, <1>4
      <4>2. n - e < Half /\ y <= n
        BY <3>1, <3>2, <1>7, <1>8, <1>14, <1>15
      <4> QED
        BY Zenon, <4>1, <4>2, <1>7
    <3>3. CASE ~(n > newest)
      <4>1. newest' = newest
        BY Zenon, <3>3, <1>4, <1>7
      <4>2. newest - e < Half /\ y <= newest
        BY <3>1, <3>3, <1>7, <1>14, <1>15
      <4> QED
        BY Zenon, <4>1, <4>2, <1>7
    <3> QED
      BY Zenon, <3>2, <3>3
  <2> QED
    BY Zenon, <1>13, <2>1, <2>2, <2>3, <2>4, <2>5, <2>6 DEF Playout
<1>18. cursor' # None
  <2>1. e \in Int
    OBVIOUS
  <2>2. e % SeqSize \in SeqNo
    BY Zenon, <2>1, Modulo, StreamAssumption DEF SeqNo
  <2> QED
    BY Zenon, <2>2, <1>17, StreamAssumption DEF Playout
<1> QED
  BY Zenon, <1>15, <1>16, <1>17, <1>18 DEF LegPlaced


(* next_pcm: a frame that is decoded is the one that was due.              *)
LEMMA HeldIsDue ==
  ASSUME LegInReach, NEW d \in Nat, NEW b \in Nat, NEW x \in Number, Playout(d, b, x)
  PROVE  /\ \A n \in Leg!Held(cursor) : n = d
         /\ d \in buffer => d \in Leg!Held(cursor)
<1>1. cursor = d % SeqSize /\ buffer \subseteq d .. x /\ \A n \in buffer : n - d < Half
  BY Zenon DEF Playout
<1>2. ASSUME NEW n \in Leg!Held(cursor) PROVE n = d
  <2>1. n \in buffer /\ n % SeqSize = d % SeqSize
    BY Zenon, <1>1 DEF Leg!Held, Leg!Sequence
  <2>2. n \in Nat /\ d <= n /\ n - d < SeqSize
    BY <1>1, <2>1, Constants
  <2>3. Leg!Distance(d % SeqSize, d % SeqSize) = n - d
    BY Zenon, <2>1, <2>2, SerialDistance
  <2>4. d <= d /\ d - d < SeqSize
    BY Constants
  <2>5. Leg!Distance(d % SeqSize, d % SeqSize) = d - d
    BY Zenon, <2>4, SerialDistance
  <2> QED
    BY <2>2, <2>3, <2>5
<1>3. d \in buffer => d \in Leg!Held(cursor)
  BY Zenon, <1>1 DEF Leg!Held, Leg!Sequence
<1> QED
  BY Zenon, <1>2, <1>3

LEMMA PopPlaced ==
  ASSUME Counting, LegInReach, StreamTypeOK, LegTypeOK, LegPlaced, UNCHANGED streamVars, ends' = ends,
         Leg!PopPacket \/ Leg!PopConceal
  PROVE  /\ LegTypeOK' /\ LegPlaced'
         /\ played.last # None /\ played'.count > played.count => played.last < played'.last
<1>1. cursor # None
  BY Zenon DEF Leg!PopPacket, Leg!PopConceal, Leg!Ready
<1>2. PICK d \in Nat, b \in Nat : \E x \in Number : Playout(d, b, x)
  BY Zenon, <1>1 DEF LegPlaced
<1>3. PICK x \in Number : Playout(d, b, x)
  BY Zenon, <1>2
<1>4. x \in Nat /\ Half \in Nat /\ newest \in Nat
  BY Zenon, <1>3, Constants DEF Playout, StreamTypeOK
<1>5. /\ cursor = d % SeqSize /\ b <= d /\ d <= x + 1 /\ buffer \subseteq d .. x
      /\ \A n \in buffer : n - d < Half
      /\ losses + played.count = d - b /\ (played.last # None => played.last < d)
      /\ newest - d < Half
      /\ losses \in Nat /\ played.count \in Nat /\ played.last \in Nat \cup {None}
      /\ IsFiniteSet(buffer) /\ Cardinality(buffer) <= Cap /\ Cardinality(buffer) \in Nat
  BY Zenon, <1>3 DEF Playout, LegTypeOK, Counting
<1>6. d + 1 \in Nat /\ 1 \in Nat /\ Cap \in Nat
  BY LegAssumption
<1>7. cursor' = (d + 1) % SeqSize
  <2>1. cursor' = Leg!Plus(cursor, 1)
    BY Zenon DEF Leg!PopPacket, Leg!PopConceal
  <2> QED
    BY Zenon, <2>1, <1>5, <1>6, SerialPlus
<1>8. cursor' # None
  <2>1. d + 1 \in Int
    OBVIOUS
  <2>2. (d + 1) % SeqSize \in SeqNo
    BY Zenon, <2>1, Modulo, StreamAssumption DEF SeqNo
  <2> QED
    BY Zenon, <2>2, <1>7, StreamAssumption
<1>9. UNCHANGED <<accepted, newest, source>>
  BY Zenon DEF Leg!PopPacket, Leg!PopConceal, streamVars, history
<1>10. /\ d < x + 1 /\ buffer' \subseteq (d + 1) .. x
       /\ IsFiniteSet(buffer') /\ Cardinality(buffer') <= Cap
       /\ losses' \in Nat /\ played' \in [count : Nat, last : Nat \cup {None}]
       /\ losses' + played'.count = (d + 1) - b
       /\ played'.last # None => played'.last < d + 1
       /\ played.last # None /\ played'.count > played.count => played.last < played'.last
  <2>1. CASE Leg!PopPacket
    <3>1. PICK n \in Leg!Held(cursor) : /\ buffer' = buffer \ {n}
                                        /\ played' = [count |-> played.count + 1, last |-> n]
      BY Zenon, <2>1 DEF Leg!PopPacket
    <3>2. n = d /\ n \in buffer /\ losses' = losses
      BY Zenon, <1>3, <2>1, <3>1, HeldIsDue DEF Leg!Held, Leg!PopPacket
    <3>3. d < x + 1 /\ d \in d .. x
      BY <1>4, <1>5, <3>2
    <3>4. buffer' \subseteq (d + 1) .. x
      BY <1>4, <1>5, <3>1, <3>2
    <3>5. played'.count = played.count + 1 /\ played'.last = d
      BY <3>1, <3>2
    <3>6. IsFiniteSet(buffer') /\ Cardinality(buffer') = Cardinality(buffer) - 1
      BY Zenon, <1>5, <3>1, <3>2 DEF Counting
    <3>7. Cardinality(buffer') <= Cap
      BY <3>6, <1>5, <1>6
    <3>8. played' \in [count : Nat, last : Nat \cup {None}]
      BY <1>5, <3>1, <3>2
    <3>9. losses' + played'.count = (d + 1) - b /\ d < d + 1
      <4> DEFINE c == played.count
      <4>1. losses + c = d - b /\ losses \in Nat /\ c \in Nat
        BY Zenon, <1>5
      <4> HIDE DEF c
      <4>2. losses + (c + 1) = (d + 1) - b /\ d < d + 1
        BY <4>1
      <4> QED
        BY Zenon, <4>2, <3>2, <3>5 DEF c
    <3> QED
      BY Zenon, <1>5, <3>2, <3>3, <3>4, <3>5, <3>6, <3>7, <3>8, <3>9
  <2>2. CASE Leg!PopConceal
    <3>1. /\ Leg!Held(cursor) = {} /\ buffer # {} /\ losses' = losses + 1
          /\ buffer' = buffer /\ played' = played
      BY Zenon, <2>2 DEF Leg!PopConceal
    <3>2. d \notin buffer
      BY Zenon, <1>3, <3>1, HeldIsDue
    <3>3. d < x + 1 /\ buffer' \subseteq (d + 1) .. x
      <4>1. \A n \in buffer : n \in (d + 1) .. x
        <5> SUFFICES ASSUME NEW n \in buffer PROVE n \in (d + 1) .. x
          BY Zenon
        <5>1. n \in d .. x /\ n # d
          BY Zenon, <1>5, <3>2
        <5> QED
          BY <5>1, <1>4
      <4>2. PICK n \in buffer : TRUE
        BY Zenon, <3>1
      <4>3. n \in (d + 1) .. x
        BY Zenon, <4>1
      <4>4. d < x + 1
        BY <4>3, <1>4
      <4> QED
        BY Zenon, <4>1, <4>4, <3>1
    <3>4. losses' \in Nat /\ losses' + played'.count = (d + 1) - b
      <4> DEFINE c == played.count
      <4>1. losses + c = d - b /\ losses \in Nat /\ c \in Nat
        BY Zenon, <1>5
      <4> HIDE DEF c
      <4>2. (losses + 1) + c = (d + 1) - b /\ losses + 1 \in Nat
        BY <4>1
      <4> QED
        BY Zenon, <4>2, <3>1 DEF c
    <3>5. played.last # None => played.last < d + 1
      BY <1>5
    <3>6. ~(played.count > played.count)
      BY <1>5
    <3> QED
      BY Zenon, <1>5, <3>1, <3>3, <3>4, <3>5, <3>6 DEF LegTypeOK
  <2> QED
    BY Zenon, <2>1, <2>2
<1>11. Playout(d + 1, b, x)'
  <2>1. b <= d + 1 /\ d + 1 <= x + 1 /\ newest - (d + 1) < Half
    BY <1>4, <1>5, <1>10
  <2>2. \A n \in buffer' : n - (d + 1) < Half
    <3> SUFFICES ASSUME NEW n \in buffer' PROVE n - (d + 1) < Half
      BY Zenon
    <3>1. n \in buffer
      BY Zenon DEF Leg!PopPacket, Leg!PopConceal
    <3> QED
      BY <3>1, <1>4, <1>5
  <2> QED
    BY Zenon, <1>3, <1>7, <1>9, <1>10, <2>1, <2>2 DEF Playout
<1>12. LegTypeOK'
  BY Zenon, <1>9, <1>10 DEF LegTypeOK
<1>13. LegPlaced'
  BY Zenon, <1>1, <1>6, <1>8, <1>11 DEF LegPlaced
<1> QED
  BY Zenon, <1>10, <1>12, <1>13


(* Every step of the path keeps the leg in place, and a frame it decodes   *)
(* is newer than the last.                                                 *)
LEMMA PathPlaced ==
  ASSUME Counting, LegInReach, StreamInv, LegTypeOK, LegPlaced, [PathNext]_pathVars
  PROVE  /\ LegTypeOK' /\ LegPlaced'
         /\ played.last # None /\ played'.count > played.count => played.last < played'.last
<1>1. played.count \in Nat
  BY Zenon DEF LegTypeOK
<1>2. ASSUME UNCHANGED <<buffer, cursor, losses, source, played, accepted, newest, ends>>
      PROVE  LegTypeOK' /\ LegPlaced'
  BY Zenon, <1>2 DEF LegTypeOK, LegPlaced, Playout
<1>3. ~(played.count > played.count)
  BY <1>1
<1>4. CASE UNCHANGED pathVars
  BY Zenon, <1>2, <1>3, <1>4 DEF pathVars, streamVars, history, legVars
<1>5. ASSUME NEW n \in Number, Protect(n), UNCHANGED legVars, ends' = ends
      PROVE  UNCHANGED <<buffer, cursor, losses, source, played, accepted, newest, ends>>
  BY Zenon, <1>5 DEF Protect, history, legVars
<1>6. ASSUME Bridged, ends' = ends PROVE LegTypeOK' /\ LegPlaced' /\ played' = played
  <2>1. ends = "bridge" /\ UNCHANGED legVars
    BY Zenon, <1>6 DEF Bridged
  <2>2. "bridge" # "leg"
    OBVIOUS
  <2>3. UNCHANGED <<buffer, cursor, losses, source, played>> /\ ends' # "leg" /\ ends # "leg"
    BY Zenon, <1>6, <2>1, <2>2 DEF legVars
  <2>4. cursor = None
    BY Zenon, <2>3 DEF LegPlaced
  <2> QED
    BY Zenon, <2>3, <2>4 DEF LegTypeOK, LegPlaced
<1>7. ASSUME ends = "leg", ends' = ends, NEW p \in sent, UnprotectIngress(p)
      PROVE  LegTypeOK' /\ LegPlaced' /\ played' = played
  <2>1. LegTypeOK' /\ LegPlaced'
    BY Zenon, <1>7, FirstIngested, NextIngested
  <2> QED
    BY Zenon, <2>1, <1>7 DEF UnprotectIngress, Leg!IngestRtp
<1>8. ASSUME Leg!NextPcm, UNCHANGED streamVars, ends' = ends
      PROVE  /\ LegTypeOK' /\ LegPlaced'
             /\ played.last # None /\ played'.count > played.count => played.last < played'.last
  <2>1. CASE Leg!PopPacket \/ Leg!PopConceal
    BY Zenon, <1>8, <2>1, PopPlaced DEF StreamInv
  <2>2. CASE Leg!PopUnderrun
    BY Zenon, <1>2, <1>3, <1>8, <2>2 DEF Leg!PopUnderrun, streamVars, history
  <2> QED
    BY Zenon, <1>8, <2>1, <2>2 DEF Leg!NextPcm
<1>9. ASSUME CheckpointEnd("receiver"), UNCHANGED legVars, ends' = ends
      PROVE  UNCHANGED <<buffer, cursor, losses, source, played, accepted, newest, ends>>
  BY Zenon, <1>9 DEF CheckpointEnd, history, legVars
<1>10. ASSUME ReceiverTakeover, Leg!Rebuilt
       PROVE  /\ LegTypeOK' /\ LegPlaced'
              /\ ~(played'.count > played.count)
  <2>1. accepted' = {} /\ played' = [count |-> 0, last |-> None]
    BY Zenon, <1>10 DEF ReceiverTakeover, Leg!Rebuilt
  <2>2. ~(played'.count > played.count)
    BY <2>1, <1>1
  <2> QED
    BY Zenon, <1>10, <2>1, <2>2, RebuiltPlaced
<1>11. ASSUME Terminated, ends' = ends
       PROVE  /\ LegTypeOK' /\ LegPlaced'
              /\ played.last # None /\ played'.count > played.count => played.last < played'.last
  <2>1. ends = "leg"
    BY Zenon, <1>11 DEF Terminated
  <2>2. \/ \E p \in sent : UnprotectIngress(p)
        \/ Leg!NextPcm /\ UNCHANGED streamVars
        \/ CheckpointEnd("receiver") /\ UNCHANGED legVars
        \/ ReceiverTakeover /\ Leg!Rebuilt
    BY Zenon, <1>11 DEF Terminated
  <2> QED
    BY Zenon, <1>2, <1>3, <1>7, <1>8, <1>9, <1>10, <1>11, <2>1, <2>2
<1> QED
  BY Zenon, <1>2, <1>3, <1>4, <1>5, <1>6, <1>11 DEF PathNext

(* Every slot of the playout, decoded, lost or waiting, lies between the   *)
(* first number the leg took and the newest.                               *)
LEMMA PlacedWithinExpected ==
  ASSUME LegInReach, Counting, LegTypeOK, LegPlaced PROVE SlotsWithinExpected
<1>1. CASE cursor = None
  <2>1. buffer = {} /\ losses = 0 /\ source = None /\ played = [count |-> 0, last |-> None]
    BY Zenon, <1>1 DEF LegPlaced
  <2>2. Cardinality(buffer) = 0 /\ Leg!Expected = 0
    BY Zenon, <2>1 DEF Leg!Expected, Counting
  <2>3. played.count = 0
    BY <2>1
  <2> QED
    BY <2>1, <2>2, <2>3 DEF SlotsWithinExpected
<1>2. CASE cursor # None
  <2>1. PICK d \in Nat, b \in Nat : \E x \in Number : Playout(d, b, x)
    BY Zenon, <1>2 DEF LegPlaced
  <2>2. PICK x \in Number : Playout(d, b, x)
    BY Zenon, <2>1
  <2>3. x \in Nat
    BY Zenon, Constants
  <2>4. buffer \in SUBSET (d .. x) /\ d <= x + 1 /\ losses + played.count = d - b
    BY Zenon, <2>2 DEF Playout
  <2>5. Cardinality(buffer) <= (x + 1) - d
    <3>1. d \in Int /\ x \in Int
      BY <2>3
    <3>2. Cardinality(buffer) <= (IF d > x THEN 0 ELSE x - d + 1) /\ Cardinality(buffer) \in Nat
      BY Zenon, <2>4, <3>1 DEF Counting, LegTypeOK
    <3> DEFINE h == Cardinality(buffer)
    <3>3. h \in Nat /\ h <= IF d > x THEN 0 ELSE x - d + 1
      BY Zenon, <3>2
    <3> HIDE DEF h
    <3>4. h <= (x + 1) - d
      BY <3>3, <2>3, <2>4
    <3> QED
      BY Zenon, <3>4 DEF h
  <2>6. Leg!Expected = (x - b) + 1
    <3>1. Leg!Expected = source.cycles * SeqSize + source.max - source.base + 1
      BY Zenon, <2>2 DEF Playout, Leg!Expected
    <3>2. source.cycles \in Nat /\ source.max \in Int /\ source.base \in Int
      <4>1. source \in [base : SeqNo, cycles : Nat, max : SeqNo]
        BY Zenon, <2>2 DEF Playout, LegTypeOK
      <4> QED
        BY <4>1, StreamAssumption DEF SeqNo
    <3> DEFINE C == source.cycles * SeqSize
    <3> DEFINE M == source.max
    <3> DEFINE B == source.base
    <3>3. C \in Int
      BY <3>2, StreamAssumption
    <3>4. (C + M) - B = x - b /\ M \in Int /\ B \in Int
      BY Zenon, <2>2, <3>2 DEF Playout
    <3> HIDE DEF C, M, B
    <3>5. C + M - B + 1 = (x - b) + 1
      BY <2>3, <3>3, <3>4
    <3> QED
      BY Zenon, <3>1, <3>5 DEF C, M, B
  <2>7. losses \in Nat /\ played.count \in Nat /\ Cardinality(buffer) \in Nat
    BY Zenon DEF LegTypeOK, Counting
  <2> DEFINE h == Cardinality(buffer)
  <2> DEFINE c == played.count
  <2>8. losses \in Nat /\ c \in Nat /\ h \in Nat /\ losses + c = d - b /\ h <= (x + 1) - d
    BY Zenon, <2>4, <2>5, <2>7
  <2> HIDE DEF h, c
  <2>9. losses + c + h <= (x - b) + 1
    BY <2>3, <2>8
  <2> QED
    BY Zenon, <2>6, <2>9 DEF SlotsWithinExpected, h, c
<1> QED
  BY Zenon, <1>1, <1>2

LEMMA PlacedAhead ==
  ASSUME LegInReach, LegTypeOK, LegPlaced PROVE HeldAhead
<1> SUFFICES ASSUME NEW n \in buffer
             PROVE  Leg!Distance(n % SeqSize, cursor) < Half
  BY Zenon DEF HeldAhead, LegTypeOK
<1>1. cursor # None
  BY Zenon DEF LegPlaced
<1>2. PICK d \in Nat, b \in Nat : \E x \in Number : Playout(d, b, x)
  BY Zenon, <1>1 DEF LegPlaced
<1>3. PICK x \in Number : Playout(d, b, x)
  BY Zenon, <1>2
<1>4. cursor = d % SeqSize /\ n \in d .. x /\ n - d < Half
  BY Zenon, <1>3 DEF Playout
<1>5. n \in Nat /\ d <= n /\ n - d < SeqSize
  BY <1>4, Constants
<1>6. Leg!Distance(n % SeqSize, d % SeqSize) = n - d
  BY Zenon, <1>5, SerialDistance
<1> QED
  BY Zenon, <1>4, <1>6

-----------------------------------------------------------------------------
(* From the library.                                                       *)
Sets == INSTANCE FiniteSetTheorems

LEMMA SameSets ==
  /\ \A T : Sets!IsFiniteSet(T) <=> IsFiniteSet(T)
  /\ \A T : Sets!Cardinality(T) = Cardinality(T)
<1>1. \A T : Sets!IsFiniteSet(T) <=> IsFiniteSet(T)
  BY Zenon DEF Sets!IsFiniteSet, IsFiniteSet
<1>2. \A T : Sets!Cardinality(T) = Cardinality(T)
  BY Zenon DEF Sets!Cardinality, Cardinality
<1> QED
  BY Zenon, <1>1, <1>2

LEMMA Smallest ==
  ASSUME NEW T, T \subseteq Nat, T # {}
  PROVE  \E m \in T : \A k \in T : m <= k
<1>1. PICK m \in T : \A k \in T : ~ (<<k, m>> \in Sets!OpToRel(<, Nat))
  BY Zenon, Sets!WFMin, Sets!NatLessThanWellFounded
<1>2. \A k \in T : ~(k < m)
  BY <1>1 DEF Sets!OpToRel
<1>3. \A k \in T : m <= k
  BY <1>2
<1> QED
  BY Zenon, <1>3

LEMMA CountingHolds == Counting
<1>1. \A T \in SUBSET Nat : T # {} => \E m \in T : \A k \in T : m <= k
  BY Zenon, Smallest
<1>2. IsFiniteSet({}) /\ Cardinality({}) = 0
  BY Zenon, Sets!FS_EmptySet, SameSets
<1>3. \A x : IsFiniteSet({x}) /\ Cardinality({x}) = 1
  BY Zenon, Sets!FS_Singleton, SameSets
<1>4. \A T : IsFiniteSet(T) => Cardinality(T) \in Nat /\ (Cardinality(T) = 0 <=> T = {})
  BY Zenon, Sets!FS_CardinalityType, Sets!FS_EmptySet, SameSets
<1>5. \A T, x : IsFiniteSet(T) =>
        /\ IsFiniteSet(T \cup {x})
        /\ Cardinality(T \cup {x}) =
             IF x \in T THEN Cardinality(T) ELSE Cardinality(T) + 1
  BY Zenon, Sets!FS_AddElement, SameSets
<1>6. \A T, x : IsFiniteSet(T) =>
        /\ IsFiniteSet(T \ {x})
        /\ Cardinality(T \ {x}) =
             IF x \in T THEN Cardinality(T) - 1 ELSE Cardinality(T)
  BY Zenon, Sets!FS_RemoveElement, SameSets
<1>7. \A a, b \in Int : \A T \in SUBSET (a .. b) :
        Cardinality(T) <= IF a > b THEN 0 ELSE b - a + 1
  <2> SUFFICES ASSUME NEW a \in Int, NEW b \in Int, NEW T \in SUBSET (a .. b)
               PROVE  Cardinality(T) <= IF a > b THEN 0 ELSE b - a + 1
    BY Zenon
  <2>1. IsFiniteSet(a .. b) /\ Cardinality(a .. b) = IF a > b THEN 0 ELSE b - a + 1
    BY Zenon, Sets!FS_Interval, SameSets
  <2>2. Cardinality(T) <= Cardinality(a .. b)
    BY Zenon, <2>1, Sets!FS_Subset, SameSets
  <2> QED
    BY Zenon, <2>1, <2>2
<1> QED
  BY Zenon, <1>1, <1>2, <1>3, <1>4, <1>5, <1>6, <1>7 DEF Counting

-----------------------------------------------------------------------------
(* The theorems.                                                           *)

LEMMA LegAlwaysPlaced ==
  ASSUME LegInReach PROVE PathSpec => [](StreamInv /\ LegTypeOK /\ LegPlaced)
<1>1. StreamInv /\ LegTypeOK /\ LegPlaced /\ [PathNext]_pathVars => LegTypeOK' /\ LegPlaced'
  BY Zenon, PathPlaced, CountingHolds
<1>2. StreamSpec => []StreamInv
  BY Zenon, StreamInvAlways DEF LegInReach
<1>3. PathInit => LegTypeOK /\ LegPlaced
  BY Zenon, LegStarts, CountingHolds
<1> QED
  BY <1>1, <1>2, <1>3, PathIsAStream, PTL DEF PathSpec

(* A leg plays the source's packets in their order and each once, across   *)
(* every wrap, overflow and takeover (push, enforce_cap, pop).             *)
THEOREM LegPlaysInOrder == ASSUME LegInReach PROVE PathSpec => PlayedInOrder
<1>1. StreamInv /\ LegTypeOK /\ LegPlaced /\ [PathNext]_pathVars
        => [(played'.count > played.count /\ played.last # None)
              => played.last < played'.last]_pathVars
  BY Zenon, PathPlaced, CountingHolds
<1> QED
  BY <1>1, LegAlwaysPlaced, PTL DEF PathSpec, PlayedInOrder

(* Every slot of the playout, decoded, lost or waiting, is one of those    *)
(* the statistics expect (on_rtp, expected, push, pop).                    *)
THEOREM SlotsAreExpected == ASSUME LegInReach PROVE PathSpec => []SlotsWithinExpected
<1>1. LegTypeOK /\ LegPlaced => SlotsWithinExpected
  BY Zenon, PlacedWithinExpected, CountingHolds
<1> QED
  BY <1>1, LegAlwaysPlaced, PTL

(* The buffer keeps its cap and no packet held is overtaken by the cursor  *)
(* (push, enforce_cap, pop).                                               *)
THEOREM HeldStaysAhead == ASSUME LegInReach PROVE PathSpec => []HeldAhead
<1>1. LegTypeOK /\ LegPlaced => HeldAhead
  BY Zenon, PlacedAhead
<1> QED
  BY <1>1, LegAlwaysPlaced, PTL
==============================================================================
