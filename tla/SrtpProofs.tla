----------------------------- MODULE SrtpProofs -----------------------------
(***************************************************************************)
(* The replay filter, for every window width, and the two contexts built   *)
(* on it.                                                                  *)
(*                                                                         *)
(* A context of a floor leg seals no two packets under one key and index   *)
(* unless it was resumed from too old a checkpoint; a leg accepts each     *)
(* packet of the phone once and, as long as it is keyed, latches only onto *)
(* an authentic one, for every number of keys, indices, packets and        *)
(* takeovers.                                                              *)
(*                                                                         *)
(* An SRTP receiver accepts an index at most once and a standby resumes    *)
(* refusing what its checkpoint lets it know, for every index width and    *)
(* network.                                                                *)
(*                                                                         *)
(* Where reordering stays within half a cycle, the estimated index is the  *)
(* source's across every wrap and takeover, and newer packets are accepted.*)
(***************************************************************************)
EXTENDS FloorLeg, SrtpStream, TLAPS

-----------------------------------------------------------------------------
(* The replay filter.                                                      *)

(* `record` of an index the filter lets through leaves a filter.           *)
LEMMA RecordType ==
  ASSUME NEW w \in ReplayState, NEW i \in Nat, ~IsReplay(w, i)
  PROVE  Record(w, i) \in ReplayState
<1> USE WindowAssumption DEF ReplayState, Bits
<1>1. CASE ~w.seen
  BY <1>1 DEF Record
<1>2. CASE w.seen /\ i > w.top
  <2>1. {0} \cup {j \in Bits : j - (i - w.top) \in w.mask} \in SUBSET Bits
    OBVIOUS
  <2> QED
    BY Zenon, <1>2, <2>1 DEF Record
<1>3. CASE w.seen /\ i <= w.top
  <2>1. w.top - i \in Bits
    BY <1>3 DEF IsReplay
  <2>2. w.mask \cup {w.top - i} \in SUBSET Bits
    BY Zenon, <2>1
  <2> QED
    BY <1>3, <2>2 DEF Record
<1> QED
  BY <1>1, <1>2, <1>3

(* A recorded index is refused from then on.                               *)
LEMMA RecordRefuses ==
  ASSUME NEW w \in ReplayState, NEW i \in Nat, ~IsReplay(w, i)
  PROVE  IsReplay(Record(w, i), i)
<1> USE WindowAssumption DEF ReplayState, Bits
<1>1. CASE ~w.seen \/ i > w.top
  <2>1. Record(w, i).seen /\ Record(w, i).top = i /\ 0 \in Record(w, i).mask
    BY Zenon, <1>1 DEF Record
  <2> QED
    BY <2>1 DEF IsReplay
<1>2. CASE w.seen /\ i <= w.top
  <2>1. /\ Record(w, i).seen /\ Record(w, i).top = w.top
        /\ w.top - i \in Record(w, i).mask
    BY <1>2 DEF Record
  <2> QED
    BY Zenon, <1>2, <2>1 DEF IsReplay
<1> QED
  BY <1>1, <1>2

(* Recording another index refuses nothing less than before.               *)
LEMMA RefusalsStay ==
  ASSUME NEW w \in ReplayState, NEW i \in Nat, ~IsReplay(w, i),
         NEW j \in Nat, IsReplay(w, j)
  PROVE  IsReplay(Record(w, i), j)
<1> USE WindowAssumption DEF ReplayState, Bits
<1>1. w.seen /\ j <= w.top /\ (w.top - j >= Window \/ w.top - j \in w.mask)
  BY Zenon DEF IsReplay
<1>2. CASE i > w.top
  <2>1. /\ Record(w, i).seen /\ Record(w, i).top = i
        /\ Record(w, i).mask = {0} \cup {b \in Bits : b - (i - w.top) \in w.mask}
    BY Zenon, <1>1, <1>2 DEF Record
  <2>2. j <= i
    BY <1>1, <1>2
  <2>3. CASE i - j >= Window
    BY Zenon, <2>1, <2>2, <2>3 DEF IsReplay
  <2>4. CASE i - j < Window
    <3>1. i - j \in Bits
      BY <2>2, <2>4
    <3>2. w.top - j < Window
      BY <1>2, <2>4
    <3>3. (i - j) - (i - w.top) \in w.mask
      <4>1. (i - j) - (i - w.top) = w.top - j
        OBVIOUS
      <4> QED
        BY <1>1, <3>2, <4>1
    <3> QED
      BY Zenon, <2>1, <2>2, <3>1, <3>3 DEF IsReplay
  <2> QED
    BY <2>3, <2>4
<1>3. CASE i <= w.top
  <2>1. /\ Record(w, i).seen /\ Record(w, i).top = w.top
        /\ w.mask \subseteq Record(w, i).mask
    BY <1>1, <1>3 DEF Record
  <2> QED
    BY Zenon, <1>1, <2>1 DEF IsReplay
<1> QED
  BY <1>2, <1>3

(* close_at refuses everything up to the index, anchor the index itself    *)
(* and what lies a window below it.                                        *)
LEMMA CloseAtRefuses ==
  ASSUME NEW i \in Nat
  PROVE  /\ CloseAt(i) \in ReplayState
         /\ \A j \in 0 .. i : IsReplay(CloseAt(i), j)
BY WindowAssumption DEF CloseAt, IsReplay, ReplayState, Bits

LEMMA AnchorRefuses ==
  ASSUME NEW i \in Nat
  PROVE  /\ Anchor(i) \in ReplayState
         /\ \A j \in Nat : (j = i \/ j <= i - Window) => IsReplay(Anchor(i), j)
BY WindowAssumption DEF Anchor, IsReplay, ReplayState, Bits

LEMMA EmptyWindowType == EmptyWindow \in ReplayState
BY Zenon DEF EmptyWindow, ReplayState

-----------------------------------------------------------------------------
(* The floor leg.                                                          *)

LEMMA KeptType ==
  ASSUME NEW ks \in Seq(Key)
  PROVE  Kept(ks) \in Ring /\ (ks # <<>> => Kept(ks) # <<>>)
<1>1. CASE Len(ks) <= 2
  BY Zenon, <1>1 DEF Kept, Ring
<1>2. CASE Len(ks) > 2
  <2>1. Len(ks) \in Nat /\ Len(ks) - 1 \in 1 .. Len(ks)
    BY <1>2
  <2>2. SubSeq(ks, Len(ks) - 1, Len(ks)) \in Seq(Key)
    BY <2>1
  <2>3. Len(SubSeq(ks, Len(ks) - 1, Len(ks))) = 2
    BY <2>1
  <2> QED
    BY <1>2, <2>2, <2>3 DEF Kept, Ring
<1> QED
  BY <1>1, <1>2

LEMMA HeldType == \A ks \in Ring : Held(ks) \subseteq Key
BY DEF Ring, Held

LEMMA LastKeyType == \A ks \in Ring : ks # <<>> => ks[Len(ks)] \in Key
BY DEF Ring

(* Rekeying keeps the index unless it drops the context.                   *)
LEMMA SetKeysIndex ==
  ASSUME NEW ks, SetKeys(ks)
  PROVE  /\ Kept(ks) = <<>> => sendIndex' = 0 /\ exhausted' = FALSE
         /\ Kept(ks) # <<>> => sendIndex' = sendIndex /\ exhausted' = exhausted
<1>1. IF Kept(ks) = <<>> THEN sendIndex' = 0 /\ exhausted' = FALSE
                         ELSE UNCHANGED <<sendIndex, exhausted>>
  BY Zenon DEF SetKeys, Stays
<1> HIDE DEF Kept
<1> QED
  BY Zenon, <1>1

-----------------------------------------------------------------------------
LEMMA InitTyped == Init => TypeOK
<1> SUFFICES ASSUME Init PROVE TypeOK
  BY Zenon
<1>1. keys \in Ring
  BY DEF Init, Ring
<1>2. /\ sendIndex \in Index /\ ssrc \in Ssrc /\ drawn \in Ssrc /\ left \in Nat
      /\ built \in Context /\ own \in Context /\ since \in Nat
  BY FloorAssumption DEF Init, Index, Ssrc, Context
<1>3. replay \in [Key -> ReplayState]
  BY Zenon, EmptyWindowType DEF Init
<1> QED
  BY Zenon, <1>1, <1>2, <1>3 DEF Init, TypeOK

(* A context of its own gets a number of its own.                          *)
LEMMA NumberedType ==
  ASSUME built \in Context, NEW ks, Numbered(ks)
  PROVE  /\ built' \in Context /\ own' \in Context
         /\ ks = <<>> => own' = 0 /\ built' = built
         /\ ks # <<>> => own' = built + 1 /\ built' = built + 1
<1>1. CASE ks = <<>>
  BY <1>1, FloorAssumption DEF Numbered, Context
<1>2. CASE ks # <<>>
  BY <1>2, FloorAssumption DEF Numbered, Context
<1> QED
  BY Zenon, <1>1, <1>2

LEMMA RegisterTyped ==
  ASSUME TypeOK, NEW ks \in KeySets \cup {<<>>}, Register(ks) PROVE TypeOK'
<1>1. Kept(ks) \in Ring
  <2>1. <<>> \in Seq(Key) /\ KeySets \subseteq Seq(Key)
    BY FloorAssumption
  <2> QED
    BY Zenon, <2>1, KeptType
<1>2. replay' \in [Key -> ReplayState]
  BY Zenon, EmptyWindowType DEF Register
<1>3. drawn' \in Ssrc /\ ssrc' \in Ssrc
  BY FloorAssumption DEF Register, TypeOK, Ssrc
<1>4. sendIndex' \in Index
  BY FloorAssumption DEF Register, Index
<1>5. built' \in Context /\ own' \in Context
  BY Zenon, NumberedType DEF Register, TypeOK
<1>6. clear' \in BOOLEAN
  BY Zenon DEF Register
<1> QED
  BY Zenon, <1>1, <1>2, <1>3, <1>4, <1>5, <1>6 DEF Register, TypeOK, failover, sending

LEMMA SetKeysTyped ==
  ASSUME TypeOK, NEW ks \in KeySets, SetKeys(ks) PROVE TypeOK'
<1>1. Kept(ks) \in Ring
  BY Zenon, KeptType, FloorAssumption
<1>2. replay' \in [Key -> ReplayState]
  BY Zenon, EmptyWindowType DEF SetKeys, Stays, TypeOK
<1>3. heard' \in [Key -> SUBSET Nat] /\ closed' \in [Key -> Nat \cup {Unset}]
  BY Zenon DEF SetKeys, Stays, TypeOK
<1>4. sendIndex' \in Index /\ exhausted' \in BOOLEAN
  <2>1. CASE Kept(ks) = <<>>
    <3>1. sendIndex' = 0 /\ exhausted' = FALSE
      BY Zenon, <2>1, SetKeysIndex
    <3>2. sendIndex' \in Index
      BY <3>1, FloorAssumption DEF Index
    <3>3. exhausted' \in BOOLEAN
      BY <3>1, Zenon
    <3> QED
      BY Zenon, <3>2, <3>3
  <2>2. CASE Kept(ks) # <<>>
    BY Zenon, <2>2 DEF SetKeys, Stays, TypeOK
  <2> QED
    BY Zenon, <2>1, <2>2
<1>5. built' \in Context /\ own' \in Context
  <2>1. Numbered(Kept(ks)) \/ UNCHANGED numbering
    BY Zenon DEF SetKeys
  <2> QED
    BY Zenon, <2>1, NumberedType DEF TypeOK, numbering
<1>6. clear' \in BOOLEAN
  BY Zenon DEF SetKeys
<1> QED
  BY Zenon, <1>1, <1>2, <1>3, <1>4, <1>5, <1>6 DEF SetKeys, Stays, TypeOK, failover, sending

(* What `build` seals: the newest key and the next index, under some SSRC. *)
LEMMA BuildSeals ==
  ASSUME NEW asked, Build(asked)
  PROVE  \E s :
           /\ s \in {ssrc, asked} /\ (asked = Unset => s = ssrc)
           /\ used' = used \cup {[context |-> own, key |-> keys[Len(keys)], ssrc |-> s,
                                   index |-> sendIndex]}
           /\ reused' = IF \E u \in used : /\ u.context = own /\ u.key = keys[Len(keys)]
                                              /\ u.index = sendIndex
                            THEN reused \cup {own} ELSE reused
<1> DEFINE s == IF asked = Unset THEN ssrc ELSE asked
<1>1. /\ Nonce(asked).key = keys[Len(keys)] /\ Nonce(asked).ssrc = s
      /\ Nonce(asked).index = sendIndex
  BY Zenon DEF Nonce
<1>2. s \in {ssrc, asked} /\ (asked = Unset => s = ssrc)
  BY Zenon
<1> HIDE DEF s
<1> WITNESS s
<1> QED
  BY Zenon, <1>1, <1>2 DEF Build

LEMMA BuildTyped == ASSUME TypeOK, NEW asked \in Asked \cup {Unset}, Build(asked) PROVE TypeOK'
<1>1. keys[Len(keys)] \in Key
  BY Zenon, LastKeyType DEF Build, TypeOK
<1>2. /\ used' \subseteq [context : Context, key : Key, ssrc : Nat, index : Index]
      /\ reused' \subseteq Context
  <2>1. ssrc \in Nat /\ (asked # Unset => asked \in Nat)
    BY FloorAssumption DEF TypeOK, Ssrc
  <2>2. PICK s : /\ s \in {ssrc, asked} /\ (asked = Unset => s = ssrc)
                 /\ used' = used \cup {[context |-> own, key |-> keys[Len(keys)], ssrc |-> s,
                                         index |-> sendIndex]}
                 /\ reused' = reused \cup {own} \/ reused' = reused
    BY Zenon, BuildSeals
  <2>3. s \in Nat
    BY Zenon, <2>1, <2>2
  <2>4. [context |-> own, key |-> keys[Len(keys)], ssrc |-> s, index |-> sendIndex]
          \in [context : Context, key : Key, ssrc : Nat, index : Index]
    BY <1>1, <2>3 DEF TypeOK
  <2> QED
    BY Zenon, <2>2, <2>4 DEF TypeOK
<1>3. sendIndex' \in Index
  <2>1. CASE sendIndex = LastIndex
    BY Zenon, <2>1 DEF Build, NextIndex, TypeOK
  <2>2. CASE sendIndex # LastIndex
    BY <2>2, FloorAssumption DEF Build, NextIndex, TypeOK, Index
  <2> QED
    BY Zenon, <2>1, <2>2
<1>4. since' \in Nat
  BY DEF Build, TypeOK
<1>5. exhausted' \in BOOLEAN
  BY Zenon DEF Build
<1> QED
  BY Zenon, <1>2, <1>3, <1>4, <1>5 DEF Build, TypeOK, failover, numbering, receiving

LEMMA IngestTyped == ASSUME TypeOK, NEW p \in Packet, Ingest(p) PROVE TypeOK'
<1>1. p.source \in Source /\ p.index \in Nat
  BY Zenon, FloorAssumption
<1>2. proven' \in BOOLEAN
  <2>1. CASE latch = Unset
    BY Zenon, <2>1 DEF Ingest
  <2>2. CASE latch # Unset
    BY Zenon, <2>2 DEF Ingest, TypeOK
  <2> QED
    BY Zenon, <2>1, <2>2
<1>3. replay' \in [Key -> ReplayState] /\ heard' \in [Key -> SUBSET Nat] /\ twice' \in BOOLEAN
  <2>1. CASE keys = <<>>
    BY Zenon, <2>1 DEF Ingest, TypeOK
  <2>2. CASE keys # <<>>
    <3>1. p.key \in Key /\ ~IsReplay(replay[p.key], p.index)
      BY Zenon, <2>2, HeldType, FloorAssumption DEF Ingest, Opens, TypeOK
    <3>2. Record(replay[p.key], p.index) \in ReplayState
      BY Zenon, <1>1, <3>1, RecordType DEF TypeOK
    <3>3. /\ replay' = [replay EXCEPT ![p.key] = Record(replay[p.key], p.index)]
          /\ heard' = [heard EXCEPT ![p.key] = heard[p.key] \cup {p.index}]
          /\ twice' = (twice \/ p.index \in heard[p.key])
      BY Zenon, <2>2 DEF Ingest
    <3>4. twice' \in BOOLEAN
      BY Zenon, <3>3
    <3> QED
      BY Zenon, <1>1, <3>1, <3>2, <3>3, <3>4 DEF TypeOK
  <2> QED
    BY Zenon, <2>1, <2>2
<1> QED
  BY Zenon, <1>1, <1>2, <1>3 DEF Ingest, TypeOK, failover, numbering, sending

LEMMA CheckpointTyped == ASSUME TypeOK, Checkpoint PROVE TypeOK'
<1> DEFINE received == [k \in Key |-> IF k \in Held(keys) /\ replay[k].seen
                                        THEN replay[k].top ELSE Unset]
<1>1. received \in [Key -> Nat \cup {Unset}]
  BY Zenon DEF TypeOK, ReplayState
<1>2. saved' = [keys |-> keys, sendIndex |-> sendIndex, ssrc |-> ssrc, latch |-> latch,
                own |-> own, clear |-> clear, proven |-> proven, received |-> received]
  BY Zenon DEF Checkpoint
<1> HIDE DEF received
<1>3. saved' \in Snapshot
  BY Zenon, <1>1, <1>2 DEF Snapshot, TypeOK
<1> QED
  BY Zenon, <1>3 DEF Checkpoint, TypeOK, leg, context, numbering, receiving

(* A leg that is gone has the fields of Init.                              *)
LEMMA GoneTyped ==
  ASSUME Gone
  PROVE  /\ keys' \in Ring /\ sendIndex' \in Index /\ exhausted' \in BOOLEAN
         /\ replay' \in [Key -> ReplayState] /\ latch' \in Source \cup {Unset}
         /\ ssrc' \in Ssrc /\ own' \in Context
         /\ heard' \in [Key -> SUBSET Nat] /\ closed' \in [Key -> Nat \cup {Unset}]
         /\ twice' \in BOOLEAN /\ clear' \in BOOLEAN /\ proven' \in BOOLEAN
<1>1. keys' \in Ring
  BY DEF Gone, Ring
<1>2. sendIndex' \in Index /\ ssrc' \in Ssrc /\ own' \in Context
  BY FloorAssumption DEF Gone, Index, Ssrc, Context
<1>3. replay' \in [Key -> ReplayState]
  BY Zenon, EmptyWindowType DEF Gone
<1> QED
  BY Zenon, <1>1, <1>2, <1>3 DEF Gone

LEMMA RestoreTyped == ASSUME TypeOK, Restore PROVE TypeOK'
<1>1. saved \in Snapshot /\ saved # Unset
  BY Zenon DEF Restore, TypeOK
<1>2. left' \in Nat /\ saved' \in Snapshot \cup {Unset}
  BY DEF Restore, TypeOK
<1>3. CASE saved.keys # <<>> /\ ResumedSendIndex(saved.sendIndex) > LastIndex
  <2>1. served' = FALSE /\ Gone /\ UNCHANGED <<since, lapsed>>
    BY Zenon, <1>3 DEF Restore
  <2> QED
    BY Zenon, <1>2, <2>1, GoneTyped DEF Restore, TypeOK
<1>4. CASE ~(saved.keys # <<>> /\ ResumedSendIndex(saved.sendIndex) > LastIndex)
  <2>1. sendIndex' \in Index
    <3>1. CASE saved.keys = <<>>
      BY <1>4, <3>1, FloorAssumption DEF Restore, Resumed, Index
    <3>2. CASE saved.keys # <<>>
      <4>1. saved.sendIndex + Margin <= LastIndex /\ saved.sendIndex + Margin \in Nat
        BY <1>1, <1>4, <3>2, FloorAssumption DEF ResumedSendIndex, Snapshot, Index
      <4>2. sendIndex' = saved.sendIndex + Margin
        BY Zenon, <1>4, <3>2 DEF Restore, Resumed, ResumedSendIndex
      <4> QED
        BY <4>1, <4>2, FloorAssumption DEF Index
    <3> QED
      BY Zenon, <3>1, <3>2
  <2>2. replay' \in [Key -> ReplayState]
    <3>1. replay' = [k \in Key |-> IF saved.received[k] = Unset THEN EmptyWindow
                                   ELSE CloseAt(saved.received[k])]
      BY Zenon, <1>4 DEF Restore, Resumed
    <3>2. ASSUME NEW k \in Key, saved.received[k] # Unset
          PROVE  CloseAt(saved.received[k]) \in ReplayState
      BY Zenon, <1>1, <3>2, CloseAtRefuses DEF Snapshot
    <3> QED
      BY Zenon, <3>1, <3>2, EmptyWindowType
  <2>3. /\ served' = TRUE /\ exhausted' = FALSE /\ keys' = saved.keys
        /\ latch' = saved.latch /\ ssrc' = saved.ssrc /\ own' = saved.own /\ since' = Margin
        /\ lapsed' = lapsed \cup {saved.own} \/ lapsed' = lapsed
        /\ heard' = [k \in Key |-> {}] /\ twice' = FALSE
        /\ closed' = saved.received /\ clear' = saved.clear /\ proven' = saved.proven
    BY Zenon, <1>4 DEF Restore, Resumed
  <2>4. /\ keys' \in Ring /\ latch' \in Source \cup {Unset} /\ ssrc' \in Ssrc
        /\ own' \in Context /\ lapsed' \subseteq Context
        /\ closed' \in [Key -> Nat \cup {Unset}] /\ clear' \in BOOLEAN /\ proven' \in BOOLEAN
    BY Zenon, <1>1, <2>3 DEF Snapshot, TypeOK
  <2>5. since' \in Nat
    BY <2>3, FloorAssumption
  <2> QED
    BY Zenon, <1>2, <2>1, <2>2, <2>3, <2>4, <2>5 DEF Restore, TypeOK
<1> QED
  BY Zenon, <1>3, <1>4

(* Every field keeps its type, the saved ones included.                    *)
THEOREM FloorTyped == Spec => []TypeOK
<1>1. TypeOK /\ [Next]_vars => TypeOK'
  <2> SUFFICES ASSUME TypeOK, [Next]_vars PROVE TypeOK'
    BY Zenon
  <2>1. CASE UNCHANGED vars
    BY Zenon, <2>1 DEF TypeOK, vars, leg, context, failover, numbering, sending, receiving
  <2>2. CASE Deregister
    BY Zenon, <2>2, GoneTyped DEF Deregister, TypeOK, failover, sending
  <2> QED
    BY Zenon, <2>1, <2>2, RegisterTyped, SetKeysTyped, BuildTyped, IngestTyped,
       CheckpointTyped, RestoreTyped DEF Next
<1> QED
  BY <1>1, InitTyped, PTL DEF Spec

-----------------------------------------------------------------------------
(* What is known of the indices: those the leg's context used lie below    *)
(* the next one, and those of the checkpoint's context below what a        *)
(* standby resumes at, unless the restore is refused.  A lapsed context is *)
(* one of which nothing is known.                                          *)
Below(u, i) == u.index < i

ContextNumbers ==
  /\ own <= built /\ (keys # <<>> => own # 0)
  /\ \A u \in used : u.context # 0 /\ u.context <= built
  /\ saved # Unset => saved.own <= built /\ (saved.keys # <<>> <=> saved.own # 0)
  /\ keys = <<>> => own = 0

Indices ==
  /\ exhausted => sendIndex = LastIndex
  /\ own \notin lapsed => \A u \in used : u.context = own => Below(u, sendIndex) \/ exhausted
  /\ saved # Unset /\ saved.own # 0 =>
       /\ saved.own = own => sendIndex <= saved.sendIndex + since
       /\ saved.own \notin lapsed => \A u \in used : u.context = saved.own =>
             Below(u, saved.sendIndex + since) \/ saved.sendIndex + Margin > LastIndex

LEMMA InitIndices == Init => ContextNumbers /\ Indices /\ IndexUsedOnce
BY DEF Init, ContextNumbers, Indices, IndexUsedOnce

(* A context that was just built has sealed nothing.                       *)
LEMMA NewContext ==
  ASSUME TypeOK, ContextNumbers, Indices, NEW ks, Numbered(ks), keys' = ks,
         sendIndex' = 0 \/ sendIndex' = sendIndex, exhausted' => exhausted /\ sendIndex' = sendIndex,
         UNCHANGED <<used, saved, since, lapsed>>
  PROVE  ContextNumbers' /\ Indices'
<1>1. /\ built \in Nat /\ own' \in Nat /\ built' \in Nat
      /\ ks = <<>> => own' = 0 /\ built' = built
      /\ ks # <<>> => own' = built + 1 /\ built' = built + 1
  <2>1. built' \in Context /\ own' \in Context /\ built \in Context
    BY Zenon, NumberedType DEF TypeOK
  <2> QED
    BY <2>1, NumberedType DEF TypeOK, Context
<1>2. /\ \A u \in used : u.context \in Nat /\ u.context # 0 /\ u.context <= built
      /\ saved # Unset => saved.own \in Nat /\ saved.own <= built
  BY DEF TypeOK, Snapshot, Context, ContextNumbers
<1>3. \A u \in used : u.context # own'
  BY <1>1, <1>2
<1>4. saved # Unset /\ saved.own # 0 => saved.own # own'
  BY <1>1, <1>2
<1>5. ContextNumbers'
  BY <1>1, <1>2 DEF ContextNumbers
<1>6. Indices'
  BY Zenon, <1>3, <1>4 DEF Indices, Below
<1> QED
  BY Zenon, <1>5, <1>6

LEMMA BuildIndices ==
  ASSUME TypeOK, ContextNumbers, Indices, IndexUsedOnce, NEW asked, Build(asked)
  PROVE  ContextNumbers' /\ Indices' /\ IndexUsedOnce'
<1>1. PICK s : /\ used' = used \cup {[context |-> own, key |-> keys[Len(keys)], ssrc |-> s,
                                      index |-> sendIndex]}
               /\ reused' = IF \E u \in used : /\ u.context = own /\ u.key = keys[Len(keys)]
                                                 /\ u.index = sendIndex
                                THEN reused \cup {own} ELSE reused
  BY Zenon, BuildSeals
<1> DEFINE new == [context |-> own, key |-> keys[Len(keys)], ssrc |-> s, index |-> sendIndex]
<1>2. new.context = own /\ new.index = sendIndex /\ used' = used \cup {new}
  BY Zenon, <1>1
<1> HIDE DEF new
<1>3. /\ ~exhausted /\ keys # <<>> /\ exhausted' = (sendIndex = LastIndex)
      /\ saved # Unset /\ saved.own = own => since' = since + 1
      /\ ~(saved # Unset /\ saved.own = own) => since' = since
      /\ UNCHANGED <<keys, saved, built, own, lapsed>>
  BY Zenon DEF Build, failover, numbering
<1>4. /\ sendIndex = LastIndex => sendIndex' = sendIndex
      /\ sendIndex # LastIndex => sendIndex' = sendIndex + 1
  BY Zenon DEF Build, NextIndex
<1>5. /\ sendIndex \in Nat /\ since \in Nat /\ LastIndex \in Nat /\ Margin \in Nat \ {0}
      /\ \A u \in used : u.index \in Nat
      /\ saved # Unset => saved.sendIndex \in Nat
  BY FloorAssumption DEF TypeOK, Index, Snapshot
<1>6. ContextNumbers'
  BY Zenon, <1>2, <1>3 DEF ContextNumbers
<1>7. exhausted' => sendIndex' = LastIndex
  BY Zenon, <1>3, <1>4
<1>8. ASSUME own \notin lapsed, NEW u \in used', u.context = own, ~exhausted'
      PROVE  Below(u, sendIndex')
  <2>1. sendIndex' = sendIndex + 1
    BY Zenon, <1>3, <1>4, <1>8
  <2>2. CASE u \in used
    BY <1>3, <1>5, <1>8, <2>1, <2>2 DEF Indices, Below
  <2>3. CASE u = new
    BY <1>2, <1>5, <2>1, <2>3 DEF Below
  <2> QED
    BY Zenon, <1>2, <2>2, <2>3
<1>9. ASSUME saved # Unset, saved.own # 0, saved.own = own
      PROVE  sendIndex' <= saved.sendIndex + since'
  BY <1>3, <1>4, <1>5, <1>9 DEF Indices
<1>10. ASSUME saved # Unset, saved.own # 0, saved.own \notin lapsed,
              NEW u \in used', u.context = saved.own, ~(saved.sendIndex + Margin > LastIndex)
       PROVE  Below(u, saved.sendIndex + since')
  <2>1. CASE u \in used
    <3>1. u.index < saved.sendIndex + since
      BY Zenon, <1>10, <2>1 DEF Indices, Below
    <3> QED
      BY <1>3, <1>5, <1>10, <2>1, <3>1 DEF Below
  <2>2. CASE u = new
    <3>1. saved.own = own /\ u.index = sendIndex /\ since' = since + 1
      BY Zenon, <1>2, <1>3, <1>10, <2>2
    <3>2. sendIndex <= saved.sendIndex + since
      BY Zenon, <1>10, <3>1 DEF Indices
    <3> QED
      BY <1>5, <1>10, <3>1, <3>2 DEF Below
  <2> QED
    BY Zenon, <1>2, <2>1, <2>2
<1>11. Indices'
  BY Zenon, <1>3, <1>7, <1>8, <1>9, <1>10 DEF Indices
<1>12. IndexUsedOnce'
  <2>1. CASE own \in lapsed
    BY Zenon, <1>1, <1>3, <2>1 DEF IndexUsedOnce
  <2>2. CASE own \notin lapsed
    <3>1. ~\E u \in used : u.context = own /\ u.index = sendIndex
      BY <1>3, <1>5, <2>2 DEF Indices, Below
    <3> QED
      BY Zenon, <1>1, <1>3, <3>1 DEF IndexUsedOnce
  <2> QED
    BY Zenon, <2>1, <2>2
<1> QED
  BY Zenon, <1>6, <1>11, <1>12

LEMMA RestoreIndices ==
  ASSUME TypeOK, ContextNumbers, Indices, IndexUsedOnce, Restore
  PROVE  ContextNumbers' /\ Indices' /\ IndexUsedOnce'
<1>1. saved # Unset /\ (saved' = saved \/ saved' = Unset) /\ UNCHANGED <<built, used, reused>>
  BY Zenon DEF Restore
<1>2. /\ saved.sendIndex \in Nat /\ since \in Nat /\ Margin \in Nat /\ LastIndex \in Nat
      /\ built \in Nat /\ \A u \in used : u.index \in Nat
  BY <1>1, FloorAssumption DEF TypeOK, Snapshot, Index, Context
<1>3. CASE saved.keys # <<>> /\ ResumedSendIndex(saved.sendIndex) > LastIndex
  <2>1. /\ keys' = <<>> /\ own' = 0 /\ exhausted' = FALSE /\ UNCHANGED <<since, lapsed>>
    BY Zenon, <1>3 DEF Restore, Gone
  <2>2. ContextNumbers'
    BY <1>1, <1>2, <2>1 DEF ContextNumbers
  <2>3. Indices'
    BY Zenon, <1>1, <2>1 DEF Indices, ContextNumbers
  <2> QED
    BY Zenon, <1>1, <2>1, <2>2, <2>3 DEF IndexUsedOnce
<1>4. CASE saved.keys = <<>>
  <2>1. keys' = <<>> /\ own' = saved.own /\ exhausted' = FALSE /\ lapsed \subseteq lapsed'
    BY Zenon, <1>4 DEF Restore
  <2>2. saved.own = 0
    BY Zenon, <1>1, <1>4 DEF ContextNumbers
  <2>3. ContextNumbers'
    BY <1>1, <1>2, <2>1, <2>2 DEF ContextNumbers
  <2>4. Indices'
    BY Zenon, <1>1, <2>1, <2>2 DEF Indices, ContextNumbers
  <2> QED
    BY Zenon, <1>1, <2>1, <2>3, <2>4 DEF IndexUsedOnce
<1>5. CASE saved.keys # <<>> /\ ~(ResumedSendIndex(saved.sendIndex) > LastIndex)
  <2>1. /\ keys' = saved.keys /\ own' = saved.own /\ exhausted' = FALSE /\ since' = Margin
        /\ sendIndex' = saved.sendIndex + Margin
        /\ lapsed' = IF since > Margin THEN lapsed \cup {saved.own} ELSE lapsed
    BY Zenon, <1>5 DEF Restore, ResumedSendIndex
  <2>2. ContextNumbers'
    BY Zenon, <1>1, <1>5, <2>1 DEF ContextNumbers
  <2>3. ASSUME saved.own \notin lapsed', NEW u \in used, u.context = saved.own
        PROVE  Below(u, saved.sendIndex + Margin)
    <3>1. since <= Margin /\ saved.own \notin lapsed
      BY <1>2, <2>1, <2>3
    <3>2. u.index < saved.sendIndex + since
      BY Zenon, <1>1, <1>5, <2>3, <3>1 DEF Indices, ContextNumbers, Below, ResumedSendIndex
    <3> QED
      BY <1>2, <3>1, <3>2 DEF Below
  <2>4. Indices'
    <3>1. sendIndex' <= saved.sendIndex + since'
      BY <1>2, <2>1
    <3> QED
      BY Zenon, <1>1, <2>1, <2>3, <3>1 DEF Indices
  <2>5. lapsed \subseteq lapsed'
    BY Zenon, <2>1
  <2> QED
    BY Zenon, <1>1, <2>2, <2>4, <2>5 DEF IndexUsedOnce
<1> QED
  BY Zenon, <1>3, <1>4, <1>5

LEMMA NextIndices ==
  ASSUME TypeOK, ContextNumbers, Indices, IndexUsedOnce, [Next]_vars
  PROVE  ContextNumbers' /\ Indices' /\ IndexUsedOnce'
<1> DEFINE same == UNCHANGED <<keys, built, own, exhausted, sendIndex, used, reused, lapsed,
                               saved, since>>
<1>1. ASSUME NEW ks, Register(ks) PROVE ContextNumbers' /\ Indices' /\ IndexUsedOnce'
  <2>1. /\ Numbered(Kept(ks)) /\ keys' = Kept(ks) /\ sendIndex' = 0 /\ exhausted' = FALSE
        /\ UNCHANGED <<used, reused, lapsed, saved, since>>
    BY Zenon, <1>1 DEF Register, failover, sending
  <2>2. ContextNumbers' /\ Indices'
    <3> HIDE DEF Kept
    <3> QED
      BY Zenon, <2>1, NewContext
  <2> QED
    BY Zenon, <2>1, <2>2 DEF IndexUsedOnce
<1>2. ASSUME NEW ks, SetKeys(ks) PROVE ContextNumbers' /\ Indices' /\ IndexUsedOnce'
  <2>1. keys' = Kept(ks) /\ UNCHANGED <<used, reused, lapsed, saved, since>>
    BY Zenon, <1>2 DEF SetKeys, Stays, failover, sending
  <2>2. /\ sendIndex' = 0 \/ sendIndex' = sendIndex
        /\ exhausted' => exhausted /\ sendIndex' = sendIndex
        /\ Kept(ks) # <<>> => UNCHANGED <<sendIndex, exhausted>>
    BY Zenon, <1>2, SetKeysIndex
  <2>3. CASE keys = <<>> \/ Kept(ks) = <<>>
    <3>1. Numbered(Kept(ks))
      BY Zenon, <1>2, <2>3 DEF SetKeys
    <3>2. ContextNumbers' /\ Indices'
      BY Zenon, <2>1, <2>2, <3>1, NewContext
    <3> QED
      BY Zenon, <2>1, <3>2 DEF IndexUsedOnce
  <2>4. CASE keys # <<>> /\ Kept(ks) # <<>>
    <3>1. UNCHANGED <<own, built, sendIndex, exhausted>>
      BY Zenon, <1>2, <2>2, <2>4 DEF SetKeys, numbering
    <3> QED
      BY Zenon, <2>1, <2>4, <3>1 DEF ContextNumbers, Indices, IndexUsedOnce
  <2> QED
    BY Zenon, <2>3, <2>4
<1>3. CASE Checkpoint
  <2>1. /\ saved'.sendIndex = sendIndex /\ saved'.own = own /\ saved'.keys = keys /\ since' = 0
        /\ UNCHANGED <<keys, built, own, exhausted, sendIndex, used, reused, lapsed>>
    BY Zenon, <1>3 DEF Checkpoint, leg, context, numbering
  <2>2. sendIndex \in Nat /\ LastIndex \in Nat /\ Margin \in Nat \ {0}
    BY FloorAssumption DEF TypeOK, Index
  <2>3. sendIndex <= sendIndex + 0 /\ sendIndex + 0 = sendIndex /\ LastIndex + Margin > LastIndex
    BY <2>2
  <2>4. ContextNumbers'
    BY Zenon, <2>1 DEF ContextNumbers
  <2>5. Indices'
    BY Zenon, <2>1, <2>3 DEF Indices
  <2> QED
    BY Zenon, <2>1, <2>4, <2>5 DEF IndexUsedOnce
<1>4. CASE Deregister
  <2>1. /\ keys' = <<>> /\ own' = 0 /\ exhausted' = FALSE
        /\ UNCHANGED <<built, used, reused, lapsed, saved, since>>
    BY Zenon, <1>4 DEF Deregister, Gone, failover, sending
  <2>2. ContextNumbers'
    <3>1. built \in Nat
      BY DEF TypeOK, Context
    <3> QED
      BY <2>1, <3>1 DEF ContextNumbers
  <2>3. Indices'
    BY Zenon, <2>1 DEF Indices, ContextNumbers
  <2> QED
    BY Zenon, <2>1, <2>2, <2>3 DEF IndexUsedOnce
<1>5. ASSUME same PROVE ContextNumbers' /\ Indices' /\ IndexUsedOnce'
  BY Zenon, <1>5 DEF ContextNumbers, Indices, IndexUsedOnce
<1>6. ASSUME NEW p \in Packet, Ingest(p) PROVE same
  BY Zenon, <1>6 DEF Ingest, failover, numbering, sending
<1>7. CASE UNCHANGED vars
  BY Zenon, <1>5, <1>7 DEF vars, leg, context, failover, numbering, sending
<1> HIDE DEF same
<1> QED
  BY Zenon, <1>1, <1>2, <1>3, <1>4, <1>5, <1>6, <1>7, BuildIndices, RestoreIndices DEF Next

(* A context seals no two packets under one key with the same index,       *)
(* whichever keys it is given and SSRCs it is asked for, at the end of the *)
(* index space, and after takeovers from checkpoints that it was no more   *)
(* than the margin past; a standby is the margin past the one it resumed   *)
(* from (protect, replace_keys, resumed_send_index).                       *)
THEOREM IndicesAreFresh == Spec => []IndexUsedOnce
<1>1. TypeOK /\ ContextNumbers /\ Indices /\ IndexUsedOnce /\ [Next]_vars
        => ContextNumbers' /\ Indices' /\ IndexUsedOnce'
  BY Zenon, NextIndices
<1> QED
  BY <1>1, InitIndices, FloorTyped, PTL DEF Spec

-----------------------------------------------------------------------------
(* The filter of each key refuses what was accepted under the key and what *)
(* the key was closed at.                                                  *)
Refused(k) ==
  /\ \A i \in heard[k] : IsReplay(replay[k], i)
  /\ closed[k] # Unset => \A i \in 0 .. closed[k] : IsReplay(replay[k], i)
  /\ closed[k] # Unset => \A i \in heard[k] : i > closed[k]

Refusals == ~twice /\ \A k \in Key : Refused(k)

LEMMA InitRefusals == Init => Refusals
BY Zenon DEF Init, Refusals, Refused

(* A key nothing was heard under, and that is not closed, has nothing to   *)
(* refuse.                                                                 *)
LEMMA RegisterRefusals ==
  ASSUME NEW ks, Register(ks) PROVE Refusals'
BY Zenon DEF Register, Refusals, Refused

LEMMA SetKeysRefusals ==
  ASSUME TypeOK, Refusals, NEW ks, SetKeys(ks) PROVE Refusals'
<1> DEFINE stays == Held(keys) \cap Held(Kept(ks))
<1>1. /\ replay' = [k \in Key |-> IF k \in stays THEN replay[k] ELSE EmptyWindow]
      /\ heard' = [k \in Key |-> IF k \in stays THEN heard[k] ELSE {}]
      /\ closed' = [k \in Key |-> IF k \in stays THEN closed[k] ELSE Unset]
      /\ twice' = twice
  BY Zenon DEF SetKeys, Stays
<1> HIDE DEF stays
<1>2. ASSUME NEW k \in Key PROVE Refused(k)'
  <2>1. CASE k \in stays
    <3>1. replay'[k] = replay[k] /\ heard'[k] = heard[k] /\ closed'[k] = closed[k]
      BY Zenon, <1>1, <2>1
    <3> QED
      BY Zenon, <3>1 DEF Refusals, Refused
  <2>2. CASE k \notin stays
    <3>1. heard'[k] = {} /\ closed'[k] = Unset
      BY Zenon, <1>1, <2>2
    <3> QED
      BY Zenon, <3>1 DEF Refused
  <2> QED
    BY Zenon, <2>1, <2>2
<1> QED
  BY Zenon, <1>1, <1>2 DEF Refusals

LEMMA IngestRefusals ==
  ASSUME TypeOK, Refusals, NEW p \in Packet, Ingest(p) PROVE Refusals'
<1>1. CASE keys = <<>>
  BY Zenon, <1>1 DEF Ingest, Refusals, Refused
<1>2. CASE keys # <<>>
  <2>1. p.key \in Key /\ p.index \in Nat /\ ~IsReplay(replay[p.key], p.index)
    BY Zenon, <1>2, HeldType, FloorAssumption DEF Ingest, Opens, TypeOK
  <2>2. /\ replay' = [replay EXCEPT ![p.key] = Record(replay[p.key], p.index)]
        /\ heard' = [heard EXCEPT ![p.key] = heard[p.key] \cup {p.index}]
        /\ twice' = (twice \/ p.index \in heard[p.key])
        /\ closed' = closed
    BY Zenon, <1>2 DEF Ingest
  <2>3. ~twice'
    BY Zenon, <2>1, <2>2 DEF Refusals, Refused
  <2>4. ASSUME NEW k \in Key, k # p.key PROVE Refused(k)'
    <3>1. replay'[k] = replay[k] /\ heard'[k] = heard[k] /\ closed'[k] = closed[k]
      BY Zenon, <2>2, <2>4 DEF TypeOK
    <3> QED
      BY Zenon, <3>1 DEF Refusals, Refused
  <2>5. Refused(p.key)'
    <3> DEFINE k == p.key
               w == replay[k]
    <3>1. /\ replay'[k] = Record(w, p.index) /\ heard'[k] = heard[k] \cup {p.index}
          /\ closed'[k] = closed[k]
      BY Zenon, <2>1, <2>2 DEF TypeOK
    <3>2. w \in ReplayState /\ heard[k] \subseteq Nat /\ closed[k] \in Nat \cup {Unset}
      BY Zenon, <2>1 DEF TypeOK
    <3>3. Refused(k)
      BY Zenon, <2>1 DEF Refusals
    <3>4. \A i \in Nat : IsReplay(w, i) => IsReplay(replay'[k], i)
      BY <2>1, <3>1, <3>2, RefusalsStay
    <3>5. IsReplay(replay'[k], p.index)
      BY Zenon, <2>1, <3>1, <3>2, RecordRefuses
    <3>6. \A i \in heard'[k] : IsReplay(replay'[k], i)
      BY Zenon, <3>1, <3>2, <3>3, <3>4, <3>5 DEF Refused
    <3>7. ASSUME closed[k] # Unset
          PROVE  (\A i \in 0 .. closed[k] : IsReplay(replay'[k], i)) /\ p.index > closed[k]
      <4>1. closed[k] \in Nat /\ \A i \in 0 .. closed[k] : IsReplay(w, i)
        BY Zenon, <3>2, <3>3, <3>7 DEF Refused
      <4>2. \A i \in 0 .. closed[k] : IsReplay(replay'[k], i)
        BY <3>4, <4>1
      <4>3. p.index > closed[k]
        BY <2>1, <4>1
      <4> QED
        BY Zenon, <4>2, <4>3
    <3> HIDE DEF k, w
    <3>8. Refused(k)'
      BY Zenon, <3>1, <3>3, <3>6, <3>7 DEF Refused
    <3> QED
      BY Zenon, <3>8 DEF k
  <2> QED
    BY Zenon, <2>3, <2>4, <2>5 DEF Refusals
<1> QED
  BY Zenon, <1>1, <1>2

LEMMA RestoreRefusals ==
  ASSUME TypeOK, Refusals, Restore PROVE Refusals'
<1>1. saved \in Snapshot
  BY Zenon DEF Restore, Resumed, TypeOK
<1>2. CASE saved.keys # <<>> /\ ResumedSendIndex(saved.sendIndex) > LastIndex
  BY Zenon, <1>2 DEF Restore, Gone, Refusals, Refused
<1>3. CASE ~(saved.keys # <<>> /\ ResumedSendIndex(saved.sendIndex) > LastIndex)
  <2>1. /\ replay' = [k \in Key |-> IF saved.received[k] = Unset THEN EmptyWindow
                                    ELSE CloseAt(saved.received[k])]
        /\ heard' = [k \in Key |-> {}] /\ twice' = FALSE /\ closed' = saved.received
    BY Zenon, <1>3 DEF Restore, Resumed
  <2>2. ASSUME NEW k \in Key, saved.received[k] # Unset
        PROVE  \A i \in 0 .. saved.received[k] : IsReplay(replay'[k], i)
    BY Zenon, <1>1, <2>1, <2>2, CloseAtRefuses DEF Snapshot
  <2> QED
    BY Zenon, <2>1, <2>2 DEF Refusals, Refused
<1> QED
  BY Zenon, <1>2, <1>3

LEMMA NextRefusals == TypeOK /\ Refusals /\ [Next]_vars => Refusals'
<1> SUFFICES ASSUME TypeOK, Refusals, [Next]_vars PROVE Refusals'
  BY Zenon
<1>1. ASSUME UNCHANGED <<replay, heard, twice, closed>> PROVE Refusals'
  BY Zenon, <1>1 DEF Refusals, Refused
<1>2. ASSUME NEW asked, Build(asked) PROVE Refusals'
  BY Zenon, <1>1, <1>2 DEF Build, receiving
<1>4. CASE Checkpoint
  BY Zenon, <1>1, <1>4 DEF Checkpoint, leg, context, receiving
<1>5. CASE Deregister
  BY Zenon, <1>5 DEF Deregister, Gone, Refusals, Refused
<1>6. CASE UNCHANGED vars
  BY Zenon, <1>1, <1>6 DEF vars, leg, context, receiving
<1> QED
  BY Zenon, <1>2, <1>4, <1>5, <1>6, RegisterRefusals, SetKeysRefusals, IngestRefusals,
     RestoreRefusals DEF Next

(* On a leg that keeps a key, a packet of the phone is accepted once,      *)
(* whatever the network repeats or reorders and whichever other keys come  *)
(* and go (replace_keys, is_replay, record).                               *)
THEOREM PhonePacketsOnce == Spec => []AcceptedOnce
<1>1. Refusals => AcceptedOnce
  BY Zenon DEF Refusals, Refused, AcceptedOnce
<1> QED
  BY <1>1, NextRefusals, InitRefusals, FloorTyped, PTL DEF Spec

(* A standby accepts nothing at or below the index it was resumed at       *)
(* (FloorProtection::resume, resume_received, close_at).                   *)
THEOREM StandbyStaysClosed == Spec => []ClosedStaysClosed
<1>1. Refusals => ClosedStaysClosed
  BY Zenon DEF Refusals, Refused, ClosedStaysClosed
<1> QED
  BY <1>1, NextRefusals, InitRefusals, FloorTyped, PTL DEF Spec

-----------------------------------------------------------------------------
(* A leg that was never in the clear holds keys, and a latch only from an  *)
(* authentic packet, and so does its checkpoint.                           *)
Authentic ==
  /\ served /\ ~clear => keys # <<>> /\ (latch # Unset => proven)
  /\ saved # Unset /\ ~saved.clear => saved.keys # <<>> /\ (saved.latch # Unset => saved.proven)

LEMMA NextAuthentic ==
  ASSUME Authentic, [Next]_vars
  PROVE  Authentic'
<1>1. ASSUME NEW ks, Register(ks) PROVE Authentic'
  <2>1. keys' = Kept(ks) /\ clear' = (Kept(ks) = <<>>) /\ latch' = Unset /\ saved' = saved
    BY Zenon, <1>1 DEF Register, failover
  <2> HIDE DEF Kept
  <2> QED
    BY Zenon, <2>1 DEF Authentic
<1>2. ASSUME NEW ks, SetKeys(ks) PROVE Authentic'
  <2>1. /\ keys' = Kept(ks) /\ clear' = (clear \/ Kept(ks) = <<>>) /\ served
        /\ UNCHANGED <<served, latch, proven, saved>>
    BY Zenon, <1>2 DEF SetKeys, failover
  <2> HIDE DEF Kept
  <2> QED
    BY Zenon, <2>1 DEF Authentic
<1>3. ASSUME NEW p \in Packet, Ingest(p) PROVE Authentic'
  <2>1. served /\ UNCHANGED <<served, keys, clear, saved>>
    BY Zenon, <1>3 DEF Ingest, failover
  <2>2. /\ keys = <<>> \/ Opens(p)
        /\ proven' = IF latch = Unset THEN keys # <<>> /\ Opens(p) ELSE proven
    BY Zenon, <1>3 DEF Ingest
  <2>3. ~clear => proven'
    <3> SUFFICES ASSUME ~clear PROVE proven'
      BY Zenon
    <3>1. keys # <<>> /\ Opens(p)
      BY Zenon, <2>1, <2>2 DEF Authentic
    <3>2. CASE latch = Unset
      BY Zenon, <2>2, <3>1, <3>2
    <3>3. CASE latch # Unset
      BY Zenon, <2>1, <2>2, <3>3 DEF Authentic
    <3> QED
      BY Zenon, <3>2, <3>3
  <2> QED
    BY Zenon, <2>1, <2>3 DEF Authentic
<1>4. CASE Checkpoint
  <2>1. /\ saved'.keys = keys /\ saved'.latch = latch /\ saved'.proven = proven
        /\ saved'.clear = clear /\ served /\ UNCHANGED <<served, keys, latch, clear, proven>>
    BY Zenon, <1>4 DEF Checkpoint, leg, context, receiving
  <2> QED
    BY Zenon, <2>1 DEF Authentic
<1>5. CASE Restore
  <2>1. saved # Unset /\ (saved' = saved \/ saved' = Unset)
    BY Zenon, <1>5 DEF Restore
  <2>2. CASE saved.keys # <<>> /\ ResumedSendIndex(saved.sendIndex) > LastIndex
    <3>1. served' = FALSE
      BY Zenon, <1>5, <2>2 DEF Restore
    <3> QED
      BY Zenon, <2>1, <3>1 DEF Authentic
  <2>3. CASE ~(saved.keys # <<>> /\ ResumedSendIndex(saved.sendIndex) > LastIndex)
    <3>1. /\ keys' = saved.keys /\ latch' = saved.latch
          /\ clear' = saved.clear /\ proven' = saved.proven
      BY Zenon, <1>5, <2>3 DEF Restore
    <3> QED
      BY Zenon, <2>1, <3>1 DEF Authentic
  <2> QED
    BY Zenon, <2>2, <2>3
<1>6. ASSUME UNCHANGED <<served, keys, latch, clear, proven, saved>> PROVE Authentic'
  BY Zenon, <1>6 DEF Authentic
<1>7. ASSUME NEW asked, Build(asked) PROVE Authentic'
  BY Zenon, <1>6, <1>7 DEF Build, failover, receiving
<1>8. CASE Deregister
  BY Zenon, <1>8 DEF Deregister, failover, Authentic
<1>9. CASE UNCHANGED vars
  BY Zenon, <1>6, <1>9 DEF vars, leg, context, failover, receiving
<1> QED
  BY Zenon, <1>1, <1>2, <1>3, <1>4, <1>5, <1>7, <1>8, <1>9 DEF Next

(* A leg that was keyed when registered and ever since replies only where  *)
(* an authentic packet came from, across rekeying and takeovers (admit,    *)
(* ingest, leg_state).                                                     *)
THEOREM LatchIsAuthentic == Spec => []LatchAuthenticated
<1>1. Authentic /\ [Next]_vars => Authentic'
  BY Zenon, NextAuthentic
<1>2. Init => Authentic
  BY Zenon DEF Init, Authentic
<1>3. Authentic => LatchAuthenticated
  BY Zenon DEF Authentic, LatchAuthenticated
<1> QED
  BY <1>1, <1>2, <1>3, PTL DEF Spec

-----------------------------------------------------------------------------
(* The SRTP stream.                                                        *)

(* Reduction modulo a cycle, and the index it yields, stay in range.       *)
LEMMA Modulo == \A n \in Int, m \in Nat \ {0} : n % m \in 0 .. m - 1
OBVIOUS

LEMMA IndexInRange == \A r \in Roc, q \in SeqNo : IndexOf(r, q) \in PacketIndex
<1> SUFFICES ASSUME NEW r \in Roc, NEW q \in SeqNo
             PROVE  r * SeqSize + q \in 0 .. SeqSize * RocSize - 1
  BY Zenon DEF IndexOf, PacketIndex
<1> USE StreamAssumption
<1>1. r \in Nat /\ r + 1 <= RocSize /\ q \in Nat /\ q < SeqSize
  BY DEF Roc, SeqNo
<1>2. (r + 1) * SeqSize <= RocSize * SeqSize
  BY <1>1
<1>3. (r + 1) * SeqSize = r * SeqSize + SeqSize
  BY <1>1
<1>4. RocSize * SeqSize = SeqSize * RocSize
  OBVIOUS
<1>5. r * SeqSize \in Nat /\ SeqSize * RocSize \in Nat
  BY <1>1
<1> QED
  BY <1>1, <1>2, <1>3, <1>4, <1>5

LEMMA EstimateType == \A s \in Rollover, q \in SeqNo : Estimate(s, q) \in Roc
<1> SUFFICES ASSUME NEW s \in Rollover, NEW q \in SeqNo
             PROVE  Estimate(s, q) \in Roc
  BY Zenon
<1>1. s.roc \in Roc /\ s.roc \in Int
  BY StreamAssumption DEF Rollover, Roc
<1>2. (s.roc - 1) % RocSize \in Roc /\ (s.roc + 1) % RocSize \in Roc
  <2>1. s.roc - 1 \in Int /\ s.roc + 1 \in Int /\ RocSize \in Nat \ {0}
    BY <1>1, StreamAssumption
  <2> QED
    BY <2>1, Modulo, Zenon DEF Roc
<1>3. \/ Estimate(s, q) = s.roc
      \/ Estimate(s, q) = (s.roc - 1) % RocSize
      \/ Estimate(s, q) = (s.roc + 1) % RocSize
  <2>1. CASE s.highest = None
    BY Zenon, <2>1 DEF Estimate
  <2>2. CASE s.highest # None /\ s.highest < Half /\ q - s.highest > Half
    BY Zenon, <2>2 DEF Estimate
  <2>3. CASE s.highest # None /\ ~(s.highest < Half /\ q - s.highest > Half)
    BY <2>3, Zenon DEF Estimate
  <2> QED
    BY Zenon, <2>1, <2>2, <2>3
<1> QED
  BY Zenon, <1>1, <1>2, <1>3

LEMMA AdvanceType == \A s \in Rollover, q \in SeqNo : Advance(s, q) \in Rollover
BY Zenon, EstimateType DEF Advance, Rollover

LEMMA SeqType == \A n \in Number : n % SeqSize \in SeqNo
<1> SUFFICES ASSUME NEW n \in Number PROVE n % SeqSize \in SeqNo
  BY Zenon
<1>1. n \in Int
  BY StreamAssumption DEF Number
<1> QED
  BY Zenon, <1>1, Modulo, StreamAssumption DEF SeqNo

LEMMA IndexNat == PacketIndex \subseteq Nat
BY DEF PacketIndex

-----------------------------------------------------------------------------
(* Positions, the replay filter and the saved state keep their types: no   *)
(* 16-bit sum or rollover step leaves its range.                           *)
THEOREM StreamTyped == StreamSpec => []StreamTypeOK
<1>1. StreamInit => StreamTypeOK
  BY StreamAssumption, EmptyWindowType DEF StreamInit, StreamTypeOK, Fresh, Rollover, Roc, End
<1>2. StreamTypeOK /\ [StreamNext]_streamVars => StreamTypeOK'
  <2> SUFFICES ASSUME StreamTypeOK, [StreamNext]_streamVars PROVE StreamTypeOK'
    BY Zenon
  <2>1. CASE UNCHANGED streamVars
    BY Zenon, <2>1 DEF StreamTypeOK, streamVars, history
  <2>2. ASSUME NEW n \in Number, Protect(n) PROVE StreamTypeOK'
    <3>1. n % SeqSize \in SeqNo
      BY Zenon, SeqType
    <3>2. IndexFor(sender, n % SeqSize) \in PacketIndex
      BY Zenon, <3>1, EstimateType, IndexInRange DEF StreamTypeOK, IndexFor
    <3>3. Advance(sender, n % SeqSize) \in Rollover
      BY Zenon, <3>1, AdvanceType DEF StreamTypeOK
    <3> QED
      BY <2>2, <3>2, <3>3 DEF StreamTypeOK, Protect, history
  <2>3. ASSUME NEW p \in sent, Unprotect(p) PROVE StreamTypeOK'
    <3>1. p.n \in Number /\ p.index \in PacketIndex /\ p.index \in Nat
      BY Zenon, IndexNat DEF StreamTypeOK
    <3>2. p.n % SeqSize \in SeqNo
      BY Zenon, <3>1, SeqType
    <3>3. Advance(receiver, p.n % SeqSize) \in Rollover
      BY Zenon, <3>2, AdvanceType DEF StreamTypeOK
    <3>4. ~IsReplay(filter, p.index)
      BY Zenon, <2>3 DEF Unprotect, Verdict
    <3>5. Record(filter, p.index) \in ReplayState
      BY Zenon, <3>1, <3>4, RecordType DEF StreamTypeOK
    <3> QED
      BY Zenon, <2>3, <3>1, <3>3, <3>5 DEF StreamTypeOK, Unprotect
  <2>4. ASSUME NEW e \in End, CheckpointEnd(e) PROVE StreamTypeOK'
    BY Zenon, <2>4 DEF StreamTypeOK, CheckpointEnd, State, history
  <2>5. CASE SenderTakeover
    BY <2>5 DEF StreamTypeOK, SenderTakeover, Recent, End, history
  <2>6. CASE ReceiverTakeover
    <3>1. checkpoints["receiver"] \in Rollover /\ checkpoints["receiver"].highest \in SeqNo
      BY Zenon, <2>6 DEF StreamTypeOK, ReceiverTakeover, Recent, End, Rollover
    <3>2. Position(checkpoints["receiver"]) \in PacketIndex
      BY Zenon, <3>1, IndexInRange DEF Position, Rollover
    <3>3. Anchor(Position(checkpoints["receiver"])) \in ReplayState
      BY Zenon, <3>2, IndexNat, AnchorRefuses
    <3>4. standbys' \in [End -> Nat]
      <4>1. "receiver" \in End /\ standbys \in [End -> Nat]
        BY Zenon DEF StreamTypeOK, End
      <4>2. standbys["receiver"] - 1 \in Nat
        BY <2>6, <4>1 DEF ReceiverTakeover, Recent
      <4>3. standbys' = [standbys EXCEPT !["receiver"] = standbys["receiver"] - 1]
        BY Zenon, <2>6 DEF ReceiverTakeover
      <4> QED
        BY Zenon, <4>1, <4>2, <4>3
    <3> QED
      BY Zenon, <2>6, <3>1, <3>2, <3>3, <3>4 DEF StreamTypeOK, ReceiverTakeover
  <2> QED
    BY Zenon, <2>1, <2>2, <2>3, <2>4, <2>5, <2>6 DEF StreamNext
<1> QED
  BY <1>1, <1>2, PTL DEF StreamSpec

-----------------------------------------------------------------------------
(* The filter refuses every index the receiver accepted, and what it was   *)
(* seeded to refuse; nothing of the latter was accepted.                   *)
Seeded(i) == anchor # None /\ (i = anchor \/ i <= anchor - Window)

StreamRefusals ==
  /\ \A i \in accepted : IsReplay(filter, i) /\ ~Seeded(i)
  /\ \A i \in Nat : Seeded(i) => IsReplay(filter, i)
  /\ anchor = None => before = {}

LEMMA NextStreamRefusals ==
  StreamTypeOK /\ StreamRefusals /\ UnprotectedOnce /\ [StreamNext]_streamVars => StreamRefusals' /\ UnprotectedOnce'
<1> SUFFICES ASSUME StreamTypeOK, StreamRefusals, UnprotectedOnce, [StreamNext]_streamVars
             PROVE  StreamRefusals' /\ UnprotectedOnce'
  BY Zenon
<1>1. CASE UNCHANGED <<filter, accepted, repeated, anchor, before>>
  BY Zenon, <1>1 DEF StreamRefusals, Seeded, UnprotectedOnce
<1>2. ASSUME NEW p \in sent, Unprotect(p) PROVE StreamRefusals' /\ UnprotectedOnce'
  <2>1. p.index \in Nat /\ filter \in ReplayState /\ accepted \subseteq Nat
    BY Zenon, IndexNat DEF StreamTypeOK
  <2>2. ~IsReplay(filter, p.index)
    BY Zenon, <1>2 DEF Unprotect, Verdict
  <2>3. /\ filter' = Record(filter, p.index) /\ accepted' = accepted \cup {p.index}
        /\ repeated' = repeated \cup ({p.index} \cap accepted) /\ anchor' = anchor
        /\ before' = before
    BY Zenon, <1>2 DEF Unprotect
  <2>4. p.index \notin accepted /\ ~Seeded(p.index)
    BY Zenon, <2>1, <2>2 DEF StreamRefusals
  <2>5. \A i \in Nat : IsReplay(filter, i) => IsReplay(filter', i)
    BY Zenon, <2>1, <2>2, <2>3, RefusalsStay
  <2>6. IsReplay(filter', p.index)
    BY Zenon, <2>1, <2>2, <2>3, RecordRefuses
  <2>7. \A i \in accepted' : IsReplay(filter', i) /\ ~Seeded(i)'
    BY Zenon, <2>1, <2>3, <2>4, <2>5, <2>6 DEF StreamRefusals, Seeded
  <2>8. \A i \in Nat : Seeded(i)' => IsReplay(filter', i)
    BY Zenon, <2>3, <2>5 DEF StreamRefusals, Seeded
  <2> QED
    BY Zenon, <2>3, <2>4, <2>7, <2>8 DEF StreamRefusals, UnprotectedOnce
<1>3. CASE ReceiverTakeover
  <2>1. checkpoints["receiver"] \in Rollover /\ checkpoints["receiver"].highest \in SeqNo
    BY Zenon, <1>3 DEF StreamTypeOK, ReceiverTakeover, Recent, End, Rollover
  <2>2. Position(checkpoints["receiver"]) \in Nat /\ Position(checkpoints["receiver"]) \in PacketIndex
    BY Zenon, <2>1, IndexInRange, IndexNat DEF Position, Rollover
  <2>3. accepted' = {} /\ repeated' = {} /\ anchor' = Position(checkpoints["receiver"])
        /\ filter' = Anchor(Position(checkpoints["receiver"]))
    BY Zenon, <1>3 DEF ReceiverTakeover
  <2>4. anchor' # None
    BY Zenon, <2>2, <2>3, StreamAssumption
  <2> QED
    BY Zenon, <2>2, <2>3, <2>4, AnchorRefuses DEF StreamRefusals, Seeded, UnprotectedOnce
<1> QED
  <2>1. ASSUME NEW n \in Number, Protect(n) PROVE UNCHANGED <<filter, accepted, repeated, anchor, before>>
    BY Zenon, <2>1 DEF Protect, history
  <2>2. ASSUME NEW e \in End, CheckpointEnd(e) PROVE UNCHANGED <<filter, accepted, repeated, anchor, before>>
    BY Zenon, <2>2 DEF CheckpointEnd, history
  <2>3. CASE SenderTakeover
    BY Zenon, <1>1, <2>3 DEF SenderTakeover, history
  <2>4. CASE UNCHANGED streamVars
    BY Zenon, <1>1, <2>4 DEF streamVars, history
  <2> QED
    BY Zenon, <1>1, <1>2, <1>3, <2>1, <2>2, <2>3, <2>4 DEF StreamNext

LEMMA InitStreamRefusals == StreamInit => StreamRefusals /\ UnprotectedOnce
BY Zenon DEF StreamInit, StreamRefusals, Seeded, UnprotectedOnce

(* No packet is accepted twice by one receiver (unprotect).                *)
THEOREM SrtpAcceptsOnce == StreamSpec => []UnprotectedOnce
<1> QED
  BY InitStreamRefusals, NextStreamRefusals, StreamTyped, PTL DEF StreamSpec

(* After a takeover only the window below the checkpoint, or what is newer *)
(* than it, can be accepted again (seed_stream).                           *)
THEOREM SrtpTakeoverIsBounded == StreamSpec => []TakeoverBounded
<1>1. StreamTypeOK /\ StreamRefusals => TakeoverBounded
  <2> SUFFICES ASSUME StreamTypeOK, StreamRefusals, NEW i \in Again
               PROVE  i # anchor /\ i > anchor - Window
    BY Zenon DEF TakeoverBounded
  <2>1. i \in accepted /\ i \in before /\ i \in Nat /\ ~Seeded(i)
    BY Zenon, IndexNat DEF Again, StreamRefusals, StreamTypeOK
  <2>2. anchor # None /\ anchor \in Nat
    BY Zenon, <2>1, IndexNat DEF StreamRefusals, StreamTypeOK
  <2> QED
    BY <2>1, <2>2, WindowAssumption DEF Seeded
<1> QED
  BY <1>1, InitStreamRefusals, NextStreamRefusals, StreamTyped, PTL DEF StreamSpec

-----------------------------------------------------------------------------
(* A cycle further on is at least a cycle of indices further on.           *)
LEMMA CycleApart ==
  \A a, b \in Int : a < b => a * SeqSize + SeqSize <= b * SeqSize
<1> SUFFICES ASSUME NEW a \in Int, NEW b \in Int, a < b
             PROVE  a * SeqSize + SeqSize <= b * SeqSize
  BY Zenon
<1> USE StreamAssumption
<1>1. b - a - 1 \in Nat
  OBVIOUS
<1>2. (b - a - 1) * SeqSize \in Nat
  BY <1>1
<1>3. (b - a - 1) * SeqSize = b * SeqSize - a * SeqSize - SeqSize
  OBVIOUS
<1>4. a * SeqSize \in Int /\ b * SeqSize \in Int
  OBVIOUS
<1> QED
  BY <1>2, <1>3, <1>4

LEMMA CycleAndRest ==
  \A n \in Nat : /\ n \div SeqSize \in Nat
                 /\ n = (n \div SeqSize) * SeqSize + (n % SeqSize)
<1> SUFFICES ASSUME NEW n \in Nat
             PROVE  /\ n \div SeqSize \in Nat
                    /\ n = (n \div SeqSize) * SeqSize + (n % SeqSize)
  BY Zenon
<1>1. SeqSize \in Int /\ SeqSize > 0
  BY StreamAssumption
<1>2. n \div SeqSize \in Int
  BY <1>1
<1>3. n = SeqSize * (n \div SeqSize) + (n % SeqSize)
  BY <1>1
<1>4. n \div SeqSize >= 0
  BY <1>1
<1>5. SeqSize * (n \div SeqSize) = (n \div SeqSize) * SeqSize
  BY <1>1, <1>2
<1> QED
  BY <1>2, <1>3, <1>4, <1>5

(* The cycle of an index is determined by any index in it.                 *)
LEMMA SameCycle ==
  \A a, b \in Int : \A i, j \in SeqNo : a * SeqSize + i <= b * SeqSize + j => a <= b
<1> SUFFICES ASSUME NEW a \in Int, NEW b \in Int, NEW i \in SeqNo, NEW j \in SeqNo,
                    a * SeqSize + i <= b * SeqSize + j, b < a
             PROVE  FALSE
  BY DEF SeqNo
<1>1. b * SeqSize + SeqSize <= a * SeqSize
  BY Zenon, CycleApart
<1>2. a * SeqSize \in Int /\ b * SeqSize \in Int /\ SeqSize \in Int
  BY StreamAssumption
<1> QED
  BY <1>1, <1>2 DEF SeqNo

(* A number of the source is a cycle before the last one and a sequence    *)
(* number.                                                                 *)
LEMMA NumberPlaced ==
  ASSUME InReach, NEW n \in Number
  PROVE  \E q \in Nat : q < RocSize - 1 /\ TrueIndex(n) = q * SeqSize + (n % SeqSize)
<1> DEFINE c == n \div SeqSize
<1>1. n \in Nat /\ Base \in Nat /\ Last \in Nat /\ Base <= n /\ n <= Last
  BY StreamAssumption DEF Number
<1>2. /\ c \in Nat /\ n = c * SeqSize + (n % SeqSize)
      /\ FirstCycle \in Nat /\ Base = FirstCycle * SeqSize + (Base % SeqSize)
      /\ Last \div SeqSize \in Nat /\ Last = (Last \div SeqSize) * SeqSize + (Last % SeqSize)
  BY Zenon, <1>1, CycleAndRest DEF FirstCycle
<1>3. n % SeqSize \in SeqNo /\ Base % SeqSize \in SeqNo /\ Last % SeqSize \in SeqNo
  <2>1. n \in Int /\ Base \in Int /\ Last \in Int
    BY <1>1
  <2> QED
    BY Zenon, <2>1, Modulo, StreamAssumption DEF SeqNo
<1>4. c \in Int /\ FirstCycle \in Int /\ Last \div SeqSize \in Int
  BY <1>2
<1>5. FirstCycle <= c
  <2>1. FirstCycle * SeqSize + (Base % SeqSize) <= c * SeqSize + (n % SeqSize)
    BY Zenon, <1>1, <1>2
  <2> QED
    BY Zenon, <2>1, <1>3, <1>4, SameCycle
<1>6. c <= Last \div SeqSize
  <2>1. c * SeqSize + (n % SeqSize) <= (Last \div SeqSize) * SeqSize + (Last % SeqSize)
    BY Zenon, <1>1, <1>2
  <2> QED
    BY Zenon, <2>1, <1>3, <1>4, SameCycle
<1>7. c - FirstCycle \in Nat /\ c - FirstCycle < RocSize - 1
  <2>1. Last \div SeqSize - FirstCycle < RocSize - 1 /\ RocSize \in Nat
    BY Zenon, StreamAssumption DEF InReach
  <2> QED
    BY <1>2, <1>5, <1>6, <2>1
<1>8. TrueIndex(n) = (c - FirstCycle) * SeqSize + (n % SeqSize)
  <2>1. (c - FirstCycle) * SeqSize = c * SeqSize - FirstCycle * SeqSize
    BY <1>4, StreamAssumption
  <2>2. c * SeqSize \in Int /\ FirstCycle * SeqSize \in Int /\ n % SeqSize \in Int
    BY <1>3, <1>4, StreamAssumption DEF SeqNo
  <2> HIDE DEF c
  <2> QED
    BY <1>2, <2>1, <2>2 DEF TrueIndex
<1> QED
  BY Zenon, <1>7, <1>8

LEMMA TrueIndexDifference ==
  \A m, n \in Number : /\ TrueIndex(m) \in Int /\ TrueIndex(n) \in Int
                       /\ TrueIndex(m) - TrueIndex(n) = m - n
<1>1. FirstCycle * SeqSize \in Int
  BY CycleAndRest, StreamAssumption DEF FirstCycle
<1>2. \A n \in Number : n \in Int
  BY StreamAssumption DEF Number
<1> QED
  BY <1>1, <1>2 DEF TrueIndex

(* The estimate is right for an index within half a cycle of the position. *)
LEMMA EstimateRight ==
  ASSUME NEW s \in Rollover, s.highest # None, NEW q \in Roc, NEW r \in SeqNo,
         (q * SeqSize + r) - Position(s) < Half, Position(s) - (q * SeqSize + r) < Half
  PROVE  Estimate(s, r) = q
<1> DEFINE S == SeqSize
<1> DEFINE h == s.highest
<1> DEFINE v == s.roc
<1>1. /\ h \in 0 .. S - 1 /\ v \in 0 .. RocSize - 1
      /\ q \in 0 .. RocSize - 1 /\ r \in 0 .. S - 1
  BY Zenon DEF Rollover, SeqNo, Roc
<1>2. S \in Nat /\ RocSize \in Nat /\ Half \in Nat /\ 2 * Half <= S /\ S <= 2 * Half + 1
  BY StreamAssumption DEF Half
<1>3. (q * S + r) - (v * S + h) < Half /\ (v * S + h) - (q * S + r) < Half
  BY Zenon DEF Position, IndexOf
<1>4. q * S \in Int /\ v * S \in Int
  BY <1>1, <1>2
<1>5. q < v - 1 => q * S + S <= (v - 1) * S
  BY <1>1, CycleApart
<1>6. v + 1 < q => (v + 1) * S + S <= q * S
  BY <1>1, CycleApart
<1>7. (v - 1) * S = v * S - S /\ (v + 1) * S = v * S + S
  BY <1>1, <1>2
<1> HIDE DEF S, h, v
<1>8. q = v - 1 \/ q = v \/ q = v + 1
  BY <1>1, <1>2, <1>3, <1>4, <1>5, <1>6, <1>7
<1>9. CASE q = v
  <2>1. r - h < Half /\ h - r < Half
    BY <1>1, <1>2, <1>3, <1>4, <1>9
  <2>2. ~(r - h > Half) /\ ~(h - r > Half)
    BY <1>1, <1>2, <2>1
  <2> QED
    BY Zenon, <1>9, <2>2 DEF Estimate, h, v
<1>10. CASE q = v - 1
  <2>1. q * S = v * S - S
    BY Zenon, <1>7, <1>10
  <2>2. h + S - r < Half
    BY <1>1, <1>2, <1>3, <1>4, <2>1
  <2>3. h < Half /\ r - h > Half
    BY <1>1, <1>2, <2>2
  <2>4. (v - 1) % RocSize = v - 1
    BY <1>1, <1>2, <1>10
  <2> QED
    BY Zenon, <1>10, <2>3, <2>4 DEF Estimate, h, v
<1>11. CASE q = v + 1
  <2>1. q * S = v * S + S
    BY Zenon, <1>7, <1>11
  <2>2. r + S - h < Half
    BY <1>1, <1>2, <1>3, <1>4, <2>1
  <2>3. ~(h < Half) /\ h >= Half /\ h - r > Half
    BY <1>1, <1>2, <2>2
  <2>4. (v + 1) % RocSize = v + 1
    BY <1>1, <1>2, <1>11
  <2> QED
    BY Zenon, <1>11, <2>3, <2>4 DEF Estimate, h, v
<1> QED
  BY Zenon, <1>8, <1>9, <1>10, <1>11

(* The state moves to the newer of its position and the estimated index.   *)
LEMMA AdvanceToNewer ==
  ASSUME NEW s \in Rollover, s.highest # None, NEW r \in SeqNo, RocSize > 2,
         s.roc < RocSize - 1, Estimate(s, r) < RocSize - 1
  PROVE  /\ Advance(s, r).highest # None
         /\ Position(Advance(s, r)) =
              IF IndexFor(s, r) > Position(s) THEN IndexFor(s, r) ELSE Position(s)
<1> DEFINE v == s.roc
<1> DEFINE w == Estimate(s, r)
<1> DEFINE h == s.highest
<1>1. /\ h \in SeqNo /\ v \in Roc /\ w \in Roc
  BY Zenon, EstimateType DEF Rollover
<1>2. h \in Int /\ r \in Int /\ v \in Nat /\ w \in Nat /\ SeqSize \in Nat
  BY <1>1, StreamAssumption DEF SeqNo, Roc
<1>3. v * SeqSize \in Int /\ w * SeqSize \in Int
  BY <1>2
<1>4. (v + 1) % RocSize = v + 1
  BY <1>2, StreamAssumption
<1>5. Position(s) = v * SeqSize + h /\ IndexFor(s, r) = w * SeqSize + r
  BY Zenon DEF Position, IndexFor, IndexOf
<1>6. r # None
  BY Zenon, StreamAssumption
<1> HIDE DEF v, w, h
<1>7. CASE w = v
  <2>1. w # (v + 1) % RocSize
    BY <1>2, <1>4, <1>7
  <2>2. CASE r > h
    <3>1. Advance(s, r) = [roc |-> w, highest |-> r]
      BY Zenon, <1>7, <2>2 DEF Advance, v, w, h
    <3>2. Position(Advance(s, r)) = w * SeqSize + r /\ Advance(s, r).highest = r
      <4>1. Advance(s, r).roc = w /\ Advance(s, r).highest = r
        BY <3>1
      <4> QED
        BY Zenon, <4>1 DEF Position, IndexOf
    <3>3. w * SeqSize + r > v * SeqSize + h
      BY <1>2, <1>3, <1>7, <2>2
    <3> QED
      BY Zenon, <3>2, <3>3, <1>5, <1>6
  <2>3. CASE ~(r > h)
    <3>1. Advance(s, r) = s
      BY Zenon, <2>1, <2>3 DEF Advance, v, w, h
    <3>2. ~(w * SeqSize + r > v * SeqSize + h)
      BY <1>2, <1>3, <1>7, <2>3
    <3> QED
      BY Zenon, <3>1, <3>2, <1>5
  <2> QED
    BY Zenon, <2>2, <2>3
<1>8. CASE w = v + 1
  <2>1. Advance(s, r) = [roc |-> w, highest |-> r]
    BY Zenon, <1>8, <1>4 DEF Advance, v, w, h
  <2>2. Position(Advance(s, r)) = w * SeqSize + r /\ Advance(s, r).highest = r
    <3>1. Advance(s, r).roc = w /\ Advance(s, r).highest = r
      BY <2>1
    <3> QED
      BY Zenon, <3>1 DEF Position, IndexOf
  <2>3. ~(w * SeqSize + r <= v * SeqSize + h)
    <3>1. v \in Int /\ w \in Int /\ ~(w <= v)
      BY <1>2, <1>8
    <3> QED
      BY Zenon, <3>1, <1>1, SameCycle
  <2>4. w * SeqSize + r > v * SeqSize + h
    BY <2>3, <1>2, <1>3
  <2> QED
    BY Zenon, <2>2, <2>4, <1>5, <1>6
<1>9. CASE w # v /\ w # v + 1
  <2>1. Advance(s, r) = s
    BY Zenon, <1>9, <1>4 DEF Advance, v, w, h
  <2>2. w = (v - 1) % RocSize
    BY Zenon, <1>9, <1>4 DEF Estimate, v, w, h
  <2>3. w < v
    <3>1. CASE v = 0
      BY <3>1, <2>2, StreamAssumption, <1>2 DEF w
    <3>2. CASE v > 0
      BY <3>2, <2>2, StreamAssumption, <1>1, <1>2 DEF Roc
    <3> QED
      BY <3>1, <3>2, <1>2
  <2>4. ~(v * SeqSize + h <= w * SeqSize + r)
    <3>1. v \in Int /\ w \in Int /\ ~(v <= w)
      BY <1>2, <2>3
    <3> QED
      BY Zenon, <3>1, <1>1, SameCycle
  <2>5. ~(w * SeqSize + r > v * SeqSize + h)
    BY <2>4, <1>2, <1>3
  <2> QED
    BY Zenon, <2>1, <2>5, <1>5
<1> QED
  BY Zenon, <1>7, <1>8, <1>9

(* An end that newest index x passed through: its state is at x, or it     *)
(* was resumed from a checkpoint that is not older than Stale.             *)
Behind(s, c, x) ==
  /\ s.highest # None /\ Position(s) <= x
  /\ c.highest # None => Position(c) <= Position(s)
  /\ Position(s) = x \/ (c.highest # None /\ x - Position(c) <= Stale)

SenderPlaced ==
  /\ \A p \in sent : p.index = TrueIndex(p.n)
  /\ sent = {} => sender = Fresh /\ checkpoints["sender"] = Fresh
  /\ sent # {} => \E n \in Numbers :
       /\ \A m \in Numbers : m <= n
       /\ Behind(sender, checkpoints["sender"], TrueIndex(n))

ReceiverPlaced ==
  /\ newest = None =>
       receiver = Fresh /\ filter = EmptyWindow /\ checkpoints["receiver"] = Fresh
  /\ newest # None =>
       /\ Behind(receiver, checkpoints["receiver"], TrueIndex(newest))
       /\ filter.seen /\ filter.top = Position(receiver)

LEMMA PositionType == \A s \in Rollover : s.highest # None => Position(s) \in Int
<1> SUFFICES ASSUME NEW s \in Rollover, s.highest # None PROVE Position(s) \in Int
  BY Zenon
<1>1. Position(s) \in PacketIndex
  BY Zenon, IndexInRange DEF Position, Rollover
<1> QED
  BY <1>1 DEF PacketIndex

LEMMA BehindStale ==
  ASSUME NEW s \in Rollover, NEW c \in Rollover, NEW x \in Int, Behind(s, c, x)
  PROVE  Position(s) \in Int /\ Position(s) <= x /\ x - Position(s) <= Stale
<1>1. Position(s) \in Int /\ (c.highest # None => Position(c) \in Int)
  BY Zenon, PositionType DEF Behind
<1> QED
  BY <1>1, StreamAssumption DEF Behind

LEMMA BehindCheckpoint ==
  ASSUME NEW s \in Rollover, NEW c \in Rollover, NEW x \in Int, Behind(s, c, x)
  PROVE  Behind(s, s, x)
<1>1. Position(s) \in Int /\ Position(s) <= x /\ x - Position(s) <= Stale
  BY Zenon, BehindStale
<1>2. s.highest # None /\ Position(s) <= Position(s)
  BY <1>1 DEF Behind
<1> QED
  BY Zenon, <1>1, <1>2 DEF Behind

LEMMA BehindTakeover ==
  ASSUME NEW s \in Rollover, NEW c \in Rollover, NEW x \in Int, Behind(s, c, x),
         c.highest # None, Position(s) - Position(c) <= Stale
  PROVE  Behind(c, c, x)
<1>1. Position(s) \in Int /\ Position(c) \in Int /\ Position(s) <= x
  BY Zenon, PositionType DEF Behind
<1>2. Position(c) <= x /\ Position(c) <= Position(c)
  BY <1>1 DEF Behind
<1>3. x - Position(c) <= Stale
  BY <1>1 DEF Behind
<1> QED
  BY Zenon, <1>2, <1>3 DEF Behind

(* A packet whose index is estimated right keeps the state in place.       *)
LEMMA BehindPacket ==
  ASSUME InReach, NEW s \in Rollover, NEW c \in Rollover, NEW m \in Number, NEW n \in Number,
         Behind(s, c, TrueIndex(m)), IndexFor(s, n % SeqSize) = TrueIndex(n)
  PROVE  LET t == Advance(s, n % SeqSize) IN
         /\ Behind(t, c, TrueIndex(IF n > m THEN n ELSE m))
         /\ Position(t) = IF TrueIndex(n) > Position(s) THEN TrueIndex(n) ELSE Position(s)
<1> DEFINE r == n % SeqSize
<1> DEFINE t == Advance(s, r)
<1>1. r \in SeqNo /\ m % SeqSize \in SeqNo
  BY Zenon, SeqType
<1>2. PICK q \in Nat : q < RocSize - 1 /\ TrueIndex(n) = q * SeqSize + r
  BY Zenon, NumberPlaced
<1>3. PICK k \in Nat : k < RocSize - 1 /\ TrueIndex(m) = k * SeqSize + (m % SeqSize)
  BY Zenon, NumberPlaced
<1>4. s.highest # None /\ s.highest \in SeqNo /\ s.roc \in Roc /\ Estimate(s, r) \in Roc
  BY Zenon, <1>1, EstimateType DEF Behind, Rollover
<1>5. s.roc \in Int /\ Estimate(s, r) \in Int /\ q \in Int /\ k \in Int /\ RocSize \in Int
  BY <1>4, StreamAssumption DEF Roc
<1>6. s.roc <= k
  <2>1. s.roc * SeqSize + s.highest <= k * SeqSize + (m % SeqSize)
    BY Zenon, <1>3 DEF Behind, Position, IndexOf
  <2> QED
    BY Zenon, <2>1, <1>1, <1>4, <1>5, SameCycle
<1>7. Estimate(s, r) <= q
  <2>1. Estimate(s, r) * SeqSize + r = q * SeqSize + r
    BY Zenon, <1>2 DEF IndexFor, IndexOf
  <2>2. q * SeqSize + r <= q * SeqSize + r
    BY <1>1, <1>5, StreamAssumption DEF SeqNo
  <2> QED
    BY Zenon, <2>1, <2>2, <1>1, <1>5, SameCycle
<1>8. s.roc < RocSize - 1 /\ Estimate(s, r) < RocSize - 1 /\ RocSize > 2
  BY <1>2, <1>3, <1>5, <1>6, <1>7 DEF InReach
<1> HIDE DEF r
<1>9. /\ t.highest # None
      /\ Position(t) = IF TrueIndex(n) > Position(s) THEN TrueIndex(n) ELSE Position(s)
  BY Zenon, <1>1, <1>4, <1>8, AdvanceToNewer DEF r
<1> HIDE DEF t
<1>10. /\ Position(s) \in Int /\ Position(s) <= TrueIndex(m)
       /\ c.highest # None => Position(c) \in Int
       /\ TrueIndex(m) \in Int /\ TrueIndex(n) \in Int
       /\ TrueIndex(n) - TrueIndex(m) = n - m
  BY Zenon, PositionType, TrueIndexDifference DEF Behind
<1>11. m \in Int /\ n \in Int
  BY StreamAssumption DEF Number
<1>12. Behind(t, c, TrueIndex(IF n > m THEN n ELSE m))
  <2>1. c.highest # None => Position(c) <= Position(t)
    BY <1>9, <1>10 DEF Behind
  <2>2. CASE n > m
    <3>1. TrueIndex(n) > Position(s) /\ TrueIndex(n) <= TrueIndex(n)
      BY <2>2, <1>10, <1>11
    <3>2. Position(t) = TrueIndex(n)
      BY Zenon, <3>1, <1>9
    <3> QED
      BY Zenon, <2>1, <2>2, <3>1, <3>2, <1>9 DEF Behind
  <2>3. CASE ~(n > m)
    <3>1. TrueIndex(n) <= TrueIndex(m)
      BY <2>3, <1>10, <1>11
    <3>2. Position(t) <= TrueIndex(m)
      BY <3>1, <1>9, <1>10
    <3>3. Position(s) = TrueIndex(m) => Position(t) = TrueIndex(m)
      BY <3>1, <1>9, <1>10
    <3> QED
      BY Zenon, <2>1, <2>3, <3>2, <3>3, <1>9 DEF Behind
  <2> QED
    BY Zenon, <2>2, <2>3
<1> QED
  BY Zenon, <1>9, <1>12 DEF t, r

(* The first packet sets the position.                                     *)
LEMMA FreshPacket ==
  \A r \in SeqNo : /\ IndexFor(Fresh, r) = r
                   /\ Advance(Fresh, r) = [roc |-> 0, highest |-> r]
                   /\ Position(Advance(Fresh, r)) = r /\ Advance(Fresh, r).highest # None
<1> SUFFICES ASSUME NEW r \in SeqNo
             PROVE  /\ IndexFor(Fresh, r) = r
                    /\ Advance(Fresh, r) = [roc |-> 0, highest |-> r]
                    /\ Position(Advance(Fresh, r)) = r /\ Advance(Fresh, r).highest # None
  BY Zenon
<1>1. Fresh.highest = None /\ Fresh.roc = 0
  BY DEF Fresh
<1>2. Estimate(Fresh, r) = 0
  BY Zenon, <1>1 DEF Estimate
<1>3. Advance(Fresh, r) = [roc |-> 0, highest |-> r]
  BY Zenon, <1>1, <1>2 DEF Advance
<1>4. Advance(Fresh, r).roc = 0 /\ Advance(Fresh, r).highest = r
  BY <1>3
<1>5. r \in Int /\ r # None /\ 0 * SeqSize + r = r
  BY StreamAssumption DEF SeqNo
<1> QED
  BY Zenon, <1>2, <1>3, <1>4, <1>5 DEF IndexFor, IndexOf, Position

LEMMA BehindFirst ==
  \A r \in SeqNo : Behind(Advance(Fresh, r), Fresh, r)
<1>1. Fresh.highest = None
  BY DEF Fresh
<1>2. \A r \in SeqNo : r <= r
  BY DEF SeqNo
<1> QED
  BY Zenon, <1>1, <1>2, FreshPacket DEF Behind

LEMMA IndexRight ==
  ASSUME InReach, NEW s \in Rollover, s.highest # None, NEW n \in Number,
         TrueIndex(n) - Position(s) < Half, Position(s) - TrueIndex(n) < Half
  PROVE  IndexFor(s, n % SeqSize) = TrueIndex(n)
<1>1. PICK q \in Nat : q < RocSize - 1 /\ TrueIndex(n) = q * SeqSize + (n % SeqSize)
  BY Zenon, NumberPlaced
<1>2. q \in Roc
  BY <1>1, StreamAssumption DEF Roc
<1>3. n % SeqSize \in SeqNo
  BY Zenon, SeqType
<1>4. Estimate(s, n % SeqSize) = q
  <2>1. /\ (q * SeqSize + (n % SeqSize)) - Position(s) < Half
        /\ Position(s) - (q * SeqSize + (n % SeqSize)) < Half
    BY Zenon, <1>1
  <2> QED
    BY Zenon, <1>2, <1>3, <2>1, EstimateRight
<1> QED
  BY Zenon, <1>1, <1>4 DEF IndexFor, IndexOf

LEMMA EndsInit == StreamInit => SenderPlaced /\ ReceiverPlaced
BY Zenon DEF StreamInit, SenderPlaced, ReceiverPlaced, End

(* `protect` keeps the sender in place and numbers its packet right.       *)
LEMMA ProtectPlaced ==
  ASSUME InReach, StreamTypeOK, SenderPlaced, NEW n \in Number, Protect(n)
  PROVE  SenderPlaced'
<1> DEFINE r == n % SeqSize
<1> DEFINE c == checkpoints["sender"]
<1>1. /\ sent' = sent \cup {[n |-> n, index |-> IndexFor(sender, r)]}
      /\ sender' = Advance(sender, r) /\ checkpoints' = checkpoints /\ Reaches(n)
  BY Zenon DEF Protect
<1>2. /\ r \in SeqNo /\ sender \in Rollover /\ c \in Rollover /\ Numbers \subseteq Number
      /\ n \in Int /\ Number \subseteq Int
  <2>1. Number \subseteq Int
    BY StreamAssumption DEF Number
  <2> QED
    BY Zenon, <2>1, SeqType DEF StreamTypeOK, End, Numbers
<1> HIDE DEF r, c
<1>3. Numbers' = Numbers \cup {n} /\ sent' # {}
  <2>1. [n |-> n, index |-> IndexFor(sender, r)].n = n
    OBVIOUS
  <2> QED
    BY Zenon, <1>1, <2>1 DEF Numbers
<1>4. ASSUME IndexFor(sender, r) = TrueIndex(n)
      PROVE  \A p \in sent' : p.index = TrueIndex(p.n)
  <2>1. [n |-> n, index |-> IndexFor(sender, r)].n = n
    OBVIOUS
  <2>2. [n |-> n, index |-> IndexFor(sender, r)].index = IndexFor(sender, r)
    OBVIOUS
  <2> QED
    BY Zenon, <1>1, <1>4, <2>1, <2>2 DEF SenderPlaced
<1>5. CASE sent = {}
  <2>1. sender = Fresh /\ c = Fresh /\ n \in Start
    BY Zenon, <1>1, <1>5 DEF SenderPlaced, Reaches, c
  <2>2. TrueIndex(n) = r
    <3>1. n \div SeqSize = FirstCycle
      BY Zenon, <2>1 DEF InReach
    <3>2. n \in Nat
      BY StreamAssumption DEF Number
    <3>3. FirstCycle \in Nat /\ n = FirstCycle * SeqSize + r
      BY Zenon, <3>1, <3>2, CycleAndRest DEF r
    <3>4. FirstCycle * SeqSize \in Int /\ r \in Int
      BY <3>3, <1>2, StreamAssumption DEF SeqNo
    <3> QED
      BY <3>3, <3>4 DEF TrueIndex
  <2>3. IndexFor(sender, r) = TrueIndex(n) /\ Behind(sender', c, TrueIndex(n))
    BY Zenon, <1>1, <1>2, <2>1, <2>2, FreshPacket, BehindFirst
  <2>4. Numbers' = {n} /\ n <= n
    <3>1. Numbers = {}
      BY Zenon, <1>5 DEF Numbers
    <3>2. n <= n
      BY <1>2
    <3> QED
      BY Zenon, <3>1, <3>2, <1>3
  <2> QED
    BY Zenon, <1>1, <1>3, <1>4, <2>3, <2>4 DEF SenderPlaced, c
<1>6. CASE sent # {}
  <2>1. PICK m \in Numbers : (\A k \in Numbers : k <= m) /\ Behind(sender, c, TrueIndex(m))
    BY Zenon, <1>6 DEF SenderPlaced, c
  <2>2. m \in Number /\ m \in Int /\ m <= m
    BY <1>2, <2>1
  <2>3. m - n <= Reorder /\ n - m < Half - Stale
    <3>1. PICK k \in Numbers : n - k < Half - Stale
      BY Zenon, <1>1, <1>6 DEF Reaches
    <3>2. k <= m /\ k \in Int
      BY Zenon, <2>1, <1>2
    <3>3. Half \in Int /\ Stale \in Int
      BY StreamAssumption DEF Half
    <3>4. n - m < Half - Stale
      BY <3>1, <3>2, <3>3, <2>2, <1>2
    <3> QED
      BY Zenon, <3>4, <1>1, <1>6 DEF Reaches
  <2>4. /\ TrueIndex(m) \in Int /\ TrueIndex(n) \in Int
        /\ TrueIndex(n) - TrueIndex(m) = n - m
    BY Zenon, <2>2, TrueIndexDifference
  <2>5. /\ Position(sender) \in Int /\ Position(sender) <= TrueIndex(m)
        /\ TrueIndex(m) - Position(sender) <= Stale
    BY Zenon, <1>2, <2>1, <2>4, BehindStale
  <2>6. TrueIndex(n) - Position(sender) < Half /\ Position(sender) - TrueIndex(n) < Half
    <3>1. Half \in Int /\ Stale \in Int /\ Reorder \in Int /\ Reorder < Half
      BY StreamAssumption DEF Half, InReach
    <3> QED
      BY <3>1, <1>2, <2>2, <2>3, <2>4, <2>5
  <2>7. IndexFor(sender, r) = TrueIndex(n)
    BY Zenon, <1>2, <2>1, <2>6, IndexRight DEF Behind, r
  <2>8. Behind(sender', c, TrueIndex(IF n > m THEN n ELSE m))
    BY Zenon, <1>1, <1>2, <2>1, <2>2, <2>7, BehindPacket DEF r
  <2>9. \A k \in Numbers' : k <= IF n > m THEN n ELSE m
    <3> SUFFICES ASSUME NEW k \in Numbers' PROVE k <= IF n > m THEN n ELSE m
      BY Zenon
    <3>1. (k \in Int /\ k <= m) \/ k = n
      BY Zenon, <1>2, <1>3, <2>1
    <3> QED
      BY <3>1, <1>2, <2>2
  <2>10. (IF n > m THEN n ELSE m) \in Numbers'
    BY Zenon, <1>3
  <2> QED
    BY Zenon, <1>1, <1>3, <1>4, <2>7, <2>8, <2>9, <2>10 DEF SenderPlaced, c
<1> QED
  BY Zenon, <1>5, <1>6

(* `unprotect` keeps the receiver in place.                                *)
LEMMA UnprotectPlaced ==
  ASSUME InReach, StreamTypeOK, SenderPlaced, ReceiverPlaced, NEW p \in sent, Unprotect(p)
  PROVE  ReceiverPlaced'
<1> DEFINE r == p.n % SeqSize
<1> DEFINE c == checkpoints["receiver"]
<1>1. /\ receiver' = Advance(receiver, r) /\ filter' = Record(filter, p.index)
      /\ newest' = (IF newest = None \/ p.n > newest THEN p.n ELSE newest)
      /\ checkpoints' = checkpoints
      /\ IndexFor(receiver, r) = p.index /\ p.index = TrueIndex(p.n)
  BY Zenon DEF Unprotect, Verdict, SenderPlaced
<1>2. /\ p.n \in Number /\ r \in SeqNo /\ receiver \in Rollover /\ c \in Rollover
      /\ p.n # None
  BY Zenon, SeqType, StreamAssumption DEF StreamTypeOK, End
<1> HIDE DEF r, c
<1>3. CASE newest = None
  <2>1. receiver = Fresh /\ c = Fresh /\ ~filter.seen
    BY <1>3 DEF ReceiverPlaced, EmptyWindow, c
  <2>2. /\ p.index = r /\ Position(receiver') = r /\ Behind(receiver', c, TrueIndex(p.n))
    BY Zenon, <1>1, <1>2, <2>1, FreshPacket, BehindFirst
  <2>3. filter' = [top |-> r, mask |-> {0}, seen |-> TRUE]
    BY Zenon, <1>1, <2>1, <2>2 DEF Record
  <2>4. filter'.seen /\ filter'.top = r
    BY <2>3
  <2> QED
    BY Zenon, <1>1, <1>2, <1>3, <2>2, <2>4 DEF ReceiverPlaced, c
<1>4. CASE newest # None
  <2>1. /\ newest \in Number /\ Behind(receiver, c, TrueIndex(newest))
        /\ filter.seen /\ filter.top = Position(receiver) /\ filter \in ReplayState
    BY Zenon, <1>4 DEF ReceiverPlaced, StreamTypeOK, c
  <2>2. newest' = (IF p.n > newest THEN p.n ELSE newest) /\ newest' # None
    BY Zenon, <1>1, <1>2, <1>4
  <2>3. /\ Behind(receiver', c, TrueIndex(newest'))
        /\ Position(receiver') =
             IF p.index > Position(receiver) THEN p.index ELSE Position(receiver)
    <3>1. IndexFor(receiver, p.n % SeqSize) = TrueIndex(p.n)
      BY Zenon, <1>1 DEF r
    <3>2. /\ Behind(Advance(receiver, r), c, TrueIndex(IF p.n > newest THEN p.n ELSE newest))
          /\ Position(Advance(receiver, r)) =
               IF TrueIndex(p.n) > Position(receiver) THEN TrueIndex(p.n) ELSE Position(receiver)
      BY Zenon, <3>1, <1>2, <2>1, BehindPacket DEF r
    <3> QED
      BY Zenon, <3>2, <1>1, <2>2
  <2>4. /\ filter'.seen
        /\ filter'.top = IF p.index > Position(receiver) THEN p.index ELSE Position(receiver)
    <3>1. CASE p.index > filter.top
      <4>1. filter' = [top |-> p.index, seen |-> TRUE,
              mask |-> {0} \cup {j \in Bits : j - (p.index - filter.top) \in filter.mask}]
        BY Zenon, <1>1, <2>1, <3>1 DEF Record
      <4>2. filter'.seen /\ filter'.top = p.index
        BY <4>1
      <4> QED
        BY Zenon, <4>2, <2>1, <3>1
    <3>2. CASE ~(p.index > filter.top)
      <4>1. filter' = [filter EXCEPT !.mask = @ \cup {filter.top - p.index}]
        BY Zenon, <1>1, <2>1, <3>2 DEF Record
      <4>2. filter'.seen = filter.seen /\ filter'.top = filter.top
        BY <4>1, <2>1 DEF ReplayState
      <4> QED
        BY Zenon, <4>2, <2>1, <3>2
    <3> QED
      BY Zenon, <3>1, <3>2
  <2> QED
    BY Zenon, <1>1, <2>2, <2>3, <2>4 DEF ReceiverPlaced, c
<1> QED
  BY Zenon, <1>3, <1>4

(* Both ends stay in place: the estimate is always right.                  *)
LEMMA EndsPlaced ==
  InReach /\ StreamTypeOK /\ SenderPlaced /\ ReceiverPlaced /\ [StreamNext]_streamVars
    => SenderPlaced' /\ ReceiverPlaced'
<1> SUFFICES ASSUME InReach, StreamTypeOK, SenderPlaced, ReceiverPlaced,
                    [StreamNext]_streamVars
             PROVE  SenderPlaced' /\ ReceiverPlaced'
  BY Zenon
<1>1. ASSUME UNCHANGED <<sender, sent, checkpoints["sender"]>> PROVE SenderPlaced'
  BY Zenon, <1>1 DEF SenderPlaced, Numbers
<1>2. ASSUME UNCHANGED <<receiver, filter, newest, checkpoints["receiver"]>> PROVE ReceiverPlaced'
  BY Zenon, <1>2 DEF ReceiverPlaced
<1>3. /\ sender \in Rollover /\ receiver \in Rollover /\ checkpoints \in [End -> Rollover]
      /\ checkpoints["sender"] \in Rollover /\ checkpoints["receiver"] \in Rollover
      /\ Numbers \subseteq Number /\ newest \in Number \cup {None}
  BY Zenon DEF StreamTypeOK, End, Numbers
<1>4. \A n \in Number : TrueIndex(n) \in Int
  BY Zenon, TrueIndexDifference
<1>5. Fresh.highest = None
  BY DEF Fresh
<1>6. ASSUME NEW n \in Number, Protect(n) PROVE SenderPlaced' /\ ReceiverPlaced'
  <2>1. UNCHANGED <<receiver, filter, newest, checkpoints["receiver"]>>
    BY Zenon, <1>6 DEF Protect, history
  <2> QED
    BY Zenon, <2>1, <1>2, <1>6, ProtectPlaced
<1>7. ASSUME NEW p \in sent, Unprotect(p) PROVE SenderPlaced' /\ ReceiverPlaced'
  <2>1. UNCHANGED <<sender, sent, checkpoints["sender"]>>
    BY Zenon, <1>7 DEF Unprotect
  <2> QED
    BY Zenon, <2>1, <1>1, <1>7, UnprotectPlaced
<1>8. ASSUME NEW e \in End, CheckpointEnd(e) PROVE SenderPlaced' /\ ReceiverPlaced'
  <2>1. /\ UNCHANGED <<sender, sent, receiver, filter, newest>>
        /\ State(e).highest # None
        /\ checkpoints' = [checkpoints EXCEPT ![e] = State(e)]
    BY Zenon, <1>8 DEF CheckpointEnd, history
  <2>2. "sender" # "receiver" /\ "sender" \in End /\ "receiver" \in End
    BY DEF End
  <2>3. CASE e = "sender"
    <3>1. checkpoints'["sender"] = sender /\ checkpoints'["receiver"] = checkpoints["receiver"]
      BY Zenon, <1>3, <2>1, <2>2, <2>3 DEF State
    <3>2. sent # {}
      BY Zenon, <2>1, <2>3, <1>5 DEF State, SenderPlaced
    <3>3. PICK n \in Numbers : /\ \A m \in Numbers : m <= n
                               /\ Behind(sender, checkpoints["sender"], TrueIndex(n))
      BY Zenon, <3>2 DEF SenderPlaced
    <3>4. Behind(sender, sender, TrueIndex(n))
      BY Zenon, <3>3, <1>3, <1>4, BehindCheckpoint
    <3>5. SenderPlaced'
      BY Zenon, <2>1, <3>1, <3>2, <3>3, <3>4 DEF SenderPlaced, Numbers
    <3> QED
      BY Zenon, <1>2, <2>1, <3>1, <3>5
  <2>4. CASE e = "receiver"
    <3>1. checkpoints'["receiver"] = receiver /\ checkpoints'["sender"] = checkpoints["sender"]
      BY Zenon, <1>3, <2>1, <2>2, <2>4 DEF State
    <3>2. newest # None /\ Behind(receiver, checkpoints["receiver"], TrueIndex(newest))
      BY Zenon, <2>1, <2>2, <2>4, <1>5 DEF State, ReceiverPlaced
    <3>3. Behind(receiver, receiver, TrueIndex(newest))
      BY Zenon, <3>2, <1>3, <1>4, BehindCheckpoint
    <3>4. ReceiverPlaced'
      BY Zenon, <2>1, <3>1, <3>2, <3>3 DEF ReceiverPlaced
    <3> QED
      BY Zenon, <1>1, <2>1, <3>1, <3>4
  <2> QED
    BY Zenon, <2>3, <2>4 DEF End
<1>9. CASE SenderTakeover
  <2>1. /\ UNCHANGED <<receiver, filter, checkpoints, sent, newest>>
        /\ sender' = checkpoints["sender"] /\ checkpoints["sender"].highest # None
        /\ Position(sender) - Position(checkpoints["sender"]) <= Stale
    BY Zenon, <1>9 DEF SenderTakeover, Recent, State, history
  <2>2. sent # {}
    BY Zenon, <2>1, <1>5 DEF SenderPlaced
  <2>3. PICK n \in Numbers : /\ \A m \in Numbers : m <= n
                             /\ Behind(sender, checkpoints["sender"], TrueIndex(n))
    BY Zenon, <2>2 DEF SenderPlaced
  <2>4. Behind(checkpoints["sender"], checkpoints["sender"], TrueIndex(n))
    BY Zenon, <2>1, <2>3, <1>3, <1>4, BehindTakeover
  <2>5. SenderPlaced'
    BY Zenon, <2>1, <2>2, <2>3, <2>4 DEF SenderPlaced, Numbers
  <2> QED
    BY Zenon, <1>2, <2>1, <2>5
<1>10. CASE ReceiverTakeover
  <2>1. /\ UNCHANGED <<sender, checkpoints, sent, newest>>
        /\ receiver' = checkpoints["receiver"] /\ checkpoints["receiver"].highest # None
        /\ Position(receiver) - Position(checkpoints["receiver"]) <= Stale
        /\ filter' = Anchor(Position(checkpoints["receiver"]))
    <3>1. "sender" # "receiver"
      OBVIOUS
    <3> QED
      BY Zenon, <3>1, <1>10 DEF ReceiverTakeover, Recent, State
  <2>2. newest # None /\ Behind(receiver, checkpoints["receiver"], TrueIndex(newest))
    BY Zenon, <2>1, <1>5 DEF ReceiverPlaced
  <2>3. Behind(checkpoints["receiver"], checkpoints["receiver"], TrueIndex(newest))
    BY Zenon, <2>1, <2>2, <1>3, <1>4, BehindTakeover
  <2>4. filter'.seen /\ filter'.top = Position(receiver')
    BY <2>1 DEF Anchor
  <2>5. ReceiverPlaced'
    BY Zenon, <2>1, <2>2, <2>3, <2>4 DEF ReceiverPlaced
  <2> QED
    BY Zenon, <1>1, <2>1, <2>5
<1>11. CASE UNCHANGED streamVars
  BY Zenon, <1>1, <1>2, <1>11 DEF streamVars, history
<1> QED
  BY Zenon, <1>6, <1>7, <1>8, <1>9, <1>10, <1>11 DEF StreamNext

(* protect: across every wrap, reordering and takeover of the sender the   *)
(* estimated indices are the source's numbers, so no two packets share a   *)
(* keystream (index_for, cipher_iv).                                       *)
THEOREM IndicesFollowTheSource ==
  ASSUME InReach PROVE StreamSpec => []IndexFollowsSource
<1>1. StreamTypeOK /\ SenderPlaced => IndexFollowsSource
  <2> SUFFICES ASSUME StreamTypeOK, SenderPlaced, NEW p \in sent, NEW q \in sent
               PROVE  p.index - q.index = p.n - q.n
    BY Zenon DEF IndexFollowsSource
  <2>1. p.n \in Number /\ q.n \in Number
    BY Zenon DEF StreamTypeOK
  <2> QED
    BY Zenon, <2>1, TrueIndexDifference DEF SenderPlaced
<1> QED
  BY <1>1, EndsInit, EndsPlaced, StreamTyped, PTL DEF StreamSpec

(* unprotect: a packet newer than every accepted one, by less than half a  *)
(* cycle, passes the replay filter and authenticates, also at a standby    *)
(* that resumed within Stale of its checkpoint.                            *)
THEOREM NewerPacketsAreAccepted ==
  ASSUME InReach PROVE StreamSpec => []NewestAccepted
<1>1. StreamTypeOK /\ SenderPlaced /\ ReceiverPlaced => NewestAccepted
  <2> SUFFICES ASSUME StreamTypeOK, SenderPlaced, ReceiverPlaced, NEW p \in sent,
                      newest # None, newest < p.n, p.n + Stale - newest < Half
               PROVE  Verdict(p) = "Ok"
    BY Zenon DEF NewestAccepted
  <2>1. /\ p.n \in Number /\ newest \in Number /\ p.index = TrueIndex(p.n)
        /\ receiver \in Rollover /\ checkpoints["receiver"] \in Rollover
        /\ Behind(receiver, checkpoints["receiver"], TrueIndex(newest))
        /\ filter.seen /\ filter.top = Position(receiver)
    BY Zenon DEF StreamTypeOK, SenderPlaced, ReceiverPlaced, End
  <2>2. /\ TrueIndex(newest) \in Int /\ TrueIndex(p.n) \in Int
        /\ TrueIndex(p.n) - TrueIndex(newest) = p.n - newest
    BY Zenon, <2>1, TrueIndexDifference
  <2>3. /\ Position(receiver) \in Int /\ Position(receiver) <= TrueIndex(newest)
        /\ TrueIndex(newest) - Position(receiver) <= Stale
    BY Zenon, <2>1, <2>2, BehindStale
  <2>4. /\ TrueIndex(p.n) - Position(receiver) < Half
        /\ Position(receiver) - TrueIndex(p.n) < Half
        /\ ~(TrueIndex(p.n) <= Position(receiver))
    <3>1. p.n \in Int /\ newest \in Int /\ Half \in Nat /\ Stale \in Int
      BY <2>1, StreamAssumption DEF Half, Number
    <3> QED
      BY <3>1, <2>2, <2>3
  <2>5. IndexFor(receiver, p.n % SeqSize) = p.index
    BY Zenon, <2>1, <2>4, IndexRight DEF Behind
  <2>6. ~IsReplay(filter, p.index)
    BY Zenon, <2>1, <2>4 DEF IsReplay
  <2> QED
    BY Zenon, <2>5, <2>6 DEF Verdict
<1> QED
  BY <1>1, EndsInit, EndsPlaced, StreamTyped, PTL DEF StreamSpec
=============================================================================
