------------------------------ MODULE FloorLeg ------------------------------
(***************************************************************************)
(* A floor-control leg of a two-party call: the reply latch, the           *)
(* AEAD_AES_128_GCM SRTCP context with its ring of at most two keys, and   *)
(* the checkpoint a standby resumes it from.  One actor owns the leg and   *)
(* handles one input at a time, so an action is one input.                 *)
(*                                                                         *)
(* A packet of the phone, protected under a key it was given or in the     *)
(* clear, may arrive at any time, any number of times and in any order.    *)
(* All sources here passed the leg's source filter.  A leg in the clear    *)
(* has no keys, and the fields of its context are those of a new one.      *)
(***************************************************************************)
EXTENDS Integers, Sequences, FiniteSets, ReplayWindow

CONSTANTS Key,            \* master keys
          MkiOf,          \* their MKI
          KeySets,        \* the key lists a controller sends, oldest first
          Source,         \* transport addresses of the phone
          LastIndex,      \* MAX_SEND_INDEX
          Margin,         \* SEND_INDEX_MARGIN
          Asked,          \* SSRCs the controller's requests name
          Packet,         \* the phone's packets, under a key or in the clear
          Registrations,  \* how often an answer registers the leg
          Contexts,       \* how many contexts are built
          Takeovers,      \* how often a standby takes over
          Unset

ASSUME FloorAssumption ==
  /\ KeySets \subseteq Seq(Key)
  /\ LastIndex \in Nat /\ Margin \in Nat \ {0}
  /\ Packet \subseteq [key : Key \cup {Unset}, index : Nat, source : Source]
  /\ Registrations \in Nat /\ Contexts \in Nat /\ Takeovers \in Nat
  /\ Asked \subseteq Nat
  /\ Unset \notin Key \cup Source \cup Nat

VARIABLES
  served,      \* the leg is registered
  keys,        \* the key ring, oldest first; the last one sends
  sendIndex,   \* SrtcpGcmContext::send_index
  exhausted,   \* SrtcpGcmContext::exhausted
  replay,      \* the replay filter of each key of the ring
  latch,       \* OpaqueLatch
  ssrc,        \* the leg's SSRC, the number of the registration that drew it
  drawn,       \* registrations so far
  saved,       \* the last checkpoint, Unset at first
  left,        \* takeovers left
  built,       \* history: contexts built so far
  own,         \* history: the number of the leg's context, 0 in the clear
  since,       \* history: how far the context of the checkpoint is past it
  used,        \* history: the packets sealed, [context, key, ssrc, index]
  reused,    \* history: contexts that used a key and index again
  lapsed,      \* history: contexts resumed from a checkpoint too far behind
  heard,       \* history: indices accepted under each key of this ring
  twice,       \* history: an index was accepted again under a key of this ring
  closed,      \* history: the index each key was resumed at, Unset at first
  clear,       \* history: the leg was in the clear since it was registered
  proven       \* history: the latch was learned from an authentic packet

context == <<keys, sendIndex, exhausted, replay>>
leg == <<served, context, latch, ssrc, drawn>>
failover == <<saved, left>>
numbering == <<built, own>>
sending == <<since, used, reused, lapsed>>
receiving == <<heard, twice, closed, clear, proven>>
vars == <<leg, failover, numbering, sending, receiving>>

Index == 0 .. LastIndex
Ssrc == 0 .. Registrations
Context == 0 .. Contexts
Held(ks) == {ks[n] : n \in DOMAIN ks}
Ring == {ks \in Seq(Key) : Len(ks) <= 2}
Snapshot == [keys : Ring, sendIndex : Index, ssrc : Ssrc, latch : Source \cup {Unset},
             own : Context, clear : BOOLEAN, proven : BOOLEAN,
             received : [Key -> Nat \cup {Unset}]]

TypeOK ==
  /\ served \in BOOLEAN
  /\ keys \in Ring
  /\ sendIndex \in Index /\ exhausted \in BOOLEAN
  /\ replay \in [Key -> ReplayState]
  /\ latch \in Source \cup {Unset}
  /\ ssrc \in Ssrc /\ drawn \in Ssrc
  /\ saved \in Snapshot \cup {Unset} /\ left \in Nat
  /\ built \in Context /\ own \in Context /\ since \in Nat
  /\ used \subseteq [context : Context, key : Key, ssrc : Nat, index : Index]
  /\ reused \subseteq Context /\ lapsed \subseteq Context
  /\ heard \in [Key -> SUBSET Nat]
  /\ closed \in [Key -> Nat \cup {Unset}]
  /\ twice \in BOOLEAN /\ clear \in BOOLEAN /\ proven \in BOOLEAN

Init ==
  /\ served = FALSE /\ keys = <<>>
  /\ sendIndex = 0 /\ exhausted = FALSE
  /\ replay = [k \in Key |-> EmptyWindow]
  /\ latch = Unset /\ ssrc = 0 /\ drawn = 0
  /\ saved = Unset /\ left = Takeovers
  /\ built = 0 /\ own = 0 /\ since = 0
  /\ used = {} /\ reused = {} /\ lapsed = {}
  /\ heard = [k \in Key |-> {}] /\ closed = [k \in Key |-> Unset]
  /\ twice = FALSE /\ clear = FALSE /\ proven = FALSE

-----------------------------------------------------------------------------
(* The newest two keys are kept; two of one MKI are refused.               *)
Kept(ks) == IF Len(ks) <= 2 THEN ks ELSE SubSeq(ks, Len(ks) - 1, Len(ks))
Acceptable(ks) == \A m, n \in DOMAIN Kept(ks) : MkiOf[Kept(ks)[m]] = MkiOf[Kept(ks)[n]] => m = n

(* FloorProtection::new: a context of its own, unless there is no key.     *)
Numbered(ks) ==
  IF ks = <<>> THEN own' = 0 /\ UNCHANGED built
               ELSE built < Contexts /\ built' = built + 1 /\ own' = built + 1

(* CallFloors::register for an answer: a new latch, context and SSRC.  The *)
(* answerer's leg has the keys of the answer, the offerer's what           *)
(* take_offer_keys returns: those of the offer, and at a re-answer none.   *)
(* An unusable key set was refused before.                                 *)
Register(ks) ==
  /\ drawn < Registrations
  /\ Acceptable(ks)
  /\ served' = TRUE
  /\ keys' = Kept(ks) /\ sendIndex' = 0 /\ exhausted' = FALSE
  /\ replay' = [k \in Key |-> EmptyWindow]
  /\ latch' = Unset
  /\ drawn' = drawn + 1 /\ ssrc' = drawn + 1
  /\ Numbered(Kept(ks))
  /\ heard' = [k \in Key |-> {}] /\ twice' = FALSE
  /\ closed' = [k \in Key |-> Unset]
  /\ clear' = (Kept(ks) = <<>>) /\ proven' = FALSE
  /\ UNCHANGED <<failover, sending>>

(* replace_keys: the entries carried over to the new set.                  *)
Stays(ks) == Held(keys) \cap Held(Kept(ks))

(* CallFloors::set_keys: a key that stays keeps its replay filter, and the *)
(* context its index.  The empty set drops the context.                    *)
(* Faulty variant: every key starts with an empty filter.                  *)
SetKeysForgetful(ks) ==
  /\ served /\ Acceptable(ks)
  /\ keys' = Kept(ks)
  /\ IF Kept(ks) = <<>> THEN sendIndex' = 0 /\ exhausted' = FALSE
                        ELSE UNCHANGED <<sendIndex, exhausted>>
  /\ replay' = [k \in Key |-> EmptyWindow]
  /\ heard' = [k \in Key |-> IF k \in Stays(ks) THEN heard[k] ELSE {}]
  /\ closed' = [k \in Key |-> IF k \in Stays(ks) THEN closed[k] ELSE Unset]
  /\ IF keys = <<>> \/ Kept(ks) = <<>> THEN Numbered(Kept(ks)) ELSE UNCHANGED numbering
  /\ clear' = (clear \/ Kept(ks) = <<>>)
  /\ UNCHANGED <<served, latch, ssrc, drawn, failover, sending, twice, proven>>

SetKeys(ks) ==
  /\ served /\ Acceptable(ks)
  /\ keys' = Kept(ks)
  /\ IF Kept(ks) = <<>> THEN sendIndex' = 0 /\ exhausted' = FALSE
                        ELSE UNCHANGED <<sendIndex, exhausted>>
  /\ replay' = [k \in Key |-> IF k \in Stays(ks) THEN replay[k] ELSE EmptyWindow]
  /\ heard' = [k \in Key |-> IF k \in Stays(ks) THEN heard[k] ELSE {}]
  /\ closed' = [k \in Key |-> IF k \in Stays(ks) THEN closed[k] ELSE Unset]
  /\ IF keys = <<>> \/ Kept(ks) = <<>> THEN Numbered(Kept(ks)) ELSE UNCHANGED numbering
  /\ clear' = (clear \/ Kept(ks) = <<>>)
  /\ UNCHANGED <<served, latch, ssrc, drawn, failover, sending, twice, proven>>

-----------------------------------------------------------------------------
(* protect: the last index is used once and the counter stops.             *)
NextIndex == IF sendIndex = LastIndex THEN sendIndex ELSE sendIndex + 1

(* CallFloors::build on a keyed leg, under the SSRC the request names, or  *)
(* the leg's own; in the clear nothing is protected and no state changes.  *)
Nonce(asked) ==
  [key |-> keys[Len(keys)], ssrc |-> IF asked = Unset THEN ssrc ELSE asked, index |-> sendIndex]

Build(asked) ==
  /\ served /\ keys # <<>> /\ ~exhausted
  /\ exhausted' = (sendIndex = LastIndex)
  /\ sendIndex' = NextIndex
  /\ since' = IF saved # Unset /\ saved.own = own THEN since + 1 ELSE since
  /\ \E n \in {Nonce(asked)} :
       /\ used' = used \cup {[context |-> own, key |-> n.key, ssrc |-> n.ssrc, index |-> n.index]}
       /\ reused' = IF \E u \in used : u.context = own /\ u.key = n.key /\ u.index = n.index
                        THEN reused \cup {own} ELSE reused
  /\ UNCHANGED <<served, keys, replay, latch, ssrc, drawn, failover, numbering,
                 lapsed, receiving>>

(* What `open` makes of a packet: the key its MKI names, the filter, the   *)
(* tag.                                                                    *)
Opens(p) ==
  /\ p.key \in Held(keys)
  /\ ~IsReplay(replay[p.key], p.index)

Latches(p) == latch = Unset \/ latch = p.source

(* CallFloors::ingest.  Every other packet is refused and changes nothing. *)
(* Faulty variant: the latch is committed before the packet is opened.     *)
IngestEager(p) ==
  /\ served /\ Latches(p)
  /\ latch' = p.source
  /\ proven' = IF latch = Unset THEN keys # <<>> /\ Opens(p) ELSE proven
  /\ IF keys # <<>> /\ Opens(p)
       THEN /\ replay' = [replay EXCEPT ![p.key] = Record(@, p.index)]
            /\ heard' = [heard EXCEPT ![p.key] = @ \cup {p.index}]
            /\ twice' = (twice \/ p.index \in heard[p.key])
       ELSE UNCHANGED <<replay, heard, twice>>
  /\ UNCHANGED <<served, keys, sendIndex, exhausted, ssrc, drawn, failover, numbering,
                 sending, closed, clear>>

Ingest(p) ==
  /\ served /\ Latches(p)
  /\ keys = <<>> \/ Opens(p)
  /\ latch' = p.source
  /\ proven' = IF latch = Unset THEN keys # <<>> /\ Opens(p) ELSE proven
  /\ IF keys # <<>>
       THEN /\ replay' = [replay EXCEPT ![p.key] = Record(@, p.index)]
            /\ heard' = [heard EXCEPT ![p.key] = @ \cup {p.index}]
            /\ twice' = (twice \/ p.index \in heard[p.key])
       ELSE UNCHANGED <<replay, heard, twice>>
  /\ UNCHANGED <<served, keys, sendIndex, exhausted, ssrc, drawn, failover, numbering,
                 sending, closed, clear>>

-----------------------------------------------------------------------------
(* Failover.                                                               *)

(* CallFloors::leg_state.                                                  *)
Checkpoint ==
  /\ served /\ left > 0
  /\ saved' = [keys |-> keys, sendIndex |-> sendIndex, ssrc |-> ssrc, latch |-> latch,
               own |-> own, clear |-> clear, proven |-> proven,
               received |-> [k \in Key |-> IF k \in Held(keys) /\ replay[k].seen
                                             THEN replay[k].top ELSE Unset]]
  /\ since' = 0
  /\ UNCHANGED <<leg, left, numbering, used, reused, lapsed, receiving>>

(* No leg, with the fields as they were before the first one.              *)
Gone ==
  /\ keys' = <<>> /\ sendIndex' = 0 /\ exhausted' = FALSE
  /\ replay' = [k \in Key |-> EmptyWindow]
  /\ latch' = Unset /\ ssrc' = 0 /\ own' = 0
  /\ heard' = [k \in Key |-> {}] /\ closed' = [k \in Key |-> Unset]
  /\ twice' = FALSE /\ clear' = FALSE /\ proven' = FALSE

(* Faulty variant: starts at the last index the primary may have used.     *)
ResumedSendIndexShort(i) == i + Margin - 1

ResumedSendIndex(i) == i + Margin

(* resume_received: the filter of a checkpointed key.                      *)
Resumed(k) ==
  IF saved.received[k] = Unset THEN EmptyWindow ELSE CloseAt(saved.received[k])

(* prepare, register_restored_floor and FloorProtection::resume, on a      *)
(* standby.  The same checkpoint may be restored again, as long as there   *)
(* are takeovers.  No room for the margin refuses the restore.             *)
Restore ==
  /\ left > 0 /\ saved # Unset
  /\ left' = left - 1
  /\ IF saved.keys # <<>> /\ ResumedSendIndex(saved.sendIndex) > LastIndex
       THEN /\ served' = FALSE /\ Gone
            /\ UNCHANGED <<since, lapsed>>
       ELSE /\ served' = TRUE
            /\ keys' = saved.keys
            /\ sendIndex' = IF saved.keys = <<>> THEN 0 ELSE ResumedSendIndex(saved.sendIndex)
            /\ exhausted' = FALSE
            /\ replay' = [k \in Key |-> Resumed(k)]
            /\ latch' = saved.latch /\ ssrc' = saved.ssrc
            /\ own' = saved.own /\ since' = Margin
            /\ lapsed' = IF since > Margin THEN lapsed \cup {saved.own} ELSE lapsed
            /\ heard' = [k \in Key |-> {}] /\ twice' = FALSE
            /\ closed' = saved.received
            /\ clear' = saved.clear /\ proven' = saved.proven
  /\ saved' = IF left = 1 THEN Unset ELSE saved
  /\ UNCHANGED <<drawn, built, used, reused>>

(* deregister_call: the call ends, and the leg's state with it.            *)
Deregister ==
  /\ served /\ served' = FALSE
  /\ Gone
  /\ UNCHANGED <<drawn, failover, built, sending>>

-----------------------------------------------------------------------------
Next ==
  \/ \E ks \in KeySets \cup {<<>>} : Register(ks)
  \/ \E ks \in KeySets : SetKeys(ks)
  \/ \E asked \in Asked \cup {Unset} : Build(asked)
  \/ \E p \in Packet : Ingest(p)
  \/ Checkpoint \/ Restore \/ Deregister

Spec == Init /\ [][Next]_vars

-----------------------------------------------------------------------------
(* "RFC 7714 §9.4 forbids protecting two packets under one key with the    *)
(* same index (the GCM IV would repeat)": no key, SSRC and index is used   *)
(* again, whoever built the context that uses it (build, protect).         *)
NonceUsedOnce ==
  /\ reused = {}
  /\ \A u, v \in used : (u.key = v.key /\ u.ssrc = v.ssrc /\ u.index = v.index) => u = v

(* "The send index is kept: it only ever moves forward, so a new key never *)
(* sees a reused (key, index) pair": a context seals no two packets under  *)
(* one key with the same index, whatever SSRCs the requests name, through  *)
(* rekeying away from a key and back, the end of the index space and       *)
(* takeovers, unless a standby resumed it from a checkpoint that was more  *)
(* than the margin behind (protect, replace_keys, resumed_send_index).     *)
IndexUsedOnce == reused \subseteq lapsed

(* A packet of the phone is accepted once while its key stays in the ring, *)
(* whatever is rekeyed around it (replace_keys, is_replay, record).        *)
AcceptedOnce == ~twice

(* close_at: "nothing at or below `index` ever is" accepted by a standby.  *)
ClosedStaysClosed ==
  \A k \in Key : closed[k] # Unset => \A i \in heard[k] : i > closed[k]

(* A leg that was keyed when registered and ever since, on its primary and *)
(* its standbys, replies only where an authentic packet came from: "the    *)
(* reply address latches only from an *authenticated* packet" (admit).     *)
LatchAuthenticated == (served /\ latch # Unset /\ ~clear) => proven

(* IndexExhausted: "nothing more is protected until the keys are replaced  *)
(* or the index reseeded", so a key that sent nothing is not exhausted.    *)
ExhaustedUnderThisKey ==
  (keys # <<>> /\ exhausted) => \E u \in used : u.key = keys[Len(keys)] /\ u.index = sendIndex
=============================================================================
