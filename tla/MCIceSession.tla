---------------------------- MODULE MCIceSession ----------------------------
(* The two clocks of an ICE leg, one per behaviour: the sessions of an     *)
(* ICE-lite endpoint on the multi-thread runtime, and the consent          *)
(* sweep with the default periods of ConsentConfig and the STUN client.    *)
EXTENDS MCIce

CONSTANTS Address, TxId, Interval, Timeout, Rto, Rc, Rm, Depth

VARIABLES clock,   \* which of the two this behaviour follows
          path, registered, checker, queue, wire, sweep, refresh

consent == <<path, registered, checker, queue, wire, sweep, refresh>>

C == INSTANCE IceConsent

(* Both parties check in the first session; the answer to the restart says *)
(* that ICE is unusable on the far leg.                                    *)
SessionPacket == {StunCheck(a1, u1, 2), StunCheck(a2, u1, 1), StunCheck(a2, u2, 1)}

SessionPrograms ==
  {IceAnswer(u1, "lite", TRUE, FALSE, a1, a2), IceAnswer(u2, "lite", TRUE, TRUE, a1, a2),
   Delete}

ASSUME SessionUse == SessionsRestart

LegInit == Init /\ C!ConsentInit /\ clock \in {"session", "consent"}

LegNext ==
  /\ UNCHANGED clock
  /\ \/ clock = "session" /\ Next /\ UNCHANGED consent
     \/ clock = "consent" /\ C!ConsentNext /\ UNCHANGED vars

LegSpec == LegInit /\ [][LegNext]_<<vars, clock, consent>>

(* drive_consent: "a response that arrived this tick must refresh consent  *)
(* before expiry is evaluated"; a pair with an answer in its window is     *)
(* never declared dead.                                                    *)
AnsweredIsKept == C!AnsweredIsKept

(* With the default periods a pair is declared dead only after five        *)
(* requests of one check, spread over the window, went unanswered          *)
(* (ConsentChecker::poll, RetransmitSchedule).                             *)
FiveUnanswered == C!FailsAfter(5)

(* An answer from the address the peer left does not keep consent for the  *)
(* one it moved to alive (ConsentSupervisor::poll, on_response).           *)
RefreshedByThisPath == C!RefreshedByThisPath
=============================================================================
