----------------------------- MODULE RelayCall -----------------------------
(***************************************************************************)
(* What the session engine asks of the datapath for one two-party call:    *)
(* each command is the sequence of datapath operations it performs on the  *)
(* near (offerer's) and far (answerer's) RTP endpoints, in the engine's    *)
(* order.  These are the programs of Datapath's control thread.            *)
(***************************************************************************)
EXTENDS DatapathUse

CONSTANTS near, far

ASSUME RelayCallAssumption == Endpoint = {near, far} /\ near # far

(* Arm ICE on one endpoint: the ice-lite responder, the responder with     *)
(* RFC 7675 consent, or a full agent that answers checks itself.           *)
ArmIce(e, u, mode) ==
  IF mode = "lite" THEN SetIce(e, u) ELSE SetIceAgent(e, u, mode = "full")

(* Both directions of the in-datapath relay.                               *)
InstallPlainRelay(a, b, posture, nearIce, farIce) ==
  InstallFlow(near, IngressRule(far, b, a, posture, nearIce))
    \o InstallFlow(far, IngressRule(near, a, b, posture, farIce))

Answer(a, b, posture) == InstallPlainRelay(a, b, posture, FALSE, FALSE)

(* ICE is armed before any flow is installed; a far leg without ICE is     *)
(* cleared first, since gathering had installed the responder on it.  An   *)
(* answer with a=ice-mismatch has ICE, which is not armed.                 *)
IceAnswer(u, mode, farIce, mismatch, a, b) ==
  LET armed == farIce /\ ~mismatch
  IN  (IF armed THEN <<>> ELSE ClearIce(far))
        \o ArmIce(near, u, mode)
        \o (IF armed THEN ArmIce(far, u, mode) ELSE <<>>)
        \o InstallPlainRelay(a, b, "exact", TRUE, farIce)

(* Server-reflexive gathering arms the responder on an endpoint.           *)
Gather(e, u) == SetIceAgent(e, u, FALSE)

(* An ICE restart offered by the near party with a full agent: its agent   *)
(* is rebuilt at the re-offer, the rest waits for the answer.              *)
ReofferRestart(u) == SetIceAgent(near, u, TRUE)

(* block / unblock media: both relay endpoints to Drop, and back.          *)
Block == InstallFlow(near, NoRule("drop")) \o InstallFlow(far, NoRule("drop"))

(* A call pulled into the userspace pipeline, whose egress follows the     *)
(* validated source of an ICE leg.                                         *)
Promote == InstallFlow(near, NoRule("redirect")) \o InstallFlow(far, NoRule("redirect"))

FollowIce(e) == WatchIceValidated(e)

Delete == RemoveEndpoint(near) \o RemoveEndpoint(far)
=============================================================================
