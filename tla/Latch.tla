------------------------------- MODULE Latch -------------------------------
(***************************************************************************)
(* The pure decisions of the relay's ingress path: the signalled-source    *)
(* gate, the SSRC-consistent source latch, the order of ICE nominations    *)
(* and the rule an answered leg is gated by.  A source filter is the set   *)
(* of addresses it accepts; a transport address is a model value whose IP  *)
(* address is IpOf.                                                        *)
(***************************************************************************)
EXTENDS Integers

CONSTANTS Endpoint,   \* datapath endpoint ids
          Addr,       \* transport addresses (IP and port)
          Ip,         \* IP addresses
          IpOf,       \* the IP address of a transport address
          SubnetOf,   \* the /24 (IPv4) or /64 (IPv6) block of an IP address
          Ssrc,       \* RTP synchronisation sources
          None        \* the absent value of an Option

ASSUME AddressAssumption ==
  /\ IpOf \in [Addr -> Ip]
  /\ SubnetOf \in [Ip -> SUBSET Ip]
  /\ \A ip \in Ip : ip \in SubnetOf[ip]
  /\ None \notin Endpoint \cup Addr \cup Ssrc

OptAddr == Addr \cup {None}
OptSsrc == Ssrc \cup {None}

(* What an endpoint does with its datagrams; only a "forward" action has a *)
(* rule.  "none" is an endpoint without a flow.                            *)
Action ==
  {a \in [kind : {"none", "forward", "redirect", "drop"},
          out : Endpoint \cup {None}, dst : OptAddr, gate : SUBSET Ip,
          latch : {"Off", "SignalledOnly", "Symmetric"}, rtcp : BOOLEAN] :
     a.kind = "forward" => a.out \in Endpoint}

NoRule(kind) == [kind |-> kind, out |-> None, dst |-> None, gate |-> {},
                 latch |-> "Off", rtcp |-> FALSE]

Forward(out, dst, gate, latch) ==
  [kind |-> "forward", out |-> out, dst |-> dst, gate |-> gate,
   latch |-> latch, rtcp |-> FALSE]

(* The rule of an answered leg.  An ICE leg accepts any source and never   *)
(* latches from media; a symmetric leg, or one whose peer is not known,    *)
(* accepts and latches any; any other is gated on the signalled peer's     *)
(* address, or on its block under the subnet-source flag.                  *)
IngressRule(out, dst, expected, posture, ice) ==
  IF ice THEN Forward(out, dst, Ip, "Off")
  ELSE IF posture = "symmetric" \/ expected = None
  THEN Forward(out, dst, Ip, "Symmetric")
  ELSE LET ip == IpOf[expected]
       IN  Forward(out, dst, IF posture = "subnet" THEN SubnetOf[ip] ELSE {ip},
                   "SignalledOnly")

Accepts(gate, source) == IpOf[source] \in gate

SignalledPeerMoved(previous, next) ==
  previous # None /\ next # None /\ previous # next

(* Faulty variant: any accepted source moves the latch                      *)
SourceLatchVerdictNoSsrc(curSource, curSsrc, source, ssrc) ==
  IF curSource = None THEN "Learn"
  ELSE IF source = curSource
  THEN IF curSsrc = None /\ ssrc # None THEN "Learn" ELSE "Keep"
  ELSE "Learn"

(* The latch (curSource, curSsrc) meets a datagram from source.            *)
SourceLatchVerdict(curSource, curSsrc, source, ssrc) ==
  IF curSource = None THEN "Learn"
  ELSE IF source = curSource
  THEN IF curSsrc = None /\ ssrc # None THEN "Learn" ELSE "Keep"
  ELSE IF curSsrc # None /\ ssrc = curSsrc THEN "Learn" ELSE "Reject"

NominationSupersedes(current, candidate) ==
  IF current = None THEN TRUE ELSE candidate >= current
=============================================================================
