--------------------------- MODULE MCPlainRelay ---------------------------
(* A plain relay call: answered, re-answered to another far party, blocked *)
(* and unblocked, deleted, while both parties send.                        *)
EXTENDS RelayCall

CONSTANTS a1, a2, b1, c1, ia, ib, ic, s1, s2

MCAddr == {a1, a2, b1, c1}
MCIp == {ia, ib, ic}
MCIpOf == [x \in MCAddr |-> IF x \in {a1, a2} THEN ia ELSE IF x = b1 THEN ib ELSE ic]
MCSubnetOf == [ip \in MCIp |-> IF ip = ia THEN {ia} ELSE {ib, ic}]

Rtp(source, ssrc) == [src |-> source, class |-> "rtp", ssrc |-> ssrc,
                      ufrag |-> None, nominates |-> None]
Rtcp(source) == [Rtp(source, None) EXCEPT !.class = "rtcp"]

(* The offerer behind a NAT that may rebind a1 to a2; two answerers.       *)
MCPacket == {Rtp(a1, s1), Rtp(a2, s1), Rtp(a2, s2), Rtcp(a2), Rtp(b1, s1), Rtp(c1, s2)}

MCPrograms == {Answer(a1, b1, "exact"), Answer(a1, c1, "exact"), Block, Delete}

ASSUME PlainUse == NoIce
=============================================================================
