------------------------------- MODULE MCIce -------------------------------
(* An ICE offerer toward a plain answerer: answered, restarted with new    *)
(* credentials, followed by a userspace consumer, deleted, while checks of *)
(* both sessions and media arrive.                                         *)
EXTENDS RelayCall

CONSTANTS a1, a2, ia, s1, u1, u2

MCAddr == {a1, a2}
MCIp == {ia}
MCIpOf == [x \in MCAddr |-> ia]
MCSubnetOf == [ip \in MCIp |-> {ip}]

Rtp(source) == [src |-> source, class |-> "rtp", ssrc |-> s1,
                ufrag |-> None, nominates |-> None]
StunCheck(source, u, priority) == [src |-> source, class |-> "stun", ssrc |-> None,
                                   ufrag |-> u, nominates |-> priority]

(* The offerer checks from two interfaces; the second is preferred in the  *)
(* first session and nominates nothing in the second.                      *)
MCPacket == {StunCheck(a1, u1, 1), StunCheck(a2, u1, 2), StunCheck(a1, u2, 1),
             StunCheck(a2, u2, None), Rtp(a1), Rtp(a2)}

AgentPacket == {StunCheck(a1, u1, 1), Rtp(a2)}

ConsentPrograms == {IceAnswer(u1, "consent", FALSE, FALSE, a1, a2),
                    IceAnswer(u2, "consent", FALSE, FALSE, a1, a2)}
RemovalPrograms == {Gather(near, u1), IceAnswer(u1, "lite", FALSE, FALSE, a1, a2), Promote, Delete}
=============================================================================
