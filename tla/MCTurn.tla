------------------------------- MODULE MCTurn -------------------------------
(***************************************************************************)
(* The TURN server under two drivers: "engine", the project's own client   *)
(* on a lossy network, and "clients", any requests and any data on two     *)
(* five-tuples.                                                            *)
(***************************************************************************)
EXTENDS TurnPath, TLC

CONSTANTS t1, t2, u1, u2, p, q, z, ip1, ip2, ip3, e1, e2, e3,
          x1, x2, x3, x4, x5, x6, none
VARIABLE driver

MCTuple == {t1, t2}
MCStream == {t2}
MCUser == {u1, u2}
MCPeer == {p, q, z}
MCIp == {ip1, ip2, ip3}
MCIpOf == p :> ip1 @@ q :> ip2 @@ z :> ip3
MCDenied == {ip3}
MCEndpoint == {e1, e2, e3}
MCTxId == {x1, x2, x3, x4, x5, x6}
MCRemote == {p}

Request(method, tx, user, life, udp, peers, channel) ==
  [method |-> method, tx |-> tx, user |-> user, good |-> TRUE, nonce |-> 0,
   life |-> life, udp |-> udp, peers |-> peers, channel |-> channel]

Allocates ==
  {Request("Allocate", x, u1, none, TRUE, {}, none) : x \in {x1, x2}}
  \cup {Request("Allocate", x1, u1, none, FALSE, {}, none),
        [Request("Allocate", x1, u1, none, TRUE, {}, none) EXCEPT !.good = FALSE]}
Refreshes == {Request("Refresh", x1, u1, life, TRUE, {}, none) : life \in {0, none}}
Permits ==
  {Request("CreatePermission", x1, u1, none, TRUE, s, none) : s \in {{}, {p, q}, {q, z}}}
Binds ==
  {Request("ChannelBind", x1, u1, none, TRUE, {d}, c) : d \in {p, q}, c \in Channel}
  \cup {Request("ChannelBind", x1, u1, none, TRUE, {z}, 1),
        Request("ChannelBind", x1, u1, none, TRUE, {p}, none)}

(* The second client only allocates and deletes, as another user or the   *)
(* same.                                                                   *)
Requests(t) ==
  IF t = t1 THEN Allocates \cup Refreshes \cup Permits \cup Binds
  ELSE {Request("Allocate", x1, u, none, TRUE, {}, none) : u \in MCUser}
       \cup {Request("Refresh", x1, u2, 0, TRUE, {}, none)}

ClientsPass ==
  /\ \E t \in ServerTimers : t > 0
  /\ ServerPass(Min({t \in ServerTimers : t > 0}))

ClientsNext ==
  \/ \E t \in Tuple : \E r \in Requests(t) : \E code \in Answers(t, r) :
       HandleRequest(t, r, code)
  \/ \E d \in Peer : HandleSendIndication(t1, d)
  \/ \E c \in Channel : HandleChannelData(t1, c)
  \/ \E e \in Endpoint, d \in {p, q} : PeerSends(e, d)
  \/ HandleRelayInbound \/ Reap \/ ClientsPass

Init ==
  \/ driver = "engine" /\ PathInit
  \/ /\ driver = "clients" /\ ServerInit
     /\ client = none /\ phase = "over" /\ gatherIn = 0
     /\ relay = none /\ wire = {} /\ gone = 0

Next ==
  /\ UNCHANGED driver
  /\ \/ driver = "engine" /\ PathNext
     \/ driver = "clients" /\ ClientsNext /\ UNCHANGED leg

Spec == Init /\ [][Next]_<<path, driver>>
=============================================================================
