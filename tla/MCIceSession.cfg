SPECIFICATION LegSpec
CONSTANTS
  near = near
  far = far
  Endpoint = {near, far}
  a1 = a1
  a2 = a2
  ia = ia
  s1 = s1
  u1 = u1
  u2 = u2
  None = None
  Addr <- MCAddr
  Ip <- MCIp
  IpOf <- MCIpOf
  SubnetOf <- MCSubnetOf
  Ssrc = {s1}
  Carrier = {"socket"}
  Ufrag = {u1, u2}
  Priority = {1, 2}
  Packet <- SessionPacket
  Programs <- SessionPrograms
  MultiThreaded = TRUE
  Address = {a1, a2}
  TxId = {1, 2}
  Interval = 5
  Timeout = 30
  Rto = 1
  Rc = 7
  Rm = 16
  Depth = 2
INVARIANTS RestartForgets AnsweredIsKept FiveUnanswered
PROPERTY RefreshedByThisPath
CHECK_DEADLOCK FALSE
