SPECIFICATION Spec
CONSTANTS
  near = near
  far = far
  Endpoint = {near, far}
  a1 = a1
  a2 = a2
  ia = ia
  s1 = s1
  u1 = u1
  u2 = u2
  None = None
  Addr <- MCAddr
  Ip <- MCIp
  IpOf <- MCIpOf
  SubnetOf <- MCSubnetOf
  Ssrc = {s1}
  Carrier = {"socket"}
  Ufrag = {u1, u2}
  Priority = {1, 2}
  Packet <- MCPacket
  Programs <- ConsentPrograms
  MultiThreaded = FALSE
INVARIANT NominationOfThisSession
CHECK_DEADLOCK FALSE
