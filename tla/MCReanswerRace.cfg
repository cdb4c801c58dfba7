SPECIFICATION Spec
CONSTANTS
  near = near
  far = far
  Endpoint = {near, far}
  a1 = a1
  a2 = a2
  b1 = b1
  c1 = c1
  ia = ia
  ib = ib
  ic = ic
  s1 = s1
  s2 = s2
  None = None
  Addr <- MCAddr
  Ip <- MCIp
  IpOf <- MCIpOf
  SubnetOf <- MCSubnetOf
  Ssrc = {s1, s2}
  Carrier = {"socket"}
  Ufrag = {}
  Priority = {}
  Packet <- MCPacket
  Programs <- MCPrograms
  MultiThreaded = TRUE
INVARIANT LatchAdmittedByGate
CHECK_DEADLOCK FALSE
