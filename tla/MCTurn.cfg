SPECIFICATION Spec
CONSTANTS
  t1 = t1  t2 = t2  u1 = u1  u2 = u2  p = p  q = q  z = z
  ip1 = ip1  ip2 = ip2  ip3 = ip3  e1 = e1  e2 = e2  e3 = e3
  x1 = x1  x2 = x2  x3 = x3  x4 = x4  x5 = x5  x6 = x6  none = none
  Tuple <- MCTuple
  Stream <- MCStream
  User <- MCUser
  Peer <- MCPeer
  Ip <- MCIp
  IpOf <- MCIpOf
  Denied <- MCDenied
  Endpoint <- MCEndpoint
  TxId <- MCTxId
  Remote <- MCRemote
  Channel = {1, 2}
  MaxPerUser = 1
  Cap = 1
  DefaultLife = 22
  MaxLife = 44
  PermLife = 22
  ChanLife = 44
  NonceLife = 20
  Depth = 1
  None = none
  Leg = t1
  Username = u1
  Ask = 44
  FirstChannel = 1
  MaxChannel = 2
  Rto = 1
  Rc = 2
  Rm = 2
  Deadline = 1
  MaxDelay = 1
  MaxWire = 2
  LastRelay = e3
  LastTx = x6
  Never = 1000
INVARIANT BooksAgree
INVARIANT RelayedToHolder
INVARIANT FramedForItsPeer
INVARIANT AllocatedIsHeld
INVARIANT RelayCarries
INVARIANT ServerForgets
