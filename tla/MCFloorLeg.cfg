SPECIFICATION Spec
CONSTANTS
  k1 = k1
  k2 = k2
  a1 = a1
  a2 = a2
  Key = {k1, k2}
  MkiOf <- Mkis
  KeySets <- Rollover
  Source = {a1, a2}
  LastIndex = 1
  Margin = 1
  Asked = {}
  Window = 2
  Packet <- Packets
  Registrations = 2
  Contexts = 2
  Takeovers = 1
  Unset = Unset
CHECK_DEADLOCK FALSE
INVARIANTS IndexUsedOnce AcceptedOnce ClosedStaysClosed LatchAuthenticated
