SPECIFICATION Spec
CONSTANTS
  k1 = k1
  k2 = k2
  a1 = a1
  a2 = a2
  Key = {k1, k2}
  MkiOf <- Mkis
  KeySets <- Clearing
  Source = {a1}
  LastIndex = 3
  Margin = 1
  Asked = {9}
  Window = 2
  Packet = {}
  Registrations = 1
  Contexts = 2
  Takeovers = 0
  Unset = Unset
CHECK_DEADLOCK FALSE
INVARIANT NonceUsedOnce
