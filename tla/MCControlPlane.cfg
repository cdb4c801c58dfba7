SPECIFICATION Spec
CONSTANTS
  c1 = c1
  c2 = c2
  Conn = {c1, c2}
  Sends <- Roles
  Key = {k1}
  Id = {x}
  Scoped = {x}
  Limit = 2
  MaxCalls = 1
  MaxChannels <- Channels
  None = None
CHECK_DEADLOCK FALSE
INVARIANTS TypeOK IdentityHears NewestServes EventsFollow EndsOnce QuotaCovers
