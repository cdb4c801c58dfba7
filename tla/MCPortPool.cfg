CONSTANTS
  Handle = {h1, h2, h3}
  Sender = {}
  Span = 3
  Outside = {}
  Limit = 2
  Ranged = TRUE
  None = None
SPECIFICATION Spec
SYMMETRY Symmetry
INVARIANTS
  ReservationsExact
  SlotsExact
  EndpointsBounded
PROPERTY LeaseKept
CHECK_DEADLOCK FALSE
