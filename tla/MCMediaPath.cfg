SPECIFICATION PathSpec
CONSTANTS
  SeqSize = 8
  RocSize = 4
  Window = 3
  Base = 5
  Last = 11
  Start = {5, 6}
  Reorder = 1
  Stale = 1
  Failovers <- OneEach
  Target = 2
  Cap = 2
  None = None
CHECK_DEADLOCK FALSE
INVARIANTS UnprotectedOnce NewestAccepted TakeoverBounded IndexFollowsSource
  SlotsWithinExpected HeldAhead
PROPERTY PlayedInOrder
