SPECIFICATION Spec
CONSTANTS
  Latest = 3
  Worker = {w1, w2}
  Upstream = u
  MaxInFlight = 2
INVARIANT BoundsAccepted
CHECK_DEADLOCK FALSE
