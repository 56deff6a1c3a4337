SPECIFICATION FairSpec
CONSTANTS
  Latest = 3
  Worker = {w1, w2}
  Upstream = u
  MaxInFlight = 2
INVARIANT OnePropagator
INVARIANT NothingForgotten
PROPERTY NodeIsSequential
PROPERTY Ends
CHECK_DEADLOCK FALSE
