SPECIFICATION FairSpec
CONSTANTS
  Latest = 2
  Thread = {t1, t2}
  Overlap = TRUE
  MaxPackets = 2
  MaxRuns = 2
INVARIANT OneNotifier
INVARIANT PacketsObserved
INVARIANT BoundsObserved
INVARIANT EventsInOrder
INVARIANT EverythingPolled
PROPERTY PollerEnds
CHECK_DEADLOCK FALSE
