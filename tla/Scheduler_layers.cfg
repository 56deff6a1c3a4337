SPECIFICATION Spec
CONSTANTS
  Queue = {q1, q2}
  Worker = {w1, w2}
  App = {a1}
  None = None
  Main = a1
  Feeder = a1
  Source = {s0, s1, s2}
  Join = {j1, j2}
  Input = Input
  q1 = q1
  q2 = q2
  s1 = s1
  j1 = j1
  QueueOf <- MCQueueOf
  Layer <- MCLayer
  Feeds <- MCFeedsLate
  Late = {s0}
  Calls = {"stop", "error", "cancel", "pause"}
  MaxTicks = 1
  MaxPackets = 0
  MaxQueueSize = 1
INVARIANT NothingMissed
INVARIANT RunningCountMatchesState
INVARIANT NoStrandedTask
PROPERTY QueuesImplemented
CHECK_DEADLOCK FALSE
