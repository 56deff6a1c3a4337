SPECIFICATION Spec
CONSTANTS
  Queue = {q1, q2}
  Worker = {w1, w2}
  App = {a1}
  None = None
  Main = a1
  Feeder = a1
  Source = {}
  Join = {j1, j2}
  Input = Input
  q1 = q1
  q2 = q2
  s1 = s1
  j1 = j1
  QueueOf <- MCQueueOfApart
  Layer <- MCLayer
  Feeds <- MCFeedsAll
  Late = {}
  Calls = {"error"}
  MaxTicks = 1
  MaxPackets = 2
  MaxQueueSize = 1
INVARIANT ExecutorsDone
CHECK_DEADLOCK FALSE
