SPECIFICATION FairSpec
CONSTANTS
  Queue = {q1, q2}
  Worker = {w1, w2}
  App = {a1}
  None = None
  Main = a1
  Feeder = a1
  Source = {s0}
  Join = {j1}
  Input = Input
  q1 = q1
  q2 = q2
  s1 = s1
  j1 = j1
  QueueOf <- MCQueueOf
  Layer <- MCLayer
  Feeds <- MCFeedsAll
  Late = {}
  Calls = {"stop"}
  MaxTicks = 2
  MaxPackets = 1
  MaxQueueSize = 1
INVARIANT ExecutorsDone
INVARIANT EverythingProcessed
INVARIANT NoClosedNodeScheduled
INVARIANT IdleIsQuiet
PROPERTY Terminates
CHECK_DEADLOCK FALSE
