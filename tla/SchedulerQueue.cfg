SPECIFICATION Spec
CONSTANTS
  Queue = {q1, q2}
  Worker = {w1, w2}
  App = {a1}
  None = None
  MaxItems = 2
  MinRunning = 0
INVARIANT TypeOK
INVARIANT WaitingTasksMatch
INVARIANT PendingTasksMatch
INVARIANT CallbacksBalance
INVARIANT ZeroMeansIdle
SYMMETRY Symmetry
