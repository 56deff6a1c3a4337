SPECIFICATION FairSpec
CONSTANTS
  App = App
  Poller = Poller
  Handler = Handler
  None = None
  in1 = in1
  src1 = src1
  join1 = join1
  fromInput = fromInput
  fromSource = fromSource
  out = out
  Input = {in1}
  Source = {src1}
  Node = {join1}
  Stream = {fromInput, fromSource, out}
  From <- MCFrom
  To <- MCTo
  Ancestors <- MCAncestors
  MaxQueueSize = 0
  PollerSize = 1
  MaxPackets <- MCMaxPackets
INVARIANT ThrottlingIsCurrent
INVARIANT NobodyForgotten
PROPERTY CallReturns
CHECK_DEADLOCK FALSE
