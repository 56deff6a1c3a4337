SPECIFICATION Spec
CONSTANTS
  Latest = 3
  NumStreams = 2
  Policies = {"Default", "Immediate", "SyncSet", "TimestampAlign", "Mux",
              "Barrier", "EarlyClose", "FixedSize", "FixedMinSize"}
  Trigger = 2
  Target = 1
INVARIANT SetsWhole
INVARIANT DroppedTogether
INVARIANT NothingForgotten
PROPERTY InputsInOrder
CHECK_DEADLOCK FALSE
