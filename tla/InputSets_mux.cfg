SPECIFICATION Spec
CONSTANTS
  Latest = 2
  NumStreams = 3
  Policies = {"Mux"}
  Trigger = 2
  Target = 1
INVARIANT ConsistentView
CHECK_DEADLOCK FALSE
