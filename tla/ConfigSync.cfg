SPECIFICATION FairSpec
CONSTANTS
  v = v
  w = w
  Value = {v, w}
  Default <- MCDefault
  PageDefault <- MCPageDefault
  Empty = Empty
  Garbage = Garbage
  None = None
  MaxPosts = 2
  MaxRestarts = 1
INVARIANT WholeUnlessRaced
PROPERTY Settles
PROPERTY HotReload
PROPERTY PostedApplied
CHECK_DEADLOCK FALSE
