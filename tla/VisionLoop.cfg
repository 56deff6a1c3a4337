SPECIFICATION Spec
CONSTANTS
  Hand = {Left, Right}
  None = None
  Left = Left
  Right = Right
  HistoryLen = 3
  WrongHandLimit = 2
  Debounce <- MCDebounce
  GameDebounce = 1
  Freeze = 1
  MaxStep = 1
  MaxAge = 3
INVARIANT TypeOK
INVARIANT HeldOnlyByDrag
INVARIANT OtherHandLimited
INVARIANT SwipeNeedsNewHistory
PROPERTY PressedOnce
CHECK_DEADLOCK FALSE
