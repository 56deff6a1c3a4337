-------------------------- MODULE VisionLoop_proofs --------------------------
(* What holds of the gesture engine for every history length, limit and clock. *)
EXTENDS VisionLoop, TLAPS

\* Upto does what its name says, and stays a natural number.
LEMMA UptoBounds ==
  ASSUME NEW bound \in Nat, NEW n \in Nat
  PROVE  /\ Upto(bound, n) \in 0 .. bound
         /\ Upto(bound, n) <= n
         /\ n <= bound => Upto(bound, n) = n
  BY DEF Upto

\* A longer clock is still a clock.
LEMMA GrownInRange ==
  ASSUME NEW a \in 0 .. MaxAge, NEW dt \in 1 .. MaxStep
  PROVE  Grown(a, dt) \in 0 .. MaxAge
  BY VisionAssumption, UptoBounds DEF Grown

\* wrong_hand_frames stays within its bound.
LEMMA WrongInRange ==
  ASSUME wrong \in 0 .. WrongHandLimit + 1, NEW h
  PROVE  WrongAfter(h) \in 0 .. WrongHandLimit + 1
  BY VisionAssumption DEF WrongAfter

\* The history never outgrows history_len.
LEMMA HistoryInRange ==
  ASSUME history \in 0 .. HistoryLen, NEW pose, NEW fast
  PROVE  HistoryAfter(pose, fast) \in 0 .. HistoryLen
  <1>1. Lengthened \in 0 .. HistoryLen
    BY VisionAssumption, UptoBounds DEF Lengthened
  <1>2. QED
    BY <1>1, VisionAssumption DEF HistoryAfter

\* Acting on a hand, and acting on none, keep the controller well typed.
LEMMA ObeyTypes ==
  ASSUME TypeOK, NEW action, NEW dt \in 1 .. MaxStep, Obey(action, dt)
  PROVE  /\ dragging' \in BOOLEAN /\ button' \in {"up", "down"}
         /\ did' \subseteq Event
         /\ age' \in [Clock -> 0 .. MaxAge] /\ frozen' \in 0 .. Freeze
  <1>1. age' \in [Clock -> 0 .. MaxAge]
    BY GrownInRange, VisionAssumption DEF Obey, TypeOK
  <1>2. frozen' \in 0 .. Freeze
    BY VisionAssumption DEF Obey, TypeOK
  <1>3. did' \subseteq Event
    BY DEF Obey
  <1>4. dragging' \in BOOLEAN /\ button' \in {"up", "down"}
    BY DEF Obey, TypeOK
  <1>5. QED
    BY <1>1, <1>2, <1>3, <1>4

LEMMA IgnoreTypes ==
  ASSUME TypeOK, NEW dt \in 1 .. MaxStep, Ignore(dt)
  PROVE  /\ dragging' \in BOOLEAN /\ button' \in {"up", "down"}
         /\ did' \subseteq Event
         /\ age' \in [Clock -> 0 .. MaxAge] /\ frozen' \in 0 .. Freeze
  <1>1. age' \in [Clock -> 0 .. MaxAge]
    BY GrownInRange, VisionAssumption DEF Ignore, TypeOK
  <1>2. frozen' \in 0 .. Freeze
    BY VisionAssumption DEF Ignore, TypeOK
  <1>3. QED
    BY <1>1, <1>2 DEF Ignore, TypeOK, Event

-----------------------------------------------------------------------------
\* The types of the loop are an invariant.
LEMMA TypeInit == Init => TypeOK
  <1>1. /\ 0 \in 0 .. WrongHandLimit + 1 /\ 0 \in 0 .. HistoryLen
        /\ 0 \in 0 .. Freeze /\ MaxAge \in 0 .. MaxAge /\ 0 \in Nat
    BY VisionAssumption
  <1>2. QED
    BY <1>1, Zenon DEF Init, TypeOK

LEMMA TypeStep == TypeOK /\ [Next]_vars => TypeOK'
  <1> SUFFICES ASSUME TypeOK, [Next]_vars PROVE TypeOK'
    OBVIOUS
  <1>1. ASSUME NEW h \in Hand \cup {None}, NEW pose \in Pose,
               NEW fast \in BOOLEAN, NEW key \in Key,
               NEW dt \in 1 .. MaxStep, Frame(h, pose, fast, key, dt)
        PROVE  TypeOK'
    <2>1. /\ dragging' \in BOOLEAN /\ button' \in {"up", "down"}
          /\ did' \subseteq Event
          /\ age' \in [Clock -> 0 .. MaxAge] /\ frozen' \in 0 .. Freeze
      BY <1>1, ObeyTypes, IgnoreTypes DEF Frame
    <2>2. wrong' \in 0 .. WrongHandLimit + 1
      BY <1>1, WrongInRange DEF Frame, TypeOK
    <2>3. history' \in 0 .. HistoryLen
      BY <1>1, HistoryInRange DEF Frame, TypeOK
    <2>4. otherFrames' \in Nat
      BY <1>1 DEF Frame, TypeOK
    <2>5. sinceSwipe' \in 0 .. HistoryLen
      <3>1. /\ Upto(HistoryLen, sinceSwipe + 1) \in 0 .. HistoryLen
            /\ 0 \in 0 .. HistoryLen
        BY UptoBounds, VisionAssumption DEF TypeOK
      <3>2. QED
        BY <1>1, <3>1, Zenon DEF Frame, TypeOK
    <2>6. /\ running' \in BOOLEAN /\ active' \in BOOLEAN
          /\ mode' \in Mode /\ target' \in Hand
      BY <1>1 DEF Frame, TypeOK
    <2>7. dragFrame' \in BOOLEAN /\ early' \in BOOLEAN
      BY <1>1 DEF Frame, TypeOK
    <2>8. QED
      BY <2>1, <2>2, <2>3, <2>4, <2>5, <2>6, <2>7 DEF TypeOK
  <1>2. ASSUME NEW dt \in 1 .. MaxStep, NoFrame(dt) PROVE TypeOK'
    <2>1. age' \in [Clock -> 0 .. MaxAge]
      BY <1>2, GrownInRange DEF NoFrame, TypeOK
    <2>2. frozen' \in 0 .. Freeze
      BY <1>2, VisionAssumption DEF NoFrame, TypeOK
    <2>3. QED
      BY <1>2, <2>1, <2>2 DEF NoFrame, TypeOK, ghosts
  <1>3. ASSUME NEW m \in Mode, NEW h \in Hand, Reload(m, h) PROVE TypeOK'
    BY <1>3 DEF Reload, TypeOK, ghosts
  <1>4. CASE UNCHANGED vars
    BY <1>4 DEF vars, loopVars, ghosts, TypeOK
  <1>5. QED
    BY <1>1, <1>2, <1>3, <1>4 DEF Next

\* In every state the counters, clocks and events of the engine have their
\* types: the history stays within history_len and the clocks within MaxAge.
THEOREM EngineTypes == Spec => []TypeOK
  BY TypeInit, TypeStep, PTL DEF Spec

-----------------------------------------------------------------------------
(* The button: is_dragging is what the operating system sees. *)

ButtonInv ==
  /\ button = "down" <=> dragging
  /\ dragging => dragFrame

\* Only a pose that drags, in normal mode, is analysed and kept as a drag.
LEMMA DragIsShown ==
  ASSUME mode \in Mode, NEW pose \in Pose, NEW fast,
         Restrict(Analyze(pose, fast)) = "DRAG"
  PROVE  pose = "DRAG" /\ mode = "normal"
  <1>1. mode = "normal" /\ Analyze(pose, fast) = "DRAG"
    BY DEF Restrict
  <1>2. pose = "DRAG"
    BY <1>1 DEF Analyze, Pose
  <1>3. QED
    BY <1>1, <1>2

LEMMA ButtonStep == TypeOK /\ ButtonInv /\ [Next]_vars => ButtonInv'
  <1> SUFFICES ASSUME TypeOK, ButtonInv, [Next]_vars PROVE ButtonInv'
    OBVIOUS
  <1>1. ASSUME NEW h \in Hand \cup {None}, NEW pose \in Pose,
               NEW fast \in BOOLEAN, NEW key \in Key,
               NEW dt \in 1 .. MaxStep, Frame(h, pose, fast, key, dt)
        PROVE  ButtonInv'
    <2> DEFINE hand == IF active THEN Obeyed(h) ELSE None
               action == Restrict(Analyze(pose, fast))
    <2>1. CASE hand # None
      <3>1. Obey(action, dt)
        BY <1>1, <2>1 DEF Frame
      <3>2. button' = "down" <=> dragging'
        <4>1. CASE action = "DRAG"
          BY <3>1, <4>1 DEF Obey, ButtonInv, TypeOK
        <4>2. CASE action # "DRAG"
          BY <3>1, <4>2 DEF Obey, ButtonInv, TypeOK
        <4>3. QED
          BY <4>1, <4>2
      <3>3. dragging' => dragFrame'
        <4>1. dragging' => action = "DRAG"
          BY <3>1 DEF Obey
        <4>2. action = "DRAG" => pose = "DRAG" /\ mode = "normal"
          BY DragIsShown DEF TypeOK
        <4>3. dragFrame' = (hand # None /\ pose = "DRAG" /\ mode = "normal")
          BY <1>1 DEF Frame
        <4>4. QED
          BY <2>1, <4>1, <4>2, <4>3
      <3>4. QED
        BY <3>2, <3>3 DEF ButtonInv
    <2>2. CASE hand = None
      <3>1. Ignore(dt)
        BY <1>1, <2>2 DEF Frame
      <3>2. QED
        BY <3>1 DEF Ignore, ButtonInv, TypeOK
    <2>3. QED
      BY <2>1, <2>2
  <1>2. ASSUME NEW dt \in 1 .. MaxStep, NoFrame(dt) PROVE ButtonInv'
    BY <1>2 DEF NoFrame, ButtonInv, ghosts
  <1>3. ASSUME NEW m \in Mode, NEW h \in Hand, Reload(m, h) PROVE ButtonInv'
    BY <1>3 DEF Reload, ButtonInv, ghosts
  <1>4. CASE UNCHANGED vars
    BY <1>4 DEF vars, loopVars, ghosts, ButtonInv
  <1>5. QED
    BY <1>1, <1>2, <1>3, <1>4 DEF Next

\* The mouse button is down only after a frame that shows a drag: every other
\* kind of frame lets it go.
THEOREM ButtonFollowsDrag == Spec => []HeldOnlyByDrag
  <1>1. Init => ButtonInv
    BY DEF Init, ButtonInv
  <1>2. ButtonInv => HeldOnlyByDrag
    BY DEF ButtonInv, HeldOnlyByDrag
  <1>3. QED
    BY <1>1, <1>2, ButtonStep, EngineTypes, PTL DEF Spec

\* A frame that presses the button while it is down is the click that ends a
\* drag: the action of the frame is not a drag, and drag_stop follows.
LEMMA PressStep ==
  ASSUME TypeOK, ButtonInv, Next, button = "down"
  PROVE  "down" \notin did' /\ ("click" \in did' => "up" \in did')
  <1>1. dragging
    BY DEF ButtonInv
  <1>2. ASSUME NEW action, NEW dt \in 1 .. MaxStep, Obey(action, dt)
        PROVE  "down" \notin did' /\ ("click" \in did' => "up" \in did')
    <2>1. "down" \in did' => ~dragging
      BY <1>2 DEF Obey, ClockOf
    <2>2. "click" \in did' => action # "DRAG"
      BY <1>2 DEF Obey, Due, Debounced
    <2>3. action # "DRAG" => "up" \in did'
      BY <1>1, <1>2 DEF Obey, Event
    <2>4. QED
      BY <1>1, <2>1, <2>2, <2>3
  <1>3. ASSUME NEW dt \in 1 .. MaxStep, Ignore(dt)
        PROVE  "down" \notin did' /\ "click" \notin did'
    BY <1>3 DEF Ignore
  <1>4. ASSUME NEW h \in Hand \cup {None}, NEW pose \in Pose,
               NEW fast \in BOOLEAN, NEW key \in Key,
               NEW dt \in 1 .. MaxStep, Frame(h, pose, fast, key, dt)
        PROVE  \/ Obey(Restrict(Analyze(pose, fast)), dt)
               \/ Ignore(dt)
    BY <1>4 DEF Frame
  <1>5. CASE \E dt \in 1 .. MaxStep : NoFrame(dt)
    BY <1>5 DEF NoFrame
  <1>6. CASE \E m \in Mode, h \in Hand : Reload(m, h)
    BY <1>6 DEF Reload
  <1>7. QED
    BY <1>2, <1>3, <1>4, <1>5, <1>6 DEF Next

\* A drag presses the button only when it is up, and a click presses a button
\* that is down only in the frame that ends the drag.
THEOREM ButtonIsPressedOnce == Spec => PressedOnce
  <1>1. Init => ButtonInv
    BY DEF Init, ButtonInv
  <1>2. TypeOK /\ ButtonInv /\ [Next]_vars =>
          [button = "down" =>
             "down" \notin did' /\ ("click" \in did' => "up" \in did')]_vars
    BY PressStep
  <1>3. QED
    BY <1>1, <1>2, ButtonStep, EngineTypes, PTL DEF Spec, PressedOnce

-----------------------------------------------------------------------------
(* The other hand: the ghost count never overtakes the program's. *)

OtherInv == otherFrames <= wrong /\ otherFrames <= WrongHandLimit

LEMMA OtherStep == TypeOK /\ OtherInv /\ [Next]_vars => OtherInv'
  <1> SUFFICES ASSUME TypeOK, OtherInv, [Next]_vars PROVE OtherInv'
    OBVIOUS
  <1>1. ASSUME NEW h \in Hand \cup {None}, NEW pose \in Pose,
               NEW fast \in BOOLEAN, NEW key \in Key,
               NEW dt \in 1 .. MaxStep, Frame(h, pose, fast, key, dt)
        PROVE  OtherInv'
    <2> DEFINE hand == IF active THEN Obeyed(h) ELSE None
    <2>1. /\ wrong' = WrongAfter(h)
          /\ otherFrames' = IF h = target THEN 0
                            ELSE IF hand # None THEN otherFrames + 1
                            ELSE otherFrames
      BY <1>1 DEF Frame
    <2>2. CASE h = target
      BY <2>1, <2>2, VisionAssumption DEF WrongAfter, OtherInv
    <2>3. CASE h # target /\ hand # None
      <3>1. h # None /\ WrongAfter(h) <= WrongHandLimit
        BY <2>3, VisionAssumption, WrongInRange DEF Obeyed, TypeOK
      <3>2. WrongAfter(h) = wrong + 1
        BY <2>3, <3>1, VisionAssumption DEF WrongAfter, TypeOK
      <3>3. otherFrames' = otherFrames + 1
        BY <2>1, <2>3
      <3>4. QED
        BY <2>1, <3>1, <3>2, <3>3, VisionAssumption DEF OtherInv, TypeOK
    <2>4. CASE h # target /\ hand = None
      <3>1. WrongAfter(h) >= wrong
        BY <2>4, VisionAssumption DEF WrongAfter, TypeOK
      <3>2. otherFrames' = otherFrames
        BY <2>1, <2>4
      <3>3. QED
        BY <2>1, <3>1, <3>2, VisionAssumption, WrongInRange
           DEF OtherInv, TypeOK
    <2>5. QED
      BY <2>2, <2>3, <2>4
  <1>2. ASSUME NEW dt \in 1 .. MaxStep, NoFrame(dt) PROVE OtherInv'
    BY <1>2 DEF NoFrame, OtherInv, ghosts
  <1>3. ASSUME NEW m \in Mode, NEW h \in Hand, Reload(m, h) PROVE OtherInv'
    BY <1>3 DEF Reload, OtherInv, ghosts
  <1>4. CASE UNCHANGED vars
    BY <1>4 DEF vars, loopVars, ghosts, OtherInv
  <1>5. QED
    BY <1>1, <1>2, <1>3, <1>4 DEF Next

\* The hand that is not the target is obeyed in at most WrongHandLimit frames
\* between two frames that show the target.
THEOREM OtherHandIsLimited == Spec => []OtherHandLimited
  <1>1. Init => OtherInv
    BY VisionAssumption DEF Init, OtherInv
  <1>2. OtherInv => OtherHandLimited
    BY DEF OtherInv, OtherHandLimited
  <1>3. QED
    BY <1>1, <1>2, OtherStep, EngineTypes, PTL DEF Spec

-----------------------------------------------------------------------------
(* Swipes: the history holds no frame seen before the last swipe. *)

SwipeInv == ~early /\ history <= sinceSwipe

\* A frame the history does not grow in keeps the invariant.
LEMMA SwipeKept ==
  ASSUME SwipeInv, history' = history \/ history' = 0,
         sinceSwipe' = sinceSwipe, early' = early, TypeOK
  PROVE  SwipeInv'
  BY DEF SwipeInv, TypeOK

LEMMA SwipeStep == TypeOK /\ SwipeInv /\ [Next]_vars => SwipeInv'
  <1> SUFFICES ASSUME TypeOK, SwipeInv, [Next]_vars PROVE SwipeInv'
    OBVIOUS
  <1>1. ASSUME NEW h \in Hand \cup {None}, NEW pose \in Pose,
               NEW fast \in BOOLEAN, NEW key \in Key,
               NEW dt \in 1 .. MaxStep, Frame(h, pose, fast, key, dt)
        PROVE  SwipeInv'
    <2> DEFINE hand == IF active THEN Obeyed(h) ELSE None
    <2>1. CASE hand # None /\ pose = "FOUR_FINGERS"
      <3>1. /\ history' = HistoryAfter(pose, fast)
            /\ sinceSwipe' = IF IsSwipe(pose, fast) THEN 0
                             ELSE Upto(HistoryLen, sinceSwipe + 1)
            /\ early' = (early \/ (IsSwipe(pose, fast)
                                   /\ sinceSwipe + 1 < HistoryLen))
        BY <1>1, <2>1 DEF Frame
      <3>2. CASE IsSwipe(pose, fast)
        <4>1. history + 1 >= HistoryLen
          BY <3>2, VisionAssumption DEF IsSwipe, Lengthened, Upto, TypeOK
        <4>2. ~(sinceSwipe + 1 < HistoryLen)
          BY <4>1, VisionAssumption DEF SwipeInv, TypeOK
        <4>3. history' = 0 /\ sinceSwipe' = 0 /\ early' = early
          <5>1. history' = 0
            BY <3>1, <3>2 DEF HistoryAfter
          <5>2. sinceSwipe' = 0
            BY <3>1, <3>2
          <5>3. early' = early
            BY <3>1, <4>2 DEF TypeOK
          <5>4. QED
            BY <5>1, <5>2, <5>3
        <4>4. QED
          BY <4>3 DEF SwipeInv
      <3>3. CASE ~IsSwipe(pose, fast)
        <4>1. history' = Upto(HistoryLen, history + 1)
          BY <2>1, <3>1, <3>3 DEF HistoryAfter, Lengthened
        <4>2. sinceSwipe' = Upto(HistoryLen, sinceSwipe + 1)
          BY <3>1, <3>3
        <4>3. early' = early
          BY <3>1, <3>3 DEF TypeOK
        <4>4. QED
          BY <4>1, <4>2, <4>3, VisionAssumption DEF SwipeInv, TypeOK, Upto
      <3>4. QED
        BY <3>2, <3>3
    <2>2. CASE ~(hand # None /\ pose = "FOUR_FINGERS")
      <3>1. sinceSwipe' = sinceSwipe /\ early' = early
        BY <1>1, <2>2 DEF Frame
      <3>2. history' = history \/ history' = 0
        BY <1>1, <2>2 DEF Frame, HistoryAfter
      <3>3. QED
        BY <3>1, <3>2, SwipeKept
    <2>3. QED
      BY <2>1, <2>2
  <1>2. ASSUME NEW dt \in 1 .. MaxStep, NoFrame(dt) PROVE SwipeInv'
    BY <1>2, SwipeKept DEF NoFrame, ghosts
  <1>3. ASSUME NEW m \in Mode, NEW h \in Hand, Reload(m, h) PROVE SwipeInv'
    BY <1>3, SwipeKept DEF Reload, ghosts
  <1>4. CASE UNCHANGED vars
    BY <1>4, SwipeKept DEF vars, loopVars, ghosts
  <1>5. QED
    BY <1>1, <1>2, <1>3, <1>4 DEF Next

\* A swipe is never detected from frames that another swipe was detected from.
THEOREM SwipesAreApart == Spec => []SwipeNeedsNewHistory
  <1>1. Init => SwipeInv
    BY DEF Init, SwipeInv
  <1>2. SwipeInv => SwipeNeedsNewHistory
    BY DEF SwipeInv, SwipeNeedsNewHistory
  <1>3. QED
    BY <1>1, <1>2, SwipeStep, EngineTypes, PTL DEF Spec
=============================================================================
