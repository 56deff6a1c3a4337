----------------------------- MODULE VisionLoop ------------------------------
(***************************************************************************)
(* The gesture engine: the loop of run_vision_loop (app_gestures.py), with *)
(* the analyzer that turns a hand into an action (gesture_analyzer.py) and *)
(* the controller that turns actions into mouse and keyboard events        *)
(* (pc_controller.py).                                                     *)
(*                                                                         *)
(* One action is one frame: the loop runs in one thread, and what the      *)
(* other threads share with it is the camera (a frame arrives or does not) *)
(* and config.json (reloaded between two frames).  A hand is the pose its  *)
(* landmarks are classified as; cursor coordinates are left out.  Time is  *)
(* counted in units, and a clock is the age of its last event up to MaxAge.*)
(*                                                                         *)
(* Calibration is left out: calibration_step is set only by init_gui,      *)
(* which main() does not call.                                             *)
(***************************************************************************)
EXTENDS Integers, FiniteSets

CONSTANTS
  Hand,            \* the labels of the detector
  None,            \* no hand in the frame
  HistoryLen,      \* GestureAnalyzer.history_len
  WrongHandLimit,  \* frames in which the other hand is still obeyed
  Debounce,        \* Debounce[c]: seconds between two events of clock c
  GameDebounce,    \* debounce_time of a click in osugame
  Freeze,          \* how long a click freezes the cursor
  MaxStep,         \* bound: time between two frames
  MaxAge           \* bound of the clocks, above every debounce

Mode == {"normal", "fruitninja", "osugame"}
Pose == {"POINTER", "CLICK", "RIGHT_CLICK", "V_SIGN", "DRAG", "OPEN_PALM",
         "FOUR_FINGERS", "FIST", "NONE"}
Action == {"CLICK", "RIGHT_CLICK", "MOVE_MOUSE", "DRAG", "HOVER",
           "SHOW_DESKTOP", "SWIPE", "NONE"}
Clock == {"click", "right_click", "swipe", "desktop"}
Event == {"move", "click", "right_click", "down", "up", "swipe", "desktop"}
Key == {"none", "p", "q"}

ASSUME VisionAssumption ==
  /\ None \notin Hand
  /\ HistoryLen \in Nat \ {0} /\ WrongHandLimit \in Nat
  /\ Debounce \in [Clock -> Nat] /\ GameDebounce \in Nat
  /\ Freeze \in Nat /\ MaxStep \in Nat \ {0}
  /\ MaxAge \in Nat
  /\ MaxAge > GameDebounce /\ \A c \in Clock : MaxAge > Debounce[c]

VARIABLES
  running,      \* the loop has not been left
  active,       \* detection_active
  mode,         \* game_mode
  target,       \* target_hand_mp
  wrong,        \* wrong_hand_frames, up to WrongHandLimit + 1
  history,      \* len(wrist_history)
  dragging,     \* is_dragging
  age,          \* age[c]: time since last_action_times[c]
  frozen,       \* time left of the freeze of last_click_freeze_time
  button,       \* the left button, as the operating system sees it
  did,          \* the events sent in the last frame
  \* History variables, for the properties only.
  dragFrame,    \* the last frame showed a hand to obey that drags
  otherFrames,  \* frames the other hand was obeyed since the target was seen
  sinceSwipe,   \* frames with four fingers since a swipe was detected
  early         \* a swipe was detected in too short a history

loopVars == <<running, active, mode, target, wrong, history, dragging, age,
              frozen, button, did>>
ghosts == <<dragFrame, otherFrames, sinceSwipe, early>>
vars == <<loopVars, ghosts>>

TypeOK ==
  /\ running \in BOOLEAN /\ active \in BOOLEAN
  /\ mode \in Mode /\ target \in Hand
  /\ wrong \in 0 .. WrongHandLimit + 1
  /\ history \in 0 .. HistoryLen
  /\ dragging \in BOOLEAN
  /\ age \in [Clock -> 0 .. MaxAge] /\ frozen \in 0 .. Freeze
  /\ button \in {"up", "down"} /\ did \subseteq Event
  /\ dragFrame \in BOOLEAN /\ otherFrames \in Nat
  /\ sinceSwipe \in 0 .. HistoryLen
  /\ early \in BOOLEAN

Init ==
  /\ running = TRUE /\ active = TRUE
  /\ mode \in Mode /\ target \in Hand
  /\ wrong = 0 /\ history = 0
  /\ dragging = FALSE /\ button = "up" /\ did = {}
  /\ age = [c \in Clock |-> MaxAge] /\ frozen = 0
  /\ dragFrame = FALSE /\ otherFrames = 0 /\ sinceSwipe = 0 /\ early = FALSE

-----------------------------------------------------------------------------
Upto(bound, n) == IF n > bound THEN bound ELSE n

\* The hand the frame obeys: the target hand, or for some frames the other one.
WrongAfter_ResetOnEmpty(h) ==
  IF h \in {target, None} THEN 0
  ELSE IF wrong > WrongHandLimit THEN wrong ELSE wrong + 1

WrongAfter(h) ==
  IF h = target THEN 0
  ELSE IF h = None \/ wrong > WrongHandLimit THEN wrong ELSE wrong + 1

Obeyed(h) ==
  IF h = None \/ (h # target /\ WrongAfter(h) > WrongHandLimit) THEN None
  ELSE h

\* analyze: four fingers are added to the history of the wrist, which is
\* examined when it is full; any other pose clears it.
Lengthened_NoPop == history + 1
Lengthened == Upto(HistoryLen, history + 1)
IsSwipe(pose, fast) ==
  pose = "FOUR_FINGERS" /\ Lengthened = HistoryLen /\ fast
HistoryAfter_KeptBySwipe(pose, fast) ==
  IF pose # "FOUR_FINGERS" THEN 0 ELSE Lengthened

HistoryAfter(pose, fast) ==
  IF pose # "FOUR_FINGERS" \/ IsSwipe(pose, fast) THEN 0 ELSE Lengthened

Analyze(pose, fast) ==
  IF pose \in {"CLICK", "RIGHT_CLICK", "DRAG", "NONE"} THEN pose
  ELSE IF pose \in {"POINTER", "V_SIGN"} THEN "MOVE_MOUSE"
  ELSE IF pose = "FIST" THEN "SHOW_DESKTOP"
  ELSE IF IsSwipe(pose, fast) THEN "SWIPE" ELSE "HOVER"

\* The restrictions of the game modes.
Restrict(action) ==
  IF mode = "normal" \/ (mode = "osugame" /\ action = "CLICK") THEN action
  ELSE "MOVE_MOUSE"

\* The clock that debounces an action, and the events it sends when it is due.
Debounced == {"CLICK", "RIGHT_CLICK", "SWIPE", "SHOW_DESKTOP"}
ClockOf(action) ==
  IF action = "CLICK" THEN "click"
  ELSE IF action = "RIGHT_CLICK" THEN "right_click"
  ELSE IF action = "SWIPE" THEN "swipe" ELSE "desktop"

Wait(c) == IF c = "click" /\ mode # "normal" THEN GameDebounce ELSE Debounce[c]
Grown(a, dt) == Upto(MaxAge, a + dt)
Due(action, dt) ==
  /\ action \in Debounced
  /\ Grown(age[ClockOf(action)], dt) > Wait(ClockOf(action))

Moves(action, dt) ==
  /\ \/ action \in {"MOVE_MOUSE", "DRAG"}
     \/ action = "CLICK" /\ mode # "normal"
  /\ frozen <= dt

-----------------------------------------------------------------------------
\* What a frame does when a hand is obeyed: the action, then drag_stop unless
\* it is a drag.
Obey(action, dt) ==
  LET drag == action = "DRAG"
      due == Due(action, dt) IN
  /\ dragging' = drag
  /\ button' = IF drag THEN (IF dragging THEN button ELSE "down")
               ELSE IF dragging \/ (due /\ action = "CLICK") THEN "up" ELSE button
  /\ did' = {e \in Event :
               \/ e = "move" /\ Moves(action, dt)
               \/ e = "down" /\ drag /\ ~dragging
               \/ e = "up" /\ ~drag /\ dragging
               \/ due /\ e = ClockOf(action)}
  /\ age' = [c \in Clock |-> IF due /\ c = ClockOf(action) THEN 0
                             ELSE Grown(age[c], dt)]
  /\ frozen' = IF due /\ (action = "RIGHT_CLICK"
                          \/ (action = "CLICK" /\ mode = "normal")) THEN Freeze
               ELSE IF (due /\ action = "CLICK") \/ frozen <= dt THEN 0
               ELSE frozen - dt

Ignore_KeepsButton(dt) ==
  /\ age' = [c \in Clock |-> Grown(age[c], dt)]
  /\ frozen' = IF frozen <= dt THEN 0 ELSE frozen - dt
  /\ did' = {}
  /\ UNCHANGED <<dragging, button>>

Ignore_NoRelease(dt) ==
  /\ dragging' = FALSE
  /\ did' = {}
  /\ age' = [c \in Clock |-> Grown(age[c], dt)]
  /\ frozen' = IF frozen <= dt THEN 0 ELSE frozen - dt
  /\ UNCHANGED button

\* ... and when none is, or the engine is suspended: drag_stop.
Ignore(dt) ==
  /\ dragging' = FALSE
  /\ button' = IF dragging THEN "up" ELSE button
  /\ did' = IF dragging THEN {"up"} ELSE {}
  /\ age' = [c \in Clock |-> Grown(age[c], dt)]
  /\ frozen' = IF frozen <= dt THEN 0 ELSE frozen - dt

\* A frame that shows hand h in a pose.
Frame(h, pose, fast, key, dt) ==
  LET hand == IF active THEN Obeyed(h) ELSE None
      action == Restrict(Analyze(pose, fast)) IN
  /\ running
  /\ wrong' = WrongAfter(h)
  /\ IF hand # None
     THEN Obey(action, dt) /\ history' = HistoryAfter(pose, fast)
     ELSE Ignore(dt) /\ UNCHANGED history
  /\ active' = (key # "q" /\ (active # (key = "p")))
  /\ running' = (key # "q")
  /\ UNCHANGED <<mode, target>>
  /\ dragFrame' = (hand # None /\ pose = "DRAG" /\ mode = "normal")
  /\ otherFrames' = IF h = target THEN 0
                    ELSE IF hand # None THEN otherFrames + 1 ELSE otherFrames
  /\ IF hand # None /\ pose = "FOUR_FINGERS"
     THEN /\ sinceSwipe' = IF IsSwipe(pose, fast) THEN 0
                           ELSE Upto(HistoryLen, sinceSwipe + 1)
          /\ early' = (early \/ (IsSwipe(pose, fast)
                                 /\ sinceSwipe + 1 < HistoryLen))
     ELSE UNCHANGED <<sinceSwipe, early>>

\* The camera has no frame: the loop goes round without looking at the keys.
NoFrame(dt) ==
  /\ running
  /\ age' = [c \in Clock |-> Grown(age[c], dt)]
  /\ frozen' = IF frozen <= dt THEN 0 ELSE frozen - dt
  /\ did' = {}
  /\ UNCHANGED <<running, active, mode, target, wrong, history, dragging,
                 button, ghosts>>

\* config.json has changed: the loop takes the new mode and hand.
Reload(m, h) ==
  /\ running
  /\ mode' = m /\ target' = h
  /\ did' = {}
  /\ UNCHANGED <<running, active, wrong, history, dragging, age, frozen,
                 button, ghosts>>

Next ==
  \/ \E h \in Hand \cup {None}, pose \in Pose, fast \in BOOLEAN, key \in Key,
        dt \in 1 .. MaxStep : Frame(h, pose, fast, key, dt)
  \/ \E dt \in 1 .. MaxStep : NoFrame(dt)
  \/ \E m \in Mode, h \in Hand : Reload(m, h)

Spec == Init /\ [][Next]_vars

-----------------------------------------------------------------------------
\* The button is held only while the frames show a drag: whichever way the
\* gesture ends (another pose, the hand lost or not the target, another mode,
\* the engine suspended), the first frame that shows it lets the button go.
HeldOnlyByDrag == button = "down" => dragFrame

\* The button is not pressed when it is down, whatever ended the last drag; but
\* for the click of the frame that ends a drag, which comes before drag_stop and
\* is followed by a second release.
PressedOnce ==
  [][button = "down" =>
       "down" \notin did' /\ ("click" \in did' => "up" \in did')]_vars

\* The other hand, taken at first for a detector's mistake, is obeyed in at most
\* WrongHandLimit frames until the target hand is seen again, whatever frames
\* without a hand or changes of the target come in between.
OtherHandLimited == otherFrames <= WrongHandLimit

\* A swipe is not detected twice: between two detections lie as many frames
\* with four fingers as the history holds.
SwipeNeedsNewHistory == ~early
=============================================================================
