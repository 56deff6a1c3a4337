----------------------------- MODULE ConfigSync ------------------------------
(***************************************************************************)
(* config.json, which the gesture engine and the web interface both write: *)
(* the engine (app_gestures.py) loads it when it starts, watches its mtime *)
(* and saves it when a camera has been opened; the settings page           *)
(* (python-settings.tsx) reads and writes it through the server            *)
(* (api/python-config/route.ts).  Nothing locks the file, and both writers *)
(* truncate it when they open it and fill it afterwards.                   *)
(*                                                                         *)
(* The keys stand for the groups the code tells apart: camera_source and   *)
(* sens_val, which it treats in ways of their own, suav_val for every      *)
(* other setting of the page, zone_x for those the page does not know.     *)
(* Two states of the file are assumed to have different mtimes.            *)
(***************************************************************************)
EXTENDS Naturals

CONSTANTS
  Value,        \* the values of a setting
  Default,      \* default_config of load_config
  PageDefault,  \* the initial state of the page
  Empty,        \* the content of a file that has been truncated
  Garbage,      \* what is left when two texts are written over one another
  None,
  MaxPosts,     \* bound: settings saved from the page
  MaxRestarts   \* bound: times the engine is started again

PageKeys == {"camera_source", "sens_val", "suav_val"}
Keys == PageKeys \cup {"zone_x"}
Configs == [Keys -> Value] \cup [PageKeys -> Value]

ASSUME ConfigAssumption ==
  /\ Default \in [Keys -> Value] /\ PageDefault \in [PageKeys -> Value]
  /\ Empty # Garbage /\ {Empty, Garbage, None} \cap Configs = {}
  /\ MaxPosts \in Nat /\ MaxRestarts \in Nat

VARIABLES
  file,      \* the content of config.json
  seen,      \* its mtime is the watcher's last_mtime
  engine,    \* where the engine is
  applied,   \* the settings in force, sens_val through scale_factor
  sensVal,   \* the global sens_val
  page,      \* the state of the settings page
  server,    \* where the handler of POST is
  merged,    \* what it is about to write
  posts, restarts,
  \* History variables, for the properties only.
  posted,    \* the body of the last POST that was answered
  raced      \* it was served while the engine saved, or on the way to save

engineVars == <<engine, applied, sensVal, restarts>>
serverVars == <<server, merged, posts, posted>>
vars == <<file, seen, engineVars, page, serverVars, raced>>

TypeOK ==
  /\ file \in Configs \cup {Empty, Garbage} /\ seen \in BOOLEAN
  /\ engine \in {"start", "opening", "saving", "loop", "reading"}
  /\ applied \in [Keys -> Value] /\ sensVal \in Value
  /\ page \in Configs
  /\ server \in {"idle", "read", "writing"}
  /\ merged \in Configs \cup {None}
  /\ posts \in 0 .. MaxPosts /\ restarts \in 0 .. MaxRestarts
  /\ posted \in Configs \cup {None} /\ raced \in BOOLEAN

Init ==
  /\ file \in Configs /\ seen = FALSE
  /\ engine = "start" /\ applied = Default /\ sensVal = Default["sens_val"]
  /\ page = PageDefault
  /\ server = "idle" /\ merged = None
  /\ posts = 0 /\ restarts = 0 /\ posted = None /\ raced = FALSE

-----------------------------------------------------------------------------
Parses == file \in Configs

\* cfg.get(k, default): only keys the page does not know can be missing.
Settings(cfg) ==
  [k \in Keys |-> IF k \in DOMAIN cfg THEN cfg[k] ELSE Default[k]]

\* {...a, ...b}
Spread(a, b) ==
  [k \in DOMAIN a \cup DOMAIN b |-> IF k \in DOMAIN b THEN b[k] ELSE a[k]]

\* open(path, 'w') and the open of writeFileSync.
Opened_NotTruncated == file
Opened == Empty

\* A text written at the start of the file: the end of a longer one is left.
Write(cfg) == file' \in (IF file = Empty THEN {cfg} ELSE {cfg, Garbage})

EngineBusy == engine \in {"opening", "saving"}
ServerBusy == server = "writing"

-----------------------------------------------------------------------------
\* main: load_config, then the camera is opened whatever it says.
Start ==
  /\ engine = "start"
  /\ applied' = IF Parses THEN Settings(file) ELSE Default
  /\ sensVal' = applied'["sens_val"]
  /\ seen' = FALSE
  /\ engine' = "opening"
  /\ UNCHANGED <<file, restarts, page, serverVars, raced>>

\* start_camera_stream, when the stream is ready: save_config_file opens the
\* file.  An exception leaves without saving.
CameraOpened ==
  /\ engine = "opening"
  /\ file' = Opened /\ seen' = FALSE
  /\ engine' = "saving"
  /\ raced' = (raced \/ ServerBusy)
  /\ UNCHANGED <<applied, sensVal, restarts, page, serverVars>>

CameraFailed ==
  /\ engine = "opening"
  /\ engine' = "loop"
  /\ UNCHANGED <<file, seen, applied, sensVal, restarts, page, serverVars, raced>>

\* ... and writes the globals: the sens_val of the start, since
\* run_vision_loop assigns a local variable of that name.
Save_NotReloaded ==
  /\ engine = "saving"
  /\ Write([applied EXCEPT !["sens_val"] = sensVal])
  /\ seen' = TRUE
  /\ engine' = "loop"
  /\ raced' = (raced \/ ServerBusy)
  /\ UNCHANGED <<applied, sensVal, restarts, page, serverVars>>

Save ==
  /\ engine = "saving"
  /\ Write([applied EXCEPT !["sens_val"] = sensVal])
  /\ seen' = FALSE
  /\ engine' = "loop"
  /\ raced' = (raced \/ ServerBusy)
  /\ UNCHANGED <<applied, sensVal, restarts, page, serverVars>>

\* The watcher sees another mtime, and remembers it before it loads the file.
Stat ==
  /\ engine = "loop" /\ ~seen
  /\ seen' = TRUE
  /\ engine' = "reading"
  /\ UNCHANGED <<file, applied, sensVal, restarts, page, serverVars, raced>>

\* The settings are loaded, and another camera is opened if there is one.
Reload_AlwaysOpens ==
  /\ engine = "reading"
  /\ applied' = IF Parses THEN Settings(file) ELSE applied
  /\ engine' = IF Parses THEN "opening" ELSE "loop"
  /\ UNCHANGED <<file, seen, sensVal, restarts, page, serverVars, raced>>

Reload ==
  /\ engine = "reading"
  /\ applied' = IF Parses THEN Settings(file) ELSE applied
  /\ engine' = IF applied'["camera_source"] # applied["camera_source"]
               THEN "opening" ELSE "loop"
  /\ UNCHANGED <<file, seen, sensVal, restarts, page, serverVars, raced>>

\* The engine is stopped, or dies, and is started again.
Restart ==
  /\ engine # "start" /\ restarts < MaxRestarts
  /\ restarts' = restarts + 1
  /\ engine' = "start"
  /\ raced' = (raced \/ engine = "saving")
  /\ UNCHANGED <<file, seen, applied, sensVal, page, serverVars>>

-----------------------------------------------------------------------------
\* fetchConfig: GET answers 500 when the file does not parse, and the page
\* keeps what it shows.  GET and POST run in one thread.
Fetch_IgnoresStatus ==
  /\ server = "idle"
  /\ page' = IF Parses THEN file ELSE << >>
  /\ UNCHANGED <<file, seen, engineVars, serverVars, raced>>

Fetch ==
  /\ server = "idle" /\ Parses
  /\ page' = file
  /\ UNCHANGED <<file, seen, engineVars, serverVars, raced>>

\* saveConfig posts the whole state of the page, with what the user has set;
\* the handler merges it into the file, or into nothing if that does not parse.
PostRead_FileWins(body) ==
  /\ server = "idle" /\ posts < MaxPosts
  /\ page' = body
  /\ posts' = posts + 1
  /\ merged' = IF Parses THEN Spread(body, file) ELSE body
  /\ server' = "read"
  /\ UNCHANGED <<file, seen, engineVars, posted, raced>>

PostRead(body) ==
  /\ server = "idle" /\ posts < MaxPosts
  /\ page' = body
  /\ posts' = posts + 1
  /\ merged' = IF Parses THEN Spread(file, body) ELSE body
  /\ server' = "read"
  /\ UNCHANGED <<file, seen, engineVars, posted, raced>>

\* writeFileSync opens the file ...
PostOpen ==
  /\ server = "read"
  /\ file' = Opened /\ seen' = FALSE
  /\ server' = "writing"
  /\ raced' = EngineBusy
  /\ UNCHANGED <<engineVars, page, merged, posts, posted>>

\* ... and writes it.
PostWrite ==
  /\ server = "writing"
  /\ Write(merged) /\ seen' = FALSE
  /\ server' = "idle"
  /\ posted' = page /\ merged' = None
  /\ raced' = (raced \/ EngineBusy)
  /\ UNCHANGED <<engineVars, page, posts>>

\* The page with any values for the settings it shows.
Edited == {b \in [DOMAIN page -> Value] :
             \A k \in DOMAIN page \ PageKeys : b[k] = page[k]}

EngineStep == Start \/ CameraOpened \/ CameraFailed \/ Save \/ Stat \/ Reload
ServerStep == PostOpen \/ PostWrite
Next ==
  \/ EngineStep \/ Restart
  \/ Fetch \/ (\E body \in Edited : PostRead(body)) \/ ServerStep

Spec == Init /\ [][Next]_vars
FairSpec == Spec /\ WF_vars(EngineStep) /\ WF_vars(ServerStep)

-----------------------------------------------------------------------------
\* config.json is left unreadable only when the engine and a POST write it at
\* the same time (or the engine dies with the file open): each alone leaves it
\* whole, because both truncate it.
WholeUnlessRaced == file = Garbage => raced

\* When the page saves no more, the engine stops saving: a reload that opens a
\* camera rewrites the file, which is seen as a change and reloaded, but does
\* not open the camera again.
Settles == <>[](~EngineBusy)

\* Hot reload: in the end the settings in force are those of the file, whoever
\* wrote it last and however the engine's own saves, torn reads and restarts
\* came in between.
HotReload == <>[](Parses => applied = Settings(file))

\* Settings posted while the engine was not about to save are in force in the
\* end ("Ajustes aplicados al motor local en caliente."); but for sens_val, which
\* the save after another camera was opened puts back to what it was when the
\* engine started.
PostedApplied ==
  <>[](posted # None /\ ~raced =>
         \A k \in DOMAIN posted :
           \/ applied[k] = posted[k]
           \/ k = "sens_val" /\ applied[k] = sensVal)
=============================================================================
