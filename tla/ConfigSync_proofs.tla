-------------------------- MODULE ConfigSync_proofs --------------------------
(* config.json, for every set of values and any number of saves and restarts. *)
EXTENDS ConfigSync, TLAPS

\* What a POST is about to write is a configuration until it is written.
MergedInv == server # "idle" => merged \in Configs

\* cfg.get(k, default) for every key gives a value to every key.
LEMMA SettingsTyped ==
  ASSUME NEW cfg \in Configs
  PROVE  Settings(cfg) \in [Keys -> Value]
  BY ConfigAssumption DEF Settings, Configs, Keys

\* Merging two configurations gives a configuration.
LEMMA SpreadTyped ==
  ASSUME NEW a \in Configs, NEW b \in Configs
  PROVE  Spread(a, b) \in Configs
  <1> DEFINE D == DOMAIN a \cup DOMAIN b
  <1>1. D = Keys \/ D = PageKeys
    BY DEF Configs, Keys
  <1>2. \A k \in D : (IF k \in DOMAIN b THEN b[k] ELSE a[k]) \in Value
    BY DEF Configs
  <1>3. Spread(a, b) \in [D -> Value]
    BY <1>2 DEF Spread
  <1>4. QED
    BY <1>1, <1>3 DEF Configs

\* Whatever the user sets, the page holds a configuration.
LEMMA EditedTyped ==
  ASSUME page \in Configs, NEW body \in Edited
  PROVE  body \in Configs
  BY DEF Edited, Configs

\* What the engine saves is a configuration.
LEMMA SavedTyped ==
  ASSUME applied \in [Keys -> Value], sensVal \in Value
  PROVE  [applied EXCEPT !["sens_val"] = sensVal] \in Configs
  BY DEF Configs

\* A writer leaves its text or garbage, and its text on an empty file.
LEMMA WriteLeaves ==
  ASSUME NEW cfg, Write(cfg)
  PROVE  file' \in {cfg, Garbage} /\ (file = Empty => file' = cfg)
  BY DEF Write

-----------------------------------------------------------------------------
LEMMA TypeInit == Init => TypeOK /\ MergedInv
  <1>1. PageDefault \in Configs /\ Default["sens_val"] \in Value
    BY ConfigAssumption DEF Configs, Keys, PageKeys
  <1>2. 0 \in 0 .. MaxPosts /\ 0 \in 0 .. MaxRestarts
    BY ConfigAssumption
  <1>3. QED
    BY <1>1, <1>2, ConfigAssumption DEF Init, TypeOK, MergedInv

LEMMA EngineTypeStep ==
  TypeOK /\ MergedInv /\ (EngineStep \/ Restart) => TypeOK' /\ MergedInv'
  <1> SUFFICES ASSUME TypeOK, MergedInv, EngineStep \/ Restart
               PROVE  TypeOK' /\ MergedInv'
    OBVIOUS
  <1> USE DEF TypeOK, MergedInv, serverVars
  <1>1. CASE Start
    <2>1. applied' \in [Keys -> Value]
      BY <1>1, SettingsTyped, ConfigAssumption DEF Start, Parses
    <2>2. sensVal' \in Value
      BY <1>1, <2>1 DEF Start, Keys, PageKeys
    <2>3. QED
      BY <1>1, <2>1, <2>2 DEF Start
  <1>2. CASE CameraOpened
    BY <1>2 DEF CameraOpened, Opened
  <1>3. CASE CameraFailed
    BY <1>3 DEF CameraFailed
  <1>4. CASE Save
    <2>1. file' \in Configs \cup {Empty, Garbage}
      BY <1>4, SavedTyped, WriteLeaves DEF Save
    <2>2. QED
      BY <1>4, <2>1 DEF Save
  <1>5. CASE Stat
    BY <1>5 DEF Stat
  <1>6. CASE Reload
    <2>1. applied' \in [Keys -> Value]
      BY <1>6, SettingsTyped DEF Reload, Parses
    <2>2. QED
      BY <1>6, <2>1 DEF Reload
  <1>7. CASE Restart
    BY <1>7, ConfigAssumption DEF Restart
  <1>8. QED
    BY <1>1, <1>2, <1>3, <1>4, <1>5, <1>6, <1>7 DEF EngineStep

LEMMA ServerTypeStep ==
  ASSUME TypeOK, MergedInv,
         Fetch \/ (\E body \in Edited : PostRead(body)) \/ ServerStep
  PROVE  TypeOK' /\ MergedInv'
  <1> USE DEF TypeOK, MergedInv, engineVars
  <1>1. CASE Fetch
    BY <1>1 DEF Fetch, Parses, serverVars
  <1>2. ASSUME NEW body \in Edited, PostRead(body)
        PROVE  TypeOK' /\ MergedInv'
    <2>1. body \in Configs
      BY EditedTyped
    <2>2. merged' \in Configs
      BY <1>2, <2>1, SpreadTyped DEF PostRead, Parses
    <2>3. posts' \in 0 .. MaxPosts
      BY <1>2, ConfigAssumption DEF PostRead
    <2>4. QED
      BY <1>2, <2>1, <2>2, <2>3 DEF PostRead
  <1>3. CASE PostOpen
    <2>1. raced' \in BOOLEAN
      <3>1. raced' = (engine \in {"opening", "saving"})
        BY <1>3 DEF PostOpen, EngineBusy
      <3>2. CASE EngineBusy
        BY <3>1, <3>2 DEF EngineBusy
      <3>3. CASE ~EngineBusy
        BY <3>1, <3>3 DEF EngineBusy
      <3>4. QED
        BY <3>2, <3>3
    <2>2. QED
      BY <1>3, <2>1 DEF PostOpen, Opened
  <1>4. CASE PostWrite
    <2>1. file' \in Configs \cup {Empty, Garbage}
      BY <1>4, WriteLeaves DEF PostWrite
    <2>2. QED
      BY <1>4, <2>1 DEF PostWrite, EngineBusy
  <1>5. QED
    BY <1>1, <1>2, <1>3, <1>4 DEF ServerStep

LEMMA TypeStep == TypeOK /\ MergedInv /\ [Next]_vars => TypeOK' /\ MergedInv'
  <1>1. TypeOK /\ MergedInv /\ UNCHANGED vars => TypeOK' /\ MergedInv'
    BY DEF TypeOK, MergedInv, vars, engineVars, serverVars
  <1>2. QED
    BY <1>1, EngineTypeStep, ServerTypeStep DEF Next

LEMMA TypesInvariant == Spec => [](TypeOK /\ MergedInv)
  BY TypeInit, TypeStep, PTL DEF Spec

\* The file holds a configuration, nothing or garbage, whoever wrote it last and
\* whatever died while writing, and every other part of the state its type.
THEOREM ConfigTypes == Spec => []TypeOK
  BY TypesInvariant, PTL

-----------------------------------------------------------------------------
(* Corruption.  Without a race, whoever has the file open finds it empty. *)

FileInv ==
  /\ file = Garbage => raced
  /\ (engine = "saving" \/ server = "writing") /\ ~raced => file = Empty

LEMMA FileStep ==
  TypeOK /\ MergedInv /\ FileInv /\ [Next]_vars => FileInv'
  <1> SUFFICES ASSUME TypeOK, MergedInv, FileInv, [Next]_vars
               PROVE  FileInv'
    OBVIOUS
  <1>0. \A cfg \in Configs : cfg # Garbage /\ cfg # Empty
    BY ConfigAssumption
  <1>1. CASE Start
    BY <1>1 DEF Start, FileInv, serverVars
  <1>2. CASE CameraOpened
    BY <1>2, ConfigAssumption
       DEF CameraOpened, Opened, FileInv, serverVars, ServerBusy
  <1>3. CASE CameraFailed
    BY <1>3 DEF CameraFailed, FileInv, serverVars
  <1>4. CASE Save
    <2> DEFINE saved == [applied EXCEPT !["sens_val"] = sensVal]
    <2>1. saved \in Configs
      BY SavedTyped DEF TypeOK
    <2>2. Write(saved)
      BY <1>4 DEF Save
    <2>3. file = Empty => file' # Garbage
      BY <2>1, <2>2, <1>0, WriteLeaves
    <2>4. raced' = (raced \/ ServerBusy) /\ engine = "saving"
          /\ engine' = "loop" /\ server' = server
      BY <1>4 DEF Save, serverVars
    <2>5. QED
      BY <2>3, <2>4 DEF FileInv, ServerBusy, TypeOK
  <1>5. CASE Stat
    BY <1>5 DEF Stat, FileInv, serverVars
  <1>6. CASE Reload
    BY <1>6 DEF Reload, FileInv, serverVars
  <1>7. CASE Restart
    BY <1>7 DEF Restart, FileInv, serverVars
  <1>8. CASE Fetch
    BY <1>8 DEF Fetch, FileInv, serverVars, engineVars
  <1>9. ASSUME NEW body \in Edited, PostRead(body) PROVE FileInv'
    BY <1>9 DEF PostRead, FileInv, engineVars
  <1>10. CASE PostOpen
    BY <1>10, ConfigAssumption
       DEF PostOpen, Opened, FileInv, engineVars, EngineBusy
  <1>11. CASE PostWrite
    <2>1. Write(merged) /\ server = "writing"
      BY <1>11 DEF PostWrite
    <2>2. merged \in Configs
      BY <2>1 DEF MergedInv
    <2>3. file = Empty => file' # Garbage
      BY <2>1, <2>2, <1>0, WriteLeaves
    <2>4. raced' = (raced \/ EngineBusy) /\ engine' = engine
          /\ server' = "idle"
      BY <1>11 DEF PostWrite, engineVars
    <2>5. QED
      BY <2>1, <2>3, <2>4 DEF FileInv, EngineBusy, TypeOK
  <1>12. CASE UNCHANGED vars
    BY <1>12 DEF vars, engineVars, serverVars, FileInv
  <1>13. QED
    BY <1>1, <1>2, <1>3, <1>4, <1>5, <1>6, <1>7, <1>8, <1>9, <1>10, <1>11,
       <1>12 DEF Next, EngineStep, ServerStep

\* The file is left unreadable only when a POST and a save of the engine wrote
\* it at the same time, or the engine died with the file open.
THEOREM CorruptionNeedsRace == Spec => []WholeUnlessRaced
  <1>1. Init => FileInv
    BY ConfigAssumption DEF Init, FileInv
  <1>2. FileInv => WholeUnlessRaced
    BY DEF FileInv, WholeUnlessRaced
  <1>3. QED
    BY <1>1, <1>2, FileStep, TypesInvariant, PTL DEF Spec
=============================================================================
