--------------------------- MODULE VideoPlayerProofs ---------------------------
(***************************************************************************)
(* Theorems about the player of the site, for every set of sources and     *)
(* every number of runs of its effect.                                     *)
(***************************************************************************)
EXTENDS VideoPlayer, TLAPS

TaskKinds == {"play", "pause", "abort", "volume"}

(* What the queue tells last of playing is what the element does; what it  *)
(* has told already is shown, unless more has been lost than is queued.    *)
LastTaskTells ==
  \A i \in 1..Len(tasks) :
    tasks[i] # "volume" /\ (\A j \in (i + 1)..Len(tasks) : tasks[j] = "volume") =>
      (tasks[i] = "play") = ~paused

PlayIsShown == ~switched /\ (\A i \in 1..Len(tasks) : tasks[i] = "volume") => isPlaying = ~paused
VolumeIsShown == ~unheard /\ (\A i \in 1..Len(tasks) : tasks[i] # "volume") => isMuted = muted

MirrorInv == LastTaskTells /\ PlayIsShown /\ VolumeIsShown

PlayerInv == PlayerTypeOK /\ OneSource /\ StatusIsOfThisSource /\ MirrorInv

(* Facts about the constants and the sets made of them. *)
LEMMA ConstantFacts ==
  /\ HlsSources \subseteq Sources /\ NoStream \notin Sources
  /\ MaxRuns \in Nat /\ MaxTasks \in Nat /\ Runs = 1..MaxRuns
  BY SourcesAssumption, RunsAssumption DEF Runs

LEMMA RecordFacts ==
  /\ NoRun \in RunRecord /\ NoRun.at = "none"
  /\ \A s : First(s) \in RunRecord /\ First(s).at \in {"importing", "attached"}
  BY DEF NoRun, RunRecord, First

(* A run is one of the effect's, and what the queue takes and gives. *)
LEMMA QueueTyped ==
  ASSUME NEW q \in Seq(TaskKinds), NEW x \in TaskKinds
  PROVE  /\ Append(q, x) \in Seq(TaskKinds) /\ Len(Append(q, x)) = Len(q) + 1
         /\ q # <<>> => Tail(q) \in Seq(TaskKinds) /\ Len(Tail(q)) = Len(q) - 1 /\ Head(q) \in TaskKinds
  OBVIOUS

LEMMA InitHolds == PlayerInit => PlayerInv
<1> SUFFICES ASSUME PlayerInit PROVE PlayerInv
  OBVIOUS
<1>1. \A r \in Runs : run[r] = NoRun
  BY DEF PlayerInit
<1>2. tasks = <<>> /\ Len(tasks) = 0 /\ tasks \in Seq(TaskKinds)
  BY DEF PlayerInit
<1>3. PlayerTypeOK
  <2>1. run \in [Runs -> RunRecord]
    BY RecordFacts DEF PlayerInit
  <2>2. started = 0 /\ current = 0 /\ started \in 0..MaxRuns /\ current \in 0..started
    BY ConstantFacts DEF PlayerInit
  <2>3. Len(tasks) <= MaxTasks
    BY <1>2, ConstantFacts
  <2>4. QED
    BY <1>2, <2>1, <2>2, <2>3 DEF PlayerInit, PlayerTypeOK, TaskKinds
<1>4. OneSource
  BY <1>1, RecordFacts DEF OneSource, Attached
<1>5. StatusIsOfThisSource
  BY DEF PlayerInit, StatusIsOfThisSource
<1>6. MirrorInv
  <2>1. LastTaskTells
    BY <1>2 DEF LastTaskTells
  <2>2. PlayIsShown /\ VolumeIsShown
    BY DEF PlayerInit, PlayIsShown, VolumeIsShown
  <2>3. QED
    BY <2>1, <2>2 DEF MirrorInv
<1>7. QED
  BY <1>3, <1>4, <1>5, <1>6 DEF PlayerInv

-----------------------------------------------------------------------------

(* The effect                                                              *)

(* Runs and the one that is current keep their types; only the current one *)
(* is attached, and it is the first step of a source's.                    *)
EffectFits(s) ==
  /\ started' \in 0..MaxRuns /\ current' \in 0..started' /\ run' \in [Runs -> RunRecord]
  /\ (current' = 0) = (s = NoStream)
  /\ \A r \in Runs : run'[r].at \in {"attached", "loaded", "failed"} => r = current' /\ s # NoStream

LEMMA EffectKeeps ==
  ASSUME PlayerTypeOK, OneSource, NEW s \in Sources \cup {NoStream}, CanRun(s), Effect(s)
  PROVE  EffectFits(s)
<1>1. started \in 0..MaxRuns /\ current \in 0..started /\ run \in [Runs -> RunRecord]
  BY DEF PlayerTypeOK
<1>2. \A r \in Runs : Cleaned(r) \in RunRecord /\ Cleaned(r).at \notin {"attached", "loaded", "failed"}
  BY <1>1, RecordFacts DEF Cleaned, RunRecord
<1>3. \A r \in Runs : run[r].at \in {"attached", "loaded", "failed"} => r = current
  BY DEF OneSource, Attached
<1>4. CASE s = NoStream
  <2>1. /\ started' = started /\ current' = 0
        /\ run' = [r \in Runs |-> IF r = current THEN Cleaned(r) ELSE run[r]]
    BY <1>4 DEF Effect
  <2>2. QED
    BY <1>1, <1>2, <1>3, <1>4, <2>1, ConstantFacts DEF EffectFits
<1>5. CASE s # NoStream
  <2>1. /\ started' = started + 1 /\ current' = started + 1 /\ started < MaxRuns
        /\ run' = [r \in Runs |-> IF r = started + 1 THEN First(s)
                                  ELSE IF r = current THEN Cleaned(r) ELSE run[r]]
    BY <1>5 DEF Effect, CanRun
  <2>2. started' \in 0..MaxRuns /\ current' \in 0..started' /\ current' # 0
    BY <1>1, <2>1, ConstantFacts
  <2>3. run' \in [Runs -> RunRecord]
    BY <1>1, <1>2, <2>1, RecordFacts
  <2>4. \A r \in Runs : run'[r].at \in {"attached", "loaded", "failed"} => r = current'
    BY <1>2, <1>3, <2>1
  <2>5. QED
    BY <1>5, <2>2, <2>3, <2>4 DEF EffectFits
<1>6. QED
  BY <1>4, <1>5

(* What follows when the page gives the player a source or none.           *)
LEMMA SourceChanged ==
  ASSUME NEW s \in Sources \cup {NoStream}, EffectFits(s), src' = s, mounted' \in BOOLEAN,
         s # NoStream => mounted' /\ (status' = "loading" \/ (status' = "error" /\ aborted')),
         status' \in {"idle", "loading", "ready", "error"}, aborted' \in BOOLEAN,
         isPlaying' \in BOOLEAN, isMuted' \in BOOLEAN,
         paused' \in BOOLEAN, playing' \in BOOLEAN, muted' \in BOOLEAN,
         tasks' \in Seq(TaskKinds), Len(tasks') <= MaxTasks,
         switched' \in BOOLEAN, unheard' \in BOOLEAN
  PROVE  PlayerTypeOK' /\ OneSource' /\ StatusIsOfThisSource'
<1>1. PlayerTypeOK'
  BY DEF PlayerTypeOK, EffectFits, TaskKinds
<1>2. OneSource'
  BY DEF OneSource, Attached, EffectFits
<1>3. StatusIsOfThisSource'
  BY DEF StatusIsOfThisSource, Overlay, EffectFits
<1>4. QED
  BY <1>1, <1>2, <1>3

(* The element, its queue and what is known of them.                       *)
ElementTyped ==
  /\ paused \in BOOLEAN /\ playing \in BOOLEAN /\ muted \in BOOLEAN
  /\ tasks \in Seq(TaskKinds) /\ Len(tasks) <= MaxTasks
  /\ switched \in BOOLEAN /\ unheard \in BOOLEAN

LEMMA Types == PlayerTypeOK => ElementTyped
  BY DEF PlayerTypeOK, ElementTyped, TaskKinds

(* No word is left in the queue, and what was lost with it is remembered.  *)
LEMMA DiscardMirrors ==
  ASSUME MirrorInv, ElementTyped, Discard, UNCHANGED <<isPlaying, isMuted>>,
         paused' \in BOOLEAN, playing' \in BOOLEAN, muted' \in BOOLEAN,
         switched' \in BOOLEAN, unheard' \in BOOLEAN,
         ~switched' => ~switched /\ paused' = paused /\ ~IsQueued({"play", "pause", "abort"}),
         ~unheard' => ~unheard /\ muted' = muted /\ ~IsQueued({"volume"})
  PROVE  MirrorInv' /\ ElementTyped'
<1>1. tasks' = <<>> /\ Len(tasks') = 0 /\ tasks' \in Seq(TaskKinds)
  BY DEF Discard
<1>2. LastTaskTells'
  BY <1>1 DEF LastTaskTells
<1>3. \A i \in 1..Len(tasks) : tasks[i] \in {"play", "pause", "abort", "volume"}
  BY DEF ElementTyped, TaskKinds
<1>4. PlayIsShown'
  BY <1>3 DEF MirrorInv, PlayIsShown, IsQueued
<1>5. VolumeIsShown'
  BY <1>3 DEF MirrorInv, VolumeIsShown, IsQueued
<1>6. Len(tasks') <= MaxTasks
  BY <1>1, ConstantFacts
<1>7. QED
  BY <1>1, <1>2, <1>4, <1>5, <1>6 DEF MirrorInv, ElementTyped

(* The element that is emptied, or goes ...                                *)
LEMMA ResetMirrors ==
  ASSUME PlayerTypeOK, MirrorInv, NEW g \in BOOLEAN, Reset(g), UNCHANGED <<isPlaying, isMuted>>
  PROVE  MirrorInv' /\ ElementTyped'
<1>1. ElementTyped
  BY Types
<1>2. /\ paused' = TRUE /\ playing' = FALSE /\ muted' \in BOOLEAN
      /\ switched' \in BOOLEAN /\ unheard' \in BOOLEAN /\ Discard
  BY DEF Reset
<1>3. ~switched' => ~switched /\ paused' = paused /\ ~IsQueued({"play", "pause", "abort"})
  BY <1>1 DEF Reset, ElementTyped
<1>4. ~unheard' => ~unheard /\ muted' = muted /\ ~IsQueued({"volume"})
  BY <1>1 DEF Reset, ElementTyped
<1>5. QED
  BY <1>1, <1>2, <1>3, <1>4, DiscardMirrors

(* ... and the one a source is set on, which goes on as it did.            *)
LEMMA AttachMirrors ==
  ASSUME PlayerTypeOK, MirrorInv, Attach, UNCHANGED <<isPlaying, isMuted>>
  PROVE  MirrorInv' /\ ElementTyped'
<1>1. ElementTyped
  BY Types
<1>2. /\ paused' = paused /\ playing' = playing /\ muted' = muted
      /\ switched' \in BOOLEAN /\ unheard' \in BOOLEAN /\ Discard
  BY DEF Attach
<1>3. /\ ~switched' => ~switched /\ ~IsQueued({"play", "pause", "abort"})
      /\ ~unheard' => ~unheard /\ ~IsQueued({"volume"})
  BY DEF Attach
<1>4. paused' \in BOOLEAN /\ playing' \in BOOLEAN /\ muted' \in BOOLEAN
  BY <1>1, <1>2 DEF ElementTyped
<1>5. QED
  BY <1>1, <1>2, <1>3, <1>4, DiscardMirrors

LEMMA SameMirrors ==
  ASSUME MirrorInv, UNCHANGED <<isPlaying, isMuted, paused, muted, tasks, switched, unheard>>
  PROVE  MirrorInv'
  BY DEF MirrorInv, LastTaskTells, PlayIsShown, VolumeIsShown

LEMMA MountHolds ==
  ASSUME PlayerInv, NEW s \in Sources \cup {NoStream}, Mount(s) PROVE PlayerInv'
<1>1. EffectFits(s)
  BY EffectKeeps DEF Mount, PlayerInv
<1>2. MirrorInv'
  BY SameMirrors DEF Mount, PlayerInv, shownVars, elementVars
<1>3. /\ mounted' = TRUE /\ src' = s /\ aborted' = FALSE
      /\ status' = IF s = NoStream THEN "idle" ELSE "loading"
      /\ isPlaying' = isPlaying /\ isMuted' = isMuted /\ paused' = paused /\ playing' = playing
      /\ muted' = muted /\ tasks' = tasks /\ switched' = switched /\ unheard' = unheard
  BY DEF Mount, SetStatus, shownVars, elementVars
<1>4. /\ isPlaying \in BOOLEAN /\ isMuted \in BOOLEAN /\ paused \in BOOLEAN /\ playing \in BOOLEAN
      /\ muted \in BOOLEAN /\ tasks \in Seq(TaskKinds) /\ Len(tasks) <= MaxTasks
      /\ switched \in BOOLEAN /\ unheard \in BOOLEAN
  BY DEF PlayerInv, PlayerTypeOK, TaskKinds
<1>5. PlayerTypeOK' /\ OneSource' /\ StatusIsOfThisSource'
  BY <1>1, <1>3, <1>4, SourceChanged
<1>6. QED
  BY <1>2, <1>5 DEF PlayerInv

LEMMA RerenderHolds ==
  ASSUME PlayerInv, NEW s \in Sources \cup {NoStream}, Rerender(s) PROVE PlayerInv'
<1>1. EffectFits(s)
  BY EffectKeeps DEF Rerender, PlayerInv
<1>2. /\ mounted' = mounted /\ mounted /\ src' = s /\ isPlaying' = isPlaying /\ isMuted' = isMuted
      /\ Reset(s = NoStream) \/ Attach \/ UNCHANGED elementVars
  BY DEF Rerender, shownVars
<1>3. /\ status' \in {"idle", "loading", "ready", "error"} /\ aborted' \in BOOLEAN
      /\ s # NoStream => (status' = "loading" \/ (status' = "error" /\ aborted'))
  <2>1. \/ status' = "error" /\ aborted' = TRUE
        \/ s = NoStream /\ status' = status /\ aborted' = aborted
        \/ status' = "loading" /\ aborted' = FALSE
    BY DEF Rerender, Rejected, SetStatus
  <2>2. status \in {"idle", "loading", "ready", "error"} /\ aborted \in BOOLEAN
    BY DEF PlayerInv, PlayerTypeOK
  <2>3. QED
    BY <2>1, <2>2
<1>4. MirrorInv' /\ ElementTyped'
  <2>1. CASE Reset(s = NoStream)
    <3>1. (s = NoStream) \in BOOLEAN
      OBVIOUS
    <3>2. QED
      BY <1>2, <2>1, <3>1, ResetMirrors DEF PlayerInv
  <2>2. CASE Attach
    BY <1>2, <2>2, AttachMirrors DEF PlayerInv
  <2>3. CASE UNCHANGED elementVars
    <3>1. ElementTyped
      BY Types DEF PlayerInv
    <3>2. QED
      BY <1>2, <2>3, <3>1, SameMirrors DEF PlayerInv, elementVars, ElementTyped
  <2>4. QED
    BY <1>2, <2>1, <2>2, <2>3
<1>5. PlayerTypeOK' /\ OneSource' /\ StatusIsOfThisSource'
  BY <1>1, <1>2, <1>3, <1>4, SourceChanged DEF PlayerInv, PlayerTypeOK, ElementTyped
<1>6. QED
  BY <1>4, <1>5 DEF PlayerInv

LEMMA UnmountHolds == PlayerInv /\ Unmount => PlayerInv'
<1> SUFFICES ASSUME PlayerInv, Unmount PROVE PlayerInv'
  OBVIOUS
<1>1. EffectFits(NoStream)
  BY EffectKeeps DEF Unmount, PlayerInv, CanRun
<1>2. /\ tasks' = <<>> /\ Len(tasks') = 0 /\ tasks' \in Seq(TaskKinds)
      /\ isPlaying' = FALSE /\ isMuted' = FALSE /\ paused' = TRUE /\ muted' = FALSE
      /\ mounted' = FALSE /\ src' = NoStream /\ status' = "idle" /\ aborted' = FALSE
      /\ playing' = FALSE /\ switched' = FALSE /\ unheard' = FALSE
  BY DEF Unmount, SetStatus
<1>3. LastTaskTells'
  BY <1>2 DEF LastTaskTells
<1>4. PlayIsShown' /\ VolumeIsShown'
  BY <1>2 DEF PlayIsShown, VolumeIsShown
<1>5. Len(tasks') <= MaxTasks
  BY <1>2, ConstantFacts
<1>6. PlayerTypeOK' /\ OneSource' /\ StatusIsOfThisSource'
  BY <1>1, <1>2, <1>5, SourceChanged
<1>7. QED
  BY <1>3, <1>4, <1>6 DEF PlayerInv, MirrorInv

-----------------------------------------------------------------------------

(* What a run waits for                                                    *)

(* A run's step that leaves the source alone, and what the controls show.  *)
LEMMA RunStep ==
  ASSUME PlayerInv, NEW r \in Runs, NEW e \in RunRecord, run' = [run EXCEPT ![r] = e],
         UNCHANGED <<mounted, src, current, started, isPlaying, isMuted>>,
         MirrorInv', ElementTyped',
         aborted' \in BOOLEAN, status' \in {"idle", "loading", "ready", "error"},
         e.at \in {"attached", "loaded", "failed"} => r = current,
         r = current => (status' = "ready" => e.at = "loaded")
                        /\ (status' = "error" => aborted' \/ e.at \in {"failed", "none"}),
         r # current => UNCHANGED <<status, aborted>>
  PROVE  PlayerInv'
<1>1. run' \in [Runs -> RunRecord] /\ \A q \in Runs : run'[q] = IF q = r THEN e ELSE run[q]
  BY DEF PlayerInv, PlayerTypeOK
<1>2. PlayerTypeOK'
  BY <1>1 DEF PlayerInv, PlayerTypeOK, ElementTyped, TaskKinds
<1>3. current # 0 => mounted
  BY DEF PlayerInv, PlayerTypeOK
<1>4. r # 0
  BY ConstantFacts
<1>5. OneSource'
  BY <1>1, <1>3, <1>4 DEF PlayerInv, OneSource, Attached
<1>6. current # 0 => current \in Runs
  BY ConstantFacts DEF PlayerInv, PlayerTypeOK
<1>7. StatusIsOfThisSource'
  BY <1>1, <1>6 DEF PlayerInv, StatusIsOfThisSource, Overlay
<1>8. QED
  BY <1>2, <1>5, <1>7 DEF PlayerInv

(* The element does nothing but that a play() settles.                     *)
LEMMA SameElement ==
  ASSUME PlayerInv, playing' \in BOOLEAN,
         UNCHANGED <<isPlaying, isMuted, paused, muted, tasks, switched, unheard>>
  PROVE  MirrorInv' /\ ElementTyped'
<1>1. ElementTyped
  BY Types DEF PlayerInv
<1>2. QED
  BY <1>1, SameMirrors DEF PlayerInv, ElementTyped

(* A run that fails while it waits for the import, or attached. *)
LEMMA MarkHolds ==
  ASSUME PlayerInv, NEW r \in Runs, NEW at \in {"none", "failed"}, MarkError(r, at),
         at = "failed" => r = current, playing' \in BOOLEAN,
         UNCHANGED <<mounted, src, current, started, isPlaying, isMuted, paused, muted, tasks, switched, unheard>>
  PROVE  PlayerInv'
<1>1. MirrorInv' /\ ElementTyped'
  BY SameElement
<1>2. CASE r = current
  <2> DEFINE e == [run[r] EXCEPT !.at = at]
  <2>1. e \in RunRecord /\ e.at = at
    BY DEF PlayerInv, PlayerTypeOK, RunRecord
  <2>2. run' = [run EXCEPT ![r] = e] /\ status' = "error" /\ aborted' = FALSE
    BY <1>2 DEF MarkError, SetStatus
  <2> HIDE DEF e
  <2>3. QED
    BY <1>1, <1>2, <2>1, <2>2, RunStep
<1>3. CASE r # current
  <2>1. run' = [run EXCEPT ![r] = NoRun] /\ UNCHANGED <<status, aborted>>
    BY <1>3 DEF MarkError
  <2>2. /\ aborted' \in BOOLEAN /\ status' \in {"idle", "loading", "ready", "error"}
        /\ status' = status /\ aborted' = aborted
    BY <2>1 DEF PlayerInv, PlayerTypeOK
  <2>3. QED
    BY <1>1, <1>3, <2>1, <2>2, RecordFacts, RunStep
<1>4. QED
  BY <1>2, <1>3

LEMMA RunHolds ==
  ASSUME PlayerInv, NEW r \in Runs,
         Imports(r) \/ ImportFails(r) \/ Loaded(r) \/ Recovers(r) \/ Fails(r)
  PROVE  PlayerInv'
<1> USE DEF shownVars, elementVars
<1>1. /\ run[r] \in RunRecord /\ aborted \in BOOLEAN /\ status \in {"idle", "loading", "ready", "error"}
      /\ playing \in BOOLEAN
      /\ run[r].at \in {"attached", "loaded", "failed"} => r = current /\ mounted
      /\ r # 0 /\ (current # 0 => src # NoStream /\ mounted)
  BY ConstantFacts DEF PlayerInv, PlayerTypeOK, OneSource, Attached
<1>2. r = current => /\ status = "ready" => run[r].at = "loaded"
                     /\ status = "error" => aborted \/ run[r].at \in {"failed", "none"}
  BY <1>1 DEF PlayerInv, StatusIsOfThisSource, Overlay
<1>3. CASE Imports(r)
  <2>1. CASE r = current
    <3> DEFINE e == [run[r] EXCEPT !.at = "attached"]
    <3>1. e \in RunRecord /\ e.at = "attached" /\ run' = [run EXCEPT ![r] = e]
      BY <1>1, <1>3, <2>1 DEF Imports, RunRecord
    <3>2. /\ UNCHANGED <<mounted, src, current, started, isPlaying, isMuted>> /\ Attach
          /\ run[r].at = "importing"
          /\ \/ status' = status /\ aborted' = aborted
             \/ status' = "error" /\ aborted' = TRUE
      BY <1>3, <2>1 DEF Imports, Rejected
    <3>3. MirrorInv' /\ ElementTyped'
      BY <3>2, AttachMirrors DEF PlayerInv
    <3>4. /\ status' # "ready" /\ (status' = "error" => aborted')
          /\ aborted' \in BOOLEAN /\ status' \in {"idle", "loading", "ready", "error"}
      <4>1. status # "ready" /\ (status = "error" => aborted = TRUE)
        BY <1>1, <1>2, <2>1, <3>2
      <4>2. CASE status' = status /\ aborted' = aborted
        BY <1>1, <4>1, <4>2
      <4>3. CASE status' = "error" /\ aborted' = TRUE
        BY <4>3
      <4>4. QED
        BY <3>2, <4>2, <4>3
    <3> HIDE DEF e
    <3>5. QED
      BY <2>1, <3>1, <3>2, <3>3, <3>4, RunStep
  <2>2. CASE r # current
    <3>1. /\ run' = [run EXCEPT ![r] = NoRun] /\ status' = status /\ aborted' = aborted
          /\ playing' = playing
          /\ UNCHANGED <<mounted, src, current, started, isPlaying, isMuted, paused, muted, tasks, switched, unheard>>
      BY <1>3, <2>2 DEF Imports
    <3>2. MirrorInv' /\ ElementTyped'
      BY <1>1, <3>1, SameElement
    <3>3. QED
      BY <1>1, <2>2, <3>1, <3>2, RecordFacts, RunStep
  <2>3. QED
    BY <2>1, <2>2
<1>4. CASE ImportFails(r)
  BY <1>1, <1>4, MarkHolds DEF ImportFails
<1>5. CASE Loaded(r)
  <2> DEFINE e == [run[r] EXCEPT !.at = "loaded"]
  <2>1. e \in RunRecord /\ e.at = "loaded" /\ run' = [run EXCEPT ![r] = e] /\ r = current
    BY <1>1, <1>5 DEF Loaded, RunRecord
  <2>2. /\ status' = "ready" /\ aborted' = FALSE /\ playing' = playing
        /\ UNCHANGED <<mounted, src, current, started, isPlaying, isMuted, paused, muted, tasks, switched, unheard>>
    BY <1>5 DEF Loaded, SetStatus
  <2>3. MirrorInv' /\ ElementTyped'
    BY <1>1, <2>2, SameElement
  <2> HIDE DEF e
  <2>4. QED
    BY <1>1, <2>1, <2>2, <2>3, RunStep
<1>6. CASE Recovers(r)
  <2> DEFINE e == [run[r] EXCEPT !.recovered = TRUE]
  <2>1. e \in RunRecord /\ e.at = run[r].at /\ run' = [run EXCEPT ![r] = e] /\ r = current
    BY <1>1, <1>6 DEF Recovers, RunRecord
  <2>2. /\ UNCHANGED <<mounted, src, current, started, isPlaying, isMuted>>
        /\ \/ status' = status /\ aborted' = aborted
           \/ status' = "error" /\ aborted' = TRUE
    BY <1>6 DEF Recovers, Rejected
  <2>3. MirrorInv' /\ ElementTyped'
    <3>1. CASE UNCHANGED elementVars
      BY <1>1, <2>2, <3>1, SameElement
    <3>2. CASE Reset(FALSE)
      BY <2>2, <3>2, ResetMirrors DEF PlayerInv
    <3>3. QED
      BY <1>6, <3>1, <3>2 DEF Recovers
  <2> HIDE DEF e
  <2>4. QED
    BY <1>1, <1>2, <2>1, <2>2, <2>3, RunStep
<1>7. CASE Fails(r)
  <2>1. r = current /\ playing' \in BOOLEAN /\ MarkError(r, "failed")
    BY <1>1, <1>7 DEF Fails
  <2>2. UNCHANGED <<mounted, src, current, started, isPlaying, isMuted, paused, muted, tasks, switched, unheard>>
    BY <1>7 DEF Fails
  <2>3. QED
    BY <2>1, <2>2, MarkHolds
<1>8. QED
  BY <1>3, <1>4, <1>5, <1>6, <1>7

-----------------------------------------------------------------------------

(* Controls, the element and its mirror                                    *)

(* A step of the element or its controls: the effect is left alone, and    *)
(* nothing is said but that a play() was interrupted.                      *)
LEMMA ElementStep ==
  ASSUME PlayerInv, MirrorInv', UNCHANGED <<mounted, src, current, run, started>>,
         \/ status' = status /\ aborted' = aborted
         \/ status' = "error" /\ (aborted' = TRUE \/ (aborted' = FALSE /\ src = NoStream)),
         isPlaying' \in BOOLEAN, isMuted' \in BOOLEAN,
         paused' \in BOOLEAN, playing' \in BOOLEAN, muted' \in BOOLEAN,
         tasks' \in Seq(TaskKinds), Len(tasks') <= MaxTasks,
         switched' \in BOOLEAN, unheard' \in BOOLEAN
  PROVE  PlayerInv'
<1>1. /\ mounted \in BOOLEAN /\ src \in Sources \cup {NoStream}
      /\ started \in 0..MaxRuns /\ current \in 0..started /\ run \in [Runs -> RunRecord]
      /\ (current = 0) = (src = NoStream) /\ (src # NoStream => mounted)
  BY DEF PlayerInv, PlayerTypeOK
<1>2. /\ mounted' = mounted /\ src' = src /\ current' = current /\ run' = run /\ started' = started
  OBVIOUS
<1>3. status' \in {"idle", "loading", "ready", "error"} /\ aborted' \in BOOLEAN
  <2>1. status \in {"idle", "loading", "ready", "error"} /\ aborted \in BOOLEAN
    BY DEF PlayerInv, PlayerTypeOK
  <2>2. QED
    BY <2>1
<1>4. PlayerTypeOK'
  BY <1>1, <1>2, <1>3 DEF PlayerTypeOK, TaskKinds
<1>5. OneSource'
  BY <1>2 DEF PlayerInv, OneSource, Attached
<1>6. StatusIsOfThisSource'
  <2>1. CASE status' = status /\ aborted' = aborted
    BY <1>2, <2>1 DEF PlayerInv, StatusIsOfThisSource, Overlay
  <2>2. CASE status' = "error" /\ (aborted' = TRUE \/ (aborted' = FALSE /\ src = NoStream))
    BY <1>1, <1>2, <2>2 DEF StatusIsOfThisSource, Overlay
  <2>3. QED
    BY <2>1, <2>2
<1>7. QED
  BY <1>4, <1>5, <1>6 DEF PlayerInv

(* What an appended task leaves where it was.                              *)
LEMMA Appended ==
  ASSUME NEW q \in Seq(TaskKinds), NEW x \in TaskKinds, NEW p, p = Append(q, x)
  PROVE  /\ Len(q) \in Nat /\ Len(p) = Len(q) + 1 /\ p[Len(q) + 1] = x
         /\ \A i \in 1..Len(q) : p[i] = q[i]
  OBVIOUS

(* The element plays, or stops, and will say so.                           *)
LEMMA PlayTaskMirrors ==
  ASSUME MirrorInv, tasks \in Seq(TaskKinds), NEW x \in {"play", "pause", "abort"},
         tasks' = Append(tasks, x), paused' = (x # "play"),
         UNCHANGED <<isPlaying, isMuted, muted, switched, unheard>>
  PROVE  MirrorInv'
<1>1. /\ Len(tasks) \in Nat /\ Len(tasks') = Len(tasks) + 1 /\ tasks'[Len(tasks) + 1] = x
      /\ \A i \in 1..Len(tasks) : tasks'[i] = tasks[i]
  BY Appended DEF TaskKinds
<1>2. LastTaskTells'
  <2> SUFFICES ASSUME NEW i \in 1..Len(tasks'), tasks'[i] # "volume",
                      \A j \in (i + 1)..Len(tasks') : tasks'[j] = "volume"
               PROVE  (tasks'[i] = "play") = ~paused'
    BY DEF LastTaskTells
  <2>1. i = Len(tasks) + 1
    BY <1>1
  <2>2. QED
    BY <1>1, <2>1
<1>3. PlayIsShown'
  BY <1>1 DEF PlayIsShown
<1>4. VolumeIsShown'
  <2>1. (\A i \in 1..Len(tasks') : tasks'[i] # "volume") => \A i \in 1..Len(tasks) : tasks[i] # "volume"
    BY <1>1
  <2>2. QED
    BY <2>1 DEF MirrorInv, VolumeIsShown
<1>5. QED
  BY <1>2, <1>3, <1>4 DEF MirrorInv

(* The volume changes, and the element will say so.                        *)
LEMMA VolumeTaskMirrors ==
  ASSUME MirrorInv, tasks \in Seq(TaskKinds), tasks' = Append(tasks, "volume"),
         UNCHANGED <<isPlaying, isMuted, paused, switched, unheard>>
  PROVE  MirrorInv'
<1>1. /\ Len(tasks) \in Nat /\ Len(tasks') = Len(tasks) + 1 /\ tasks'[Len(tasks) + 1] = "volume"
      /\ \A i \in 1..Len(tasks) : tasks'[i] = tasks[i]
  BY Appended DEF TaskKinds
<1>2. LastTaskTells'
  <2> SUFFICES ASSUME NEW i \in 1..Len(tasks'), tasks'[i] # "volume",
                      \A j \in (i + 1)..Len(tasks') : tasks'[j] = "volume"
               PROVE  (tasks'[i] = "play") = ~paused'
    BY DEF LastTaskTells
  <2>1. i \in 1..Len(tasks) /\ tasks[i] # "volume" /\ tasks'[i] = tasks[i]
    BY <1>1
  <2>2. \A j \in (i + 1)..Len(tasks) : tasks[j] = "volume"
    BY <1>1
  <2>3. QED
    BY <2>1, <2>2 DEF MirrorInv, LastTaskTells
<1>3. PlayIsShown'
  <2>1. (\A i \in 1..Len(tasks') : tasks'[i] = "volume") => \A i \in 1..Len(tasks) : tasks[i] = "volume"
    BY <1>1
  <2>2. QED
    BY <2>1 DEF MirrorInv, PlayIsShown
<1>4. VolumeIsShown'
  BY <1>1 DEF VolumeIsShown
<1>5. QED
  BY <1>2, <1>3, <1>4 DEF MirrorInv

(* What the queue still holds when its first task is taken.                *)
LEMMA Taken ==
  ASSUME NEW q \in Seq(TaskKinds), q # <<>>, NEW p, p = Tail(q)
  PROVE  /\ Len(q) \in Nat /\ Len(q) >= 1 /\ Len(p) = Len(q) - 1 /\ Head(q) = q[1]
         /\ \A i \in 1..Len(p) : p[i] = q[i + 1]
  OBVIOUS

(* The element has said what it had to say first.                          *)
LEMMA EventMirrors ==
  ASSUME MirrorInv, tasks \in Seq(TaskKinds), Event
  PROVE  MirrorInv'
<1>1. /\ Len(tasks) \in Nat /\ Len(tasks) >= 1 /\ Len(tasks') = Len(tasks) - 1 /\ Head(tasks) = tasks[1]
      /\ \A i \in 1..Len(tasks') : tasks'[i] = tasks[i + 1]
  BY Taken DEF Event
<1>2. /\ paused' = paused /\ muted' = muted
      /\ isPlaying' = IF tasks[1] = "volume" THEN isPlaying ELSE tasks[1] = "play"
      /\ isMuted' = IF tasks[1] = "volume" THEN muted ELSE isMuted
      /\ switched' = (switched /\ tasks[1] = "volume")
      /\ unheard' = (unheard /\ tasks[1] # "volume")
  BY <1>1 DEF Event, Mirror
<1>3. LastTaskTells'
  <2> SUFFICES ASSUME NEW i \in 1..Len(tasks'), tasks'[i] # "volume",
                      \A j \in (i + 1)..Len(tasks') : tasks'[j] = "volume"
               PROVE  (tasks'[i] = "play") = ~paused'
    BY DEF LastTaskTells
  <2>1. i + 1 \in 1..Len(tasks) /\ tasks'[i] = tasks[i + 1]
    BY <1>1
  <2>2. \A j \in (i + 2)..Len(tasks) : tasks[j] = "volume"
    <3> SUFFICES ASSUME NEW j \in (i + 2)..Len(tasks) PROVE tasks[j] = "volume"
      OBVIOUS
    <3>1. j - 1 \in (i + 1)..Len(tasks') /\ j - 1 \in 1..Len(tasks') /\ (j - 1) + 1 = j
      BY <1>1
    <3>2. tasks'[j - 1] = tasks[(j - 1) + 1]
      BY <1>1, <3>1
    <3>3. QED
      BY <3>1, <3>2
  <2>3. (i + 1) + 1 = i + 2
    OBVIOUS
  <2>4. (tasks[i + 1] = "play") = ~paused
    BY <2>1, <2>2, <2>3 DEF MirrorInv, LastTaskTells
  <2>5. QED
    BY <1>2, <2>1, <2>4
<1>4. ASSUME NEW k \in {"volume"}, \A i \in 1..Len(tasks') : tasks'[i] = k
      PROVE  \A j \in 2..Len(tasks) : tasks[j] = k
  <2> SUFFICES ASSUME NEW j \in 2..Len(tasks) PROVE tasks[j] = k
    OBVIOUS
  <2>1. j - 1 \in 1..Len(tasks') /\ (j - 1) + 1 = j
    BY <1>1
  <2>2. tasks'[j - 1] = tasks[(j - 1) + 1]
    BY <1>1, <2>1
  <2>3. QED
    BY <1>4, <2>1, <2>2
<1>5. PlayIsShown'
  <2> SUFFICES ASSUME ~switched', \A i \in 1..Len(tasks') : tasks'[i] = "volume"
               PROVE  isPlaying' = ~paused'
    BY DEF PlayIsShown
  <2>1. \A j \in 2..Len(tasks) : tasks[j] = "volume"
    BY <1>4
  <2>2. CASE tasks[1] = "volume"
    <3>1. \A j \in 1..Len(tasks) : tasks[j] = "volume"
      BY <1>1, <2>1, <2>2
    <3>2. ~switched
      BY <1>2, <2>2
    <3>3. isPlaying = ~paused
      BY <3>1, <3>2 DEF MirrorInv, PlayIsShown
    <3>4. QED
      BY <1>2, <2>2, <3>3
  <2>3. CASE tasks[1] # "volume"
    <3>1. 1 \in 1..Len(tasks) /\ \A j \in (1 + 1)..Len(tasks) : tasks[j] = "volume"
      BY <1>1, <2>1
    <3>2. (tasks[1] = "play") = ~paused
      BY <2>3, <3>1 DEF MirrorInv, LastTaskTells
    <3>3. QED
      BY <1>2, <2>3, <3>2
  <2>4. QED
    BY <2>2, <2>3
<1>6. VolumeIsShown'
  <2> SUFFICES ASSUME ~unheard', \A i \in 1..Len(tasks') : tasks'[i] # "volume"
               PROVE  isMuted' = muted'
    BY DEF VolumeIsShown
  <2>1. CASE tasks[1] = "volume"
    BY <1>2, <2>1
  <2>2. CASE tasks[1] # "volume"
    <3>1. \A j \in 1..Len(tasks) : tasks[j] # "volume"
      <4> SUFFICES ASSUME NEW j \in 1..Len(tasks), j # 1 PROVE tasks[j] # "volume"
        BY <2>2
      <4>1. j - 1 \in 1..Len(tasks') /\ (j - 1) + 1 = j
        BY <1>1
      <4>2. tasks'[j - 1] = tasks[(j - 1) + 1]
        BY <1>1, <4>1
      <4>3. QED
        BY <4>1, <4>2
    <3>2. ~unheard
      BY <1>2, <2>2
    <3>3. isMuted = muted
      BY <3>1, <3>2 DEF MirrorInv, VolumeIsShown
    <3>4. QED
      BY <1>2, <2>2, <3>3
  <2>3. QED
    BY <2>1, <2>2
<1>7. QED
  BY <1>3, <1>5, <1>6 DEF MirrorInv

LEMMA TypesOfElement ==
  PlayerInv => /\ tasks \in Seq(TaskKinds) /\ Len(tasks) \in Nat /\ Len(tasks) <= MaxTasks
               /\ isPlaying \in BOOLEAN /\ isMuted \in BOOLEAN
               /\ paused \in BOOLEAN /\ playing \in BOOLEAN /\ muted \in BOOLEAN
               /\ switched \in BOOLEAN /\ unheard \in BOOLEAN
  BY DEF PlayerInv, PlayerTypeOK, TaskKinds

(* Play, pause and the end, which the element will tell of.                *)
LEMMA PlayTaskHolds ==
  ASSUME PlayerInv, NEW x \in {"play", "pause", "abort"}, CanQueue,
         tasks' = Append(tasks, x), paused' = (x # "play"), playing' \in BOOLEAN,
         UNCHANGED <<mounted, src, current, run, started, status, aborted,
                     isPlaying, isMuted, muted, switched, unheard>>
  PROVE  PlayerInv'
<1>1. MirrorInv'
  BY TypesOfElement, PlayTaskMirrors DEF PlayerInv
<1>2. tasks' \in Seq(TaskKinds) /\ Len(tasks') = Len(tasks) + 1
  BY TypesOfElement, QueueTyped DEF TaskKinds
<1>3. Len(tasks') <= MaxTasks
  BY <1>2, TypesOfElement, ConstantFacts DEF CanQueue
<1>4. /\ isPlaying' \in BOOLEAN /\ isMuted' \in BOOLEAN /\ paused' \in BOOLEAN
      /\ muted' \in BOOLEAN /\ switched' \in BOOLEAN /\ unheard' \in BOOLEAN
  BY TypesOfElement
<1>5. QED
  BY <1>1, <1>2, <1>3, <1>4, ElementStep

LEMMA ToggleMuteHolds == PlayerInv /\ ToggleMute => PlayerInv'
<1> SUFFICES ASSUME PlayerInv, ToggleMute PROVE PlayerInv'
  OBVIOUS
<1>1. /\ CanQueue /\ muted' = ~muted /\ tasks' = Append(tasks, "volume")
      /\ UNCHANGED <<mounted, src, current, run, started>>
      /\ status' = status /\ aborted' = aborted /\ isPlaying' = isPlaying /\ isMuted' = isMuted
      /\ paused' = paused /\ playing' = playing /\ switched' = switched /\ unheard' = unheard
  BY DEF ToggleMute, effectVars, shownVars
<1>2. MirrorInv'
  BY <1>1, TypesOfElement, VolumeTaskMirrors DEF PlayerInv
<1>3. tasks' \in Seq(TaskKinds) /\ Len(tasks') = Len(tasks) + 1
  BY <1>1, TypesOfElement, QueueTyped DEF TaskKinds
<1>4. Len(tasks') <= MaxTasks
  BY <1>1, <1>3, TypesOfElement, ConstantFacts DEF CanQueue
<1>5. /\ isPlaying' \in BOOLEAN /\ isMuted' \in BOOLEAN /\ paused' \in BOOLEAN /\ playing' \in BOOLEAN
      /\ muted' \in BOOLEAN /\ switched' \in BOOLEAN /\ unheard' \in BOOLEAN
  BY <1>1, TypesOfElement
<1>6. QED
  BY <1>1, <1>2, <1>3, <1>4, <1>5, ElementStep

LEMMA EventHolds == PlayerInv /\ Event => PlayerInv'
<1> SUFFICES ASSUME PlayerInv, Event PROVE PlayerInv'
  OBVIOUS
<1>1. MirrorInv'
  BY TypesOfElement, EventMirrors DEF PlayerInv
<1>2. /\ UNCHANGED <<mounted, src, current, run, started>>
      /\ paused' = paused /\ playing' = playing /\ muted' = muted
      /\ tasks # <<>> /\ tasks' = Tail(tasks)
  BY DEF Event, effectVars
<1>3. tasks' \in Seq(TaskKinds) /\ Len(tasks') <= MaxTasks
  BY <1>2, TypesOfElement, QueueTyped, ConstantFacts
<1>4. isPlaying' \in BOOLEAN /\ isMuted' \in BOOLEAN
  BY TypesOfElement DEF Event, Mirror
<1>5. switched' \in BOOLEAN /\ unheard' \in BOOLEAN
  BY DEF Event
<1>6. (status' = status /\ aborted' = aborted) \/ (status' = "error" /\ aborted' = TRUE)
  BY DEF Event, Rejected
<1>7. paused' \in BOOLEAN /\ playing' \in BOOLEAN /\ muted' \in BOOLEAN
  BY <1>2, TypesOfElement
<1>8. QED
  BY <1>1, <1>2, <1>3, <1>4, <1>5, <1>6, <1>7, ElementStep

LEMMA SameElementHolds ==
  ASSUME PlayerInv, UNCHANGED <<mounted, src, current, run, started>>,
         \/ status' = status /\ aborted' = aborted
         \/ status' = "error" /\ aborted' = FALSE /\ src = NoStream,
         UNCHANGED <<isPlaying, isMuted, paused, muted, tasks, switched, unheard>>, playing' \in BOOLEAN
  PROVE  PlayerInv'
<1>1. MirrorInv'
  BY SameMirrors DEF PlayerInv
<1>2. /\ isPlaying' \in BOOLEAN /\ isMuted' \in BOOLEAN /\ paused' \in BOOLEAN /\ muted' \in BOOLEAN
      /\ tasks' \in Seq(TaskKinds) /\ Len(tasks') <= MaxTasks
      /\ switched' \in BOOLEAN /\ unheard' \in BOOLEAN
  BY TypesOfElement
<1>3. QED
  BY <1>1, <1>2, ElementStep

LEMMA ControlHolds ==
  ASSUME PlayerInv,
         Play \/ Pause \/ PlayStarts \/ PlayEnds \/ ToggleMute \/ Event \/ RequestUnavailable
  PROVE  PlayerInv'
<1> USE DEF effectVars, shownVars, elementVars
<1>1. CASE Play
  <2>1. playing' \in BOOLEAN /\ paused' = ("play" # "play")
    BY <1>1 DEF Play
  <2>2. QED
    BY <1>1, <2>1, PlayTaskHolds DEF Play
<1>2. CASE Pause
  <2>1. /\ CanQueue /\ paused' = TRUE /\ playing' = FALSE
        /\ tasks' = Append(tasks, IF playing THEN "abort" ELSE "pause")
        /\ UNCHANGED <<mounted, src, current, run, started, status, aborted,
                       isPlaying, isMuted, muted, switched, unheard>>
    BY <1>2 DEF Pause
  <2>2. CASE playing
    <3>1. tasks' = Append(tasks, "abort") /\ paused' = ("abort" # "play")
      BY <2>1, <2>2
    <3>2. QED
      BY <2>1, <3>1, PlayTaskHolds
  <2>3. CASE ~playing
    <3>1. tasks' = Append(tasks, "pause") /\ paused' = ("pause" # "play")
      BY <2>1, <2>3
    <3>2. QED
      BY <2>1, <3>1, PlayTaskHolds
  <2>4. QED
    BY <2>2, <2>3
<1>3. CASE PlayStarts
  BY <1>3, SameElementHolds DEF PlayStarts
<1>4. CASE PlayEnds
  <2>1. /\ CanQueue /\ paused' = ("pause" # "play") /\ playing' = playing
        /\ tasks' = Append(tasks, "pause")
        /\ UNCHANGED <<mounted, src, current, run, started, status, aborted,
                       isPlaying, isMuted, muted, switched, unheard>>
    BY <1>4 DEF PlayEnds
  <2>2. playing' \in BOOLEAN
    BY <2>1, TypesOfElement
  <2>3. QED
    BY <2>1, <2>2, PlayTaskHolds
<1>5. CASE ToggleMute
  BY <1>5, ToggleMuteHolds
<1>6. CASE Event
  BY <1>6, EventHolds
<1>7. CASE RequestUnavailable
  <2>1. playing' \in BOOLEAN
    BY <1>7, TypesOfElement DEF RequestUnavailable
  <2>2. QED
    BY <1>7, <2>1, SameElementHolds DEF RequestUnavailable, PosterShown, SetStatus
<1>8. QED
  BY <1>1, <1>2, <1>3, <1>4, <1>5, <1>6, <1>7

-----------------------------------------------------------------------------

(* Theorems                                                                *)

LEMMA NextHolds == PlayerInv /\ [PlayerNext]_playerVars => PlayerInv'
<1> SUFFICES ASSUME PlayerInv, [PlayerNext]_playerVars PROVE PlayerInv'
  OBVIOUS
<1>1. ASSUME NEW s \in Sources \cup {NoStream}, Mount(s) \/ Rerender(s) PROVE PlayerInv'
  BY <1>1, MountHolds, RerenderHolds
<1>2. CASE Unmount
  BY <1>2, UnmountHolds
<1>3. ASSUME NEW r \in Runs, Imports(r) \/ ImportFails(r) \/ Loaded(r) \/ Recovers(r) \/ Fails(r)
      PROVE PlayerInv'
  BY <1>3, RunHolds
<1>4. CASE Play \/ Pause \/ PlayStarts \/ PlayEnds \/ ToggleMute \/ Event \/ RequestUnavailable
  BY <1>4, ControlHolds
<1>5. CASE UNCHANGED playerVars
  <2>1. /\ UNCHANGED <<mounted, src, current, run, started>>
        /\ UNCHANGED <<isPlaying, isMuted, paused, muted, tasks, switched, unheard>>
        /\ status' = status /\ aborted' = aborted /\ playing' = playing
    BY <1>5 DEF playerVars
  <2>2. playing' \in BOOLEAN
    BY <2>1, TypesOfElement
  <2>3. QED
    BY <2>1, <2>2, SameElementHolds
<1>6. QED
  BY <1>1, <1>2, <1>3, <1>4, <1>5 DEF PlayerNext

(* Whatever happens, the inductive invariant holds.                        *)
THEOREM PlayerHolds == PlayerSpec => []PlayerInv
  BY InitHolds, NextHolds, PTL DEF PlayerSpec

(* The player's state has the type its code gives it, and an effect's run  *)
(* is current exactly when there is a source (VideoPlayer.tsx, useEffect). *)
THEOREM PlayerTyped == PlayerSpec => []PlayerTypeOK
<1>1. PlayerInv => PlayerTypeOK
  BY DEF PlayerInv
<1>2. QED
  BY <1>1, PlayerHolds, PTL

(* However often the source changes while hls.js is being imported, only   *)
(* the current run has a source on the element.                            *)
THEOREM SourceIsOne == PlayerSpec => []OneSource
<1>1. PlayerInv => OneSource
  BY DEF PlayerInv
<1>2. QED
  BY <1>1, PlayerHolds, PTL

(* No run that is over speaks for the current one: "ready" is of a source  *)
(* that has loaded, an error of one that failed or of an interrupted play. *)
THEOREM StatusIsTold == PlayerSpec => []StatusIsOfThisSource
<1>1. PlayerInv => StatusIsOfThisSource
  BY DEF PlayerInv
<1>2. QED
  BY <1>1, PlayerHolds, PTL

(* Once the element has told all it had to tell, the controls show what it *)
(* does, except what the history says was lost with its source or volume.  *)
THEOREM ControlsFollow == PlayerSpec => []ControlsReflectReality
<1>1. PlayerInv => ControlsReflectReality
  <2> SUFFICES ASSUME PlayerInv, tasks = <<>>
               PROVE  (~switched => isPlaying = ~paused) /\ (~unheard => isMuted = muted)
    BY DEF ControlsReflectReality
  <2>1. Len(tasks) = 0
    OBVIOUS
  <2>2. (\A i \in 1..Len(tasks) : tasks[i] = "volume") /\ \A i \in 1..Len(tasks) : tasks[i] # "volume"
    BY <2>1
  <2>3. QED
    BY <2>2 DEF PlayerInv, MirrorInv, PlayIsShown, VolumeIsShown
<1>2. QED
  BY <1>1, PlayerHolds, PTL
=============================================================================
