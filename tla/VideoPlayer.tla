----------------------------- MODULE VideoPlayer -----------------------------
(***************************************************************************)
(* The player of the site (VideoPlayer.tsx): a React component with an     *)
(* effect that attaches a source to a <video> element, in the browser or   *)
(* through hls.js, which it imports first; an effect that mirrors the      *)
(* element's state; and controls.  The effect runs again when the source   *)
(* changes, and what an earlier run has started may end later.  hls.js and *)
(* the element's own events are external.                                  *)
(***************************************************************************)
EXTENDS Naturals, Sequences, FiniteSets

CONSTANTS
  Sources,
  HlsSources,   \* those that need hls.js: playlists, where the browser plays none itself
  NoStream,     \* src = null
  MaxRuns,      \* bound: how often the effect runs
  MaxTasks      \* bound: how many events of the element are queued

ASSUME SourcesAssumption == HlsSources \subseteq Sources /\ NoStream \notin Sources
ASSUME RunsAssumption == MaxRuns \in Nat /\ MaxTasks \in Nat

Runs == 1..MaxRuns

VARIABLES
  mounted,
  src,
  status,
  isPlaying,    \* what the controls show
  isMuted,
  current,      \* the run of the effect that is not disposed, 0 if none
  run,
  started,      \* how many runs there were
  paused,       \* the element: paused, a play() that has not settled,
  playing,
  muted,
  tasks,        \* and its queued events; "abort": pause, and the play() rejects
  aborted,      \* history: the status is the error of an interrupted play()
  switched,     \* history: the source went while it played, or the queue with word of that
  unheard       \* history: the element went, or its queue, with word of its volume

playerVars ==
  <<mounted, src, status, isPlaying, isMuted, current, run, started, paused, playing, muted, tasks,
    aborted, switched, unheard>>

effectVars == <<mounted, src, current, run, started>>
elementVars == <<paused, playing, muted, tasks, switched, unheard>>
shownVars == <<isPlaying, isMuted>>

NoRun == [at |-> "none", recovered |-> FALSE]

PlayerInit ==
  /\ mounted = FALSE /\ src = NoStream /\ status = "idle" /\ isPlaying = FALSE /\ isMuted = FALSE
  /\ current = 0 /\ run = [r \in Runs |-> NoRun] /\ started = 0
  /\ paused = TRUE /\ playing = FALSE /\ muted = FALSE /\ tasks = <<>>
  /\ aborted = FALSE /\ switched = FALSE /\ unheard = FALSE

Attached(r) == run[r].at \in {"attached", "loaded", "failed"}

SetStatus(s) == status' = s /\ aborted' = FALSE

-----------------------------------------------------------------------------
(***************************************************************************)
(* The effect and its cleanup                                              *)
(***************************************************************************)

First(s) == [at |-> IF s \in HlsSources THEN "importing" ELSE "attached", recovered |-> FALSE]

(* Cleanup takes the source away, or finds none yet: then the import is    *)
(* left to see that it is too late.                                        *)
Cleaned(r) == IF run[r].at = "importing" THEN run[r] ELSE NoRun

(* The cleanup of the current run, then a new one for s.                   *)
Effect(s) ==
  /\ started' = IF s = NoStream THEN started ELSE started + 1
  /\ current' = IF s = NoStream THEN 0 ELSE started + 1
  /\ run' = [r \in Runs |->
       IF s # NoStream /\ r = started + 1 THEN First(s)
       ELSE IF r = current THEN Cleaned(r) ELSE run[r]]

CanRun(s) == s = NoStream \/ started < MaxRuns

Mount(s) ==
  /\ ~mounted /\ CanRun(s)
  /\ mounted' = TRUE /\ src' = s
  /\ Effect(s)
  /\ SetStatus(IF s = NoStream THEN "idle" ELSE "loading")
  /\ UNCHANGED <<shownVars, elementVars>>

IsQueued(kinds) == \E i \in 1..Len(tasks) : tasks[i] \in kinds

(* The element's load algorithm, which a source set on it and load() run:  *)
(* the events it has queued are discarded.                                 *)
Discard == tasks' = <<>>

(* A source is set on an element that has none: it plays or waits as it    *)
(* did, but nobody hears of what was queued.                               *)
Attach ==
  /\ Discard
  /\ switched' = (switched \/ IsQueued({"play", "pause", "abort"}))
  /\ unheard' = (unheard \/ IsQueued({"volume"}))
  /\ UNCHANGED <<paused, playing, muted>>

(* load() takes the source away, or the element goes: play() rejects, and  *)
(* no event tells of the pause.  Another element is not muted.             *)
Reset(goes) ==
  /\ Discard
  /\ paused' = TRUE /\ playing' = FALSE
  /\ muted' = (muted /\ ~goes)
  /\ switched' = (switched \/ ~paused \/ IsQueued({"play", "pause", "abort"}))
  /\ unheard' = (unheard \/ (goes /\ muted) \/ IsQueued({"volume"}))

(* The catch of play(), after the code that made it reject. *)
Rejected == status' = "error" /\ aborted' = TRUE

Resets(s) == (current # 0 /\ Attached(current)) \/ s = NoStream
Attaches(s) == s # NoStream /\ s \notin HlsSources
PlayRejects(s) ==
  \/ Resets(s) /\ playing
  \/ (Resets(s) \/ Attaches(s)) /\ IsQueued({"abort"})

(* Another src, or the same one and another isLive. *)
Rerender(s) ==
  /\ mounted /\ CanRun(s)
  /\ src # NoStream \/ s # NoStream
  /\ src' = s
  /\ Effect(s)
  /\ IF Resets(s) THEN Reset(s = NoStream)
     ELSE IF Attaches(s) THEN Attach ELSE UNCHANGED elementVars
  /\ IF PlayRejects(s) THEN Rejected
     ELSE IF s = NoStream THEN UNCHANGED <<status, aborted>>
     ELSE SetStatus("loading")
  /\ UNCHANGED <<mounted, shownVars>>

Unmount ==
  /\ mounted
  /\ mounted' = FALSE /\ src' = NoStream
  /\ Effect(NoStream)
  /\ SetStatus("idle")
  /\ isPlaying' = FALSE /\ isMuted' = FALSE
  /\ paused' = TRUE /\ playing' = FALSE /\ muted' = FALSE /\ tasks' = <<>>
  /\ switched' = FALSE /\ unheard' = FALSE

-----------------------------------------------------------------------------
(***************************************************************************)
(* What a run waits for                                                    *)
(***************************************************************************)

(* Slip: the import does not look whether it is too late. *)
ImportsAnyway(r) ==
  /\ run[r].at = "importing"
  /\ run' = [run EXCEPT ![r].at = "attached"]
  /\ UNCHANGED <<status, aborted, mounted, src, current, started, shownVars, elementVars>>

(* The import is there: too late, or the source is attached.  What was     *)
(* played before goes on once there is something to play.                  *)
Imports(r) ==
  /\ run[r].at = "importing"
  /\ IF r = current
     THEN /\ run' = [run EXCEPT ![r].at = "attached"]
          /\ Attach
          /\ IF IsQueued({"abort"}) THEN Rejected ELSE UNCHANGED <<status, aborted>>
     ELSE run' = [run EXCEPT ![r] = NoRun] /\ UNCHANGED <<status, aborted, elementVars>>
  /\ UNCHANGED <<mounted, src, current, started, shownVars>>

(* Slip: an earlier run's failure is shown, too. *)
MarksError(r, at) == run' = [run EXCEPT ![r] = NoRun] /\ SetStatus("error")

(* Slip: the run ends, and nobody is told. *)
MarkNothing(r, at) ==
  /\ run' = [run EXCEPT ![r] = IF r = current THEN [run[r] EXCEPT !.at = at] ELSE NoRun]
  /\ UNCHANGED <<status, aborted>>

(* markError. *)
MarkError(r, at) ==
  IF r = current THEN run' = [run EXCEPT ![r].at = at] /\ SetStatus("error")
  ELSE run' = [run EXCEPT ![r] = NoRun] /\ UNCHANGED <<status, aborted>>

(* It fails, or hls.js is not supported: there is nothing to clean up.     *)
ImportFails(r) ==
  /\ run[r].at = "importing"
  /\ MarkError(r, "none")
  /\ UNCHANGED <<mounted, src, current, started, shownVars, elementVars>>

(* MANIFEST_PARSED or loadedmetadata: markReady. *)
Loaded(r) ==
  /\ run[r].at = "attached"
  /\ run' = [run EXCEPT ![r].at = "loaded"]
  /\ SetStatus("ready")
  /\ UNCHANGED <<mounted, src, current, started, shownVars, elementVars>>

(* The first fatal network or media error: hls.js is asked to go on; after *)
(* a media error it takes its source off the element and sets it anew.     *)
Recovers(r) ==
  /\ run[r].at \in {"attached", "loaded"}
  /\ src \in HlsSources /\ ~run[r].recovered
  /\ run' = [run EXCEPT ![r].recovered = TRUE]
  /\ \/ UNCHANGED <<status, aborted, elementVars>>
     \/ /\ Reset(FALSE)
        /\ IF playing \/ IsQueued({"abort"}) THEN Rejected ELSE UNCHANGED <<status, aborted>>
  /\ UNCHANGED <<mounted, src, current, started, shownVars>>

(* A fatal error of another kind, or another one; the element's error: a   *)
(* play() that waits may be told of it.                                    *)
Fails(r) ==
  /\ run[r].at \in {"attached", "loaded"}
  /\ MarkError(r, "failed")
  /\ playing' = playing \/ (src \notin HlsSources /\ playing' = FALSE)
  /\ UNCHANGED <<mounted, src, current, started, shownVars, paused, muted, tasks, switched, unheard>>

-----------------------------------------------------------------------------
(***************************************************************************)
(* Controls, the element and its mirror                                    *)
(***************************************************************************)

CanQueue == Len(tasks) < MaxTasks

(* togglePlay.  play() settles later, or is refused at once where the      *)
(* element has failed, which changes nothing: the error is shown already.  *)
(* pause() queues the rejection of a play() that has not settled.          *)
Play ==
  /\ mounted /\ src # NoStream /\ paused /\ CanQueue
  /\ paused' = FALSE
  /\ playing' = TRUE
  /\ tasks' = Append(tasks, "play")
  /\ UNCHANGED <<effectVars, status, shownVars, aborted, muted, switched, unheard>>

Pause ==
  /\ mounted /\ src # NoStream /\ ~paused /\ CanQueue
  /\ paused' = TRUE
  /\ playing' = FALSE
  /\ tasks' = Append(tasks, IF playing THEN "abort" ELSE "pause")
  /\ UNCHANGED <<effectVars, status, shownVars, aborted, muted, switched, unheard>>

(* There is something to play; play() resolves. *)
PlayStarts ==
  /\ playing /\ current # 0 /\ run[current].at \in {"loaded", "failed"}
  /\ playing' = FALSE
  /\ UNCHANGED <<effectVars, status, shownVars, paused, muted, tasks, aborted, switched, unheard>>

(* The end: the element pauses itself. *)
PlayEnds ==
  /\ ~paused /\ ~playing /\ current # 0 /\ run[current].at = "loaded" /\ CanQueue
  /\ paused' = TRUE
  /\ tasks' = Append(tasks, "pause")
  /\ UNCHANGED <<effectVars, status, shownVars, playing, aborted, muted, switched, unheard>>

(* They are not there without a stream, nor beside the error. *)
ControlsShown == mounted /\ src # NoStream /\ status # "error"

(* toggleMute. *)
ToggleMute ==
  /\ ControlsShown /\ CanQueue
  /\ muted' = ~muted
  /\ tasks' = Append(tasks, "volume")
  /\ UNCHANGED <<effectVars, status, shownVars, paused, playing, aborted, switched, unheard>>

(* Slip: nobody listens to pause. *)
MirrorPlay(task) ==
  /\ isPlaying' = (isPlaying \/ task = "play")
  /\ isMuted' = IF task = "volume" THEN muted ELSE isMuted

(* onPlay and onPause say what happened, onVolume what is. *)
Mirror(task) ==
  /\ isPlaying' = IF task = "volume" THEN isPlaying ELSE task = "play"
  /\ isMuted' = IF task = "volume" THEN muted ELSE isMuted

(* The mirror, and the catch of play(). *)
Event ==
  /\ tasks # <<>>
  /\ tasks' = Tail(tasks)
  /\ Mirror(Head(tasks))
  /\ switched' = (switched /\ Head(tasks) = "volume")
  /\ unheard' = (unheard /\ Head(tasks) # "volume")
  /\ IF Head(tasks) = "abort" THEN Rejected
     ELSE UNCHANGED <<status, aborted>>
  /\ UNCHANGED <<effectVars, paused, playing, muted>>

(* Poster and play button in the element's place. *)
PosterShown == mounted /\ src = NoStream

(* Play is pressed where there is no stream. *)
RequestUnavailable ==
  /\ PosterShown
  /\ SetStatus("error")
  /\ UNCHANGED <<effectVars, shownVars, elementVars>>

(* What is laid over the picture. *)
Overlay == IF mounted /\ status \in {"loading", "error"} THEN status ELSE "none"

PlayerNext ==
  \/ \E s \in Sources \cup {NoStream} : Mount(s) \/ Rerender(s)
  \/ Unmount
  \/ \E r \in Runs : Imports(r) \/ ImportFails(r) \/ Loaded(r) \/ Recovers(r) \/ Fails(r)
  \/ Play \/ Pause \/ PlayStarts \/ PlayEnds \/ ToggleMute \/ Event \/ RequestUnavailable

PlayerSpec == PlayerInit /\ [][PlayerNext]_playerVars

(* An import settles, and the source answers: metadata or an error, once;  *)
(* after an error that it was asked to recover from, hls.js may be silent. *)
SourceSpeaks(r) == Loaded(r) \/ Recovers(r) \/ (~run[r].recovered /\ Fails(r))

SourcesAnswer ==
  /\ \A r \in Runs : WF_playerVars(Imports(r) \/ ImportFails(r))
  /\ \A r \in Runs : WF_playerVars(run[r].at = "attached" /\ ~run[r].recovered /\ SourceSpeaks(r))

FairPlayer == PlayerSpec /\ SourcesAnswer

-----------------------------------------------------------------------------
(***************************************************************************)
(* Properties                                                              *)
(***************************************************************************)

RunRecord == [at : {"none", "importing", "attached", "loaded", "failed"}, recovered : BOOLEAN]

(* The effect's runs, one of them current where there is a source to       *)
(* attach, and the element's queue (VideoPlayer.tsx, useEffect).           *)
PlayerTypeOK ==
  /\ mounted \in BOOLEAN
  /\ src \in Sources \cup {NoStream}
  /\ status \in {"idle", "loading", "ready", "error"}
  /\ isPlaying \in BOOLEAN /\ isMuted \in BOOLEAN
  /\ started \in 0..MaxRuns /\ current \in 0..started
  /\ (current = 0) = (src = NoStream) /\ (src # NoStream => mounted)
  /\ run \in [Runs -> RunRecord]
  /\ paused \in BOOLEAN /\ playing \in BOOLEAN /\ muted \in BOOLEAN
  /\ tasks \in Seq({"play", "pause", "abort", "volume"}) /\ Len(tasks) <= MaxTasks
  /\ aborted \in BOOLEAN /\ switched \in BOOLEAN /\ unheard \in BOOLEAN

(* Only the current run has a source on the element: an import that comes  *)
(* after its run was disposed attaches nothing, not even to a player that  *)
(* has gone (VideoPlayer.tsx, "if (disposed) return").                     *)
OneSource ==
  \A r \in Runs : Attached(r) => r = current /\ mounted

(* What the player says is true of the source it has: ready when that one  *)
(* has loaded, broken when that one has failed, or when the viewer paused  *)
(* or the source changed while play() had not settled.  No run that is     *)
(* over speaks for the current one (markReady, markError).                 *)
StatusIsOfThisSource ==
  mounted /\ src # NoStream =>
    /\ current # 0
    /\ status = "ready" => run[current].at = "loaded"
    /\ Overlay = "error" => aborted \/ run[current].at \in {"failed", "none"}

(* "Mirror media element state into React so controls reflect reality"     *)
(* (VideoPlayer.tsx:124): so they do when the element has told all, unless *)
(* a source that came or went took word of its playing or of its volume    *)
(* along and it has said nothing of that since.                            *)
ControlsReflectReality ==
  mounted /\ tasks = <<>> =>
    /\ ~switched => isPlaying = ~paused
    /\ ~unheard => isMuted = muted

(* A player with a stream does not say "Loading" for ever, unless hls.js   *)
(* says nothing after an error it was asked to recover from.               *)
LoadingEnds ==
  (src # NoStream /\ Overlay = "loading") ~>
    (src = NoStream \/ Overlay # "loading" \/ run[current].recovered)
=============================================================================
