------------------------------- MODULE Streamer -------------------------------
(***************************************************************************)
(* The preparation pipeline of tape-streamer (streamer/main.go).           *)
(*                                                                         *)
(* A scanner goroutine walks VIDEOS_DIR at start-up and on every tick, and *)
(* every accepted upload walks it once more from its own HTTP goroutine.   *)
(* A walk adopts videos that carry a .ready marker and queues the unknown  *)
(* ones; a pool of workers drains the queue and lets ffmpeg write the HLS  *)
(* renditions; after a tick's walk the scanner removes the caches whose    *)
(* source is gone.  Everything in memory is shared between these           *)
(* goroutines one registry operation at a time; the two directories are    *)
(* shared with them one file operation at a time, and survive a restart.   *)
(*                                                                         *)
(* An action is one access to that shared state together with the local    *)
(* work up to the next one.                                                *)
(***************************************************************************)
EXTENDS Integers, Sequences, FiniteSets

CONSTANTS
  Names,        \* video file names the scanner accepts (extension, safe segment)
  Contents,     \* what a complete source file can hold
  NQualities,   \* Len(qualities)
  Fits,         \* Fits[c]: the tiers not larger than a source with content c
  Workers,      \* the MAX_CONCURRENT worker goroutines
  Uploads,      \* the POST /videos requests of a behaviour, one goroutine each
  Ticker,       \* the scanner goroutine
  QueueCap,     \* capacity of the queue channel (1024 in newServer)
  Operations,   \* what happens around the service, see Environment below
  MaxOps,       \* bound: how many of those operations a behaviour has
  NoFile,       \* no such file or directory
  Half,         \* a file or a rendition that is not completely written
  NoName

Tiers == 1 .. NQualities
Scanners == {Ticker} \cup Uploads
File == Contents \cup {NoFile, Half}

ASSUME QueueCapAssumption == QueueCap \in Nat \ {0}
ASSUME QualitiesAssumption == NQualities \in Nat \ {0}
ASSUME FitsAssumption == Fits \in [Contents -> SUBSET Tiers]
ASSUME NamesAssumption == NoName \notin Names
ASSUME FileAssumption == NoFile \notin Contents /\ Half \notin Contents /\ NoFile # Half
ASSUME TickerAssumption == Ticker \notin Uploads
ASSUME OperationsAssumption ==
  Operations \subseteq {"add", "remove", "drop", "crash", "stop", "unreadable"}
ASSUME MaxOpsAssumption == MaxOps \in Nat

VARIABLES
  source,       \* VIDEOS_DIR: the file under each name
  temp,         \* VIDEOS_DIR/.upload-*: the temporary file of each upload
  rendition,    \* HLS_CACHE_DIR/<name>/<tier>: what the tier's directory holds
  marker,       \* HLS_CACHE_DIR/<name>/.ready: the tiers it lists, {} if absent
  writers,      \* the ffmpeg processes writing into a tier's present directory
  reg,          \* the registry; "unknown" stands for a name that is not a key
  queue,        \* the buffered channel of names to prepare
  scan,         \* the walk of VIDEOS_DIR (and the cleanup) each scanner is in
  worker,       \* the prepare call each worker is in
  upload,       \* the state of each upload request
  phase,        \* the process: running, told to stop, not running
  ops           \* how many environment operations have happened

disk == <<source, temp, rendition, marker>>
memory == <<writers, reg, queue, scan, worker, upload>>
vars == <<source, temp, rendition, marker, writers, reg, queue, scan, worker,
          upload, phase, ops>>

Status == {"unknown", "pending", "transcoding", "ready", "failed"}

(* A registry entry; Unknown is the absent one. *)
Entry(status, tiers) == [status |-> status, tiers |-> tiers]
Unknown == Entry("unknown", {})

IdleScan(at) == [at |-> at, todo |-> {}, name |-> NoName, tiers |-> {}, sweep |-> FALSE]
IdleWorker(at) ==
  [at |-> at, name |-> NoName, todo |-> {}, done |-> {}, tier |-> 0, reading |-> NoFile]

(* Slip: the fallback tier is taken at the index before the first. *)
ApplicableOffByOne(c) == IF Fits[c] = {} THEN {0} ELSE Fits[c]

(* The tiers prepare transcodes: those that fit, or the first one. *)
Applicable(c) == IF Fits[c] = {} THEN {1} ELSE Fits[c]

(* HLS_CACHE_DIR/<name> exists: a tier's directory or a marker is in it. *)
DirExists(n) == marker[n] # {} \/ \E q \in Tiers : rendition[n][q] # NoFile

(* os.RemoveAll(HLS_CACHE_DIR/<name>).  An ffmpeg that was writing there   *)
(* no longer writes into the directory a later MkdirAll creates.           *)
RemoveCache(n) ==
  /\ rendition' = [rendition EXCEPT ![n] = [q \in Tiers |-> NoFile]]
  /\ marker' = [marker EXCEPT ![n] = {}]
  /\ writers' = [writers EXCEPT ![n] = [q \in Tiers |-> {}]]

SetEntry(n, entry) == reg' = [reg EXCEPT ![n] = entry]

(* What a process start finds in memory: nothing known, an empty queue,    *)
(* idle workers, the scanner about to make its first walk.  Requests that  *)
(* were in flight are over.                                                *)
FreshReg == [n \in Names |-> Unknown]
FreshScan == [s \in Scanners |-> IdleScan(IF s = Ticker THEN "start" ELSE "idle")]
FreshWorker == [w \in Workers |-> IdleWorker("idle")]
NoWriters == [n \in Names |-> [q \in Tiers |-> {}]]

Init ==
  /\ source \in [Names -> Contents \cup {NoFile}]
  /\ temp = [u \in Uploads |-> NoFile]
  /\ rendition = [n \in Names |-> [q \in Tiers |-> NoFile]]
  /\ marker = [n \in Names |-> {}]
  /\ writers = NoWriters
  /\ reg = FreshReg
  /\ queue = <<>>
  /\ scan = FreshScan
  /\ worker = FreshWorker
  /\ upload = [u \in Uploads |-> [at |-> "new", name |-> NoName, data |-> NoFile, reply |-> "none"]]
  /\ phase = "up"
  /\ ops = 0

-----------------------------------------------------------------------------
(***************************************************************************)
(* scan(): the walk of VIDEOS_DIR, by the ticker or by an upload           *)
(***************************************************************************)

Goto(s, at) == scan' = [scan EXCEPT ![s].at = at]

(* os.ReadDir.  The walk that starts the scanner is not followed by a      *)
(* cleanup, the ones a tick starts are.  The entries are visited in an     *)
(* unspecified order (the code's is alphabetical).                         *)
ListSources(s) ==
  /\ phase # "down"
  /\ scan[s].at \in {"start", "wait"}
  /\ scan' = [scan EXCEPT ![s] = [@ EXCEPT !.at = "check",
                          !.todo = {n \in Names : source[n] # NoFile},
                          !.sweep = (scan[s].at = "wait")]]
  /\ UNCHANGED <<disk, writers, reg, queue, worker, upload, phase, ops>>

(* Slip: only finished videos count as known. *)
CheckKnownFinished(s) ==
  /\ scan[s].at = "check"
  /\ \E n \in scan[s].todo :
       scan' = [scan EXCEPT ![s] =
                  IF reg[n].status \notin {"ready", "failed"}
                  THEN [@ EXCEPT !.todo = scan[s].todo \ {n}, !.name = n, !.at = "marker"]
                  ELSE [@ EXCEPT !.todo = scan[s].todo \ {n}]]
  /\ UNCHANGED <<disk, writers, reg, queue, worker, upload, phase, ops>>

(* reg.get: a known name is skipped. *)
CheckKnown(s) ==
  /\ scan[s].at = "check"
  /\ \E n \in scan[s].todo :
       scan' = [scan EXCEPT ![s] =
                  IF reg[n].status = "unknown"
                  THEN [@ EXCEPT !.todo = scan[s].todo \ {n}, !.name = n, !.at = "marker"]
                  ELSE [@ EXCEPT !.todo = scan[s].todo \ {n}]]
  /\ UNCHANGED <<disk, writers, reg, queue, worker, upload, phase, ops>>

(* Slip: the marker is not looked at, everything unknown is queued. *)
ReadMarkerIgnored(s) ==
  /\ scan[s].at = "marker"
  /\ Goto(s, "mark")
  /\ UNCHANGED <<disk, writers, reg, queue, worker, upload, phase, ops>>

(* readMarker: adopt a completed cache, queue the video otherwise. *)
ReadMarker(s) ==
  /\ scan[s].at = "marker"
  /\ scan' = [scan EXCEPT ![s] = [@ EXCEPT !.at = IF marker[scan[s].name] # {} THEN "adopt" ELSE "mark",
                          !.tiers = marker[scan[s].name]]]
  /\ UNCHANGED <<disk, writers, reg, queue, worker, upload, phase, ops>>

NextEntry(s) == scan' = [scan EXCEPT ![s] = [@ EXCEPT !.at = "check", !.name = NoName, !.tiers = {}]]

Adopt(s) ==
  /\ scan[s].at = "adopt"
  /\ SetEntry(scan[s].name, Entry("ready", scan[s].tiers))
  /\ NextEntry(s)
  /\ UNCHANGED <<disk, writers, queue, worker, upload, phase, ops>>

MarkPending(s) ==
  /\ scan[s].at = "mark"
  /\ SetEntry(scan[s].name, Entry("pending", {}))
  /\ Goto(s, "enqueue")
  /\ UNCHANGED <<disk, writers, queue, worker, upload, phase, ops>>

(* select { case s.queue <- name: default: }: the send never blocks. *)
Enqueue(s) ==
  /\ scan[s].at = "enqueue"
  /\ Len(queue) < QueueCap
  /\ queue' = Append(queue, scan[s].name)
  /\ NextEntry(s)
  /\ UNCHANGED <<disk, writers, reg, worker, upload, phase, ops>>

(* Slip: the entry is not rolled back when the queue is full. *)
QueueFullKept(s) ==
  /\ scan[s].at = "enqueue"
  /\ Len(queue) >= QueueCap
  /\ NextEntry(s)
  /\ UNCHANGED <<disk, writers, reg, queue, worker, upload, phase, ops>>

QueueFull(s) ==
  /\ scan[s].at = "enqueue"
  /\ Len(queue) >= QueueCap
  /\ Goto(s, "rollback")
  /\ UNCHANGED <<disk, writers, reg, queue, worker, upload, phase, ops>>

RollBack(s) ==
  /\ scan[s].at = "rollback"
  /\ SetEntry(scan[s].name, Unknown)
  /\ NextEntry(s)
  /\ UNCHANGED <<disk, writers, queue, worker, upload, phase, ops>>

(* Slip: the scanner walks once and never waits for a tick. *)
EndScanForGood(s) ==
  /\ scan[s].at = "check"
  /\ scan[s].todo = {}
  /\ scan' = [scan EXCEPT ![s] = IdleScan(IF s # Ticker THEN "idle" ELSE "exited")]
  /\ UNCHANGED <<disk, writers, reg, queue, worker, upload, phase, ops>>

(* Slip: no cleanup follows the walk. *)
EndScanUnswept(s) ==
  /\ scan[s].at = "check"
  /\ scan[s].todo = {}
  /\ scan' = [scan EXCEPT ![s] = IdleScan(IF s # Ticker THEN "idle" ELSE "wait")]
  /\ UNCHANGED <<disk, writers, reg, queue, worker, upload, phase, ops>>

(* The end of a walk: an upload goes on to its reply, the scanner to the   *)
(* cleanup after a tick, to the next tick after the first walk.            *)
EndScan(s) ==
  /\ scan[s].at = "check"
  /\ scan[s].todo = {}
  /\ scan' = [scan EXCEPT ![s] = IdleScan(CASE s # Ticker -> "idle"
                                            [] s = Ticker /\ scan[s].sweep -> "sweep"
                                            [] OTHER -> "wait")]
  /\ UNCHANGED <<disk, writers, reg, queue, worker, upload, phase, ops>>

ScanStep(s) ==
  \/ ListSources(s) \/ CheckKnown(s) \/ ReadMarker(s) \/ Adopt(s) \/ MarkPending(s)
  \/ Enqueue(s) \/ QueueFull(s) \/ RollBack(s) \/ EndScan(s)

-----------------------------------------------------------------------------
(***************************************************************************)
(* cleanupOrphans(), by the scanner after a tick's walk                    *)
(***************************************************************************)

ListCache ==
  /\ scan[Ticker].at = "sweep"
  /\ scan' = [scan EXCEPT ![Ticker] = [@ EXCEPT !.at = "stat",
                          !.todo = {n \in Names : DirExists(n)}]]
  /\ UNCHANGED <<disk, writers, reg, queue, worker, upload, phase, ops>>

(* Slip: a video the registry knows is not an orphan. *)
StatSourceUnknown ==
  /\ scan[Ticker].at = "stat"
  /\ \E n \in scan[Ticker].todo :
       scan' = [scan EXCEPT ![Ticker] =
                  IF source[n] = NoFile /\ reg[n].status = "unknown"
                  THEN [@ EXCEPT !.todo = scan[Ticker].todo \ {n}, !.name = n, !.at = "purge"]
                  ELSE [@ EXCEPT !.todo = scan[Ticker].todo \ {n}]]
  /\ UNCHANGED <<disk, writers, reg, queue, worker, upload, phase, ops>>

StatSource ==
  /\ scan[Ticker].at = "stat"
  /\ \E n \in scan[Ticker].todo :
       scan' = [scan EXCEPT ![Ticker] =
                  IF source[n] = NoFile
                  THEN [@ EXCEPT !.todo = scan[Ticker].todo \ {n}, !.name = n, !.at = "purge"]
                  ELSE [@ EXCEPT !.todo = scan[Ticker].todo \ {n}]]
  /\ UNCHANGED <<disk, writers, reg, queue, worker, upload, phase, ops>>

PurgeCache ==
  /\ scan[Ticker].at = "purge"
  /\ RemoveCache(scan[Ticker].name)
  /\ Goto(Ticker, "forget")
  /\ UNCHANGED <<source, temp, reg, queue, worker, upload, phase, ops>>

Forget ==
  /\ scan[Ticker].at = "forget"
  /\ SetEntry(scan[Ticker].name, Unknown)
  /\ scan' = [scan EXCEPT ![Ticker] = [@ EXCEPT !.at = "stat", !.name = NoName]]
  /\ UNCHANGED <<disk, writers, queue, worker, upload, phase, ops>>

EndSweep ==
  /\ scan[Ticker].at = "stat"
  /\ scan[Ticker].todo = {}
  /\ scan' = [scan EXCEPT ![Ticker] = IdleScan("wait")]
  /\ UNCHANGED <<disk, writers, reg, queue, worker, upload, phase, ops>>

(* The scanner goroutine returns once it sees the cancelled context. *)
TickerExit ==
  /\ phase = "stopping"
  /\ scan[Ticker].at = "wait"
  /\ Goto(Ticker, "exited")
  /\ UNCHANGED <<disk, writers, reg, queue, worker, upload, phase, ops>>

TickerStep ==
  \/ ScanStep(Ticker) \/ ListCache \/ StatSource \/ PurgeCache \/ Forget
  \/ EndSweep \/ TickerExit

-----------------------------------------------------------------------------
(***************************************************************************)
(* The worker pool and prepare()                                           *)
(***************************************************************************)

(* A worker takes the head of the queue.  Once the context is cancelled    *)
(* the select may still choose the queue, or return.                       *)
Dequeue(w) ==
  /\ phase # "down"
  /\ worker[w].at = "idle"
  /\ queue # <<>>
  /\ worker' = [worker EXCEPT ![w] = [@ EXCEPT !.at = "picked", !.name = Head(queue)]]
  /\ queue' = Tail(queue)
  /\ UNCHANGED <<disk, writers, reg, scan, upload, phase, ops>>

WorkerExit(w) ==
  /\ phase = "stopping"
  /\ worker[w].at = "idle"
  /\ worker' = [worker EXCEPT ![w].at = "exited"]
  /\ UNCHANGED <<disk, writers, reg, queue, scan, upload, phase, ops>>

BeginPrepare(w) ==
  /\ worker[w].at = "picked"
  /\ SetEntry(worker[w].name, Entry("transcoding", {}))
  /\ worker' = [worker EXCEPT ![w].at = "probe"]
  /\ UNCHANGED <<disk, writers, queue, scan, upload, phase, ops>>

(* ffprobe succeeds.  Under a cancelled context it is not started or       *)
(* killed.                                                                 *)
ProbeOk(w) ==
  /\ phase = "up"
  /\ worker[w].at = "probe"
  /\ source[worker[w].name] \in Contents
  /\ worker' = [worker EXCEPT ![w] = [@ EXCEPT !.at = "clear",
                              !.todo = Applicable(source[worker[w].name])]]
  /\ UNCHANGED <<disk, writers, reg, queue, scan, upload, phase, ops>>

(* Then the partial cache of an earlier attempt goes.                      *)
ClearPartial(w) ==
  /\ worker[w].at = "clear"
  /\ RemoveCache(worker[w].name)
  /\ worker' = [worker EXCEPT ![w].at = "tiers"]
  /\ UNCHANGED <<source, temp, reg, queue, scan, upload, phase, ops>>

(* ffprobe may fail on any file: not a video, a timeout, a cancellation. *)
ProbeFails(w) ==
  /\ worker[w].at = "probe"
  /\ SetEntry(worker[w].name, Entry("failed", {}))
  /\ worker' = [worker EXCEPT ![w] = IdleWorker("idle")]
  /\ UNCHANGED <<disk, writers, queue, scan, upload, phase, ops>>

(* transcodeTier: MkdirAll, then ffmpeg opens the source and starts to     *)
(* (over)write the tier.  Tiers are taken in the order of qualities.       *)
StartTier(w) ==
  /\ worker[w].at = "tiers"
  /\ \E q \in worker[w].todo :
       /\ \A r \in worker[w].todo : q <= r
       /\ rendition' = [rendition EXCEPT ![worker[w].name][q] = Half]
       /\ writers' = [writers EXCEPT ![worker[w].name][q] = @ \cup {w}]
       /\ worker' = [worker EXCEPT ![w] = [@ EXCEPT !.at = "ffmpeg", !.tier = q,
                                   !.todo = worker[w].todo \ {q},
                                   !.reading = source[worker[w].name]]]
  /\ UNCHANGED <<source, temp, marker, reg, queue, scan, upload, phase, ops>>

(* ffmpeg exits with 0.  It read the file it opened, whatever happened to  *)
(* its name since, and it needs the tier's directory for its playlist.     *)
(* The rendition is whole if the directory is still the one ffmpeg started *)
(* in and nobody else is overwriting it.                                   *)
TierOk(w) ==
  LET n == worker[w].name
      q == worker[w].tier
  IN /\ phase = "up"
     /\ worker[w].at = "ffmpeg"
     /\ worker[w].reading \in Contents
     /\ rendition[n][q] # NoFile
     /\ rendition' = [rendition EXCEPT ![n][q] =
                        IF writers[n][q] = {w} THEN worker[w].reading ELSE Half]
     /\ writers' = [writers EXCEPT ![n][q] = @ \ {w}]
     /\ worker' = [worker EXCEPT ![w] = [@ EXCEPT !.at = "tiers", !.tier = 0,
                                 !.done = worker[w].done \cup {q}, !.reading = NoFile]]
     /\ UNCHANGED <<source, temp, marker, reg, queue, scan, upload, phase, ops>>

(* Slip: the half-done cache stays. *)
TierFailsDirty(w) ==
  /\ worker[w].at = "ffmpeg"
  /\ worker' = [worker EXCEPT ![w] = [@ EXCEPT !.at = "aborted", !.tier = 0, !.reading = NoFile]]
  /\ UNCHANGED <<disk, writers, reg, queue, scan, upload, phase, ops>>

(* ffmpeg, or the mkdir before it, fails, or is killed at the deadline or  *)
(* by the shutdown: no half-done cache stays behind.                       *)
TierFails(w) ==
  /\ worker[w].at = "ffmpeg"
  /\ RemoveCache(worker[w].name)
  /\ worker' = [worker EXCEPT ![w] = [@ EXCEPT !.at = "aborted", !.tier = 0, !.reading = NoFile]]
  /\ UNCHANGED <<source, temp, reg, queue, scan, upload, phase, ops>>

(* A deadline, or any error while the service runs. *)
ReportFailure(w) ==
  /\ worker[w].at = "aborted"
  /\ SetEntry(worker[w].name, Entry("failed", {}))
  /\ worker' = [worker EXCEPT ![w] = IdleWorker("idle")]
  /\ UNCHANGED <<disk, writers, queue, scan, upload, phase, ops>>

(* Slip: every cancelled transcode is taken for a shutdown. *)
LeaveAlways(w) ==
  /\ worker[w].at = "aborted"
  /\ worker' = [worker EXCEPT ![w] = IdleWorker("idle")]
  /\ UNCHANGED <<disk, writers, reg, queue, scan, upload, phase, ops>>

(* "server shutting down - leave as transcoding, next start retries" *)
LeaveCancelled(w) ==
  /\ phase = "stopping"
  /\ worker[w].at = "aborted"
  /\ worker' = [worker EXCEPT ![w] = IdleWorker("idle")]
  /\ UNCHANGED <<disk, writers, reg, queue, scan, upload, phase, ops>>

(* Slip: the marker is written after the first tier. *)
WriteMarkerEarly(w) ==
  /\ worker[w].at = "tiers"
  /\ worker[w].done # {}
  /\ \/ /\ DirExists(worker[w].name)
        /\ marker' = [marker EXCEPT ![worker[w].name] = worker[w].done]
     \/ UNCHANGED marker
  /\ worker' = [worker EXCEPT ![w].at = "marked"]
  /\ UNCHANGED <<source, temp, rendition, writers, reg, queue, scan, upload, phase, ops>>

(* .ready.tmp and its rename; the errors of both are ignored, and there is *)
(* one whenever the directory is gone.                                     *)
WriteMarker(w) ==
  /\ worker[w].at = "tiers"
  /\ worker[w].todo = {}
  /\ \/ /\ DirExists(worker[w].name)
        /\ marker' = [marker EXCEPT ![worker[w].name] = worker[w].done]
     \/ UNCHANGED marker
  /\ worker' = [worker EXCEPT ![w].at = "marked"]
  /\ UNCHANGED <<source, temp, rendition, writers, reg, queue, scan, upload, phase, ops>>

SetReady(w) ==
  /\ worker[w].at = "marked"
  /\ SetEntry(worker[w].name, Entry("ready", worker[w].done))
  /\ worker' = [worker EXCEPT ![w] = IdleWorker("idle")]
  /\ UNCHANGED <<disk, writers, queue, scan, upload, phase, ops>>

WorkerStep(w) ==
  \/ Dequeue(w) \/ WorkerExit(w) \/ BeginPrepare(w) \/ ProbeOk(w) \/ ProbeFails(w)
  \/ ClearPartial(w)
  \/ StartTier(w) \/ TierOk(w) \/ TierFails(w) \/ ReportFailure(w) \/ LeaveCancelled(w)
  \/ WriteMarker(w) \/ SetReady(w)

-----------------------------------------------------------------------------
(***************************************************************************)
(* handleUpload: POST /videos                                              *)
(***************************************************************************)

Answer(u, reply) ==
  upload' = [upload EXCEPT ![u] = [at |-> "done", name |-> @.name, data |-> NoFile,
                                   reply |-> reply]]

(* The name is taken if the file exists at this moment.  CreateTemp's file *)
(* starts with a dot and has no video extension: the scanner skips it.     *)
Receive(u) ==
  /\ phase # "down"
  /\ upload[u].at = "new"
  /\ \E n \in Names, c \in Contents :
       IF source[n] # NoFile
       THEN /\ upload' = [upload EXCEPT ![u] = [at |-> "done", name |-> n, data |-> NoFile,
                                                reply |-> "conflict"]]
            /\ UNCHANGED temp
       ELSE /\ upload' = [upload EXCEPT ![u] = [at |-> "copy", name |-> n, data |-> c,
                                                reply |-> "none"]]
            /\ temp' = [temp EXCEPT ![u] = Half]
  /\ UNCHANGED <<source, rendition, marker, writers, reg, queue, scan, worker, phase, ops>>

CopyDone(u) ==
  /\ upload[u].at = "copy"
  /\ temp' = [temp EXCEPT ![u] = upload[u].data]
  /\ upload' = [upload EXCEPT ![u].at = "rename"]
  /\ UNCHANGED <<source, rendition, marker, writers, reg, queue, scan, worker, phase, ops>>

(* Slip: the early return forgets os.Remove. *)
StoreFailsLeaky(u) ==
  /\ upload[u].at \in {"copy", "rename"}
  /\ Answer(u, "error")
  /\ UNCHANGED <<source, temp, rendition, marker, writers, reg, queue, scan, worker, phase, ops>>

(* The copy or the rename fails: the temporary file is removed. *)
StoreFails(u) ==
  /\ upload[u].at \in {"copy", "rename"}
  /\ temp' = [temp EXCEPT ![u] = NoFile]
  /\ Answer(u, "error")
  /\ UNCHANGED <<source, rendition, marker, writers, reg, queue, scan, worker, phase, ops>>

(* Slip: the file gets its name before all of it is there. *)
PublishEarly(u) ==
  /\ upload[u].at \in {"copy", "rename"}
  /\ source' = [source EXCEPT ![upload[u].name] = temp[u]]
  /\ temp' = [temp EXCEPT ![u] = NoFile]
  /\ upload' = [upload EXCEPT ![u].at = "scan"]
  /\ Goto(u, "start")
  /\ UNCHANGED <<rendition, marker, writers, reg, queue, worker, phase, ops>>

(* os.Rename replaces whatever is under the name now; then s.scan(). *)
Publish(u) ==
  /\ upload[u].at = "rename"
  /\ source' = [source EXCEPT ![upload[u].name] = temp[u]]
  /\ temp' = [temp EXCEPT ![u] = NoFile]
  /\ upload' = [upload EXCEPT ![u].at = "scan"]
  /\ Goto(u, "start")
  /\ UNCHANGED <<rendition, marker, writers, reg, queue, worker, phase, ops>>

(* 202 with the status the registry has now. *)
Respond(u) ==
  /\ upload[u].at = "scan"
  /\ scan[u].at = "idle"
  /\ Answer(u, reg[upload[u].name].status)
  /\ UNCHANGED <<disk, writers, reg, queue, scan, worker, phase, ops>>

UploadStep(u) ==
  Receive(u) \/ CopyDone(u) \/ StoreFails(u) \/ Publish(u) \/ ScanStep(u) \/ Respond(u)

-----------------------------------------------------------------------------
(***************************************************************************)
(* The process: shutdown, crash and start; and the operator's hands        *)
(***************************************************************************)

Happens(op) == op \in Operations /\ ops < MaxOps /\ ops' = ops + 1

(* Memory is lost, the directories stay.  A request in flight ends without *)
(* an answer and its temporary file, if any, is never removed.             *)
LoseMemory ==
  /\ writers' = NoWriters
  /\ reg' = FreshReg
  /\ queue' = <<>>
  /\ scan' = FreshScan
  /\ worker' = FreshWorker
  /\ upload' = [u \in Uploads |->
                  IF upload[u].at \in {"copy", "rename", "scan"}
                  THEN [upload[u] EXCEPT !.at = "done", !.data = NoFile, !.reply = "lost"]
                  ELSE upload[u]]
  /\ phase' = "down"
  /\ UNCHANGED disk

Crash ==
  /\ phase # "down"
  /\ Happens("crash")
  /\ LoseMemory

(* SIGINT or SIGTERM cancels the context of the workers and the scanner. *)
Stop ==
  /\ phase = "up"
  /\ Happens("stop")
  /\ phase' = "stopping"
  /\ UNCHANGED <<disk, memory>>

(* main returns when Shutdown has waited for the requests, at most 30      *)
(* seconds, and wg.Wait for the workers and the scanner.                   *)
Drained ==
  /\ \A w \in Workers : worker[w].at = "exited"
  /\ scan[Ticker].at = "exited"

Exit ==
  /\ phase = "stopping"
  /\ Drained
  /\ LoseMemory
  /\ UNCHANGED ops

Start ==
  /\ phase = "down"
  /\ phase' = "up"
  /\ UNCHANGED <<disk, memory, ops>>

(* An operator works on the two directories with the file system's tools. *)
AddSource ==
  /\ Happens("add")
  /\ \E n \in Names, c \in Contents :
       source[n] = NoFile /\ source' = [source EXCEPT ![n] = c]
  /\ UNCHANGED <<temp, rendition, marker, memory, phase>>

RemoveSource ==
  /\ Happens("remove")
  /\ \E n \in Names :
       source[n] # NoFile /\ source' = [source EXCEPT ![n] = NoFile]
  /\ UNCHANGED <<temp, rendition, marker, memory, phase>>

DropCache ==
  /\ Happens("drop")
  /\ \E n \in Names : DirExists(n) /\ RemoveCache(n)
  /\ UNCHANGED <<source, temp, reg, queue, scan, worker, upload, phase>>

(* ReadDir of VIDEOS_DIR fails: scan() returns at once. *)
SourcesUnreadable ==
  /\ phase # "down"
  /\ Happens("unreadable")
  /\ \E s \in Scanners :
       /\ scan[s].at \in {"start", "wait"}
       /\ scan' = [scan EXCEPT ![s] = IdleScan(CASE s # Ticker -> "idle"
                                                 [] s = Ticker /\ scan[s].at = "wait" -> "sweep"
                                                 [] OTHER -> "wait")]
  /\ UNCHANGED <<disk, writers, reg, queue, worker, upload, phase>>

Environment ==
  Crash \/ Stop \/ AddSource \/ RemoveSource \/ DropCache \/ SourcesUnreadable

Next ==
  \/ TickerStep
  \/ \E w \in Workers : WorkerStep(w)
  \/ \E u \in Uploads : UploadStep(u)
  \/ Exit
  \/ Start
  \/ Environment

Spec == Init /\ [][Next]_vars

(* The goroutines run: the ticker fires, a worker's ffmpeg ends at the      *)
(* latest at TRANSCODE_TIMEOUT, a walk in an upload's goroutine goes on, a *)
(* drained process exits.  A ticker told to stop may find both its cases   *)
(* ready; select picks one at random, so the exit is not passed over for   *)
(* ever (SF).  Nothing makes a client send the rest of its     *)
(* file (the server has no read timeout), nor an operator or the platform  *)
(* act: the other upload steps, Start and Environment are not fair.        *)
Fairness ==
  /\ WF_vars(TickerStep)
  /\ SF_vars(TickerExit)
  /\ \A w \in Workers : WF_vars(WorkerStep(w))
  /\ \A u \in Uploads : WF_vars(ScanStep(u) \/ Respond(u))
  /\ WF_vars(Exit)

FairSpec == Spec /\ Fairness

-----------------------------------------------------------------------------
(***************************************************************************)
(* Properties of the service whatever happens around it                    *)
(***************************************************************************)

ScanPoints == {"idle", "start", "check", "marker", "adopt", "mark", "enqueue",
               "rollback", "wait", "sweep", "stat", "purge", "forget", "exited"}
Preparing == {"probe", "clear", "tiers", "ffmpeg", "aborted", "marked"}
WorkerPoints == {"idle", "picked", "exited"} \cup Preparing

ScanRecord == [at : ScanPoints, todo : SUBSET Names, name : Names \cup {NoName},
               tiers : SUBSET Tiers, sweep : BOOLEAN]
WorkerRecord == [at : WorkerPoints, name : Names \cup {NoName}, todo : SUBSET Tiers,
                 done : SUBSET Tiers, tier : Tiers \cup {0}, reading : File]
UploadRecord == [at : {"new", "copy", "rename", "scan", "done"}, name : Names \cup {NoName},
                 data : File, reply : Status \cup {"none", "conflict", "error", "lost"}]
EntryRecord == [status : Status, tiers : SUBSET Tiers]

(* Every variable holds a value of the kind the code gives it. *)
TypeOK ==
  /\ source \in [Names -> File]
  /\ temp \in [Uploads -> File]
  /\ rendition \in [Names -> [Tiers -> File]]
  /\ marker \in [Names -> SUBSET Tiers]
  /\ writers \in [Names -> [Tiers -> SUBSET Workers]]
  /\ reg \in [Names -> EntryRecord]
  /\ queue \in Seq(Names)
  /\ scan \in [Scanners -> ScanRecord]
  /\ worker \in [Workers -> WorkerRecord]
  /\ upload \in [Uploads -> UploadRecord]
  /\ phase \in {"up", "stopping", "down"}
  /\ ops \in Nat

Queued(n) == \E i \in 1 .. Len(queue) : queue[i] = n
PreparedBy(w, n) == worker[w].name = n /\ worker[w].at \in Preparing

OnItsWay(n) ==
  \/ Queued(n)
  \/ \E s \in Scanners : scan[s].name = n /\ scan[s].at \in {"enqueue", "rollback"}
  \/ \E w \in Workers : worker[w].name = n /\ worker[w].at = "picked"

(* A video the registry calls pending is on its way to a worker: it is in  *)
(* the queue, or a walk is about to queue it or to take the entry back, or *)
(* a worker has just taken it.  No interleaving of two walks, the cleanup  *)
(* and the workers leaves a pending entry that nobody will look at again.  *)
PendingIsBacked == \A n \in Names : reg[n].status = "pending" => OnItsWay(n)

(* A video the registry calls transcoding has a worker on it, except in a  *)
(* process that is shutting down: no prepare returns without an outcome.   *)
TranscodingIsBacked ==
  \A n \in Names :
    reg[n].status = "transcoding" =>
      phase = "stopping" \/ \E w \in Workers : PreparedBy(w, n)

(* handleUpload's temporary file and rename (main.go:578): whoever reads   *)
(* VIDEOS_DIR finds under a video's name nothing or a complete file, also  *)
(* after a crash in the middle of an upload.                               *)
SourcesAreWhole == \A n \in Names : source[n] # Half

(* A temporary file belongs to an upload that is still storing it, or to   *)
(* one a crash cut off: no early return of handleUpload leaves one behind. *)
TempIsOwned ==
  \A u \in Uploads :
    temp[u] # NoFile => upload[u].at \in {"copy", "rename"} \/ upload[u].reply = "lost"

(* A video is not pending or transcoding for ever: the service decides, or *)
(* its process ends and forgets.                                           *)
PreparationEnds ==
  \A n \in Names :
    reg[n].status \in {"pending", "transcoding"} ~> reg[n].status \notin {"pending", "transcoding"}

(* A video that stays in VIDEOS_DIR of a service that stays up is in the   *)
(* end, and from then on, ready or failed, however small the queue is.     *)
PresentVideoIsDecided ==
  \A n \in Names :
    <>[](source[n] \in Contents /\ phase = "up") => <>[](reg[n].status \in {"ready", "failed"})

(* The cache of a video that is gone for good goes too, although a worker  *)
(* may still be writing it when the cleanup looks.                         *)
OrphanIsRemoved ==
  \A n \in Names :
    <>[](source[n] = NoFile /\ phase = "up") => <>[](~DirExists(n))

-----------------------------------------------------------------------------
(***************************************************************************)
(* Properties of the calm service: only the ticker walks VIDEOS_DIR (no    *)
(* uploads) and files are added but not removed.  Crashes, restarts and    *)
(* shutdowns are allowed at any point.                                     *)
(***************************************************************************)

Calm == Uploads = {} /\ Operations \subseteq {"add", "crash", "stop", "unreadable"}

(* startScanner (main.go:299): a video that is queued or in the hands of a *)
(* worker is not queued again, so no two ffmpegs write the same directory. *)
SingleOwner ==
  \A n \in Names :
    /\ \A i, j \in 1 .. Len(queue) : queue[i] = n /\ queue[j] = n => i = j
    /\ \A v, w \in Workers : worker[v].name = n /\ worker[w].name = n => v = w
    /\ Queued(n) => \A w \in Workers : worker[w].name # n

Whole(n, tiers) == \A q \in tiers : source[n] \in Contents /\ rendition[n][q] = source[n]

(* The .ready marker (streamer/README.md:137): whenever it exists, also    *)
(* after a crash, every applicable tier it lists is complete and made from *)
(* the source that is there.                                               *)
MarkerCertifies ==
  \A n \in Names :
    marker[n] # {} => marker[n] = Applicable(source[n]) /\ Whole(n, marker[n])

(* prepare's "don't leave a half-done cache" (main.go:410): of a video a   *)
(* process has started on, it leaves complete renditions only when it was  *)
(* told to stop and has drained.  (A crash does leave half-done ones, for  *)
(* the next prepare to clear.)                                             *)
DrainedIsClean ==
  Drained =>
    \A n \in Names, q \in Tiers :
      reg[n].status \in {"transcoding", "ready"} => rendition[n][q] # Half

(* The calm service keeps what its README promises of each video.          *)
Promise == INSTANCE Lifecycle WITH
             status <- [n \in Names |-> reg[n].status],
             durable <- {n \in Names : marker[n] # {}}
KeepsPromise == Promise!Spec
=============================================================================
