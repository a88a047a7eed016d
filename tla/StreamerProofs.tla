---------------------------- MODULE StreamerProofs ----------------------------
(***************************************************************************)
(* Theorems about the preparation pipeline for every number of names,      *)
(* contents, tiers, workers, uploads and queue places.                     *)
(***************************************************************************)
EXTENDS Streamer, TLAPS

AtName == {"marker", "adopt", "mark", "enqueue", "rollback", "purge", "forget"}

(* Where a goroutine stands tells which of its fields are set.  TypeOK is   *)
(* not inductive without it: marker[scan[s].name], for one, needs a name.   *)
Located ==
  /\ \A s \in Scanners : scan[s].at \in AtName => scan[s].name \in Names
  /\ \A w \in Workers : worker[w].at \notin {"idle", "exited"} => worker[w].name \in Names
  /\ \A w \in Workers : worker[w].at = "ffmpeg" => worker[w].tier \in Tiers
  /\ \A u \in Uploads : upload[u].at \in {"copy", "rename", "scan"} => upload[u].name \in Names
  /\ \A u \in Uploads : upload[u].at = "copy" => upload[u].data \in Contents
  /\ \A u \in Uploads : upload[u].at = "rename" => temp[u] \in Contents
  /\ SourcesAreWhole

TypeInv == TypeOK /\ Located

-----------------------------------------------------------------------------

(* Every source fits some tier, the first one if need be. *)
LEMMA ApplicableType ==
  ASSUME NEW c \in Contents PROVE Applicable(c) \in SUBSET Tiers
  BY QualitiesAssumption, FitsAssumption DEF Applicable, Tiers

(* The empty cache directory has the type of a cache directory. *)
LEMMA RemoveCacheType ==
  ASSUME TypeOK, NEW n, RemoveCache(n)
  PROVE  /\ rendition' \in [Names -> [Tiers -> File]]
         /\ marker' \in [Names -> SUBSET Tiers]
         /\ writers' \in [Names -> [Tiers -> SUBSET Workers]]
<1>1. [q \in Tiers |-> NoFile] \in [Tiers -> File]
  BY DEF File
<1>2. [q \in Tiers |-> {}] \in [Tiers -> SUBSET Workers]
  OBVIOUS
<1>3. QED
  BY <1>1, <1>2 DEF TypeOK, RemoveCache

LEMMA InitTyped == Init => TypeInv
<1> SUFFICES ASSUME Init PROVE TypeInv
  OBVIOUS
<1>1. TypeOK
  <2>1. FreshScan \in [Scanners -> ScanRecord]
    BY DEF FreshScan, IdleScan, ScanRecord, ScanPoints
  <2>2. FreshWorker \in [Workers -> WorkerRecord]
    BY DEF FreshWorker, IdleWorker, WorkerRecord, WorkerPoints, File
  <2>3. upload \in [Uploads -> UploadRecord]
    BY DEF Init, UploadRecord, File
  <2>4. FreshReg \in [Names -> EntryRecord]
    BY DEF FreshReg, Unknown, Entry, EntryRecord, Status
  <2>5. QED
    BY <2>1, <2>2, <2>3, <2>4 DEF Init, TypeOK, File, NoWriters
<1>2. Located
  BY FileAssumption DEF Init, Located, SourcesAreWhole, FreshScan, FreshWorker, IdleScan,
     IdleWorker, AtName
<1>3. QED
  BY <1>1, <1>2 DEF TypeInv

(* A goroutine that scans keeps the types when its record keeps its own. *)
ScanTyped(r) == r \in ScanRecord /\ (r.at \in AtName => r.name \in Names)

LEMMA ScanUpdate ==
  ASSUME TypeInv, NEW s \in Scanners, NEW r, ScanTyped(r),
         scan' = [scan EXCEPT ![s] = r]
  PROVE  /\ scan' \in [Scanners -> ScanRecord]
         /\ \A t \in Scanners : scan'[t].at \in AtName => scan'[t].name \in Names
  BY DEF TypeInv, TypeOK, Located, ScanTyped

LEMMA EntryUpdate ==
  ASSUME TypeInv, NEW n, NEW e \in EntryRecord, SetEntry(n, e)
  PROVE  reg' \in [Names -> EntryRecord]
  BY DEF TypeInv, TypeOK, SetEntry

LEMMA ScanFrame ==
  ASSUME TypeInv,
         UNCHANGED <<source, temp, rendition, marker, writers, worker, upload, phase, ops>>,
         reg' \in [Names -> EntryRecord],
         queue' \in Seq(Names),
         scan' \in [Scanners -> ScanRecord],
         \A t \in Scanners : scan'[t].at \in AtName => scan'[t].name \in Names
  PROVE  TypeInv'
<1>1. TypeOK'
  BY DEF TypeInv, TypeOK
<1>2. Located'
  BY DEF TypeInv, Located, SourcesAreWhole
<1>3. QED
  BY <1>1, <1>2 DEF TypeInv

(* A walk of VIDEOS_DIR keeps the types. *)
LEMMA ScanStepTyped ==
  ASSUME TypeInv, NEW s \in Scanners, ScanStep(s)
  PROVE  TypeInv'
<1>1. ScanTyped(scan[s])
  BY DEF TypeInv, TypeOK, Located, ScanTyped
<1>2. UNCHANGED <<source, temp, rendition, marker, writers, worker, upload, phase, ops>>
  BY DEF ScanStep, ListSources, CheckKnown, ReadMarker, Adopt, MarkPending, Enqueue,
         QueueFull, RollBack, EndScan, disk
<1>3. PICK r : ScanTyped(r) /\ scan' = [scan EXCEPT ![s] = r]
  <2> USE <1>1 DEF ScanTyped, ScanRecord, ScanPoints, AtName
  <2>1. CASE ListSources(s)
    <3>1. ScanTyped([scan[s] EXCEPT !.at = "check", !.todo = {n \in Names : source[n] # NoFile},
                                    !.sweep = (scan[s].at = "wait")])
      OBVIOUS
    <3>2. QED
      BY <2>1, <3>1 DEF ListSources
  <2>2. CASE CheckKnown(s)
    <3>1. PICK n \in scan[s].todo :
            scan' = [scan EXCEPT ![s] =
                       IF reg[n].status = "unknown"
                       THEN [@ EXCEPT !.todo = scan[s].todo \ {n}, !.name = n, !.at = "marker"]
                       ELSE [@ EXCEPT !.todo = scan[s].todo \ {n}]]
      BY <2>2 DEF CheckKnown
    <3>2. ScanTyped(IF reg[n].status = "unknown"
                    THEN [scan[s] EXCEPT !.todo = scan[s].todo \ {n}, !.name = n, !.at = "marker"]
                    ELSE [scan[s] EXCEPT !.todo = scan[s].todo \ {n}])
      OBVIOUS
    <3> HIDE DEF ScanTyped, ScanRecord, ScanPoints, AtName
    <3>3. QED
      BY <3>1, <3>2
  <2>3. CASE ReadMarker(s)
    <3>1. marker[scan[s].name] \in SUBSET Tiers
      BY <2>3 DEF ReadMarker, TypeInv, TypeOK
    <3>2. ScanTyped([scan[s] EXCEPT !.at = IF marker[scan[s].name] # {} THEN "adopt" ELSE "mark",
                                    !.tiers = marker[scan[s].name]])
      BY <2>3, <3>1 DEF ReadMarker
    <3>3. QED
      BY <2>3, <3>2 DEF ReadMarker
  <2>4. CASE Adopt(s) \/ Enqueue(s) \/ RollBack(s)
    <3>1. ScanTyped([scan[s] EXCEPT !.at = "check", !.name = NoName, !.tiers = {}])
      OBVIOUS
    <3>2. QED
      BY <2>4, <3>1 DEF Adopt, Enqueue, RollBack, NextEntry
  <2>5. CASE MarkPending(s)
    <3>1. ScanTyped([scan[s] EXCEPT !.at = "enqueue"])
      BY <2>5 DEF MarkPending
    <3>2. QED
      BY <2>5, <3>1 DEF MarkPending, Goto
  <2>6. CASE QueueFull(s)
    <3>1. ScanTyped([scan[s] EXCEPT !.at = "rollback"])
      BY <2>6 DEF QueueFull
    <3>2. QED
      BY <2>6, <3>1 DEF QueueFull, Goto
  <2>7. CASE EndScan(s)
    <3>1. \A at \in {"idle", "sweep", "wait"} : ScanTyped(IdleScan(at))
      BY DEF IdleScan
    <3>2. QED
      BY <2>7, <3>1 DEF EndScan
  <2>8. QED
    BY <2>1, <2>2, <2>3, <2>4, <2>5, <2>6, <2>7 DEF ScanStep
<1>4. reg' \in [Names -> EntryRecord]
  <2>1. CASE Adopt(s)
    <3>1. Entry("ready", scan[s].tiers) \in EntryRecord
      BY <1>1 DEF ScanTyped, ScanRecord, Entry, EntryRecord, Status
    <3>2. QED
      BY <2>1, <3>1, EntryUpdate DEF Adopt
  <2>2. CASE MarkPending(s) \/ RollBack(s)
    <3>1. Entry("pending", {}) \in EntryRecord /\ Unknown \in EntryRecord
      BY DEF Entry, Unknown, EntryRecord, Status
    <3>2. QED
      BY <2>2, <3>1, EntryUpdate DEF MarkPending, RollBack
  <2>3. CASE UNCHANGED reg
    BY <2>3 DEF TypeInv, TypeOK
  <2>4. QED
    BY <2>1, <2>2, <2>3 DEF ScanStep, ListSources, CheckKnown, ReadMarker, Enqueue, QueueFull, EndScan
<1>5. queue' \in Seq(Names)
  <2>1. CASE Enqueue(s)
    <3>1. scan[s].name \in Names /\ queue \in Seq(Names)
      BY <2>1, <1>1 DEF Enqueue, ScanTyped, AtName, TypeInv, TypeOK
    <3>2. QED
      BY <2>1, <3>1 DEF Enqueue
  <2>2. CASE UNCHANGED queue
    BY <2>2 DEF TypeInv, TypeOK
  <2>3. QED
    BY <2>1, <2>2 DEF ScanStep, ListSources, CheckKnown, ReadMarker, Adopt, MarkPending,
       QueueFull, RollBack, EndScan
<1>6. QED
  BY <1>2, <1>3, <1>4, <1>5, ScanUpdate, ScanFrame

(* So does the cleanup that follows a tick's walk. *)
LEMMA CleanupTyped ==
  ASSUME TypeInv, ListCache \/ StatSource \/ PurgeCache \/ Forget \/ EndSweep \/ TickerExit
  PROVE  TypeInv'
<1>1. Ticker \in Scanners
  BY DEF Scanners
<1>2. ScanTyped(scan[Ticker])
  BY <1>1 DEF TypeInv, TypeOK, Located, ScanTyped
<1>3. PICK r : ScanTyped(r) /\ scan' = [scan EXCEPT ![Ticker] = r]
  <2> USE <1>2 DEF ScanTyped, ScanRecord, ScanPoints, AtName
  <2>1. CASE ListCache
    <3>1. ScanTyped([scan[Ticker] EXCEPT !.at = "stat", !.todo = {n \in Names : DirExists(n)}])
      OBVIOUS
    <3>2. QED
      BY <2>1, <3>1 DEF ListCache
  <2>2. CASE StatSource
    <3>1. PICK n \in scan[Ticker].todo :
            scan' = [scan EXCEPT ![Ticker] =
                       IF source[n] = NoFile
                       THEN [@ EXCEPT !.todo = scan[Ticker].todo \ {n}, !.name = n, !.at = "purge"]
                       ELSE [@ EXCEPT !.todo = scan[Ticker].todo \ {n}]]
      BY <2>2 DEF StatSource
    <3>2. ScanTyped(IF source[n] = NoFile
                    THEN [scan[Ticker] EXCEPT !.todo = scan[Ticker].todo \ {n}, !.name = n, !.at = "purge"]
                    ELSE [scan[Ticker] EXCEPT !.todo = scan[Ticker].todo \ {n}])
      OBVIOUS
    <3> HIDE DEF ScanTyped, ScanRecord, ScanPoints, AtName
    <3>3. QED
      BY <3>1, <3>2
  <2>3. CASE PurgeCache
    <3>1. ScanTyped([scan[Ticker] EXCEPT !.at = "forget"])
      BY <2>3 DEF PurgeCache
    <3>2. QED
      BY <2>3, <3>1 DEF PurgeCache, Goto
  <2>4. CASE Forget
    <3>1. ScanTyped([scan[Ticker] EXCEPT !.at = "stat", !.name = NoName])
      OBVIOUS
    <3>2. QED
      BY <2>4, <3>1 DEF Forget
  <2>5. CASE EndSweep
    <3>1. ScanTyped(IdleScan("wait"))
      BY DEF IdleScan
    <3>2. QED
      BY <2>5, <3>1 DEF EndSweep
  <2>6. CASE TickerExit
    <3>1. ScanTyped([scan[Ticker] EXCEPT !.at = "exited"])
      OBVIOUS
    <3>2. QED
      BY <2>6, <3>1 DEF TickerExit, Goto
  <2>7. QED
    BY <2>1, <2>2, <2>3, <2>4, <2>5, <2>6
<1>4. /\ scan' \in [Scanners -> ScanRecord]
      /\ \A t \in Scanners : scan'[t].at \in AtName => scan'[t].name \in Names
  BY <1>1, <1>3, ScanUpdate
<1>5. CASE PurgeCache
  <2>1. /\ UNCHANGED <<source, temp, reg, queue, worker, upload, phase, ops>>
        /\ rendition' \in [Names -> [Tiers -> File]]
        /\ marker' \in [Names -> SUBSET Tiers]
        /\ writers' \in [Names -> [Tiers -> SUBSET Workers]]
    BY <1>5, RemoveCacheType DEF PurgeCache, TypeInv
  <2>2. TypeOK'
    BY <2>1, <1>4 DEF TypeInv, TypeOK
  <2>3. Located'
    BY <2>1, <1>4 DEF TypeInv, Located, SourcesAreWhole
  <2>4. QED
    BY <2>2, <2>3 DEF TypeInv
<1>6. CASE ~PurgeCache
  <2>1. UNCHANGED <<source, temp, rendition, marker, writers, queue, worker, upload, phase, ops>>
    BY <1>6 DEF ListCache, StatSource, Forget, EndSweep, TickerExit, disk
  <2>2. reg' \in [Names -> EntryRecord]
    <3>1. Unknown \in EntryRecord
      BY DEF Entry, Unknown, EntryRecord, Status
    <3>2. CASE Forget
      BY <3>1, <3>2, EntryUpdate DEF Forget
    <3>3. CASE ~Forget
      BY <3>3, <1>6 DEF ListCache, StatSource, EndSweep, TickerExit, TypeInv, TypeOK
    <3>4. QED
      BY <3>2, <3>3
  <2>3. queue' \in Seq(Names)
    BY <2>1 DEF TypeInv, TypeOK
  <2>4. QED
    BY <2>1, <2>2, <2>3, <1>4, ScanFrame
<1>7. QED
  BY <1>5, <1>6

-----------------------------------------------------------------------------

WorkerTyped(r) ==
  /\ r \in WorkerRecord
  /\ r.at \notin {"idle", "exited"} => r.name \in Names
  /\ r.at = "ffmpeg" => r.tier \in Tiers

LEMMA WorkerUpdate ==
  ASSUME TypeInv, NEW w \in Workers, NEW r, WorkerTyped(r),
         worker' = [worker EXCEPT ![w] = r]
  PROVE  /\ worker' \in [Workers -> WorkerRecord]
         /\ \A v \in Workers :
              /\ worker'[v].at \notin {"idle", "exited"} => worker'[v].name \in Names
              /\ worker'[v].at = "ffmpeg" => worker'[v].tier \in Tiers
  BY DEF TypeInv, TypeOK, Located, WorkerTyped

LEMMA WorkerFrame ==
  ASSUME TypeInv,
         UNCHANGED <<source, temp, scan, upload, phase, ops>>,
         rendition' \in [Names -> [Tiers -> File]],
         marker' \in [Names -> SUBSET Tiers],
         writers' \in [Names -> [Tiers -> SUBSET Workers]],
         reg' \in [Names -> EntryRecord],
         queue' \in Seq(Names),
         worker' \in [Workers -> WorkerRecord],
         \A v \in Workers :
           /\ worker'[v].at \notin {"idle", "exited"} => worker'[v].name \in Names
           /\ worker'[v].at = "ffmpeg" => worker'[v].tier \in Tiers
  PROVE  TypeInv'
<1>1. TypeOK'
  BY DEF TypeInv, TypeOK
<1>2. Located'
  BY DEF TypeInv, Located, SourcesAreWhole
<1>3. QED
  BY <1>1, <1>2 DEF TypeInv

(* A worker keeps the types. *)
LEMMA WorkerStepTyped ==
  ASSUME TypeInv, NEW w \in Workers, WorkerStep(w)
  PROVE  TypeInv'
<1>1. WorkerTyped(worker[w])
  BY DEF TypeInv, TypeOK, Located, WorkerTyped
<1>2. UNCHANGED <<source, temp, scan, upload, phase, ops>>
  BY DEF WorkerStep, Dequeue, WorkerExit, BeginPrepare, ProbeOk, ClearPartial, ProbeFails, StartTier,
         TierOk, TierFails, ReportFailure, LeaveCancelled, WriteMarker, SetReady, disk
<1>3. PICK r : WorkerTyped(r) /\ worker' = [worker EXCEPT ![w] = r]
  <2> USE <1>1 DEF WorkerTyped, WorkerRecord, WorkerPoints, Preparing, File
  <2>1. CASE Dequeue(w)
    <3>1. Head(queue) \in Names
      BY <2>1 DEF Dequeue, TypeInv, TypeOK
    <3>2. WorkerTyped([worker[w] EXCEPT !.at = "picked", !.name = Head(queue)])
      BY <3>1
    <3>3. QED
      BY <2>1, <3>2 DEF Dequeue
  <2>2. CASE WorkerExit(w)
    <3>1. WorkerTyped([worker[w] EXCEPT !.at = "exited"])
      OBVIOUS
    <3>2. QED
      BY <2>2, <3>1 DEF WorkerExit
  <2>3. CASE BeginPrepare(w)
    <3>1. WorkerTyped([worker[w] EXCEPT !.at = "probe"])
      BY <2>3 DEF BeginPrepare
    <3>2. QED
      BY <2>3, <3>1 DEF BeginPrepare
  <2>4. CASE ProbeOk(w)
    <3>1. Applicable(source[worker[w].name]) \in SUBSET Tiers
      BY <2>4, ApplicableType DEF ProbeOk
    <3>2. WorkerTyped([worker[w] EXCEPT !.at = "clear", !.todo = Applicable(source[worker[w].name])])
      BY <2>4, <3>1 DEF ProbeOk
    <3>3. QED
      BY <2>4, <3>2 DEF ProbeOk
  <2>5. CASE ProbeFails(w) \/ ReportFailure(w) \/ LeaveCancelled(w) \/ SetReady(w)
    <3>1. WorkerTyped(IdleWorker("idle"))
      BY DEF IdleWorker
    <3>2. QED
      BY <2>5, <3>1 DEF ProbeFails, ReportFailure, LeaveCancelled, SetReady
  <2>6. CASE StartTier(w)
    <3>1. PICK q \in worker[w].todo :
            worker' = [worker EXCEPT ![w] = [@ EXCEPT !.at = "ffmpeg", !.tier = q,
                                   !.todo = worker[w].todo \ {q},
                                   !.reading = source[worker[w].name]]]
      BY <2>6 DEF StartTier
    <3>2. source[worker[w].name] \in File
      BY <2>6 DEF StartTier, TypeInv, TypeOK
    <3>3. WorkerTyped([worker[w] EXCEPT !.at = "ffmpeg", !.tier = q,
                                   !.todo = worker[w].todo \ {q},
                                   !.reading = source[worker[w].name]])
      BY <2>6, <3>2 DEF StartTier
    <3>4. QED
      BY <3>1, <3>3
  <2>7. CASE TierOk(w)
    <3>1. WorkerTyped([worker[w] EXCEPT !.at = "tiers", !.tier = 0,
                         !.done = worker[w].done \cup {worker[w].tier}, !.reading = NoFile])
      BY <2>7 DEF TierOk
    <3>2. QED
      BY <2>7, <3>1 DEF TierOk
  <2>8. CASE TierFails(w)
    <3>1. WorkerTyped([worker[w] EXCEPT !.at = "aborted", !.tier = 0, !.reading = NoFile])
      BY <2>8 DEF TierFails
    <3>2. QED
      BY <2>8, <3>1 DEF TierFails
  <2>9. CASE WriteMarker(w)
    <3>1. WorkerTyped([worker[w] EXCEPT !.at = "marked"])
      BY <2>9 DEF WriteMarker
    <3>2. QED
      BY <2>9, <3>1 DEF WriteMarker
  <2>10. CASE ClearPartial(w)
    <3>1. WorkerTyped([worker[w] EXCEPT !.at = "tiers"])
      BY <2>10 DEF ClearPartial
    <3>2. QED
      BY <2>10, <3>1 DEF ClearPartial
  <2>11. QED
    BY <2>1, <2>2, <2>3, <2>4, <2>5, <2>6, <2>7, <2>8, <2>9, <2>10 DEF WorkerStep
<1>4. reg' \in [Names -> EntryRecord]
  <2>1. Entry("transcoding", {}) \in EntryRecord /\ Entry("failed", {}) \in EntryRecord
    BY DEF Entry, EntryRecord, Status
  <2>2. Entry("ready", worker[w].done) \in EntryRecord
    BY <1>1 DEF WorkerTyped, WorkerRecord, Entry, EntryRecord, Status
  <2>3. CASE BeginPrepare(w) \/ ProbeFails(w) \/ ReportFailure(w) \/ SetReady(w)
    BY <2>1, <2>2, <2>3, EntryUpdate DEF BeginPrepare, ProbeFails, ReportFailure, SetReady
  <2>4. CASE UNCHANGED reg
    BY <2>4 DEF TypeInv, TypeOK
  <2>5. QED
    BY <2>3, <2>4 DEF WorkerStep, Dequeue, WorkerExit, ProbeOk, ClearPartial, StartTier, TierOk, TierFails,
       LeaveCancelled, WriteMarker
<1>5. queue' \in Seq(Names)
  <2>1. CASE Dequeue(w)
    BY <2>1 DEF Dequeue, TypeInv, TypeOK
  <2>2. CASE UNCHANGED queue
    BY <2>2 DEF TypeInv, TypeOK
  <2>3. QED
    BY <2>1, <2>2 DEF WorkerStep, WorkerExit, BeginPrepare, ProbeOk, ClearPartial, ProbeFails, StartTier,
       TierOk, TierFails, ReportFailure, LeaveCancelled, WriteMarker, SetReady
<1>6. /\ rendition' \in [Names -> [Tiers -> File]]
      /\ marker' \in [Names -> SUBSET Tiers]
      /\ writers' \in [Names -> [Tiers -> SUBSET Workers]]
  <2>1. CASE ClearPartial(w) \/ TierFails(w)
    BY <2>1, RemoveCacheType DEF ClearPartial, TierFails, TypeInv
  <2>2. CASE StartTier(w)
    <3>1. PICK q \in Tiers :
            /\ rendition' = [rendition EXCEPT ![worker[w].name][q] = Half]
            /\ writers' = [writers EXCEPT ![worker[w].name][q] = @ \cup {w}]
            /\ marker' = marker
      BY <2>2, <1>1 DEF StartTier, WorkerTyped, WorkerRecord
    <3>2. QED
      BY <3>1 DEF TypeInv, TypeOK, File
  <2>3. CASE TierOk(w)
    <3> DEFINE n == worker[w].name
    <3> DEFINE q == worker[w].tier
    <3>1. n \in Names /\ q \in Tiers
      BY <2>3, <1>1 DEF TierOk, WorkerTyped
    <3>2. PICK x \in File : rendition' = [rendition EXCEPT ![n][q] = x]
      BY <2>3 DEF TierOk, File
    <3>3. writers' = [writers EXCEPT ![n][q] = @ \ {w}] /\ marker' = marker
      BY <2>3 DEF TierOk
    <3>4. QED
      BY <3>1, <3>2, <3>3 DEF TypeInv, TypeOK
  <2>4. CASE WriteMarker(w)
    <3>1. worker[w].done \in SUBSET Tiers
      BY <1>1 DEF WorkerTyped, WorkerRecord
    <3>2. QED
      BY <2>4, <3>1 DEF WriteMarker, TypeInv, TypeOK
  <2>5. CASE UNCHANGED <<rendition, marker, writers>>
    BY <2>5 DEF TypeInv, TypeOK
  <2>6. QED
    BY <2>1, <2>2, <2>3, <2>4, <2>5 DEF WorkerStep, Dequeue, WorkerExit, BeginPrepare, ProbeOk,
       ProbeFails, ReportFailure, LeaveCancelled, SetReady, disk
<1>7. QED
  BY <1>2, <1>3, <1>4, <1>5, <1>6, WorkerUpdate, WorkerFrame

-----------------------------------------------------------------------------

UploadTyped(r, file) ==
  /\ r \in UploadRecord
  /\ r.at \in {"copy", "rename", "scan"} => r.name \in Names
  /\ r.at = "copy" => r.data \in Contents
  /\ r.at = "rename" => file \in Contents

(* An upload that is not walking VIDEOS_DIR keeps the types. *)
LEMMA UploadFrame ==
  ASSUME TypeInv, NEW u \in Uploads, NEW r, NEW x \in File,
         UNCHANGED <<source, rendition, marker, writers, reg, queue, scan, worker, phase, ops>>,
         upload' = [upload EXCEPT ![u] = r],
         temp' = [temp EXCEPT ![u] = x],
         UploadTyped(r, x)
  PROVE  TypeInv'
<1>1. upload' \in [Uploads -> UploadRecord] /\ temp' \in [Uploads -> File]
  BY DEF TypeInv, TypeOK, UploadTyped
<1>2. TypeOK'
  BY <1>1 DEF TypeInv, TypeOK
<1>3. \A v \in Uploads : UploadTyped(upload'[v], temp'[v])
  BY <1>1 DEF TypeInv, TypeOK, Located, UploadTyped
<1>4. Located'
  BY <1>3 DEF TypeInv, Located, SourcesAreWhole, UploadTyped
<1>5. QED
  BY <1>2, <1>4 DEF TypeInv

LEMMA UploadStepTyped ==
  ASSUME TypeInv, NEW u \in Uploads, UploadStep(u)
  PROVE  TypeInv'
<1>1. UploadTyped(upload[u], temp[u]) /\ temp[u] \in File
  BY DEF TypeInv, TypeOK, Located, UploadTyped
<1>2. temp = [temp EXCEPT ![u] = temp[u]]
  BY DEF TypeInv, TypeOK
<1>3. u \in Scanners
  BY DEF Scanners
<1>4. CASE Receive(u)
  <2>1. PICK n \in Names, c \in Contents :
          IF source[n] # NoFile
          THEN /\ upload' = [upload EXCEPT ![u] = [at |-> "done", name |-> n, data |-> NoFile,
                                                   reply |-> "conflict"]]
               /\ UNCHANGED temp
          ELSE /\ upload' = [upload EXCEPT ![u] = [at |-> "copy", name |-> n, data |-> c,
                                                   reply |-> "none"]]
               /\ temp' = [temp EXCEPT ![u] = Half]
    BY <1>4 DEF Receive
  <2>2. UploadTyped([at |-> "done", name |-> n, data |-> NoFile, reply |-> "conflict"], temp[u])
    BY DEF UploadTyped, UploadRecord, File
  <2>3. UploadTyped([at |-> "copy", name |-> n, data |-> c, reply |-> "none"], Half)
    BY DEF UploadTyped, UploadRecord, File
  <2>4. UNCHANGED <<source, rendition, marker, writers, reg, queue, scan, worker, phase, ops>>
    BY <1>4 DEF Receive
  <2>5. Half \in File
    BY DEF File
  <2>6. CASE source[n] # NoFile
    <3>1. /\ upload' = [upload EXCEPT ![u] = [at |-> "done", name |-> n, data |-> NoFile,
                                              reply |-> "conflict"]]
          /\ temp' = [temp EXCEPT ![u] = temp[u]]
      BY <2>1, <2>6, <1>2
    <3>2. QED
      BY <3>1, <2>2, <2>4, <1>1, UploadFrame
  <2>7. CASE source[n] = NoFile
    <3>1. /\ upload' = [upload EXCEPT ![u] = [at |-> "copy", name |-> n, data |-> c,
                                              reply |-> "none"]]
          /\ temp' = [temp EXCEPT ![u] = Half]
      BY <2>1, <2>7
    <3>2. QED
      BY <3>1, <2>3, <2>4, <2>5, UploadFrame
  <2>8. QED
    BY <2>6, <2>7
<1>5. CASE CopyDone(u)
  <2>1. UploadTyped([upload[u] EXCEPT !.at = "rename"], upload[u].data)
    BY <1>1, <1>5 DEF CopyDone, UploadTyped, UploadRecord
  <2>2. upload[u].data \in File
    BY <1>1 DEF UploadTyped, UploadRecord
  <2>3. /\ upload' = [upload EXCEPT ![u] = [upload[u] EXCEPT !.at = "rename"]]
        /\ temp' = [temp EXCEPT ![u] = upload[u].data]
        /\ UNCHANGED <<source, rendition, marker, writers, reg, queue, scan, worker, phase, ops>>
    BY <1>5 DEF CopyDone
  <2>4. QED
    BY <2>1, <2>2, <2>3, UploadFrame
<1>6. CASE StoreFails(u)
  <2>1. UploadTyped([at |-> "done", name |-> upload[u].name, data |-> NoFile, reply |-> "error"], NoFile)
    BY <1>1 DEF UploadTyped, UploadRecord, File
  <2>2. /\ upload' = [upload EXCEPT ![u] = [at |-> "done", name |-> upload[u].name,
                                            data |-> NoFile, reply |-> "error"]]
        /\ temp' = [temp EXCEPT ![u] = NoFile]
        /\ UNCHANGED <<source, rendition, marker, writers, reg, queue, scan, worker, phase, ops>>
    BY <1>6 DEF StoreFails, Answer
  <2>3. NoFile \in File
    BY DEF File
  <2>4. QED
    BY <2>1, <2>2, <2>3, UploadFrame
<1>7. CASE Publish(u)
  <2>1. upload[u].name \in Names /\ temp[u] \in Contents
    BY <1>1, <1>7 DEF Publish, UploadTyped
  <2>2. source' \in [Names -> File] /\ SourcesAreWhole'
    BY <1>7, <2>1, FileAssumption DEF Publish, TypeInv, TypeOK, Located, SourcesAreWhole, File
  <2>3. temp' \in [Uploads -> File]
    BY <1>7 DEF Publish, TypeInv, TypeOK, File
  <2>4. upload' \in [Uploads -> UploadRecord]
    <3>1. [upload[u] EXCEPT !.at = "scan"] \in UploadRecord
      BY <1>1 DEF UploadTyped, UploadRecord
    <3>2. QED
      BY <3>1, <1>7 DEF Publish, TypeInv, TypeOK
  <2>5. \A v \in Uploads : UploadTyped(upload'[v], temp'[v])
    BY <1>1, <1>7, <2>3, <2>4 DEF Publish, TypeInv, TypeOK, Located, UploadTyped
  <2>6. /\ scan' \in [Scanners -> ScanRecord]
        /\ \A t \in Scanners : scan'[t].at \in AtName => scan'[t].name \in Names
    <3>1. ScanTyped([scan[u] EXCEPT !.at = "start"])
      BY <1>3 DEF ScanTyped, ScanRecord, ScanPoints, AtName, TypeInv, TypeOK
    <3>2. scan' = [scan EXCEPT ![u] = [scan[u] EXCEPT !.at = "start"]]
      BY <1>7 DEF Publish, Goto
    <3>3. QED
      BY <3>1, <3>2, <1>3, ScanUpdate
  <2>7. UNCHANGED <<rendition, marker, writers, reg, queue, worker, phase, ops>>
    BY <1>7 DEF Publish
  <2>8. TypeOK'
    BY <2>2, <2>3, <2>4, <2>6, <2>7 DEF TypeInv, TypeOK
  <2>9. Located'
    BY <2>2, <2>5, <2>6, <2>7 DEF TypeInv, Located, UploadTyped
  <2>10. QED
    BY <2>8, <2>9 DEF TypeInv
<1>8. CASE ScanStep(u)
  BY <1>3, <1>8, ScanStepTyped
<1>9. CASE Respond(u)
  <2> DEFINE reply == reg[upload[u].name].status
  <2>1. upload[u].name \in Names
    BY <1>1, <1>9 DEF Respond, UploadTyped
  <2>2. reply \in Status
    BY <2>1 DEF TypeInv, TypeOK, EntryRecord
  <2>3. UploadTyped([at |-> "done", name |-> upload[u].name, data |-> NoFile, reply |-> reply], temp[u])
    BY <2>1, <2>2 DEF UploadTyped, UploadRecord, File
  <2>4. /\ upload' = [upload EXCEPT ![u] = [at |-> "done", name |-> upload[u].name,
                                            data |-> NoFile, reply |-> reply]]
        /\ temp' = [temp EXCEPT ![u] = temp[u]]
        /\ UNCHANGED <<source, rendition, marker, writers, reg, queue, scan, worker, phase, ops>>
    BY <1>9, <1>2 DEF Respond, Answer, disk
  <2>5. QED
    BY <1>1, <2>3, <2>4, UploadFrame
<1>10. QED
  BY <1>4, <1>5, <1>6, <1>7, <1>8, <1>9 DEF UploadStep

-----------------------------------------------------------------------------

(* The end of a process keeps the types: memory is what a start finds, and *)
(* a request that was storing its file is over.                            *)
LEMMA LoseMemoryTyped ==
  ASSUME TypeInv, LoseMemory, ops' \in Nat
  PROVE  TypeInv'
<1>1. FreshScan \in [Scanners -> ScanRecord] /\ \A s \in Scanners : FreshScan[s].at \notin AtName
  BY DEF FreshScan, IdleScan, ScanRecord, ScanPoints, AtName
<1>2. FreshWorker \in [Workers -> WorkerRecord] /\ \A w \in Workers : FreshWorker[w].at = "idle"
  BY DEF FreshWorker, IdleWorker, WorkerRecord, WorkerPoints, File
<1>3. FreshReg \in [Names -> EntryRecord]
  BY DEF FreshReg, Unknown, Entry, EntryRecord, Status
<1>4. upload' \in [Uploads -> UploadRecord] /\ \A u \in Uploads : upload'[u].at \in {"new", "done"}
  <2>1. \A u \in Uploads : upload[u] \in UploadRecord
    BY DEF TypeInv, TypeOK
  <2>2. \A u \in Uploads :
          /\ [upload[u] EXCEPT !.at = "done", !.data = NoFile, !.reply = "lost"] \in UploadRecord
          /\ upload[u].at \in {"new", "copy", "rename", "scan", "done"}
    BY <2>1 DEF UploadRecord, File
  <2>3. \A u \in Uploads : [upload[u] EXCEPT !.at = "done", !.data = NoFile, !.reply = "lost"].at = "done"
    BY <2>1 DEF UploadRecord
  <2>4. QED
    BY <2>1, <2>2, <2>3 DEF LoseMemory
<1>5. TypeOK'
  <2>1. /\ scan' \in [Scanners -> ScanRecord]
        /\ worker' \in [Workers -> WorkerRecord]
        /\ reg' \in [Names -> EntryRecord]
        /\ phase' \in {"up", "stopping", "down"}
    BY <1>1, <1>2, <1>3 DEF LoseMemory
  <2>2. writers' \in [Names -> [Tiers -> SUBSET Workers]]
    BY DEF LoseMemory, NoWriters
  <2>3. queue' \in Seq(Names)
    <3>1. queue' = <<>>
      BY DEF LoseMemory
    <3>2. QED
      BY <3>1
  <2>4. UNCHANGED disk
    BY DEF LoseMemory
  <2>5. QED
    BY <1>4, <2>1, <2>2, <2>3, <2>4 DEF TypeInv, TypeOK, disk
<1>6. Located'
  BY <1>1, <1>2, <1>4 DEF LoseMemory, TypeInv, Located, SourcesAreWhole, disk
<1>7. QED
  BY <1>5, <1>6 DEF TypeInv

(* What happens around the service keeps the types: an operator only puts  *)
(* complete files into VIDEOS_DIR.                                         *)
LEMMA EnvironmentTyped ==
  ASSUME TypeInv, Environment \/ Exit \/ Start
  PROVE  TypeInv'
<1>1. ops' \in Nat
  BY DEF Environment, Crash, Stop, AddSource, RemoveSource, DropCache, SourcesUnreadable,
     Happens, Exit, Start, TypeInv, TypeOK
<1>2. CASE Crash \/ Exit
  BY <1>1, <1>2, LoseMemoryTyped DEF Crash, Exit
<1>3. CASE Stop \/ Start
  <2>1. UNCHANGED <<disk, memory>> /\ phase' \in {"up", "stopping", "down"}
    BY <1>3 DEF Stop, Start
  <2>2. TypeOK'
    BY <1>1, <2>1 DEF TypeInv, TypeOK, disk, memory
  <2>3. Located'
    BY <2>1 DEF TypeInv, Located, SourcesAreWhole, disk, memory
  <2>4. QED
    BY <2>2, <2>3 DEF TypeInv
<1>4. CASE AddSource \/ RemoveSource
  <2>1. PICK n \in Names, x \in Contents \cup {NoFile} : source' = [source EXCEPT ![n] = x]
    BY <1>4 DEF AddSource, RemoveSource
  <2>2. UNCHANGED <<temp, rendition, marker, memory, phase>>
    BY <1>4 DEF AddSource, RemoveSource
  <2>3. source' \in [Names -> File] /\ SourcesAreWhole'
    BY <2>1, FileAssumption DEF TypeInv, TypeOK, Located, SourcesAreWhole, File
  <2>4. TypeOK'
    BY <1>1, <2>2, <2>3 DEF TypeInv, TypeOK, memory
  <2>5. Located'
    BY <2>2, <2>3 DEF TypeInv, Located, memory
  <2>6. QED
    BY <2>4, <2>5 DEF TypeInv
<1>5. CASE DropCache
  <2>1. /\ UNCHANGED <<source, temp, reg, queue, scan, worker, upload, phase>>
        /\ rendition' \in [Names -> [Tiers -> File]]
        /\ marker' \in [Names -> SUBSET Tiers]
        /\ writers' \in [Names -> [Tiers -> SUBSET Workers]]
    BY <1>5, RemoveCacheType DEF DropCache, TypeInv
  <2>2. TypeOK'
    BY <1>1, <2>1 DEF TypeInv, TypeOK
  <2>3. Located'
    BY <2>1 DEF TypeInv, Located, SourcesAreWhole
  <2>4. QED
    BY <2>2, <2>3 DEF TypeInv
<1>6. CASE SourcesUnreadable
  <2>1. PICK s \in Scanners :
          scan' = [scan EXCEPT ![s] = IdleScan(CASE s # Ticker -> "idle"
                                                 [] s = Ticker /\ scan[s].at = "wait" -> "sweep"
                                                 [] OTHER -> "wait")]
    BY <1>6 DEF SourcesUnreadable
  <2>2. \A at \in {"idle", "sweep", "wait"} : ScanTyped(IdleScan(at))
    BY DEF IdleScan, ScanTyped, ScanRecord, ScanPoints, AtName
  <2>3. PICK r : ScanTyped(r) /\ scan' = [scan EXCEPT ![s] = r]
    BY <2>1, <2>2
  <2>4. /\ scan' \in [Scanners -> ScanRecord]
        /\ \A t \in Scanners : scan'[t].at \in AtName => scan'[t].name \in Names
    BY <2>3, ScanUpdate
  <2>5. UNCHANGED <<disk, writers, reg, queue, worker, upload, phase>>
    BY <1>6 DEF SourcesUnreadable
  <2>6. TypeOK'
    BY <1>1, <2>4, <2>5 DEF TypeInv, TypeOK, disk
  <2>7. Located'
    BY <2>4, <2>5 DEF TypeInv, Located, SourcesAreWhole, disk
  <2>8. QED
    BY <2>6, <2>7 DEF TypeInv
<1>7. QED
  BY <1>2, <1>3, <1>4, <1>5, <1>6 DEF Environment

LEMMA NextTyped == TypeInv /\ [Next]_vars => TypeInv'
<1> SUFFICES ASSUME TypeInv, [Next]_vars PROVE TypeInv'
  OBVIOUS
<1>1. CASE TickerStep
  <2>1. Ticker \in Scanners
    BY DEF Scanners
  <2>2. QED
    BY <1>1, <2>1, ScanStepTyped, CleanupTyped DEF TickerStep
<1>2. CASE \E w \in Workers : WorkerStep(w)
  BY <1>2, WorkerStepTyped
<1>3. CASE \E u \in Uploads : UploadStep(u)
  BY <1>3, UploadStepTyped
<1>4. CASE Exit \/ Start \/ Environment
  BY <1>4, EnvironmentTyped
<1>5. CASE UNCHANGED vars
  <2>1. TypeOK'
    BY <1>5 DEF TypeInv, TypeOK, vars
  <2>2. Located'
    BY <1>5 DEF TypeInv, Located, SourcesAreWhole, vars
  <2>3. QED
    BY <2>1, <2>2 DEF TypeInv
<1>6. QED
  BY <1>1, <1>2, <1>3, <1>4, <1>5 DEF Next

LEMMA AlwaysTyped == Spec => []TypeInv
  BY InitTyped, NextTyped, PTL DEF Spec

(* The state of the pipeline keeps the types of the code's variables, for  *)
(* every interleaving of scanner, workers, requests and restarts.          *)
THEOREM TypeCorrect == Spec => []TypeOK
<1>1. TypeInv => TypeOK
  BY DEF TypeInv
<1>2. QED
  BY <1>1, AlwaysTyped, PTL

(* A file under a video's name is a complete one, at every moment and also *)
(* after a crash: handleUpload's temporary file and rename are enough.     *)
THEOREM SourcesAlwaysWhole == Spec => []SourcesAreWhole
<1>1. TypeInv => SourcesAreWhole
  BY DEF TypeInv, Located
<1>2. QED
  BY <1>1, AlwaysTyped, PTL
-----------------------------------------------------------------------------
(* Nobody loses a pending entry.  That no request walks VIDEOS_DIR before  *)
(* it has stored its file is what keeps Publish from cutting a walk short. *)

WalksWhileScanning == \A u \in Uploads : upload[u].at # "scan" => scan[u].at = "idle"

PendingInv == TypeInv /\ WalksWhileScanning /\ PendingIsBacked

LEMMA ScanStepWalks ==
  ASSUME TypeInv, WalksWhileScanning, NEW s \in Scanners, ScanStep(s)
  PROVE  WalksWhileScanning'
<1>1. scan[s].at # "idle" /\ upload' = upload
  BY DEF ScanStep, ListSources, CheckKnown, ReadMarker, Adopt, MarkPending, Enqueue,
         QueueFull, RollBack, EndScan
<1>2. \A t \in Scanners : t # s => scan'[t] = scan[t]
  BY DEF ScanStep, ListSources, CheckKnown, ReadMarker, Adopt, MarkPending, Enqueue,
         QueueFull, RollBack, EndScan, NextEntry, Goto, TypeInv, TypeOK
<1>3. QED
  BY <1>1, <1>2 DEF WalksWhileScanning, Scanners

LEMMA NextWalks ==
  ASSUME TypeInv, WalksWhileScanning, [Next]_vars
  PROVE  WalksWhileScanning'
<1>1. \A u \in Uploads : u \in Scanners /\ u # Ticker
  BY TickerAssumption DEF Scanners
<1>2. CASE TickerStep
  <2>1. CASE ScanStep(Ticker)
    BY <2>1, ScanStepWalks DEF Scanners
  <2>2. CASE ~ScanStep(Ticker)
    <3>1. upload' = upload
      BY <1>2, <2>2 DEF TickerStep, ListCache, StatSource, PurgeCache, Forget, EndSweep, TickerExit
    <3>2. \A u \in Uploads : scan'[u] = scan[u]
      BY <1>1, <1>2, <2>2 DEF TickerStep, ListCache, StatSource, PurgeCache, Forget, EndSweep,
         TickerExit, Goto, TypeInv, TypeOK
    <3>3. QED
      BY <3>1, <3>2 DEF WalksWhileScanning
  <2>3. QED
    BY <2>1, <2>2
<1>3. CASE \E w \in Workers : WorkerStep(w)
  <2>1. UNCHANGED <<scan, upload>>
    BY <1>3 DEF WorkerStep, Dequeue, WorkerExit, BeginPrepare, ProbeOk, ClearPartial, ProbeFails, StartTier,
       TierOk, TierFails, ReportFailure, LeaveCancelled, WriteMarker, SetReady
  <2>2. QED
    BY <2>1 DEF WalksWhileScanning
<1>4. ASSUME NEW u \in Uploads, UploadStep(u)
      PROVE  WalksWhileScanning'
  <2>1. CASE ScanStep(u)
    BY <1>1, <2>1, ScanStepWalks
  <2>2. CASE Publish(u)
    <3>1. upload'[u].at = "scan" /\ \A v \in Uploads : v # u => upload'[v] = upload[v]
      BY <2>2 DEF Publish, TypeInv, TypeOK, UploadRecord
    <3>2. \A v \in Uploads : v # u => scan'[v] = scan[v]
      BY <1>1, <2>2 DEF Publish, Goto, TypeInv, TypeOK
    <3>3. QED
      BY <3>1, <3>2 DEF WalksWhileScanning
  <2>3. CASE Receive(u) \/ CopyDone(u) \/ StoreFails(u) \/ Respond(u)
    <3>1. scan' = scan /\ scan[u].at = "idle"
      BY <2>3 DEF Receive, CopyDone, StoreFails, Respond, WalksWhileScanning
    <3>2. \A v \in Uploads : v # u => upload'[v] = upload[v]
      BY <2>3 DEF Receive, CopyDone, StoreFails, Respond, Answer, TypeInv, TypeOK
    <3>3. QED
      BY <3>1, <3>2 DEF WalksWhileScanning
  <2>4. QED
    BY <1>4, <2>1, <2>2, <2>3 DEF UploadStep
<1>5. CASE Crash \/ Exit
  <2>1. scan' = FreshScan
    BY <1>5 DEF Crash, Exit, LoseMemory
  <2>2. QED
    BY <1>1, <2>1 DEF WalksWhileScanning, FreshScan, IdleScan
<1>6. CASE SourcesUnreadable
  <2>1. PICK s \in Scanners :
          scan' = [scan EXCEPT ![s] = IdleScan(CASE s # Ticker -> "idle"
                                                 [] s = Ticker /\ scan[s].at = "wait" -> "sweep"
                                                 [] OTHER -> "wait")]
    BY <1>6 DEF SourcesUnreadable
  <2>2. upload' = upload
    BY <1>6 DEF SourcesUnreadable
  <2>3. \A u \in Uploads : scan'[u] = scan[u] \/ scan'[u].at = "idle"
    BY <1>1, <2>1 DEF TypeInv, TypeOK, IdleScan
  <2>4. QED
    BY <2>2, <2>3 DEF WalksWhileScanning
<1>7. CASE UNCHANGED <<scan, upload>>
  BY <1>7 DEF WalksWhileScanning
<1>8. QED
  BY <1>2, <1>3, <1>4, <1>5, <1>6, <1>7 DEF Next, Environment, Stop, Start, AddSource,
     RemoveSource, DropCache, memory, vars
(* Taking the head of a queue leaves every other name of it in the queue. *)
LEMMA DequeueKeeps ==
  ASSUME TypeInv, queue # <<>>, queue' = Tail(queue), NEW n, Queued(n), n # Head(queue)
  PROVE  Queued(n)'
<1>1. queue \in Seq(Names) /\ Len(queue) \in Nat /\ Len(queue) > 0
  BY DEF TypeInv, TypeOK
<1>2. PICK i \in 1 .. Len(queue) : queue[i] = n
  BY DEF Queued
<1>3. i # 1
  BY <1>1, <1>2
<1>4. i - 1 \in 1 .. Len(Tail(queue)) /\ Tail(queue)[i - 1] = n
  BY <1>1, <1>2, <1>3
<1>5. QED
  BY <1>4 DEF Queued

LEMMA EnqueueKeeps ==
  ASSUME TypeInv, NEW m \in Names, queue' = Append(queue, m)
  PROVE  Queued(m)' /\ \A n : Queued(n) => Queued(n)'
<1>1. queue \in Seq(Names) /\ Len(queue) \in Nat
  BY DEF TypeInv, TypeOK
<1>2. /\ Len(queue') = Len(queue) + 1
      /\ queue'[Len(queue) + 1] = m
      /\ \A i \in 1 .. Len(queue) : queue'[i] = queue[i]
  BY <1>1
<1>3. QED
  BY <1>1, <1>2 DEF Queued

LEMMA ScanStepPending ==
  ASSUME PendingInv, NEW s \in Scanners, ScanStep(s)
  PROVE  PendingIsBacked'
<1> SUFFICES ASSUME NEW n \in Names, reg'[n].status = "pending"
             PROVE  OnItsWay(n)'
  BY DEF PendingIsBacked
<1> USE DEF PendingInv
<1>1. worker' = worker
  BY DEF ScanStep, ListSources, CheckKnown, ReadMarker, Adopt, MarkPending, Enqueue,
         QueueFull, RollBack, EndScan
<1>2. \A t \in Scanners : t # s => scan'[t] = scan[t]
  BY DEF ScanStep, ListSources, CheckKnown, ReadMarker, Adopt, MarkPending, Enqueue,
         QueueFull, RollBack, EndScan, NextEntry, Goto, TypeInv, TypeOK
<1>3. CASE MarkPending(s)
  <2>1. CASE n = scan[s].name
    <3>1. scan'[s].name = n /\ scan'[s].at = "enqueue"
      BY <1>3, <2>1 DEF MarkPending, Goto, TypeInv, TypeOK, ScanRecord
    <3>2. QED
      BY <3>1 DEF OnItsWay
  <2>2. CASE n # scan[s].name
    <3>1. OnItsWay(n)
      BY <1>3, <2>2 DEF MarkPending, SetEntry, TypeInv, TypeOK, PendingIsBacked
    <3>2. queue' = queue /\ scan[s].at = "mark"
      BY <1>3 DEF MarkPending
    <3>3. QED
      BY <1>1, <1>2, <3>1, <3>2 DEF OnItsWay, Queued
  <2>3. QED
    BY <2>1, <2>2
<1>4. CASE Enqueue(s)
  <2>1. PICK m \in Names : m = scan[s].name /\ queue' = Append(queue, m)
    BY <1>4 DEF Enqueue, TypeInv, Located, AtName
  <2>2. OnItsWay(n)
    BY <1>4 DEF Enqueue, PendingIsBacked
  <2>3. Queued(m)' /\ (Queued(n) => Queued(n)')
    BY <2>1, EnqueueKeeps
  <2>4. QED
    BY <1>1, <1>2, <2>1, <2>2, <2>3 DEF OnItsWay
<1>5. CASE QueueFull(s)
  <2>1. OnItsWay(n) /\ queue' = queue
    BY <1>5 DEF QueueFull, PendingIsBacked
  <2>2. scan'[s].name = scan[s].name /\ scan'[s].at = "rollback"
    BY <1>5 DEF QueueFull, Goto, TypeInv, TypeOK, ScanRecord
  <2>3. QED
    BY <1>1, <1>2, <2>1, <2>2 DEF OnItsWay, Queued
<1>6. CASE RollBack(s) \/ Adopt(s)
  <2>1. n # scan[s].name /\ reg[n].status = "pending"
    BY <1>6 DEF RollBack, Adopt, SetEntry, Unknown, Entry, TypeInv, TypeOK, EntryRecord
  <2>2. OnItsWay(n) /\ queue' = queue
    BY <2>1, <1>6 DEF RollBack, Adopt, PendingIsBacked
  <2>3. QED
    BY <1>1, <1>2, <2>1, <2>2 DEF OnItsWay, Queued
<1>7. CASE ListSources(s) \/ CheckKnown(s) \/ ReadMarker(s) \/ EndScan(s)
  <2>1. OnItsWay(n) /\ queue' = queue
    BY <1>7 DEF ListSources, CheckKnown, ReadMarker, EndScan, PendingIsBacked
  <2>2. scan[s].at \notin {"enqueue", "rollback"}
    BY <1>7 DEF ListSources, CheckKnown, ReadMarker, EndScan
  <2>3. QED
    BY <1>1, <1>2, <2>1, <2>2 DEF OnItsWay, Queued
<1>8. QED
  BY <1>3, <1>4, <1>5, <1>6, <1>7 DEF ScanStep

LEMMA CleanupPending ==
  ASSUME PendingInv, ListCache \/ StatSource \/ PurgeCache \/ Forget \/ EndSweep \/ TickerExit
  PROVE  PendingIsBacked'
<1> SUFFICES ASSUME NEW n \in Names, reg'[n].status = "pending"
             PROVE  OnItsWay(n)'
  BY DEF PendingIsBacked
<1> USE DEF PendingInv
<1>1. UNCHANGED <<queue, worker>>
  BY DEF ListCache, StatSource, PurgeCache, Forget, EndSweep, TickerExit
<1>2. reg[n].status = "pending"
  <2>1. CASE Forget
    <3>1. reg' = [reg EXCEPT ![scan[Ticker].name] = Unknown]
      BY <2>1 DEF Forget, SetEntry
    <3>2. Unknown.status # "pending"
      BY DEF Unknown, Entry
    <3>3. QED
      BY <3>1, <3>2 DEF TypeInv, TypeOK
  <2>2. CASE ~Forget
    BY <2>2 DEF ListCache, StatSource, PurgeCache, EndSweep, TickerExit
  <2>3. QED
    BY <2>1, <2>2
<1>3. /\ \A t \in Scanners : t # Ticker => scan'[t] = scan[t]
      /\ scan[Ticker].at \notin {"enqueue", "rollback"}
  BY DEF ListCache, StatSource, PurgeCache, Forget, EndSweep, TickerExit, Goto, TypeInv, TypeOK
<1>4. OnItsWay(n)
  BY <1>2 DEF PendingIsBacked
<1>5. QED
  BY <1>1, <1>3, <1>4 DEF OnItsWay, Queued

LEMMA WorkerStepPending ==
  ASSUME PendingInv, NEW w \in Workers, WorkerStep(w)
  PROVE  PendingIsBacked'
<1> SUFFICES ASSUME NEW n \in Names, reg'[n].status = "pending"
             PROVE  OnItsWay(n)'
  BY DEF PendingIsBacked
<1> USE DEF PendingInv
<1>1. scan' = scan
  BY DEF WorkerStep, Dequeue, WorkerExit, BeginPrepare, ProbeOk, ClearPartial, ProbeFails, StartTier,
         TierOk, TierFails, ReportFailure, LeaveCancelled, WriteMarker, SetReady
<1>2. \A v \in Workers : v # w => worker'[v] = worker[v]
  BY DEF WorkerStep, Dequeue, WorkerExit, BeginPrepare, ProbeOk, ClearPartial, ProbeFails, StartTier,
         TierOk, TierFails, ReportFailure, LeaveCancelled, WriteMarker, SetReady, TypeInv, TypeOK
<1>3. CASE Dequeue(w)
  <2>1. OnItsWay(n) /\ worker[w].at = "idle" /\ queue # <<>> /\ queue' = Tail(queue)
    BY <1>3 DEF Dequeue, PendingIsBacked
  <2>2. worker'[w].name = Head(queue) /\ worker'[w].at = "picked"
    BY <1>3 DEF Dequeue, TypeInv, TypeOK, WorkerRecord
  <2>3. CASE n = Head(queue)
    BY <2>2, <2>3 DEF OnItsWay
  <2>4. CASE n # Head(queue)
    <3>1. Queued(n) => Queued(n)'
      BY <2>1, <2>4, DequeueKeeps
    <3>2. QED
      BY <1>1, <1>2, <2>1, <3>1 DEF OnItsWay
  <2>5. QED
    BY <2>3, <2>4
<1>4. CASE BeginPrepare(w)
  <2>1. n # worker[w].name /\ reg[n].status = "pending"
    BY <1>4 DEF BeginPrepare, SetEntry, Entry, TypeInv, TypeOK
  <2>2. OnItsWay(n) /\ queue' = queue
    BY <2>1, <1>4 DEF BeginPrepare, PendingIsBacked
  <2>3. QED
    BY <1>1, <1>2, <2>1, <2>2 DEF OnItsWay, Queued
<1>5. CASE ~Dequeue(w) /\ ~BeginPrepare(w)
  <2>1. queue' = queue /\ worker[w].at # "picked"
    BY <1>5 DEF WorkerStep, WorkerExit, ProbeOk, ClearPartial, ProbeFails, StartTier, TierOk, TierFails,
       ReportFailure, LeaveCancelled, WriteMarker, SetReady
  <2>2. reg[n].status = "pending"
    <3>1. CASE ProbeFails(w) \/ ReportFailure(w) \/ SetReady(w)
      <4>1. PICK e : e.status # "pending" /\ reg' = [reg EXCEPT ![worker[w].name] = e]
        BY <3>1 DEF ProbeFails, ReportFailure, SetReady, SetEntry, Entry
      <4>2. QED
        BY <4>1 DEF TypeInv, TypeOK
    <3>2. CASE reg' = reg
      BY <3>2
    <3>3. QED
      BY <1>5, <3>1, <3>2 DEF WorkerStep, WorkerExit, ProbeOk, ClearPartial, StartTier, TierOk, TierFails,
         LeaveCancelled, WriteMarker
  <2>3. OnItsWay(n)
    BY <2>2 DEF PendingIsBacked
  <2>4. QED
    BY <1>1, <1>2, <2>1, <2>3 DEF OnItsWay, Queued
<1>6. QED
  BY <1>3, <1>4, <1>5

LEMMA NextPending == PendingInv /\ [Next]_vars => PendingInv'
<1> SUFFICES ASSUME PendingInv, [Next]_vars PROVE PendingInv'
  OBVIOUS
<1>1. TypeInv' /\ WalksWhileScanning'
  BY NextTyped, NextWalks DEF PendingInv
<1>2. CASE TickerStep
  <2>1. Ticker \in Scanners
    BY DEF Scanners
  <2>2. PendingIsBacked'
    BY <1>2, <2>1, ScanStepPending, CleanupPending DEF TickerStep
  <2>3. QED
    BY <1>1, <2>2 DEF PendingInv
<1>3. CASE \E w \in Workers : WorkerStep(w)
  BY <1>1, <1>3, WorkerStepPending DEF PendingInv
<1>4. ASSUME NEW u \in Uploads, UploadStep(u)
      PROVE  PendingIsBacked'
  <2>1. CASE ScanStep(u)
    BY <2>1, ScanStepPending DEF Scanners
  <2>2. CASE ~ScanStep(u)
    <3>1. UNCHANGED <<reg, queue, worker>>
      BY <1>4, <2>2 DEF UploadStep, Receive, CopyDone, StoreFails, Publish, Respond
    <3>2. \A s \in Scanners : scan[s].at \in {"enqueue", "rollback"} => scan'[s] = scan[s]
      <4>1. CASE Publish(u)
        <5>1. scan[u].at = "idle"
          BY <4>1 DEF Publish, PendingInv, WalksWhileScanning
        <5>2. QED
          BY <4>1, <5>1 DEF Publish, Goto, PendingInv, TypeInv, TypeOK
      <4>2. CASE ~Publish(u)
        BY <1>4, <2>2, <4>2 DEF UploadStep, Receive, CopyDone, StoreFails, Respond
      <4>3. QED
        BY <4>1, <4>2
    <3>3. QED
      BY <3>1, <3>2 DEF PendingInv, PendingIsBacked, OnItsWay, Queued
  <2>3. QED
    BY <2>1, <2>2
<1>5. CASE Crash \/ Exit
  <2>1. \A n \in Names : reg'[n].status # "pending"
    <3>1. reg' = FreshReg
      BY <1>5 DEF Crash, Exit, LoseMemory
    <3>2. QED
      BY <3>1 DEF FreshReg, Unknown, Entry
  <2>2. PendingIsBacked'
    BY <2>1 DEF PendingIsBacked
  <2>3. QED
    BY <1>1, <2>2 DEF PendingInv
<1>6. CASE SourcesUnreadable
  <2>1. UNCHANGED <<reg, queue, worker>>
    BY <1>6 DEF SourcesUnreadable
  <2>2. \A s \in Scanners : scan[s].at \in {"enqueue", "rollback"} => scan'[s] = scan[s]
    BY <1>6 DEF SourcesUnreadable, PendingInv, TypeInv, TypeOK
  <2>3. PendingIsBacked'
    BY <2>1, <2>2 DEF PendingInv, PendingIsBacked, OnItsWay, Queued
  <2>4. QED
    BY <1>1, <2>3 DEF PendingInv
<1>7. CASE UNCHANGED <<reg, queue, worker, scan>>
  <2>1. PendingIsBacked'
    BY <1>7 DEF PendingInv, PendingIsBacked, OnItsWay, Queued
  <2>2. QED
    BY <1>1, <2>1 DEF PendingInv
<1>8. QED
  BY <1>1, <1>2, <1>3, <1>4, <1>5, <1>6, <1>7 DEF Next, Environment, Stop, Start, AddSource,
     RemoveSource, DropCache, memory, vars, PendingInv

(* A pending entry is never forgotten by the pipeline: whatever walks,     *)
(* workers and cleanup do to each other, somebody still holds the name.    *)
THEOREM PendingAlwaysBacked == Spec => []PendingIsBacked
<1>1. Init => PendingInv
  <2> SUFFICES ASSUME Init PROVE PendingInv
    OBVIOUS
  <2>1. WalksWhileScanning
    BY TickerAssumption DEF Init, WalksWhileScanning, FreshScan, IdleScan, Scanners
  <2>2. PendingIsBacked
    BY DEF Init, PendingIsBacked, FreshReg, Unknown, Entry
  <2>3. QED
    BY <2>1, <2>2, InitTyped DEF PendingInv
<1>2. PendingInv => PendingIsBacked
  BY DEF PendingInv
<1>3. QED
  BY <1>1, <1>2, NextPending, PTL DEF Spec
-----------------------------------------------------------------------------
(* prepare never returns without an outcome, except into a shutdown.       *)

TranscodingInv == TypeInv /\ TranscodingIsBacked

LEMMA WorkerStepTranscoding ==
  ASSUME TranscodingInv, NEW w \in Workers, WorkerStep(w)
  PROVE  TranscodingIsBacked'
<1> SUFFICES ASSUME NEW n \in Names, reg'[n].status = "transcoding", phase' # "stopping"
             PROVE  \E v \in Workers : PreparedBy(v, n)'
  BY DEF TranscodingIsBacked
<1> USE DEF TranscodingInv
<1>1. phase' = phase
  BY DEF WorkerStep, Dequeue, WorkerExit, BeginPrepare, ProbeOk, ClearPartial, ProbeFails, StartTier,
         TierOk, TierFails, ReportFailure, LeaveCancelled, WriteMarker, SetReady
<1>2. \A v \in Workers : v # w => worker'[v] = worker[v]
  BY DEF WorkerStep, Dequeue, WorkerExit, BeginPrepare, ProbeOk, ClearPartial, ProbeFails, StartTier,
         TierOk, TierFails, ReportFailure, LeaveCancelled, WriteMarker, SetReady, TypeInv, TypeOK
<1>3. CASE BeginPrepare(w)
  <2>1. worker'[w].name = worker[w].name /\ worker'[w].at = "probe" /\ worker[w].at = "picked"
    BY <1>3 DEF BeginPrepare, TypeInv, TypeOK, WorkerRecord
  <2>2. CASE n = worker[w].name
    BY <2>1, <2>2 DEF PreparedBy, Preparing
  <2>3. CASE n # worker[w].name
    <3>1. reg[n].status = "transcoding"
      BY <1>3, <2>3 DEF BeginPrepare, SetEntry, TypeInv, TypeOK
    <3>2. QED
      BY <1>1, <1>2, <2>1, <3>1 DEF TranscodingIsBacked, PreparedBy, Preparing
  <2>4. QED
    BY <2>2, <2>3
<1>4. CASE ProbeFails(w) \/ ReportFailure(w) \/ SetReady(w)
  <2>1. PICK e : e.status # "transcoding" /\ reg' = [reg EXCEPT ![worker[w].name] = e]
    BY <1>4 DEF ProbeFails, ReportFailure, SetReady, SetEntry, Entry
  <2>2. n # worker[w].name /\ reg[n].status = "transcoding"
    BY <2>1 DEF TypeInv, TypeOK
  <2>3. PICK v \in Workers : PreparedBy(v, n)
    BY <1>1, <2>2 DEF TranscodingIsBacked
  <2>4. QED
    BY <1>2, <2>2, <2>3 DEF PreparedBy
<1>5. CASE Dequeue(w) \/ WorkerExit(w)
  <2>1. worker[w].at = "idle" /\ reg' = reg
    BY <1>5 DEF Dequeue, WorkerExit
  <2>2. QED
    BY <1>1, <1>2, <2>1 DEF TranscodingIsBacked, PreparedBy, Preparing
<1>6. CASE ProbeOk(w) \/ ClearPartial(w) \/ StartTier(w) \/ TierOk(w) \/ TierFails(w) \/ WriteMarker(w)
  <2>1. worker'[w].name = worker[w].name /\ worker'[w].at \in Preparing
    <3> USE DEF TypeInv, TypeOK, WorkerRecord, Preparing
    <3>1. CASE ProbeOk(w)
      BY <3>1 DEF ProbeOk
    <3>2. CASE StartTier(w)
      BY <3>2 DEF StartTier
    <3>3. CASE TierOk(w)
      BY <3>3 DEF TierOk
    <3>4. CASE TierFails(w)
      BY <3>4 DEF TierFails
    <3>5. CASE WriteMarker(w)
      BY <3>5 DEF WriteMarker
    <3>6. CASE ClearPartial(w)
      BY <3>6 DEF ClearPartial
    <3>7. QED
      BY <1>6, <3>1, <3>2, <3>3, <3>4, <3>5, <3>6
  <2>2. reg' = reg
    BY <1>6 DEF ProbeOk, ClearPartial, StartTier, TierOk, TierFails, WriteMarker
  <2>3. PICK v \in Workers : PreparedBy(v, n)
    BY <1>1, <2>2 DEF TranscodingIsBacked
  <2>4. QED
    BY <1>2, <2>1, <2>3 DEF PreparedBy
<1>7. CASE LeaveCancelled(w)
  BY <1>1, <1>7 DEF LeaveCancelled
<1>8. QED
  BY <1>3, <1>4, <1>5, <1>6, <1>7 DEF WorkerStep

LEMMA ScannerTranscoding ==
  ASSUME TranscodingInv, NEW s \in Scanners,
         ScanStep(s) \/ ListCache \/ StatSource \/ PurgeCache \/ Forget \/ EndSweep \/ TickerExit
  PROVE  TranscodingIsBacked'
<1>1. UNCHANGED <<worker, phase>>
  BY DEF ScanStep, ListSources, CheckKnown, ReadMarker, Adopt, MarkPending, Enqueue,
         QueueFull, RollBack, EndScan, ListCache, StatSource, PurgeCache, Forget, EndSweep, TickerExit
<1>2. PICK m, e : e.status # "transcoding" /\ (reg' = reg \/ reg' = [reg EXCEPT ![m] = e])
  <2>1. Unknown.status # "transcoding" /\ Entry("pending", {}).status # "transcoding"
    BY DEF Unknown, Entry
  <2>2. Entry("ready", scan[s].tiers).status # "transcoding"
    BY DEF Entry
  <2>3. CASE Adopt(s) \/ MarkPending(s) \/ RollBack(s) \/ Forget
    BY <2>1, <2>2, <2>3 DEF Adopt, MarkPending, RollBack, Forget, SetEntry
  <2>4. CASE reg' = reg
    BY <2>1, <2>4
  <2>5. QED
    BY <2>3, <2>4 DEF ScanStep, ListSources, CheckKnown, ReadMarker, Enqueue,
       QueueFull, EndScan, ListCache, StatSource, PurgeCache, EndSweep, TickerExit
<1>3. \A n \in Names : reg'[n].status = "transcoding" => reg[n].status = "transcoding"
  BY <1>2 DEF TranscodingInv, TypeInv, TypeOK
<1>4. QED
  BY <1>1, <1>3 DEF TranscodingInv, TranscodingIsBacked, PreparedBy

LEMMA NextTranscoding == TranscodingInv /\ [Next]_vars => TranscodingInv'
<1> SUFFICES ASSUME TranscodingInv, [Next]_vars PROVE TranscodingIsBacked'
  BY NextTyped DEF TranscodingInv
<1>1. Ticker \in Scanners /\ Uploads \subseteq Scanners
  BY DEF Scanners
<1>2. CASE TickerStep
  BY <1>1, <1>2, ScannerTranscoding DEF TickerStep
<1>3. CASE \E w \in Workers : WorkerStep(w)
  BY <1>3, WorkerStepTranscoding
<1>4. CASE \E u \in Uploads : ScanStep(u)
  BY <1>1, <1>4, ScannerTranscoding
<1>5. CASE Crash \/ Exit
  <2>1. reg' = FreshReg
    BY <1>5 DEF Crash, Exit, LoseMemory
  <2>2. \A n \in Names : reg'[n].status # "transcoding"
    BY <2>1 DEF FreshReg, Unknown, Entry
  <2>3. QED
    BY <2>2 DEF TranscodingIsBacked
<1>6. CASE Stop
  BY <1>6 DEF Stop, TranscodingIsBacked
<1>7. CASE Start
  BY <1>7 DEF Start, memory, TranscodingInv, TranscodingIsBacked, PreparedBy
<1>8. CASE UNCHANGED <<reg, worker, phase>>
  BY <1>8 DEF TranscodingInv, TranscodingIsBacked, PreparedBy
<1>9. QED
  BY <1>2, <1>3, <1>4, <1>5, <1>6, <1>7, <1>8 DEF Next, UploadStep, Receive, CopyDone, StoreFails,
     Publish, Respond, Environment, AddSource, RemoveSource, DropCache, SourcesUnreadable, memory, vars

(* A transcoding entry has a worker on it until the service is told to     *)
(* stop: no path through prepare, its deadlines included, leaves one over. *)
THEOREM TranscodingAlwaysBacked == Spec => []TranscodingIsBacked
<1>1. Init => TranscodingInv
  <2> SUFFICES ASSUME Init PROVE TranscodingInv
    OBVIOUS
  <2>1. TranscodingIsBacked
    BY DEF Init, TranscodingIsBacked, FreshReg, Unknown, Entry
  <2>2. QED
    BY <2>1, InitTyped DEF TranscodingInv
<1>2. TranscodingInv => TranscodingIsBacked
  BY DEF TranscodingInv
<1>3. QED
  BY <1>1, <1>2, NextTranscoding, PTL DEF Spec

-----------------------------------------------------------------------------
(***************************************************************************)
(* The temporary files of uploads                                          *)
(***************************************************************************)

(* A request that lost its answer is over: only then may its file stay.    *)
OwnedInv ==
  /\ TypeInv
  /\ TempIsOwned
  /\ \A u \in Uploads : upload[u].reply = "lost" => upload[u].at = "done"

(* What one upload's step leaves of its own file, and of the others'.      *)
LEMMA UploadStepOwned ==
  ASSUME OwnedInv, NEW u \in Uploads, UploadStep(u)
  PROVE  \A v \in Uploads :
           /\ temp'[v] # NoFile => upload'[v].at \in {"copy", "rename"} \/ upload'[v].reply = "lost"
           /\ upload'[v].reply = "lost" => upload'[v].at = "done"
<1> DEFINE Owned(v) == /\ temp'[v] # NoFile => upload'[v].at \in {"copy", "rename"} \/ upload'[v].reply = "lost"
                       /\ upload'[v].reply = "lost" => upload'[v].at = "done"
<1>1. /\ temp \in [Uploads -> File] /\ upload \in [Uploads -> UploadRecord]
      /\ reg \in [Names -> EntryRecord]
  BY DEF OwnedInv, TypeInv, TypeOK
<1>2. \A v \in Uploads : v # u => temp'[v] = temp[v] /\ upload'[v] = upload[v]
  BY <1>1 DEF UploadStep, Receive, CopyDone, StoreFails, Publish, Respond, Answer, ScanStep,
     ListSources, CheckKnown, ReadMarker, Adopt, MarkPending, Enqueue, QueueFull, RollBack,
     EndScan, disk
<1>3. upload[u].at \notin {"copy", "rename", "done"} => temp[u] = NoFile /\ upload[u].reply # "lost"
  BY DEF OwnedInv, TempIsOwned
<1>4. Owned(u)
  <2>1. CASE Receive(u)
    <3>1. PICK n \in Names, c \in Contents :
            \/ /\ upload' = [upload EXCEPT ![u] = [at |-> "done", name |-> n, data |-> NoFile,
                                                   reply |-> "conflict"]]
               /\ temp' = temp
            \/ upload' = [upload EXCEPT ![u] = [at |-> "copy", name |-> n, data |-> c,
                                                reply |-> "none"]]
      BY <2>1 DEF Receive
    <3>2. temp[u] = NoFile
      BY <1>3, <2>1 DEF Receive
    <3>3. QED
      BY <1>1, <3>1, <3>2
  <2>2. CASE CopyDone(u)
    BY <1>1, <2>2 DEF CopyDone, UploadRecord, OwnedInv
  <2>3. CASE StoreFails(u)
    BY <1>1, <2>3 DEF StoreFails, Answer
  <2>4. CASE Publish(u)
    BY <1>1, <2>4 DEF Publish, OwnedInv, UploadRecord
  <2>5. CASE ScanStep(u)
    BY <2>5 DEF ScanStep, ListSources, CheckKnown, ReadMarker, Adopt, MarkPending, Enqueue,
       QueueFull, RollBack, EndScan, disk, OwnedInv, TempIsOwned
  <2>6. CASE Respond(u)
    <3>1. temp' = temp /\ temp[u] = NoFile
      BY <1>3, <2>6 DEF Respond, disk
    <3>2. upload'[u].at = "done"
      BY <1>1, <2>6 DEF Respond, Answer
    <3>3. QED
      BY <3>1, <3>2
  <2>7. QED
    BY <2>1, <2>2, <2>3, <2>4, <2>5, <2>6 DEF UploadStep
<1>5. QED
  BY <1>2, <1>4 DEF OwnedInv, TempIsOwned

(* A crash cuts the requests off, and says so. *)
LEMMA LoseMemoryOwned ==
  ASSUME OwnedInv, LoseMemory
  PROVE  \A v \in Uploads :
           /\ temp'[v] # NoFile => upload'[v].at \in {"copy", "rename"} \/ upload'[v].reply = "lost"
           /\ upload'[v].reply = "lost" => upload'[v].at = "done"
<1> SUFFICES ASSUME NEW v \in Uploads
             PROVE  /\ temp'[v] # NoFile => upload'[v].at \in {"copy", "rename"} \/ upload'[v].reply = "lost"
                    /\ upload'[v].reply = "lost" => upload'[v].at = "done"
  OBVIOUS
<1>1. temp' = temp /\ upload[v] \in UploadRecord
  BY DEF LoseMemory, disk, OwnedInv, TypeInv, TypeOK
<1>2. CASE upload[v].at \in {"copy", "rename", "scan"}
  <2>1. upload'[v] = [upload[v] EXCEPT !.at = "done", !.data = NoFile, !.reply = "lost"]
    BY <1>2 DEF LoseMemory
  <2>2. QED
    BY <1>1, <2>1 DEF UploadRecord
<1>3. CASE upload[v].at \notin {"copy", "rename", "scan"}
  <2>1. upload'[v] = upload[v]
    BY <1>3 DEF LoseMemory
  <2>2. QED
    BY <1>1, <1>3, <2>1 DEF OwnedInv, TempIsOwned
<1>4. QED
  BY <1>2, <1>3

LEMMA NextOwned == OwnedInv /\ [Next]_vars => OwnedInv'
<1> SUFFICES ASSUME OwnedInv, [Next]_vars PROVE OwnedInv'
  OBVIOUS
<1>1. TypeInv'
  BY NextTyped DEF OwnedInv
<1>2. CASE \E u \in Uploads : UploadStep(u)
  BY <1>1, <1>2, UploadStepOwned DEF OwnedInv, TempIsOwned
<1>3. CASE Crash \/ Exit
  BY <1>1, <1>3, LoseMemoryOwned DEF Crash, Exit, OwnedInv, TempIsOwned
<1>4. CASE \/ TickerStep \/ \E w \in Workers : WorkerStep(w)
           \/ Start \/ Stop \/ AddSource \/ RemoveSource \/ DropCache \/ SourcesUnreadable
           \/ UNCHANGED vars
  <2>1. UNCHANGED <<temp, upload>>
    <3>1. CASE TickerStep
      BY <3>1 DEF TickerStep, ScanStep, ListSources, CheckKnown, ReadMarker, Adopt, MarkPending,
         Enqueue, QueueFull, RollBack, EndScan, ListCache, StatSource, PurgeCache, Forget,
         EndSweep, TickerExit, disk
    <3>2. CASE \E w \in Workers : WorkerStep(w)
      BY <3>2 DEF WorkerStep, Dequeue, WorkerExit, BeginPrepare, ProbeOk, ClearPartial, ProbeFails, StartTier,
         TierOk, TierFails, ReportFailure, LeaveCancelled, WriteMarker, SetReady, disk
    <3>3. QED
      BY <1>4, <3>1, <3>2 DEF Start, Stop, AddSource, RemoveSource, DropCache,
         SourcesUnreadable, disk, memory, vars
  <2>2. QED
    BY <1>1, <2>1 DEF OwnedInv, TempIsOwned
<1>5. QED
  BY <1>2, <1>3, <1>4 DEF Next, Environment

(* No path of handleUpload, conflicts, failed copies and failed renames    *)
(* included, leaves its .upload- file behind; a crash may.                 *)
THEOREM TempAlwaysOwned == Spec => []TempIsOwned
<1>1. Init => OwnedInv
  BY InitTyped DEF Init, OwnedInv, TempIsOwned
<1>2. OwnedInv => TempIsOwned
  BY DEF OwnedInv
<1>3. QED
  BY <1>1, <1>2, NextOwned, PTL DEF Spec
=============================================================================
