------------------------------ MODULE CalmProofs ------------------------------
(***************************************************************************)
(* Theorems about the service when no name comes back (NoNameReturns:      *)
(* nobody uploads, and files are added or removed, not both), and about    *)
(* the calm service (Streamer.Calm: files are added only), its promise and *)
(* its read side.  In both the process may crash, be stopped and be        *)
(* started at any point.  For every number of names, contents, tiers,      *)
(* workers, queue places and players.                                      *)
(***************************************************************************)
EXTENDS Playback, StreamerProofs

(* No video is uploaded, and none is removed: caches may be. *)
NoneRemoved == Uploads = {} /\ "remove" \notin Operations

(* What can happen without uploads, ... *)
LEMMA QuietSteps ==
  ASSUME Uploads = {}, [Next]_vars
  PROVE  \/ ScanStep(Ticker)
         \/ ListCache \/ StatSource \/ PurgeCache \/ Forget \/ EndSweep \/ TickerExit
         \/ \E w \in Workers : WorkerStep(w)
         \/ Crash \/ Exit
         \/ Stop \/ Start \/ AddSource \/ RemoveSource \/ DropCache \/ SourcesUnreadable
         \/ UNCHANGED vars
  BY DEF Next, TickerStep, Environment

(* ... and in a calm service. *)
LEMMA CalmSteps ==
  ASSUME Calm, [Next]_vars
  PROVE  \/ ScanStep(Ticker)
         \/ ListCache \/ StatSource \/ PurgeCache \/ Forget \/ EndSweep \/ TickerExit
         \/ \E w \in Workers : WorkerStep(w)
         \/ Crash \/ Exit
         \/ Stop \/ Start \/ AddSource \/ SourcesUnreadable
         \/ UNCHANGED vars
  BY DEF Calm, Next, TickerStep, Environment, RemoveSource, DropCache, Happens

LEMMA CalmRemovesNone == Calm => NoneRemoved
  BY DEF Calm, NoneRemoved

LEMMA OnlyTicker == Uploads = {} => Scanners = {Ticker}
  BY DEF Scanners

(* A worker's step is about its own record, and nobody's source or walk. *)
LEMMA WorkerStepFrame ==
  ASSUME TypeInv, NEW w \in Workers, WorkerStep(w)
  PROVE  /\ \A v \in Workers : v # w => worker'[v] = worker[v]
         /\ UNCHANGED <<source, scan, phase>>
<1>1. UNCHANGED <<source, scan, phase>>
  BY DEF WorkerStep, Dequeue, WorkerExit, BeginPrepare, ProbeOk, ClearPartial, ProbeFails, StartTier,
     TierOk, TierFails, ReportFailure, LeaveCancelled, WriteMarker, SetReady, disk
<1>2. \A v \in Workers : v # w => worker'[v] = worker[v]
  BY DEF WorkerStep, Dequeue, WorkerExit, BeginPrepare, ProbeOk, ClearPartial, ProbeFails, StartTier,
     TierOk, TierFails, ReportFailure, LeaveCancelled, WriteMarker, SetReady, TypeInv, TypeOK
<1>3. QED
  BY <1>1, <1>2

(* What the walk's record is after each of its steps. *)
LEMMA ScanMoves ==
  ASSUME TypeInv, ScanStep(Ticker)
  PROVE  LET s == scan[Ticker]  t == scan'[Ticker] IN
         /\ UNCHANGED <<disk, writers, worker, phase>>
         /\ ListSources(Ticker) => t.at = "check" /\ t.todo = {n \in Names : source[n] # NoFile}
         /\ CheckKnown(Ticker) =>
              \E n \in s.todo :
                /\ t.todo = s.todo \ {n}
                /\ IF reg[n].status = "unknown" THEN t.at = "marker" /\ t.name = n ELSE t.at = "check"
         /\ ReadMarker(Ticker) =>
              /\ s.at = "marker" /\ t.name = s.name /\ t.todo = s.todo /\ t.tiers = marker[s.name]
              /\ t.at = IF marker[s.name] # {} THEN "adopt" ELSE "mark"
         /\ Adopt(Ticker) \/ Enqueue(Ticker) \/ RollBack(Ticker) => t.at = "check" /\ t.todo = s.todo
         /\ MarkPending(Ticker) => t.at = "enqueue" /\ t.name = s.name /\ t.todo = s.todo
         /\ QueueFull(Ticker) => t.at = "rollback" /\ t.name = s.name /\ t.todo = s.todo
         /\ EndScan(Ticker) => t.at \in {"sweep", "wait"} /\ t.todo = {}
<1> DEFINE s == scan[Ticker]
<1>1. s \in ScanRecord /\ DOMAIN scan = Scanners /\ Ticker \in Scanners
  BY DEF TypeInv, TypeOK, Scanners
<1>2. UNCHANGED <<disk, writers, worker, phase>>
  BY DEF ScanStep, ListSources, CheckKnown, ReadMarker, Adopt, MarkPending, Enqueue,
     QueueFull, RollBack, EndScan
<1>3. ListSources(Ticker) => scan'[Ticker].at = "check" /\ scan'[Ticker].todo = {n \in Names : source[n] # NoFile}
  BY <1>1 DEF ListSources, ScanRecord
<1>4. ASSUME CheckKnown(Ticker)
      PROVE  \E n \in s.todo :
                /\ scan'[Ticker].todo = s.todo \ {n}
                /\ IF reg[n].status = "unknown"
                   THEN scan'[Ticker].at = "marker" /\ scan'[Ticker].name = n
                   ELSE scan'[Ticker].at = "check"
  <2>1. PICK n \in s.todo :
          scan' = [scan EXCEPT ![Ticker] =
                     IF reg[n].status = "unknown"
                     THEN [@ EXCEPT !.todo = scan[Ticker].todo \ {n}, !.name = n, !.at = "marker"]
                     ELSE [@ EXCEPT !.todo = scan[Ticker].todo \ {n}]]
    BY <1>4 DEF CheckKnown
  <2>2. s.at = "check"
    BY <1>4 DEF CheckKnown
  <2>3. scan'[Ticker] = IF reg[n].status = "unknown"
                        THEN [s EXCEPT !.todo = s.todo \ {n}, !.name = n, !.at = "marker"]
                        ELSE [s EXCEPT !.todo = s.todo \ {n}]
    BY <1>1, <2>1
  <2>4. QED
    BY <1>1, <2>2, <2>3 DEF ScanRecord
<1>5. ASSUME ReadMarker(Ticker)
      PROVE  /\ s.at = "marker" /\ scan'[Ticker].name = s.name /\ scan'[Ticker].todo = s.todo
             /\ scan'[Ticker].tiers = marker[s.name]
             /\ scan'[Ticker].at = IF marker[s.name] # {} THEN "adopt" ELSE "mark"
  BY <1>1, <1>5 DEF ReadMarker, ScanRecord
<1>6. ASSUME Adopt(Ticker) \/ Enqueue(Ticker) \/ RollBack(Ticker)
      PROVE  scan'[Ticker].at = "check" /\ scan'[Ticker].todo = s.todo
  <2>1. scan' = [scan EXCEPT ![Ticker] = [@ EXCEPT !.at = "check", !.name = NoName, !.tiers = {}]]
    BY <1>6 DEF Adopt, Enqueue, RollBack, NextEntry
  <2>2. QED
    BY <1>1, <2>1 DEF ScanRecord
<1>7. MarkPending(Ticker) =>
        scan'[Ticker].at = "enqueue" /\ scan'[Ticker].name = s.name /\ scan'[Ticker].todo = s.todo
  BY <1>1 DEF MarkPending, Goto, ScanRecord
<1>8. QueueFull(Ticker) =>
        scan'[Ticker].at = "rollback" /\ scan'[Ticker].name = s.name /\ scan'[Ticker].todo = s.todo
  BY <1>1 DEF QueueFull, Goto, ScanRecord
<1>9. EndScan(Ticker) => scan'[Ticker].at \in {"sweep", "wait"} /\ scan'[Ticker].todo = {}
  BY <1>1 DEF EndScan, IdleScan
<1>10. QED
  BY <1>2, <1>3, <1>4, <1>5, <1>6, <1>7, <1>8, <1>9

(* ... and after each of the cleanup's. *)
LEMMA CleanupMoves ==
  ASSUME TypeInv, ListCache \/ StatSource \/ EndSweep \/ TickerExit
  PROVE  LET s == scan[Ticker]  t == scan'[Ticker] IN
         /\ UNCHANGED <<disk, writers, reg, queue, worker, phase>>
         /\ s.at \in {"sweep", "stat", "wait"}
         /\ t.at \in {"stat", "purge", "wait", "exited"}
         /\ t.todo \subseteq s.todo \cup {n \in Names : DirExists(n)}
         /\ t.at = "purge" => t.name \in s.todo /\ source[t.name] = NoFile
<1> DEFINE s == scan[Ticker]
<1>1. s \in ScanRecord /\ DOMAIN scan = Scanners /\ Ticker \in Scanners
  BY DEF TypeInv, TypeOK, Scanners
<1>2. UNCHANGED <<disk, writers, reg, queue, worker, phase>> /\ s.at \in {"sweep", "stat", "wait"}
  BY DEF ListCache, StatSource, EndSweep, TickerExit
<1>3. CASE ListCache
  BY <1>1, <1>2, <1>3 DEF ListCache, ScanRecord
<1>4. CASE StatSource
  <2>1. PICK n \in s.todo :
          scan' = [scan EXCEPT ![Ticker] =
                     IF source[n] = NoFile
                     THEN [@ EXCEPT !.todo = scan[Ticker].todo \ {n}, !.name = n, !.at = "purge"]
                     ELSE [@ EXCEPT !.todo = scan[Ticker].todo \ {n}]]
    BY <1>4 DEF StatSource
  <2>2. s.at = "stat"
    BY <1>4 DEF StatSource
  <2>3. scan'[Ticker] = IF source[n] = NoFile
                        THEN [s EXCEPT !.todo = s.todo \ {n}, !.name = n, !.at = "purge"]
                        ELSE [s EXCEPT !.todo = s.todo \ {n}]
    BY <1>1, <2>1
  <2>4. QED
    BY <1>1, <1>2, <2>2, <2>3 DEF ScanRecord
<1>5. CASE EndSweep \/ TickerExit
  BY <1>1, <1>2, <1>5 DEF EndSweep, TickerExit, IdleScan, Goto, ScanRecord
<1>6. QED
  BY <1>3, <1>4, <1>5

(* What a worker's record is after each of its steps. *)
LEMMA WorkerMoves ==
  ASSUME TypeInv, NEW w \in Workers, WorkerStep(w)
  PROVE  LET v == worker[w]  x == worker'[w] IN
         /\ Dequeue(w) => x.at = "picked" /\ x.name = Head(queue) /\ x.done = v.done
         /\ WorkerExit(w) => x.at = "exited" /\ x.name = v.name
         /\ BeginPrepare(w) => x.at = "probe" /\ x.name = v.name /\ x.done = v.done
         /\ ProbeOk(w) => /\ x.at = "clear" /\ x.name = v.name /\ x.done = v.done
                          /\ x.todo = Applicable(source[v.name])
         /\ ClearPartial(w) => /\ x.at = "tiers" /\ x.name = v.name /\ x.done = v.done
                               /\ x.todo = v.todo
         /\ ProbeFails(w) \/ ReportFailure(w) \/ LeaveCancelled(w) \/ SetReady(w) =>
              x.at = "idle" /\ x.name = NoName /\ x.done = {}
         /\ StartTier(w) =>
              \E q \in v.todo :
                /\ x.at = "ffmpeg" /\ x.name = v.name /\ x.done = v.done /\ x.todo = v.todo \ {q}
                /\ x.tier = q /\ x.reading = source[v.name]
                /\ rendition' = [rendition EXCEPT ![v.name][q] = Half]
                /\ writers' = [writers EXCEPT ![v.name][q] = @ \cup {w}]
         /\ TierOk(w) => /\ x.at = "tiers" /\ x.name = v.name /\ x.done = v.done \cup {v.tier}
                         /\ x.todo = v.todo
         /\ TierFails(w) => x.at = "aborted" /\ x.name = v.name
         /\ WriteMarker(w) => x.at = "marked" /\ x.name = v.name /\ x.done = v.done /\ x.todo = v.todo
<1> DEFINE v == worker[w]
<1>1. v \in WorkerRecord /\ DOMAIN worker = Workers
  BY DEF TypeInv, TypeOK
<1>2. Dequeue(w) => worker'[w].at = "picked" /\ worker'[w].name = Head(queue) /\ worker'[w].done = v.done
  BY <1>1 DEF Dequeue, WorkerRecord
<1>3. WorkerExit(w) => worker'[w].at = "exited" /\ worker'[w].name = v.name
  BY <1>1 DEF WorkerExit, WorkerRecord
<1>4. BeginPrepare(w) => worker'[w].at = "probe" /\ worker'[w].name = v.name /\ worker'[w].done = v.done
  BY <1>1 DEF BeginPrepare, WorkerRecord
<1>5. ProbeOk(w) => /\ worker'[w].at = "clear" /\ worker'[w].name = v.name /\ worker'[w].done = v.done
                    /\ worker'[w].todo = Applicable(source[v.name])
  BY <1>1 DEF ProbeOk, WorkerRecord
<1>6. ProbeFails(w) \/ ReportFailure(w) \/ LeaveCancelled(w) \/ SetReady(w) =>
        worker'[w].at = "idle" /\ worker'[w].name = NoName /\ worker'[w].done = {}
  BY <1>1 DEF ProbeFails, ReportFailure, LeaveCancelled, SetReady, IdleWorker
<1>7. ASSUME StartTier(w)
      PROVE  \E q \in v.todo :
                /\ worker'[w].at = "ffmpeg" /\ worker'[w].name = v.name /\ worker'[w].done = v.done
                /\ worker'[w].todo = v.todo \ {q}
                /\ worker'[w].tier = q /\ worker'[w].reading = source[v.name]
                /\ rendition' = [rendition EXCEPT ![v.name][q] = Half]
                /\ writers' = [writers EXCEPT ![v.name][q] = @ \cup {w}]
  <2>1. PICK q \in v.todo :
          /\ rendition' = [rendition EXCEPT ![v.name][q] = Half]
          /\ writers' = [writers EXCEPT ![v.name][q] = @ \cup {w}]
          /\ worker' = [worker EXCEPT ![w] = [@ EXCEPT !.at = "ffmpeg", !.tier = q,
                                     !.todo = worker[w].todo \ {q},
                                     !.reading = source[worker[w].name]]]
    BY <1>7 DEF StartTier
  <2>2. worker'[w] = [v EXCEPT !.at = "ffmpeg", !.tier = q, !.todo = v.todo \ {q},
                               !.reading = source[v.name]]
    BY <1>1, <2>1
  <2>3. QED
    BY <1>1, <2>1, <2>2 DEF WorkerRecord
<1>8. TierOk(w) => /\ worker'[w].at = "tiers" /\ worker'[w].name = v.name
                   /\ worker'[w].done = v.done \cup {v.tier} /\ worker'[w].todo = v.todo
  BY <1>1 DEF TierOk, WorkerRecord
<1>9. TierFails(w) => worker'[w].at = "aborted" /\ worker'[w].name = v.name
  BY <1>1 DEF TierFails, WorkerRecord
<1>10. WriteMarker(w) => /\ worker'[w].at = "marked" /\ worker'[w].name = v.name
                         /\ worker'[w].done = v.done /\ worker'[w].todo = v.todo
  BY <1>1 DEF WriteMarker, WorkerRecord
<1>11. ClearPartial(w) => /\ worker'[w].at = "tiers" /\ worker'[w].name = v.name
                          /\ worker'[w].done = v.done /\ worker'[w].todo = v.todo
  BY <1>1 DEF ClearPartial, WorkerRecord
<1>12. QED
  BY <1>2, <1>3, <1>4, <1>5, <1>6, <1>7, <1>8, <1>9, <1>10, <1>11

-----------------------------------------------------------------------------
(***************************************************************************)
(* Who holds a name                                                        *)
(***************************************************************************)

Present(n) == source[n] \in Contents

(* A name is in one pair of hands: the walk's, the queue's or a worker's;  *)
(* and the registry says which.                                            *)
QueuedPending == \A n \in Names : Queued(n) => reg[n].status = "pending"

WorkersHold ==
  \A w \in Workers :
    /\ worker[w].at \in {"idle", "exited"} => worker[w].name = NoName
    /\ worker[w].at = "picked" => reg[worker[w].name].status = "pending"
    /\ worker[w].at \in Preparing => reg[worker[w].name].status = "transcoding"

WalkHolds ==
  LET n == scan[Ticker].name IN
  /\ scan[Ticker].at \in {"marker", "adopt", "mark"} => reg[n].status = "unknown"
  /\ scan[Ticker].at \in {"enqueue", "rollback"} =>
       reg[n].status = "pending" /\ ~Queued(n) /\ \A w \in Workers : worker[w].name # n

ClaimsInv == QueuedPending /\ WorkersHold /\ WalkHolds /\ SingleOwner

(* The same, where the registry is right only of the names in T. *)
QueuedPendingOf(T) == \A n \in T : Queued(n) => reg[n].status = "pending"

WorkersHoldOf(T) ==
  \A w \in Workers :
    /\ worker[w].at \in {"idle", "exited"} => worker[w].name = NoName
    /\ worker[w].name \in T =>
         /\ worker[w].at = "picked" => reg[worker[w].name].status = "pending"
         /\ worker[w].at \in Preparing => reg[worker[w].name].status = "transcoding"

ClaimsOf(T) == QueuedPendingOf(T) /\ WorkersHoldOf(T) /\ WalkHolds /\ SingleOwner

AtWalked == {"marker", "adopt", "mark", "enqueue", "rollback"}

(* What is known, cached or about to be looked at has a source; so the     *)
(* cleanup finds nothing to remove.                                        *)
PresenceInv ==
  /\ \A n \in Names : reg[n].status # "unknown" \/ DirExists(n) => Present(n)
  /\ \A n \in scan[Ticker].todo : Present(n)
  /\ scan[Ticker].at \in AtName => Present(scan[Ticker].name)
  /\ scan[Ticker].at \notin {"purge", "forget"}

(* Taking the head of a queue without repetitions takes the name out. *)
LEMMA DequeueTakes ==
  ASSUME queue \in Seq(Names), queue # <<>>, queue' = Tail(queue), NEW m, m = Head(queue),
         \A i, j \in 1 .. Len(queue) : queue[i] = queue[j] => i = j
  PROVE  /\ m \in Names /\ Queued(m) /\ ~Queued(m)'
         /\ \A n : Queued(n)' => Queued(n)
         /\ \A i, j \in 1 .. Len(queue') : queue'[i] = queue'[j] => i = j
<1>1. Len(queue) \in Nat /\ Len(queue) > 0 /\ m = queue[1] /\ m \in Names
  OBVIOUS
<1>2. Len(queue') = Len(queue) - 1 /\ \A i \in 1 .. Len(queue') : queue'[i] = queue[i + 1]
  BY <1>1
<1>3. \A i \in 1 .. Len(queue') : i + 1 \in 1 .. Len(queue) /\ i + 1 # 1
  BY <1>1, <1>2
<1>4. Queued(m)
  BY <1>1 DEF Queued
<1>5. ~Queued(m)'
  <2> SUFFICES ASSUME NEW i \in 1 .. Len(queue'), queue'[i] = m PROVE FALSE
    BY DEF Queued
  <2>1. queue[i + 1] = queue[1] /\ 1 \in 1 .. Len(queue)
    BY <1>1, <1>2
  <2>2. QED
    BY <1>3, <2>1
<1>6. \A n : Queued(n)' => Queued(n)
  BY <1>2, <1>3 DEF Queued
<1>7. \A i, j \in 1 .. Len(queue') : queue'[i] = queue'[j] => i = j
  <2> SUFFICES ASSUME NEW i \in 1 .. Len(queue'), NEW j \in 1 .. Len(queue'), queue'[i] = queue'[j]
               PROVE  i = j
    OBVIOUS
  <2>1. i + 1 = j + 1
    BY <1>2, <1>3
  <2>2. QED
    BY <1>1, <1>2, <2>1
<1>8. QED
  BY <1>1, <1>4, <1>5, <1>6, <1>7

(* Appending a name that is not in the queue keeps it free of repetitions. *)
LEMMA EnqueueAdds ==
  ASSUME queue \in Seq(Names), NEW m \in Names, ~Queued(m), queue' = Append(queue, m),
         \A i, j \in 1 .. Len(queue) : queue[i] = queue[j] => i = j
  PROVE  /\ \A n : Queued(n)' => n = m \/ Queued(n)
         /\ \A i, j \in 1 .. Len(queue') : queue'[i] = queue'[j] => i = j
<1>1. /\ Len(queue) \in Nat /\ Len(queue') = Len(queue) + 1 /\ queue'[Len(queue) + 1] = m
      /\ \A i \in 1 .. Len(queue) : queue'[i] = queue[i] /\ queue[i] # m
  BY DEF Queued
<1>2. \A i \in 1 .. Len(queue') : i \in 1 .. Len(queue) \/ i = Len(queue) + 1
  BY <1>1
<1>3. \A n : Queued(n)' => n = m \/ Queued(n)
  BY <1>1, <1>2 DEF Queued
<1>4. QED
  BY <1>1, <1>2, <1>3

LEMMA NoRepetition ==
  ASSUME TypeInv
  PROVE  (\A n \in Names : \A i, j \in 1 .. Len(queue) : queue[i] = n /\ queue[j] = n => i = j)
         <=> \A i, j \in 1 .. Len(queue) : queue[i] = queue[j] => i = j
<1>1. \A i \in 1 .. Len(queue) : queue[i] \in Names
  BY DEF TypeInv, TypeOK
<1>2. QED
  BY <1>1

LEMMA EntrySet ==
  ASSUME TypeInv, NEW n \in Names, NEW e, SetEntry(n, e)
  PROVE  \A m \in Names : reg'[m] = IF m = n THEN e ELSE reg[m]
  BY DEF TypeInv, TypeOK, SetEntry

(* Of a name that nobody holds, nobody holds it. *)
LEMMA UnknownIsFree ==
  ASSUME TypeInv, NEW T \in SUBSET Names, ClaimsOf(T), NEW n \in T, reg[n].status \notin {"pending", "transcoding"}
  PROVE  ~Queued(n) /\ \A w \in Workers : worker[w].name # n
<1>1. ~Queued(n)
  BY DEF ClaimsOf, QueuedPendingOf
<1>2. ASSUME NEW w \in Workers, worker[w].name = n
      PROVE  FALSE
  <2>1. worker[w].at \in WorkerPoints
    BY DEF TypeInv, TypeOK, WorkerRecord
  <2>2. n # NoName
    BY NamesAssumption
  <2>3. QED
    BY <1>2, <2>1, <2>2 DEF ClaimsOf, WorkersHoldOf, WorkerPoints
<1>3. QED
  BY <1>1, <1>2

LEMMA ScanStepClaims ==
  ASSUME TypeInv, NEW T \in SUBSET Names, ClaimsOf(T), ScanStep(Ticker),
         scan[Ticker].at \in AtWalked => scan[Ticker].name \in T
  PROVE  ClaimsOf(T)'
<1> DEFINE s == scan[Ticker]
<1>1. UNCHANGED <<disk, writers, worker, phase>>
  BY ScanMoves
<1>2. Ticker \in Scanners
  BY DEF Scanners
<1>3. CASE ListSources(Ticker) \/ CheckKnown(Ticker) \/ ReadMarker(Ticker) \/ QueueFull(Ticker) \/ EndScan(Ticker)
  <2>1. UNCHANGED <<reg, queue>>
    BY <1>3 DEF ListSources, CheckKnown, ReadMarker, QueueFull, EndScan
  <2>2. QueuedPendingOf(T)' /\ WorkersHoldOf(T)' /\ SingleOwner'
    BY <1>1, <2>1 DEF ClaimsOf, QueuedPendingOf, WorkersHoldOf, SingleOwner, Queued
  <2>3. WalkHolds'
    <3>1. CASE ListSources(Ticker) \/ EndScan(Ticker)
      BY <3>1, ScanMoves DEF WalkHolds
    <3>2. CASE CheckKnown(Ticker)
      BY <2>1, <3>2, ScanMoves DEF WalkHolds
    <3>3. CASE ReadMarker(Ticker)
      <4>1. reg[s.name].status = "unknown"
        BY <3>3, ScanMoves DEF ClaimsOf, WalkHolds
      <4>2. QED
        BY <2>1, <3>3, <4>1, ScanMoves DEF WalkHolds
    <3>4. CASE QueueFull(Ticker)
      <4>1. s.at = "enqueue" /\ scan'[Ticker].at = "rollback" /\ scan'[Ticker].name = s.name
        BY <3>4, ScanMoves DEF QueueFull
      <4>2. QED
        BY <1>1, <2>1, <4>1 DEF ClaimsOf, WalkHolds, Queued
    <3>5. QED
      BY <1>3, <3>1, <3>2, <3>3, <3>4
  <2>4. QED
    BY <2>2, <2>3 DEF ClaimsOf
<1>4. CASE Adopt(Ticker) \/ MarkPending(Ticker) \/ RollBack(Ticker)
  <2>1. PICK n \in T : n = s.name
    BY <1>4 DEF Adopt, MarkPending, RollBack, AtWalked
  <2>2. queue' = queue
    BY <1>4 DEF Adopt, MarkPending, RollBack
  <2>3. ~Queued(n) /\ \A w \in Workers : worker[w].name # n
    <3>1. CASE Adopt(Ticker) \/ MarkPending(Ticker)
      <4>1. reg[n].status = "unknown"
        BY <2>1, <3>1 DEF Adopt, MarkPending, ClaimsOf, WalkHolds
      <4>2. QED
        BY <4>1, UnknownIsFree
    <3>2. CASE RollBack(Ticker)
      BY <2>1, <3>2 DEF RollBack, ClaimsOf, WalkHolds
    <3>3. QED
      BY <1>4, <3>1, <3>2
  <2>4. \A m \in Names : m # n => reg'[m] = reg[m]
    BY <1>4, <2>1, EntrySet DEF Adopt, MarkPending, RollBack
  <2>5. QueuedPendingOf(T)'
    BY <2>2, <2>3, <2>4 DEF ClaimsOf, QueuedPendingOf, Queued
  <2>6. WorkersHoldOf(T)'
    <3>1. \A w \in Workers : worker[w].at \notin {"idle", "exited"} => worker[w].name \in Names
      BY DEF TypeInv, Located
    <3>2. QED
      BY <1>1, <2>3, <2>4, <3>1 DEF ClaimsOf, WorkersHoldOf, Preparing
  <2>7. WalkHolds'
    <3>1. CASE Adopt(Ticker) \/ RollBack(Ticker)
      BY <3>1, ScanMoves DEF WalkHolds
    <3>2. CASE MarkPending(Ticker)
      <4>1. reg'[n].status = "pending"
        BY <2>1, <3>2, EntrySet DEF MarkPending, Entry
      <4>2. scan'[Ticker].name = n /\ scan'[Ticker].at = "enqueue"
        BY <2>1, <3>2, ScanMoves
      <4>3. QED
        BY <1>1, <2>2, <2>3, <4>1, <4>2 DEF WalkHolds, Queued
    <3>3. QED
      BY <1>4, <3>1, <3>2
  <2>8. SingleOwner'
    BY <1>1, <2>2 DEF ClaimsOf, SingleOwner, Queued
  <2>9. QED
    BY <2>5, <2>6, <2>7, <2>8 DEF ClaimsOf
<1>5. CASE Enqueue(Ticker)
  <2>1. PICK n \in T : n = s.name
    BY <1>5 DEF Enqueue, AtWalked
  <2>2. reg' = reg /\ queue' = Append(queue, n)
    BY <1>5, <2>1 DEF Enqueue
  <2>3. reg[n].status = "pending" /\ ~Queued(n) /\ \A w \in Workers : worker[w].name # n
    BY <1>5, <2>1 DEF Enqueue, ClaimsOf, WalkHolds
  <2>4. queue \in Seq(Names) /\ \A i, j \in 1 .. Len(queue) : queue[i] = queue[j] => i = j
    BY NoRepetition DEF TypeInv, TypeOK, ClaimsOf, SingleOwner
  <2>5. /\ \A m : Queued(m)' => m = n \/ Queued(m)
        /\ \A i, j \in 1 .. Len(queue') : queue'[i] = queue'[j] => i = j
    BY <2>2, <2>3, <2>4, EnqueueAdds
  <2>6. QueuedPendingOf(T)' /\ WorkersHoldOf(T)'
    BY <1>1, <2>2, <2>3, <2>5 DEF ClaimsOf, QueuedPendingOf, WorkersHoldOf
  <2>7. WalkHolds'
    BY <1>5, ScanMoves DEF WalkHolds
  <2>8. SingleOwner'
    BY <1>1, <2>3, <2>5 DEF ClaimsOf, SingleOwner
  <2>9. QED
    BY <2>6, <2>7, <2>8 DEF ClaimsOf
<1>6. QED
  BY <1>3, <1>4, <1>5 DEF ScanStep

LEMMA WorkerStepClaims ==
  ASSUME TypeInv, NEW T \in SUBSET Names, ClaimsOf(T), NEW w \in Workers, WorkerStep(w),
         scan[Ticker].at \in AtWalked => scan[Ticker].name \in T
  PROVE  ClaimsOf(T)'
<1> DEFINE n == worker[w].name
<1>1. /\ \A v \in Workers : v # w => worker'[v] = worker[v]
      /\ UNCHANGED <<source, scan, phase>>
  BY WorkerStepFrame
<1>2. \A v \in Workers : worker[v].at \notin {"idle", "exited"} => worker[v].name \in Names
  BY DEF TypeInv, Located
<1>3. CASE Dequeue(w)
  <2>1. PICK m \in Names : m = Head(queue)
    BY <1>3 DEF Dequeue, TypeInv, TypeOK
  <2>2. queue \in Seq(Names) /\ \A i, j \in 1 .. Len(queue) : queue[i] = queue[j] => i = j
    BY NoRepetition DEF TypeInv, TypeOK, ClaimsOf, SingleOwner
  <2>3. queue # <<>> /\ queue' = Tail(queue) /\ reg' = reg
    BY <1>3 DEF Dequeue
  <2>4. /\ Queued(m) /\ ~Queued(m)'
        /\ \A k : Queued(k)' => Queued(k)
        /\ \A i, j \in 1 .. Len(queue') : queue'[i] = queue'[j] => i = j
    BY <2>1, <2>2, <2>3, DequeueTakes
  <2>5. worker'[w].at = "picked" /\ worker'[w].name = m
    BY <1>3, <2>1, WorkerMoves
  <2>6. (m \in T => reg[m].status = "pending") /\ \A v \in Workers : worker[v].name # m
    BY <2>1, <2>4 DEF ClaimsOf, QueuedPendingOf, SingleOwner
  <2>7. QueuedPendingOf(T)'
    BY <2>3, <2>4 DEF ClaimsOf, QueuedPendingOf
  <2>8. WorkersHoldOf(T)'
    BY <1>1, <2>3, <2>5, <2>6 DEF ClaimsOf, WorkersHoldOf, Preparing
  <2>9. WalkHolds'
    BY <1>1, <2>3, <2>4, <2>5 DEF ClaimsOf, WalkHolds
  <2>10. SingleOwner'
    <3>1. \A v, x \in Workers, k \in Names : worker'[v].name = k /\ worker'[x].name = k => v = x
      BY <1>1, <2>5, <2>6 DEF ClaimsOf, SingleOwner
    <3>2. \A k \in Names : Queued(k)' => \A v \in Workers : worker'[v].name # k
      BY <1>1, <2>4, <2>5, <2>6 DEF ClaimsOf, SingleOwner
    <3>3. QED
      BY <2>4, <3>1, <3>2 DEF SingleOwner
  <2>11. QED
    BY <2>7, <2>8, <2>9, <2>10 DEF ClaimsOf
<1>4. CASE ~Dequeue(w)
  <2>1. queue' = queue
    BY <1>4 DEF WorkerStep, WorkerExit, BeginPrepare, ProbeOk, ClearPartial, ProbeFails, StartTier,
       TierOk, TierFails, ReportFailure, LeaveCancelled, WriteMarker, SetReady
  <2>2. worker'[w].name \in {n, NoName}
    BY <1>4, WorkerMoves DEF WorkerStep
  <2>3. SingleOwner'
    BY <1>1, <2>1, <2>2, NamesAssumption DEF ClaimsOf, SingleOwner, Queued
  <2>4. CASE WorkerExit(w)
    <3>1. reg' = reg /\ worker[w].at = "idle" /\ worker'[w].at = "exited" /\ worker'[w].name = n
      BY <2>4, WorkerMoves DEF WorkerExit
    <3>2. WorkersHoldOf(T)'
      BY <1>1, <3>1 DEF ClaimsOf, WorkersHoldOf, Preparing
    <3>3. QueuedPendingOf(T)' /\ WalkHolds'
      BY <1>1, <2>1, <3>1 DEF ClaimsOf, QueuedPendingOf, WalkHolds, Queued
    <3>4. QED
      BY <2>3, <3>2, <3>3 DEF ClaimsOf
  <2>5. CASE ~WorkerExit(w)
    <3>1. worker[w].at \in {"picked"} \cup Preparing
      BY <1>4, <2>5 DEF WorkerStep, BeginPrepare, ProbeOk, ClearPartial, ProbeFails, StartTier,
         TierOk, TierFails, ReportFailure, LeaveCancelled, WriteMarker, SetReady, Preparing
    <3>2. n \in Names /\ (n \in T => reg[n].status \in {"pending", "transcoding"})
      BY <1>2, <3>1 DEF ClaimsOf, WorkersHoldOf, Preparing
    <3>3. ~Queued(n) /\ \A v \in Workers : v # w => worker[v].name # n
      BY <3>2 DEF ClaimsOf, SingleOwner
    <3>4. \A m \in Names : m # n => reg'[m] = reg[m]
      BY <1>4, <2>5, <3>2, EntrySet DEF WorkerStep, BeginPrepare, ProbeOk, ClearPartial, ProbeFails, StartTier,
         TierOk, TierFails, ReportFailure, LeaveCancelled, WriteMarker, SetReady
    <3>5. QueuedPendingOf(T)'
      BY <2>1, <3>3, <3>4 DEF ClaimsOf, QueuedPendingOf, Queued
    <3>6. WalkHolds'
      <4>1. scan[Ticker].at \in AtName => scan[Ticker].name \in Names
        BY DEF TypeInv, Located, Scanners
      <4>2. scan[Ticker].at \in {"marker", "adopt", "mark", "enqueue", "rollback"} => scan[Ticker].name # n
        BY <3>2 DEF ClaimsOf, WalkHolds, AtWalked
      <4>3. \A m \in Names : m # n /\ (\A v \in Workers : worker[v].name # m)
                               => \A v \in Workers : worker'[v].name # m
        BY <1>1, <2>2, NamesAssumption
      <4>4. QED
        BY <1>1, <2>1, <3>4, <4>1, <4>2, <4>3 DEF ClaimsOf, WalkHolds, Queued, AtName
    <3>7. WorkersHoldOf(T)'
      <4>1. \A v \in Workers : v # w /\ worker[v].at \notin {"idle", "exited"} =>
              worker'[v] = worker[v] /\ reg'[worker[v].name] = reg[worker[v].name]
        BY <1>1, <1>2, <3>3, <3>4
      <4>2. CASE BeginPrepare(w)
        <5>1. worker'[w].at = "probe" /\ worker'[w].name = n
          BY <4>2, WorkerMoves
        <5>2. reg'[n] = Entry("transcoding", {})
          BY <3>2, <4>2, EntrySet DEF BeginPrepare
        <5>3. QED
          BY <1>1, <4>1, <5>1, <5>2 DEF Entry, ClaimsOf, WorkersHoldOf, Preparing
      <4>3. CASE ProbeFails(w) \/ ReportFailure(w) \/ LeaveCancelled(w) \/ SetReady(w)
        <5>1. worker'[w].at = "idle" /\ worker'[w].name = NoName
          BY <4>3, WorkerMoves
        <5>2. QED
          BY <1>1, <4>1, <5>1 DEF ClaimsOf, WorkersHoldOf, Preparing
      <4>4. CASE \/ ProbeOk(w) \/ ClearPartial(w) \/ StartTier(w)
                 \/ TierOk(w) \/ TierFails(w) \/ WriteMarker(w)
        <5>1. reg' = reg /\ worker[w].at \in Preparing
          BY <4>4 DEF ProbeOk, ClearPartial, StartTier, TierOk, TierFails, WriteMarker, Preparing
        <5>2. worker'[w].at \in Preparing /\ worker'[w].name = n
          BY <4>4, WorkerMoves DEF Preparing
        <5>3. QED
          BY <1>1, <4>1, <5>1, <5>2 DEF ClaimsOf, WorkersHoldOf, Preparing
      <4>5. QED
        BY <1>4, <2>5, <4>2, <4>3, <4>4 DEF WorkerStep
    <3>8. QED
      BY <2>3, <3>5, <3>6, <3>7 DEF ClaimsOf
  <2>6. QED
    BY <2>4, <2>5
<1>5. QED
  BY <1>3, <1>4

(* A process that starts knows nothing and holds nothing. *)
LEMMA FreshClaims ==
  ASSUME TypeInv, reg' = FreshReg, queue' = <<>>, scan' = FreshScan, worker' = FreshWorker
  PROVE  ClaimsInv'
<1>1. \A n : ~Queued(n)'
  BY DEF Queued
<1>2. scan'[Ticker].at = "start"
  BY DEF FreshScan, IdleScan, Scanners
<1>3. \A w \in Workers : worker'[w].at = "idle" /\ worker'[w].name = NoName
  BY DEF FreshWorker, IdleWorker
<1>4. QueuedPending' /\ WorkersHold' /\ WalkHolds'
  BY <1>1, <1>2, <1>3 DEF QueuedPending, WorkersHold, WalkHolds, Preparing
<1>5. SingleOwner'
  BY <1>1, <1>3, NamesAssumption DEF SingleOwner
<1>6. QED
  BY <1>4, <1>5 DEF ClaimsInv

LEMMA InitClaims == Init => ClaimsInv
<1> SUFFICES ASSUME Init PROVE ClaimsInv
  OBVIOUS
<1>1. \A n : ~Queued(n)
  BY DEF Init, Queued
<1>2. scan[Ticker].at = "start"
  BY DEF Init, FreshScan, IdleScan, Scanners
<1>3. \A w \in Workers : worker[w].at = "idle" /\ worker[w].name = NoName
  BY DEF Init, FreshWorker, IdleWorker
<1>4. QueuedPending /\ WorkersHold /\ WalkHolds
  <2>1. QueuedPending
    BY <1>1 DEF QueuedPending
  <2>2. WorkersHold
    BY <1>3 DEF WorkersHold, Preparing
  <2>3. WalkHolds
    BY <1>2 DEF WalkHolds
  <2>4. QED
    BY <2>1, <2>2, <2>3
<1>5. SingleOwner
  BY <1>1, <1>3, NamesAssumption DEF SingleOwner, Queued
<1>6. QED
  BY <1>4, <1>5 DEF ClaimsInv

(* A walk that is not at a name may go on wherever it holds none. *)
LEMMA WalkAlone ==
  ASSUME ClaimsInv, UNCHANGED <<reg, queue, worker>>,
         scan'[Ticker].at \in {"wait", "sweep", "stat", "purge", "exited"} \/ scan'[Ticker] = scan[Ticker]
  PROVE  ClaimsInv'
<1>1. QueuedPending' /\ WorkersHold' /\ SingleOwner'
  BY DEF ClaimsInv, QueuedPending, WorkersHold, SingleOwner, Queued
<1>2. WalkHolds'
  BY DEF ClaimsInv, WalkHolds, Queued
<1>3. QED
  BY <1>1, <1>2 DEF ClaimsInv

LEMMA UnreadableMoves ==
  ASSUME Uploads = {}, TypeInv, SourcesUnreadable
  PROVE  /\ UNCHANGED <<disk, writers, reg, queue, worker, phase>>
         /\ scan'[Ticker].at \in {"wait", "sweep"} /\ scan'[Ticker].todo = {}
<1>1. scan' = [scan EXCEPT ![Ticker] = IdleScan(CASE Ticker # Ticker -> "idle"
                                                 [] Ticker = Ticker /\ scan[Ticker].at = "wait" -> "sweep"
                                                 [] OTHER -> "wait")]
  BY OnlyTicker DEF SourcesUnreadable
<1>2. QED
  BY <1>1 DEF SourcesUnreadable, IdleScan, TypeInv, TypeOK, Scanners

(* For all names that is ClaimsInv. *)
LEMMA AllNames ==
  /\ TypeInv => (ClaimsOf(Names) <=> ClaimsInv)
  /\ scan[Ticker].at \in AtWalked /\ TypeInv => scan[Ticker].name \in Names
<1>1. ASSUME TypeInv PROVE QueuedPendingOf(Names) /\ WorkersHoldOf(Names) <=> QueuedPending /\ WorkersHold
  <2>1. \A w \in Workers : worker[w].at \notin {"idle", "exited"} => worker[w].name \in Names
    BY <1>1 DEF TypeInv, Located
  <2>2. QED
    BY <2>1 DEF QueuedPendingOf, WorkersHoldOf, QueuedPending, WorkersHold, Preparing
<1>2. scan[Ticker].at \in AtWalked /\ TypeInv => scan[Ticker].name \in Names
  BY DEF AtWalked, AtName, TypeInv, Located, Scanners
<1>3. QED
  BY <1>1, <1>2 DEF ClaimsOf, ClaimsInv

LEMMA StepClaims ==
  ASSUME TypeInv, TypeInv', ClaimsInv, ScanStep(Ticker) \/ \E w \in Workers : WorkerStep(w)
  PROVE  ClaimsInv'
<1>1. ClaimsOf(Names) /\ (scan[Ticker].at \in AtWalked => scan[Ticker].name \in Names)
  BY AllNames
<1>2. ClaimsOf(Names)'
  BY <1>1, ScanStepClaims, WorkerStepClaims
<1>3. TypeInv' => (ClaimsOf(Names)' <=> ClaimsInv')
  BY AllNames, PTL
<1>4. QED
  BY <1>2, <1>3

LEMMA NextClaims ==
  ASSUME NoneRemoved, TypeInv, ClaimsInv, PresenceInv, [Next]_vars
  PROVE  ClaimsInv'
<1>1. CASE ScanStep(Ticker)
  BY <1>1, StepClaims, NextTyped
<1>2. CASE ListCache \/ StatSource \/ EndSweep \/ TickerExit
  BY <1>2, CleanupMoves, WalkAlone
<1>3. CASE PurgeCache \/ Forget
  BY <1>3 DEF PurgeCache, Forget, PresenceInv
<1>4. CASE \E w \in Workers : WorkerStep(w)
  BY <1>4, StepClaims, NextTyped
<1>5. CASE Crash \/ Exit
  BY <1>5, FreshClaims DEF Crash, Exit, LoseMemory
<1>6. CASE SourcesUnreadable
  BY <1>6, UnreadableMoves, WalkAlone DEF NoneRemoved
<1>7. CASE Stop \/ Start \/ AddSource \/ DropCache \/ UNCHANGED vars
  BY <1>7, WalkAlone DEF Stop, Start, AddSource, DropCache, memory, vars
<1>8. ~RemoveSource
  BY DEF NoneRemoved, RemoveSource, Happens
<1>9. QED
  BY <1>1, <1>2, <1>3, <1>4, <1>5, <1>6, <1>7, <1>8, QuietSteps DEF NoneRemoved

-----------------------------------------------------------------------------
(***************************************************************************)
(* What has a source                                                       *)
(***************************************************************************)

LEMMA PresentIsThere ==
  ASSUME TypeInv, NEW n \in Names
  PROVE  Present(n) <=> source[n] # NoFile
  BY FileAssumption DEF TypeInv, TypeOK, Located, SourcesAreWhole, File, Present

LEMMA InitPresence == Init => PresenceInv
<1> SUFFICES ASSUME Init PROVE PresenceInv
  OBVIOUS
<1>1. scan[Ticker] = IdleScan("start")
  BY DEF Init, FreshScan, Scanners
<1>2. \A n \in Names : reg[n].status = "unknown" /\ ~DirExists(n)
  BY DEF Init, FreshReg, Unknown, Entry, DirExists
<1>3. QED
  BY <1>1, <1>2 DEF PresenceInv, IdleScan, AtName

LEMMA ScanStepPresence ==
  ASSUME TypeInv, PresenceInv, ScanStep(Ticker)
  PROVE  PresenceInv'
<1> DEFINE s == scan[Ticker]
<1>1. UNCHANGED <<source, temp, rendition, marker>>
  BY ScanMoves DEF disk
<1>2. \A n \in Names : (Present(n)' <=> Present(n)) /\ (DirExists(n)' <=> DirExists(n))
  BY <1>1 DEF Present, DirExists
<1>3. s.todo \subseteq Names /\ \A n \in s.todo : Present(n)
  BY DEF TypeInv, TypeOK, ScanRecord, Scanners, PresenceInv
<1>4. \A n \in scan'[Ticker].todo : n \in Names /\ Present(n)
  <2>1. CASE ListSources(Ticker)
    BY <2>1, ScanMoves, PresentIsThere
  <2>2. CASE CheckKnown(Ticker)
    BY <1>3, <2>2, ScanMoves
  <2>3. CASE ~ListSources(Ticker) /\ ~CheckKnown(Ticker)
    BY <1>3, <2>3, ScanMoves DEF ScanStep
  <2>4. QED
    BY <2>1, <2>2, <2>3
<1>5. /\ scan'[Ticker].at \in AtName => scan'[Ticker].name \in Names /\ Present(scan'[Ticker].name)
      /\ scan'[Ticker].at \notin {"purge", "forget"}
  <2>1. CASE CheckKnown(Ticker)
    BY <1>3, <2>1, ScanMoves DEF AtName
  <2>2. CASE ReadMarker(Ticker) \/ MarkPending(Ticker) \/ QueueFull(Ticker)
    <3>1. s.at \in AtName
      BY <2>2 DEF ReadMarker, MarkPending, QueueFull, AtName
    <3>2. s.name \in Names /\ Present(s.name)
      BY <3>1 DEF PresenceInv, TypeInv, Located, Scanners
    <3>3. QED
      BY <2>2, <3>2, ScanMoves
  <2>3. CASE ListSources(Ticker) \/ Adopt(Ticker) \/ Enqueue(Ticker) \/ RollBack(Ticker) \/ EndScan(Ticker)
    BY <2>3, ScanMoves DEF AtName
  <2>4. QED
    BY <2>1, <2>2, <2>3 DEF ScanStep
<1>6. \A n \in Names : reg'[n].status # "unknown" => reg[n].status # "unknown" \/ Present(n)
  <2>1. CASE Adopt(Ticker) \/ MarkPending(Ticker) \/ RollBack(Ticker)
    <3>1. s.at \in AtName
      BY <2>1 DEF Adopt, MarkPending, RollBack, AtName
    <3>2. s.name \in Names /\ Present(s.name)
      BY <3>1 DEF PresenceInv, TypeInv, Located, Scanners
    <3>3. \A m \in Names : m # s.name => reg'[m] = reg[m]
      BY <2>1, <3>2, EntrySet DEF Adopt, MarkPending, RollBack
    <3>4. QED
      BY <3>2, <3>3
  <2>2. CASE ~Adopt(Ticker) /\ ~MarkPending(Ticker) /\ ~RollBack(Ticker)
    BY <2>2 DEF ScanStep, ListSources, CheckKnown, ReadMarker, Enqueue, QueueFull, EndScan
  <2>3. QED
    BY <2>1, <2>2
<1>7. QED
  BY <1>2, <1>4, <1>5, <1>6 DEF PresenceInv

LEMMA WorkerStepPresence ==
  ASSUME TypeInv, ClaimsInv, PresenceInv, NEW w \in Workers, WorkerStep(w)
  PROVE  PresenceInv'
<1> DEFINE n == worker[w].name
<1>1. UNCHANGED <<source, scan, phase>>
  BY WorkerStepFrame
<1>2. \A m \in Names : Present(m)' <=> Present(m)
  BY <1>1 DEF Present
<1>3. CASE Dequeue(w) \/ WorkerExit(w)
  <2>1. UNCHANGED <<reg, rendition, marker>>
    BY <1>3 DEF Dequeue, WorkerExit, disk
  <2>2. QED
    BY <1>1, <1>2, <2>1 DEF PresenceInv, DirExists, Present
<1>4. CASE ~Dequeue(w) /\ ~WorkerExit(w)
  <2>1. worker[w].at \in {"picked"} \cup Preparing
    BY <1>4 DEF WorkerStep, BeginPrepare, ProbeOk, ClearPartial, ProbeFails, StartTier,
       TierOk, TierFails, ReportFailure, LeaveCancelled, WriteMarker, SetReady, Preparing
  <2>2. n \in Names /\ reg[n].status \in {"pending", "transcoding"}
    BY <2>1 DEF ClaimsInv, WorkersHold, Preparing, TypeInv, Located
  <2>3. Present(n)
    BY <2>2 DEF PresenceInv
  <2>4. \A m \in Names : m # n => reg'[m] = reg[m]
    BY <1>4, <2>2, EntrySet DEF WorkerStep, BeginPrepare, ProbeOk, ClearPartial, ProbeFails, StartTier,
       TierOk, TierFails, ReportFailure, LeaveCancelled, WriteMarker, SetReady
  <2>5. \A m \in Names : m # n => rendition'[m] = rendition[m] /\ marker'[m] = marker[m]
    <3>1. CASE StartTier(w)
      BY <3>1, WorkerMoves DEF StartTier, TypeInv, TypeOK
    <3>2. CASE ~StartTier(w)
      BY <1>4, <3>2 DEF WorkerStep, BeginPrepare, ProbeOk, ClearPartial, ProbeFails, disk, RemoveCache,
         TierOk, TierFails, ReportFailure, LeaveCancelled, WriteMarker, SetReady, TypeInv, TypeOK
    <3>3. QED
      BY <3>1, <3>2
  <2>6. QED
    BY <1>1, <1>2, <2>3, <2>4, <2>5 DEF PresenceInv, DirExists, Present
<1>5. QED
  BY <1>3, <1>4

LEMMA NextPresence ==
  ASSUME NoneRemoved, TypeInv, ClaimsInv, PresenceInv, [Next]_vars
  PROVE  PresenceInv'
<1>1. CASE ScanStep(Ticker)
  BY <1>1, ScanStepPresence
<1>2. CASE ListCache \/ StatSource \/ EndSweep \/ TickerExit
  <2>1. UNCHANGED <<disk, writers, reg, queue, worker, phase>>
    BY <1>2, CleanupMoves
  <2>2. scan[Ticker].todo \subseteq Names
    BY DEF TypeInv, TypeOK, ScanRecord, Scanners
  <2>3. \A n \in scan'[Ticker].todo \cup scan[Ticker].todo : n \in Names /\ Present(n)
    BY <1>2, <2>2, CleanupMoves DEF PresenceInv
  <2>4. scan'[Ticker].at \in {"stat", "wait", "exited"}
    BY <1>2, <2>3, CleanupMoves, PresentIsThere
  <2>5. QED
    BY <2>1, <2>3, <2>4 DEF PresenceInv, Present, DirExists, disk, AtName
<1>3. CASE PurgeCache \/ Forget
  BY <1>3 DEF PurgeCache, Forget, PresenceInv
<1>4. CASE \E w \in Workers : WorkerStep(w)
  BY <1>4, WorkerStepPresence
<1>5. CASE Crash \/ Exit
  <2>1. reg' = FreshReg /\ scan' = FreshScan /\ UNCHANGED disk
    BY <1>5 DEF Crash, Exit, LoseMemory
  <2>2. scan'[Ticker] = IdleScan("start") /\ \A n \in Names : reg'[n].status = "unknown"
    BY <2>1 DEF FreshScan, FreshReg, Unknown, Entry, Scanners
  <2>3. QED
    BY <2>1, <2>2 DEF PresenceInv, Present, DirExists, disk, IdleScan, AtName
<1>6. CASE SourcesUnreadable
  BY <1>6, UnreadableMoves DEF NoneRemoved, PresenceInv, Present, DirExists, disk, AtName
<1>7. CASE AddSource
  <2>1. \A n \in Names : Present(n) => Present(n)'
    BY <1>7, PresentIsThere DEF AddSource, Present, TypeInv, TypeOK
  <2>2. UNCHANGED <<rendition, marker, reg, scan>>
    BY <1>7 DEF AddSource, memory
  <2>3. scan[Ticker].todo \subseteq Names /\ (scan[Ticker].at \in AtName => scan[Ticker].name \in Names)
    BY DEF TypeInv, TypeOK, Located, ScanRecord, Scanners
  <2>4. QED
    BY <2>1, <2>2, <2>3 DEF PresenceInv, DirExists
<1>8. CASE Stop \/ Start \/ UNCHANGED vars
  BY <1>8 DEF Stop, Start, disk, memory, vars, PresenceInv, Present, DirExists
<1>9. CASE DropCache
  <2>1. PICK n \in Names : RemoveCache(n)
    BY <1>9 DEF DropCache
  <2>2. UNCHANGED <<source, reg, scan>>
    BY <1>9 DEF DropCache
  <2>3. \A m \in Names : DirExists(m)' => DirExists(m)
    <3>1. \A m \in Names : m # n => rendition'[m] = rendition[m] /\ marker'[m] = marker[m]
      BY <2>1 DEF RemoveCache, TypeInv, TypeOK
    <3>2. ~DirExists(n)'
      BY <2>1 DEF RemoveCache, DirExists, TypeInv, TypeOK
    <3>3. QED
      BY <3>1, <3>2 DEF DirExists
  <2>4. QED
    BY <2>2, <2>3 DEF PresenceInv, Present
<1>10. ~RemoveSource
  BY DEF NoneRemoved, RemoveSource, Happens
<1>11. QED
  BY <1>1, <1>2, <1>3, <1>4, <1>5, <1>6, <1>7, <1>8, <1>9, <1>10, QuietSteps DEF NoneRemoved

-----------------------------------------------------------------------------
(***************************************************************************)
(* Without uploads and without a file that is added, a name whose source   *)
(* is gone is gone for good.                                               *)
(***************************************************************************)

NoneAdded == Uploads = {} /\ "add" \notin Operations

(* The names a walk may still queue: their file is there, or was when the  *)
(* walk listed the directory.                                              *)
Sight ==
  {n \in Names :
     \/ source[n] # NoFile
     \/ scan[Ticker].at \in {"check"} \cup AtWalked /\ n \in scan[Ticker].todo
     \/ scan[Ticker].at \in AtWalked /\ n = scan[Ticker].name}

Purging ==
  scan[Ticker].at \in {"purge", "forget"} => source[scan[Ticker].name] = NoFile

(* The registry is right of the names in sight.  (Of a purged one it is    *)
(* not: a worker may go on with a video that the cleanup has forgotten.)   *)
SightInv == ClaimsOf(Sight) /\ Purging

(* The cleanup forgets a name that has no source. *)
LEMMA ForgetMoves ==
  ASSUME TypeInv, PurgeCache \/ Forget
  PROVE  /\ UNCHANGED <<source, queue, worker, phase>>
         /\ scan[Ticker].name \in Names
         /\ PurgeCache => reg' = reg /\ scan'[Ticker].at = "forget" /\ scan'[Ticker].name = scan[Ticker].name
         /\ Forget => /\ scan'[Ticker].at = "stat"
                      /\ \A m \in Names : m # scan[Ticker].name => reg'[m] = reg[m]
<1> DEFINE s == scan[Ticker]
<1>1. s \in ScanRecord /\ DOMAIN scan = Scanners /\ Ticker \in Scanners
  BY DEF TypeInv, TypeOK, Scanners
<1>2. s.name \in Names
  BY <1>1 DEF PurgeCache, Forget, TypeInv, Located, AtName
<1>3. CASE PurgeCache
  BY <1>1, <1>2, <1>3 DEF PurgeCache, Forget, Goto, ScanRecord
<1>4. CASE Forget
  <2>1. scan'[Ticker] = [s EXCEPT !.at = "stat", !.name = NoName]
    BY <1>1, <1>4 DEF Forget
  <2>2. \A m \in Names : m # s.name => reg'[m] = reg[m]
    BY <1>2, <1>4, EntrySet DEF Forget
  <2>3. UNCHANGED <<source, queue, worker, phase>> /\ ~PurgeCache
    BY <1>4 DEF Forget, PurgeCache, disk
  <2>4. QED
    BY <1>1, <1>2, <2>1, <2>2, <2>3 DEF ScanRecord
<1>5. QED
  BY <1>3, <1>4

(* What goes out of sight stays out of sight. *)
LEMMA SightShrinks ==
  ASSUME NoneAdded, TypeInv, [Next]_vars
  PROVE  Sight' \subseteq Sight
<1> DEFINE s == scan[Ticker]
           t == scan'[Ticker]
<1>1. CASE ScanStep(Ticker)
  <2>1. source' = source
    BY <1>1, ScanMoves DEF disk
  <2>2. CASE ListSources(Ticker) \/ EndScan(Ticker)
    BY <2>1, <2>2, <1>1, ScanMoves DEF Sight, AtWalked
  <2>3. CASE CheckKnown(Ticker)
    <3>1. s.at = "check"
      BY <2>3 DEF CheckKnown
    <3>2. PICK n \in s.todo :
            /\ t.todo = s.todo \ {n}
            /\ IF reg[n].status = "unknown" THEN t.at = "marker" /\ t.name = n ELSE t.at = "check"
      BY <1>1, <2>3, ScanMoves
    <3>3. QED
      BY <2>1, <3>1, <3>2 DEF Sight, AtWalked
  <2>4. CASE ReadMarker(Ticker) \/ MarkPending(Ticker) \/ QueueFull(Ticker)
    <3>1. s.at \in AtWalked /\ t.name = s.name /\ t.todo = s.todo
      BY <1>1, <2>4, ScanMoves DEF ReadMarker, MarkPending, QueueFull, AtWalked
    <3>2. QED
      BY <2>1, <3>1 DEF Sight
  <2>5. CASE Adopt(Ticker) \/ Enqueue(Ticker) \/ RollBack(Ticker)
    <3>1. s.at \in AtWalked /\ t.at = "check" /\ t.todo = s.todo
      BY <1>1, <2>5, ScanMoves DEF Adopt, Enqueue, RollBack, AtWalked
    <3>2. QED
      BY <2>1, <3>1 DEF Sight, AtWalked
  <2>6. QED
    BY <1>1, <2>2, <2>3, <2>4, <2>5 DEF ScanStep
<1>2. CASE ListCache \/ StatSource \/ EndSweep \/ TickerExit
  BY <1>2, CleanupMoves DEF Sight, AtWalked, disk
<1>3. CASE PurgeCache \/ Forget
  BY <1>3, ForgetMoves DEF Sight, AtWalked
<1>4. CASE \E w \in Workers : WorkerStep(w)
  BY <1>4, WorkerStepFrame DEF Sight
<1>5. CASE Crash \/ Exit
  <2>1. source' = source /\ scan' = FreshScan
    BY <1>5 DEF Crash, Exit, LoseMemory, disk
  <2>2. t.at = "start"
    BY <2>1 DEF FreshScan, IdleScan, Scanners
  <2>3. QED
    BY <2>1, <2>2 DEF Sight, AtWalked
<1>6. CASE SourcesUnreadable
  BY <1>6, UnreadableMoves DEF NoneAdded, Sight, AtWalked, disk
<1>7. CASE RemoveSource
  <2>1. scan' = scan /\ \A n \in Names : source'[n] # NoFile => source[n] # NoFile
    BY <1>7 DEF RemoveSource, memory, TypeInv, TypeOK
  <2>2. QED
    BY <2>1 DEF Sight
<1>8. CASE Stop \/ Start \/ DropCache \/ UNCHANGED vars
  BY <1>8 DEF Stop, Start, DropCache, memory, disk, vars, Sight
<1>9. ~AddSource
  BY DEF NoneAdded, AddSource, Happens
<1>10. QED
  BY <1>1, <1>2, <1>3, <1>4, <1>5, <1>6, <1>7, <1>8, <1>9, QuietSteps DEF NoneAdded

LEMMA NextPurging ==
  ASSUME NoneAdded, TypeInv, Purging, [Next]_vars
  PROVE  Purging'
<1>1. CASE ScanStep(Ticker)
  BY <1>1, ScanMoves DEF Purging, ScanStep
<1>2. CASE ListCache \/ StatSource \/ EndSweep \/ TickerExit
  <2>1. scan'[Ticker].at \in {"stat", "purge", "wait", "exited"} /\ source' = source
    BY <1>2, CleanupMoves DEF disk
  <2>2. scan'[Ticker].at = "purge" => source[scan'[Ticker].name] = NoFile
    BY <1>2, CleanupMoves
  <2>3. QED
    BY <2>1, <2>2 DEF Purging
<1>3. CASE PurgeCache \/ Forget
  BY <1>3, ForgetMoves DEF Purging, PurgeCache, Forget
<1>4. CASE \E w \in Workers : WorkerStep(w)
  BY <1>4, WorkerStepFrame DEF Purging
<1>5. CASE Crash \/ Exit
  <2>1. scan' = FreshScan
    BY <1>5 DEF Crash, Exit, LoseMemory
  <2>2. scan'[Ticker].at = "start"
    BY <2>1 DEF FreshScan, IdleScan, Scanners
  <2>3. QED
    BY <2>2 DEF Purging
<1>6. CASE SourcesUnreadable
  BY <1>6, UnreadableMoves DEF NoneAdded, Purging
<1>7. CASE RemoveSource
  <2>1. scan' = scan /\ \A n \in Names : source[n] = NoFile => source'[n] = NoFile
    BY <1>7 DEF RemoveSource, memory, TypeInv, TypeOK
  <2>2. scan[Ticker].at \in {"purge", "forget"} => scan[Ticker].name \in Names
    BY DEF TypeInv, Located, Scanners, AtName
  <2>3. QED
    BY <2>1, <2>2 DEF Purging
<1>8. CASE Stop \/ Start \/ DropCache \/ UNCHANGED vars
  BY <1>8 DEF Stop, Start, DropCache, memory, disk, vars, Purging
<1>9. ~AddSource
  BY DEF NoneAdded, AddSource, Happens
<1>10. QED
  BY <1>1, <1>2, <1>3, <1>4, <1>5, <1>6, <1>7, <1>8, <1>9, QuietSteps DEF NoneAdded

(* What is right of some names is right of fewer. *)
LEMMA FewerClaims ==
  ASSUME NEW T, ClaimsOf(T), NEW U, U \subseteq T
  PROVE  ClaimsOf(U)
  BY DEF ClaimsOf, QueuedPendingOf, WorkersHoldOf

LEMMA WalkAloneOf ==
  ASSUME NEW T, ClaimsOf(T), UNCHANGED <<reg, queue, worker>>,
         scan'[Ticker].at \in {"wait", "sweep", "stat", "purge", "forget", "exited"} \/ scan'[Ticker] = scan[Ticker]
  PROVE  ClaimsOf(T)'
<1>1. QueuedPendingOf(T)' /\ WorkersHoldOf(T)' /\ SingleOwner'
  BY DEF ClaimsOf, QueuedPendingOf, WorkersHoldOf, SingleOwner, Queued
<1>2. WalkHolds'
  BY DEF ClaimsOf, WalkHolds, Queued
<1>3. QED
  BY <1>1, <1>2 DEF ClaimsOf

LEMMA NextSight ==
  ASSUME NoneAdded, TypeInv, TypeInv', SightInv, [Next]_vars
  PROVE  SightInv'
<1>1. PICK T \in SUBSET Names : T = Sight
  BY DEF Sight
<1>2. PICK U \in SUBSET Names : U = Sight'
  BY DEF Sight
<1>3. U \subseteq T /\ ClaimsOf(T) /\ ClaimsOf(U)
  <2>1. U \subseteq T
    BY <1>1, <1>2, SightShrinks
  <2>2. ClaimsOf(T)
    BY <1>1 DEF SightInv
  <2>3. QED
    BY <2>1, <2>2, FewerClaims
<1>4. scan[Ticker].at \in AtWalked => scan[Ticker].name \in T
  BY <1>1, AllNames DEF Sight
<1>5. ClaimsOf(U)'
  <2>1. CASE ScanStep(Ticker) \/ \E w \in Workers : WorkerStep(w)
    <3>1. ClaimsOf(T)'
      BY <1>3, <1>4, <2>1, ScanStepClaims, WorkerStepClaims
    <3>2. QED
      BY <1>3, <3>1 DEF ClaimsOf, QueuedPendingOf, WorkersHoldOf
  <2>2. CASE ListCache \/ StatSource \/ EndSweep \/ TickerExit
    BY <1>3, <2>2, CleanupMoves, WalkAloneOf
  <2>3. CASE PurgeCache
    BY <1>3, <2>3, ForgetMoves, WalkAloneOf
  <2>4. CASE Forget
    <3>1. scan[Ticker].name \notin U
      BY <1>2, <2>4, ForgetMoves DEF Forget, SightInv, Purging, Sight, AtWalked
    <3>2. \A m \in U : reg'[m] = reg[m]
      BY <1>2, <2>4, <3>1, ForgetMoves
    <3>3. QueuedPendingOf(U)' /\ WorkersHoldOf(U)' /\ SingleOwner'
      BY <1>3, <2>4, <3>2, ForgetMoves
         DEF ClaimsOf, QueuedPendingOf, WorkersHoldOf, SingleOwner, Queued
    <3>4. WalkHolds'
      BY <2>4, ForgetMoves DEF WalkHolds
    <3>5. QED
      BY <3>3, <3>4 DEF ClaimsOf
  <2>5. CASE Crash \/ Exit
    <3>1. ClaimsInv'
      BY <2>5, FreshClaims DEF Crash, Exit, LoseMemory
    <3>2. TypeInv' => (ClaimsOf(Names)' <=> ClaimsInv')
      BY AllNames, PTL
    <3>3. ClaimsOf(Names)'
      BY <3>1, <3>2
    <3>4. QED
      BY <3>3 DEF ClaimsOf, QueuedPendingOf, WorkersHoldOf
  <2>6. CASE SourcesUnreadable
    BY <1>3, <2>6, UnreadableMoves, WalkAloneOf DEF NoneAdded
  <2>7. CASE Stop \/ Start \/ RemoveSource \/ DropCache \/ UNCHANGED vars
    BY <1>3, <2>7, WalkAloneOf DEF Stop, Start, RemoveSource, DropCache, memory, vars
  <2>8. ~AddSource
    BY DEF NoneAdded, AddSource, Happens
  <2>9. QED
    BY <2>1, <2>2, <2>3, <2>4, <2>5, <2>6, <2>7, <2>8, QuietSteps DEF NoneAdded
<1>6. ClaimsOf(Sight)'
  BY <1>2, <1>5 DEF ClaimsOf, QueuedPendingOf, WorkersHoldOf
<1>7. QED
  BY <1>6, NextPurging DEF SightInv

LEMMA InitSight == Init => SightInv
<1> SUFFICES ASSUME Init PROVE SightInv
  OBVIOUS
<1>1. ClaimsInv /\ TypeInv
  BY InitClaims, InitTyped
<1>2. ClaimsOf(Sight)
  BY <1>1, AllNames DEF Sight, ClaimsOf, QueuedPendingOf, WorkersHoldOf
<1>3. Purging
  BY DEF Init, FreshScan, IdleScan, Scanners, Purging
<1>4. QED
  BY <1>2, <1>3 DEF SightInv

-----------------------------------------------------------------------------
(***************************************************************************)
(* Without uploads, and unless files are both added and removed, no name   *)
(* comes back: it has one file, and every walk, registry entry and worker  *)
(* that is about the name is about that file.                              *)
(***************************************************************************)

NoNameReturns == Uploads = {} /\ ~({"add", "remove"} \subseteq Operations)

AdoptAlone ==
  scan[Ticker].at = "adopt" => \A w \in Workers : worker[w].name # scan[Ticker].name

OwnerInv == TypeInv /\ SingleOwner /\ AdoptAlone

LEMMA ClaimsOwn ==
  ASSUME TypeInv, NEW T \in SUBSET Names, ClaimsOf(T), scan[Ticker].at \in AtWalked => scan[Ticker].name \in T
  PROVE  OwnerInv
<1>1. SingleOwner
  BY DEF ClaimsOf
<1>2. ASSUME scan[Ticker].at = "adopt" PROVE \A w \in Workers : worker[w].name # scan[Ticker].name
  <2>1. PICK n \in T : n = scan[Ticker].name
    BY <1>2 DEF AtWalked
  <2>2. reg[n].status = "unknown"
    BY <1>2, <2>1 DEF ClaimsOf, WalkHolds
  <2>3. QED
    BY <2>1, <2>2, UnknownIsFree
<1>3. QED
  BY <1>1, <1>2 DEF OwnerInv, AdoptAlone

LEMMA NoneRemovedOwned == ASSUME NoneRemoved PROVE Spec => []OwnerInv
<1> DEFINE Inv == TypeInv /\ ClaimsInv /\ PresenceInv
<1>1. Init => Inv
  BY InitTyped, InitClaims, InitPresence
<1>2. Inv /\ [Next]_vars => Inv'
  BY NextTyped, NextClaims, NextPresence
<1>3. Inv => OwnerInv
  BY AllNames, ClaimsOwn
<1>4. QED
  BY <1>1, <1>2, <1>3, PTL DEF Spec

LEMMA NoneAddedOwned == ASSUME NoneAdded PROVE Spec => []OwnerInv
<1> DEFINE Inv == TypeInv /\ SightInv
<1>1. Init => Inv
  BY InitTyped, InitSight
<1>2. Inv /\ [Next]_vars => Inv'
  BY NextTyped, NextSight
<1>3. Inv => OwnerInv
  <2> SUFFICES ASSUME TypeInv, SightInv PROVE OwnerInv
    OBVIOUS
  <2>1. PICK T \in SUBSET Names : T = Sight
    BY DEF Sight
  <2>2. ClaimsOf(T) /\ (scan[Ticker].at \in AtWalked => scan[Ticker].name \in T)
    BY <2>1, AllNames DEF SightInv, Sight
  <2>3. QED
    BY <2>2, ClaimsOwn
<1>4. QED
  BY <1>1, <1>2, <1>3, PTL DEF Spec

LEMMA AlwaysOwned == ASSUME NoNameReturns PROVE Spec => []OwnerInv
<1>1. NoneRemoved \/ NoneAdded
  BY DEF NoNameReturns, NoneRemoved, NoneAdded
<1>2. QED
  BY <1>1, NoneRemovedOwned, NoneAddedOwned

(* No interleaving of the walk, the queue, the cleanup and the workers     *)
(* gives a video to two workers, or to a worker while it is queued: the    *)
(* check-then-set of scan() and the registry's statuses are enough, as     *)
(* long as one goroutine scans (startScanner) and no name comes back.      *)
(* Caches may be dropped, and the process may crash or stop, at any point. *)
THEOREM HasOneOwner == NoNameReturns => (Spec => []SingleOwner)
<1> SUFFICES ASSUME NoNameReturns PROVE Spec => []SingleOwner
  OBVIOUS
<1>1. OwnerInv => SingleOwner
  BY DEF OwnerInv
<1>2. QED
  BY <1>1, AlwaysOwned, PTL

-----------------------------------------------------------------------------
(***************************************************************************)
(* Where a half-written rendition can be                                   *)
(***************************************************************************)

NoHalf(n) == \A q \in Tiers : rendition[n][q] # Half

(* One is under a name that no walk would adopt, and that the registry     *)
(* calls prepared or in preparation only while a worker can still clear it. *)
HalfName(n) ==
  \/ NoHalf(n)
  \/ /\ marker[n] = {}
     /\ \/ reg[n].status \in {"unknown", "pending", "failed"}
        \/ \E w \in Workers : worker[w].name = n /\ worker[w].at \in {"probe", "clear", "ffmpeg"}

(* A worker past its ffprobe has one only in the tier its ffmpeg writes.   *)
HalfWorker(w) ==
  LET n == worker[w].name IN
  /\ worker[w].at \in {"tiers", "ffmpeg"} => marker[n] = {}
  /\ worker[w].at \in {"tiers", "aborted", "marked"} => NoHalf(n)
  /\ worker[w].at = "ffmpeg" =>
       /\ rendition[n][worker[w].tier] = NoFile \/ w \in writers[n][worker[w].tier]
       /\ \A q \in Tiers \ {worker[w].tier} : rendition[n][q] # Half

HalfScan == scan[Ticker].at = "adopt" => NoHalf(scan[Ticker].name)

(* Who writes into a directory is at its ffmpeg. *)
WritersInv ==
  \A n \in Names, q \in Tiers : \A w \in writers[n][q] :
    worker[w].at = "ffmpeg" /\ worker[w].name = n /\ worker[w].tier = q

HalfInv ==
  /\ \A n \in Names : HalfName(n)
  /\ \A w \in Workers : HalfWorker(w)
  /\ HalfScan
  /\ WritersInv

LEMMA InitHalf == Init => HalfInv
<1> SUFFICES ASSUME Init PROVE HalfInv
  OBVIOUS
<1>1. \A n \in Names : HalfName(n)
  BY FileAssumption DEF Init, HalfName, NoHalf
<1>2. \A w \in Workers : HalfWorker(w)
  BY DEF Init, HalfWorker, FreshWorker, IdleWorker
<1>3. HalfScan /\ WritersInv
  BY DEF Init, HalfScan, FreshScan, IdleScan, Scanners, WritersInv, NoWriters
<1>4. QED
  BY <1>1, <1>2, <1>3 DEF HalfInv

LEMMA FreshHalf ==
  ASSUME HalfInv, LoseMemory
  PROVE  HalfInv'
<1>1. \A n \in Names : HalfName(n)'
  BY DEF HalfInv, HalfName, NoHalf, LoseMemory, disk, FreshReg, Unknown, Entry
<1>2. \A w \in Workers : HalfWorker(w)'
  BY DEF LoseMemory, HalfWorker, FreshWorker, IdleWorker
<1>3. HalfScan' /\ WritersInv'
  BY DEF LoseMemory, HalfScan, FreshScan, IdleScan, Scanners, WritersInv, NoWriters
<1>4. QED
  BY <1>1, <1>2, <1>3 DEF HalfInv

(* The walk and the cleanup write no rendition ... *)
LEMMA HalfAlone ==
  ASSUME HalfInv, UNCHANGED <<rendition, marker, writers, reg, worker>>,
         scan'[Ticker].at # "adopt" \/ scan'[Ticker] = scan[Ticker]
  PROVE  HalfInv'
<1>1. (\A n \in Names : HalfName(n)') /\ \A w \in Workers : HalfWorker(w)'
  BY DEF HalfInv, HalfName, HalfWorker, NoHalf
<1>2. HalfScan' /\ WritersInv'
  BY DEF HalfInv, HalfScan, NoHalf, WritersInv
<1>3. QED
  BY <1>1, <1>2 DEF HalfInv

LEMMA ScanStepHalf ==
  ASSUME TypeInv, HalfInv, ScanStep(Ticker)
  PROVE  HalfInv'
<1> DEFINE s == scan[Ticker]
<1>1. UNCHANGED <<rendition, marker, writers, worker>>
  BY ScanMoves DEF disk
<1>2. \A w \in Workers : HalfWorker(w)'
  BY <1>1 DEF HalfInv, HalfWorker, NoHalf
<1>3. WritersInv'
  BY <1>1 DEF HalfInv, WritersInv
<1>4. HalfScan'
  <2>1. CASE ReadMarker(Ticker)
    <3>1. /\ s.at = "marker" /\ scan'[Ticker].name = s.name
          /\ scan'[Ticker].at = "adopt" => marker[s.name] # {}
      BY <2>1, ScanMoves
    <3>2. HalfName(s.name)
      BY <3>1 DEF HalfInv, TypeInv, Located, AtName, Scanners
    <3>3. QED
      BY <1>1, <3>1, <3>2 DEF HalfScan, HalfName, NoHalf
  <2>2. CASE ~ReadMarker(Ticker)
    BY <2>2, ScanMoves DEF HalfScan, ScanStep
  <2>3. QED
    BY <2>1, <2>2
<1>5. ASSUME NEW m \in Names PROVE HalfName(m)'
  <2>1. HalfName(m)
    BY DEF HalfInv
  <2>2. CASE reg'[m] = reg[m]
    BY <1>1, <2>1, <2>2 DEF HalfName, NoHalf
  <2>3. CASE reg'[m] # reg[m]
    <3>1. Adopt(Ticker) \/ MarkPending(Ticker) \/ RollBack(Ticker)
      BY <2>3 DEF ScanStep, ListSources, CheckKnown, ReadMarker, Enqueue, QueueFull, EndScan
    <3>2. s.name \in Names
      BY <3>1 DEF Adopt, MarkPending, RollBack, TypeInv, Located, AtName, Scanners
    <3>3. m = s.name
      BY <2>3, <3>1, <3>2, EntrySet DEF Adopt, MarkPending, RollBack
    <3>4. CASE Adopt(Ticker)
      BY <1>1, <3>3, <3>4 DEF Adopt, HalfInv, HalfScan, HalfName, NoHalf
    <3>5. CASE MarkPending(Ticker) \/ RollBack(Ticker)
      <4>1. reg'[m].status \in {"pending", "unknown"}
        BY <3>2, <3>3, <3>5, EntrySet DEF MarkPending, RollBack, Entry, Unknown
      <4>2. QED
        BY <1>1, <2>1, <4>1 DEF HalfName, NoHalf
    <3>6. QED
      BY <3>1, <3>4, <3>5
  <2>4. QED
    BY <2>2, <2>3
<1>6. QED
  BY <1>2, <1>3, <1>4, <1>5 DEF HalfInv

LEMMA ForgetHalf ==
  ASSUME TypeInv, HalfInv, Forget
  PROVE  HalfInv'
<1>1. UNCHANGED <<rendition, marker, writers, worker>>
  BY DEF Forget, disk
<1>2. scan'[Ticker].at = "stat" /\ scan[Ticker].name \in Names
  BY ForgetMoves
<1>3. \A m \in Names : reg'[m] = IF m = scan[Ticker].name THEN Unknown ELSE reg[m]
  BY <1>2, EntrySet DEF Forget
<1>4. \A n \in Names : HalfName(n)'
  BY <1>1, <1>3 DEF HalfInv, HalfName, NoHalf, Unknown, Entry
<1>5. \A w \in Workers : HalfWorker(w)'
  BY <1>1 DEF HalfInv, HalfWorker, NoHalf
<1>6. HalfScan' /\ WritersInv'
  BY <1>1, <1>2 DEF HalfInv, HalfScan, WritersInv
<1>7. QED
  BY <1>4, <1>5, <1>6 DEF HalfInv

(* ... and a cache that is removed holds none. *)
LEMMA CacheGone ==
  ASSUME TypeInv, NEW n \in Names, RemoveCache(n)
  PROVE  /\ \A m \in Names : m # n =>
              rendition'[m] = rendition[m] /\ marker'[m] = marker[m] /\ writers'[m] = writers[m]
         /\ \A q \in Tiers : rendition'[n][q] = NoFile /\ writers'[n][q] = {}
         /\ marker'[n] = {} /\ NoHalf(n)'
  BY FileAssumption DEF RemoveCache, TypeInv, TypeOK, NoHalf

LEMMA RemovalHalf ==
  ASSUME TypeInv, HalfInv, NEW n \in Names, RemoveCache(n), UNCHANGED <<reg, worker>>,
         scan'[Ticker].at # "adopt" \/ scan' = scan
  PROVE  HalfInv'
<1>1. \A m \in Names : HalfName(m)'
  BY CacheGone DEF HalfInv, HalfName, NoHalf
<1>2. ASSUME NEW w \in Workers PROVE HalfWorker(w)'
  <2>1. /\ worker[w].at \notin {"idle", "exited"} => worker[w].name \in Names
        /\ worker[w].at = "ffmpeg" => worker[w].tier \in Tiers
    BY DEF TypeInv, Located
  <2>2. CASE worker[w].name = n
    BY <2>1, <2>2, CacheGone, FileAssumption DEF HalfWorker, NoHalf
  <2>3. CASE worker[w].name # n
    BY <2>1, <2>3, CacheGone DEF HalfInv, HalfWorker, NoHalf
  <2>4. QED
    BY <2>2, <2>3
<1>3. HalfScan'
  <2>1. scan[Ticker].at = "adopt" => scan[Ticker].name \in Names
    BY DEF TypeInv, Located, AtName, Scanners
  <2>2. QED
    BY <2>1, CacheGone DEF HalfInv, HalfScan, NoHalf
<1>4. WritersInv'
  BY CacheGone DEF HalfInv, WritersInv
<1>5. QED
  BY <1>1, <1>2, <1>3, <1>4 DEF HalfInv

(* Past the queue, a worker's step is about the name the worker holds. *)
LEMMA WorkerTouches ==
  ASSUME TypeInv, NEW w \in Workers, WorkerStep(w), ~Dequeue(w), ~WorkerExit(w)
  PROVE  LET n == worker[w].name IN
         /\ worker[w].at \in {"picked"} \cup Preparing
         /\ n \in Names
         /\ \A m \in Names : m # n =>
              /\ reg'[m] = reg[m] /\ rendition'[m] = rendition[m]
              /\ marker'[m] = marker[m] /\ writers'[m] = writers[m]
<1> DEFINE n == worker[w].name
<1>1. worker[w].at \in {"picked"} \cup Preparing
  BY DEF WorkerStep, BeginPrepare, ProbeOk, ClearPartial, ProbeFails, StartTier,
     TierOk, TierFails, ReportFailure, LeaveCancelled, WriteMarker, SetReady, Preparing
<1>2. n \in Names
  BY <1>1 DEF Preparing, TypeInv, Located
<1>3. \A m \in Names : m # n => reg'[m] = reg[m]
  BY <1>2, EntrySet DEF WorkerStep, BeginPrepare, ProbeOk, ClearPartial, ProbeFails, StartTier,
     TierOk, TierFails, ReportFailure, LeaveCancelled, WriteMarker, SetReady
<1>4. \A m \in Names : m # n =>
        rendition'[m] = rendition[m] /\ marker'[m] = marker[m] /\ writers'[m] = writers[m]
  <2>1. CASE StartTier(w)
    BY <2>1, WorkerMoves DEF StartTier, TypeInv, TypeOK
  <2>2. CASE TierOk(w)
    <3>1. PICK h, x : /\ rendition' = [rendition EXCEPT ![n][worker[w].tier] = h]
                      /\ writers' = [writers EXCEPT ![n][worker[w].tier] = x]
                      /\ marker' = marker
      BY <2>2 DEF TierOk
    <3>2. QED
      BY <3>1 DEF TypeInv, TypeOK
  <2>3. CASE ~StartTier(w) /\ ~TierOk(w)
    BY <2>3 DEF WorkerStep, BeginPrepare, ProbeOk, ClearPartial, ProbeFails, disk, RemoveCache,
       TierFails, ReportFailure, LeaveCancelled, WriteMarker, SetReady, TypeInv, TypeOK
  <2>4. QED
    BY <2>1, <2>2, <2>3
<1>5. QED
  BY <1>1, <1>2, <1>3, <1>4

(* What a worker's step does to the name it holds. *)
OwnHalf(w, n) ==
  /\ HalfName(n)
  /\ HalfWorker(w)
  /\ \A q \in Tiers : \A v \in writers[n][q] :
       v = w /\ worker[w].at = "ffmpeg" /\ worker[w].name = n /\ worker[w].tier = q

LEMMA OwnWriters ==
  ASSUME OwnerInv, HalfInv, NEW w \in Workers, worker[w].name \in Names
  PROVE  OwnHalf(w, worker[w].name)
<1>1. \A n \in Names, q \in Tiers : writers[n][q] \subseteq Workers
  BY DEF OwnerInv, TypeInv, TypeOK
<1>2. QED
  BY <1>1 DEF OwnHalf, OwnerInv, SingleOwner, HalfInv, WritersInv

(* Steps that leave the cache alone. *)
LEMMA EntryHalf ==
  ASSUME TypeInv, NEW w \in Workers, NEW n \in Names, n = worker[w].name, OwnHalf(w, n),
         \/ BeginPrepare(w) \/ ProbeOk(w) \/ ProbeFails(w)
         \/ ReportFailure(w) \/ LeaveCancelled(w) \/ SetReady(w)
  PROVE  OwnHalf(w, n)'
<1>1. UNCHANGED <<rendition, marker, writers>> /\ worker[w].at # "ffmpeg" /\ WorkerStep(w)
  BY DEF WorkerStep, BeginPrepare, ProbeOk, ProbeFails, ReportFailure, LeaveCancelled, SetReady, disk
<1>2. \A q \in Tiers : writers[n][q] = {}
  BY <1>1 DEF OwnHalf
<1>3. HalfWorker(w)'
  BY <1>1, WorkerMoves DEF HalfWorker
<1>4. HalfName(n)'
  <2>1. CASE BeginPrepare(w)
    BY <1>1, <2>1, WorkerMoves DEF OwnHalf, HalfName, NoHalf
  <2>2. CASE ProbeOk(w)
    <3>1. reg' = reg /\ worker'[w].at = "clear" /\ worker'[w].name = n
      BY <1>1, <2>2, WorkerMoves DEF ProbeOk
    <3>2. NoHalf(n)' <=> NoHalf(n)
      BY <1>1 DEF NoHalf
    <3>3. NoHalf(n) \/ marker[n] = {}
      BY DEF OwnHalf, HalfName
    <3>4. QED
      BY <1>1, <3>1, <3>2, <3>3 DEF HalfName
  <2>3. CASE ProbeFails(w)
    <3>1. reg'[n].status = "failed"
      BY <2>3, EntrySet DEF ProbeFails, Entry
    <3>2. QED
      BY <1>1, <3>1 DEF OwnHalf, HalfName, NoHalf
  <2>4. CASE ReportFailure(w) \/ LeaveCancelled(w) \/ SetReady(w)
    <3>1. NoHalf(n)
      BY <2>4 DEF ReportFailure, LeaveCancelled, SetReady, OwnHalf, HalfWorker
    <3>2. QED
      BY <1>1, <3>1 DEF HalfName, NoHalf
  <2>5. QED
    BY <2>1, <2>2, <2>3, <2>4
<1>5. QED
  BY <1>1, <1>2, <1>3, <1>4 DEF OwnHalf

(* Steps that write it. *)
LEMMA ClearingHalf ==
  ASSUME TypeInv, NEW w \in Workers, NEW n \in Names, n = worker[w].name, OwnHalf(w, n),
         ClearPartial(w) \/ TierFails(w)
  PROVE  OwnHalf(w, n)'
<1>1. RemoveCache(n) /\ WorkerStep(w)
  BY DEF WorkerStep, ClearPartial, TierFails
<1>2. NoHalf(n)' /\ marker'[n] = {} /\ \A q \in Tiers : writers'[n][q] = {}
  BY <1>1, CacheGone
<1>3. worker'[w].at \in {"tiers", "aborted"} /\ worker'[w].name = n
  BY <1>1, WorkerMoves
<1>4. QED
  BY <1>2, <1>3 DEF OwnHalf, HalfName, HalfWorker

LEMMA StartHalf ==
  ASSUME TypeInv, NEW w \in Workers, NEW n \in Names, n = worker[w].name, OwnHalf(w, n), StartTier(w)
  PROVE  OwnHalf(w, n)'
<1>1. PICK q \in worker[w].todo :
        /\ worker'[w].at = "ffmpeg" /\ worker'[w].name = n /\ worker'[w].tier = q
        /\ rendition' = [rendition EXCEPT ![n][q] = Half]
        /\ writers' = [writers EXCEPT ![n][q] = @ \cup {w}]
  BY WorkerMoves DEF WorkerStep
<1>2. q \in Tiers
  BY DEF TypeInv, TypeOK, WorkerRecord
<1>3. worker[w].at = "tiers" /\ marker' = marker
  BY DEF StartTier
<1>4. marker[n] = {} /\ NoHalf(n) /\ \A r \in Tiers : writers[n][r] = {}
  BY <1>3 DEF OwnHalf, HalfWorker
<1>5. \A r \in Tiers : /\ rendition'[n][r] = IF r = q THEN Half ELSE rendition[n][r]
                       /\ writers'[n][r] = IF r = q THEN {w} ELSE {}
  BY <1>1, <1>2, <1>4 DEF TypeInv, TypeOK
<1>6. HalfName(n)'
  BY <1>1, <1>3, <1>4 DEF HalfName
<1>7. HalfWorker(w)'
  BY <1>1, <1>2, <1>3, <1>4, <1>5 DEF HalfWorker, NoHalf
<1>8. QED
  BY <1>1, <1>5, <1>6, <1>7 DEF OwnHalf

LEMMA TierOkHalf ==
  ASSUME TypeInv, NEW w \in Workers, NEW n \in Names, n = worker[w].name, OwnHalf(w, n), TierOk(w)
  PROVE  OwnHalf(w, n)'
<1> DEFINE q == worker[w].tier
<1>1. worker[w].at = "ffmpeg" /\ q \in Tiers /\ WorkerStep(w)
  BY DEF TierOk, TypeInv, Located, WorkerStep
<1>2. writers[n][q] = {w} /\ marker[n] = {} /\ \A r \in Tiers : r # q => writers[n][r] = {} /\ rendition[n][r] # Half
  BY <1>1 DEF TierOk, OwnHalf, HalfWorker
<1>3. /\ rendition' = [rendition EXCEPT ![n][q] = worker[w].reading]
      /\ writers' = [writers EXCEPT ![n][q] = @ \ {w}]
      /\ marker' = marker /\ worker[w].reading # Half
  BY <1>2, FileAssumption DEF TierOk
<1>4. \A r \in Tiers : rendition'[n][r] # Half /\ writers'[n][r] = {}
  BY <1>1, <1>2, <1>3 DEF TypeInv, TypeOK
<1>5. worker'[w].at = "tiers" /\ worker'[w].name = n
  BY <1>1, WorkerMoves
<1>6. QED
  BY <1>2, <1>3, <1>4, <1>5 DEF OwnHalf, HalfName, HalfWorker, NoHalf

LEMMA MarkHalf ==
  ASSUME TypeInv, NEW w \in Workers, NEW n \in Names, n = worker[w].name, OwnHalf(w, n), WriteMarker(w)
  PROVE  OwnHalf(w, n)'
<1>1. UNCHANGED <<rendition, writers>> /\ worker[w].at = "tiers" /\ WorkerStep(w)
  BY DEF WriteMarker, WorkerStep
<1>2. worker'[w].at = "marked" /\ worker'[w].name = n
  BY <1>1, WorkerMoves
<1>3. NoHalf(n) /\ \A q \in Tiers : writers[n][q] = {}
  BY <1>1 DEF OwnHalf, HalfWorker
<1>4. QED
  BY <1>1, <1>2, <1>3 DEF OwnHalf, HalfName, HalfWorker, NoHalf

LEMMA WorkerStepHalf ==
  ASSUME OwnerInv, HalfInv, NEW w \in Workers, WorkerStep(w)
  PROVE  HalfInv'
<1>1. TypeInv
  BY DEF OwnerInv
<1>2. /\ \A v \in Workers : v # w => worker'[v] = worker[v]
      /\ UNCHANGED <<source, scan, phase>>
  BY <1>1, WorkerStepFrame
<1>3. CASE Dequeue(w) \/ WorkerExit(w)
  <2>1. UNCHANGED <<rendition, marker, writers, reg>> /\ worker[w].at = "idle"
    BY <1>3 DEF Dequeue, WorkerExit, disk
  <2>2. worker'[w].at \in {"picked", "exited"}
    BY <1>1, <1>3, WorkerMoves
  <2>3. \A n \in Names : HalfName(n)'
    BY <1>2, <2>1 DEF HalfInv, HalfName, NoHalf
  <2>4. \A v \in Workers : HalfWorker(v)'
    BY <1>2, <2>1, <2>2 DEF HalfInv, HalfWorker, NoHalf
  <2>5. HalfScan'
    BY <1>2, <2>1 DEF HalfInv, HalfScan, NoHalf
  <2>6. WritersInv'
    <3>1. \A n \in Names, q \in Tiers : writers[n][q] \subseteq Workers
      BY <1>1 DEF TypeInv, TypeOK
    <3>2. QED
      BY <1>2, <2>1, <3>1 DEF HalfInv, WritersInv
  <2>7. QED
    BY <2>3, <2>4, <2>5, <2>6 DEF HalfInv
<1>4. CASE ~Dequeue(w) /\ ~WorkerExit(w)
  <2>1. PICK n \in Names : n = worker[w].name
    BY <1>1, <1>4, WorkerTouches
  <2>2. \A m \in Names : m # n => /\ reg'[m] = reg[m] /\ rendition'[m] = rendition[m]
                                  /\ marker'[m] = marker[m] /\ writers'[m] = writers[m]
    BY <1>1, <1>4, <2>1, WorkerTouches
  <2>3. \A v \in Workers : v # w => worker[v].name # n
    BY <2>1 DEF OwnerInv, SingleOwner
  <2>4. OwnHalf(w, n)'
    BY <1>1, <1>4, <2>1, OwnWriters, EntryHalf, ClearingHalf, StartHalf, TierOkHalf, MarkHalf DEF WorkerStep
  <2>5. ASSUME NEW m \in Names PROVE HalfName(m)'
    <3>1. CASE m = n
      BY <2>4, <3>1 DEF OwnHalf
    <3>2. CASE m # n
      BY <1>2, <2>1, <2>2, <3>2 DEF HalfInv, HalfName, NoHalf
    <3>3. QED
      BY <3>1, <3>2
  <2>6. ASSUME NEW v \in Workers PROVE HalfWorker(v)'
    <3>1. CASE v = w
      BY <2>4, <3>1 DEF OwnHalf
    <3>2. CASE v # w
      <4>1. worker[v].at \notin {"idle", "exited"} => worker[v].name \in Names \ {n}
        BY <1>1, <2>3, <3>2 DEF TypeInv, Located
      <4>2. QED
        BY <1>2, <2>2, <3>2, <4>1 DEF HalfInv, HalfWorker, NoHalf
    <3>3. QED
      BY <3>1, <3>2
  <2>7. HalfScan'
    <3>1. scan[Ticker].at = "adopt" => scan[Ticker].name \in Names \ {n}
      BY <1>1, <2>1 DEF TypeInv, Located, AtName, Scanners, OwnerInv, AdoptAlone
    <3>2. QED
      BY <1>2, <2>2, <3>1 DEF HalfInv, HalfScan, NoHalf
  <2>8. WritersInv'
    <3>1. \A m \in Names, q \in Tiers : writers[m][q] \subseteq Workers
      BY <1>1 DEF TypeInv, TypeOK
    <3>2. ASSUME NEW m \in Names, NEW q \in Tiers, NEW v \in writers'[m][q]
          PROVE  worker'[v].at = "ffmpeg" /\ worker'[v].name = m /\ worker'[v].tier = q
      <4>1. CASE m = n
        BY <2>4, <3>2, <4>1 DEF OwnHalf
      <4>2. CASE m # n
        BY <1>2, <2>1, <2>2, <3>1, <3>2, <4>2 DEF HalfInv, WritersInv
      <4>3. QED
        BY <4>1, <4>2
    <3>3. QED
      BY <3>2 DEF WritersInv
  <2>9. QED
    BY <2>5, <2>6, <2>7, <2>8 DEF HalfInv
<1>5. QED
  BY <1>3, <1>4

LEMMA NextHalf ==
  ASSUME Uploads = {}, OwnerInv, HalfInv, [Next]_vars
  PROVE  HalfInv'
<1>1. TypeInv
  BY DEF OwnerInv
<1>2. CASE ScanStep(Ticker)
  BY <1>1, <1>2, ScanStepHalf
<1>3. CASE ListCache \/ StatSource \/ EndSweep \/ TickerExit
  BY <1>1, <1>3, CleanupMoves, HalfAlone DEF disk
<1>4. CASE PurgeCache
  BY <1>1, <1>4, ForgetMoves, RemovalHalf DEF PurgeCache
<1>5. CASE Forget
  BY <1>1, <1>5, ForgetHalf
<1>6. CASE \E w \in Workers : WorkerStep(w)
  BY <1>6, WorkerStepHalf
<1>7. CASE Crash \/ Exit
  BY <1>7, FreshHalf DEF Crash, Exit
<1>8. CASE DropCache
  BY <1>1, <1>8, RemovalHalf DEF DropCache
<1>9. CASE SourcesUnreadable
  BY <1>1, <1>9, UnreadableMoves, HalfAlone DEF disk
<1>10. CASE Stop \/ Start \/ AddSource \/ RemoveSource \/ UNCHANGED vars
  BY <1>10, HalfAlone DEF Stop, Start, AddSource, RemoveSource, disk, memory, vars
<1>11. QED
  BY <1>2, <1>3, <1>4, <1>5, <1>6, <1>7, <1>8, <1>9, <1>10, QuietSteps

(* A process that has drained has no half-written rendition of a video it  *)
(* started on: prepare cleaned up, or finished, before its worker left,    *)
(* whatever an operator dropped, or the cleanup purged, under its hands.   *)
THEOREM DrainsClean == NoNameReturns => (Spec => []DrainedIsClean)
<1> SUFFICES ASSUME NoNameReturns PROVE Spec => []DrainedIsClean
  OBVIOUS
<1>1. OwnerInv /\ HalfInv /\ [Next]_vars => HalfInv'
  BY NextHalf DEF NoNameReturns
<1>2. HalfInv => DrainedIsClean
  BY DEF HalfInv, HalfName, NoHalf, DrainedIsClean, Drained
<1>3. QED
  BY <1>1, <1>2, InitHalf, AlwaysOwned, PTL DEF Spec

-----------------------------------------------------------------------------
(***************************************************************************)
(* What the cache holds                                                    *)
(***************************************************************************)

Prepared(n) ==
  \A q \in Tiers : rendition[n][q] = IF q \in Applicable(source[n]) THEN source[n] ELSE NoFile

(* A marker, and an entry that says ready, certify all of the directory;   *)
(* a video that waits or has failed has no marker.                         *)
NameRight(n) ==
  /\ marker[n] # {} => marker[n] = Applicable(source[n]) /\ Prepared(n)
  /\ reg[n].status = "ready" => reg[n].tiers = Applicable(source[n]) /\ Prepared(n)
  /\ reg[n].status # "ready" => reg[n].tiers = {}
  /\ reg[n].status \in {"pending", "failed"} => marker[n] = {}
  /\ reg[n].status = "transcoding" =>
       \/ \E w \in Workers : PreparedBy(w, n)
       \/ \A q \in Tiers : rendition[n][q] # Half

(* The tier a worker's ffmpeg is writing, and what the worker has made of  *)
(* each tier so far.                                                       *)
Current(w) == IF worker[w].at = "ffmpeg" THEN {worker[w].tier} ELSE {}
Product(w, q) ==
  IF q \in Current(w) THEN Half
  ELSE IF q \in worker[w].done THEN source[worker[w].name] ELSE NoFile

WorkRight(w) ==
  LET n == worker[w].name IN
  /\ worker[w].at \in {"idle", "picked", "probe", "clear"} => worker[w].done = {}
  /\ worker[w].at = "clear" => worker[w].todo = Applicable(source[n])
  /\ worker[w].at \in {"tiers", "ffmpeg", "marked"} =>
       /\ worker[w].done \cup worker[w].todo \cup Current(w) = Applicable(source[n])
       /\ \A q \in Tiers : rendition[n][q] = Product(w, q)
  /\ worker[w].at = "ffmpeg" => worker[w].reading = source[n] /\ writers[n][worker[w].tier] = {w}
  /\ worker[w].at = "marked" => worker[w].todo = {}
  /\ worker[w].at = "aborted" => \A q \in Tiers : rendition[n][q] = NoFile
  /\ worker[w].at \in {"probe", "clear", "tiers", "ffmpeg", "aborted"} => marker[n] = {}

WalkRight ==
  LET n == scan[Ticker].name IN
  /\ scan[Ticker].at = "mark" => marker[n] = {}
  /\ scan[Ticker].at = "adopt" => marker[n] # {} /\ scan[Ticker].tiers = marker[n]

CacheInv ==
  /\ \A n \in Names : NameRight(n)
  /\ \A w \in Workers : WorkRight(w)
  /\ WalkRight
  /\ WritersInv

LEMMA NameFrame ==
  ASSUME NEW n \in Names, NameRight(n), rendition'[n] = rendition[n], marker'[n] = marker[n],
         reg'[n] = reg[n], source'[n] = source[n],
         \A w \in Workers : PreparedBy(w, n) => PreparedBy(w, n)'
  PROVE  NameRight(n)'
  BY DEF NameRight, Prepared

LEMMA WorkFrame ==
  ASSUME NEW w \in Workers, WorkRight(w), worker'[w] = worker[w],
         worker[w].at \notin {"idle", "exited"} =>
           LET n == worker[w].name IN
           /\ rendition'[n] = rendition[n] /\ marker'[n] = marker[n]
           /\ writers'[n] = writers[n] /\ source'[n] = source[n]
  PROVE  WorkRight(w)'
<1>1. CASE worker[w].at \in {"idle", "exited"}
  BY <1>1 DEF WorkRight
<1>2. CASE worker[w].at \notin {"idle", "exited"}
  BY <1>2 DEF WorkRight, Product, Current
<1>3. QED
  BY <1>1, <1>2

LEMMA InitCache == Init => CacheInv
<1> SUFFICES ASSUME Init PROVE CacheInv
  OBVIOUS
<1>1. ASSUME NEW n \in Names PROVE NameRight(n)
  BY DEF Init, NameRight, FreshReg, Unknown, Entry
<1>2. ASSUME NEW w \in Workers PROVE WorkRight(w)
  BY DEF Init, WorkRight, FreshWorker, IdleWorker
<1>3. WalkRight
  BY DEF Init, WalkRight, FreshScan, IdleScan, Scanners
<1>4. WritersInv
  BY DEF Init, WritersInv, NoWriters
<1>5. QED
  BY <1>1, <1>2, <1>3, <1>4 DEF CacheInv

(* Memory is lost, the cache stays, and what it certifies. *)
LEMMA FreshCache ==
  ASSUME TypeInv, CacheInv, LoseMemory
  PROVE  CacheInv'
<1>1. UNCHANGED <<source, rendition, marker>>
  BY DEF LoseMemory, disk
<1>2. ASSUME NEW n \in Names PROVE NameRight(n)'
  <2>1. reg'[n].status = "unknown" /\ reg'[n].tiers = {}
    BY DEF LoseMemory, FreshReg, Unknown, Entry
  <2>2. QED
    BY <1>1, <2>1 DEF CacheInv, NameRight, Prepared
<1>3. ASSUME NEW w \in Workers PROVE WorkRight(w)'
  BY DEF LoseMemory, WorkRight, FreshWorker, IdleWorker
<1>4. WalkRight'
  BY DEF LoseMemory, WalkRight, FreshScan, IdleScan, Scanners
<1>5. WritersInv'
  BY DEF LoseMemory, WritersInv, NoWriters
<1>6. QED
  BY <1>2, <1>3, <1>4, <1>5 DEF CacheInv

LEMMA ScanStepCache ==
  ASSUME TypeInv, ClaimsInv, CacheInv, ScanStep(Ticker)
  PROVE  CacheInv'
<1> DEFINE s == scan[Ticker]
<1>1. UNCHANGED <<source, rendition, marker, writers, worker>>
  BY ScanMoves DEF disk
<1>2. \A w \in Workers : WorkRight(w)'
  BY <1>1, WorkFrame DEF CacheInv
<1>3. WritersInv'
  BY <1>1 DEF CacheInv, WritersInv
<1>4. \A w \in Workers, n \in Names : PreparedBy(w, n)' <=> PreparedBy(w, n)
  BY <1>1 DEF PreparedBy
<1>5. WalkRight'
  <2>1. CASE ReadMarker(Ticker)
    BY <1>1, <2>1, ScanMoves DEF WalkRight
  <2>2. CASE ~ReadMarker(Ticker)
    BY <2>2, ScanMoves DEF WalkRight, ScanStep
  <2>3. QED
    BY <2>1, <2>2
<1>6. ASSUME NEW m \in Names PROVE NameRight(m)'
  <2>1. CASE reg'[m] = reg[m]
    BY <1>1, <1>4, <2>1, NameFrame DEF CacheInv
  <2>2. CASE reg'[m] # reg[m]
    <3>1. Adopt(Ticker) \/ MarkPending(Ticker) \/ RollBack(Ticker)
      BY <2>2 DEF ScanStep, ListSources, CheckKnown, ReadMarker, Enqueue, QueueFull, EndScan
    <3>2. m = s.name
      <4>1. s.name \in Names
        BY <3>1 DEF Adopt, MarkPending, RollBack, TypeInv, Located, AtName, Scanners
      <4>2. QED
        BY <2>2, <3>1, <4>1, EntrySet DEF Adopt, MarkPending, RollBack
    <3>3. NameRight(m)
      BY DEF CacheInv
    <3>4. CASE Adopt(Ticker)
      <4>1. marker[m] # {} /\ s.tiers = marker[m]
        BY <3>2, <3>4 DEF Adopt, CacheInv, WalkRight
      <4>2. reg'[m] = Entry("ready", s.tiers)
        BY <3>2, <3>4, EntrySet DEF Adopt
      <4>3. QED
        BY <1>1, <3>3, <4>1, <4>2 DEF NameRight, Prepared, Entry
    <3>5. CASE MarkPending(Ticker)
      <4>1. marker[m] = {}
        BY <3>2, <3>5 DEF MarkPending, CacheInv, WalkRight
      <4>2. reg'[m] = Entry("pending", {})
        BY <3>2, <3>5, EntrySet DEF MarkPending
      <4>3. QED
        BY <1>1, <3>3, <4>1, <4>2 DEF NameRight, Prepared, Entry
    <3>6. CASE RollBack(Ticker)
      <4>1. reg'[m] = Unknown
        BY <3>2, <3>6, EntrySet DEF RollBack
      <4>2. QED
        BY <1>1, <3>3, <4>1 DEF NameRight, Prepared, Unknown, Entry
    <3>7. QED
      BY <3>1, <3>4, <3>5, <3>6
  <2>3. QED
    BY <2>1, <2>2
<1>7. QED
  BY <1>2, <1>3, <1>5, <1>6 DEF CacheInv

(* What the walk stands at changes nothing in the cache. *)
LEMMA WalkAloneCache ==
  ASSUME CacheInv, UNCHANGED <<source, rendition, marker, writers, reg, worker>>,
         scan'[Ticker].at \in {"wait", "sweep", "stat", "purge", "exited"} \/ scan'[Ticker] = scan[Ticker]
  PROVE  CacheInv'
<1>1. \A n \in Names : NameRight(n)'
  BY NameFrame DEF CacheInv, PreparedBy
<1>2. \A w \in Workers : WorkRight(w)'
  BY WorkFrame DEF CacheInv
<1>3. WalkRight' /\ WritersInv'
  BY DEF CacheInv, WalkRight, WritersInv
<1>4. QED
  BY <1>1, <1>2, <1>3 DEF CacheInv

(* A file that is added under a name that nobody has started on. *)
LEMMA AddSourceCache ==
  ASSUME TypeInv, ClaimsInv, PresenceInv, CacheInv, AddSource
  PROVE  CacheInv'
<1>1. PICK n \in Names, c \in Contents : source[n] = NoFile /\ source' = [source EXCEPT ![n] = c]
  BY DEF AddSource
<1>2. UNCHANGED <<rendition, marker, writers, reg, scan, worker>>
  BY DEF AddSource, memory
<1>3. \A m \in Names : m # n => source'[m] = source[m]
  BY <1>1 DEF TypeInv, TypeOK
<1>4. reg[n].status = "unknown" /\ ~DirExists(n)
  BY <1>1, PresentIsThere DEF PresenceInv
<1>5. \A m \in Names : NameRight(m)'
  <2>1. \A m \in Names : m # n => NameRight(m)'
    BY <1>2, <1>3, NameFrame DEF CacheInv, PreparedBy
  <2>2. NameRight(n)'
    BY <1>2, <1>4 DEF CacheInv, NameRight, DirExists
  <2>3. QED
    BY <2>1, <2>2
<1>6. ASSUME NEW w \in Workers PROVE WorkRight(w)'
  <2>1. worker[w].name # n
    <3>1. ClaimsOf(Names)
      BY AllNames
    <3>2. QED
      BY <1>4, <3>1, UnknownIsFree
  <2>2. worker[w].at \notin {"idle", "exited"} => source'[worker[w].name] = source[worker[w].name]
    BY <1>3, <2>1 DEF TypeInv, Located
  <2>3. QED
    BY <1>2, <2>2, WorkFrame DEF CacheInv
<1>7. WalkRight' /\ WritersInv'
  BY <1>2 DEF CacheInv, WalkRight, WritersInv
<1>8. QED
  BY <1>5, <1>6, <1>7 DEF CacheInv

(* A worker that prepares a video changes what is held about that video    *)
(* only: the other names, the other workers and the walk keep theirs.      *)
LEMMA OwnNameOnly ==
  ASSUME TypeInv, ClaimsInv, CacheInv, NEW w \in Workers, WorkerStep(w),
         ~Dequeue(w), ~WorkerExit(w)
  PROVE  /\ worker[w].name \in Names
         /\ \A v \in Workers : v # w => worker[v].name # worker[w].name
         /\ \A m \in Names : m # worker[w].name => NameRight(m)'
         /\ \A v \in Workers : v # w => WorkRight(v)'
         /\ WalkRight'
         /\ UNCHANGED <<source, scan>>
<1> DEFINE n == worker[w].name
<1>1. /\ \A v \in Workers : v # w => worker'[v] = worker[v]
      /\ UNCHANGED <<source, scan, phase>>
  BY WorkerStepFrame
<1>2. n \in Names /\ worker[w].at \in {"picked"} \cup Preparing
  BY WorkerTouches
<1>3. reg[n].status \in {"pending", "transcoding"}
  BY <1>2 DEF ClaimsInv, WorkersHold, Preparing
<1>4. \A v \in Workers : v # w => worker[v].name # n
  BY <1>2 DEF ClaimsInv, SingleOwner
<1>5. \A m \in Names : m # n => reg'[m] = reg[m]
  BY WorkerTouches
<1>6. \A m \in Names : m # n =>
        rendition'[m] = rendition[m] /\ marker'[m] = marker[m] /\ writers'[m] = writers[m]
  BY WorkerTouches
<1>7. ASSUME NEW m \in Names, m # n PROVE NameRight(m)'
  <2>1. \A v \in Workers : PreparedBy(v, m) => PreparedBy(v, m)'
    BY <1>1, <1>7 DEF PreparedBy
  <2>2. QED
    BY <1>1, <1>5, <1>6, <1>7, <2>1, NameFrame DEF CacheInv
<1>8. ASSUME NEW v \in Workers, v # w PROVE WorkRight(v)'
  <2>1. worker[v].at \notin {"idle", "exited"} => worker[v].name \in Names
    BY DEF TypeInv, Located
  <2>2. QED
    BY <1>1, <1>4, <1>6, <1>8, <2>1, WorkFrame DEF CacheInv
<1>9. WalkRight'
  <2>1. scan[Ticker].at \in {"mark", "adopt"} => scan[Ticker].name \in Names \ {n}
    BY <1>3 DEF TypeInv, Located, Scanners, AtName, ClaimsInv, WalkHolds
  <2>2. QED
    BY <1>1, <1>6, <2>1 DEF CacheInv, WalkRight
<1>10. QED
  BY <1>1, <1>2, <1>4, <1>7, <1>8, <1>9

(* A worker that is not at its ffmpeg is not in writers, and stays out.    *)
LEMMA IdleHands ==
  ASSUME TypeInv, CacheInv, NEW w \in Workers, WorkerStep(w), worker[w].at # "ffmpeg",
         writers' = writers
  PROVE  WritersInv'
<1>1. \A n \in Names, q \in Tiers : writers[n][q] \subseteq Workers
  BY DEF TypeInv, TypeOK
<1>2. \A v \in Workers : v # w => worker'[v] = worker[v]
  BY WorkerStepFrame
<1>3. QED
  BY <1>1, <1>2 DEF CacheInv, WritersInv

LEMMA TakingCache ==
  ASSUME TypeInv, CacheInv, NEW w \in Workers, Dequeue(w) \/ WorkerExit(w)
  PROVE  CacheInv'
<1>1. WorkerStep(w)
  BY DEF WorkerStep
<1>2. /\ \A v \in Workers : v # w => worker'[v] = worker[v]
      /\ UNCHANGED <<source, scan, phase>>
  BY <1>1, WorkerStepFrame
<1>3. UNCHANGED <<rendition, marker, writers, reg>> /\ worker[w].at = "idle"
  BY DEF Dequeue, WorkerExit, disk
<1>4. worker'[w].at \in {"picked", "exited"} /\ (worker'[w].at = "picked" => worker'[w].done = {})
  <2>1. worker[w].done = {}
    BY <1>3 DEF CacheInv, WorkRight
  <2>2. QED
    BY <1>1, <2>1, WorkerMoves
<1>5. ASSUME NEW m \in Names PROVE NameRight(m)'
  <2>1. \A v \in Workers : PreparedBy(v, m) => PreparedBy(v, m)'
    BY <1>2, <1>3 DEF PreparedBy, Preparing
  <2>2. QED
    BY <1>2, <1>3, <2>1, NameFrame DEF CacheInv
<1>6. ASSUME NEW v \in Workers PROVE WorkRight(v)'
  <2>1. CASE v = w
    BY <1>4, <2>1 DEF WorkRight
  <2>2. CASE v # w
    BY <1>2, <1>3, <2>2, WorkFrame DEF CacheInv
  <2>3. QED
    BY <2>1, <2>2
<1>7. WalkRight' /\ WritersInv'
  BY <1>1, <1>2, <1>3, IdleHands DEF CacheInv, WalkRight
<1>8. QED
  BY <1>5, <1>6, <1>7 DEF CacheInv

(* What a worker does with the cache of its video, until the probe ...     *)
LEMMA ProbingCache ==
  ASSUME TypeInv, ClaimsInv, CacheInv, NEW w \in Workers, WorkerStep(w),
         NEW n \in Names, n = worker[w].name,
         BeginPrepare(w) \/ ProbeOk(w) \/ ClearPartial(w) \/ ProbeFails(w)
  PROVE  NameRight(n)' /\ WorkRight(w)' /\ WritersInv'
<1>1. /\ \A v \in Workers : v # w => worker'[v] = worker[v]
      /\ source' = source
  BY WorkerStepFrame
<1>2. n # NoName
  BY NamesAssumption
<1>3. NameRight(n) /\ WorkRight(w)
  BY <1>2 DEF CacheInv
<1>4. worker[w].done = {} /\ worker[w].at \in {"picked", "probe", "clear"}
  BY <1>3 DEF BeginPrepare, ProbeOk, ClearPartial, ProbeFails, WorkRight
<1>5. CASE BeginPrepare(w)
  <2>1. reg[n].status = "pending"
    BY <1>5 DEF BeginPrepare, ClaimsInv, WorkersHold
  <2>2. marker[n] = {} /\ UNCHANGED <<rendition, marker, writers>>
    BY <1>3, <1>5, <2>1 DEF NameRight, BeginPrepare, disk
  <2>3. worker'[w].at = "probe" /\ worker'[w].name = n /\ worker'[w].done = {}
    BY <1>4, <1>5, WorkerMoves
  <2>4. reg'[n] = Entry("transcoding", {})
    BY <1>2, <1>5, EntrySet DEF BeginPrepare
  <2>5. NameRight(n)'
    <3>1. PreparedBy(w, n)'
      BY <2>3 DEF PreparedBy, Preparing
    <3>2. QED
      BY <2>2, <2>4, <3>1 DEF NameRight, Entry
  <2>6. WorkRight(w)'
    BY <2>2, <2>3 DEF WorkRight
  <2>7. WritersInv'
    BY <1>4, <2>2, IdleHands
  <2>8. QED
    BY <1>1, <2>3, <2>5, <2>6, <2>7
<1>6. CASE ProbeOk(w)
  <2>1. marker[n] = {} /\ UNCHANGED <<rendition, marker, writers, reg>>
    BY <1>3, <1>6 DEF WorkRight, ProbeOk, disk
  <2>2. /\ worker'[w].at = "clear" /\ worker'[w].name = n /\ worker'[w].done = {}
        /\ worker'[w].todo = Applicable(source[n])
    BY <1>4, <1>6, WorkerMoves
  <2>3. reg[n].status = "transcoding"
    BY <1>6 DEF ProbeOk, ClaimsInv, WorkersHold, Preparing
  <2>4. NameRight(n)'
    <3>1. PreparedBy(w, n)'
      BY <2>2 DEF PreparedBy, Preparing
    <3>2. QED
      BY <1>3, <2>1, <2>3, <3>1 DEF NameRight
  <2>5. WorkRight(w)'
    BY <1>1, <2>1, <2>2 DEF WorkRight
  <2>6. WritersInv'
    BY <1>4, <2>1, IdleHands
  <2>7. QED
    BY <2>4, <2>5, <2>6
<1>7. CASE ClearPartial(w)
  <2>1. /\ rendition'[n] = [q \in Tiers |-> NoFile] /\ marker'[n] = {}
        /\ writers' = [writers EXCEPT ![n] = [q \in Tiers |-> {}]]
        /\ reg' = reg
    BY <1>2, <1>7 DEF ClearPartial, RemoveCache, TypeInv, TypeOK
  <2>2. /\ worker'[w].at = "tiers" /\ worker'[w].name = n /\ worker'[w].done = {}
        /\ worker'[w].todo = Applicable(source[n])
    BY <1>3, <1>4, <1>7, WorkerMoves DEF ClearPartial, WorkRight
  <2>3. reg[n].status = "transcoding"
    BY <1>7 DEF ClearPartial, ClaimsInv, WorkersHold, Preparing
  <2>4. NameRight(n)'
    <3>1. PreparedBy(w, n)'
      BY <2>2 DEF PreparedBy, Preparing
    <3>2. QED
      BY <1>3, <2>1, <2>3, <3>1 DEF NameRight
  <2>5. WorkRight(w)'
    BY <1>1, <2>1, <2>2 DEF WorkRight, Product, Current
  <2>6. WritersInv'
    <3>1. \A m \in Names, q \in Tiers : writers'[m][q] \subseteq writers[m][q] \ {w}
      <4>1. \A m \in Names, q \in Tiers : w \notin writers[m][q]
        BY <1>4 DEF CacheInv, WritersInv
      <4>2. QED
        BY <2>1, <4>1 DEF TypeInv, TypeOK
    <3>2. \A m \in Names, q \in Tiers : writers[m][q] \subseteq Workers
      BY DEF TypeInv, TypeOK
    <3>3. QED
      BY <1>1, <3>1, <3>2 DEF CacheInv, WritersInv
  <2>7. QED
    BY <2>4, <2>5, <2>6
<1>8. CASE ProbeFails(w)
  <2>1. marker[n] = {} /\ UNCHANGED <<rendition, marker, writers>>
    BY <1>3, <1>8 DEF WorkRight, ProbeFails, disk
  <2>2. worker'[w].at = "idle" /\ worker'[w].done = {}
    BY <1>8, WorkerMoves
  <2>3. reg'[n] = Entry("failed", {})
    BY <1>2, <1>8, EntrySet DEF ProbeFails
  <2>4. NameRight(n)'
    BY <2>1, <2>3 DEF NameRight, Entry
  <2>5. WorkRight(w)'
    BY <2>2 DEF WorkRight
  <2>6. WritersInv'
    BY <1>4, <2>1, IdleHands
  <2>7. QED
    BY <2>4, <2>5, <2>6
<1>9. QED
  BY <1>5, <1>6, <1>7, <1>8

(* ... while it has tiers to make ... *)
LEMMA TranscodingCache ==
  ASSUME TypeInv, ClaimsInv, PresenceInv, CacheInv, NEW w \in Workers, WorkerStep(w),
         NEW n \in Names, n = worker[w].name,
         StartTier(w) \/ TierOk(w) \/ TierFails(w)
  PROVE  NameRight(n)' /\ WorkRight(w)' /\ WritersInv'
<1>1. /\ \A v \in Workers : v # w => worker'[v] = worker[v]
      /\ source' = source
  BY WorkerStepFrame
<1>2. worker[w].at \in {"tiers", "ffmpeg"} /\ reg' = reg
  BY DEF StartTier, TierOk, TierFails
<1>3. reg[n].status = "transcoding"
  BY <1>2 DEF ClaimsInv, WorkersHold, Preparing
<1>4. NameRight(n) /\ WorkRight(w) /\ Present(n)
  BY <1>2, <1>3 DEF CacheInv, PresenceInv
<1>5. worker'[w].name = n /\ worker'[w].at \in Preparing
  BY WorkerMoves DEF Preparing
<1>6. marker[n] = {} /\ marker'[n] = {}
  <2>1. marker[n] = {}
    BY <1>2, <1>4 DEF WorkRight
  <2>2. QED
    BY <1>2, <2>1 DEF StartTier, TierOk, TierFails, RemoveCache, TypeInv, TypeOK
<1>7. NameRight(n)'
  <2>1. PreparedBy(w, n)'
    BY <1>5 DEF PreparedBy
  <2>2. QED
    BY <1>2, <1>3, <1>4, <1>6, <2>1 DEF NameRight
<1>8. \A m \in Names, q \in Tiers : writers[m][q] \subseteq Workers
  BY DEF TypeInv, TypeOK
<1>9. Applicable(source[n]) \subseteq Tiers
  BY <1>4, ApplicableType DEF Present
<1>10. CASE StartTier(w)
  <2>1. PICK q \in worker[w].todo :
          /\ worker'[w].at = "ffmpeg" /\ worker'[w].name = n /\ worker'[w].done = worker[w].done
          /\ worker'[w].todo = worker[w].todo \ {q}
          /\ worker'[w].tier = q /\ worker'[w].reading = source[n]
          /\ rendition' = [rendition EXCEPT ![n][q] = Half]
          /\ writers' = [writers EXCEPT ![n][q] = @ \cup {w}]
    BY <1>10, WorkerMoves
  <2>2. q \in Tiers /\ worker[w].at = "tiers"
    BY <1>10 DEF StartTier, TypeInv, TypeOK, WorkerRecord
  <2>3. writers[n][q] = {}
    <3>1. \A v \in writers[n][q] : v = w
      BY <1>2, <1>8, <2>2 DEF CacheInv, WritersInv, ClaimsInv, SingleOwner
    <3>2. w \notin writers[n][q]
      BY <1>2, <2>2 DEF CacheInv, WritersInv
    <3>3. QED
      BY <3>1, <3>2
  <2>4. \A m \in Names, r \in Tiers :
          writers'[m][r] = IF m = n /\ r = q THEN {w} ELSE writers[m][r]
    BY <1>2, <2>1, <2>2, <2>3 DEF TypeInv, TypeOK
  <2>5. \A r \in Tiers : rendition'[n][r] = IF r = q THEN Half ELSE rendition[n][r]
    BY <1>2, <2>1, <2>2 DEF TypeInv, TypeOK
  <2>6. WorkRight(w)'
    <3>1. worker'[w].done \cup worker'[w].todo \cup {q} = Applicable(source[n])
      BY <1>4, <2>1, <2>2 DEF WorkRight, Current
    <3>2. \A r \in Tiers : rendition'[n][r] = Product(w, r)'
      BY <1>1, <1>4, <2>1, <2>2, <2>5 DEF WorkRight, Product, Current
    <3>3. QED
      BY <1>1, <1>2, <1>6, <2>1, <2>2, <2>4, <3>1, <3>2 DEF WorkRight, Current
  <2>7. WritersInv'
    <3> SUFFICES ASSUME NEW m \in Names, NEW r \in Tiers, NEW v \in writers'[m][r]
                 PROVE  worker'[v].at = "ffmpeg" /\ worker'[v].name = m /\ worker'[v].tier = r
      BY DEF WritersInv
    <3>1. CASE m = n /\ r = q
      BY <2>1, <2>4, <3>1
    <3>2. CASE ~(m = n /\ r = q)
      <4>1. v \in writers[m][r] /\ v \in Workers
        BY <1>8, <2>4, <3>2
      <4>2. v # w
        BY <2>2, <4>1 DEF CacheInv, WritersInv
      <4>3. QED
        BY <1>1, <4>1, <4>2 DEF CacheInv, WritersInv
    <3>3. QED
      BY <3>1, <3>2
  <2>8. QED
    BY <1>7, <2>6, <2>7
<1>11. CASE TierOk(w)
  <2> DEFINE q == worker[w].tier
  <2>1. q \in Tiers /\ worker[w].at = "ffmpeg"
    BY <1>11 DEF TierOk, TypeInv, Located
  <2>2. writers[n][q] = {w} /\ worker[w].reading = source[n]
    BY <1>4, <2>1 DEF WorkRight
  <2>3. \A r \in Tiers : rendition'[n][r] = IF r = q THEN source[n] ELSE rendition[n][r]
    BY <1>2, <1>11, <2>1, <2>2 DEF TierOk, TypeInv, TypeOK
  <2>4. \A m \in Names, r \in Tiers : writers'[m][r] \subseteq writers[m][r] \ {w}
    <3>1. \A m \in Names, r \in Tiers : w \in writers[m][r] => m = n /\ r = q
      BY DEF CacheInv, WritersInv
    <3>2. \A m \in Names, r \in Tiers :
            writers'[m][r] = IF m = n /\ r = q THEN {} ELSE writers[m][r]
      BY <1>2, <1>11, <2>1, <2>2 DEF TierOk, TypeInv, TypeOK
    <3>3. QED
      BY <3>1, <3>2
  <2>5. /\ worker'[w].at = "tiers" /\ worker'[w].done = worker[w].done \cup {q}
        /\ worker'[w].todo = worker[w].todo
    BY <1>11, WorkerMoves
  <2>6. WorkRight(w)'
    <3>1. worker'[w].done \cup worker'[w].todo = Applicable(source[n])
      BY <1>4, <2>1, <2>5 DEF WorkRight, Current
    <3>2. \A r \in Tiers : rendition'[n][r] = Product(w, r)'
      BY <1>1, <1>4, <1>5, <2>1, <2>3, <2>5 DEF WorkRight, Product, Current
    <3>3. QED
      BY <1>1, <1>5, <1>6, <2>5, <3>1, <3>2 DEF WorkRight, Current
  <2>7. WritersInv'
    BY <1>1, <1>8, <2>4 DEF CacheInv, WritersInv
  <2>8. QED
    BY <1>7, <2>6, <2>7
<1>12. CASE TierFails(w)
  <2>1. /\ rendition'[n] = [q \in Tiers |-> NoFile]
        /\ writers' = [writers EXCEPT ![n] = [q \in Tiers |-> {}]]
    BY <1>2, <1>12 DEF TierFails, RemoveCache, TypeInv, TypeOK
  <2>2. worker'[w].at = "aborted"
    BY <1>12, WorkerMoves
  <2>3. WorkRight(w)'
    BY <1>5, <1>6, <2>1, <2>2 DEF WorkRight
  <2>4. \A m \in Names, r \in Tiers : writers'[m][r] \subseteq writers[m][r] \ {w}
    <3>1. \A m \in Names, r \in Tiers : w \in writers[m][r] => m = n
      BY DEF CacheInv, WritersInv
    <3>2. QED
      BY <2>1, <3>1 DEF TypeInv, TypeOK
  <2>5. WritersInv'
    BY <1>1, <1>8, <2>4 DEF CacheInv, WritersInv
  <2>6. QED
    BY <1>7, <2>3, <2>5
<1>13. QED
  BY <1>10, <1>11, <1>12

(* ... and when it is done with it. *)
LEMMA FinishingCache ==
  ASSUME TypeInv, ClaimsInv, CacheInv, NEW w \in Workers, WorkerStep(w),
         NEW n \in Names, n = worker[w].name,
         ReportFailure(w) \/ LeaveCancelled(w) \/ WriteMarker(w) \/ SetReady(w)
  PROVE  NameRight(n)' /\ WorkRight(w)' /\ WritersInv'
<1>1. UNCHANGED <<source, rendition, writers>>
  BY WorkerStepFrame DEF ReportFailure, LeaveCancelled, WriteMarker, SetReady, disk
<1>2. NameRight(n) /\ WorkRight(w)
  BY DEF CacheInv
<1>3. reg[n].status = "transcoding"
  BY DEF ReportFailure, LeaveCancelled, WriteMarker, SetReady, ClaimsInv, WorkersHold, Preparing
<1>4. WritersInv'
  <2>1. worker[w].at # "ffmpeg"
    BY DEF ReportFailure, LeaveCancelled, WriteMarker, SetReady
  <2>2. QED
    BY <1>1, <2>1, IdleHands
<1>5. CASE ReportFailure(w) \/ LeaveCancelled(w)
  <2>1. /\ marker[n] = {} /\ marker' = marker
        /\ \A q \in Tiers : rendition[n][q] = NoFile
    BY <1>2, <1>5 DEF WorkRight, ReportFailure, LeaveCancelled, disk
  <2>2. reg'[n] = reg[n] \/ reg'[n] = Entry("failed", {})
    BY <1>5, EntrySet DEF ReportFailure, LeaveCancelled
  <2>3. NameRight(n)'
    BY <1>1, <1>2, <1>3, <2>1, <2>2, FileAssumption DEF NameRight, Entry
  <2>4. WorkRight(w)'
    BY <1>5, WorkerMoves DEF WorkRight
  <2>5. QED
    BY <1>4, <2>3, <2>4
<1>6. CASE WriteMarker(w)
  <2>1. /\ worker'[w].at = "marked" /\ worker'[w].name = n
        /\ worker'[w].done = worker[w].done /\ worker'[w].todo = worker[w].todo
    BY <1>6, WorkerMoves
  <2>2. worker[w].at = "tiers" /\ worker[w].todo = {}
    BY <1>6 DEF WriteMarker
  <2>3. worker[w].done = Applicable(source[n])
    BY <1>2, <2>2 DEF WorkRight, Current
  <2>4. Prepared(n)
    BY <1>2, <2>2, <2>3 DEF WorkRight, Product, Current, Prepared
  <2>5. marker'[n] \in {marker[n], Applicable(source[n])} /\ reg' = reg
    BY <1>6, <2>3 DEF WriteMarker, TypeInv, TypeOK
  <2>6. PreparedBy(w, n)'
    BY <2>1 DEF PreparedBy, Preparing
  <2>7. NameRight(n)'
    BY <1>1, <1>2, <1>3, <2>4, <2>5, <2>6 DEF NameRight, Prepared
  <2>8. WorkRight(w)'
    <3>1. /\ worker'[w].done \cup worker'[w].todo = Applicable(source[n])
          /\ \A q \in Tiers : rendition'[n][q] = Product(w, q)'
      BY <1>1, <1>2, <2>1, <2>2, <2>3 DEF WorkRight, Product, Current
    <3>2. QED
      BY <1>1, <2>1, <2>2, <3>1 DEF WorkRight, Current
  <2>9. QED
    BY <1>4, <2>7, <2>8
<1>7. CASE SetReady(w)
  <2>1. worker[w].at = "marked" /\ worker[w].done = Applicable(source[n])
    BY <1>2, <1>7 DEF SetReady, WorkRight, Current
  <2>2. Prepared(n)
    BY <1>2, <2>1 DEF WorkRight, Product, Current, Prepared
  <2>3. reg'[n] = Entry("ready", Applicable(source[n])) /\ marker' = marker
    BY <1>7, <2>1, EntrySet DEF SetReady, disk
  <2>4. NameRight(n)'
    BY <1>1, <1>2, <2>2, <2>3 DEF NameRight, Prepared, Entry
  <2>5. WorkRight(w)'
    BY <1>7, WorkerMoves DEF WorkRight
  <2>6. QED
    BY <1>4, <2>4, <2>5
<1>8. QED
  BY <1>5, <1>6, <1>7

LEMMA WorkerStepCache ==
  ASSUME TypeInv, ClaimsInv, PresenceInv, CacheInv, NEW w \in Workers, WorkerStep(w)
  PROVE  CacheInv'
<1>1. CASE Dequeue(w) \/ WorkerExit(w)
  BY <1>1, TakingCache
<1>2. CASE ~Dequeue(w) /\ ~WorkerExit(w)
  <2>1. PICK n \in Names : n = worker[w].name
    BY <1>2, OwnNameOnly
  <2>2. NameRight(n)' /\ WorkRight(w)' /\ WritersInv'
    BY <1>2, <2>1, ProbingCache, TranscodingCache, FinishingCache DEF WorkerStep
  <2>3. QED
    BY <1>2, <2>1, <2>2, OwnNameOnly DEF CacheInv
<1>3. QED
  BY <1>1, <1>2

LEMMA NextCache ==
  ASSUME Calm, TypeInv, ClaimsInv, PresenceInv, CacheInv, [Next]_vars
  PROVE  CacheInv'
<1>1. CASE ScanStep(Ticker)
  BY <1>1, ScanStepCache
<1>2. CASE ListCache \/ StatSource \/ EndSweep \/ TickerExit
  BY <1>2, CleanupMoves, WalkAloneCache DEF disk
<1>3. CASE PurgeCache \/ Forget
  BY <1>3 DEF PurgeCache, Forget, PresenceInv
<1>4. CASE \E w \in Workers : WorkerStep(w)
  BY <1>4, WorkerStepCache
<1>5. CASE Crash \/ Exit
  BY <1>5, FreshCache DEF Crash, Exit
<1>6. CASE SourcesUnreadable
  BY <1>6, UnreadableMoves, WalkAloneCache DEF disk, Calm
<1>7. CASE AddSource
  BY <1>7, AddSourceCache
<1>8. CASE Stop \/ Start \/ UNCHANGED vars
  BY <1>8, WalkAloneCache DEF Stop, Start, disk, memory, vars
<1>9. QED
  BY <1>1, <1>2, <1>3, <1>4, <1>5, <1>6, <1>7, <1>8, CalmSteps

-----------------------------------------------------------------------------
(***************************************************************************)
(* The theorems about the pipeline                                         *)
(***************************************************************************)

CalmInv == TypeInv /\ ClaimsInv /\ PresenceInv /\ CacheInv

LEMMA InitCalm == Init => CalmInv
  BY InitTyped, InitClaims, InitPresence, InitCache DEF CalmInv

LEMMA NextCalm == ASSUME Calm PROVE CalmInv /\ [Next]_vars => CalmInv'
  BY NextTyped, CalmRemovesNone, NextClaims, NextPresence, NextCache DEF CalmInv

LEMMA AlwaysCalm == ASSUME Calm PROVE Spec => []CalmInv
<1>1. CalmInv /\ [Next]_vars => CalmInv'
  BY NextCalm
<1>2. QED
  BY InitCalm, <1>1, PTL DEF Spec

(* A .ready marker that exists, in this process's life or after any        *)
(* sequence of crashes, lists the tiers prepare owes the source, each      *)
(* complete and made from the source that is there.                        *)
THEOREM CalmMarkersCertify == Calm => (Spec => []MarkerCertifies)
<1> SUFFICES ASSUME Calm PROVE Spec => []MarkerCertifies
  OBVIOUS
<1>1. ASSUME CalmInv, NEW n \in Names, marker[n] # {}
      PROVE  marker[n] = Applicable(source[n]) /\ Whole(n, marker[n])
  <2>1. marker[n] = Applicable(source[n]) /\ Prepared(n)
    BY <1>1 DEF CalmInv, CacheInv, NameRight
  <2>2. Present(n)
    BY <1>1 DEF CalmInv, PresenceInv, DirExists
  <2>3. marker[n] \subseteq Tiers
    BY <1>1 DEF CalmInv, TypeInv, TypeOK
  <2>4. QED
    BY <2>1, <2>2, <2>3 DEF Prepared, Present, Whole
<1>2. CalmInv => MarkerCertifies
  BY <1>1 DEF MarkerCertifies
<1>3. QED
  BY <1>2, AlwaysCalm, PTL

-----------------------------------------------------------------------------
(***************************************************************************)
(* The calm service implements Lifecycle                                   *)
(***************************************************************************)

(* The registry and the markers of a step that touches neither. *)
LEMMA PromiseStutters ==
  ASSUME UNCHANGED <<reg, marker>>
  PROVE  UNCHANGED Promise!vars
  BY DEF Promise!vars

(* set(name, ...) is a step of the video's status. *)
LEMMA StatusStep ==
  ASSUME TypeInv, NEW n \in Names, NEW e, SetEntry(n, e), NEW from, reg[n].status = from
  PROVE  Promise!Step(n, from, e.status)
<1>1. \A m \in Names : reg'[m] = IF m = n THEN e ELSE reg[m]
  BY EntrySet
<1>2. QED
  BY <1>1 DEF Promise!Step

LEMMA ScanStepPromise ==
  ASSUME CalmInv, ScanStep(Ticker)
  PROVE  [Promise!Next]_(Promise!vars)
<1> DEFINE n == scan[Ticker].name
<1>1. TypeInv /\ WalkHolds /\ WalkRight
  BY DEF CalmInv, ClaimsInv, CacheInv
<1>2. CASE Adopt(Ticker) \/ MarkPending(Ticker) \/ RollBack(Ticker)
  <2>1. n \in Names /\ marker' = marker
    BY <1>1, <1>2 DEF Adopt, MarkPending, RollBack, TypeInv, Located, AtName, Scanners, disk
  <2>2. CASE Adopt(Ticker)
    <3>1. marker[n] # {} /\ reg[n].status = "unknown"
      BY <1>1, <2>2 DEF Adopt, WalkHolds, WalkRight
    <3>2. Promise!Step(n, "unknown", "ready")
      BY <1>1, <2>1, <2>2, <3>1, StatusStep DEF Adopt, Entry
    <3>3. QED
      BY <2>1, <3>1, <3>2 DEF Promise!Next, Promise!TakeOver
  <2>3. CASE MarkPending(Ticker)
    <3>1. marker[n] = {} /\ reg[n].status = "unknown"
      BY <1>1, <2>3 DEF MarkPending, WalkHolds, WalkRight
    <3>2. Promise!Step(n, "unknown", "pending")
      BY <1>1, <2>1, <2>3, <3>1, StatusStep DEF MarkPending, Entry
    <3>3. QED
      BY <2>1, <3>1, <3>2 DEF Promise!Next, Promise!Discover
  <2>4. CASE RollBack(Ticker)
    <3>1. reg[n].status = "pending"
      BY <1>1, <2>4 DEF RollBack, WalkHolds
    <3>2. Promise!Step(n, "pending", "unknown")
      BY <1>1, <2>1, <2>4, <3>1, StatusStep DEF RollBack, Unknown, Entry
    <3>3. QED
      BY <2>1, <3>2 DEF Promise!Next, Promise!PutOff
  <2>5. QED
    BY <1>2, <2>2, <2>3, <2>4
<1>3. CASE ~Adopt(Ticker) /\ ~MarkPending(Ticker) /\ ~RollBack(Ticker)
  <2>1. UNCHANGED <<reg, marker>>
    BY <1>3 DEF ScanStep, ListSources, CheckKnown, ReadMarker, Enqueue, QueueFull, EndScan, disk
  <2>2. QED
    BY <2>1, PromiseStutters
<1>4. QED
  BY <1>2, <1>3

(* prepare always has a tier to make. *)
LEMMA SomeTier ==
  ASSUME NEW c PROVE Applicable(c) # {}
  BY DEF Applicable

LEMMA WorkerStepPromise ==
  ASSUME CalmInv, NEW w \in Workers, WorkerStep(w)
  PROVE  [Promise!Next]_(Promise!vars)
<1> DEFINE n == worker[w].name
<1>1. TypeInv /\ WorkersHold /\ WorkRight(w) /\ \A m \in Names : NameRight(m)
  BY DEF CalmInv, ClaimsInv, CacheInv
<1>2. CASE \/ Dequeue(w) \/ WorkerExit(w) \/ ProbeOk(w) \/ StartTier(w)
         \/ TierOk(w) \/ LeaveCancelled(w)
  <2>1. UNCHANGED <<reg, marker>>
    BY <1>2 DEF Dequeue, WorkerExit, ProbeOk, StartTier, TierOk, LeaveCancelled, disk
  <2>2. QED
    BY <2>1, PromiseStutters
<1>3. CASE ClearPartial(w) \/ TierFails(w)
  <2>1. marker[n] = {} /\ n \in Names
    BY <1>1, <1>3 DEF ClearPartial, TierFails, WorkRight, TypeInv, Located
  <2>2. marker' = [marker EXCEPT ![n] = {}] /\ reg' = reg
    BY <1>3 DEF ClearPartial, TierFails, RemoveCache
  <2>3. marker' = marker
    BY <1>1, <2>1, <2>2 DEF TypeInv, TypeOK
  <2>4. QED
    BY <2>2, <2>3, PromiseStutters
<1>4. CASE BeginPrepare(w)
  <2>1. reg[n].status = "pending" /\ n \in Names /\ marker' = marker
    BY <1>1, <1>4 DEF BeginPrepare, WorkersHold, TypeInv, Located, disk
  <2>2. marker[n] = {}
    BY <1>1, <2>1 DEF NameRight
  <2>3. Promise!Step(n, "pending", "transcoding")
    BY <1>1, <1>4, <2>1, StatusStep DEF BeginPrepare, Entry
  <2>4. QED
    BY <2>1, <2>2, <2>3 DEF Promise!Next, Promise!Begin
<1>5. CASE ProbeFails(w) \/ ReportFailure(w)
  <2>1. reg[n].status = "transcoding" /\ n \in Names /\ marker[n] = {} /\ marker' = marker
    BY <1>1, <1>5 DEF ProbeFails, ReportFailure, WorkersHold, Preparing, WorkRight,
       TypeInv, Located, disk
  <2>2. Promise!Step(n, "transcoding", "failed")
    BY <1>1, <1>5, <2>1, StatusStep DEF ProbeFails, ReportFailure, Entry
  <2>3. QED
    BY <2>1, <2>2 DEF Promise!Next, Promise!Fail
<1>6. CASE WriteMarker(w)
  <2>1. reg[n].status = "transcoding" /\ n \in Names /\ reg' = reg
    BY <1>1, <1>6 DEF WriteMarker, WorkersHold, Preparing, TypeInv, Located
  <2>2. worker[w].done # {}
    BY <1>1, <1>6, SomeTier DEF WriteMarker, WorkRight, Current
  <2>3. CASE marker' = marker
    BY <2>1, <2>3, PromiseStutters
  <2>4. CASE marker' = [marker EXCEPT ![n] = worker[w].done]
    <3>1. \A m \in Names : marker'[m] # {} <=> m = n \/ marker[m] # {}
      BY <1>1, <2>1, <2>2, <2>4 DEF TypeInv, TypeOK
    <3>2. QED
      BY <2>1, <3>1 DEF Promise!Next, Promise!Complete
  <2>5. QED
    BY <1>6, <2>3, <2>4 DEF WriteMarker
<1>7. CASE SetReady(w)
  <2>1. reg[n].status = "transcoding" /\ n \in Names /\ marker' = marker
    BY <1>1, <1>7 DEF SetReady, WorkersHold, Preparing, TypeInv, Located, disk
  <2>2. Promise!Step(n, "transcoding", "ready")
    BY <1>1, <1>7, <2>1, StatusStep DEF SetReady, Entry
  <2>3. QED
    BY <2>1, <2>2 DEF Promise!Next, Promise!Announce
<1>8. QED
  BY <1>2, <1>3, <1>4, <1>5, <1>6, <1>7 DEF WorkerStep

LEMMA NextPromise ==
  ASSUME Calm, CalmInv, [Next]_vars
  PROVE  [Promise!Next]_(Promise!vars)
<1>1. CASE ScanStep(Ticker)
  BY <1>1, ScanStepPromise
<1>2. CASE \E w \in Workers : WorkerStep(w)
  BY <1>2, WorkerStepPromise
<1>3. CASE PurgeCache \/ Forget
  BY <1>3 DEF PurgeCache, Forget, CalmInv, PresenceInv
<1>4. CASE Crash \/ Exit
  <2>1. reg' = FreshReg /\ marker' = marker
    BY <1>4 DEF Crash, Exit, LoseMemory, disk
  <2>2. Promise!Forget
    BY <2>1 DEF Promise!Forget, FreshReg, Unknown, Entry
  <2>3. QED
    BY <2>2 DEF Promise!Next
<1>5. CASE \/ ListCache \/ StatSource \/ EndSweep \/ TickerExit
           \/ Stop \/ Start \/ AddSource \/ SourcesUnreadable \/ UNCHANGED vars
  <2>1. UNCHANGED <<reg, marker>>
    BY <1>5 DEF ListCache, StatSource, EndSweep, TickerExit, Stop, Start, AddSource,
       SourcesUnreadable, disk, memory, vars
  <2>2. QED
    BY <2>1, PromiseStutters
<1>6. QED
  BY <1>1, <1>2, <1>3, <1>4, <1>5, CalmSteps

(* What a client sees of a video goes "pending -> transcoding -> ready (or *)
(* failed)" and nothing else, and a video whose preparation is durable is  *)
(* never transcoded again (streamer/README.md:17-24): every step of the    *)
(* calm service is a step of Lifecycle or changes nothing it speaks of.    *)
THEOREM CalmKeepsPromise == Calm => (Spec => KeepsPromise)
<1> SUFFICES ASSUME Calm PROVE Spec => KeepsPromise
  OBVIOUS
<1>1. Init => Promise!Init
  BY DEF Init, Promise!Init, FreshReg, Unknown, Entry
<1>2. CalmInv /\ [Next]_vars => [Promise!Next]_(Promise!vars)
  BY NextPromise
<1>3. QED
  BY <1>1, <1>2, AlwaysCalm, PTL DEF Spec, KeepsPromise, Promise!Spec

-----------------------------------------------------------------------------
(***************************************************************************)
(* The read side of the calm service                                       *)
(***************************************************************************)

RequestRecord ==
  [at : {"idle", "registry", "source", "tiers", "file", "list", "entries"},
   name : Names \cup {NoName}, tier : Tiers \cup {0}, todo : SUBSET (Tiers \cup Names),
   found : SUBSET Tiers, reply : {"none", "200", "202", "404", "503"}]

(* A request r of player p.  The Stats of a master playlist find what the  *)
(* source is owed, tier by tier: its entry stays ready meanwhile.          *)
RequestRight(p, r) ==
  /\ r \in RequestRecord
  /\ r.at \in {"registry", "source", "tiers", "file"} => r.name \in Names
  /\ r.at \in {"list", "entries"} => r.name = NoName
  /\ r.at = "registry" => r.found = {}
  /\ r.at = "entries" => r.todo \subseteq Names
  /\ r.at = "tiers" => /\ reg[r.name].status = "ready"
                       /\ r.todo \subseteq Tiers
                       /\ r.found = Applicable(source[r.name]) \ r.todo
  /\ r.at = "file" => r.tier \in told[p][r.name]

ToldRight ==
  \A p \in Players, n \in Names :
    told[p][n] # {} => Present(n) /\ told[p][n] = Applicable(source[n])

ReadInv ==
  /\ request \in [Players -> RequestRecord]
  /\ told \in [Players -> [Names -> SUBSET Tiers]]
  /\ \A p \in Players : RequestRight(p, request[p])
  /\ ToldRight

LEMMA IdleRequest ==
  ASSUME NEW p PROVE RequestRight(p, NoRequest) /\ NoRequest.at = "idle" /\ NoRequest.reply = "none"
  BY DEF RequestRight, RequestRecord, NoRequest

LEMMA InitRead == PlaybackInit => ReadInv
  BY IdleRequest DEF PlaybackInit, ReadInv, RequestRight, ToldRight

(* A player's step that tells it nothing new. *)
LEMMA RequestUpdate ==
  ASSUME ReadInv, UNCHANGED vars, NEW p \in Players, NEW r, RequestRight(p, r),
         request' = [request EXCEPT ![p] = r], told' = told
  PROVE  ReadInv'
<1>1. UNCHANGED <<reg, source>>
  BY DEF vars
<1>2. request' \in [Players -> RequestRecord]
  BY DEF ReadInv, RequestRight
<1>3. ToldRight' /\ told' \in [Players -> [Names -> SUBSET Tiers]]
  BY <1>1 DEF ReadInv, ToldRight, Present
<1>4. ASSUME NEW x \in Players PROVE RequestRight(x, request[x])'
  <2>1. request'[x] = IF x = p THEN r ELSE request[x]
    BY DEF ReadInv
  <2>2. RequestRight(x, request'[x])
    BY <2>1 DEF ReadInv
  <2>3. QED
    BY <1>1, <2>2 DEF RequestRight
<1>5. QED
  BY <1>2, <1>3, <1>4 DEF ReadInv

(* A player's step that tells it the tiers of a video. *)
LEMMA ToldUpdate ==
  ASSUME ReadInv, UNCHANGED vars, NEW p \in Players, NEW r, RequestRight(p, r), r.at # "file",
         NEW n \in Names, NEW ts \in SUBSET Tiers,
         ts # {} => Present(n) /\ ts = Applicable(source[n]),
         request' = [request EXCEPT ![p] = r], told' = [told EXCEPT ![p][n] = ts]
  PROVE  ReadInv' /\ told'[p][n] = ts
<1>1. UNCHANGED <<reg, source>>
  BY DEF vars
<1>2. request' \in [Players -> RequestRecord]
  BY DEF ReadInv, RequestRight
<1>3. /\ told' \in [Players -> [Names -> SUBSET Tiers]]
      /\ \A x \in Players, m \in Names : told'[x][m] = IF x = p /\ m = n THEN ts ELSE told[x][m]
  BY DEF ReadInv
<1>4. ToldRight'
  BY <1>1, <1>3 DEF ReadInv, ToldRight, Present
<1>5. ASSUME NEW x \in Players PROVE RequestRight(x, request[x])'
  <2>1. request'[x] = IF x = p THEN r ELSE request[x]
    BY DEF ReadInv
  <2>2. RequestRight(x, request'[x]) /\ (x = p => request'[x].at # "file")
    BY <2>1 DEF ReadInv
  <2>3. \A m \in Names : x # p => told'[x][m] = told[x][m]
    BY <1>3
  <2>4. QED
    BY <1>1, <2>2, <2>3 DEF RequestRight
<1>6. QED
  BY <1>2, <1>3, <1>4, <1>5 DEF ReadInv

LEMMA ReplyRight ==
  ASSUME ReadInv, NEW p \in Players, NEW a \in {"200", "202", "404", "503"}
  PROVE  LET r == [NoRequest EXCEPT !.name = request[p].name, !.reply = a]
         IN RequestRight(p, r) /\ r.at = "idle" /\ r.reply = a
<1>1. request[p].name \in Names \cup {NoName}
  BY DEF ReadInv, RequestRecord
<1>2. QED
  BY <1>1 DEF RequestRight, RequestRecord, NoRequest

(* What a ready video's tiers are, and a file that is not there.           *)
LEMMA ReadyIsPrepared ==
  ASSUME CalmInv, NEW n \in Names, Kept(n)
  PROVE  /\ Present(n) /\ Prepared(n)
         /\ reg[n].status = "ready" => reg[n].tiers = Applicable(source[n])
<1>1. NameRight(n) /\ PresenceInv
  BY DEF CalmInv, CacheInv
<1>2. QED
  BY <1>1 DEF Kept, NameRight, PresenceInv, DirExists

(* An answer that does not contradict what the player was told. *)
Agrees(p) ==
  LET n == request[p].name
  IN n # NoName /\ request'[p].reply # request[p].reply =>
       /\ request'[p].reply \in {"404", "503"} => told[p][n] = {} \/ ~Kept(n)
       /\ request'[p].reply = "200" => told'[p][n] # {}

LEMMA AskRead ==
  ASSUME ReadInv, NEW p \in Players, AskMaster(p) \/ AskTier(p) \/ AskVideos(p)
  PROVE  ReadInv' /\ Agrees(p)
<1>1. PICK at, n, q :
        /\ Ask(p, at, n, q)
        /\ \/ at = "registry" /\ n \in Names /\ q = 0
           \/ at = "file" /\ n \in Names /\ q \in told[p][n]
           \/ at = "list" /\ n = NoName /\ q = 0
  BY DEF AskMaster, AskTier, AskVideos
<1> DEFINE r == [NoRequest EXCEPT !.at = at, !.name = n, !.tier = q]
<1>2. q \in Tiers \cup {0}
  BY <1>1 DEF ReadInv
<1>3. RequestRight(p, r) /\ r.reply = "none"
  BY <1>1, <1>2, NamesAssumption DEF RequestRight, RequestRecord, NoRequest
<1>4. request' = [request EXCEPT ![p] = r] /\ told' = told /\ UNCHANGED vars
  BY <1>1 DEF Ask
<1> HIDE DEF r
<1>5. ReadInv'
  BY <1>3, <1>4, RequestUpdate
<1>6. request'[p] = r
  BY <1>4 DEF ReadInv
<1>7. QED
  BY <1>3, <1>5, <1>6 DEF Agrees

(* A handler that answers, and one that goes on.                           *)
LEMMA AnswerRead ==
  ASSUME ReadInv, UNCHANGED vars, NEW p \in Players, NEW a \in {"200", "202", "404", "503"},
         Reply(p, a), told' = told,
         LET n == request[p].name
         IN n # NoName =>
              /\ a \in {"404", "503"} => told[p][n] = {} \/ ~Kept(n)
              /\ a = "200" => told[p][n] # {}
  PROVE  ReadInv' /\ Agrees(p)
<1> DEFINE r == [NoRequest EXCEPT !.name = request[p].name, !.reply = a]
<1>1. RequestRight(p, r) /\ r.reply = a
  BY ReplyRight
<1>2. request' = [request EXCEPT ![p] = r]
  BY DEF Reply
<1> HIDE DEF r
<1>3. ReadInv'
  BY <1>1, <1>2, RequestUpdate
<1>4. request'[p] = r
  BY <1>2 DEF ReadInv
<1>5. QED
  BY <1>1, <1>3, <1>4 DEF Agrees

LEMMA GoOnRead ==
  ASSUME ReadInv, UNCHANGED vars, NEW p \in Players, NEW r, RequestRight(p, r),
         r.reply = request[p].reply, request' = [request EXCEPT ![p] = r], told' = told
  PROVE  ReadInv' /\ Agrees(p)
<1>1. ReadInv'
  BY RequestUpdate
<1>2. request'[p] = r
  BY DEF ReadInv
<1>3. QED
  BY <1>1, <1>2 DEF Agrees

LEMMA MasterRead ==
  ASSUME CalmInv, ReadInv, NEW p \in Players, MasterRegistry(p) \/ MasterSource(p)
  PROVE  ReadInv' /\ Agrees(p)
<1> DEFINE n == request[p].name
<1>1. /\ request[p] \in RequestRecord /\ n \in Names
      /\ UNCHANGED vars /\ told' = told
  BY DEF MasterRegistry, MasterSource, ReadInv, RequestRight
<1>2. CASE MasterRegistry(p)
  <2>1. reg[n].status = "failed" => ~Kept(n)
    BY <1>1 DEF CalmInv, CacheInv, NameRight, Kept
  <2>2. CASE request' = [request EXCEPT ![p].at = "source"]
    <3> DEFINE r == [request[p] EXCEPT !.at = "source"]
    <3>1. RequestRight(p, r) /\ r.reply = request[p].reply
      BY <1>1 DEF RequestRight, RequestRecord
    <3>2. request' = [request EXCEPT ![p] = r]
      BY <2>2
    <3> HIDE DEF r
    <3>3. QED
      BY <1>1, <3>1, <3>2, GoOnRead
  <2>3. CASE reg[n].status = "ready" /\ StatTiers(p)
    <3> DEFINE r == [request[p] EXCEPT !.at = "tiers", !.todo = Tiers]
    <3>1. r.at = "tiers" /\ r.name = n /\ r.todo = Tiers /\ r.found = request[p].found
          /\ r.reply = request[p].reply /\ r \in RequestRecord
      BY <1>1 DEF RequestRecord
    <3>2. request' = [request EXCEPT ![p] = r]
      BY <2>3 DEF StatTiers
    <3>3. request[p].found = {}
      BY <1>2 DEF MasterRegistry, ReadInv, RequestRight
    <3>4. Applicable(source[n]) \ Tiers = {}
      <4>1. Present(n)
        BY <1>1, <2>3 DEF CalmInv, PresenceInv
      <4>2. QED
        BY <4>1, ApplicableType DEF Present
    <3> HIDE DEF r
    <3>5. RequestRight(p, r)
      BY <1>1, <2>3, <3>1, <3>3, <3>4 DEF RequestRight
    <3>6. QED
      BY <1>1, <3>1, <3>2, <3>5, GoOnRead
  <2>4. CASE reg[n].status = "failed" /\ Reply(p, "503")
    BY <1>1, <2>1, <2>4, AnswerRead
  <2>5. CASE Reply(p, "202")
    BY <1>1, <2>5, AnswerRead
  <2>6. QED
    BY <1>2, <2>2, <2>3, <2>4, <2>5 DEF MasterRegistry
<1>3. CASE MasterSource(p)
  <2>1. CASE source[n] = NoFile
    <3>1. told[p][n] = {}
      BY <1>1, <2>1, FileAssumption DEF ReadInv, ToldRight, Present
    <3>2. QED
      BY <1>1, <1>3, <2>1, <3>1, AnswerRead DEF MasterSource
  <2>2. CASE source[n] # NoFile
    BY <1>1, <1>3, <2>2, AnswerRead DEF MasterSource
  <2>3. QED
    BY <2>1, <2>2
<1>4. QED
  BY <1>2, <1>3

LEMMA TiersRead ==
  ASSUME CalmInv, ReadInv, NEW p \in Players, MasterTier(p) \/ MasterDone(p)
  PROVE  ReadInv' /\ Agrees(p)
<1> DEFINE n == request[p].name
<1>1. /\ request[p] \in RequestRecord /\ n \in Names /\ request[p].at = "tiers"
      /\ reg[n].status = "ready" /\ request[p].todo \subseteq Tiers
      /\ request[p].found = Applicable(source[n]) \ request[p].todo
      /\ UNCHANGED vars
  BY DEF MasterTier, MasterDone, ReadInv, RequestRight
<1>2. Present(n) /\ Prepared(n)
  BY <1>1, ReadyIsPrepared DEF Kept
<1>3. Applicable(source[n]) \subseteq Tiers
  BY <1>2, ApplicableType DEF Present
<1>4. CASE MasterTier(p)
  <2>1. PICK q \in request[p].todo, found \in BOOLEAN :
          /\ rendition[n][q] # Half => (found <=> rendition[n][q] # NoFile)
          /\ request' = [request EXCEPT ![p] =
               [request[p] EXCEPT !.todo = request[p].todo \ {q},
                                  !.found = request[p].found \cup (IF found THEN {q} ELSE {})]]
    BY <1>4 DEF MasterTier
  <2>2. found <=> q \in Applicable(source[n])
    BY <1>1, <1>2, <2>1, FileAssumption DEF Prepared, Present
  <2> DEFINE r == [request[p] EXCEPT !.todo = request[p].todo \ {q},
                                     !.found = request[p].found \cup (IF found THEN {q} ELSE {})]
  <2>3. /\ r.at = "tiers" /\ r.name = n /\ r.reply = request[p].reply
        /\ r.todo = request[p].todo \ {q}
        /\ r.found = request[p].found \cup (IF found THEN {q} ELSE {})
    BY <1>1 DEF RequestRecord
  <2>4. r.found = Applicable(source[n]) \ r.todo
    BY <1>1, <2>2, <2>3
  <2>5. r \in RequestRecord
    <3>1. q \in Tiers
      BY <1>1
    <3>2. QED
      BY <1>1, <3>1 DEF RequestRecord
  <2>6. request' = [request EXCEPT ![p] = r]
    BY <2>1
  <2> HIDE DEF r
  <2>7. RequestRight(p, r)
    BY <1>1, <2>3, <2>4, <2>5 DEF RequestRight
  <2>8. told' = told
    BY <1>4 DEF MasterTier
  <2>9. QED
    BY <1>1, <2>3, <2>6, <2>7, <2>8, GoOnRead
<1>5. CASE MasterDone(p)
  <2> DEFINE r == [NoRequest EXCEPT !.name = n, !.reply = "200"]
             ts == request[p].found
  <2>1. RequestRight(p, r) /\ r.at = "idle" /\ r.reply = "200"
    BY ReplyRight
  <2>2. ts = Applicable(source[n]) /\ ts \in SUBSET Tiers
    BY <1>1, <1>3, <1>5 DEF MasterDone
  <2>3. request' = [request EXCEPT ![p] = r] /\ told' = [told EXCEPT ![p][n] = ts]
    BY <1>5 DEF MasterDone, Reply
  <2> HIDE DEF r, ts
  <2>4. ReadInv' /\ told'[p][n] = ts
    <3> HIDE DEF n
    <3>1. ts # {} => Present(n) /\ ts = Applicable(source[n])
      BY <1>2, <2>2
    <3>2. n \in Names /\ UNCHANGED vars
      BY <1>1
    <3>3. QED
      BY <2>1, <2>2, <2>3, <3>1, <3>2, ToldUpdate
  <2>5. request'[p] = r
    BY <2>3 DEF ReadInv
  <2>6. QED
    BY <2>1, <2>2, <2>4, <2>5, SomeTier DEF Agrees
<1>6. QED
  BY <1>4, <1>5

LEMMA FileRead ==
  ASSUME CalmInv, ReadInv, NEW p \in Players, ServeFile(p)
  PROVE  ReadInv' /\ Agrees(p)
<1> DEFINE n == request[p].name
           q == request[p].tier
<1>1. n \in Names /\ q \in told[p][n] /\ UNCHANGED vars /\ told' = told
  BY DEF ServeFile, ReadInv, RequestRight
<1>2. Kept(n) => rendition[n][q] \in Contents
  <2>1. q \in Applicable(source[n]) /\ q \in Tiers
    BY <1>1 DEF ReadInv, ToldRight
  <2>2. QED
    BY <1>1, <2>1, ReadyIsPrepared DEF Prepared, Present
<1>3. CASE Reply(p, "200")
  BY <1>1, <1>3, AnswerRead
<1>4. CASE rendition[n][q] \notin Contents /\ Reply(p, "404")
  BY <1>1, <1>2, <1>4, AnswerRead
<1>5. QED
  BY <1>3, <1>4 DEF ServeFile

LEMMA ListingRead ==
  ASSUME CalmInv, ReadInv, NEW p \in Players, ListRead(p) \/ ListEntry(p) \/ ListDone(p)
  PROVE  ReadInv' /\ Agrees(p)
<1>1. /\ request[p] \in RequestRecord /\ request[p].name = NoName
      /\ request[p].at \in {"list", "entries"}
      /\ UNCHANGED vars
  BY DEF ListRead, ListEntry, ListDone, ReadInv, RequestRight
<1>2. Agrees(p)
  BY <1>1 DEF Agrees
<1>3. CASE ListRead(p)
  <2> DEFINE r == [request[p] EXCEPT !.at = "entries", !.todo = {n \in Names : source[n] # NoFile}]
  <2>1. RequestRight(p, r)
    BY <1>1 DEF RequestRight, RequestRecord
  <2>2. request' = [request EXCEPT ![p] = r] /\ told' = told
    BY <1>3 DEF ListRead
  <2> HIDE DEF r
  <2>3. QED
    BY <1>1, <1>2, <2>1, <2>2, RequestUpdate
<1>4. CASE ListEntry(p)
  <2>1. PICK n \in request[p].todo :
          /\ request' = [request EXCEPT ![p].todo = request[p].todo \ {n}]
          /\ told' = IF source[n] = NoFile THEN told ELSE [told EXCEPT ![p][n] = reg[n].tiers]
    BY <1>4 DEF ListEntry
  <2>2. n \in Names /\ request[p].at = "entries" /\ request[p].todo \subseteq Names
    BY <1>4 DEF ListEntry, ReadInv, RequestRight
  <2> DEFINE r == [request[p] EXCEPT !.todo = request[p].todo \ {n}]
             ts == reg[n].tiers
  <2>3. RequestRight(p, r) /\ r.at # "file"
    BY <1>1, <2>2 DEF RequestRight, RequestRecord
  <2>4. request' = [request EXCEPT ![p] = r]
    BY <2>1
  <2>5. ts \in SUBSET Tiers /\ (ts # {} => Present(n) /\ ts = Applicable(source[n]))
    <3>1. ts \in SUBSET Tiers
      BY <2>2 DEF CalmInv, TypeInv, TypeOK, EntryRecord
    <3>2. ts # {} => reg[n].status = "ready"
      BY <2>2 DEF CalmInv, CacheInv, NameRight
    <3>3. QED
      BY <2>2, <3>1, <3>2, ReadyIsPrepared DEF Kept
  <2>6. told' = told \/ told' = [told EXCEPT ![p][n] = ts]
    BY <2>1
  <2> HIDE DEF r, ts
  <2>7. QED
    BY <1>1, <1>2, <2>2, <2>3, <2>4, <2>5, <2>6, RequestUpdate, ToldUpdate
<1>5. CASE ListDone(p)
  <2> DEFINE r == [NoRequest EXCEPT !.name = request[p].name, !.reply = "200"]
  <2>1. RequestRight(p, r)
    BY ReplyRight
  <2>2. request' = [request EXCEPT ![p] = r] /\ told' = told
    BY <1>5 DEF ListDone, Reply
  <2> HIDE DEF r
  <2>3. QED
    BY <1>1, <1>2, <2>1, <2>2, RequestUpdate
<1>6. QED
  BY <1>3, <1>4, <1>5

(* In the calm service a source stays what it is, ...                      *)
LEMMA SourceStays ==
  ASSUME Calm, CalmInv, [Next]_vars, NEW n \in Names, Present(n)
  PROVE  source'[n] = source[n]
<1>1. CASE AddSource
  <2>1. PICK m \in Names, c \in Contents : source[m] = NoFile /\ source' = [source EXCEPT ![m] = c]
    BY <1>1 DEF AddSource
  <2>2. m # n
    BY <2>1, FileAssumption DEF Present
  <2>3. QED
    BY <2>1, <2>2 DEF CalmInv, TypeInv, TypeOK
<1>2. CASE ScanStep(Ticker)
  BY <1>2, ScanMoves DEF disk, CalmInv
<1>3. CASE \E w \in Workers : WorkerStep(w)
  BY <1>3, WorkerStepFrame DEF CalmInv
<1>4. CASE \/ ListCache \/ StatSource \/ PurgeCache \/ Forget \/ EndSweep \/ TickerExit
           \/ Crash \/ Exit \/ Stop \/ Start \/ SourcesUnreadable \/ UNCHANGED vars
  BY <1>4 DEF ListCache, StatSource, PurgeCache, Forget, EndSweep, TickerExit, Crash, Exit,
     LoseMemory, Stop, Start, SourcesUnreadable, disk, vars
<1>5. QED
  BY <1>1, <1>2, <1>3, <1>4, CalmSteps

(* ... and what is ready stays ready until the process ends. *)
LEMMA ReadyStays ==
  ASSUME Calm, CalmInv, [Next]_vars, NEW n \in Names, reg[n].status = "ready"
  PROVE  reg'[n] = reg[n] \/ phase' = "down"
<1>1. TypeInv /\ WalkHolds /\ WorkersHold
  BY DEF CalmInv, ClaimsInv
<1>2. CASE ScanStep(Ticker)
  <2>1. CASE Adopt(Ticker) \/ MarkPending(Ticker) \/ RollBack(Ticker)
    <3>1. scan[Ticker].name # n
      BY <1>1, <2>1 DEF Adopt, MarkPending, RollBack, WalkHolds
    <3>2. scan[Ticker].name \in Names
      BY <1>1, <2>1 DEF Adopt, MarkPending, RollBack, TypeInv, Located, AtName, Scanners
    <3>3. QED
      BY <1>1, <2>1, <3>1, <3>2, EntrySet DEF Adopt, MarkPending, RollBack
  <2>2. CASE ~Adopt(Ticker) /\ ~MarkPending(Ticker) /\ ~RollBack(Ticker)
    BY <1>2, <2>2 DEF ScanStep, ListSources, CheckKnown, ReadMarker, Enqueue, QueueFull, EndScan
  <2>3. QED
    BY <2>1, <2>2
<1>3. ASSUME NEW w \in Workers, WorkerStep(w) PROVE reg'[n] = reg[n]
  <2>1. CASE BeginPrepare(w) \/ ProbeFails(w) \/ ReportFailure(w) \/ SetReady(w)
    <3>1. reg[worker[w].name].status \in {"pending", "transcoding"}
      BY <1>1, <2>1 DEF BeginPrepare, ProbeFails, ReportFailure, SetReady, WorkersHold, Preparing
    <3>2. worker[w].name \in Names
      BY <1>1, <2>1 DEF BeginPrepare, ProbeFails, ReportFailure, SetReady, TypeInv, Located
    <3>3. QED
      BY <1>1, <2>1, <3>1, <3>2, EntrySet DEF BeginPrepare, ProbeFails, ReportFailure, SetReady
  <2>2. CASE ~BeginPrepare(w) /\ ~ProbeFails(w) /\ ~ReportFailure(w) /\ ~SetReady(w)
    BY <1>3, <2>2 DEF WorkerStep, Dequeue, WorkerExit, ProbeOk, ClearPartial, StartTier, TierOk, TierFails,
       LeaveCancelled, WriteMarker
  <2>3. QED
    BY <2>1, <2>2
<1>4. CASE Crash \/ Exit
  BY <1>4 DEF Crash, Exit, LoseMemory
<1>5. CASE PurgeCache \/ Forget
  BY <1>5 DEF PurgeCache, Forget, CalmInv, PresenceInv
<1>6. CASE \/ ListCache \/ StatSource \/ EndSweep \/ TickerExit
           \/ Stop \/ Start \/ AddSource \/ SourcesUnreadable \/ UNCHANGED vars
  BY <1>6 DEF ListCache, StatSource, EndSweep, TickerExit, Stop, Start, AddSource,
     SourcesUnreadable, memory, vars
<1>7. QED
  BY <1>2, <1>3, <1>4, <1>5, <1>6, CalmSteps

LEMMA PipelineRead ==
  ASSUME Calm, CalmInv, ReadInv, Pipeline
  PROVE  ReadInv' /\ \A p \in Players : Agrees(p)
<1>1. [Next]_vars /\ told' = told
  BY DEF Pipeline
<1>2. request' = IF phase' = "down" THEN [p \in Players |-> NoRequest] ELSE request
  BY DEF Pipeline
<1>3. \A n \in Names : Present(n) => source'[n] = source[n]
  BY <1>1, SourceStays
<1>4. ToldRight'
  BY <1>1, <1>3 DEF ReadInv, ToldRight, Present
<1>5. CASE phase' = "down"
  <2>1. \A p \in Players : request'[p] = NoRequest
    BY <1>2, <1>5
  <2>2. request' \in [Players -> RequestRecord]
    BY <1>2, <1>5, IdleRequest DEF RequestRight
  <2>3. \A p \in Players : RequestRight(p, request[p])' /\ Agrees(p)
    BY <2>1, IdleRequest DEF RequestRight, Agrees
  <2>4. QED
    BY <1>1, <1>4, <2>2, <2>3 DEF ReadInv
<1>6. CASE phase' # "down"
  <2>1. request' = request
    BY <1>2, <1>6
  <2>2. ASSUME NEW p \in Players PROVE RequestRight(p, request[p])'
    <3>1. RequestRight(p, request[p])
      BY DEF ReadInv
    <3>2. CASE request[p].at = "tiers"
      <4>1. PICK n \in Names : n = request[p].name
        BY <3>1, <3>2 DEF RequestRight
      <4>2. reg[n].status = "ready"
        BY <3>1, <3>2, <4>1 DEF RequestRight
      <4>3. reg'[n] = reg[n]
        BY <1>1, <1>6, <4>2, ReadyStays
      <4>4. source'[n] = source[n]
        BY <1>3, <4>2 DEF CalmInv, PresenceInv
      <4>5. QED
        BY <1>1, <2>1, <3>1, <3>2, <4>1, <4>3, <4>4 DEF RequestRight
    <3>3. CASE request[p].at # "tiers"
      BY <1>1, <2>1, <3>1, <3>3 DEF RequestRight
    <3>4. QED
      BY <3>2, <3>3
  <2>3. QED
    BY <1>1, <1>4, <2>1, <2>2 DEF ReadInv, Agrees
<1>7. QED
  BY <1>5, <1>6

PlaybackInv == CalmInv /\ ReadInv

LEMMA NextRead ==
  ASSUME Calm, PlaybackInv, [PlaybackNext]_allVars
  PROVE  PlaybackInv' /\ \A p \in Players : Agrees(p)
<1>1. CalmInv /\ ReadInv
  BY DEF PlaybackInv
<1>2. CASE Pipeline
  <2>1. CalmInv'
    BY <1>1, <1>2, NextCalm DEF Pipeline
  <2>2. QED
    BY <1>1, <1>2, <2>1, PipelineRead DEF PlaybackInv
<1>3. ASSUME NEW p \in Players, AskMaster(p) \/ AskTier(p) \/ AskVideos(p) \/ Handler(p)
      PROVE  PlaybackInv' /\ \A x \in Players : Agrees(x)
  <2>1. ReadInv' /\ Agrees(p)
    BY <1>1, <1>3, AskRead, MasterRead, TiersRead, FileRead, ListingRead DEF Handler
  <2>2. UNCHANGED vars
    BY <1>3 DEF AskMaster, AskTier, AskVideos, Ask, Handler, MasterRegistry, MasterSource,
       MasterTier, MasterDone, ServeFile, ListRead, ListEntry, ListDone
  <2>3. \A x \in Players : x # p => request'[x] = request[x]
    BY <1>1, <1>3 DEF AskMaster, AskTier, AskVideos, Ask, Handler, MasterRegistry, MasterSource,
       MasterTier, MasterDone, ServeFile, ListRead, ListEntry, ListDone, StatTiers, Reply, ReadInv
  <2>4. CalmInv'
    BY <1>1, <2>2, NextCalm
  <2>5. QED
    BY <2>1, <2>3, <2>4 DEF PlaybackInv, Agrees
<1>4. CASE UNCHANGED allVars
  <2>1. UNCHANGED vars /\ request' = request /\ told' = told
    BY <1>4 DEF allVars
  <2>2. CalmInv'
    BY <1>1, <2>1, NextCalm
  <2>3. ReadInv'
    BY <1>1, <2>1 DEF ReadInv, RequestRight, ToldRight, Present, vars
  <2>4. QED
    BY <2>1, <2>2, <2>3 DEF PlaybackInv, Agrees
<1>5. QED
  BY <1>2, <1>3, <1>4 DEF PlaybackNext

LEMMA InitPlayback == PlaybackInit => PlaybackInv
  BY InitCalm, InitRead DEF PlaybackInit, PlaybackInv

(* A player that was told of a video's tiers can play them at every later  *)
(* moment while the video is kept: they are those prepare owes the source, *)
(* complete and made from it.                                              *)
THEOREM CalmToldIsPlayable == Calm => (PlaybackSpec => []ToldIsPlayable)
<1> SUFFICES ASSUME Calm PROVE PlaybackSpec => []ToldIsPlayable
  OBVIOUS
<1>1. ASSUME PlaybackInv, NEW p \in Players, NEW n \in Names, told[p][n] # {}, Kept(n)
      PROVE  told[p][n] = Applicable(source[n]) /\ Whole(n, told[p][n])
  <2>1. told[p][n] = Applicable(source[n]) /\ told[p][n] \subseteq Tiers
    BY <1>1 DEF PlaybackInv, ReadInv, ToldRight
  <2>2. Present(n) /\ Prepared(n)
    BY <1>1, ReadyIsPrepared DEF PlaybackInv
  <2>3. QED
    BY <2>1, <2>2 DEF Whole, Prepared, Present
<1>2. PlaybackInv => ToldIsPlayable
  BY <1>1 DEF ToldIsPlayable
<1>3. PlaybackInv /\ [PlaybackNext]_allVars => PlaybackInv'
  BY NextRead
<1>4. QED
  BY <1>2, <1>3, InitPlayback, PTL DEF PlaybackSpec

(* The handlers do not contradict one another although none of them holds  *)
(* a lock across its Stats: no 404 or 503 about tiers a player was told    *)
(* of, no master playlist without a tier.                                  *)
THEOREM CalmAnswersAgree == Calm => (PlaybackSpec => AnswersAgree)
<1> SUFFICES ASSUME Calm PROVE PlaybackSpec => AnswersAgree
  OBVIOUS
<1> DEFINE Said == \A p \in Players :
                     LET n == request[p].name
                     IN n # NoName /\ request'[p].reply # request[p].reply =>
                          /\ request'[p].reply \in {"404", "503"} => told[p][n] = {} \/ ~Kept(n)
                          /\ request'[p].reply = "200" => told'[p][n] # {}
<1>1. PlaybackInv /\ [PlaybackNext]_allVars => PlaybackInv' /\ Said
  BY NextRead DEF Agrees
<1>2. QED
  BY <1>1, InitPlayback, PTL DEF PlaybackSpec, AnswersAgree
=============================================================================
