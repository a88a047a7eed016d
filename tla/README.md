# Verification of TapeNetwork

TapeNetwork is an online-television product: a public web site (`web`, Next.js), a
content service (`backend`, Spring Boot on PostgreSQL), an editors' front end (`cms`,
Refine/React) and an HLS streaming service (`streamer`, one Go binary around ffmpeg).
This directory holds TLA+ models of the parts of it whose correctness depends on order,
timing, failure or the agreement of two pieces of state, the TLC runs that check them on
small instances, and TLAPS proofs of what matters most for instances of every size.

`PROJECT.json` names every run, the source lines behind each definition, the hazards the
properties are for, the wrong variants ("slips", defined next to the definition they
distort) that show each property can fail, the findings and the theorems.

To check: `tlc -config <run>.cfg <MC module>.tla` for a run, `tlapm <module>.tla` for
the proofs.

## 1. The system

In the order of how much depends on them. *State* is what outlives a request.

| component | state | operations | what is hard about it |
| --- | --- | --- | --- |
| **streamer, preparation** (`streamer/main.go`) | `VIDEOS_DIR`, `HLS_CACHE_DIR` on disk; registry, queue, one scanner, N workers in memory | scan at start, on a tick and after each upload; prepare (probe, tiers, marker); cleanup of orphans; upload; shutdown | goroutines share the registry one operation at a time and the disk one file operation at a time; crash at any point, restart from the disk alone; a full queue; timeouts; operators working on the directories |
| **streamer, read side** (`main.go`) | none of its own | master, quality playlist, segment, list | a handler reads registry, source directory and cache directory in several steps while the pipeline works |
| **backend, video store and views** | table `video`; the map of all videos (`CachedContentStore`); the buffer of views (`ViewCountService`) | watch, flush, GET, create / update / delete, cascade, preload | the map is written before the transaction commits; a flush reads and resets concurrent adders inside a transaction; every GET sets a count on the model all readers share; rollbacks; a preload next to requests |
| **backend, public caches** | Hazelcast maps of a cluster of instances; per-instance video map and media table | look up and put; evict on every write; expire; preload, reload | an eviction does not stop a lookup that is computing the old answer; commit and eviction are two steps, and either may not happen; a start serves requests from a map it is still filling; state per process behind state per cluster |
| **backend, rankings and lists** | the above | popular, articles by page, CMS tables | ranking by a number that is half in the table and half in memory, read at two moments; paging a hash map under writes, or one that a start is filling; int arithmetic |
| **cms, video form** with **backend, video metadata** | `video_security`, `video_person`; the form in each browser | two GETs, seed, edit, PATCH, two PUTs | answers late or twice; part of a save fails; two editors; a PUT that deletes what it has read |
| **cms, session** and backend, authentication | token and identity in the browser's storage, shared by its tabs | login, check, onError, logout; tokens issued, accepted until they expire | answers of an old session meet a new one; two tabs write two keys each |
| **cms, form of a record** (choice of a stream, media upload) | the form's values; the list of videos; flags of what is under way | refresh, upload, choose, save, leave | lists answered out of order; uploads that end after the save or the form; one flag for several fields |
| **web, video player** | hls.js, the media element and what React shows of both | attach, import, recover, dispose; play, pause, mute | an effect disposed while it waits; events after disposal; events that a new source discards; a `play()` that is interrupted |
| **web, pages** with backend, home / shows / persons / sitemap / search | none between requests | a page's requests, codecs, mappers, what the page is and links to | one flawed row, one failed request or an outage, and which page it takes away |
| **perf, suites and gate** | iterations of virtual users; records of four tests | warm-up, priming, evictions; medians and the comparison | cold starts among the measured; a base of zero; rounding |
| cms, lists and definitions | none | pages of a table, validation of a form | in `Catalog` and `Site` |
| backend, upload endpoints | files | one request each | - |
| infrastructure, comparison harness, prototype | - | - | - |

**Interactions.** The web site reads the backend through its public endpoints (public
caches, rankings) and plays what the streamer serves. The CMS writes through
`/api/admin/**`; each of those handlers runs in a transaction, goes through the video
store for videos, and clears the public caches. A watch on the web site is counted by
the backend (`WatchService`). A CMS upload passes through the backend to the streamer's
`POST /videos`, whose handler runs the scanner's `scan()` in its own goroutine. The
streamer and the backend share no state: a video row holds the name of a stream. A page of
the web site gives its player the address of a stream or none; the player tells the page
nothing. A CMS form loses its page when the session ends.

**What makes each correct** is stated in section 3 with the properties that say it. The
line-by-line list of what can go wrong is `hazards` in `PROJECT.json`.

## 2. Modules

| module | models | kind |
| --- | --- | --- |
| `Streamer` | registry, queue, scanner, workers, cleanup, uploads, shutdown, crash and restart of `streamer/main.go` | component |
| `Lifecycle` | what the streamer promises of each video: unknown, pending, transcoding, ready or failed, and a finished preparation is not redone | abstract; implemented by `Streamer` |
| `Playback` | the GET handlers; extends `Streamer`, whose `Next` is one disjunct of `PlaybackNext` | composition |
| `VideoStore` | table, map, view buffer, flush, GETs, admin requests, preload | component |
| `StoreAudit` | `VideoStore` with a history variable that names the videos on which map and table may part | composition |
| `PublicCache` | caches of a cluster, lookups and writes of its instances, their restarts, preloads and reloads | component |
| `Catalog` | popular ranking beside the flush, article pages beside writes and a start, CMS tables | component with pure algorithms |
| `VideoForm` | the form, its requests, and the transactions of `VideoMetadataService` | composition of CMS and backend |
| `AdminSession` | tabs over one storage, their calls, and the tokens of the API | composition of CMS and backend |
| `RecordForm` | the form of a record with its stream and media fields, the streamer's list, the save | component |
| `VideoPlayer` | effect, import, element, mirror and controls of the player | component |
| `SiteData` | HTTP client, codecs, mappers and controllers of the site as operators on answers | pure algorithms |
| `Site` | the rows, the public API's answers, the pages and their links, the editors' forms | composition of backend, site and CMS; uses `SiteData` |
| `PerfGate` | records, medians, comparison and the order of the four tests | component with pure algorithms |
| `LoadTest` | virtual users of the suites, priming, evictions, thinking | component |
| `MC*` | small instances: model values, constant functions, symmetry | TLC |
| `StreamerProofs`, `CalmProofs` | theorems about the streamer whatever happens; about the streamer, its promise and its read side while only the ticker scans and no name comes back, or no source is removed | TLAPS |
| `VideoStoreProofs`, `PublicCacheProofs`, `VideoPlayerProofs` | theorems about these components (`StoreAudit` with `VideoStore`) | TLAPS |
| `CmsProofs` | theorems about `AdminSession`, `RecordForm` and `VideoForm`, which share no variable | TLAPS |
| `CatalogProofs` | theorems about `Catalog`, `LoadTest` and `PerfGate`, which share no variable | TLAPS |
| `SiteProofs` | theorems about `Site` with `SiteData` | TLAPS |

### How the modules correspond to the code

**Streamer.** Variables are the two directories (`source`, `temp`, `rendition`,
`marker`), the registry (`reg`), the channel (`queue`), and one program counter with
locals per goroutine (`scan[s]`, `worker[w]`, `upload[u]`). `writers` says which ffmpeg
still writes into the present directory of a tier, so that `os.RemoveAll` under a running
ffmpeg has the effect it has on a file system. One action is one access to shared state:
`CheckKnown` and `MarkPending` are separate because `scan()` takes the registry's lock
twice; `ListCache`, `StatSource`, `PurgeCache` and `Forget` because `cleanupOrphans`
lists, asks and deletes in turn. `scan` is one operator for the ticker and for uploads,
as in the code. The tiers transcoded are `Applicable`; their sizes are abstracted to the
set `Fits[c]`. `Crash` and `Exit` lose memory and keep the disk.

**Playback.** One request per player, each handler step one access; `told` remembers
which tiers a player was promised by a 200. Segments are files of a tier and have no
steps of their own.

**VideoStore.** `row` is the committed table, `cache` the map, `pending` the map of
adders (`on`: present), `flush` the flush's position, its open transaction (`added`,
`locked`) and the value it holds (`delta`); `admin[a]` is a request between arrival and
the end of its transaction; `viewer[w]` is a watch that holds an adder it has not yet
incremented. A viewer that has watched, or any other GET, takes the model from the map, then
sets the count it has computed on that same object (`attached`: the map still holds it, so
that the next GET finds the count there). A model of a video is reduced to which edit it
stems from and its count.

**PublicCache.** Of a row only its version counts. `Source[k]` are the rows an entry is
computed from, `Joined[r]` the rows whose columns a video's model copies. `store[i]` is an
instance's map of videos, and `refill[i]` what a preload or a reload has read from the table
and has still to put there, row by row, beside requests that are served. `parted[i]` is
history: the videos whose model there a rollback, another write or a load may have taken
away from the row, until the video is written alone or the process restarts.

**Catalog.** `order` is the iteration order of the `ConcurrentHashMap` behind
`ArticleStore`: bin by bin, an insertion at the end of its bin, everything anew when the
map grows. A restart begins with an empty map, and serves; the preload clears it, reads the
table (`loading`) and puts row after row. `top()` is a read of rows (`ReadRows`), one of each
row's buffer (`ReadBuffer`) and an answer; a flush is a drain of each adder and a commit or a
rollback. `missed` and `lost` are history: whose adder a flush emptied before the request
came to it, and whose count has fallen. Ints wrap at `IntHalf` (2^31 in the code). The filter of `ArticleService.list` is
`Filtered`, stated without recursion so that it can be proved about; on lists of up to three
articles `MCCatalog` compares it with `SelectSeq`.

**VideoForm.** Two GETs per open form, the seed effect, handleFinish with its PATCH and
PUTs, and each PUT's transaction at READ COMMITTED: it finds rows, deletes those by key
and inserts others. The DTOs carry no ids, so that what `Dto` returns of a set of items
is rows of nobody (`Blank`).

**AdminSession.** `localStorage` is two variables, token and identity, because the code
writes and clears them one after the other and another tab may act in between. A call
carries the token it was sent with; its answer is handled whenever it comes (`onError`
clears the session on 401 and 403, `check` when it gets no answer it can use).

**RecordForm.** `value` is what the form shows, `save.taken` what handleFinish took,
`stored` the row. A GET of the list is asked, served by the streamer and received in three
steps, so that answers overtake each other and the streamer changes in between; an upload
waits for its own GET (`for`). `Applied` is `applyToEntity`: a value that is missing leaves
the column alone. `touched`, `picked` and `excused` are history.

**VideoPlayer.** A run of the effect is importing, attached, loaded or failed; `current` is
the run that is not disposed. The element is `paused`, a `play()` that has not settled
(`playing`), `muted`, and the queue of events and rejections it has yet to deliver
(`tasks`). Its load algorithm discards those: when a source is set on it (`Attach`:
`video.src =`, or hls.js's `attachMedia` once the import is there), when the cleanup, or hls.js
recovering from a media error, takes one away (`Reset`). `switched` and `unheard` are
history: what the controls were not told of that way. hls.js and the element are external:
they load, fail or recover whenever they like.

**SiteData, Site.** An answer is a status and a body; of a DTO the model keeps the row, the
names of its blank texts, whether a list of strings has a null, and the DTOs inside.
`SiteData`'s operators say what the codecs and mappers accept and which error remains,
`resolveControllerResult` what a page makes of it. `Site` answers each request of a page on
its own, from rows that change meanwhile, and `PageAt` builds the page from what it got.

**PerfGate, LoadTest.** Numbers are integers in the unit of an error rate; `Hundredth` is
0.01 in that unit. A leg costs what it costs (external); the machine warms up by `drift`
per test. In `LoadTest` a user is in the warm-up or measured, and a request misses the
backend's cache or hits it.

## 3. Runs

| run | instance | question | properties |
| --- | --- | --- | --- |
| `streamer_full` | 1 name, 1 tier, 2 workers, 2 uploads, any one operation of the environment | what holds whatever happens | `TypeOK`, `TranscodingIsBacked`, `SourcesAreWhole`, `TempIsOwned` |
| `streamer_live` | 2 names, queue of 1, two of every operation, no uploads | does it get there | `PendingIsBacked`, `PreparationEnds`, `PresentVideoIsDecided`, `OrphanIsRemoved` |
| `streamer_torn` | 1 name, 1 upload, 2 workers | `MarkerCertifies` with uploads | **violated** (finding) |
| `serving` | *streams*: 1 name of 2 contents, 2 tiers, 2 workers, 1 player, three of add, crash, stop, unreadable | while only the ticker scans and no source is removed: the pipeline's own invariants, its promise, and what clients see of it at work | `SingleOwner`, `MarkerCertifies`, `DrainedIsClean`, refinement `KeepsPromise`, `ToldIsPlayable`, `AnswersAgree`, `PollingEnds` |
| | *site*: 1 instance, 3 rows, 2 entries, 1 lookup, 2 admins with 2 writes, two of restart, rollback, reload | may an entry be stale, and for how long | `StaleOnlyIfOverlapped`, `BecomesCurrent` |
| `store_audit` | 1 video, 2 admins with 2 writes of 4 kinds, 1 watch and 1 more GET, two rollbacks or restarts | map, table and buffer; where may map and table part | `NoViewCountedTwice`, `ListedWhileStored`, `CountSettles`, `PartsOnlyIfSuspect`, `BufferIsPruned` |
| `store_effective` | 1 video, 1 watch, 2 more GETs, nobody writes | does a GET show the effective count | `NoViewShownTwice` **violated** (finding) |
| `store_edit` | 1 video, 1 edit | does saving a form keep the count | `EditKeepsCount` **violated** (finding) |
| `catalog` | *popular*: 3 videos, lists and windows up to 3, 3 changes (watches, flushes, saves) | the ranking beside a flush | `TopErrsForCause` |
| | *pages*: 3 articles, pages up to 3, 4-bit ints, map of 2 bins that grows, 3 changes (writes, starts) | pages beside writes and a start | `WalkIsComplete`, `PagesAreSlices` |
| | *load*: a user that warms up, one that is measured, one that evicts, 3 suites, 2 cycles | what is measured | `SamplesAreAsNamed` |
| | *gate*: 4 metrics of up to 5 costs, 3 drifts | what passes | `VerdictIsFair` |
| `perf_zero` | 2 metrics | does a rise of errors fail the gate | `ErrorsFailTheGate` **violated** (finding) |
| `cms_editor` | *session*: 2 tabs, 3 calls, 2 users, 2 logins | is the session one session | `IdentityIsTokens`, `SessionEndsForCause` |
| | *form*: 2 videos, 1 media field, 2 lists and 1 upload under way, 3 changes | is what is shown offered, waited for and saved | `BusyWaits`, `UploadIsOffered`, `SavedAsShown` |
| | *video*: 2 tabs, 2 fields, 1 item, 1 edit | attachments and metadata | `EditsSurvive`, `PutReplacesUnlessOvertaken` |
| `cms_wipe` | 1 tab, 2 items, nobody edits | does saving an untouched form keep the attachments | `UntouchedIsKept` **violated** (finding) |
| `web_visit` | *pages*: 11 rows, one of each kind, a video with an episode's slug, 2 edits, a backend that goes and comes | which page is there, which is not, where links lead | `FailuresHaveACause`, `LinksOpenTheirRow` |
| | *player*: 2 sources, one through hls.js, 3 runs of the effect, 3 queued events | does the player tell the truth | `OneSource`, `StatusIsOfThisSource`, `ControlsReflectReality`, `LoadingEnds` |

**Runs of several parts.** `serving`, `catalog`, `cms_editor` and `web_visit` check components that
share no variable. Each part runs with the others at rest in their initial state
(`part`): a step of one disables, enables and changes nothing of another, so that every
behaviour of a part alone is one of the run, and an interleaving would add no state of
any part. What one part may do to another (a session that ends takes a form away, a page
gives a player its source) is an action of the other part, free to happen at any time.

### What the bounds leave in

- `MaxOps`, `MaxWrites`, `MaxEvents`, `MaxFaults`, `MaxSteps`, `MaxEdits` count things
  the environment does; everything the code does in answer is unbounded. Two are enough
  for one to hit the code in the middle of handling the other.
- Two scanners (ticker and upload), two workers, two admins, a watch and another GET, a
  lookup and a write, and two tabs: the hazards listed are races of two parties. Three calls: one old, one that
  ends the session, one new. Two lists: one overtakes the other. Three runs of the effect:
  one disposed while it imports, one while it plays, and the current one.
- A queue of one is full as soon as two names are unknown. A map of two bins grows with
  its second and its third article. Pages of up to three and ints of four bits reach the
  end of a list, pages past it, and overflow.
- One row of each kind has every flaw the CMS's forms let through, and with two edits two
  rows are flawed at once, or one is flawed and then withdrawn.
- `Hundredth = 4` makes the rounding of medians bite at the same place relative to the
  error rates as 100 does in the code.
- One video in the store: what two parties do to two videos meets nowhere but in the
  flush, which takes them one by one. Theorems cover any number.
- Deadlock is checked in all runs.
- The types of video store, public caches, video form, session, form of a record and player
  are proved (section 4) rather than checked by a run.

### Fairness

- Streamer: the ticker fires and its goroutine runs on; a worker's ffmpeg ends at the
  latest at `TRANSCODE_TIMEOUT`; an upload whose file is stored scans and responds; a
  drained process exits. The ticker's exit is strongly fair, because `select` picks at
  random among ready cases. No client has to send the rest of its file, nobody has to
  restart the process.
- Playback: a handler that has begun goes on.
- Video store: the scheduler starts a flush a fixed delay after the last one, also after
  one that threw; requests run on; the preload, an event listener, runs to its end.
- Popular list, pages, gate, load tests: none; their properties are safety.
- Player (`SourcesAnswer`): an import settles, and a source that is attached loads or fails
  once. After an error that hls.js was asked to recover from nothing is assumed.
- Public caches: requests, preloads and reloads run on; entries expire (only with a positive
  `public-ttl-seconds`, which `Expires` stands for).

### Findings

- `streamer_torn` (`main.go:429`): an upload's walk and the ticker's both queue a name;
  the first worker to finish writes `.ready` into a directory the other is rewriting.
- `store_effective` (`CatalogService.java:67`): a GET sets the effective count on the model
  that the map holds, so that until a flush reloads it each further GET adds the buffer
  again, although `ViewCountService` 20 says that reads return persisted plus buffered.
- `store_edit` (`VideoMapper.java:29`): the form sends back the view count it was opened
  with and the update stores it, although the CMS declares the field `readOnly`.
- `cms_wipe` (`ResourceForm.tsx:78`): the form takes the answers of the metadata GETs for
  ids, which they do not carry; every save of a video, touched or not, empties its
  securities and people.
- `perf_zero` (`compare.mjs:148`): a metric whose base is zero never fails the gate, and
  medians are rounded to two decimals, so that an error rate below half a percent is zero.

## 4. Theorems

Each holds for every value of the constants that satisfies the named assumptions of its
module: any number of names, tiers, workers, uploads and players, any queue capacity and any
operations of the environment (those of `NoNameReturns` or `Calm` where a theorem says so); any number of
videos, admins and watches (in `OnlySuspectsPart` any finite number of admins); any instances,
rows, entries, lookups and writes of the public caches, whatever rows an entry is computed
from; any number of editors' forms and items attached to a video; any number of tabs, calls and users; any videos, media fields, lists and uploads under way; any sources
and runs of the player's effect; any length of the popular list and of its window; any
users, paths and cycles of a load test; any metrics, costs, drift and budget of a gate; any
lists and sizes of a page; any rows of a site, with any credits and search
results.

| theorem | says |
| --- | --- |
| `StreamerProofs!TypeCorrect` | `Spec => []TypeOK` |
| `StreamerProofs!SourcesAlwaysWhole` | nobody ever reads half an upload under a video's name |
| `StreamerProofs!PendingAlwaysBacked` | a pending entry is in the queue, or in the hands of a walk or a worker |
| `StreamerProofs!TranscodingAlwaysBacked` | a transcoding entry has a worker on it, unless the process is stopping |
| `StreamerProofs!TempAlwaysOwned` | a temporary file is that of an upload still at work on it, or a crash cut its upload off |
| `CalmProofs!HasOneOwner` | under `NoNameReturns`: no video is queued twice, in two workers, or queued and in a worker |
| `CalmProofs!CalmMarkersCertify` | under `Calm`: a `.ready` marker lists what the source is owed, complete and made from it, through crashes at any step |
| `CalmProofs!DrainsClean` | under `NoNameReturns`: a process that has drained leaves no half-done rendition of what it was at work on |
| `CalmProofs!CalmKeepsPromise` | under `Calm`: `Streamer` implements `Lifecycle`, step by step |
| `CalmProofs!CalmToldIsPlayable` | under `Calm`: tiers a player was told of stay complete while the video is kept |
| `CalmProofs!CalmAnswersAgree` | under `Calm`: the handlers do not contradict each other |
| `VideoStoreProofs!TypeCorrect` | `Spec => []TypeOK` |
| `VideoStoreProofs!ViewsCountOnce` | no view is counted twice |
| `VideoStoreProofs!StoredIsListed` | until a fault, a stored video nobody is deleting is in the map |
| `VideoStoreProofs!FlushSettlesCounts` | when flush and admins are through, the map's count of a video nobody edited is not less than the table's, and the same once all views are in the table, whatever GETs have set on it |
| `VideoStoreProofs!OnlySuspectsPart` | map and table part only on videos that one of the known causes has touched |
| `PublicCacheProofs!TypeCorrect` | `Spec => []TypeOK` |
| `PublicCacheProofs!StaleOnlyWhenOverlapped` | between writes, an entry that neither a write nor a preload has overlapped is current in the rows that writes refresh, over restarts, rollbacks, preloads and reloads; under `Setting` |
| `CmsProofs!AttachmentsTyped` | forms hold rows of the site, what is sent and stored is items |
| `CmsProofs!EditsAreKept` | no answer changes what a form shows once it was filled |
| `CmsProofs!PutsReplace` | a PUT that no other has overtaken stores the set it was sent |
| `CmsProofs!SessionTyped` | what is stored and what calls carry is a token the API gave out, or none |
| `CmsProofs!IdentityFollows` | between the writes of a session, and unless two tabs wrote at once, the identity shown is that of the token sent |
| `CmsProofs!EndsForCause` | a session the API would still accept ends by a logout, a check without an answer, or the answer to a call of an earlier session |
| `CmsProofs!FormTyped` | a stream field holds names, a media field ids |
| `CmsProofs!BusyIsWaiting` | a field that looks busy waits for a call that can still end |
| `CmsProofs!UploadOffered` | what an upload has selected is among the options, and known but for stated excuses |
| `CmsProofs!SavedIsShown` | what the form shows when a save takes it away is what is stored, but for fields set since or cleared |
| `VideoPlayerProofs!PlayerTyped` | types; a run is current exactly when there is a source |
| `VideoPlayerProofs!SourceIsOne` | only the current run has a source on the element |
| `VideoPlayerProofs!StatusIsTold` | no run that is over speaks for the current one |
| `VideoPlayerProofs!ControlsFollow` | once the element has told all, the controls show what it does, but for what a source that came or went took along |
| `CatalogProofs!RankingErrsForCause` | the popular list passes a video over only for want of window, by a flush between its two reads, or for one whose count has fallen |
| `CatalogProofs!SamplesKeepTheirName` | what a trend records is what its name says |
| `CatalogProofs!GateIsFair` | the gate fails what is clearly worse and nothing that costs no more, but for rounding; the machine's warming cancels |
| `CatalogProofs!ReadersMissNothing` | who reads the articles page by page to the end has seen all that were there all along, whatever is written or started meanwhile, unless one was withdrawn (a start of the backend withdraws all) or the map grew |
| `CatalogProofs!PagesAreParts` | a page of the articles, and of both kinds of CMS table, is the part of the list its number says |
| `CatalogProofs!PagesCutLists` | a page of a list holds the places of that page, in order, where the product of page and size does not overflow |
| `CatalogProofs!TablesAgree` | the two implementations of CMS tables cut the same pages |
| `SiteProofs!PagesFailForCause` | a page of unchanged rows is an error page only for the backend or a flawed row it shows, "not found" only for a row that is gone |
| `SiteProofs!LinksLeadThere` | a link opens the page of the row it names, drafts included, but for an episode with a video's slug |

`PendingAlwaysBacked` is checked by `streamer_live` without uploads only; the theorem
covers the service with all of them. The Calm theorems, which `serving` checks with one
video, two workers and one player, are for any number of each. `HasOneOwner` and
`DrainsClean` go beyond `serving`, which drops no cache and removes no source.

**The arguments.** `TypeOK` is not inductive: a worker that sets the tier it holds must
hold one. `TypeInv == TypeOK /\ Located` adds who is at which point with which name, tier
or file, and `SourcesAreWhole`: a rename publishes `temp`, which at that point is
complete. For pending entries, `PendingInv` adds `WalksWhileScanning`: an upload that is
not in its scan has no walk, so that an upload which ends takes no entry with it; the
cases that need thought are `Dequeue` (the head becomes the worker's), the full queue
(the roll-back follows before anyone loses sight of the entry) and the cleanup, which only
deletes. For transcoding entries the point is that every return of `prepare` sets an
outcome, except a cancelled one, and cancellation means that the process is stopping.
`TempIsOwned` needs one more fact, that an upload whose answer is lost is over: every
return of `handleUpload` either removes the file or leaves it renamed (`OwnedInv`).

**When no name comes back.** `NoNameReturns` says that nobody uploads, and that the
environment adds files or removes them, not both; it may drop caches, crash the process and
stop it. It is needed: when a file is removed and another added under its name, the cleanup
forgets a video that a worker is still at, and the next walk queues it again; and an
upload's scan next to the ticker's breaks `SingleOwner` (`streamer_torn`, the finding).
`ClaimsOf(T)` is `SingleOwner` made inductive: among the names in `T`, what is queued is
pending (`QueuedPendingOf`), what a worker holds is pending or transcoding
(`WorkersHoldOf`), and the one walk holds at most one name, which is in neither place
(`WalkHolds`) though it is marked already; so a name passes from walk to queue to worker
and is in one place at a time. Where nothing is removed, `T` is all names, and
`PresenceInv` (what is known or cached has a source) says that the cleanup forgets none.
Where nothing is added, the cleanup does forget names that are queued or in a worker, and
the registry is wrong of them; `T` is then `Sight`, the names a walk may still queue.
`SightShrinks` says that no step adds to it, and `Purging` that what the cleanup forgets
is not in it. `HalfInv` says where a half-written rendition can be: under a name without
marker that is not called prepared, or is in the hands of a worker at its ffprobe or
ffmpeg, which clears it (`HalfName`); past the ffprobe, only in the tier the worker's
ffmpeg writes (`HalfWorker`), and whatever directory is there is then written by it alone.

**The calm streamer.** `Calm` says that nobody uploads and that the environment adds files,
crashes the process, stops it, or makes a listing of the directory fail, but removes none and replaces
none; nor does it drop a cache. It is needed: an upload's scan next to the ticker's breaks
`MarkerCertifies` with `SingleOwner`, a removed source leaves a marker without it until the
next cleanup, and a cache that is dropped between two tiers gets a marker that lists both.
`CalmInv` has four parts: `TypeInv`, `ClaimsInv` (that is `ClaimsOf` all names) and
`PresenceInv`, as above, and `CacheInv`.
`CacheInv` follows the directory through `prepare`: per worker, what is on disk at its step
(`WorkRight`); per name, a marker or the status ready means complete renditions
(`NameRight`); and which ffmpeg may still write where (`WritersInv`). A crash takes
workers away and keeps the disk, so `NameRight` may not lean on any worker. For the refinement, every action of the
detailed specification is mapped to one of `Lifecycle` or to a stutter, from `CalmInv`
before and after. `ReadInv` adds the handlers: what a request has found out at each of its
steps stays true, because what it asks about only grows while the video is kept.

For the views, `CountInv` bounds for every video the tally of what is counted in the
table, drained into the flush's hands, added in its open transaction, or in the buffer,
by what was watched; `delta` is zero unless a sum has been drained and not yet added, and
a form that creates a video carries no views. An edited row, whose count came from a
form, counts zero in the tally, which is why the theorem needs no assumption on edits.

For the map, `MapInv` holds until the first fault: ids that were not given out are unknown
everywhere, whoever inserts a video is alone with it until the commit, and a stored video
that is not in the map is about to be deleted by the request that took it out. With this, a
reload after a flush never finds a row it should not put back. For the counts,
`ViewInv` says of a video in step (created, not edited, not between the commit of a flush and
its reload, not between an edit's put and its commit: `InStep`) that the map's count, and
that of every GET which still holds the map's model, is a `RightCount`: not less than the
table's, and equal to it when every view ever watched is in the table. A GET keeps this
although it adds the buffer to a count that may hold it already, because with every view in
the table there is none in the buffer (`CountedViews`, from `CountInv`). The row's lock, held
by flush or editor to the end of the transaction (`LockInv`), keeps the two apart. For `PartsOnlyIfSuspect`, `PartInv` says of every video that is not suspect
how far map and table may differ at each step of the one request at work on it
(`Settled`); that there is at most one is `TwoParties`: the set of parties at work on a
video that is not contended has at most one element, which needs the admins to be finite
(`AdminsAssumption`, the threads of a pool). A second party makes the video suspect as it
arrives, so that every step of two is one of a suspect.

For the caches, `EntryInv` says that a stale entry without a mark is going to be evicted
(`StaleIsEvicted`), that nothing unmarked is put between a write's eviction and its commit
(`EvictedIsBare`), and that a lookup no write or preload has disturbed runs while nobody
writes, with its instance's map filled, and has seen what the table holds (`LoadsCalm`,
`SeenIsCurrent`). `ModelInv` says of a video that has not parted from its row that whoever
is storing a model of it is alone (`StoredAlone`), that what a load has read and not yet put
is what the table holds (`LoadedRight`), and so is what the map holds once it is filled and
between transactions (`StoredRight`). A write that meets another, or a load, of the same
video, and a rollback, part it. `Setting` is what the theorem needs of the site. One
cluster: an eviction reaches no other. A process restarts only if it is alone: when it dies
between commit and eviction, its cluster lives on with the old entry. The run is such a
site. For the video form the one fact beyond types is `FoundIsStored`: what the
transaction of a PUT that was not overtaken has found is what is stored.

For the session, what has to be carried along is where each of the two writes stands: a
token without its identity belongs to a login that has not finished or to a clearing that
has not. For the form, `FormInv` says of each list under way what it cannot be missing
(`ListsCover`): a list that was asked for by an upload has the upload's video from the
moment the streamer serves it, and a list served since the last arrival misses nothing that
is shown; and of each save that what it took is what is shown except where a field was set
since (`ValuesInv`). The excuses in `UploadIsOffered` are where these fail: a failed
refresh, an answer that was overtaken, a video that was removed. For the player,
`ControlsReflectReality` speaks of an empty queue only; `MirrorInv` says what holds with
events under way: the last event about playing tells what the element does now
(`LastTaskTells`), and what no queued event is about is shown already, unless the event was
discarded, which `switched` and `unheard` remember (`DiscardMirrors`).

For the ranking, `PopularInv` follows a request: its window is the highest of the rows it
has read, and leaves one out only if there are more than it holds (`WindowInv`,
`HighestLeavesOut`); a row and the buffer found later are together no less than the video
counted when the rows were read, unless a flush emptied its adder in between (`missed`), and
no more than it counts, unless its count has fallen (`lost`) (`FoundInv`); and the answer is
the highest of what was found (`AnswerInv`). For the samples,
`ColdInv` says that once the measuring has begun no place gets cold any more, so that what a
measured request finds cold was cold at the start, and that before it no reader is under
way; `EvictInv` that between a write and the read that follows the path is not filled but by
another user.

For the gate, `GateInv` says which tests each leg's records are of at every point, so that
the verdict is that of the medians `BaseMedian` and `HeadMedian`. The rest is arithmetic: a
rounded number is within half a unit (`RoundedNear`), and rounding keeps the order
(`RoundedRises`); of the four tests, the first and the last gain from the machine together
what the two in the middle do, three drifts, so that each leg's median is within one unit
of its cost less one and a half drifts (`LatencyMedian`), and two medians differ by what the
costs do, give or take two units. 
For lists, `PlaceOnPage` turns a place's page, a quotient, into two bounds. What a filter
keeps stands in the place of its rank, the number of places kept up to it (`RankRises`,
`FilteredIsList`); so the place in the list of an article that is shown is the number of
shown ones up to it in the map (`Ahead`, `ListedFacts`). That number is what `WalkInv` is about:
while nothing was withdrawn and the map has not grown, it exceeds the pages read times their
size for every article the reader should still see. Publishing can only raise it, and so
does an insertion, which leaves the others in order (`AheadGrows`, `InsertKeepsOrder`); a
start withdraws all, and the articles come back row by row as insertions;
reading a page raises the bound by a page and shows what was within (`PageShows`), and the last
page is the last of the list of that moment (`LastPage`), so that nothing is left. The map
holds no article twice and every one that is shown (`OrderInv`). `ArticlesFit` says that there are
fewer articles than an int can count, with a page to spare: they are all in memory. Without it
a page's start could wrap around in a list that is read honestly.

For the pages of the site, the long part is not the invariant but the data: what the fourteen operations
answer, what the codecs refuse and what the mappers make of it. It is cut at the controller.
On its way up, an outage, a 404 and an unusable answer stay three things (`ErrorsKept`,
`FoundTaken`); an answer made of rows without a flaw is accepted, whatever its operation, so
that a page throws only for a flawed row among those it is about; an answer is a 404 only if no
row has the slug; and every feature makes its links of stored rows only, by `PathTo`
(`Lead`). That such a link opens its row again (`RowOpens`) needs slugs to be unique per
table (`SlugAssumption`: the unique columns of `V1__init.sql` and
`V5__people_and_securities.sql`). The invariant is short: while nothing has changed since a
page was asked for, each answer it has got is the one the present rows give (`GotNow`), and
what it shows is right for them (`ShownRight`); a subcategory's category is stored
(`ParentsStored`), because the foreign key is not null (`SubcategoryAssumption`) and a
category is deleted only after its subcategories (the database would delete them with it):
the subcategory's page reads through it without a check.

**Checked but not proved.** Liveness (`PreparationEnds`, `PresentVideoIsDecided`,
`OrphanIsRemoved`, `PollingEnds`, `BufferIsPruned`, `BecomesCurrent`, `LoadingEnds`) is out
of the prover's reach, as is everything with `ENABLED`, and what a definition by recursion
over data computes, which is why `Filtered` has none. Every other property of a passing run is
stated by a theorem, some of them under the restrictions named above.

## 5. Behaviour worth knowing

Met while modelling; the models have these behaviours, and properties are stated so that
they are true next to them.

Streamer
- Of two uploads of one name both can pass the existence check (573) and the second
  rename (595) replaces the first file.
- A file put under the name of a removed one before the next cleanup is not prepared, and
  the old renditions are served (337). A cache folder deleted under a running service is
  not rebuilt at the next rescan, only after a restart (README 143).
- A failed entry of a file that is gone and never had a cache stays (480): its master
  playlist is 503, not 404.
- Quality playlists are served whatever the registry says (676), although the README
  promises 202 until a video is ready. `ToldIsPlayable` is about players that follow the
  master playlist.
- The cleanup acts on a listing and a stat made before: it may delete a directory that a
  worker has just begun for a source that came back.
- A name the registry knows is skipped (339), even when the file under it is another one
  or its renditions are gone.
- A crash during an upload leaves its temporary file for good.
- If the marker cannot be written (430, ignored) the video is ready until the process
  ends, and prepared again then (`Kept` in `Playback`).

Video store
- A watch that holds an adder while the flush prunes it is lost (`ViewCountService` 40,
  80). `NoViewCountedTwice` is the other half.
- A GET of a video writes the effective count into the map's model
  (`CatalogService` 66), so that the next one adds the buffer again, until a flush
  reloads it (the finding of `store_effective`). `CountSettles` says that a flush puts it
  right.
- The map is written before the commit: two updates may reach map and table in different
  orders, a reload may put a deleted video back, a rolled-back update stays in the map, a
  deletion by cascade never reaches it, and a preload may put a row it read before an
  update. `PartsOnlyIfSuspect` says that there is no further way.

Public caches
- A lookup that overlaps a write may put its old answer after the eviction, for as long
  as the time to live. `StaleOnlyIfOverlapped` says that there is no further way for rows
  in `Refreshed`; a URL of a media asset, a show's name in a video, and videos changed on
  another instance of the cluster are not in it: nothing refreshes those.
- A process that dies between the commit of a write and its eviction leaves the other
  instances of its cluster with the old entry (`EvictsPublicContent` 19).
- Two admins who write one video may put their models into the map in one order and commit
  in the other; an update that is rolled back leaves its model in the map; a preload or a
  reload may put a row it read before a commit. The map, and every entry computed from it,
  then keeps the wrong model. Such a video is `parted`, and not in `Refreshed`, until it is
  written alone or the process restarts.
- Requests are served while a start fills the map: what they compute from it is marked
  (`overlapped`), and lives as long as its time to live.
- With several instances the shared cache is filled from a map per process that a write on
  another instance does not reach (`CatalogService` 91); a media URL once resolved is kept
  until the process ends (`MediaResolver` 28).

Lists
- For a large page the product of page and size wraps: the answer is an error or a page
  from the front.
- A reader of the articles may miss one when another is withdrawn, or when the map grows
  and is reordered. Right after a start, articles are missing until the preload has put them.
- When a flush drains between the two reads of `top()`, a video's buffer is gone from the
  one and not yet in the other: it is ranked too low, or passed over.
- Both kinds of CMS table agree on whole pages only, which is what the CMS asks for.

Video form
- What an editor picks before both answers have arrived is overwritten by the seed; a
  form saved before that empties both sets.
- Of two overlapping PUTs of one field either one fails, or the result is the union.

Session
- The late 401 of a call that carried an old token clears the session that began since
  (`authProvider.ts` 107); a check that gets no answer ends a good session (78).
- The token of an administrator who has been deactivated is accepted until it expires.

Form of a record
- A cleared field is left out of the PATCH, or null in it, which the backend's mappers
  ignore: the row keeps its value.
- A field set after the save was pressed is dropped with the form when the save is
  answered; so is what an upload selects then. An upload goes on without its form.
- An older list may overtake a newer one. The upload button looks busy and still takes a
  second file.

Player
- `play()` that is interrupted by a pause or by another source rejects, and the rejection
  shows the error over a player that works (`VideoPlayer.tsx` 153), for as long as its
  source stays.
- When the source changes while it plays, or goes with a change of volume not yet told,
  the controls keep the old state: the emptied element tells of no pause. The same goes for
  a click on play or mute just before the import of hls.js settles: attaching the source
  discards the event that would have told of it (`VideoPlayer.tsx` 78, 112), and the controls
  are wrong until the next one. When hls.js recovers from a media error it attaches anew, with
  the same effect. The status is kept, too, when a source gives way to none.
- After an error it was asked to recover from, hls.js may say nothing more: the player says
  "Loading" until it is left.

Pages
- A block of the home page that refers to nothing is looked up all the same: the home page
  is an error page for everyone. The home page asks for `upNext` and maps the ticker, shows
  neither, and fails when one of their texts is blank. A category with a blank name breaks
  `/articles`, `/on-demand` and the pages of its subcategories.
- Drafts open by their slug and are found by a search; persons are not in the sitemap, and
  `robots.ts` disallows everything the sitemap lists. The footer names categories that may
  not exist.
- An episode whose slug a video has is never opened by its links.
- `reset()` of the error page renders again without asking the server again. Requests to
  the backend have no timeout. A failure to fetch ticker or hosts leaves them out silently.

Performance tests
- Thresholds on `http_req_duration` and the overall percentiles include the warm-up, although
  `README` 226-229 says that cold starts never count; failed priming is ignored.
- `cache.js` does not look at the status of its PUT, which writes back what it read before.
- Durations other than plain seconds or minutes ("1m30s") fall back to a default.

## 6. Plan

Done, in this order: the streamer's pipeline with its promise and proofs; playback; the
video store with proofs; the public caches with proofs; lists; the video form with proofs;
the session, the form of
a record and the player with proofs; the site's pages; the performance suites and gate; the
calm streamer, its refinement and its read side, its single owner when caches are dropped or
sources removed, the map and the counts of the video store,
rankings, pages of articles, load tests, the gate and the site's pages proved.

Next, models: the player's seeking, time and full screen; filters and sorting of the CMS's
tables; the thresholds of the performance suites.

Next, proofs: what `KeepsPromise` needs of uploads and removals, beyond `Calm`: there
`SingleOwner` itself fails once a name comes back.

## 7. Not modelled

- Web site: texts, pictures and layout; the player's seeking, time and full screen; the
  fields of a DTO that are optional, and their defaults. `getSchedule` and `getVideoBySlug`
  and the generated clients for the admin API, login, health and media uploads are there
  and used by nothing.
- CMS: the framework's router, its filters and sorting, and the wording of options.
- Search: the index is kept by a library; what it answers for given matches is in `Site`.
- Authentication: signatures, password hashes and rules by role.
- Media upload and the upload proxy of the backend: one request each; what the CMS makes of
  their answers is in `RecordForm`, the streamer's side in `Streamer`.
- Mappers and entities beyond the fields the properties tell apart; migrations beyond the
  cascade that reaches the video map.
- Performance tests: the stress suite, k6's thresholds, CPU and memory.
- Infrastructure, comparison harness, prototype: configuration, or not part of the system.
