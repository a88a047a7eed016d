SPECIFICATION ServingSpec
CONSTANTS
  n1 = n1
  c1 = c1
  c2 = c2
  w1 = w1
  w2 = w2
  p1 = p1
  Names = {n1}
  Contents = {c1, c2}
  NQualities = 2
  Fits <- OnlyLarge
  Workers = {w1, w2}
  Uploads = {}
  Ticker = ticker
  QueueCap = 1
  Operations = {"add", "crash", "stop", "unreadable"}
  MaxOps = 3
  Players = {p1}
  NoFile = NoFile
  Half = Half
  NoName = NoName
  i1 = i1
  h1 = h1
  show = show
  video = video
  cover = cover
  t1 = t1
  a1 = a1
  a2 = a2
  Instances = {i1}
  Clusters = {h1}
  ClusterOf <- OneCluster
  Rows = {show, video, cover}
  VideoRows = {video}
  MediaRows = {cover}
  Joined <- VideoJoins
  Keys = {"shows", "subcategory"}
  Source <- Public
  Readers = {t1}
  Admins = {a1, a2}
  Expires = TRUE
  Events = {"restart", "rollback", "reload"}
  MaxWrites = 2
  MaxEvents = 2
  NoEntry = NoEntry
  NoKey = NoKey
  NoRow = NoRow
  NoInstance = NoInstance
INVARIANT SingleOwner
INVARIANT MarkerCertifies
INVARIANT DrainedIsClean
INVARIANT ToldIsPlayable
INVARIANT StaleOnlyIfOverlapped
PROPERTY AnswersAgree
PROPERTY PollingEnds
PROPERTY KeepsPromise
PROPERTY BecomesCurrent
