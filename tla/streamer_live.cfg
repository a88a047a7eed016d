SPECIFICATION FairSpec
CONSTANTS
  n1 = n1
  n2 = n2
  n3 = n3
  c1 = c1
  c2 = c2
  w1 = w1
  w2 = w2
  u1 = u1
  u2 = u2
  Names = {n1, n2}
  Contents = {c1}
  NQualities = 1
  Fits <- AllFit
  Workers = {w1, w2}
  Uploads = {}
  Ticker = ticker
  QueueCap = 1
  Operations = {"add", "remove", "drop", "crash", "stop", "unreadable"}
  MaxOps = 2
  NoFile = NoFile
  Half = Half
  NoName = NoName
INVARIANT PendingIsBacked
PROPERTY PreparationEnds
PROPERTY PresentVideoIsDecided
PROPERTY OrphanIsRemoved
