SPECIFICATION Spec
CONSTANTS
  n1 = n1
  n2 = n2
  n3 = n3
  c1 = c1
  c2 = c2
  w1 = w1
  w2 = w2
  u1 = u1
  u2 = u2
  Names = {n1}
  Contents = {c1}
  NQualities = 1
  Fits <- AllFit
  Workers = {w1, w2}
  Uploads = {u1}
  Ticker = ticker
  QueueCap = 2
  Operations = {}
  MaxOps = 0
  NoFile = NoFile
  Half = Half
  NoName = NoName
INVARIANT MarkerCertifies
