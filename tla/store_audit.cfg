SPECIFICATION FairAuditSpec
CONSTANTS
  v1 = v1
  v2 = v2
  a1 = a1
  a2 = a2
  p1 = p1
  p2 = p2
  p3 = p3
  Videos = {v1}
  Admins = {a1, a2}
  Viewers = {p1, p2}
  Watchers = {p1}
  Writes = {"create", "update", "delete", "cascade"}
  Faults = {"rollback", "restart"}
  MaxWrites = 2
  MaxFaults = 2
  NoVideo = NoVideo
  NoId = NoId
INVARIANT NoViewCountedTwice
INVARIANT ListedWhileStored
INVARIANT CountSettles
INVARIANT PartsOnlyIfSuspect
PROPERTY BufferIsPruned
