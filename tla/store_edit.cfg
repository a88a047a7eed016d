SPECIFICATION Spec
CONSTANTS
  v1 = v1
  v2 = v2
  a1 = a1
  a2 = a2
  p1 = p1
  p2 = p2
  p3 = p3
  Videos = {v1}
  Admins = {a1}
  Viewers = {p1}
  Watchers = {p1}
  Writes = {"update"}
  Faults = {}
  MaxWrites = 1
  MaxFaults = 0
  NoVideo = NoVideo
  NoId = NoId
PROPERTY EditKeepsCount
