SPECIFICATION WebSpec
CONSTANTS
  show1 = show1
  ep1 = ep1
  vid1 = vid1
  art1 = art1
  cat1 = cat1
  sub1 = sub1
  host1 = host1
  block1 = block1
  slot1 = slot1
  quote1 = quote1
  person1 = person1
  hls1 = hls1
  mp41 = mp41
  phrase1 = phrase1
  Rows = {show1, ep1, vid1, art1, cat1, sub1, host1, block1, slot1, quote1, person1}
  KindOf <- Kinds
  SlugOf <- Slugs
  ParentOf <- Parents
  ShowOf <- Shows
  Credits <- Credited
  OnAir = ep1
  Queries = {phrase1}
  Matches <- Matching
  NoRow = NoRow
  NoSlug = NoSlug
  MaxEdits = 2
  Sources = {hls1, mp41}
  HlsSources = {hls1}
  NoStream = NoStream
  MaxRuns = 3
  MaxTasks = 3
INVARIANT LinksOpenTheirRow
INVARIANT OneSource
INVARIANT StatusIsOfThisSource
INVARIANT ControlsReflectReality
INVARIANT FailuresHaveACause
PROPERTY LoadingEnds
