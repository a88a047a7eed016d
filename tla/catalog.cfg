SPECIFICATION ListSpec
CONSTANTS
  v1 = v1
  v2 = v2
  v3 = v3
  w1 = w1
  r1 = r1
  Videos = {v1, v2, v3}
  Articles = {2, 5, 6}
  FirstBins = 2
  MaxPage = 3
  IntHalf = 8
  Counts = {0, 2}
  MaxSteps = 3
  Suites = {"scenarios", "journey", "cache"}
  HotPaths = {"/shows", "/ticker"}
  Ticker = "/ticker"
  Warmers = {w1}
  Readers = {r1}
  Nowhere = Nowhere
  MaxCycles = 2
  Metrics = {"rps", "p95", "lat_search_p95", "error_rate"}
  KindOf <- Kinds
  Costs <- Few
  Hundredth = 4
  MaxRegression = 15
  Drifts = {0, 1, 24}
  None = None
INVARIANT TopErrsForCause
INVARIANT WalkIsComplete
INVARIANT PagesAreSlices
INVARIANT SamplesAreAsNamed
INVARIANT VerdictIsFair
SYMMETRY Alike
