SPECIFICATION GateSpec
CONSTANTS
  Metrics = {"p95", "error_rate"}
  KindOf <- Kinds
  Costs <- Few
  Hundredth = 4
  MaxRegression = 15
  Drifts = {0, 1, 24}
  None = None
INVARIANT ErrorsFailTheGate
