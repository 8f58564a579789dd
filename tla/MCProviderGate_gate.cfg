SPECIFICATION GateFairSpec
CONSTANTS
  p1 = p1
  p2 = p2
  g1 = g1
  Providers = {p1, p2}
  PoolOf <- MCPoolOf
  Exempt = {p2}
  KeepEnabled = {}
  MaxPolls = 2
  MaxToggles = 1
  MaxEdits = 1
  MaxFaults = 1
  FaultKinds = {"refuse", "late", "crash"}
INVARIANTS GateTypeOK OperatorShapeKept
PROPERTIES PoolKeepsOne ManualDisableHolds ConflictRespected Recovers
