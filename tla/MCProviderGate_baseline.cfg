SPECIFICATION GateSpec
CONSTANTS
  p1 = p1
  p2 = p2
  g1 = g1
  Providers = {p1, p2}
  PoolOf <- MCPoolOf
  Exempt = {p2}
  KeepEnabled = {}
  MaxPolls = 2
  MaxToggles = 2
  MaxEdits = 0
  MaxFaults = 0
  FaultKinds = {}
INVARIANTS EnableRestoresBaseline
