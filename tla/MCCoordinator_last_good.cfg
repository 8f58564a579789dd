SPECIFICATION CoordSpec
CONSTANTS
  f1 = f1
  f2 = f2
  f3 = f3
  t1 = t1
  t2 = t2
  ManualId = manual
  QuotaId = quota
  Files = {f1, f2, f3}
  Targets = {t1, t2, manual, quota}
  TargetOf <- MCTargetOf
  Order <- MCOrderLast
  BackupLimit = 1
  MaxRev = 2
  MaxSeq = 6
  MaxEdits = 0
  MaxFaults = 1
  FaultKinds = {"error"}
  FaultAt <- CommandPhases
  EditAt = {}
INVARIANTS FailedKeepsLastApplied
