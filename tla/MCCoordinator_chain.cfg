SPECIFICATION CoordFairSpec
CONSTANTS
  f1 = f1
  f2 = f2
  f3 = f3
  t1 = t1
  t2 = t2
  ManualId = manual
  QuotaId = quota
  Files = {f1, f2, f3}
  Targets = {t1, t2, manual, quota}
  TargetOf <- MCTargetOf
  Order <- MCOrder
  BackupLimit = 1
  MaxRev = 2
  MaxSeq = 6
  MaxEdits = 0
  MaxFaults = 2
  FaultKinds = {"error", "kill", "invalid"}
  FaultAt <- CommandPhases
  EditAt = {}
INVARIANTS CoordTypeOK AcceptedEventsKept ReportedResults
PROPERTIES PendingClearedWhole PendingClears
