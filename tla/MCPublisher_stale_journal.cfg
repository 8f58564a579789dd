SPECIFICATION Spec
CONSTANTS
  f1 = f1
  f2 = f2
  t1 = t1
  Files = {f1, f2}
  Targets = {t1}
  TargetOf <- MCTargetOf
  BackupLimit = 1
  MaxRev = 2
  MaxSeq = 3
  MaxEdits = 0
  MaxFaults = 2
  FaultKinds = {"error"}
  FaultAt <- Cleanups
  EditAt <- Phases
SYMMETRY Symmetry
INVARIANTS JournalNeverStale
