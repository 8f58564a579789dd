SPECIFICATION FairSpec
CONSTANTS
  f1 = f1
  f2 = f2
  t1 = t1
  Files = {f1, f2}
  Targets = {t1}
  TargetOf <- MCTargetOf
  BackupLimit = 1
  MaxRev = 1
  MaxSeq = 3
  MaxEdits = 0
  MaxFaults = 2
  FaultKinds = {"kill"}
  FaultAt <- OrRestoring
  EditAt <- Phases
PROPERTIES Converges
