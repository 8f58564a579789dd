CONSTANTS
  Providers = {p1, p2}
  Procs = {c1, c2}
  Actions = 1
  MaxRev = 2
  MaxEdits = 1
  MaxFaults = 2
  Sessions = {s1}
  Hooks = {h1, h2}
SPECIFICATION MCSpec
INVARIANTS DeliveryTypeOK AnnouncedOrOwed ActionsAtMostOnce ConsumedIsLoaded WarnedOnce
PROPERTIES ActionsInOrder NoticeNeverOlder DebtSettles MarkerKept ReloadOnlyWhenIdle
