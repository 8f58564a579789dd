----------------------------- MODULE MCPublisher -----------------------------
EXTENDS Publisher, TLC

CONSTANTS f1, f2, t1

MCTargetOf == [f \in Files |-> t1]
Symmetry == Permutations(Files)

\* The phases of ApplyUnderLock up to the commit, and with recovery's restore.
BeforeCommit == {"backup", "journal", "prepare", "rename", "syncdir", "progress", "commit"}
OrRestoring == BeforeCommit \cup {"restore"}
\* The phases whose last step removes a journal.
Cleanups == {"recover", "recovered", "remove"}
\* Everywhere but between a look at a live file and the write that follows it.
OutsideWindows == Phases \ {"prepare", "rename", "restore"}
=============================================================================
