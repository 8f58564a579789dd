---------------------------- MODULE MCCoordinator ----------------------------
EXTENDS Coordinator

CONSTANTS f1, f2, f3, t1, t2

\* Two targets, t1 with two files; it is visited first, or last.
MCTargetOf == [f \in Files |-> IF f = f3 THEN t2 ELSE t1]
MCOrder == <<t1, t2>>
MCOrderLast == <<t2, t1>>

\* The phases of the command itself; recovery's own interruptions are in
\* MCPublisher's runs.
CommandPhases == {"ready", "backup", "journal", "prepare", "rename", "syncdir",
                  "progress", "commit", "remove"}
=============================================================================
