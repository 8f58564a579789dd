--------------------------- MODULE PublisherProofs ---------------------------
(***************************************************************************)
(* Proofs about Publisher, for every set of files and targets, every       *)
(* retention limit and every number of edits and faults: that nothing is   *)
(* uncommitted without a journal; then that publication is atomic as seen  *)
(* through the journal (Publisher implements AtomicPublish), and what the  *)
(* runs check of durability, of others' edits and of stale journals, under *)
(* the faults for which the code gives it.  In the end, proofs about       *)
(* Coordinator, for targets in any order and any division of the files.    *)
(***************************************************************************)
EXTENDS Coordinator, TLAPS, FiniteSetTheorems, WellFoundedInduction, SequenceTheorems

Backup == [seq : Nat \ {0}, bytes : Bytes]

\* The phases in which ApplyUnderLock holds a transaction it has not committed,
\* and those in which the journal of that transaction is on disk.
Applying == {"backup", "journal", "prepare", "rename", "syncdir", "progress", "commit"}
Journaled == {"prepare", "rename", "syncdir", "progress", "commit"}

-----------------------------------------------------------------------------
(***************************************************************************)
(* Facts about the numbered backups.                                       *)
(***************************************************************************)
\* Of finitely many backups one has the highest number: the set of backups
\* above it is empty, and a smaller such set would contradict its minimality.
LEMMA NewestBackup ==
  ASSUME NEW B \in SUBSET Backup, IsFiniteSet(B), B # {}
  PROVE  \E b \in B : \A c \in B : c.seq <= b.seq
<1> DEFINE Above(b) == {c \in B : c.seq > b.seq}
           T == {Above(b) : b \in B}
<1>1. IsWellFoundedOn(StrictSubsetOrdering(B), FiniteSubsetsOf(B))
  BY FS_StrictSubsetOrderingWellFounded
<1>2. T # {} /\ T \subseteq FiniteSubsetsOf(B)
  <2>1. ASSUME NEW b \in B
        PROVE  Above(b) \in FiniteSubsetsOf(B)
    <3>1. Above(b) \in SUBSET B
      OBVIOUS
    <3>2. IsFiniteSet(Above(b))
      BY <3>1, FS_Subset
    <3>. QED  BY <3>1, <3>2 DEF FiniteSubsetsOf
  <2>. QED  BY <2>1
<1>3. PICK X \in T : \A Y \in T : ~ (<<Y, X>> \in StrictSubsetOrdering(B))
  <2> HIDE DEF T
  <2>. QED  BY <1>1, <1>2, WFMin
<1>4. PICK b \in B : X = Above(b)
  BY <1>3
<1>5. ASSUME NEW c \in B
      PROVE  c.seq <= b.seq
  <2>1. SUFFICES ASSUME ~(c.seq <= b.seq) PROVE FALSE
    OBVIOUS
  <2>2. b.seq \in Nat /\ c.seq \in Nat /\ \A d \in B : d.seq \in Nat
    BY DEF Backup
  <2>3. Above(c) \subseteq X /\ Above(c) # X /\ c \in X
    BY <1>4, <2>1, <2>2
  <2>4. Above(c) \subseteq B /\ X \subseteq B /\ Above(c) \in T
    BY <1>4
  <2>5. <<Above(c), X>> \in StrictSubsetOrdering(B)
    BY <2>3, <2>4, <1>2, <1>3 DEF StrictSubsetOrdering, FiniteSubsetsOf
  <2>. QED  BY <2>4, <2>5, <1>3
<1>. QED  BY <1>5

\* freshPath: the number is new, and higher than every number in use.
LEMMA NextSeqFresh ==
  ASSUME NEW f \in Files, backups[f] \in SUBSET Backup, IsFiniteSet(backups[f])
  PROVE  /\ NextSeq(f) \in Nat \ {0}
         /\ \A b \in backups[f] : b.seq < NextSeq(f)
<1>1. CASE backups[f] = {}
  BY <1>1 DEF NextSeq
<1>2. CASE backups[f] # {}
  <2> DEFINE S == {b.seq : b \in backups[f]}
  <2>1. PICK b \in backups[f] : \A c \in backups[f] : c.seq <= b.seq
    BY <1>2, NewestBackup
  <2>2. b.seq \in S /\ \A c \in backups[f] : c.seq <= b.seq
    BY <2>1
  <2> DEFINE n == CHOOSE n \in S : \A c \in backups[f] : c.seq <= n
  <2>3. n \in S /\ \A c \in backups[f] : c.seq <= n
    BY <2>2
  <2>4. n \in Nat /\ \A c \in backups[f] : c.seq \in Nat
    BY <2>3 DEF Backup
  <2>5. NextSeq(f) = 1 + n
    BY <1>2 DEF NextSeq
  <2> HIDE DEF n
  <2>. QED  BY <2>3, <2>4, <2>5
<1>. QED  BY <1>1, <1>2

\* prune: a backup above all others is kept, and nothing is invented.
LEMMA PruneKeepsNewest ==
  ASSUME NEW B \in SUBSET Backup, IsFiniteSet(B),
         NEW new \in Backup, \A b \in B : b.seq < new.seq
  PROVE  /\ new \in Prune(B \cup {new})
         /\ Prune(B \cup {new}) \in SUBSET Backup
         /\ Prune(B \cup {new}) \subseteq B \cup {new}
         /\ IsFiniteSet(Prune(B \cup {new}))
<1> DEFINE A == B \cup {new}
<1>1. \A b \in A : b.seq \in Nat
  BY DEF Backup
<1>2. {c \in A : c.seq > new.seq} = {}
  BY <1>1
<1>3. Cardinality({c \in A : c.seq > new.seq}) < BackupLimit
  BY <1>2, FS_EmptySet, PublisherAssumption
<1>4. IsFiniteSet(A)
  BY FS_AddElement
<1>5. Prune(A) \subseteq A /\ new \in Prune(A)
  BY <1>3 DEF Prune
<1>6. IsFiniteSet(Prune(A))
  BY <1>4, <1>5, FS_Subset
<1>. QED  BY <1>5, <1>6

-----------------------------------------------------------------------------
(***************************************************************************)
(* Type correctness.  TypeOK is not inductive alone: WriteJournal and      *)
(* Commit read the transaction, and FinishRestore the journal, whose       *)
(* presence depends on the phase; and NextSeq is a number only because a   *)
(* file has finitely many backups.                                         *)
(***************************************************************************)
TypeInv ==
  /\ TypeOK
  /\ \A f \in Files : IsFiniteSet(backups[f])
  /\ pc \in Applying => tx \in Transactions /\ todo \subseteq tx.files
  /\ pc = "restore" => journal \in Journals

\* The initial state is of the types.
LEMMA TypeInvInit == Init => TypeInv
<1> SUFFICES ASSUME Init PROVE TypeInv
  OBVIOUS
<1>1. live \in [Files -> Bytes] /\ durable \in [Files -> Bytes]
  BY DEF Init, Bytes, UserBytes
<1>2. st \in States
  BY DEF Init, States, Outcomes
<1>. QED
  BY <1>1, <1>2, FS_EmptySet, PublisherAssumption DEF Init, TypeInv, TypeOK, Phases, Applying

\* A recovered state is a state.
LEMMA AdvanceStateType ==
  ASSUME st \in States, journal \in Journals, NEW applied \in BOOLEAN
  PROVE  AdvanceState(applied) \in States
<1> DEFINE t == journal.target
           out == IF applied
                  THEN [applied |-> journal.next, attempted |-> journal.next, pending |-> "none"]
                  ELSE [applied |-> st.tgt[t].applied, attempted |-> journal.next, pending |-> "publish"]
<1>1. t \in Targets /\ journal.next \in Nat /\ journal.own \in Nat /\ journal.notice \in Nat
  BY DEF Journals
<1>2. /\ st.prov \in Nat /\ st.own \in Nat /\ st.notice \in Nat
      /\ st.tgt \in [Targets -> Outcomes]
  BY DEF States
<1>3. out \in Outcomes
  BY <1>1, <1>2 DEF Outcomes
<1>4. [st.tgt EXCEPT ![t] = out] \in [Targets -> Outcomes]
  BY <1>2, <1>3
<1>5. AdvanceState(applied) =
        [rev |-> journal.next, prov |-> st.prov,
         own |-> IF applied /\ journal.ownSet THEN journal.own ELSE st.own,
         notice |-> IF applied /\ journal.noticeSet THEN journal.notice ELSE st.notice,
         tgt |-> [st.tgt EXCEPT ![t] = out]]
  BY DEF AdvanceState
<1>. QED  BY <1>1, <1>2, <1>4, <1>5 DEF States

\* A state in which recovery has recorded its refusal.
LEMMA RefusedStateType ==
  ASSUME st \in States, journal \in Journals
  PROVE  [st EXCEPT !.tgt[journal.target].attempted = journal.next,
                    !.tgt[journal.target].pending = "recover"] \in States
<1> DEFINE t == journal.target
           mid == [st EXCEPT !.tgt[t].attempted = journal.next]
           end == [mid EXCEPT !.tgt[t].pending = "recover"]
<1>1. t \in Targets /\ journal.next \in Nat
  BY DEF Journals
<1>2. mid \in States
  BY <1>1 DEF States, Outcomes
<1>3. end \in States
  <2> HIDE DEF mid
  <2>. QED  BY <1>1, <1>2, SMTT(30) DEF States, Outcomes
<1>. QED  BY <1>3

\* A state with one provider event more.
LEMMA ObservedStateType ==
  ASSUME st \in States
  PROVE  [st EXCEPT !.rev = @ + 1, !.prov = st.rev + 1] \in States
<1> DEFINE mid == [st EXCEPT !.rev = @ + 1]
<1>1. mid \in States /\ st.rev \in Nat
  BY DEF States
<1>2. [mid EXCEPT !.prov = st.rev + 1] \in States
  BY <1>1 DEF States
<1>. QED  BY <1>2

\* Both saves of a state keep the types, whichever way they end.
LEMMA SaveStateType ==
  ASSUME TypeOK, NEW s \in States, NEW then \in Phases, NEW else \in Phases,
         SaveState(s, then, else)
  PROVE  /\ st' \in {st, s} /\ st' \in States
         /\ pc' \in {then, else} /\ pc' \in Phases
         /\ faults' \in 0..MaxFaults
         /\ todo' \in {todo, {}}
         /\ st' # s => pc' = else
BY PublisherAssumption DEF TypeOK, SaveState, Fails, Fault

\* What a removal of the journal changes, whether it succeeds or fails.
LEMMA RemoveJournalType ==
  ASSUME TypeOK, NEW then \in Phases, NEW else \in Phases,
         RemoveJournalFile(then, else)
  PROVE  /\ journal' \in {journal, NoJournal}
         /\ pc' \in {then, else} /\ pc' \in Phases
         /\ faults' \in 0..MaxFaults
         /\ todo' \in {todo, {}}
BY PublisherAssumption DEF TypeOK, RemoveJournalFile, Fails, Fault

\* What an error return changes.
LEMMA FailsType ==
  ASSUME TypeOK, NEW where \in Phases, Fails(where)
  PROVE  pc' = where /\ todo' = {} /\ faults' \in 0..MaxFaults
BY PublisherAssumption DEF TypeOK, Fails, Fault

\* What a transaction and a journal are made of.
LEMMA SubmitType ==
  ASSUME TypeOK, NEW kind \in Kinds, NEW t \in Targets, NEW S \in SUBSET Files,
         Submit(kind, t, S)
  PROVE  tx' \in Transactions /\ tx'.files = S
<1> DEFINE n == NextState(kind)
<1>1. st \in States /\ live \in [Files -> Bytes]
  BY DEF TypeOK
<1>2. n \in States
  <2>1. /\ st.rev \in Nat /\ st.prov \in Nat /\ st.own \in Nat /\ st.notice \in Nat
        /\ st.tgt \in [Targets -> Outcomes]
    BY <1>1 DEF States
  <2>. QED  BY <2>1 DEF NextState, States
<1>3. [f \in Files |-> QuotaBytes(n.rev, n.prov)] \in [Files -> Bytes]
  BY <1>2 DEF States, QuotaBytes, Bytes
<1>4. tx' = [next |-> n, target |-> t, files |-> S, old |-> live,
            new |-> [f \in Files |-> QuotaBytes(n.rev, n.prov)],
            seq |-> [f \in Files |-> 0], prior |-> st.rev, noticeSet |-> kind \in Claiming]
  BY DEF Submit
<1>5. st.rev \in Nat /\ [f \in Files |-> 0] \in [Files -> Nat] /\ (kind \in Claiming) \in BOOLEAN
  BY <1>1 DEF States
<1> DEFINE new == [f \in Files |-> QuotaBytes(n.rev, n.prov)]
           seq == [f \in Files |-> 0]
           notice == kind \in Claiming
<1>6. new \in [Files -> Bytes] /\ seq \in [Files -> Nat] /\ notice \in BOOLEAN
  BY <1>3, <1>5
<1>7. tx' = [next |-> n, target |-> t, files |-> S, old |-> live, new |-> new,
            seq |-> seq, prior |-> st.rev, noticeSet |-> notice]
  BY <1>4
<1> HIDE DEF n, new, seq, notice
<1>. QED  BY <1>1, <1>2, <1>5, <1>6, <1>7 DEF Transactions

\* The journal of a transaction.
LEMMA JournalOfType ==
  ASSUME NEW x \in Transactions
  PROVE  JournalOf(x) \in Journals
<1>1. x.next \in States
  BY DEF Transactions
<1>2. /\ x.next.rev \in Nat /\ x.next.own \in Nat /\ x.next.notice \in Nat
      /\ (x.next.own # 0) \in BOOLEAN
  BY <1>1 DEF States
<1> DEFINE ownSet == x.next.own # 0
<1>3. ownSet \in BOOLEAN
  BY <1>2
<1>4. JournalOf(x) =
        [prior |-> x.prior, next |-> x.next.rev, target |-> x.target, files |-> x.files,
         old |-> x.old, new |-> x.new, seq |-> x.seq,
         own |-> x.next.own, ownSet |-> ownSet, noticeSet |-> x.noticeSet, notice |-> x.next.notice]
  BY DEF JournalOf
<1> HIDE DEF ownSet
<1>. QED  BY <1>2, <1>3, <1>4 DEF Journals, Transactions

\* Snapshot's backup is above all others, and one more is still finitely many.
LEMMA NewBackupType ==
  ASSUME TypeInv, NEW f \in Files
  PROVE  /\ backups[f] \in SUBSET Backup /\ IsFiniteSet(backups[f])
         /\ NewBackup(f) \in Backup
         /\ NewBackup(f).seq = NextSeq(f) /\ NewBackup(f).bytes = live[f]
         /\ NextSeq(f) \in Nat
         /\ \A b \in backups[f] : b.seq < NewBackup(f).seq
         /\ IsFiniteSet(backups[f] \cup {NewBackup(f)})
<1>1. backups[f] \in SUBSET Backup /\ IsFiniteSet(backups[f]) /\ live[f] \in Bytes
  BY DEF TypeInv, TypeOK, Backup
<1>2. NextSeq(f) \in Nat \ {0} /\ \A b \in backups[f] : b.seq < NextSeq(f)
  BY <1>1, NextSeqFresh
<1>3. IsFiniteSet(backups[f] \cup {NewBackup(f)})
  BY <1>1, FS_AddElement
<1>. QED  BY <1>1, <1>2, <1>3 DEF NewBackup, Backup

\* The environment and the steps of Recover.
LEMMA TypeInvRecover ==
  ASSUME TypeInv, Begin \/ Recover
  PROVE  TypeInv'
<1> USE DEF TypeInv, TypeOK, Applying, disk, Backup
<1>1. CASE Begin
  BY <1>1 DEF Begin, Phases
<1>2. CASE RecoverNoop
  BY <1>2 DEF RecoverNoop, Phases
<1>3. CASE RecoverCommitted
  BY <1>3, RemoveJournalType DEF RecoverCommitted, Phases
<1>4. CASE RecoverStale
  BY <1>4 DEF RecoverStale, Phases
<1>5. CASE RollForward
  BY <1>5, AdvanceStateType, SaveStateType DEF RollForward, InDoubt, Phases
<1>6. CASE RefuseExternal
  <2> DEFINE s == [st EXCEPT !.tgt[journal.target].attempted = journal.next,
                             !.tgt[journal.target].pending = "recover"]
  <2>1. journal \in Journals
    BY <1>6 DEF RefuseExternal, InDoubt
  <2>2. s \in States
    BY <2>1, RefusedStateType
  <2>3. SaveState(s, "idle", "idle")
    BY <1>6 DEF RefuseExternal
  <2> HIDE DEF s
  <2>. QED  BY <1>6, <2>2, <2>3, SaveStateType DEF RefuseExternal, Phases
<1>7. CASE BeginRestore
  BY <1>7 DEF BeginRestore, InDoubt, Phases, Journals
<1>8. ASSUME NEW f \in Files, RestoreFile(f)
      PROVE  TypeInv'
  <2>1. PICK b \in BackupOf(f) :
          /\ live' = [live EXCEPT ![f] = b.bytes]
          /\ \/ /\ durable' = [durable EXCEPT ![f] = b.bytes]
                /\ backups' = [backups EXCEPT ![f] = @ \ {b}]
                /\ todo' = todo \ {f}
                /\ UNCHANGED <<pc, faults>>
             \/ /\ Fails("idle")
                /\ durable' \in {durable, [durable EXCEPT ![f] = b.bytes]}
                /\ UNCHANGED backups
    BY <1>8 DEF RestoreFile
  <2>2. b \in Backup /\ b.bytes \in Bytes
    BY <2>1 DEF BackupOf
  <2>3. CASE /\ Fails("idle")
             /\ durable' \in {durable, [durable EXCEPT ![f] = b.bytes]}
             /\ UNCHANGED backups
    BY <1>8, <2>1, <2>2, <2>3, FailsType DEF RestoreFile, Phases
  <2>4. CASE /\ durable' = [durable EXCEPT ![f] = b.bytes]
             /\ backups' = [backups EXCEPT ![f] = @ \ {b}]
             /\ todo' = todo \ {f} /\ UNCHANGED <<pc, faults>>
    <3>1. \A g \in Files : IsFiniteSet(backups'[g])
      BY <2>4, FS_RemoveElement
    <3>. QED  BY <1>8, <2>1, <2>2, <2>4, <3>1 DEF RestoreFile
  <2>. QED  BY <2>1, <2>3, <2>4
<1>9. ASSUME NEW f \in Files, RestoreFails(f)
      PROVE  TypeInv'
  BY <1>9, FailsType DEF RestoreFails, Phases
<1>10. CASE FinishRestore
  BY <1>10, AdvanceStateType, SaveStateType DEF FinishRestore, Phases
<1>11. CASE CleanupJournal
  BY <1>11, RemoveJournalType DEF CleanupJournal, Phases
<1>. QED
  BY <1>1, <1>2, <1>3, <1>4, <1>5, <1>6, <1>7, <1>8, <1>9, <1>10, <1>11 DEF Recover

\* Building a transaction, and the steps of ApplyUnderLock.
LEMMA TypeInvApply ==
  ASSUME TypeInv, ApplyUnderLock \/ Return \/ SaveObservation \/ NothingToDo
  PROVE  TypeInv'
<1> USE DEF TypeInv, TypeOK, Applying, disk, Backup
<1>1. ASSUME NEW f \in Files, TakeBackup(f)
      PROVE  TypeInv'
  <2> DEFINE n == NextSeq(f)
             B == Prune(backups[f] \cup {NewBackup(f)})
  <2>1. n \in Nat
    BY NewBackupType
  <2>2. B \in SUBSET Backup /\ IsFiniteSet(B)
    <3> HIDE DEF Backup
    <3>. QED  BY NewBackupType, PruneKeepsNewest
  <2>3. backups' = [backups EXCEPT ![f] = B] /\ tx' = [tx EXCEPT !.seq[f] = n]
    BY <1>1 DEF TakeBackup
  <2>4. tx \in Transactions /\ todo \subseteq tx.files
    BY <1>1 DEF TakeBackup
  <2>5. tx' \in Transactions /\ tx'.files = tx.files
    BY <2>1, <2>3, <2>4 DEF Transactions
  <2> HIDE DEF n, B
  <2>. QED  BY <1>1, <2>2, <2>3, <2>4, <2>5 DEF TakeBackup, LoopStep, Phases
<1>2. ASSUME NEW f \in Files, BackupFails(f)
      PROVE  TypeInv'
  <2> DEFINE B == backups[f] \cup {NewBackup(f)}
  <2>1. B \in SUBSET Backup /\ IsFiniteSet(B)
    <3> HIDE DEF Backup
    <3>. QED  BY NewBackupType
  <2>2. backups' \in {backups, [backups EXCEPT ![f] = B]}
    BY <1>2 DEF BackupFails
  <2> HIDE DEF B
  <2>. QED  BY <1>2, <2>1, <2>2, FailsType DEF BackupFails, Phases
<1>3. CASE WriteJournal
  <2>1. tx \in Transactions /\ JournalOf(tx) \in Journals
    BY <1>3, JournalOfType DEF WriteJournal
  <2>. QED  BY <1>3, <2>1, FailsType DEF WriteJournal, Phases, Transactions
<1>4. ASSUME NEW f \in Files, Prepare(f)
      PROVE  TypeInv'
  BY <1>4 DEF Prepare, LoopStep, Phases, Transactions
<1>5. ASSUME NEW f \in Files, PrepareFails(f)
      PROVE  TypeInv'
  BY <1>5, FailsType DEF PrepareFails, Phases
<1>6. ASSUME NEW f \in Files, RenameFile(f)
      PROVE  TypeInv'
  <2>1. tx \in Transactions /\ tx.new[f] \in Bytes
    BY <1>6 DEF RenameFile, Transactions
  <2>. QED  BY <1>6, <2>1 DEF RenameFile, LoopStep, Phases
<1>7. CASE SyncDirs
  BY <1>7 DEF SyncDirs, Phases
<1>8. CASE RecordProgress
  BY <1>8 DEF RecordProgress, Phases
<1>9. CASE StepFails
  BY <1>9, FailsType DEF StepFails, Phases
<1>10. CASE Commit
  <2>1. tx \in Transactions /\ tx.next \in States
    BY <1>10 DEF Commit, Transactions
  <2>. QED  BY <1>10, <2>1, SaveStateType DEF Commit, Phases
<1>11. CASE RemoveJournal
  BY <1>11, RemoveJournalType DEF RemoveJournal, Phases
<1>12. CASE Return
  BY <1>12 DEF Return, Phases
<1>13. CASE SaveObservation
  <2> DEFINE s == [st EXCEPT !.rev = @ + 1, !.prov = st.rev + 1]
  <2>1. s \in States
    BY ObservedStateType
  <2>2. SaveState(s, "idle", "idle")
    BY <1>13 DEF SaveObservation
  <2> HIDE DEF s
  <2>. QED  BY <1>13, <2>1, <2>2, SaveStateType DEF SaveObservation, Phases
<1>14. CASE NothingToDo
  BY <1>14 DEF NothingToDo, Phases
<1>. QED
  BY <1>1, <1>2, <1>3, <1>4, <1>5, <1>6, <1>7, <1>8, <1>9, <1>10, <1>11, <1>12, <1>13, <1>14
  DEF ApplyUnderLock

\* Every step keeps the types.
LEMMA TypeInvNext == TypeInv /\ [Next]_vars => TypeInv'
<1> SUFFICES ASSUME TypeInv, [Next]_vars PROVE TypeInv'
  OBVIOUS
<1> USE DEF TypeInv, TypeOK, Applying, disk
<1>1. CASE Begin \/ Recover
  BY <1>1, TypeInvRecover
<1>2. CASE ApplyUnderLock \/ Return \/ SaveObservation \/ NothingToDo
  BY <1>2, TypeInvApply
<1>3. ASSUME NEW kind \in Kinds, NEW t \in Targets, NEW S \in SUBSET Files, Submit(kind, t, S)
      PROVE  TypeInv'
  BY <1>3, SubmitType DEF Submit, Phases
<1>4. ASSUME NEW f \in Files, NEW b \in Bytes, UserWrite(f, b)
      PROVE  TypeInv'
  BY <1>4, PublisherAssumption DEF UserWrite
<1>5. CASE Kill
  BY <1>5, PublisherAssumption DEF Kill, Fault, Phases
<1>6. CASE PowerLoss
  BY <1>6, PublisherAssumption DEF PowerLoss, Fault, Phases
<1>7. CASE UNCHANGED vars
  BY <1>7 DEF vars
<1>8. Absent \in Bytes /\ UserBytes(edits + 1) \in Bytes
  BY DEF Absent, UserBytes, Bytes
<1>. QED
  BY <1>1, <1>2, <1>3, <1>4, <1>5, <1>6, <1>7, <1>8 DEF Next, Environment

\* Types, with the transaction or journal that a phase needs, and the finitely many
\* backups, in every reachable state.
THEOREM TypeInvariant == Spec => []TypeInv
<1>. QED  BY TypeInvInit, TypeInvNext, PTL DEF Spec

\* Every variable keeps its type, whatever fails and whoever writes.
THEOREM TypeCorrect == Spec => []TypeOK
<1>1. TypeInv => TypeOK
  BY DEF TypeInv
<1>. QED  BY <1>1, TypeInvariant, PTL

-----------------------------------------------------------------------------
(***************************************************************************)
(* The write-ahead invariant.  UncommittedBytesJournaled speaks of the     *)
(* live files only; to be inductive it has to know what a power loss would *)
(* bring back, that the journal on disk is the one of the transaction      *)
(* under way, that the numbered backups hold what was there before, and    *)
(* that no backup and no file is ahead of the revision while the           *)
(* transaction is still being prepared.                                    *)
(***************************************************************************)
\* Bytes of a revision state.json has not reached.
Ahead(b) == b.by = "quota" /\ b.n > st.rev

\* The journal accounts for bytes b of file f, and its backup is there.
Covered(f, b) ==
  /\ Active /\ journal.next = st.rev + 1
  /\ f \in journal.files /\ b = journal.new[f]
  /\ \E c \in BackupOf(f) : c.bytes = journal.old[f] \/ journal.old[f] = Absent

WriteAhead ==
  \A f \in Files : /\ Ahead(live[f]) => Covered(f, live[f])
                   /\ Ahead(durable[f]) => Covered(f, durable[f])

\* A journal leads from one revision to the next, whose bytes it names; a
\* power loss keeps it, or brings back another one when there is none.
JournalInv ==
  /\ journal # NoJournal => jdisk = journal
  /\ jdisk # NoJournal =>
       /\ jdisk.next = jdisk.prior + 1
       /\ \A f \in Files : jdisk.new[f].by = "quota" /\ jdisk.new[f].n = jdisk.next

\* Bytes of an edit that has happened; the next edit's bytes are new.
Seen(b) == b.by = "user" => b.n <= edits

\* The transaction under way is the successor of the committed state, and once
\* its journal is written the journal on disk is its own.
TxInv ==
  /\ pc \in Applying =>
       /\ tx.prior = st.rev /\ tx.next.rev = st.rev + 1
       /\ st.prov <= tx.next.prov /\ tx.next.prov <= st.rev + 1
       /\ \A f \in Files : /\ tx.new[f].by = "quota" /\ tx.new[f].n = st.rev + 1
                           /\ Seen(tx.old[f])
  /\ pc \in Journaled => journal = JournalOf(tx)

\* What a phase knows of the journal and the revision.
PhaseInv ==
  /\ pc = "restore" => journal # NoJournal /\ journal.prior = st.rev
  /\ pc \in {"recovered", "remove"} => journal # NoJournal /\ st.rev = journal.next
  /\ pc \in {"ready", "backup", "journal", "prepare"} =>
       \A f \in Files : ~Ahead(live[f]) /\ ~Ahead(durable[f])

\* No backup is ahead of the revision, and no edit is from the future.
BytesInv ==
  /\ st.prov <= st.rev
  /\ \A f \in Files : /\ Seen(live[f]) /\ Seen(durable[f])
                      /\ \A b \in backups[f] : Seen(b.bytes) /\ ~Ahead(b.bytes)

\* The file has not yet passed prepareOne's comparison.
Unchecked(f) == pc \in {"backup", "journal"} \/ (pc = "prepare" /\ f \in todo)

\* The backup the transaction took holds the bytes it was built against, unless
\* the file was edited in between, and then the comparison is going to fail.
TakenInv ==
  pc \in Applying =>
    \A f \in tx.files : ~(pc = "backup" /\ f \in todo) =>
      \E b \in backups[f] :
        /\ b.seq = tx.seq[f]
        /\ \/ b.bytes = tx.old[f] \/ tx.old[f] = Absent
           \/ Unchecked(f) /\ live[f] # tx.old[f]

Inv == TypeInv /\ WriteAhead /\ JournalInv /\ TxInv /\ PhaseInv /\ BytesInv /\ TakenInv

\* With nothing published there is nothing to undo.
LEMMA InvInit == Init => Inv
<1> SUFFICES ASSUME Init PROVE Inv
  OBVIOUS
<1>1. TypeInv
  BY TypeInvInit
<1>2. WriteAhead /\ BytesInv
  BY DEF Init, WriteAhead, BytesInv, Ahead, Seen, UserBytes
<1>3. JournalInv /\ TxInv /\ PhaseInv /\ TakenInv
  BY DEF Init, JournalInv, TxInv, PhaseInv, TakenInv, Applying, Journaled
<1>. QED  BY <1>1, <1>2, <1>3 DEF Inv

\* Steps that touch no file keep what is said of the files.
LEMMA DiskFrame ==
  ASSUME Inv, UNCHANGED <<live, durable, backups, journal, jdisk, st, edits>>
  PROVE  WriteAhead' /\ JournalInv' /\ BytesInv'
<1>1. WriteAhead'
  BY DEF Inv, WriteAhead, Ahead, Covered, Active, BackupOf
<1>2. JournalInv'
  BY DEF Inv, JournalInv
<1>3. BytesInv'
  BY DEF Inv, BytesInv, Ahead, Seen
<1>. QED  BY <1>1, <1>2, <1>3

\* Once state.json has the journal's revision no file is ahead of it.
LEMMA NothingAheadOfNext ==
  ASSUME Inv, journal # NoJournal, NEW f \in Files, NEW r \in Nat, r >= st.rev,
         r >= journal.next \/ journal.prior # st.rev
  PROVE  /\ live[f].by = "quota" => live[f].n <= r
         /\ durable[f].by = "quota" => durable[f].n <= r
<1>1. live[f] \in Bytes /\ durable[f] \in Bytes /\ st.rev \in Nat
  BY DEF Inv, TypeInv, TypeOK, States
<1>2. live[f].n \in Nat /\ durable[f].n \in Nat
  BY <1>1 DEF Bytes
<1>3. Ahead(live[f]) => live[f].n = journal.next /\ journal.prior = st.rev
  BY DEF Inv, WriteAhead, Covered, Active, JournalInv
<1>4. Ahead(durable[f]) => durable[f].n = journal.next /\ journal.prior = st.rev
  BY DEF Inv, WriteAhead, Covered, Active, JournalInv
<1>. QED  BY <1>1, <1>2, <1>3, <1>4 DEF Ahead

\* A revision that advances, with no file ahead of it, keeps what is said of
\* the files.
LEMMA RevisionStep ==
  ASSUME Inv, UNCHANGED <<live, durable, backups, edits>>,
         st' \in States, st'.rev >= st.rev, st'.prov <= st'.rev,
         \A f \in Files : /\ live[f].by = "quota" => live[f].n <= st'.rev
                          /\ durable[f].by = "quota" => durable[f].n <= st'.rev
  PROVE  /\ WriteAhead' /\ BytesInv'
         /\ \A f \in Files : ~Ahead(live[f])' /\ ~Ahead(durable[f])'
<1>1. /\ st.rev \in Nat /\ st'.rev \in Nat
      /\ \A f \in Files : live[f].n \in Nat /\ durable[f].n \in Nat
      /\ \A f \in Files : \A b \in backups[f] : b.bytes.n \in Nat
  BY DEF Inv, TypeInv, TypeOK, States, Bytes
<1>2. \A f \in Files : ~Ahead(live[f])' /\ ~Ahead(durable[f])'
  BY <1>1 DEF Ahead
<1>3. WriteAhead'
  BY <1>2 DEF WriteAhead
<1>4. BytesInv'
  BY <1>1 DEF Inv, BytesInv, Ahead, Seen
<1>. QED  BY <1>2, <1>3, <1>4

\* Recover, one step per action.
LEMMA InvRecover ==
  ASSUME Inv, TypeInv', Begin \/ Recover
  PROVE  Inv'
<1> USE DEF Applying, Journaled, disk
<1>0. TypeInv /\ TypeOK /\ st.rev \in Nat /\ st.prov \in Nat
  BY DEF Inv, TypeInv, TypeOK, States
<1>1. CASE Begin
  BY <1>1, DiskFrame DEF Begin, Inv, TxInv, PhaseInv, TakenInv
<1>2. CASE RecoverNoop
  <2>1. \A f \in Files : ~Ahead(live[f]) /\ ~Ahead(durable[f])
    BY <1>2 DEF RecoverNoop, Inv, WriteAhead, Covered, Active
  <2>2. PhaseInv'
    BY <1>2, <2>1 DEF RecoverNoop, PhaseInv, Ahead
  <2>. QED  BY <1>2, <2>2, DiskFrame DEF RecoverNoop, Inv, TxInv, TakenInv
<1>3. CASE RecoverCommitted
  <2>1. \A f \in Files : ~Ahead(live[f]) /\ ~Ahead(durable[f])
    BY <1>3 DEF RecoverCommitted, Inv, WriteAhead, Covered, Active
  <2>2. /\ pc' = "ready" /\ journal' \in {journal, NoJournal}
        /\ UNCHANGED <<live, durable, backups, jdisk, st, edits>>
    BY <1>0, <1>3, RemoveJournalType DEF RecoverCommitted, Phases
  <2>3. WriteAhead' /\ BytesInv' /\ PhaseInv'
    BY <2>1, <2>2 DEF WriteAhead, PhaseInv, Inv, BytesInv, Ahead, Seen
  <2>4. JournalInv' /\ TxInv' /\ TakenInv'
    BY <2>2 DEF Inv, JournalInv, TxInv, TakenInv
  <2>. QED  BY <2>3, <2>4 DEF Inv
<1>4. CASE RecoverStale
  BY <1>4, DiskFrame DEF RecoverStale, Inv, TxInv, PhaseInv, TakenInv
<1>5. ASSUME NEW applied \in BOOLEAN, journal # NoJournal, journal.prior = st.rev,
             SaveState(AdvanceState(applied), "recovered", "idle"),
             UNCHANGED <<live, durable, backups, journal, jdisk, tx, edits>>
      PROVE  Inv'
  <2> DEFINE s == AdvanceState(applied)
  <2>1. journal \in Journals
    BY <1>0, <1>5 DEF TypeOK
  <2>2. s \in States /\ s.rev = journal.next /\ s.prov = st.prov
    BY <1>0, <2>1, AdvanceStateType DEF AdvanceState, TypeOK
  <2> HIDE DEF s
  <2>3. /\ st' \in {st, s} /\ pc' \in {"recovered", "idle"}
        /\ st' # s => pc' = "idle"
    BY <1>0, <1>5, <2>2, SaveStateType DEF Phases, s
  <2>4. journal.next \in Nat /\ journal.next = st.rev + 1
    BY <1>5, <2>1 DEF Inv, JournalInv, Journals
  <2>5. CASE st' = s
    <3>1. WriteAhead' /\ BytesInv'
      <4>1. \A f \in Files : /\ live[f].by = "quota" => live[f].n <= s.rev
                             /\ durable[f].by = "quota" => durable[f].n <= s.rev
        BY <1>0, <1>5, <2>2, <2>4, NothingAheadOfNext
      <4>2. s.prov <= s.rev /\ s.rev >= st.rev
        BY <1>0, <2>2, <2>4 DEF Inv, BytesInv
      <4>. QED  BY <1>5, <2>2, <2>5, <4>1, <4>2, RevisionStep
    <3>2. JournalInv' /\ TxInv' /\ PhaseInv' /\ TakenInv'
      BY <1>5, <2>2, <2>3, <2>5 DEF Inv, JournalInv, TxInv, PhaseInv, TakenInv
    <3>. QED  BY <3>1, <3>2 DEF Inv
  <2>6. CASE st' = st
    BY <1>5, <2>3, <2>5, <2>6, DiskFrame DEF Inv, TxInv, PhaseInv, TakenInv
  <2>. QED  BY <2>3, <2>5, <2>6
<1>6. CASE RollForward
  BY <1>5, <1>6 DEF RollForward, InDoubt
<1>7. CASE RefuseExternal
  <2> DEFINE s == [st EXCEPT !.tgt[journal.target].attempted = journal.next,
                             !.tgt[journal.target].pending = "recover"]
  <2>1. journal \in Journals
    BY <1>0, <1>7 DEF RefuseExternal, InDoubt, TypeOK
  <2>2. s \in States
    BY <1>0, <2>1, RefusedStateType DEF TypeOK
  <2>3. s.rev = st.rev /\ s.prov = st.prov
    BY <1>0 DEF TypeOK, States
  <2> HIDE DEF s
  <2>4. st' \in {st, s} /\ pc' = "idle"
    BY <1>0, <1>7, <2>2, SaveStateType DEF RefuseExternal, Phases, s
  <2>5. st'.rev = st.rev /\ st'.prov = st.prov
    BY <2>3, <2>4
  <2>6. UNCHANGED <<live, durable, backups, journal, jdisk, tx, edits>>
    BY <1>7 DEF RefuseExternal
  <2>7. WriteAhead'
    BY <2>5, <2>6 DEF Inv, WriteAhead, Ahead, Covered, Active, BackupOf
  <2>8. BytesInv' /\ JournalInv'
    BY <2>5, <2>6 DEF Inv, BytesInv, JournalInv, Ahead, Seen
  <2>9. TxInv' /\ PhaseInv' /\ TakenInv'
    BY <2>4 DEF TxInv, PhaseInv, TakenInv
  <2>. QED  BY <2>7, <2>8, <2>9 DEF Inv
<1>8. CASE BeginRestore
  BY <1>8, DiskFrame DEF BeginRestore, InDoubt, Inv, TxInv, PhaseInv, TakenInv
<1>9. ASSUME NEW f \in Files, RestoreFile(f)
      PROVE  Inv'
  <2>1. PICK b \in BackupOf(f) :
          /\ live' = [live EXCEPT ![f] = b.bytes]
          /\ \/ /\ durable' = [durable EXCEPT ![f] = b.bytes]
                /\ backups' = [backups EXCEPT ![f] = @ \ {b}]
                /\ todo' = todo \ {f}
                /\ UNCHANGED <<pc, faults>>
             \/ /\ Fails("idle")
                /\ durable' \in {durable, [durable EXCEPT ![f] = b.bytes]}
                /\ UNCHANGED backups
    BY <1>9 DEF RestoreFile
  <2>2. b \in backups[f] /\ Seen(b.bytes) /\ ~Ahead(b.bytes)
    BY <2>1 DEF BackupOf, Inv, BytesInv
  <2>3. /\ pc = "restore" /\ pc' \in {"restore", "idle"}
        /\ UNCHANGED <<journal, jdisk, st, tx, edits>>
        /\ \A g \in Files : backups'[g] \subseteq backups[g] /\ (g # f => backups'[g] = backups[g])
    BY <1>0, <1>9, <2>1 DEF RestoreFile, Fails, TypeOK
  <2>4. \A g \in Files : /\ live'[g] = IF g = f THEN b.bytes ELSE live[g]
                         /\ \/ durable'[g] = IF g = f THEN b.bytes ELSE durable[g]
                            \/ durable'[g] = durable[g] /\ backups'[g] = backups[g]
    BY <1>0, <2>1 DEF TypeOK
  <2>5. WriteAhead'
    <3>1. SUFFICES ASSUME NEW g \in Files
                   PROVE  /\ Ahead(live[g])' => Covered(g, live[g])'
                          /\ Ahead(durable[g])' => Covered(g, durable[g])'
      BY DEF WriteAhead
    <3>2. CASE g = f
      BY <2>2, <2>3, <2>4, <3>2 DEF Inv, WriteAhead, Ahead, Covered, Active, BackupOf
    <3>3. CASE g # f
      BY <2>3, <2>4, <3>3 DEF Inv, WriteAhead, Ahead, Covered, Active, BackupOf
    <3>. QED  BY <3>2, <3>3
  <2>6. BytesInv'
    BY <2>2, <2>3, <2>4 DEF Inv, BytesInv, Ahead, Seen
  <2>7. JournalInv' /\ TxInv' /\ PhaseInv' /\ TakenInv'
    BY <2>3 DEF Inv, JournalInv, TxInv, PhaseInv, TakenInv
  <2>. QED  BY <2>5, <2>6, <2>7 DEF Inv
<1>10. ASSUME NEW f \in Files, RestoreFails(f)
       PROVE  Inv'
  <2>1. pc' = "idle"
    BY <1>10 DEF RestoreFails, Fails
  <2>. QED  BY <1>10, <2>1, DiskFrame DEF RestoreFails, Inv, TxInv, PhaseInv, TakenInv
<1>11. CASE FinishRestore
  BY <1>5, <1>11 DEF FinishRestore, Inv, PhaseInv
<1>12. CASE CleanupJournal
  <2>1. journal # NoJournal /\ st.rev = journal.next
    BY <1>12 DEF CleanupJournal, Inv, PhaseInv
  <2>2. \A f \in Files : ~Ahead(live[f]) /\ ~Ahead(durable[f])
    BY <2>1 DEF Inv, WriteAhead, Covered, Active
  <2>3. /\ pc' = "ready" /\ journal' \in {journal, NoJournal}
        /\ UNCHANGED <<live, durable, backups, jdisk, st, edits>>
    BY <1>0, <1>12, RemoveJournalType DEF CleanupJournal, Phases
  <2>4. WriteAhead' /\ BytesInv' /\ PhaseInv'
    BY <2>2, <2>3 DEF WriteAhead, PhaseInv, Inv, BytesInv, Ahead, Seen
  <2>5. JournalInv' /\ TxInv' /\ TakenInv'
    BY <2>3 DEF Inv, JournalInv, TxInv, TakenInv
  <2>. QED  BY <2>4, <2>5 DEF Inv
<1>. QED
  BY <1>1, <1>2, <1>3, <1>4, <1>6, <1>7, <1>8, <1>9, <1>10, <1>11, <1>12 DEF Recover

\* The journal written is the transaction's, and it is a journal.
LEMMA JournalOfFields ==
  ASSUME NEW x \in Transactions
  PROVE  LET j == JournalOf(x) IN
         /\ j # NoJournal
         /\ j.prior = x.prior /\ j.next = x.next.rev /\ j.files = x.files
         /\ j.old = x.old /\ j.new = x.new /\ j.seq = x.seq
<1>1. "prior" \in DOMAIN JournalOf(x) /\ DOMAIN NoJournal = {"none"}
  BY DEF JournalOf, NoJournal
<1>. QED  BY <1>1 DEF JournalOf

\* The steps before the journal is written.
LEMMA InvPrepareTx ==
  ASSUME Inv, TypeInv',
         \/ \E kind \in Kinds, t \in Targets, S \in SUBSET Files : Submit(kind, t, S)
         \/ \E f \in Files : TakeBackup(f) \/ BackupFails(f)
         \/ WriteJournal
  PROVE  Inv'
<1> USE DEF Applying, Journaled, disk
<1>0. TypeInv /\ TypeOK /\ st.rev \in Nat /\ st.prov \in Nat
  BY DEF Inv, TypeInv, TypeOK, States
<1>1. ASSUME NEW kind \in Kinds, NEW t \in Targets, NEW S \in SUBSET Files, Submit(kind, t, S)
      PROVE  Inv'
  <2> DEFINE n == NextState(kind)
  <2>1. /\ tx' = [next |-> n, target |-> t, files |-> S, old |-> live,
                  new |-> [f \in Files |-> QuotaBytes(n.rev, n.prov)],
                  seq |-> [f \in Files |-> 0], prior |-> st.rev,
                  noticeSet |-> kind \in Claiming]
        /\ n.rev = st.rev + 1 /\ n.prov \in {st.prov, st.rev + 1}
    BY <1>1 DEF Submit, NextState
  <2>2. /\ pc = "ready" /\ todo' = S /\ pc' \in {"backup", "journal"}
        /\ (pc' = "journal" => S = {})
        /\ UNCHANGED <<live, durable, backups, journal, jdisk, st, edits>>
    BY <1>1 DEF Submit
  <2> HIDE DEF n
  <2>3. /\ tx'.prior = st.rev /\ tx'.next.rev = st.rev + 1 /\ tx'.files = S /\ tx'.old = live
        /\ tx'.next.prov \in {st.prov, st.rev + 1}
        /\ \A f \in Files : tx'.new[f].by = "quota" /\ tx'.new[f].n = st.rev + 1
    BY <2>1 DEF QuotaBytes
  <2>4. TxInv'
    BY <1>0, <2>2, <2>3 DEF TxInv, Inv, BytesInv, Seen
  <2>5. PhaseInv' /\ TakenInv'
    BY <2>2, <2>3 DEF PhaseInv, TakenInv, Inv, Ahead
  <2>. QED  BY <2>2, <2>4, <2>5, DiskFrame DEF Inv
<1>2. ASSUME NEW f \in Files, TakeBackup(f)
      PROVE  Inv'
  <2> DEFINE n == NextSeq(f)
             new == NewBackup(f)
  <2>1. /\ pc = "backup" /\ f \in todo /\ pc' \in {"backup", "journal"} /\ todo' = todo \ {f}
        /\ (pc' = "journal" => todo = {f})
        /\ UNCHANGED <<live, durable, journal, jdisk, st, edits>>
    BY <1>2 DEF TakeBackup, LoopStep
  <2>2. tx \in Transactions /\ todo \subseteq tx.files /\ backups[f] \in SUBSET Backup
    BY <1>0, <2>1 DEF TypeInv, TypeOK, Backup
  <2>3. n \in Nat /\ new \in Backup /\ new.seq = n /\ new.bytes = live[f]
    BY <1>0, NewBackupType
  <2>4. new.bytes = live[f] /\ new.seq = n
    BY <2>3
  <2>5. /\ backups' = [backups EXCEPT ![f] = Prune(@ \cup {new})]
        /\ tx' = [tx EXCEPT !.seq[f] = n]
    BY <1>2 DEF TakeBackup
  <2>6. new \in Prune(backups[f] \cup {new}) /\ Prune(backups[f] \cup {new}) \subseteq backups[f] \cup {new}
    BY <1>0, NewBackupType, PruneKeepsNewest
  <2> HIDE DEF n, new
  <2>7. /\ new \in backups'[f] /\ backups'[f] \subseteq backups[f] \cup {new}
        /\ \A g \in Files : g # f => backups'[g] = backups[g]
    BY <1>0, <2>5, <2>6 DEF TypeOK
  <2>8. /\ tx'.prior = tx.prior /\ tx'.next = tx.next /\ tx'.files = tx.files /\ tx'.old = tx.old
        /\ tx'.new = tx.new /\ tx'.seq[f] = n
        /\ \A g \in Files : g # f => tx'.seq[g] = tx.seq[g]
    BY <2>2, <2>5 DEF Transactions
  <2>9. \A g \in Files : ~Ahead(live[g]) /\ ~Ahead(durable[g])
    BY <2>1 DEF Inv, PhaseInv
  <2>10. WriteAhead' /\ PhaseInv' /\ BytesInv' /\ JournalInv'
    <3>1. WriteAhead' /\ PhaseInv'
      BY <2>1, <2>9 DEF WriteAhead, PhaseInv, Ahead
    <3>2. BytesInv'
      BY <2>1, <2>4, <2>7, <2>9 DEF Inv, BytesInv, Ahead, Seen
    <3>3. JournalInv'
      BY <2>1 DEF Inv, JournalInv
    <3>. QED  BY <3>1, <3>2, <3>3
  <2>11. TxInv'
    BY <2>1, <2>8 DEF Inv, TxInv, Seen
  <2>12. TakenInv'
    <3>1. SUFFICES ASSUME NEW g \in tx.files, ~(pc' = "backup" /\ g \in todo')
                   PROVE  \E b \in backups'[g] :
                            /\ b.seq = tx'.seq[g]
                            /\ b.bytes = tx.old[g] \/ tx.old[g] = Absent \/ live[g] # tx.old[g]
      BY <2>1, <2>8 DEF TakenInv, Unchecked
    <3>2. g \in Files
      BY <2>2 DEF Transactions
    <3>3. CASE g = f
      BY <2>4, <2>7, <2>8, <3>3
    <3>4. CASE g # f
      <4>1. ~(pc = "backup" /\ g \in todo)
        BY <2>1, <3>1, <3>4
      <4>2. PICK b \in backups[g] :
              /\ b.seq = tx.seq[g]
              /\ b.bytes = tx.old[g] \/ tx.old[g] = Absent \/ live[g] # tx.old[g]
        BY <2>1, <4>1 DEF Inv, TakenInv, Unchecked
      <4>. QED  BY <2>7, <2>8, <3>2, <3>4, <4>2
    <3>. QED  BY <3>3, <3>4
  <2>. QED  BY <2>10, <2>11, <2>12 DEF Inv
<1>3. ASSUME NEW f \in Files, BackupFails(f)
      PROVE  Inv'
  <2>1. /\ pc = "backup" /\ pc' = "failed"
        /\ UNCHANGED <<live, durable, journal, jdisk, st, tx, edits>>
        /\ backups' \in {backups, [backups EXCEPT ![f] = @ \cup {NewBackup(f)}]}
    BY <1>3 DEF BackupFails, Fails
  <2>2. \A g \in Files : \A b \in backups'[g] : b \in backups[g] \/ b.bytes = live[g]
    BY <1>0, <2>1, NewBackupType, ZenonT(30) DEF TypeOK
  <2>3. \A g \in Files : ~Ahead(live[g]) /\ ~Ahead(durable[g])
    BY <2>1 DEF Inv, PhaseInv
  <2>4. WriteAhead' /\ BytesInv'
    <3>1. WriteAhead'
      BY <2>1, <2>3 DEF WriteAhead, Ahead
    <3>2. BytesInv'
      BY <2>1, <2>2, <2>3 DEF Inv, BytesInv, Ahead, Seen
    <3>. QED  BY <3>1, <3>2
  <2>5. JournalInv' /\ TxInv' /\ PhaseInv' /\ TakenInv'
    BY <2>1 DEF Inv, JournalInv, TxInv, PhaseInv, TakenInv
  <2>. QED  BY <2>4, <2>5 DEF Inv
<1>4. CASE WriteJournal
  <2>1. /\ pc = "journal" /\ journal' \in {journal, JournalOf(tx)}
        /\ jdisk' = IF journal' = journal THEN jdisk ELSE journal'
        /\ UNCHANGED <<live, durable, backups, st, tx, edits>>
        /\ \/ /\ journal' = JournalOf(tx) /\ todo' = tx.files
              /\ pc' \in {"prepare", "syncdir"} /\ (pc' = "syncdir" => tx.files = {})
           \/ pc' = "failed"
    BY <1>4 DEF WriteJournal, Fails
  <2>2. tx \in Transactions
    BY <1>0, <2>1 DEF TypeInv
  <2>3. \A f \in Files : ~Ahead(live[f]) /\ ~Ahead(durable[f])
    BY <2>1 DEF Inv, PhaseInv
  <2>4. WriteAhead' /\ PhaseInv' /\ BytesInv'
    <3>1. WriteAhead' /\ PhaseInv'
      BY <2>1, <2>3 DEF WriteAhead, PhaseInv, Ahead
    <3>2. BytesInv'
      BY <2>1 DEF Inv, BytesInv, Ahead, Seen
    <3>. QED  BY <3>1, <3>2
  <2>5. JournalInv'
    <3>1. LET j == JournalOf(tx) IN
          j.next = j.prior + 1 /\ \A f \in Files : j.new[f].by = "quota" /\ j.new[f].n = j.next
      BY <2>1, <2>2, JournalOfFields DEF Inv, TxInv
    <3>. QED  BY <2>1, <3>1 DEF Inv, JournalInv
  <2>6. TxInv'
    BY <2>1 DEF Inv, TxInv, Seen
  <2>7. TakenInv'
    BY <2>1 DEF Inv, TakenInv, Unchecked
  <2>. QED  BY <2>4, <2>5, <2>6, <2>7 DEF Inv
<1>. QED  BY <1>1, <1>2, <1>3, <1>4

\* What the journal on disk says of a file the transaction has checked: it is
\* covered, were it to show the candidate.
LEMMA CheckedFileCovered ==
  ASSUME Inv, pc \in Journaled, NEW f \in tx.files, ~Unchecked(f)
  PROVE  Covered(f, tx.new[f])
<1>1. tx \in Transactions /\ journal = JournalOf(tx) /\ tx.prior = st.rev /\ tx.next.rev = st.rev + 1
  BY DEF Inv, TypeInv, TxInv, Applying, Journaled
<1>2. /\ journal # NoJournal /\ journal.prior = st.rev /\ journal.next = st.rev + 1
      /\ journal.files = tx.files /\ journal.old = tx.old /\ journal.new = tx.new
      /\ journal.seq = tx.seq
  BY <1>1, JournalOfFields
<1>3. st.rev \in Nat /\ pc \in Applying /\ pc # "backup"
  BY DEF Inv, TypeInv, TypeOK, States, Journaled, Applying
<1>4. \E b \in backups[f] : b.seq = tx.seq[f] /\ (b.bytes = tx.old[f] \/ tx.old[f] = Absent)
  BY <1>3 DEF Inv, TakenInv
<1>. QED  BY <1>2, <1>3, <1>4 DEF Covered, Active, BackupOf

\* The steps from the first comparison to the removal of the journal.
LEMMA InvPublish ==
  ASSUME Inv, TypeInv',
         \/ \E f \in Files : Prepare(f) \/ PrepareFails(f) \/ RenameFile(f)
         \/ SyncDirs \/ RecordProgress \/ StepFails \/ Commit \/ RemoveJournal \/ Return
  PROVE  Inv'
<1> USE DEF Applying, Journaled, disk
<1>0. TypeInv /\ TypeOK /\ st.rev \in Nat /\ st.prov \in Nat
  BY DEF Inv, TypeInv, TypeOK, States
<1>1. ASSUME NEW f \in Files, Prepare(f)
      PROVE  Inv'
  <2>1. /\ pc = "prepare" /\ live[f] = tx.old[f] /\ f \in todo
        /\ \/ pc' = "prepare" /\ todo' = todo \ {f}
           \/ pc' = "rename" /\ todo = {f}
        /\ UNCHANGED <<live, durable, backups, journal, jdisk, st, tx, edits>>
    BY <1>1 DEF Prepare, LoopStep
  <2>2. TxInv' /\ PhaseInv'
    BY <2>1 DEF Inv, TxInv, PhaseInv, Seen, Ahead
  <2>3. TakenInv'
    <3>1. SUFFICES ASSUME NEW g \in tx.files
                   PROVE  \E b \in backups[g] :
                            /\ b.seq = tx.seq[g]
                            /\ \/ b.bytes = tx.old[g] \/ tx.old[g] = Absent
                               \/ Unchecked(g)' /\ live[g] # tx.old[g]
      BY <2>1 DEF TakenInv
    <3>2. PICK b \in backups[g] :
            /\ b.seq = tx.seq[g]
            /\ \/ b.bytes = tx.old[g] \/ tx.old[g] = Absent
               \/ Unchecked(g) /\ live[g] # tx.old[g]
      BY <2>1 DEF Inv, TakenInv
    <3>3. Unchecked(g) /\ live[g] # tx.old[g] => Unchecked(g)'
      BY <2>1 DEF Unchecked
    <3>. QED  BY <3>2, <3>3
  <2>. QED  BY <2>1, <2>2, <2>3, DiskFrame DEF Inv
<1>2. ASSUME NEW f \in Files, PrepareFails(f)
      PROVE  Inv'
  <2>1. pc' = "failed"
    BY <1>2 DEF PrepareFails, Fails
  <2>. QED  BY <1>2, <2>1, DiskFrame DEF PrepareFails, Inv, TxInv, PhaseInv, TakenInv
<1>3. ASSUME NEW f \in Files, RenameFile(f)
      PROVE  Inv'
  <2>1. /\ pc = "rename" /\ pc' \in {"rename", "syncdir"} /\ f \in todo
        /\ live' = [live EXCEPT ![f] = tx.new[f]]
        /\ UNCHANGED <<durable, backups, journal, jdisk, st, tx, edits>>
    BY <1>3 DEF RenameFile, LoopStep
  <2>2. f \in tx.files /\ ~Unchecked(f)
    BY <1>0, <2>1 DEF TypeInv, Unchecked
  <2>3. Covered(f, tx.new[f])
    BY <2>1, <2>2, CheckedFileCovered
  <2>4. \A g \in Files : live'[g] = IF g = f THEN tx.new[f] ELSE live[g]
    BY <1>0, <2>1 DEF TypeOK
  <2>5. WriteAhead'
    <3>1. SUFFICES ASSUME NEW g \in Files
                   PROVE  /\ Ahead(live[g])' => Covered(g, live[g])'
                          /\ Ahead(durable[g])' => Covered(g, durable[g])'
      BY DEF WriteAhead
    <3>2. Ahead(durable[g])' => Covered(g, durable[g])'
      BY <2>1 DEF Inv, WriteAhead, Ahead, Covered, Active, BackupOf
    <3>3. CASE g = f
      BY <2>1, <2>3, <2>4, <3>2, <3>3 DEF Covered, Active, BackupOf
    <3>4. CASE g # f
      BY <2>1, <2>4, <3>2, <3>4 DEF Inv, WriteAhead, Ahead, Covered, Active, BackupOf
    <3>. QED  BY <3>3, <3>4
  <2>6. BytesInv'
    BY <2>1, <2>4 DEF Inv, BytesInv, TxInv, Ahead, Seen
  <2>7. JournalInv' /\ TxInv' /\ PhaseInv'
    BY <2>1 DEF Inv, JournalInv, TxInv, PhaseInv, Seen
  <2>8. TakenInv'
    BY <2>1 DEF Inv, TakenInv, Unchecked
  <2>. QED  BY <2>5, <2>6, <2>7, <2>8 DEF Inv
<1>4. CASE SyncDirs
  <2>1. /\ pc = "syncdir" /\ pc' = "progress"
        /\ UNCHANGED <<live, backups, journal, jdisk, st, tx, edits>>
        /\ \A g \in Files : durable'[g] \in {live[g], durable[g]}
    BY <1>4 DEF SyncDirs
  <2>2. WriteAhead'
    BY <2>1 DEF Inv, WriteAhead, Ahead, Covered, Active, BackupOf
  <2>3. BytesInv'
    BY <2>1 DEF Inv, BytesInv, Ahead, Seen
  <2>4. JournalInv' /\ TxInv' /\ PhaseInv' /\ TakenInv'
    BY <2>1 DEF Inv, JournalInv, TxInv, PhaseInv, TakenInv, Seen, Unchecked
  <2>. QED  BY <2>2, <2>3, <2>4 DEF Inv
<1>5. CASE RecordProgress
  <2>1. TxInv' /\ PhaseInv' /\ TakenInv'
    BY <1>5 DEF RecordProgress, Inv, TxInv, PhaseInv, TakenInv, Seen, Unchecked
  <2>. QED  BY <1>5, <2>1, DiskFrame DEF RecordProgress, Inv
<1>6. CASE StepFails
  <2>1. pc' = "failed"
    BY <1>6 DEF StepFails, Fails
  <2>. QED  BY <1>6, <2>1, DiskFrame DEF StepFails, Inv, TxInv, PhaseInv, TakenInv
<1>7. CASE Commit
  <2>1. /\ pc = "commit" /\ SaveState(tx.next, "remove", "failed")
        /\ UNCHANGED <<live, durable, backups, journal, jdisk, tx, edits>>
    BY <1>7 DEF Commit
  <2>2. tx \in Transactions /\ tx.next \in States
    BY <1>0, <2>1 DEF TypeInv, Transactions
  <2>3. /\ st' \in {st, tx.next} /\ pc' \in {"remove", "failed"}
        /\ st' # tx.next => pc' = "failed"
    BY <1>0, <2>1, <2>2, SaveStateType DEF Phases
  <2>4. /\ tx.prior = st.rev /\ tx.next.rev = st.rev + 1 /\ tx.next.prov <= st.rev + 1
        /\ journal = JournalOf(tx)
    BY <2>1 DEF Inv, TxInv
  <2>5. journal # NoJournal /\ journal.next = st.rev + 1
    BY <2>2, <2>4, JournalOfFields
  <2>6. CASE st' = tx.next
    <3>1. \A f \in Files : /\ live[f].by = "quota" => live[f].n <= tx.next.rev
                           /\ durable[f].by = "quota" => durable[f].n <= tx.next.rev
      BY <1>0, <2>4, <2>5, NothingAheadOfNext
    <3>2. WriteAhead' /\ BytesInv'
      BY <1>0, <2>1, <2>2, <2>4, <2>6, <3>1, RevisionStep
    <3>3. JournalInv' /\ TxInv' /\ PhaseInv' /\ TakenInv'
      BY <2>1, <2>3, <2>4, <2>5, <2>6 DEF Inv, JournalInv, TxInv, PhaseInv, TakenInv
    <3>. QED  BY <3>2, <3>3 DEF Inv
  <2>7. CASE st' = st
    BY <2>1, <2>3, <2>6, <2>7, DiskFrame DEF Inv, TxInv, PhaseInv, TakenInv
  <2>. QED  BY <2>3, <2>6, <2>7
<1>8. CASE RemoveJournal
  <2>1. journal # NoJournal /\ st.rev = journal.next
    BY <1>8 DEF RemoveJournal, Inv, PhaseInv
  <2>2. \A f \in Files : ~Ahead(live[f]) /\ ~Ahead(durable[f])
    BY <2>1 DEF Inv, WriteAhead, Covered, Active
  <2>3. /\ pc' \in {"applied", "failed"} /\ journal' \in {journal, NoJournal}
        /\ UNCHANGED <<live, durable, backups, jdisk, st, edits>>
    BY <1>0, <1>8, RemoveJournalType DEF RemoveJournal, Phases
  <2>4. WriteAhead' /\ BytesInv' /\ PhaseInv'
    BY <2>2, <2>3 DEF WriteAhead, PhaseInv, Inv, BytesInv, Ahead, Seen
  <2>5. JournalInv' /\ TxInv' /\ TakenInv'
    BY <2>3 DEF Inv, JournalInv, TxInv, TakenInv
  <2>. QED  BY <2>4, <2>5 DEF Inv
<1>9. CASE Return
  BY <1>9, DiskFrame DEF Return, Inv, TxInv, PhaseInv, TakenInv
<1>. QED  BY <1>1, <1>2, <1>3, <1>4, <1>5, <1>6, <1>7, <1>8, <1>9

\* Journal-less saves, other writers, and the end of the process.
LEMMA InvOthers ==
  ASSUME Inv, TypeInv',
         SaveObservation \/ NothingToDo \/ Environment \/ UNCHANGED vars
  PROVE  Inv'
<1> USE DEF Applying, Journaled, disk
<1>0. TypeInv /\ TypeOK /\ st.rev \in Nat /\ st.prov \in Nat
  BY DEF Inv, TypeInv, TypeOK, States
<1>1. CASE SaveObservation
  <2> DEFINE s == [st EXCEPT !.rev = @ + 1, !.prov = st.rev + 1]
  <2>1. s \in States /\ s.rev = st.rev + 1 /\ s.prov = st.rev + 1
    BY <1>0, ObservedStateType DEF TypeOK, States
  <2> HIDE DEF s
  <2>2. /\ st' \in {st, s} /\ pc' = "idle" /\ pc = "ready"
        /\ UNCHANGED <<live, durable, backups, journal, jdisk, tx, edits>>
    BY <1>0, <1>1, <2>1, SaveStateType DEF SaveObservation, Phases, s
  <2>3. CASE st' = s
    <3>1. \A f \in Files : /\ live[f].by = "quota" => live[f].n <= s.rev
                           /\ durable[f].by = "quota" => durable[f].n <= s.rev
      <4>1. \A f \in Files : ~Ahead(live[f]) /\ ~Ahead(durable[f])
        BY <2>2 DEF Inv, PhaseInv
      <4>2. \A f \in Files : live[f].n \in Nat /\ durable[f].n \in Nat
        BY <1>0 DEF TypeOK, Bytes
      <4>. QED  BY <1>0, <2>1, <4>1, <4>2 DEF Ahead
    <3>2. WriteAhead' /\ BytesInv'
      BY <1>0, <2>1, <2>2, <2>3, <3>1, RevisionStep
    <3>3. JournalInv' /\ TxInv' /\ PhaseInv' /\ TakenInv'
      BY <2>2 DEF Inv, JournalInv, TxInv, PhaseInv, TakenInv
    <3>. QED  BY <3>2, <3>3 DEF Inv
  <2>4. CASE st' = st
    BY <2>2, <2>4, DiskFrame DEF Inv, TxInv, PhaseInv, TakenInv
  <2>. QED  BY <2>2, <2>3, <2>4
<1>2. CASE NothingToDo
  BY <1>2, DiskFrame DEF NothingToDo, Inv, TxInv, PhaseInv, TakenInv
<1>3. ASSUME NEW f \in Files, NEW b \in {UserBytes(edits + 1), Absent}, UserWrite(f, b)
      PROVE  Inv'
  <2>1. /\ live' = [live EXCEPT ![f] = b] /\ durable' = [durable EXCEPT ![f] = b]
        /\ edits' = edits + 1 /\ edits \in Nat
        /\ UNCHANGED <<backups, journal, jdisk, st, pc, tx, todo>>
    BY <1>0, <1>3, PublisherAssumption DEF UserWrite, TypeOK
  <2>2. \A g \in Files : /\ live'[g] = IF g = f THEN b ELSE live[g]
                         /\ durable'[g] = IF g = f THEN b ELSE durable[g]
    BY <1>0, <2>1 DEF TypeOK
  <2>3. b.by # "quota" /\ (b.by = "user" => b.n = edits + 1) /\ (b.by # "user" => b = Absent)
    BY DEF UserBytes, Absent
  <2>4. WriteAhead'
    <3>1. SUFFICES ASSUME NEW g \in Files
                   PROVE  /\ Ahead(live[g])' => Covered(g, live[g])'
                          /\ Ahead(durable[g])' => Covered(g, durable[g])'
      BY DEF WriteAhead
    <3>2. CASE g = f
      BY <2>1, <2>2, <2>3, <3>2 DEF Ahead
    <3>3. CASE g # f
      BY <2>1, <2>2, <3>3 DEF Inv, WriteAhead, Ahead, Covered, Active, BackupOf
    <3>. QED  BY <3>2, <3>3
  <2>5. \A c \in Bytes : Seen(c) => Seen(c)'
    BY <2>1 DEF Seen, Bytes
  <2>6. BytesInv'
    <3>1. \A g \in Files : /\ live[g] \in Bytes /\ durable[g] \in Bytes
                           /\ \A c \in backups[g] : c.bytes \in Bytes
      BY <1>0 DEF TypeOK
    <3>2. Seen(b)' /\ ~Ahead(b)'
      BY <2>1, <2>3 DEF Seen, Ahead
    <3>. QED  BY <2>1, <2>2, <2>5, <3>1, <3>2 DEF Inv, BytesInv, Ahead, Seen
  <2>7. JournalInv' /\ PhaseInv'
    BY <2>1, <2>2, <2>3 DEF Inv, JournalInv, PhaseInv, Ahead
  <2>8. TxInv'
    <3>1. pc \in Applying => \A g \in Files : tx.old[g] \in Bytes
      BY <1>0 DEF TypeInv, Transactions
    <3>2. pc \in Applying => \A g \in Files : Seen(tx.old[g])'
      BY <2>1, <2>5, <3>1 DEF Inv, TxInv, Seen
    <3>. QED  BY <2>1, <3>2 DEF Inv, TxInv
  <2>9. TakenInv'
    <3>1. SUFFICES ASSUME pc \in Applying, NEW g \in tx.files, ~(pc = "backup" /\ g \in todo)
                   PROVE  \E c \in backups[g] :
                            /\ c.seq = tx.seq[g]
                            /\ \/ c.bytes = tx.old[g] \/ tx.old[g] = Absent
                               \/ Unchecked(g) /\ live'[g] # tx.old[g]
      BY <2>1 DEF TakenInv, Unchecked
    <3>2. PICK c \in backups[g] :
            /\ c.seq = tx.seq[g]
            /\ \/ c.bytes = tx.old[g] \/ tx.old[g] = Absent
               \/ Unchecked(g) /\ live[g] # tx.old[g]
      BY <3>1 DEF Inv, TakenInv
    <3>3. g \in Files /\ Seen(tx.old[g]) /\ tx.old[g].n \in Nat
      BY <1>0, <3>1 DEF TypeInv, Transactions, Bytes, Inv, TxInv
    <3>4. tx.old[g] # Absent /\ live[g] # tx.old[g] => live'[g] # tx.old[g]
      BY <2>1, <2>2, <2>3, <3>3 DEF Seen
    <3>. QED  BY <3>2, <3>4
  <2>. QED  BY <2>4, <2>6, <2>7, <2>8, <2>9 DEF Inv
<1>4. CASE Kill
  BY <1>4, DiskFrame DEF Kill, Inv, TxInv, PhaseInv, TakenInv
<1>5. CASE PowerLoss
  <2>1. /\ pc' = "idle" /\ UNCHANGED <<backups, st, edits>>
        /\ journal' \in {journal, jdisk} /\ jdisk' = journal'
        /\ \A g \in Files : live'[g] \in {live[g], durable[g]} /\ durable'[g] = live'[g]
    BY <1>5 DEF PowerLoss
  <2>2. WriteAhead'
    <3>1. CASE journal = NoJournal
      BY <2>1, <3>1 DEF Inv, WriteAhead, Ahead, Covered, Active
    <3>2. CASE journal # NoJournal
      <4>1. journal' = journal
        BY <2>1, <3>2 DEF Inv, JournalInv
      <4>. QED  BY <2>1, <4>1 DEF Inv, WriteAhead, Ahead, Covered, Active, BackupOf
    <3>. QED  BY <3>1, <3>2
  <2>3. BytesInv'
    BY <2>1 DEF Inv, BytesInv, Ahead, Seen
  <2>4. JournalInv' /\ TxInv' /\ PhaseInv' /\ TakenInv'
    BY <2>1 DEF Inv, JournalInv, TxInv, PhaseInv, TakenInv
  <2>. QED  BY <2>2, <2>3, <2>4 DEF Inv
<1>6. CASE UNCHANGED vars
  BY <1>6, DiskFrame DEF vars, Inv, TxInv, PhaseInv, TakenInv, Seen, Ahead, Unchecked
<1>. QED  BY <1>1, <1>2, <1>3, <1>4, <1>5, <1>6 DEF Environment

\* Every step keeps the invariant.
LEMMA InvNext == Inv /\ [Next]_vars => Inv'
<1> SUFFICES ASSUME Inv, [Next]_vars PROVE Inv'
  OBVIOUS
<1>1. TypeInv'
  BY TypeInvNext DEF Inv
<1>. QED
  BY <1>1, InvRecover, InvPrepareTx, InvPublish, InvOthers DEF Next, ApplyUnderLock

\* What each phase relies on holds in every reachable state, whatever step of
\* ApplyUnderLock or Recover fails, dies or loses power.
THEOREM Invariant == Spec => []Inv
<1>. QED  BY InvInit, InvNext, PTL DEF Spec

\* Bytes of a revision state.json has not reached are never on a live file
\* without the journal and the backup that undo them.
THEOREM WriteAheadHolds == Spec => []UncommittedBytesJournaled
<1>1. Inv => UncommittedBytesJournaled
  BY DEF Inv, WriteAhead, Ahead, Covered, UncommittedBytesJournaled, Uncommitted
<1>. QED  BY <1>1, Invariant, PTL

\* Only these steps change the journal or state.json.
LEMMA QuietSteps ==
  ASSUME \/ Begin \/ RecoverNoop \/ RecoverStale \/ BeginRestore \/ Return \/ NothingToDo
         \/ \E f \in Files : \/ RestoreFile(f) \/ RestoreFails(f) \/ TakeBackup(f) \/ BackupFails(f)
                             \/ Prepare(f) \/ PrepareFails(f) \/ RenameFile(f)
         \/ SyncDirs \/ RecordProgress \/ StepFails \/ Kill
         \/ \E f \in Files : UserWrite(f, UserBytes(edits + 1)) \/ UserWrite(f, Absent)
         \/ \E kind \in Kinds, t \in Targets, S \in SUBSET Files : Submit(kind, t, S)
  PROVE  journal' = journal /\ st' = st
BY DEF Begin, RecoverNoop, RecoverStale, BeginRestore, Return, NothingToDo, RestoreFile,
       RestoreFails, TakeBackup, BackupFails, Prepare, PrepareFails, RenameFile, SyncDirs,
       RecordProgress, StepFails, UserWrite, Kill, Submit, disk

\* A journal is removed only when state.json has the revision it was written
\* for.
THEOREM JournalOutlivesCommitHolds == Spec => JournalOutlivesCommit
<1>1. Inv /\ [Next]_vars =>
        [journal # NoJournal /\ journal' = NoJournal => st.rev = journal.next]_vars
  <2> SUFFICES ASSUME Inv, Next, journal # NoJournal, journal' = NoJournal
               PROVE  st.rev = journal.next
    OBVIOUS
  <2>1. CASE RecoverCommitted \/ CleanupJournal \/ RemoveJournal
    BY <2>1 DEF RecoverCommitted, CleanupJournal, RemoveJournal, Inv, PhaseInv
  <2>2. CASE RollForward \/ RefuseExternal \/ FinishRestore \/ SaveObservation \/ Commit
    BY <2>2 DEF RollForward, RefuseExternal, FinishRestore, SaveObservation, Commit
  <2>3. CASE WriteJournal
    <3>1. tx \in Transactions
      BY <2>3 DEF WriteJournal, Inv, TypeInv, Applying
    <3>2. JournalOf(tx) # NoJournal
      BY <3>1, JournalOfFields
    <3>. QED  BY <2>3, <3>2 DEF WriteJournal
  <2>4. CASE PowerLoss
    BY <2>4 DEF PowerLoss, Inv, JournalInv
  <2>. QED  BY <2>1, <2>2, <2>3, <2>4, QuietSteps DEF Next, Recover, ApplyUnderLock, Environment
<1>. QED  BY <1>1, Invariant, PTL DEF Spec, JournalOutlivesCommit

\* No revision is skipped or used twice, and an accepted provider event stays.
THEOREM RevisionsAdvanceHolds == Spec => RevisionsAdvance
<1>1. Inv /\ [Next]_vars =>
        [st'.rev \in {st.rev, st.rev + 1} /\ st'.prov >= st.prov]_vars
  <2> SUFFICES ASSUME Inv, Next
               PROVE  st'.rev \in {st.rev, st.rev + 1} /\ st'.prov >= st.prov
    OBVIOUS
  <2>0. TypeOK /\ st.rev \in Nat /\ st.prov \in Nat /\ st.prov <= st.rev
    BY DEF Inv, TypeInv, TypeOK, States, BytesInv
  <2>1. CASE RollForward \/ FinishRestore
    <3>1. journal # NoJournal /\ journal.prior = st.rev /\ journal.next = st.rev + 1
      BY <2>1 DEF RollForward, FinishRestore, InDoubt, Inv, PhaseInv, JournalInv
    <3>2. PICK applied \in BOOLEAN : st' \in {st, AdvanceState(applied)}
      BY <2>1 DEF RollForward, FinishRestore, SaveState
    <3>. QED  BY <2>0, <3>1, <3>2 DEF AdvanceState
  <2>2. CASE RefuseExternal
    <3> DEFINE s == [st EXCEPT !.tgt[journal.target].attempted = journal.next,
                               !.tgt[journal.target].pending = "recover"]
    <3>1. s.rev = st.rev /\ s.prov = st.prov
      BY <2>0 DEF TypeOK, States
    <3> HIDE DEF s
    <3>2. st' \in {st, s}
      BY <2>2 DEF RefuseExternal, SaveState, s
    <3>. QED  BY <2>0, <3>1, <3>2
  <2>3. CASE SaveObservation
    <3> DEFINE s == [st EXCEPT !.rev = @ + 1, !.prov = st.rev + 1]
    <3>1. s.rev = st.rev + 1 /\ s.prov = st.rev + 1
      BY <2>0 DEF TypeOK, States
    <3> HIDE DEF s
    <3>2. st' \in {st, s}
      BY <2>3 DEF SaveObservation, SaveState, s
    <3>. QED  BY <2>0, <3>1, <3>2
  <2>4. CASE Commit
    <3>1. tx.next.rev = st.rev + 1 /\ st.prov <= tx.next.prov /\ st' \in {st, tx.next}
      BY <2>4 DEF Commit, SaveState, Inv, TxInv, Applying
    <3>. QED  BY <2>0, <3>1
  <2>5. CASE RecoverCommitted \/ CleanupJournal \/ WriteJournal \/ RemoveJournal
    BY <2>0, <2>5 DEF RecoverCommitted, CleanupJournal, WriteJournal, RemoveJournal
  <2>7. CASE PowerLoss
    BY <2>0, <2>7 DEF PowerLoss
  <2>6. ASSUME st' = st
        PROVE  st'.rev \in {st.rev, st.rev + 1} /\ st'.prov >= st.prov
    BY <2>0, <2>6
  <2>. QED
    BY <2>1, <2>2, <2>3, <2>4, <2>5, <2>6, <2>7, QuietSteps DEF Next, Recover, ApplyUnderLock, Environment
<1>. QED  BY <1>1, Invariant, PTL DEF Spec, RevisionsAdvance

-----------------------------------------------------------------------------
(***************************************************************************)
(* The invariant behind atomicity.  Inv says that bytes not yet committed  *)
(* can be undone.  That undoing them, or publishing them, is one step of   *)
(* AtomicPublish needs more: that the journal is of use only until the     *)
(* next transaction, that it was written for the claims state.json still   *)
(* has, that the backups it names hold either the old bytes or an edit,    *)
(* and that no loop over its files leaves one behind.                      *)
(***************************************************************************)
\* A file may be given back bytes b in place of bytes old: these, or an edit.
GivesBack(b, old) == b = old \/ b.by # "quota"

\* A journal is of the committed revision or an earlier one, of an earlier one
\* if only a power loss can bring it back; and no transaction is prepared over
\* one that is of use.
JournalPast ==
  /\ jdisk # NoJournal => /\ jdisk.prior <= st.rev
                          /\ journal = NoJournal => jdisk.prior < st.rev
  /\ pc \in {"ready", "backup", "journal"} => ~Active

\* What the journal of a transaction that is not committed says.
ActiveInv ==
  Active =>
    /\ journal.ownSet => journal.own \in {st.own, journal.next}
    /\ journal.noticeSet => journal.notice \in {st.notice, journal.next}
    /\ \A f \in Files : Seen(journal.old[f]) /\ ~Ahead(journal.old[f])
    /\ \A f \in journal.files : \A b \in BackupOf(f) : GivesBack(b.bytes, journal.old[f])

\* The same of the transaction under way, before and after its journal is
\* written; the file about to be backed up shows what its backup may hold.
ApplyInv ==
  pc \in Applying =>
    /\ tx.next.own \in {st.own, tx.next.rev}
    /\ tx.next.notice \in {st.notice, tx.next.rev}
    /\ \A f \in Files : ~Ahead(tx.old[f])
    /\ \A f \in tx.files :
         IF pc = "backup" /\ f \in todo
         THEN GivesBack(live[f], tx.old[f])
         ELSE \A b \in backups[f] : b.seq = tx.seq[f] => GivesBack(b.bytes, tx.old[f])

\* A restored file does not show the candidate, a renamed one not the bytes
\* from before.
LoopInv ==
  /\ pc = "restore" => /\ todo \subseteq journal.files
                       /\ \A f \in journal.files \ todo : live[f] # journal.new[f]
  /\ pc \in {"rename", "syncdir", "progress", "commit"} =>
       \A f \in tx.files : (pc = "rename" /\ f \in todo) \/ live[f] # tx.old[f] \/ live[f] = Absent

\* A backup is of a file that was there.
BackupsPresent == \A f \in Files : \A b \in backups[f] : b.bytes # Absent

AtomicInv == JournalPast /\ ActiveInv /\ ApplyInv /\ LoopInv /\ BackupsPresent

\* Without a journal, a transaction or a backup.
LEMMA AtomicInit == Init => AtomicInv
BY DEF Init, AtomicInv, JournalPast, ActiveInv, ApplyInv, LoopInv, BackupsPresent, Active,
       Applying, UserBytes, Absent

\* What is said of the journal and of the backups speaks of nothing else.
LEMMA JournalFrame ==
  ASSUME AtomicInv, UNCHANGED <<journal, st, edits>>,
         \A f \in Files : backups'[f] \subseteq backups[f],
         journal # NoJournal => journal.files \subseteq Files
  PROVE  ActiveInv' /\ BackupsPresent'
<1>1. ActiveInv'
  BY DEF AtomicInv, ActiveInv, Active, BackupOf, Seen, Ahead
<1>2. BackupsPresent'
  BY DEF AtomicInv, BackupsPresent
<1>. QED  BY <1>1, <1>2

\* Once the revision has advanced no journal on disk is of use any more.
LEMMA RevisionAdvances ==
  ASSUME Inv, AtomicInv, st'.rev = st.rev + 1, UNCHANGED <<journal, jdisk, backups>>
  PROVE  JournalPast' /\ ~Active' /\ ActiveInv' /\ BackupsPresent'
<1>1. st.rev \in Nat /\ (jdisk # NoJournal => jdisk.prior \in Nat)
  BY DEF Inv, TypeInv, TypeOK, States, Journals
<1>2. jdisk # NoJournal => jdisk.prior <= st.rev
  BY DEF AtomicInv, JournalPast
<1>3. ~Active'
  BY <1>1, <1>2 DEF Active, Inv, JournalInv
<1>4. JournalPast'
  BY <1>1, <1>2, <1>3 DEF JournalPast
<1>5. BackupsPresent'
  BY DEF AtomicInv, BackupsPresent
<1>. QED  BY <1>3, <1>4, <1>5 DEF ActiveInv

\* Recover, one step per action.
LEMMA AtomicRecover ==
  ASSUME Inv, AtomicInv, TypeInv', Begin \/ Recover
  PROVE  AtomicInv'
<1> USE DEF Applying, disk
<1>0. TypeInv /\ TypeOK /\ st.rev \in Nat
  BY DEF Inv, TypeInv, TypeOK, States
<1>1. journal # NoJournal => journal \in Journals /\ journal.files \subseteq Files
  BY <1>0 DEF TypeOK, Journals
<1>2. CASE Begin \/ RecoverStale
  <2>1. ActiveInv' /\ BackupsPresent'
    BY <1>1, <1>2, JournalFrame DEF Begin, RecoverStale
  <2>2. JournalPast' /\ ApplyInv' /\ LoopInv'
    BY <1>2 DEF Begin, RecoverStale, AtomicInv, JournalPast, ApplyInv, LoopInv
  <2>. QED  BY <2>1, <2>2 DEF AtomicInv
<1>3. CASE RecoverNoop
  <2>1. ActiveInv' /\ BackupsPresent'
    BY <1>1, <1>3, JournalFrame DEF RecoverNoop
  <2>2. JournalPast' /\ ApplyInv' /\ LoopInv'
    BY <1>3 DEF RecoverNoop, AtomicInv, JournalPast, ApplyInv, LoopInv, Active
  <2>. QED  BY <2>1, <2>2 DEF AtomicInv
\* The journal of a committed transaction is removed or left.
<1>4. CASE RecoverCommitted \/ CleanupJournal
  <2>1. journal # NoJournal /\ st.rev = journal.next
    BY <1>4 DEF RecoverCommitted, CleanupJournal, Inv, PhaseInv
  <2>2. /\ pc' = "ready" /\ journal' \in {journal, NoJournal}
        /\ UNCHANGED <<live, backups, jdisk, st, edits>>
    BY <1>0, <1>4, RemoveJournalType DEF RecoverCommitted, CleanupJournal, Phases
  <2>3. ~Active'
    BY <2>1, <2>2 DEF Active
  <2>4. JournalPast'
    <3>1. jdisk = journal /\ journal.next = journal.prior + 1 /\ journal.prior \in Nat
      BY <1>1, <2>1 DEF Inv, JournalInv, Journals
    <3>. QED  BY <1>0, <2>1, <2>2, <2>3, <3>1 DEF JournalPast
  <2>5. ActiveInv' /\ ApplyInv' /\ LoopInv' /\ BackupsPresent'
    BY <2>2, <2>3 DEF AtomicInv, ActiveInv, ApplyInv, LoopInv, BackupsPresent
  <2>. QED  BY <2>4, <2>5 DEF AtomicInv
\* The recovered state is saved or not.
<1>5. ASSUME NEW applied \in BOOLEAN, journal # NoJournal, journal.prior = st.rev,
             SaveState(AdvanceState(applied), "recovered", "idle"),
             UNCHANGED <<live, backups, journal, jdisk, edits>>
      PROVE  AtomicInv'
  <2>1. AdvanceState(applied) \in States /\ AdvanceState(applied).rev = st.rev + 1
    BY <1>0, <1>1, <1>5, AdvanceStateType DEF AdvanceState, TypeOK, Inv, JournalInv
  <2>2. st' \in {st, AdvanceState(applied)} /\ pc' \in {"recovered", "idle"}
    BY <1>0, <1>5, <2>1, SaveStateType DEF Phases
  <2>3. ApplyInv' /\ LoopInv'
    BY <2>2 DEF ApplyInv, LoopInv
  <2>4. CASE st' = st
    BY <1>1, <1>5, <2>2, <2>3, <2>4, JournalFrame DEF AtomicInv, JournalPast
  <2>5. CASE st'.rev = st.rev + 1
    BY <1>5, <2>3, <2>5, RevisionAdvances DEF AtomicInv
  <2>. QED  BY <2>1, <2>2, <2>4, <2>5
<1>6. CASE RollForward
  BY <1>5, <1>6 DEF RollForward, InDoubt
<1>7. CASE RefuseExternal
  <2>1. /\ st'.rev = st.rev /\ st'.own = st.own /\ st'.notice = st.notice
        /\ pc' = "idle" /\ UNCHANGED <<live, backups, journal, jdisk, edits>>
    <3> DEFINE s == [st EXCEPT !.tgt[journal.target].attempted = journal.next,
                               !.tgt[journal.target].pending = "recover"]
    <3>1. s.rev = st.rev /\ s.own = st.own /\ s.notice = st.notice
      BY <1>0 DEF TypeOK, States
    <3> HIDE DEF s
    <3>2. st' \in {st, s} /\ pc' = "idle"
      BY <1>7 DEF RefuseExternal, SaveState, Fails, s
    <3>. QED  BY <1>7, <3>1, <3>2 DEF RefuseExternal
  <2>2. JournalPast' /\ ApplyInv' /\ LoopInv'
    BY <2>1 DEF AtomicInv, JournalPast, ApplyInv, LoopInv
  <2>3. ActiveInv' /\ BackupsPresent'
    BY <2>1 DEF AtomicInv, ActiveInv, BackupsPresent, Active, BackupOf, Seen, Ahead
  <2>. QED  BY <2>2, <2>3 DEF AtomicInv
<1>8. CASE BeginRestore
  <2>1. ActiveInv' /\ BackupsPresent'
    BY <1>1, <1>8, JournalFrame DEF BeginRestore
  <2>2. JournalPast' /\ ApplyInv' /\ LoopInv'
    BY <1>8 DEF BeginRestore, AtomicInv, JournalPast, ApplyInv, LoopInv
  <2>. QED  BY <2>1, <2>2 DEF AtomicInv
<1>9. ASSUME NEW f \in Files, RestoreFile(f)
      PROVE  AtomicInv'
  <2>1. PICK b \in BackupOf(f) :
          /\ live' = [live EXCEPT ![f] = b.bytes]
          /\ \/ /\ backups' = [backups EXCEPT ![f] = @ \ {b}]
                /\ todo' = todo \ {f} /\ UNCHANGED pc
             \/ Fails("idle") /\ UNCHANGED backups
    BY <1>9 DEF RestoreFile
  <2>2. b \in backups[f] /\ ~Ahead(b.bytes)
    BY <2>1 DEF BackupOf, Inv, BytesInv
  <2>3. /\ pc = "restore" /\ UNCHANGED <<journal, jdisk, st, tx, edits>>
        /\ \A g \in Files : backups'[g] \subseteq backups[g]
        /\ \/ pc' = "idle"
           \/ pc' = "restore" /\ todo' = todo \ {f}
    BY <1>0, <1>9, <2>1 DEF RestoreFile, Fails, TypeOK
  <2>4. ActiveInv' /\ BackupsPresent'
    BY <1>1, <2>3, JournalFrame
  <2>5. JournalPast' /\ ApplyInv'
    BY <2>3 DEF AtomicInv, JournalPast, ApplyInv
  <2>6. LoopInv'
    <3>1. /\ journal # NoJournal /\ journal.prior = st.rev /\ journal.next = st.rev + 1
          /\ \A g \in Files : journal.new[g].by = "quota" /\ journal.new[g].n = journal.next
      BY <2>3 DEF Inv, PhaseInv, JournalInv
    <3>2. b.bytes # journal.new[f]
      BY <1>0, <2>2, <3>1 DEF Ahead
    <3>3. \A g \in Files : live'[g] = IF g = f THEN b.bytes ELSE live[g]
      BY <1>0, <2>1 DEF TypeOK
    <3>. QED  BY <1>1, <2>3, <3>1, <3>2, <3>3 DEF AtomicInv, LoopInv
  <2>. QED  BY <2>4, <2>5, <2>6 DEF AtomicInv
<1>10. ASSUME NEW f \in Files, RestoreFails(f)
       PROVE  AtomicInv'
  <2>1. pc' = "idle" /\ UNCHANGED disk /\ UNCHANGED edits
    BY <1>10 DEF RestoreFails, Fails
  <2>2. ActiveInv' /\ BackupsPresent'
    BY <1>1, <2>1, JournalFrame
  <2>3. JournalPast' /\ ApplyInv' /\ LoopInv'
    BY <2>1 DEF AtomicInv, JournalPast, ApplyInv, LoopInv
  <2>. QED  BY <2>2, <2>3 DEF AtomicInv
<1>11. CASE FinishRestore
  BY <1>5, <1>11 DEF FinishRestore, Inv, PhaseInv
<1>. QED
  BY <1>2, <1>3, <1>4, <1>6, <1>7, <1>8, <1>9, <1>10, <1>11 DEF Recover

\* The steps up to the write of the journal.
LEMMA AtomicPrepareTx ==
  ASSUME Inv, AtomicInv, TypeInv',
         \/ \E kind \in Kinds, t \in Targets, S \in SUBSET Files : Submit(kind, t, S)
         \/ \E f \in Files : TakeBackup(f) \/ BackupFails(f)
         \/ WriteJournal
  PROVE  AtomicInv'
<1> USE DEF Applying, disk
<1>0. TypeInv /\ TypeOK /\ st.rev \in Nat
  BY DEF Inv, TypeInv, TypeOK, States
<1>1. journal # NoJournal => journal \in Journals /\ journal.files \subseteq Files
  BY <1>0 DEF TypeOK, Journals
<1>2. ASSUME NEW kind \in Kinds, NEW t \in Targets, NEW S \in SUBSET Files, Submit(kind, t, S)
      PROVE  AtomicInv'
  <2> DEFINE n == NextState(kind)
  <2>1. /\ tx' = [next |-> n, target |-> t, files |-> S, old |-> live,
                  new |-> [f \in Files |-> QuotaBytes(n.rev, n.prov)],
                  seq |-> [f \in Files |-> 0], prior |-> st.rev,
                  noticeSet |-> kind \in Claiming]
        /\ n.rev = st.rev + 1 /\ n.own \in {st.own, st.rev + 1} /\ n.notice \in {st.notice, st.rev + 1}
    BY <1>2 DEF Submit, NextState
  <2>2. /\ pc = "ready" /\ pc' \in {"backup", "journal"} /\ todo' = S
        /\ (pc' = "journal" => S = {})
        /\ UNCHANGED <<disk, edits>>
    BY <1>2 DEF Submit
  <2> HIDE DEF n
  <2>3. /\ tx'.next = n /\ tx'.files = S /\ tx'.old = live
    BY <2>1
  <2>4. ApplyInv'
    <3>1. \A f \in Files : ~Ahead(live[f])
      BY <2>2 DEF Inv, PhaseInv
    <3>. QED  BY <2>1, <2>2, <2>3, <3>1 DEF ApplyInv, GivesBack, Ahead
  <2>5. ActiveInv' /\ BackupsPresent'
    BY <1>1, <2>2, JournalFrame
  <2>6. JournalPast' /\ LoopInv'
    BY <2>2 DEF AtomicInv, JournalPast, LoopInv, Active
  <2>. QED  BY <2>4, <2>5, <2>6 DEF AtomicInv
<1>3. ASSUME NEW f \in Files, TakeBackup(f)
      PROVE  AtomicInv'
  <2> DEFINE n == NextSeq(f)
             new == NewBackup(f)
  <2>1. /\ pc = "backup" /\ f \in todo /\ pc' \in {"backup", "journal"} /\ todo' = todo \ {f}
        /\ (pc' = "journal" => todo = {f}) /\ live[f] # Absent
        /\ UNCHANGED <<live, durable, journal, jdisk, st, edits>>
    BY <1>3 DEF TakeBackup, LoopStep
  <2>2. tx \in Transactions /\ todo \subseteq tx.files
    BY <1>0, <2>1 DEF TypeInv, TypeOK
  <2>3. new.seq = n /\ new.bytes = live[f] /\ \A b \in backups[f] : b.seq < n
    BY <1>0, NewBackupType
  <2>4. \A b \in backups[f] : b.seq \in Nat
    BY <1>0 DEF TypeOK
  <2>5. n \in Nat
    BY <1>0, NewBackupType
  <2>6. /\ backups' = [backups EXCEPT ![f] = Prune(@ \cup {new})]
        /\ tx' = [tx EXCEPT !.seq[f] = n]
    BY <1>3 DEF TakeBackup
  <2>7. Prune(backups[f] \cup {new}) \subseteq backups[f] \cup {new}
    BY DEF Prune
  <2> HIDE DEF n, new
  <2>8. /\ backups'[f] \subseteq backups[f] \cup {new}
        /\ \A g \in Files : g # f => backups'[g] = backups[g]
    BY <1>0, <2>6, <2>7 DEF TypeOK
  <2>9. /\ tx'.next = tx.next /\ tx'.files = tx.files /\ tx'.old = tx.old /\ tx'.seq[f] = n
        /\ \A g \in Files : g # f => tx'.seq[g] = tx.seq[g]
    BY <2>2, <2>6 DEF Transactions
  <2>10. GivesBack(live[f], tx.old[f])
    BY <2>1, <2>2 DEF AtomicInv, ApplyInv
  <2>11. ASSUME NEW g \in tx.files
         PROVE  IF pc' = "backup" /\ g \in todo'
                THEN GivesBack(live[g], tx.old[g])
                ELSE \A b \in backups'[g] : b.seq = tx'.seq[g] => GivesBack(b.bytes, tx.old[g])
    <3>1. g \in Files
      BY <2>2 DEF Transactions
    <3>2. CASE g = f
      BY <2>1, <2>3, <2>4, <2>5, <2>8, <2>9, <2>10, <3>2
    <3>3. CASE g # f
      BY <2>1, <2>8, <2>9, <3>1, <3>3 DEF AtomicInv, ApplyInv
    <3>. QED  BY <3>2, <3>3
  <2>12. ApplyInv'
    <3>1. /\ tx.next.own \in {st.own, tx.next.rev} /\ tx.next.notice \in {st.notice, tx.next.rev}
          /\ \A g \in Files : ~Ahead(tx.old[g])
      BY <2>1 DEF AtomicInv, ApplyInv
    <3>. QED  BY <2>1, <2>9, <2>11, <3>1 DEF ApplyInv, GivesBack, Ahead
  <2>13. JournalPast' /\ ActiveInv' /\ LoopInv'
    BY <2>1 DEF AtomicInv, JournalPast, ActiveInv, LoopInv, Active
  <2>14. BackupsPresent'
    BY <2>1, <2>3, <2>8 DEF AtomicInv, BackupsPresent
  <2>. QED  BY <2>12, <2>13, <2>14 DEF AtomicInv
<1>4. ASSUME NEW f \in Files, BackupFails(f)
      PROVE  AtomicInv'
  <2>1. /\ pc = "backup" /\ pc' = "failed"
        /\ UNCHANGED <<live, durable, journal, jdisk, st, tx, edits>>
        /\ \/ backups' = backups
           \/ live[f] # Absent /\ backups' = [backups EXCEPT ![f] = @ \cup {NewBackup(f)}]
    BY <1>4 DEF BackupFails, Fails
  <2>2. \A g \in Files : \A b \in backups'[g] : b \in backups[g] \/ (g = f /\ live[f] # Absent /\ b.bytes = live[f])
    BY <1>0, <2>1, NewBackupType DEF TypeOK
  <2>3. JournalPast' /\ ActiveInv' /\ LoopInv' /\ ApplyInv'
    BY <2>1 DEF AtomicInv, JournalPast, ActiveInv, LoopInv, ApplyInv, Active
  <2>4. BackupsPresent'
    BY <2>2 DEF AtomicInv, BackupsPresent
  <2>. QED  BY <2>3, <2>4 DEF AtomicInv
<1>5. CASE WriteJournal
  <2>1. /\ pc = "journal" /\ journal' \in {journal, JournalOf(tx)}
        /\ jdisk' = IF journal' = journal THEN jdisk ELSE journal'
        /\ UNCHANGED <<live, durable, backups, st, tx, edits>>
        /\ pc' \in {"prepare", "syncdir", "failed"}
        /\ (pc' = "syncdir" => tx.files = {})
    BY <1>5 DEF WriteJournal, Fails
  <2>2. /\ tx \in Transactions /\ tx.prior = st.rev /\ tx.next.rev = st.rev + 1
        /\ \A f \in Files : Seen(tx.old[f])
    BY <1>0, <2>1 DEF TypeInv, Inv, TxInv
  <2>3. CASE journal' = journal
    <3>1. ActiveInv' /\ BackupsPresent'
      BY <1>1, <2>1, <2>3, JournalFrame
    <3>2. JournalPast' /\ ApplyInv' /\ LoopInv'
      BY <2>1, <2>3 DEF AtomicInv, JournalPast, ApplyInv, LoopInv, GivesBack, Ahead, Active
    <3>. QED  BY <3>1, <3>2 DEF AtomicInv
  <2>4. CASE journal' = JournalOf(tx) /\ journal' # journal
    <3>1. /\ journal' # NoJournal /\ jdisk' = journal' /\ journal'.prior = st.rev
          /\ journal'.next = st.rev + 1 /\ journal'.files = tx.files
          /\ journal'.old = tx.old /\ journal'.seq = tx.seq
      BY <2>1, <2>2, <2>4, JournalOfFields
    <3>2. /\ journal'.own = tx.next.own /\ journal'.notice = tx.next.notice
      BY <2>4 DEF JournalOf
    <3>3. JournalPast'
      BY <1>0, <2>1, <3>1 DEF JournalPast
    <3>4. ActiveInv'
      BY <2>1, <2>2, <3>1, <3>2 DEF AtomicInv, ApplyInv, ActiveInv, BackupOf, Seen, Ahead
    <3>5. ApplyInv' /\ LoopInv' /\ BackupsPresent'
      BY <2>1 DEF AtomicInv, ApplyInv, LoopInv, BackupsPresent, GivesBack, Ahead
    <3>. QED  BY <3>3, <3>4, <3>5 DEF AtomicInv
  <2>. QED  BY <2>1, <2>3, <2>4
<1>. QED  BY <1>2, <1>3, <1>4, <1>5

\* The steps from the first comparison to the return.
LEMMA AtomicPublishing ==
  ASSUME Inv, AtomicInv, TypeInv',
         \/ \E f \in Files : Prepare(f) \/ PrepareFails(f) \/ RenameFile(f)
         \/ SyncDirs \/ RecordProgress \/ StepFails \/ Commit \/ RemoveJournal \/ Return
  PROVE  AtomicInv'
<1> USE DEF Applying, disk
<1>0. TypeInv /\ TypeOK /\ st.rev \in Nat
  BY DEF Inv, TypeInv, TypeOK, States
<1>1. journal # NoJournal => journal \in Journals /\ journal.files \subseteq Files
  BY <1>0 DEF TypeOK, Journals
<1>2. ASSUME NEW f \in Files, Prepare(f)
      PROVE  AtomicInv'
  <2>1. /\ pc = "prepare" /\ UNCHANGED <<disk, tx, edits>>
        /\ \/ pc' = "prepare"
           \/ pc' = "rename" /\ todo' = tx.files
    BY <1>2 DEF Prepare, LoopStep
  <2>2. ActiveInv' /\ BackupsPresent'
    BY <1>1, <2>1, JournalFrame
  <2>3. JournalPast' /\ ApplyInv' /\ LoopInv'
    BY <2>1 DEF AtomicInv, JournalPast, ApplyInv, LoopInv, GivesBack, Ahead
  <2>. QED  BY <2>2, <2>3 DEF AtomicInv
\* A step that fails, or that gives the lock back, ends the transaction.
<1>3. ASSUME pc' \in {"failed", "idle"}, UNCHANGED <<live, backups, journal, jdisk, st, edits>>
      PROVE  AtomicInv'
  <2>1. ActiveInv' /\ BackupsPresent'
    BY <1>1, <1>3, JournalFrame
  <2>2. JournalPast' /\ ApplyInv' /\ LoopInv'
    BY <1>3 DEF AtomicInv, JournalPast, ApplyInv, LoopInv
  <2>. QED  BY <2>1, <2>2 DEF AtomicInv
<1>4. ASSUME NEW f \in Files, PrepareFails(f)
      PROVE  AtomicInv'
  BY <1>3, <1>4 DEF PrepareFails, Fails
<1>5. ASSUME NEW f \in Files, RenameFile(f)
      PROVE  AtomicInv'
  <2>1. /\ pc = "rename" /\ f \in todo /\ live' = [live EXCEPT ![f] = tx.new[f]]
        /\ UNCHANGED <<backups, journal, jdisk, st, tx, edits>>
        /\ \/ pc' = "rename" /\ todo' = todo \ {f}
           \/ pc' = "syncdir" /\ todo = {f}
    BY <1>5 DEF RenameFile, LoopStep
  <2>2. ActiveInv' /\ BackupsPresent'
    BY <1>1, <2>1, JournalFrame
  <2>3. JournalPast' /\ ApplyInv'
    BY <2>1 DEF AtomicInv, JournalPast, ApplyInv, GivesBack, Ahead
  <2>4. LoopInv'
    <3>1. tx \in Transactions /\ tx.files \subseteq Files
      BY <1>0, <2>1 DEF TypeInv, Transactions
    <3>2. tx.new[f] # tx.old[f]
      BY <1>0, <2>1 DEF Inv, TxInv, AtomicInv, ApplyInv, Ahead
    <3>3. \A g \in Files : live'[g] = IF g = f THEN tx.new[f] ELSE live[g]
      BY <1>0, <2>1 DEF TypeOK
    <3>. QED  BY <2>1, <3>1, <3>2, <3>3 DEF AtomicInv, LoopInv
  <2>. QED  BY <2>2, <2>3, <2>4 DEF AtomicInv
<1>6. CASE SyncDirs \/ RecordProgress
  <2>1. /\ pc \in {"syncdir", "progress"} /\ pc' \in {"progress", "commit"}
        /\ UNCHANGED <<live, backups, journal, jdisk, st, tx, edits>>
    BY <1>6 DEF SyncDirs, RecordProgress
  <2>2. ActiveInv' /\ BackupsPresent'
    BY <1>1, <2>1, JournalFrame
  <2>3. JournalPast' /\ ApplyInv' /\ LoopInv'
    BY <2>1 DEF AtomicInv, JournalPast, ApplyInv, LoopInv, GivesBack, Ahead
  <2>. QED  BY <2>2, <2>3 DEF AtomicInv
<1>7. CASE StepFails
  BY <1>3, <1>7 DEF StepFails, Fails
<1>8. CASE Commit
  <2>1. /\ pc = "commit" /\ SaveState(tx.next, "remove", "failed")
        /\ UNCHANGED <<live, durable, backups, journal, jdisk, tx, edits>>
    BY <1>8 DEF Commit
  <2>2. tx.next \in States /\ tx.next.rev = st.rev + 1
    BY <1>0, <2>1 DEF TypeInv, Transactions, Inv, TxInv
  <2>3. /\ st' \in {st, tx.next} /\ pc' \in {"remove", "failed"}
        /\ st' # tx.next => pc' = "failed"
    BY <1>0, <2>1, <2>2, SaveStateType DEF Phases
  <2>4. CASE st' = st
    <3>1. st.rev # tx.next.rev
      BY <1>0, <2>2
    <3>. QED  BY <1>3, <2>1, <2>3, <2>4, <3>1
  <2>5. CASE st' = tx.next
    <3>1. ApplyInv' /\ LoopInv'
      BY <2>3 DEF ApplyInv, LoopInv
    <3>. QED  BY <2>1, <2>2, <2>5, <3>1, RevisionAdvances DEF AtomicInv
  <2>. QED  BY <2>3, <2>4, <2>5
<1>9. CASE RemoveJournal
  <2>1. journal # NoJournal /\ st.rev = journal.next
    BY <1>9 DEF RemoveJournal, Inv, PhaseInv
  <2>2. /\ pc' \in {"applied", "failed"} /\ journal' \in {journal, NoJournal}
        /\ UNCHANGED <<live, backups, jdisk, st, edits>>
    BY <1>0, <1>9, RemoveJournalType DEF RemoveJournal, Phases
  <2>3. JournalPast'
    <3>1. jdisk = journal /\ journal.next = journal.prior + 1 /\ journal.prior \in Nat
      BY <1>1, <2>1 DEF Inv, JournalInv, Journals
    <3>. QED  BY <1>0, <2>1, <2>2, <3>1 DEF JournalPast
  <2>4. ActiveInv' /\ ApplyInv' /\ LoopInv' /\ BackupsPresent'
    BY <2>1, <2>2 DEF AtomicInv, ActiveInv, ApplyInv, LoopInv, BackupsPresent, Active
  <2>. QED  BY <2>3, <2>4 DEF AtomicInv
<1>10. CASE Return
  BY <1>3, <1>10 DEF Return
<1>. QED  BY <1>2, <1>4, <1>5, <1>6, <1>7, <1>8, <1>9, <1>10

\* Saves without a journal, other writers, and the end of the process.
LEMMA AtomicOthers ==
  ASSUME Inv, AtomicInv, TypeInv',
         SaveObservation \/ NothingToDo \/ Environment \/ UNCHANGED vars
  PROVE  AtomicInv'
<1> USE DEF Applying, disk
<1>0. TypeInv /\ TypeOK /\ st.rev \in Nat
  BY DEF Inv, TypeInv, TypeOK, States
<1>1. journal # NoJournal => journal \in Journals /\ journal.files \subseteq Files
  BY <1>0 DEF TypeOK, Journals
<1>2. ASSUME pc' = "idle", UNCHANGED <<backups, journal, jdisk, st, edits>>
      PROVE  AtomicInv'
  <2>1. ActiveInv' /\ BackupsPresent'
    BY <1>1, <1>2, JournalFrame
  <2>2. JournalPast' /\ ApplyInv' /\ LoopInv'
    BY <1>2 DEF AtomicInv, JournalPast, ApplyInv, LoopInv
  <2>. QED  BY <2>1, <2>2 DEF AtomicInv
<1>3. CASE SaveObservation
  <2> DEFINE s == [st EXCEPT !.rev = @ + 1, !.prov = st.rev + 1]
  <2>1. s.rev = st.rev + 1
    BY <1>0 DEF TypeOK, States
  <2> HIDE DEF s
  <2>2. /\ st' \in {st, s} /\ pc' = "idle"
        /\ UNCHANGED <<live, durable, backups, journal, jdisk, tx, edits>>
    BY <1>3 DEF SaveObservation, SaveState, Fails, s
  <2>3. CASE st' = s
    <3>1. ApplyInv' /\ LoopInv'
      BY <2>2 DEF ApplyInv, LoopInv
    <3>. QED  BY <2>1, <2>2, <2>3, <3>1, RevisionAdvances DEF AtomicInv
  <2>. QED  BY <1>2, <2>2, <2>3
<1>4. CASE NothingToDo
  BY <1>2, <1>4 DEF NothingToDo
<1>5. ASSUME NEW f \in Files, NEW b \in {UserBytes(edits + 1), Absent}, UserWrite(f, b)
      PROVE  AtomicInv'
  <2>1. /\ live' = [live EXCEPT ![f] = b]
        /\ edits' = edits + 1 /\ edits \in Nat
        /\ UNCHANGED <<backups, journal, jdisk, st, pc, tx, todo>>
    BY <1>0, <1>5, PublisherAssumption DEF UserWrite, TypeOK
  <2>2. \A g \in Files : live'[g] = IF g = f THEN b ELSE live[g]
    BY <1>0, <2>1 DEF TypeOK
  <2>3. b.by # "quota" /\ (b.by = "user" => b.n = edits + 1) /\ (b.by # "user" => b = Absent)
    BY DEF UserBytes, Absent
  <2>4. JournalPast' /\ BackupsPresent'
    BY <2>1 DEF AtomicInv, JournalPast, BackupsPresent, Active
  <2>5. ActiveInv'
    <3>1. Active => \A g \in Files : journal.old[g] \in Bytes
      BY <1>1 DEF Active, Journals
    <3>2. \A c \in Bytes : Seen(c) => Seen(c)'
      BY <2>1 DEF Seen, Bytes
    <3>. QED  BY <2>1, <3>1, <3>2 DEF AtomicInv, ActiveInv, Active, BackupOf, Ahead
  <2>6. ApplyInv'
    BY <1>0, <2>1, <2>2, <2>3 DEF AtomicInv, ApplyInv, GivesBack, Ahead, TypeInv, Transactions
  <2>7. LoopInv'
    <3>1. pc = "restore" => \A g \in journal.files \ todo : live'[g] # journal.new[g]
      <4>1. pc = "restore" => \A g \in Files : journal.new[g].by = "quota"
        BY DEF Inv, PhaseInv, JournalInv
      <4>. QED  BY <1>1, <2>2, <2>3, <4>1 DEF AtomicInv, LoopInv, Inv, PhaseInv
    <3>2. ASSUME pc \in {"rename", "syncdir", "progress", "commit"}, NEW g \in tx.files
          PROVE  (pc = "rename" /\ g \in todo) \/ live'[g] # tx.old[g] \/ live'[g] = Absent
      <4>1. g \in Files /\ Seen(tx.old[g]) /\ tx.old[g].n \in Nat
        BY <1>0, <3>2 DEF TypeInv, Transactions, Bytes, Inv, TxInv
      <4>2. b = Absent \/ b # tx.old[g]
        BY <2>1, <2>3, <4>1 DEF Seen
      <4>. QED  BY <2>2, <3>2, <4>1, <4>2 DEF AtomicInv, LoopInv
    <3>. QED  BY <2>1, <3>1, <3>2 DEF AtomicInv, LoopInv
  <2>. QED  BY <2>4, <2>5, <2>6, <2>7 DEF AtomicInv
<1>6. CASE Kill
  BY <1>2, <1>6 DEF Kill
<1>7. CASE PowerLoss
  <2>1. /\ pc' = "idle" /\ UNCHANGED <<backups, st, edits>>
        /\ journal' \in {journal, jdisk} /\ jdisk' = journal'
    BY <1>7 DEF PowerLoss
  <2>2. journal # NoJournal => jdisk = journal
    BY DEF Inv, JournalInv
  <2>3. JournalPast' /\ ApplyInv' /\ LoopInv'
    BY <1>0, <2>1, <2>2 DEF AtomicInv, JournalPast, ApplyInv, LoopInv
  <2>4. ActiveInv' /\ BackupsPresent'
    <3>1. CASE journal = NoJournal
      <4>1. ~Active'
        <5>1. jdisk # NoJournal => jdisk.prior < st.rev /\ jdisk.prior \in Nat
          BY <1>0, <3>1 DEF AtomicInv, JournalPast, TypeOK, Journals
        <5>. QED  BY <1>0, <2>1, <3>1, <5>1 DEF Active
      <4>. QED  BY <2>1, <4>1 DEF AtomicInv, ActiveInv, BackupsPresent
    <3>2. CASE journal # NoJournal
      BY <1>1, <2>1, <2>2, <3>2, JournalFrame
    <3>. QED  BY <3>1, <3>2
  <2>. QED  BY <2>3, <2>4 DEF AtomicInv
<1>8. CASE UNCHANGED vars
  <2>1. ActiveInv' /\ BackupsPresent'
    BY <1>1, <1>8, JournalFrame DEF vars
  <2>2. JournalPast' /\ ApplyInv' /\ LoopInv'
    BY <1>8 DEF vars, AtomicInv, JournalPast, ApplyInv, LoopInv, GivesBack, Ahead, Active
  <2>. QED  BY <2>1, <2>2 DEF AtomicInv
<1>. QED  BY <1>3, <1>4, <1>5, <1>6, <1>7, <1>8 DEF Environment

\* Every step keeps what atomicity needs.
LEMMA AtomicNext == Inv /\ AtomicInv /\ [Next]_vars => AtomicInv'
<1> SUFFICES ASSUME Inv, AtomicInv, [Next]_vars PROVE AtomicInv'
  OBVIOUS
<1>1. TypeInv'
  BY TypeInvNext DEF Inv
<1>. QED
  BY <1>1, AtomicRecover, AtomicPrepareTx, AtomicPublishing, AtomicOthers DEF Next, ApplyUnderLock

\* The journal, the backups and the loops are as atomicity needs them, whatever
\* fails, dies or loses power.
THEOREM AtomicInvariant == Spec => []AtomicInv
<1>. QED  BY AtomicInit, AtomicNext, Invariant, PTL DEF Spec

-----------------------------------------------------------------------------
(***************************************************************************)
(* Publication is atomic: every step of the publisher and of recovery is,  *)
(* seen through the journal, a step of AtomicPublish or none.  A power     *)
(* loss is left out: it may bring back several overwritten edits at once,  *)
(* which is no single step of AtomicPublish.                               *)
(***************************************************************************)
NoPowerLoss == "power" \notin FaultKinds

\* Steps that change neither what the journal says nor the files.
LEMMA ViewFrame ==
  ASSUME UNCHANGED <<live, journal>>, st'.rev = st.rev, st'.own = st.own, st'.notice = st.notice
  PROVE  UNCHANGED Atomic!avars
<1>1. Batch' = Batch
  BY DEF Batch, Active
<1>2. View' = View
  BY <1>1 DEF View
<1>. QED  BY <1>1, <1>2 DEF Atomic!avars

\* Without a journal of use a reader sees the files as they are.
LEMMA ViewInactive ==
  ASSUME ~Active
  PROVE  Batch = {} /\ View = [f \in Files |-> live[f]]
BY DEF Batch, View

\* A step of AtomicPublish that gives up leaves the files.
LEMMA SavedAlone ==
  ASSUME ~Active, ~Active', UNCHANGED live, st'.rev = st.rev + 1, st'.own = st.own, st'.notice = st.notice
  PROVE  Atomic!Abandon
<1>1. Batch' = {} /\ View = View'
  BY DEF Batch, View
<1>. QED  BY <1>1 DEF Atomic!Abandon

\* Publishing the batch: a save of the revision the journal was written for,
\* with each of its files as the journal wants it or in others' hands.
LEMMA SavedWithBatch ==
  ASSUME Active, ~Active', UNCHANGED live, st'.rev = st.rev + 1,
         st'.own \in {st.own, st'.rev}, st'.notice \in {st.notice, st'.rev},
         \A f \in Files : journal.new[f].by = "quota" /\ journal.new[f].n = st.rev + 1,
         \A f \in journal.files : live[f] # journal.old[f] \/ live[f] = Absent
  PROVE  Atomic!Publish
<1>1. Batch' = {} /\ \A f \in Files : View'[f] = live[f]
  BY DEF Batch, View
<1>2. \A f \in Files : IF f \in Batch THEN live[f] = journal.new[f] ELSE View[f] = live[f]
  BY DEF Batch, View
<1>. QED  BY <1>1, <1>2 DEF Atomic!Publish

\* What others do to one file is an edit of that file, under a transaction or
\* without one, if the bytes are neither quota's nor those the journal found.
LEMMA EditedFile ==
  ASSUME NEW f \in Files, NEW b, live \in [Files -> Bytes], live' = [live EXCEPT ![f] = b],
         UNCHANGED <<journal, st>>, b.by # "quota",
         Active => /\ journal.files \subseteq Files
                   /\ journal.new[f].by = "quota"
                   /\ b = Absent \/ b # journal.old[f]
  PROVE  Atomic!Edit(f)
<1>1. \A g \in Files : live'[g] = IF g = f THEN b ELSE live[g]
  OBVIOUS
<1>2. Active' = Active
  BY DEF Active
<1>3. Batch' = Batch \ {f}
  <2>1. CASE Active
    BY <1>1, <1>2, <2>1 DEF Batch
  <2>2. CASE ~Active
    BY <1>2, <2>2 DEF Batch
  <2>. QED  BY <2>1, <2>2
<1>4. View'[f] = b /\ \A g \in Files \ {f} : View'[g] = View[g]
  BY <1>1, <1>3 DEF View
<1>. QED  BY <1>3, <1>4 DEF Atomic!Edit

\* Writing the bytes of the journal to one of its files shows nothing new, or
\* loses what someone wrote to it in the window.
LEMMA WrittenFile ==
  ASSUME NEW f \in Files, NEW b, live \in [Files -> Bytes], live' = [live EXCEPT ![f] = b],
         UNCHANGED <<journal, st>>, Active, f \in journal.files, journal.files \subseteq Files,
         b \in {journal.old[f], journal.new[f]}, b # Absent
  PROVE  Atomic!LoseEdit(f) \/ UNCHANGED Atomic!avars
<1>1. \A g \in Files : live'[g] = IF g = f THEN b ELSE live[g]
  OBVIOUS
<1>2. Active'
  BY DEF Active
<1>3. Batch' = Batch \cup {f}
  BY <1>1, <1>2 DEF Batch
<1>4. View'[f] = journal.old[f] /\ \A g \in Files \ {f} : View'[g] = View[g]
  BY <1>1, <1>3 DEF View
<1>5. CASE f \in Batch
  <2>1. View[f] = journal.old[f]
    BY <1>5 DEF View
  <2>2. Batch' = Batch
    BY <1>3, <1>5
  <2>3. View' = View
    BY <1>4, <2>1 DEF View
  <2>. QED  BY <2>2, <2>3 DEF Atomic!avars
<1>6. CASE f \notin Batch
  BY <1>3, <1>4, <1>6 DEF Atomic!LoseEdit
<1>. QED  BY <1>5, <1>6

\* Recovery publishes the whole batch or none of it.
LEMMA RecoverRefines ==
  ASSUME Inv, AtomicInv, Begin \/ Recover
  PROVE  [Atomic!Next]_Atomic!avars
<1>0. TypeOK /\ st.rev \in Nat /\ live \in [Files -> Bytes]
  BY DEF Inv, TypeInv, TypeOK, States
<1>1. journal # NoJournal =>
        /\ journal \in Journals /\ journal.files \subseteq Files
        /\ journal.next = journal.prior + 1
        /\ \A f \in Files : journal.new[f].by = "quota" /\ journal.new[f].n = journal.next
  BY <1>0 DEF TypeOK, Journals, Inv, JournalInv
<1>2. CASE \/ Begin \/ RecoverNoop \/ RecoverStale \/ BeginRestore
           \/ \E f \in Files : RestoreFails(f)
  BY <1>2, ViewFrame DEF Begin, RecoverNoop, RecoverStale, BeginRestore, RestoreFails, disk
<1>3. CASE RecoverCommitted \/ CleanupJournal
  <2>1. journal # NoJournal /\ st.rev = journal.next
    BY <1>3 DEF RecoverCommitted, CleanupJournal, Inv, PhaseInv
  <2>2. journal' \in {journal, NoJournal} /\ UNCHANGED <<live, st>>
    BY <1>3 DEF RecoverCommitted, CleanupJournal, RemoveJournalFile
  <2>3. ~Active /\ ~Active'
    BY <2>1, <2>2 DEF Active
  <2>. QED  BY <2>2, <2>3 DEF Atomic!avars, View, Batch
<1>4. CASE RollForward
  <2>1. /\ journal # NoJournal /\ journal.prior = st.rev /\ st.rev # journal.next
        /\ \A f \in journal.files : live[f] = journal.new[f]
        /\ SaveState(AdvanceState(TRUE), "recovered", "idle")
        /\ UNCHANGED <<live, journal>>
    BY <1>4 DEF RollForward, InDoubt, AllIntendedPresent
  <2>2. Active
    BY <2>1 DEF Active
  <2>3. CASE st' = st
    BY <2>1, <2>3, ViewFrame
  <2>4. CASE st' = AdvanceState(TRUE)
    <3>1. /\ st'.rev = st.rev + 1
          /\ st'.own \in {st.own, st'.rev} /\ st'.notice \in {st.notice, st'.rev}
      BY <1>1, <2>1, <2>2, <2>4 DEF AdvanceState, AtomicInv, ActiveInv
    <3>2. \A f \in journal.files : live[f] # journal.old[f]
      BY <1>0, <1>1, <2>1, <2>2 DEF AtomicInv, ActiveInv, Ahead
    <3>3. ~Active'
      BY <1>0, <1>1, <2>1, <3>1 DEF Active
    <3>4. Atomic!Publish
      BY <1>1, <2>1, <2>2, <3>1, <3>2, <3>3, SavedWithBatch
    <3>. QED  BY <3>4 DEF Atomic!Next
  <2>. QED  BY <2>1, <2>3, <2>4 DEF SaveState
<1>5. CASE RefuseExternal
  <2> DEFINE s == [st EXCEPT !.tgt[journal.target].attempted = journal.next,
                             !.tgt[journal.target].pending = "recover"]
  <2>1. s.rev = st.rev /\ s.own = st.own /\ s.notice = st.notice
    BY <1>0 DEF TypeOK, States
  <2> HIDE DEF s
  <2>2. st' \in {st, s} /\ UNCHANGED <<live, journal>>
    BY <1>5 DEF RefuseExternal, SaveState, Fails, s
  <2>. QED  BY <2>1, <2>2, ViewFrame
<1>6. ASSUME NEW f \in Files, RestoreFile(f)
      PROVE  [Atomic!Next]_Atomic!avars
  <2>1. PICK b \in BackupOf(f) : live' = [live EXCEPT ![f] = b.bytes]
    BY <1>6 DEF RestoreFile
  <2>2. pc = "restore" /\ f \in todo /\ UNCHANGED <<journal, st>>
    BY <1>6 DEF RestoreFile
  <2>3. Active /\ f \in journal.files
    BY <1>0, <1>1, <2>2 DEF Inv, PhaseInv, AtomicInv, LoopInv, Active
  <2>4. b.bytes # Absent /\ GivesBack(b.bytes, journal.old[f])
    BY <2>1, <2>3 DEF AtomicInv, BackupsPresent, ActiveInv, BackupOf
  <2>5. CASE b.bytes = journal.old[f]
    BY <1>0, <1>1, <2>1, <2>2, <2>3, <2>4, <2>5, WrittenFile DEF Active, Atomic!Next
  <2>6. CASE b.bytes # journal.old[f] /\ b.bytes.by # "quota"
    <3>1. Atomic!Edit(f)
      BY <1>0, <1>1, <2>1, <2>2, <2>3, <2>6, EditedFile DEF Active
    <3>. QED  BY <3>1 DEF Atomic!Next
  <2>. QED  BY <2>4, <2>5, <2>6 DEF GivesBack
<1>7. CASE FinishRestore
  <2>1. /\ journal # NoJournal /\ journal.prior = st.rev
        /\ \A f \in journal.files : live[f] # journal.new[f]
        /\ SaveState(AdvanceState(FALSE), "recovered", "idle")
        /\ UNCHANGED <<live, journal>>
    BY <1>7 DEF FinishRestore, Inv, PhaseInv, AtomicInv, LoopInv
  <2>2. CASE st' = st
    BY <2>1, <2>2, ViewFrame
  <2>3. CASE st' = AdvanceState(FALSE)
    <3>1. st'.rev = st.rev + 1 /\ st'.own = st.own /\ st'.notice = st.notice
      BY <1>1, <2>1, <2>3 DEF AdvanceState
    <3>2. ~Active'
      BY <1>0, <1>1, <2>1, <3>1 DEF Active
    <3>3. \A f \in Batch : live[f] = journal.old[f]
      BY <2>1 DEF Batch
    <3>4. View = View' /\ Batch' = {}
      BY <2>1, <3>2, <3>3 DEF View, Batch
    <3>. QED  BY <3>1, <3>4 DEF Atomic!Next, Atomic!Abandon
  <2>. QED  BY <2>1, <2>2, <2>3 DEF SaveState
<1>. QED  BY <1>2, <1>3, <1>4, <1>5, <1>6, <1>7 DEF Recover

\* Applying a target accepts a batch when the journal is written, and publishes
\* it when state.json is saved.
LEMMA ApplyRefines ==
  ASSUME Inv, AtomicInv, ApplyUnderLock
  PROVE  [Atomic!Next]_Atomic!avars
<1>0. TypeOK /\ st.rev \in Nat /\ live \in [Files -> Bytes]
  BY DEF Inv, TypeInv, TypeOK, States
<1>1. CASE \/ \E f \in Files : TakeBackup(f) \/ BackupFails(f) \/ Prepare(f) \/ PrepareFails(f)
           \/ SyncDirs \/ RecordProgress \/ StepFails
  BY <1>1, ViewFrame
  DEF TakeBackup, BackupFails, Prepare, PrepareFails, SyncDirs, RecordProgress, StepFails, disk
<1>2. ASSUME pc \in Journaled
      PROVE  /\ tx \in Transactions /\ tx.files \subseteq Files /\ tx.next.rev = st.rev + 1
             /\ Active /\ journal.next = st.rev + 1 /\ journal.files = tx.files
             /\ journal.old = tx.old /\ journal.new = tx.new
             /\ \A f \in Files : journal.new[f].by = "quota" /\ journal.new[f].n = st.rev + 1
  <2>1. /\ pc \in Applying /\ tx \in Transactions /\ journal = JournalOf(tx)
        /\ tx.prior = st.rev /\ tx.next.rev = st.rev + 1
        /\ \A f \in Files : tx.new[f].by = "quota" /\ tx.new[f].n = st.rev + 1
    BY <1>2 DEF Inv, TypeInv, TxInv, Applying, Journaled
  <2>. QED  BY <1>0, <2>1, JournalOfFields DEF Active, Transactions
<1>3. CASE WriteJournal
  <2>1. /\ pc = "journal" /\ journal' \in {journal, JournalOf(tx)} /\ UNCHANGED <<live, st>>
    BY <1>3 DEF WriteJournal
  <2>2. CASE journal' = journal
    BY <2>1, <2>2, ViewFrame
  <2>3. CASE journal' = JournalOf(tx)
    <3>1. /\ tx \in Transactions /\ \A f \in Files : ~Ahead(live[f])
          /\ tx.next.rev = st.rev + 1 /\ ~Active
          /\ \A f \in Files : tx.new[f].by = "quota" /\ tx.new[f].n = st.rev + 1
      BY <2>1 DEF Inv, TypeInv, TxInv, PhaseInv, AtomicInv, JournalPast, Applying
    <3>2. journal'.files \subseteq Files /\ journal'.new = tx.new
      BY <2>3, <3>1, JournalOfFields DEF Transactions
    <3>3. \A f \in Batch' : live[f] = journal'.old[f]
      BY <1>0, <2>1, <3>1, <3>2 DEF Batch, Ahead
    <3>4. View' = View /\ Batch = {} /\ Batch' \subseteq Files
      BY <2>1, <3>1, <3>2, <3>3 DEF View, Batch
    <3>. QED  BY <2>1, <3>4 DEF Atomic!Next, Atomic!Accept
  <2>. QED  BY <2>1, <2>2, <2>3
<1>4. ASSUME NEW f \in Files, RenameFile(f)
      PROVE  [Atomic!Next]_Atomic!avars
  <2>1. /\ pc = "rename" /\ f \in todo /\ live' = [live EXCEPT ![f] = tx.new[f]]
        /\ UNCHANGED <<journal, st>>
    BY <1>4 DEF RenameFile, LoopStep
  <2>2. f \in tx.files /\ tx.new[f].by # Absent.by
    BY <1>2, <2>1 DEF Inv, TypeInv, Applying, Journaled, Absent
  <2>. QED
    BY <1>0, <1>2, <2>1, <2>2, WrittenFile DEF Journaled, Active, Atomic!Next
<1>5. CASE Commit
  <2>1. pc = "commit" /\ SaveState(tx.next, "remove", "failed") /\ UNCHANGED <<live, journal>>
    BY <1>5 DEF Commit
  <2>2. CASE st' = st
    BY <2>1, <2>2, ViewFrame
  <2>3. CASE st' = tx.next
    <3>1. /\ st'.rev = st.rev + 1
          /\ st'.own \in {st.own, st'.rev} /\ st'.notice \in {st.notice, st'.rev}
          /\ \A f \in journal.files : live[f] # journal.old[f] \/ live[f] = Absent
      BY <1>2, <2>1, <2>3 DEF AtomicInv, ApplyInv, LoopInv, Applying, Journaled
    <3>2. ~Active'
      BY <1>2, <2>1, <3>1 DEF Active, Journaled
    <3>3. Atomic!Publish
      BY <1>2, <2>1, <3>1, <3>2, SavedWithBatch DEF Journaled
    <3>. QED  BY <3>3 DEF Atomic!Next
  <2>. QED  BY <2>1, <2>2, <2>3 DEF SaveState
<1>6. CASE RemoveJournal
  <2>1. journal # NoJournal /\ st.rev = journal.next
    BY <1>6 DEF RemoveJournal, Inv, PhaseInv
  <2>2. journal' \in {journal, NoJournal} /\ UNCHANGED <<live, st>>
    BY <1>6 DEF RemoveJournal, RemoveJournalFile
  <2>3. ~Active /\ ~Active'
    BY <2>1, <2>2 DEF Active
  <2>. QED  BY <2>2, <2>3 DEF Atomic!avars, View, Batch
<1>. QED  BY <1>1, <1>3, <1>4, <1>5, <1>6 DEF ApplyUnderLock

\* The other steps: a save without a journal publishes an empty batch, and
\* whoever writes a file takes it out of the batch.
LEMMA OthersRefine ==
  ASSUME Inv, AtomicInv, NoPowerLoss,
         \/ Return \/ SaveObservation \/ NothingToDo \/ Environment \/ UNCHANGED vars
         \/ \E kind \in Kinds, t \in Targets, S \in SUBSET Files : Submit(kind, t, S)
  PROVE  [Atomic!Next]_Atomic!avars
<1>0. TypeOK /\ st.rev \in Nat /\ live \in [Files -> Bytes]
  BY DEF Inv, TypeInv, TypeOK, States
<1>1. CASE \/ Return \/ NothingToDo \/ Kill \/ UNCHANGED vars
           \/ \E kind \in Kinds, t \in Targets, S \in SUBSET Files : Submit(kind, t, S)
  BY <1>1, ViewFrame DEF Return, NothingToDo, Kill, Submit, disk, vars
<1>2. CASE SaveObservation
  <2> DEFINE s == [st EXCEPT !.rev = @ + 1, !.prov = st.rev + 1]
  <2>1. s.rev = st.rev + 1 /\ s.own = st.own /\ s.notice = st.notice
    BY <1>0 DEF TypeOK, States
  <2> HIDE DEF s
  <2>2. st' \in {st, s} /\ pc = "ready" /\ UNCHANGED <<live, backups, journal, jdisk>>
    BY <1>2 DEF SaveObservation, SaveState, Fails, s
  <2>3. ~Active
    BY <2>2 DEF AtomicInv, JournalPast
  <2>4. CASE st' = st
    BY <2>2, <2>4, ViewFrame
  <2>5. CASE st' = s
    <3>1. ~Active'
      BY <2>1, <2>2, <2>5, RevisionAdvances
    <3>. QED  BY <2>1, <2>2, <2>3, <2>5, <3>1, SavedAlone DEF Atomic!Next
  <2>. QED  BY <2>2, <2>4, <2>5
<1>3. ASSUME NEW f \in Files, NEW b \in {UserBytes(edits + 1), Absent}, UserWrite(f, b)
      PROVE  [Atomic!Next]_Atomic!avars
  <2>1. live' = [live EXCEPT ![f] = b] /\ UNCHANGED <<journal, st>> /\ edits \in Nat
    BY <1>0, <1>3, PublisherAssumption DEF UserWrite, TypeOK
  <2>2. b.by # "quota" /\ (b = Absent \/ (b.by = "user" /\ b.n = edits + 1))
    BY DEF UserBytes, Absent
  <2>3. Active => /\ journal.files \subseteq Files /\ journal.new[f].by = "quota"
                  /\ b = Absent \/ b # journal.old[f]
    <3>1. SUFFICES ASSUME Active
                   PROVE  /\ journal.files \subseteq Files /\ journal.new[f].by = "quota"
                          /\ b = Absent \/ b # journal.old[f]
      OBVIOUS
    <3>2. /\ journal \in Journals /\ journal.new[f].by = "quota"
          /\ Seen(journal.old[f]) /\ journal.old[f].n \in Nat
      BY <1>0, <3>1 DEF Active, TypeOK, Inv, JournalInv, AtomicInv, ActiveInv, Journals, Bytes
    <3>. QED  BY <2>1, <2>2, <3>2 DEF Seen, Journals
  <2>4. Atomic!Edit(f)
    BY <1>0, <2>1, <2>2, <2>3, EditedFile
  <2>. QED  BY <2>4 DEF Atomic!Next
<1>4. ~PowerLoss
  BY DEF NoPowerLoss, PowerLoss, Fault
<1>. QED  BY <1>1, <1>2, <1>3, <1>4 DEF Environment

\* The batch, the revision, the ownership claim and the notice debt change
\* together or not at all, whatever step fails and whenever the process dies.
THEOREM PublicationIsAtomic == NoPowerLoss => (Spec => AtomicSpec)
<1> SUFFICES ASSUME NoPowerLoss PROVE Spec => AtomicSpec
  OBVIOUS
<1>1. Init => Atomic!Init
  BY DEF Init, Atomic!Init, Batch, Active
<1>2. Inv /\ AtomicInv /\ [Next]_vars => [Atomic!Next]_Atomic!avars
  <2> SUFFICES ASSUME Inv, AtomicInv, [Next]_vars PROVE [Atomic!Next]_Atomic!avars
    OBVIOUS
  <2>. QED  BY RecoverRefines, ApplyRefines, OthersRefine DEF Next
<1>. QED  BY <1>1, <1>2, Invariant, AtomicInvariant, PTL DEF Spec, AtomicSpec, Atomic!Spec

-----------------------------------------------------------------------------
(***************************************************************************)
(* What a power loss leaves.  The renames are synced together, after the   *)
(* last of them, and roll-forward syncs nothing: a transaction that stops  *)
(* in between leaves files that recovery takes for published and a power   *)
(* loss takes back.  Whoever does not stop there has synced files.         *)
(***************************************************************************)
SyncedWindows ==
  FaultKinds \subseteq {"power"} \/ FaultAt \cap {"rename", "syncdir", "restore"} = {}

\* Only a renamed file whose directory is still to be synced shows other bytes
\* than a power loss would leave.
DurableInv ==
  \A f \in Files : durable[f] # live[f] =>
    pc \in {"rename", "syncdir"} /\ f \in tx.files /\ ~(pc = "rename" /\ f \in todo)

\* Every step that does not stop in the window keeps files synced.
LEMMA DurableNext == SyncedWindows /\ Inv /\ DurableInv /\ [Next]_vars => DurableInv'
<1> SUFFICES ASSUME SyncedWindows, Inv, DurableInv, [Next]_vars PROVE DurableInv'
  OBVIOUS
<1>0. TypeOK
  BY DEF Inv, TypeInv
<1>1. pc \in {"rename", "syncdir", "restore"} => ~Fault("error") /\ ~Fault("kill")
  BY DEF SyncedWindows, Fault
<1>2. ASSUME UNCHANGED <<live, durable>>, pc \notin {"rename", "syncdir"}
      PROVE  DurableInv'
  BY <1>2 DEF DurableInv
<1>3. CASE Begin \/ RecoverNoop \/ RecoverCommitted \/ RecoverStale \/ RollForward
           \/ RefuseExternal \/ BeginRestore \/ FinishRestore \/ CleanupJournal
  BY <1>2, <1>3 DEF Begin, RecoverNoop, RecoverCommitted, RecoverStale, RollForward, InDoubt,
     RefuseExternal, BeginRestore, FinishRestore, CleanupJournal, disk
<1>4. ASSUME NEW f \in Files, RestoreFile(f)
      PROVE  DurableInv'
  <2>1. PICK b \in BackupOf(f) : /\ live' = [live EXCEPT ![f] = b.bytes]
                                 /\ durable' = [durable EXCEPT ![f] = b.bytes]
    BY <1>1, <1>4 DEF RestoreFile, Fails
  <2>2. pc = "restore"
    BY <1>4 DEF RestoreFile
  <2>3. \A g \in Files : \/ live'[g] = b.bytes /\ durable'[g] = b.bytes
                         \/ live'[g] = live[g] /\ durable'[g] = durable[g]
    BY <1>0, <2>1 DEF TypeOK
  <2>. QED  BY <2>2, <2>3 DEF DurableInv
<1>5. ASSUME NEW f \in Files, \/ RestoreFails(f) \/ TakeBackup(f) \/ BackupFails(f)
                              \/ Prepare(f) \/ PrepareFails(f)
      PROVE  DurableInv'
  BY <1>2, <1>5 DEF RestoreFails, TakeBackup, BackupFails, Prepare, PrepareFails, disk
<1>6. ASSUME NEW f \in Files, RenameFile(f)
      PROVE  DurableInv'
  <2>1. /\ pc = "rename" /\ f \in todo /\ live' = [live EXCEPT ![f] = tx.new[f]]
        /\ UNCHANGED <<durable, tx>>
        /\ \/ pc' = "rename" /\ todo' = todo \ {f}
           \/ pc' = "syncdir" /\ todo = {f}
    BY <1>6 DEF RenameFile, LoopStep
  <2>2. f \in tx.files
    BY <2>1 DEF Inv, TypeInv, Applying
  <2>3. \A g \in Files : g # f => live'[g] = live[g]
    BY <1>0, <2>1 DEF TypeOK
  <2>. QED  BY <2>1, <2>2, <2>3 DEF DurableInv
<1>7. CASE SyncDirs
  <2>1. /\ pc = "syncdir" /\ UNCHANGED <<live, tx>>
        /\ durable' = [f \in Files |-> IF f \in tx.files THEN live[f] ELSE durable[f]]
    BY <1>7 DEF SyncDirs
  <2>2. \A f \in Files : durable'[f] = live'[f]
    BY <2>1 DEF DurableInv
  <2>. QED  BY <2>2 DEF DurableInv
<1>8. CASE StepFails
  <2>1. pc = "progress"
    BY <1>1, <1>8 DEF StepFails, Fails
  <2>. QED  BY <1>2, <1>8, <2>1 DEF StepFails, disk
<1>9. CASE WriteJournal \/ RecordProgress \/ Commit \/ RemoveJournal \/ Return \/ SaveObservation
           \/ NothingToDo \/ \E kind \in Kinds, t \in Targets, S \in SUBSET Files : Submit(kind, t, S)
  BY <1>2, <1>9 DEF WriteJournal, RecordProgress, Commit, RemoveJournal, Return, SaveObservation,
     NothingToDo, Submit, disk
<1>10. ASSUME NEW f \in Files, NEW b \in {UserBytes(edits + 1), Absent}, UserWrite(f, b)
       PROVE  DurableInv'
  <2>1. /\ live' = [live EXCEPT ![f] = b] /\ durable' = [durable EXCEPT ![f] = b]
        /\ UNCHANGED <<pc, tx, todo>>
    BY <1>10 DEF UserWrite
  <2>2. \A g \in Files : \/ live'[g] = b /\ durable'[g] = b
                         \/ live'[g] = live[g] /\ durable'[g] = durable[g]
    BY <1>0, <2>1 DEF TypeOK
  <2>. QED  BY <2>1, <2>2 DEF DurableInv
<1>11. CASE Kill
  <2>1. pc \notin {"rename", "syncdir"}
    BY <1>1, <1>11 DEF Kill
  <2>. QED  BY <1>2, <1>11, <2>1 DEF Kill, disk
<1>12. CASE PowerLoss
  BY <1>12 DEF PowerLoss, DurableInv
<1>13. CASE UNCHANGED vars
  BY <1>13 DEF vars, DurableInv
<1>. QED
  BY <1>3, <1>4, <1>5, <1>6, <1>7, <1>8, <1>9, <1>10, <1>11, <1>12, <1>13
  DEF Next, Recover, ApplyUnderLock, Environment

\* With the lock free and no journal left, a power loss changes no managed file,
\* unless a transaction was stopped between its renames and their sync.
THEOREM CommittedBytesDurableHolds == SyncedWindows => (Spec => []CommittedBytesDurable)
<1> SUFFICES ASSUME SyncedWindows PROVE Spec => []CommittedBytesDurable
  OBVIOUS
<1>1. Init => DurableInv
  BY DEF Init, DurableInv
<1>2. Inv /\ DurableInv /\ [Next]_vars => DurableInv'
  BY DurableNext
<1>3. Inv /\ DurableInv => CommittedBytesDurable
  <2> SUFFICES ASSUME Inv, DurableInv, pc = "idle" PROVE durable = live
    BY DEF CommittedBytesDurable
  <2>1. live \in [Files -> Bytes] /\ durable \in [Files -> Bytes]
    BY DEF Inv, TypeInv, TypeOK
  <2>2. \A f \in Files : durable[f] = live[f]
    BY DEF DurableInv
  <2>. QED  BY <2>1, <2>2
<1>. QED  BY <1>1, <1>2, <1>3, Invariant, PTL DEF Spec

-----------------------------------------------------------------------------
(***************************************************************************)
(* Edits by others.  What is between a comparison of a live file and the   *)
(* write it allows is open to them; where no one writes there, quota       *)
(* overwrites only bytes it has seen.                                      *)
(***************************************************************************)
NoEditInWindows == EditAt \cap {"prepare", "rename", "restore"} = {}

\* A file that was compared, and is still to be written, is as it was compared.
ComparedInv ==
  /\ pc = "prepare" => \A f \in tx.files \ todo : live[f] = tx.old[f]
  /\ pc = "rename" => \A f \in todo : live[f] = tx.old[f]
  /\ pc = "restore" => \A f \in todo : LiveBytesKnown(f)

\* Without writes in the windows, what was compared stays as it was.
LEMMA ComparedNext == NoEditInWindows /\ Inv /\ ComparedInv /\ [Next]_vars => ComparedInv'
<1> SUFFICES ASSUME NoEditInWindows, Inv, ComparedInv, [Next]_vars PROVE ComparedInv'
  OBVIOUS
<1>0. TypeOK
  BY DEF Inv, TypeInv
<1>1. ASSUME pc' \notin {"prepare", "rename", "restore"}
      PROVE  ComparedInv'
  BY <1>1 DEF ComparedInv
<1>2. CASE Begin \/ RecoverNoop \/ RecoverCommitted \/ RecoverStale \/ RollForward
           \/ RefuseExternal \/ FinishRestore \/ CleanupJournal
  <2>1. pc' \in {"recover", "ready", "idle", "recovered"}
    BY <1>2 DEF Begin, RecoverNoop, RecoverCommitted, RecoverStale, RollForward, RefuseExternal,
       FinishRestore, CleanupJournal, SaveState, RemoveJournalFile, Fails
  <2>. QED  BY <1>1, <2>1
<1>3. CASE BeginRestore
  <2>1. pc' = "restore" /\ todo' = journal.files /\ UNCHANGED disk
        /\ \A f \in journal.files : LiveBytesKnown(f)
    BY <1>3 DEF BeginRestore
  <2>. QED  BY <2>1 DEF ComparedInv, LiveBytesKnown, disk
<1>4. ASSUME NEW f \in Files, RestoreFile(f)
      PROVE  ComparedInv'
  <2>1. PICK b \in BackupOf(f) : /\ live' = [live EXCEPT ![f] = b.bytes]
                                 /\ \/ todo' = todo \ {f} /\ UNCHANGED pc
                                    \/ pc' = "idle"
    BY <1>4 DEF RestoreFile, Fails
  <2>2. pc = "restore" /\ UNCHANGED journal /\ todo \subseteq Files
    BY <1>0, <1>4 DEF RestoreFile, TypeOK
  <2>3. \A g \in Files : g # f => live'[g] = live[g]
    BY <1>0, <2>1 DEF TypeOK
  <2>. QED  BY <2>1, <2>2, <2>3 DEF ComparedInv, LiveBytesKnown
<1>5. ASSUME NEW f \in Files, RestoreFails(f) \/ TakeBackup(f) \/ BackupFails(f) \/ PrepareFails(f)
      PROVE  ComparedInv'
  <2>1. pc' \in {"idle", "backup", "journal", "failed"}
    BY <1>5 DEF RestoreFails, TakeBackup, LoopStep, BackupFails, PrepareFails, Fails
  <2>. QED  BY <1>1, <2>1
<1>6. CASE WriteJournal
  BY <1>1, <1>6 DEF WriteJournal, Fails, ComparedInv
<1>7. ASSUME NEW f \in Files, Prepare(f)
      PROVE  ComparedInv'
  <2>1. /\ pc = "prepare" /\ live[f] = tx.old[f] /\ f \in todo /\ UNCHANGED <<live, tx>>
        /\ \/ pc' = "prepare" /\ todo' = todo \ {f}
           \/ pc' = "rename" /\ todo' = tx.files /\ todo = {f}
    BY <1>7 DEF Prepare, LoopStep, disk
  <2>. QED  BY <2>1 DEF ComparedInv
<1>8. ASSUME NEW f \in Files, RenameFile(f)
      PROVE  ComparedInv'
  <2>1. /\ pc = "rename" /\ live' = [live EXCEPT ![f] = tx.new[f]] /\ UNCHANGED tx
        /\ \/ pc' = "rename" /\ todo' = todo \ {f}
           \/ pc' = "syncdir"
    BY <1>8 DEF RenameFile, LoopStep
  <2>2. todo \subseteq Files /\ \A g \in Files : g # f => live'[g] = live[g]
    BY <1>0, <2>1 DEF TypeOK
  <2>. QED  BY <2>1, <2>2 DEF ComparedInv
<1>9. CASE SyncDirs \/ RecordProgress \/ StepFails \/ Commit \/ RemoveJournal \/ Return
           \/ SaveObservation \/ NothingToDo \/ Kill \/ PowerLoss
  <2>1. pc' \in {"progress", "commit", "failed", "remove", "applied", "idle"}
    BY <1>9 DEF SyncDirs, RecordProgress, StepFails, Commit, RemoveJournal, Return,
       SaveObservation, NothingToDo, Kill, PowerLoss, SaveState, RemoveJournalFile, Fails
  <2>. QED  BY <1>1, <2>1
<1>10. ASSUME NEW kind \in Kinds, NEW t \in Targets, NEW S \in SUBSET Files, Submit(kind, t, S)
       PROVE  ComparedInv'
  BY <1>1, <1>10 DEF Submit
<1>11. ASSUME NEW f \in Files, NEW b, UserWrite(f, b)
       PROVE  ComparedInv'
  BY <1>1, <1>11 DEF UserWrite, NoEditInWindows
<1>12. CASE UNCHANGED vars
  BY <1>12 DEF vars, ComparedInv, LiveBytesKnown
<1>. QED
  BY <1>2, <1>3, <1>4, <1>5, <1>6, <1>7, <1>8, <1>9, <1>10, <1>11, <1>12
  DEF Next, Recover, ApplyUnderLock, Environment

\* No edit is overwritten but one made in the window between quota's look at
\* the file and its write: a rename replaces the bytes the candidate was
\* compared with, a restore only bytes the journal accounts for.
THEOREM EditsRespectedHolds == NoEditInWindows => (Spec => EditsRespected)
<1> SUFFICES ASSUME NoEditInWindows PROVE Spec => EditsRespected
  OBVIOUS
<1>1. Init => ComparedInv
  BY DEF Init, ComparedInv
<1>2. Inv /\ ComparedInv /\ [Next]_vars => ComparedInv'
  BY ComparedNext
<1>3. ComparedInv /\ [Next]_vars =>
        [\A f \in Files : /\ RenameFile(f) => live[f] = tx.old[f]
                          /\ RestoreFile(f) => LiveBytesKnown(f)]_vars
  BY DEF ComparedInv, RenameFile, RestoreFile, LoopStep
<1>. QED  BY <1>1, <1>2, <1>3, Invariant, PTL DEF Spec, EditsRespected

-----------------------------------------------------------------------------
(***************************************************************************)
(* Stale journals.  A save without a journal moves the revision past one   *)
(* whose removal failed, or whose removal a power loss undoes.  Where      *)
(* recovery's removals do not fail, it never meets one.                    *)
(***************************************************************************)
RecoveryRemoves == "error" \notin FaultKinds \/ FaultAt \cap {"recover", "recovered"} = {}

\* The revision does not advance over a journal.
StaleInv ==
  /\ JournalNeverStale
  /\ pc \in {"ready", "backup", "journal"} => journal = NoJournal

\* While recovery's removals succeed, no revision passes a journal.
LEMMA StaleNext == NoPowerLoss /\ RecoveryRemoves /\ Inv /\ StaleInv /\ [Next]_vars => StaleInv'
<1> SUFFICES ASSUME NoPowerLoss, RecoveryRemoves, Inv, StaleInv, [Next]_vars PROVE StaleInv'
  OBVIOUS
<1>0. TypeOK /\ st.rev \in Nat
  BY DEF Inv, TypeInv, TypeOK, States
<1>1. CASE RecoverNoop
  BY <1>1 DEF RecoverNoop, StaleInv, JournalNeverStale, disk
<1>2. CASE RecoverCommitted \/ CleanupJournal
  BY <1>2 DEF RecoverCommitted, CleanupJournal, RemoveJournalFile, Fails, Fault, RecoveryRemoves,
     StaleInv, JournalNeverStale
<1>3. CASE RollForward \/ FinishRestore
  <2>1. /\ pc' \in {"recovered", "idle"} /\ UNCHANGED journal
        /\ st' = st \/ st'.rev = journal.next
    BY <1>3 DEF RollForward, FinishRestore, SaveState, Fails, AdvanceState
  <2>. QED  BY <2>1 DEF StaleInv, JournalNeverStale
<1>4. CASE RefuseExternal
  <2> DEFINE s == [st EXCEPT !.tgt[journal.target].attempted = journal.next,
                             !.tgt[journal.target].pending = "recover"]
  <2>1. s.rev = st.rev
    BY <1>0 DEF TypeOK, States
  <2> HIDE DEF s
  <2>2. st' \in {st, s} /\ pc' = "idle" /\ UNCHANGED journal
    BY <1>4 DEF RefuseExternal, SaveState, Fails, s
  <2>. QED  BY <2>1, <2>2 DEF StaleInv, JournalNeverStale
<1>5. CASE WriteJournal
  <2>1. /\ pc' \notin {"ready", "backup", "journal"} /\ UNCHANGED st
        /\ journal' \in {journal, JournalOf(tx)} /\ pc = "journal"
    BY <1>5 DEF WriteJournal, Fails
  <2>2. JournalOf(tx).prior = st.rev
    BY <2>1 DEF JournalOf, Inv, TxInv, Applying
  <2>. QED  BY <2>1, <2>2 DEF StaleInv, JournalNeverStale
<1>6. CASE Commit
  <2>1. /\ pc' \notin {"ready", "backup", "journal"} /\ UNCHANGED journal
        /\ st' \in {st, tx.next} /\ pc = "commit"
    BY <1>6 DEF Commit, SaveState, Fails
  <2>2. journal.next = tx.next.rev
    BY <2>1 DEF JournalOf, Inv, TxInv, Journaled
  <2>. QED  BY <2>1, <2>2 DEF StaleInv, JournalNeverStale
<1>7. CASE RemoveJournal
  BY <1>7 DEF RemoveJournal, RemoveJournalFile, Fails, StaleInv, JournalNeverStale
<1>8. CASE SaveObservation
  BY <1>8 DEF SaveObservation, SaveState, Fails, StaleInv, JournalNeverStale
<1>9. ASSUME journal' = journal, st' = st,
             pc' \in {"ready", "backup", "journal"} => pc \in {"ready", "backup", "journal"}
      PROVE  StaleInv'
  BY <1>9 DEF StaleInv, JournalNeverStale
<1>10. CASE \/ Begin \/ RecoverStale \/ BeginRestore
            \/ \E f \in Files : \/ RestoreFile(f) \/ RestoreFails(f) \/ TakeBackup(f) \/ BackupFails(f)
                                \/ Prepare(f) \/ PrepareFails(f) \/ RenameFile(f)
  BY <1>9, <1>10 DEF Begin, RecoverStale, BeginRestore, RestoreFile, RestoreFails, TakeBackup,
     BackupFails, Prepare, PrepareFails, RenameFile, LoopStep, Fails, disk
<1>11. CASE \/ SyncDirs \/ RecordProgress \/ StepFails \/ Return \/ NothingToDo \/ Kill \/ UNCHANGED vars
            \/ \E f \in Files : UserWrite(f, UserBytes(edits + 1)) \/ UserWrite(f, Absent)
            \/ \E kind \in Kinds, t \in Targets, S \in SUBSET Files : Submit(kind, t, S)
  BY <1>9, <1>11 DEF SyncDirs, RecordProgress, StepFails, Fails, Return, NothingToDo, Kill,
     UserWrite, Submit, disk, vars
<1>12. ~PowerLoss
  BY DEF NoPowerLoss, PowerLoss, Fault
<1>. QED
  BY <1>1, <1>2, <1>3, <1>4, <1>5, <1>6, <1>7, <1>8, <1>10, <1>11, <1>12
  DEF Next, Recover, ApplyUnderLock, Environment

\* Recovery can always tell which side of the commit it is on, unless one of its
\* own removals failed or a power loss undid one.
THEOREM JournalNeverStaleHolds ==
  NoPowerLoss /\ RecoveryRemoves => (Spec => []JournalNeverStale)
<1> SUFFICES ASSUME NoPowerLoss, RecoveryRemoves PROVE Spec => []JournalNeverStale
  OBVIOUS
<1>1. Init => StaleInv
  BY DEF Init, StaleInv, JournalNeverStale
<1>2. Inv /\ StaleInv /\ [Next]_vars => StaleInv'
  BY StaleNext
<1>3. StaleInv => JournalNeverStale
  BY DEF StaleInv
<1>. QED  BY <1>1, <1>2, <1>3, Invariant, PTL DEF Spec

-----------------------------------------------------------------------------
(***************************************************************************)
(* Coordinator.  The publisher's invariant does not hold here (every       *)
(* target of a command is applied with the same prior and next revision),  *)
(* so only the types and the lemmas about single steps are those of the    *)
(* publisher.  CoordinatorAssumption is used from here on only.            *)
(***************************************************************************)
\* The phases in which a target of the command is being applied, up to the
\* answer of ApplyUnderLock.
Busy == Applying \cup {"remove", "applied", "failed"}

\* What is in memory fits together: the transaction is that of the first target
\* left, and only a command that has recovered runs.
CoordTypes ==
  /\ TypeInv
  /\ cmd \in Running \cup {NoCmd}
  /\ told \in [rev : Nat, prov : Nat, out : [Targets -> Results]]
  /\ cmd # NoCmd => pc \in Busy \cup {"ready"}
  /\ pc \in Busy =>
       /\ cmd # NoCmd /\ cmd.left # <<>> /\ tx \in Transactions
       /\ tx.target = Head(cmd.left) /\ tx.next = cmd.next /\ tx.prior = cmd.prior

\* Every file of the target shows the rendering of state s.
FilesShow(t, s) == \A f \in FilesOf(t) : live[f] = Rendered(s)

\* A command leads from the state it started from to the one it wants; the
\* journal on disk is its own, or one of the state it started from.
CmdInv ==
  cmd # NoCmd =>
    /\ st.rev \in {cmd.prior, cmd.next.rev} /\ cmd.next.rev \in {cmd.prior, cmd.prior + 1}
    /\ cmd.next.prov >= st.prov /\ cmd.next.prov <= cmd.next.rev
    /\ \A t \in Registered : cmd.next.tgt[t] = st.tgt[t]
    /\ journal # NoJournal => \/ journal.next = cmd.prior
                              \/ journal.prior = cmd.prior /\ journal.next = cmd.next.rev
    /\ \A t \in Targets : cmd.out[t] = "applied" => FilesShow(t, cmd.next)
    /\ told.out = NoResults

\* The transaction renders every file of its target alike, and what it leaves
\* out shows that rendering already.
TargetInv ==
  /\ pc \in Applying =>
       /\ tx.files \subseteq FilesOf(tx.target)
       /\ \A f \in Files : tx.new[f] = Rendered(cmd.next)
       /\ \A f \in FilesOf(tx.target) \ tx.files : live[f] = Rendered(cmd.next)
  /\ pc \in Journaled => journal = JournalOf(tx)
  /\ pc \in {"rename", "syncdir", "progress", "commit"} =>
       \A f \in tx.files : (pc = "rename" /\ f \in todo) \/ live[f] = Rendered(cmd.next)
  /\ pc \in {"remove", "applied"} => FilesShow(tx.target, cmd.next)

\* A journal goes forward by at most one revision, and one that may still be
\* published speaks for all the files of its target.
ChainJournalInv ==
  journal # NoJournal =>
    /\ journal.next \in {journal.prior, journal.prior + 1}
    /\ Active => /\ \A f, g \in Files : journal.new[f] = journal.new[g]
                 /\ \A f \in FilesOf(journal.target) \ journal.files : live[f] = journal.new[f]

\* Recovery restores the files of a journal in doubt, and leaves none in doubt.
RecoveryInv ==
  /\ pc = "restore" => Active /\ todo \subseteq journal.files
  /\ pc = "recovered" => journal # NoJournal /\ journal.next = st.rev
  /\ pc = "ready" /\ cmd = NoCmd => (journal # NoJournal => journal.next = st.rev)

\* What callers were told is still so: no journal is left that recovery would
\* act upon, and until the next command state.json and the files stay.
Reported(t) ==
  /\ told.out[t] = "applied" =>
       /\ st.tgt[t] = [applied |-> st.rev, attempted |-> st.rev, pending |-> "none"]
       /\ \A f \in FilesOf(t) : live[f] = QuotaBytes(0, told.prov)
  /\ told.out[t] = "pending" => st.tgt[t].pending # "none"

ToldInv ==
  /\ told.rev <= st.rev /\ told.prov <= st.prov /\ st.prov <= st.rev
  /\ told.out # NoResults =>
       /\ cmd = NoCmd /\ ~Active /\ pc \in {"idle", "recover", "ready"}
       /\ \A t \in Registered : Reported(t)

CoordInv == CoordTypes /\ CmdInv /\ TargetInv /\ ChainJournalInv /\ RecoveryInv /\ ToldInv

-----------------------------------------------------------------------------
(***************************************************************************)
(* The types.                                                              *)
(***************************************************************************)
\* A command that runs is not the absence of one.
LEMMA RunningFields ==
  ASSUME NEW c \in Running
  PROVE  /\ c # NoCmd /\ c.kind \in Commands /\ c.prior \in Nat /\ c.next \in States
         /\ c.left \in Seq(Targets) /\ c.out \in [Targets -> Results]
<1>1. "kind" \in DOMAIN c /\ DOMAIN NoCmd = {"none"}
  BY DEF Running, NoCmd
<1>. QED  BY <1>1 DEF Running

\* What is left after the first target.
LEMMA LeftAfter ==
  ASSUME NEW s \in Seq(Targets), s # <<>>
  PROVE  Head(s) \in Targets /\ Tail(s) \in Seq(Targets)
BY HeadTailProperties

\* The registered targets are targets, and the synthetic ones are others.
LEMMA RegisteredTargets ==
  /\ Registered \subseteq Targets
  /\ \A t \in Registered : t \notin Synthetic
<1>1. \A i \in DOMAIN Order : Order[i] \in Targets
  BY CoordinatorAssumption, ElementOfSeq DEF Registered
<1>. QED  BY <1>1, CoordinatorAssumption DEF Registered

\* The last save drops outcomes of synthetic targets and nothing else (Retire).
LEMMA RetireType ==
  ASSUME NEW s \in States
  PROVE  /\ Retire(s) \in States
         /\ Retire(s).rev = s.rev /\ Retire(s).prov = s.prov
         /\ \A t \in Registered : Retire(s).tgt[t] = s.tgt[t]
<1> DEFINE T == [t \in Targets |-> IF t \in Synthetic THEN NoOutcome ELSE s.tgt[t]]
<1>1. T \in [Targets -> Outcomes]
  BY DEF States, Outcomes, NoOutcome
<1>2. \A t \in Registered : T[t] = s.tgt[t]
  BY RegisteredTargets
<1>3. Retire(s) = [s EXCEPT !.tgt = T]
  BY DEF Retire
<1> HIDE DEF T
<1>. QED  BY <1>1, <1>2, <1>3 DEF States

\* The state a command wants to commit: the revision as it is or the next one,
\* and the provider events as they are or one more.
LEMMA CommandStateType ==
  ASSUME st \in States, NEW kind \in Commands
  PROVE  /\ CommandState(kind) \in States
         /\ CommandState(kind).rev \in {st.rev, st.rev + 1}
         /\ CommandState(kind).prov \in {st.prov, st.rev + 1}
         /\ st.prov <= st.rev => CommandState(kind).prov <= CommandState(kind).rev
         /\ CommandState(kind).tgt = st.tgt
<1> DEFINE r == IF kind = "init" /\ st.rev # 0 THEN st.rev ELSE st.rev + 1
           p == IF kind \in {"init", "reconcile"} THEN st.prov ELSE st.rev + 1
           mid == [st EXCEPT !.rev = r]
<1>1. /\ r \in Nat /\ r \in {st.rev, st.rev + 1} /\ p \in Nat /\ p \in {st.prov, st.rev + 1}
      /\ st.prov <= st.rev => p <= r
  BY DEF States
<1>2. CommandState(kind) = [mid EXCEPT !.prov = p]
  BY DEF CommandState
<1> HIDE DEF r, p
<1>3. mid \in States /\ mid.rev = r /\ mid.prov = st.prov /\ mid.tgt = st.tgt
  BY <1>1 DEF States
<1> HIDE DEF mid
<1>. QED  BY <1>1, <1>2, <1>3 DEF States

\* What the last save records of the targets.
LEMMA RecordOutcomesType ==
  ASSUME NEW s \in States, NEW out \in [Targets -> Results]
  PROVE  LET end == RecordOutcomes(s, out) IN
         /\ end \in States /\ end.rev = s.rev /\ end.prov = s.prov
         /\ \A t \in Targets :
              /\ out[t] = "none" => end.tgt[t] = s.tgt[t]
              /\ out[t] = "applied" =>
                   end.tgt[t] = [applied |-> s.rev, attempted |-> s.rev, pending |-> "none"]
              /\ out[t] = "pending" => end.tgt[t].pending = "publish"
<1> DEFINE T == [t \in Targets |->
       CASE out[t] = "none"    -> s.tgt[t]
         [] out[t] = "applied" -> [applied |-> s.rev, attempted |-> s.rev, pending |-> "none"]
         [] out[t] = "pending" -> [applied |-> s.tgt[t].applied, attempted |-> s.rev,
                                   pending |-> "publish"]]
<1>1. s.rev \in Nat /\ \A t \in Targets : s.tgt[t] \in Outcomes /\ s.tgt[t].applied \in Nat
  BY DEF States, Outcomes
<1>2. ASSUME NEW t \in Targets
      PROVE  /\ T[t] \in Outcomes
             /\ out[t] = "none" => T[t] = s.tgt[t]
             /\ out[t] = "applied" =>
                  T[t] = [applied |-> s.rev, attempted |-> s.rev, pending |-> "none"]
             /\ out[t] = "pending" => T[t].pending = "publish"
  <2>1. CASE out[t] = "none"
    BY <1>1, <2>1
  <2>2. CASE out[t] = "applied"
    BY <1>1, <2>2 DEF Outcomes
  <2>3. CASE out[t] = "pending"
    BY <1>1, <2>3 DEF Outcomes
  <2>. QED  BY <2>1, <2>2, <2>3 DEF Results
<1>3. T \in [Targets -> Outcomes]
  BY <1>2
<1>4. RecordOutcomes(s, out) = [s EXCEPT !.tgt = T]
  BY DEF RecordOutcomes
<1> HIDE DEF T
<1>. QED  BY <1>2, <1>3, <1>4 DEF States

\* Recovery runs before any command does, and ends outside of it.
LEMMA RecoverPhases ==
  ASSUME CoordTypes, Begin \/ Recover
  PROVE  /\ pc \in {"idle", "recover", "restore", "recovered"} /\ cmd = NoCmd
         /\ pc' \in {"idle", "recover", "restore", "recovered", "ready"}
         /\ UNCHANGED <<tx, edits, jdisk>>
<1>1. /\ pc \in {"idle", "recover", "restore", "recovered"}
      /\ pc' \in {"idle", "recover", "restore", "recovered", "ready"}
      /\ UNCHANGED <<tx, edits, jdisk>>
  BY DEF Begin, Recover, RecoverNoop, RecoverCommitted, RecoverStale, RollForward, RefuseExternal,
     BeginRestore, InDoubt, RestoreFile, RestoreFails, FinishRestore, CleanupJournal, SaveState,
     RemoveJournalFile, Fails, disk
<1>. QED  BY <1>1 DEF CoordTypes, Busy, Applying

\* ApplyUnderLock works on one transaction, and changes of it only the numbers
\* of the backups.
LEMMA ApplyPhases ==
  ASSUME CoordTypes, ApplyUnderLock, TypeInv'
  PROVE  /\ pc \in Busy \ {"applied", "failed"} /\ pc' \in Busy
         /\ cmd \in Running /\ tx \in Transactions /\ tx' \in Transactions
         /\ tx'.next = tx.next /\ tx'.target = tx.target /\ tx'.files = tx.files
         /\ tx'.old = tx.old /\ tx'.new = tx.new /\ tx'.prior = tx.prior
         /\ UNCHANGED edits
<1>1. CASE \E f \in Files : TakeBackup(f)
  <2>1. PICK f \in Files : TakeBackup(f)
    BY <1>1
  <2>2. /\ pc = "backup" /\ pc' \in {"backup", "journal"} /\ tx' = [tx EXCEPT !.seq[f] = NextSeq(f)]
        /\ UNCHANGED edits
    BY <2>1 DEF TakeBackup, LoopStep
  <2>3. tx \in Transactions /\ tx' \in Transactions /\ cmd \in Running
    BY <2>2 DEF TypeInv, Applying, CoordTypes, Busy
  <2>. QED  BY <2>2, <2>3 DEF Transactions, Busy, Applying
<1>2. CASE \/ \E f \in Files : BackupFails(f) \/ Prepare(f) \/ PrepareFails(f) \/ RenameFile(f)
           \/ WriteJournal \/ SyncDirs \/ RecordProgress \/ StepFails \/ Commit \/ RemoveJournal
  <2>1. /\ pc \in Busy \ {"applied", "failed"} /\ pc' \in Busy /\ UNCHANGED <<tx, edits>>
    BY <1>2 DEF BackupFails, Prepare, PrepareFails, RenameFile, LoopStep, WriteJournal, SyncDirs,
       RecordProgress, StepFails, Commit, RemoveJournal, SaveState, RemoveJournalFile, Fails, disk,
       Busy, Applying
  <2>. QED  BY <2>1 DEF CoordTypes
<1>. QED  BY <1>1, <1>2 DEF ApplyUnderLock

\* Building the transaction of the next target.
LEMMA SubmitTargetFields ==
  ASSUME CoordTypes, SubmitTarget
  PROVE  /\ pc = "ready" /\ cmd \in Running /\ cmd.left # <<>>
         /\ tx' \in Transactions /\ tx'.next = cmd.next /\ tx'.prior = cmd.prior
         /\ tx'.target = Head(cmd.left)
         /\ tx'.files = {f \in FilesOf(tx'.target) : live[f] # Rendered(cmd.next)}
         /\ \A f \in Files : tx'.new[f] = Rendered(cmd.next)
         /\ todo' = tx'.files /\ pc' \in {"backup", "journal"}
         /\ UNCHANGED <<disk, edits, cmd, told>>
<1> DEFINE t == Head(cmd.left)
           S == {f \in FilesOf(t) : live[f] # Rendered(cmd.next)}
           new == [f \in Files |-> Rendered(cmd.next)]
           seq == [f \in Files |-> 0]
<1>1. /\ pc = "ready" /\ cmd # NoCmd /\ cmd.left # <<>>
      /\ tx' = [next |-> cmd.next, target |-> t, files |-> S, old |-> live, new |-> new,
                seq |-> seq, prior |-> cmd.prior, noticeSet |-> FALSE]
      /\ todo' = S /\ pc' \in {"backup", "journal"} /\ UNCHANGED <<disk, edits, cmd, told>>
  BY DEF SubmitTarget, AtTarget
<1>2. cmd \in Running /\ live \in [Files -> Bytes]
  BY <1>1 DEF CoordTypes, TypeInv, TypeOK
<1>3. /\ cmd.next \in States /\ cmd.prior \in Nat /\ t \in Targets
  BY <1>1, <1>2, RunningFields, LeftAfter
<1>4. new \in [Files -> Bytes] /\ seq \in [Files -> Nat] /\ S \in SUBSET Files
  BY <1>3 DEF Rendered, QuotaBytes, Bytes, States, FilesOf
<1>5. \A f \in Files : new[f] = Rendered(cmd.next)
  OBVIOUS
<1> HIDE DEF t, new, seq
<1>6. tx' \in Transactions
  <2> HIDE DEF S
  <2>. QED  BY <1>1, <1>2, <1>3, <1>4 DEF Transactions
<1>7. /\ tx'.next = cmd.next /\ tx'.target = t /\ tx'.files = S /\ tx'.new = new
      /\ tx'.prior = cmd.prior
  <2> HIDE DEF S
  <2>. QED  BY <1>1
<1>. QED  BY <1>1, <1>2, <1>5, <1>6, <1>7 DEF t, new

\* A command accepted: the state it wants, the targets it visits, and what it
\* reports so far.
Accepts(kind, next, targets, out) ==
  /\ pc = "ready" /\ cmd = NoCmd /\ UNCHANGED vars
  /\ cmd' = [kind |-> kind, prior |-> st.rev, next |-> next, left |-> targets, out |-> out]
  /\ told' = [told EXCEPT !.out = NoResults]
  /\ kind \in Commands /\ targets \in Seq(Targets) /\ out \in [Targets -> Results]
  /\ \A t \in Registered : out[t] = "none"
  /\ \A t \in Targets : out[t] # "applied"
  /\ next \in States /\ next.rev \in {st.rev, st.rev + 1}
  /\ next.prov >= st.prov /\ next.prov <= next.rev
  /\ \A t \in Registered : next.tgt[t] = st.tgt[t]

\* Every way to accept a command is an acceptance.
LEMMA AcceptedCommand ==
  ASSUME CoordTypes, st.prov <= st.rev,
         \/ \E kind \in Commands : Start(kind) \/ StartWithoutTargets(kind)
         \/ ResolveFails("manual", ManualId) \/ ResolveFails("check", QuotaId)
  PROVE  \E kind, next, targets, out : Accepts(kind, next, targets, out)
<1>1. st \in States /\ st.rev \in Nat /\ st.prov \in Nat
  BY DEF CoordTypes, TypeInv, TypeOK, States
<1>2. /\ NoResults \in [Targets -> Results] /\ \A t \in Targets : NoResults[t] = "none"
      /\ \A t \in Registered : t \in Targets
  BY RegisteredTargets DEF NoResults, Results
<1>3. ASSUME NEW kind \in Commands
      PROVE  /\ CommandState(kind) \in States /\ Retire(CommandState(kind)) \in States
             /\ \A next \in {CommandState(kind), Retire(CommandState(kind))} :
                  /\ next.rev \in {st.rev, st.rev + 1}
                  /\ next.prov >= st.prov /\ next.prov <= next.rev
                  /\ \A t \in Registered : next.tgt[t] = st.tgt[t]
  BY <1>1, CommandStateType, RetireType
<1>4. <<>> \in Seq(Targets) /\ Order \in Seq(Targets)
  BY CoordinatorAssumption, EmptySeq
<1>5. ASSUME NEW kind \in Commands, Start(kind)
      PROVE  \E next : Accepts(kind, next, Order, NoResults)
  <2> DEFINE next == IF kind = "init" THEN Retire(CommandState(kind)) ELSE CommandState(kind)
  <2>1. Accepting(kind) /\ Run(kind, next, Order, NoResults) /\ UNCHANGED vars
    BY <1>5 DEF Start
  <2>2. next \in {CommandState(kind), Retire(CommandState(kind))}
    OBVIOUS
  <2> HIDE DEF next
  <2>3. Accepts(kind, next, Order, NoResults)
    BY <1>2, <1>3, <1>4, <2>1, <2>2 DEF Accepts, Accepting, Run
  <2>. QED  BY <2>3
<1>6. ASSUME NEW kind \in Commands, StartWithoutTargets(kind)
      PROVE  Accepts(kind, CommandState(kind), <<>>, NoResults)
  BY <1>2, <1>3, <1>4, <1>6 DEF StartWithoutTargets, Accepts, Accepting, Run
<1>7. ASSUME NEW kind \in Commands, NEW id \in Synthetic, ResolveFails(kind, id)
      PROVE  Accepts(kind, CommandState(kind), <<>>, [NoResults EXCEPT ![id] = "pending"])
  <2> DEFINE out == [NoResults EXCEPT ![id] = "pending"]
  <2>1. /\ out \in [Targets -> Results] /\ \A t \in Targets : out[t] # "applied"
        /\ \A t \in Registered : out[t] = "none"
    BY <1>2, RegisteredTargets DEF NoResults, Results
  <2> HIDE DEF out
  <2>2. Accepting(kind) /\ Run(kind, CommandState(kind), <<>>, out) /\ UNCHANGED vars
    BY <1>7 DEF ResolveFails, out
  <2>3. Accepts(kind, CommandState(kind), <<>>, out)
    BY <1>3, <1>4, <2>1, <2>2 DEF Accepts, Accepting, Run
  <2>. QED  BY <2>3 DEF out
<1>8. ManualId \in Synthetic /\ QuotaId \in Synthetic /\ {"manual", "check"} \subseteq Commands
  BY DEF Synthetic, Commands
<1>. QED  BY <1>5, <1>6, <1>7, <1>8

-----------------------------------------------------------------------------
(***************************************************************************)
(* The invariant.                                                          *)
(***************************************************************************)
LEMMA CoordInitInv == CoordInit => CoordInv
<1> SUFFICES ASSUME CoordInit PROVE CoordInv
  OBVIOUS
<1>1. TypeInv
  BY TypeInvInit DEF CoordInit
<1>2. /\ pc = "idle" /\ journal = NoJournal /\ st.rev = 0 /\ st.prov = 0
      /\ cmd = NoCmd /\ told = [rev |-> 0, prov |-> 0, out |-> NoResults]
  BY DEF CoordInit, Init
<1>3. told \in [rev : Nat, prov : Nat, out : [Targets -> Results]] /\ told.out = NoResults
  BY <1>2 DEF NoResults, Results
<1>. QED
  BY <1>1, <1>2, <1>3
  DEF CoordInv, CoordTypes, CmdInv, TargetInv, ChainJournalInv, RecoveryInv, ToldInv, Busy,
      Applying, Journaled

\* A journal that is not in doubt does not become so when nothing but the
\* targets' outcomes change in state.json.
LEMMA OutcomesFrame ==
  ASSUME UNCHANGED <<journal, live>>, st'.rev = st.rev
  PROVE  /\ Active' = Active
         /\ ChainJournalInv => ChainJournalInv'
         /\ \A t, s : FilesShow(t, s)' <=> \A f \in FilesOf(t) : live[f] = Rendered(s')
BY DEF Active, ChainJournalInv, FilesShow, FilesOf, Rendered

\* Steps of recovery that save nothing.
LEMMA CoordRecoverQuiet ==
  ASSUME CoordInv, TypeInv', UNCHANGED <<cmd, told>>,
         \/ Begin \/ RecoverNoop \/ RecoverCommitted \/ RecoverStale \/ BeginRestore \/ CleanupJournal
         \/ \E f \in Files : RestoreFails(f)
  PROVE  CoordInv'
<1>0. /\ CoordTypes /\ TypeInv /\ TypeOK /\ cmd = NoCmd
      /\ pc' \in {"idle", "recover", "restore", "recovered", "ready"}
      /\ UNCHANGED <<tx, edits, jdisk>>
  BY RecoverPhases DEF CoordInv, CoordTypes, TypeInv, Recover
<1>1. CoordTypes' /\ CmdInv' /\ TargetInv'
  BY <1>0 DEF CoordTypes, CmdInv, TargetInv, Busy, Applying, Journaled
<1>2. /\ UNCHANGED <<live, st>> /\ journal' \in {journal, NoJournal}
      /\ pc' = "recovered" => FALSE
      /\ pc' = "restore" => pc' = pc \/ BeginRestore
      /\ pc' = "ready" => journal' = NoJournal \/ (journal' = journal /\ journal.next = st.rev)
  BY DEF Begin, RecoverNoop, RecoverCommitted, RecoverStale, BeginRestore, CleanupJournal,
     RestoreFails, RemoveJournalFile, Fails, disk, CoordInv, RecoveryInv
<1>3. ChainJournalInv'
  BY <1>2 DEF CoordInv, ChainJournalInv, Active
<1>4. RecoveryInv'
  <2>1. pc' = "restore" => Active' /\ todo' \subseteq journal'.files
    <3>1. CASE BeginRestore
      BY <3>1 DEF BeginRestore, InDoubt, Active, disk
    <3>2. CASE ~BeginRestore
      BY <3>2 DEF Begin, RecoverNoop, RecoverCommitted, RecoverStale, CleanupJournal, RestoreFails,
         RemoveJournalFile, Fails
    <3>. QED  BY <3>1, <3>2
  <2>. QED  BY <1>2, <2>1 DEF RecoveryInv
<1>5. ToldInv'
  <2>1. Active' => Active
    BY <1>2 DEF Active
  <2>2. \A t : Reported(t) => Reported(t)'
    BY <1>2 DEF Reported, FilesOf
  <2>3. told.out # NoResults => pc' \in {"idle", "recover", "ready"}
    <3>1. BeginRestore => Active
      BY DEF BeginRestore, InDoubt, Active
    <3>. QED  BY <1>0, <1>2, <3>1 DEF CoordInv, ToldInv
  <2>4. NoResults' = NoResults
    OBVIOUS
  <2>. QED  BY <1>0, <1>2, <2>1, <2>2, <2>3, <2>4 DEF CoordInv, ToldInv
<1>. QED  BY <1>1, <1>3, <1>4, <1>5 DEF CoordInv

\* Steps of recovery that act on a journal in doubt.
LEMMA CoordRecoverInDoubt ==
  ASSUME CoordInv, TypeInv', UNCHANGED <<cmd, told>>,
         RollForward \/ FinishRestore \/ RefuseExternal \/ \E f \in Files : RestoreFile(f)
  PROVE  CoordInv'
<1>0. /\ CoordTypes /\ TypeInv /\ TypeOK /\ cmd = NoCmd /\ st \in States
      /\ pc' \in {"idle", "recover", "restore", "recovered", "ready"}
      /\ UNCHANGED <<tx, edits, jdisk>>
  BY RecoverPhases DEF CoordInv, CoordTypes, TypeInv, TypeOK, Recover
<1>1. CoordTypes' /\ CmdInv' /\ TargetInv'
  BY <1>0 DEF CoordTypes, CmdInv, TargetInv, Busy, Applying, Journaled
<1>2. Active /\ journal # NoJournal /\ journal \in Journals /\ UNCHANGED journal
  BY <1>0 DEF RollForward, FinishRestore, RefuseExternal, RestoreFile, InDoubt, Active, TypeOK,
     CoordInv, RecoveryInv
<1>3. told.out = NoResults
  BY <1>2 DEF CoordInv, ToldInv
<1>4. /\ journal.next = st.rev + 1 /\ st.rev \in Nat /\ st.prov \in Nat /\ told.rev \in Nat
      /\ told.rev <= st.rev
  BY <1>0, <1>2 DEF CoordInv, ChainJournalInv, Active, Journals, States, CoordTypes, ToldInv
<1>5. CASE RollForward \/ FinishRestore
  <2>1. PICK applied \in BOOLEAN : SaveState(AdvanceState(applied), "recovered", "idle")
    BY <1>5 DEF RollForward, FinishRestore
  <2>2. /\ st' = st \/ (st'.rev = journal.next /\ st'.prov = st.prov)
        /\ pc' \in {"recovered", "idle"} /\ (pc' = "recovered" => st'.rev = journal.next)
    BY <2>1 DEF SaveState, Fails, AdvanceState
  <2>3. UNCHANGED live
    BY <1>5 DEF RollForward, FinishRestore
  <2>4. ChainJournalInv'
    BY <1>2, <1>4, <2>2, <2>3 DEF CoordInv, ChainJournalInv, Active
  <2>5. RecoveryInv'
    BY <1>2, <2>2 DEF RecoveryInv
  <2>6. ToldInv'
    BY <1>3, <1>4, <2>2 DEF CoordInv, ToldInv, NoResults
  <2>. QED  BY <1>1, <2>4, <2>5, <2>6 DEF CoordInv
<1>6. CASE RefuseExternal
  <2> DEFINE s == [st EXCEPT !.tgt[journal.target].attempted = journal.next,
                             !.tgt[journal.target].pending = "recover"]
  <2>1. s.rev = st.rev /\ s.prov = st.prov
    BY <1>0 DEF States
  <2> HIDE DEF s
  <2>2. st' \in {st, s} /\ pc' = "idle" /\ UNCHANGED live
    BY <1>6 DEF RefuseExternal, SaveState, Fails, s
  <2>3. ChainJournalInv'
    BY <1>2, <2>1, <2>2, OutcomesFrame DEF CoordInv
  <2>4. RecoveryInv' /\ ToldInv'
    BY <1>3, <1>4, <2>1, <2>2 DEF CoordInv, RecoveryInv, ToldInv, NoResults
  <2>. QED  BY <1>1, <2>3, <2>4 DEF CoordInv
<1>7. ASSUME NEW f \in Files, RestoreFile(f)
      PROVE  CoordInv'
  <2>1. PICK b \in BackupOf(f) : /\ live' = [live EXCEPT ![f] = b.bytes]
                                 /\ \/ todo' = todo \ {f} /\ UNCHANGED pc
                                    \/ pc' = "idle"
    BY <1>7 DEF RestoreFile, Fails
  <2>2. pc = "restore" /\ f \in todo /\ UNCHANGED st
    BY <1>7 DEF RestoreFile
  <2>3. todo \subseteq journal.files
    BY <2>2 DEF CoordInv, RecoveryInv
  <2>4. \A g \in Files : g # f => live'[g] = live[g]
    BY <1>0, <2>1 DEF TypeOK
  <2>5. ChainJournalInv'
    <3>1. \A g \in FilesOf(journal.target) \ journal.files : live'[g] = live[g]
      BY <2>2, <2>3, <2>4 DEF FilesOf
    <3>. QED  BY <1>2, <2>2, <3>1 DEF CoordInv, ChainJournalInv, Active, FilesOf
  <2>6. RecoveryInv'
    BY <1>2, <2>1, <2>2, <2>3 DEF RecoveryInv, Active
  <2>7. ToldInv'
    BY <1>3, <2>2 DEF CoordInv, ToldInv, NoResults
  <2>. QED  BY <1>1, <2>5, <2>6, <2>7 DEF CoordInv
<1>. QED  BY <1>5, <1>6, <1>7

\* Applying a target, one step per kind of step.
LEMMA CoordApply ==
  ASSUME CoordInv, TypeInv', UNCHANGED <<cmd, told>>, ApplyUnderLock
  PROVE  CoordInv'
<1>0. /\ CoordTypes /\ TypeInv /\ TypeOK /\ live \in [Files -> Bytes]
      /\ st.rev \in Nat /\ st.prov \in Nat /\ told.rev \in Nat /\ told.prov \in Nat
  BY DEF CoordInv, CoordTypes, TypeInv, TypeOK, States
<1>1. /\ pc \in Busy \ {"applied", "failed"} /\ pc' \in Busy
      /\ cmd \in Running /\ tx \in Transactions /\ tx' \in Transactions
      /\ tx'.next = tx.next /\ tx'.target = tx.target /\ tx'.files = tx.files
      /\ tx'.old = tx.old /\ tx'.new = tx.new /\ tx'.prior = tx.prior
  BY <1>0, ApplyPhases
<1>2. /\ cmd # NoCmd /\ cmd.next \in States /\ cmd.prior \in Nat
      /\ tx.next = cmd.next /\ tx.prior = cmd.prior /\ told.out = NoResults
      /\ tx.files \subseteq Files
  BY <1>0, <1>1, RunningFields DEF CoordTypes, CoordInv, CmdInv, Transactions
<1>3. CoordTypes'
  BY <1>0, <1>1, <1>2 DEF CoordTypes
<1>4. RecoveryInv'
  BY <1>1, <1>2 DEF RecoveryInv, Busy, Applying
<1>5. ASSUME st' \in {st, cmd.next}
      PROVE  ToldInv'
  <2>1. /\ st'.rev \in Nat /\ st'.prov \in Nat /\ st'.rev >= st.rev /\ st'.prov >= st.prov
        /\ st'.prov <= st'.rev
    BY <1>0, <1>2, <1>5 DEF CoordInv, CmdInv, ToldInv, States
  <2>. QED  BY <1>0, <1>2, <2>1 DEF CoordInv, ToldInv, NoResults
\* What the command has done so far stays where no file changes.
<1>6. ASSUME UNCHANGED <<live, st>>,
             journal' # NoJournal => \/ journal' = journal
                                     \/ journal'.prior = cmd.prior /\ journal'.next = cmd.next.rev
      PROVE  CmdInv'
  BY <1>2, <1>6 DEF CoordInv, CmdInv, FilesShow, FilesOf, NoResults
<1>7. CASE \/ \E f \in Files : TakeBackup(f) \/ BackupFails(f) \/ Prepare(f) \/ PrepareFails(f)
           \/ SyncDirs \/ RecordProgress \/ StepFails
  <2>1. /\ UNCHANGED <<live, st, journal>>
        /\ \/ pc = "backup" /\ pc' \in {"backup", "journal"}
           \/ pc' = "failed"
           \/ pc = "prepare" /\ pc' = "prepare" /\ tx' = tx
           \/ pc = "prepare" /\ pc' = "rename" /\ tx' = tx /\ todo' = tx.files
           \/ pc = "syncdir" /\ pc' = "progress" /\ tx' = tx
           \/ pc = "progress" /\ pc' = "commit" /\ tx' = tx
    BY <1>7 DEF TakeBackup, BackupFails, Prepare, PrepareFails, SyncDirs, RecordProgress,
       StepFails, LoopStep, Fails, disk
  <2>2. CmdInv'
    BY <1>6, <2>1
  <2>3. TargetInv'
    BY <1>1, <2>1 DEF CoordInv, TargetInv, Applying, Journaled, FilesOf
  <2>4. ChainJournalInv' /\ ToldInv'
    BY <1>5, <2>1, OutcomesFrame DEF CoordInv
  <2>. QED  BY <1>3, <1>4, <2>2, <2>3, <2>4 DEF CoordInv
<1>8. CASE WriteJournal
  <2>1. /\ pc = "journal" /\ journal' \in {journal, JournalOf(tx)} /\ UNCHANGED <<live, st, tx>>
        /\ \/ pc' = "failed"
           \/ journal' = JournalOf(tx) /\ pc' = "prepare"
           \/ journal' = JournalOf(tx) /\ pc' = "syncdir" /\ tx.files = {}
    BY <1>8 DEF WriteJournal, Fails
  <2> DEFINE j == JournalOf(tx)
  <2>2. /\ j.prior = cmd.prior /\ j.next = cmd.next.rev /\ j.files = tx.files /\ j.new = tx.new
        /\ j.target = tx.target
    BY <1>1, <1>2, JournalOfFields DEF JournalOf
  <2>3. CmdInv'
    BY <1>6, <2>1, <2>2
  <2>4. TargetInv'
    BY <2>1 DEF CoordInv, TargetInv, Applying, Journaled, FilesOf
  <2>5. ChainJournalInv'
    <3>1. CASE journal' = journal
      BY <2>1, <3>1, OutcomesFrame DEF CoordInv
    <3>2. CASE journal' = j
      <4>1. /\ \A f \in Files : tx.new[f] = Rendered(cmd.next)
            /\ \A f \in FilesOf(tx.target) \ tx.files : live[f] = Rendered(cmd.next)
        BY <2>1 DEF CoordInv, TargetInv, Applying
      <4>2. j.next \in {j.prior, j.prior + 1}
        BY <1>2, <2>2 DEF CoordInv, CmdInv
      <4> HIDE DEF j
      <4>. QED  BY <2>1, <2>2, <3>2, <4>1, <4>2 DEF ChainJournalInv, FilesOf
    <3>. QED  BY <2>1, <3>1, <3>2
  <2>. QED  BY <1>3, <1>4, <1>5, <2>1, <2>3, <2>4, <2>5 DEF CoordInv
<1>9. ASSUME NEW f \in Files, RenameFile(f)
      PROVE  CoordInv'
  <2>1. /\ pc = "rename" /\ f \in todo /\ live' = [live EXCEPT ![f] = tx.new[f]]
        /\ UNCHANGED <<journal, st, tx>>
        /\ \/ pc' = "rename" /\ todo' = todo \ {f}
           \/ pc' = "syncdir" /\ todo = {f}
    BY <1>9 DEF RenameFile, LoopStep
  <2>2. f \in tx.files /\ tx.new[f] = Rendered(cmd.next) /\ journal = JournalOf(tx)
    BY <1>0, <2>1 DEF TypeInv, CoordInv, TargetInv, Applying, Journaled
  <2>3. \A g \in Files : live'[g] = IF g = f THEN Rendered(cmd.next) ELSE live[g]
    BY <1>0, <2>1, <2>2
  <2>4. \A t : FilesShow(t, cmd.next) => FilesShow(t, cmd.next)'
    BY <2>3 DEF FilesShow, FilesOf, Rendered
  <2>5. CmdInv'
    BY <1>2, <2>1, <2>4 DEF CoordInv, CmdInv, NoResults
  <2>6. TargetInv'
    BY <1>2, <2>1, <2>3 DEF CoordInv, TargetInv, Applying, Journaled, FilesOf, Rendered
  <2>7. ChainJournalInv'
    <3>1. journal.files = tx.files
      BY <1>1, <2>2, JournalOfFields
    <3>2. \A g \in FilesOf(journal.target) \ journal.files : live'[g] = live[g]
      BY <2>2, <2>3, <3>1 DEF FilesOf
    <3>. QED  BY <2>1, <3>2 DEF CoordInv, ChainJournalInv, Active, FilesOf
  <2>. QED  BY <1>3, <1>4, <1>5, <2>1, <2>5, <2>6, <2>7 DEF CoordInv
<1>10. CASE Commit
  <2>1. /\ pc = "commit" /\ UNCHANGED <<live, journal, tx>> /\ st' \in {st, cmd.next}
        /\ pc' \in {"remove", "failed"}
    BY <1>2, <1>10 DEF Commit, SaveState, Fails
  <2>2. journal = JournalOf(tx)
    BY <2>1 DEF CoordInv, TargetInv, Journaled
  <2>3. journal # NoJournal /\ journal.prior = cmd.prior /\ journal.next = cmd.next.rev
    BY <1>1, <1>2, <2>2, JournalOfFields
  <2>4. CmdInv'
    <3>1. cmd.next.prov \in Nat /\ cmd.next.rev \in Nat
      BY <1>2 DEF States
    <3>2. \A t : FilesShow(t, cmd.next) => FilesShow(t, cmd.next)'
      BY <2>1 DEF FilesShow, FilesOf, Rendered
    <3>. QED  BY <1>2, <2>1, <2>3, <3>1, <3>2 DEF CoordInv, CmdInv, NoResults
  <2>5. TargetInv'
    <3>1. FilesShow(tx.target, cmd.next)
      BY <2>1 DEF CoordInv, TargetInv, Applying, FilesShow, Rendered
    <3>. QED  BY <2>1, <3>1 DEF TargetInv, Applying, Journaled, FilesShow, FilesOf, Rendered
  <2>6. ChainJournalInv'
    <3>1. CASE st' = st
      BY <2>1, <3>1, OutcomesFrame DEF CoordInv
    <3>2. CASE st' = cmd.next
      BY <2>1, <2>3, <3>2 DEF CoordInv, ChainJournalInv, Active
    <3>. QED  BY <2>1, <3>1, <3>2
  <2>. QED  BY <1>3, <1>4, <1>5, <2>1, <2>4, <2>5, <2>6 DEF CoordInv
<1>11. CASE RemoveJournal
  <2>1. /\ pc = "remove" /\ UNCHANGED <<live, st, tx>> /\ journal' \in {journal, NoJournal}
        /\ pc' \in {"applied", "failed"}
    BY <1>11 DEF RemoveJournal, RemoveJournalFile, Fails
  <2>2. CmdInv'
    BY <1>6, <2>1
  <2>3. TargetInv'
    BY <2>1 DEF CoordInv, TargetInv, Applying, Journaled, FilesShow, FilesOf, Rendered
  <2>4. ChainJournalInv'
    BY <2>1 DEF CoordInv, ChainJournalInv, Active
  <2>. QED  BY <1>3, <1>4, <1>5, <2>1, <2>2, <2>3, <2>4 DEF CoordInv
<1>. QED  BY <1>7, <1>8, <1>9, <1>10, <1>11 DEF ApplyUnderLock

\* The steps of the command between the targets.
LEMMA CoordAccept ==
  ASSUME CoordInv, NEW kind, NEW next, NEW targets, NEW out, Accepts(kind, next, targets, out)
  PROVE  CoordInv'
<1> DEFINE c == [kind |-> kind, prior |-> st.rev, next |-> next, left |-> targets, out |-> out]
<1>0. /\ CoordTypes /\ TypeInv /\ st.rev \in Nat
      /\ told \in [rev : Nat, prov : Nat, out : [Targets -> Results]]
  BY DEF CoordInv, CoordTypes, TypeInv, TypeOK, States
<1>1. /\ pc = "ready" /\ cmd = NoCmd /\ UNCHANGED vars /\ cmd' = c
      /\ told' = [told EXCEPT !.out = NoResults]
      /\ kind \in Commands /\ targets \in Seq(Targets) /\ out \in [Targets -> Results]
      /\ next \in States
  BY DEF Accepts
<1>2. /\ c \in Running /\ c.prior = st.rev /\ c.next = next /\ c.out = out
  BY <1>0, <1>1 DEF Running
<1>3. NoResults \in [Targets -> Results]
  BY DEF NoResults, Results
<1>4. /\ told' \in [rev : Nat, prov : Nat, out : [Targets -> Results]]
      /\ told'.out = NoResults /\ told'.rev = told.rev /\ told'.prov = told.prov
  BY <1>0, <1>1, <1>3
<1>5. UNCHANGED <<live, journal, st, pc, tx, todo>> /\ TypeInv'
  <2>1. [Next]_vars
    BY <1>1
  <2>. QED  BY <1>0, <1>1, <2>1, TypeInvNext DEF vars
<1> HIDE DEF c
<1>6. cmd' \in Running /\ cmd' # NoCmd
  BY <1>1, <1>2, RunningFields
<1>7. CoordTypes'
  BY <1>1, <1>4, <1>5, <1>6 DEF CoordTypes, Busy, Applying
<1>8. CmdInv'
  BY <1>0, <1>1, <1>2, <1>4, <1>5 DEF Accepts, CmdInv, CoordInv, RecoveryInv, NoResults
<1>9. TargetInv' /\ RecoveryInv'
  BY <1>1, <1>5, <1>6 DEF TargetInv, RecoveryInv, Applying, Journaled
<1>10. ChainJournalInv' /\ ToldInv'
  BY <1>4, <1>5, OutcomesFrame DEF CoordInv, ToldInv, NoResults
<1>. QED  BY <1>7, <1>8, <1>9, <1>10 DEF CoordInv

\* A target is submitted, is done, or has failed.
LEMMA CoordTarget ==
  ASSUME CoordInv, SubmitTarget \/ TargetDone \/ TargetFails
  PROVE  CoordInv'
<1>0. /\ CoordTypes /\ TypeInv /\ TypeOK /\ cmd \in Running \cup {NoCmd}
      /\ told \in [rev : Nat, prov : Nat, out : [Targets -> Results]]
  BY DEF CoordInv, CoordTypes, TypeInv
<1>1. CASE SubmitTarget
  <2>1. /\ pc = "ready" /\ cmd \in Running /\ cmd.left # <<>>
        /\ tx' \in Transactions /\ tx'.next = cmd.next /\ tx'.prior = cmd.prior
        /\ tx'.target = Head(cmd.left)
        /\ tx'.files = {f \in FilesOf(tx'.target) : live[f] # Rendered(cmd.next)}
        /\ \A f \in Files : tx'.new[f] = Rendered(cmd.next)
        /\ todo' = tx'.files /\ pc' \in {"backup", "journal"}
        /\ UNCHANGED <<disk, edits, cmd, told>>
    BY <1>0, <1>1, SubmitTargetFields
  <2>2. cmd # NoCmd /\ UNCHANGED faults
    BY <1>1 DEF SubmitTarget, AtTarget
  <2>3. TypeInv'
    BY <1>0, <2>1, <2>2 DEF TypeInv, TypeOK, Phases, Applying, Transactions, disk
  <2>4. CoordTypes'
    BY <1>0, <2>1, <2>2, <2>3 DEF CoordTypes, Busy, Applying
  <2>5. CmdInv'
    BY <2>1, <2>2 DEF CoordInv, CmdInv, FilesShow, FilesOf, NoResults, disk
  <2>6. TargetInv' /\ RecoveryInv'
    BY <2>1, <2>2 DEF TargetInv, RecoveryInv, Applying, Journaled, FilesOf, Rendered, disk
  <2>7. ChainJournalInv' /\ ToldInv'
    BY <2>1, <2>2, OutcomesFrame DEF CoordInv, CmdInv, ToldInv, NoResults, disk
  <2>. QED  BY <2>4, <2>5, <2>6, <2>7 DEF CoordInv
\* The result of the target is noted, and the next one is up.
<1>2. ASSUME NEW t \in Targets, NEW r \in Results, cmd \in Running, cmd.left # <<>>,
             cmd' = [cmd EXCEPT !.out[t] = r, !.left = Tail(@)],
             r = "applied" => FilesShow(t, cmd.next),
             pc' = "ready", TypeInv', UNCHANGED <<live, journal, st, told>>
      PROVE  CoordInv'
  <2> DEFINE o == [cmd.out EXCEPT ![t] = r]
             l == Tail(cmd.left)
  <2>1. o \in [Targets -> Results] /\ l \in Seq(Targets)
    BY <1>2, RunningFields, LeftAfter
  <2>2. \A u \in Targets : o[u] = IF u = t THEN r ELSE cmd.out[u]
    BY <1>2, RunningFields
  <2>3. cmd' = [cmd EXCEPT !.out = o, !.left = l]
    BY <1>2 DEF Running
  <2> HIDE DEF o, l
  <2>4. /\ cmd' \in Running /\ cmd'.out = o /\ cmd'.next = cmd.next /\ cmd'.prior = cmd.prior
    BY <1>2, <2>1, <2>3 DEF Running
  <2>5. cmd' # NoCmd /\ cmd # NoCmd
    BY <1>2, <2>4, RunningFields
  <2>6. CoordTypes'
    BY <1>0, <1>2, <2>4, <2>5 DEF CoordTypes, Busy, Applying
  <2>7. CmdInv'
    <3>1. \A u \in Targets : o[u] = "applied" => FilesShow(u, cmd.next)
      BY <1>2, <2>2, <2>5 DEF CoordInv, CmdInv
    <3>. QED  BY <1>2, <2>4, <2>5, <3>1 DEF CoordInv, CmdInv, FilesShow, FilesOf, NoResults
  <2>8. TargetInv' /\ RecoveryInv'
    BY <1>2, <2>5 DEF TargetInv, RecoveryInv, Applying, Journaled
  <2>9. ChainJournalInv' /\ ToldInv'
    BY <1>2, <2>5, OutcomesFrame DEF CoordInv, CmdInv, ToldInv, NoResults
  <2>. QED  BY <2>6, <2>7, <2>8, <2>9 DEF CoordInv
<1>3. CASE TargetDone
  <2>1. /\ pc \in {"applied", "failed"} /\ pc' = "ready" /\ tx' = NoTx
        /\ UNCHANGED <<disk, todo, edits, faults, told>>
    BY <1>3 DEF TargetDone
  <2>2. cmd \in Running /\ cmd.left # <<>> /\ tx.target \in Targets
    BY <1>0, <2>1 DEF CoordTypes, Busy, Transactions
  <2> DEFINE r == IF pc = "applied" THEN "applied" ELSE "pending"
  <2>3. r \in Results /\ (r = "applied" => FilesShow(tx.target, cmd.next))
    BY <2>1 DEF Results, CoordInv, TargetInv
  <2>4. cmd' = [cmd EXCEPT !.out[tx.target] = r, !.left = Tail(@)]
    BY <1>3 DEF TargetDone
  <2>5. TypeInv'
    BY <1>0, <2>1 DEF TypeInv, TypeOK, Phases, Applying, disk
  <2> HIDE DEF r
  <2>. QED  BY <1>2, <2>1, <2>2, <2>3, <2>4, <2>5 DEF disk
<1>4. CASE TargetFails
  <2>1. /\ pc = "ready" /\ cmd # NoCmd /\ cmd.left # <<>> /\ Fault("invalid")
        /\ cmd' = [cmd EXCEPT !.out[Head(cmd.left)] = "pending", !.left = Tail(@)]
        /\ UNCHANGED <<disk, pc, tx, todo, edits, told>>
    BY <1>4 DEF TargetFails, AtTarget
  <2>2. TypeInv'
    BY <1>0, <2>1, PublisherAssumption DEF TypeInv, TypeOK, Applying, Fault, disk
  <2>3. Head(cmd.left) \in Targets /\ cmd \in Running
    BY <1>0, <2>1, RunningFields, LeftAfter
  <2>. QED  BY <1>2, <2>1, <2>2, <2>3 DEF disk, Results
<1>. QED  BY <1>1, <1>3, <1>4

\* The last save: the outcomes recorded, or nothing of them.
LEMMA FinalState ==
  ASSUME CoordTypes, cmd # NoCmd
  PROVE  /\ Final \in States /\ Final.rev = cmd.next.rev /\ Final.prov = cmd.next.prov
         /\ \A t \in Registered :
              /\ cmd.out[t] = "none" => Final.tgt[t] = cmd.next.tgt[t]
              /\ cmd.out[t] = "applied" =>
                   Final.tgt[t] = [applied |-> Final.rev, attempted |-> Final.rev, pending |-> "none"]
              /\ cmd.out[t] = "pending" => Final.tgt[t].pending = "publish"
<1> DEFINE s == IF cmd.kind \in {"init", "poll"} THEN cmd.next ELSE Retire(cmd.next)
<1>1. cmd \in Running /\ cmd.next \in States /\ cmd.out \in [Targets -> Results]
  BY RunningFields DEF CoordTypes
<1>2. /\ s \in States /\ s.rev = cmd.next.rev /\ s.prov = cmd.next.prov
      /\ \A t \in Registered : s.tgt[t] = cmd.next.tgt[t]
  BY <1>1, RetireType
<1>3. Final = RecordOutcomes(s, cmd.out)
  BY DEF Final
<1> HIDE DEF s
<1>4. /\ Final \in States /\ Final.rev = s.rev /\ Final.prov = s.prov
      /\ \A t \in Targets :
           /\ cmd.out[t] = "none" => Final.tgt[t] = s.tgt[t]
           /\ cmd.out[t] = "applied" =>
                Final.tgt[t] = [applied |-> s.rev, attempted |-> s.rev, pending |-> "none"]
           /\ cmd.out[t] = "pending" => Final.tgt[t].pending = "publish"
  BY <1>1, <1>2, <1>3, RecordOutcomesType
<1> HIDE DEF Final
<1>. QED  BY <1>2, <1>4, RegisteredTargets

\* The last save makes the reported results true (recordTargetOutcomes).
LEMMA CoordFinish ==
  ASSUME CoordInv, Finish
  PROVE  CoordInv'
<1>0. /\ CoordTypes /\ TypeInv /\ TypeOK /\ cmd \in Running /\ cmd # NoCmd
      /\ told \in [rev : Nat, prov : Nat, out : [Targets -> Results]]
      /\ st.rev \in Nat /\ st.prov \in Nat
  BY DEF CoordInv, CoordTypes, TypeInv, TypeOK, States, Finish
<1>1. /\ pc = "ready" /\ SaveState(Final, "idle", "idle") /\ cmd' = NoCmd
      /\ told' = IF faults' = faults
                 THEN [rev |-> cmd.next.rev, prov |-> cmd.next.prov, out |-> cmd.out]
                 ELSE told
      /\ UNCHANGED <<live, durable, backups, journal, jdisk, tx, edits>>
  BY DEF Finish
<1>2. /\ Final \in States /\ Final.rev = cmd.next.rev /\ Final.prov = cmd.next.prov
  BY <1>0, FinalState
<1>3. /\ cmd.next \in States /\ cmd.out \in [Targets -> Results] /\ cmd.prior \in Nat
      /\ cmd.next.rev \in Nat /\ cmd.next.prov \in Nat
  BY <1>0, RunningFields DEF States
<1>4. /\ st' \in {st, Final} /\ st' \in States /\ pc' = "idle" /\ faults' \in 0..MaxFaults
      /\ todo' \in {todo, {}}
  BY <1>0, <1>1, <1>2, SaveStateType DEF Phases
<1>5. faults' = faults => st' = Final
  BY <1>0, <1>1 DEF SaveState, Fails, Fault, TypeOK
<1>6. TypeInv'
  BY <1>0, <1>1, <1>4 DEF TypeInv, TypeOK, Phases, Applying
<1>7. \/ told' = told
      \/ /\ told' = [rev |-> cmd.next.rev, prov |-> cmd.next.prov, out |-> cmd.out]
         /\ st' = Final
  BY <1>1, <1>5
<1>8. CoordTypes'
  BY <1>0, <1>1, <1>3, <1>4, <1>6, <1>7 DEF CoordTypes, Busy, Applying
<1>9. CmdInv' /\ TargetInv' /\ RecoveryInv'
  BY <1>1, <1>4 DEF CmdInv, TargetInv, RecoveryInv, Applying, Journaled
\* The journal is the command's own, and its revision saved, or of the revision
\* the command started from.
<1>10. st' = Final => ~Active'
  BY <1>0, <1>1, <1>2, <1>3 DEF Active, CoordInv, CmdInv, ChainJournalInv, TypeOK, Journals
<1>11. ChainJournalInv'
  <2>1. CASE st' = st
    BY <1>1, <2>1, OutcomesFrame DEF CoordInv
  <2>2. CASE st' = Final
    BY <1>1, <1>10, <2>2 DEF CoordInv, ChainJournalInv
  <2>. QED  BY <1>4, <2>1, <2>2
<1>12. ToldInv'
  <2>1. told.out = NoResults
    BY <1>0 DEF CoordInv, CmdInv
  <2>2. /\ st'.rev >= st.rev /\ st'.prov >= st.prov /\ st'.prov <= st'.rev
        /\ st'.rev \in Nat /\ st'.prov \in Nat
    BY <1>0, <1>2, <1>3, <1>4 DEF CoordInv, CmdInv, ToldInv
  <2>3. CASE told' = told
    BY <1>0, <2>1, <2>2, <2>3 DEF CoordInv, ToldInv, NoResults
  <2>4. CASE told' = [rev |-> cmd.next.rev, prov |-> cmd.next.prov, out |-> cmd.out] /\ st' = Final
    <3>1. ASSUME NEW t \in Registered
          PROVE  Reported(t)'
      <4>1. t \in Targets /\ (cmd.out[t] = "applied" => FilesShow(t, cmd.next))
        BY <1>0, RegisteredTargets DEF CoordInv, CmdInv
      <4>2. /\ cmd.out[t] = "applied" =>
                 Final.tgt[t] = [applied |-> Final.rev, attempted |-> Final.rev, pending |-> "none"]
            /\ cmd.out[t] = "pending" => Final.tgt[t].pending = "publish"
        BY <1>0, FinalState
      <4>. QED  BY <1>1, <2>4, <4>1, <4>2 DEF Reported, FilesShow, FilesOf, Rendered
    <3>2. told'.rev = cmd.next.rev /\ told'.prov = cmd.next.prov
      BY <2>4
    <3>. QED  BY <1>1, <1>2, <1>3, <1>4, <1>10, <2>2, <2>4, <3>1, <3>2 DEF ToldInv, Registered
  <2>. QED  BY <1>7, <2>3, <2>4
<1>. QED  BY <1>8, <1>9, <1>11, <1>12 DEF CoordInv

\* The command ends without a last save: nothing was accepted, or it was killed.
LEMMA CoordEnd ==
  ASSUME CoordInv, Reject \/ Die
  PROVE  CoordInv'
<1>0. CoordTypes /\ TypeInv /\ TypeOK
  BY DEF CoordInv, CoordTypes, TypeInv
<1>1. pc' = "idle" /\ cmd' = NoCmd /\ UNCHANGED <<disk, edits, told>>
  BY DEF Reject, NothingToDo, Die, Kill
<1>2. TypeInv'
  <2>1. Next
    BY DEF Reject, Die, Next, Environment
  <2>. QED  BY <1>0, <2>1, TypeInvNext
<1>3. CoordTypes' /\ CmdInv' /\ TargetInv' /\ RecoveryInv'
  BY <1>0, <1>1, <1>2 DEF CoordTypes, CmdInv, TargetInv, RecoveryInv, Busy, Applying, Journaled
<1>4. ChainJournalInv'
  BY <1>1, OutcomesFrame DEF CoordInv, disk
<1>5. ToldInv'
  <2>1. Active' = Active /\ \A t : Reported(t)' = Reported(t)
    BY <1>1 DEF Active, Reported, FilesOf, disk
  <2>. QED  BY <1>1, <2>1 DEF CoordInv, ToldInv, NoResults, disk
<1>. QED  BY <1>3, <1>4, <1>5 DEF CoordInv

\* Every step keeps the invariant, a step that changes nothing included.
LEMMA CoordNextInv == CoordInv /\ [CoordNext]_cvars => CoordInv'
<1> SUFFICES ASSUME CoordInv, [CoordNext]_cvars PROVE CoordInv'
  OBVIOUS
<1>0. CoordTypes /\ TypeInv /\ st.prov <= st.rev
  BY DEF CoordInv, CoordTypes, ToldInv
<1>1. CASE (Begin \/ Recover) /\ UNCHANGED <<cmd, told>>
  <2>1. TypeInv'
    BY <1>0, <1>1, TypeInvRecover
  <2>2. CASE \/ Begin \/ RecoverNoop \/ RecoverCommitted \/ RecoverStale \/ BeginRestore
             \/ CleanupJournal
             \/ \E f \in Files : RestoreFails(f)
    BY <1>1, <2>1, <2>2, CoordRecoverQuiet
  <2>3. CASE RollForward \/ FinishRestore \/ RefuseExternal \/ \E f \in Files : RestoreFile(f)
    BY <1>1, <2>1, <2>3, CoordRecoverInDoubt
  <2>. QED  BY <1>1, <2>2, <2>3 DEF Recover
<1>2. CASE ApplyUnderLock /\ UNCHANGED <<cmd, told>>
  <2>1. TypeInv'
    BY <1>0, <1>2, TypeInvApply
  <2>. QED  BY <1>2, <2>1, CoordApply
<1>3. CASE \/ \E kind \in Commands : Start(kind) \/ StartWithoutTargets(kind)
           \/ ResolveFails("manual", ManualId) \/ ResolveFails("check", QuotaId)
  <2>1. PICK kind, next, targets, out : Accepts(kind, next, targets, out)
    BY <1>0, <1>3, AcceptedCommand
  <2>. QED  BY <2>1, CoordAccept
<1>4. CASE SubmitTarget \/ TargetDone \/ TargetFails
  BY <1>4, CoordTarget
<1>5. CASE Finish
  BY <1>5, CoordFinish
<1>6. CASE Reject \/ Die
  BY <1>6, CoordEnd
<1>7. CASE UNCHANGED cvars
  <2>1. UNCHANGED vars /\ UNCHANGED <<cmd, told>>
    BY <1>7 DEF cvars
  <2>2. TypeInv'
    BY <1>0, <2>1, TypeInvNext
  <2>3. CoordTypes' /\ CmdInv' /\ TargetInv' /\ RecoveryInv'
    <3>1. /\ UNCHANGED <<live, journal, st, pc, tx, todo, cmd, told>>
          /\ \A t, s : FilesShow(t, s) => \A f \in FilesOf(t) : live'[f] = Rendered(s)
      BY <2>1 DEF vars, FilesShow
    <3>2. CoordTypes' /\ RecoveryInv'
      BY <1>0, <2>2, <3>1 DEF CoordInv, CoordTypes, RecoveryInv, Active, Busy, Applying
    <3>3. CmdInv'
      BY <3>1 DEF CoordInv, CmdInv, FilesShow, FilesOf, Rendered, NoResults
    <3>4. TargetInv'
      BY <3>1 DEF CoordInv, TargetInv, FilesShow, FilesOf, Rendered, Applying, Journaled
    <3>. QED  BY <3>2, <3>3, <3>4
  <2>4. ChainJournalInv' /\ ToldInv'
    <3>1. UNCHANGED <<live, journal, st, pc, cmd, told>>
      BY <2>1 DEF vars
    <3>2. Active' = Active /\ \A t : Reported(t)' = Reported(t)
      BY <3>1 DEF Active, Reported, FilesOf
    <3>. QED  BY <3>1, <3>2, OutcomesFrame DEF CoordInv, ToldInv, NoResults
  <2>. QED  BY <2>3, <2>4 DEF CoordInv
<1>. QED  BY <1>1, <1>2, <1>3, <1>4, <1>5, <1>6, <1>7 DEF CoordNext, Command

\* The state and the memory of the coordinator fit together in every reachable
\* state, whichever phases, recovery's included, fail or are killed.
THEOREM CoordInvariant == CoordSpec => []CoordInv
<1>. QED  BY CoordInitInv, CoordNextInv, PTL DEF CoordSpec

\* Every variable of the coordinator keeps its type.
THEOREM CoordTypeCorrect == CoordSpec => []CoordTypeOK
<1>1. CoordInv => CoordTypeOK
  BY DEF CoordInv, CoordTypes, CoordTypeOK, TypeInv
<1>. QED  BY <1>1, CoordInvariant, PTL

\* An event whose command was answered "accepted" stays in state.json: no later
\* command and no recovery saves a state from before it.
THEOREM AcceptedEventsKeptHolds == CoordSpec => []AcceptedEventsKept
<1>1. CoordInv => AcceptedEventsKept
  BY DEF CoordInv, CoordTypes, TypeInv, TypeOK, States, ToldInv, AcceptedEventsKept
<1>. QED  BY <1>1, CoordInvariant, PTL

\* What the last command reported of its targets is what state.json and the
\* chain files show, until the next command is accepted.
THEOREM ReportedResultsHolds == CoordSpec => []ReportedResults
<1>1. ASSUME CoordInv PROVE ReportedResults
  <2>1. ASSUME NEW t \in Registered, told.out[t] # "none"
        PROVE  Reported(t)
    <3>1. told.out # NoResults
      BY <2>1, RegisteredTargets DEF NoResults
    <3>. QED  BY <1>1, <3>1 DEF CoordInv, ToldInv
  <2>. QED  BY <2>1 DEF ReportedResults, Reported
<1>. QED  BY <1>1, CoordInvariant, PTL

-----------------------------------------------------------------------------
(***************************************************************************)
(* A pending target is cleared only by what its files show.                *)
(***************************************************************************)
ClearedWhole(t) ==
  st.tgt[t].pending # "none" /\ st'.tgt[t].pending = "none" =>
    \A f, g \in FilesOf(t) : live[f] = live[g]

\* The journal of a batch found complete speaks for every file of its target.
LEMMA RollForwardWhole ==
  ASSUME CoordInv, RollForward, NEW t \in Registered
  PROVE  ClearedWhole(t)
<1>1. /\ TypeOK /\ journal \in Journals /\ st \in States /\ t \in Targets
      /\ journal # NoJournal /\ Active /\ AllIntendedPresent
  BY RegisteredTargets
  DEF CoordInv, CoordTypes, TypeInv, TypeOK, RollForward, InDoubt, Active
<1>2. st' = st \/ st' = AdvanceState(TRUE)
  BY DEF RollForward, SaveState
<1>3. CASE t = journal.target
  <2>1. \A f \in FilesOf(t) : live[f] = journal.new[f]
    BY <1>1, <1>3 DEF CoordInv, ChainJournalInv, AllIntendedPresent
  <2>2. \A f, g \in FilesOf(t) : journal.new[f] = journal.new[g]
    BY <1>1 DEF CoordInv, ChainJournalInv, FilesOf
  <2>. QED  BY <2>1, <2>2 DEF ClearedWhole
<1>4. CASE t # journal.target
  <2>1. AdvanceState(TRUE).tgt[t] = st.tgt[t]
    BY <1>1, <1>4 DEF AdvanceState, States
  <2>. QED  BY <1>2, <2>1 DEF ClearedWhole
<1>. QED  BY <1>3, <1>4

\* A recovery that restores or refuses leaves its target pending.
LEMMA RestoreKeepsPending ==
  ASSUME CoordInv, FinishRestore \/ RefuseExternal, NEW t \in Registered
  PROVE  ClearedWhole(t)
<1>1. /\ journal \in Journals /\ st \in States /\ t \in Targets /\ journal.target \in Targets
  <2>1. Active
    BY DEF FinishRestore, RefuseExternal, InDoubt, Active, CoordInv, RecoveryInv
  <2>. QED
    BY <2>1, RegisteredTargets DEF CoordInv, CoordTypes, TypeInv, TypeOK, Active, Journals
<1>2. CASE FinishRestore
  <2>1. st' = st \/ st' = AdvanceState(FALSE)
    BY <1>2 DEF FinishRestore, SaveState
  <2>2. /\ t = journal.target => AdvanceState(FALSE).tgt[t].pending = "publish"
        /\ t # journal.target => AdvanceState(FALSE).tgt[t] = st.tgt[t]
    BY <1>1 DEF AdvanceState, States
  <2>. QED  BY <2>1, <2>2 DEF ClearedWhole
<1>3. CASE RefuseExternal
  <2> DEFINE u == journal.target
             T == [st.tgt EXCEPT ![u] = [@ EXCEPT !.attempted = journal.next, !.pending = "recover"]]
             s == [st EXCEPT !.tgt[u].attempted = journal.next, !.tgt[u].pending = "recover"]
  <2>1. st' = st \/ st' = s
    BY <1>3 DEF RefuseExternal, SaveState
  <2>2. s.tgt = T /\ st.tgt \in [Targets -> Outcomes]
    BY <1>1 DEF States
  <2>3. /\ t = u => T[t].pending = "recover"
        /\ t # u => T[t] = st.tgt[t]
    BY <1>1, <2>2 DEF Outcomes
  <2> HIDE DEF s, T
  <2>. QED  BY <2>1, <2>2, <2>3 DEF ClearedWhole
<1>. QED  BY <1>2, <1>3

\* The last save clears the targets that were applied, and their files show it.
LEMMA FinishWhole ==
  ASSUME CoordInv, Finish, NEW t \in Registered
  PROVE  ClearedWhole(t)
<1>1. CoordTypes /\ cmd # NoCmd /\ cmd \in Running /\ t \in Targets
  BY RegisteredTargets DEF CoordInv, CoordTypes, Finish
<1>2. cmd.out[t] \in Results /\ cmd.next.tgt[t] = st.tgt[t]
  BY <1>1, RunningFields DEF CoordInv, CmdInv
<1>3. st' = st \/ st' = Final
  BY DEF Finish, SaveState
<1>4. CASE cmd.out[t] = "none"
  BY <1>1, <1>2, <1>3, <1>4, FinalState DEF ClearedWhole
<1>5. CASE cmd.out[t] = "applied"
  BY <1>1, <1>5 DEF CoordInv, CmdInv, FilesShow, ClearedWhole
<1>6. CASE cmd.out[t] = "pending"
  <2>1. Final.tgt[t].pending = "publish"
    BY <1>1, <1>6, FinalState
  <2>. QED  BY <1>3, <2>1 DEF ClearedWhole
<1>. QED  BY <1>2, <1>4, <1>5, <1>6 DEF Results

\* The steps that leave every registered target's outcome as it is.
LEMMA OutcomesKept ==
  ASSUME CoordInv, [CoordNext]_cvars, ~RollForward, ~FinishRestore, ~RefuseExternal, ~Finish
  PROVE  \A t \in Registered : st'.tgt[t] = st.tgt[t]
<1>1. CASE (Begin \/ Recover) /\ UNCHANGED <<cmd, told>>
  <2>1. UNCHANGED st
    BY <1>1 DEF Begin, Recover, RecoverNoop, RecoverCommitted, RecoverStale, BeginRestore,
       RestoreFile, RestoreFails, CleanupJournal, disk
  <2>. QED  BY <2>1
<1>2. CASE ApplyUnderLock
  <2>1. CASE Commit
    <3>1. pc = "commit" /\ st' \in {st, tx.next}
      BY <2>1 DEF Commit, SaveState
    <3>2. cmd # NoCmd /\ tx.next = cmd.next
      BY <3>1 DEF CoordInv, CoordTypes, Busy, Applying
    <3>. QED  BY <3>1, <3>2 DEF CoordInv, CmdInv
  <2>2. CASE ~Commit
    BY <1>2, <2>2 DEF ApplyUnderLock, TakeBackup, BackupFails, WriteJournal, Prepare, PrepareFails,
       RenameFile, SyncDirs, RecordProgress, StepFails, RemoveJournal, disk
  <2>. QED  BY <2>1, <2>2
<1>3. CASE Command \/ TargetFails \/ Die \/ UNCHANGED cvars
  BY <1>3 DEF Command, Start, StartWithoutTargets, ResolveFails, Reject, NothingToDo, SubmitTarget,
     TargetDone, TargetFails, Die, Kill, vars, cvars, disk
<1>. QED  BY <1>1, <1>2, <1>3 DEF CoordNext

\* A target stops being pending only when its files are all of one rendering:
\* recovery rolls a batch forward only when it is the whole of the target, and
\* the last save clears only a target whose every file was written.
THEOREM PendingClearedWholeHolds == CoordSpec => PendingClearedWhole
<1>1. ASSUME CoordInv, [CoordNext]_cvars, NEW t \in Registered
      PROVE  ClearedWhole(t)
  <2>1. CASE RollForward
    BY <1>1, <2>1, RollForwardWhole
  <2>2. CASE FinishRestore \/ RefuseExternal
    BY <1>1, <2>2, RestoreKeepsPending
  <2>3. CASE Finish
    BY <1>1, <2>3, FinishWhole
  <2>4. CASE ~RollForward /\ ~FinishRestore /\ ~RefuseExternal /\ ~Finish
    BY <1>1, <2>4, OutcomesKept DEF ClearedWhole
  <2>. QED  BY <2>1, <2>2, <2>3, <2>4
<1>2. CoordInv /\ [CoordNext]_cvars =>
        [\A t \in Registered :
           st.tgt[t].pending # "none" /\ st'.tgt[t].pending = "none" =>
             \A f, g \in FilesOf(t) : live[f] = live[g]]_cvars
  BY <1>1 DEF ClearedWhole
<1>. QED  BY <1>2, CoordInvariant, PTL DEF CoordSpec, PendingClearedWhole
=============================================================================
