------------------------------ MODULE Publisher ------------------------------
(***************************************************************************)
(* internal/publish: the write-ahead publisher.                            *)
(*                                                                         *)
(* A locked transaction recovers any journal an interrupted one left,      *)
(* and then either saves state.json alone (an accepted observation) or     *)
(* applies one target: back up every live file, write the journal, check   *)
(* every staged candidate, rename the candidates over the live files,      *)
(* fsync the directories, rewrite the journal, save state.json (the        *)
(* commit) and remove the journal.  Every one of these steps may fail, and *)
(* the process or the machine may stop between any two of them.  Editors   *)
(* and operators write the managed files at any time without the lock.     *)
(*                                                                         *)
(* One transaction runs at a time: the advisory flock is held from Begin   *)
(* to Return, and the kernel drops it when the process dies.               *)
(***************************************************************************)
EXTENDS Naturals, FiniteSets

CONSTANTS
  Files,        \* the managed live files
  Targets,      \* the registered targets
  TargetOf,     \* the target a file belongs to
  BackupLimit,  \* BackupStore.Limit, clamped to at least 1 by SetBackupLimit
  MaxRev,       \* bound: no new transaction is accepted at this revision
  MaxSeq,       \* bound: no new transaction for a file with this many snapshots taken
  MaxEdits,     \* bound: writes of live files by others
  MaxFaults,    \* bound: failing steps and crashes
  FaultKinds,   \* the faults that may happen: "error", "kill", "power"
  FaultAt,      \* the phases (values of pc) at which a fault may happen
  EditAt        \* the phases at which others may write a managed file

Kinds == {"toggle", "gate", "set", "chain"}
Phases == {"idle", "recover", "restore", "recovered", "ready", "backup", "journal",
           "prepare", "rename", "syncdir", "progress", "commit", "remove",
           "applied", "failed"}

ASSUME PublisherAssumption ==
  /\ TargetOf \in [Files -> Targets]
  /\ BackupLimit \in Nat \ {0}
  /\ MaxRev \in Nat
  /\ MaxSeq \in Nat
  /\ MaxEdits \in Nat
  /\ MaxFaults \in Nat

VARIABLES
  live,     \* bytes of each managed file, as any reader sees them now
  durable,  \* bytes of each managed file a power loss would leave
  backups,  \* the numbered backups kept for each file
  journal,  \* the journal file, or NoJournal
  jdisk,    \* the journal file a power loss would leave
  st,       \* state.json
  pc,       \* the step the locked transaction is about to take
  tx,       \* the publish.Transaction under way, in memory only
  todo,     \* the files the current loop has still to visit
  edits,    \* number of writes by others so far
  faults    \* number of faults so far

vars == <<live, durable, backups, journal, jdisk, st, pc, tx, todo, edits, faults>>
disk == <<live, durable, backups, journal, jdisk, st>>

(***************************************************************************)
(* Bytes are tokens: quota's candidate is named by the revision it was     *)
(* rendered for and by the provider events it was rendered from; bytes     *)
(* from elsewhere are numbered.  Two different writes never collide, as    *)
(* the SHA-256 comparisons of the code assume.                             *)
(***************************************************************************)
Absent == [by |-> "nobody", n |-> 0, prov |-> 0]
UserBytes(n) == [by |-> "user", n |-> n, prov |-> 0]
QuotaBytes(n, p) == [by |-> "quota", n |-> n, prov |-> p]
Bytes == [by : {"nobody", "user", "quota"}, n : Nat, prov : Nat]

\* state.json, as far as publication and recovery read or write it: the
\* revision, the last provider event accepted into Providers, the ownership
\* claims (the revision whose bytes they describe, 0 when there are none yet),
\* the notice debt, and one outcome per target.
Outcomes == [applied : Nat, attempted : Nat, pending : {"none", "publish", "recover"}]
States == [rev : Nat, prov : Nat, own : Nat, notice : Nat, tgt : [Targets -> Outcomes]]

Transactions == [next : States, target : Targets, files : SUBSET Files,
                 old : [Files -> Bytes], new : [Files -> Bytes],
                 seq : [Files -> Nat], prior : Nat, noticeSet : BOOLEAN]

Journals == [prior : Nat, next : Nat, target : Targets, files : SUBSET Files,
             old : [Files -> Bytes], new : [Files -> Bytes], seq : [Files -> Nat],
             own : Nat, ownSet : BOOLEAN, noticeSet : BOOLEAN, notice : Nat]
NoJournal == [none |-> TRUE]
NoTx == [none |-> TRUE]

TypeOK ==
  /\ live \in [Files -> Bytes]
  /\ durable \in [Files -> Bytes]
  /\ backups \in [Files -> SUBSET [seq : Nat \ {0}, bytes : Bytes]]
  /\ journal \in Journals \cup {NoJournal}
  /\ jdisk \in Journals \cup {NoJournal}
  /\ st \in States
  /\ pc \in Phases
  /\ tx \in Transactions \cup {NoTx}
  /\ todo \in SUBSET Files
  /\ edits \in 0..MaxEdits
  /\ faults \in 0..MaxFaults

Init ==
  /\ live = [f \in Files |-> UserBytes(0)]
  /\ durable = live
  /\ backups = [f \in Files |-> {}]
  /\ journal = NoJournal /\ jdisk = NoJournal
  /\ st = [rev |-> 0, prov |-> 0, own |-> 0, notice |-> 0,
           tgt |-> [t \in Targets |-> [applied |-> 0, attempted |-> 0, pending |-> "none"]]]
  /\ pc = "idle" /\ tx = NoTx /\ todo = {}
  /\ edits = 0 /\ faults = 0

-----------------------------------------------------------------------------
(***************************************************************************)
(* Failing steps, and the two saves every path shares.                     *)
(***************************************************************************)
Fault(kind) ==
  /\ kind \in FaultKinds /\ pc \in FaultAt
  /\ faults < MaxFaults
  /\ faults' = faults + 1

\* An error return: ApplyUnderLock hands it to its caller ("failed"), Recover's
\* error ends the transaction ("idle").
Fails(where) ==
  /\ Fault("error")
  /\ pc' = where /\ todo' = {}

\* Store.Save: temp file, fsync, rename, directory fsync.  An error before the
\* rename leaves the old state.json, one after it leaves the new one.
SaveState(s, then, else) ==
  \/ st' = s /\ pc' = then /\ UNCHANGED <<todo, faults>>
  \/ Fails(else) /\ st' \in {st, s}

\* removeJournal: a failure leaves the journal.  The directory is not synced
\* after the removal, so until the next journal is written a power loss may
\* bring the removed one back.
RemoveJournalFile(then, else) ==
  \/ journal' = NoJournal /\ pc' = then /\ UNCHANGED <<todo, faults>>
  \/ Fails(else) /\ UNCHANGED journal

\* One iteration of a loop over the files of S: after the last one, go on to
\* the next phase with its own loop still to run.
LoopStep(f, S, next) ==
  /\ f \in todo
  /\ IF todo = {f} THEN todo' = S /\ pc' = next
                   ELSE todo' = todo \ {f} /\ UNCHANGED pc

-----------------------------------------------------------------------------
(***************************************************************************)
(* Publisher.Recover, run once at the top of every locked transaction.     *)
(***************************************************************************)
\* The lock is acquired and state.json loaded.
Begin ==
  /\ pc = "idle"
  /\ pc' = "recover"
  /\ UNCHANGED <<disk, tx, todo, edits, faults>>

RecoverNoop ==
  /\ pc = "recover" /\ journal = NoJournal
  /\ pc' = "ready"
  /\ UNCHANGED <<disk, tx, todo, edits, faults>>

\* Mutants: the revision is not compared; the journal is left behind.
RecoverCommittedAnyRevision ==
  /\ pc = "recover" /\ journal # NoJournal
  /\ RemoveJournalFile("ready", "ready")
  /\ UNCHANGED <<live, durable, backups, jdisk, st, tx, edits>>
RecoverCommittedKeeps ==
  /\ pc = "recover" /\ journal # NoJournal /\ st.rev = journal.next
  /\ pc' = "ready"
  /\ UNCHANGED <<disk, tx, todo, edits, faults>>

\* The next revision is already committed: drop the journal.  A removal error
\* is reported as CleanupError and the transaction goes on.
RecoverCommitted ==
  /\ pc = "recover" /\ journal # NoJournal
  /\ st.rev = journal.next
  /\ RemoveJournalFile("ready", "ready")
  /\ UNCHANGED <<live, durable, backups, jdisk, st, tx, edits>>

InDoubt == pc = "recover" /\ journal # NoJournal /\ st.rev # journal.next
\* Mutant: one file of the batch stands for all.
SomeIntendedPresent == \E f \in journal.files : live[f] = journal.new[f]
AllIntendedPresent == \A f \in journal.files : live[f] = journal.new[f]
LiveBytesKnown(f) == live[f] \in {Absent, journal.old[f], journal.new[f]}

\* A journal of another base revision is refused and left for inspection.
RecoverStale ==
  /\ InDoubt /\ journal.prior # st.rev
  /\ pc' = "idle"
  /\ UNCHANGED <<disk, tx, todo, edits, faults>>

\* Mutant: the revision is advanced once more.
AdvanceStateTwice(applied) ==
  [st EXCEPT !.rev = journal.next + 1, !.own = IF applied THEN journal.own ELSE @]

\* advanceState: Providers are those of the loaded state; ownership and notice
\* come from the journal only when the target's files were applied.
AdvanceState(applied) ==
  LET out == st.tgt[journal.target] IN
  [rev |-> journal.next,
   prov |-> st.prov,
   own |-> IF applied /\ journal.ownSet THEN journal.own ELSE st.own,
   notice |-> IF applied /\ journal.noticeSet THEN journal.notice ELSE st.notice,
   tgt |-> [st.tgt EXCEPT ![journal.target] =
              IF applied
              THEN [applied |-> journal.next, attempted |-> journal.next, pending |-> "none"]
              ELSE [applied |-> out.applied, attempted |-> journal.next, pending |-> "publish"]]]

RollForward ==
  /\ InDoubt /\ journal.prior = st.rev
  /\ AllIntendedPresent
  /\ SaveState(AdvanceState(TRUE), "recovered", "idle")
  /\ UNCHANGED <<live, durable, backups, journal, jdisk, tx, edits>>

\* Some live file holds bytes the journal does not know: touch no file, keep
\* the journal, record a pending failure at the same revision, and fail.
RefuseExternal ==
  /\ InDoubt /\ journal.prior = st.rev
  /\ ~AllIntendedPresent
  /\ \E f \in journal.files : ~LiveBytesKnown(f)
  /\ SaveState([st EXCEPT !.tgt[journal.target].attempted = journal.next,
                          !.tgt[journal.target].pending = "recover"], "idle", "idle")
  /\ UNCHANGED <<live, durable, backups, journal, jdisk, tx, edits>>

BeginRestore ==
  /\ InDoubt /\ journal.prior = st.rev
  /\ ~AllIntendedPresent
  /\ \A f \in journal.files : LiveBytesKnown(f)
  /\ pc' = "restore" /\ todo' = journal.files
  /\ UNCHANGED <<disk, tx, edits, faults>>

BackupOf(f) == {b \in backups[f] : b.seq = journal.seq[f]}

\* BackupStore.Restore: copy the backup over the live file durably, then
\* remove the backup.  It may fail after the copy: before the directory is
\* synced, or when the backup is removed.
RestoreFile(f) ==
  /\ pc = "restore" /\ f \in todo
  /\ \E b \in BackupOf(f) :
       /\ live' = [live EXCEPT ![f] = b.bytes]
       /\ \/ /\ durable' = [durable EXCEPT ![f] = b.bytes]
             /\ backups' = [backups EXCEPT ![f] = @ \ {b}]
             /\ todo' = todo \ {f}
             /\ UNCHANGED <<pc, faults>>
          \/ /\ Fails("idle")
             /\ durable' \in {durable, [durable EXCEPT ![f] = b.bytes]}
             /\ UNCHANGED backups
  /\ UNCHANGED <<journal, jdisk, st, tx, edits>>

\* The backup cannot be read, or the live file cannot be written.
RestoreFails(f) ==
  /\ pc = "restore" /\ f \in todo
  /\ \/ /\ BackupOf(f) = {}
        /\ pc' = "idle" /\ todo' = {} /\ UNCHANGED faults
     \/ Fails("idle")
  /\ UNCHANGED <<disk, tx, edits>>

FinishRestore ==
  /\ pc = "restore" /\ todo = {}
  /\ SaveState(AdvanceState(FALSE), "recovered", "idle")
  /\ UNCHANGED <<live, durable, backups, journal, jdisk, tx, edits>>

\* The journal is removed after the recovered state was saved; a removal error
\* is CleanupError only.
CleanupJournal ==
  /\ pc = "recovered"
  /\ RemoveJournalFile("ready", "ready")
  /\ UNCHANGED <<live, durable, backups, jdisk, st, tx, edits>>

-----------------------------------------------------------------------------
(***************************************************************************)
(* The transaction proper: what the caller submits after Recover.          *)
(***************************************************************************)
\* A quota check without reconcile saves accepted observations and publishes
\* nothing: there is no journal on this path.
SaveObservation ==
  /\ pc = "ready" /\ st.rev < MaxRev
  /\ SaveState([st EXCEPT !.rev = @ + 1, !.prov = st.rev + 1], "idle", "idle")
  /\ UNCHANGED <<live, durable, backups, journal, jdisk, tx, edits>>

\* What each kind of caller puts into tx.Next: a manual toggle accepts a
\* provider event and claims the field it writes, the provider gate claims
\* without a new event; under a legacy policy set, clear, disable and enable
\* accept an event ("set") and a reconcile does neither ("chain").
Claiming == {"toggle", "gate"}
NextState(kind) ==
  LET claims == kind \in Claiming IN
  [rev |-> st.rev + 1,
   prov |-> IF kind \in {"toggle", "set"} THEN st.rev + 1 ELSE st.prov,
   own |-> IF claims THEN st.rev + 1 ELSE st.own,
   notice |-> IF claims THEN st.rev + 1 ELSE st.notice,
   tgt |-> st.tgt]

\* Mutant: numbering starts at 0.
NextSeqFromZero(f) == IF backups[f] = {} THEN 0
                      ELSE 1 + (CHOOSE n \in {b.seq : b \in backups[f]} :
                                  \A b \in backups[f] : b.seq <= n)

\* The number after the highest one in use; 1 again once Restore removed the last.
NextSeq(f) == IF backups[f] = {} THEN 1
              ELSE 1 + (CHOOSE n \in {b.seq : b \in backups[f]} :
                          \A b \in backups[f] : b.seq <= n)

\* buildTransaction: the live hashes are read now; every listed file differs
\* from its candidate.  A file that is absent gets the zero digest.
Submit(kind, t, S) ==
  /\ pc = "ready" /\ st.rev < MaxRev
  /\ \A f \in S : TargetOf[f] = t /\ NextSeq(f) <= MaxSeq
  /\ LET n == NextState(kind) IN
     tx' = [next |-> n, target |-> t, files |-> S, old |-> live,
            new |-> [f \in Files |-> QuotaBytes(n.rev, n.prov)],
            seq |-> [f \in Files |-> 0], prior |-> st.rev, noticeSet |-> kind \in Claiming]
  /\ pc' = IF S = {} THEN "journal" ELSE "backup"
  /\ todo' = S
  /\ UNCHANGED <<disk, edits, faults>>

\* Nothing to change: the lock is released without a new revision.
NothingToDo ==
  /\ pc = "ready"
  /\ pc' = "idle"
  /\ UNCHANGED <<disk, tx, todo, edits, faults>>

\* Mutant: one backup too few is kept.
PruneTooMuch(B) == {b \in B : Cardinality({c \in B : c.seq >= b.seq}) < BackupLimit}
\* Retention keeps the BackupLimit newest.
Prune(B) == {b \in B : Cardinality({c \in B : c.seq > b.seq}) < BackupLimit}

\* BackupStore.Snapshot: copies the live file as it is at this moment.
NewBackup(f) == [seq |-> NextSeq(f), bytes |-> live[f]]
TakeBackup(f) ==
  /\ pc = "backup" /\ f \in todo
  /\ live[f] # Absent
  /\ backups' = [backups EXCEPT ![f] = Prune(@ \cup {NewBackup(f)})]
  /\ tx' = [tx EXCEPT !.seq[f] = NextSeq(f)]
  /\ LoopStep(f, {}, "journal")
  /\ UNCHANGED <<live, durable, journal, jdisk, st, edits, faults>>

\* os.Stat of a live file that is not there fails.  Any of the writes may fail,
\* the prune after the copy included: then the new backup is there all the same.
BackupFails(f) ==
  /\ pc = "backup" /\ f \in todo
  /\ \/ /\ live[f] = Absent
        /\ pc' = "failed" /\ todo' = {} /\ UNCHANGED <<backups, faults>>
     \/ /\ live[f] # Absent
        /\ Fails("failed")
        /\ backups' \in {backups, [backups EXCEPT ![f] = @ \cup {NewBackup(f)}]}
  /\ UNCHANGED <<live, durable, journal, jdisk, st, tx, edits>>

\* The journal of a transaction; OwnershipSet when there are claims at all.
JournalOf(x) ==
  [prior |-> x.prior, next |-> x.next.rev, target |-> x.target, files |-> x.files,
   old |-> x.old, new |-> x.new, seq |-> x.seq,
   own |-> x.next.own, ownSet |-> x.next.own # 0,
   noticeSet |-> x.noticeSet, notice |-> x.next.notice]

\* An error before the rename leaves the journal file as it was, one from the
\* directory fsync after it leaves the new journal in place.
WriteJournal ==
  /\ pc = "journal"
  /\ \/ /\ journal' = JournalOf(tx)
        /\ todo' = tx.files
        /\ pc' = IF tx.files = {} THEN "syncdir" ELSE "prepare"
        /\ UNCHANGED faults
     \/ Fails("failed") /\ journal' \in {journal, JournalOf(tx)}
  /\ jdisk' = IF journal' = journal THEN jdisk ELSE journal'
  /\ UNCHANGED <<live, durable, backups, st, tx, edits>>

\* Mutant: the live hash is not compared.
PrepareUnchecked(f) ==
  /\ pc = "prepare"
  /\ LoopStep(f, tx.files, "rename")
  /\ UNCHANGED <<disk, tx, edits, faults>>

\* prepareOne: the live bytes must still be the ones the transaction was built
\* against.
Prepare(f) ==
  /\ pc = "prepare" /\ live[f] = tx.old[f]
  /\ LoopStep(f, tx.files, "rename")
  /\ UNCHANGED <<disk, tx, edits, faults>>

PrepareFails(f) ==
  /\ pc = "prepare" /\ f \in todo
  /\ \/ /\ live[f] # tx.old[f]
        /\ pc' = "failed" /\ todo' = {} /\ UNCHANGED faults
     \/ Fails("failed")
  /\ UNCHANGED <<disk, tx, edits>>

RenameFile(f) ==
  /\ pc = "rename"
  /\ live' = [live EXCEPT ![f] = tx.new[f]]
  /\ LoopStep(f, {}, "syncdir")
  /\ UNCHANGED <<durable, backups, journal, jdisk, st, tx, edits, faults>>

\* Mutant: no directory is synced.
SkipSyncDirs ==
  /\ pc = "syncdir" /\ pc' = "progress"
  /\ UNCHANGED <<disk, tx, todo, edits, faults>>

SyncDirs ==
  /\ pc = "syncdir"
  /\ durable' = [f \in Files |-> IF f \in tx.files THEN live[f] ELSE durable[f]]
  /\ pc' = "progress"
  /\ UNCHANGED <<live, backups, journal, jdisk, st, tx, todo, edits, faults>>

\* The second journal write only sets the Applied flags, which recovery never
\* reads.
RecordProgress ==
  /\ pc = "progress"
  /\ pc' = "commit"
  /\ UNCHANGED <<disk, tx, todo, edits, faults>>

\* A rename, a directory fsync or the journal rewrite fails.
StepFails ==
  /\ pc \in {"rename", "syncdir", "progress"}
  /\ Fails("failed")
  /\ UNCHANGED <<disk, tx, edits>>

Commit ==
  /\ pc = "commit"
  /\ SaveState(tx.next, "remove", "failed")
  /\ UNCHANGED <<live, durable, backups, journal, jdisk, tx, edits>>

RemoveJournal ==
  /\ pc = "remove"
  /\ RemoveJournalFile("applied", "failed")
  /\ UNCHANGED <<live, durable, backups, jdisk, st, tx, edits>>

\* The caller gets the result and releases the lock.
Return ==
  /\ pc \in {"applied", "failed"}
  /\ pc' = "idle" /\ tx' = NoTx
  /\ UNCHANGED <<disk, todo, edits, faults>>

-----------------------------------------------------------------------------
(***************************************************************************)
(* The environment: other writers, and the end of the process.             *)
(***************************************************************************)
\* An editor or operator writes, or deletes, a managed file and syncs it.
UserWrite(f, b) ==
  /\ edits < MaxEdits /\ pc \in EditAt
  /\ live[f] # b
  /\ live' = [live EXCEPT ![f] = b]
  /\ durable' = [durable EXCEPT ![f] = b]
  /\ edits' = edits + 1
  /\ UNCHANGED <<backups, journal, jdisk, st, pc, tx, todo, faults>>

\* The process dies at any moment; the files stay as they are.
Kill ==
  /\ pc # "idle" /\ Fault("kill")
  /\ pc' = "idle" /\ tx' = NoTx /\ todo' = {}
  /\ UNCHANGED <<disk, edits>>

\* The machine stops: of the renames whose directory was not synced, any may
\* be lost, and so may the removal of the journal.
PowerLoss ==
  /\ Fault("power")
  /\ pc' = "idle" /\ tx' = NoTx /\ todo' = {}
  /\ \E lost \in SUBSET Files :
       live' = [f \in Files |-> IF f \in lost THEN durable[f] ELSE live[f]]
  /\ durable' = live'
  /\ journal' \in {journal, jdisk} /\ jdisk' = journal'
  /\ UNCHANGED <<backups, st, edits>>

Recover ==
  \/ RecoverNoop \/ RecoverCommitted \/ RecoverStale
  \/ RollForward \/ RefuseExternal \/ BeginRestore
  \/ \E f \in Files : RestoreFile(f) \/ RestoreFails(f)
  \/ FinishRestore \/ CleanupJournal

ApplyUnderLock ==
  \/ \E f \in Files : \/ TakeBackup(f) \/ BackupFails(f)
                      \/ Prepare(f) \/ PrepareFails(f)
                      \/ RenameFile(f)
  \/ WriteJournal \/ SyncDirs \/ RecordProgress \/ StepFails \/ Commit \/ RemoveJournal

Environment ==
  \/ \E f \in Files : UserWrite(f, UserBytes(edits + 1)) \/ UserWrite(f, Absent)
  \/ Kill \/ PowerLoss

Next ==
  \/ Begin \/ Recover \/ ApplyUnderLock \/ Return
  \/ SaveObservation \/ NothingToDo
  \/ \E kind \in Kinds, t \in Targets, S \in SUBSET Files : Submit(kind, t, S)
  \/ Environment

Spec == Init /\ [][Next]_vars

\* Every command takes the lock and recovers first, and a command that runs
\* goes on until it returns; nothing makes others write, or steps fail.
Fairness ==
  /\ WF_vars(Begin)
  /\ WF_vars(Recover \/ ApplyUnderLock \/ Return \/ NothingToDo)

FairSpec == Spec /\ Fairness

-----------------------------------------------------------------------------
(***************************************************************************)
(* Properties.                                                             *)
(***************************************************************************)
\* The journal describes a transaction state.json has not committed.
Active == journal # NoJournal /\ journal.prior = st.rev /\ journal.next # st.rev

Uncommitted(f) == live[f].by = "quota" /\ live[f].n > st.rev

\* Write-ahead: whenever a reader can see bytes quota has not committed, the
\* journal on disk names that file and those bytes, at the committed revision,
\* and the numbered backup it names is there to go back to.  (A file that was
\* absent when the transaction was built, written and deleted again before the
\* check, has a backup of the bytes in between.)
UncommittedBytesJournaled ==
  \A f \in Files : Uncommitted(f) =>
    /\ Active /\ journal.next = st.rev + 1
    /\ f \in journal.files /\ live[f] = journal.new[f]
    /\ \E b \in BackupOf(f) : b.bytes = journal.old[f] \/ journal.old[f] = Absent

\* A journal never disappears before state.json records the revision it was
\* written for: recovery and commit both save state first.
JournalOutlivesCommit ==
  [][journal # NoJournal /\ journal' = NoJournal => st.rev = journal.next]_vars

\* Revisions are never reused or skipped, and a saved provider event is never
\* taken back.
RevisionsAdvance ==
  [][/\ st'.rev \in {st.rev, st.rev + 1}
     /\ st'.prov >= st.prov]_vars

\* An edit made before quota looked at the file is not overwritten: a rename
\* only replaces the bytes the candidate was checked against, a restore only
\* bytes the journal accounts for.  It holds when no one writes between the
\* check and the write (EditAt).
EditsRespected ==
  [][\A f \in Files : /\ RenameFile(f) => live[f] = tx.old[f]
                      /\ RestoreFile(f) => LiveBytesKnown(f)]_vars

\* Recovery can always tell which side of the commit it is on: a journal left
\* on disk was written for the committed revision or the one before.
JournalNeverStale == journal # NoJournal => st.rev \in {journal.prior, journal.next}

\* Interrupted transactions converge: a journal does not stay for ever.
Converges == journal # NoJournal ~> journal = NoJournal

\* No managed file shows a rendering of a provider event state.json does not
\* hold, once the transaction that wrote it is recovered and the lock is free.
LiveEventsRecorded ==
  pc = "idle" /\ journal = NoJournal =>
    \A f \in Files : live[f].by = "quota" => live[f].prov <= st.prov

\* With no journal left, a power loss changes no managed file.
CommittedBytesDurable == pc = "idle" /\ journal = NoJournal => durable = live

-----------------------------------------------------------------------------
(***************************************************************************)
(* The publisher implements atomic publication.  Until the commit, a file  *)
(* of the journal is seen as it was; from the save of state.json on, as    *)
(* the journal wants it.                                                   *)
(***************************************************************************)
Batch == IF Active
         THEN {f \in journal.files : live[f] \in {journal.old[f], journal.new[f]} \ {Absent}}
         ELSE {}
View == [f \in Files |-> IF f \in Batch THEN journal.old[f] ELSE live[f]]

Atomic == INSTANCE AtomicPublish WITH
  content <- View, rev <- st.rev, claim <- st.own, debt <- st.notice, batch <- Batch
AtomicSpec == Atomic!Spec
=============================================================================
