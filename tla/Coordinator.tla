----------------------------- MODULE Coordinator -----------------------------
(***************************************************************************)
(* internal/service/coordinator.go: the locked transaction of a policy     *)
(* that manages model chains.                                              *)
(*                                                                         *)
(* Each command takes the lock, recovers, computes one next state from the *)
(* recovered one, and then renders, stages, validates and publishes every  *)
(* registered target in turn.  A target that fails is recorded as pending  *)
(* and the others go on; a last save records all the outcomes.  The        *)
(* publisher's steps are those of module Publisher.  What differs is its   *)
(* caller: every target of the command is applied with the same prior and  *)
(* the same next revision, whatever the targets before it have committed,  *)
(* and init applies targets without advancing the revision.                *)
(***************************************************************************)
EXTENDS Publisher, Sequences

CONSTANTS
  Order,       \* the registered targets, in the order ResolveTargets returns them
  ManualId,    \* "manual-resolution", the synthetic target of transactManual
  QuotaId      \* "quota-reconcile", the synthetic target of transactQuotaCheck

Registered == {Order[i] : i \in DOMAIN Order}
Synthetic == {ManualId, QuotaId}

ASSUME CoordinatorAssumption ==
  /\ Order \in Seq(Targets)
  /\ Synthetic \subseteq Targets \ Registered
  /\ \A f \in Files : TargetOf[f] \in Registered

VARIABLES
  cmd,    \* the command under way, in memory only
  told    \* the events the callers were told are accepted, and the results the
          \* last command reported

cvars == <<vars, cmd, told>>

\* The kinds of transaction that publish chains: "set" is also clear, "manual"
\* is disable, enable and reset, "check" polls quota and reconciles, "poll" only
\* polls.
Commands == {"init", "reconcile", "set", "manual", "check", "poll"}
Results == {"none", "applied", "pending"}
Running == [kind : Commands, prior : Nat, next : States, left : Seq(Targets),
            out : [Targets -> Results]]
NoCmd == [none |-> TRUE]

CoordTypeOK ==
  /\ TypeOK
  /\ cmd \in Running \cup {NoCmd}
  /\ told \in [rev : Nat, prov : Nat, out : [Targets -> Results]]

NoResults == [t \in Targets |-> "none"]

CoordInit ==
  /\ Init
  /\ cmd = NoCmd
  /\ told = [rev |-> 0, prov |-> 0, out |-> NoResults]

FilesOf(t) == {f \in Files : TargetOf[f] = t}

\* reconcile.Build and staging: the candidate of a file is determined by the
\* provider events it is rendered from, so rendering twice gives the same bytes.
Rendered(s) == QuotaBytes(0, s.prov)

-----------------------------------------------------------------------------
(***************************************************************************)
(* Accepting a command.                                                    *)
(***************************************************************************)
NoOutcome == [applied |-> 0, attempted |-> 0, pending |-> "none"]

\* retireSyntheticPendings.
Retire(s) == [s EXCEPT !.tgt = [t \in Targets |-> IF t \in Synthetic THEN NoOutcome ELSE @[t]]]

\* The state a command of this kind wants to commit: init takes the revision as
\* it is, every other kind the next one; a poll, a set or a manual command
\* accepts provider events.
CommandState(kind) ==
  [st EXCEPT !.rev = IF kind = "init" /\ @ # 0 THEN @ ELSE @ + 1,
             !.prov = IF kind \in {"init", "reconcile"} THEN @ ELSE st.rev + 1]

\* What an earlier command reported of the targets is out of date from here on.
Run(kind, next, targets, out) ==
  /\ cmd' = [kind |-> kind, prior |-> st.rev, next |-> next, left |-> targets, out |-> out]
  /\ told' = [told EXCEPT !.out = NoResults]

\* Once the revisions are used up, only a reconcile is accepted, so that the last
\* failure recorded can still be retried.
Accepting(kind) ==
  /\ pc = "ready" /\ cmd = NoCmd
  /\ st.rev < MaxRev \/ (kind = "reconcile" /\ st.rev = MaxRev)
  /\ \A f \in Files : NextSeq(f) <= MaxSeq

Start(kind) ==
  /\ Accepting(kind) /\ kind # "poll"
  /\ LET next == CommandState(kind) IN
     Run(kind, IF kind = "init" THEN Retire(next) ELSE next, Order, NoResults)
  /\ UNCHANGED vars

\* transactQuotaCheck without --reconcile, and init when the second resolution
\* of the targets fails: the state is saved and no target is visited.
StartWithoutTargets(kind) ==
  /\ Accepting(kind) /\ kind \in {"poll", "init"}
  /\ Run(kind, CommandState(kind), <<>>, NoResults)
  /\ UNCHANGED vars

\* ResolveTargets fails: a manual command and a check keep their event and
\* record the failure under a synthetic target.
ResolveFails(kind, id) ==
  /\ Accepting(kind)
  /\ Run(kind, CommandState(kind), <<>>, [NoResults EXCEPT ![id] = "pending"])
  /\ UNCHANGED vars

\* Dry run, nothing changed, or an error before anything is accepted.
Reject ==
  /\ cmd = NoCmd
  /\ NothingToDo
  /\ UNCHANGED <<cmd, told>>

-----------------------------------------------------------------------------
(***************************************************************************)
(* processOneTarget, for each registered target in turn.                   *)
(***************************************************************************)
AtTarget == pc = "ready" /\ cmd # NoCmd /\ cmd.left # <<>>

\* Rendering, staging, validation or the building of the transaction fails.
TargetFails ==
  /\ AtTarget
  /\ Fault("invalid")
  /\ cmd' = [cmd EXCEPT !.out[Head(cmd.left)] = "pending", !.left = Tail(@)]
  /\ UNCHANGED <<disk, pc, tx, todo, edits, told>>

\* Mutant: only the first changed file is submitted.
SubmitFirstFile ==
  /\ AtTarget
  /\ LET t == Head(cmd.left)
         changed == {f \in FilesOf(t) : live[f] # Rendered(cmd.next)}
         S == IF changed = {} THEN {} ELSE {CHOOSE f \in changed : TRUE} IN
     /\ tx' = [next |-> cmd.next, target |-> t, files |-> S, old |-> live,
               new |-> [f \in Files |-> Rendered(cmd.next)],
               seq |-> [f \in Files |-> 0], prior |-> cmd.prior, noticeSet |-> FALSE]
     /\ todo' = S
     /\ pc' = IF S = {} THEN "journal" ELSE "backup"
  /\ UNCHANGED <<disk, edits, faults, cmd, told>>

\* buildTransaction: the files whose candidate differs from the live bytes, with
\* the state the whole command started from and the one it wants to commit.
SubmitTarget ==
  /\ AtTarget
  /\ LET t == Head(cmd.left)
         S == {f \in FilesOf(t) : live[f] # Rendered(cmd.next)} IN
     /\ tx' = [next |-> cmd.next, target |-> t, files |-> S, old |-> live,
               new |-> [f \in Files |-> Rendered(cmd.next)],
               seq |-> [f \in Files |-> 0], prior |-> cmd.prior, noticeSet |-> FALSE]
     /\ todo' = S
     /\ pc' = IF S = {} THEN "journal" ELSE "backup"
  /\ UNCHANGED <<disk, edits, faults, cmd, told>>

\* Mutant: the error of ApplyUnderLock is not looked at.
TargetDoneAnyway ==
  /\ pc \in {"applied", "failed"}
  /\ cmd' = [cmd EXCEPT !.out[tx.target] = "applied", !.left = Tail(@)]
  /\ pc' = "ready" /\ tx' = NoTx
  /\ UNCHANGED <<disk, todo, edits, faults, told>>

\* ApplyUnderLock returns: applied, or pending at "last-known-good".
TargetDone ==
  /\ pc \in {"applied", "failed"}
  /\ cmd' = [cmd EXCEPT !.out[tx.target] = IF pc = "applied" THEN "applied" ELSE "pending",
                        !.left = Tail(@)]
  /\ pc' = "ready" /\ tx' = NoTx
  /\ UNCHANGED <<disk, todo, edits, faults, told>>

-----------------------------------------------------------------------------
(***************************************************************************)
(* The last save, and its answer.                                          *)
(***************************************************************************)
\* Mutant: a pending failure, once recorded, is carried into every later record.
RecordOutcomesSticky(s, out) ==
  [s EXCEPT !.tgt = [t \in Targets |->
     IF out[t] = "none" THEN @[t]
     ELSE [applied |-> s.rev, attempted |-> s.rev,
           pending |-> IF out[t] = "pending" THEN "publish" ELSE @[t].pending]]]

\* recordTargetOutcomes: a pending target keeps the revision last applied to it.
RecordOutcomes(s, out) ==
  [s EXCEPT !.tgt = [t \in Targets |->
     CASE out[t] = "none"    -> @[t]
       [] out[t] = "applied" -> [applied |-> s.rev, attempted |-> s.rev, pending |-> "none"]
       [] out[t] = "pending" -> [applied |-> @[t].applied, attempted |-> s.rev,
                                 pending |-> "publish"]]]

Final == RecordOutcomes(IF cmd.kind \in {"init", "poll"} THEN cmd.next ELSE Retire(cmd.next),
                        cmd.out)

\* Mutant: the error of the save is not looked at.
FinishAnyway ==
  /\ pc = "ready" /\ cmd # NoCmd /\ cmd.left = <<>>
  /\ SaveState(Final, "idle", "idle")
  /\ told' = [rev |-> cmd.next.rev, prov |-> cmd.next.prov, out |-> cmd.out]
  /\ cmd' = NoCmd
  /\ UNCHANGED <<live, durable, backups, journal, jdisk, tx, edits>>

\* Accepted when the save succeeds; DurabilityFailure when it does not, whether
\* or not state.json was replaced.
Finish ==
  /\ pc = "ready" /\ cmd # NoCmd /\ cmd.left = <<>>
  /\ SaveState(Final, "idle", "idle")
  /\ told' = IF faults' = faults
             THEN [rev |-> cmd.next.rev, prov |-> cmd.next.prov, out |-> cmd.out]
             ELSE told
  /\ cmd' = NoCmd
  /\ UNCHANGED <<live, durable, backups, journal, jdisk, tx, edits>>

Die == Kill /\ cmd' = NoCmd /\ UNCHANGED told

Command ==
  \/ \E kind \in Commands : Start(kind) \/ StartWithoutTargets(kind)
  \/ ResolveFails("manual", ManualId) \/ ResolveFails("check", QuotaId)
  \/ Reject \/ SubmitTarget \/ TargetDone \/ Finish

CoordNext ==
  \/ (Begin \/ Recover \/ ApplyUnderLock) /\ UNCHANGED <<cmd, told>>
  \/ Command \/ TargetFails \/ Die

CoordSpec == CoordInit /\ [][CoordNext]_cvars

\* A timer runs "check --reconcile" or "reconcile" again and again, and a command
\* that runs goes on until it returns.
CoordFairness ==
  /\ WF_cvars((Begin \/ Recover \/ ApplyUnderLock) /\ UNCHANGED <<cmd, told>>)
  /\ WF_cvars(SubmitTarget \/ TargetDone \/ Finish)
  /\ SF_cvars(Start("reconcile"))

CoordFairSpec == CoordSpec /\ CoordFairness

-----------------------------------------------------------------------------
(***************************************************************************)
(* Properties.                                                             *)
(***************************************************************************)
\* An event whose command was answered "accepted" stays in state.json, whatever
\* interrupts the commands and recoveries after it.
AcceptedEventsKept == st.rev >= told.rev /\ st.prov >= told.prov

Settled == pc = "idle" /\ journal = NoJournal

\* What a command tells its caller is what is on disk: a target reported applied
\* shows the rendering of the accepted events in every one of its files, and
\* state.json agrees; one reported pending is pending in state.json.
ReportedResults ==
  Settled =>
    \A t \in Registered :
      /\ told.out[t] = "applied" =>
           /\ st.tgt[t] = [applied |-> st.rev, attempted |-> st.rev, pending |-> "none"]
           /\ \A f \in FilesOf(t) : live[f] = QuotaBytes(0, told.prov)
      /\ told.out[t] = "pending" => st.tgt[t].pending # "none"

\* A target stops being pending only when its files are all of one rendering.
PendingClearedWhole ==
  [][\A t \in Registered :
       st.tgt[t].pending # "none" /\ st'.tgt[t].pending = "none" =>
         \A f, g \in FilesOf(t) : live[f] = live[g]]_cvars

\* Once steps no longer fail, a pending target does not stay pending: the next
\* reconcile applies it, whatever the failed command left behind.
PendingClears ==
  \A t \in Registered :
    st.tgt[t].pending # "none" /\ faults = MaxFaults /\ st.rev < MaxRev
      ~> st.tgt[t].pending = "none"

\* A failed attempt leaves a target on its last applied files: with the lock
\* free and no journal left, the files of a target are all of one rendering.
FailedKeepsLastApplied ==
  Settled => \A f, g \in Files : TargetOf[f] = TargetOf[g] => live[f] = live[g]
=============================================================================
