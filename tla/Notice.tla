------------------------------- MODULE Notice --------------------------------
(***************************************************************************)
(* internal/service/provider_notice.go, notice_publish.go and              *)
(* internal/notice/publish.go, onchange.go: telling the world that a       *)
(* committed command changed a provider.                                   *)
(*                                                                         *)
(* A command commits its change, then publishes one small document.  Under *)
(* a provider-only policy the change is owed until the document is         *)
(* published: the debt is committed together with the bytes, so that a     *)
(* crash or a failed publication is made good by a later pass.  Under a    *)
(* policy that manages chains the document is best effort.  The operator's *)
(* on_change actions run after the lock is released, behind a reservation  *)
(* in state.json.                                                          *)
(*                                                                         *)
(* A commit is one step here: module Publisher shows that an interrupted   *)
(* one is rolled forward with the debt its journal carries.                *)
(***************************************************************************)
EXTENDS Naturals, FiniteSets, Sequences, Functions

CONSTANTS
  Providers,   \* the providers quota may turn off and on
  Procs,       \* the processes that run commands
  Actions,     \* how many on_change actions the operator may have configured
  MaxRev,      \* bound: the last revision a command that changes a provider takes
  MaxEdits,    \* bound: what the operator does to the configuration and the policy
  MaxFaults    \* bound: failed publications and saves, and processes that die

ASSUME NoticeAssumption ==
  /\ Providers # {} /\ Procs # {}
  /\ Actions \in Nat \ {0} /\ MaxRev \in Nat \ {0} /\ MaxEdits \in Nat /\ MaxFaults \in Nat

VARIABLES
  mode,      \* "provider" or "chain": the policy in desired.yaml
  actions,   \* how many on_change actions it configures
  live,      \* whether each provider is enabled in the managed files
  enrolled,  \* the providers the policy names
  rev,       \* Revision, in state.json
  debt,      \* PendingProviderNotice, in state.json
  executed,  \* OnChangeExecutedRevision, in state.json
  doc,       \* the notice file
  lock,      \* the process that holds the transaction lock, or Free
  proc,      \* what each process is doing, in memory only
  mine,      \* the providers whose state is quota's last commit under a
             \* provider-only policy, not undone since
  said,      \* what the notices published so far last said of each provider
  ran,       \* how often the actions were started for each revision
  crossed,   \* the policy was replaced while a debt was pending
  count      \* the operator's edits and the faults so far

nvars == <<mode, actions, live, enrolled, rev, debt, executed, doc, lock, proc,
           mine, said, ran, crossed, count>>

Revs == 0..MaxRev
Free == "free"

\* A free lock is not held.
ASSUME FreeAssumption == Free \notin Procs

\* What is said of some providers: whether each is enabled.
Says == UNION {[S -> BOOLEAN] : S \in SUBSET Providers}
Debts == [rev : Revs \ {0}, says : {f \in Says : DOMAIN f # {}}]
NoDebt == [none |-> TRUE]
Docs == [rev : Revs \ {0}, kind : {"provider", "chain"}, says : Says]
NoDoc == [none |-> TRUE]

Idle == [pc |-> "idle"]
Jobs == [pc : {"notify"}, rev : Revs \ {0}, edits : Says]
          \cup [pc : {"save"}, keep : Debts \cup {NoDebt}, rev : Revs]
          \cup [pc : {"reserve", "run", "record"}, rev : Revs]

NoticeTypeOK ==
  /\ mode \in {"provider", "chain"}
  /\ actions \in {0, Actions}
  /\ live \in [Providers -> BOOLEAN] /\ enrolled \in SUBSET Providers
  /\ rev \in Revs /\ executed \in Revs
  /\ debt \in Debts \cup {NoDebt}
  /\ doc \in Docs \cup {NoDoc}
  /\ lock \in Procs \cup {Free}
  /\ proc \in [Procs -> Jobs \cup {Idle}]
  /\ mine \in SUBSET Providers
  /\ said \in [Providers -> BOOLEAN]
  /\ ran \in [Revs -> Nat]
  /\ crossed \in BOOLEAN
  /\ count \in [edits : 0..MaxEdits, faults : 0..MaxFaults]

NoticeInit ==
  /\ mode \in {"provider", "chain"} /\ actions \in {0, Actions}
  /\ live = [p \in Providers |-> TRUE] /\ enrolled = Providers
  /\ rev = 0 /\ executed = 0 /\ debt = NoDebt /\ doc = NoDoc
  /\ lock = Free /\ proc = [c \in Procs |-> Idle]
  /\ mine = {} /\ said = live /\ ran = [r \in Revs |-> 0]
  /\ crossed = FALSE
  /\ count = [edits |-> 0, faults |-> 0]

Fault ==
  /\ count.faults < MaxFaults
  /\ count' = [count EXCEPT !.faults = @ + 1]

\* A save of state.json that only changes what it is told to; it may fail before
\* or after the rename.
SaveOrFail(written, unchanged) ==
  \/ written /\ UNCHANGED count
  \/ written /\ Fault
  \/ unchanged /\ Fault

-----------------------------------------------------------------------------
(***************************************************************************)
(* The debt.                                                               *)
(***************************************************************************)
SaysOf(d) == IF d = NoDebt THEN <<>> ELSE d.says

\* f with the values of g where g has one.
Overlay(f, g) == [p \in DOMAIN f \cup DOMAIN g |-> IF p \in DOMAIN g THEN g[p] ELSE f[p]]

\* providerNoticeStates, as it is called: everything owed and the fresh edits.
NoticeStates(d, edits) == Overlay(SaysOf(d), edits)

\* The part of the debt that is still true of the enabled fields read; an early
\* refusal has read none and retires none.
StillTrue(enabled) ==
  {p \in DOMAIN SaysOf(debt) : p \in DOMAIN enabled /\ enabled[p] = debt.says[p]}
AllOwed == DOMAIN SaysOf(debt)

\* Mutant: a debt that has been settled stays, owing nothing.
ReconcileDebtEmpty(stays, r, edits) ==
  LET owed == Overlay(Restrict(SaysOf(debt), stays), edits) IN
  [rev |-> IF DOMAIN edits = {} /\ debt # NoDebt THEN debt.rev ELSE r, says |-> owed]

\* Mutant: a debt keeps its first revision, whatever is owed since.
ReconcileDebtFirstRev(stays, r, edits) ==
  LET owed == Overlay(Restrict(SaysOf(debt), stays), edits) IN
  IF DOMAIN owed = {} THEN NoDebt
  ELSE [rev |-> IF debt # NoDebt THEN debt.rev ELSE r, says |-> owed]

\* reconcileProviderNoticeDebt: what stays of the debt and the fresh edits are
\* owed.  A pass without any keeps the debt's revision.
ReconcileDebt(stays, r, edits) ==
  LET owed == Overlay(Restrict(SaysOf(debt), stays), edits) IN
  IF DOMAIN owed = {} THEN NoDebt
  ELSE [rev |-> IF DOMAIN edits = {} /\ debt # NoDebt THEN debt.rev ELSE r, says |-> owed]

\* The enabled fields of the enrolled providers, as a pass reads them.
ReadEnabled == Restrict(live, enrolled)

\* The states that a command which flips the providers of E commits.
Flipped(E) == [p \in E |-> ~live[p]]

-----------------------------------------------------------------------------
(***************************************************************************)
(* Commands, up to the notice.                                             *)
(***************************************************************************)
\* Bound: once the revisions are used up, a pass that changes nothing keeps the
\* last one.
NextRev(E) == IF E = {} /\ rev = MaxRev THEN rev ELSE rev + 1

Locked(c) == lock = Free /\ proc[c] = Idle

\* The bytes of E, the revision and the debt are committed.
CommitChange(E, r, owed) ==
  /\ r \in Revs
  /\ live' = Overlay(live, Flipped(E)) /\ rev' = r /\ debt' = owed
  /\ mine' = IF mode = "provider" THEN mine \cup E ELSE mine \ E

Notifying(c, r, edits) ==
  /\ lock' = c
  /\ proc' = [proc EXCEPT ![c] = [pc |-> "notify", rev |-> r, edits |-> edits]]

\* A provider-only pass: transactProviderGateReconcile, transactQuotaCheck with
\* --reconcile.
GatePass(c, E) ==
  /\ Locked(c) /\ mode = "provider" /\ E \subseteq enrolled
  /\ CommitChange(E, NextRev(E), ReconcileDebt(StillTrue(ReadEnabled), NextRev(E), Flipped(E)))
  /\ Notifying(c, NextRev(E), Flipped(E))
  /\ UNCHANGED <<mode, actions, enrolled, executed, doc, said, ran, crossed, count>>

\* routing disable or enable: the state of the provider is owed even when the
\* field is as it should be; an edit of the field may leave its value.
Toggle(c, p, value, edited) ==
  /\ Locked(c) /\ mode = "provider" /\ p \in enrolled /\ rev < MaxRev
  /\ live[p] # value => edited
  /\ LET said1 == [q \in {p} |-> value]
         E     == IF live[p] = value THEN {} ELSE {p} IN
     /\ CommitChange(E, rev + 1,
                     ReconcileDebt(StillTrue(Overlay(ReadEnabled, said1)), rev + 1, said1))
     /\ Notifying(c, rev + 1, IF edited THEN said1 ELSE Flipped({}))
  /\ UNCHANGED <<mode, actions, enrolled, executed, doc, said, ran, crossed, count>>

\* A command under a policy that manages chains.  init keeps the revision; it
\* and the others announce only what they changed.
ChainPass(c, E, init) ==
  /\ Locked(c) /\ mode = "chain" /\ E \subseteq enrolled
  /\ LET r == IF init /\ rev # 0 THEN rev ELSE NextRev(E) IN
     /\ CommitChange(E, r, debt)
     /\ IF E = {} THEN UNCHANGED <<lock, proc>> ELSE Notifying(c, r, live')
  /\ UNCHANGED <<mode, actions, enrolled, executed, doc, said, ran, crossed, count>>

\* A pass that is refused: what it owed is reconciled with what it read, if it
\* came that far, and nothing is announced.
RefusedPass(c, stays) ==
  /\ Locked(c) /\ mode = "provider"
  /\ CommitChange({}, NextRev({}), ReconcileDebt(stays, NextRev({}), Flipped({})))
  /\ UNCHANGED <<mode, actions, enrolled, executed, doc, lock, proc, said, ran, crossed, count>>

\* The publication of a pass fails after the bytes are in place: the refusal is
\* saved over them, at the same revision, and the debt is lost (the late failure
\* of module ProviderGate).
LateRefusal(c, E) ==
  /\ Locked(c) /\ mode = "provider" /\ E \subseteq enrolled /\ E # {} /\ rev < MaxRev
  /\ Fault
  /\ live' = Overlay(live, Flipped(E)) /\ rev' = rev + 1
  /\ debt' = ReconcileDebt(StillTrue(ReadEnabled), rev + 1, Flipped({}))
  /\ mine' = mine \ E
  /\ UNCHANGED <<mode, actions, enrolled, executed, doc, lock, proc, said, ran, crossed>>

\* The process dies after the commit, or a toggle ends with an error after it.
Unannounced(c, E) ==
  /\ Locked(c) /\ mode = "provider" /\ E \subseteq enrolled /\ E # {} /\ rev < MaxRev
  /\ Fault
  /\ CommitChange(E, rev + 1, ReconcileDebt(StillTrue(ReadEnabled), rev + 1, Flipped(E)))
  /\ UNCHANGED <<mode, actions, enrolled, executed, doc, lock, proc, said, ran, crossed>>

-----------------------------------------------------------------------------
(***************************************************************************)
(* The notice.                                                             *)
(***************************************************************************)
Doing(c, pc) == proc[c].pc = pc
Goto(c, job) == proc' = [proc EXCEPT ![c] = job]
Fresh(job) == DOMAIN job.edits # {}

\* The revision and the states of the document: a pass without fresh edits
\* publishes the debt again under the debt's own revision.
NoticeRev(job) == IF ~Fresh(job) /\ debt # NoDebt THEN debt.rev ELSE job.rev

NoticeDoc(job) ==
  IF mode = "chain"
  THEN [rev |-> job.rev, kind |-> "chain", says |-> job.edits]
  ELSE [rev |-> NoticeRev(job), kind |-> "provider", says |-> NoticeStates(debt, job.edits)]

\* What is left to do once the document is published, or is not: state.json is
\* saved again when the debt changed.
AfterNotice(job, keep) ==
  LET pend == IF Fresh(job) /\ keep = NoDebt /\ actions > 0 THEN job.rev ELSE 0 IN
  IF mode = "provider"
  THEN [pc |-> "save", keep |-> keep, rev |-> pend]
  ELSE IF pend # 0 THEN [pc |-> "reserve", rev |-> pend] ELSE Idle

\* The lock is given up, unless state.json is saved again.
Unlock(job) == lock' = IF job.pc = "save" THEN lock ELSE Free

\* Neither a fresh edit nor a debt.
NothingToSay(c) ==
  /\ Doing(c, "notify") /\ mode = "provider" /\ ~Fresh(proc[c]) /\ debt = NoDebt
  /\ Goto(c, Idle) /\ lock' = Free
  /\ UNCHANGED <<mode, actions, live, enrolled, rev, debt, executed, doc, mine, said, ran, crossed, count>>

Speaking(c) == Doing(c, "notify") /\ (Fresh(proc[c]) \/ debt # NoDebt)

\* notifyProviderGate and notifyTargets: the file is replaced.
PublishNotice(c) ==
  /\ Speaking(c)
  /\ LET job == proc[c] new == NoticeDoc(job) IN
     /\ doc' = new /\ said' = Overlay(said, new.says)
     /\ Goto(c, AfterNotice(job, NoDebt)) /\ Unlock(AfterNotice(job, NoDebt))
  /\ UNCHANGED <<mode, actions, live, enrolled, rev, debt, executed, mine, ran, crossed, count>>

\* Mutant: a notice that could not be published is not owed any more.
NoticeFailsForgotten(c) ==
  /\ Speaking(c) /\ Fault
  /\ Goto(c, [pc |-> "save", keep |-> NoDebt, rev |-> 0])
  /\ UNCHANGED <<mode, actions, live, enrolled, rev, debt, executed, doc, lock, mine, said, ran, crossed>>

\* The document cannot be rendered or written: its states are owed; chains are
\* not.  (The event that records the failure is in module History.)
NoticeFails(c) ==
  /\ Speaking(c) /\ Fault
  /\ LET job == proc[c]
         keep == IF mode = "chain" THEN debt
                 ELSE [rev |-> NoticeRev(job), says |-> NoticeStates(debt, job.edits)] IN
     Goto(c, [pc |-> "save", keep |-> keep, rev |-> 0])
  /\ UNCHANGED <<mode, actions, live, enrolled, rev, debt, executed, doc, lock, mine, said, ran, crossed>>

\* Mutant: a published debt is still owed.
SaveAgainKeepsDebt(c) ==
  /\ Doing(c, "save")
  /\ \/ SaveOrFail(debt' = IF proc[c].keep = NoDebt THEN debt ELSE proc[c].keep, UNCHANGED debt)
     \/ proc[c].keep # NoDebt /\ UNCHANGED <<debt, count>>
  /\ Goto(c, IF proc[c].rev # 0 THEN [pc |-> "reserve", rev |-> proc[c].rev] ELSE Idle)
  /\ lock' = Free
  /\ UNCHANGED <<mode, actions, live, enrolled, rev, executed, doc, mine, said, ran, crossed>>

\* The second save is best effort; the lock is given up either way.  After a
\* failed notice it is refused whenever the clock gives a local time, for the
\* event that records the failure is not in UTC.
SaveAgain(c) ==
  /\ Doing(c, "save")
  /\ \/ SaveOrFail(debt' = proc[c].keep, UNCHANGED debt)
     \/ proc[c].keep # NoDebt /\ UNCHANGED <<debt, count>>
  /\ Goto(c, IF proc[c].rev # 0 THEN [pc |-> "reserve", rev |-> proc[c].rev] ELSE Idle)
  /\ lock' = Free
  /\ UNCHANGED <<mode, actions, live, enrolled, rev, executed, doc, mine, said, ran, crossed>>

-----------------------------------------------------------------------------
(***************************************************************************)
(* on_change, after the lock is released.                                  *)
(***************************************************************************)
\* Mutant: the reservation only looks for the very same revision.
ReserveUnlessSame(c) ==
  /\ Doing(c, "reserve") /\ lock = Free /\ executed # proc[c].rev
  /\ SaveOrFail(executed' = proc[c].rev, UNCHANGED executed)
  /\ Goto(c, IF count' = count THEN [pc |-> "run", rev |-> proc[c].rev] ELSE Idle)
  /\ UNCHANGED <<mode, actions, live, enrolled, rev, debt, doc, lock, mine, said, ran, crossed>>

\* reserveOnChange: under the lock again, the revision is marked executed; a
\* save that fails, before or after the rename, gives the actions up.
Reserve(c) ==
  /\ Doing(c, "reserve") /\ lock = Free /\ executed < proc[c].rev
  /\ SaveOrFail(executed' = proc[c].rev, UNCHANGED executed)
  /\ Goto(c, IF count' = count THEN [pc |-> "run", rev |-> proc[c].rev] ELSE Idle)
  /\ UNCHANGED <<mode, actions, live, enrolled, rev, debt, doc, lock, mine, said, ran, crossed>>

\* That revision or a later one has been reserved, or the lock or the state
\* cannot be had.
GiveUp(c) ==
  /\ Doing(c, "reserve")
  /\ \/ lock = Free /\ executed >= proc[c].rev /\ UNCHANGED count
     \/ Fault
  /\ Goto(c, Idle)
  /\ UNCHANGED <<mode, actions, live, enrolled, rev, debt, executed, doc, lock, mine, said, ran, crossed>>

\* ExecuteOnChange: each action in turn succeeds, fails or runs out of its time;
\* once the budget is spent the rest are skipped.
ActionResults ==
  {r \in [1..actions -> {"ok", "failed", "timed_out", "skipped"}] :
     \A i \in DOMAIN r : r[i] = "skipped" => i # 1 /\ \A j \in i..actions : r[j] = "skipped"}

RunActions(c, results) ==
  /\ Doing(c, "run")
  /\ ran' = [ran EXCEPT ![proc[c].rev] = @ + 1]
  /\ Goto(c, IF \A i \in DOMAIN results : results[i] = "ok" THEN Idle
             ELSE [pc |-> "record", rev |-> proc[c].rev])
  /\ UNCHANGED <<mode, actions, live, enrolled, rev, debt, executed, doc, lock, mine, said, crossed, count>>

\* recordOnChangeFailures: best effort, under the lock, on the state loaded anew.
RecordFailures(c) ==
  /\ Doing(c, "record") /\ lock = Free
  /\ Goto(c, Idle)
  /\ UNCHANGED <<mode, actions, live, enrolled, rev, debt, executed, doc, lock, mine, said, ran, crossed, count>>

\* The end of a process: whatever it had in mind is gone, its lock is released.
Die(c) ==
  /\ proc[c] # Idle /\ Fault
  /\ Goto(c, Idle)
  /\ lock' = IF lock = c THEN Free ELSE lock
  /\ UNCHANGED <<mode, actions, live, enrolled, rev, debt, executed, doc, mine, said, ran, crossed>>

-----------------------------------------------------------------------------
(***************************************************************************)
(* The operator.                                                           *)
(***************************************************************************)
Edits == count.edits < MaxEdits /\ count' = [count EXCEPT !.edits = @ + 1]

\* The operator edits a field, or enrolls a provider or not.
EditField(p) ==
  /\ Edits
  /\ live' = [live EXCEPT ![p] = ~@] /\ mine' = mine \ {p}
  /\ UNCHANGED <<mode, actions, enrolled, rev, debt, executed, doc, lock, proc, said, ran, crossed>>
Enroll(p) ==
  /\ Edits
  /\ enrolled' = IF p \in enrolled THEN enrolled \ {p} ELSE enrolled \cup {p}
  /\ mine' = mine \ {p}
  /\ UNCHANGED <<mode, actions, live, rev, debt, executed, doc, lock, proc, said, ran, crossed>>

\* The policy is replaced by one of the other kind: init --provider-only --force,
\* or a desired.yaml written by hand.  Nothing is announced.
Migrate ==
  /\ Edits /\ lock = Free
  /\ mode' = IF mode = "chain" THEN "provider" ELSE "chain"
  /\ crossed' = (crossed \/ debt # NoDebt)
  /\ UNCHANGED <<actions, live, enrolled, rev, debt, executed, doc, lock, proc, mine, said, ran>>

-----------------------------------------------------------------------------
Operator == Migrate \/ \E p \in Providers : EditField(p) \/ Enroll(p)

Command(c) ==
  \/ \E E \in SUBSET Providers : \/ GatePass(c, E) \/ LateRefusal(c, E) \/ Unannounced(c, E)
                                 \/ \E init \in BOOLEAN : ChainPass(c, E, init)
  \/ \E p \in Providers, value, edited \in BOOLEAN : Toggle(c, p, value, edited)
  \/ RefusedPass(c, AllOwed) \/ RefusedPass(c, StillTrue(ReadEnabled))

AfterCommit(c) ==
  \/ NothingToSay(c) \/ PublishNotice(c) \/ SaveAgain(c)
  \/ Reserve(c) \/ GiveUp(c) \/ RecordFailures(c)
  \/ \E results \in ActionResults : RunActions(c, results)

NoticeNext ==
  \/ \E c \in Procs : Command(c) \/ AfterCommit(c) \/ NoticeFails(c) \/ Die(c)
  \/ Operator

NoticeSpec == NoticeInit /\ [][NoticeNext]_nvars

\* A timer runs "check --reconcile" again and again, it is not refused for ever,
\* and a process goes on until it has done what it has to do.
NoticeFairness ==
  /\ SF_nvars(\E c \in Procs : GatePass(c, {}))
  /\ \A c \in Procs : WF_nvars(AfterCommit(c))

NoticeFairSpec == NoticeSpec /\ NoticeFairness

-----------------------------------------------------------------------------
(***************************************************************************)
(* Properties.                                                             *)
(***************************************************************************)
\* A provider change quota committed is announced or still owed, and not as it
\* was before: whatever crashed, failed to publish or to save in between.
AnnouncedOrOwed ==
  \A p \in mine :
    said[p] = live[p] \/ (p \in DOMAIN SaysOf(debt) /\ debt.says[p] = live[p])

\* The actions of a revision are started at most once, by whatever process.
ActionsAtMostOnce == \A r \in Revs : ran[r] <= 1

\* The actions of a revision are given to a process only when none of that
\* revision or a later one have been started before.
ActionsInOrder ==
  [][\A c \in Procs : Doing(c, "reserve") /\ proc'[c].pc = "run" =>
       \A r \in Revs : ran[r] > 0 => r < proc[c].rev]_nvars

\* Sessions compare revisions: the notice file never goes back to an older one,
\* unless the policy was replaced while a notice was owed.
NoticeNeverOlder ==
  [][doc # NoDoc /\ doc' # doc => doc'.rev >= doc.rev \/ crossed']_nvars

\* What is owed is announced, or stops being true, in the end.
DebtSettles == (debt # NoDebt /\ mode = "provider") ~> (debt = NoDebt \/ mode = "chain")
=============================================================================
