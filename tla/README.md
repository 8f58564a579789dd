# A TLA+ model of polytoken-quota

`polytoken-quota` watches the quota of model providers and rewrites the
configuration files of `polytoken` accordingly: it reorders and prunes model
chains in definition files, or, under a provider-only policy, turns the
`enabled` field of providers off and back on. Its files also belong to an
operator, who edits them whenever he likes; its commands are short processes,
started by hand, by a timer or by a hook, that may fail or be killed anywhere.
What has to be right is therefore the publication protocol (write-ahead journal,
backups, hash checks, recovery), what commands record about it, and the claims
by which quota remembers what it took from the operator.

Around that lie the parts that decide: what the answers of the providers say, how
the providers are ranked, which model a task gets, what the policy file means; and
the parts that tell others: notices, actions of the operator, and a hook that makes
running sessions reload.

This directory holds TLA+ modules for those parts, TLC configurations that
check them on small instances, and TLAPS proofs about all of them, for every instance:
each safety property that a passing run checks is a theorem, and only liveness is left
to TLC. `PROJECT.json` maps every definition to the lines it stands for and
lists the runs, the mutants that show each property can fail, the hazards, the
findings and the theorems.

To check: `tlc -workers 2 -config MCPublisher_errors.cfg MCPublisher.tla` (and so
for every `.cfg`), and `tlapm` on `PublisherProofs.tla`, `ProviderGateProofs.tla`,
`NoticeProofs.tla`, `SelectionProofs.tla`, `DataLemmas.tla`, `HistoryProofs.tla`,
`PolicyProofs.tla` and `RoutingProofs.tla`.

## 1. The system

| Part | State | Operations | Hard behaviour | What makes it correct |
|---|---|---|---|---|
| **Write-ahead publisher** `internal/publish/publisher.go` | managed live files, journal, numbered backups, the commit in `state.json` | `Apply`, `ApplyUnderLock`, `Recover` | stops and errors between any two steps, a second stop during recovery, writers without the lock, power loss | uncommitted bytes are always journaled and backed up; a batch is published whole or not at all; recovery ends; edits are not overwritten |
| **Backup store** `backup.go` | numbered copies | `Snapshot`, `Restore`, `prune` | retention, reuse of numbers, removal before the result is saved | the backup a journal names is there with the bytes it is to hold |
| **Transaction lock** `lock*.go` | `flock` on a lock file | `Acquire`, `Release` | a holder dies; timeouts | one transaction at a time, never a lock that outlives its holder |
| **State store** `internal/state/store.go` | `state.json` | `Load`, `Save` | error after the rename | old or new state, never a mixture |
| **Observation machine** `state/machine.go` | per-provider axes, manual marks | `Apply`, `EffectiveMode` | precedence of the axes, corrupted axes | an exemption never lifts a manual mark |
| **Coordinator** `service/coordinator.go` | the accepted next state of a command | `Init`, `Reconcile`, `Set`, `Clear`, `Disable`, `Enable`, `Reset`, `Check` | several targets per command, some failing; a last save after the targets' own commits | accepted events stay; what is reported is on disk; pending targets are retried |
| **Provider gate** `service/provider_gate.go`, `signal_gate.go` | `ProviderOwnership` claims | plan, stage, validate, recheck, publish or refuse | operator edits during a pass, observations, three causes and one pool rule on one field, crashes between bytes and claims | the operator's shape is restored, conflicts are left alone, a pool is not emptied |
| **Manual toggle** `service/provider_manual_toggle.go` | manual marks and claims | `routing disable/enable` | overlaps with gate claims | the same |
| **Notices** `service/provider_notice.go`, `notice_publish.go`, `internal/notice` | notice debt, reservation of on-change actions, per-session markers | merge, publish, retire, reserve, hook | crash between commit and publication, concurrent hooks and processes | every provider change is announced in the end, actions run at most once, warnings once per revision |
| **Quota check** `service/quota_check.go`, `quota_poller.go` | last observations and attempts | poll, record, optionally reconcile | observations accepted while a target fails; polls that fail | an observation is kept, the gate acts on known ones |
| **Quota adapters** `internal/quota` | none | poll one provider, read its answer | answers that are broken, contradict each other, or come after the contract's review has run out | a provider that says so by a limit that can be read is not taken for available; one read in part is not ranked |
| **Routing and reconciliation** `internal/routing`, `internal/reconcile`, `service/ranking.go` | none | eligibility, signals, ranks, verdicts, chains, plans | boundaries, ties, missing signals, empty chains | the rank is what is to be preferred; a chain is reordered only where it may be; a plan refers to nothing it turns off |
| **History** `internal/state/history.go`, `service/history*.go` | bounded timeline and reconcile records in `state.json` | append, bound, aggregate, validate | several limits at once, a record that is too large alone, saves refused | what is gone is counted; what is saved loads |
| **Policy file** `internal/policy`, `service/provider_only.go`, `routing_toggle.go` | `desired.yaml` and its preserved copy | load, propose, write, replace, switch | an operator who edits during a command, a command that dies between two renames | what loads can be used; what init replaces can be had back |
| **Model selection** `internal/selection`, `service/selection_inputs.go` | none | `select`, `select-eval` | reads without the lock, evidence that ages, an assessor that fails or answers wrongly | nothing known to be used up is chosen, nothing is called confirmed that is not |
| **Staging** `internal/staging`, `internal/document`, `service/model_groups_guard.go` | a private copy of the files | read two layers, merge, redact, edit, for validation and for publication | two copies made in two ways; targets staged one after the other while one is published | what is published is what was validated, and holds nothing of the other layer |
| **Validation, targets, doctor, CLI, SwiftBar** | none between calls | read, run a binary, print | parsing and I/O | not a matter of states |

How they interact. A command (CLI, timer, hook) takes the lock and loads
`state.json`; `Recover` runs first; the coordinator computes the next state from
the recovered one; for each target it renders, stages, validates (running the
`polytoken` binary) and hands a transaction to the publisher, which commits by
saving `state.json`; the coordinator saves once more with all outcomes, publishes
notices and releases the lock. Under a provider-only policy the gate or toggle
takes the place of the targets. The only state that survives a process is on
disk: the live files, the journal, the backups, `state.json`, notice files. The
operator and editors write the live files without the lock.

## 2. Modules

    AtomicPublish         what publication promises
         ^ refined by
    Publisher             internal/publish, step by step
         ^ EXTENDS
    Coordinator           commands over several targets
         ^ EXTENDS
    PublisherProofs       proofs about all three

    ProviderGate          on its own; its publication has Publisher's outcomes
         ^ EXTENDS
    ProviderGateProofs

    Notice                what a commit tells others; its commit is one step
         ^ EXTENDS
    SessionHook           the sessions that are told
         ^ EXTENDS
    NoticeProofs          proofs about both

    Data                  operators on functions and sequences
         ^ EXTENDS
    PolicyTypes           what the following share: absent keys, hours, references
         ^ EXTENDS
    PolicyFile   Staging   Routing        ModelSelection
                              ^ EXTENDS
                           QuotaSources
    History               extends Data alone

    DataLemmas            proofs about Data
         ^ EXTENDS
    PolicyProofs          of PolicyFile and Staging
    RoutingProofs         of Routing and QuotaSources
    HistoryProofs         of History
    SelectionProofs       of ModelSelection

    MCPublisher, MCCoordinator, MCProviderGate, MCNotice     constants for TLC
    MCDecisions           composes History, QuotaSources, PolicyFile, Staging,
                          ModelSelection

`Data` has no code of its own: it defines a function laid over another, the members of a
sequence that are in a set, a sort that keeps equals in their order, and a sum, where
what TLC and the community modules offer has no definition a proof could expand.

### Publisher

One variable per thing on disk: `live` and `durable` (what readers see, and what
is left after a power loss), `backups`, `journal` and `jdisk` (likewise), and
`st`, the fields of `state.json` that publication reads or writes. `pc`, `tx` and
`todo` are the process's memory and vanish in a crash. Bytes are tokens: quota's
candidate is named by the revision and the last provider event it was rendered
for, other bytes are numbered; equality of tokens stands for equality of SHA-256
digests.

| Action | Code |
|---|---|
| `Begin`, `RecoverNoop`, `RecoverCommitted`, `RecoverStale`, `RollForward`, `RefuseExternal`, `BeginRestore`, `RestoreFile`, `RestoreFails`, `FinishRestore`, `CleanupJournal` | `Recover` and its branches, in the order of its tests |
| `Submit` | what callers put into a transaction; `buildTransaction` reads the live hashes |
| `TakeBackup`, `BackupFails` | step 1, `Snapshot` with `freshPath` and `prune` |
| `WriteJournal` | step 2 |
| `Prepare`, `PrepareFails` | step 3, `prepareOne`'s comparison with the expected hash |
| `RenameFile`, `SyncDirs`, `RecordProgress` | steps 4 to 6 |
| `Commit`, `RemoveJournal` | `Store.Save`, `removeJournal` |
| `SaveObservation`, `NothingToDo` | locked transactions without a journal |
| `UserWrite`, `Kill`, `PowerLoss` | the environment |

An error return is `Fails`, a disjunct of the step it belongs to, with what the
step has done by then: a `Save` may fail before or after its rename, a restore
after its copy, a backup after its copy when pruning fails. A kill is possible at
every `pc`; a power loss may undo, file by file, renames whose directory was not
synced, and may bring back a removed journal, whose directory is never synced.

`AtomicPublish` is the specification the publisher is shown to implement: a batch
of files, the revision, the claim and the debt change together or not at all. The
refinement mapping (`View`, `Batch` at the end of `Publisher`) shows a file of an
uncommitted journal as it was before; the commit point is the save of
`state.json`. What the code cannot promise is in the abstract specification too,
under its name: `LoseEdit`, a write by someone else between quota's comparison and
quota's rename.

### Coordinator

Extends `Publisher` with the command under way (`cmd`) and what callers were told
(`told`). `Start` accepts a command (`init`, `reconcile`, `set`/`clear`,
`disable`/`enable`/`reset`, `check`), `SubmitTarget` and `TargetDone` are
`processOneTarget` around the publisher's own steps, `TargetFails` a target that
does not render, stage, validate or build, `ResolveFails` the synthetic targets,
`Finish` the last save, with `recordTargetOutcomes`. Unlike `Publisher`'s `Submit`,
every target is applied with the same prior and next revision, as
`processOneTarget` does, whatever the targets before it have committed; `init`
applies with prior = next when it runs over an existing state. Rendering is a
function of the accepted provider events, so that rendering again gives the same
bytes and an unchanged target is an empty transaction.

### ProviderGate

Per provider: the live `enabled` field in its three shapes (absent, true, false),
what has been observed, the manual mark, the claim (baseline, axis, conflict). A
pass is `ReadGate` (the whole of `planProviderGate` and `composeProviderCandidate`,
with `SignalGate`/`PoolSkip` for `signalPoolRule`), a window in which anything may
be edited, and one of: `Commit`; `Refuse` (conflicts, changed input, refused
candidate: nothing published, markers refreshed); `GateFailsLate`, `CrashBefore`,
`CrashRolledForward`, `CrashCommitted`, which are the outcomes `Publisher` has for
one file. `ReadToggle` is `routing disable`/`enable`. `wish` is not in the code: it
records the shape the operator last gave each field, which is what the claims are
for. `astray` lists providers touched by one of the defects below (an edit
overwritten by a toggle of another provider, a disable over a claim, a late
failure); `OperatorShapeKept` leaves them out, and each has its finding.

### Notice and SessionHook

`Notice` has the processes that run commands, one of which holds the lock. A
command that changes a provider is `GatePass`, `Toggle` or, under a policy with
chains, `ChainPass`; its commit is one step that also stores the debt
(`ReconcileDebt` is `reconcileProviderNoticeDebt`: merge, retire, drop). What
follows are steps of their own, each of which may fail and between which the
process may die: `PublishNotice`, `SaveAgain`, then, without the lock, `Reserve`
(`reserveOnChange`, which takes it again), `RunActions` and `RecordFailures`.
`EditField`, `Enroll` and `Migrate` are the operator. `mine`, `said`, `ran` and
`crossed` are not in the code: which state of a provider is quota's own, what
notices last said of it, how often actions ran, and whether the policy was replaced
over a debt.

`SessionHook` adds the daemon of each session and the hook processes, which polytoken
starts at the start of a session, at a prompt and after a turn. `TurnHook` reads the
notice without the session's lock, `TurnLock` gives up if another hook holds it, and
what follows is `CheckIdle`, `CheckSummary`, `Reload` and `Mark`, the calls of
`reloadIfStale`; a turn may start or end between any two of them, and any of them may
fail (`TurnFails`), which ends the hook silently.

### Routing and QuotaSources

`observed` is what `state.json` holds of each provider, `desired` the policy, `now`
the time in units of which `Day` make a day. From these, without further state,
`Rank` is `ComputeRanking` and `Rank` of `internal/routing` (eligibility, `Signal`,
clusters, off-peak hours, weight), `Gated` the verdict of the signal gate, `Survivors`
a chain after `resolveSurvivors` and `applyRoutingOverlay`, and `Build` the plan. The
actions are what changes their inputs: `Check`, `Axes` and time. Fractions are in
hundredths, since the code's are floating point and no comparison in it is finer; what
is left of a window (`Remaining`) is rounded up, so that nothing is left only where the
code's fraction is zero (`types.go:218`).

`QuotaSources` replaces what a check finds by what the adapters make of the answers:
each reads a lenient record of what its JSON may hold, `Bad` standing for what is
there and cannot be decoded. `said` and `unread` are not in
the code: what each provider last said of itself, by the limits that can be read
(`Stated` says of each adapter which those are), and whether the answer its snapshot is
made of was read in part only. What cannot be read may be the limit that is used up: there
`SayingsKept` asks that the provider is neither ranked nor gated by what is left.

### PolicyFile, PolicyTypes

A document is a record of what its keys hold. `LoadPolicy` is `loadBytes` with its
refusals and defaults, `ProposeLegacy` and `ProposeProviderOnly` are what `init` derives
from the live configuration (`Carry` what it takes over from the policy before),
`Marshal` what is written. An init goes through `InitStarts`, `Propose`, for a migration
`ClearPreserved` and `LinkPreserved`, and `Write`; it may fail or die before each
(`Fails`), and the operator may write or remove the file (`OperatorWrites`), change the
live configuration or put the preserved policy back (`RollBack`) in between. `ToggleRouting` is
`routing on|off`. The one moment without operator writes is between the link and the
rename of a migration, where no check can tell: what would be lost is among the findings.

### Staging

`layers` are the live files of the global root and of one project, `command` the plans
of the command under way (after `applyModelGroupsGuard`), `todo` its targets,
`candidate` what is staged. `Stage` is `Build`: `ReadLayer`, `Effective` (merge and
redaction), `MergeFiles`, then twice the edits: `ApplyPlan` on the copy that is
validated, for a project with the edits of the global plan first (`Reconciled`), and
`PublishDir` on the copy that is published, which has another base (`PublishBase`).
`WithFiles` is what the renames of the publisher do to a root.
`StageTarget`, `Valid` and `Invalid` are `processOneTarget` around it, target after
target; a gate pass holds its global candidate (`held`) until all targets are valid, as
`evaluateProviderGate` does. A document is its keys and its form, which says whether the
editor takes it and whether its author's layout is left. The operator edits at any
time. A gate pass compares all roots with its snapshots before it publishes
(`Unchanged`), which is one step with the publication here, so that an edit
between the two is not seen; nor is an edit that was made and undone while the roots
were staged, though the candidate was made from it; a reconciliation compares with bytes read after validation, which
is no comparison with what the candidate was made from (finding 7).

### ModelSelection

`Invoked`, with `--refresh` `RefreshQuota`, then `ReadPolicy` (with the clock) and
`ReadState` are what `select` reads, without the lock and one after the other;
`Prepare` validates, `Assess` is the answer of the assessor if no tier was given, and
`Choose` takes a model from the groups of the tier by the evidence on its provider
(`Classify`). `EvaluateCase` and `Reports` are `select-eval`. Other commands commit
policies and states between the two reads (`Commits`, `PolicyEdited`); a commit before
them is another initial state. `since` is not in the code: everything that was recorded
of each provider since the clock was read.

### History

A command loads a copy (`Load`), adds events (`ManualEvent`, `QuotaEvents`, `GateEvents`,
`RoutingChange`, `FailureEvent`) or a record (`Record`), and saves, which bounds, validates
and may be refused. `BoundEvents`, `Finalize`, `AggregateOldest` and `BoundHistory` apply the
limits in the code's order, down to the reduction of a record to its counts. `of`, not
in the code, keeps what there was to record before any limit.

## 3. Runs

| Run | Question | Bounds | Result |
|---|---|---|---|
| `publisher_errors` | Is publication atomic and journaled when any step may fail, the process may be killed anywhere, and others write at any time? | 2 files of a target, retention 1, 2 revisions, numbers up to 3, 1 edit, 2 faults | `TypeOK`, `UncommittedBytesJournaled`, `JournalOutlivesCommit`, `RevisionsAdvance`, refinement `AtomicSpec` hold |
| `publisher_power` | Are committed bytes durable, and edits outside the check windows respected? | the same, 2 power losses | `CommittedBytesDurable`, `EditsRespected` hold |
| `publisher_converges` | Is every journal resolved in the end? | no edits, 2 faults up to the commit, fairness | `JournalNeverStale`, `Converges` hold |
| `publisher_restore_crash` | The same with a kill during recovery | 1 revision, 2 kills | `Converges` violated (finding 1) |
| `publisher_lost_event` | Are events shown in files also in the state? | 2 kills | `LiveEventsRecorded` violated (finding 2) |
| `publisher_stale_journal` | Can a journal become stale? | 2 errors when a journal is removed | `JournalNeverStale` violated (finding 3) |
| `coordinator_chain` | Do commands keep what they accepted, report what is on disk, and retry what is pending? | 2 targets, one of two files; 2 revisions; 2 faults (error, kill, invalid candidate) | `CoordTypeOK`, `AcceptedEventsKept`, `ReportedResults`, `PendingClearedWhole`, `PendingClears` hold |
| `coordinator_last_good` | Does a failed target stay on its last applied files? | 1 error, the target of two files last | `FailedKeepsLastApplied` violated (finding 4) |
| `provider_gate` | Does quota give back what it took, respect conflicts and keep pools alive? | 2 providers in a pool, one exempt; 2 polls, 1 toggle, 1 edit, 1 fault | `GateTypeOK`, `OperatorShapeKept`, `PoolKeepsOne`, `ManualDisableHolds`, `ConflictRespected`, `Recovers` hold |
| `provider_gate_baseline` | Does a disable over a claim keep the operator's shape? | 2 polls, 2 toggles, no edit, no fault | `EnableRestoresBaseline` violated (finding 5) |
| `notices` | Is every change announced in the end, are actions run at most once and in order, do sessions follow? | 2 processes, 2 providers, 1 action, 2 revisions, 1 edit, 2 faults; or 1 process, 1 changing provider, 1 session, 2 hooks, 1 fault | `DeliveryTypeOK`, `AnnouncedOrOwed`, `ActionsAtMostOnce`, `ActionsInOrder`, `NoticeNeverOlder`, `DebtSettles`, `ConsumedIsLoaded`, `MarkerKept`, `WarnedOnce`, `ReloadOnlyWhenIdle` hold |
| `decisions` | Do the parts that decide decide what they promise? | see below | `TimelineCounted`, `RecordsAccount`, `RankIsPreference`, `ChainsKept`, `GateAndRankAgree`, `SayingsKept`, `LoadedIsUsable`, `InitKeeps`, `PublishedAsValidated`, `SelectionEarned` hold |

Why the bounds are enough. Two files are what a batch needs to be half renamed;
retention 1 is the tightest the code allows, and numbers up to 3 let a number be
reused after a restore; two revisions let a journal meet a later revision; two
faults are an interruption and an interruption of its recovery, which is what all
the publisher's defects take; one edit at any point is before, inside or after every
window. `Coordinator` needs a target after a target, one of them with two files, and
one revision more for the retry. In `ProviderGate` one pool of two is what the pool
rule needs, one of them exempt to tell the two reserve cases apart; both an edit and
a toggle fit into one pass's window, and two polls turn a cause on and off. Symmetry
is used in `MCPublisher`'s safety runs only, on files, which are interchangeable
there (one target).

In `notices` a behaviour is either about the commands (`focus` "commands") or about a
session; the product of both would only repeat each with more states. Two processes
are what a reservation, a lock and a late notice need; two providers let one be
announced while the other is owed, or retired by an edit; two revisions are an older
and a newer notice, two faults a failed publication and a process that dies before
it is made good. Two hooks are enough to interleave over one marker, each with one
notice more than the marker knows.

In `decisions` a behaviour is about one of eight parts, its `focus`, and the other
parts stay as they are:

| Focus | Inputs and bounds |
|---|---|
| timeline | 4 events of two sizes under limits of 3 events and 4 units, so that both limits bite, on their own and together |
| records | 5 revisions with 4 kinds of changes under limits of 2 per list, 4 records and 11 units: a record in full, aggregated, reduced to counts alone, and records dropped |
| routing | 3 providers, 5 policies (one or two groups, two schedules, an exempt provider, unpolled providers, routing off), 36 combinations of what a poll may find, 4 states of the axes; 2 changes; the moments 0, 1, 2, 15, 16, with 4 to a day: the hours of one day, one after midnight, and a day of the next week |
| polling | one provider under each adapter with 1 to 19 answers, beside one that answers or not and one whose adapter is unknown; two polls, the contract expiring between them |
| policy | 36 documents, two of them sound and each of the others wrong in one way, and 5 live configurations; 3 writes or commands |
| staging | 36 pairs of layers, with anchors, symbolic links, groups, two kinds of credentials and what does not parse; 13 plans, one of them a gate pass; 3 commands or edits: an edit made and undone around the staging is two |
| selection, evaluation | 12 states of two providers, 3 policies, 14 invocations, 8 answers of the assessor; two moments of the clock around the freshness; one commit of another command |

Three providers are the fewest with a tie, a gap of the tie band and a
member without a signal in one group; two per list are the fewest that can be cut; two
polls are an observation and what replaces it. Schedules
list every day once, because of a finding about those that do not.

The bounds are constants: `MaxRev`, `MaxSeq`, `MaxEdits`, `MaxFaults`, `MaxPolls`,
`MaxToggles`. `FaultAt` and `EditAt` limit where faults and edits may happen, and a
run that limits them says so: `EditsRespected` is checked with no writes between a
look and the write that follows (`OutsideWindows`), because a comparison and a
rename are two steps and no program can do better without a lock its editors take;
the edits that are lost there are `LoseEdit` in `AtomicPublish`. `publisher_converges`
excludes the interruptions of findings 1 and 3, which have runs of their own, and
edits, because a journal of edited bytes is kept until the operator decides
(`RefuseExternal`). `coordinator_chain` has its faults in the command, recovery's are
in `MCPublisher`; it has no edits and no power loss.

Fairness. `Fairness` in `Publisher`: commands start again (the SwiftBar plugin runs
`check` every minute, and timers run `reconcile`), each recovers before anything
else, and a running process takes its next step. Nothing is fair about submitting
transactions, about edits or about faults. `CoordFairness` is the same, with the
timer's `reconcile` started infinitely often when it can be; strong, because other
commands may take the lock in between. `GateFairSpec` has the timer's pass and its
end. `NoticeFairness`: a process that has committed goes on, and `check --reconcile` runs
again and again and is not refused for ever; strong, because other commands hold the
lock in between. The hook has no fairness: nothing promises that a session has another
event. Liveness is stated for when faults stop, by their bound.

Deadlock is checked in every run but `decisions`, whose parts end when their bounded
inputs are used up.

## 4. Proofs

`PublisherProofs` proves, for every set of files and targets, every retention limit
of at least one and every number of revisions, edits and faults
(`PublisherAssumption`, the only assumption; `BackupLimit # 0` is what
`SetBackupLimit` clamps to), and wherever faults and edits happen:

- `TypeCorrect`: `Spec => []TypeOK`.
- `Invariant`: `Spec => []Inv`, the inductive invariant.
- `WriteAheadHolds`: `Spec => []UncommittedBytesJournaled`.
- `JournalOutlivesCommitHolds`, `RevisionsAdvanceHolds`: the two action properties.

`TypeOK` is not inductive, because steps read the transaction or the journal, whose
presence depends on the phase, and a number for a new backup exists only because
there are finitely many; `TypeInv` adds that. `Inv` is the conjunction of

- `WriteAhead`: bytes ahead of the revision, live *or durable*, are covered by the
  journal; a power loss makes durable bytes live again.
- `JournalInv`: a journal leads from a revision to its successor and names the
  successor's bytes, also the one a power loss may bring back.
- `TxInv`: the transaction in memory succeeds the committed state and, once written,
  is what the journal says.
- `PhaseInv`: what each phase may rely on; in particular nothing is ahead of the
  revision once recovery has finished and until the first rename.
- `BytesInv`: no backup holds uncommitted bytes, so that a restore never writes any,
  and edits have bytes of their own.
- `TakenInv`: the backup taken holds the bytes the transaction was built against,
  *or* the file has been edited in between and the comparison is going to fail. This
  is the heart of it: the snapshot copies whatever is there at that moment, and only
  `prepareOne`'s comparison afterwards makes it the right copy.

The proof has one lemma per group of actions (`InvRecover`, `InvPrepareTx`,
`InvPublish`, `InvOthers`) and lemmas about backups (`NewestBackup`, `NextSeqFresh`,
`PruneKeepsNewest`: retention never removes the newest).

`ProviderGateProofs` proves, for every nonempty set of providers (`load.go:413`
requires one), every division into pools, every set of exempt and kept-enabled
providers and every number of polls, toggles, edits and faults:

- `GateTypeCorrect`: `GateSpec => []GateTypeOK`.
- `GateInvariant`: `GateSpec => []GateInv`, the inductive invariant.
- `OperatorShapeKeptHolds`, `ConflictRespectedHolds`, `NoPassLiftsManualDisable`,
  `PoolKeepsOneHolds`: the safety properties of the run `provider_gate`.

None of the four is inductive: a pass is planned at one moment and published at
another. `GateInv` adds what the plan under way still has to do with the present:
`PlanInv` relates each provider's planned bytes and claim to the shape that was read
and to the claim, mark and observation *now*, which no one changes before the pass
ends, and says nothing of the fields, which the operator may change; the recheck of
the input is what then ties the two together (`PublishInv`, `PassEffect`). `ShapeInv`
is `OperatorShapeKept` in every state and a little stronger: under a claim, a field
that is enabled is as the operator wants it, without which releasing such a claim
could not be shown to be harmless. That the four kinds of change a pass makes exclude
one another is `PlannedCases`; that the member left enabled in a pool is left alone by
the same pass is `PoolKept`.

The second part of `PublisherProofs` proves, with `Inv` and one invariant more (`AtomicInv`):

- `PublicationIsAtomic`: `NoPowerLoss => (Spec => AtomicSpec)`, that `Publisher`
  implements `AtomicPublish`. Each step maps to one of its steps or to none; the lemmas
  about `View` say which. `AtomicInv` is what `Inv` lacks for that: a journal is of use
  only until the next transaction, it was written for the claims `state.json` still has,
  the backups it names hold the old bytes *or an edit*, and no loop leaves a file behind.
- `CommittedBytesDurableHolds`, under `SyncedWindows`; `EditsRespectedHolds`, under
  `NoEditInWindows`; `JournalNeverStaleHolds`, under `NoPowerLoss` and `RecoveryRemoves`.

The hypotheses restrict `FaultKinds`, `FaultAt` and `EditAt` and are those of the runs, or
weaker. Without them TLC finds the properties violated: a power loss may give back several
overwritten edits at once, which is no step of `AtomicPublish`; a process that dies between
a rename and the sync of its directory leaves files that recovery rolls forward without a
sync; a comparison and a rename are two steps; and finding 3.

Its third part proves of `Coordinator`, for every set of targets, any order and any division of the
files among them, with faults anywhere, recovery's steps included (the run has them in the
command only):

- `CoordInvariant`, `CoordTypeCorrect`, `AcceptedEventsKeptHolds`, `ReportedResultsHolds`,
  `PendingClearedWholeHolds`.

`Publisher`'s `Inv` does not hold here: every target is applied with the same prior and next
revision, so that a second target's journal looks committed as soon as the first is
(finding 4). `CoordInv` therefore has its own account: `CmdInv` and `TargetInv` say what
command, transaction and live files have to do with each other, `ChainJournalInv` that a
journal which may still be rolled forward speaks for all the files of its target,
`RecoveryInv` that recovery leaves none, `ToldInv` that what was reported stays true until
the next command. Only the types and the lemmas about single steps are `Publisher`'s.

`NoticeProofs` proves, for every set of providers and any number of processes, actions,
revisions, edits and faults (`FreeAssumption`: no process is called what a free lock is):

- `NoticeInvariant`, `NoticeTypeCorrect`, `AnnouncedOrOwedHolds`,
  `ActionsAtMostOnceHolds`, `ActionsInOrderHolds`, `NoticeNeverOlderHolds`.

`AnnouncedOrOwed` is not inductive: between a commit and the last save the debt that is
going to be saved is in a process's memory. `OwedInv` says of it what it says of the debt in
the state. `ActionsInv` ties the number of runs to the reservation, `OrderInv` every
revision in memory and on disk to the state's.

Its second part proves of `SessionHook`, for every set of sessions and hooks on top of that
(`HookAssumption`, as before):

- `DeliveryInvariant`, `DeliveryTypeCorrect`, `ConsumedIsLoadedHolds`, `WarnedOnceHolds`,
  `MarkerKeptHolds`, `ReloadOnlyWhenIdleHolds`; and `DeliveryNotices`, that the properties
  of `Notice` hold together with the sessions.

The heart is `HeldInv`: what a hook has read of the marker under the lock of its session is
what the marker says until the hook is done, although it looks at the daemon and the notice
in between and writes the whole marker at the end.

`SelectionProofs` proves, for every set of providers and policies, any groups, any quotas
and any writes of other commands (`SelectionAssumption`: quotas and times are numbers, the
policies have the same mappings and models of these only):

- `SelectionInvariant` and `SelectionEarnedHolds`, for every set of invocations whose
  documents are sequences of sequences, which is what YAML gives (`Invocations`).

`Select` walks groups and models in order and takes the first that will do. That the model
it returns is the first by place in its class (`ChosenWell`), and what `Classify` says of the
evidence (`ClassifyMeans`), are lemmas about the operators; `ReadSince` is the part about
interleaving: what was read of a provider has been recorded since the clock was read, or was
there when it was.

`DataLemmas` proves what the operators of `Data` give: the sum of a function is the sum of
what it gives on one part and on the other, the members of a sequence in a set are
those members in their order (`AmongOrder`), and `SortedBy` has every member once, in the
order of the keys and of the places (`SortedByFacts`). The provers cannot fill in the
predicate of an induction rule, so each of these argues by a least counterexample, which
needs only that a nonempty set of numbers has a least one (`LeastNat`).

`HistoryProofs` proves, for every limit that is a number (`HistoryAssumption`), any sizes
of events and any changes there may be to record:

- `HistoryInvariant` and `TimelineCountedHolds` of the timeline,
- `AccountInvariant` and `RecordsAccountHolds` of the reconcile history.

`HistoryInv` says of the command's copy, too, that it has no gap (`Gapless`), not yet that it
is valid: an event stamped in the local zone is in the copy and makes the save refuse it.
`BoundEventsGapless` is the lemma that matters: whichever limit bites, what is cut is counted.

`AccountInv` adds the records: each is of its revision, valid, and accounts for what the
revision had to record (`RecordInv`), newest first and within the limits, in the file and
in the copy. Its steps follow a record through the code: what `BuildTemplate` cuts is in
the omitted counts (`FullFacts`); `Compact` and `AllOmitted` move counts from one place to
another (`CompactFacts`, `AllOmittedFacts`), so that an aggregate claims no less than was
omitted; and `BoundHistory` aggregates the oldest, then drops the oldest, until the limits
are met (`BoundHistoryInv`). The sums are those of `DataLemmas`. The changes are those a reconcile can produce (`ChangeRecords`: numbers, and
targets with chains of numbers of entries); the targets' identifiers are counted from one.

`PolicyProofs` proves, for every document, live configuration and sequence of commands and
operator writes (`PolicyAssumption`: what stands for an absent key is no value of it):

- `PolicyInvariant`, `LoadedIsUsableHolds`, `InitKeepsHolds`.

`LoadedIsUsable` is about what `LoadPolicy` lets through, and about what it makes of its own
output: `EnrolledAgain` loads what `Marshal` has written, section by section
(`QuotaAgain`, `OperationalAgain`, `SelectionAgain`, `ModelsAgain`). `InitKeeps` needs the
same for proposals (`LegacyWritten`, `EnrolledWritten`), and an invariant, since an init
reads at one step and writes at another: `JobKept` says that the proposal under way carries
what the existing policy had (`Ready`), that the preserved copy is the file once it is
linked, and that after the write the file is the proposal. The exception in
`InitKeeps`, a reference the live configuration misspells, is what the proof does not go
through without (see the findings).

Its second part proves of `Staging`, for all keys, files, layers and plans
(`StagingAssumption`):

- `StagingInvariant` and `PublishedAsValidatedHolds`.

`StagingInv` is small: the plans are those of a command after the guard, the candidate is
what `Stage` makes of the layers it was read from, and a gate pass that has come to its
project holds the global candidate. The work is in the comparison of two copies made in two
ways, key by key, because forms and order differ (`SameKeys`): the configurations agree
since redaction commutes with edits that touch no credential (`ConfigurationsAgree`);
editing with the global plan and then with the project's gives what the two published files
merge to, but for the keys the project shadows (`EditedTwice`, `LiveConfigAgrees`); and a
definition is edited once in each root or is the project's own (`LiveFilesAgree`).
What the proof asks of plans, `IsPlan` and `IsCommand`, is what `Build`
(`reconcile.go:240-356`) and the gate write: no edit of a group or a credential, none in a
project that takes a key out of `config.yaml`, always the same two keys in a definition, and
a gate pass edits `config.yaml` alone. TLC evaluates it for the plans of the run.

`RoutingProofs` proves of `Routing`, for every policy that loading lets through, every
finite set of providers, every snapshot and moment (`RoutingAssumption`):

- `RoutingInvariant`, `GateAndRankAgreeHolds`, `ChainsKeptHolds`, and
- `RankIsPreferenceHolds`, under `SchedulesComplete`: each schedule lists each day exactly
  once. Without it a provider is at its peak and off it at the same hour, or neither, and
  the property fails, which is a finding about the code and no gap of the proof.

The invariant is only that policies and snapshots stay well-formed; the properties are
about what is computed from a state. For ranks: one provider is in a better
cluster than another exactly if a gap of the tie band or more divides their group between
them (`ClusterIsApart`), so that the code's order is the preference (`BeforeIsPreferred`);
a rank counts the classes before it, fewer before the preferred one (`FewerBefore`), and
groups take up places of their own (`PlacesOfGroups`). For
chains: the survivors are the usable members of the chain, the normal ones before the
reserve (`PartitionFacts`), of which the overlay fills the slots of one mode and group with their own
occupants sorted by rank (`OccupantFacts`, `PlacedFacts`).

And of `QuotaSources`, for every adapter and every answer it may read, in any number of
polls (`QuotaAssumption`: the answers are of the adapter that is asked, budgets positive):

- `PollingInvariant`, `SayingsKeptHolds`; and `AnswersAreDecidedOn`, that gate, ranking and
  chains keep their promises over what the adapters make of the answers.

`PollingInv` strengthens the property to the snapshot that is kept: it must survive a poll
that fails. One lemma per adapter (`CodexHears`, `ZaiHears`, `NeuralwattHears`, ...) says that
its snapshot tells neither more nor less than the answer did; they share `SnapshotTells`,
which reads what the windows say (`Tells`) off the availability of the snapshot. One more
per adapter (`CodexPartial`, ..., together `FetchPartial`) says that of an answer of which a
part is not read the snapshot is partial, which is what keeps it out of the ranking and
of the gate's verdict.

Only model-checked is liveness under fairness, which is out of the prover's reach:
`Converges`, `PendingClears`, `Recovers` and `DebtSettles`. The properties of the runs that
expect a violation are false and have no theorem.

## 5. Findings

With the runs that show them; the quotations are in `PROJECT.json`.

1. `Restore` removes each backup before the recovered state is saved: a kill in
   between makes every later recovery fail (`publisher_restore_crash`).
2. Roll-forward keeps the loaded providers: the event whose rendering is live is
   lost (`publisher_lost_event`).
3. A journal whose removal failed outlives a save without a journal and is stale from
   then on (`publisher_stale_journal`).
4. A target that fails between two renames is recorded as last-known-good at the
   journal's own next revision, so the next recovery drops the journal and the files
   stay mixed (`coordinator_last_good`, where that target is the command's last). If
   another target follows, no recovery is needed: its journal overwrites the failed
   target's and is removed with its commit (`MCOrder` in place of `MCOrderLast`).
   The same as in the run follows from a kill in a second target
   (checked with `FaultKinds = {"kill"}`), and for `init --force` from the prior and
   next revision being the same.
5. `routing disable` over a claim takes quota's own `false` for the operator's shape
   (`provider_gate_baseline`).
6. A gate publication that fails after its rename is saved as a refusal, with no claim
   on the field it has turned off. `GateFailsLate` models it; no run of its own.
7. A reconciliation reads the bytes it expects after staging and validation: an edit
   made while the candidate is validated is overwritten (`Staging`, where
   `PublishedAsValidated` asks for the opposite of gate passes only; no run of its own).

Without a run, in `PROJECT.json` with their lines:

- Comments that disagree with the code: what a refusal persists, the observations
  `check --reconcile` acts on, what recovery does with the
  journal of a failed preparation, the axis claims lose in the journal, whether the
  reconcile history is persisted and its dropped records counted, and that what `init`
  proposes is valid and what the file will say.
- Events of failed notices and actions are stamped in the local zone, and the save that
  is to record them is refused unless that zone is UTC. `History` has the refusal.
- A record reduced to its counts counts some omitted entries twice, which is why
  `RecordsAccount` asks of such a record only that nothing is missing.
- Hours that no peak window lists as a day are never off-peak, and two windows on one
  day contradict each other.
- The `config.yaml` of a global target is published as it is marshalled anew, without
  the comments, order and anchors the operator's file had, unless the policy is
  provider-only.
- `init --provider-only --force` over a provider-only policy drops its quota sections,
  and run twice destroys the preserved policy of before.

Smaller things met while modelling, which no document denies:

- `init --force` of a legacy policy also resets its operational, routing, quota and
  `keep_enabled` settings, and chains it proposes have one entry.
- A switch of routing, or a migration, overwrites an edit the operator made between its
  read and its rename; a kill leaves a `.desired.yaml.*` file behind.
- A notice published late stands under its old revision once the policy was replaced in
  between (`crossed`); a late failure of a publication loses its debt; actions of
  different revisions may overlap in time; the first notice a session observes is its
  baseline, and not acted on.
- The copy that validates a project has the edits of the global plan written over the
  project's own values of the same keys, which a session goes on to read: those keys are
  validated with values that are not going to be live (`Shadowed`). It has them also
  when the global target was refused.
- A gate pass compares the files with its snapshots and not with what it staged: an edit
  made after the snapshots, staged, and undone before the comparison is published, if it
  was valid (`OverwritesNoEdit` asks only about edits that are still there).
- A definition only the global root has is published into a project whose plan names it,
  as a copy.
- A negative `freshness_ttl` is accepted and counts as the default of 30 minutes; a
  negative `weight` is accepted as it is.
- Codex: `individual_limit: null` hides the limit within `rate_limit`.
- What an answer says goes unheard in these cases, which `Stated` leaves out. A window or
  limit of codex with one field that cannot be decoded is dropped as a whole, also when its
  share says it is used up (`codex.go:567-569`, `605-626`); the same holds of the elements
  of the other adapters. The snapshot is partial, so that the provider is not ranked, but
  it is not taken for used up either. An answer of neuralwatt whose numbers contradict each
  other fails the poll even when nothing is left (`neuralwatt.go:362-375`), unless it says
  overage or blocked, and one whose time is in the future or cannot be read fails it
  whatever it says (`neuralwatt.go:278-279`); a cost report
  over its budget fails when a later page is broken or there are too many
  (`anthropic.go:245-262`). A poll that fails keeps the observation of before, which may be
  healthy.
- The evidence of every adapter expires three months after 13 August 2026, and every poll
  fails from then on.

## 6. Not modelled

- **In the publisher**: validation of paths and symlinks, temp files, an unreadable
  journal, durability of `state.json` and of backups between rename and directory
  sync, the lock's timeouts. `Submit` reads the live bytes and renders in one step; an
  edit during staging is in `Staging`.
- **In the coordinator**: the second, best-effort save after notices and the records of
  the history, which `Notice` and `History` have on their own; routing metadata.
- **In the gate**: the arithmetic of thresholds and freshness (`hot` is its verdict;
  `Routing` has it), which axis is corrupt; operator edits between a crash and the next
  recovery.
- **In notices**: the document's layout, the environment and output of actions, path and
  permission checks, the installation of the hook and its diagnostics.
- **In adapters**: credentials, requests, retries of a 429 (there are none), names of
  windows, reset credits and usage summaries, on which nothing decides.
- **In the policy file**: YAML, the spelling of references and durations, drift reports.
- **In selection**: the HTTP client, latencies, the confusion matrix.
- **In staging**: YAML and frontmatter as bytes (`document/*`, of which there is what an
  edit leaves, changes and refuses), the directories and their removal, references to
  the environment, links in parent directories, the list of admitted paths, which is
  `Allowlisted`.
- **Validation** runs a binary.
  **Target discovery** reads directories. **Doctor and diagnostics** print the state.
  The **command line** parses arguments. **SwiftBar**, scripts and the sanitizer have no
  state. Where one of them fails, the modules above have the failure.

## 7. Plan

Done: `AtomicPublish`, `Publisher`, `Coordinator`, `ProviderGate`, `Notice`, `SessionHook`,
`History`, `PolicyFile`, `Routing`, `QuotaSources`, `Staging`, `ModelSelection`, and the
proofs of section 4.

What would come next: in `Coordinator`, edits between reading and building, and the second
save; in `Staging`, more than one project, whose candidates all hang on one global plan.
