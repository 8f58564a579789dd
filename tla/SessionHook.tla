----------------------------- MODULE SessionHook -----------------------------
(***************************************************************************)
(* internal/notice/hook.go, hook_state.go, private_state.go, activity.go   *)
(* and authority.go: how a running session hears of a notice.              *)
(*                                                                         *)
(* Polytoken runs the hook as a process of its own at three events of a    *)
(* session: its start, each prompt, and the end of each turn.  The hook    *)
(* keeps one marker file per session, under a lock it never waits for.     *)
(* After a turn it compares the revision of the notice with the marker     *)
(* and asks the session's daemon to reload; before a prompt it warns of a  *)
(* model that is no longer in the chain.  Every failure is silent, so that *)
(* a later event must make up for it.                                      *)
(*                                                                         *)
(* The daemon is not part of the program: a turn may start or end between  *)
(* any two requests the hook makes.                                        *)
(***************************************************************************)
EXTENDS Notice

CONSTANTS
  Sessions,   \* the sessions that run the hook
  Hooks       \* the hook processes

\* A free lock is not held.
ASSUME HookAssumption == Free \notin Hooks

VARIABLES
  open,     \* the sessions that have been started
  marker,   \* the marker file of each session
  daemon,   \* the daemon of each session
  slock,    \* the hook process that holds the session's state.lock, or Free
  hook,     \* what each hook process is doing
  warnings  \* how many drift warnings each session was given for each revision

svars == <<open, marker, daemon, slock, hook, warnings>>
dvars == <<nvars, svars>>

\* base is empty until a notice has been observed.
Markers == [base : {{}} \cup {{r} : r \in Revs}, consumed : Revs,
            seen : Providers \cup {Free}, warned : Revs, prompted : Revs]
NewMarker == [base |-> {}, consumed |-> 0, seen |-> Free, warned |-> 0, prompted |-> 0]

\* loaded is the revision of the configuration the daemon has read; legacy
\* daemons do not report whether a turn is in flight; queued is a reload it has
\* accepted during a turn.
Daemons == [turn : BOOLEAN, model : Providers, loaded : Revs, queued : BOOLEAN, legacy : BOOLEAN]

\* A turn hook: the session, the revision it read before it took the lock, the
\* marker it read after; quiet, the daemon has not changed since it was asked.
Quiet == [pc |-> "idle"]
HookJobs == [pc : {"lock"}, s : Sessions, rev : Revs]
              \cup [pc : {"check", "summary", "reload", "mark"}, s : Sessions, rev : Revs,
                    m : Markers, quiet : BOOLEAN]

\* Types; the lock of a session is held by the hook that is past it, by no other.
HookTypeOK ==
  /\ open \in SUBSET Sessions
  /\ marker \in [Sessions -> Markers]
  /\ daemon \in [Sessions -> Daemons]
  /\ slock \in [Sessions -> Hooks \cup {Free}]
  /\ hook \in [Hooks -> HookJobs \cup {Quiet}]
  /\ warnings \in [Sessions -> [Revs -> Nat]]
  /\ \A s \in Sessions, h \in Hooks :
       slock[s] = h <=> (hook[h].pc \notin {"idle", "lock"} /\ hook[h].s = s)

HookInit ==
  /\ open = {}
  /\ marker = [s \in Sessions |-> NewMarker]
  /\ daemon \in [Sessions -> [turn : {FALSE}, model : Providers, loaded : {0},
                              queued : {FALSE}, legacy : BOOLEAN]]
  /\ slock = [s \in Sessions |-> Free]
  /\ hook = [h \in Hooks |-> Quiet]
  /\ warnings = [s \in Sessions |-> [r \in Revs |-> 0]]

HookGoto(h, job) == hook' = [hook EXCEPT ![h] = job]
At(h, pc) == hook[h].pc = pc
Release(h) == slock' = [slock EXCEPT ![hook[h].s] = Free]

-----------------------------------------------------------------------------
(***************************************************************************)
(* The baseline.                                                           *)
(***************************************************************************)
\* Mutant: the baseline follows every notice that is observed.
BaselineFollows(m, r) == [m EXCEPT !.base = {r}]

\* ensureBaseline: the first notice observed, or what a session without a
\* baseline has consumed.
Baseline(m, r) ==
  IF m.base # {} THEN m
  ELSE [m EXCEPT !.base = IF m.consumed > 0 THEN {m.consumed} ELSE {r}]

FirstObserved(m) == m.base = {} /\ m.consumed = 0

\* Newer than what the session started from and what it has reloaded for.
Stale(m, r) == r > m.consumed /\ \A b \in m.base : r > b

\* session_start: the baseline, unless the lock is busy, there is no notice or
\* the marker cannot be written.
SessionStart(h, s) ==
  /\ s \in open /\ hook[h] = Quiet /\ slock[s] = Free /\ doc # NoDoc
  /\ marker' = [marker EXCEPT ![s] = Baseline(@, doc.rev)]
  /\ UNCHANGED <<nvars, open, daemon, slock, hook, warnings>>

-----------------------------------------------------------------------------
(***************************************************************************)
(* pre_user_prompt.                                                        *)
(***************************************************************************)
\* The model is in the chain the notice shows; a provider-only notice shows none.
Drifted(s) == doc # NoDoc /\ doc.kind = "chain" /\ ~doc.says[daemon[s].model]

\* Mutant: a warning is not remembered.
AfterPromptForgetful(s, m) ==
  [m EXCEPT !.seen = daemon[s].model, !.prompted = m.consumed]

\* The markers of this prompt: the revision warned of, the model and the
\* consumed revision that the next forced switch is told by.
AfterPrompt(s, m) ==
  [m EXCEPT !.warned = IF Drifted(s) THEN doc.rev ELSE @,
            !.seen = daemon[s].model, !.prompted = m.consumed]

\* handlePrompt, all of it under the lock: baseline, warnings, markers.  The
\* warning is printed even when the marker cannot be written; a process that
\* dies in between prints nothing.
Prompt(h, s) ==
  /\ s \in open /\ hook[h] = Quiet /\ slock[s] = Free
  /\ LET m == IF doc = NoDoc THEN marker[s] ELSE Baseline(marker[s], doc.rev)
         warns == Drifted(s) /\ m.warned # doc.rev
         printed == IF warns THEN [warnings EXCEPT ![s][doc.rev] = @ + 1] ELSE warnings IN
     \/ /\ marker' = [marker EXCEPT ![s] = AfterPrompt(s, m)]
        /\ warnings' = printed /\ UNCHANGED count
     \/ /\ Fault /\ marker' = [marker EXCEPT ![s] = m] /\ warnings' = printed
     \/ /\ Fault /\ marker' = [marker EXCEPT ![s] = AfterPrompt(s, m)] /\ UNCHANGED warnings
  /\ UNCHANGED <<mode, actions, live, enrolled, rev, debt, executed, doc, lock, proc, mine, said, ran,
                 crossed, open, daemon, slock, hook>>

-----------------------------------------------------------------------------
(***************************************************************************)
(* post_model_turn.                                                        *)
(***************************************************************************)
\* The notice is read before the lock is taken.
TurnHook(h, s) ==
  /\ s \in open /\ hook[h] = Quiet /\ doc # NoDoc
  /\ HookGoto(h, [pc |-> "lock", s |-> s, rev |-> doc.rev])
  /\ UNCHANGED <<nvars, open, marker, daemon, slock, warnings>>

\* lockState, readState, ensureBaseline and the comparisons.  A busy lock, or a
\* first observation, ends the hook.
TurnLock(h) ==
  /\ At(h, "lock")
  /\ LET s == hook[h].s  r == hook[h].rev  m == Baseline(marker[s], r) IN
     IF slock[s] # Free \/ FirstObserved(marker[s]) \/ ~Stale(m, r)
     THEN /\ HookGoto(h, Quiet)
          /\ IF slock[s] = Free THEN marker' = [marker EXCEPT ![s] = m] ELSE UNCHANGED marker
          /\ UNCHANGED slock
     ELSE /\ HookGoto(h, [pc |-> "check", s |-> s, rev |-> r, m |-> m, quiet |-> FALSE])
          /\ marker' = [marker EXCEPT ![s] = m]
          /\ slock' = [slock EXCEPT ![s] = h]
  /\ UNCHANGED <<nvars, open, daemon, warnings>>

\* Mutant: the failed hook leaves its lock behind.
TurnFailsLocked(h) ==
  /\ hook[h] # Quiet /\ Fault
  /\ HookGoto(h, Quiet)
  /\ UNCHANGED <<mode, actions, live, enrolled, rev, debt, executed, doc, lock, proc, mine, said, ran,
                 crossed, open, marker, daemon, slock, warnings>>

\* The lock, the marker or the artifacts of the daemon cannot be had, or a
\* request fails: nothing happened.
TurnFails(h) ==
  /\ hook[h] # Quiet /\ Fault
  /\ HookGoto(h, Quiet)
  /\ IF slock[hook[h].s] = h THEN Release(h) ELSE UNCHANGED slock
  /\ UNCHANGED <<mode, actions, live, enrolled, rev, debt, executed, doc, lock, proc, mine, said, ran,
                 crossed, open, marker, daemon, warnings>>

\* What the daemon answers to GET /state.
Activity(s) ==
  IF daemon[s].legacy THEN "unknown" ELSE IF daemon[s].turn THEN "active" ELSE "idle"

\* Mutant: an answer that does not say counts as idle.
CheckIdleUnknownIsIdle(h) ==
  /\ At(h, "check")
  /\ IF Activity(hook[h].s) = "active"
     THEN HookGoto(h, Quiet) /\ Release(h)
     ELSE HookGoto(h, [hook[h] EXCEPT !.pc = "reload", !.quiet = TRUE]) /\ UNCHANGED slock
  /\ UNCHANGED <<nvars, open, marker, daemon, warnings>>

\* daemonIdle and, when the answer is inconclusive, the first half of
\* authorityIdle: /sync, which is inconclusive itself when it shows a turn or a
\* queue.
CheckIdle(h) ==
  /\ At(h, "check")
  /\ LET s == hook[h].s IN
     IF Activity(s) = "active" \/ (Activity(s) = "unknown" /\ (daemon[s].turn \/ daemon[s].queued))
     THEN HookGoto(h, Quiet) /\ Release(h)
     ELSE /\ HookGoto(h, [hook[h] EXCEPT
                            !.pc = IF Activity(s) = "idle" THEN "reload" ELSE "summary",
                            !.quiet = TRUE])
          /\ UNCHANGED slock
  /\ UNCHANGED <<nvars, open, marker, daemon, warnings>>

\* The second half: /sync/summary of the same epoch and cursor, not busy.
CheckSummary(h) ==
  /\ At(h, "summary")
  /\ IF hook[h].quiet /\ ~daemon[hook[h].s].turn
     THEN HookGoto(h, [hook[h] EXCEPT !.pc = "reload"]) /\ UNCHANGED slock
     ELSE HookGoto(h, Quiet) /\ Release(h)
  /\ UNCHANGED <<nvars, open, marker, daemon, warnings>>

\* A daemon that reloads leaves a model whose provider is off.
Reloaded(s) ==
  LET on == {p \in Providers : live[p]} IN
  {[daemon[s] EXCEPT !.loaded = rev, !.queued = FALSE, !.model = m] :
     m \in IF live[daemon[s].model] \/ on = {} THEN {daemon[s].model} ELSE on}

\* Mutant: a reload that is refused counts as done.
ReloadRefusedIsDone(h) ==
  /\ At(h, "reload")
  /\ LET s == hook[h].s IN
     \/ ~daemon[s].turn /\ \E d \in Reloaded(s) : daemon' = [daemon EXCEPT ![s] = d]
     \/ daemon[s].turn /\ UNCHANGED daemon
  /\ HookGoto(h, [hook[h] EXCEPT !.pc = "mark"])
  /\ UNCHANGED <<nvars, open, marker, slock, warnings>>

\* postReload: applied, or during a turn refused (409) or, unexpectedly, queued.
Reload(h) ==
  /\ At(h, "reload")
  /\ LET s == hook[h].s IN
     \/ /\ ~daemon[s].turn
        /\ \E d \in Reloaded(s) : daemon' = [daemon EXCEPT ![s] = d]
        /\ HookGoto(h, [hook[h] EXCEPT !.pc = "mark"]) /\ UNCHANGED slock
     \/ /\ daemon[s].turn
        /\ daemon' = [daemon EXCEPT ![s].queued = TRUE]
        /\ HookGoto(h, [hook[h] EXCEPT !.pc = "mark"]) /\ UNCHANGED slock
     \/ /\ daemon[s].turn
        /\ HookGoto(h, Quiet) /\ Release(h) /\ UNCHANGED daemon
  /\ UNCHANGED <<nvars, open, marker, warnings>>

\* Only now is the revision consumed; the whole marker is written.
Mark(h) ==
  /\ At(h, "mark")
  /\ marker' = [marker EXCEPT ![hook[h].s] = [hook[h].m EXCEPT !.consumed = hook[h].rev]]
  /\ HookGoto(h, Quiet) /\ Release(h)
  /\ UNCHANGED <<nvars, open, daemon, warnings>>

-----------------------------------------------------------------------------
(***************************************************************************)
(* The daemon, which is not part of this program.                          *)
(***************************************************************************)
Noticed(s) == hook' = [h \in Hooks |->
  IF hook[h] # Quiet /\ hook[h].pc # "lock" /\ hook[h].s = s
  THEN [hook[h] EXCEPT !.quiet = FALSE] ELSE hook[h]]

\* A session starts: its daemon reads the configuration.
Opens(s) ==
  /\ s \notin open
  /\ open' = open \cup {s}
  /\ daemon' = [daemon EXCEPT ![s].loaded = rev]
  /\ UNCHANGED <<nvars, marker, slock, hook, warnings>>

TurnStarts(s) ==
  /\ s \in open /\ ~daemon[s].turn
  /\ daemon' = [daemon EXCEPT ![s].turn = TRUE]
  /\ Noticed(s)
  /\ UNCHANGED <<nvars, open, marker, slock, warnings>>

\* A queued reload is applied at the end of the turn.
TurnEnds(s) ==
  /\ daemon[s].turn
  /\ \E d \in (IF daemon[s].queued THEN Reloaded(s) ELSE {daemon[s]}) :
       daemon' = [daemon EXCEPT ![s] = [d EXCEPT !.turn = FALSE]]
  /\ Noticed(s)
  /\ UNCHANGED <<nvars, open, marker, slock, warnings>>

-----------------------------------------------------------------------------
HookStep(h) ==
  TurnLock(h) \/ CheckIdle(h) \/ CheckSummary(h) \/ Reload(h) \/ Mark(h)

SessionNext ==
  \/ \E h \in Hooks : \/ HookStep(h) \/ TurnFails(h)
                      \/ \E s \in Sessions : SessionStart(h, s) \/ Prompt(h, s) \/ TurnHook(h, s)
  \/ \E s \in Sessions : Opens(s) \/ TurnStarts(s) \/ TurnEnds(s)

DeliveryInit == NoticeInit /\ HookInit
DeliveryNext == (NoticeNext /\ UNCHANGED svars) \/ SessionNext
DeliverySpec == DeliveryInit /\ [][DeliveryNext]_dvars

-----------------------------------------------------------------------------
(***************************************************************************)
(* Properties.                                                             *)
(***************************************************************************)
\* The types of commands, sessions, markers, hooks and daemons, among them that the
\* lock of a session (lockState, hook_state.go) is held by the hook that is past it,
\* by no other.
DeliveryTypeOK == NoticeTypeOK /\ HookTypeOK

\* A session that has consumed a revision runs a configuration that shows it, or
\* has queued the reload.
ConsumedIsLoaded ==
  \A s \in Sessions : daemon[s].queued \/ daemon[s].loaded >= marker[s].consumed

\* Hooks of one session run at once and each writes the whole marker: none takes
\* back what another has recorded.
MarkerKept ==
  [][\A s \in Sessions :
       /\ marker'[s].consumed >= marker[s].consumed
       /\ marker[s].base # {} => marker'[s].base = marker[s].base
       /\ marker'[s].warned # marker[s].warned => marker'[s].warned = doc.rev]_dvars

\* A session is warned once of each revision; more often only for each marker
\* that could not be written.
WarnedOnce == \A s \in Sessions, r \in Revs : warnings[s][r] <= 1 + count.faults

\* A daemon is asked to reload during a turn only when the turn has started
\* after it was found idle.
ReloadOnlyWhenIdle ==
  [][\A h \in Hooks : At(h, "reload") /\ hook[h].quiet /\ hook'[h] # hook[h] =>
       ~daemon[hook[h].s].turn]_dvars
=============================================================================
