---------------------------- MODULE NoticeProofs -----------------------------
(***************************************************************************)
(* Proofs about Notice, and about SessionHook together with the commands   *)
(* of Notice, for every set of providers, processes, sessions and hooks    *)
(* and any number of actions, revisions, edits and faults.  First the      *)
(* commands, then the sessions.                                            *)
(***************************************************************************)
EXTENDS SessionHook, TLAPS

-----------------------------------------------------------------------------
(***************************************************************************)
(* The inductive invariant.                                                *)
(***************************************************************************)
\* The lock is held from the commit of a command to its last save.
LockInv == \A c \in Procs : lock = c <=> proc[c].pc \in {"notify", "save"}

\* With d as the debt, every change of quota is owed as it is, or was announced.
Owes(d) ==
  \A p \in mine : IF p \in DOMAIN SaysOf(d) THEN SaysOf(d)[p] = live[p] ELSE said[p] = live[p]

\* The debt in state.json is such a debt, and so is the one about to be saved; and
\* what a command is about to announce is true of what is quota's.
OwedInv ==
  /\ mine \subseteq enrolled
  /\ Owes(debt)
  /\ \A c \in Procs :
       /\ proc[c].pc = "notify" => \A p \in mine \cap DOMAIN proc[c].edits : proc[c].edits[p] = live[p]
       /\ proc[c].pc = "save" => Owes(proc[c].keep)

\* Actions are run behind the reservation in state.json: of a revision beyond it none
\* were, of one that a process is about to run none were either, and no two
\* processes are about to run the same.
ActionsInv ==
  /\ \A r \in Revs : ran[r] <= 1 /\ (ran[r] > 0 => r <= executed)
  /\ \A c \in Procs : proc[c].pc = "run" => proc[c].rev <= executed /\ ran[proc[c].rev] = 0
  /\ \A c, d \in Procs :
       proc[c].pc = "run" /\ proc[d].pc = "run" /\ proc[c].rev = proc[d].rev => c = d

\* Nothing is of a later revision than the state; and the notice is of none later
\* than what is owed, unless the policy was replaced over a debt.
OrderInv ==
  /\ doc # NoDoc => doc.rev <= rev
  /\ debt # NoDebt => debt.rev <= rev
  /\ debt # NoDebt /\ mode = "chain" => crossed
  /\ doc # NoDoc /\ debt # NoDebt => doc.rev <= debt.rev \/ crossed
  /\ \A c \in Procs :
       /\ proc[c].pc = "notify" =>
            /\ proc[c].rev = rev
            /\ mode = "provider" /\ Fresh(proc[c]) => debt # NoDebt /\ debt.rev = rev
       /\ proc[c].pc = "save" /\ proc[c].keep # NoDebt =>
            /\ proc[c].keep.rev <= rev
            /\ mode = "chain" => crossed
            /\ doc # NoDoc => doc.rev <= proc[c].keep.rev \/ crossed

NoticeInv == NoticeTypeOK /\ LockInv /\ OwedInv /\ ActionsInv /\ OrderInv

-----------------------------------------------------------------------------
(***************************************************************************)
(* Debts, and what they say.                                               *)
(***************************************************************************)
\* What is said of some providers is a function of them to Booleans.
LEMMA SaysType ==
  ASSUME NEW f
  PROVE  f \in Says <=> DOMAIN f \subseteq Providers /\ f \in [DOMAIN f -> BOOLEAN]
BY DEF Says

\* No debt owes nothing, a debt owes something, and neither is the other.
LEMMA DebtType ==
  /\ NoDebt \notin Debts
  /\ SaysOf(NoDebt) \in Says /\ DOMAIN SaysOf(NoDebt) = {}
  /\ \A d \in Debts : SaysOf(d) = d.says /\ d.says \in Says /\ DOMAIN d.says # {}
                      /\ d.rev \in Revs \ {0}
<1>1. NoDebt \notin Debts
  BY DEF NoDebt, Debts
<1>2. SaysOf(NoDebt) = <<>>
  BY DEF SaysOf
<1>3. DOMAIN <<>> = {} /\ <<>> \in [{} -> BOOLEAN]
  OBVIOUS
<1>4. SaysOf(NoDebt) \in Says /\ DOMAIN SaysOf(NoDebt) = {}
  BY <1>2, <1>3, SaysType
<1>5. ASSUME NEW d \in Debts
      PROVE  SaysOf(d) = d.says /\ d.says \in Says /\ DOMAIN d.says # {} /\ d.rev \in Revs \ {0}
  BY <1>1, <1>5 DEF SaysOf, Debts
<1>. QED  BY <1>1, <1>4, <1>5

\* Overlay says what the second says, and otherwise what the first does.
LEMMA OverlayType ==
  ASSUME NEW f \in Says, NEW g \in Says
  PROVE  /\ Overlay(f, g) \in Says
         /\ DOMAIN Overlay(f, g) = DOMAIN f \cup DOMAIN g
         /\ \A p \in DOMAIN g : Overlay(f, g)[p] = g[p]
         /\ \A p \in DOMAIN f \ DOMAIN g : Overlay(f, g)[p] = f[p]
<1>1. /\ DOMAIN f \subseteq Providers /\ f \in [DOMAIN f -> BOOLEAN]
      /\ DOMAIN g \subseteq Providers /\ g \in [DOMAIN g -> BOOLEAN]
  BY SaysType
<1>2. /\ DOMAIN Overlay(f, g) = DOMAIN f \cup DOMAIN g
      /\ \A p \in DOMAIN g : Overlay(f, g)[p] = g[p]
      /\ \A p \in DOMAIN f \ DOMAIN g : Overlay(f, g)[p] = f[p]
  BY DEF Overlay
<1>3. Overlay(f, g) \in [DOMAIN f \cup DOMAIN g -> BOOLEAN]
  BY <1>1 DEF Overlay
<1>. QED  BY <1>1, <1>2, <1>3, SaysType

\* A part of what is said.
LEMMA RestrictType ==
  ASSUME NEW f \in Says, NEW S \in SUBSET DOMAIN f
  PROVE  Restrict(f, S) \in Says /\ DOMAIN Restrict(f, S) = S /\ \A p \in S : Restrict(f, S)[p] = f[p]
<1>1. DOMAIN f \subseteq Providers /\ f \in [DOMAIN f -> BOOLEAN]
  BY SaysType
<1>2. DOMAIN Restrict(f, S) = S /\ Restrict(f, S) \in [S -> BOOLEAN]
  BY <1>1 DEF Restrict
<1>3. \A p \in S : Restrict(f, S)[p] = f[p]
  BY DEF Restrict
<1>. QED  BY <1>1, <1>2, <1>3, SaysType

\* All the debts there are.
LEMMA SaysOfType ==
  ASSUME NEW d \in Debts \cup {NoDebt}
  PROVE  SaysOf(d) \in Says /\ (d = NoDebt <=> DOMAIN SaysOf(d) = {})
BY DebtType

\* reconcileProviderNoticeDebt keeps what stays and adds the fresh edits, under their
\* revision or, without any, under that of the debt.
LEMMA ReconcileDebtType ==
  ASSUME debt \in Debts \cup {NoDebt}, NEW stays \in SUBSET AllOwed, NEW r \in Revs \ {0},
         NEW edits \in Says
  PROVE  LET d == ReconcileDebt(stays, r, edits) IN
         /\ d \in Debts \cup {NoDebt}
         /\ DOMAIN SaysOf(d) = stays \cup DOMAIN edits
         /\ \A p \in DOMAIN edits : SaysOf(d)[p] = edits[p]
         /\ \A p \in stays \ DOMAIN edits : SaysOf(d)[p] = SaysOf(debt)[p]
         /\ d # NoDebt => d.rev = IF DOMAIN edits = {} /\ debt # NoDebt THEN debt.rev ELSE r
<1> DEFINE kept == Restrict(SaysOf(debt), stays)
           owed == Overlay(kept, edits)
           d    == ReconcileDebt(stays, r, edits)
<1>1. SaysOf(debt) \in Says
  BY SaysOfType
<1>2. kept \in Says /\ DOMAIN kept = stays /\ \A p \in stays : kept[p] = SaysOf(debt)[p]
  BY <1>1, RestrictType DEF AllOwed
<1>3. /\ owed \in Says /\ DOMAIN owed = stays \cup DOMAIN edits
      /\ \A p \in DOMAIN edits : owed[p] = edits[p]
      /\ \A p \in stays \ DOMAIN edits : owed[p] = SaysOf(debt)[p]
  <2>1. kept \in Says /\ DOMAIN kept = stays
    BY <1>2
  <2> HIDE DEF kept
  <2>2. /\ owed \in Says /\ DOMAIN owed = stays \cup DOMAIN edits
        /\ \A p \in DOMAIN edits : owed[p] = edits[p]
        /\ \A p \in stays \ DOMAIN edits : owed[p] = kept[p]
    BY <2>1, OverlayType
  <2>. QED  BY <2>2, <1>2
<1>4. CASE DOMAIN owed = {}
  <2>1. d = NoDebt
    BY <1>4 DEF ReconcileDebt
  <2>. QED  BY <2>1, <1>3, <1>4, DebtType
<1>5. CASE DOMAIN owed # {}
  <2> DEFINE n == IF DOMAIN edits = {} /\ debt # NoDebt THEN debt.rev ELSE r
  <2>1. d = [rev |-> n, says |-> owed]
    BY <1>5 DEF ReconcileDebt
  <2>2. n \in Revs \ {0}
    BY DebtType
  <2>3. d \in Debts
    BY <2>1, <2>2, <1>3, <1>5 DEF Debts
  <2>4. SaysOf(d) = owed /\ d.rev = n
    BY <2>1, <2>3, DebtType
  <2>. QED  BY <2>3, <2>4, <1>3
<1>. QED  BY <1>4, <1>5

\* A job is of the shape its phase has.
LEMMA JobType ==
  ASSUME NEW j \in Jobs \cup {Idle}
  PROVE  /\ j.pc \in {"idle", "notify", "save", "reserve", "run", "record"}
         /\ j.pc = "idle" <=> j = Idle
         /\ j.pc = "notify" => j.rev \in Revs \ {0} /\ j.edits \in Says
         /\ j.pc = "save" => j.rev \in Revs /\ j.keep \in Debts \cup {NoDebt}
         /\ j.pc \in {"reserve", "run", "record"} => j.rev \in Revs
BY DEF Jobs, Idle

\* What a command flips, and what it reads.
LEMMA FlippedType ==
  ASSUME NoticeTypeOK, NEW E \in SUBSET Providers
  PROVE  /\ Flipped(E) \in Says /\ DOMAIN Flipped(E) = E /\ live \in Says /\ DOMAIN live = Providers
         /\ Overlay(live, Flipped(E)) \in [Providers -> BOOLEAN]
         /\ \A p \in E : Flipped(E)[p] = Overlay(live, Flipped(E))[p]
         /\ \A p \in Providers \ E : Overlay(live, Flipped(E))[p] = live[p]
<1>1. live \in [Providers -> BOOLEAN]
  BY DEF NoticeTypeOK
<1>2. DOMAIN Flipped(E) = E /\ Flipped(E) \in [E -> BOOLEAN]
  BY <1>1 DEF Flipped
<1>3. Flipped(E) \in Says /\ live \in Says /\ DOMAIN live = Providers
  BY <1>1, <1>2, SaysType
<1>4. /\ Overlay(live, Flipped(E)) \in Says
      /\ DOMAIN Overlay(live, Flipped(E)) = Providers
      /\ \A p \in E : Overlay(live, Flipped(E))[p] = Flipped(E)[p]
      /\ \A p \in Providers \ E : Overlay(live, Flipped(E))[p] = live[p]
  BY <1>2, <1>3, OverlayType
<1>5. Overlay(live, Flipped(E)) \in [Providers -> BOOLEAN]
  BY <1>4, SaysType
<1>. QED  BY <1>2, <1>3, <1>4, <1>5

\* A pass takes the next revision, or keeps the last one.
LEMMA NextRevType ==
  ASSUME NoticeTypeOK, NEW E, NextRev(E) \in Revs
  PROVE  NextRev(E) \in Revs \ {0} /\ NextRev(E) >= rev
BY NoticeAssumption DEF NextRev, NoticeTypeOK, Revs

-----------------------------------------------------------------------------
(***************************************************************************)
(* Commands.                                                               *)
(***************************************************************************)
\* While the lock is free no process is between its commit and its last save.
LEMMA NobodyCommits ==
  ASSUME LockInv, lock = Free, NEW d \in Procs
  PROVE  proc[d].pc \notin {"notify", "save"}
BY FreeAssumption DEF LockInv

\* What is owed and true stays owed, if the pass reads the field as it is.
LEMMA TrueStays ==
  ASSUME OwedInv, NEW enabled, NEW p \in mine, p \in AllOwed,
         p \in DOMAIN enabled, enabled[p] = live[p]
  PROVE  p \in StillTrue(enabled)
<1>1. debt # NoDebt
  BY DebtType DEF AllOwed
<1>. QED  BY <1>1 DEF OwedInv, Owes, StillTrue, AllOwed, SaysOf

\* A pass reads the fields of all that is quota's.
LEMMA ReadEnabledType ==
  ASSUME NoticeTypeOK
  PROVE  /\ ReadEnabled \in Says /\ DOMAIN ReadEnabled = enrolled
         /\ \A p \in enrolled : ReadEnabled[p] = live[p]
<1>1. live \in Says /\ DOMAIN live = Providers
  BY FlippedType
<1>. QED  BY <1>1, RestrictType DEF ReadEnabled, NoticeTypeOK

\* A commit under a provider-only policy: what it says is what it writes, and of what
\* is quota's nothing that is owed is retired.  Then all of it is owed or announced.
LEMMA CommitOwes ==
  ASSUME NoticeInv, NEW E \in SUBSET Providers, NEW stays \in SUBSET AllOwed,
         NEW r \in Revs \ {0}, r >= rev, NEW edits \in Says,
         live' = Overlay(live, Flipped(E)), rev' = r, debt' = ReconcileDebt(stays, r, edits),
         mine' \subseteq enrolled, mode = "provider",
         UNCHANGED <<mode, enrolled, doc, said, crossed>>,
         \A p \in mine' \cap DOMAIN edits : edits[p] = live'[p],
         \A p \in mine' \ DOMAIN edits : p \in mine \ E /\ (p \in AllOwed => p \in stays)
  PROVE  /\ debt' \in Debts \cup {NoDebt} /\ live' \in [Providers -> BOOLEAN]
         /\ DOMAIN edits # {} => debt' # NoDebt /\ debt'.rev = r
         /\ mine' \subseteq enrolled' /\ Owes(debt)'
         /\ doc' # NoDoc => doc'.rev <= rev'
         /\ debt' # NoDebt => debt'.rev <= rev'
         /\ debt' # NoDebt /\ mode' = "chain" => crossed'
         /\ doc' # NoDoc /\ debt' # NoDebt => doc'.rev <= debt'.rev \/ crossed'
<1>1. NoticeTypeOK /\ OwedInv /\ OrderInv
  BY DEF NoticeInv
<1>2. /\ live' \in [Providers -> BOOLEAN]
      /\ \A p \in Providers \ E : live'[p] = live[p]
  BY <1>1, FlippedType
<1>3. debt \in Debts \cup {NoDebt}
  BY <1>1 DEF NoticeTypeOK
<1>4. /\ debt' \in Debts \cup {NoDebt}
      /\ DOMAIN SaysOf(debt') = stays \cup DOMAIN edits
      /\ \A p \in DOMAIN edits : SaysOf(debt')[p] = edits[p]
      /\ \A p \in stays \ DOMAIN edits : SaysOf(debt')[p] = SaysOf(debt)[p]
      /\ debt' # NoDebt => debt'.rev = IF DOMAIN edits = {} /\ debt # NoDebt THEN debt.rev ELSE r
  <2> DEFINE d == ReconcileDebt(stays, r, edits)
  <2>1. /\ d \in Debts \cup {NoDebt}
        /\ DOMAIN SaysOf(d) = stays \cup DOMAIN edits
        /\ \A p \in DOMAIN edits : SaysOf(d)[p] = edits[p]
        /\ \A p \in stays \ DOMAIN edits : SaysOf(d)[p] = SaysOf(debt)[p]
        /\ d # NoDebt => d.rev = IF DOMAIN edits = {} /\ debt # NoDebt THEN debt.rev ELSE r
    BY <1>3, ReconcileDebtType, ZenonT(30)
  <2>2. debt' = d
    OBVIOUS
  <2> HIDE DEF d
  <2>. QED  BY <2>1, <2>2
<1>5. DOMAIN edits # {} => debt' # NoDebt /\ debt'.rev = r
  BY <1>4, DebtType
<1>6. Owes(debt)'
  <2> SUFFICES ASSUME NEW p \in mine'
               PROVE  IF p \in DOMAIN SaysOf(debt') THEN SaysOf(debt')[p] = live'[p]
                                                    ELSE said'[p] = live'[p]
    BY DEF Owes
  <2>1. CASE p \in DOMAIN edits
    BY <2>1, <1>4
  <2>2. CASE p \notin DOMAIN edits
    <3>1. p \in mine /\ live'[p] = live[p] /\ said'[p] = said[p]
      BY <2>2, <1>1, <1>2 DEF NoticeTypeOK
    <3>2. IF p \in AllOwed THEN SaysOf(debt)[p] = live[p] ELSE said[p] = live[p]
      BY <3>1, <1>1 DEF OwedInv, Owes, AllOwed
    <3>3. CASE p \in AllOwed
      BY <3>1, <3>2, <3>3, <2>2, <1>4
    <3>4. CASE p \notin AllOwed
      BY <3>1, <3>2, <3>4, <2>2, <1>4
    <3>. QED  BY <3>3, <3>4
  <2>. QED  BY <2>1, <2>2
<1>7. rev \in Nat /\ r \in Nat /\ (debt # NoDebt => debt.rev \in Nat) /\ (doc # NoDoc => doc.rev \in Nat)
  BY <1>1, <1>3, DebtType DEF NoticeTypeOK, Revs, Docs
<1>8. /\ doc' # NoDoc => doc'.rev <= rev'
      /\ debt' # NoDebt => debt'.rev <= rev'
      /\ doc' # NoDoc /\ debt' # NoDebt => doc'.rev <= debt'.rev \/ crossed'
  BY <1>1, <1>4, <1>7 DEF OrderInv
<1>. QED  BY <1>2, <1>4, <1>5, <1>6, <1>8

\* A command that announces something holds the lock and is the only one to.
LEMMA NotifyingInv ==
  ASSUME NoticeTypeOK, LockInv, NEW c \in Procs, Locked(c), NEW r \in Revs \ {0}, NEW edits \in Says,
         Notifying(c, r, edits)
  PROVE  /\ proc' \in [Procs -> Jobs \cup {Idle}] /\ lock' \in Procs \cup {Free} /\ LockInv'
         /\ proc'[c] = [pc |-> "notify", rev |-> r, edits |-> edits]
         /\ \A d \in Procs \ {c} : proc'[d] = proc[d]
         /\ \A d \in Procs : /\ proc'[d].pc # "save"
                             /\ proc'[d].pc = "notify" => d = c
                             /\ proc'[d].pc = "run" => proc'[d] = proc[d]
<1> DEFINE job == [pc |-> "notify", rev |-> r, edits |-> edits]
<1>1. job \in Jobs /\ job.pc = "notify"
  BY DEF Jobs
<1>2. proc' = [proc EXCEPT ![c] = job] /\ lock' = c /\ lock = Free
  BY DEF Notifying, Locked
<1> HIDE DEF job
<1>3. proc \in [Procs -> Jobs \cup {Idle}]
  BY DEF NoticeTypeOK
<1>4. /\ proc' \in [Procs -> Jobs \cup {Idle}]
      /\ proc'[c] = job /\ \A d \in Procs \ {c} : proc'[d] = proc[d]
  BY <1>1, <1>2, <1>3
<1>5. \A d \in Procs : proc[d].pc \notin {"notify", "save"}
  BY <1>2, NobodyCommits
<1>6. LockInv'
  BY <1>1, <1>2, <1>4, <1>5 DEF LockInv
<1>. QED  BY <1>1, <1>2, <1>4, <1>5, <1>6 DEF job

\* Actions that are not reserved or run by a step stay as safe as they were.
LEMMA ActionsKept ==
  ASSUME ActionsInv, UNCHANGED <<ran, executed>>,
         \A d \in Procs : proc'[d].pc = "run" => proc'[d] = proc[d]
  PROVE  ActionsInv'
BY DEF ActionsInv

\* A fault is counted.
LEMMA FaultType ==
  ASSUME NoticeTypeOK, Fault
  PROVE  count' \in [edits : 0..MaxEdits, faults : 0..MaxFaults]
BY NoticeAssumption DEF NoticeTypeOK, Fault

\* A commit that says what it writes, and retires nothing that is true.
LEMMA CommitPremises ==
  ASSUME NoticeInv, NEW E \in SUBSET Providers, E \subseteq enrolled
  PROVE  /\ StillTrue(ReadEnabled) \in SUBSET AllOwed
         /\ \A p \in mine : p \in AllOwed => p \in StillTrue(ReadEnabled)
         /\ mine \cup E \subseteq enrolled /\ mine \cup E \in SUBSET Providers
<1>1. StillTrue(ReadEnabled) \in SUBSET AllOwed
  BY DEF StillTrue, AllOwed
<1>2. ASSUME NEW p \in mine, p \in AllOwed
      PROVE  p \in StillTrue(ReadEnabled)
  BY <1>2, TrueStays, ReadEnabledType DEF NoticeInv, OwedInv
<1>. QED  BY <1>1, <1>2 DEF NoticeInv, OwedInv, NoticeTypeOK

\* transactProviderGateReconcile and check --reconcile.
LEMMA GatePassInv ==
  ASSUME NoticeInv, NEW c \in Procs, NEW E \in SUBSET Providers, GatePass(c, E)
  PROVE  NoticeInv'
<1> DEFINE r == NextRev(E)  edits == Flipped(E)
<1>1. NoticeTypeOK /\ LockInv /\ OwedInv /\ ActionsInv /\ OrderInv
  BY DEF NoticeInv
<1>2. /\ Locked(c) /\ mode = "provider" /\ E \subseteq enrolled /\ r \in Revs
      /\ live' = Overlay(live, edits) /\ rev' = r
      /\ debt' = ReconcileDebt(StillTrue(ReadEnabled), r, edits)
      /\ mine' = mine \cup E /\ Notifying(c, r, edits)
      /\ UNCHANGED <<mode, actions, enrolled, executed, doc, said, ran, crossed, count>>
  BY DEF GatePass, CommitChange
<1>3. r \in Revs \ {0} /\ r >= rev
  BY <1>1, <1>2, NextRevType
<1>4. edits \in Says /\ DOMAIN edits = E /\ \A p \in E : edits[p] = live'[p]
  BY <1>1, <1>2, FlippedType
<1> HIDE DEF r, edits
<1>5. /\ debt' \in Debts \cup {NoDebt} /\ live' \in [Providers -> BOOLEAN]
      /\ DOMAIN edits # {} => debt' # NoDebt /\ debt'.rev = r
      /\ mine' \subseteq enrolled' /\ Owes(debt)'
      /\ doc' # NoDoc => doc'.rev <= rev'
      /\ debt' # NoDebt => debt'.rev <= rev'
      /\ debt' # NoDebt /\ mode' = "chain" => crossed'
      /\ doc' # NoDoc /\ debt' # NoDebt => doc'.rev <= debt'.rev \/ crossed'
  BY <1>2, <1>3, <1>4, CommitPremises, CommitOwes DEF edits
<1>6. /\ proc' \in [Procs -> Jobs \cup {Idle}] /\ lock' \in Procs \cup {Free} /\ LockInv'
      /\ proc'[c] = [pc |-> "notify", rev |-> r, edits |-> edits]
      /\ \A d \in Procs : /\ proc'[d].pc # "save"
                          /\ proc'[d].pc = "notify" => d = c
                          /\ proc'[d].pc = "run" => proc'[d] = proc[d]
  BY <1>1, <1>2, <1>3, <1>4, NotifyingInv
<1>7. NoticeTypeOK'
  BY <1>1, <1>2, <1>5, <1>6 DEF NoticeTypeOK
<1>8. OwedInv'
  BY <1>2, <1>4, <1>5, <1>6 DEF OwedInv
<1>9. ActionsInv'
  BY <1>1, <1>2, <1>6, ActionsKept
<1>10. OrderInv'
  BY <1>2, <1>5, <1>6 DEF OrderInv, Fresh
<1>. QED  BY <1>6, <1>7, <1>8, <1>9, <1>10 DEF NoticeInv

\* routing disable and enable.
LEMMA ToggleInv ==
  ASSUME NoticeInv, NEW c \in Procs, NEW p \in Providers, NEW value \in BOOLEAN,
         NEW edited \in BOOLEAN, Toggle(c, p, value, edited)
  PROVE  NoticeInv'
<1> DEFINE r == rev + 1
           said1 == [q \in {p} |-> value]
           E == IF live[p] = value THEN {} ELSE {p}
           edits == IF edited THEN said1 ELSE Flipped({})
           stays == StillTrue(Overlay(ReadEnabled, said1))
<1>1. NoticeTypeOK /\ LockInv /\ OwedInv /\ ActionsInv /\ OrderInv
  BY DEF NoticeInv
<1>2. /\ Locked(c) /\ mode = "provider" /\ p \in enrolled /\ rev < MaxRev
      /\ live' = Overlay(live, Flipped(E)) /\ rev' = r /\ debt' = ReconcileDebt(stays, r, said1)
      /\ mine' = mine \cup E /\ Notifying(c, r, edits)
      /\ UNCHANGED <<mode, actions, enrolled, executed, doc, said, ran, crossed, count>>
  BY DEF Toggle, CommitChange
<1>3. r \in Revs \ {0} /\ r >= rev
  BY <1>1, <1>2, NoticeAssumption DEF NoticeTypeOK, Revs
<1>4. E \in SUBSET Providers /\ E \subseteq {p}
  OBVIOUS
<1>5. said1 \in Says /\ DOMAIN said1 = {p} /\ said1[p] = value
  BY SaysType
<1>6. live' \in [Providers -> BOOLEAN] /\ (p \in E => live'[p] = ~live[p])
      /\ \A q \in Providers \ E : live'[q] = live[q]
  BY <1>1, <1>2, <1>4, FlippedType DEF Flipped
<1>7. live'[p] = value
  <2>1. live[p] \in BOOLEAN
    BY <1>1 DEF NoticeTypeOK
  <2>. QED  BY <2>1, <1>6
<1>8. edits \in Says /\ \A q \in DOMAIN edits : q = p /\ edits[q] = live'[q]
  <2>1. Flipped({}) \in Says /\ DOMAIN Flipped({}) = {}
    BY <1>1, FlippedType
  <2>. QED  BY <2>1, <1>5, <1>7
<1>9. stays \in SUBSET AllOwed
  BY DEF StillTrue, AllOwed
<1>10. ASSUME NEW q \in mine, q \in AllOwed, q # p
       PROVE  q \in stays
  <2>1. ReadEnabled \in Says /\ q \in DOMAIN ReadEnabled /\ ReadEnabled[q] = live[q]
    BY <1>1, ReadEnabledType DEF OwedInv
  <2>2. q \in DOMAIN Overlay(ReadEnabled, said1) /\ Overlay(ReadEnabled, said1)[q] = live[q]
    BY <2>1, <1>5, <1>10, OverlayType, ZenonT(30)
  <2>. QED  BY <2>2, <1>1, <1>10, TrueStays
<1> HIDE DEF r, said1, E, edits, stays
<1>11. mine' \subseteq enrolled /\ mine' \in SUBSET Providers
  BY <1>1, <1>2, <1>4 DEF OwedInv, NoticeTypeOK
<1>12. /\ debt' \in Debts \cup {NoDebt}
       /\ debt' # NoDebt /\ debt'.rev = r
       /\ mine' \subseteq enrolled' /\ Owes(debt)'
       /\ doc' # NoDoc => doc'.rev <= rev'
       /\ debt' # NoDebt => debt'.rev <= rev'
       /\ debt' # NoDebt /\ mode' = "chain" => crossed'
       /\ doc' # NoDoc /\ debt' # NoDebt => doc'.rev <= debt'.rev \/ crossed'
  <2>1. \A q \in mine' \cap DOMAIN said1 : said1[q] = live'[q]
    BY <1>5, <1>7
  <2>2. \A q \in mine' \ DOMAIN said1 : q \in mine \ E /\ (q \in AllOwed => q \in stays)
    BY <1>2, <1>4, <1>5, <1>10
  <2>. QED  BY <1>2, <1>3, <1>4, <1>5, <1>9, <1>11, <2>1, <2>2, CommitOwes
<1>13. /\ proc' \in [Procs -> Jobs \cup {Idle}] /\ lock' \in Procs \cup {Free} /\ LockInv'
       /\ proc'[c] = [pc |-> "notify", rev |-> r, edits |-> edits]
       /\ \A d \in Procs : /\ proc'[d].pc # "save"
                           /\ proc'[d].pc = "notify" => d = c
                           /\ proc'[d].pc = "run" => proc'[d] = proc[d]
  BY <1>1, <1>2, <1>3, <1>8, NotifyingInv
<1>14. NoticeTypeOK'
  BY <1>1, <1>2, <1>3, <1>6, <1>11, <1>12, <1>13 DEF NoticeTypeOK
<1>15. OwedInv'
  BY <1>2, <1>8, <1>12, <1>13 DEF OwedInv
<1>16. ActionsInv'
  BY <1>1, <1>2, <1>13, ActionsKept
<1>17. OrderInv'
  BY <1>2, <1>12, <1>13 DEF OrderInv
<1>. QED  BY <1>13, <1>14, <1>15, <1>16, <1>17 DEF NoticeInv

\* Commands under a policy that manages chains.
LEMMA ChainPassInv ==
  ASSUME NoticeInv, NEW c \in Procs, NEW E \in SUBSET Providers, NEW init \in BOOLEAN,
         ChainPass(c, E, init)
  PROVE  NoticeInv'
<1> DEFINE r == IF init /\ rev # 0 THEN rev ELSE NextRev(E)
<1>1. NoticeTypeOK /\ LockInv /\ OwedInv /\ ActionsInv /\ OrderInv
  BY DEF NoticeInv
<1>2. /\ Locked(c) /\ mode = "chain" /\ E \subseteq enrolled /\ r \in Revs
      /\ live' = Overlay(live, Flipped(E)) /\ rev' = r /\ debt' = debt /\ mine' = mine \ E
      /\ UNCHANGED <<mode, actions, enrolled, executed, doc, said, ran, crossed, count>>
      /\ IF E = {} THEN UNCHANGED <<lock, proc>> ELSE Notifying(c, r, live')
  BY DEF ChainPass, CommitChange
<1>3. r \in Revs \ {0} /\ r >= rev
  BY <1>1, <1>2, NextRevType DEF NoticeTypeOK, Revs
<1>4. /\ live' \in [Providers -> BOOLEAN] /\ live' \in Says
      /\ \A p \in Providers \ E : live'[p] = live[p]
  <2>1. live' \in [Providers -> BOOLEAN] /\ \A p \in Providers \ E : live'[p] = live[p]
    BY <1>1, <1>2, FlippedType
  <2>. QED  BY <2>1, SaysType
<1> HIDE DEF r
<1>5. mine' \subseteq enrolled' /\ mine' \in SUBSET Providers /\ Owes(debt)'
  BY <1>1, <1>2, <1>4 DEF OwedInv, Owes, NoticeTypeOK
<1>6. /\ proc' \in [Procs -> Jobs \cup {Idle}] /\ lock' \in Procs \cup {Free} /\ LockInv'
      /\ \A d \in Procs : /\ proc'[d].pc # "save"
                          /\ proc'[d].pc = "notify" =>
                               proc'[d] = [pc |-> "notify", rev |-> r, edits |-> live']
                          /\ proc'[d].pc = "run" => proc'[d] = proc[d]
  <2>1. CASE E = {}
    BY <2>1, <1>1, <1>2, NobodyCommits DEF Locked, NoticeTypeOK, LockInv
  <2>2. CASE E # {}
    BY <2>2, <1>1, <1>2, <1>3, <1>4, NotifyingInv
  <2>. QED  BY <2>1, <2>2
<1>7. NoticeTypeOK'
  BY <1>1, <1>2, <1>4, <1>5, <1>6 DEF NoticeTypeOK
<1>8. OwedInv'
  BY <1>5, <1>6 DEF OwedInv
<1>9. ActionsInv'
  BY <1>1, <1>2, <1>6, ActionsKept
<1>10. OrderInv'
  <2>1. rev \in Nat /\ r \in Nat /\ (debt # NoDebt => debt.rev \in Nat) /\ (doc # NoDoc => doc.rev \in Nat)
    BY <1>1, <1>3, DebtType DEF NoticeTypeOK, Revs, Docs
  <2>. QED  BY <2>1, <1>1, <1>2, <1>3, <1>6 DEF OrderInv
<1>. QED  BY <1>6, <1>7, <1>8, <1>9, <1>10 DEF NoticeInv

\* What the commands that announce nothing leave behind: the debt reconciled, or not.
LEMMA SilentInv ==
  ASSUME NoticeInv, lock = Free, UNCHANGED <<actions, executed, lock, proc, ran>>,
         live' \in [Providers -> BOOLEAN], rev' \in Revs, debt' \in Debts \cup {NoDebt},
         count' \in [edits : 0..MaxEdits, faults : 0..MaxFaults],
         mine' \subseteq enrolled', Owes(debt)',
         doc' # NoDoc => doc'.rev <= rev',
         debt' # NoDebt => debt'.rev <= rev',
         debt' # NoDebt /\ mode' = "chain" => crossed',
         doc' # NoDoc /\ debt' # NoDebt => doc'.rev <= debt'.rev \/ crossed',
         UNCHANGED <<mode, enrolled, doc, said, crossed>>
  PROVE  NoticeInv'
<1>1. NoticeTypeOK /\ LockInv /\ ActionsInv
  BY DEF NoticeInv
<1>2. \A d \in Procs : proc'[d].pc \notin {"notify", "save"}
  BY <1>1, NobodyCommits
<1>3. NoticeTypeOK' /\ LockInv' /\ ActionsInv'
  BY <1>1, ActionsKept DEF NoticeTypeOK, LockInv
<1>4. OwedInv' /\ OrderInv'
  BY <1>2 DEF OwedInv, OrderInv
<1>. QED  BY <1>3, <1>4 DEF NoticeInv

\* Refused passes, and commits that are not announced.
LEMMA SilentCommandInv ==
  ASSUME NoticeInv, NEW c \in Procs,
         \/ RefusedPass(c, AllOwed) \/ RefusedPass(c, StillTrue(ReadEnabled))
         \/ \E E \in SUBSET Providers : LateRefusal(c, E) \/ Unannounced(c, E)
  PROVE  NoticeInv'
<1>1. NoticeTypeOK /\ LockInv /\ OwedInv /\ ActionsInv /\ OrderInv
  BY DEF NoticeInv
<1>2. ASSUME NEW stays \in {AllOwed, StillTrue(ReadEnabled)}, RefusedPass(c, stays)
      PROVE  NoticeInv'
  <2> DEFINE r == NextRev({})  edits == Flipped({})
  <2>1. /\ Locked(c) /\ mode = "provider" /\ r \in Revs
        /\ live' = Overlay(live, edits) /\ rev' = r /\ debt' = ReconcileDebt(stays, r, edits)
        /\ mine' = mine
        /\ UNCHANGED <<mode, actions, enrolled, executed, doc, lock, proc, said, ran, crossed, count>>
    BY <1>2 DEF RefusedPass, CommitChange
  <2>2. r \in Revs \ {0} /\ r >= rev
    BY <1>1, <2>1, NextRevType
  <2>3. edits \in Says /\ DOMAIN edits = {}
    BY <1>1, FlippedType
  <2>4. /\ stays \in SUBSET AllOwed
        /\ \A p \in mine : p \in AllOwed => p \in stays
        /\ mine' \subseteq enrolled
    BY <1>1, <2>1, CommitPremises DEF OwedInv
  <2> HIDE DEF r
  <2>5. /\ debt' \in Debts \cup {NoDebt} /\ live' \in [Providers -> BOOLEAN]
        /\ mine' \subseteq enrolled' /\ Owes(debt)'
        /\ doc' # NoDoc => doc'.rev <= rev'
        /\ debt' # NoDebt => debt'.rev <= rev'
        /\ debt' # NoDebt /\ mode' = "chain" => crossed'
        /\ doc' # NoDoc /\ debt' # NoDebt => doc'.rev <= debt'.rev \/ crossed'
    BY <2>1, <2>2, <2>3, <2>4, CommitOwes
  <2>. QED  BY <1>1, <2>1, <2>2, <2>5, SilentInv DEF Locked, NoticeTypeOK
<1>3. ASSUME NEW E \in SUBSET Providers, Unannounced(c, E)
      PROVE  NoticeInv'
  <2> DEFINE r == rev + 1  edits == Flipped(E)
  <2>1. /\ Locked(c) /\ mode = "provider" /\ E \subseteq enrolled /\ rev < MaxRev /\ Fault
        /\ live' = Overlay(live, edits) /\ rev' = r
        /\ debt' = ReconcileDebt(StillTrue(ReadEnabled), r, edits) /\ mine' = mine \cup E
        /\ UNCHANGED <<mode, actions, enrolled, executed, doc, lock, proc, said, ran, crossed>>
    BY <1>3 DEF Unannounced, CommitChange
  <2>2. r \in Revs \ {0} /\ r >= rev
    BY <1>1, <2>1, NoticeAssumption DEF NoticeTypeOK, Revs
  <2>3. edits \in Says /\ DOMAIN edits = E /\ \A p \in E : edits[p] = live'[p]
    BY <1>1, <2>1, FlippedType
  <2> HIDE DEF r
  <2>4. /\ debt' \in Debts \cup {NoDebt} /\ live' \in [Providers -> BOOLEAN]
        /\ mine' \subseteq enrolled' /\ Owes(debt)'
        /\ doc' # NoDoc => doc'.rev <= rev'
        /\ debt' # NoDebt => debt'.rev <= rev'
        /\ debt' # NoDebt /\ mode' = "chain" => crossed'
        /\ doc' # NoDoc /\ debt' # NoDebt => doc'.rev <= debt'.rev \/ crossed'
    BY <2>1, <2>2, <2>3, CommitPremises, CommitOwes
  <2>. QED  BY <1>1, <2>1, <2>2, <2>4, FaultType, SilentInv DEF Locked
<1>4. ASSUME NEW E \in SUBSET Providers, LateRefusal(c, E)
      PROVE  NoticeInv'
  <2> DEFINE r == rev + 1  edits == Flipped({})
  <2>1. /\ Locked(c) /\ mode = "provider" /\ E \subseteq enrolled /\ rev < MaxRev /\ Fault
        /\ live' = Overlay(live, Flipped(E)) /\ rev' = r
        /\ debt' = ReconcileDebt(StillTrue(ReadEnabled), r, edits) /\ mine' = mine \ E
        /\ UNCHANGED <<mode, actions, enrolled, executed, doc, lock, proc, said, ran, crossed>>
    BY <1>4 DEF LateRefusal
  <2>2. r \in Revs \ {0} /\ r >= rev
    BY <1>1, <2>1, NoticeAssumption DEF NoticeTypeOK, Revs
  <2>3. edits \in Says /\ DOMAIN edits = {}
    BY <1>1, FlippedType
  <2> HIDE DEF r, edits
  <2>4. /\ debt' \in Debts \cup {NoDebt} /\ live' \in [Providers -> BOOLEAN]
        /\ mine' \subseteq enrolled' /\ Owes(debt)'
        /\ doc' # NoDoc => doc'.rev <= rev'
        /\ debt' # NoDebt => debt'.rev <= rev'
        /\ debt' # NoDebt /\ mode' = "chain" => crossed'
        /\ doc' # NoDoc /\ debt' # NoDebt => doc'.rev <= debt'.rev \/ crossed'
    BY <2>1, <2>2, <2>3, CommitPremises, CommitOwes
  <2>. QED  BY <1>1, <2>1, <2>2, <2>4, FaultType, SilentInv DEF Locked
<1>. QED  BY <1>2, <1>3, <1>4

-----------------------------------------------------------------------------
(***************************************************************************)
(* The notice.                                                             *)
(***************************************************************************)
\* One process goes on to a job.
LEMMA GotoType ==
  ASSUME NoticeTypeOK, NEW c \in Procs, NEW job \in Jobs \cup {Idle}, Goto(c, job)
  PROVE  /\ proc' \in [Procs -> Jobs \cup {Idle}] /\ proc'[c] = job
         /\ \A d \in Procs \ {c} : proc'[d] = proc[d]
BY DEF NoticeTypeOK, Goto

\* A process that holds the lock goes on and keeps it, or is done and gives it up.
LEMMA HolderGoes ==
  ASSUME NoticeTypeOK, LockInv, NEW c \in Procs, proc[c].pc \in {"notify", "save"},
         NEW job \in Jobs \cup {Idle}, Goto(c, job),
         lock' = IF job.pc \in {"notify", "save"} THEN lock ELSE Free
  PROVE  /\ proc' \in [Procs -> Jobs \cup {Idle}] /\ lock' \in Procs \cup {Free} /\ LockInv'
         /\ proc'[c] = job
         /\ \A d \in Procs \ {c} : proc'[d] = proc[d] /\ proc'[d].pc \notin {"notify", "save"}
<1>1. /\ proc' \in [Procs -> Jobs \cup {Idle}] /\ proc'[c] = job
      /\ \A d \in Procs \ {c} : proc'[d] = proc[d]
  BY GotoType
<1>2. lock = c /\ \A d \in Procs \ {c} : proc[d].pc \notin {"notify", "save"}
  BY DEF LockInv
<1>. QED  BY <1>1, <1>2, FreeAssumption DEF LockInv

\* What is left to do after a notice is a job, and never to run the actions.
LEMMA AfterNoticeType ==
  ASSUME NoticeTypeOK, NEW job \in Jobs, job.pc = "notify", NEW keep \in Debts \cup {NoDebt}
  PROVE  LET next == AfterNotice(job, keep) IN
         /\ next \in Jobs \cup {Idle} /\ next.pc \in {"save", "reserve", "idle"}
         /\ next.pc = "save" <=> mode = "provider"
         /\ next.pc = "save" => next.keep = keep
<1> DEFINE pend == IF Fresh(job) /\ keep = NoDebt /\ actions > 0 THEN job.rev ELSE 0
           next == AfterNotice(job, keep)
<1>1. pend \in Revs
  BY JobType, NoticeAssumption DEF Revs
<1>2. next = IF mode = "provider" THEN [pc |-> "save", keep |-> keep, rev |-> pend]
             ELSE IF pend # 0 THEN [pc |-> "reserve", rev |-> pend] ELSE Idle
  BY DEF AfterNotice
<1> HIDE DEF pend, next
<1>3. next \in Jobs \cup {Idle} /\ next.pc \in {"save", "reserve", "idle"}
      /\ (next.pc = "save" <=> mode = "provider") /\ (next.pc = "save" => next.keep = keep)
  BY <1>1, <1>2 DEF Jobs, Idle
<1>. QED  BY <1>3 DEF next

\* What the document says: of what is quota's the truth, under a revision that is no later
\* than the state's and no earlier than the debt's or the last document's.
LEMMA NoticeSays ==
  ASSUME NoticeInv, NEW c \in Procs, Speaking(c)
  PROVE  LET job  == proc[c]
             says == NoticeStates(debt, job.edits) IN
         /\ job \in Jobs /\ job.pc = "notify" /\ job.rev \in Revs \ {0} /\ job.rev = rev /\ job.edits \in Says
         /\ NoticeRev(job) \in Revs \ {0} /\ NoticeRev(job) <= rev
         /\ says \in Says /\ DOMAIN says # {}
         /\ DOMAIN says = DOMAIN SaysOf(debt) \cup DOMAIN job.edits
         /\ \A p \in mine \cap DOMAIN says : says[p] = live[p]
         /\ mode = "provider" /\ debt # NoDebt => NoticeRev(job) = debt.rev
         /\ mode = "provider" /\ debt = NoDebt => NoticeRev(job) = rev
<1> DEFINE job == proc[c]  says == NoticeStates(debt, job.edits)
<1>1. NoticeTypeOK /\ LockInv /\ OwedInv /\ OrderInv
  BY DEF NoticeInv
<1>2. job \in Jobs /\ job.pc = "notify" /\ job.rev \in Revs \ {0} /\ job.edits \in Says
  <2>1. job \in Jobs \cup {Idle} /\ job.pc = "notify"
    BY <1>1 DEF NoticeTypeOK, Speaking, Doing
  <2>. QED  BY <2>1, JobType DEF Idle
<1>3. /\ job.rev = rev
      /\ mode = "provider" /\ Fresh(job) => debt # NoDebt /\ debt.rev = rev
      /\ \A p \in mine \cap DOMAIN job.edits : job.edits[p] = live[p]
      /\ Owes(debt) /\ (debt # NoDebt => debt.rev <= rev)
      /\ Fresh(job) \/ debt # NoDebt
  BY <1>1, <1>2 DEF OrderInv, OwedInv, Speaking
<1>4. debt \in Debts \cup {NoDebt} /\ SaysOf(debt) \in Says /\ (debt = NoDebt <=> DOMAIN SaysOf(debt) = {})
  BY <1>1, SaysOfType DEF NoticeTypeOK
<1>5. NoticeRev(job) \in Revs \ {0} /\ NoticeRev(job) <= rev
  <2>1. debt # NoDebt => debt.rev \in Revs \ {0}
    BY <1>4, DebtType
  <2>. QED  BY <2>1, <1>2, <1>3 DEF NoticeRev, Revs
<1>6. /\ mode = "provider" /\ debt # NoDebt => NoticeRev(job) = debt.rev
      /\ mode = "provider" /\ debt = NoDebt => NoticeRev(job) = rev
  BY <1>3 DEF NoticeRev
<1>7. /\ says \in Says /\ DOMAIN says = DOMAIN SaysOf(debt) \cup DOMAIN job.edits
      /\ \A p \in DOMAIN job.edits : says[p] = job.edits[p]
      /\ \A p \in DOMAIN SaysOf(debt) \ DOMAIN job.edits : says[p] = SaysOf(debt)[p]
  BY <1>2, <1>4, OverlayType DEF NoticeStates
<1>8. DOMAIN says # {}
  BY <1>3, <1>4, <1>7 DEF Fresh
<1>9. ASSUME NEW p \in mine \cap DOMAIN says
      PROVE  says[p] = live[p]
  BY <1>3, <1>7, <1>9 DEF Owes
<1>. QED  BY <1>2, <1>3, <1>5, <1>6, <1>7, <1>8, <1>9

\* A pass without edits and without a debt ends.
LEMMA NothingToSayInv ==
  ASSUME NoticeInv, NEW c \in Procs, NothingToSay(c)
  PROVE  NoticeInv'
<1>1. NoticeTypeOK /\ LockInv /\ OwedInv /\ ActionsInv /\ OrderInv
  BY DEF NoticeInv
<1>2. /\ proc[c].pc = "notify" /\ Goto(c, Idle) /\ lock' = Free
      /\ UNCHANGED <<mode, actions, live, enrolled, rev, debt, executed, doc, mine, said, ran, crossed, count>>
  BY DEF NothingToSay, Doing
<1>3. Idle \in Jobs \cup {Idle} /\ Idle.pc = "idle"
  BY DEF Idle
<1>4. /\ proc' \in [Procs -> Jobs \cup {Idle}] /\ lock' \in Procs \cup {Free} /\ LockInv'
      /\ proc'[c] = Idle
      /\ \A d \in Procs \ {c} : proc'[d] = proc[d] /\ proc'[d].pc \notin {"notify", "save"}
  BY <1>1, <1>2, <1>3, HolderGoes
<1>5. NoticeTypeOK'
  BY <1>1, <1>2, <1>4 DEF NoticeTypeOK
<1>6. \A d \in Procs : proc'[d].pc \notin {"notify", "save"} /\ (proc'[d].pc = "run" => proc'[d] = proc[d])
  BY <1>3, <1>4
<1>7. OwedInv' /\ OrderInv'
  BY <1>1, <1>2, <1>6 DEF OwedInv, Owes, OrderInv
<1>8. ActionsInv'
  BY <1>1, <1>2, <1>6, ActionsKept
<1>. QED  BY <1>4, <1>5, <1>7, <1>8 DEF NoticeInv

\* notifyProviderGate and notifyTargets.
LEMMA PublishNoticeInv ==
  ASSUME NoticeInv, NEW c \in Procs, PublishNotice(c)
  PROVE  NoticeInv'
<1> DEFINE job == proc[c]  new == NoticeDoc(job)  next == AfterNotice(job, NoDebt)
           says == NoticeStates(debt, job.edits)
<1>1. NoticeTypeOK /\ LockInv /\ OwedInv /\ ActionsInv /\ OrderInv
  BY DEF NoticeInv
<1>2. /\ Speaking(c) /\ doc' = new /\ said' = Overlay(said, new.says)
      /\ Goto(c, next) /\ lock' = IF next.pc = "save" THEN lock ELSE Free
      /\ UNCHANGED <<mode, actions, live, enrolled, rev, debt, executed, mine, ran, crossed, count>>
  BY DEF PublishNotice, Unlock
<1>3. /\ job \in Jobs /\ job.pc = "notify" /\ job.rev \in Revs \ {0} /\ job.rev = rev /\ job.edits \in Says
      /\ NoticeRev(job) \in Revs \ {0} /\ NoticeRev(job) <= rev
      /\ says \in Says
      /\ DOMAIN says = DOMAIN SaysOf(debt) \cup DOMAIN job.edits
      /\ \A p \in mine \cap DOMAIN says : says[p] = live[p]
      /\ mode = "provider" /\ debt # NoDebt => NoticeRev(job) = debt.rev
  BY <1>2, NoticeSays
<1>4. /\ next \in Jobs \cup {Idle} /\ next.pc \in {"save", "reserve", "idle"}
      /\ next.pc = "save" <=> mode = "provider"
      /\ next.pc = "save" => next.keep = NoDebt
  BY <1>1, <1>3, AfterNoticeType
<1>5. \A p \in mine \cap DOMAIN job.edits : job.edits[p] = live[p]
  BY <1>1, <1>3 DEF OwedInv
<1>6. /\ new \in Docs /\ new # NoDoc /\ new.rev \in Revs \ {0} /\ new.rev <= rev /\ new.says \in Says
      /\ mode = "provider" => new.says = says /\ (debt # NoDebt => new.rev = debt.rev)
      /\ mode = "chain" => new.says = job.edits
  <2>1. mode \in {"provider", "chain"} /\ rev \in Nat
    BY <1>1 DEF NoticeTypeOK, Revs
  <2>2. CASE mode = "chain"
    <3>1. new = [rev |-> job.rev, kind |-> "chain", says |-> job.edits]
      BY <2>2 DEF NoticeDoc
    <3> HIDE DEF new, job
    <3>. QED  BY <2>1, <2>2, <3>1, <1>3 DEF Docs, NoDoc
  <2>3. CASE mode = "provider"
    <3>1. new = [rev |-> NoticeRev(job), kind |-> "provider", says |-> says]
      BY <2>3 DEF NoticeDoc
    <3> HIDE DEF new, job, says
    <3>. QED  BY <2>1, <2>3, <3>1, <1>3 DEF Docs, NoDoc
  <2>. QED  BY <2>1, <2>2, <2>3
<1> HIDE DEF new, next, says
<1>7. /\ proc' \in [Procs -> Jobs \cup {Idle}] /\ lock' \in Procs \cup {Free} /\ LockInv'
      /\ proc'[c] = next
      /\ \A d \in Procs \ {c} : proc'[d] = proc[d] /\ proc'[d].pc \notin {"notify", "save"}
  BY <1>1, <1>2, <1>3, <1>4, HolderGoes
<1>8. /\ said' \in [Providers -> BOOLEAN]
      /\ \A p \in DOMAIN new.says : said'[p] = new.says[p]
      /\ \A p \in Providers \ DOMAIN new.says : said'[p] = said[p]
  <2>1. said \in Says /\ DOMAIN said = Providers /\ DOMAIN new.says \subseteq Providers
    BY <1>1, <1>6, SaysType DEF NoticeTypeOK
  <2>2. /\ said' \in Says /\ DOMAIN said' = Providers
        /\ \A p \in DOMAIN new.says : said'[p] = new.says[p]
        /\ \A p \in Providers \ DOMAIN new.says : said'[p] = said[p]
    <3> DEFINE over == Overlay(said, new.says)
    <3>1. /\ over \in Says /\ DOMAIN over = DOMAIN said \cup DOMAIN new.says
          /\ \A p \in DOMAIN new.says : over[p] = new.says[p]
          /\ \A p \in DOMAIN said \ DOMAIN new.says : over[p] = said[p]
      BY <2>1, <1>6, OverlayType
    <3>2. said' = over
      BY <1>2
    <3> HIDE DEF over
    <3>. QED  BY <2>1, <3>1, <3>2
  <2>. QED  BY <2>2, SaysType
<1>9. NoticeTypeOK'
  BY <1>1, <1>2, <1>6, <1>7, <1>8 DEF NoticeTypeOK
<1>10. OwedInv'
  <2>1. mine \subseteq Providers /\ \A p \in mine \cap DOMAIN new.says : new.says[p] = live[p]
    BY <1>1, <1>3, <1>5, <1>6 DEF NoticeTypeOK
  <2>2. Owes(debt)'
    BY <2>1, <1>1, <1>2, <1>8 DEF OwedInv, Owes
  <2>3. ASSUME mode = "provider" PROVE Owes(NoDebt)'
    <3>1. DOMAIN SaysOf(debt) \subseteq DOMAIN new.says
      BY <2>3, <1>3, <1>6
    <3>. QED  BY <2>1, <3>1, <1>1, <1>2, <1>8, DebtType DEF OwedInv, Owes
  <2>4. \A d \in Procs : proc'[d].pc # "notify" /\ (proc'[d].pc = "save" => d = c /\ mode = "provider")
    BY <1>4, <1>7
  <2>. QED  BY <2>2, <2>3, <2>4, <1>1, <1>2, <1>4, <1>7 DEF OwedInv, Owes
<1>11. ActionsInv'
  BY <1>1, <1>2, <1>4, <1>7, ActionsKept
<1>12. OrderInv'
  <2>1. mode \in {"provider", "chain"} /\ (debt # NoDebt => debt.rev \in Nat)
    BY <1>1, DebtType DEF NoticeTypeOK, Revs
  <2>2. debt # NoDebt => new.rev <= debt.rev \/ crossed
    BY <2>1, <1>1, <1>6 DEF OrderInv, Revs
  <2>3. \A d \in Procs : proc'[d].pc # "notify" /\ (proc'[d].pc = "save" => proc'[d].keep = NoDebt)
    BY <1>4, <1>7
  <2>. QED  BY <2>2, <2>3, <1>1, <1>2, <1>6 DEF OrderInv
<1>. QED  BY <1>7, <1>9, <1>10, <1>11, <1>12 DEF NoticeInv

\* A notice that cannot be published: what it would have said is about to be owed.
LEMMA NoticeFailsInv ==
  ASSUME NoticeInv, NEW c \in Procs, NoticeFails(c)
  PROVE  NoticeInv'
<1> DEFINE job  == proc[c]
           says == NoticeStates(debt, job.edits)
           keep == IF mode = "chain" THEN debt ELSE [rev |-> NoticeRev(job), says |-> says]
           next == [pc |-> "save", keep |-> keep, rev |-> 0]
<1>1. NoticeTypeOK /\ LockInv /\ OwedInv /\ ActionsInv /\ OrderInv
  BY DEF NoticeInv
<1>2. /\ Speaking(c) /\ Fault /\ Goto(c, next)
      /\ UNCHANGED <<mode, actions, live, enrolled, rev, debt, executed, doc, lock, mine, said, ran, crossed>>
  BY DEF NoticeFails
<1>3. /\ job.pc = "notify"
      /\ NoticeRev(job) \in Revs \ {0} /\ NoticeRev(job) <= rev
      /\ says \in Says /\ DOMAIN says # {}
      /\ DOMAIN says = DOMAIN SaysOf(debt) \cup DOMAIN job.edits
      /\ \A p \in mine \cap DOMAIN says : says[p] = live[p]
      /\ mode = "provider" /\ debt # NoDebt => NoticeRev(job) = debt.rev
      /\ mode = "provider" /\ debt = NoDebt => NoticeRev(job) = rev
  BY <1>2, NoticeSays
<1>4. mode \in {"provider", "chain"} /\ debt \in Debts \cup {NoDebt}
  BY <1>1 DEF NoticeTypeOK
<1>5. /\ keep \in Debts \cup {NoDebt} /\ Owes(keep)
      /\ keep # NoDebt => /\ keep.rev <= rev
                          /\ mode = "chain" => crossed
                          /\ doc # NoDoc => doc.rev <= keep.rev \/ crossed
  <2>1. CASE mode = "chain"
    <3>1. keep = debt
      BY <2>1
    <3> HIDE DEF keep
    <3>. QED  BY <3>1, <1>1, <1>4, <2>1 DEF OwedInv, OrderInv
  <2>2. CASE mode = "provider"
    <3>1. keep = [rev |-> NoticeRev(job), says |-> says]
      BY <2>2
    <3> HIDE DEF keep, job, says
    <3>2. keep \in Debts
      BY <3>1, <1>3 DEF Debts
    <3>3. SaysOf(keep) = says /\ keep.rev = NoticeRev(job)
      BY <3>1, <3>2, DebtType
    <3>4. Owes(keep)
      BY <3>3, <1>1, <1>3 DEF OwedInv, Owes
    <3>5. doc # NoDoc => doc.rev <= keep.rev \/ crossed
      BY <2>2, <3>3, <1>1, <1>3 DEF OrderInv
    <3>. QED  BY <2>2, <3>2, <3>3, <3>4, <3>5, <1>3
  <2>. QED  BY <2>1, <2>2, <1>4
<1> HIDE DEF keep
<1>6. next \in Jobs /\ next.pc = "save" /\ next.keep = keep
  BY <1>5, NoticeAssumption DEF Jobs, Revs
<1> HIDE DEF next
<1>7. /\ proc' \in [Procs -> Jobs \cup {Idle}] /\ lock' \in Procs \cup {Free} /\ LockInv'
      /\ proc'[c] = next
      /\ \A d \in Procs \ {c} : proc'[d] = proc[d] /\ proc'[d].pc \notin {"notify", "save"}
  BY <1>1, <1>2, <1>3, <1>6, HolderGoes
<1>8. NoticeTypeOK'
  BY <1>1, <1>2, <1>7, FaultType DEF NoticeTypeOK
<1>9. OwedInv'
  BY <1>1, <1>2, <1>5, <1>6, <1>7 DEF OwedInv, Owes
<1>10. ActionsInv'
  BY <1>1, <1>2, <1>6, <1>7, ActionsKept
<1>11. OrderInv'
  BY <1>1, <1>2, <1>5, <1>6, <1>7 DEF OrderInv
<1>. QED  BY <1>7, <1>8, <1>9, <1>10, <1>11 DEF NoticeInv

\* The second save: the debt it carries is in state.json, or the old one still is.
LEMMA SaveAgainInv ==
  ASSUME NoticeInv, NEW c \in Procs, SaveAgain(c)
  PROVE  NoticeInv'
<1> DEFINE job  == proc[c]
           next == IF job.rev # 0 THEN [pc |-> "reserve", rev |-> job.rev] ELSE Idle
<1>1. NoticeTypeOK /\ LockInv /\ OwedInv /\ ActionsInv /\ OrderInv
  BY DEF NoticeInv
<1>2. /\ job.pc = "save" /\ Goto(c, next) /\ lock' = Free
      /\ debt' = debt \/ debt' = job.keep
      /\ UNCHANGED count \/ Fault
      /\ UNCHANGED <<mode, actions, live, enrolled, rev, executed, doc, mine, said, ran, crossed>>
  BY DEF SaveAgain, SaveOrFail, Doing
<1>3. job.rev \in Revs /\ job.keep \in Debts \cup {NoDebt} /\ debt \in Debts \cup {NoDebt}
  <2>1. job \in Jobs \cup {Idle} /\ debt \in Debts \cup {NoDebt}
    BY <1>1 DEF NoticeTypeOK
  <2>. QED  BY <2>1, <1>2, JobType
<1>4. next \in Jobs \cup {Idle} /\ next.pc \in {"reserve", "idle"}
  <2>1. next = IF job.rev # 0 THEN [pc |-> "reserve", rev |-> job.rev] ELSE Idle
    OBVIOUS
  <2> HIDE DEF next, job
  <2>. QED  BY <2>1, <1>3 DEF Jobs, Idle
<1> HIDE DEF next
<1>5. /\ proc' \in [Procs -> Jobs \cup {Idle}] /\ lock' \in Procs \cup {Free} /\ LockInv'
      /\ proc'[c] = next
      /\ \A d \in Procs \ {c} : proc'[d] = proc[d] /\ proc'[d].pc \notin {"notify", "save"}
  BY <1>1, <1>2, <1>4, HolderGoes
<1>6. \A d \in Procs : proc'[d].pc \notin {"notify", "save"} /\ (proc'[d].pc = "run" => proc'[d] = proc[d])
  BY <1>4, <1>5
<1>7. count' \in [edits : 0..MaxEdits, faults : 0..MaxFaults]
  BY <1>1, <1>2, FaultType DEF NoticeTypeOK
<1>8. NoticeTypeOK'
  BY <1>1, <1>2, <1>3, <1>5, <1>7 DEF NoticeTypeOK
<1>9. OwedInv'
  <2>1. Owes(debt) /\ Owes(job.keep)
    BY <1>1, <1>2 DEF OwedInv
  <2>2. Owes(debt)'
    BY <2>1, <1>2 DEF Owes
  <2>. QED  BY <2>2, <1>1, <1>2, <1>6 DEF OwedInv
<1>10. ActionsInv'
  BY <1>1, <1>2, <1>6, ActionsKept
<1>11. OrderInv'
  BY <1>1, <1>2, <1>6 DEF OrderInv
<1>. QED  BY <1>5, <1>8, <1>9, <1>10, <1>11 DEF NoticeInv

-----------------------------------------------------------------------------
(***************************************************************************)
(* on_change, and the end of a process.                                    *)
(***************************************************************************)
\* A process that goes on to something other than a notice or a save holds no lock, and
\* of what is owed and announced it changes nothing.
LEMMA GoesOnInv ==
  ASSUME NoticeInv, NEW c \in Procs, NEW next \in Jobs \cup {Idle}, next.pc \notin {"notify", "save"},
         Goto(c, next), lock' = IF lock = c THEN Free ELSE lock,
         UNCHANGED <<mode, actions, live, enrolled, rev, debt, doc, mine, said, crossed>>,
         executed' \in Revs, ran' \in [Revs -> Nat],
         count' \in [edits : 0..MaxEdits, faults : 0..MaxFaults], ActionsInv'
  PROVE  NoticeInv'
<1>1. NoticeTypeOK /\ LockInv /\ OwedInv /\ OrderInv
  BY DEF NoticeInv
<1>2. /\ proc' \in [Procs -> Jobs \cup {Idle}] /\ proc'[c] = next
      /\ \A d \in Procs \ {c} : proc'[d] = proc[d]
  BY <1>1, GotoType
<1>3. NoticeTypeOK'
  BY <1>1, <1>2 DEF NoticeTypeOK
<1>4. LockInv'
  BY <1>1, <1>2, FreeAssumption DEF LockInv
<1>5. \A d \in Procs : proc'[d].pc \in {"notify", "save"} => proc'[d] = proc[d]
  BY <1>2
<1>6. OwedInv' /\ OrderInv'
  BY <1>1, <1>5 DEF OwedInv, Owes, OrderInv, Fresh
<1>. QED  BY <1>3, <1>4, <1>6 DEF NoticeInv

\* reserveOnChange: none of the revision's actions were started, and no process is about
\* to start them; the reservation is in state.json before the process goes on.
LEMMA ReserveInv ==
  ASSUME NoticeInv, NEW c \in Procs, Reserve(c)
  PROVE  NoticeInv'
<1> DEFINE r == proc[c].rev
           next == IF count' = count THEN [pc |-> "run", rev |-> r] ELSE Idle
<1>1. NoticeTypeOK /\ ActionsInv
  BY DEF NoticeInv
<1>2. /\ proc[c].pc = "reserve" /\ lock = Free /\ executed < r /\ Goto(c, next)
      /\ (executed' = r /\ UNCHANGED count) \/ (executed' \in {r, executed} /\ Fault)
      /\ UNCHANGED <<mode, actions, live, enrolled, rev, debt, doc, lock, mine, said, ran, crossed>>
  BY DEF Reserve, SaveOrFail, Doing
<1>3. r \in Revs /\ executed \in Revs
  <2>1. proc[c] \in Jobs \cup {Idle} /\ executed \in Revs
    BY <1>1 DEF NoticeTypeOK
  <2>. QED  BY <2>1, <1>2, JobType
<1>4. next \in Jobs \cup {Idle} /\ next.pc \in {"run", "idle"} /\ (next.pc = "run" => next.rev = r)
  <2>1. next = [pc |-> "run", rev |-> r] \/ next = Idle
    OBVIOUS
  <2> HIDE DEF next, r
  <2>. QED  BY <2>1, <1>3 DEF Jobs, Idle
<1>5. next.pc = "run" => executed' = r
  <2>1. Fault => count' # count
    BY <1>1 DEF Fault, NoticeTypeOK
  <2>. QED  BY <2>1, <1>2 DEF Idle
<1> HIDE DEF next
<1>6. /\ proc' \in [Procs -> Jobs \cup {Idle}] /\ proc'[c] = next
      /\ \A d \in Procs \ {c} : proc'[d] = proc[d]
  BY <1>1, <1>2, <1>4, GotoType
<1>7. executed' \in Revs /\ executed' >= executed /\ executed < r
  BY <1>2, <1>3 DEF Revs
<1>8. ActionsInv'
  <2>1. \A q \in Revs : ran'[q] <= 1 /\ (ran'[q] > 0 => q <= executed')
    BY <1>1, <1>2, <1>3, <1>7 DEF ActionsInv, Revs
  <2>2. ran[r] = 0
    <3>1. ran[r] \in Nat /\ (ran[r] > 0 => r <= executed)
      BY <1>1, <1>3 DEF ActionsInv, NoticeTypeOK
    <3>. QED  BY <3>1, <1>3, <1>7 DEF Revs
  <2>3. \A d \in Procs \ {c} : proc'[d].pc = "run" =>
          proc'[d].rev \in Revs /\ proc'[d].rev <= executed /\ ran[proc'[d].rev] = 0
    <3> SUFFICES ASSUME NEW d \in Procs \ {c}, proc[d].pc = "run"
                 PROVE  proc[d].rev \in Revs /\ proc[d].rev <= executed /\ ran[proc[d].rev] = 0
      BY <1>6
    <3>1. proc[d] \in Jobs \cup {Idle}
      BY <1>1 DEF NoticeTypeOK
    <3>. QED  BY <3>1, <1>1, JobType DEF ActionsInv
  <2>4. \A d \in Procs : proc'[d].pc = "run" => proc'[d].rev <= executed' /\ ran'[proc'[d].rev] = 0
    <3>1. ASSUME NEW d \in Procs \ {c}, proc'[d].pc = "run"
          PROVE  proc'[d].rev <= executed' /\ ran'[proc'[d].rev] = 0
      BY <3>1, <2>3, <1>2, <1>3, <1>7 DEF Revs
    <3>2. ASSUME proc'[c].pc = "run"
          PROVE  proc'[c].rev <= executed' /\ ran'[proc'[c].rev] = 0
      BY <3>2, <2>2, <1>2, <1>3, <1>4, <1>5, <1>6 DEF Revs
    <3>. QED  BY <3>1, <3>2
  <2>5. ASSUME NEW d \in Procs, NEW e \in Procs, proc'[d].pc = "run", proc'[e].pc = "run",
               proc'[d].rev = proc'[e].rev
        PROVE  d = e
    <3>1. CASE d # c /\ e # c
      BY <3>1, <2>5, <1>1, <1>6 DEF ActionsInv
    <3>2. ASSUME NEW f \in Procs \ {c}, proc'[f].pc = "run", proc'[c].pc = "run"
          PROVE  proc'[f].rev # proc'[c].rev
      BY <3>2, <2>3, <1>3, <1>4, <1>6, <1>7 DEF Revs
    <3>. QED  BY <3>1, <3>2, <2>5
  <2>. QED  BY <2>1, <2>4, <2>5 DEF ActionsInv
<1>9. count' \in [edits : 0..MaxEdits, faults : 0..MaxFaults] /\ ran' \in [Revs -> Nat]
  BY <1>1, <1>2, FaultType DEF NoticeTypeOK
<1>. QED  BY <1>2, <1>4, <1>7, <1>8, <1>9, FreeAssumption, GoesOnInv

\* ExecuteOnChange: the actions of the revision are started for the first time.
LEMMA RunActionsInv ==
  ASSUME NoticeInv, NEW c \in Procs, NEW results, RunActions(c, results)
  PROVE  NoticeInv'
<1> DEFINE r == proc[c].rev
           next == IF \A i \in DOMAIN results : results[i] = "ok" THEN Idle ELSE [pc |-> "record", rev |-> r]
<1>1. NoticeTypeOK /\ LockInv /\ ActionsInv
  BY DEF NoticeInv
<1>2. /\ proc[c].pc = "run" /\ ran' = [ran EXCEPT ![r] = @ + 1] /\ Goto(c, next)
      /\ UNCHANGED <<mode, actions, live, enrolled, rev, debt, executed, doc, lock, mine, said, crossed, count>>
  BY DEF RunActions, Doing
<1>3. r \in Revs /\ r <= executed /\ ran[r] = 0
  <2>1. proc[c] \in Jobs \cup {Idle}
    BY <1>1 DEF NoticeTypeOK
  <2>. QED  BY <2>1, <1>1, <1>2, JobType DEF ActionsInv
<1>4. next \in Jobs \cup {Idle} /\ next.pc \in {"record", "idle"}
  <2>1. next = [pc |-> "record", rev |-> r] \/ next = Idle
    OBVIOUS
  <2> HIDE DEF next, r
  <2>. QED  BY <2>1, <1>3 DEF Jobs, Idle
<1> HIDE DEF next
<1>5. /\ proc' \in [Procs -> Jobs \cup {Idle}] /\ proc'[c] = next
      /\ \A d \in Procs \ {c} : proc'[d] = proc[d]
  BY <1>1, <1>2, <1>4, GotoType
<1>6. /\ ran' \in [Revs -> Nat] /\ ran'[r] = 1
      /\ \A q \in Revs \ {r} : ran'[q] = ran[q]
  BY <1>1, <1>2, <1>3 DEF NoticeTypeOK
<1>7. ActionsInv'
  <2>1. \A q \in Revs : ran'[q] <= 1 /\ (ran'[q] > 0 => q <= executed')
    BY <1>1, <1>2, <1>3, <1>6 DEF ActionsInv
  <2>2. ASSUME NEW d \in Procs, proc'[d].pc = "run"
        PROVE  d # c /\ proc[d].pc = "run" /\ proc'[d] = proc[d] /\ proc[d].rev \in Revs \ {r}
    <3>1. d # c /\ proc'[d] = proc[d] /\ proc[d] \in Jobs \cup {Idle}
      BY <2>2, <1>1, <1>4, <1>5 DEF NoticeTypeOK
    <3>. QED  BY <3>1, <2>2, <1>1, <1>2, JobType DEF ActionsInv
  <2>. QED  BY <2>1, <2>2, <1>1, <1>2, <1>6 DEF ActionsInv
<1>8. lock' = IF lock = c THEN Free ELSE lock
  BY <1>1, <1>2 DEF LockInv
<1>9. executed' \in Revs /\ count' \in [edits : 0..MaxEdits, faults : 0..MaxFaults]
  BY <1>1, <1>2 DEF NoticeTypeOK
<1>. QED  BY <1>2, <1>4, <1>6, <1>7, <1>8, <1>9, GoesOnInv

\* A process that gives the actions up, has recorded their failures, or dies.
LEMMA EndsInv ==
  ASSUME NoticeInv, NEW c \in Procs, GiveUp(c) \/ RecordFailures(c) \/ Die(c)
  PROVE  NoticeInv'
<1>1. NoticeTypeOK /\ LockInv /\ ActionsInv
  BY DEF NoticeInv
<1>2. /\ Goto(c, Idle)
      /\ UNCHANGED <<mode, actions, live, enrolled, rev, debt, executed, doc, mine, said, ran, crossed>>
  BY DEF GiveUp, RecordFailures, Die
<1>3. Idle \in Jobs \cup {Idle} /\ Idle.pc = "idle"
  BY DEF Idle
<1>4. count' \in [edits : 0..MaxEdits, faults : 0..MaxFaults]
  BY <1>1, FaultType DEF GiveUp, RecordFailures, Die, NoticeTypeOK
<1>5. lock' = IF lock = c THEN Free ELSE lock
  <2>1. CASE GiveUp(c) \/ RecordFailures(c)
    BY <2>1, <1>1 DEF GiveUp, RecordFailures, Doing, LockInv
  <2>2. CASE Die(c)
    BY <2>2 DEF Die
  <2>. QED  BY <2>1, <2>2
<1>6. proc'[c] = Idle /\ \A d \in Procs \ {c} : proc'[d] = proc[d]
  BY <1>1, <1>2, <1>3, GotoType
<1>7. ActionsInv'
  BY <1>1, <1>2, <1>3, <1>6, ActionsKept
<1>8. executed' \in Revs /\ ran' \in [Revs -> Nat]
  BY <1>1, <1>2 DEF NoticeTypeOK
<1>. QED  BY <1>2, <1>3, <1>4, <1>5, <1>7, <1>8, GoesOnInv

-----------------------------------------------------------------------------
(***************************************************************************)
(* The operator.                                                           *)
(***************************************************************************)
\* An edit of the operator changes no revision and no job, and what he has edited is no
\* longer quota's.
LEMMA EditInv ==
  ASSUME NoticeInv, NEW p \in Providers, EditField(p) \/ Enroll(p)
  PROVE  NoticeInv'
<1>1. NoticeTypeOK /\ LockInv /\ OwedInv /\ ActionsInv /\ OrderInv
  BY DEF NoticeInv
<1>2. /\ Edits /\ mine' = mine \ {p}
      /\ UNCHANGED <<mode, actions, rev, debt, executed, doc, lock, proc, said, ran, crossed>>
  BY DEF EditField, Enroll
<1>3. /\ live' \in [Providers -> BOOLEAN] /\ enrolled' \in SUBSET Providers
      /\ \A q \in mine' : live'[q] = live[q]
      /\ mine' \subseteq enrolled'
  BY <1>1 DEF EditField, Enroll, NoticeTypeOK, OwedInv
<1>4. count' \in [edits : 0..MaxEdits, faults : 0..MaxFaults]
  BY <1>1, <1>2, NoticeAssumption DEF NoticeTypeOK, Edits
<1>5. NoticeTypeOK' /\ LockInv' /\ ActionsInv' /\ OrderInv'
  BY <1>1, <1>2, <1>3, <1>4 DEF NoticeTypeOK, LockInv, ActionsInv, OrderInv, Fresh
<1>6. OwedInv'
  <2>1. ASSUME NEW d, Owes(d) PROVE Owes(d)'
    BY <2>1, <1>2, <1>3 DEF Owes
  <2>. QED  BY <2>1, <1>1, <1>2, <1>3 DEF OwedInv, Owes
<1>. QED  BY <1>5, <1>6 DEF NoticeInv

\* The policy is replaced while no command is at work; a pending debt is remembered.
LEMMA MigrateInv ==
  ASSUME NoticeInv, Migrate
  PROVE  NoticeInv'
<1>1. NoticeTypeOK /\ LockInv /\ OwedInv /\ ActionsInv /\ OrderInv
  BY DEF NoticeInv
<1>2. /\ Edits /\ lock = Free /\ mode' \in {"provider", "chain"} /\ crossed' = (crossed \/ debt # NoDebt)
      /\ UNCHANGED <<actions, live, enrolled, rev, debt, executed, doc, lock, proc, mine, said, ran>>
  BY DEF Migrate
<1>3. \A d \in Procs : proc[d].pc \notin {"notify", "save"}
  BY <1>1, <1>2, NobodyCommits
<1>4. count' \in [edits : 0..MaxEdits, faults : 0..MaxFaults] /\ crossed' \in BOOLEAN
  BY <1>1, <1>2, NoticeAssumption DEF NoticeTypeOK, Edits
<1>5. NoticeTypeOK' /\ LockInv' /\ ActionsInv'
  BY <1>1, <1>2, <1>4 DEF NoticeTypeOK, LockInv, ActionsInv
<1>6. OwedInv'
  BY <1>1, <1>2, <1>3 DEF OwedInv, Owes
<1>7. OrderInv'
  BY <1>1, <1>2, <1>3 DEF OrderInv
<1>. QED  BY <1>5, <1>6, <1>7 DEF NoticeInv

\* A step that changes nothing the notices keep, but for the faults counted.
LEMMA CountedInv ==
  ASSUME NoticeInv, count' \in [edits : 0..MaxEdits, faults : 0..MaxFaults],
         UNCHANGED <<mode, actions, live, enrolled, rev, debt, executed, doc, lock, proc, mine, said, ran, crossed>>
  PROVE  NoticeInv'
<1>1. NoticeTypeOK /\ LockInv /\ OwedInv /\ ActionsInv /\ OrderInv
  BY DEF NoticeInv
<1>2. NoticeTypeOK' /\ LockInv' /\ ActionsInv' /\ OrderInv'
  BY <1>1 DEF NoticeTypeOK, LockInv, ActionsInv, OrderInv, Fresh
<1>3. OwedInv'
  BY <1>1 DEF OwedInv, Owes
<1>. QED  BY <1>2, <1>3 DEF NoticeInv

-----------------------------------------------------------------------------
(***************************************************************************)
(* The specification.                                                      *)
(***************************************************************************)
\* Nothing is owed, announced or run when quota is installed.
LEMMA NoticeInitInv == NoticeInit => NoticeInv
<1> SUFFICES ASSUME NoticeInit PROVE NoticeInv
  OBVIOUS
<1>1. /\ Idle \in Jobs \cup {Idle} /\ Idle.pc = "idle" /\ 0 \in Revs
      /\ Actions \in Nat /\ MaxEdits \in Nat /\ MaxFaults \in Nat
  BY NoticeAssumption DEF Idle, Revs
<1>2. NoticeTypeOK
  <2>1. /\ live \in [Providers -> BOOLEAN] /\ said \in [Providers -> BOOLEAN]
        /\ enrolled \in SUBSET Providers /\ mine \in SUBSET Providers
    BY DEF NoticeInit
  <2>2. /\ proc \in [Procs -> Jobs \cup {Idle}] /\ lock \in Procs \cup {Free}
        /\ ran \in [Revs -> Nat] /\ crossed \in BOOLEAN
        /\ debt \in Debts \cup {NoDebt} /\ doc \in Docs \cup {NoDoc}
    BY <1>1 DEF NoticeInit
  <2>3. count \in [edits : 0..MaxEdits, faults : 0..MaxFaults]
    BY <1>1 DEF NoticeInit
  <2>. QED  BY <1>1, <2>1, <2>2, <2>3 DEF NoticeInit, NoticeTypeOK
<1>3. \A c \in Procs : proc[c].pc = "idle"
  BY <1>1 DEF NoticeInit
<1>4. LockInv /\ OwedInv
  BY <1>3, FreeAssumption DEF NoticeInit, LockInv, OwedInv, Owes
<1>5. ActionsInv /\ OrderInv
  BY <1>3 DEF NoticeInit, ActionsInv, OrderInv
<1>. QED  BY <1>2, <1>4, <1>5 DEF NoticeInv

\* Every step keeps the invariant.
LEMMA NoticeNextInv == NoticeInv /\ [NoticeNext]_nvars => NoticeInv'
<1> SUFFICES ASSUME NoticeInv, [NoticeNext]_nvars PROVE NoticeInv'
  OBVIOUS
<1>1. ASSUME NEW c \in Procs, Command(c) PROVE NoticeInv'
  BY <1>1, GatePassInv, ToggleInv, ChainPassInv, SilentCommandInv DEF Command
<1>2. ASSUME NEW c \in Procs, AfterCommit(c) \/ NoticeFails(c) \/ Die(c) PROVE NoticeInv'
  BY <1>2, NothingToSayInv, PublishNoticeInv, NoticeFailsInv, SaveAgainInv, ReserveInv, RunActionsInv, EndsInv
     DEF AfterCommit
<1>3. CASE Operator
  BY <1>3, EditInv, MigrateInv DEF Operator
<1>4. CASE UNCHANGED nvars
  BY <1>4, CountedInv DEF nvars, NoticeInv, NoticeTypeOK
<1>. QED  BY <1>1, <1>2, <1>3, <1>4 DEF NoticeNext

\* The inductive invariant holds of every behaviour.
THEOREM NoticeInvariant == NoticeSpec => []NoticeInv
<1>. QED  BY NoticeInitInv, NoticeNextInv, PTL DEF NoticeSpec

\* Every value of the policy, the state, the notice and the processes is of its type.
THEOREM NoticeTypeCorrect == NoticeSpec => []NoticeTypeOK
<1>1. NoticeInv => NoticeTypeOK
  BY DEF NoticeInv
<1>. QED  BY <1>1, NoticeInvariant, PTL

\* What is owed or announced of what is quota's is as it is.
LEMMA OwedIsTrue == NoticeInv => AnnouncedOrOwed
<1> SUFFICES ASSUME NoticeInv, NEW p \in mine
             PROVE  said[p] = live[p] \/ (p \in DOMAIN SaysOf(debt) /\ debt.says[p] = live[p])
  BY DEF AnnouncedOrOwed
<1>1. IF p \in DOMAIN SaysOf(debt) THEN SaysOf(debt)[p] = live[p] ELSE said[p] = live[p]
  BY DEF NoticeInv, OwedInv, Owes
<1>2. p \in DOMAIN SaysOf(debt) => SaysOf(debt) = debt.says
  BY DebtType DEF SaysOf
<1>. QED  BY <1>1, <1>2

\* A provider change quota committed is announced or still owed, and not as it was
\* before: whatever crashed, failed to publish or to save in between.
THEOREM AnnouncedOrOwedHolds == NoticeSpec => []AnnouncedOrOwed
<1>. QED  BY OwedIsTrue, NoticeInvariant, PTL

\* The actions of a revision are started at most once, by whatever process.
THEOREM ActionsAtMostOnceHolds == NoticeSpec => []ActionsAtMostOnce
<1>1. NoticeInv => ActionsAtMostOnce
  BY DEF NoticeInv, ActionsInv, ActionsAtMostOnce
<1>. QED  BY <1>1, NoticeInvariant, PTL

\* Only the reservation gives the actions of a revision to a process.
LEMMA OnlyReserves ==
  ASSUME NoticeTypeOK, NoticeNext, NEW c \in Procs, proc[c].pc = "reserve", proc'[c].pc = "run"
  PROVE  Reserve(c)
<1>1. proc \in [Procs -> Jobs \cup {Idle}]
  BY DEF NoticeTypeOK
<1>2. ASSUME NEW d \in Procs, Command(d) PROVE FALSE
  <2>1. proc' = proc \/ \E r, edits : Notifying(d, r, edits)
    BY <1>2 DEF Command, GatePass, LateRefusal, Unannounced, ChainPass, Toggle, RefusedPass
  <2>. QED  BY <2>1, <1>1 DEF Notifying
<1>3. ASSUME NEW d \in Procs, AfterCommit(d) \/ NoticeFails(d) \/ Die(d) PROVE d = c
  <2>1. \E job : proc' = [proc EXCEPT ![d] = job]
    BY <1>3 DEF AfterCommit, NothingToSay, PublishNotice, SaveAgain, Reserve, GiveUp, RecordFailures,
                RunActions, NoticeFails, Die, Goto
  <2>. QED  BY <2>1, <1>1
<1>4. ASSUME NothingToSay(c) \/ PublishNotice(c) \/ SaveAgain(c) \/ RecordFailures(c) \/ NoticeFails(c)
             \/ \E results \in ActionResults : RunActions(c, results)
      PROVE  FALSE
  BY <1>4 DEF NothingToSay, PublishNotice, Speaking, SaveAgain, RecordFailures, NoticeFails, RunActions, Doing
<1>5. ASSUME GiveUp(c) \/ Die(c) PROVE FALSE
  <2>1. proc'[c] = Idle
    BY <1>5, <1>1 DEF GiveUp, Die, Goto
  <2>. QED  BY <2>1 DEF Idle
<1>6. ~Operator
  BY DEF Operator, Migrate, EditField, Enroll
<1>. QED  BY <1>2, <1>3, <1>4, <1>5, <1>6 DEF NoticeNext, AfterCommit

\* The reservation is of a revision later than every one whose actions were started.
LEMMA ReservesInOrder ==
  ASSUME NoticeInv, [NoticeNext]_nvars, NEW c \in Procs, Doing(c, "reserve"), proc'[c].pc = "run",
         NEW r \in Revs, ran[r] > 0
  PROVE  r < proc[c].rev
<1>1. NoticeNext
  BY DEF nvars, Doing
<1>2. Reserve(c)
  BY <1>1, OnlyReserves DEF NoticeInv, Doing
<1>3. executed < proc[c].rev /\ r <= executed /\ executed \in Revs
  BY <1>2 DEF Reserve, NoticeInv, ActionsInv, NoticeTypeOK
<1>4. proc[c].rev \in Revs
  <2>1. proc[c] \in Jobs \cup {Idle}
    BY DEF NoticeInv, NoticeTypeOK
  <2>. QED  BY <2>1, JobType DEF Doing
<1>. QED  BY <1>3, <1>4 DEF Revs

\* The actions of a revision are given to a process only when none of that revision or a
\* later one have been started before.
THEOREM ActionsInOrderHolds == NoticeSpec => ActionsInOrder
<1>1. NoticeInv /\ [NoticeNext]_nvars =>
        \A c \in Procs : Doing(c, "reserve") /\ proc'[c].pc = "run" =>
          \A r \in Revs : ran[r] > 0 => r < proc[c].rev
  BY ReservesInOrder
<1>. QED  BY <1>1, NoticeInvariant, PTL DEF NoticeSpec, ActionsInOrder

\* Only a publication replaces the document.
LEMMA OnlyPublishes ==
  ASSUME NoticeNext, doc' # doc
  PROVE  \E c \in Procs : PublishNotice(c)
<1>1. ASSUME NEW c \in Procs, Command(c) PROVE FALSE
  BY <1>1 DEF Command, GatePass, LateRefusal, Unannounced, ChainPass, Toggle, RefusedPass
<1>2. ASSUME NEW c \in Procs, AfterCommit(c) \/ NoticeFails(c) \/ Die(c) PROVE PublishNotice(c)
  BY <1>2 DEF AfterCommit, NothingToSay, SaveAgain, Reserve, GiveUp, RecordFailures, RunActions, NoticeFails, Die
<1>3. ~Operator
  BY DEF Operator, Migrate, EditField, Enroll
<1>. QED  BY <1>1, <1>2, <1>3 DEF NoticeNext

\* The document is of the revision of the debt it settles, or of the state's.
LEMMA PublishedRev ==
  ASSUME NoticeInv, NEW c \in Procs, PublishNotice(c)
  PROVE  /\ doc'.rev \in Revs \ {0}
         /\ doc'.rev = rev \/ (mode = "provider" /\ debt # NoDebt /\ doc'.rev = debt.rev)
<1>1. Speaking(c) /\ doc' = NoticeDoc(proc[c])
  BY DEF PublishNotice
<1>2. /\ proc[c].rev \in Revs \ {0} /\ proc[c].rev = rev /\ NoticeRev(proc[c]) \in Revs \ {0}
      /\ mode = "provider" /\ debt # NoDebt => NoticeRev(proc[c]) = debt.rev
      /\ mode = "provider" /\ debt = NoDebt => NoticeRev(proc[c]) = rev
  BY <1>1, NoticeSays
<1>3. NoticeDoc(proc[c]).rev = IF mode = "chain" THEN proc[c].rev ELSE NoticeRev(proc[c])
  BY DEF NoticeDoc
<1>4. mode \in {"provider", "chain"}
  BY DEF NoticeInv, NoticeTypeOK
<1>. QED  BY <1>1, <1>2, <1>3, <1>4

\* A document that is replaced is not replaced by an older one.
LEMMA PublishesInOrder ==
  ASSUME NoticeInv, [NoticeNext]_nvars, doc # NoDoc, doc' # doc
  PROVE  doc'.rev >= doc.rev \/ crossed'
<1>1. PICK c \in Procs : PublishNotice(c)
  BY OnlyPublishes DEF nvars
<1>2. /\ doc'.rev = rev \/ (mode = "provider" /\ debt # NoDebt /\ doc'.rev = debt.rev)
      /\ crossed' = crossed
  BY <1>1, PublishedRev DEF PublishNotice
<1>3. doc.rev <= rev /\ (debt # NoDebt => doc.rev <= debt.rev \/ crossed)
  BY DEF NoticeInv, OrderInv
<1>4. doc.rev \in Nat /\ rev \in Nat /\ (debt # NoDebt => debt.rev \in Nat)
  BY DebtType DEF NoticeInv, NoticeTypeOK, Docs, Revs
<1>. QED  BY <1>2, <1>3, <1>4

\* Sessions compare revisions: the notice file never goes back to an older one, unless the
\* policy was replaced while a notice was owed.
THEOREM NoticeNeverOlderHolds == NoticeSpec => NoticeNeverOlder
<1>1. NoticeInv /\ [NoticeNext]_nvars =>
        (doc # NoDoc /\ doc' # doc => doc'.rev >= doc.rev \/ crossed')
  BY PublishesInOrder
<1>. QED  BY <1>1, NoticeInvariant, PTL DEF NoticeSpec, NoticeNeverOlder

-----------------------------------------------------------------------------
(***************************************************************************)
(* Sessions: the inductive invariant of both.                              *)
(***************************************************************************)
\* The hook has taken the lock of its session.
Holding == {"check", "summary", "reload", "mark"}

\* What a hook has read of the marker is what the marker says until the hook is done, and
\* it goes on for a revision that is newer.
HeldInv ==
  \A h \in Hooks : hook[h].pc \in Holding =>
    hook[h].m = marker[hook[h].s] /\ hook[h].rev > hook[h].m.consumed

\* Nothing is consumed or about to be that the daemon has not read or queued; and no
\* revision is later than the state's, which is what a daemon reads.
LoadedInv ==
  /\ \A s \in Sessions :
       /\ marker[s].consumed <= rev
       /\ daemon[s].queued \/ daemon[s].loaded >= marker[s].consumed
  /\ \A h \in Hooks :
       /\ hook[h].pc # "idle" => hook[h].rev <= rev
       /\ hook[h].pc = "mark" => LET d == daemon[hook[h].s] IN d.queued \/ d.loaded >= hook[h].rev

\* Of a revision later than the one a session was last warned of there were no warnings,
\* but for the marker that was not written; and a notice that shows chains is of
\* that revision or a later one.
WarnedInv ==
  \A s \in Sessions :
    /\ marker[s].warned <= rev
    /\ doc # NoDoc /\ doc.kind = "chain" => marker[s].warned <= doc.rev
    /\ \A r \in Revs :
         warnings[s][r] <= count.faults + IF r <= marker[s].warned THEN 1 ELSE 0

\* A daemon that was found idle and has not changed since has no turn in flight.
IdleInv ==
  \A h \in Hooks : hook[h].pc = "reload" /\ hook[h].quiet => ~daemon[hook[h].s].turn

HookInv == HookTypeOK /\ HeldInv /\ LoadedInv /\ WarnedInv /\ IdleInv
DeliveryInv == NoticeInv /\ HookInv

-----------------------------------------------------------------------------
(***************************************************************************)
(* Jobs, markers and locks.                                                *)
(***************************************************************************)
\* What a hook is doing has the shape of its phase.
LEMMA HookJobType ==
  ASSUME NEW j \in HookJobs \cup {Quiet}
  PROVE  /\ j.pc \in {"idle", "lock"} \cup Holding
         /\ j.pc = "idle" <=> j = Quiet
         /\ j.pc # "idle" => j \in HookJobs /\ j.s \in Sessions /\ j.rev \in Revs
         /\ j.pc \in Holding => j.m \in Markers /\ j.quiet \in BOOLEAN
BY DEF HookJobs, Quiet, Holding

\* A hook that holds the lock goes on to its next phase.
LEMMA HeldJobType ==
  ASSUME NEW j \in HookJobs, j.pc \in Holding, NEW pc \in Holding, NEW quiet \in BOOLEAN
  PROVE  LET k == [j EXCEPT !.pc = pc, !.quiet = quiet] IN
         k \in HookJobs /\ k.pc = pc /\ k.quiet = quiet /\ k.s = j.s /\ k.rev = j.rev /\ k.m = j.m
BY DEF HookJobs, Holding

\* At most one hook holds the lock of a session, and a hook in that phase holds it.
LEMMA HolderAlone ==
  ASSUME HookTypeOK, NEW h \in Hooks, hook[h].pc \in Holding
  PROVE  /\ hook[h] \in HookJobs /\ hook[h].s \in Sessions /\ hook[h].rev \in Revs
         /\ hook[h].m \in Markers /\ hook[h].quiet \in BOOLEAN
         /\ slock[hook[h].s] = h
         /\ \A g \in Hooks : hook[g].pc \in Holding /\ hook[g].s = hook[h].s => g = h
<1>1. hook[h] \in HookJobs \cup {Quiet}
  BY DEF HookTypeOK
<1>2. /\ hook[h] \in HookJobs /\ hook[h].s \in Sessions /\ hook[h].rev \in Revs
      /\ hook[h].m \in Markers /\ hook[h].quiet \in BOOLEAN
  BY <1>1, HookJobType DEF Holding
<1>3. \A g \in Hooks : hook[g].pc \in Holding /\ hook[g].s = hook[h].s => slock[hook[h].s] = g
  BY <1>2, SMTT(30) DEF HookTypeOK, Holding
<1>. QED  BY <1>2, <1>3

\* While the lock of a session is free no hook of the session is past it.
LEMMA FreeLock ==
  ASSUME HookTypeOK, NEW s \in Sessions, slock[s] = Free, NEW h \in Hooks, hook[h].pc \in Holding
  PROVE  hook[h].s # s
BY HookAssumption DEF HookTypeOK, Holding

\* What is kept of a session.
LEMMA SessionType ==
  ASSUME HookTypeOK, NEW s \in Sessions
  PROVE  /\ marker[s] \in Markers /\ daemon[s] \in Daemons /\ slock[s] \in Hooks \cup {Free}
         /\ marker[s].consumed \in Nat /\ marker[s].warned \in Nat
         /\ daemon[s].loaded \in Nat /\ daemon[s].turn \in BOOLEAN
         /\ warnings[s] \in [Revs -> Nat]
<1>1. /\ marker[s] \in Markers /\ daemon[s] \in Daemons /\ slock[s] \in Hooks \cup {Free}
      /\ warnings[s] \in [Revs -> Nat]
  BY DEF HookTypeOK
<1>. QED  BY <1>1 DEF Markers, Daemons, Revs

\* ensureBaseline sets nothing but the baseline, and that only once.
LEMMA BaselineType ==
  ASSUME NEW m \in Markers, NEW r \in Revs
  PROVE  LET b == Baseline(m, r) IN
         /\ b \in Markers /\ b.consumed = m.consumed /\ b.warned = m.warned
         /\ m.base # {} => b.base = m.base
<1>1. CASE m.base # {}
  BY <1>1 DEF Baseline
<1>2. CASE m.base = {}
  <2> DEFINE base == IF m.consumed > 0 THEN {m.consumed} ELSE {r}
  <2>1. base \in {{}} \cup {{q} : q \in Revs}
    BY DEF Markers
  <2>2. Baseline(m, r) = [m EXCEPT !.base = base]
    BY <1>2 DEF Baseline
  <2> HIDE DEF base
  <2>. QED  BY <1>2, <2>1, <2>2 DEF Markers
<1>. QED  BY <1>1, <1>2

\* A daemon that reloads has read the configuration of the state's revision.
LEMMA ReloadedType ==
  ASSUME NoticeTypeOK, HookTypeOK, NEW s \in Sessions, NEW d \in Reloaded(s)
  PROVE  d \in Daemons /\ d.loaded = rev /\ d.turn = daemon[s].turn
<1>1. daemon[s] \in Daemons /\ rev \in Revs
  BY DEF NoticeTypeOK, HookTypeOK
<1>2. PICK m \in Providers : d = [daemon[s] EXCEPT !.loaded = rev, !.queued = FALSE, !.model = m]
  BY <1>1 DEF Reloaded, Daemons
<1>. QED  BY <1>1, <1>2 DEF Daemons

-----------------------------------------------------------------------------
(***************************************************************************)
(* Commands, as the hooks see them.                                        *)
(***************************************************************************)
\* No command takes a revision back, and no fault is forgotten.
LEMMA RevisionGrows ==
  ASSUME NoticeInv, NoticeNext
  PROVE  rev' >= rev /\ count'.faults >= count.faults
<1>1. NoticeTypeOK
  BY DEF NoticeInv
<1>2. rev \in Revs /\ count \in [edits : 0..MaxEdits, faults : 0..MaxFaults]
  BY <1>1 DEF NoticeTypeOK
<1>3. Fault \/ Edits => count'.faults >= count.faults
  BY <1>2 DEF Fault, Edits
<1>4. ASSUME NEW c \in Procs, NEW E \in SUBSET Providers, GatePass(c, E)
      PROVE  rev' >= rev /\ count' = count
  BY <1>1, <1>4, NextRevType DEF GatePass, CommitChange
<1>5. ASSUME NEW c \in Procs, NEW E \in SUBSET Providers, LateRefusal(c, E) \/ Unannounced(c, E)
      PROVE  rev' >= rev /\ Fault
  BY <1>2, <1>5 DEF LateRefusal, Unannounced, CommitChange, Revs
<1>6. ASSUME NEW c \in Procs, NEW E \in SUBSET Providers, NEW init \in BOOLEAN, ChainPass(c, E, init)
      PROVE  rev' >= rev /\ count' = count
  <2>1. /\ rev' = (IF init /\ rev # 0 THEN rev ELSE NextRev(E)) /\ rev' \in Revs
        /\ count' = count
    BY <1>6 DEF ChainPass, CommitChange
  <2>2. NextRev(E) \in Revs => NextRev(E) >= rev
    BY <1>1, NextRevType
  <2>. QED  BY <1>2, <2>1, <2>2 DEF Revs
<1>7. ASSUME NEW c \in Procs, NEW p \in Providers, NEW value \in BOOLEAN, NEW edited \in BOOLEAN,
             Toggle(c, p, value, edited)
      PROVE  rev' >= rev /\ count' = count
  BY <1>2, <1>7 DEF Toggle, CommitChange, Revs
<1>8. ASSUME NEW c \in Procs, NEW stays, RefusedPass(c, stays)
      PROVE  rev' >= rev /\ count' = count
  BY <1>1, <1>8, NextRevType DEF RefusedPass, CommitChange
<1>9. ASSUME NEW c \in Procs, Command(c) PROVE rev' >= rev /\ count'.faults >= count.faults
  BY <1>2, <1>3, <1>4, <1>5, <1>6, <1>7, <1>8, <1>9 DEF Command
<1>10. ASSUME NEW c \in Procs, AfterCommit(c) \/ NoticeFails(c) \/ Die(c)
       PROVE  rev' = rev /\ (count' = count \/ Fault)
  BY <1>10 DEF AfterCommit, NothingToSay, PublishNotice, SaveAgain, SaveOrFail, Reserve, GiveUp,
               RecordFailures, RunActions, NoticeFails, Die
<1>11. Operator => rev' = rev /\ Edits
  BY DEF Operator, Migrate, EditField, Enroll
<1>. QED  BY <1>2, <1>3, <1>9, <1>10, <1>11 DEF NoticeNext, Revs

\* A notice that shows chains is of the revision of the state.
LEMMA ChainNoticeRev ==
  ASSUME NoticeInv, NoticeNext, doc' # doc, doc'.kind = "chain"
  PROVE  doc'.rev = rev
<1>1. PICK c \in Procs : PublishNotice(c)
  BY OnlyPublishes
<1>2. mode = "chain"
  BY <1>1 DEF PublishNotice, NoticeDoc
<1>. QED  BY <1>1, <1>2, PublishedRev

\* No step of a command disturbs the hooks.
LEMMA CommandsKeepHooks ==
  ASSUME DeliveryInv, NoticeNext, UNCHANGED svars
  PROVE  DeliveryInv'
<1>1. NoticeInv /\ HookTypeOK /\ HeldInv /\ LoadedInv /\ WarnedInv /\ IdleInv
  BY DEF DeliveryInv, HookInv
<1>2. UNCHANGED <<open, marker, daemon, slock, hook, warnings>>
  BY DEF svars
<1>3. NoticeInv'
  BY <1>1, NoticeNextInv
<1>4. /\ rev' >= rev /\ rev \in Nat /\ rev' \in Nat
      /\ count'.faults >= count.faults /\ count.faults \in Nat /\ count'.faults \in Nat
  BY <1>1, <1>3, RevisionGrows DEF NoticeInv, NoticeTypeOK, Revs
<1>5. HookTypeOK' /\ HeldInv' /\ IdleInv'
  BY <1>1, <1>2 DEF HookTypeOK, HeldInv, IdleInv
<1>6. \A h \in Hooks : hook[h].pc # "idle" => hook[h].rev \in Nat
  BY <1>1, HookJobType DEF HookTypeOK, Revs
<1>7. \A s \in Sessions : /\ marker[s].consumed \in Nat /\ marker[s].warned \in Nat
                          /\ \A r \in Revs : warnings[s][r] \in Nat
  BY <1>1, SessionType
<1>8. LoadedInv'
  BY <1>1, <1>2, <1>4, <1>6, <1>7 DEF LoadedInv
<1>9. WarnedInv'
  <2> SUFFICES ASSUME NEW s \in Sessions
               PROVE  /\ marker[s].warned <= rev'
                      /\ doc' # NoDoc /\ doc'.kind = "chain" => marker[s].warned <= doc'.rev
                      /\ \A r \in Revs : warnings[s][r] <= count'.faults + IF r <= marker[s].warned THEN 1 ELSE 0
    BY <1>2 DEF WarnedInv
  <2>1. marker[s].warned <= rev /\ \A r \in Revs :
          warnings[s][r] <= count.faults + IF r <= marker[s].warned THEN 1 ELSE 0
    BY <1>1 DEF WarnedInv
  <2>2. doc' # NoDoc /\ doc'.kind = "chain" => marker[s].warned <= doc'.rev
    BY <2>1, <1>1, ChainNoticeRev DEF WarnedInv
  <2>. QED  BY <2>1, <2>2, <1>4, <1>7
<1>. QED  BY <1>3, <1>5, <1>8, <1>9 DEF DeliveryInv, HookInv

-----------------------------------------------------------------------------
(***************************************************************************)
(* Hooks.                                                                  *)
(***************************************************************************)
\* session_start.
LEMMA SessionStartInv ==
  ASSUME DeliveryInv, NEW h \in Hooks, NEW s \in Sessions, SessionStart(h, s)
  PROVE  DeliveryInv'
<1> DEFINE m == Baseline(marker[s], doc.rev)
<1>1. NoticeInv /\ HookTypeOK /\ HeldInv /\ LoadedInv /\ WarnedInv /\ IdleInv
  BY DEF DeliveryInv, HookInv
<1>2. /\ slock[s] = Free /\ doc # NoDoc /\ marker' = [marker EXCEPT ![s] = m]
      /\ UNCHANGED <<nvars, open, daemon, slock, hook, warnings>>
  BY DEF SessionStart
<1>3. UNCHANGED <<rev, doc, count>>
  BY <1>2 DEF nvars
<1>4. NoticeInv'
  BY <1>1, <1>2, NoticeNextInv
<1>5. m \in Markers /\ m.consumed = marker[s].consumed /\ m.warned = marker[s].warned
  <2>1. doc.rev \in Revs
    BY <1>1, <1>2 DEF NoticeInv, NoticeTypeOK, Docs
  <2>. QED  BY <2>1, <1>1, BaselineType, SessionType
<1> HIDE DEF m
<1>6. /\ marker' \in [Sessions -> Markers] /\ marker'[s] = m
      /\ \A t \in Sessions \ {s} : marker'[t] = marker[t]
  BY <1>1, <1>2, <1>5 DEF HookTypeOK
<1>7. HookTypeOK' /\ IdleInv'
  BY <1>1, <1>2, <1>6 DEF HookTypeOK, IdleInv
<1>8. HeldInv'
  BY <1>1, <1>2, <1>6, FreeLock, HolderAlone DEF HeldInv
<1>9. LoadedInv' /\ WarnedInv'
  BY <1>1, <1>2, <1>3, <1>5, <1>6 DEF LoadedInv, WarnedInv
<1>. QED  BY <1>4, <1>7, <1>8, <1>9 DEF DeliveryInv, HookInv

\* What the marker of a prompt remembers.
LEMMA AfterPromptType ==
  ASSUME NoticeTypeOK, HookTypeOK, NEW s \in Sessions, NEW m \in Markers
  PROVE  LET a == AfterPrompt(s, m) IN
         /\ a \in Markers /\ a.consumed = m.consumed /\ a.base = m.base
         /\ a.warned = IF Drifted(s) THEN doc.rev ELSE m.warned
<1> DEFINE w == IF Drifted(s) THEN doc.rev ELSE m.warned
<1>1. w \in Revs
  BY DEF Drifted, NoticeTypeOK, Docs, Markers
<1>2. daemon[s].model \in Providers \cup {Free}
  BY DEF HookTypeOK, Daemons
<1>3. AfterPrompt(s, m) = [m EXCEPT !.warned = w, !.seen = daemon[s].model, !.prompted = m.consumed]
  BY DEF AfterPrompt, Markers
<1> HIDE DEF w
<1>4. /\ AfterPrompt(s, m) \in Markers /\ AfterPrompt(s, m).consumed = m.consumed
      /\ AfterPrompt(s, m).base = m.base /\ AfterPrompt(s, m).warned = w
  BY <1>1, <1>2, <1>3 DEF Markers
<1>. QED  BY <1>4 DEF w

\* pre_user_prompt: the marker of the session, and what the session was told.
LEMMA PromptEffect ==
  ASSUME DeliveryInv, NEW h \in Hooks, NEW s \in Sessions, Prompt(h, s)
  PROVE  /\ slock[s] = Free
         /\ UNCHANGED <<mode, actions, live, enrolled, rev, debt, executed, doc, lock, proc, mine, said, ran,
                        crossed, open, daemon, slock, hook>>
         /\ \E m \in Markers :
              /\ marker' = [marker EXCEPT ![s] = m]
              /\ m.consumed = marker[s].consumed /\ (marker[s].base # {} => m.base = marker[s].base)
              /\ \/ /\ m.warned = IF Drifted(s) THEN doc.rev ELSE marker[s].warned
                    /\ UNCHANGED count \/ (Fault /\ UNCHANGED warnings)
                 \/ m.warned = marker[s].warned /\ Fault
         /\ \/ UNCHANGED warnings
            \/ /\ Drifted(s) /\ marker[s].warned # doc.rev
               /\ warnings' = [warnings EXCEPT ![s][doc.rev] = @ + 1]
<1> DEFINE m == IF doc = NoDoc THEN marker[s] ELSE Baseline(marker[s], doc.rev)
           warns == Drifted(s) /\ m.warned # doc.rev
           printed == IF warns THEN [warnings EXCEPT ![s][doc.rev] = @ + 1] ELSE warnings
<1>1. NoticeTypeOK /\ HookTypeOK
  BY DEF DeliveryInv, HookInv, NoticeInv
<1>2. /\ slock[s] = Free
      /\ \/ marker' = [marker EXCEPT ![s] = AfterPrompt(s, m)] /\ warnings' = printed /\ UNCHANGED count
         \/ Fault /\ marker' = [marker EXCEPT ![s] = m] /\ warnings' = printed
         \/ Fault /\ marker' = [marker EXCEPT ![s] = AfterPrompt(s, m)] /\ UNCHANGED warnings
      /\ UNCHANGED <<mode, actions, live, enrolled, rev, debt, executed, doc, lock, proc, mine, said, ran,
                     crossed, open, daemon, slock, hook>>
  BY DEF Prompt
<1>3. /\ m \in Markers /\ m.consumed = marker[s].consumed /\ m.warned = marker[s].warned
      /\ marker[s].base # {} => m.base = marker[s].base
  <2>1. marker[s] \in Markers /\ (doc # NoDoc => doc.rev \in Revs)
    BY <1>1 DEF NoticeTypeOK, HookTypeOK, Docs
  <2>2. doc # NoDoc => /\ Baseline(marker[s], doc.rev) \in Markers
                       /\ Baseline(marker[s], doc.rev).consumed = marker[s].consumed
                       /\ Baseline(marker[s], doc.rev).warned = marker[s].warned
                       /\ marker[s].base # {} => Baseline(marker[s], doc.rev).base = marker[s].base
    BY <2>1, BaselineType
  <2>. QED  BY <2>1, <2>2
<1>4. warns <=> Drifted(s) /\ marker[s].warned # doc.rev
  BY <1>3
<1>5. warnings' = printed => \/ UNCHANGED warnings
                             \/ /\ Drifted(s) /\ marker[s].warned # doc.rev
                                /\ warnings' = [warnings EXCEPT ![s][doc.rev] = @ + 1]
  BY <1>4
<1> HIDE DEF m, printed
<1> DEFINE a == AfterPrompt(s, m)
<1>6. /\ a \in Markers /\ a.consumed = marker[s].consumed /\ (marker[s].base # {} => a.base = marker[s].base)
      /\ a.warned = IF Drifted(s) THEN doc.rev ELSE marker[s].warned
  BY <1>1, <1>3, AfterPromptType
<1> HIDE DEF a
<1>7. \E n \in Markers :
        /\ marker' = [marker EXCEPT ![s] = n]
        /\ n.consumed = marker[s].consumed /\ (marker[s].base # {} => n.base = marker[s].base)
        /\ \/ /\ n.warned = IF Drifted(s) THEN doc.rev ELSE marker[s].warned
              /\ UNCHANGED count \/ (Fault /\ UNCHANGED warnings)
           \/ n.warned = marker[s].warned /\ Fault
  <2>1. CASE marker' = [marker EXCEPT ![s] = a] /\ (UNCHANGED count \/ (Fault /\ UNCHANGED warnings))
    BY <2>1, <1>6
  <2>2. CASE marker' = [marker EXCEPT ![s] = m] /\ Fault
    BY <2>2, <1>3
  <2>. QED  BY <2>1, <2>2, <1>2 DEF a
<1>. QED  BY <1>2, <1>5, <1>7

\* A prompt warns at most once more, of a revision the session was not warned of.
LEMMA PromptInv ==
  ASSUME DeliveryInv, NEW h \in Hooks, NEW s \in Sessions, Prompt(h, s)
  PROVE  DeliveryInv'
<1>1. NoticeInv /\ HookTypeOK /\ HeldInv /\ LoadedInv /\ WarnedInv /\ IdleInv
  BY DEF DeliveryInv, HookInv
<1>2. /\ slock[s] = Free
      /\ UNCHANGED <<mode, actions, live, enrolled, rev, debt, executed, doc, lock, proc, mine, said, ran,
                     crossed, open, daemon, slock, hook>>
      /\ \/ UNCHANGED warnings
         \/ /\ Drifted(s) /\ marker[s].warned # doc.rev
            /\ warnings' = [warnings EXCEPT ![s][doc.rev] = @ + 1]
  BY PromptEffect
<1>3. PICK m \in Markers :
        /\ marker' = [marker EXCEPT ![s] = m]
        /\ m.consumed = marker[s].consumed
        /\ \/ /\ m.warned = IF Drifted(s) THEN doc.rev ELSE marker[s].warned
              /\ UNCHANGED count \/ (Fault /\ UNCHANGED warnings)
           \/ m.warned = marker[s].warned /\ Fault
  BY PromptEffect
<1>4. count' \in [edits : 0..MaxEdits, faults : 0..MaxFaults]
  BY <1>1, <1>3, FaultType DEF NoticeInv, NoticeTypeOK
<1>5. NoticeInv'
  BY <1>1, <1>2, <1>4, CountedInv
<1>6. /\ marker' \in [Sessions -> Markers] /\ marker'[s] = m
      /\ \A t \in Sessions \ {s} : marker'[t] = marker[t]
  BY <1>1, <1>3 DEF HookTypeOK
<1>7. Drifted(s) => /\ doc.rev \in Revs /\ doc.rev <= rev /\ marker[s].warned <= doc.rev
                    /\ doc # NoDoc /\ doc.kind = "chain"
  BY <1>1 DEF Drifted, NoticeInv, NoticeTypeOK, OrderInv, WarnedInv, Docs
<1>8. /\ \A t \in Sessions : warnings'[t] \in [Revs -> Nat]
      /\ \A t \in Sessions \ {s} : warnings'[t] = warnings[t]
      /\ \A r \in Revs : warnings'[s][r] = warnings[s][r]
            \/ (Drifted(s) /\ marker[s].warned # doc.rev /\ r = doc.rev /\ warnings'[s][r] = warnings[s][r] + 1)
      /\ warnings' \in [Sessions -> [Revs -> Nat]]
  <2> DEFINE w == [warnings[s] EXCEPT ![doc.rev] = @ + 1]
  <2>1. warnings \in [Sessions -> [Revs -> Nat]] /\ warnings[s] \in [Revs -> Nat]
    BY <1>1 DEF HookTypeOK
  <2>2. CASE UNCHANGED warnings
    BY <2>1, <2>2
  <2>3. CASE /\ Drifted(s) /\ marker[s].warned # doc.rev
             /\ warnings' = [warnings EXCEPT ![s][doc.rev] = @ + 1]
    <3>1. warnings' = [warnings EXCEPT ![s] = w]
      BY <2>3
    <3>2. /\ w \in [Revs -> Nat] /\ w[doc.rev] = warnings[s][doc.rev] + 1
          /\ \A r \in Revs \ {doc.rev} : w[r] = warnings[s][r]
      BY <2>1, <2>3, <1>7
    <3> HIDE DEF w
    <3>. QED  BY <3>1, <3>2, <2>1, <2>3
  <2>. QED  BY <2>2, <2>3, <1>2
<1>9. HookTypeOK' /\ IdleInv'
  BY <1>1, <1>2, <1>6, <1>8 DEF HookTypeOK, IdleInv
<1>10. HeldInv'
  BY <1>1, <1>2, <1>6, FreeLock, HolderAlone DEF HeldInv
<1>11. LoadedInv'
  BY <1>1, <1>2, <1>3, <1>6 DEF LoadedInv
<1>12. WarnedInv'
  <2>1. /\ count.faults \in Nat /\ count'.faults \in Nat
        /\ count' = count \/ count'.faults = count.faults + 1
    BY <1>1, <1>3, <1>4 DEF NoticeInv, NoticeTypeOK, Fault
  <2>2. rev \in Nat /\ doc' = doc /\ rev' = rev
    BY <1>1, <1>2 DEF NoticeInv, NoticeTypeOK, Revs
  <2>3. ASSUME NEW t \in Sessions \ {s}, NEW r \in Revs
        PROVE  warnings'[t][r] <= count'.faults + IF r <= marker'[t].warned THEN 1 ELSE 0
    <3>1. warnings[t][r] \in Nat
      BY <1>1, SessionType
    <3>. QED  BY <2>1, <3>1, <1>1, <1>6, <1>8 DEF WarnedInv
  <2>4. ASSUME NEW r \in Revs
        PROVE  warnings'[s][r] <= count'.faults + IF r <= marker'[s].warned THEN 1 ELSE 0
    <3>1. /\ warnings[s][r] \in Nat /\ marker[s].warned \in Nat /\ r \in Nat
          /\ warnings[s][r] <= count.faults + IF r <= marker[s].warned THEN 1 ELSE 0
      <4>1. warnings[s][r] \in Nat /\ marker[s].warned \in Nat /\ r \in Nat
        <5>1. warnings[s] \in [Revs -> Nat] /\ marker[s].warned \in Nat
          BY <1>1, SessionType
        <5>2. r \in Nat
          BY DEF Revs
        <5>. QED  BY <5>1, <5>2
      <4>2. warnings[s][r] <= count.faults + IF r <= marker[s].warned THEN 1 ELSE 0
        BY <1>1 DEF WarnedInv
      <4>. QED  BY <4>1, <4>2
    <3>2. Drifted(s) => doc.rev \in Nat /\ marker[s].warned <= doc.rev
      BY <1>7 DEF Revs
    <3>3. CASE warnings'[s][r] = warnings[s][r]
      BY <3>1, <3>2, <3>3, <2>1, <1>3, <1>6
    <3>4. CASE /\ Drifted(s) /\ marker[s].warned # doc.rev /\ r = doc.rev
               /\ warnings'[s][r] = warnings[s][r] + 1
      <4>1. warnings[s][r] <= count.faults
        BY <3>1, <3>2, <3>4, <2>1
      <4>2. count' # count \/ m.warned = doc.rev
        BY <3>4, <2>1, <1>3, <1>1 DEF Fault, NoticeInv, NoticeTypeOK
      <4>. QED  BY <4>1, <4>2, <3>1, <3>2, <3>4, <2>1, <1>6
    <3>. QED  BY <3>3, <3>4, <1>8
  <2>5. /\ marker'[s].warned <= rev'
        /\ doc' # NoDoc /\ doc'.kind = "chain" => marker'[s].warned <= doc'.rev
    <3>1. m.warned \in {marker[s].warned} \/ (Drifted(s) /\ m.warned = doc.rev)
      BY <1>3
    <3>2. Drifted(s) => doc.rev <= doc.rev
      BY <1>7 DEF Revs
    <3>. QED  BY <3>1, <3>2, <2>2, <1>1, <1>6, <1>7 DEF WarnedInv
  <2>6. \A t \in Sessions \ {s} :
          /\ marker'[t].warned <= rev'
          /\ doc' # NoDoc /\ doc'.kind = "chain" => marker'[t].warned <= doc'.rev
    BY <2>2, <1>1, <1>6 DEF WarnedInv
  <2>. QED  BY <2>3, <2>4, <2>5, <2>6 DEF WarnedInv
<1>. QED  BY <1>5, <1>9, <1>10, <1>11, <1>12 DEF DeliveryInv, HookInv

\* A hook that goes on in its session, or ends: it holds the lock of the session or gives
\* it up if it has it.
LEMMA HookStepType ==
  ASSUME HookTypeOK, NEW h \in Hooks, NEW s \in Sessions, hook[h] # Quiet, hook[h].s = s,
         NEW job \in HookJobs \cup {Quiet}, HookGoto(h, job),
         job = Quiet \/ (job.pc \in Holding /\ job.s = s /\ slock[s] \in {Free, h}),
         slock' = IF job # Quiet THEN [slock EXCEPT ![s] = h]
                  ELSE IF slock[s] = h THEN [slock EXCEPT ![s] = Free] ELSE slock,
         open' = open, warnings' = warnings,
         marker' \in [Sessions -> Markers], daemon' \in [Sessions -> Daemons]
  PROVE  HookTypeOK' /\ hook'[h] = job /\ \A g \in Hooks \ {h} : hook'[g] = hook[g]
<1>1. /\ hook' \in [Hooks -> HookJobs \cup {Quiet}] /\ hook'[h] = job
      /\ \A g \in Hooks \ {h} : hook'[g] = hook[g]
  BY DEF HookTypeOK, HookGoto
<1>2. /\ slock' \in [Sessions -> Hooks \cup {Free}]
      /\ slock'[s] = IF job # Quiet THEN h ELSE IF slock[s] = h THEN Free ELSE slock[s]
      /\ \A t \in Sessions \ {s} : slock'[t] = slock[t]
  BY DEF HookTypeOK
<1>3. job.pc \in Holding => job.pc \notin {"idle", "lock"}
  BY DEF Holding
<1>4. Quiet.pc = "idle"
  BY DEF Quiet
<1>5. ASSUME NEW t \in Sessions, NEW g \in Hooks
      PROVE  slock'[t] = g <=> (hook'[g].pc \notin {"idle", "lock"} /\ hook'[g].s = t)
  <2>1. slock[t] = g <=> (hook[g].pc \notin {"idle", "lock"} /\ hook[g].s = t)
    BY DEF HookTypeOK
  <2>2. CASE g = h /\ t = s
    BY <2>1, <2>2, <1>1, <1>2, <1>3, <1>4, HookAssumption
  <2>3. CASE g = h /\ t # s
    BY <2>1, <2>3, <1>1, <1>2, <1>3, <1>4
  <2>4. CASE g # h /\ t = s
    BY <2>1, <2>4, <1>1, <1>2, HookAssumption
  <2>5. CASE g # h /\ t # s
    BY <2>1, <2>5, <1>1, <1>2
  <2>. QED  BY <2>2, <2>3, <2>4, <2>5
<1>6. HookTypeOK'
  BY <1>1, <1>2, <1>5 DEF HookTypeOK
<1>. QED  BY <1>1, <1>6

\* The start of post_model_turn: the notice is read, which is of no later revision than the
\* state.
LEMMA TurnHookInv ==
  ASSUME DeliveryInv, NEW h \in Hooks, NEW s \in Sessions, TurnHook(h, s)
  PROVE  DeliveryInv'
<1> DEFINE job == [pc |-> "lock", s |-> s, rev |-> doc.rev]
<1>1. NoticeInv /\ HookTypeOK /\ HeldInv /\ LoadedInv /\ WarnedInv /\ IdleInv
  BY DEF DeliveryInv, HookInv
<1>2. /\ hook[h] = Quiet /\ doc # NoDoc /\ hook' = [hook EXCEPT ![h] = job]
      /\ UNCHANGED <<nvars, open, marker, daemon, slock, warnings>>
  BY DEF TurnHook, HookGoto
<1>3. doc.rev \in Revs /\ doc.rev <= rev
  BY <1>1, <1>2 DEF NoticeInv, NoticeTypeOK, OrderInv, Docs
<1>4. job \in HookJobs /\ job.pc = "lock" /\ job.rev = doc.rev /\ Quiet.pc = "idle"
  BY <1>3 DEF HookJobs, Quiet
<1> HIDE DEF job
<1>5. /\ hook' \in [Hooks -> HookJobs \cup {Quiet}] /\ hook'[h] = job
      /\ \A g \in Hooks \ {h} : hook'[g] = hook[g]
  BY <1>1, <1>2, <1>4 DEF HookTypeOK
<1>6. \A g \in Hooks : hook'[g].pc \notin {"idle", "lock"} => hook'[g] = hook[g]
  BY <1>4, <1>5
<1>7. NoticeInv'
  BY <1>1, <1>2, NoticeNextInv
<1>8. HookTypeOK'
  <2>1. ASSUME NEW t \in Sessions, NEW g \in Hooks
        PROVE  slock'[t] = g <=> (hook'[g].pc \notin {"idle", "lock"} /\ hook'[g].s = t)
    BY <1>1, <1>2, <1>4, <1>5 DEF HookTypeOK
  <2>. QED  BY <2>1, <1>1, <1>2, <1>5 DEF HookTypeOK
<1>9. HeldInv' /\ IdleInv'
  BY <1>1, <1>2, <1>6 DEF HeldInv, IdleInv, Holding
<1>10. UNCHANGED <<rev, doc, count>>
  BY <1>2 DEF nvars
<1>11. LoadedInv' /\ WarnedInv'
  BY <1>1, <1>2, <1>3, <1>4, <1>5, <1>10 DEF LoadedInv, WarnedInv
<1>. QED  BY <1>7, <1>8, <1>9, <1>11 DEF DeliveryInv, HookInv

\* A hook that ends without a mark has changed nothing but a baseline.
LEMMA HookEndsInv ==
  ASSUME DeliveryInv, NEW h \in Hooks, hook[h] # Quiet, HookGoto(h, Quiet),
         slock' = IF slock[hook[h].s] = h THEN [slock EXCEPT ![hook[h].s] = Free] ELSE slock,
         NoticeInv', UNCHANGED <<rev, doc, open, daemon, warnings>>, count'.faults >= count.faults,
         marker' \in [Sessions -> Markers],
         \A s \in Sessions : /\ marker'[s] # marker[s] => slock[s] = Free
                             /\ marker'[s].consumed = marker[s].consumed
                             /\ marker'[s].warned = marker[s].warned
  PROVE  DeliveryInv'
<1>1. NoticeInv /\ HookTypeOK /\ HeldInv /\ LoadedInv /\ WarnedInv /\ IdleInv
  BY DEF DeliveryInv, HookInv
<1>2. hook[h].s \in Sessions
  BY <1>1, HookJobType DEF HookTypeOK
<1>3. HookTypeOK' /\ hook'[h] = Quiet /\ \A g \in Hooks \ {h} : hook'[g] = hook[g]
  <2>1. daemon' \in [Sessions -> Daemons]
    BY <1>1 DEF HookTypeOK
  <2>. QED  BY <2>1, <1>1, <1>2, HookStepType
<1>4. Quiet.pc = "idle"
  BY DEF Quiet
<1>5. \A g \in Hooks : hook'[g].pc # "idle" => hook'[g] = hook[g]
  BY <1>3, <1>4
<1>6. HeldInv'
  <2> SUFFICES ASSUME NEW g \in Hooks, hook[g].pc \in Holding, hook'[g] = hook[g]
               PROVE  hook[g].m = marker'[hook[g].s] /\ hook[g].rev > hook[g].m.consumed
    BY <1>5 DEF HeldInv, Holding
  <2>1. slock[hook[g].s] = g /\ hook[g].s \in Sessions
    BY <1>1, HolderAlone
  <2>2. marker'[hook[g].s] = marker[hook[g].s]
    BY <2>1, HookAssumption
  <2>. QED  BY <2>2, <1>1 DEF HeldInv
<1>7. LoadedInv' /\ IdleInv'
  BY <1>1, <1>5 DEF LoadedInv, IdleInv
<1>8. WarnedInv'
  <2>1. count.faults \in Nat /\ count'.faults \in Nat
    BY <1>1 DEF NoticeInv, NoticeTypeOK
  <2>2. ASSUME NEW s \in Sessions, NEW r \in Revs
        PROVE  warnings'[s][r] <= count'.faults + IF r <= marker'[s].warned THEN 1 ELSE 0
    <3>1. warnings[s] \in [Revs -> Nat]
      BY <1>1, SessionType
    <3>. QED  BY <2>1, <3>1, <1>1 DEF WarnedInv
  <2>. QED  BY <2>2, <1>1 DEF WarnedInv
<1>. QED  BY <1>1, <1>3, <1>6, <1>7, <1>8 DEF DeliveryInv, HookInv

\* Any failure of a hook.
LEMMA TurnFailsInv ==
  ASSUME DeliveryInv, NEW h \in Hooks, TurnFails(h)
  PROVE  DeliveryInv'
<1>1. NoticeInv /\ HookTypeOK
  BY DEF DeliveryInv, HookInv
<1>2. /\ hook[h] # Quiet /\ Fault /\ HookGoto(h, Quiet)
      /\ slock' = IF slock[hook[h].s] = h THEN [slock EXCEPT ![hook[h].s] = Free] ELSE slock
      /\ UNCHANGED <<mode, actions, live, enrolled, rev, debt, executed, doc, lock, proc, mine, said, ran,
                     crossed, open, marker, daemon, warnings>>
  BY DEF TurnFails, Release
<1>3. NoticeInv'
  BY <1>1, <1>2, FaultType, CountedInv DEF NoticeInv
<1>4. count'.faults >= count.faults
  BY <1>1, <1>2 DEF Fault, NoticeInv, NoticeTypeOK
<1>5. marker' \in [Sessions -> Markers]
  BY <1>1, <1>2 DEF HookTypeOK
<1>. QED  BY <1>2, <1>3, <1>4, <1>5, HookEndsInv

\* A hook that holds the lock goes on, and so does its daemon: what is said of the turn and
\* of what was loaded is true.
LEMMA HookContinuesInv ==
  ASSUME DeliveryInv, NEW h \in Hooks, hook[h].pc \in Holding,
         NEW job \in HookJobs, job.pc \in Holding,
         job.s = hook[h].s, job.rev = hook[h].rev, job.m = hook[h].m, HookGoto(h, job),
         UNCHANGED <<nvars, open, marker, slock, warnings>>,
         daemon' \in [Sessions -> Daemons],
         \A s \in Sessions : /\ s # hook[h].s => daemon'[s] = daemon[s]
                             /\ daemon'[s].turn = daemon[s].turn
                             /\ daemon'[s] = daemon[s] \/ daemon'[s].queued \/ daemon'[s].loaded = rev,
         job.pc = "reload" /\ job.quiet => ~daemon[job.s].turn,
         job.pc = "mark" => daemon'[job.s].queued \/ daemon'[job.s].loaded = rev
  PROVE  DeliveryInv'
<1>1. NoticeInv /\ HookTypeOK /\ HeldInv /\ LoadedInv /\ WarnedInv /\ IdleInv
  BY DEF DeliveryInv, HookInv
<1>2. /\ hook[h].s \in Sessions /\ slock[hook[h].s] = h
      /\ \A g \in Hooks \ {h} : hook[g].pc \in Holding => hook[g].s # hook[h].s /\ hook[g].s \in Sessions
  BY <1>1, HolderAlone
<1>3. NoticeInv' /\ UNCHANGED <<rev, doc, count>>
  BY <1>1, NoticeNextInv DEF nvars
<1>4. HookTypeOK' /\ hook'[h] = job /\ \A g \in Hooks \ {h} : hook'[g] = hook[g]
  <2>1. marker' \in [Sessions -> Markers] /\ slock \in [Sessions -> Hooks \cup {Free}]
    BY <1>1 DEF HookTypeOK
  <2>2. slock' = [slock EXCEPT ![hook[h].s] = h]
    BY <2>1, <1>2
  <2>3. hook[h] # Quiet /\ job # Quiet
    BY DEF Holding, Quiet
  <2> DEFINE s == hook[h].s
  <2>4. /\ s \in Sessions /\ hook[h].s = s /\ job.s = s /\ slock[s] = h /\ slock' = [slock EXCEPT ![s] = h]
        /\ open' = open /\ warnings' = warnings
    BY <2>2, <1>2
  <2> HIDE DEF s
  <2>. QED  BY <2>1, <2>3, <2>4, <1>1, HookStepType
<1>5. HeldInv'
  BY <1>1, <1>4 DEF HeldInv
<1>6. IdleInv'
  BY <1>1, <1>2, <1>4 DEF IdleInv, Holding
<1>7. LoadedInv'
  <2>1. ASSUME NEW s \in Sessions
        PROVE  marker'[s].consumed <= rev' /\ (daemon'[s].queued \/ daemon'[s].loaded >= marker'[s].consumed)
    <3>1. marker[s].consumed <= rev /\ (daemon[s].queued \/ daemon[s].loaded >= marker[s].consumed)
      BY <1>1 DEF LoadedInv
    <3>2. marker[s].consumed \in Nat /\ rev \in Nat
      BY <1>1, SessionType DEF NoticeInv, NoticeTypeOK, Revs
    <3>. QED  BY <3>1, <3>2, <1>3
  <2>2. ASSUME NEW g \in Hooks \ {h}
        PROVE  /\ hook'[g].pc # "idle" => hook'[g].rev <= rev'
               /\ hook'[g].pc = "mark" =>
                    daemon'[hook'[g].s].queued \/ daemon'[hook'[g].s].loaded >= hook'[g].rev
    BY <1>1, <1>2, <1>3, <1>4 DEF LoadedInv, Holding
  <2>3. /\ hook'[h].pc # "idle" => hook'[h].rev <= rev'
        /\ hook'[h].pc = "mark" =>
             daemon'[hook'[h].s].queued \/ daemon'[hook'[h].s].loaded >= hook'[h].rev
    <3>1. hook[h].rev <= rev
      BY <1>1 DEF LoadedInv, Holding
    <3>2. hook[h].rev \in Revs /\ rev \in Revs
      BY <1>1, HolderAlone DEF NoticeInv, NoticeTypeOK
    <3>. QED  BY <3>1, <3>2, <1>3, <1>4 DEF Revs
  <2>. QED  BY <2>1, <2>2, <2>3 DEF LoadedInv
<1>8. WarnedInv'
  BY <1>1, <1>3 DEF WarnedInv
<1>. QED  BY <1>3, <1>4, <1>5, <1>6, <1>7, <1>8 DEF DeliveryInv, HookInv

\* A hook that holds the lock ends and gives it up.
LEMMA HookReleasesInv ==
  ASSUME DeliveryInv, NEW h \in Hooks, hook[h].pc \in Holding, HookGoto(h, Quiet), Release(h),
         UNCHANGED <<nvars, open, marker, daemon, warnings>>
  PROVE  DeliveryInv'
<1>1. NoticeInv /\ HookTypeOK
  BY DEF DeliveryInv, HookInv
<1>2. hook[h] # Quiet /\ slock' = IF slock[hook[h].s] = h THEN [slock EXCEPT ![hook[h].s] = Free] ELSE slock
  BY <1>1, HolderAlone DEF Release, Holding, Quiet
<1>3. NoticeInv' /\ UNCHANGED <<rev, doc, count>> /\ count'.faults >= count.faults
  BY <1>1, NoticeNextInv DEF nvars, NoticeInv, NoticeTypeOK
<1>4. marker' \in [Sessions -> Markers]
  BY <1>1 DEF HookTypeOK
<1>. QED  BY <1>2, <1>3, <1>4, HookEndsInv

\* lockState, readState, ensureBaseline and the comparisons.
LEMMA TurnLockInv ==
  ASSUME DeliveryInv, NEW h \in Hooks, TurnLock(h)
  PROVE  DeliveryInv'
<1> DEFINE s == hook[h].s  r == hook[h].rev  m == Baseline(marker[s], r)
           job == [pc |-> "check", s |-> s, rev |-> r, m |-> m, quiet |-> FALSE]
<1>1. NoticeInv /\ HookTypeOK /\ HeldInv /\ LoadedInv /\ WarnedInv /\ IdleInv
  BY DEF DeliveryInv, HookInv
<1>2. /\ hook[h].pc = "lock" /\ UNCHANGED <<nvars, open, daemon, warnings>>
      /\ \/ /\ HookGoto(h, Quiet) /\ UNCHANGED slock
            /\ IF slock[s] = Free THEN marker' = [marker EXCEPT ![s] = m] ELSE UNCHANGED marker
         \/ /\ slock[s] = Free /\ Stale(m, r) /\ HookGoto(h, job)
            /\ marker' = [marker EXCEPT ![s] = m] /\ slock' = [slock EXCEPT ![s] = h]
  BY DEF TurnLock, At
<1>3. /\ s \in Sessions /\ r \in Revs /\ hook[h] # Quiet
  <2>1. hook[h] \in HookJobs \cup {Quiet}
    BY <1>1 DEF HookTypeOK
  <2>. QED  BY <2>1, <1>2, HookJobType
<1>4. m \in Markers /\ m.consumed = marker[s].consumed /\ m.warned = marker[s].warned
  <2>1. marker[s] \in Markers
    BY <1>1, <1>3, SessionType
  <2>. QED  BY <2>1, <1>3, BaselineType
<1>5. /\ job \in HookJobs /\ job.pc = "check" /\ job.s = s /\ job.rev = r /\ job.m = m
  BY <1>3, <1>4 DEF HookJobs
<1>6. NoticeInv' /\ UNCHANGED <<rev, doc, count>> /\ count'.faults >= count.faults
  BY <1>1, <1>2, NoticeNextInv DEF nvars, NoticeInv, NoticeTypeOK
<1>7. slock[s] # h
  BY <1>1, <1>2, <1>3 DEF HookTypeOK
<1>8. Stale(m, r) => r > m.consumed
  BY DEF Stale
<1>9. marker \in [Sessions -> Markers]
  BY <1>1 DEF HookTypeOK
<1> HIDE DEF m, job, r
<1>10. CASE HookGoto(h, Quiet) /\ UNCHANGED slock
  <2>1. /\ marker' \in [Sessions -> Markers]
        /\ \A t \in Sessions : /\ marker'[t] # marker[t] => slock[t] = Free
                               /\ marker'[t].consumed = marker[t].consumed
                               /\ marker'[t].warned = marker[t].warned
    <3>1. (marker' = [marker EXCEPT ![s] = m] /\ slock[s] = Free) \/ UNCHANGED marker
      BY <1>2, <1>10
    <3>. QED  BY <3>1, <1>3, <1>4, <1>9
  <2>. QED  BY <2>1, <1>2, <1>3, <1>6, <1>7, <1>10, HookEndsInv
<1>11. CASE /\ slock[s] = Free /\ Stale(m, r) /\ HookGoto(h, job)
            /\ marker' = [marker EXCEPT ![s] = m] /\ slock' = [slock EXCEPT ![s] = h]
  <2>1. /\ marker' \in [Sessions -> Markers] /\ marker'[s] = m
        /\ \A t \in Sessions \ {s} : marker'[t] = marker[t]
    BY <1>3, <1>4, <1>9, <1>11
  <2>2. HookTypeOK' /\ hook'[h] = job /\ \A g \in Hooks \ {h} : hook'[g] = hook[g]
    <3>1. job # Quiet /\ job.pc \in Holding
      BY <1>5 DEF Quiet, Holding
    <3>2. daemon' \in [Sessions -> Daemons]
      BY <1>1, <1>2 DEF HookTypeOK
    <3>. QED  BY <3>1, <3>2, <2>1, <1>1, <1>2, <1>3, <1>5, <1>11, HookStepType
  <2>3. HeldInv'
    <3> SUFFICES ASSUME NEW g \in Hooks, hook'[g].pc \in Holding
                 PROVE  hook'[g].m = marker'[hook'[g].s] /\ hook'[g].rev > hook'[g].m.consumed
      BY DEF HeldInv
    <3>1. CASE g = h
      BY <3>1, <2>1, <2>2, <1>5, <1>8, <1>11
    <3>2. CASE g # h
      <4>1. hook[g].s \in Sessions \ {s}
        BY <3>2, <2>2, <1>1, <1>3, <1>11, FreeLock, HolderAlone
      <4>. QED  BY <3>2, <4>1, <2>1, <2>2, <1>1 DEF HeldInv
    <3>. QED  BY <3>1, <3>2
  <2>4. IdleInv'
    BY <2>2, <1>1, <1>2, <1>5 DEF IdleInv
  <2>5. LoadedInv'
    BY <2>1, <2>2, <1>1, <1>2, <1>4, <1>5, <1>6 DEF LoadedInv, r
  <2>6. WarnedInv'
    BY <2>1, <1>1, <1>2, <1>4, <1>6 DEF WarnedInv
  <2>. QED  BY <2>2, <2>3, <2>4, <2>5, <2>6, <1>6 DEF DeliveryInv, HookInv
<1>. QED  BY <1>2, <1>10, <1>11

\* daemonIdle and authorityIdle: the daemon is asked, and the hook goes on only when it has
\* no turn in flight.
LEMMA CheckInv ==
  ASSUME DeliveryInv, NEW h \in Hooks, CheckIdle(h) \/ CheckSummary(h)
  PROVE  DeliveryInv'
<1> DEFINE s == hook[h].s
           pc == IF CheckIdle(h) /\ Activity(s) # "idle" THEN "summary" ELSE "reload"
           job == [hook[h] EXCEPT !.pc = pc, !.quiet = TRUE]
<1>1. NoticeInv /\ HookTypeOK
  BY DEF DeliveryInv, HookInv
<1>2. hook[h].pc \in Holding /\ UNCHANGED <<nvars, open, marker, daemon, warnings>>
  BY DEF CheckIdle, CheckSummary, At, Holding
<1>3. hook[h] \in HookJobs /\ s \in Sessions /\ hook[h].quiet \in BOOLEAN
  BY <1>1, <1>2, HolderAlone
<1>4. \/ HookGoto(h, Quiet) /\ Release(h)
      \/ HookGoto(h, job) /\ UNCHANGED slock /\ (pc = "reload" => ~daemon[s].turn)
  <2>1. daemon[s].turn \in BOOLEAN
    BY <1>1, <1>3, SessionType
  <2>2. CASE CheckIdle(h)
    BY <2>1, <2>2 DEF CheckIdle, Activity
  <2>3. CASE CheckSummary(h) /\ ~CheckIdle(h)
    <3>1. \/ HookGoto(h, Quiet) /\ Release(h)
          \/ /\ hook[h].quiet /\ ~daemon[s].turn
             /\ HookGoto(h, [hook[h] EXCEPT !.pc = "reload"]) /\ UNCHANGED slock
      BY <2>3 DEF CheckSummary
    <3>2. hook[h].quiet => [hook[h] EXCEPT !.pc = "reload"] = job
      BY <2>3, <1>2, <1>3 DEF HookJobs, Holding
    <3>. QED  BY <3>1, <3>2, <2>3
  <2>. QED  BY <2>2, <2>3
<1>5. /\ job \in HookJobs /\ job.pc = pc /\ job.quiet /\ job.s = s /\ job.rev = hook[h].rev /\ job.m = hook[h].m
      /\ pc \in Holding /\ pc # "mark"
  <2>1. pc \in Holding /\ pc # "mark"
    BY DEF Holding
  <2> HIDE DEF pc
  <2>. QED  BY <2>1, <1>2, <1>3, HeldJobType
<1> HIDE DEF job, pc
<1>6. CASE HookGoto(h, Quiet) /\ Release(h)
  BY <1>2, <1>6, HookReleasesInv
<1>7. CASE HookGoto(h, job) /\ UNCHANGED slock /\ (pc = "reload" => ~daemon[s].turn)
  <2>1. daemon' \in [Sessions -> Daemons]
    BY <1>1, <1>2 DEF HookTypeOK
  <2>. QED  BY <2>1, <1>2, <1>5, <1>7, HookContinuesInv
<1>. QED  BY <1>4, <1>6, <1>7

\* postReload: the daemon has read the state's revision, queued the reload or refused it.
LEMMA ReloadInv ==
  ASSUME DeliveryInv, NEW h \in Hooks, Reload(h)
  PROVE  DeliveryInv'
<1> DEFINE s == hook[h].s
           job == [hook[h] EXCEPT !.pc = "mark"]
<1>1. NoticeInv /\ HookTypeOK
  BY DEF DeliveryInv, HookInv
<1>2. hook[h].pc \in Holding /\ UNCHANGED <<nvars, open, marker, warnings>>
  BY DEF Reload, At, Holding
<1>3. hook[h] \in HookJobs /\ s \in Sessions /\ hook[h].quiet \in BOOLEAN
  BY <1>1, <1>2, HolderAlone
<1>4. /\ job \in HookJobs /\ job.pc = "mark" /\ job.s = s /\ job.rev = hook[h].rev /\ job.m = hook[h].m
      /\ job.pc \in Holding
  <2> DEFINE j == hook[h]
  <2>1. j \in HookJobs /\ j.pc \in Holding /\ job = [j EXCEPT !.pc = "mark"]
    BY <1>2, <1>3
  <2> HIDE DEF job, j
  <2>2. /\ job \in HookJobs /\ job.pc = "mark" /\ job.s = j.s /\ job.rev = j.rev /\ job.m = j.m
    BY <2>1 DEF HookJobs, Holding
  <2>. QED  BY <2>2 DEF j, Holding
<1>5. \/ HookGoto(h, Quiet) /\ Release(h) /\ UNCHANGED daemon
      \/ /\ HookGoto(h, job) /\ UNCHANGED slock
         /\ \E d \in Reloaded(s) \cup {[daemon[s] EXCEPT !.queued = TRUE]} : daemon' = [daemon EXCEPT ![s] = d]
  <2>1. Reload(h)
    OBVIOUS
  <2>. QED  BY <2>1 DEF Reload
<1> HIDE DEF job
<1>6. CASE HookGoto(h, Quiet) /\ Release(h) /\ UNCHANGED daemon
  BY <1>2, <1>6, HookReleasesInv
<1>7. CASE /\ HookGoto(h, job) /\ UNCHANGED slock
           /\ \E d \in Reloaded(s) \cup {[daemon[s] EXCEPT !.queued = TRUE]} : daemon' = [daemon EXCEPT ![s] = d]
  <2>1. PICK d \in Reloaded(s) \cup {[daemon[s] EXCEPT !.queued = TRUE]} : daemon' = [daemon EXCEPT ![s] = d]
    BY <1>7
  <2>2. daemon[s] \in Daemons /\ daemon \in [Sessions -> Daemons]
    BY <1>1, <1>3 DEF HookTypeOK
  <2>3. d \in Daemons /\ d.turn = daemon[s].turn /\ (d.queued \/ d.loaded = rev)
    <3>1. CASE d \in Reloaded(s)
      BY <3>1, <1>1, <1>3, ReloadedType DEF NoticeInv
    <3>2. CASE d = [daemon[s] EXCEPT !.queued = TRUE]
      BY <3>2, <2>2 DEF Daemons
    <3>. QED  BY <3>1, <3>2
  <2>4. /\ daemon' \in [Sessions -> Daemons] /\ daemon'[s] = d
        /\ \A t \in Sessions \ {s} : daemon'[t] = daemon[t]
    BY <2>1, <2>2, <2>3, <1>3
  <2>. QED  BY <2>3, <2>4, <1>2, <1>4, <1>7, HookContinuesInv
<1>. QED  BY <1>5, <1>6, <1>7

\* The revision is consumed: it is newer, and the daemon has read it or queued the reload.
LEMMA MarkInv ==
  ASSUME DeliveryInv, NEW h \in Hooks, Mark(h)
  PROVE  DeliveryInv'
<1> DEFINE s == hook[h].s
           m == [hook[h].m EXCEPT !.consumed = hook[h].rev]
<1>1. NoticeInv /\ HookTypeOK /\ HeldInv /\ LoadedInv /\ WarnedInv /\ IdleInv
  BY DEF DeliveryInv, HookInv
<1>2. /\ hook[h].pc = "mark" /\ marker' = [marker EXCEPT ![s] = m]
      /\ HookGoto(h, Quiet) /\ slock' = [slock EXCEPT ![s] = Free]
      /\ UNCHANGED <<nvars, open, daemon, warnings>>
  BY DEF Mark, At, Release
<1>3. hook[h].pc \in Holding
  BY <1>2 DEF Holding
<1>4. /\ s \in Sessions /\ hook[h].rev \in Revs /\ hook[h].m \in Markers /\ slock[s] = h
      /\ hook[h].m = marker[s]
      /\ \A g \in Hooks \ {h} : hook[g].pc \in Holding => hook[g].s \in Sessions \ {s}
  BY <1>1, <1>3, HolderAlone DEF HeldInv
<1>5. m \in Markers /\ m.consumed = hook[h].rev /\ m.warned = marker[s].warned
  BY <1>4 DEF Markers
<1> HIDE DEF m
<1>6. /\ marker' \in [Sessions -> Markers] /\ marker'[s] = m
      /\ \A t \in Sessions \ {s} : marker'[t] = marker[t]
  BY <1>1, <1>2, <1>4, <1>5 DEF HookTypeOK
<1>7. NoticeInv' /\ UNCHANGED <<rev, doc, count>>
  BY <1>1, <1>2, NoticeNextInv DEF nvars
<1>8. HookTypeOK' /\ hook'[h] = Quiet /\ \A g \in Hooks \ {h} : hook'[g] = hook[g]
  <2>1. daemon' \in [Sessions -> Daemons]
    BY <1>1, <1>2 DEF HookTypeOK
  <2>2. hook[h] # Quiet
    BY <1>2 DEF Quiet
  <2>. QED  BY <2>1, <2>2, <1>1, <1>2, <1>4, <1>6, HookStepType
<1>9. Quiet.pc = "idle" /\ Quiet.pc \notin Holding
  BY DEF Quiet, Holding
<1>10. HeldInv' /\ IdleInv'
  BY <1>1, <1>2, <1>4, <1>6, <1>8, <1>9 DEF HeldInv, IdleInv
<1>11. LoadedInv'
  BY <1>1, <1>2, <1>5, <1>6, <1>7, <1>8, <1>9 DEF LoadedInv
<1>12. WarnedInv'
  BY <1>1, <1>2, <1>5, <1>6, <1>7 DEF WarnedInv
<1>. QED  BY <1>7, <1>8, <1>10, <1>11, <1>12 DEF DeliveryInv, HookInv

-----------------------------------------------------------------------------
(***************************************************************************)
(* The daemon.                                                             *)
(***************************************************************************)
\* A session starts: its daemon reads the configuration of the state's revision.
LEMMA OpensInv ==
  ASSUME DeliveryInv, NEW s \in Sessions, Opens(s)
  PROVE  DeliveryInv'
<1> DEFINE d == [daemon[s] EXCEPT !.loaded = rev]
<1>1. NoticeInv /\ HookTypeOK /\ HeldInv /\ LoadedInv /\ WarnedInv /\ IdleInv
  BY DEF DeliveryInv, HookInv
<1>2. /\ open' = open \cup {s} /\ daemon' = [daemon EXCEPT ![s] = d]
      /\ UNCHANGED <<nvars, marker, slock, hook, warnings>>
  BY DEF Opens
<1>3. NoticeInv' /\ UNCHANGED <<rev, doc, count>> /\ rev \in Revs
  BY <1>1, <1>2, NoticeNextInv DEF nvars, NoticeInv, NoticeTypeOK
<1>4. daemon[s] \in Daemons /\ daemon \in [Sessions -> Daemons]
  BY <1>1 DEF HookTypeOK
<1>5. d \in Daemons /\ d.loaded = rev /\ d.turn = daemon[s].turn
  BY <1>3, <1>4 DEF Daemons
<1> HIDE DEF d
<1>6. /\ daemon' \in [Sessions -> Daemons] /\ daemon'[s] = d
      /\ \A t \in Sessions \ {s} : daemon'[t] = daemon[t]
  BY <1>2, <1>4, <1>5
<1>7. HookTypeOK' /\ HeldInv' /\ WarnedInv'
  BY <1>1, <1>2, <1>3, <1>6 DEF HookTypeOK, HeldInv, WarnedInv
<1>8. \A h \in Hooks : hook[h].pc # "idle" => hook[h].s \in Sessions
  BY <1>1, HookJobType DEF HookTypeOK
<1>9. IdleInv' /\ LoadedInv'
  BY <1>1, <1>2, <1>3, <1>5, <1>6, <1>8 DEF IdleInv, LoadedInv
<1>. QED  BY <1>3, <1>7, <1>9 DEF DeliveryInv, HookInv

\* A hook whose daemon has changed has read and does what it did.
LEMMA NoticedType ==
  ASSUME HookTypeOK, NEW s \in Sessions, Noticed(s)
  PROVE  /\ hook' \in [Hooks -> HookJobs \cup {Quiet}]
         /\ \A h \in Hooks :
              /\ hook'[h].pc = hook[h].pc
              /\ hook[h].pc # "idle" => hook'[h].s = hook[h].s /\ hook'[h].rev = hook[h].rev
              /\ hook[h].pc \in Holding => hook'[h].m = hook[h].m
              /\ hook[h].pc \in Holding => hook'[h].quiet = IF hook[h].s = s THEN FALSE ELSE hook[h].quiet
<1>1. ASSUME NEW h \in Hooks
      PROVE  /\ hook'[h] \in HookJobs \cup {Quiet}
             /\ hook'[h].pc = hook[h].pc
             /\ hook[h].pc # "idle" => hook'[h].s = hook[h].s /\ hook'[h].rev = hook[h].rev
             /\ hook[h].pc \in Holding => hook'[h].m = hook[h].m
             /\ hook[h].pc \in Holding => hook'[h].quiet = IF hook[h].s = s THEN FALSE ELSE hook[h].quiet
  <2> DEFINE j == hook[h]  k == [j EXCEPT !.quiet = FALSE]
  <2>1. hook'[h] = IF j # Quiet /\ j.pc # "lock" /\ j.s = s THEN k ELSE j
    BY DEF Noticed
  <2>2. j \in HookJobs \cup {Quiet}
    BY DEF HookTypeOK
  <2>3. /\ j.pc = "idle" <=> j = Quiet
        /\ j.pc \in {"idle", "lock"} \cup Holding
        /\ j.pc # "idle" => j \in HookJobs
    BY <2>2, HookJobType
  <2>4. CASE j.pc \in Holding
    <3>1. j \in HookJobs /\ j # Quiet /\ j.pc # "lock" /\ j.pc # "idle"
      BY <2>3, <2>4 DEF Holding
    <3>2. k = [j EXCEPT !.pc = j.pc, !.quiet = FALSE]
      BY <3>1, <2>4 DEF HookJobs, Holding
    <3> HIDE DEF j, k
    <3>3. k \in HookJobs /\ k.pc = j.pc /\ k.quiet = FALSE /\ k.s = j.s /\ k.rev = j.rev /\ k.m = j.m
      BY <3>1, <3>2, <2>4, HeldJobType
    <3>4. /\ hook'[h] \in HookJobs \cup {Quiet}
          /\ hook'[h].pc = j.pc /\ hook'[h].s = j.s /\ hook'[h].rev = j.rev /\ hook'[h].m = j.m
          /\ hook'[h].quiet = IF j.s = s THEN FALSE ELSE j.quiet
      BY <3>1, <3>3, <2>1
    <3>. QED  BY <3>1, <3>4, <2>4 DEF j
  <2>5. CASE j.pc \notin Holding
    <3>1. hook'[h] = j
      BY <2>1, <2>3, <2>5
    <3>. QED  BY <3>1, <2>2, <2>5
  <2>. QED  BY <2>4, <2>5
<1>2. DOMAIN hook' = Hooks /\ hook' = [h \in Hooks |-> hook'[h]]
  BY DEF Noticed
<1>. QED  BY <1>1, <1>2

\* A turn starts or ends, and a queued reload is made good at the end.
LEMMA TurnInv ==
  ASSUME DeliveryInv, NEW s \in Sessions, TurnStarts(s) \/ TurnEnds(s)
  PROVE  DeliveryInv'
<1>1. NoticeInv /\ HookTypeOK /\ HeldInv /\ LoadedInv /\ WarnedInv /\ IdleInv
  BY DEF DeliveryInv, HookInv
<1>2. Noticed(s) /\ UNCHANGED <<nvars, open, marker, slock, warnings>>
  BY DEF TurnStarts, TurnEnds
<1>3. NoticeInv' /\ UNCHANGED <<rev, doc, count>>
  BY <1>1, <1>2, NoticeNextInv DEF nvars
<1>4. daemon[s] \in Daemons /\ daemon \in [Sessions -> Daemons]
  BY <1>1 DEF HookTypeOK
<1>5. \E d \in Daemons : /\ daemon' = [daemon EXCEPT ![s] = d]
                         /\ d.loaded = rev \/ (d.loaded = daemon[s].loaded /\ d.queued = daemon[s].queued)
  <2>1. CASE TurnStarts(s)
    <3> DEFINE d == [daemon[s] EXCEPT !.turn = TRUE]
    <3>1. daemon' = [daemon EXCEPT ![s] = d]
      BY <2>1 DEF TurnStarts
    <3>2. d \in Daemons /\ d.loaded = daemon[s].loaded /\ d.queued = daemon[s].queued
      BY <1>4 DEF Daemons
    <3>. QED  BY <3>1, <3>2
  <2>2. CASE TurnEnds(s)
    <3>1. PICK e \in (IF daemon[s].queued THEN Reloaded(s) ELSE {daemon[s]}) :
            daemon' = [daemon EXCEPT ![s] = [e EXCEPT !.turn = FALSE]]
      BY <2>2 DEF TurnEnds
    <3>2. e \in Daemons /\ (e.loaded = rev \/ e = daemon[s])
      <4>1. CASE daemon[s].queued
        BY <4>1, <3>1, <1>1, ReloadedType DEF NoticeInv
      <4>2. CASE ~daemon[s].queued
        BY <4>2, <3>1, <1>4
      <4>. QED  BY <4>1, <4>2
    <3> DEFINE d == [e EXCEPT !.turn = FALSE]
    <3>3. d \in Daemons /\ d.loaded = e.loaded /\ d.queued = e.queued
      BY <3>2 DEF Daemons
    <3>. QED  BY <3>1, <3>2, <3>3
  <2>. QED  BY <2>1, <2>2
<1>6. PICK d \in Daemons : /\ daemon' = [daemon EXCEPT ![s] = d]
                           /\ d.loaded = rev \/ (d.loaded = daemon[s].loaded /\ d.queued = daemon[s].queued)
  BY <1>5
<1>7. /\ daemon' \in [Sessions -> Daemons] /\ daemon'[s] = d
      /\ \A t \in Sessions \ {s} : daemon'[t] = daemon[t]
  BY <1>4, <1>6
<1>8. /\ hook' \in [Hooks -> HookJobs \cup {Quiet}]
      /\ \A h \in Hooks :
           /\ hook'[h].pc = hook[h].pc
           /\ hook[h].pc # "idle" => hook'[h].s = hook[h].s /\ hook'[h].rev = hook[h].rev
           /\ hook[h].pc \in Holding => hook'[h].m = hook[h].m
           /\ hook[h].pc \in Holding => hook'[h].quiet = IF hook[h].s = s THEN FALSE ELSE hook[h].quiet
  BY <1>1, <1>2, NoticedType
<1>9. \A h \in Hooks : hook[h].pc # "idle" => hook[h].s \in Sessions /\ hook[h].rev \in Nat
  BY <1>1, HookJobType DEF HookTypeOK, Revs
<1>10. HookTypeOK'
  <2>1. ASSUME NEW t \in Sessions, NEW g \in Hooks
        PROVE  slock'[t] = g <=> (hook'[g].pc \notin {"idle", "lock"} /\ hook'[g].s = t)
    <3>1. slock[t] = g <=> (hook[g].pc \notin {"idle", "lock"} /\ hook[g].s = t)
      BY <1>1 DEF HookTypeOK
    <3>2. hook'[g].pc = hook[g].pc /\ (hook[g].pc # "idle" => hook'[g].s = hook[g].s)
      BY <1>8
    <3>3. slock'[t] = slock[t]
      BY <1>2
    <3>. QED  BY <3>1, <3>2, <3>3
  <2>. QED  BY <2>1, <1>1, <1>2, <1>7, <1>8 DEF HookTypeOK
<1>11. HeldInv'
  BY <1>1, <1>2, <1>8 DEF HeldInv, Holding
<1>12. IdleInv'
  BY <1>1, <1>7, <1>8, <1>9, ZenonT(30) DEF IdleInv, Holding
<1>13. WarnedInv'
  BY <1>1, <1>2, <1>3 DEF WarnedInv
<1>14. LoadedInv'
  <2>1. ASSUME NEW r \in Nat, r <= rev, NEW t \in Sessions, daemon[t].queued \/ daemon[t].loaded >= r
        PROVE  daemon'[t].queued \/ daemon'[t].loaded >= r
    BY <2>1, <1>6, <1>7
  <2>2. \A t \in Sessions : marker[t].consumed \in Nat
    BY <1>1, SessionType
  <2>. QED  BY <2>1, <2>2, <1>1, <1>2, <1>3, <1>8, <1>9 DEF LoadedInv
<1>. QED  BY <1>3, <1>10, <1>11, <1>12, <1>13, <1>14 DEF DeliveryInv, HookInv

-----------------------------------------------------------------------------
(***************************************************************************)
(* The specification.                                                      *)
(***************************************************************************)
\* Sessions have been told nothing when quota is installed.
LEMMA DeliveryInitInv == DeliveryInit => DeliveryInv
<1> SUFFICES ASSUME DeliveryInit PROVE DeliveryInv
  OBVIOUS
<1>1. NoticeInv
  BY NoticeInitInv DEF DeliveryInit
<1>2. 0 \in Revs /\ rev = 0 /\ count.faults = 0 /\ doc = NoDoc
  BY NoticeAssumption DEF DeliveryInit, NoticeInit, Revs
<1>3. NewMarker \in Markers /\ NewMarker.consumed = 0 /\ NewMarker.warned = 0
  BY <1>2 DEF NewMarker, Markers
<1>4. \A h \in Hooks : hook[h] = Quiet
  BY DEF DeliveryInit, HookInit
<1>5. Quiet.pc = "idle" /\ Quiet.pc \notin Holding
  BY DEF Quiet, Holding
<1>6. \A s \in Sessions : /\ marker[s] = NewMarker /\ daemon[s] \in Daemons /\ daemon[s].loaded = 0
                          /\ \A r \in Revs : warnings[s][r] = 0
  BY <1>2 DEF DeliveryInit, HookInit, Daemons
<1>7. HookTypeOK
  <2>1. \A s \in Sessions, h \in Hooks :
          slock[s] = h <=> (hook[h].pc \notin {"idle", "lock"} /\ hook[h].s = s)
    BY <1>4, <1>5, HookAssumption DEF DeliveryInit, HookInit
  <2>2. /\ open \in SUBSET Sessions /\ marker \in [Sessions -> Markers]
        /\ slock \in [Sessions -> Hooks \cup {Free}] /\ hook \in [Hooks -> HookJobs \cup {Quiet}]
        /\ warnings \in [Sessions -> [Revs -> Nat]]
    BY <1>3 DEF DeliveryInit, HookInit
  <2>3. daemon \in [Sessions -> Daemons]
    BY <1>2 DEF DeliveryInit, HookInit, Daemons
  <2>. QED  BY <2>1, <2>2, <2>3 DEF HookTypeOK
<1>8. HeldInv /\ LoadedInv /\ WarnedInv /\ IdleInv
  BY <1>2, <1>3, <1>4, <1>5, <1>6 DEF HeldInv, LoadedInv, WarnedInv, IdleInv
<1>. QED  BY <1>1, <1>7, <1>8 DEF DeliveryInv, HookInv

\* Every step of a command, a hook or a daemon keeps the invariant.
LEMMA DeliveryNextInv == DeliveryInv /\ [DeliveryNext]_dvars => DeliveryInv'
<1> SUFFICES ASSUME DeliveryInv, [DeliveryNext]_dvars PROVE DeliveryInv'
  OBVIOUS
<1>1. CASE NoticeNext /\ UNCHANGED svars
  BY <1>1, CommandsKeepHooks
<1>2. ASSUME NEW h \in Hooks, HookStep(h) \/ TurnFails(h)
      PROVE  DeliveryInv'
  BY <1>2, TurnLockInv, CheckInv, ReloadInv, MarkInv, TurnFailsInv DEF HookStep
<1>3. ASSUME NEW h \in Hooks, NEW s \in Sessions, SessionStart(h, s) \/ Prompt(h, s) \/ TurnHook(h, s)
      PROVE  DeliveryInv'
  BY <1>3, SessionStartInv, PromptInv, TurnHookInv
<1>4. ASSUME NEW s \in Sessions, Opens(s) \/ TurnStarts(s) \/ TurnEnds(s)
      PROVE  DeliveryInv'
  BY <1>4, OpensInv, TurnInv
<1>5. CASE UNCHANGED dvars
  <2>1. NoticeInv'
    BY <1>5, NoticeNextInv DEF dvars, DeliveryInv
  <2>2. HookInv'
    BY <1>5 DEF dvars, nvars, svars, DeliveryInv, HookInv, HookTypeOK, HeldInv, LoadedInv, WarnedInv, IdleInv
  <2>. QED  BY <2>1, <2>2 DEF DeliveryInv
<1>. QED  BY <1>1, <1>2, <1>3, <1>4, <1>5 DEF DeliveryNext, SessionNext

\* The inductive invariant holds of every behaviour of commands, hooks and daemons.
THEOREM DeliveryInvariant == DeliverySpec => []DeliveryInv
<1>. QED  BY DeliveryInitInv, DeliveryNextInv, PTL DEF DeliverySpec

\* Commands, sessions, markers, hooks and daemons keep their types; the lock of a session
\* is held by the hook that is past it, by no other (lockState in hook_state.go).
THEOREM DeliveryTypeCorrect == DeliverySpec => []DeliveryTypeOK
<1>1. DeliveryInv => DeliveryTypeOK
  BY DEF DeliveryInv, NoticeInv, HookInv, DeliveryTypeOK
<1>. QED  BY <1>1, DeliveryInvariant, PTL

\* A session that has consumed a revision runs a configuration that shows it, or has
\* queued the reload.
THEOREM ConsumedIsLoadedHolds == DeliverySpec => []ConsumedIsLoaded
<1>1. DeliveryInv => ConsumedIsLoaded
  BY DEF DeliveryInv, HookInv, LoadedInv, ConsumedIsLoaded
<1>. QED  BY <1>1, DeliveryInvariant, PTL

\* A session is warned once of each revision; more often only for each marker that could
\* not be written.
THEOREM WarnedOnceHolds == DeliverySpec => []WarnedOnce
<1>1. DeliveryInv => WarnedOnce
  <2> SUFFICES ASSUME DeliveryInv, NEW s \in Sessions, NEW r \in Revs
               PROVE  warnings[s][r] <= 1 + count.faults
    BY DEF WarnedOnce
  <2>1. warnings[s] \in [Revs -> Nat] /\ count.faults \in Nat
    BY SessionType DEF DeliveryInv, HookInv, NoticeInv, NoticeTypeOK
  <2>2. warnings[s][r] <= count.faults + IF r <= marker[s].warned THEN 1 ELSE 0
    BY DEF DeliveryInv, HookInv, WarnedInv
  <2>. QED  BY <2>1, <2>2
<1>. QED  BY <1>1, DeliveryInvariant, PTL

\* Hooks and daemons start no action and publish nothing.
LEMMA SessionsPublishNothing ==
  ASSUME [DeliveryNext]_dvars
  PROVE  [NoticeNext]_nvars \/ UNCHANGED <<proc, doc>>
<1>1. CASE NoticeNext \/ UNCHANGED dvars
  BY <1>1 DEF dvars, nvars
<1>2. ASSUME NEW h \in Hooks, HookStep(h) \/ TurnFails(h)
      PROVE  UNCHANGED <<proc, doc>>
  <2>1. CASE TurnLock(h)
    BY <2>1 DEF TurnLock, nvars
  <2>2. CASE CheckIdle(h) \/ CheckSummary(h)
    BY <2>2 DEF CheckIdle, CheckSummary, nvars
  <2>3. CASE Reload(h)
    BY <2>3 DEF Reload, nvars
  <2>4. CASE Mark(h) \/ TurnFails(h)
    BY <2>4 DEF Mark, TurnFails, nvars
  <2>. QED  BY <1>2, <2>1, <2>2, <2>3, <2>4 DEF HookStep
<1>3. ASSUME NEW h \in Hooks, NEW s \in Sessions, SessionStart(h, s) \/ Prompt(h, s) \/ TurnHook(h, s)
      PROVE  UNCHANGED <<proc, doc>>
  <2>1. CASE SessionStart(h, s)
    BY <2>1 DEF SessionStart, nvars
  <2>2. CASE Prompt(h, s)
    BY <2>2 DEF Prompt, nvars
  <2>3. CASE TurnHook(h, s)
    BY <2>3 DEF TurnHook, nvars
  <2>. QED  BY <1>3, <2>1, <2>2, <2>3
<1>4. ASSUME NEW s \in Sessions, Opens(s) \/ TurnStarts(s) \/ TurnEnds(s)
      PROVE  UNCHANGED <<proc, doc>>
  BY <1>4 DEF Opens, TurnStarts, TurnEnds, nvars
<1>. QED  BY <1>1, <1>2, <1>3, <1>4 DEF DeliveryNext, SessionNext

\* What commands promise of notices and actions they keep whatever the sessions do
\* meanwhile.
THEOREM DeliveryNotices ==
  DeliverySpec => []AnnouncedOrOwed /\ []ActionsAtMostOnce /\ ActionsInOrder /\ NoticeNeverOlder
<1>1. DeliveryInv => NoticeInv /\ AnnouncedOrOwed /\ ActionsAtMostOnce
  BY OwedIsTrue DEF DeliveryInv, NoticeInv, ActionsInv, ActionsAtMostOnce
<1>2. DeliveryInv /\ [DeliveryNext]_dvars =>
        [\A c \in Procs : Doing(c, "reserve") /\ proc'[c].pc = "run" =>
          \A r \in Revs : ran[r] > 0 => r < proc[c].rev]_nvars
  BY <1>1, SessionsPublishNothing, ReservesInOrder DEF Doing
<1>3. DeliveryInv /\ [DeliveryNext]_dvars =>
        [doc # NoDoc /\ doc' # doc => doc'.rev >= doc.rev \/ crossed']_nvars
  BY <1>1, SessionsPublishNothing, PublishesInOrder
<1>. QED  BY <1>1, <1>2, <1>3, DeliveryInvariant, PTL DEF DeliverySpec, ActionsInOrder, NoticeNeverOlder

\* What a prompt writes of the marker.
LEMMA PromptMarks ==
  ASSUME DeliveryInv, NEW h \in Hooks, NEW s \in Sessions, Prompt(h, s), NEW t \in Sessions
  PROVE  /\ marker'[t].consumed >= marker[t].consumed
         /\ marker[t].base # {} => marker'[t].base = marker[t].base
         /\ marker'[t].warned # marker[t].warned => marker'[t].warned = doc.rev
<1>1. marker \in [Sessions -> Markers] /\ marker[t].consumed \in Nat
  BY SessionType DEF DeliveryInv, HookInv, HookTypeOK
<1>2. PICK m \in Markers :
        /\ marker' = [marker EXCEPT ![s] = m]
        /\ m.consumed = marker[s].consumed /\ (marker[s].base # {} => m.base = marker[s].base)
        /\ m.warned \in {doc.rev, marker[s].warned}
  BY PromptEffect
<1>. QED  BY <1>1, <1>2

\* Hooks of one session run at once and each writes the whole marker: none takes back what
\* another has recorded.
THEOREM MarkerKeptHolds == DeliverySpec => MarkerKept
<1>1. DeliveryInv /\ [DeliveryNext]_dvars =>
        \A s \in Sessions :
          /\ marker'[s].consumed >= marker[s].consumed
          /\ marker[s].base # {} => marker'[s].base = marker[s].base
          /\ marker'[s].warned # marker[s].warned => marker'[s].warned = doc.rev
  <2> SUFFICES ASSUME DeliveryInv, [DeliveryNext]_dvars, NEW t \in Sessions
               PROVE  /\ marker'[t].consumed >= marker[t].consumed
                      /\ marker[t].base # {} => marker'[t].base = marker[t].base
                      /\ marker'[t].warned # marker[t].warned => marker'[t].warned = doc.rev
    OBVIOUS
  <2>1. HookTypeOK /\ HeldInv /\ NoticeTypeOK
    BY DEF DeliveryInv, HookInv, NoticeInv
  <2>2. marker \in [Sessions -> Markers] /\ marker[t] \in Markers /\ marker[t].consumed \in Nat
    BY <2>1, SessionType DEF HookTypeOK
  <2>3. CASE UNCHANGED marker
    BY <2>2, <2>3
  <2>4. ASSUME NEW h \in Hooks, NEW s \in Sessions, SessionStart(h, s)
        PROVE  /\ marker'[t].consumed >= marker[t].consumed
               /\ marker[t].base # {} => marker'[t].base = marker[t].base
               /\ marker'[t].warned = marker[t].warned
    <3>1. doc.rev \in Revs /\ marker[s] \in Markers
      BY <2>1, <2>2, <2>4 DEF SessionStart, NoticeTypeOK, Docs
    <3>2. marker' = [marker EXCEPT ![s] = Baseline(marker[s], doc.rev)]
      BY <2>4 DEF SessionStart
    <3>. QED  BY <3>1, <3>2, <2>2, BaselineType
  <2>5. ASSUME NEW h \in Hooks, TurnLock(h)
        PROVE  /\ marker'[t].consumed >= marker[t].consumed
               /\ marker[t].base # {} => marker'[t].base = marker[t].base
               /\ marker'[t].warned = marker[t].warned
    <3>1. hook[h] \in HookJobs \cup {Quiet} /\ hook[h].pc = "lock"
      BY <2>1, <2>5 DEF HookTypeOK, TurnLock, At
    <3>2. hook[h].s \in Sessions /\ hook[h].rev \in Revs /\ marker[hook[h].s] \in Markers
      BY <3>1, <2>2, HookJobType
    <3>3. \/ UNCHANGED marker
          \/ marker' = [marker EXCEPT ![hook[h].s] = Baseline(marker[hook[h].s], hook[h].rev)]
      BY <2>5 DEF TurnLock
    <3>. QED  BY <3>2, <3>3, <2>2, BaselineType
  <2>6. ASSUME NEW h \in Hooks, Mark(h)
        PROVE  /\ marker'[t].consumed >= marker[t].consumed
               /\ marker[t].base # {} => marker'[t].base = marker[t].base
               /\ marker'[t].warned = marker[t].warned
    <3>1. hook[h].pc \in Holding
      BY <2>6 DEF Mark, At, Holding
    <3>2. /\ hook[h].m = marker[hook[h].s] /\ hook[h].rev > hook[h].m.consumed
          /\ hook[h].m \in Markers /\ hook[h].s \in Sessions /\ hook[h].rev \in Nat
      BY <3>1, <2>1, HolderAlone DEF HeldInv, Revs
    <3>3. marker' = [marker EXCEPT ![hook[h].s] = [hook[h].m EXCEPT !.consumed = hook[h].rev]]
      BY <2>6 DEF Mark
    <3>. QED  BY <3>2, <3>3, <2>2 DEF Markers
  <2>7. \/ UNCHANGED marker
        \/ \E h \in Hooks : TurnLock(h) \/ Mark(h) \/ \E s \in Sessions : SessionStart(h, s) \/ Prompt(h, s)
    BY DEF DeliveryNext, SessionNext, HookStep, dvars, svars, CheckIdle, CheckSummary, Reload,
           TurnFails, TurnHook, Opens, TurnStarts, TurnEnds
  <2>. QED  BY <2>3, <2>4, <2>5, <2>6, <2>7, PromptMarks
<1>. QED  BY <1>1, DeliveryInvariant, PTL DEF DeliverySpec, MarkerKept

\* A daemon is asked to reload during a turn only when the turn has started after it was
\* found idle.
THEOREM ReloadOnlyWhenIdleHolds == DeliverySpec => ReloadOnlyWhenIdle
<1>1. DeliveryInv /\ [DeliveryNext]_dvars =>
        \A h \in Hooks : At(h, "reload") /\ hook[h].quiet /\ hook'[h] # hook[h] => ~daemon[hook[h].s].turn
  BY DEF DeliveryInv, HookInv, IdleInv, At
<1>. QED  BY <1>1, DeliveryInvariant, PTL DEF DeliverySpec, ReloadOnlyWhenIdle
=============================================================================
