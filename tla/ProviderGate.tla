---------------------------- MODULE ProviderGate -----------------------------
(***************************************************************************)
(* internal/service/provider_gate.go, signal_gate.go and                   *)
(* provider_manual_toggle.go: a provider-only policy.                      *)
(*                                                                         *)
(* quota owns nothing but the `enabled` field of the enrolled providers in *)
(* the global configuration, and those only while it holds a claim: the    *)
(* record of the shape the operator had left the field in.  A gate pass    *)
(* (reconcile, or check with --reconcile) turns providers off and gives    *)
(* them back; routing disable and enable do the same on the operator's     *)
(* word.  The operator edits the file at any time.                         *)
(*                                                                         *)
(* A pass reads the field and the observations, stages and validates the   *)
(* candidate (the window in which the operator may write), checks its      *)
(* input again, and publishes one file: the publication is one step here   *)
(* and its interruptions are the outcomes module Publisher gives it.       *)
(***************************************************************************)
EXTENDS Naturals, FiniteSets

CONSTANTS
  Providers,    \* the enrolled providers, at least one
  PoolOf,       \* the balance group of each
  Exempt,       \* those with quota_gate: {enabled: false}
  KeepEnabled,  \* those with keep_enabled
  MaxPolls,     \* bound: polls that change what is observed
  MaxToggles,   \* bound: manual commands
  MaxEdits,     \* bound: operator edits
  MaxFaults,    \* bound: refused validations, failed publications and crashes
  FaultKinds    \* the faults that may happen: "refuse", "late", "crash"

ASSUME ProviderGateAssumption ==
  /\ Providers # {}
  /\ Exempt \subseteq Providers /\ KeepEnabled \subseteq Providers
  /\ MaxPolls \in Nat /\ MaxToggles \in Nat /\ MaxEdits \in Nat /\ MaxFaults \in Nat

VARIABLES
  field,   \* the live providers.<id>.enabled fields
  obs,     \* what state.json holds of the quota observations
  manual,  \* ManualDisabled of each provider, in state.json
  own,     \* ProviderOwnership, in state.json
  plan,    \* the pass or toggle under way, or NoPlan
  wish,    \* the shape the operator last gave each field
  astray,  \* providers a defect named in the README has touched
  count    \* the polls, toggles, edits and faults so far

gvars == <<field, obs, manual, own, plan, wish, astray, count>>

\* The key is absent (which enables the provider), true or false.
Fields == {"absent", "on", "off"}
Enabled(shape) == shape # "off"

\* An observation: what the axes and the latest snapshot amount to, and whether
\* fresh evidence is at or below the signal threshold (SignalGateVerdict.Gated).
Causes == {"normal", "low", "out", "corrupt"}
Observations == [cause : Causes, hot : BOOLEAN]

Axes == {"legacy", "signal", "reserve", "disabled"}
Claims == [base : Fields, axis : Axes, conflict : BOOLEAN]
NoClaim == [none |-> TRUE]
Ownership == [Providers -> Claims \cup {NoClaim}]

Plans == [kind : {"gate", "disable", "enable"}, who : Providers,
          read : [Providers -> Fields], write : [Providers -> Fields],
          published : Ownership, refused : Ownership, conflicts : SUBSET Providers,
          obs : [Providers -> Observations]]
NoPlan == [none |-> TRUE]

GateTypeOK ==
  /\ field \in [Providers -> Fields]
  /\ obs \in [Providers -> Observations]
  /\ manual \in [Providers -> BOOLEAN]
  /\ own \in Ownership
  /\ plan \in Plans \cup {NoPlan}
  /\ wish \in [Providers -> Fields]
  /\ astray \in SUBSET Providers
  /\ count \in [polls : 0..MaxPolls, toggles : 0..MaxToggles,
                edits : 0..MaxEdits, faults : 0..MaxFaults]

GateInit ==
  /\ field \in [Providers -> Fields] /\ wish = field
  /\ obs = [p \in Providers |-> [cause |-> "normal", hot |-> FALSE]]
  /\ manual = [p \in Providers |-> FALSE]
  /\ own = [p \in Providers |-> NoClaim]
  /\ plan = NoPlan /\ astray = {}
  /\ count = [polls |-> 0, toggles |-> 0, edits |-> 0, faults |-> 0]

Claimed(p) == own[p] # NoClaim
Idle == plan = NoPlan

-----------------------------------------------------------------------------
(***************************************************************************)
(* planProviderGate: what a pass decides, from the fields it reads and the *)
(* observations of the recovered state.                                    *)
(***************************************************************************)
\* Mutant: the exemption lifts a manual disable as well.
ModeExemptsManual(p) ==
  CASE obs[p].cause = "corrupt" \/ (manual[p] /\ p \notin Exempt) -> "disabled"
    [] OTHER -> IF obs[p].cause = "normal" /\ ~manual[p] THEN "normal" ELSE "reserve"

\* MappingMode.  The exemption turns what quota observed into a reserve, never a
\* manual disable or a corrupt observation.
Mode(p) ==
  CASE manual[p] \/ obs[p].cause = "corrupt"           -> "disabled"
    [] ~manual[p] /\ obs[p].cause = "normal"           -> "normal"
    [] ~manual[p] /\ obs[p].cause = "low"              -> "reserve"
    [] ~manual[p] /\ obs[p].cause = "out" /\ p \in Exempt    -> "reserve"
    [] ~manual[p] /\ obs[p].cause = "out" /\ p \notin Exempt -> "disabled"

\* durableGateApplies.
DurableGate(p) == Mode(p) = "disabled" \/ (Mode(p) = "reserve" /\ p \notin Exempt)

Pool(p) == {q \in Providers : PoolOf[q] = PoolOf[p]}

\* Mutant: the members the durable axes gate are counted as still enabled.
PoolSkipCountsGated(p) ==
  obs[p].hot /\ {q \in Pool(p) : Enabled(field[q])} \subseteq {q \in Pool(p) : obs[q].hot}

\* signalPoolRule: the signal axis is skipped for a pool when every member that
\* would otherwise stay enabled is hot.
PoolSkip(p) ==
  /\ obs[p].hot
  /\ {q \in Pool(p) : Enabled(field[q]) /\ ~DurableGate(q)} \subseteq {q \in Pool(p) : obs[q].hot}

SignalGate(p) == obs[p].hot /\ ~PoolSkip(p) /\ p \notin KeepEnabled
Gates(p) == DurableGate(p) \/ SignalGate(p)

\* Mutant: the claim is attributed to the mode, whichever axis gates.
AxisIsMode(p) == Mode(p)

Axis(p) == IF ~DurableGate(p) THEN "signal" ELSE Mode(p)

\* An operator edit diverges from a held claim.
Conflicts == {p \in Providers : Claimed(p) /\ Enabled(field[p])
                                /\ (Gates(p) \/ field[p] # own[p].base)}
Disables == {p \in Providers : ~Claimed(p) /\ Gates(p) /\ Enabled(field[p])}
Holds == {p \in Providers : Claimed(p) /\ Gates(p) /\ ~Enabled(field[p])}
Restores == {p \in Providers : Claimed(p) /\ ~Gates(p) /\ ~Enabled(field[p])}
Releases == {p \in Providers : Claimed(p) /\ ~Gates(p) /\ Enabled(field[p])
                               /\ field[p] = own[p].base}

\* A held claim loses a stale conflict marker; the signal axis takes over the
\* claim of another axis that no longer gates.
HeldClaim(p) == [own[p] EXCEPT !.conflict = IF Axis(p) = "signal" /\ @ /\ own[p].axis # "signal"
                                            THEN @ ELSE FALSE,
                               !.axis = IF Axis(p) = "signal" THEN "signal" ELSE @]

\* Mutant: a field the operator has put back is not released.
PublishedWithoutRelease ==
  [p \in Providers |->
     CASE p \in Conflicts -> [own[p] EXCEPT !.conflict = TRUE]
       [] p \in Disables  -> [base |-> field[p], axis |-> Axis(p), conflict |-> FALSE]
       [] p \in Holds     -> HeldClaim(p)
       [] p \in Restores  -> NoClaim
       [] OTHER -> own[p]]

\* The claims committed with the bytes, and those saved when nothing is published.
PublishedOwnership ==
  [p \in Providers |->
     CASE p \in Conflicts -> [own[p] EXCEPT !.conflict = TRUE]
       [] p \in Disables  -> [base |-> field[p], axis |-> Axis(p), conflict |-> FALSE]
       [] p \in Holds     -> HeldClaim(p)
       [] p \in Restores \cup Releases -> NoClaim
       [] OTHER -> own[p]]

RefusalOwnership ==
  [p \in Providers |->
     CASE p \in Conflicts -> [own[p] EXCEPT !.conflict = TRUE]
       [] p \in Holds     -> HeldClaim(p)
       [] p \in Releases  -> [own[p] EXCEPT !.conflict = FALSE]
       [] OTHER -> own[p]]

\* Mutant: the key is always written back as true.
CandidateForcesTrue ==
  [p \in Providers |-> CASE p \in Disables -> "off"
                         [] p \in Restores -> "on"
                         [] OTHER -> field[p]]

\* The composed candidate: exact edits of these fields and of nothing else.
Candidate ==
  [p \in Providers |-> CASE p \in Disables -> "off"
                         [] p \in Restores -> own[p].base
                         [] OTHER -> field[p]]

\* A gate pass.  A check saves new observations with the pass, but the pass
\* itself is derived from those of the recovered state.
ReadGate(new) ==
  /\ Idle
  /\ new = obs \/ count.polls < MaxPolls
  /\ count' = [count EXCEPT !.polls = IF new = obs THEN @ ELSE @ + 1]
  /\ plan' = [kind |-> "gate", who |-> CHOOSE p \in Providers : TRUE,
              read |-> field, write |-> Candidate,
              published |-> PublishedOwnership, refused |-> RefusalOwnership,
              conflicts |-> Conflicts, obs |-> new]
  /\ UNCHANGED <<field, obs, manual, own, wish, astray>>

-----------------------------------------------------------------------------
(***************************************************************************)
(* routing disable and routing enable.                                     *)
(***************************************************************************)
\* providerToggleEdit.
ToggleShape(kind, p) ==
  IF kind = "disable" THEN "off" ELSE IF Claimed(p) THEN own[p].base ELSE "on"

ToggleChanges(kind, p) ==
  \/ manual[p] # (kind = "disable")
  \/ field[p] # ToggleShape(kind, p)
  \/ Claimed(p) /\ (kind = "enable" \/ own[p].axis # "disabled")
  \/ ~Claimed(p) /\ kind = "disable"

\* A disable claims the field in the shape it is read; an enable gives it up.
ReadToggle(kind, p) ==
  /\ Idle
  /\ count.toggles < MaxToggles /\ count' = [count EXCEPT !.toggles = @ + 1]
  /\ ToggleChanges(kind, p)
  /\ plan' = [kind |-> kind, who |-> p,
              read |-> field, write |-> [field EXCEPT ![p] = ToggleShape(kind, p)],
              published |-> [own EXCEPT ![p] =
                 IF kind = "disable"
                 THEN [base |-> field[p], axis |-> "disabled", conflict |-> FALSE]
                 ELSE NoClaim],
              refused |-> own, conflicts |-> {}, obs |-> obs]
  /\ UNCHANGED <<field, obs, manual, own, wish, astray>>

-----------------------------------------------------------------------------
(***************************************************************************)
(* The end of a pass or toggle.                                            *)
(***************************************************************************)
Fault(kind) ==
  /\ kind \in FaultKinds /\ count.faults < MaxFaults
  /\ count' = [count EXCEPT !.faults = @ + 1]

IsGate == plan # NoPlan /\ plan.kind = "gate"

\* Mutant: the input is not checked again.
InputNotChecked == TRUE

\* The input is checked again before it is published: a pass compares every
\* source, a toggle only the field it is about.
InputCurrent ==
  IF IsGate THEN field = plan.read ELSE field[plan.who] = plan.read[plan.who]

\* The providers whose field the publication leaves other than the operator or
\* a claim accounts for: an edit of another provider made since a toggle read
\* the file is overwritten; a disable takes quota's own "off" for the operator's.
LedAstray ==
  {p \in Providers : field[p] # plan.read[p]}
    \cup (IF plan.kind = "disable" /\ Claimed(plan.who) /\ ~Enabled(plan.read[plan.who])
          THEN {plan.who} ELSE {})

\* Enabling a provider the operator has turned back on, or holds off without a
\* claim, is a wish for the shape enable writes.
WishAfter ==
  IF plan.kind = "enable" /\ (~Claimed(plan.who) \/ Enabled(plan.read[plan.who]))
  THEN [wish EXCEPT ![plan.who] = plan.write[plan.who]] ELSE wish

ManualAfter ==
  IF plan.kind = "gate" THEN manual ELSE [manual EXCEPT ![plan.who] = plan.kind = "disable"]

Publishable == plan # NoPlan /\ plan.conflicts = {} /\ InputCurrent

\* The file is replaced.
WriteFields ==
  /\ field' = plan.write
  /\ wish' = WishAfter
  /\ plan' = NoPlan

\* The bytes, the claims and the observations or the manual mark are committed.
Commit ==
  /\ Publishable
  /\ WriteFields
  /\ own' = plan.published /\ obs' = plan.obs /\ manual' = ManualAfter
  /\ astray' = astray \cup LedAstray
  /\ UNCHANGED count

\* A pass with conflicts, a stale input, or a candidate that fails to stage,
\* validate or publish before the rename: a gate pass still saves the
\* observations and the refreshed markers, a toggle saves nothing.
Refuse ==
  /\ plan # NoPlan
  /\ \/ plan.conflicts # {} /\ UNCHANGED count
     \/ ~InputCurrent /\ UNCHANGED count
     \/ Fault("refuse")
  /\ own' = plan.refused /\ obs' = plan.obs
  /\ plan' = NoPlan
  /\ UNCHANGED <<field, manual, wish, astray>>

\* The publication of a pass fails after the rename.  The refusal is saved at the
\* revision of the journal, so that recovery takes the journal for committed.
GateFailsLate ==
  /\ Publishable /\ IsGate
  /\ Fault("late")
  /\ WriteFields
  /\ own' = plan.refused /\ obs' = plan.obs
  /\ astray' = astray \cup {p \in Providers : plan.write[p] # plan.read[p]}
  /\ UNCHANGED manual

\* The process dies before the rename: nothing is left of the pass.
CrashBefore ==
  /\ plan # NoPlan /\ Fault("crash")
  /\ plan' = NoPlan
  /\ UNCHANGED <<field, obs, manual, own, wish, astray>>

\* The process dies after the rename and recovery rolls forward: the journal
\* carries the claims, without their axis, but neither observations nor marks.
Unattributed(o) ==
  [p \in Providers |-> IF o[p] = NoClaim THEN NoClaim ELSE [o[p] EXCEPT !.axis = "legacy"]]
CrashRolledForward ==
  /\ Publishable /\ Fault("crash")
  /\ WriteFields
  /\ own' = Unattributed(plan.published)
  /\ astray' = astray \cup LedAstray
  /\ UNCHANGED <<obs, manual>>

\* The process dies after the publisher's commit, before the last save: the
\* state committed with the bytes is the recovered one with the claims and, for
\* a toggle, the mark.
CrashCommitted ==
  /\ Publishable /\ Fault("crash")
  /\ WriteFields
  /\ own' = plan.published /\ manual' = ManualAfter
  /\ astray' = astray \cup LedAstray
  /\ UNCHANGED obs

\* The operator edits a field.  To turn off by hand what quota holds off is to
\* go back to the claim.
Edit(p, shape) ==
  /\ count.edits < MaxEdits /\ count' = [count EXCEPT !.edits = @ + 1]
  /\ field[p] # shape
  /\ field' = [field EXCEPT ![p] = shape]
  /\ wish' = [wish EXCEPT ![p] = IF Claimed(p) /\ ~Enabled(shape) THEN own[p].base ELSE shape]
  /\ UNCHANGED <<obs, manual, own, plan, astray>>

\* What one poll may newly report of one provider.
Polled == {obs} \cup {[obs EXCEPT ![p] = o] : p \in Providers, o \in Observations}

Finish == Commit \/ Refuse
GateNext ==
  \/ \E new \in Polled : ReadGate(new)
  \/ \E p \in Providers : \/ ReadToggle("disable", p) \/ ReadToggle("enable", p)
                          \/ \E shape \in Fields : Edit(p, shape)
  \/ Finish \/ GateFailsLate
  \/ CrashBefore \/ CrashRolledForward \/ CrashCommitted

GateSpec == GateInit /\ [][GateNext]_gvars

\* A timer runs the gate again and again, and a pass that runs comes to its end.
GateFairSpec == GateSpec /\ WF_gvars(ReadGate(obs)) /\ WF_gvars(Finish)

-----------------------------------------------------------------------------
(***************************************************************************)
(* Properties.                                                             *)
(***************************************************************************)
\* quota gives back what it takes: a field quota holds no claim on is in the
\* shape the operator gave it, and a claim records that shape as long as the
\* operator does not contradict it.  Providers led astray are left out.
OperatorShapeKept ==
  Idle => \A p \in Providers \ astray :
            IF Claimed(p) THEN Enabled(field[p]) \/ own[p].base = wish[p]
                          ELSE field[p] = wish[p]

\* A manual enable restores the shape the operator had left, whatever quota had
\* claimed before the disable: no provider at all is left out.
EnableRestoresBaseline ==
  Idle => \A p \in Providers : ~Claimed(p) => field[p] = wish[p]

\* The signal axis alone never leaves a pool without an enabled provider.
PoolKeepsOne ==
  [][IsGate /\ Commit =>
       \A p \in Providers :
         own'[p] # NoClaim /\ own'[p].axis = "signal" /\ ~DurableGate(p) =>
           \E q \in Pool(p) : Enabled(field'[q])]_gvars

\* No gate pass turns on a provider the operator has disabled by hand: not by an
\* exemption, a skipped pool or a late failure, with whatever it read.
PassEnds == IsGate /\ plan' = NoPlan
ManualDisableHolds ==
  [][\A p \in Providers : PassEnds /\ manual[p] /\ ~Enabled(field[p]) => ~Enabled(field'[p])]_gvars

\* While a claim is held, a field the operator has turned back on, before the
\* pass or under it, is never turned off again by a pass.
ConflictRespected ==
  [][\A p \in Providers : PassEnds /\ Claimed(p) /\ Enabled(field[p]) => Enabled(field'[p])]_gvars

\* A provider nothing gates any more is given back in the end, unless a conflict
\* on some provider stands.
Recovers ==
  \A p \in Providers :
    <>[](~manual[p] /\ obs[p] = [cause |-> "normal", hot |-> FALSE])
      => <>[](~Claimed(p)) \/ <>[](\E q \in Providers : Claimed(q) /\ own[q].conflict)
=============================================================================
