-------------------------- MODULE ProviderGateProofs --------------------------
(***************************************************************************)
(* Proofs about ProviderGate, for every set of providers, pools and        *)
(* exemptions and any number of polls, toggles, edits and faults.          *)
(***************************************************************************)
EXTENDS ProviderGate, TLAPS

-----------------------------------------------------------------------------
(***************************************************************************)
(* Types.                                                                  *)
(***************************************************************************)
\* No plan is not a plan.
LEMMA NotAPlan == NoPlan \notin Plans
BY DEF NoPlan, Plans

\* No claim is not a claim.
LEMMA NotAClaim == NoClaim \notin Claims
BY DEF NoClaim, Claims

\* The cases of MappingMode are complete, and a claim has one of the four axes.
LEMMA AxisType ==
  ASSUME GateTypeOK, NEW p \in Providers
  PROVE  Axis(p) \in Axes
<1>1. obs[p].cause \in Causes /\ manual[p] \in BOOLEAN
  BY DEF GateTypeOK, Observations
<1>2. DurableGate(p) => Mode(p) \in {"reserve", "disabled"}
  BY DEF DurableGate
<1>. QED  BY <1>2 DEF Axis, Axes

\* A held claim keeps its baseline, and stays of the signal axis or becomes of it.
LEMMA HeldClaimType ==
  ASSUME GateTypeOK, NEW p \in Providers, Claimed(p)
  PROVE  /\ HeldClaim(p) \in Claims
         /\ HeldClaim(p).base = own[p].base
         /\ HeldClaim(p).axis = "signal" => Axis(p) = "signal" \/ own[p].axis = "signal"
<1>1. own[p] \in Claims
  BY DEF GateTypeOK, Ownership, Claimed
<1>2. Axis(p) \in Axes
  BY AxisType
<1>. QED  BY <1>1, <1>2 DEF HeldClaim, Claims, Axes

\* The claims a pass commits or saves are claims.
LEMMA OwnershipType ==
  ASSUME GateTypeOK
  PROVE  PublishedOwnership \in Ownership /\ RefusalOwnership \in Ownership
<1>1. ASSUME NEW p \in Providers
      PROVE  /\ PublishedOwnership[p] \in Claims \cup {NoClaim}
             /\ RefusalOwnership[p] \in Claims \cup {NoClaim}
  <2>1. own[p] \in Claims \cup {NoClaim} /\ field[p] \in Fields
    BY DEF GateTypeOK, Ownership
  <2>2. Axis(p) \in Axes
    BY AxisType
  <2>3. p \in Conflicts \cup Holds \cup Releases => Claimed(p)
    BY DEF Conflicts, Holds, Releases
  <2>4. p \in Conflicts => [own[p] EXCEPT !.conflict = TRUE] \in Claims
    BY <2>1, <2>3 DEF Claimed, Claims
  <2>5. p \in Disables =>
          [base |-> field[p], axis |-> Axis(p), conflict |-> FALSE] \in Claims
    BY <2>1, <2>2 DEF Claims
  <2>6. p \in Holds => HeldClaim(p) \in Claims
    BY <2>3, HeldClaimType
  <2>7. p \in Releases => [own[p] EXCEPT !.conflict = FALSE] \in Claims
    BY <2>1, <2>3 DEF Claimed, Claims
  <2>8. PublishedOwnership[p] \in Claims \cup {NoClaim}
    BY <2>1, <2>4, <2>5, <2>6 DEF PublishedOwnership
  <2>9. RefusalOwnership[p] \in Claims \cup {NoClaim}
    BY <2>1, <2>4, <2>6, <2>7 DEF RefusalOwnership
  <2>. QED  BY <2>8, <2>9
<1>2. /\ PublishedOwnership = [p \in Providers |-> PublishedOwnership[p]]
      /\ RefusalOwnership = [p \in Providers |-> RefusalOwnership[p]]
  BY DEF PublishedOwnership, RefusalOwnership
<1>. QED  BY <1>1, <1>2 DEF Ownership

\* A candidate writes shapes only.
LEMMA CandidateType == GateTypeOK => Candidate \in [Providers -> Fields]
<1> SUFFICES ASSUME GateTypeOK, NEW p \in Providers
             PROVE  (CASE p \in Disables -> "off"
                       [] p \in Restores -> own[p].base
                       [] OTHER -> field[p]) \in Fields
  BY DEF Candidate
<1>1. p \in Restores => own[p].base \in Fields
  BY DEF GateTypeOK, Ownership, Claims, Restores, Claimed
<1>2. field[p] \in Fields /\ "off" \in Fields
  BY DEF GateTypeOK, Fields
<1>. QED  BY <1>1, <1>2

\* A pass that is read is a plan.
LEMMA ReadGateType ==
  ASSUME GateTypeOK, NEW new \in Polled, ReadGate(new)
  PROVE  GateTypeOK'
<1>1. new \in [Providers -> Observations]
  BY DEF Polled, GateTypeOK
<1>2. (CHOOSE p \in Providers : TRUE) \in Providers
  BY ProviderGateAssumption
<1>3. plan' \in Plans
  BY <1>1, <1>2, OwnershipType, CandidateType DEF ReadGate, Plans, GateTypeOK, Conflicts
<1>4. count' \in [polls : 0..MaxPolls, toggles : 0..MaxToggles,
                  edits : 0..MaxEdits, faults : 0..MaxFaults]
  BY ProviderGateAssumption DEF ReadGate, GateTypeOK
<1>. QED  BY <1>3, <1>4 DEF ReadGate, GateTypeOK

\* A toggle that is read is a plan.
LEMMA ReadToggleType ==
  ASSUME GateTypeOK, NEW kind \in {"disable", "enable"}, NEW p \in Providers,
         ReadToggle(kind, p)
  PROVE  GateTypeOK'
<1>1. ToggleShape(kind, p) \in Fields
  BY DEF ToggleShape, GateTypeOK, Ownership, Claims, Claimed, Fields
<1>2. [base |-> field[p], axis |-> "disabled", conflict |-> FALSE] \in Claims
  BY DEF GateTypeOK, Claims, Axes
<1>3. plan' \in Plans
  <2>1. [field EXCEPT ![p] = ToggleShape(kind, p)] \in [Providers -> Fields]
    BY <1>1 DEF GateTypeOK
  <2>2. [own EXCEPT ![p] = IF kind = "disable"
                           THEN [base |-> field[p], axis |-> "disabled", conflict |-> FALSE]
                           ELSE NoClaim] \in Ownership
    BY <1>2 DEF GateTypeOK, Ownership
  <2>. QED  BY <2>1, <2>2 DEF ReadToggle, Plans, GateTypeOK
<1>4. count' \in [polls : 0..MaxPolls, toggles : 0..MaxToggles,
                  edits : 0..MaxEdits, faults : 0..MaxFaults]
  BY ProviderGateAssumption DEF ReadToggle, GateTypeOK
<1>. QED  BY <1>3, <1>4 DEF ReadToggle, GateTypeOK

\* Faults are counted up to their bound.
LEMMA FaultCount ==
  ASSUME GateTypeOK, NEW kind, Fault(kind)
  PROVE  count' \in [polls : 0..MaxPolls, toggles : 0..MaxToggles,
                     edits : 0..MaxEdits, faults : 0..MaxFaults]
BY ProviderGateAssumption DEF Fault, GateTypeOK

\* A claim that comes back from the journal is a claim.
LEMMA UnattributedType ==
  ASSUME NEW o \in Ownership
  PROVE  Unattributed(o) \in Ownership
<1> SUFFICES ASSUME NEW p \in Providers, o[p] # NoClaim
             PROVE  [o[p] EXCEPT !.axis = "legacy"] \in Claims
  BY DEF Unattributed, Ownership
<1>1. o[p] \in Claims
  BY DEF Ownership
<1>. QED  BY <1>1 DEF Claims, Axes

\* The end of a plan, in each of its outcomes, writes what the plan holds.
LEMMA EndType ==
  ASSUME GateTypeOK,
         Finish \/ GateFailsLate \/ CrashBefore \/ CrashRolledForward \/ CrashCommitted
  PROVE  GateTypeOK'
<1>1. plan \in Plans /\ plan # NoPlan
  BY DEF Finish, Commit, Refuse, GateFailsLate, CrashBefore, CrashRolledForward,
         CrashCommitted, Publishable, GateTypeOK
<1>2. /\ plan.write \in [Providers -> Fields] /\ plan.obs \in [Providers -> Observations]
      /\ plan.published \in Ownership /\ plan.refused \in Ownership /\ plan.who \in Providers
  BY <1>1 DEF Plans
<1>3. Unattributed(plan.published) \in Ownership
  BY <1>2, UnattributedType
<1>4. WishAfter \in [Providers -> Fields]
  BY <1>2 DEF WishAfter, GateTypeOK
<1>5. ManualAfter \in [Providers -> BOOLEAN]
  BY <1>2 DEF ManualAfter, GateTypeOK
<1>6. astray \cup LedAstray \in SUBSET Providers
  BY <1>2 DEF LedAstray, GateTypeOK
<1>7. count' \in [polls : 0..MaxPolls, toggles : 0..MaxToggles,
                  edits : 0..MaxEdits, faults : 0..MaxFaults]
  BY FaultCount DEF Finish, Commit, Refuse, GateFailsLate, CrashBefore,
                    CrashRolledForward, CrashCommitted, GateTypeOK
<1>8. plan' = NoPlan
  BY DEF Finish, Commit, Refuse, GateFailsLate, CrashBefore, CrashRolledForward,
         CrashCommitted, WriteFields
<1>9. CASE Commit
  BY <1>2, <1>4, <1>5, <1>6, <1>7, <1>8, <1>9 DEF Commit, WriteFields, GateTypeOK
<1>10. CASE Refuse
  BY <1>2, <1>7, <1>8, <1>10 DEF Refuse, GateTypeOK
<1>11. CASE GateFailsLate
  BY <1>2, <1>4, <1>7, <1>8, <1>11 DEF GateFailsLate, WriteFields, GateTypeOK
<1>12. CASE CrashBefore
  BY <1>7, <1>8, <1>12 DEF CrashBefore, GateTypeOK
<1>13. CASE CrashRolledForward
  BY <1>2, <1>3, <1>4, <1>6, <1>7, <1>8, <1>13 DEF CrashRolledForward, WriteFields, GateTypeOK
<1>14. CASE CrashCommitted
  BY <1>2, <1>4, <1>5, <1>6, <1>7, <1>8, <1>14 DEF CrashCommitted, WriteFields, GateTypeOK
<1>. QED  BY <1>9, <1>10, <1>11, <1>12, <1>13, <1>14 DEF Finish

\* An edit writes a shape, and so does what it says of the operator's wish.
LEMMA EditType ==
  ASSUME GateTypeOK, NEW p \in Providers, NEW shape \in Fields, Edit(p, shape)
  PROVE  GateTypeOK'
<1>1. (IF Claimed(p) /\ ~Enabled(shape) THEN own[p].base ELSE shape) \in Fields
  BY DEF GateTypeOK, Ownership, Claims, Claimed
<1>2. count' \in [polls : 0..MaxPolls, toggles : 0..MaxToggles,
                  edits : 0..MaxEdits, faults : 0..MaxFaults]
  BY ProviderGateAssumption DEF Edit, GateTypeOK
<1>. QED  BY <1>1, <1>2 DEF Edit, GateTypeOK

\* Every file of well-formed fields is a state to start from.
LEMMA GateTypeInit == GateInit => GateTypeOK
<1> SUFFICES ASSUME GateInit PROVE GateTypeOK
  OBVIOUS
<1>1. obs \in [Providers -> Observations]
  BY DEF GateInit, Observations, Causes
<1>2. own \in Ownership
  BY DEF GateInit, Ownership
<1>3. count \in [polls : 0..MaxPolls, toggles : 0..MaxToggles,
                 edits : 0..MaxEdits, faults : 0..MaxFaults]
  BY ProviderGateAssumption DEF GateInit
<1>. QED  BY <1>1, <1>2, <1>3 DEF GateInit, GateTypeOK

\* No step leaves the types.
LEMMA GateTypeNext == GateTypeOK /\ [GateNext]_gvars => GateTypeOK'
<1> SUFFICES ASSUME GateTypeOK, [GateNext]_gvars PROVE GateTypeOK'
  OBVIOUS
<1>1. CASE UNCHANGED gvars
  BY <1>1 DEF gvars, GateTypeOK
<1>2. ASSUME NEW new \in Polled, ReadGate(new) PROVE GateTypeOK'
  BY <1>2, ReadGateType
<1>3. ASSUME NEW p \in Providers, ReadToggle("disable", p) \/ ReadToggle("enable", p)
      PROVE  GateTypeOK'
  BY <1>3, ReadToggleType
<1>4. ASSUME NEW p \in Providers, NEW shape \in Fields, Edit(p, shape)
      PROVE  GateTypeOK'
  BY <1>4, EditType
<1>5. CASE Finish \/ GateFailsLate \/ CrashBefore \/ CrashRolledForward \/ CrashCommitted
  BY <1>5, EndType
<1>. QED  BY <1>1, <1>2, <1>3, <1>4, <1>5 DEF GateNext

\* Type correctness of the gate: every claim, plan and shape is one the code can
\* write, whatever polls, toggles, edits and faults come in between.
THEOREM GateTypeCorrect == GateSpec => []GateTypeOK
BY GateTypeInit, GateTypeNext, PTL DEF GateSpec

-----------------------------------------------------------------------------
(***************************************************************************)
(* The safety invariant.  A pass is planned from one reading of the file   *)
(* and published against another moment's file: PlanInv says what the plan *)
(* under way still has to do with the claims, marks and observations,      *)
(* which no one changes before it ends, and ShapeInv relates the fields    *)
(* and the claims to what the operator wants, in every state.              *)
(***************************************************************************)
\* One claim is the other, up to its markers.
SameClaim(c, d) == /\ c = NoClaim <=> d = NoClaim
                   /\ c # NoClaim => c.base = d.base

\* What a gate pass without a conflict on p does to p: nothing, take it, give it
\* back, or let go of a claim the operator has already undone.
Planned(p) ==
  \/ SameClaim(plan.published[p], own[p]) /\ plan.write[p] = plan.read[p]
  \/ /\ ~Claimed(p) /\ Enabled(plan.read[p]) /\ plan.write[p] = "off"
     /\ plan.published[p] # NoClaim /\ plan.published[p].base = plan.read[p]
  \/ /\ Claimed(p) /\ ~Enabled(plan.read[p]) /\ plan.write[p] = own[p].base
     /\ plan.published[p] = NoClaim
  \/ /\ Claimed(p) /\ Enabled(plan.read[p]) /\ plan.write[p] = plan.read[p]
     /\ plan.published[p] = NoClaim

GatePlanInv ==
  IsGate =>
    \A p \in Providers :
      /\ p \notin plan.conflicts => Planned(p)
      /\ Claimed(p) /\ Enabled(plan.read[p]) => plan.write[p] = plan.read[p]
      /\ manual[p] /\ ~Enabled(plan.read[p]) => ~Enabled(plan.write[p])

\* A claim of the signal axis leaves an enabled provider in the pool, unless it
\* is another axis that gates now.
PoolInv ==
  IsGate /\ plan.conflicts = {} =>
    \A p \in Providers :
      plan.published[p] # NoClaim /\ plan.published[p].axis = "signal" /\ ~DurableGate(p) =>
        \E q \in Pool(p) : Enabled(plan.write[q])

TogglePlanInv ==
  plan # NoPlan /\ ~IsGate =>
    /\ \A p \in Providers \ {plan.who} :
         plan.write[p] = plan.read[p] /\ plan.published[p] = own[p]
    /\ plan.kind = "disable" =>
         /\ plan.write[plan.who] = "off"
         /\ plan.published[plan.who] # NoClaim
         /\ plan.published[plan.who].base = plan.read[plan.who]
    /\ plan.kind = "enable" =>
         /\ plan.published[plan.who] = NoClaim
         /\ Claimed(plan.who) => plan.write[plan.who] = own[plan.who].base

RefusedInv == plan # NoPlan => \A p \in Providers : SameClaim(plan.refused[p], own[p])

PlanInv == GatePlanInv /\ PoolInv /\ TogglePlanInv /\ RefusedInv

\* The operator's shape is in the field, or in the claim when quota holds it off.
Kept(p) ==
  IF Claimed(p) /\ ~Enabled(field[p]) THEN own[p].base = wish[p] ELSE field[p] = wish[p]
ShapeInv == \A p \in Providers \ astray : Kept(p)

GateInv == GateTypeOK /\ PlanInv /\ ShapeInv

\* The plan under way says nothing about the fields as they are now.
LEMMA PlanFrame ==
  ASSUME PlanInv, UNCHANGED <<obs, manual, own, plan>>
  PROVE  PlanInv'
<1>1. GatePlanInv'
  BY DEF PlanInv, GatePlanInv, Planned, Claimed, IsGate
<1>2. PoolInv'
  BY DEF PlanInv, PoolInv, DurableGate, Mode, Pool, IsGate
<1>3. TogglePlanInv' /\ RefusedInv'
  BY DEF PlanInv, TogglePlanInv, RefusedInv, Claimed, IsGate
<1>. QED  BY <1>1, <1>2, <1>3 DEF PlanInv

\* When no plan is under way there is nothing to keep.
LEMMA NothingPlanned ==
  ASSUME plan' = NoPlan
  PROVE  PlanInv'
BY DEF PlanInv, GatePlanInv, PoolInv, TogglePlanInv, RefusedInv, IsGate

\* A provider with a manual mark is gated, whatever exempts it.
LEMMA ManualGates ==
  ASSUME GateTypeOK, NEW p \in Providers, manual[p]
  PROVE  DurableGate(p)
<1>1. Mode(p) = "disabled"
  BY DEF Mode, GateTypeOK
<1>. QED  BY <1>1 DEF DurableGate

\* planProviderGate's cases exclude one another; a claimed field that no case
\* changes is held, released or in conflict.
LEMMA PlannedCases ==
  ASSUME GateTypeOK, NEW p \in Providers
  PROVE  /\ p \notin Conflicts =>
              \/ /\ SameClaim(PublishedOwnership[p], own[p]) /\ Candidate[p] = field[p]
              \/ /\ ~Claimed(p) /\ Enabled(field[p]) /\ Candidate[p] = "off"
                 /\ PublishedOwnership[p] # NoClaim /\ PublishedOwnership[p].base = field[p]
              \/ /\ Claimed(p) /\ ~Enabled(field[p]) /\ Candidate[p] = own[p].base
                 /\ PublishedOwnership[p] = NoClaim
              \/ /\ Claimed(p) /\ Enabled(field[p]) /\ Candidate[p] = field[p]
                 /\ PublishedOwnership[p] = NoClaim
         /\ Claimed(p) /\ Enabled(field[p]) => Candidate[p] = field[p]
         /\ manual[p] /\ ~Enabled(field[p]) => ~Enabled(Candidate[p])
<1>1. CASE p \in Disables
  <2>1. ~Claimed(p) /\ Enabled(field[p]) /\ p \notin Conflicts
    BY <1>1 DEF Disables, Conflicts
  <2>2. Candidate[p] = "off"
    BY <1>1, <2>1 DEF Candidate, Restores
  <2>3. PublishedOwnership[p] = [base |-> field[p], axis |-> Axis(p), conflict |-> FALSE]
    BY <1>1, <2>1 DEF PublishedOwnership, Conflicts, Holds, Restores, Releases
  <2>4. field[p] \in Fields /\ Axis(p) \in Axes
    BY AxisType DEF GateTypeOK
  <2>5. PublishedOwnership[p] # NoClaim
    <3>1. PublishedOwnership[p] \in Claims
      BY <2>3, <2>4 DEF Claims
    <3>. QED  BY <3>1, NotAClaim
  <2>6. PublishedOwnership[p].base = field[p]
    BY <2>3
  <2>7. ~Enabled(Candidate[p])
    BY <2>2 DEF Enabled
  <2>. QED  BY <2>1, <2>2, <2>5, <2>6, <2>7
<1>2. CASE p \in Restores
  <2>1. Claimed(p) /\ ~Enabled(field[p]) /\ ~manual[p]
    BY <1>2, ManualGates DEF Restores, Gates
  <2>2. Candidate[p] = own[p].base
    BY <1>2, <2>1 DEF Candidate, Disables
  <2>3. PublishedOwnership[p] = NoClaim
    BY <1>2, <2>1 DEF PublishedOwnership, Conflicts, Disables, Holds, Restores
  <2>. QED  BY <2>1, <2>2, <2>3
<1>3. CASE p \notin Disables \cup Restores
  <2>1. Candidate[p] = field[p]
    BY <1>3 DEF Candidate
  <2>2. CASE p \in Conflicts
    BY <2>1, <2>2
  <2>3. CASE p \in Releases
    <3>1. Claimed(p) /\ Enabled(field[p])
      BY <2>3 DEF Releases
    <3>2. p \notin Conflicts => PublishedOwnership[p] = NoClaim
      BY <1>3, <2>3 DEF PublishedOwnership, Holds, Releases
    <3>. QED  BY <2>1, <3>1, <3>2
  <2>4. CASE p \in Holds
    <3>1. Claimed(p) /\ HeldClaim(p).base = own[p].base /\ HeldClaim(p) # NoClaim
      BY <2>4, HeldClaimType, NotAClaim DEF Holds
    <3>2. p \notin Conflicts => PublishedOwnership[p] = HeldClaim(p)
      BY <1>3, <2>4 DEF PublishedOwnership, Holds, Releases
    <3>. QED  BY <2>1, <3>1, <3>2 DEF SameClaim, Claimed
  <2>5. CASE p \notin Conflicts \cup Releases \cup Holds
    <3>1. PublishedOwnership[p] = own[p]
      BY <1>3, <2>5 DEF PublishedOwnership
    <3>. QED  BY <2>1, <3>1 DEF SameClaim
  <2>. QED  BY <2>2, <2>3, <2>4, <2>5
<1>. QED  BY <1>1, <1>2, <1>3

\* signalPoolRule: when nothing conflicts, a provider that a pass claims for the
\* signal axis and no other axis gates is one of a pool with a member that is
\* enabled, that no axis gates, and that the pass therefore leaves alone.
LEMMA PoolKept ==
  ASSUME GateTypeOK, Conflicts = {}, NEW p \in Providers,
         PublishedOwnership[p] # NoClaim, PublishedOwnership[p].axis = "signal",
         ~DurableGate(p)
  PROVE  \E q \in Pool(p) : Enabled(Candidate[q])
<1>1. SignalGate(p)
  <2>1. CASE p \in Disables
    BY <2>1 DEF Disables, Gates
  <2>2. CASE p \in Holds
    BY <2>2 DEF Holds, Gates
  <2>3. CASE p \in Restores \cup Releases
    <3>1. PublishedOwnership[p] = NoClaim
      BY <2>3 DEF PublishedOwnership, Conflicts, Disables, Holds, Restores, Releases
    <3>. QED  BY <3>1
  <2>4. CASE p \notin Disables \cup Holds \cup Restores \cup Releases
    <3>1. PublishedOwnership[p] = own[p]
      BY <2>4 DEF PublishedOwnership
    <3>2. Claimed(p)
      BY <3>1 DEF Claimed
    <3>. QED  BY <2>4, <3>2 DEF Conflicts, Holds, Restores, Releases
  <2>. QED  BY <2>1, <2>2, <2>3, <2>4
<1>2. ~PoolSkip(p) /\ obs[p].hot
  BY <1>1 DEF SignalGate
<1>3. PICK q \in Pool(p) : Enabled(field[q]) /\ ~DurableGate(q) /\ ~obs[q].hot
  BY <1>2 DEF PoolSkip
<1>4. q \in Providers /\ ~Gates(q)
  BY <1>3 DEF Pool, Gates, SignalGate
<1>5. q \notin Disables /\ q \notin Restores
  BY <1>3, <1>4 DEF Disables, Restores
<1>6. Candidate[q] = field[q]
  BY <1>4, <1>5 DEF Candidate
<1>. QED  BY <1>3, <1>6

\* What a pass plans is in the relation of PlanInv to the claims, marks and
\* observations it was derived from, which are still those of the state.
LEMMA ReadGateInv ==
  ASSUME GateInv, NEW new \in Polled, ReadGate(new)
  PROVE  PlanInv' /\ ShapeInv'
<1>0. GateTypeOK
  BY DEF GateInv
<1>1. ShapeInv'
  BY DEF GateInv, ShapeInv, Kept, Claimed, ReadGate
<1>2. /\ IsGate' /\ plan' # NoPlan
      /\ plan'.read = field /\ plan'.write = Candidate /\ plan'.conflicts = Conflicts
      /\ plan'.published = PublishedOwnership /\ plan'.refused = RefusalOwnership
  <2>1. plan' # NoPlan
    BY DEF ReadGate, NoPlan
  <2>. QED  BY <2>1 DEF ReadGate, IsGate
<1>3. UNCHANGED <<field, obs, manual, own>>
  BY DEF ReadGate
<1>4. GatePlanInv'
  <2> SUFFICES ASSUME NEW p \in Providers
               PROVE  /\ p \notin plan'.conflicts => Planned(p)'
                      /\ Claimed(p)' /\ Enabled(plan'.read[p]) => plan'.write[p] = plan'.read[p]
                      /\ manual'[p] /\ ~Enabled(plan'.read[p]) => ~Enabled(plan'.write[p])
    BY DEF GatePlanInv
  <2>. QED  BY <1>0, <1>2, <1>3, PlannedCases DEF Planned, Claimed
<1>5. PoolInv'
  <2>1. \A p \in Providers : DurableGate(p)' <=> DurableGate(p)
    BY <1>3 DEF DurableGate, Mode
  <2>. QED  BY <1>0, <1>2, <2>1, PoolKept DEF PoolInv, Pool
<1>6. TogglePlanInv'
  BY <1>2 DEF TogglePlanInv
<1>7. RefusedInv'
  <2> SUFFICES ASSUME NEW p \in Providers
               PROVE  SameClaim(RefusalOwnership[p], own[p])
    BY <1>2, <1>3 DEF RefusedInv
  <2>1. p \in Conflicts \cup Holds \cup Releases => Claimed(p)
    BY DEF Conflicts, Holds, Releases
  <2>2. Claimed(p) =>
          \A b \in BOOLEAN : SameClaim([own[p] EXCEPT !.conflict = b], own[p])
    <3> SUFFICES ASSUME Claimed(p), NEW b \in BOOLEAN
                 PROVE  SameClaim([own[p] EXCEPT !.conflict = b], own[p])
      OBVIOUS
    <3>1. own[p] \in Claims
      BY <1>0 DEF GateTypeOK, Ownership, Claimed
    <3>2. /\ [own[p] EXCEPT !.conflict = b] \in Claims
          /\ [own[p] EXCEPT !.conflict = b].base = own[p].base
      BY <3>1 DEF Claims
    <3>. QED  BY <3>1, <3>2, NotAClaim DEF SameClaim
  <2>3. p \in Holds => SameClaim(HeldClaim(p), own[p])
    BY <1>0, <2>1, HeldClaimType, NotAClaim DEF SameClaim, Claimed
  <2>4. RefusalOwnership[p] = CASE p \in Conflicts -> [own[p] EXCEPT !.conflict = TRUE]
                                [] p \in Holds     -> HeldClaim(p)
                                [] p \in Releases  -> [own[p] EXCEPT !.conflict = FALSE]
                                [] OTHER -> own[p]
    BY DEF RefusalOwnership
  <2>5. SameClaim(own[p], own[p])
    BY DEF SameClaim
  <2>. QED  BY <2>1, <2>2, <2>3, <2>4, <2>5
<1>. QED  BY <1>1, <1>4, <1>5, <1>6, <1>7 DEF PlanInv

\* What a toggle plans is in the relation of PlanInv to the claims it was read with.
LEMMA ReadToggleInv ==
  ASSUME GateInv, NEW kind \in {"disable", "enable"}, NEW p \in Providers,
         ReadToggle(kind, p)
  PROVE  PlanInv' /\ ShapeInv'
<1>0. GateTypeOK
  BY DEF GateInv
<1>1. ShapeInv'
  BY DEF GateInv, ShapeInv, Kept, Claimed, ReadToggle
<1>2. UNCHANGED <<own, manual, obs>>
  BY DEF ReadToggle
<1>3. ~IsGate'
  BY DEF ReadToggle, IsGate
<1>4. TogglePlanInv'
  <2> DEFINE claim == [base |-> field[p], axis |-> "disabled", conflict |-> FALSE]
  <2>1. claim # NoClaim
    <3>1. claim \in Claims
      BY <1>0 DEF GateTypeOK, Claims, Axes
    <3>. QED  BY <3>1, NotAClaim
  <2>2. /\ plan'.kind = kind /\ plan'.who = p /\ plan'.read = field
        /\ plan'.write = [field EXCEPT ![p] = ToggleShape(kind, p)]
        /\ plan'.published = [own EXCEPT ![p] = IF kind = "disable" THEN claim ELSE NoClaim]
    BY DEF ReadToggle
  <2>3. /\ plan'.write[p] = ToggleShape(kind, p)
        /\ plan'.published[p] = IF kind = "disable" THEN claim ELSE NoClaim
        /\ \A q \in Providers \ {p} : plan'.write[q] = field[q] /\ plan'.published[q] = own[q]
    BY <1>0, <2>2 DEF GateTypeOK, Ownership
  <2>4. claim.base = field[p]
    OBVIOUS
  <2> HIDE DEF claim
  <2>. QED  BY <1>2, <2>1, <2>2, <2>3, <2>4 DEF TogglePlanInv, ToggleShape, Claimed
<1>5. RefusedInv'
  BY <1>2 DEF ReadToggle, RefusedInv, SameClaim
<1>. QED  BY <1>1, <1>3, <1>4, <1>5 DEF PlanInv, GatePlanInv, PoolInv

\* The file is replaced by what was planned: for a pass that is what the fields
\* as they are now call for, and a toggle's other fields are as they were read or
\* the provider is astray.
LEMMA PublishInv ==
  ASSUME GateInv, Publishable, WriteFields,
         own' = plan.published \/ own' = Unattributed(plan.published),
         astray' = astray \cup LedAstray
  PROVE  ShapeInv'
<1>0. GateTypeOK /\ PlanInv /\ ShapeInv
  BY DEF GateInv
<1>1. plan \in Plans /\ plan # NoPlan /\ plan.conflicts = {} /\ InputCurrent
  BY <1>0 DEF GateTypeOK, Publishable
<1>2. plan.published \in Ownership /\ plan.write \in [Providers -> Fields]
  BY <1>1 DEF Plans
<1>3. \A p \in Providers : SameClaim(own'[p], plan.published[p])
  <2> SUFFICES ASSUME NEW p \in Providers, own' = Unattributed(plan.published),
                      plan.published[p] # NoClaim
               PROVE  SameClaim(own'[p], plan.published[p])
    BY DEF SameClaim, Unattributed
  <2>1. plan.published[p] \in Claims
    BY <1>2 DEF Ownership
  <2>2. own'[p] = [plan.published[p] EXCEPT !.axis = "legacy"]
    BY DEF Unattributed
  <2>3. own'[p] \in Claims /\ own'[p].base = plan.published[p].base
    BY <2>1, <2>2 DEF Claims, Axes
  <2>. QED  BY <2>1, <2>3, NotAClaim DEF SameClaim
<1> SUFFICES ASSUME NEW p \in Providers \ astray' PROVE Kept(p)'
  BY DEF ShapeInv
<1>4. Kept(p) /\ p \notin LedAstray /\ field[p] = plan.read[p]
  BY <1>0 DEF ShapeInv, LedAstray
<1>5. field'[p] = plan.write[p] /\ wish' = WishAfter
  BY DEF WriteFields
<1>6. CASE IsGate
  <2>1. wish' = wish
    BY <1>5, <1>6 DEF WishAfter, IsGate
  <2>2. Planned(p)
    BY <1>0, <1>1, <1>6 DEF PlanInv, GatePlanInv
  <2>3. SameClaim(own'[p], plan.published[p])
    BY <1>3
  <2>. QED  BY <1>4, <1>5, <2>1, <2>2, <2>3 DEF Planned, Kept, Claimed, SameClaim, Enabled
<1>7. CASE ~IsGate /\ p # plan.who
  <2>1. plan.write[p] = plan.read[p] /\ plan.published[p] = own[p]
    BY <1>0, <1>1, <1>7 DEF PlanInv, TogglePlanInv
  <2>2. wish'[p] = wish[p]
    BY <1>0, <1>5, <1>7 DEF WishAfter, GateTypeOK
  <2>3. SameClaim(own'[p], own[p])
    BY <1>3, <2>1
  <2>. QED  BY <1>4, <1>5, <2>1, <2>2, <2>3 DEF Kept, Claimed, SameClaim
<1>8. CASE ~IsGate /\ p = plan.who /\ plan.kind = "disable"
  <2>1. /\ plan.write[p] = "off" /\ plan.published[p] # NoClaim
        /\ plan.published[p].base = plan.read[p]
    BY <1>0, <1>1, <1>8 DEF PlanInv, TogglePlanInv
  <2>2. wish' = wish
    BY <1>5, <1>8 DEF WishAfter
  <2>3. ~(Claimed(p) /\ ~Enabled(field[p]))
    BY <1>4, <1>8 DEF LedAstray
  <2>4. own'[p] # NoClaim /\ own'[p].base = plan.published[p].base
    BY <1>3, <2>1 DEF SameClaim
  <2>. QED  BY <1>4, <1>5, <2>1, <2>2, <2>3, <2>4 DEF Kept, Claimed, Enabled
<1>9. CASE ~IsGate /\ p = plan.who /\ plan.kind = "enable"
  <2>1. /\ plan.published[p] = NoClaim
        /\ Claimed(p) => plan.write[p] = own[p].base
    BY <1>0, <1>1, <1>9 DEF PlanInv, TogglePlanInv
  <2>2. own'[p] = NoClaim
    BY <1>3, <2>1 DEF SameClaim
  <2>3. CASE Claimed(p) /\ ~Enabled(plan.read[p])
    <3>1. wish' = wish
      BY <1>5, <1>9, <2>3 DEF WishAfter
    <3>. QED  BY <1>4, <1>5, <2>1, <2>2, <2>3, <3>1 DEF Kept, Claimed
  <2>4. CASE ~Claimed(p) \/ Enabled(plan.read[p])
    <3>1. wish'[p] = plan.write[p]
      BY <1>0, <1>5, <1>9, <2>4 DEF WishAfter, GateTypeOK
    <3>. QED  BY <1>5, <2>2, <3>1 DEF Kept, Claimed
  <2>. QED  BY <2>3, <2>4
<1>10. plan.kind \in {"gate", "disable", "enable"}
  BY <1>1 DEF Plans
<1>. QED  BY <1>1, <1>6, <1>7, <1>8, <1>9, <1>10 DEF IsGate

\* Every outcome of a plan keeps the operator's shapes, or leads a provider astray.
LEMMA EndInv ==
  ASSUME GateInv,
         Finish \/ GateFailsLate \/ CrashBefore \/ CrashRolledForward \/ CrashCommitted
  PROVE  PlanInv' /\ ShapeInv'
<1>0. GateTypeOK /\ PlanInv /\ ShapeInv
  BY DEF GateInv
<1>1. plan' = NoPlan
  BY DEF Finish, Commit, Refuse, GateFailsLate, CrashBefore, CrashRolledForward,
         CrashCommitted, WriteFields
<1>2. PlanInv'
  BY <1>1, NothingPlanned
<1>3. CASE Commit \/ CrashRolledForward \/ CrashCommitted
  BY <1>2, <1>3, PublishInv DEF Commit, CrashRolledForward, CrashCommitted
<1>4. CASE Refuse
  <2>1. UNCHANGED <<field, wish, astray>> /\ \A p \in Providers : SameClaim(own'[p], own[p])
    BY <1>0, <1>4 DEF Refuse, PlanInv, RefusedInv
  <2>. QED  BY <1>0, <1>2, <2>1 DEF ShapeInv, Kept, Claimed, SameClaim
<1>5. CASE GateFailsLate
  <2>1. plan # NoPlan /\ IsGate /\ field = plan.read
    BY <1>5 DEF GateFailsLate, Publishable, InputCurrent
  <2>2. \A p \in Providers : SameClaim(own'[p], own[p])
    BY <1>0, <1>5, <2>1 DEF GateFailsLate, PlanInv, RefusedInv
  <2>3. wish' = wish
    BY <1>5, <2>1 DEF GateFailsLate, WriteFields, WishAfter, IsGate
  <2>4. \A p \in Providers \ astray' : field'[p] = field[p] /\ p \notin astray
    BY <1>5, <2>1 DEF GateFailsLate, WriteFields
  <2>. QED  BY <1>0, <1>2, <2>2, <2>3, <2>4 DEF ShapeInv, Kept, Claimed, SameClaim
<1>6. CASE CrashBefore
  BY <1>0, <1>2, <1>6 DEF CrashBefore, ShapeInv, Kept, Claimed
<1>. QED  BY <1>2, <1>3, <1>4, <1>5, <1>6 DEF Finish

\* An edit gives a field the shape the operator wants, or the claim stands for it.
LEMMA EditInv ==
  ASSUME GateInv, NEW p \in Providers, NEW shape \in Fields, Edit(p, shape)
  PROVE  PlanInv' /\ ShapeInv'
<1>0. GateTypeOK /\ PlanInv /\ ShapeInv
  BY DEF GateInv
<1>1. PlanInv'
  BY <1>0, PlanFrame DEF Edit
<1>2. ASSUME NEW q \in Providers \ astray'
      PROVE  Kept(q)'
  <2>1. Kept(q) /\ own' = own
    BY <1>0 DEF ShapeInv, Edit
  <2>2. CASE q # p
    <3>1. field'[q] = field[q] /\ wish'[q] = wish[q]
      BY <1>0, <2>2 DEF Edit, GateTypeOK
    <3>. QED  BY <2>1, <3>1 DEF Kept, Claimed
  <2>3. CASE q = p
    <3>1. /\ field'[p] = shape
          /\ wish'[p] = IF Claimed(p) /\ ~Enabled(shape) THEN own[p].base ELSE shape
      BY <1>0 DEF Edit, GateTypeOK
    <3>. QED  BY <2>1, <2>3, <3>1 DEF Kept, Claimed
  <2>. QED  BY <2>2, <2>3
<1>. QED  BY <1>1, <1>2 DEF ShapeInv

\* Every state to start from satisfies the invariant.
LEMMA GateInvInit == GateInit => GateInv
<1> SUFFICES ASSUME GateInit PROVE GateInv
  OBVIOUS
<1>1. PlanInv
  BY DEF GateInit, PlanInv, GatePlanInv, PoolInv, TogglePlanInv, RefusedInv, IsGate
<1>2. ShapeInv
  BY DEF GateInit, ShapeInv, Kept, Claimed
<1>. QED  BY <1>1, <1>2, GateTypeInit DEF GateInv

\* No step breaks the invariant.
LEMMA GateInvNext == GateInv /\ [GateNext]_gvars => GateInv'
<1> SUFFICES ASSUME GateInv, [GateNext]_gvars PROVE GateInv'
  OBVIOUS
<1>1. GateTypeOK'
  BY GateTypeNext DEF GateInv
<1>2. CASE UNCHANGED gvars
  <2>1. PlanInv'
    BY <1>2, PlanFrame DEF gvars, GateInv
  <2>2. ShapeInv'
    BY <1>2 DEF gvars, GateInv, ShapeInv, Kept, Claimed
  <2>. QED  BY <1>1, <2>1, <2>2 DEF GateInv
<1>3. ASSUME NEW new \in Polled, ReadGate(new) PROVE GateInv'
  BY <1>1, <1>3, ReadGateInv DEF GateInv
<1>4. ASSUME NEW p \in Providers, ReadToggle("disable", p) \/ ReadToggle("enable", p)
      PROVE  GateInv'
  <2>1. PlanInv' /\ ShapeInv'
    BY <1>4, ReadToggleInv
  <2>. QED  BY <1>1, <2>1 DEF GateInv
<1>5. ASSUME NEW p \in Providers, NEW shape \in Fields, Edit(p, shape)
      PROVE  GateInv'
  BY <1>1, <1>5, EditInv DEF GateInv
<1>6. CASE Finish \/ GateFailsLate \/ CrashBefore \/ CrashRolledForward \/ CrashCommitted
  BY <1>1, <1>6, EndInv DEF GateInv
<1>. QED  BY <1>2, <1>3, <1>4, <1>5, <1>6 DEF GateNext

\* What a plan still has to do with the claims, and what the fields and claims
\* have to do with the operator's wishes.
THEOREM GateInvariant == GateSpec => []GateInv
BY GateInvInit, GateInvNext, PTL DEF GateSpec

\* quota gives back what it takes: the shapes the operator gave are in the fields
\* or in the claims, whatever passes, toggles, edits and crashes come between.
THEOREM OperatorShapeKeptHolds == GateSpec => []OperatorShapeKept
<1>1. GateInv => OperatorShapeKept
  BY DEF GateInv, ShapeInv, Kept, OperatorShapeKept
<1>. QED  BY <1>1, GateInvariant, PTL

\* A pass ends without touching the file, or by writing what it planned over the
\* fields it read.
LEMMA PassEffect ==
  ASSUME GateInv, [GateNext]_gvars, PassEnds
  PROVE  field' = field \/ (field = plan.read /\ field' = plan.write)
<1>0. plan' # plan
  BY DEF PassEnds, IsGate
<1>1. CASE Finish \/ GateFailsLate \/ CrashBefore \/ CrashRolledForward \/ CrashCommitted
  BY <1>1 DEF Finish, Commit, Refuse, GateFailsLate, CrashBefore, CrashRolledForward,
              CrashCommitted, WriteFields, Publishable, InputCurrent, PassEnds
<1>. QED  BY <1>0, <1>1 DEF GateNext, gvars, ReadGate, ReadToggle, Edit

\* A field the operator has turned back on under a claim is never turned off again
\* by a pass, even when the edit falls between its reading and its end.
THEOREM ConflictRespectedHolds == GateSpec => ConflictRespected
<1>1. GateInv /\ [GateNext]_gvars =>
        \A p \in Providers :
          PassEnds /\ Claimed(p) /\ Enabled(field[p]) => Enabled(field'[p])
  <2> SUFFICES ASSUME GateInv, [GateNext]_gvars, NEW p \in Providers,
                      PassEnds, Claimed(p), Enabled(field[p])
               PROVE  Enabled(field'[p])
    OBVIOUS
  <2>1. Enabled(plan.read[p]) => plan.write[p] = plan.read[p]
    BY DEF GateInv, PlanInv, GatePlanInv, PassEnds
  <2>. QED  BY <2>1, PassEffect
<1>. QED  BY <1>1, GateInvariant, PTL DEF GateSpec, ConflictRespected

\* A provider with a manual mark that is off stays off whatever a pass does.
THEOREM NoPassLiftsManualDisable == GateSpec => ManualDisableHolds
<1>1. GateInv /\ [GateNext]_gvars =>
        \A p \in Providers :
          PassEnds /\ manual[p] /\ ~Enabled(field[p]) => ~Enabled(field'[p])
  <2> SUFFICES ASSUME GateInv, [GateNext]_gvars, NEW p \in Providers,
                      PassEnds, manual[p], ~Enabled(field[p])
               PROVE  ~Enabled(field'[p])
    OBVIOUS
  <2>1. ~Enabled(plan.read[p]) => ~Enabled(plan.write[p])
    BY DEF GateInv, PlanInv, GatePlanInv, PassEnds
  <2>. QED  BY <2>1, PassEffect
<1>. QED  BY <1>1, GateInvariant, PTL DEF GateSpec, ManualDisableHolds

\* The signal axis leaves every pool an enabled provider.
THEOREM PoolKeepsOneHolds == GateSpec => PoolKeepsOne
<1>1. GateInv /\ [GateNext]_gvars =>
        (IsGate /\ Commit =>
          \A p \in Providers :
            own'[p] # NoClaim /\ own'[p].axis = "signal" /\ ~DurableGate(p) =>
              \E q \in Pool(p) : Enabled(field'[q]))
  BY DEF GateInv, PlanInv, PoolInv, Commit, Publishable, WriteFields
<1>. QED  BY <1>1, GateInvariant, PTL DEF GateSpec, PoolKeepsOne
=============================================================================
