------------------------------ MODULE PolicyFile ------------------------------
(***************************************************************************)
(* internal/policy: desired.yaml.  What it may say and what it is taken to *)
(* mean (load.go), what init proposes from the live configuration and how  *)
(* it is written (import.go, source_reader.go), and the commands that      *)
(* replace the file: init, init --provider-only and routing on or off.     *)
(*                                                                         *)
(* A document is a record of what its keys hold, None where a key is       *)
(* absent.  A reference to a model is its base and whether its spelling is *)
(* plain, has a reasoning suffix, or is broken.  Strings are members of    *)
(* small sets, and the durations of the operational section are one.       *)
(***************************************************************************)
EXTENDS PolicyTypes

CONSTANTS
  Adapters,      \* names of the quota adapters
  Budgeted,      \* the adapter that measures spend against a budget
  Subscription,  \* and the one it becomes in subscription mode
  MaxOnChangeActions,  \* the most on_change actions
  Patterns,      \* names of models that are empty or hold a wildcard
  NamedUnder,      \* for each model, the providers whose name and a slash start it
  Lives,         \* live configurations
  Documents,     \* what an operator may write into desired.yaml
  MaxWrites      \* bound: writes of the operator and starts of commands

VARIABLES
  file,       \* desired.yaml
  preserved,  \* desired.yaml.before-provider-only
  live,       \* the live configuration
  job,        \* the command that holds the lock
  writes

pvars == <<file, preserved, live, job, writes>>

NoFile  == [absent |-> TRUE]

Fields == {"full", "mini", "nano", "classifier"}
Entries(chains) == UNION {ToSet(chains[f]) : f \in DOMAIN chains}

-----------------------------------------------------------------------------
(***************************************************************************)
(* Documents and live configurations.                                      *)
(***************************************************************************)
\* What is written, the words that are looked for or filled in among them.
Text == STRING \cup {"default", "documented", "global", "malformed", "provider-only"}

References == [base : Text, form : {"plain", "suffix", "broken"}]
Chains == [Fields -> Seq(References)]
Definitions == Seq([path : Text, chain : Seq(References)])
Targets == [id : Maybe(Text), root : Maybe(Text), chains : Chains, definitions : Definitions]
GateKeys == [enabled : Maybe(BOOLEAN), threshold : Maybe(Int)]
QuotaKeys ==
  [adapter : Maybe(Text), mode : Maybe(Text), budget : Maybe(Int), group : Maybe(Text), weight : Maybe(Int),
   peaks : Maybe(SUBSET PeakHours), gate : Maybe(GateKeys), exempt : Maybe(BOOLEAN)]
SelectionKeys == [enabled : Maybe(BOOLEAN), pin : Maybe(Text), timeout : Maybe(Int)]
OperationalKeys ==
  [duration : Maybe(Int), backups : Maybe(Int), actions : Seq([absolute : BOOLEAN, timeout : Maybe(Int)])]

\* The quota of a loaded policy.
Quotas ==
  [adapter : Adapters, budget : Int, group : Text, weight : Int, schedule : Maybe(SUBSET PeakHours),
   gate : [on : BOOLEAN, threshold : Int], exempt : BOOLEAN]

IsDocument(doc) ==
  /\ doc \in [version : Int, mode : Maybe(Text), operational : Maybe(OperationalKeys), routing : Maybe(BOOLEAN),
              selection : Maybe(SelectionKeys), providers : {doc.providers}, global : Maybe(Targets),
              projects : Seq(Targets)]
  /\ \A id \in DOMAIN doc.providers :
       id \in Text /\ doc.providers[id].keep \in BOOLEAN /\ doc.providers[id].quota \in Maybe(QuotaKeys)

\* A root: its chains and its definitions.
IsSource(source) == source.chains \in Chains /\ source.definitions \in Definitions

IsLive(l) ==
  /\ IsFiniteSet(l.providers) /\ l.providers \subseteq Text
  /\ IsFiniteSet(DOMAIN l.models) /\ \A model \in DOMAIN l.models : l.models[model] \in Maybe(BOOLEAN)
  /\ l.root \in Text /\ IsSource(l.global)
  /\ \A root \in DOMAIN l.projects : root \in Text /\ IsSource(l.projects[root])

\* An absent key is no value, and the adapters are two or more.
ASSUME PolicyAssumption ==
  /\ None \notin BOOLEAN /\ None \notin Int /\ None \notin Text
  /\ None \notin Targets /\ None \notin Quotas /\ None \notin QuotaKeys /\ None \notin GateKeys
  /\ None \notin SelectionKeys /\ None \notin OperationalKeys
  /\ None # Refused
  /\ Adapters \subseteq Text /\ {Budgeted, Subscription} \subseteq Adapters /\ Budgeted # Subscription
  /\ Day \in Int /\ MaxOnChangeActions \in Nat
  /\ \A doc \in Documents : IsDocument(doc)
  /\ \A l \in Lives : IsLive(l)

-----------------------------------------------------------------------------
(***************************************************************************)
(* Loading.                                                                *)
(***************************************************************************)
Names(mapping) == {mapping.models[i].name : i \in DOMAIN mapping.models}
OwnersOf(providers, model) == {id \in DOMAIN providers : model \in Names(providers[id])}

\* loadBytes: what makes the models of the mappings unusable.
ModelsRefused(providers) ==
  \E id \in DOMAIN providers : LET mw == providers[id] IN
    \/ mw.models = <<>> \/ Names(mw) \cap Patterns # {}
    \/ Cardinality(Names(mw)) < Len(mw.models)
    \/ \E model \in Names(mw) : OwnersOf(providers, model) # {id}

Baselines(mw) ==
  [model \in Names(mw) |->
     LET e == mw.models[CHOOSE i \in DOMAIN mw.models : mw.models[i].name = model].enabled IN
     [enabled |-> Default(e, TRUE), key |-> e # None]]

\* quotaFromWire.  explicit is the adapter of a provider-only enrollment, or None.
QuotaFromWire(id, explicit, w) ==
  LET adapter == Default(explicit, id)
      mode == IF adapter = Subscription THEN "subscription" ELSE Default(w.mode, "api") IN
  IF \/ adapter \notin Adapters
     \/ explicit = None /\ w.gate # None
     \/ w.mode # None /\ adapter # Budgeted
     \/ mode \notin {"api", "subscription"}
     \/ mode = "subscription" /\ w.budget # None
     \/ w.budget # None /\ w.budget < 0
     \/ adapter = Budgeted /\ mode = "api" /\ Default(w.budget, 0) = 0
     \/ w.peaks # None /\ PeaksRefused(w.peaks)
     \/ w.gate # None /\ Default(w.gate.threshold, 0) > 0
  THEN Refused
  ELSE [adapter  |-> IF mode = "subscription" THEN Subscription ELSE adapter,
        budget   |-> Default(w.budget, 0),
        group    |-> Default(w.group, "default"),
        weight   |-> IF w.weight \in {None, 0} THEN 1 ELSE w.weight,
        schedule |-> IF w.peaks = None THEN None ELSE OffPeakWindows(w.peaks),
        gate     |-> IF w.gate = None THEN [on |-> TRUE, threshold |-> 0]
                     ELSE [on |-> Default(w.gate.enabled, TRUE), threshold |-> Default(w.gate.threshold, 0)],
        exempt   |-> w.exempt = FALSE]

NoQuota == [adapter |-> None, mode |-> None, budget |-> None, group |-> None, weight |-> None,
            peaks |-> None, gate |-> None, exempt |-> None]

\* The quota of a legacy mapping: its name selects the adapter, and an adapter
\* needs no section, except for the one that needs a budget.
LegacyQuota(id, w) ==
  IF id \in Adapters
  THEN IF id = Budgeted /\ w \in {None, NoQuota} THEN None ELSE QuotaFromWire(id, None, Default(w, NoQuota))
  ELSE IF w = None THEN None ELSE QuotaFromWire(id, None, w)

\* The quota of an enrolled provider names its adapter.
EnrolledQuota(id, w) ==
  IF w = None THEN None
  ELSE IF w.adapter = None THEN Refused ELSE QuotaFromWire(id, w.adapter, w)

\* selectionFromWire.
DefaultSelection == [enabled |-> FALSE, pin |-> "documented", timeout |-> 10]
Selection(w) ==
  IF w = None THEN DefaultSelection
  ELSE IF w.pin = "malformed" \/ (w.timeout # None /\ w.timeout <= 0) THEN Refused
  ELSE [enabled |-> Default(w.enabled, FALSE), pin |-> Default(w.pin, "documented"), timeout |-> Default(w.timeout, 10)]

\* operationalFromWire, onChangeFromWire.
DefaultOperational == [duration |-> 30, backups |-> 1, actions |-> <<>>]
Operational(w) ==
  IF w = None THEN DefaultOperational
  ELSE IF \/ Default(w.duration, 30) <= 0 \/ Default(w.backups, 1) <= 0
          \/ Len(w.actions) > MaxOnChangeActions
          \/ \E i \in DOMAIN w.actions :
               ~w.actions[i].absolute \/ Default(w.actions[i].timeout, 10) \notin 1..60
  THEN Refused
  ELSE [duration |-> Default(w.duration, 30), backups |-> Default(w.backups, 1),
        actions |-> [i \in DOMAIN w.actions |-> [absolute |-> TRUE, timeout |-> Default(w.actions[i].timeout, 10)]]]

\* ParseModelRef and the lookup in the provider graph.
Resolves(providers, ref) == ref.form # "broken" /\ OwnersOf(providers, ref.base) # {}

\* targetFromWire.
BareTarget(id, root) == [id |-> id, root |-> root, chains |-> [f \in Fields |-> <<>>], definitions |-> <<>>]
NoTarget == BareTarget(None, None)
TargetRefs(t) == Entries(t.chains) \cup UNION {ToSet(t.definitions[i].chain) : i \in DOMAIN t.definitions}
TargetRefused(t, providers) == \E ref \in TargetRefs(t) : ~Resolves(providers, ref)

LoadLegacy(doc) ==
  LET quotas == [id \in DOMAIN doc.providers |-> LegacyQuota(id, doc.providers[id].quota)]
      sel == Selection(doc.selection)  op == Operational(doc.operational)
      global == Default(doc.global, NoTarget) IN
  IF \/ ModelsRefused(doc.providers) \/ Refused \in {sel, op} \/ \E id \in DOMAIN quotas : quotas[id] = Refused
     \/ TargetRefused(global, doc.providers)
     \/ \E i \in DOMAIN doc.projects : TargetRefused(doc.projects[i], doc.providers)
  THEN Refused
  ELSE [mode |-> "legacy", operational |-> op, selection |-> sel, routing |-> Default(doc.routing, TRUE),
        providers |-> [id \in DOMAIN doc.providers |->
           [models |-> Baselines(doc.providers[id]), keep |-> doc.providers[id].keep, quota |-> quotas[id]]],
        global |-> global, projects |-> doc.projects]

\* loadProviderOnly, providerOnlyTargetFromWire, providerOnlyProjectRoots: nothing
\* of a legacy policy may be left in the document.
LoadProviderOnly(doc) ==
  LET quotas == [id \in DOMAIN doc.providers |-> EnrolledQuota(id, doc.providers[id].quota)]
      op == Operational(doc.operational) IN
  IF \/ DOMAIN doc.providers = {} \/ op = Refused
     \/ \E id \in DOMAIN doc.providers : doc.providers[id].models # <<>> \/ quotas[id] = Refused
     \/ doc.routing # None \/ doc.selection # None
     \/ doc.global = None \/ TargetRefs(doc.global) # {} \/ doc.global.definitions # <<>> \/ doc.global.root = None
     \/ \E i \in DOMAIN doc.projects : LET p == doc.projects[i] IN
          \/ TargetRefs(p) # {} \/ p.definitions # <<>> \/ p.id = None \/ p.root = None
          \/ \E j \in 1..(i - 1) : doc.projects[j].id = p.id
  THEN Refused
  ELSE [mode |-> "provider-only", operational |-> op, selection |-> DefaultSelection, routing |-> FALSE,
        providers |-> [id \in DOMAIN doc.providers |->
           [models |-> <<>>, keep |-> doc.providers[id].keep, quota |-> quotas[id]]],
        global |-> doc.global, projects |-> doc.projects]

\* loadBytes, modeFromWire.
LoadPolicy(doc) ==
  IF doc = NoFile \/ doc.version # 1 \/ doc.mode \notin {None, "legacy", "provider-only"} THEN Refused
  ELSE IF doc.mode = "provider-only" THEN LoadProviderOnly(doc) ELSE LoadLegacy(doc)

-----------------------------------------------------------------------------
(***************************************************************************)
(* What init proposes.                                                     *)
(***************************************************************************)
\* readManagedConfig: the models of a provider are those its name starts.
Enumerated(l, id) == {model \in DOMAIN l.models : id \in NamedUnder[model]}
Graph(l) ==
  [id \in l.providers |->
     [models |-> [model \in Enumerated(l, id) |-> [enabled |-> Default(l.models[model], TRUE),
                                                    key |-> l.models[model] # None]],
      keep |-> FALSE, quota |-> None]]
InGraph(l, model) == \E id \in l.providers : model \in Enumerated(l, id)

\* buildProviders.
GraphRefused(l) ==
  \/ \E id \in l.providers : Enumerated(l, id) = {} \/ Enumerated(l, id) \cap Patterns # {}
  \/ \E model \in DOMAIN l.models : Cardinality(NamedUnder[model] \cap l.providers) > 1

\* filterChain: a reference whose base no provider has is reported and dropped.
Kept(l, chain) == Among(chain, {ref \in ToSet(chain) : InGraph(l, ref.base)})

\* defChain, buildTarget.
BuildTarget(l, source, id, root) ==
  LET kept == [i \in DOMAIN source.definitions |->
                 [path |-> source.definitions[i].path, chain |-> Kept(l, source.definitions[i].chain)]] IN
  [id |-> id, root |-> root, chains |-> [f \in Fields |-> Kept(l, source.chains[f])],
   definitions |-> Among(kept, {d \in ToSet(kept) : d.chain # <<>>})]

\* FilesystemSourceReader.Projects: those of the policy, read where they are.
Missing(l, projects) == \E i \in DOMAIN projects : projects[i].root \notin DOMAIN l.projects

Starter(mode, providers, global, projects) ==
  [mode |-> mode, operational |-> DefaultOperational, selection |-> DefaultSelection, routing |-> mode = "legacy",
   providers |-> providers, global |-> global, projects |-> projects]

\* Init, Import and propose.
ProposeLegacy(l, registered) ==
  IF GraphRefused(l) \/ Missing(l, registered) THEN Refused
  ELSE Starter("legacy", Graph(l), BuildTarget(l, l.global, "global", l.root),
         [i \in DOMAIN registered |->
            BuildTarget(l, l.projects[registered[i].root], registered[i].id, registered[i].root)])

\* InitProviderOnly.  The projects keep their order here, which nothing reads.
ProposeProviderOnly(l, registered) ==
  IF \/ l.providers = {} \/ Missing(l, registered)
     \/ \E i \in DOMAIN registered : registered[i].id = None \/ \E j \in 1..(i - 1) : registered[j].id = registered[i].id
  THEN Refused
  ELSE Starter("provider-only", [id \in l.providers |-> [models |-> <<>>, keep |-> FALSE, quota |-> None]],
         BareTarget("global", l.root), [i \in DOMAIN registered |-> BareTarget(registered[i].id, registered[i].root)])

-----------------------------------------------------------------------------
(***************************************************************************)
(* What is written.                                                        *)
(***************************************************************************)
UnlessDefault(value, default) == IF value = default THEN None ELSE value

\* Mutant: a gate is written only when its threshold is not the default.
QuotaOutByThreshold(q) ==
  IF q = None THEN None
  ELSE [adapter |-> q.adapter, mode |-> None, budget |-> UnlessDefault(q.budget, 0), group |-> q.group, weight |-> q.weight,
        peaks |-> None,
        gate |-> IF q.gate.threshold = 0 THEN None ELSE [enabled |-> q.gate.on, threshold |-> q.gate.threshold],
        exempt |-> IF q.exempt THEN FALSE ELSE None]

\* quotaOut.  The hours are not written; the mode follows from the adapter.
QuotaOut(q) ==
  IF q = None THEN None
  ELSE [adapter |-> q.adapter, mode |-> None, budget |-> UnlessDefault(q.budget, 0), group |-> q.group, weight |-> q.weight,
        peaks |-> None,
        gate |-> IF q.gate = [on |-> TRUE, threshold |-> 0] THEN None
                 ELSE [enabled |-> q.gate.on, threshold |-> q.gate.threshold],
        exempt |-> IF q.exempt THEN FALSE ELSE None]

\* modelOut: a bare name, or one with an explicit key.
ModelsOut(models) ==
  LET names == SetToSeq(DOMAIN models) IN
  [i \in DOMAIN names |->
     LET b == models[names[i]] IN
     [name |-> names[i], enabled |-> IF b.enabled /\ ~b.key THEN None ELSE b.enabled]]

\* selectionOut.
SelectionOut(s) ==
  IF s = DefaultSelection THEN None
  ELSE [enabled |-> IF s.enabled THEN TRUE ELSE None, pin |-> UnlessDefault(s.pin, "documented"),
        timeout |-> UnlessDefault(s.timeout, 10)]

\* marshalDesired, targetOut.  There is no key for routing or keep_enabled.
Marshal(d) ==
  [version |-> 1, mode |-> IF d.mode = "provider-only" THEN d.mode ELSE None,
   providers |-> [id \in DOMAIN d.providers |->
      [models |-> ModelsOut(d.providers[id].models), quota |-> QuotaOut(d.providers[id].quota), keep |-> FALSE]],
   global |-> UnlessDefault(d.global, NoTarget),
   projects |-> Among(d.projects, ToSet(d.projects) \ {NoTarget}),
   operational |-> d.operational, routing |-> None, selection |-> SelectionOut(d.selection)]

-----------------------------------------------------------------------------
(***************************************************************************)
(* The commands.                                                           *)
(***************************************************************************)
Idle == [pc |-> "idle"]

PolicyInit ==
  /\ file \in Documents \cup {NoFile} /\ preserved = NoFile
  /\ live \in Lives /\ job = Idle /\ writes = 0

Ended == job.pc \in {"idle", "written"}
Fails == ~Ended /\ job' = Idle /\ UNCHANGED <<file, preserved, live, writes>>

\* transact, the preflight of an init: it creates only what is absent and
\* replaces only what loads, and leaves provider-only mode only when asked to.
InitStarts(force, po) ==
  LET loaded == LoadPolicy(file) IN
  /\ Ended /\ writes < MaxWrites /\ writes' = writes + 1
  /\ job' = IF IF file = NoFile THEN force
               ELSE loaded = Refused \/ ~force \/ (loaded.mode = "provider-only" /\ ~po)
            THEN Idle
            ELSE [pc |-> "propose", po |-> po, existing |-> IF file = NoFile THEN None ELSE loaded]
  /\ UNCHANGED <<file, preserved, live>>

\* Mutant: the operational section starts again from the defaults.
CarryNothing(proposal, existing, po) == proposal

\* transactInit: what of the operator's the replacement carries over.
Carry(proposal, existing, po) ==
  IF proposal = Refused \/ existing = None THEN proposal
  ELSE IF po THEN [proposal EXCEPT !.operational = existing.operational]
  ELSE [proposal EXCEPT !.selection = existing.selection]

\* The sources are read anew, the registered projects from the file.
Propose ==
  LET loaded == LoadPolicy(file)
      registered == IF file = NoFile THEN <<>> ELSE loaded.projects
      proposal == IF job.po THEN ProposeProviderOnly(live, registered) ELSE ProposeLegacy(live, registered)
      carried == Carry(proposal, job.existing, job.po) IN
  /\ job.pc = "propose"
  /\ job' = IF (file # NoFile /\ loaded = Refused) \/ proposal = Refused THEN Idle
            ELSE [pc |-> IF job.existing # None /\ job.po THEN "preserve" ELSE "write",
                  po |-> job.po, existing |-> job.existing, proposal |-> carried]
  /\ UNCHANGED <<file, preserved, live, writes>>

\* ReplaceAtomicWithBackup: the previous copy is removed, then the file linked.
ClearPreserved ==
  /\ job.pc = "preserve" /\ preserved # NoFile
  /\ preserved' = NoFile
  /\ UNCHANGED <<file, live, job, writes>>
LinkPreserved ==
  /\ job.pc = "preserve" /\ preserved = NoFile
  /\ preserved' = file
  /\ job' = IF file = NoFile THEN Idle ELSE [job EXCEPT !.pc = "write"]
  /\ UNCHANGED <<file, live, writes>>

\* CreateAtomic links, and refuses a file that has appeared; ReplaceAtomic renames.
Write ==
  /\ job.pc = "write"
  /\ IF job.existing = None /\ file # NoFile
     THEN job' = Idle /\ UNCHANGED file
     ELSE /\ file' = Marshal(job.proposal)
          /\ job' = [pc |-> "written", po |-> job.po, existing |-> job.existing, proposal |-> job.proposal, found |-> file]
  /\ UNCHANGED <<preserved, live, writes>>

\* SetRoutingEnabled: one value is edited in place, in a file that need not load.
ToggleRouting(on) ==
  /\ Ended /\ writes < MaxWrites /\ writes' = writes + 1
  /\ file # NoFile /\ (LoadPolicy(file) # Refused => LoadPolicy(file).mode = "legacy")
  /\ file' = [file EXCEPT !.routing = on]
  /\ job' = Idle /\ UNCHANGED <<preserved, live>>

Linked == job.pc = "write" /\ job.po /\ job.existing # None

\* The operator edits or removes the policy, not in the moment between the link
\* and the rename of a migration.
OperatorWrites(doc) ==
  /\ ~Linked /\ writes < MaxWrites /\ writes' = writes + 1
  /\ file' = doc
  /\ job' = IF Ended THEN Idle ELSE job
  /\ UNCHANGED <<preserved, live>>

\* The guidance for a rollback: the preserved policy takes its name again.
RollBack ==
  /\ Ended /\ preserved # NoFile /\ writes < MaxWrites /\ writes' = writes + 1
  /\ file' = preserved /\ preserved' = NoFile /\ job' = Idle
  /\ UNCHANGED live

LiveChanges(l) ==
  /\ writes < MaxWrites /\ writes' = writes + 1
  /\ live' = l /\ job' = (IF Ended THEN Idle ELSE job)
  /\ UNCHANGED <<file, preserved>>

PolicyNext ==
  \/ \E force, po \in BOOLEAN : InitStarts(force, po)
  \/ Propose \/ ClearPreserved \/ LinkPreserved \/ Write \/ Fails
  \/ \E on \in BOOLEAN : ToggleRouting(on)
  \/ \E doc \in Documents \cup {NoFile} : OperatorWrites(doc)
  \/ RollBack
  \/ \E l \in Lives : LiveChanges(l)

PolicySpec == PolicyInit /\ [][PolicyNext]_pvars

-----------------------------------------------------------------------------
(***************************************************************************)
(* Properties.                                                             *)
(***************************************************************************)
\* The mapping that owns a model, for ResolveModel.
Resolved(d, ref) == {id \in DOMAIN d.providers : ref.base \in DOMAIN d.providers[id].models}

\* What a loaded policy promises to the code that reads it without looking again:
\* under a legacy policy every reference of every chain can be parsed and is of
\* exactly one mapping, a quota has an adapter that exists and a weight; under
\* a provider-only policy there is nothing to reorder.  And to be written again
\* loses nothing of a provider-only policy but what has no key, the hours and
\* keep_enabled.
LoadedIsUsable ==
  LET d == LoadPolicy(file) IN
  d # Refused =>
    /\ \A t \in {d.global} \cup ToSet(d.projects) : \A ref \in TargetRefs(t) :
         d.mode = "legacy" /\ ref.form # "broken" /\ Cardinality(Resolved(d, ref)) = 1
    /\ \A id \in DOMAIN d.providers : LET q == d.providers[id].quota IN
         q # None => q.adapter \in Adapters /\ q.weight # 0 /\ (q.adapter = Budgeted => q.budget > 0)
    /\ d.mode = "provider-only" =>
         LoadPolicy(Marshal(d)) =
           [d EXCEPT !.providers = [id \in DOMAIN d.providers |-> LET q == d.providers[id].quota IN
              [models |-> <<>>, keep |-> FALSE, quota |-> IF q = None THEN None ELSE [q EXCEPT !.schedule = None]]]]

\* What an init has written is what it proposed: it loads, in the mode that was
\* asked for, and means the same, except that a mapping named after an adapter is
\* polled; the operator's sections are still there, and the policy that a
\* migration has replaced can be put back.  It does not load if and only if the live
\* configuration misspells a reference after the name of a model that is mapped:
\* filterChain looks at the name only and adopts it.
InitKeeps ==
  job.pc = "written" =>
    LET d == LoadPolicy(file)  p == job.proposal  was == job.existing IN
    /\ d = Refused <=> \E t \in {p.global} \cup ToSet(p.projects) : \E ref \in TargetRefs(t) : ref.form = "broken"
    /\ d # Refused =>
         /\ d.mode = IF job.po THEN "provider-only" ELSE "legacy"
         /\ [d EXCEPT !.providers = [id \in DOMAIN d.providers |-> [d.providers[id] EXCEPT !.quota = None]]] = p
         /\ (was # None /\ job.po) => d.operational = was.operational
         /\ (was # None /\ ~job.po) => d.selection = was.selection
    /\ (was # None /\ job.po) => preserved = job.found
=============================================================================
