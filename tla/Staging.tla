------------------------------- MODULE Staging -------------------------------
(***************************************************************************)
(* internal/staging: the copy that is validated and the copy that is       *)
(* published.  The validated one merges the global layer and the layer of  *)
(* the project, with inert credentials, and has the edits of both plans;   *)
(* the published one starts from the target's own config.yaml.             *)
(*                                                                         *)
(* A document is its keys and its form: "plain", "anchored" (the editor    *)
(* refuses it), "broken" (it does not parse) or "marshalled" (written      *)
(* anew, without the comments and the order of its author).  A plan has,   *)
(* for each file, the values of the keys it edits, Removed to take one out.*)
(***************************************************************************)
EXTENDS PolicyTypes

CONSTANTS
  ConfigFile,   \* config.yaml
  Allowlisted,  \* the definitions under facets/ and subagents/
  GroupKeys,    \* keys of modelgroups: sequences, which the layers concatenate
  TierKeys,     \* the tier defaults, which cannot stand beside groups
  AuthKeys,     \* keys with a credential
  KindOf,       \* the key with the kind of the provider, for each of AuthKeys
  Inert,        \* the placeholder of a credential
  Removed,      \* the value of a key that is to be taken out
  Operated,     \* pairs of layers an operator may have written
  Commands,     \* what the commands plan
  MaxCommands   \* a bound: commands and edits by the operator

VARIABLES
  layers,     \* the live files, of the global root and of the project
  command,    \* the plans of the command that holds the lock, and its snapshots
  todo,       \* the targets it still has to do
  candidate,  \* what is staged
  held,       \* the gate's global candidate, while the project is validated
  commands

gvars == <<layers, command, todo, candidate, held, commands>>

Roots == {"global", "project"}
Absent == [absent |-> TRUE]   \* no config.yaml, no plan
NoLayer == [config |-> [keys |-> <<>>, form |-> "plain"], files |-> <<>>, linked |-> {}]
NoCandidate == [target |-> None]

Single(f, doc) == [x \in {f} |-> doc]

-----------------------------------------------------------------------------
(***************************************************************************)
(* Layers.                                                                 *)
(***************************************************************************)
\* readLayer: only what is on the list and is no symbolic link.
ReadLayer(dir) ==
  IF dir.config = Absent \/ ConfigFile \in dir.linked THEN Refused
  ELSE [config |-> dir.config, linked |-> dir.linked,
        files  |-> Restrict(dir.files, (DOMAIN dir.files \cap Allowlisted) \ dir.linked)]

GroupsRefused(doc) == \E k \in DOMAIN doc.keys \cap GroupKeys : doc.keys[k] = Bad

\* mergeEffectiveConfig: the project wins, and groups are joined, global first.
Merge(g, p) ==
  [k \in DOMAIN g \cup DOMAIN p |->
     IF k \in GroupKeys \cap DOMAIN g \cap DOMAIN p THEN g[k] \o p[k] ELSE IF k \in DOMAIN p THEN p[k] ELSE g[k]]

\* redactSecrets: all credentials but those of a provider doctor has to reach.
Catalog(keys, k) == KindOf[k] \in DOMAIN keys /\ keys[KindOf[k]] = "catalog"
Redact(keys) == [k \in DOMAIN keys |-> IF k \in AuthKeys /\ ~Catalog(keys, k) THEN Inert ELSE keys[k]]

\* buildEffectiveConfig, with real credentials or with inert ones.
Effective(g, p, inert) ==
  IF "broken" \in {g.form, p.form} \/ GroupsRefused(g) \/ GroupsRefused(p) THEN Refused
  ELSE LET keys == Merge(g.keys, p.keys) IN [keys |-> IF inert THEN Redact(keys) ELSE keys, form |-> "marshalled"]

\* mergeFiles.
MergeFiles(global, project) == Over(project.files, global.files)

-----------------------------------------------------------------------------
(***************************************************************************)
(* Edits.                                                                  *)
(***************************************************************************)
\* Keys that are not edited stay as they are.
Edited(keys, edits) ==
  LET set == {k \in DOMAIN edits : edits[k] # Removed} IN
  Over(Restrict(edits, set), Restrict(keys, DOMAIN keys \ DOMAIN edits))

\* EditYAML and EditFrontmatter.
EditDocument(doc, edits) ==
  IF doc = Refused THEN Refused
  ELSE IF \/ doc.form \in {"anchored", "broken"}
          \/ \E k \in DOMAIN edits \cap DOMAIN doc.keys : doc.keys[k] = Bad /\ edits[k] # Removed THEN Refused
  ELSE [keys |-> Edited(doc.keys, edits), form |-> doc.form]

At(files, f) == IF f \in DOMAIN files THEN files[f] ELSE Refused

\* applyPlanEdits.
ApplyPlan(files, plan) ==
  IF files = Refused THEN Refused
  ELSE LET edited == [f \in DOMAIN plan.edits |-> EditDocument(At(files, f), plan.edits[f])] IN
       IF \E f \in DOMAIN edited : edited[f] = Refused THEN Refused ELSE Over(edited, files)

\* Mutant: a project publishes what is merged for its validation.
PublishBaseMerged(target, global, project, plan) ==
  IF plan.providerOnly THEN global.config ELSE Effective(global.config, project.config, FALSE)

\* buildPublishDir: the config.yaml that is edited.
PublishBase(target, global, project, plan) ==
  IF target = "project" THEN project.config
  ELSE IF plan.providerOnly THEN global.config
  ELSE Effective(global.config, project.config, FALSE)

\* buildPublishDir: the files of the plan.
PublishDir(target, global, project, plan) ==
  LET files == MergeFiles(global, project)
      base == PublishBase(target, global, project, plan)
      edited == [f \in DOMAIN plan.edits |->
                   EditDocument(IF f = ConfigFile THEN base ELSE IF f \in Allowlisted THEN At(files, f) ELSE Refused, plan.edits[f])] IN
  IF base = Refused \/ \E f \in DOMAIN edited : edited[f] = Refused THEN Refused ELSE edited

\* Mutant: a project is validated beside the global files as they are.
ReconciledNothing(staged, target, globalPlan) == staged

\* stage, the edits of the global plan in the copy that validates a project.
Reconciled(staged, target, globalPlan) ==
  IF target = "project" /\ globalPlan # Absent THEN ApplyPlan(staged, globalPlan) ELSE staged

\* stage.
Stage(target, dirs, plan, globalPlan) ==
  LET global == ReadLayer(dirs.global)
      project == IF target = "project" THEN ReadLayer(dirs.project) ELSE NoLayer IN
  IF global = Refused \/ project = Refused THEN Refused
  ELSE LET config == Effective(global.config, project.config, TRUE)
           staged == IF config = Refused THEN Refused ELSE Over(Single(ConfigFile, config), MergeFiles(global, project))
           validated == ApplyPlan(Reconciled(staged, target, globalPlan), plan)
           published == PublishDir(target, global, project, plan) IN
       IF validated = Refused \/ published = Refused THEN Refused
       ELSE [target |-> target, read |-> dirs, validated |-> validated, published |-> published]

-----------------------------------------------------------------------------
(***************************************************************************)
(* A command: a reconciliation does one target after the other; a gate     *)
(* pass validates all of them and then publishes the global one.           *)
(***************************************************************************)
Gate == command.project.providerOnly

\* What Build and the gate plan: no edit of a group or of a credential, in a project
\* none that takes a key out of config.yaml, in a definition the same keys wherever it
\* is planned; and in a gate pass config.yaml only, of the global root too.
EditsOf(plan, f) == IF f \in DOMAIN plan.edits THEN DOMAIN plan.edits[f] ELSE {}

IsPlan(plan) ==
  /\ plan # Absent /\ plan.providerOnly \in BOOLEAN
  /\ plan.providerOnly => DOMAIN plan.edits \subseteq {ConfigFile}
  /\ EditsOf(plan, ConfigFile) \cap (GroupKeys \cup AuthKeys \cup {KindOf[k] : k \in AuthKeys}) = {}

IsCommand(c) ==
  /\ IsPlan(c.project) /\ (c.global # Absent => IsPlan(c.global))
  /\ c.project.providerOnly => c.global # Absent /\ c.global.providerOnly
  /\ \A k \in EditsOf(c.project, ConfigFile) : c.project.edits[ConfigFile][k] # Removed
  /\ c.global # Absent =>
       \A f \in (DOMAIN c.global.edits \cap DOMAIN c.project.edits) \ {ConfigFile} :
         DOMAIN c.global.edits[f] \subseteq DOMAIN c.project.edits[f]

ASSUME StagingAssumption == ConfigFile \notin Allowlisted /\ \A c \in Commands : IsCommand(c)

StagingInit ==
  /\ layers \in Operated
  /\ command = None /\ todo = <<>> /\ candidate = NoCandidate /\ held = NoCandidate /\ commands = 0

\* detectModelGroups: of any root whose config.yaml can be read.
HasGroups(dir) == IF dir.config = Absent THEN FALSE ELSE dir.config.form # "broken" /\ DOMAIN dir.config.keys \cap GroupKeys # {}

\* applyModelGroupsGuard: beside groups the tier defaults are left alone.
Guarded(plan) ==
  IF plan = Absent THEN Absent
  ELSE IF plan.providerOnly \/ ConfigFile \notin DOMAIN plan.edits \/ ~\E t \in Roots : HasGroups(layers[t]) THEN plan
  ELSE LET left == Restrict(plan.edits[ConfigFile], DOMAIN plan.edits[ConfigFile] \ TierKeys)
           rest == Restrict(plan.edits, DOMAIN plan.edits \ {ConfigFile}) IN
       [edits |-> IF DOMAIN left = {} THEN rest ELSE Over(Single(ConfigFile, left), rest), providerOnly |-> FALSE]

\* appendProviderSnapshots: config.yaml and the managed definitions of a root.
Sources(dir) ==
  Over(Single(ConfigFile, dir.config), Restrict(dir.files, (DOMAIN dir.files \cap Allowlisted) \ dir.linked))

Start(c) ==
  /\ command = None /\ commands < MaxCommands
  /\ command' = [global |-> Guarded(c.global), project |-> Guarded(c.project),
                  snapshots |-> [t \in Roots |-> Sources(layers[t])]]
  /\ commands' = commands + 1
  /\ todo' = IF c.global = Absent THEN <<"project">> ELSE <<"global", "project">>
  /\ UNCHANGED <<layers, candidate, held>>

Leave(rest) ==
  /\ todo' = rest
  /\ command' = IF rest = <<>> THEN None ELSE command
  /\ UNCHANGED commands

\* Build; a target that cannot be staged is pending, and refuses a gate pass.
StageTarget ==
  /\ command # None /\ candidate = NoCandidate
  /\ LET target == Head(todo)
         built == Stage(target, layers, command[target], command.global) IN
     IF built = Refused
     THEN /\ Leave(IF Gate THEN <<>> ELSE Tail(todo))
          /\ held' = IF Gate THEN NoCandidate ELSE held
          /\ UNCHANGED <<layers, candidate>>
     ELSE candidate' = built /\ UNCHANGED <<layers, command, todo, held, commands>>

\* validateReplacements: the publisher replaces no symbolic link.
Replaceable(dirs, c) ==
  LET dir == dirs[c.target] IN
  \A f \in DOMAIN c.published \cap dir.linked : f \in DOMAIN dir.files /\ c.published[f] = dir.files[f]

\* What the renames of the publisher do to a root.
WithFiles(dir, new) ==
  [config |-> IF ConfigFile \in DOMAIN new THEN new[ConfigFile] ELSE dir.config, linked |-> dir.linked,
   files  |-> Over(Restrict(new, DOMAIN new \ {ConfigFile}), dir.files)]

Publish(dirs, c) == [dirs EXCEPT ![c.target] = WithFiles(@, c.published)]

\* Mutant: only the definitions are looked at again.
UnchangedDefinitions ==
  \A t \in Roots : \A f \in DOMAIN command.snapshots[t] \ {ConfigFile} :
    At(Sources(layers[t]), f) = command.snapshots[t][f]

\* RecheckProviderPreflight: what a gate pass was planned on is still there.
Unchanged ==
  \A t \in Roots : \A f \in DOMAIN command.snapshots[t] :
    At(Sources(layers[t]), f) = command.snapshots[t][f]

\* The candidate is valid: publish it, or hold it until all are valid.
Valid ==
  /\ candidate # NoCandidate
  /\ Leave(Tail(todo))
  /\ candidate' = NoCandidate
  /\ IF Gate /\ Len(todo) > 1 THEN held' = candidate /\ UNCHANGED layers
     ELSE LET c == IF Gate THEN held ELSE candidate IN
          /\ layers' = IF Replaceable(layers, c) /\ (Gate => Unchanged) THEN Publish(layers, c) ELSE layers
          /\ held' = NoCandidate

\* It is not: Cleanup, and the other targets unless a gate is refused.
Invalid ==
  /\ candidate # NoCandidate
  /\ Leave(IF Gate THEN <<>> ELSE Tail(todo))
  /\ candidate' = NoCandidate /\ held' = NoCandidate
  /\ UNCHANGED layers

\* The operator writes the files of the roots, at any time.
OperatorEdits(ls) ==
  /\ commands < MaxCommands /\ layers # ls
  /\ layers' = ls /\ commands' = commands + 1
  /\ UNCHANGED <<command, todo, candidate, held>>

StagingNext ==
  \/ \E c \in Commands : Start(c)
  \/ StageTarget
  \/ Valid
  \/ Invalid
  \/ \E ls \in Operated : OperatorEdits(ls)

StagingSpec == StagingInit /\ [][StagingNext]_gvars

-----------------------------------------------------------------------------
(***************************************************************************)
(* What is validated and what is published.                                *)
(***************************************************************************)
\* The keys of a file that the global plan sets and the project has its own value of;
\* a definition of the project's own hides that of the global root as a whole.
Shadowed(project, f) ==
  IF candidate.target = "global" \/ command.global = Absent \/ f \notin DOMAIN project.files \cup {ConfigFile} THEN {}
  ELSE LET globals == EditsOf(command.global, f) \ EditsOf(command.project, f) IN
       IF f = ConfigFile THEN globals \cap DOMAIN project.config.keys ELSE globals

\* The files of the global root when its own plan is published.
GlobalPublished ==
  LET before == ReadLayer(candidate.read.global) IN
  IF candidate.target = "global" THEN candidate.published
  ELSE IF command.global = Absent THEN <<>>
  ELSE [f \in DOMAIN command.global.edits \cap (DOMAIN before.files \cup {ConfigFile}) |->
          EditDocument(IF f = ConfigFile THEN [keys |-> before.config.keys, form |-> "plain"] ELSE before.files[f],
                       command.global.edits[f])]

\* The candidate can be published, and beside it the plan of the global root.
Publishable ==
  /\ candidate # NoCandidate
  /\ Replaceable(candidate.read, candidate)
  /\ \A f \in DOMAIN GlobalPublished : GlobalPublished[f] # Refused

\* What is validated: what a session reads once both roots have their files.
WillBeLive ==
  LET before    == IF candidate.target = "global" THEN NoLayer ELSE ReadLayer(candidate.read.project)
      global    == WithFiles(ReadLayer(candidate.read.global), GlobalPublished)
      project   == IF candidate.target = "global" THEN NoLayer ELSE WithFiles(before, candidate.published)
      effective == Effective([keys |-> global.config.keys, form |-> "plain"], project.config, TRUE)
      read      == Over(Single(ConfigFile, effective), MergeFiles(global, project))
      open(f, keys) == Restrict(keys, DOMAIN keys \ Shadowed(before, f)) IN
  /\ DOMAIN read = DOMAIN candidate.validated
  /\ \A f \in DOMAIN read : open(f, read[f].keys) = open(f, candidate.validated[f].keys)

\* What is published: what the operator wrote, but for the keys of the plan.
OnlyPlanPublished ==
  LET t == candidate.target
      dirs == candidate.read
      others == MergeFiles(ReadLayer(dirs.global), IF t = "global" THEN NoLayer ELSE ReadLayer(dirs.project))
      rest(f, keys) == Restrict(keys, DOMAIN keys \ DOMAIN command[t].edits[f]) IN
  /\ DOMAIN candidate.published = DOMAIN command[t].edits
  /\ \A f \in DOMAIN candidate.published :
       LET was == IF f = ConfigFile THEN dirs[t].config ELSE others[f]  is == candidate.published[f] IN
       /\ rest(f, is.keys) = rest(f, was.keys)
       /\ is.form = was.form \/ (t = "global" /\ ~Gate /\ f = ConfigFile)

\* A gate pass writes over what it was planned on, and over no later edit.  (An edit
\* that was made and undone while the roots were staged is not noticed: what was
\* staged from it is published all the same.)
OverwritesNoEdit ==
  LET live(f) == IF f = ConfigFile THEN layers[held.target].config ELSE At(layers[held.target].files, f) IN
  layers' # layers => \A f \in DOMAIN held.published : live(f) = At(command.snapshots[held.target], f)

\* The copy that is published is the one that was validated, though it is made in
\* another way: a session that reads both roots afterwards finds what was validated
\* (inert credentials aside, and keys of a project that the global plan writes over);
\* nothing of another layer, and no placeholder, gets into what is published; and a
\* gate pass overwrites no edit that was made while all roots were validated, one
\* after the other, and that is still there (a reconciliation does).
PublishedAsValidated ==
  /\ [](/\ Publishable => WillBeLive
        /\ candidate # NoCandidate => OnlyPlanPublished)
  /\ [][candidate # NoCandidate /\ candidate' = NoCandidate => (Gate => OverwritesNoEdit)]_gvars
=============================================================================
