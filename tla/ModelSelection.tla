--------------------------- MODULE ModelSelection ---------------------------
(***************************************************************************)
(* internal/selection and service/selection_inputs.go: the commands select *)
(* and select-eval.  A candidate policy lists, for each phase and tier of  *)
(* difficulty, groups of models in order of preference.  A selection asks  *)
(* a remote assessor for the tier, unless it was given, and takes from the *)
(* groups a model whose provider is known to have quota left.              *)
(*                                                                         *)
(* The commands hold no lock: the policy and the state are read one after  *)
(* the other, while other commands write both.  Probabilities are parts of *)
(* Whole, and what is left of a quota is a number that was computed from   *)
(* its windows.                                                            *)
(***************************************************************************)
EXTENDS PolicyTypes

CONSTANTS
  Family,            \* the family of each model
  Whole,             \* what probabilities sum up to
  MaxCases,          \* the most cases of a document of fixtures
  Configs,           \* policies: mode, consent, models and freshness
  Sightings,         \* what may be recorded of a provider
  Answers,           \* what an assessment may come to
  Clocks, MaxCommits \* bounds: moments, and writes of other commands

\* Quotas and times are numbers, every policy is about the same mappings, and every
\* model of a policy is of one of them.
ASSUME SelectionAssumption ==
  /\ None \notin Int /\ DefaultFreshness \in Nat
  /\ Clocks # {} /\ Clocks \subseteq Nat
  /\ \A c \in Configs :
       /\ \A m \in DOMAIN c.models : c.models[m].owner \in DOMAIN c.freshness
       /\ \A p \in DOMAIN c.freshness : c.freshness[p] \in Int \cup {None}
       /\ \A d \in Configs : DOMAIN d.freshness = DOMAIN c.freshness
  /\ \A o \in Sightings :
       o.snap # None => {o.snap.at, o.snap.left} \subseteq Int \cup {None}
  /\ \A a \in Answers : IF "fails" \in DOMAIN a THEN a.fails \in {"no_key", "failed"}
                        ELSE {a.probability[o] : o \in DOMAIN a.probability} \subseteq Nat

VARIABLES
  config,   \* the policy
  state,    \* what is recorded of each provider
  clock,
  run,      \* the invocation
  since,    \* history: what was recorded of each provider since the clock was read
  commits

svars == <<config, state, clock, run, since, commits>>

Tiers == <<"routine", "normal", "difficult", "very_difficult">>
Abstention == "insufficient_information"
TierIndex(tier) == CHOOSE i \in DOMAIN Tiers : Tiers[i] = tier
Options == ToSet(Tiers) \cup {Abstention}

-----------------------------------------------------------------------------
(***************************************************************************)
(* The candidate policy and the fixtures.                                  *)
(***************************************************************************)
\* tierFromWire: exact references, all of them known, none of them twice.
TierRefused(groups, policy) ==
  LET places == UNION {{<<g, i>> : i \in DOMAIN groups[g]} : g \in DOMAIN groups}
      ref(x) == groups[x[1]][x[2]] IN
  \/ groups = <<>> \/ <<>> \in ToSet(groups)
  \/ \E x \in places : ref(x).form = "broken" \/ ref(x).base \notin DOMAIN policy.models
  \/ \E x, y \in places : x # y /\ ref(x) = ref(y)

\* ParsePolicy, phaseFromWire.
DocRefused(doc, policy) ==
  \/ doc = Refused \/ DOMAIN doc = {}
  \/ \E phase \in DOMAIN doc :
       \/ DOMAIN doc[phase] = {} \/ ~(DOMAIN doc[phase] \subseteq ToSet(Tiers))
       \/ \E tier \in DOMAIN doc[phase] : TierRefused(doc[phase][tier], policy)

\* ParseFixtureSet, validateFixture.  What cannot be parsed has no cases here.
FixturesRefused(set) ==
  \/ set = <<>> \/ Len(set) > MaxCases
  \/ \E i \in DOMAIN set :
       ~set[i].task \/ set[i].expected \notin Options \/ \E j \in 1..(i - 1) : set[j].id = set[i].id

\* coveredOutcome: nothing is borrowed from another tier.
Covered(doc, phase, outcome) ==
  phase \in DOMAIN doc /\ (outcome = Abstention \/ outcome \in DOMAIN doc[phase])

-----------------------------------------------------------------------------
(***************************************************************************)
(* The assessment.                                                         *)
(***************************************************************************)
\* validateChoiceAnswer, without the confidence.
AnswerRefused(a) ==
  \/ a.choice \notin Options \/ DOMAIN a.probability # Options
  \/ FoldFunction(+, 0, a.probability) # Whole
  \/ \E option \in Options : a.probability[option] > a.probability[a.choice]

\* resolveOutcome: a tie with the abstention abstains, another goes to the harder.
ResolveOutcome(probability) ==
  LET top == {o \in Options : \A x \in Options : probability[x] <= probability[o]} IN
  IF Abstention \in top THEN Abstention ELSE Tiers[Max({TierIndex(t) : t \in top})]

\* Assess, parseAssessment: "no_key", "failed", an abstention or a tier.
Assessment(a) ==
  IF "fails" \in DOMAIN a THEN a.fails
  ELSE IF AnswerRefused(a) THEN "failed" ELSE ResolveOutcome(a.probability)

-----------------------------------------------------------------------------
(***************************************************************************)
(* The choice.                                                             *)
(***************************************************************************)
Supported(value, values) == value \in values \cup {""}

\* What bars a provider, whatever else is known of it: its axes ...
AxesBar(o) ==
  \/ o.manual \/ o.avail = "unavailable" \/ o.quota = "exhausted"
  \/ ~Supported(o.quota, {"normal", "low", "exhausted"}) \/ ~Supported(o.avail, {"available", "unavailable"})

\* ... and its last snapshot, however old.
SnapshotBars(snap) ==
  \/ ~Supported(snap.status, {"fresh", "partial", "failed"})
  \/ ~Supported(snap.avail, {"available", "unavailable", "unknown"})
  \/ snap.corrupt \/ snap.avail = "unavailable" \/ (snap.left # None /\ snap.left <= 0)

ConfirmTTL(freshness) == IF freshness # None /\ freshness <= 0 THEN DefaultFreshness ELSE freshness

\* What is missing for a confirmation.
Evidence(o, freshness, asOf) ==
  LET snap == o.snap  ttl == ConfirmTTL(freshness) IN
  IF snap = None THEN IF o.attempted THEN "failed" ELSE "missing"
  ELSE IF snap.at = None \/ snap.at > asOf \/ ttl = None THEN "unknown"
  ELSE IF asOf - snap.at > ttl THEN "stale"
  ELSE IF snap.status \in {"failed", "partial"} THEN snap.status
  ELSE IF snap.status = "" \/ snap.avail # "available" THEN "unknown"
  ELSE IF snap.left = None THEN "sparse" ELSE "confirmed"

Bars(o) == AxesBar(o) \/ (o.snap # None /\ SnapshotBars(o.snap))

\* The family is the first part of the name of the model, not its provider.
Closed(ref, policy, excluded) == Family[ref.base] \in excluded \/ ~policy.models[ref.base].enabled

\* Mutant: what is stale is not even looked at.
ClassifyByAge(ref, policy, seen, asOf, excluded) ==
  LET owner == policy.models[ref.base].owner
      evidence == Evidence(seen[owner], policy.freshness[owner], asOf) IN
  IF Closed(ref, policy, excluded) \/ AxesBar(seen[owner]) THEN "excluded"
  ELSE IF evidence = "stale" THEN "stale" ELSE IF Bars(seen[owner]) THEN "excluded" ELSE evidence

\* classify: first what excludes, then what is missing.
Classify(ref, policy, seen, asOf, excluded) ==
  LET owner == policy.models[ref.base].owner IN
  IF Closed(ref, policy, excluded) \/ Bars(seen[owner]) THEN "excluded"
  ELSE Evidence(seen[owner], policy.freshness[owner], asOf)

\* Select: the first group with a confirmed candidate, and of those the one with
\* the most left; if there is none anywhere, the first that is not excluded.
Select(groups, policy, seen, asOf, excluded) ==
  LET kind(g, i)  == Classify(groups[g][i], policy, seen, asOf, excluded)
      left(g, i)  == seen[policy.models[groups[g][i].base].owner].snap.left
      sure(g)     == {i \in DOMAIN groups[g] : kind(g, i) = "confirmed"}
      open(g)     == {i \in DOMAIN groups[g] : kind(g, i) # "excluded"}
      firstOf(S)  == LET g == Min({x[1] : x \in S}) IN <<g, Min({x[2] : x \in {y \in S : y[1] = g}})>>
      most(g)     == CHOOSE i \in sure(g) : \A j \in sure(g) :
                        left(g, j) < left(g, i) \/ (left(g, j) = left(g, i) /\ i <= j)
      candidates  == UNION {{<<g, i>> : i \in open(g)} : g \in DOMAIN groups} IN
  IF \E g \in DOMAIN groups : sure(g) # {}
  THEN LET g == Min({h \in DOMAIN groups : sure(h) # {}}) IN
       [kind |-> "confirmed", place |-> <<g, most(g)>>, headroom |-> left(g, most(g))]
  ELSE IF candidates # {}
  THEN LET at == firstOf(candidates) IN [kind |-> "uncertain", place |-> at, evidence |-> kind(at[1], at[2])]
  ELSE [kind |-> "none"]

-----------------------------------------------------------------------------
(***************************************************************************)
(* The invocation: SelectRunner.Run and EvaluationRunner.RunEval.          *)
(***************************************************************************)
SelectionInit ==
  /\ config \in Configs
  /\ state \in [DOMAIN config.freshness -> Sightings]
  /\ clock = Min(Clocks)
  /\ run = [pc |-> "idle"] /\ since = <<>> /\ commits = 0

Ends(outcome) == run' = [run EXCEPT !.pc = "done", !.outcome = outcome]
Fatal(why) == Ends([status |-> "fatal", why |-> why])
Step(pc) == run' = [run EXCEPT !.pc = pc]

\* A tier and a floor exclude each other, and without a tier there must be a task.
RequestRefused(a) ==
  /\ a.command = "select"
  /\ \/ a.tier # None /\ a.floor # None
     \/ ~({a.tier, a.floor} \subseteq ToSet(Tiers) \cup {None})
     \/ a.tier = None /\ ~a.task

Invoked(args) ==
  /\ run.pc = "idle"
  /\ run' = [pc |-> IF RequestRefused(args) THEN "done"
                    ELSE IF args.command = "select" /\ args.refresh THEN "refresh" ELSE "policy",
             args |-> args, asOf |-> clock, policy |-> None, seen |-> None, sent |-> 0,
             results |-> <<>>, tier |-> None,
             outcome |-> IF RequestRefused(args) THEN [status |-> "fatal", why |-> "request"] ELSE None]
  /\ UNCHANGED <<config, state, clock, since, commits>>

\* The refresh is a quota check; one that fails ends the invocation.
RefreshQuota(p, o) ==
  /\ run.pc = "refresh"
  /\ state' = [state EXCEPT ![p] = o] /\ Step("policy")
  /\ UNCHANGED <<config, clock, since, commits>>
RefreshFails ==
  run.pc = "refresh" /\ Fatal("refresh") /\ UNCHANGED <<config, state, clock, since, commits>>

\* SelectionSnapshot: the clock, the policy, and then the state.
ReadPolicy ==
  /\ run.pc = "policy"
  /\ IF config.mode = "legacy"
     THEN run' = [run EXCEPT !.pc = "state", !.policy = config, !.asOf = clock]
     ELSE Fatal("snapshot")
  /\ since' = [p \in DOMAIN state |-> {state[p]}]
  /\ UNCHANGED <<config, state, clock, commits>>
ReadState ==
  /\ run.pc = "state"
  /\ run' = [run EXCEPT !.pc = "prepare", !.seen = state]
  /\ UNCHANGED <<config, state, clock, since, commits>>

\* Whether every phase and tier that was named is in the candidate policy.
NamedCovered(a) ==
  IF a.command = "select-eval"
  THEN ~FixturesRefused(a.fixtures) /\ \A i \in DOMAIN a.fixtures : Covered(a.doc, a.fixtures[i].phase, a.fixtures[i].expected)
  ELSE a.phase \in DOMAIN a.doc /\ {a.tier, a.floor} \ {None} \subseteq DOMAIN a.doc[a.phase]

\* All that can be validated is, before the operator's consent is looked at.
Prepare ==
  LET a == run.args IN
  /\ run.pc = "prepare"
  /\ IF DocRefused(a.doc, run.policy) \/ ~NamedCovered(a) THEN Fatal("policy")
     ELSE IF a.command = "select" /\ a.tier # None
     THEN run' = [run EXCEPT !.pc = "choose", !.tier = a.tier]
     ELSE IF ~run.policy.consent THEN Fatal("consent") ELSE Step("assess")
  /\ UNCHANGED <<config, state, clock, since, commits>>

\* A floor raises an assessment, and nothing else.
Raised(assessed, floor) ==
  IF floor # None /\ TierIndex(assessed) < TierIndex(floor) THEN floor ELSE assessed

\* The request is sent unless there is no key.
Assess(answer) ==
  LET a == run.args  result == Assessment(answer) IN
  /\ run.pc = "assess" /\ a.command = "select"
  /\ IF result = "no_key" THEN Fatal("credential")
     ELSE LET asked == [run EXCEPT !.sent = 1, !.results = <<result>>]
              unavailable(why) == [status |-> "unavailable", why |-> why] IN
          run' = IF result \in {"failed", Abstention}
                 THEN [asked EXCEPT !.pc = "done", !.outcome = unavailable(result)]
                 ELSE IF Raised(result, a.floor) \notin DOMAIN a.doc[a.phase]
                 THEN [asked EXCEPT !.pc = "done", !.outcome = [status |-> "fatal", why |-> "policy"]]
                 ELSE [asked EXCEPT !.pc = "choose", !.tier = Raised(result, a.floor)]
  /\ UNCHANGED <<config, state, clock, since, commits>>

Choose ==
  LET a == run.args IN
  /\ run.pc = "choose"
  /\ Ends([status |-> "selected",
           result |-> Select(a.doc[a.phase][run.tier], run.policy, run.seen, run.asOf, a.excluded)])
  /\ UNCHANGED <<config, state, clock, since, commits>>

\* One case of Evaluate: no key ends the run, anything else that fails is counted.
EvaluateCase(answer) ==
  LET result == Assessment(answer)  results == Append(run.results, result) IN
  /\ run.pc = "assess" /\ run.args.command = "select-eval"
  /\ IF result = "no_key" THEN Fatal("credential")
     ELSE run' = [run EXCEPT !.sent = @ + 1, !.results = results,
                             !.pc = IF Len(results) = Len(run.args.fixtures) THEN "report" ELSE "assess"]
  /\ UNCHANGED <<config, state, clock, since, commits>>

\* The counts of the report.
Report(a, results) ==
  LET expected(i) == a.fixtures[i].expected
      cases == DOMAIN results
      assessed == {i \in cases : results[i] # "failed"}
      compared == {i \in assessed : Abstention \notin {results[i], expected(i)}} IN
  [total |-> Len(a.fixtures), errors |-> Cardinality(cases \ assessed), assessed |-> Cardinality(assessed),
   matches |-> Cardinality({i \in assessed : results[i] = expected(i)}),
   abstained |-> Cardinality({i \in assessed : results[i] = Abstention}),
   under |-> Cardinality({i \in compared : TierIndex(results[i]) < TierIndex(expected(i))}),
   over |-> Cardinality({i \in compared : TierIndex(results[i]) > TierIndex(expected(i))}),
   rejected |-> Cardinality({i \in assessed : ~Covered(a.doc, a.fixtures[i].phase, results[i])})]

Reports ==
  /\ run.pc = "report"
  /\ Ends([status |-> "report", report |-> Report(run.args, run.results)])
  /\ UNCHANGED <<config, state, clock, since, commits>>

\* The context of an evaluation ends between two cases.
Canceled ==
  /\ run.pc = "assess" /\ run.args.command = "select-eval"
  /\ Fatal("canceled") /\ UNCHANGED <<config, state, clock, since, commits>>

\* What other commands and the operator do between the two reads; what they did
\* before is another initial state, and what they do later is not seen.
Meanwhile == run.pc = "state" /\ commits < MaxCommits /\ commits' = commits + 1 /\ UNCHANGED run
Commits(p, o) ==
  /\ Meanwhile
  /\ (o.snap # None /\ o.snap.at # None => o.snap.at <= clock)
  /\ state' = [state EXCEPT ![p] = o] /\ since' = [since EXCEPT ![p] = @ \cup {o}]
  /\ UNCHANGED <<config, clock>>
PolicyEdited(c) == Meanwhile /\ config' = c /\ UNCHANGED <<state, clock, since>>
ClockTicks ==
  run.pc = "state" /\ clock + 1 \in Clocks /\ clock' = clock + 1 /\ UNCHANGED <<config, state, run, since, commits>>

SelectionNext(invocations) ==
  \/ \E args \in invocations : Invoked(args)
  \/ \E p \in DOMAIN state, o \in Sightings : RefreshQuota(p, o)
  \/ RefreshFails \/ ReadPolicy \/ ReadState \/ Prepare
  \/ \E answer \in Answers : Assess(answer) \/ EvaluateCase(answer)
  \/ Choose \/ Reports \/ Canceled
  \/ \E p \in DOMAIN state, o \in Sightings : Commits(p, o)
  \/ \E c \in Configs : PolicyEdited(c)
  \/ ClockTicks

-----------------------------------------------------------------------------
(***************************************************************************)
(* Properties.                                                             *)
(***************************************************************************)
\* Known to have quota left, by a check not older than the freshness.
Proven(o, freshness, asOf) ==
  /\ ~o.manual /\ o.quota \in {"", "normal", "low"} /\ o.avail \in {"", "available"}
  /\ o.snap # None /\ ~o.snap.corrupt
  /\ o.snap.status = "fresh" /\ o.snap.avail = "available" /\ o.snap.left # None /\ o.snap.left > 0
  /\ o.snap.at # None /\ freshness # None
  /\ o.snap.at \in (asOf - (IF freshness > 0 THEN freshness ELSE DefaultFreshness))..asOf

\* Known to be out of the question.
Spent(o) ==
  \/ o.manual \/ o.quota \notin {"", "normal", "low"} \/ o.avail \notin {"", "available"}
  \/ o.snap # None /\ (o.snap.corrupt \/ o.snap.avail \notin {"", "available", "unknown"}
                       \/ o.snap.status \notin {"", "fresh", "partial", "failed"}
                       \/ (o.snap.left # None /\ o.snap.left <= 0))

\* Whatever other commands write while a selection reads: what it chooses was not
\* out of the question, and if it is called confirmed, was proven; no group that
\* the operator prefers had a model that was proven all the time, nor the same
\* group one with more left; what is uncertain is chosen only when nothing was
\* proven, and nothing only when all was out of the question.  Where the tier
\* came from an assessment it was sent with consent, and only a tier counts, that
\* a floor can only raise.  And an evaluation accounts for every case.
SelectionEarned ==
  LET a == run.args  out == run.outcome IN
  (run.pc = "done" /\ out.status \in {"selected", "report"}) =>
    IF out.status = "report"
    THEN LET r == out.report IN
         /\ run.policy.consent /\ run.sent = r.total /\ r.total = r.assessed + r.errors
         /\ r.assessed - r.matches - r.under - r.over =
              Cardinality({i \in DOMAIN run.results : run.results[i] # "failed"
                             /\ (run.results[i] = Abstention) # (a.fixtures[i].expected = Abstention)})
    ELSE
    LET groups  == a.doc[a.phase][run.tier]
        places  == UNION {{<<g, i>> : i \in DOMAIN groups[g]} : g \in DOMAIN groups}
        base(x) == groups[x[1]][x[2]].base
        owner(x) == run.policy.models[base(x)].owner
        allowed(x) == run.policy.models[base(x)].enabled /\ Family[base(x)] \notin a.excluded
        proof(o, x) == Proven(o, run.policy.freshness[owner(x)], run.asOf)
        always(x) == allowed(x) /\ \A o \in since[owner(x)] : proof(o, x)
        open(x) == allowed(x) /\ \A o \in since[owner(x)] : ~Spent(o)
        earlier(x, y) == x[1] < y[1] \/ (x[1] = y[1] /\ x[2] < y[2])
        result == out.result IN
    /\ a.tier = None =>
         /\ run.policy.consent /\ run.sent = 1 /\ run.results[1] \in ToSet(Tiers)
         /\ TierIndex(run.tier) >= TierIndex(run.results[1])
         /\ run.tier \in {run.results[1], a.floor}
    /\ result.kind = "none" => \A x \in places : ~open(x)
    /\ result.kind # "none" =>
         /\ allowed(result.place) /\ \E o \in since[owner(result.place)] : ~Spent(o)
    /\ result.kind = "uncertain" =>
         /\ \A x \in places : ~always(x)
         /\ \A x \in places : earlier(x, result.place) => ~open(x)
    /\ result.kind = "confirmed" =>
         /\ \E o \in since[owner(result.place)] : proof(o, result.place) /\ o.snap.left = result.headroom
         /\ \A x \in places : x[1] < result.place[1] => ~always(x)
         /\ \A x \in places : (x[1] = result.place[1] /\ always(x)) =>
              \E o \in since[owner(x)] : o.snap.left <= result.headroom
=============================================================================
