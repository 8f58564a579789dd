------------------------------- MODULE Routing -------------------------------
(***************************************************************************)
(* internal/routing, internal/reconcile and service/ranking.go: from the   *)
(* policy and what was observed to the models a target is to use.          *)
(*                                                                         *)
(* The providers that can be polled are ranked within their balance group: *)
(* by how much of their quota would be lost at its reset, then by off-peak *)
(* hours, then by weight.  The chains of a target lose what is disabled,   *)
(* reserve goes last, and if routing is on the ranking reorders the rest;  *)
(* the plan writes the survivors and which models are enabled.             *)
(*                                                                         *)
(* Time is counted in units of which Day make a day; fractions are in      *)
(* hundredths, so a comparison of signals is as exact as their rounding.   *)
(***************************************************************************)
EXTENDS PolicyTypes

CONSTANTS
  Providers,   \* the mappings, as numbers in the order of their names
  Desireds,    \* policies: routing, providers, models and one target
  Findings,    \* what the polls of a check may find, for each provider
  AxesSeen,    \* what hooks and commands may leave on the axes of a provider
  Moments, MaxPolls   \* bounds: the moments looked at, and changes of what is observed

VARIABLES
  desired,     \* the policy
  observed,    \* the state of each provider
  now,
  polls

rvars == <<desired, observed, now, polls>>

\* A window of quota as it was reported.
Windows ==
  [limit : Maybe(Int), used : Maybe(Int), percent : Maybe(Int), reset : Maybe(Int), period : Maybe(Int)]

IsProvider(d) ==
  /\ {d.polled, d.gate, d.exempt} \subseteq BOOLEAN
  /\ d.weight \in Int /\ d.ttl \in Int /\ d.threshold \in Int /\ d.threshold <= 0
  /\ d.peaks \in Maybe(SUBSET PeakHours)
  /\ d.peaks # None => \A w \in d.peaks : 0 <= w.start /\ w.start < w.end /\ w.end <= Day

\* What loading guarantees of a policy.
IsPolicy(policy) ==
  /\ policy.routing \in BOOLEAN
  /\ \A p \in Providers : IsProvider(policy.providers[p])
  /\ \A m \in DOMAIN policy.models : policy.models[m].enabled \in BOOLEAN
  /\ {policy.target.global, policy.target.groups} \subseteq BOOLEAN
  /\ \A c \in DOMAIN policy.target.chains : policy.target.chains[c] \in Seq(DOMAIN policy.models)

\* What a poll gives: nothing, or a snapshot of some age.
IsFinding(found) == found # None => found.age \in Int /\ found.windows \in Seq(Windows)

ASSUME RoutingAssumption ==
  /\ None \notin Int /\ Day \in Nat \ {0} /\ DefaultFreshness \in Int
  /\ Providers \subseteq Nat /\ IsFiniteSet(Providers)
  /\ Moments \subseteq Nat
  /\ \A policy \in Desireds : IsPolicy(policy)
  /\ \A found \in Findings : \A p \in DOMAIN found : IsFinding(found[p])

Hours(units) == units * (24 \div Day)
Clamp(x, lo, hi) == IF x < lo THEN lo ELSE IF x > hi THEN hi ELSE x
SumOver(S, f(_)) == Total([x \in S |-> f(x)])

-----------------------------------------------------------------------------
(***************************************************************************)
(* What is observed.                                                       *)
(***************************************************************************)
\* Remaining, in hundredths, a part of one counting as one: nothing left is nothing.
Remaining(w) ==
  IF w.limit # None /\ w.used # None /\ w.limit > 0 THEN Clamp(100 - (w.used * 100) \div w.limit, 0, 100)
  ELSE IF w.percent # None THEN Clamp(100 - w.percent, 0, 100) ELSE None

Usable(snap) == {i \in DOMAIN snap.windows : Remaining(snap.windows[i]) # None}

\* EffectiveRemaining: of the tightest window.
EffectiveRemaining(snap) ==
  LET left == {Remaining(snap.windows[i]) : i \in DOMAIN snap.windows} \ {None} IN
  IF left = {} THEN None ELSE Min(left)

OutOfQuota(snap) == snap.avail # "available" \/ EffectiveRemaining(snap) \in {None, 0}

\* SnapshotQuotaUnavailable.
SnapshotUnavailable(o) == o.snap # None /\ OutOfQuota(o.snap)

\* EffectiveMode; an axis that was never written counts as healthy.
EffectiveMode(o) ==
  IF o.manual \/ o.avail = "unavailable" \/ o.quota = "exhausted" \/ "corrupt" \in {o.quota, o.avail}
  THEN "disabled"
  ELSE IF o.quota = "low" THEN "reserve" ELSE "normal"

\* quotaGateExemptMode: only the operator and a corrupt axis disable it.
ExemptMode(o) ==
  IF o.manual \/ "corrupt" \in {o.quota, o.avail} THEN "disabled"
  ELSE IF SnapshotUnavailable(o) \/ o.avail = "unavailable" \/ o.quota \in {"exhausted", "low"}
  THEN "reserve" ELSE "normal"

\* MappingMode.  A provider that was never seen is healthy.
MappingMode(p) ==
  LET o == observed[p] IN
  IF ~o.seen THEN "normal"
  ELSE IF desired.providers[p].polled /\ desired.providers[p].exempt THEN ExemptMode(o)
  ELSE IF SnapshotUnavailable(o) THEN "disabled" ELSE EffectiveMode(o)

-----------------------------------------------------------------------------
(***************************************************************************)
(* The signal.                                                             *)
(***************************************************************************)
\* The windows computeSignal looks at: at least a day long, with a reset.
Cycles(snap) ==
  {i \in Usable(snap) : snap.windows[i].period # None /\ snap.windows[i].period >= Day
                        /\ snap.windows[i].reset # None}

\* How much more is left than would be used until the reset: r/t - (1-r)/e.
Gap(w) ==
  LET left    == Clamp(w.reset - now, 0, w.period)
      elapsed == Min({((w.period - left + Day - 1) \div Day) * Day, w.period})
      r == Remaining(w) IN
  (r * Hours(w.period)) \div Max({Hours(left), 1})
    - ((100 - r) * 12 * Hours(w.period)) \div Max({12 * Hours(elapsed), 1})

\* computeSignal: the mean of the cycles by their length, or None.
Signal(snap) ==
  LET cs == Cycles(snap) IN
  IF cs = {} THEN None
  ELSE Clamp(SumOver(cs, LAMBDA i : Gap(snap.windows[i]) * snap.windows[i].period)
               \div SumOver(cs, LAMBDA i : snap.windows[i].period), -10000, 10000)

Schedule(provider) == IF provider.peaks = None THEN {} ELSE OffPeakWindows(provider.peaks)

\* freshness, signalFreshnessTTL, weight.
Freshness(p) == LET ttl == desired.providers[p].ttl IN IF ttl <= 0 THEN DefaultFreshness ELSE ttl
Weight(p) == LET w == desired.providers[p].weight IN IF w = 0 THEN 1 ELSE w

Stale(p) == now - observed[p].snap.at > Freshness(p)

-----------------------------------------------------------------------------
(***************************************************************************)
(* The ranking.                                                            *)
(***************************************************************************)
Polled == {p \in Providers : desired.providers[p].polled}

\* ComputeRanking, aggregateMappingObs: without a snapshot it is disabled.
ObservedMode(p) ==
  IF ~observed[p].seen \/ observed[p].snap = None THEN "disabled" ELSE MappingMode(p)

\* CheckEligibility.
Eligible(p) ==
  /\ ObservedMode(p) \in {"normal", "reserve"}
  /\ ~Stale(p)
  /\ observed[p].snap.status \notin {"failed", "partial"}
  /\ ~OutOfQuota(observed[p].snap)

\* The items that are sorted: all that Rank looks at of an eligible provider.
Items ==
  {[id      |-> p,
    group   |-> desired.providers[p].group,
    signal  |-> Signal(observed[p].snap),
    offPeak |-> IsOffPeak(Schedule(desired.providers[p]), now),
    weight  |-> Weight(p)] : p \in {x \in Polled : Eligible(x)}}

Members(items, g) == {x \in items : x.group = g}
Ids(items) == {x.id : x \in items}

Band == 20   \* signalTieBand

\* One member without a signal, and nobody's is compared.
SignalsCompare(items, g) == \A x \in Members(items, g) : x.signal # None

\* Mutant: a member without a signal only goes without itself.
ClusterOfSignals(items, item) ==
  LET signals == {x.signal : x \in Members(items, item.group)} \ {None} IN
  IF item.signal = None THEN -1
  ELSE Cardinality({s \in signals : s >= item.signal /\ s < Max(signals) /\ \A t \in signals : t > s => t - s >= Band})

\* assignSignalClusters: the next cluster begins where the next higher signal is
\* Band or more away.
Cluster(items, item) ==
  LET signals == {x.signal : x \in Members(items, item.group)} IN
  IF SignalsCompare(items, item.group)
  THEN Cardinality({s \in signals : s >= item.signal /\ s < Max(signals)
                                    /\ \A t \in signals : t > s => t - s >= Band})
  ELSE -1

Clustered(items) ==
  {[id |-> x.id, group |-> x.group, cluster |-> Cluster(items, x), offPeak |-> x.offPeak,
    weight |-> x.weight] : x \in items}

\* less, without the name, which only decides what is shown first.
Before(a, b) ==
  IF a.cluster # b.cluster THEN a.cluster < b.cluster
  ELSE IF a.offPeak # b.offPeak THEN a.offPeak ELSE a.weight > b.weight

\* semanticRankEqual: what shares a rank.
Classes(items) == {<<x.cluster, x.offPeak, x.weight>> : x \in items}

\* Those of a group one class after the other, behind the groups whose first
\* member comes first.
Place(items, item) ==
  LET first(g) == Min(Ids(Members(items, g)))
      earlier  == {g \in {x.group : x \in items} : first(g) < first(item.group)} IN
  SumOver(earlier, LAMBDA g : Cardinality(Classes(Members(items, g))))
    + Cardinality(Classes({x \in Members(items, item.group) : Before(x, item)}))

\* Rank: the others follow one by one.
RankIn(items) ==
  LET ranks(S) == SumOver({x.group : x \in S}, LAMBDA g : Cardinality(Classes(Members(S, g)))) IN
  [p \in Polled |-> IF p \in Ids(items) THEN Place(items, CHOOSE x \in items : x.id = p)
                    ELSE ranks(items) + Cardinality({q \in Polled \ Ids(items) : q < p})]
Rank == RankIn(Clustered(Items))

\* The lookup of the plan: the eligible ones.
Lookup == Restrict(Rank, {p \in Polled : Eligible(p)})

-----------------------------------------------------------------------------
(***************************************************************************)
(* The signal gate.                                                        *)
(***************************************************************************)
\* Mutant: the evidence is stale when the freshness is just over.
GatedUntilFresh(p) ==
  LET d == desired.providers[p]  snap == observed[p].snap IN
  /\ d.polled /\ d.gate /\ d.threshold <= 0
  /\ observed[p].seen /\ snap # None /\ now - snap.at < Freshness(p)
  /\ snap.status \notin {"failed", "partial"}
  /\ Signal(snap) # None /\ Signal(snap) <= d.threshold

\* signalGateVerdict: only fresh evidence gates.
Gated(p) ==
  LET d == desired.providers[p]  snap == observed[p].snap IN
  /\ d.polled /\ d.gate /\ d.threshold <= 0
  /\ observed[p].seen /\ snap # None /\ ~Stale(p)
  /\ snap.status \notin {"failed", "partial"}
  /\ Signal(snap) # None /\ Signal(snap) <= d.threshold

-----------------------------------------------------------------------------
(***************************************************************************)
(* Chains and the plan.                                                    *)
(***************************************************************************)
Owner(model) == desired.models[model].owner
Baseline(model) == desired.models[model].enabled

\* Mutant: only the mode of the provider is looked at.
UsableModelByMode(model) == MappingMode(Owner(model)) # "disabled"

\* What resolveSurvivors keeps: nothing the same plan would turn off.
UsableModel(model) == Baseline(model) /\ MappingMode(Owner(model)) # "disabled"

\* The survivors of a chain before the overlay: normal ones, then reserve.
Partitions(chain) ==
  LET survivors(mode) == Among(chain, {m \in ToSet(chain) : UsableModel(m) /\ MappingMode(Owner(m)) = mode}) IN
  [normal |-> survivors("normal"), reserve |-> survivors("reserve")]

\* balanceGroupOf.
BalanceGroup(p) == IF desired.providers[p].polled THEN desired.providers[p].group ELSE "default"

Better(s, ranks, i, j) ==
  \/ ranks[Owner(s[i])] < ranks[Owner(s[j])]
  \/ ranks[Owner(s[i])] = ranks[Owner(s[j])] /\ i < j

\* Mutant: the ranked entries of all groups change places.
SlotsAcross(s, ranks, i) == {j \in DOMAIN s : Owner(s[j]) \in DOMAIN ranks}

\* The places that are redistributed with place i.
Slots(s, ranks, i) ==
  {j \in DOMAIN s : Owner(s[j]) \in DOMAIN ranks /\ BalanceGroup(Owner(s[j])) = BalanceGroup(Owner(s[i]))}

\* The entry that comes to stand at place i: behind as many better ones as there
\* are places before i.
Occupant(s, ranks, i) ==
  LET slots == Slots(s, ranks, i) IN
  IF Owner(s[i]) \notin DOMAIN ranks THEN i
  ELSE CHOOSE k \in slots :
         Cardinality({j \in slots : Better(s, ranks, j, k)}) = Cardinality({j \in slots : j < i})

\* applyRoutingOverlay: the ranked entries of each group change places among
\* themselves; equal ranks keep their order.
Overlay(s, ranks) == [i \in DOMAIN s |-> s[Occupant(s, ranks, i)]]

\* resolveSurvivors, EffectiveOrder.
Ordered(parts, ranks) ==
  IF desired.routing THEN Overlay(parts.normal, ranks) \o Overlay(parts.reserve, ranks)
  ELSE parts.normal \o parts.reserve
Survivors(chain) == Ordered(Partitions(chain), Lookup)

\* The chains of a target the plan writes: the tier defaults and the classifier,
\* unless the configuration uses model groups, and the definitions.
Managed ==
  LET t == desired.target IN
  {c \in DOMAIN t.chains : t.chains[c] # <<>> /\ (t.groups => c \in t.definitions)}

NoPlan == [none |-> TRUE]   \* EmptyChainError

\* Build.  The first survivor is written, and for a definition the others as
\* its fallbacks; of the global target also which models are enabled.  One chain
\* without a survivor, and there is no plan.
Build ==
  LET t == desired.target IN
  IF \E c \in Managed : Survivors(t.chains[c]) = <<>> THEN NoPlan
  ELSE [model     |-> [c \in Managed |-> Head(Survivors(t.chains[c]))],
        fallbacks |-> [c \in Managed \cap t.definitions |-> Tail(Survivors(t.chains[c]))],
        enabled   |-> IF t.global
                      THEN [m \in DOMAIN desired.models |-> MappingMode(Owner(m)) # "disabled" /\ Baseline(m)]
                      ELSE <<>>]

-----------------------------------------------------------------------------
Unseen == [seen |-> FALSE, manual |-> FALSE, quota |-> "", avail |-> "", snap |-> None]

RoutingInit ==
  /\ desired \in Desireds
  /\ observed = [p \in Providers |-> Unseen]
  /\ now \in Moments /\ polls = 0

Attempted(o, f) ==
  [seen |-> TRUE, manual |-> o.manual, quota |-> o.quota, avail |-> o.avail,
   snap |-> IF f = None THEN o.snap
            ELSE [at |-> now - f.age, status |-> f.status, avail |-> f.avail, windows |-> f.windows]]

\* applyQuotaObservations: what a check has found of the providers it polled; of a
\* poll that failed only the attempt is kept, beside the last observation.
Check(found) ==
  /\ polls < MaxPolls
  /\ observed' = [p \in Providers |->
       IF p \notin Polled \cap DOMAIN found THEN observed[p]
         ELSE Attempted(observed[p], found[p])]
  /\ polls' = polls + 1 /\ UNCHANGED <<desired, now>>

\* A hook event, state set or routing disable and enable.
Axes(p, a) ==
  /\ polls < MaxPolls
  /\ observed' = [observed EXCEPT ![p] = [seen |-> TRUE, manual |-> a.manual, quota |-> a.quota,
                                          avail |-> a.avail, snap |-> @.snap]]
  /\ polls' = polls + 1 /\ UNCHANGED <<desired, now>>

Passes == now + 1 \in Moments /\ now' = now + 1 /\ UNCHANGED <<desired, observed, polls>>

RoutingNext ==
  \/ \E found \in Findings : Check(found)
  \/ \E p \in Providers, a \in AxesSeen : Axes(p, a)
  \/ Passes

RoutingSpec == RoutingInit /\ [][RoutingNext]_rvars

-----------------------------------------------------------------------------
(***************************************************************************)
(* Properties.                                                             *)
(***************************************************************************)
\* The hours the operator calls peak, as they stand in the file; None if it has no
\* schedule, and then no hour is cheap.
AtPeak(peaks, at) ==
  peaks = None \/ \E w \in peaks : (at \div Day) % 7 \in w.days /\ at % Day >= w.start /\ at % Day < w.end

\* Two members of a group lie apart when a gap of Band divides those above it
\* from those below.
Apart(ms, a, b) ==
  \E high \in SUBSET ms :
    /\ a \in high /\ b \notin high
    /\ \A x \in high, y \in ms \ high : x.signal - y.signal >= Band

\* a is to be preferred to b: what would be lost at a reset first, if that can
\* be said of everybody, then off-peak hours, then weight.
Preferred(ms, a, b) ==
  LET comparable == \A m \in ms : m.signal # None
      cheap(x) == ~AtPeak(desired.providers[x.id].peaks, now) IN
  IF comparable /\ Apart(ms, a, b) THEN TRUE
  ELSE IF comparable /\ Apart(ms, b, a) THEN FALSE
  ELSE IF cheap(a) # cheap(b) THEN cheap(a) ELSE a.weight > b.weight

RanksPrefer(rank, items) ==
  /\ \A a, b \in items : a # b =>
       LET ga == Members(items, a.group)  gb == Members(items, b.group) IN
       IF ga = gb THEN (rank[a.id] < rank[b.id]) <=> Preferred(ga, a, b)
       ELSE \/ \A x \in ga, y \in gb : rank[x.id] < rank[y.id]
            \/ \A x \in ga, y \in gb : rank[x.id] > rank[y.id]
  /\ \A q \in Polled \ Ids(items) : \A p \in Polled \ {q} :
       rank[p] # rank[q] /\ (p \in Ids(items) => rank[p] < rank[q])

\* The rank says exactly what is preferred, by the hours that stand in the file:
\* within a group p ranks better than q if and only if it is preferred; groups do
\* not mix; and a provider about which nothing fresh is known is ranked behind
\* all others, never among them.
RankIsPreference == RanksPrefer(Rank, Items)

OnlyReordered(plain, after, ranks) ==
  LET ranked(m) == desired.routing /\ Owner(m) \in DOMAIN ranks IN
  /\ Len(after) = Len(plain)
  /\ \A i \in 2..Len(after) :
       MappingMode(Owner(after[i])) = "normal" => MappingMode(Owner(after[i - 1])) = "normal"
  /\ \E at \in [DOMAIN after -> DOMAIN plain] :
       /\ \A i \in DOMAIN after : after[i] = plain[at[i]]
       /\ \A i, j \in DOMAIN after : at[i] = at[j] => i = j
       /\ \A i \in DOMAIN after :
            /\ BalanceGroup(Owner(after[i])) = BalanceGroup(Owner(plain[i]))
            /\ ~ranked(plain[i]) => at[i] = i
       /\ \A i, j \in DOMAIN after :
            (/\ i < j /\ ranked(after[i]) /\ ranked(after[j])
             /\ BalanceGroup(Owner(after[i])) = BalanceGroup(Owner(after[j]))) =>
               \/ ranks[Owner(after[i])] < ranks[Owner(after[j])]
               \/ ranks[Owner(after[i])] = ranks[Owner(after[j])] /\ at[i] < at[j]
               \/ MappingMode(Owner(after[i])) # MappingMode(Owner(after[j]))

\* Survivors: those of the chain, and nothing in another place than it may have.
ChainOnlyReordered ==
  \A c \in DOMAIN desired.target.chains :
    LET chain == desired.target.chains[c]  parts == Partitions(chain) IN
    /\ ToSet(Survivors(chain)) = {m \in ToSet(chain) : UsableModel(m)}
    /\ OnlyReordered(parts.normal \o parts.reserve, Survivors(chain), Lookup)

\* Of a plan: no model it names is one it turns off.
PlanRefersToEnabled ==
  LET plan == Build IN
  (plan # NoPlan /\ desired.target.global) =>
    /\ \A c \in DOMAIN plan.model : plan.enabled[plan.model[c]]
    /\ \A c \in DOMAIN plan.fallbacks : \A m \in ToSet(plan.fallbacks[c]) : plan.enabled[m]

\* What routing may do to a chain: the survivors are those of the policy, normal
\* before reserve; who cannot be compared stays where the operator put it; and
\* among those of a group the better rank comes first, equal ranks as authored.
\* And a candidate never refers to a model it turns off itself, which the program
\* that reads it would reject.
ChainsKept == ChainOnlyReordered /\ PlanRefersToEnabled

\* The gate and the ranking go by the same evidence: what may be ranked on its
\* signal is gated exactly when the signal is at or below its threshold, and
\* what is gated is kept out of the ranking by no doubt about the evidence.
GateAndRankAgree ==
  \A p \in Polled :
    LET d == desired.providers[p] IN
    /\ (Eligible(p) /\ d.gate /\ Signal(observed[p].snap) # None) =>
         (Gated(p) <=> Signal(observed[p].snap) <= d.threshold)
    /\ (Gated(p) /\ MappingMode(p) # "disabled" /\ ~OutOfQuota(observed[p].snap)) => Eligible(p)
=============================================================================
