--------------------------- MODULE SelectionProofs ---------------------------
(***************************************************************************)
(* Proofs about ModelSelection, for every set of policies, sightings,      *)
(* answers and invocations, any number of writes of other commands between *)
(* the two reads, and candidate policies of any size.                      *)
(***************************************************************************)
EXTENDS ModelSelection, DataLemmas

\* Groups of references.
WellFormed(groups) ==
  groups \in Seq(ToSet(groups)) /\ \A g \in DOMAIN groups : groups[g] \in Seq(ToSet(groups[g]))

\* What a command line and the files it names may hold.
Invocations(invocations) ==
  \A a \in invocations :
    /\ a.command \in {"select", "select-eval"}
    /\ a.doc # Refused =>
         \A phase \in DOMAIN a.doc : \A tier \in DOMAIN a.doc[phase] : WellFormed(a.doc[phase][tier])
    /\ a.command = "select-eval" => a.fixtures \in Seq(ToSet(a.fixtures))

SelectionSpec(invocations) == SelectionInit /\ [][SelectionNext(invocations)]_svars

-----------------------------------------------------------------------------
(***************************************************************************)
(* The invariant.                                                          *)
(***************************************************************************)
Verdicts == Options \cup {"failed"}
Reading == {"idle", "refresh", "policy", "state"}
HasRead == {"prepare", "assess", "choose", "report"}
Sighted == [DOMAIN state -> Sightings]

\* An invocation under way; what it answers is said below.
Invocation(invocations) ==
  [pc : Reading \cup HasRead \cup {"done"}, args : invocations, asOf : Nat,
   policy : Configs \cup {None}, seen : Sighted \cup {None}, sent : Nat, results : Seq(Verdicts),
   tier : ToSet(Tiers) \cup {None}, outcome : {run.outcome}]

SelectionTypes(invocations) ==
  /\ config \in Configs /\ clock \in Nat
  /\ state \in [DOMAIN config.freshness -> Sightings]
  /\ run.pc # "idle" => run \in Invocation(invocations)
  /\ run.pc \notin {"idle", "done"} => ~RequestRefused(run.args)
  /\ run.pc \in {"refresh", "policy", "state", "prepare"} => run.sent = 0 /\ run.results = <<>>

\* What is read of a provider was recorded of it since the clock was read.
ReadSince ==
  /\ run.pc \in {"state"} \cup HasRead =>
       run.policy \in Configs /\ since \in [DOMAIN state -> SUBSET Sightings]
  /\ run.pc = "state" => \A p \in DOMAIN state : state[p] \in since[p]
  /\ run.pc \in HasRead => run.seen \in Sighted /\ \A p \in DOMAIN state : run.seen[p] \in since[p]

\* Nothing is sent without consent, and nothing is chosen that was not validated.
Validated ==
  LET a == run.args IN
  /\ run.pc \in {"assess", "choose", "report"} => ~DocRefused(a.doc, run.policy) /\ NamedCovered(a)
  /\ run.pc \in {"assess", "report"} => run.policy.consent
  /\ run.pc = "assess" => IF a.command = "select" THEN a.tier = None
                          ELSE run.sent = Len(run.results) /\ Len(run.results) < Len(a.fixtures)
  /\ run.pc = "report" => /\ a.command = "select-eval"
                          /\ run.sent = Len(run.results) /\ Len(run.results) = Len(a.fixtures)

\* The tier that is chosen from was given, or assessed with consent.
TierEarned ==
  LET a == run.args IN
  a.tier = None =>
    /\ run.policy.consent /\ run.sent = 1 /\ run.results[1] \in ToSet(Tiers)
    /\ TierIndex(run.tier) >= TierIndex(run.results[1])
    /\ run.tier \in {run.results[1], a.floor}

Choosing ==
  run.pc = "choose" =>
    /\ run.args.command = "select" /\ TierEarned
    /\ run.tier \in DOMAIN run.args.doc[run.args.phase]

SelInv(invocations) ==
  SelectionTypes(invocations) /\ ReadSince /\ Validated /\ Choosing /\ SelectionEarned

-----------------------------------------------------------------------------
(***************************************************************************)
(* Least and greatest.                                                     *)
(***************************************************************************)
\* Of finitely many places one has the most, and is the first that has.
LEMMA MostFirst ==
  ASSUME NEW S \in SUBSET Nat, IsFiniteSet(S), S # {},
         NEW left, \A i \in S : left[i] \in Int
  PROVE  \E i \in S : \A j \in S : left[j] < left[i] \/ (left[j] = left[i] /\ i <= j)
<1> DEFINE Above(i) == {k \in S : left[k] > left[i] \/ (left[k] = left[i] /\ k < i)}
           T == {Above(i) : i \in S}
<1>1. \A X \in T : X \subseteq S /\ IsFiniteSet(X)
  BY FS_Subset
<1>2. T # {}
  OBVIOUS
<1>. HIDE DEF T
<1>3. PICK X \in T : \A Y \in T : Y \subseteq X => Y = X
  <2>1. \E B : \A X \in T : X \subseteq B /\ IsFiniteSet(X)
    BY <1>1
  <2>. QED  BY <1>2, <2>1, SmallestSet
<1>4. PICK i \in S : X = Above(i)
  BY <1>3 DEF T
<1>5. ASSUME NEW j \in S, ~(left[j] < left[i] \/ (left[j] = left[i] /\ i <= j))
      PROVE  FALSE
  <2>1. i \in Nat /\ j \in Nat /\ left[i] \in Int /\ left[j] \in Int
    OBVIOUS
  <2>2. j \in Above(i) /\ j \notin Above(j)
    BY <1>5, <2>1
  <2>3. ASSUME NEW k \in Above(j)
        PROVE  k \in Above(i)
    <3>1. k \in S /\ k \in Nat /\ left[k] \in Int
      OBVIOUS
    <3>2. left[k] > left[j] \/ (left[k] = left[j] /\ k < j)
      OBVIOUS
    <3>3. left[j] > left[i] \/ (left[j] = left[i] /\ j < i)
      BY <1>5, <2>1
    <3>. QED  BY <2>1, <3>1, <3>2, <3>3
  <2>4. Above(j) \in T
    BY DEF T
  <2>. QED  BY <1>3, <1>4, <2>2, <2>3, <2>4
<1>. QED  BY <1>5

\* The tiers in their order.
LEMMA TierIndexes ==
  /\ TierIndex("routine") = 1 /\ TierIndex("normal") = 2
  /\ TierIndex("difficult") = 3 /\ TierIndex("very_difficult") = 4
  /\ ToSet(Tiers) = {"routine", "normal", "difficult", "very_difficult"}
  /\ Options = ToSet(Tiers) \cup {Abstention} /\ Abstention \notin ToSet(Tiers)
<1>1. /\ DOMAIN Tiers = 1..4 /\ Tiers[1] = "routine" /\ Tiers[2] = "normal"
      /\ Tiers[3] = "difficult" /\ Tiers[4] = "very_difficult"
  BY DEF Tiers
<1>2. ToSet(Tiers) = {"routine", "normal", "difficult", "very_difficult"}
  BY <1>1 DEF ToSet
<1>3. \A i \in 1..4 : i = 1 \/ i = 2 \/ i = 3 \/ i = 4
  OBVIOUS
<1> HIDE DEF Tiers
<1>. QED  BY <1>1, <1>2, <1>3 DEF TierIndex, Options, Abstention

-----------------------------------------------------------------------------
(***************************************************************************)
(* What a choice means.                                                    *)
(***************************************************************************)
\* The evidence that is complete is a proof, and what bars a provider spends it.
LEMMA EvidenceMeans ==
  ASSUME NEW o \in Sightings, NEW freshness \in Int \cup {None}, NEW asOf \in Nat
  PROVE  /\ (~Bars(o) /\ Evidence(o, freshness, asOf) = "confirmed") <=> Proven(o, freshness, asOf)
         /\ Bars(o) <=> Spent(o)
         /\ Evidence(o, freshness, asOf) # "excluded"
         /\ Proven(o, freshness, asOf) => o.snap.left \in Int /\ ~Spent(o)
<1>1. /\ None \notin Int /\ DefaultFreshness \in Nat
      /\ o.snap # None => o.snap.at \in Int \cup {None} /\ o.snap.left \in Int \cup {None}
  BY SelectionAssumption
<1>2. AxesBar(o) <=> o.manual \/ o.quota \notin {"", "normal", "low"} \/ o.avail \notin {"", "available"}
  BY DEF AxesBar, Supported
<1>3. ASSUME o.snap # None
      PROVE  SnapshotBars(o.snap) <=>
               \/ o.snap.corrupt \/ o.snap.avail \notin {"", "available", "unknown"}
               \/ o.snap.status \notin {"", "fresh", "partial", "failed"}
               \/ (o.snap.left # None /\ o.snap.left <= 0)
  BY DEF SnapshotBars, Supported
<1>4. Bars(o) <=> Spent(o)
  BY <1>2, <1>3 DEF Bars, Spent
<1>5. Evidence(o, freshness, asOf) # "excluded"
  BY DEF Evidence
<1>6. ASSUME o.snap = None
      PROVE  Evidence(o, freshness, asOf) # "confirmed"
  BY <1>6 DEF Evidence
<1>7. ASSUME o.snap # None
      PROVE  Evidence(o, freshness, asOf) = "confirmed" <=>
               /\ o.snap.at # None /\ ~(o.snap.at > asOf) /\ ConfirmTTL(freshness) # None
               /\ ~(asOf - o.snap.at > ConfirmTTL(freshness))
               /\ o.snap.status \notin {"", "failed", "partial"}
               /\ o.snap.avail = "available" /\ o.snap.left # None
  <2>. HIDE DEF ConfirmTTL
  <2>. DEFINE young == asOf - o.snap.at > ConfirmTTL(freshness)
              early == o.snap.at > asOf
  <2>1. Evidence(o, freshness, asOf) =
          IF o.snap.at = None \/ early \/ ConfirmTTL(freshness) = None THEN "unknown"
          ELSE IF young THEN "stale"
          ELSE IF o.snap.status \in {"failed", "partial"} THEN o.snap.status
          ELSE IF o.snap.status = "" \/ o.snap.avail # "available" THEN "unknown"
          ELSE IF o.snap.left = None THEN "sparse" ELSE "confirmed"
    BY <1>7 DEF Evidence
  <2>. HIDE DEF young, early
  <2>2. Evidence(o, freshness, asOf) = "confirmed" <=>
          /\ o.snap.at # None /\ ~early /\ ConfirmTTL(freshness) # None /\ ~young
          /\ o.snap.status \notin {"", "failed", "partial"}
          /\ o.snap.avail = "available" /\ o.snap.left # None
    BY <2>1
  <2>. QED  BY <2>2 DEF young, early
<1>8. ASSUME o.snap # None, o.snap.at # None
      PROVE  /\ ~(o.snap.at > asOf) /\ ConfirmTTL(freshness) # None
             /\ ~(asOf - o.snap.at > ConfirmTTL(freshness))
             <=> /\ freshness # None
                 /\ o.snap.at \in (asOf - (IF freshness > 0 THEN freshness ELSE DefaultFreshness))..asOf
  <2>1. o.snap.at \in Int
    BY <1>1, <1>8
  <2>2. CASE freshness = None
    BY <1>1, <2>2 DEF ConfirmTTL
  <2>3. CASE freshness \in Int
    BY <1>1, <2>1, <2>3 DEF ConfirmTTL
  <2>. QED  BY <2>2, <2>3
<1>9. ASSUME Proven(o, freshness, asOf)
      PROVE  o.snap.left \in Int /\ ~Spent(o) /\ Evidence(o, freshness, asOf) = "confirmed"
  <2>1. /\ ~o.manual /\ o.quota \in {"", "normal", "low"} /\ o.avail \in {"", "available"}
        /\ o.snap # None /\ ~o.snap.corrupt
        /\ o.snap.status = "fresh" /\ o.snap.avail = "available"
    BY <1>9, Zenon DEF Proven
  <2>2. o.snap.left # None /\ o.snap.left > 0 /\ o.snap.at # None /\ freshness # None
    BY <1>9, Zenon DEF Proven
  <2>3. o.snap.at \in (asOf - (IF freshness > 0 THEN freshness ELSE DefaultFreshness))..asOf
    BY <1>9, Zenon DEF Proven
  <2>4. o.snap.left \in Int
    BY <1>1, <2>1, <2>2
  <2>5. ~(o.snap.left <= 0)
    BY <2>2, <2>4
  <2>6. o.snap.status \notin {"", "failed", "partial"} /\ o.snap.status \in {"", "fresh", "partial", "failed"}
    BY <2>1
  <2>7. ~Spent(o)
    BY <2>1, <2>5, <2>6 DEF Spent
  <2>8. Evidence(o, freshness, asOf) = "confirmed"
    BY <1>7, <1>8, <2>1, <2>2, <2>3, <2>6
  <2>. QED  BY <2>4, <2>7, <2>8
<1>10. ASSUME ~Bars(o), Evidence(o, freshness, asOf) = "confirmed"
       PROVE  Proven(o, freshness, asOf)
  <2>1. o.snap # None /\ ~Spent(o)
    BY <1>4, <1>6, <1>10
  <2>2. /\ o.snap.at # None
        /\ ~(o.snap.at > asOf) /\ ConfirmTTL(freshness) # None
        /\ ~(asOf - o.snap.at > ConfirmTTL(freshness))
        /\ o.snap.status \notin {"", "failed", "partial"}
        /\ o.snap.avail = "available" /\ o.snap.left # None
    BY <1>7, <1>10, <2>1
  <2>3. freshness # None /\ o.snap.at \in (asOf - (IF freshness > 0 THEN freshness ELSE DefaultFreshness))..asOf
    BY <1>8, <2>1, <2>2
  <2>4. /\ ~o.manual /\ o.quota \in {"", "normal", "low"} /\ o.avail \in {"", "available"}
        /\ ~o.snap.corrupt /\ ~(o.snap.left <= 0) /\ o.snap.status \in {"", "fresh", "partial", "failed"}
    BY <2>1, <2>2 DEF Spent
  <2>5. o.snap.left > 0
    <3>1. o.snap.left \in Int
      BY <1>1, <2>1, <2>2
    <3>2. ~(o.snap.left <= 0)
      BY <2>4
    <3>. QED  BY <3>1, <3>2
  <2>6. o.snap.status = "fresh"
    BY <2>2, <2>4
  <2>. QED  BY <2>1, <2>2, <2>3, <2>4, <2>5, <2>6 DEF Proven
<1>. QED  BY <1>4, <1>5, <1>9, <1>10

\* What is confirmed is allowed and proven, and what is excluded is not allowed or spent.
LEMMA ClassifyMeans ==
  ASSUME NEW policy \in Configs, NEW seen \in [DOMAIN policy.freshness -> Sightings],
         NEW ref, ref.base \in DOMAIN policy.models, NEW asOf \in Nat, NEW excluded
  PROVE  LET owner == policy.models[ref.base].owner
             allowed == policy.models[ref.base].enabled /\ Family[ref.base] \notin excluded
             kind == Classify(ref, policy, seen, asOf, excluded) IN
         /\ owner \in DOMAIN policy.freshness
         /\ kind = "confirmed" <=> allowed /\ Proven(seen[owner], policy.freshness[owner], asOf)
         /\ kind = "excluded" <=> ~allowed \/ Spent(seen[owner])
         /\ kind = "confirmed" => seen[owner].snap.left \in Int /\ ~Spent(seen[owner])
<1> DEFINE owner == policy.models[ref.base].owner
           o == seen[owner]
           freshness == policy.freshness[owner]
<1>1. owner \in DOMAIN policy.freshness /\ o \in Sightings /\ freshness \in Int \cup {None}
  BY SelectionAssumption
<1>2. /\ (~Bars(o) /\ Evidence(o, freshness, asOf) = "confirmed") <=> Proven(o, freshness, asOf)
      /\ Bars(o) <=> Spent(o)
      /\ Evidence(o, freshness, asOf) # "excluded"
      /\ Proven(o, freshness, asOf) => o.snap.left \in Int /\ ~Spent(o)
  BY <1>1, EvidenceMeans
<1>3. Closed(ref, policy, excluded) <=> ~(policy.models[ref.base].enabled /\ Family[ref.base] \notin excluded)
  BY DEF Closed
<1>4. Classify(ref, policy, seen, asOf, excluded) =
        IF Closed(ref, policy, excluded) \/ Bars(o) THEN "excluded" ELSE Evidence(o, freshness, asOf)
  BY DEF Classify
<1> HIDE DEF owner, o, freshness
<1>5. /\ Classify(ref, policy, seen, asOf, excluded) = "confirmed" <=>
           ~Closed(ref, policy, excluded) /\ Proven(o, freshness, asOf)
      /\ Classify(ref, policy, seen, asOf, excluded) = "excluded" <=>
           Closed(ref, policy, excluded) \/ Spent(o)
  BY <1>2, <1>4
<1>. QED  BY <1>1, <1>2, <1>3, <1>5 DEF owner, o, freshness

\* The places of the groups, in the order of preference.
Places(groups) == UNION {{<<g, i>> : i \in DOMAIN groups[g]} : g \in DOMAIN groups}
EarlierPlace(x, y) == x[1] < y[1] \/ (x[1] = y[1] /\ x[2] < y[2])

\* The first place of a set.
LEMMA FirstPlace ==
  ASSUME NEW S, S # {}, \A x \in S : x \in Nat \X Nat
  PROVE  LET g == Min({x[1] : x \in S})  at == <<g, Min({x[2] : x \in {y \in S : y[1] = g}})>> IN
         at \in S /\ \A x \in S : ~EarlierPlace(x, at)
<1> DEFINE A == {x[1] : x \in S}
           g == Min(A)
           B == {x[2] : x \in {y \in S : y[1] = g}}
           i == Min(B)
<1>1. A # {} /\ A \in SUBSET Nat
  OBVIOUS
<1> HIDE DEF A
<1>2. g \in A /\ \A n \in A : g <= n
  BY <1>1, LeastNat
<1> HIDE DEF g
<1>3. B # {} /\ B \in SUBSET Nat
  BY <1>2 DEF A
<1> HIDE DEF B
<1>4. i \in B /\ \A n \in B : i <= n
  BY <1>3, LeastNat
<1> HIDE DEF i
<1>5. <<g, i>> \in S
  BY <1>4 DEF B
<1>6. ASSUME NEW x \in S, EarlierPlace(x, <<g, i>>)
      PROVE  FALSE
  <2>1. x[1] \in A /\ x[1] \in Nat /\ x[2] \in Nat /\ g \in Nat /\ i \in Nat
    BY <1>1, <1>2, <1>3, <1>4 DEF A
  <2>2. ~(x[1] < g)
    BY <1>2, <2>1
  <2>3. x[1] = g /\ x[2] < i
    BY <1>6, <2>2 DEF EarlierPlace
  <2>4. x[2] \in B
    BY <2>3 DEF B
  <2>. QED  BY <1>4, <2>1, <2>3, <2>4
<1>. QED  BY <1>5, <1>6 DEF A, g, B, i

\* The places of the models in their groups.
LEMMA PlaceOfGroup ==
  ASSUME NEW groups, WellFormed(groups)
  PROVE  /\ \A x \in Places(groups) : /\ x \in Nat \X Nat /\ x = <<x[1], x[2]>>
                                      /\ x[1] \in DOMAIN groups /\ x[2] \in DOMAIN groups[x[1]]
         /\ \A g \in DOMAIN groups : \A i \in DOMAIN groups[g] : <<g, i>> \in Places(groups)
         /\ DOMAIN groups \subseteq Nat
         /\ \A g \in DOMAIN groups : DOMAIN groups[g] \subseteq Nat /\ IsFiniteSet(DOMAIN groups[g])
<1>1. groups \in Seq(ToSet(groups)) /\ \A g \in DOMAIN groups : groups[g] \in Seq(ToSet(groups[g]))
  BY DEF WellFormed
<1>2. DOMAIN groups \subseteq Nat
  BY <1>1
<1>3. ASSUME NEW g \in DOMAIN groups
      PROVE  DOMAIN groups[g] \subseteq Nat /\ IsFiniteSet(DOMAIN groups[g])
  <2>1. DOMAIN groups[g] = 1..Len(groups[g]) /\ Len(groups[g]) \in Nat
    BY <1>1
  <2>. QED  BY <2>1, FS_Interval
<1>. QED  BY <1>2, <1>3 DEF Places

\* A confirmed model of the first group that has one, with the most left; else the
\* first that is not excluded; else none.
LEMMA SelectMeans ==
  ASSUME NEW groups, WellFormed(groups), NEW policy, NEW seen, NEW asOf, NEW excluded,
         \A x \in Places(groups) :
           Classify(groups[x[1]][x[2]], policy, seen, asOf, excluded) = "confirmed" =>
             seen[policy.models[groups[x[1]][x[2]].base].owner].snap.left \in Int
  PROVE  LET kind(x) == Classify(groups[x[1]][x[2]], policy, seen, asOf, excluded)
             left(x) == seen[policy.models[groups[x[1]][x[2]].base].owner].snap.left
             result == Select(groups, policy, seen, asOf, excluded) IN
         /\ result.kind \in {"confirmed", "uncertain", "none"}
         /\ result.kind = "none" => \A x \in Places(groups) : kind(x) = "excluded"
         /\ result.kind = "uncertain" =>
              /\ result.place \in Places(groups) /\ kind(result.place) # "excluded"
              /\ \A x \in Places(groups) :
                   kind(x) # "confirmed" /\ (EarlierPlace(x, result.place) => kind(x) = "excluded")
         /\ result.kind = "confirmed" =>
              /\ result.place \in Places(groups) /\ kind(result.place) = "confirmed"
              /\ result.headroom = left(result.place)
              /\ \A x \in Places(groups) : kind(x) = "confirmed" =>
                   /\ ~(x[1] < result.place[1])
                   /\ x[1] = result.place[1] => left(x) <= result.headroom
<1> DEFINE K(g, i) == Classify(groups[g][i], policy, seen, asOf, excluded)
           L(g, i) == seen[policy.models[groups[g][i].base].owner].snap.left
           sure(g) == {i \in DOMAIN groups[g] : K(g, i) = "confirmed"}
           open(g) == {i \in DOMAIN groups[g] : K(g, i) # "excluded"}
           candidates == UNION {{<<g, i>> : i \in open(g)} : g \in DOMAIN groups}
           most(g) == CHOOSE i \in sure(g) : \A j \in sure(g) :
                         L(g, j) < L(g, i) \/ (L(g, j) = L(g, i) /\ i <= j)
           H == {h \in DOMAIN groups : sure(h) # {}}
           G == Min(H)
           f == Min({x[1] : x \in candidates})
           at == <<f, Min({x[2] : x \in {y \in candidates : y[1] = f}})>>
           result == Select(groups, policy, seen, asOf, excluded)
<1>1. result = IF \E g \in DOMAIN groups : sure(g) # {}
               THEN [kind |-> "confirmed", place |-> <<G, most(G)>>, headroom |-> L(G, most(G))]
               ELSE IF candidates # {}
               THEN [kind |-> "uncertain", place |-> at, evidence |-> K(at[1], at[2])]
               ELSE [kind |-> "none"]
  BY DEF Select
<1>2. /\ \A x \in Places(groups) : /\ x \in Nat \X Nat /\ x = <<x[1], x[2]>>
                                   /\ x[1] \in DOMAIN groups /\ x[2] \in DOMAIN groups[x[1]]
      /\ \A g \in DOMAIN groups : \A i \in DOMAIN groups[g] : <<g, i>> \in Places(groups)
      /\ DOMAIN groups \subseteq Nat
      /\ \A g \in DOMAIN groups : DOMAIN groups[g] \subseteq Nat /\ IsFiniteSet(DOMAIN groups[g])
  BY PlaceOfGroup
<1>3. \A x \in Places(groups) : x \in candidates <=> K(x[1], x[2]) # "excluded"
  <2> HIDE DEF K
  <2>1. ASSUME NEW x \in Places(groups), K(x[1], x[2]) # "excluded"
        PROVE  x \in candidates
    <3>1. x[1] \in DOMAIN groups /\ x[2] \in open(x[1]) /\ x = <<x[1], x[2]>>
      BY <1>2, <2>1
    <3>2. x \in {<<x[1], i>> : i \in open(x[1])}
      BY <3>1, Zenon
    <3>. QED  BY <3>1, <3>2
  <2>2. ASSUME NEW x \in candidates
        PROVE  K(x[1], x[2]) # "excluded"
    <3>1. PICK g \in DOMAIN groups : x \in {<<g, i>> : i \in open(g)}
      BY <2>2
    <3>2. PICK i \in open(g) : x = <<g, i>>
      BY <3>1
    <3>. QED  BY <3>2
  <2>. QED  BY <2>1, <2>2
<1>4. \A x \in candidates : x \in Places(groups)
  <2> SUFFICES ASSUME NEW x \in candidates
               PROVE  x \in Places(groups)
    OBVIOUS
  <2> HIDE DEF K
  <2>1. PICK g \in DOMAIN groups : x \in {<<g, i>> : i \in open(g)}
    OBVIOUS
  <2>2. PICK i \in open(g) : x = <<g, i>>
    BY <2>1
  <2>. QED  BY <1>2, <2>2
<1>5. \A x \in Places(groups) : x[2] \in sure(x[1]) <=> K(x[1], x[2]) = "confirmed"
  BY <1>2
<1>6. \A g \in DOMAIN groups : sure(g) \subseteq DOMAIN groups[g]
  OBVIOUS
<1>7. \A g \in DOMAIN groups : \A i \in sure(g) : L(g, i) \in Int /\ K(g, i) = "confirmed"
  BY <1>2
<1> HIDE DEF candidates, result
<1>8. CASE \E g \in DOMAIN groups : sure(g) # {}
  <2>1. H # {} /\ H \in SUBSET Nat
    BY <1>2, <1>8
  <2> HIDE DEF H
  <2>2. G \in H /\ \A n \in H : G <= n
    BY <2>1, LeastNat
  <2> HIDE DEF G
  <2>3. G \in DOMAIN groups /\ G \in Nat /\ sure(G) # {} /\ sure(G) \in SUBSET Nat /\ IsFiniteSet(sure(G))
    BY <1>2, <2>2, FS_Subset DEF H
  <2> DEFINE l == [i \in sure(G) |-> L(G, i)]
             M == most(G)
  <2>4. \E i \in sure(G) : \A j \in sure(G) : l[j] < l[i] \/ (l[j] = l[i] /\ i <= j)
    <3>1. \A i \in sure(G) : l[i] \in Int
      BY <1>7, <2>3
    <3> HIDE DEF l, sure
    <3>. QED  BY <2>3, <3>1, MostFirst
  <2>5. M \in sure(G) /\ \A j \in sure(G) : L(G, j) < L(G, M) \/ (L(G, j) = L(G, M) /\ M <= j)
    BY <2>4
  <2> HIDE DEF M, l
  <2>6. result = [kind |-> "confirmed", place |-> <<G, M>>, headroom |-> L(G, M)]
    BY <1>1, <1>8 DEF M
  <2>7. <<G, M>> \in Places(groups) /\ K(G, M) = "confirmed" /\ L(G, M) \in Int
    BY <1>2, <1>7, <2>3, <2>5
  <2>8. ASSUME NEW x \in Places(groups), K(x[1], x[2]) = "confirmed"
        PROVE  ~(x[1] < G) /\ (x[1] = G => L(x[1], x[2]) <= L(G, M))
    <3>1. x[1] \in DOMAIN groups /\ x[1] \in Nat /\ x[2] \in sure(x[1])
      BY <1>2, <1>5, <2>8
    <3>2. x[1] \in H
      BY <3>1 DEF H
    <3>3. ASSUME x[1] = G
          PROVE  L(x[1], x[2]) <= L(G, M)
      <4>1. x[2] \in sure(G) /\ L(G, x[2]) \in Int
        BY <1>7, <3>1, <3>3
      <4>2. L(G, x[2]) < L(G, M) \/ L(G, x[2]) = L(G, M)
        BY <2>5, <4>1
      <4>3. L(x[1], x[2]) = L(G, x[2])
        BY <3>3
      <4> DEFINE a == L(G, x[2])
                 b == L(G, M)
      <4>4. a \in Int /\ b \in Int /\ (a < b \/ a = b)
        BY <2>7, <4>1, <4>2
      <4> HIDE DEF a, b
      <4>5. a <= b
        BY ONLY <4>4
      <4>. QED  BY <4>3, <4>5 DEF a, b
    <3>4. G <= x[1]
      BY <2>2, <3>2
    <3>5. ~(x[1] < G)
      <4> DEFINE n == x[1]
      <4>1. n \in Nat /\ G \in Nat /\ G <= n
        BY <2>3, <3>1, <3>4
      <4> HIDE DEF n
      <4>2. ~(n < G)
        BY ONLY <4>1
      <4>. QED  BY <4>2 DEF n
    <3>. QED  BY <3>3, <3>5
  <2>9. result.kind = "confirmed" /\ result.place = <<G, M>> /\ result.headroom = L(G, M)
    BY <2>6
  <2>10. result.place[1] = G /\ result.place[2] = M
    <3>1. result.place = <<G, M>>
      BY <2>9
    <3>. QED  BY ONLY <3>1
  <2>11. /\ result.place \in Places(groups) /\ K(result.place[1], result.place[2]) = "confirmed"
         /\ result.headroom = L(result.place[1], result.place[2])
         /\ \A x \in Places(groups) : K(x[1], x[2]) = "confirmed" =>
              ~(x[1] < result.place[1]) /\ (x[1] = result.place[1] => L(x[1], x[2]) <= result.headroom)
    <3> HIDE DEF K, L
    <3>. QED  BY <2>7, <2>8, <2>9, <2>10
  <2>. QED  BY <2>9, <2>11 DEF result
<1>9. CASE ~(\E g \in DOMAIN groups : sure(g) # {}) /\ candidates # {}
  <2>1. \A x \in Places(groups) : K(x[1], x[2]) # "confirmed"
    BY <1>2, <1>5, <1>9
  <2>2. \A x \in candidates : x \in Nat \X Nat
    BY <1>2, <1>4
  <2>3. at \in candidates /\ \A x \in candidates : ~EarlierPlace(x, at)
    BY <1>9, <2>2, FirstPlace
  <2> HIDE DEF at, K, sure
  <2>4. at \in Places(groups) /\ K(at[1], at[2]) # "excluded"
    BY <1>3, <1>4, <2>3
  <2>5. result.kind = "uncertain" /\ result.place = at
    BY <1>1, <1>9
  <2>6. \A x \in Places(groups) : EarlierPlace(x, at) => K(x[1], x[2]) = "excluded"
    BY <1>3, <2>3
  <2>. QED  BY <2>1, <2>4, <2>5, <2>6 DEF result, K
<1>10. CASE ~(\E g \in DOMAIN groups : sure(g) # {}) /\ candidates = {}
  <2>1. \A x \in Places(groups) : K(x[1], x[2]) = "excluded"
    BY <1>3, <1>10
  <2>2. result = [kind |-> "none"]
    BY <1>1, <1>10
  <2>3. result.kind = "none"
    BY <2>2
  <2>. QED  BY <2>1, <2>3 DEF result
<1>. QED  BY <1>8, <1>9, <1>10

\* What a tier that was accepted may refer to.
LEMMA ReferencesKnown ==
  ASSUME NEW groups, NEW policy, WellFormed(groups), ~TierRefused(groups, policy)
  PROVE  \A x \in Places(groups) : groups[x[1]][x[2]].base \in DOMAIN policy.models
BY PlaceOfGroup DEF TierRefused, Places

\* A choice that is earned against all that was recorded of the providers.
Earned(policy, recorded, groups, asOf, excluded, result) ==
  LET base(x) == groups[x[1]][x[2]].base
      owner(x) == policy.models[base(x)].owner
      allowed(x) == policy.models[base(x)].enabled /\ Family[base(x)] \notin excluded
      proof(o, x) == Proven(o, policy.freshness[owner(x)], asOf)
      always(x) == allowed(x) /\ \A o \in recorded[owner(x)] : proof(o, x)
      open(x) == allowed(x) /\ \A o \in recorded[owner(x)] : ~Spent(o) IN
  /\ result.kind = "none" => \A x \in Places(groups) : ~open(x)
  /\ result.kind # "none" =>
       /\ allowed(result.place) /\ \E o \in recorded[owner(result.place)] : ~Spent(o)
  /\ result.kind = "uncertain" =>
       /\ \A x \in Places(groups) : ~always(x)
       /\ \A x \in Places(groups) : EarlierPlace(x, result.place) => ~open(x)
  /\ result.kind = "confirmed" =>
       /\ \E o \in recorded[owner(result.place)] : proof(o, result.place) /\ o.snap.left = result.headroom
       /\ \A x \in Places(groups) : x[1] < result.place[1] => ~always(x)
       /\ \A x \in Places(groups) : (x[1] = result.place[1] /\ always(x)) =>
            \E o \in recorded[owner(x)] : o.snap.left <= result.headroom

\* Whatever was read is one of the records since the clock was read, so the choice
\* made from it is earned against all of them.
LEMMA ChosenWell ==
  ASSUME NEW policy \in Configs, NEW seen \in [DOMAIN policy.freshness -> Sightings],
         NEW recorded, \A p \in DOMAIN policy.freshness : seen[p] \in recorded[p],
         NEW groups, WellFormed(groups), ~TierRefused(groups, policy),
         NEW asOf \in Nat, NEW excluded
  PROVE  Earned(policy, recorded, groups, asOf, excluded, Select(groups, policy, seen, asOf, excluded))
<1> DEFINE base(x) == groups[x[1]][x[2]].base
           owner(x) == policy.models[base(x)].owner
           allowed(x) == policy.models[base(x)].enabled /\ Family[base(x)] \notin excluded
           proof(o, x) == Proven(o, policy.freshness[owner(x)], asOf)
           always(x) == allowed(x) /\ \A o \in recorded[owner(x)] : proof(o, x)
           open(x) == allowed(x) /\ \A o \in recorded[owner(x)] : ~Spent(o)
           kind(x) == Classify(groups[x[1]][x[2]], policy, seen, asOf, excluded)
           left(x) == seen[owner(x)].snap.left
           result == Select(groups, policy, seen, asOf, excluded)
<1>1. \A x \in Places(groups) :
        /\ owner(x) \in DOMAIN policy.freshness
        /\ kind(x) = "confirmed" <=> allowed(x) /\ proof(seen[owner(x)], x)
        /\ kind(x) = "excluded" <=> ~allowed(x) \/ Spent(seen[owner(x)])
        /\ kind(x) = "confirmed" => left(x) \in Int /\ ~Spent(seen[owner(x)])
  BY ReferencesKnown, ClassifyMeans
<1>2. /\ result.kind \in {"confirmed", "uncertain", "none"}
      /\ result.kind = "none" => \A x \in Places(groups) : kind(x) = "excluded"
      /\ result.kind = "uncertain" =>
           /\ result.place \in Places(groups) /\ kind(result.place) # "excluded"
           /\ \A x \in Places(groups) :
                kind(x) # "confirmed" /\ (EarlierPlace(x, result.place) => kind(x) = "excluded")
      /\ result.kind = "confirmed" =>
           /\ result.place \in Places(groups) /\ kind(result.place) = "confirmed"
           /\ result.headroom = left(result.place)
           /\ \A x \in Places(groups) : kind(x) = "confirmed" =>
                /\ ~(x[1] < result.place[1])
                /\ x[1] = result.place[1] => left(x) <= result.headroom
  <2>1. \A x \in Places(groups) : kind(x) = "confirmed" => left(x) \in Int
    BY <1>1
  <2>. QED  BY <2>1, SelectMeans
<1>3. \A x \in Places(groups) : seen[owner(x)] \in recorded[owner(x)]
  BY <1>1
<1>4. \A x \in Places(groups) :
        /\ always(x) => kind(x) = "confirmed"
        /\ open(x) => kind(x) # "excluded"
        /\ kind(x) # "excluded" => allowed(x) /\ \E o \in recorded[owner(x)] : ~Spent(o)
        /\ kind(x) = "confirmed" =>
             \E o \in recorded[owner(x)] : proof(o, x) /\ o.snap.left = left(x)
  BY <1>1, <1>3
<1> HIDE DEF allowed, proof, always, open, kind, left, result, owner
<1>5. result.kind = "none" => \A x \in Places(groups) : ~open(x)
  BY <1>2, <1>4
<1>6. result.kind # "none" => allowed(result.place) /\ \E o \in recorded[owner(result.place)] : ~Spent(o)
  <2>1. result.kind # "none" => result.place \in Places(groups) /\ kind(result.place) # "excluded"
    BY <1>2
  <2>. QED  BY <1>4, <2>1
<1>7. result.kind = "uncertain" =>
        /\ \A x \in Places(groups) : ~always(x)
        /\ \A x \in Places(groups) : EarlierPlace(x, result.place) => ~open(x)
  BY <1>2, <1>4
<1>8. result.kind = "confirmed" =>
        /\ \E o \in recorded[owner(result.place)] : proof(o, result.place) /\ o.snap.left = result.headroom
        /\ \A x \in Places(groups) : x[1] < result.place[1] => ~always(x)
        /\ \A x \in Places(groups) : (x[1] = result.place[1] /\ always(x)) =>
             \E o \in recorded[owner(x)] : o.snap.left <= result.headroom
  BY <1>2, <1>4
<1>. QED  BY <1>5, <1>6, <1>7, <1>8 DEF Earned, allowed, proof, always, open, result, owner

-----------------------------------------------------------------------------
(***************************************************************************)
(* The assessment and the report.                                          *)
(***************************************************************************)
\* An answer that is accepted is one of the options, however its ties are resolved.
LEMMA AssessmentVerdict ==
  ASSUME NEW a \in Answers
  PROVE  Assessment(a) \in Verdicts \cup {"no_key"}
<1>1. CASE "fails" \in DOMAIN a
  BY <1>1, SelectionAssumption DEF Assessment, Verdicts
<1>2. CASE ~("fails" \in DOMAIN a) /\ AnswerRefused(a)
  BY <1>2 DEF Assessment, Verdicts
<1>3. CASE ~("fails" \in DOMAIN a) /\ ~AnswerRefused(a)
  <2> DEFINE p == a.probability
             top == {o \in Options : \A x \in Options : p[x] <= p[o]}
             indexes == {TierIndex(t) : t \in top}
  <2>1. Assessment(a) = IF Abstention \in top THEN Abstention ELSE Tiers[Max(indexes)]
    BY <1>3 DEF Assessment, ResolveOutcome
  <2>2. a.choice \in Options /\ \A o \in Options : p[o] \in Nat /\ ~(p[o] > p[a.choice])
    BY <1>3, SelectionAssumption DEF AnswerRefused
  <2>3. a.choice \in top
    <3>1. \A o \in Options : p[o] <= p[a.choice]
      <4> HIDE DEF p
      <4>. QED  BY <2>2
    <3>. QED  BY <2>2, <3>1
  <2>4. top \subseteq Options
    OBVIOUS
  <2> HIDE DEF top
  <2>5. CASE Abstention \in top
    BY <2>1, <2>4, <2>5 DEF Verdicts
  <2>6. CASE Abstention \notin top
    <3>1. \A t \in top : t \in ToSet(Tiers)
      BY <2>4, <2>6, TierIndexes
    <3>2. indexes # {} /\ \A i \in indexes : i \in 1..4
      BY <2>3, <3>1, TierIndexes
    <3> HIDE DEF indexes
    <3>3. \E i \in indexes : \A j \in indexes : i >= j
      BY <3>2
    <3>4. Max(indexes) \in 1..4
      BY <3>2, <3>3 DEF Max
    <3>5. \A i \in 1..4 : Tiers[i] \in ToSet(Tiers)
      BY DEF Tiers, ToSet
    <3>. QED  BY <2>1, <2>6, <3>4, <3>5 DEF Verdicts, Options
  <2>. QED  BY <2>5, <2>6
<1>. QED  BY <1>1, <1>2, <1>3

\* Sets that have nothing in common.
LEMMA DisjointSum ==
  ASSUME NEW S, NEW T, IsFiniteSet(S), IsFiniteSet(T), S \cap T = {}
  PROVE  /\ IsFiniteSet(S \cup T) /\ Cardinality(S \cup T) = Cardinality(S) + Cardinality(T)
         /\ Cardinality(S) \in Nat /\ Cardinality(T) \in Nat
<1>1. /\ IsFiniteSet(S \cup T)
      /\ Cardinality(S \cup T) = Cardinality(S) + Cardinality(T) - Cardinality(S \cap T)
  BY FS_Union
<1>2. Cardinality(S \cap T) = 0
  BY FS_EmptySet
<1>3. Cardinality(S) \in Nat /\ Cardinality(T) \in Nat
  BY FS_CardinalityType
<1>. QED  BY <1>1, <1>2, <1>3

\* The report accounts for every case: it failed or was assessed, and what was
\* assessed is a match, too low, too high, or an abstention of one side only.
LEMMA ReportCounts ==
  ASSUME NEW a, NEW results \in Seq(Verdicts), a.fixtures \in Seq(ToSet(a.fixtures)),
         Len(results) = Len(a.fixtures),
         \A i \in DOMAIN a.fixtures : a.fixtures[i].expected \in Options
  PROVE  LET r == Report(a, results) IN
         /\ r.total = Len(results) /\ r.total = r.assessed + r.errors
         /\ r.assessed - r.matches - r.under - r.over =
              Cardinality({i \in DOMAIN results : results[i] # "failed"
                             /\ (results[i] = Abstention) # (a.fixtures[i].expected = Abstention)})
<1> DEFINE E(i) == a.fixtures[i].expected
           C == DOMAIN results
           F == {i \in C : results[i] = "failed"}
           A == {i \in C : results[i] # "failed"}
           P == {i \in A : Abstention \notin {results[i], E(i)}}
           M == {i \in A : results[i] = E(i)}
           U == {i \in P : TierIndex(results[i]) < TierIndex(E(i))}
           O == {i \in P : TierIndex(results[i]) > TierIndex(E(i))}
           X == {i \in A : (results[i] = Abstention) # (E(i) = Abstention)}
           r == Report(a, results)
<1>1. /\ r.total = Len(a.fixtures) /\ r.errors = Cardinality(C \ A) /\ r.assessed = Cardinality(A)
      /\ r.matches = Cardinality(M) /\ r.under = Cardinality(U) /\ r.over = Cardinality(O)
  BY DEF Report
<1>2. C = 1..Len(results) /\ DOMAIN a.fixtures = C /\ Len(results) \in Nat
  OBVIOUS
<1>3. IsFiniteSet(C) /\ Cardinality(C) = Len(results)
  BY <1>2, FS_Interval
<1>4. \A i \in C : E(i) \in Options /\ results[i] \in Options \cup {"failed"}
  BY <1>2 DEF Verdicts
<1>5. {i \in DOMAIN results : results[i] # "failed"
         /\ (results[i] = Abstention) # (a.fixtures[i].expected = Abstention)} = X
  OBVIOUS
<1> HIDE DEF r, C
<1>6. /\ IsFiniteSet(A) /\ IsFiniteSet(F) /\ IsFiniteSet(M) /\ IsFiniteSet(U) /\ IsFiniteSet(O)
      /\ IsFiniteSet(X) /\ IsFiniteSet(P)
  <2>1. A \subseteq C /\ F \subseteq C /\ M \subseteq C /\ U \subseteq C /\ O \subseteq C /\ X \subseteq C /\ P \subseteq C
    OBVIOUS
  <2>. QED  BY <1>3, <2>1, FS_Subset
<1>7. C = A \cup F /\ A \cap F = {} /\ C \ A = F
  OBVIOUS
<1>8. \A i \in A : \/ i \in M \/ i \in U \/ i \in O \/ i \in X
  <2> SUFFICES ASSUME NEW i \in A, i \notin M, i \notin X
               PROVE  i \in U \/ i \in O
    OBVIOUS
  <2>1. results[i] \in Options /\ E(i) \in Options /\ results[i] # E(i)
    BY <1>4
  <2>2. results[i] \in ToSet(Tiers) /\ E(i) \in ToSet(Tiers) /\ i \in P
    BY <2>1, TierIndexes
  <2>3. TierIndex(results[i]) < TierIndex(E(i)) \/ TierIndex(results[i]) > TierIndex(E(i))
    BY <2>1, <2>2, TierIndexes
  <2>. QED  BY <2>2, <2>3
<1>9. /\ M \cap U = {} /\ (M \cup U) \cap O = {} /\ (M \cup U \cup O) \cap X = {}
  <2>1. \A i \in M : i \notin U /\ i \notin O /\ i \notin X
    <3>1. \A i \in M : results[i] = E(i)
      OBVIOUS
    <3>2. \A i \in P : results[i] \in ToSet(Tiers) /\ E(i) \in ToSet(Tiers)
      BY <1>4, TierIndexes
    <3>. QED  BY <3>1, <3>2, TierIndexes
  <2>2. \A i \in U : i \notin O
    <3>1. \A i \in P : results[i] \in ToSet(Tiers) /\ E(i) \in ToSet(Tiers)
      BY <1>4, TierIndexes
    <3>. QED  BY <3>1, TierIndexes
  <2>3. \A i \in P : i \notin X
    OBVIOUS
  <2>. QED  BY <2>1, <2>2, <2>3
<1>10. A = ((M \cup U) \cup O) \cup X
  BY <1>8
<1> HIDE DEF A, F, M, U, O, X, P
<1>11. Cardinality(C) = Cardinality(A) + Cardinality(F) /\ Cardinality(A) \in Nat /\ Cardinality(F) \in Nat
  BY <1>6, <1>7, DisjointSum
<1>12. /\ IsFiniteSet(M \cup U) /\ Cardinality(M \cup U) = Cardinality(M) + Cardinality(U)
       /\ Cardinality(M) \in Nat /\ Cardinality(U) \in Nat
  BY <1>6, <1>9, DisjointSum
<1>13. /\ IsFiniteSet((M \cup U) \cup O)
       /\ Cardinality((M \cup U) \cup O) = Cardinality(M \cup U) + Cardinality(O) /\ Cardinality(O) \in Nat
  BY <1>6, <1>9, <1>12, DisjointSum
<1>14. /\ Cardinality(((M \cup U) \cup O) \cup X) = Cardinality((M \cup U) \cup O) + Cardinality(X)
       /\ Cardinality(X) \in Nat
  BY <1>6, <1>9, <1>13, DisjointSum
<1>15. Cardinality(A) - Cardinality(M) - Cardinality(U) - Cardinality(O) = Cardinality(X)
  BY <1>10, <1>12, <1>13, <1>14
<1>. QED  BY <1>1, <1>3, <1>5, <1>7, <1>11, <1>15 DEF r

-----------------------------------------------------------------------------
(***************************************************************************)
(* The invariant holds.                                                    *)
(***************************************************************************)
\* An invocation whose fields keep their types.
LEMMA InvocationFields ==
  ASSUME NEW invocations, run \in Invocation(invocations)
  PROVE  /\ DOMAIN run = {"pc", "args", "asOf", "policy", "seen", "sent", "results", "tier", "outcome"}
         /\ run = [pc |-> run.pc, args |-> run.args, asOf |-> run.asOf, policy |-> run.policy,
                   seen |-> run.seen, sent |-> run.sent, results |-> run.results, tier |-> run.tier,
                   outcome |-> run.outcome]
         /\ run.pc \in Reading \cup HasRead \cup {"done"} /\ run.args \in invocations /\ run.asOf \in Nat
         /\ run.policy \in Configs \cup {None} /\ run.seen \in Sighted \cup {None}
         /\ run.sent \in Nat /\ run.results \in Seq(Verdicts) /\ run.tier \in ToSet(Tiers) \cup {None}
BY DEF Invocation

\* Every policy is about the same providers.
LEMMA SameProviders ==
  ASSUME NEW invocations, SelectionTypes(invocations),
         config' \in Configs, state' \in [DOMAIN state -> Sightings]
  PROVE  /\ state' \in [DOMAIN config'.freshness -> Sightings]
         /\ DOMAIN state' = DOMAIN state /\ Sighted' = Sighted
         /\ \A c \in Configs : DOMAIN c.freshness = DOMAIN state
<1>1. DOMAIN state = DOMAIN config.freshness /\ config \in Configs
  BY DEF SelectionTypes
<1>2. \A c \in Configs : DOMAIN c.freshness = DOMAIN config.freshness
  BY <1>1, SelectionAssumption
<1>3. DOMAIN state' = DOMAIN state
  OBVIOUS
<1>. QED  BY <1>1, <1>2, <1>3 DEF Sighted

\* An invocation that ends without a selection or a report.
LEMMA Ended ==
  ASSUME NEW invocations, SelInv(invocations), run.pc # "idle",
         config' \in Configs, state' \in [DOMAIN state -> Sightings], clock' \in Nat,
         run' \in Invocation(invocations)', run'.pc = "done",
         run'.outcome.status \notin {"selected", "report"}
  PROVE  SelInv(invocations)'
<1>1. SelectionTypes(invocations)'
  BY SameProviders DEF SelInv, SelectionTypes
<1>2. ReadSince' /\ Validated' /\ Choosing' /\ SelectionEarned'
  BY DEF ReadSince, Validated, Choosing, SelectionEarned, HasRead
<1>. QED  BY <1>1, <1>2 DEF SelInv

\* Before a command.
LEMMA InitSelInv ==
  ASSUME NEW invocations
  PROVE  SelectionInit => SelInv(invocations)
<1> SUFFICES ASSUME SelectionInit PROVE SelInv(invocations)
  OBVIOUS
<1>1. run.pc = "idle"
  BY DEF SelectionInit
<1>2. Min(Clocks) \in Nat
  BY LeastNat, SelectionAssumption
<1>3. SelectionTypes(invocations)
  BY <1>1, <1>2 DEF SelectionTypes, SelectionInit
<1>4. ReadSince /\ Validated /\ Choosing /\ SelectionEarned
  BY <1>1 DEF ReadSince, Validated, Choosing, SelectionEarned, HasRead
<1>. QED  BY <1>3, <1>4 DEF SelInv

\* A command is refused or starts to read.
LEMMA InvokedSelInv ==
  ASSUME NEW invocations, SelInv(invocations), NEW args \in invocations, Invoked(args)
  PROVE  SelInv(invocations)'
<1>1. /\ UNCHANGED <<config, state, clock, since>>
      /\ run' = [pc |-> IF RequestRefused(args) THEN "done"
                        ELSE IF args.command = "select" /\ args.refresh THEN "refresh" ELSE "policy",
                 args |-> args, asOf |-> clock, policy |-> None, seen |-> None, sent |-> 0,
                 results |-> <<>>, tier |-> None,
                 outcome |-> IF RequestRefused(args) THEN [status |-> "fatal", why |-> "request"] ELSE None]
  BY DEF Invoked
<1>2. config \in Configs /\ clock \in Nat /\ state \in [DOMAIN config.freshness -> Sightings]
  BY DEF SelInv, SelectionTypes
<1>3. /\ run'.pc \in {"done", "refresh", "policy"} /\ run'.args = args
      /\ run'.sent = 0 /\ run'.results = <<>>
      /\ run'.pc # "done" => ~RequestRefused(args)
  BY <1>1
<1>4. run'.pc = "done" => run'.outcome.status = "fatal"
  BY <1>1
<1>5. run' \in Invocation(invocations)'
  <2>1. <<>> \in Seq(Verdicts)
    OBVIOUS
  <2>. QED  BY <1>1, <1>2, <2>1 DEF Invocation, Reading, HasRead
<1>6. SelectionTypes(invocations)'
  BY <1>1, <1>2, <1>3, <1>5 DEF SelectionTypes
<1>7. ReadSince' /\ Validated' /\ Choosing' /\ SelectionEarned'
  BY <1>3, <1>4 DEF ReadSince, Validated, Choosing, SelectionEarned, HasRead
<1>. QED  BY <1>6, <1>7 DEF SelInv

\* The refresh, before anything is read.
LEMMA RefreshSelInv ==
  ASSUME NEW invocations, SelInv(invocations),
         (\E p \in DOMAIN state, o \in Sightings : RefreshQuota(p, o)) \/ RefreshFails
  PROVE  SelInv(invocations)'
<1>1. run.pc = "refresh" /\ UNCHANGED <<config, clock, since>>
  BY DEF RefreshQuota, RefreshFails
<1>2. run \in Invocation(invocations) /\ ~RequestRefused(run.args)
  BY <1>1 DEF SelInv, SelectionTypes
<1>3. state' \in [DOMAIN state -> Sightings] /\ state \in [DOMAIN state -> Sightings]
  BY DEF SelInv, SelectionTypes, RefreshQuota, RefreshFails
<1>4. config' \in Configs /\ clock' \in Nat
  BY <1>1 DEF SelInv, SelectionTypes
<1>5. /\ state' \in [DOMAIN config'.freshness -> Sightings]
      /\ DOMAIN state' = DOMAIN state /\ Sighted' = Sighted
  BY <1>3, <1>4, SameProviders DEF SelInv
<1>6. CASE RefreshFails
  <2>1. run' = [run EXCEPT !.pc = "done", !.outcome = [status |-> "fatal", why |-> "refresh"]]
    BY <1>6 DEF RefreshFails, Fatal, Ends
  <2>2. run' \in Invocation(invocations)' /\ run'.pc = "done" /\ run'.outcome.status = "fatal"
    BY <1>2, <1>5, <2>1 DEF Invocation
  <2>. QED  BY <1>1, <1>3, <1>4, <2>2, Ended
<1>7. CASE ~RefreshFails
  <2>1. run' = [run EXCEPT !.pc = "policy"]
    BY <1>7 DEF RefreshQuota, Step
  <2>2. /\ run' \in Invocation(invocations)' /\ run'.pc = "policy" /\ run'.args = run.args
        /\ run'.sent = run.sent /\ run'.results = run.results
    BY <1>2, <1>5, <2>1 DEF Invocation, Reading
  <2>3. SelectionTypes(invocations)'
    BY <1>1, <1>2, <1>4, <1>5, <2>2 DEF SelInv, SelectionTypes
  <2>4. ReadSince' /\ Validated' /\ Choosing' /\ SelectionEarned'
    BY <2>2 DEF ReadSince, Validated, Choosing, SelectionEarned, HasRead
  <2>. QED  BY <2>3, <2>4 DEF SelInv
<1>. QED  BY <1>6, <1>7

\* The two reads.
LEMMA ReadPolicySelInv ==
  ASSUME NEW invocations, SelInv(invocations), ReadPolicy
  PROVE  SelInv(invocations)'
<1>1. run.pc = "policy" /\ UNCHANGED <<config, state, clock>> /\ since' = [p \in DOMAIN state |-> {state[p]}]
  BY DEF ReadPolicy
<1>2. /\ run \in Invocation(invocations) /\ ~RequestRefused(run.args) /\ run.sent = 0 /\ run.results = <<>>
      /\ config \in Configs /\ clock \in Nat /\ state \in [DOMAIN state -> Sightings]
      /\ state \in [DOMAIN config.freshness -> Sightings]
  BY <1>1 DEF SelInv, SelectionTypes
<1>3. CASE config.mode = "legacy"
  <2>1. run' = [run EXCEPT !.pc = "state", !.policy = config, !.asOf = clock]
    BY <1>3 DEF ReadPolicy
  <2>2. /\ run' \in Invocation(invocations)' /\ run'.pc = "state" /\ run'.args = run.args
        /\ run'.sent = run.sent /\ run'.results = run.results /\ run'.policy = config
    BY <1>1, <1>2, <2>1 DEF Invocation, Reading, Sighted
  <2>3. SelectionTypes(invocations)'
    BY <1>1, <1>2, <2>2 DEF SelectionTypes
  <2>4. ReadSince'
    <3>1. since' \in [DOMAIN state' -> SUBSET Sightings] /\ \A p \in DOMAIN state' : state'[p] \in since'[p]
      BY <1>1, <1>2
    <3>. QED  BY <1>2, <2>2, <3>1 DEF ReadSince, HasRead
  <2>5. Validated' /\ Choosing' /\ SelectionEarned'
    BY <2>2 DEF Validated, Choosing, SelectionEarned
  <2>. QED  BY <2>3, <2>4, <2>5 DEF SelInv
<1>4. CASE config.mode # "legacy"
  <2>1. run' = [run EXCEPT !.pc = "done", !.outcome = [status |-> "fatal", why |-> "snapshot"]]
    BY <1>4 DEF ReadPolicy, Fatal, Ends
  <2>2. run' \in Invocation(invocations)' /\ run'.pc = "done" /\ run'.outcome.status = "fatal"
    BY <1>1, <1>2, <2>1 DEF Invocation, Sighted
  <2>. QED  BY <1>1, <1>2, <2>2, Ended
<1>. QED  BY <1>3, <1>4

\* The state is read after the clock and the policy.
LEMMA ReadStateSelInv ==
  ASSUME NEW invocations, SelInv(invocations), ReadState
  PROVE  SelInv(invocations)'
<1>1. /\ run.pc = "state" /\ UNCHANGED <<config, state, clock, since>>
      /\ run' = [run EXCEPT !.pc = "prepare", !.seen = state]
  BY DEF ReadState
<1>2. /\ run \in Invocation(invocations) /\ ~RequestRefused(run.args) /\ run.sent = 0 /\ run.results = <<>>
      /\ config \in Configs /\ clock \in Nat /\ state \in Sighted
      /\ state \in [DOMAIN config.freshness -> Sightings]
  BY <1>1 DEF SelInv, SelectionTypes, Sighted
<1>3. /\ run' \in Invocation(invocations)' /\ run'.pc = "prepare" /\ run'.args = run.args
      /\ run'.sent = run.sent /\ run'.results = run.results /\ run'.policy = run.policy /\ run'.seen = state
  BY <1>1, <1>2 DEF Invocation, HasRead, Sighted
<1>4. SelectionTypes(invocations)'
  BY <1>1, <1>2, <1>3 DEF SelectionTypes
<1>5. ReadSince'
  <2>1. /\ run.policy \in Configs /\ since \in [DOMAIN state -> SUBSET Sightings]
        /\ \A p \in DOMAIN state : state[p] \in since[p]
    BY <1>1 DEF SelInv, ReadSince
  <2>. QED  BY <1>1, <1>2, <1>3, <2>1 DEF ReadSince, HasRead, Sighted
<1>6. Validated' /\ Choosing' /\ SelectionEarned'
  BY <1>3 DEF Validated, Choosing, SelectionEarned
<1>. QED  BY <1>4, <1>5, <1>6 DEF SelInv

\* What was read stays what was recorded.
LEMMA ReadSinceKept ==
  ASSUME NEW invocations, SelInv(invocations), run.pc \in HasRead, UNCHANGED <<config, state, clock, since>>,
         run'.policy = run.policy, run'.seen = run.seen, run'.pc \in HasRead
  PROVE  ReadSince'
BY DEF SelInv, ReadSince, HasRead, Sighted

\* The document, the consent and the limits are looked at before anything is sent.
LEMMA PrepareSelInv ==
  ASSUME NEW invocations, Invocations(invocations), SelInv(invocations), Prepare
  PROVE  SelInv(invocations)'
<1>1. run.pc = "prepare" /\ UNCHANGED <<config, state, clock, since>>
  BY DEF Prepare
<1>2. /\ run \in Invocation(invocations) /\ ~RequestRefused(run.args) /\ run.sent = 0 /\ run.results = <<>>
      /\ config \in Configs /\ clock \in Nat /\ state \in [DOMAIN state -> Sightings]
      /\ state \in [DOMAIN config.freshness -> Sightings]
  BY <1>1 DEF SelInv, SelectionTypes
<1>3. run.args.command \in {"select", "select-eval"}
  BY <1>2 DEF Invocations, Invocation
<1>4. CASE DocRefused(run.args.doc, run.policy) \/ ~NamedCovered(run.args)
  <2>1. run' = [run EXCEPT !.pc = "done", !.outcome = [status |-> "fatal", why |-> "policy"]]
    BY <1>4 DEF Prepare, Fatal, Ends
  <2>2. run' \in Invocation(invocations)' /\ run'.pc = "done" /\ run'.outcome.status = "fatal"
    BY <1>1, <1>2, <2>1 DEF Invocation, Sighted
  <2>. QED  BY <1>1, <1>2, <2>2, Ended
<1>5. CASE /\ ~DocRefused(run.args.doc, run.policy) /\ NamedCovered(run.args)
           /\ run.args.command = "select" /\ run.args.tier # None
  <2>1. run' = [run EXCEPT !.pc = "choose", !.tier = run.args.tier]
    BY <1>5 DEF Prepare
  <2>2. run.args.tier \in ToSet(Tiers) /\ run.args.tier \in DOMAIN run.args.doc[run.args.phase]
    BY <1>2, <1>5 DEF RequestRefused, NamedCovered
  <2>3. /\ run' \in Invocation(invocations)' /\ run'.pc = "choose" /\ run'.args = run.args
        /\ run'.policy = run.policy /\ run'.seen = run.seen /\ run'.tier = run.args.tier
    BY <1>1, <1>2, <2>1, <2>2 DEF Invocation, Sighted, HasRead
  <2>4. SelectionTypes(invocations)'
    BY <1>1, <1>2, <2>3 DEF SelectionTypes
  <2>5. ReadSince'
    BY <1>1, <2>3, ReadSinceKept DEF HasRead
  <2>6. Validated' /\ Choosing' /\ SelectionEarned'
    BY <1>5, <2>2, <2>3 DEF Validated, Choosing, TierEarned, SelectionEarned
  <2>. QED  BY <2>4, <2>5, <2>6 DEF SelInv
<1>6. CASE /\ ~DocRefused(run.args.doc, run.policy) /\ NamedCovered(run.args)
           /\ ~(run.args.command = "select" /\ run.args.tier # None) /\ ~run.policy.consent
  <2>1. run' = [run EXCEPT !.pc = "done", !.outcome = [status |-> "fatal", why |-> "consent"]]
    BY <1>6 DEF Prepare, Fatal, Ends
  <2>2. run' \in Invocation(invocations)' /\ run'.pc = "done" /\ run'.outcome.status = "fatal"
    BY <1>1, <1>2, <2>1 DEF Invocation, Sighted
  <2>. QED  BY <1>1, <1>2, <2>2, Ended
<1>7. CASE /\ ~DocRefused(run.args.doc, run.policy) /\ NamedCovered(run.args)
           /\ ~(run.args.command = "select" /\ run.args.tier # None) /\ run.policy.consent
  <2>1. run' = [run EXCEPT !.pc = "assess"]
    BY <1>7 DEF Prepare, Step
  <2>2. /\ run' \in Invocation(invocations)' /\ run'.pc = "assess" /\ run'.args = run.args
        /\ run'.policy = run.policy /\ run'.seen = run.seen /\ run'.sent = 0 /\ run'.results = <<>>
    BY <1>1, <1>2, <2>1 DEF Invocation, Sighted, HasRead
  <2>3. SelectionTypes(invocations)'
    BY <1>1, <1>2, <2>2 DEF SelectionTypes
  <2>4. ReadSince'
    BY <1>1, <2>2, ReadSinceKept DEF HasRead
  <2>5. Validated'
    <3>1. ASSUME run.args.command = "select-eval"
          PROVE  0 < Len(run.args.fixtures)
      <4>1. run.args.fixtures # <<>>
        BY <1>7, <3>1 DEF NamedCovered, FixturesRefused
      <4>2. run.args.fixtures \in Seq(ToSet(run.args.fixtures))
        BY <1>2, <3>1 DEF Invocations, Invocation
      <4>. QED  BY <4>1, <4>2
    <3>. QED  BY <1>3, <1>7, <2>2, <3>1 DEF Validated
  <2>6. Choosing' /\ SelectionEarned'
    BY <2>2 DEF Choosing, SelectionEarned
  <2>. QED  BY <2>3, <2>4, <2>5, <2>6 DEF SelInv
<1>. QED  BY <1>4, <1>5, <1>6, <1>7

\* A floor raises, and raises only to itself.
LEMMA RaisedTier ==
  ASSUME NEW tier \in ToSet(Tiers), NEW floor \in ToSet(Tiers) \cup {None}
  PROVE  /\ Raised(tier, floor) \in ToSet(Tiers) /\ Raised(tier, floor) \in {tier, floor}
         /\ TierIndex(Raised(tier, floor)) >= TierIndex(tier)
BY TierIndexes DEF Raised

\* The assessor answers, fails, or answers what cannot be used.
LEMMA AssessSelInv ==
  ASSUME NEW invocations, SelInv(invocations), NEW answer \in Answers, Assess(answer)
  PROVE  SelInv(invocations)'
<1> DEFINE a == run.args
           result == Assessment(answer)
           tier == Raised(result, a.floor)
<1>1. run.pc = "assess" /\ a.command = "select" /\ UNCHANGED <<config, state, clock, since>>
  BY DEF Assess
<1>2. /\ run \in Invocation(invocations) /\ ~RequestRefused(a)
      /\ config \in Configs /\ clock \in Nat /\ state \in [DOMAIN state -> Sightings]
      /\ state \in [DOMAIN config.freshness -> Sightings]
  BY <1>1 DEF SelInv, SelectionTypes
<1>3. ~DocRefused(a.doc, run.policy) /\ NamedCovered(a) /\ run.policy.consent /\ a.tier = None
  BY <1>1 DEF SelInv, Validated
<1>4. result \in Verdicts \cup {"no_key"}
  BY AssessmentVerdict
<1>5. a.floor \in ToSet(Tiers) \cup {None}
  BY <1>1, <1>2 DEF RequestRefused
<1> HIDE DEF result
<1>6. CASE result = "no_key"
  <2>1. run' = [run EXCEPT !.pc = "done", !.outcome = [status |-> "fatal", why |-> "credential"]]
    BY <1>6 DEF Assess, Fatal, Ends, result
  <2>2. run' \in Invocation(invocations)' /\ run'.pc = "done" /\ run'.outcome.status = "fatal"
    BY <1>1, <1>2, <2>1 DEF Invocation, Sighted
  <2>. QED  BY <1>1, <1>2, <2>2, Ended
<1>7. <<result>> \in Seq(Verdicts) \/ result = "no_key"
  BY <1>4
<1>8. CASE result # "no_key" /\ result \in {"failed", Abstention}
  <2>1. run' = [run EXCEPT !.sent = 1, !.results = <<result>>, !.pc = "done",
                           !.outcome = [status |-> "unavailable", why |-> result]]
    BY <1>8 DEF Assess, result
  <2>2. run' \in Invocation(invocations)' /\ run'.pc = "done" /\ run'.outcome.status = "unavailable"
    BY <1>1, <1>2, <1>7, <1>8, <2>1 DEF Invocation, Sighted
  <2>. QED  BY <1>1, <1>2, <2>2, Ended
<1>9. CASE /\ result # "no_key" /\ result \notin {"failed", Abstention}
           /\ tier \notin DOMAIN a.doc[a.phase]
  <2>1. run' = [run EXCEPT !.sent = 1, !.results = <<result>>, !.pc = "done",
                           !.outcome = [status |-> "fatal", why |-> "policy"]]
    BY <1>9 DEF Assess, result
  <2>2. run' \in Invocation(invocations)' /\ run'.pc = "done" /\ run'.outcome.status = "fatal"
    BY <1>1, <1>2, <1>7, <1>9, <2>1 DEF Invocation, Sighted
  <2>. QED  BY <1>1, <1>2, <2>2, Ended
<1>10. CASE /\ result # "no_key" /\ result \notin {"failed", Abstention}
            /\ tier \in DOMAIN a.doc[a.phase]
  <2>1. run' = [run EXCEPT !.sent = 1, !.results = <<result>>, !.pc = "choose", !.tier = tier]
    BY <1>10 DEF Assess, result
  <2>2. result \in ToSet(Tiers)
    BY <1>4, <1>10 DEF Verdicts, Options
  <2>3. tier \in ToSet(Tiers) /\ tier \in {result, a.floor} /\ TierIndex(tier) >= TierIndex(result)
    BY <1>5, <2>2, RaisedTier
  <2> HIDE DEF tier
  <2>4. /\ run' \in Invocation(invocations)' /\ run'.pc = "choose" /\ run'.args = a
        /\ run'.policy = run.policy /\ run'.seen = run.seen /\ run'.tier = tier
        /\ run'.sent = 1 /\ run'.results = <<result>>
    BY <1>1, <1>2, <1>7, <1>10, <2>1, <2>3 DEF Invocation, Sighted, HasRead
  <2>5. SelectionTypes(invocations)'
    BY <1>1, <1>2, <2>4 DEF SelectionTypes
  <2>6. ReadSince'
    BY <1>1, <2>4, ReadSinceKept DEF HasRead
  <2>7. Validated' /\ SelectionEarned'
    BY <1>3, <2>4 DEF Validated, SelectionEarned
  <2>8. run'.results[1] = result
    BY <2>4
  <2>9. Choosing'
    BY <1>1, <1>3, <1>10, <2>2, <2>3, <2>4, <2>8 DEF Choosing, TierEarned
  <2>. QED  BY <2>5, <2>6, <2>7, <2>9 DEF SelInv
<1>. QED  BY <1>6, <1>8, <1>9, <1>10

\* The model is chosen from the groups of the tier.
LEMMA ChooseSelInv ==
  ASSUME NEW invocations, Invocations(invocations), SelInv(invocations), Choose
  PROVE  SelInv(invocations)'
<1> DEFINE a == run.args
           groups == a.doc[a.phase][run.tier]
           choice == Select(groups, run.policy, run.seen, run.asOf, a.excluded)
<1>1. /\ run.pc = "choose" /\ UNCHANGED <<config, state, clock, since>>
      /\ run' = [run EXCEPT !.pc = "done", !.outcome = [status |-> "selected", result |-> choice]]
  BY DEF Choose, Ends
<1>2. /\ run \in Invocation(invocations)
      /\ config \in Configs /\ clock \in Nat /\ state \in [DOMAIN state -> Sightings]
      /\ state \in [DOMAIN config.freshness -> Sightings]
  BY <1>1 DEF SelInv, SelectionTypes
<1>3. /\ ~DocRefused(a.doc, run.policy) /\ NamedCovered(a)
      /\ a.command = "select" /\ TierEarned /\ run.tier \in DOMAIN a.doc[a.phase]
  BY <1>1 DEF SelInv, Validated, Choosing
<1>4. /\ run.policy \in Configs /\ run.seen \in Sighted
      /\ \A p \in DOMAIN state : run.seen[p] \in since[p]
  BY <1>1 DEF SelInv, ReadSince, HasRead
<1>5. DOMAIN run.policy.freshness = DOMAIN state
  BY <1>2, <1>4, SelectionAssumption
<1>6. a.phase \in DOMAIN a.doc /\ a.doc # Refused
  BY <1>3 DEF NamedCovered, DocRefused
<1>7. WellFormed(groups) /\ ~TierRefused(groups, run.policy)
  BY <1>2, <1>3, <1>6 DEF Invocations, Invocation, DocRefused
<1>8. run.asOf \in Nat
  BY <1>2 DEF Invocation
<1> HIDE DEF choice
<1>9. /\ run' \in Invocation(invocations)' /\ run'.pc = "done" /\ run'.args = a
      /\ run'.policy = run.policy /\ run'.seen = run.seen /\ run'.tier = run.tier /\ run'.asOf = run.asOf
      /\ run'.sent = run.sent /\ run'.results = run.results
      /\ run'.outcome = [status |-> "selected", result |-> choice]
  BY <1>1, <1>2 DEF Invocation, Sighted
<1>10. SelectionTypes(invocations)'
  BY <1>1, <1>2, <1>9 DEF SelectionTypes
<1>11. ReadSince' /\ Validated' /\ Choosing'
  BY <1>9 DEF ReadSince, Validated, Choosing, HasRead
<1>12. SelectionEarned'
  <2>1. run.seen \in [DOMAIN run.policy.freshness -> Sightings]
    BY <1>4, <1>5 DEF Sighted
  <2>2. \A p \in DOMAIN run.policy.freshness : run.seen[p] \in since[p]
    BY <1>4, <1>5
  <2>3. Earned(run.policy, since, groups, run.asOf, a.excluded, choice)
    BY <1>4, <1>7, <1>8, <2>1, <2>2, ChosenWell DEF choice
  <2>4. run'.outcome.status = "selected" /\ run'.outcome.result = choice
    BY <1>9
  <2>5. Earned(run'.policy, since', run'.args.doc[run'.args.phase][run'.tier], run'.asOf,
               run'.args.excluded, run'.outcome.result)
    BY <1>1, <1>9, <2>3, <2>4
  <2>6. TierEarned'
    BY <1>3, <1>9 DEF TierEarned
  <2>. QED  BY <2>4, <2>5, <2>6 DEF SelectionEarned, TierEarned, Earned, Places, EarlierPlace
<1>. QED  BY <1>10, <1>11, <1>12 DEF SelInv

\* One case of the fixtures is sent and its answer kept.
LEMMA EvaluateCaseSelInv ==
  ASSUME NEW invocations, Invocations(invocations), SelInv(invocations),
         NEW answer \in Answers, EvaluateCase(answer)
  PROVE  SelInv(invocations)'
<1> DEFINE a == run.args
           result == Assessment(answer)
           results == Append(run.results, result)
           pc == IF Len(results) = Len(a.fixtures) THEN "report" ELSE "assess"
<1>1. run.pc = "assess" /\ a.command = "select-eval" /\ UNCHANGED <<config, state, clock, since>>
  BY DEF EvaluateCase
<1>2. /\ run \in Invocation(invocations) /\ ~RequestRefused(a)
      /\ config \in Configs /\ clock \in Nat /\ state \in [DOMAIN state -> Sightings]
      /\ state \in [DOMAIN config.freshness -> Sightings]
  BY <1>1 DEF SelInv, SelectionTypes
<1>3. /\ ~DocRefused(a.doc, run.policy) /\ NamedCovered(a) /\ run.policy.consent
      /\ run.sent = Len(run.results) /\ Len(run.results) < Len(a.fixtures)
  BY <1>1 DEF SelInv, Validated
<1>4. result \in Verdicts \cup {"no_key"}
  BY AssessmentVerdict
<1>5. run.results \in Seq(Verdicts) /\ a.fixtures \in Seq(ToSet(a.fixtures))
  BY <1>1, <1>2 DEF Invocation, Invocations
<1> HIDE DEF result
<1>6. CASE result = "no_key"
  <2>1. run' = [run EXCEPT !.pc = "done", !.outcome = [status |-> "fatal", why |-> "credential"]]
    BY <1>6 DEF EvaluateCase, Fatal, Ends, result
  <2>2. run' \in Invocation(invocations)' /\ run'.pc = "done" /\ run'.outcome.status = "fatal"
    BY <1>1, <1>2, <2>1 DEF Invocation, Sighted
  <2>. QED  BY <1>1, <1>2, <2>2, Ended
<1>7. CASE result # "no_key"
  <2>1. run' = [run EXCEPT !.sent = run.sent + 1, !.results = results, !.pc = pc]
    BY <1>7 DEF EvaluateCase, result
  <2>2. results \in Seq(Verdicts) /\ Len(results) = Len(run.results) + 1
    BY <1>4, <1>5, <1>7
  <2>3. pc \in {"report", "assess"} /\ (pc = "report" <=> Len(results) = Len(a.fixtures))
    OBVIOUS
  <2> HIDE DEF results, pc
  <2>4. /\ run' \in Invocation(invocations)' /\ run'.pc = pc /\ run'.args = a
        /\ run'.policy = run.policy /\ run'.seen = run.seen
        /\ run'.sent = run.sent + 1 /\ run'.results = results
    <3>1. run.sent + 1 \in Nat /\ pc \in Reading \cup HasRead \cup {"done"}
      BY <1>2, <2>3 DEF Invocation, HasRead
    <3> DEFINE sent == run.sent + 1
    <3>2. run' = [run EXCEPT !.sent = sent, !.results = results, !.pc = pc] /\ sent \in Nat
      BY <2>1, <3>1
    <3> HIDE DEF sent
    <3>3. /\ run' \in Invocation(invocations)' /\ run'.pc = pc /\ run'.args = a
          /\ run'.policy = run.policy /\ run'.seen = run.seen
          /\ run'.sent = sent /\ run'.results = results
      BY <1>1, <1>2, <2>2, <3>1, <3>2 DEF Invocation, Sighted
    <3>. QED  BY <3>3 DEF sent
  <2>5. SelectionTypes(invocations)'
    BY <1>1, <1>2, <2>3, <2>4 DEF SelectionTypes
  <2>6. ReadSince'
    BY <1>1, <2>3, <2>4, ReadSinceKept DEF HasRead
  <2>7. Validated'
    <3>1. Len(results) < Len(a.fixtures) \/ Len(results) = Len(a.fixtures)
      BY <1>3, <1>5, <2>2
    <3>. QED  BY <1>1, <1>3, <2>2, <2>3, <2>4, <3>1 DEF Validated
  <2>8. Choosing' /\ SelectionEarned'
    BY <2>3, <2>4 DEF Choosing, SelectionEarned
  <2>. QED  BY <2>5, <2>6, <2>7, <2>8 DEF SelInv
<1>. QED  BY <1>6, <1>7

\* The report counts the kept answers.
LEMMA ReportsSelInv ==
  ASSUME NEW invocations, Invocations(invocations), SelInv(invocations), Reports
  PROVE  SelInv(invocations)'
<1> DEFINE a == run.args
           report == Report(a, run.results)
<1>1. /\ run.pc = "report" /\ UNCHANGED <<config, state, clock, since>>
      /\ run' = [run EXCEPT !.pc = "done", !.outcome = [status |-> "report", report |-> report]]
  BY DEF Reports, Ends
<1>2. /\ run \in Invocation(invocations)
      /\ config \in Configs /\ clock \in Nat /\ state \in [DOMAIN state -> Sightings]
      /\ state \in [DOMAIN config.freshness -> Sightings]
  BY <1>1 DEF SelInv, SelectionTypes
<1>3. /\ NamedCovered(a) /\ run.policy.consent /\ a.command = "select-eval"
      /\ run.sent = Len(run.results) /\ Len(run.results) = Len(a.fixtures)
  BY <1>1 DEF SelInv, Validated
<1>4. run.results \in Seq(Verdicts) /\ a.fixtures \in Seq(ToSet(a.fixtures))
  BY <1>2, <1>3 DEF Invocation, Invocations
<1>5. \A i \in DOMAIN a.fixtures : a.fixtures[i].expected \in Options
  BY <1>3 DEF NamedCovered, FixturesRefused
<1>6. /\ report.total = Len(run.results) /\ report.total = report.assessed + report.errors
      /\ report.assessed - report.matches - report.under - report.over =
           Cardinality({i \in DOMAIN run.results : run.results[i] # "failed"
                          /\ (run.results[i] = Abstention) # (a.fixtures[i].expected = Abstention)})
  BY <1>3, <1>4, <1>5, ReportCounts
<1> HIDE DEF report
<1>7. /\ run' \in Invocation(invocations)' /\ run'.pc = "done" /\ run'.args = a
      /\ run'.policy = run.policy /\ run'.sent = run.sent /\ run'.results = run.results
      /\ run'.outcome = [status |-> "report", report |-> report]
  BY <1>1, <1>2 DEF Invocation, Sighted
<1>8. SelectionTypes(invocations)'
  BY <1>1, <1>2, <1>7 DEF SelectionTypes
<1>9. ReadSince' /\ Validated' /\ Choosing'
  BY <1>7 DEF ReadSince, Validated, Choosing, HasRead
<1>10. SelectionEarned'
  <2>1. run'.outcome.status = "report" /\ run'.outcome.report = report
    BY <1>7
  <2>2. /\ run'.policy.consent /\ run'.sent = report.total /\ report.total = report.assessed + report.errors
        /\ report.assessed - report.matches - report.under - report.over =
             Cardinality({i \in DOMAIN run'.results : run'.results[i] # "failed"
                          /\ (run'.results[i] = Abstention) # (run'.args.fixtures[i].expected = Abstention)})
    BY <1>3, <1>6, <1>7
  <2>. QED  BY <2>1, <2>2 DEF SelectionEarned
<1>. QED  BY <1>8, <1>9, <1>10 DEF SelInv

\* A command that is canceled answers nothing.
LEMMA CanceledSelInv ==
  ASSUME NEW invocations, SelInv(invocations), Canceled
  PROVE  SelInv(invocations)'
<1>1. /\ run.pc = "assess" /\ UNCHANGED <<config, state, clock>>
      /\ run' = [run EXCEPT !.pc = "done", !.outcome = [status |-> "fatal", why |-> "canceled"]]
  BY DEF Canceled, Fatal, Ends
<1>2. /\ run \in Invocation(invocations) /\ config \in Configs /\ clock \in Nat
      /\ state \in [DOMAIN state -> Sightings]
  BY <1>1 DEF SelInv, SelectionTypes
<1>3. run' \in Invocation(invocations)' /\ run'.pc = "done" /\ run'.outcome.status = "fatal"
  BY <1>1, <1>2 DEF Invocation, Sighted
<1>. QED  BY <1>1, <1>2, <1>3, Ended

\* What other commands write while the selection is between its two reads.
LEMMA MeanwhileSelInv ==
  ASSUME NEW invocations, SelInv(invocations),
         \/ \E p \in DOMAIN state, o \in Sightings : Commits(p, o)
         \/ \E c \in Configs : PolicyEdited(c)
         \/ ClockTicks
  PROVE  SelInv(invocations)'
<1>1. run.pc = "state" /\ run' = run
  BY DEF Commits, PolicyEdited, ClockTicks, Meanwhile
<1>2. /\ run \in Invocation(invocations) /\ ~RequestRefused(run.args) /\ run.sent = 0 /\ run.results = <<>>
      /\ config \in Configs /\ clock \in Nat /\ state \in [DOMAIN state -> Sightings]
      /\ state \in [DOMAIN config.freshness -> Sightings]
  BY <1>1 DEF SelInv, SelectionTypes
<1>3. /\ run.policy \in Configs /\ since \in [DOMAIN state -> SUBSET Sightings]
      /\ \A p \in DOMAIN state : state[p] \in since[p]
  BY <1>1 DEF SelInv, ReadSince
<1>4. config' \in Configs /\ clock' \in Nat
  BY <1>2 DEF Commits, PolicyEdited, ClockTicks
<1>5. /\ state' \in [DOMAIN state -> Sightings] /\ since' \in [DOMAIN state -> SUBSET Sightings]
      /\ \A p \in DOMAIN state : state'[p] \in since'[p]
  <2>1. CASE UNCHANGED <<state, since>>
    BY <1>2, <1>3, <2>1
  <2>2. ASSUME NEW p \in DOMAIN state, NEW o \in Sightings, Commits(p, o)
        PROVE  <1>5!:
    BY <1>2, <1>3, <2>2 DEF Commits
  <2>. QED  BY <2>1, <2>2 DEF PolicyEdited, ClockTicks
<1>6. /\ state' \in [DOMAIN config'.freshness -> Sightings]
      /\ DOMAIN state' = DOMAIN state /\ Sighted' = Sighted
  BY <1>4, <1>5, SameProviders DEF SelInv
<1>7. run' \in Invocation(invocations)'
  BY <1>1, <1>2, <1>6 DEF Invocation
<1>8. SelectionTypes(invocations)'
  BY <1>1, <1>2, <1>4, <1>6, <1>7 DEF SelectionTypes
<1>9. ReadSince'
  BY <1>1, <1>3, <1>5, <1>6 DEF ReadSince, HasRead
<1>10. Validated' /\ Choosing' /\ SelectionEarned'
  BY <1>1 DEF Validated, Choosing, SelectionEarned
<1>. QED  BY <1>8, <1>9, <1>10 DEF SelInv

\* SelectionEarned, from the parts that a step which answers shows.
Counted(r, sent, results, fixtures) ==
  /\ sent = r.total /\ r.total = r.assessed + r.errors
  /\ r.assessed - r.matches - r.under - r.over =
       Cardinality({i \in DOMAIN results : results[i] # "failed"
                      /\ (results[i] = Abstention) # (fixtures[i].expected = Abstention)})
Answered ==
  /\ (run.pc = "done" /\ run.outcome.status = "selected") =>
       /\ TierEarned
       /\ Earned(run.policy, since, run.args.doc[run.args.phase][run.tier], run.asOf, run.args.excluded,
                 run.outcome.result)
  /\ (run.pc = "done" /\ run.outcome.status = "report") =>
       run.policy.consent /\ Counted(run.outcome.report, run.sent, run.results, run.args.fixtures)

\* The names given to the parts of the property leave it as it is.
LEMMA AnsweredEarned ==
  (Answered <=> SelectionEarned) /\ (Answered' <=> SelectionEarned')
BY DEF Answered, SelectionEarned, TierEarned, Earned, Places, EarlierPlace, Counted

\* Steps of the other parts.
LEMMA StutterSelInv ==
  ASSUME NEW invocations, SelInv(invocations), UNCHANGED svars
  PROVE  SelInv(invocations)'
<1>1. UNCHANGED <<config, state, clock, run, since>>
  BY DEF svars
<1>2. SelectionTypes(invocations)' /\ ReadSince' /\ Validated' /\ Choosing'
  BY <1>1 DEF SelInv, SelectionTypes, Invocation, Sighted, ReadSince, Validated, Choosing, TierEarned
<1>3. Answered'
  BY <1>1, AnsweredEarned DEF SelInv, Answered, TierEarned
<1>4. SelectionEarned'
  BY <1>3, AnsweredEarned
<1>. QED  BY <1>2, <1>4 DEF SelInv

-----------------------------------------------------------------------------
\* The invariant of a selection: what it has read was recorded since the clock was
\* read (SelectionSnapshot), nothing is sent before the document and the consent
\* are looked at (SelectRunner.Run, EvaluationRunner.RunEval), and what it answers
\* is earned.
THEOREM SelectionInvariant ==
  ASSUME NEW invocations, Invocations(invocations)
  PROVE  SelectionSpec(invocations) => []SelInv(invocations)
<1>1. SelectionInit => SelInv(invocations)
  BY InitSelInv
<1>2. SelInv(invocations) /\ [SelectionNext(invocations)]_svars => SelInv(invocations)'
  <2> SUFFICES ASSUME SelInv(invocations), [SelectionNext(invocations)]_svars
               PROVE  SelInv(invocations)'
    OBVIOUS
  <2>1. ASSUME NEW args \in invocations, Invoked(args)
        PROVE  SelInv(invocations)'
    BY <2>1, InvokedSelInv
  <2>2. CASE (\E p \in DOMAIN state, o \in Sightings : RefreshQuota(p, o)) \/ RefreshFails
    BY <2>2, RefreshSelInv
  <2>3. CASE ReadPolicy
    BY <2>3, ReadPolicySelInv
  <2>4. CASE ReadState
    BY <2>4, ReadStateSelInv
  <2>5. CASE Prepare
    BY <2>5, PrepareSelInv
  <2>6. ASSUME NEW answer \in Answers, Assess(answer)
        PROVE  SelInv(invocations)'
    BY <2>6, AssessSelInv
  <2>7. ASSUME NEW answer \in Answers, EvaluateCase(answer)
        PROVE  SelInv(invocations)'
    BY <2>7, EvaluateCaseSelInv
  <2>8. CASE Choose
    BY <2>8, ChooseSelInv
  <2>9. CASE Reports
    BY <2>9, ReportsSelInv
  <2>10. CASE Canceled
    BY <2>10, CanceledSelInv
  <2>11. CASE \/ \E p \in DOMAIN state, o \in Sightings : Commits(p, o)
              \/ \E c \in Configs : PolicyEdited(c)
              \/ ClockTicks
    BY <2>11, MeanwhileSelInv
  <2>12. CASE UNCHANGED svars
    BY <2>12, StutterSelInv
  <2>. QED  BY <2>1, <2>2, <2>3, <2>4, <2>5, <2>6, <2>7, <2>8, <2>9, <2>10, <2>11, <2>12 DEF SelectionNext
<1>. QED  BY <1>1, <1>2, PTL DEF SelectionSpec

\* Whatever other commands write between the two reads, what a selection chooses
\* is earned by what was recorded since the clock was read, and an evaluation
\* accounts for every case (Select, Evaluate).
THEOREM SelectionEarnedHolds ==
  ASSUME NEW invocations, Invocations(invocations)
  PROVE  SelectionSpec(invocations) => []SelectionEarned
<1>1. SelInv(invocations) => SelectionEarned
  BY DEF SelInv
<1>. QED  BY <1>1, SelectionInvariant, PTL
=============================================================================
