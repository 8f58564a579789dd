---------------------------- MODULE RoutingProofs ----------------------------
(***************************************************************************)
(* Proofs about Routing: the ranking says what is preferred, a chain is    *)
(* only reordered, and the gate goes by the evidence the ranking goes by.  *)
(* These are about what is computed from a state; all they need of the     *)
(* behaviour is that policies and snapshots stay well-formed.              *)
(*                                                                         *)
(* And about QuotaSources: what a provider said of its quota is kept.      *)
(***************************************************************************)
EXTENDS QuotaSources, DataLemmas

-----------------------------------------------------------------------------
(***************************************************************************)
(* The invariant.                                                          *)
(***************************************************************************)
IsSnapshot(snap) == snap.at \in Int /\ snap.windows \in Seq(Windows)

\* The policy is one that was loaded, time is a moment, and what is known of a
\* provider is a snapshot.
RoutingInv ==
  /\ desired \in Desireds /\ now \in Nat
  /\ \A p \in Providers : observed[p].snap # None => IsSnapshot(observed[p].snap)

\* What a poll found is a snapshot, or leaves the one that was there.
LEMMA AttemptedKeeps ==
  ASSUME NEW o, NEW f, o.snap # None => IsSnapshot(o.snap), IsFinding(f), now \in Nat
  PROVE  LET after == Attempted(o, f) IN after.snap # None => IsSnapshot(after.snap)
<1> DEFINE after == Attempted(o, f)
           snap == [at |-> now - f.age, status |-> f.status, avail |-> f.avail, windows |-> f.windows]
<1>1. after.snap = IF f = None THEN o.snap ELSE snap
  BY DEF Attempted
<1>2. f # None => IsSnapshot(snap)
  BY DEF IsFinding, IsSnapshot
<1>. QED  BY <1>1, <1>2

\* Policies and snapshots are well-formed in every state: polls, commands, hooks
\* and the passing of time keep them.
THEOREM RoutingInvariant == RoutingSpec => []RoutingInv
<1>1. RoutingInit => RoutingInv
  <2>1. ASSUME RoutingInit
        PROVE  RoutingInv
    <3>1. \A p \in Providers : observed[p].snap = None
      BY <2>1 DEF RoutingInit, Unseen
    <3>. QED  BY <2>1, <3>1, RoutingAssumption DEF RoutingInit, RoutingInv
  <2>. QED  BY <2>1
<1>2. RoutingInv /\ [RoutingNext]_rvars => RoutingInv'
  <2>1. SUFFICES ASSUME RoutingInv, [RoutingNext]_rvars
                 PROVE  RoutingInv'
    OBVIOUS
  <2>2. ASSUME NEW found \in Findings, Check(found)
        PROVE  RoutingInv'
    <3>1. desired' = desired /\ now' = now
      BY <2>2 DEF Check
    <3>2. ASSUME NEW p \in Providers, observed'[p].snap # None
          PROVE  IsSnapshot(observed'[p].snap)
      <4>1. CASE p \notin Polled \cap DOMAIN found
        BY <2>1, <2>2, <3>2, <4>1 DEF Check, RoutingInv
      <4>2. CASE p \in Polled \cap DOMAIN found
        <5>1. observed'[p] = Attempted(observed[p], found[p])
          BY <2>2, <4>2 DEF Check
        <5>2. IsFinding(found[p])
          BY <4>2, RoutingAssumption
        <5>3. observed[p].snap # None => IsSnapshot(observed[p].snap)
          BY <2>1 DEF RoutingInv
        <5>4. now \in Nat
          BY <2>1 DEF RoutingInv
        <5>. QED  BY <3>2, <5>1, <5>2, <5>3, <5>4, AttemptedKeeps
      <4>. QED  BY <4>1, <4>2
    <3>. QED  BY <2>1, <3>1, <3>2 DEF RoutingInv
  <2>3. ASSUME NEW q \in Providers, NEW a \in AxesSeen, Axes(q, a)
        PROVE  RoutingInv'
    <3>1. desired' = desired /\ now' = now
      BY <2>3 DEF Axes
    <3>2. ASSUME NEW p \in Providers
          PROVE  observed'[p].snap = observed[p].snap
      BY <2>3 DEF Axes
    <3>. QED  BY <2>1, <3>1, <3>2 DEF RoutingInv
  <2>4. CASE Passes
    BY <2>1, <2>4, RoutingAssumption DEF Passes, RoutingInv
  <2>5. CASE UNCHANGED rvars
    BY <2>1, <2>5 DEF rvars, RoutingInv
  <2>. QED  BY <2>1, <2>2, <2>3, <2>4, <2>5 DEF RoutingNext
<1>. QED  BY <1>1, <1>2, PTL DEF RoutingSpec

-----------------------------------------------------------------------------
(***************************************************************************)
(* The gate.                                                               *)
(***************************************************************************)
LEMMA LoadedProviders ==
  ASSUME RoutingInv
  PROVE  \A p \in Providers : IsProvider(desired.providers[p])
BY RoutingAssumption DEF RoutingInv, IsPolicy

\* The mode of a provider is one of three.
LEMMA Modes ==
  ASSUME NEW p
  PROVE  MappingMode(p) \in {"normal", "reserve", "disabled"}
BY DEF MappingMode, ExemptMode, EffectiveMode

LEMMA AgreeInState ==
  ASSUME RoutingInv
  PROVE  GateAndRankAgree
<1>1. SUFFICES ASSUME NEW p \in Polled
               PROVE  LET d == desired.providers[p] IN
                 /\ (Eligible(p) /\ d.gate /\ Signal(observed[p].snap) # None) =>
                      (Gated(p) <=> Signal(observed[p].snap) <= d.threshold)
                 /\ (Gated(p) /\ MappingMode(p) # "disabled" /\ ~OutOfQuota(observed[p].snap)) => Eligible(p)
  BY DEF GateAndRankAgree
<1> DEFINE d == desired.providers[p]
           signal == Signal(observed[p].snap)
<1>2. d.polled /\ d.threshold <= 0
  BY LoadedProviders DEF Polled, IsProvider
<1> HIDE DEF signal
<1>3. ASSUME Eligible(p), d.gate, signal # None
      PROVE  Gated(p) <=> signal <= d.threshold
  <2>1. observed[p].seen /\ observed[p].snap # None
    BY <1>3 DEF Eligible, ObservedMode
  <2>2. ~Stale(p) /\ observed[p].snap.status \notin {"failed", "partial"}
    BY <1>3 DEF Eligible
  <2>. QED  BY <1>2, <1>3, <2>1, <2>2 DEF Gated, signal
<1>4. ASSUME Gated(p), MappingMode(p) # "disabled", ~OutOfQuota(observed[p].snap)
      PROVE  Eligible(p)
  <2>1. observed[p].seen /\ observed[p].snap # None
    BY <1>4 DEF Gated
  <2>2. ObservedMode(p) \in {"normal", "reserve"}
    BY <1>4, <2>1, Modes DEF ObservedMode
  <2>. QED  BY <1>4, <2>2 DEF Gated, Eligible
<1>. QED  BY <1>3, <1>4 DEF signal

\* In every state, for every policy and whatever was polled: a provider that may
\* be ranked is gated exactly when its signal is at or below the threshold, and one
\* that is gated and usable is ranked (CheckEligibility, signalGateVerdict).
THEOREM GateAndRankAgreeHolds == RoutingSpec => []GateAndRankAgree
<1>1. RoutingInv => GateAndRankAgree
  BY AgreeInState
<1>. QED  BY <1>1, RoutingInvariant, PTL

-----------------------------------------------------------------------------
(***************************************************************************)
(* Off-peak hours.                                                         *)
(***************************************************************************)
\* Each day is listed by exactly one window.  On other schedules the program and
\* its documentation disagree.
EachDayOnce(peaks) ==
  \A day \in 0..6 : \E w \in peaks : day \in w.days /\ \A v \in peaks : day \in v.days => v = w

\* scheduleFromWire and IsOffPeak: the hours outside of the windows of a schedule
\* are those that the windows made of it contain.
LEMMA OffPeakIsNotPeak ==
  ASSUME NEW peaks \in SUBSET PeakHours, EachDayOnce(peaks), NEW at \in Nat, Day \in Nat \ {0},
         \A w \in peaks : 0 <= w.start /\ w.start < w.end /\ w.end <= Day, peaks # None
  PROVE  IsOffPeak(OffPeakWindows(peaks), at) <=> ~AtPeak(peaks, at)
<1> DEFINE day == (at \div Day) % 7
           minute == at % Day
<1>1. day \in 0..6 /\ minute \in 0..(Day - 1)
  OBVIOUS
<1>2. \A w \in peaks : w.start \in Int /\ w.end \in Int
  BY DEF PeakHours
<1>3. \A w \in OffPeakWindows(peaks) : w.start < w.end /\ w.start \in Int /\ w.end \in Int
  BY <1>2 DEF OffPeakWindows
<1>4. AtPeak(peaks, at) <=> \E w \in peaks : day \in w.days /\ minute >= w.start /\ minute < w.end
  BY DEF AtPeak
<1>5. IsOffPeak(OffPeakWindows(peaks), at)
        <=> \E w \in OffPeakWindows(peaks) : day \in w.days /\ minute >= w.start /\ minute < w.end
  BY <1>3 DEF IsOffPeak
<1> HIDE DEF day, minute
<1>6. ASSUME NEW off \in OffPeakWindows(peaks), day \in off.days, minute >= off.start, minute < off.end,
             NEW v \in peaks, day \in v.days, minute >= v.start, minute < v.end
      PROVE  FALSE
  <2>1. PICK w \in peaks : \/ off = [days |-> w.days, start |-> 0, end |-> w.start]
                           \/ off = [days |-> w.days, start |-> w.end, end |-> Day]
    BY DEF OffPeakWindows
  <2>2. day \in w.days
    BY <1>6, <2>1
  <2>3. v = w
    BY <1>1, <1>6, <2>2 DEF EachDayOnce
  <2>. QED  BY <1>1, <1>2, <1>6, <2>1, <2>3
<1>7. ASSUME ~\E w \in peaks : day \in w.days /\ minute >= w.start /\ minute < w.end
      PROVE  \E w \in OffPeakWindows(peaks) : day \in w.days /\ minute >= w.start /\ minute < w.end
  <2>1. PICK w \in peaks : day \in w.days
    BY <1>1 DEF EachDayOnce
  <2>2. minute < w.start \/ minute >= w.end
    BY <1>1, <1>2, <1>7, <2>1
  <2>3. CASE minute < w.start
    <3> DEFINE off == [days |-> w.days, start |-> 0, end |-> w.start]
    <3>1. off \in OffPeakWindows(peaks)
      BY <1>1, <1>2, <2>3 DEF OffPeakWindows
    <3>2. day \in off.days /\ minute >= off.start /\ minute < off.end
      BY <1>1, <2>1, <2>3
    <3>. QED  BY <3>1, <3>2
  <2>4. CASE minute >= w.end
    <3> DEFINE off == [days |-> w.days, start |-> w.end, end |-> Day]
    <3>1. off \in OffPeakWindows(peaks)
      BY <1>1, <1>2, <2>4 DEF OffPeakWindows
    <3>2. day \in off.days /\ minute >= off.start /\ minute < off.end
      BY <1>1, <2>1, <2>4
    <3>. QED  BY <3>1, <3>2
  <2>. QED  BY <2>2, <2>3, <2>4
<1>. QED  BY <1>4, <1>5, <1>6, <1>7

-----------------------------------------------------------------------------
(***************************************************************************)
(* The signal.                                                             *)
(***************************************************************************)
LEMMA RemainingType ==
  ASSUME NEW w \in Windows, Remaining(w) # None, None \notin Int
  PROVE  Remaining(w) \in 0..100
<1>1. ASSUME w.limit # None, w.used # None, w.limit > 0
      PROVE  Remaining(w) \in 0..100
  <2> DEFINE share == 100 - (w.used * 100) \div w.limit
  <2>1. w.limit \in Int /\ w.used \in Int
    BY <1>1 DEF Windows, Maybe
  <2>2. share \in Int
    BY <1>1, <2>1
  <2>3. Remaining(w) = Clamp(share, 0, 100)
    BY <1>1 DEF Remaining
  <2> HIDE DEF share
  <2>. QED  BY <2>2, <2>3 DEF Clamp
<1>2. ASSUME ~(w.limit # None /\ w.used # None /\ w.limit > 0)
      PROVE  Remaining(w) \in 0..100
  <2>1. w.percent # None /\ Remaining(w) = Clamp(100 - w.percent, 0, 100)
    BY <1>2 DEF Remaining
  <2>2. w.percent \in Int
    BY <2>1 DEF Windows, Maybe
  <2>. QED  BY <2>1, <2>2 DEF Clamp
<1>. QED  BY <1>1, <1>2

LEMMA GapType ==
  ASSUME NEW w \in Windows, Remaining(w) # None, w.period # None, w.period >= Day, w.reset # None,
         None \notin Int, Day \in Nat \ {0}, now \in Nat
  PROVE  Gap(w) \in Int
<1> DEFINE left    == Clamp(w.reset - now, 0, w.period)
           cycles  == ((w.period - left + Day - 1) \div Day) * Day
           elapsed == Min({cycles, w.period})
           r == Remaining(w)
           hours(n) == Hours(n)
           over == Max({hours(left), 1})
           under == Max({12 * hours(elapsed), 1})
<1>1. w.period \in Int /\ w.reset \in Int /\ r \in Int
  BY RemainingType DEF Windows, Maybe
<1>2. left \in Int
  BY <1>1 DEF Clamp
<1>3. (w.period - left + Day - 1) \div Day \in Int
  BY <1>1, <1>2
<1>4. cycles \in Int
  BY <1>3
<1> HIDE DEF cycles
<1>5. elapsed \in Int
  BY <1>1, <1>4, PairBounds
<1>6. 24 \div Day \in Int
  OBVIOUS
<1>7. \A n \in Int : hours(n) \in Int
  BY <1>6 DEF Hours
<1>8. Gap(w) = (r * hours(w.period)) \div over - ((100 - r) * 12 * hours(w.period)) \div under
  BY DEF Gap, cycles
<1> HIDE DEF left, elapsed, r, hours
<1>9. over \in Int /\ over > 0 /\ under \in Int /\ under > 0
  <2>1. hours(left) \in Int /\ 12 * hours(elapsed) \in Int
    BY <1>2, <1>5, <1>7
  <2>. QED  BY <2>1, PairBounds
<1>10. hours(w.period) \in Int
  BY <1>1, <1>7
<1>11. r * hours(w.period) \in Int /\ (100 - r) * 12 * hours(w.period) \in Int
  BY <1>1, <1>10
<1> HIDE DEF over, under
<1>. QED  BY <1>8, <1>9, <1>11

\* computeSignal gives a number, or none: it divides by nothing.
LEMMA SignalType ==
  ASSUME NEW snap, IsSnapshot(snap), None \notin Int, Day \in Nat \ {0}, now \in Nat
  PROVE  Signal(snap) \in Maybe(Int)
<1> DEFINE cs == Cycles(snap)
           weighed == [i \in cs |-> Gap(snap.windows[i]) * snap.windows[i].period]
           lengths == [i \in cs |-> snap.windows[i].period]
<1>1. cs \subseteq 1..Len(snap.windows) /\ Len(snap.windows) \in Nat
  BY DEF Cycles, Usable, IsSnapshot
<1>2. IsFiniteSet(cs)
  <2>1. IsFiniteSet(1..Len(snap.windows))
    BY <1>1, FS_Interval
  <2>. QED  BY <1>1, <2>1, FS_Subset
<1>3. ASSUME NEW i \in cs
      PROVE  /\ snap.windows[i].period \in Nat /\ snap.windows[i].period > 0
             /\ Gap(snap.windows[i]) \in Int
  <2>1. /\ snap.windows[i] \in Windows /\ Remaining(snap.windows[i]) # None
        /\ snap.windows[i].period # None /\ snap.windows[i].period >= Day /\ snap.windows[i].reset # None
    BY <1>1 DEF Cycles, Usable, IsSnapshot
  <2>2. snap.windows[i].period \in Int
    BY <2>1 DEF Windows, Maybe
  <2>. QED  BY <2>1, <2>2, GapType
<1>4. Signal(snap) = IF cs = {} THEN None ELSE Clamp(Total(weighed) \div Total(lengths), -10000, 10000)
  BY DEF Signal, SumOver
<1>5. weighed \in [cs -> Int] /\ lengths \in [cs -> Nat]
  BY <1>3
<1>6. \A i \in cs : lengths[i] > 0
  BY <1>3
<1> HIDE DEF cs, weighed, lengths
<1>7. Total(weighed) \in Int
  BY <1>2, <1>5, TotalInt
<1>8. Total(lengths) \in Nat /\ \A i \in cs : lengths[i] <= Total(lengths)
  BY <1>2, <1>5, TotalNat
<1>9. CASE cs # {}
  <2>1. PICK i \in cs : TRUE
    BY <1>9
  <2>2. lengths[i] \in Nat /\ lengths[i] > 0 /\ lengths[i] <= Total(lengths)
    BY <1>5, <1>6, <1>8
  <2>3. Total(lengths) > 0
    BY <1>8, <2>2
  <2> DEFINE mean == Total(weighed) \div Total(lengths)
  <2>4. mean \in Int
    BY <1>7, <1>8, <2>3
  <2> HIDE DEF mean
  <2>5. Clamp(mean, -10000, 10000) \in Int
    BY <2>4 DEF Clamp
  <2>. QED  BY <1>4, <1>9, <2>5 DEF Maybe, mean
<1>10. CASE cs = {}
  BY <1>4, <1>10 DEF Maybe
<1>. QED  BY <1>9, <1>10

-----------------------------------------------------------------------------
(***************************************************************************)
(* Clusters.                                                               *)
(***************************************************************************)
\* Of two numbers fewer of a set lie above the first exactly if one lies between.
LEMMA FewerAbove ==
  ASSUME NEW C, C \subseteq Int, IsFiniteSet(C), NEW u \in Int, NEW v \in Int
  PROVE  LET above(n) == {s \in C : s >= n} IN
         /\ Cardinality(above(u)) \in Nat
         /\ Cardinality(above(u)) < Cardinality(above(v)) <=> \E s \in C : s >= v /\ s < u
<1> DEFINE above(n) == {s \in C : s >= n}
<1>1. \A n \in Int : IsFiniteSet(above(n)) /\ Cardinality(above(n)) \in Nat
  BY FS_Subset, FS_CardinalityType
<1>2. ASSUME NEW s \in C, s >= v, s < u
      PROVE  Cardinality(above(u)) < Cardinality(above(v))
  <2>1. above(u) \subseteq above(v)
    <3>1. ASSUME NEW n \in above(u)
          PROVE  n \in above(v)
      <4>1. n \in C /\ n \in Int /\ s \in Int /\ n >= u
        BY <3>1
      <4>. QED  BY <1>2, <4>1
    <3>. QED  BY <3>1
  <2>2. s \in above(v) /\ s \notin above(u)
    BY <1>2
  <2> HIDE DEF above
  <2>. QED  BY <1>1, <2>1, <2>2, SmallerPart
<1>3. ASSUME ~\E s \in C : s >= v /\ s < u
      PROVE  ~(Cardinality(above(u)) < Cardinality(above(v)))
  <2>1. above(v) \subseteq above(u)
    <3>1. ASSUME NEW n \in above(v)
          PROVE  n \in above(u)
      <4>1. n \in C /\ n \in Int /\ n >= v
        BY <3>1
      <4>. QED  BY <1>3, <4>1
    <3>. QED  BY <3>1
  <2> HIDE DEF above
  <2>2. Cardinality(above(v)) <= Cardinality(above(u))
    BY <1>1, <2>1, FS_Subset
  <2>. QED  BY <1>1, <2>2
<1>. QED  BY <1>1, <1>2, <1>3

\* assignSignalClusters: a is in a better cluster than b exactly if a gap of Band
\* or more divides the group between them.
LEMMA ClusterIsApart ==
  ASSUME NEW items, IsFiniteSet(items), NEW a \in items, NEW b \in Members(items, a.group),
         SignalsCompare(items, a.group), \A x \in Members(items, a.group) : x.signal \in Int
  PROVE  /\ Cluster(items, a) \in Nat
         /\ Cluster(items, a) < Cluster(items, b) <=> Apart(Members(items, a.group), a, b)
<1> DEFINE ms == Members(items, a.group)
           signals == {x.signal : x \in ms}
           C == {s \in signals : s < Max(signals) /\ \A t \in signals : t > s => t - s >= Band}
           above(n) == {s \in C : s >= n}
<1>1. b.group = a.group /\ a \in ms /\ b \in ms /\ IsFiniteSet(ms)
  BY FS_Subset DEF Members
<1>2. IsFiniteSet(signals) /\ signals \subseteq Int /\ a.signal \in signals /\ b.signal \in signals
  <2>1. signals = {[x \in ms |-> x.signal][y] : y \in ms}
    OBVIOUS
  <2>2. IsFiniteSet({[x \in ms |-> x.signal][y] : y \in ms})
    BY <1>1, FiniteRange
  <2>. QED  BY <1>1, <2>1, <2>2
<1>3. IsFiniteSet(C) /\ C \subseteq Int
  BY <1>2, FS_Subset
<1>4. Cluster(items, a) = Cardinality(above(a.signal)) /\ Cluster(items, b) = Cardinality(above(b.signal))
  <2>1. ASSUME NEW x \in items, x.group = a.group
        PROVE  Cluster(items, x) = Cardinality(above(x.signal))
    <3>1. Cluster(items, x) = Cardinality({s \in signals : s >= x.signal /\ s < Max(signals)
                                    /\ \A t \in signals : t > s => t - s >= Band})
      BY <2>1 DEF Cluster
    <3>2. {s \in signals : s >= x.signal /\ s < Max(signals) /\ \A t \in signals : t > s => t - s >= Band}
            = above(x.signal)
      OBVIOUS
    <3>. QED  BY <3>1, <3>2
  <2>2. b \in items
    BY DEF Members
  <2>. QED  BY <1>1, <2>1, <2>2
<1>m. Max(signals) \in signals /\ \A x \in signals : x <= Max(signals)
  BY <1>2, GreatestInt
<1>5. /\ Cardinality(above(a.signal)) \in Nat
      /\ Cardinality(above(a.signal)) < Cardinality(above(b.signal))
           <=> \E s \in C : s >= b.signal /\ s < a.signal
  <2> HIDE DEF C, signals
  <2>. QED  BY <1>1, <1>2, <1>3, FewerAbove
<1>6. ASSUME NEW s \in C, s >= b.signal, s < a.signal
      PROVE  Apart(ms, a, b)
  <2> DEFINE high == {x \in ms : x.signal > s}
  <2>1. \A x \in ms : x.signal \in signals /\ x.signal \in Int
    OBVIOUS
  <2>2. s \in Int /\ \A t \in signals : t > s => t - s >= Band
    BY <1>2
  <2> HIDE DEF C, signals, ms
  <2>3. high \in SUBSET ms /\ a \in high /\ b \notin high
    BY <1>1, <1>6, <2>1, <2>2
  <2>4. ASSUME NEW x \in high, NEW y \in ms \ high
        PROVE  x.signal - y.signal >= Band
    <3>1. x.signal \in signals /\ x.signal > s /\ x.signal \in Int /\ y.signal \in Int /\ y.signal <= s
      BY <2>1, <2>2
    <3>. QED  BY <2>2, <3>1 DEF Band
  <2>. QED  BY <2>3, <2>4 DEF Apart
<1>7. ASSUME Apart(ms, a, b)
      PROVE  \E s \in C : s >= b.signal /\ s < a.signal
  <2>1. PICK high \in SUBSET ms :
          /\ a \in high /\ b \notin high
          /\ \A x \in high, y \in ms \ high : x.signal - y.signal >= Band
    BY <1>7 DEF Apart
  <2> DEFINE low == {x.signal : x \in ms \ high}
             s == Max(low)
  <2>2. low \subseteq signals /\ b.signal \in low
    BY <1>1, <2>1
  <2>3. IsFiniteSet(low) /\ low \subseteq Int /\ low # {}
    BY <1>2, <2>2, FS_Subset
  <2>4. s \in low /\ \A x \in low : x <= s
    <3> HIDE DEF low
    <3>. QED  BY <2>3, GreatestInt
  <2>5. PICK z \in ms \ high : s = z.signal
    BY <2>4
  <2>6. s \in Int /\ s \in signals /\ a.signal \in Int /\ b.signal \in Int /\ a.signal <= Max(signals)
        /\ Max(signals) \in Int
    BY <1>2, <1>m, <2>2, <2>3, <2>4
  <2>7. \A x \in ms : x.signal \in Int
    OBVIOUS
  <2>8. a.signal - s >= Band
    BY <2>1, <2>5
  <2>9. s < a.signal /\ s >= b.signal /\ s < Max(signals)
    <3> HIDE DEF s, low, signals
    <3>. QED  BY <2>2, <2>4, <2>6, <2>8 DEF Band
  <2>10. ASSUME NEW t \in signals, t > s
         PROVE  t - s >= Band
    <3>1. PICK x \in ms : t = x.signal
      OBVIOUS
    <3>2. CASE x \in high
      BY <2>1, <2>5, <3>1, <3>2
    <3>3. CASE x \notin high
      <4>1. t \in low /\ t \in Int
        BY <3>1, <3>3
      <4> HIDE DEF s, low
      <4>. QED  BY <2>4, <2>6, <2>10, <4>1
    <3>. QED  BY <3>2, <3>3
  <2>11. s \in C
    <3> HIDE DEF s
    <3>. QED  BY <2>6, <2>9, <2>10
  <2>. QED  BY <2>9, <2>11
<1> HIDE DEF C
<1>. QED  BY <1>4, <1>5, <1>6, <1>7

-----------------------------------------------------------------------------
(***************************************************************************)
(* Ranks within a group and among groups.                                  *)
(***************************************************************************)
\* Items whose order is determined.
Rankable(S) ==
  /\ IsFiniteSet(S)
  /\ \A x \in S : x.id \in Nat /\ x.cluster \in Int /\ x.offPeak \in BOOLEAN /\ x.weight \in Int
  /\ \A x, y \in S : x.id = y.id => x = y

LEMMA ClassesFinite ==
  ASSUME NEW T, IsFiniteSet(T)
  PROVE  IsFiniteSet(Classes(T)) /\ Cardinality(Classes(T)) \in Nat
<1> DEFINE f == [x \in T |-> <<x.cluster, x.offPeak, x.weight>>]
<1>1. Classes(T) = {f[x] : x \in T}
  BY DEF Classes
<1>2. IsFiniteSet({f[x] : x \in T})
  BY FiniteRange
<1>. QED  BY <1>1, <1>2, FS_CardinalityType

\* Rank: fewer classes come before one than before another exactly if it comes
\* before the other, and all of them are more than come before any.
LEMMA FewerBefore ==
  ASSUME NEW T, Rankable(T), NEW a \in T, NEW b \in T
  PROVE  LET before(z) == Cardinality(Classes({x \in T : Before(x, z)})) IN
         /\ before(a) \in Nat /\ before(b) \in Nat
         /\ before(a) < Cardinality(Classes(T))
         /\ before(a) < before(b) <=> Before(a, b)
<1> DEFINE ahead(z) == {x \in T : Before(x, z)}
           class(x) == <<x.cluster, x.offPeak, x.weight>>
<1>1. IsFiniteSet(T) /\ \A z \in T : IsFiniteSet(ahead(z))
  BY FS_Subset DEF Rankable
<1>2. /\ IsFiniteSet(Classes(T)) /\ Cardinality(Classes(T)) \in Nat
      /\ \A z \in T : IsFiniteSet(Classes(ahead(z))) /\ Cardinality(Classes(ahead(z))) \in Nat
  <2> HIDE DEF ahead
  <2>. QED  BY <1>1, ClassesFinite
<1>3. \A z \in T : z.cluster \in Int /\ z.offPeak \in BOOLEAN /\ z.weight \in Int
  BY DEF Rankable
<1>4. ASSUME NEW x \in T, NEW y \in T, class(x) = class(y)
      PROVE  ~Before(x, y)
  <2>1. x.cluster = y.cluster /\ x.offPeak = y.offPeak /\ x.weight = y.weight
    BY <1>4
  <2>. QED  BY <1>3, <2>1 DEF Before
<1>5. ASSUME NEW z \in T
      PROVE  class(z) \in Classes(T) /\ class(z) \notin Classes(ahead(z))
  <2>1. class(z) \in Classes(T)
    BY DEF Classes
  <2>2. ASSUME class(z) \in Classes(ahead(z))
        PROVE  FALSE
    <3>1. PICK x \in ahead(z) : class(z) = class(x)
      BY <2>2 DEF Classes
    <3>. QED  BY <1>4, <3>1
  <2>. QED  BY <2>1, <2>2
<1>6. \A z \in T : Classes(ahead(z)) \subseteq Classes(T)
  BY DEF Classes
<1>7. ASSUME Before(a, b)
      PROVE  Cardinality(Classes(ahead(a))) < Cardinality(Classes(ahead(b)))
  <2>1. ASSUME NEW x \in T, Before(x, a)
        PROVE  Before(x, b)
    BY <1>3, <1>7, <2>1 DEF Before
  <2>2. Classes(ahead(a)) \subseteq Classes(ahead(b))
    BY <2>1 DEF Classes
  <2>3. class(a) \in Classes(ahead(b))
    BY <1>7 DEF Classes
  <2> HIDE DEF ahead, class
  <2>. QED  BY <1>2, <1>5, <2>2, <2>3, SmallerPart
<1>8. ASSUME ~Before(a, b)
      PROVE  ~(Cardinality(Classes(ahead(a))) < Cardinality(Classes(ahead(b))))
  <2>1. ASSUME NEW x \in T, Before(x, b)
        PROVE  Before(x, a)
    BY <1>3, <1>8, <2>1 DEF Before
  <2>2. Classes(ahead(b)) \subseteq Classes(ahead(a))
    BY <2>1 DEF Classes
  <2> HIDE DEF ahead, class
  <2>3. Cardinality(Classes(ahead(b))) <= Cardinality(Classes(ahead(a)))
    BY <1>2, <2>2, FS_Subset
  <2>. QED  BY <1>2, <2>3
<1>9. Cardinality(Classes(ahead(a))) < Cardinality(Classes(T))
  <2> HIDE DEF ahead, class
  <2>. QED  BY <1>2, <1>5, <1>6, SmallerPart
<1>. QED  BY <1>2, <1>7, <1>8, <1>9

\* The places of a ranking: those of a group are behind all places of the groups
\* before it, and behind them there are no others.
LEMMA PlacesOfGroups ==
  ASSUME NEW S, Rankable(S)
  PROVE  LET groups   == {x.group : x \in S}
             before(x) == Cardinality(Classes({y \in Members(S, x.group) : Before(y, x)}))
             size == [g \in groups |-> Cardinality(Classes(Members(S, g)))]
         IN
         \E base \in [groups -> Nat], first \in [groups -> Nat] :
           /\ \A x \in S : Place(S, x) = base[x.group] + before(x)
           /\ \A g \in groups : size[g] \in Nat /\ base[g] + size[g] <= Total(size)
           /\ \A g, h \in groups : first[g] < first[h] => base[g] + size[g] <= base[h]
           /\ \A g, h \in groups : first[g] = first[h] => g = h
           /\ Total(size) \in Nat
<1> DEFINE groups == {x.group : x \in S}
           before(x) == Cardinality(Classes({y \in Members(S, x.group) : Before(y, x)}))
           size == [g \in groups |-> Cardinality(Classes(Members(S, g)))]
           first == [g \in groups |-> Min(Ids(Members(S, g)))]
           earlier(g) == {h \in groups : first[h] < first[g]}
           base == [g \in groups |-> Total([h \in earlier(g) |-> size[h]])]
<1>1. IsFiniteSet(groups)
  <2> DEFINE f == [x \in S |-> x.group]
  <2>1. groups = {f[x] : x \in S}
    OBVIOUS
  <2>2. IsFiniteSet(S)
    BY DEF Rankable
  <2>3. IsFiniteSet({f[x] : x \in S})
    BY <2>2, FiniteRange
  <2>. QED  BY <2>1, <2>3
<1>2. size \in [groups -> Nat]
  <2>1. ASSUME NEW g \in groups
        PROVE  Cardinality(Classes(Members(S, g))) \in Nat
    <3>1. IsFiniteSet(Members(S, g))
      BY FS_Subset DEF Members, Rankable
    <3>. QED  BY <3>1, ClassesFinite
  <2>. QED  BY <2>1
<1>3. ASSUME NEW g \in groups
      PROVE  first[g] \in Nat /\ \E x \in S : x.group = g /\ x.id = first[g]
  <2>1. Ids(Members(S, g)) \in SUBSET Nat /\ Ids(Members(S, g)) # {}
    BY DEF Ids, Members, Rankable
  <2>2. Min(Ids(Members(S, g))) \in Ids(Members(S, g))
    BY <2>1, LeastNat
  <2>3. first[g] \in Ids(Members(S, g)) /\ first[g] \in Nat
    BY <2>1, <2>2
  <2> HIDE DEF first
  <2>. QED  BY <2>3 DEF Ids, Members
<1>4. ASSUME NEW g \in groups, NEW h \in groups, first[g] = first[h]
      PROVE  g = h
  <2>1. PICK x \in S : x.group = g /\ x.id = first[g]
    BY <1>3
  <2>2. PICK y \in S : y.group = h /\ y.id = first[h]
    BY <1>3
  <2>3. x = y
    BY <1>4, <2>1, <2>2 DEF Rankable
  <2>. QED  BY <2>1, <2>2, <2>3
<1>5. first \in [groups -> Nat]
  BY <1>3
<1>6. ASSUME NEW x \in S
      PROVE  Place(S, x) = base[x.group] + before(x)
  <2>1. earlier(x.group) = {g \in groups : Min(Ids(Members(S, g))) < Min(Ids(Members(S, x.group)))}
    OBVIOUS
  <2>2. base[x.group] = Total([g \in earlier(x.group) |-> Cardinality(Classes(Members(S, g)))])
    <3>1. [h \in earlier(x.group) |-> size[h]] = [g \in earlier(x.group) |-> Cardinality(Classes(Members(S, g)))]
      OBVIOUS
    <3>. QED  BY <3>1
  <2> HIDE DEF base, earlier, before
  <2>. QED  BY <2>1, <2>2 DEF Place, SumOver, before
<1> HIDE DEF size, first, before
<1>7. ASSUME NEW g \in groups
      PROVE  base[g] \in Nat /\ base[g] + size[g] <= Total(size)
  <2>1. earlier(g) \in SUBSET groups /\ g \in groups \ earlier(g)
    BY <1>5
  <2> HIDE DEF earlier, groups
  <2>2. Total([h \in earlier(g) |-> size[h]]) \in Nat /\ Total([h \in earlier(g) |-> size[h]]) + size[g] <= Total(size)
    BY <1>1, <1>2, <2>1, TotalNat
  <2>. QED  BY <2>2
<1>8. ASSUME NEW g \in groups, NEW h \in groups, first[g] < first[h]
      PROVE  base[g] + size[g] <= base[h]
  <2> DEFINE E == earlier(h)
             f == [k \in E |-> size[k]]
  <2>1. earlier(g) \in SUBSET E /\ g \in E \ earlier(g) /\ E \subseteq groups
    BY <1>5, <1>8
  <2>2. IsFiniteSet(E) /\ f \in [E -> Nat] /\ f[g] = size[g]
    BY <1>1, <1>2, <2>1, FS_Subset
  <2>3. [k \in earlier(g) |-> f[k]] = [k \in earlier(g) |-> size[k]]
    BY <2>1
  <2>4. base[g] = Total([k \in earlier(g) |-> f[k]]) /\ base[h] = Total(f)
    BY <2>3
  <2> HIDE DEF E, f, earlier, groups, base
  <2>5. Total([k \in earlier(g) |-> f[k]]) + f[g] <= Total(f)
    BY <2>1, <2>2, TotalNat
  <2>. QED  BY <2>2, <2>4, <2>5
<1>9. Total(size) \in Nat
  <2> HIDE DEF groups
  <2>. QED  BY <1>1, <1>2, TotalNat
<1>10. base \in [groups -> Nat]
  BY <1>7
<1>11. \A g \in groups : size[g] \in Nat
  BY <1>2
<1> HIDE DEF base
<1>12. \E bs \in [groups -> Nat], fs \in [groups -> Nat] :
         /\ \A x \in S : Place(S, x) = bs[x.group] + before(x)
         /\ \A g \in groups : size[g] \in Nat /\ bs[g] + size[g] <= Total(size)
         /\ \A g, h \in groups : fs[g] < fs[h] => bs[g] + size[g] <= bs[h]
         /\ \A g, h \in groups : fs[g] = fs[h] => g = h
         /\ Total(size) \in Nat
  <2> HIDE DEF groups
  <2>g. \A x \in S : x.group \in groups
    BY DEF groups
  <2>. QED  BY ONLY <1>4, <1>5, <1>6, <1>7, <1>8, <1>9, <1>10, <1>11
<1>. QED  BY <1>12 DEF size, before

-----------------------------------------------------------------------------
(***************************************************************************)
(* The ranking.                                                            *)
(***************************************************************************)
\* The schedules on which the program and its documentation agree.
SchedulesComplete ==
  \A policy \in Desireds, p \in Providers :
    policy.providers[p].peaks # None => EachDayOnce(policy.providers[p].peaks)

\* The items that are ranked: one for each eligible provider.
LEMMA ItemsFacts ==
  ASSUME RoutingInv
  PROVE  /\ IsFiniteSet(Items)
         /\ Ids(Items) \subseteq Polled /\ Polled \subseteq Nat /\ IsFiniteSet(Polled)
         /\ \A x \in Items :
              x.id \in Nat /\ x.signal \in Maybe(Int) /\ x.offPeak \in BOOLEAN /\ x.weight \in Int
         /\ SchedulesComplete =>
              \A x \in Items : x.offPeak <=> ~AtPeak(desired.providers[x.id].peaks, now)
         /\ \A x, y \in Items : x.id = y.id => x = y
<1> DEFINE E == {p \in Polled : Eligible(p)}
           item == [p \in E |->
             [id      |-> p,
              group   |-> desired.providers[p].group,
              signal  |-> Signal(observed[p].snap),
              offPeak |-> IsOffPeak(Schedule(desired.providers[p]), now),
              weight  |-> Weight(p)]]
<1>1. Items = {item[p] : p \in E}
  BY DEF Items
<1>2. Polled \subseteq Providers /\ Polled \subseteq Nat /\ IsFiniteSet(Polled)
  BY RoutingAssumption, FS_Subset DEF Polled
<1>3. IsFiniteSet(E)
  BY <1>2, FS_Subset
<1>4. IsFiniteSet(Items)
  <2> HIDE DEF item, E
  <2>. QED  BY <1>1, <1>3, FiniteRange
<1>5. \A p \in E : item[p].id = p
  OBVIOUS
<1>6. Ids(Items) \subseteq Polled
  BY <1>1, <1>5 DEF Ids
<1>7. \A x, y \in Items : x.id = y.id => x = y
  <2>1. \A x \in Items : x.id \in E /\ x = item[x.id]
    <3> HIDE DEF item, E
    <3>. QED  BY <1>1, <1>5
  <2>. QED  BY <2>1
<1>8. ASSUME NEW p \in E
      PROVE  /\ item[p].id \in Nat /\ item[p].signal \in Maybe(Int) /\ item[p].offPeak \in BOOLEAN
             /\ item[p].weight \in Int
             /\ SchedulesComplete =>
                  (item[p].offPeak <=> ~AtPeak(desired.providers[item[p].id].peaks, now))
  <2> DEFINE d == desired.providers[p]
  <2>1. p \in Providers /\ p \in Nat
    BY <1>2
  <2>2. IsProvider(d)
    BY <2>1, LoadedProviders
  <2>3. item[p].signal \in Maybe(Int)
    <3>1. observed[p].snap # None
      BY DEF Eligible, ObservedMode
    <3>2. IsSnapshot(observed[p].snap) /\ now \in Nat
      BY <2>1, <3>1 DEF RoutingInv
    <3>3. Signal(observed[p].snap) \in Maybe(Int)
      BY <3>2, RoutingAssumption, SignalType
    <3>. QED  BY <3>3
  <2>4. item[p].offPeak \in BOOLEAN
    BY DEF IsOffPeak
  <2>5. ASSUME SchedulesComplete
        PROVE  IsOffPeak(Schedule(d), now) <=> ~AtPeak(d.peaks, now)
    <3>1. CASE d.peaks = None
      <4>1. Schedule(d) = {}
        BY <3>1 DEF Schedule
      <4>2. ~IsOffPeak({}, now)
        BY DEF IsOffPeak
      <4>3. AtPeak(d.peaks, now)
        BY <3>1 DEF AtPeak
      <4>. QED  BY <4>1, <4>2, <4>3
    <3>2. CASE d.peaks # None
      <4>1. EachDayOnce(d.peaks)
        BY <2>1, <2>5, <3>2 DEF SchedulesComplete, RoutingInv
      <4>2. d.peaks \in SUBSET PeakHours /\ \A w \in d.peaks : 0 <= w.start /\ w.start < w.end /\ w.end <= Day
        BY <2>2, <3>2 DEF IsProvider, Maybe
      <4>3. now \in Nat /\ Day \in Nat \ {0}
        BY RoutingAssumption DEF RoutingInv
      <4>4. Schedule(d) = OffPeakWindows(d.peaks)
        BY <3>2 DEF Schedule
      <4>. QED  BY <3>2, <4>1, <4>2, <4>3, <4>4, OffPeakIsNotPeak
    <3>. QED  BY <3>1, <3>2
  <2>6. SchedulesComplete => (item[p].offPeak <=> ~AtPeak(desired.providers[item[p].id].peaks, now))
    BY <2>5
  <2>7. item[p].weight \in Int /\ item[p].id \in Nat
    BY <2>1, <2>2 DEF IsProvider, Weight
  <2>. QED  BY <2>3, <2>4, <2>6, <2>7
<1>9. /\ \A x \in Items :
           x.id \in Nat /\ x.signal \in Maybe(Int) /\ x.offPeak \in BOOLEAN /\ x.weight \in Int
      /\ SchedulesComplete =>
           \A x \in Items : x.offPeak <=> ~AtPeak(desired.providers[x.id].peaks, now)
  <2> HIDE DEF item, E
  <2>. QED  BY <1>1, <1>8
<1>. QED  BY <1>2, <1>4, <1>6, <1>7, <1>9

\* An item with its cluster.
ClusteredItem(items, x) ==
  [id |-> x.id, group |-> x.group, cluster |-> Cluster(items, x), offPeak |-> x.offPeak, weight |-> x.weight]

LEMMA ClusterType ==
  ASSUME RoutingInv, NEW a \in Items
  PROVE  Cluster(Items, a) \in Int
<1> DEFINE ms == Members(Items, a.group)
<1>1. IsFiniteSet(Items) /\ a \in ms /\ \A x \in ms : x.signal \in Maybe(Int)
  BY ItemsFacts DEF Members
<1>2. CASE SignalsCompare(Items, a.group)
  <2>1. \A x \in ms : x.signal \in Int
    BY <1>1, <1>2 DEF SignalsCompare, Maybe
  <2>2. Cluster(Items, a) \in Nat
    BY <1>1, <1>2, <2>1, ClusterIsApart
  <2>. QED  BY <2>2
<1>3. CASE ~SignalsCompare(Items, a.group)
  BY <1>3 DEF Cluster
<1>. QED  BY <1>2, <1>3

\* Rank: what is sorted before another of its group is what is preferred to it.
LEMMA BeforeIsPreferred ==
  ASSUME RoutingInv, SchedulesComplete, NEW a \in Items, NEW b \in Members(Items, a.group)
  PROVE  Before(ClusteredItem(Items, a), ClusteredItem(Items, b))
           <=> Preferred(Members(Items, a.group), a, b)
<1> DEFINE ms == Members(Items, a.group)
           ca == Cluster(Items, a)
           cb == Cluster(Items, b)
           A == ClusteredItem(Items, a)
           B == ClusteredItem(Items, b)
           cheap(x) == ~AtPeak(desired.providers[x.id].peaks, now)
           rest == IF a.offPeak # b.offPeak THEN a.offPeak ELSE a.weight > b.weight
<1>1. /\ IsFiniteSet(Items) /\ ms \subseteq Items /\ a \in ms /\ b \in Items /\ b.group = a.group
      /\ Members(Items, b.group) = ms
  BY ItemsFacts DEF Members
<1>2. \A x \in Items : x.signal \in Maybe(Int) /\ x.offPeak \in BOOLEAN /\ (x.offPeak <=> cheap(x))
  BY ItemsFacts
<1>3. Before(A, B) <=> IF ca # cb THEN ca < cb ELSE rest
  <2>1. A.cluster = ca /\ B.cluster = cb /\ A.offPeak = a.offPeak /\ B.offPeak = b.offPeak
        /\ A.weight = a.weight /\ B.weight = b.weight
    BY DEF ClusteredItem
  <2> HIDE DEF A, B, ca, cb
  <2>. QED  BY <2>1 DEF Before
<1>4. (IF cheap(a) # cheap(b) THEN cheap(a) ELSE a.weight > b.weight) <=> rest
  <2>1. a.offPeak \in BOOLEAN /\ b.offPeak \in BOOLEAN /\ (a.offPeak <=> cheap(a)) /\ (b.offPeak <=> cheap(b))
    BY <1>1, <1>2
  <2> HIDE DEF cheap
  <2>2. cheap(a) = a.offPeak /\ cheap(b) = b.offPeak
    <3>1. cheap(a) \in BOOLEAN /\ cheap(b) \in BOOLEAN
      BY DEF cheap
    <3>. QED  BY <2>1, <3>1
  <2>. QED  BY <2>2
<1> DEFINE comparable == \A m \in ms : m.signal # None
<1>5. Preferred(ms, a, b)
        <=> IF comparable /\ Apart(ms, a, b) THEN TRUE
            ELSE IF comparable /\ Apart(ms, b, a) THEN FALSE ELSE rest
  <2> HIDE DEF ms, rest
  <2>. QED  BY <1>4 DEF Preferred
<1> HIDE DEF rest
<1>6. CASE comparable
  <2>1. SignalsCompare(Items, a.group) /\ SignalsCompare(Items, b.group)
    BY <1>1, <1>6 DEF SignalsCompare
  <2>2. \A x \in ms : x.signal \in Int
    BY <1>1, <1>2, <1>6 DEF Maybe
  <2>3. ca \in Nat /\ (ca < cb <=> Apart(ms, a, b))
    BY <1>1, <2>1, <2>2, ClusterIsApart
  <2>4. cb \in Nat /\ (cb < ca <=> Apart(ms, b, a))
    <3>1. a \in Members(Items, b.group) /\ \A x \in Members(Items, b.group) : x.signal \in Int
      BY <1>1, <2>2
    <3>. QED  BY <1>1, <2>1, <3>1, ClusterIsApart
  <2> HIDE DEF ms, ca, cb, comparable
  <2>5. Before(A, B) <=> Preferred(ms, a, b)
    BY <1>3, <1>5, <1>6, <2>3, <2>4
  <2>. QED  BY <2>5 DEF ms, A, B
<1>7. CASE ~comparable
  <2>1. ca = -1 /\ cb = -1
    BY <1>1, <1>7 DEF Cluster, SignalsCompare
  <2>. QED  BY <1>3, <1>5, <1>7, <2>1
<1>. QED  BY <1>6, <1>7

\* The clustered items can be ranked, and they are those of the items.
LEMMA ClusteredFacts ==
  ASSUME RoutingInv
  PROVE  LET S == Clustered(Items) IN
         /\ Rankable(S) /\ Ids(S) = Ids(Items)
         /\ \A x \in Items : ClusteredItem(Items, x) \in S
         /\ \A y \in S : \E x \in Items : y = ClusteredItem(Items, x)
         /\ \A x \in Items : (CHOOSE y \in S : y.id = x.id) = ClusteredItem(Items, x)
<1> DEFINE S == Clustered(Items)
           c == [x \in Items |-> ClusteredItem(Items, x)]
<1>1. S = {c[x] : x \in Items}
  BY DEF Clustered, ClusteredItem
<1>2. \A x \in Items : /\ c[x].id = x.id /\ c[x].cluster = Cluster(Items, x) /\ c[x].offPeak = x.offPeak
                       /\ c[x].weight = x.weight
  BY DEF ClusteredItem
<1>3. \A x \in Items : Cluster(Items, x) \in Int
  BY ClusterType
<1>4. /\ IsFiniteSet(Items)
      /\ \A x \in Items : x.id \in Nat /\ x.offPeak \in BOOLEAN /\ x.weight \in Int
      /\ \A x, y \in Items : x.id = y.id => x = y
  BY ItemsFacts
<1>c. \A x \in Items : c[x] = ClusteredItem(Items, x)
  OBVIOUS
<1> HIDE DEF c, S
<1>5. Rankable(S)
  <2>1. IsFiniteSet(S)
    BY <1>1, <1>4, FiniteRange
  <2>2. \A y \in S : y.id \in Nat /\ y.cluster \in Int /\ y.offPeak \in BOOLEAN /\ y.weight \in Int
    BY <1>1, <1>2, <1>3, <1>4
  <2>3. \A y, z \in S : y.id = z.id => y = z
    BY <1>1, <1>2, <1>4
  <2>. QED  BY <2>1, <2>2, <2>3 DEF Rankable
<1>6. Ids(S) = Ids(Items)
  BY <1>1, <1>2 DEF Ids
<1>7. ASSUME NEW x \in Items
      PROVE  (CHOOSE y \in S : y.id = x.id) = c[x]
  <2>1. c[x] \in S /\ c[x].id = x.id
    BY <1>1, <1>2
  <2>2. \A y \in S : y.id = x.id => y = c[x]
    BY <1>5, <2>1 DEF Rankable
  <2>. QED  BY <2>1, <2>2
<1>. QED  BY <1>1, <1>5, <1>6, <1>7, <1>c DEF S

\* Rank: the ranks are in the order in which the items are sorted.
LEMMA RankOrder ==
  ASSUME RoutingInv
  PROVE  /\ \A p \in Polled : Rank[p] \in Nat
         /\ \A a, b \in Items : a.group = b.group =>
              (Rank[a.id] < Rank[b.id] <=> Before(ClusteredItem(Items, a), ClusteredItem(Items, b)))
         /\ \A a, b \in Items : a.group # b.group =>
              LET ga == Members(Items, a.group)  gb == Members(Items, b.group) IN
              \/ \A x \in ga, y \in gb : Rank[x.id] < Rank[y.id]
              \/ \A x \in ga, y \in gb : Rank[x.id] > Rank[y.id]
         /\ \A q \in Polled \ Ids(Items) : \A p \in Polled \ {q} :
              Rank[p] # Rank[q] /\ (p \in Ids(Items) => Rank[p] < Rank[q])
<1> DEFINE S == Clustered(Items)
           c(x) == ClusteredItem(Items, x)
           groups   == {x.group : x \in S}
           before(x) == Cardinality(Classes({y \in Members(S, x.group) : Before(y, x)}))
           size == [g \in groups |-> Cardinality(Classes(Members(S, g)))]
           rest == Polled \ Ids(Items)
<1>1. /\ Rankable(S) /\ Ids(S) = Ids(Items)
      /\ \A x \in Items : c(x) \in S
      /\ \A y \in S : \E x \in Items : y = c(x)
      /\ \A x \in Items : (CHOOSE y \in S : y.id = x.id) = c(x)
  BY ClusteredFacts
<1>2. PICK base \in [groups -> Nat], first \in [groups -> Nat] :
        /\ \A x \in S : Place(S, x) = base[x.group] + before(x)
        /\ \A g \in groups : size[g] \in Nat /\ base[g] + size[g] <= Total(size)
        /\ \A g, h \in groups : first[g] < first[h] => base[g] + size[g] <= base[h]
        /\ \A g, h \in groups : first[g] = first[h] => g = h
        /\ Total(size) \in Nat
  BY <1>1, PlacesOfGroups
<1>3. \A x \in Items : c(x).group = x.group /\ c(x).id = x.id
  BY DEF ClusteredItem
<1>4. /\ Ids(Items) \subseteq Polled /\ Polled \subseteq Nat /\ IsFiniteSet(Polled)
      /\ \A x, y \in Items : x.id = y.id => x = y
  BY ItemsFacts
<1>5. ASSUME NEW x \in Items
      PROVE  Rank[x.id] = base[x.group] + before(c(x))
  <2>1. x.id \in Ids(S) /\ x.id \in Polled
    BY <1>1, <1>4 DEF Ids
  <2>2. Rank[x.id] = Place(S, CHOOSE y \in S : y.id = x.id)
    BY <2>1 DEF Rank, RankIn
  <2>3. (CHOOSE y \in S : y.id = x.id) = c(x)
    BY <1>1
  <2>4. Place(S, c(x)) = base[c(x).group] + before(c(x))
    BY <1>1, <1>2
  <2> HIDE DEF S, c
  <2>. QED  BY <1>3, <2>2, <2>3, <2>4
<1>6. ASSUME NEW q \in rest
      PROVE  Rank[q] = Total(size) + Cardinality({p \in rest : p < q})
  <2>1. q \in Polled /\ q \notin Ids(S)
    BY <1>1
  <2>2. Rank[q] = SumOver({x.group : x \in S}, LAMBDA g : Cardinality(Classes(Members(S, g))))
                    + Cardinality({p \in Polled \ Ids(S) : p < q})
    BY <2>1 DEF Rank, RankIn
  <2> HIDE DEF S
  <2>3. SumOver({x.group : x \in S}, LAMBDA g : Cardinality(Classes(Members(S, g)))) = Total(size)
    BY DEF SumOver
  <2>. QED  BY <1>1, <2>2, <2>3
<1>7. ASSUME NEW x \in S, NEW y \in S, x.group = y.group
      PROVE  /\ before(x) \in Nat /\ before(y) \in Nat /\ before(x) < size[x.group]
             /\ before(x) < before(y) <=> Before(x, y)
  <2> DEFINE T == Members(S, x.group)
  <2>1. x \in T /\ y \in T /\ T \subseteq S
    BY <1>7 DEF Members
  <2>2. IsFiniteSet(T)
    BY <1>1, <2>1, FS_Subset DEF Rankable
  <2>3. Rankable(T)
    <3> HIDE DEF S, T
    <3>. QED  BY <1>1, <2>1, <2>2 DEF Rankable
  <2>4. size[x.group] = Cardinality(Classes(T))
    OBVIOUS
  <2> DEFINE k(z) == Cardinality(Classes({v \in T : Before(v, z)}))
  <2>5. before(x) = k(x) /\ before(y) = k(y)
    BY <1>7
  <2>6. k(x) \in Nat /\ k(y) \in Nat /\ k(x) < Cardinality(Classes(T)) /\ (k(x) < k(y) <=> Before(x, y))
    <3> HIDE DEF T
    <3>. QED  BY <2>1, <2>3, FewerBefore
  <2> HIDE DEF size, before, k, T, S
  <2>. QED  BY <2>4, <2>5, <2>6
<1>8. \A x \in Items : c(x).group \in groups /\ x.group \in groups
  <2> HIDE DEF S, c
  <2>. QED  BY <1>1, <1>3
<1> HIDE DEF size, before, c, groups
<1>9. ASSUME NEW a \in Items, NEW b \in Items, a.group = b.group
      PROVE  Rank[a.id] < Rank[b.id] <=> Before(c(a), c(b))
  <2>3. c(a) \in S /\ c(b) \in S /\ c(a).group = c(b).group
    BY <1>1, <1>3, <1>9
  <2>4. before(c(a)) \in Nat /\ before(c(b)) \in Nat /\ (before(c(a)) < before(c(b)) <=> Before(c(a), c(b)))
    BY <1>7, <2>3
  <2>5. Rank[a.id] = base[a.group] + before(c(a)) /\ Rank[b.id] = base[a.group] + before(c(b))
    BY <1>5, <1>9
  <2>6. base[a.group] \in Nat
    BY <1>2, <1>8
  <2>. QED  BY <2>4, <2>5, <2>6
<1>10. ASSUME NEW x \in Items
       PROVE  /\ Rank[x.id] \in Nat /\ Rank[x.id] >= base[x.group] /\ Rank[x.id] < base[x.group] + size[x.group]
              /\ base[x.group] \in Nat /\ size[x.group] \in Nat /\ base[x.group] + size[x.group] <= Total(size)
  <2>1. before(c(x)) \in Nat /\ before(c(x)) < size[c(x).group]
    <3>1. c(x) \in S
      BY <1>1
    <3>. QED  BY <1>7, <3>1
  <2>2. base[x.group] \in Nat /\ size[x.group] \in Nat /\ base[x.group] + size[x.group] <= Total(size)
    BY <1>2, <1>8
  <2>. QED  BY <1>3, <1>5, <2>1, <2>2
<1>11. ASSUME NEW a \in Items, NEW b \in Items, first[a.group] < first[b.group]
       PROVE  \A x \in Members(Items, a.group), y \in Members(Items, b.group) : Rank[x.id] < Rank[y.id]
  <2>1. ASSUME NEW x \in Members(Items, a.group), NEW y \in Members(Items, b.group)
        PROVE  Rank[x.id] < Rank[y.id]
    <3>1. x \in Items /\ y \in Items /\ x.group = a.group /\ y.group = b.group
      BY DEF Members
    <3>2. base[a.group] + size[a.group] <= base[b.group]
      BY <1>2, <1>8, <1>11
    <3>3. /\ Rank[x.id] \in Nat /\ Rank[x.id] < base[a.group] + size[a.group]
          /\ base[a.group] \in Nat /\ size[a.group] \in Nat
      BY <1>10, <3>1
    <3>4. Rank[y.id] \in Nat /\ Rank[y.id] >= base[b.group] /\ base[b.group] \in Nat
      BY <1>10, <3>1
    <3>. QED  BY <3>2, <3>3, <3>4
  <2>. QED  BY <2>1
<1>12. ASSUME NEW a \in Items, NEW b \in Items, a.group # b.group
       PROVE  LET ga == Members(Items, a.group)  gb == Members(Items, b.group) IN
              \/ \A x \in ga, y \in gb : Rank[x.id] < Rank[y.id]
              \/ \A x \in ga, y \in gb : Rank[x.id] > Rank[y.id]
  <2> DEFINE ga == Members(Items, a.group)
             gb == Members(Items, b.group)
  <2>1. first[a.group] \in Nat /\ first[b.group] \in Nat /\ first[a.group] # first[b.group]
    BY <1>2, <1>8, <1>12
  <2>2. CASE first[a.group] < first[b.group]
    BY <1>11, <2>2
  <2>3. CASE first[b.group] < first[a.group]
    <3>1. \A y \in gb, x \in ga : Rank[y.id] < Rank[x.id]
      BY <1>11, <2>3
    <3>2. \A x \in ga : Rank[x.id] \in Nat
      BY <1>10 DEF Members
    <3>3. \A y \in gb : Rank[y.id] \in Nat
      BY <1>10 DEF Members
    <3> HIDE DEF ga, gb
    <3>4. \A x \in ga, y \in gb : Rank[x.id] > Rank[y.id]
      BY <3>1, <3>2, <3>3
    <3>. QED  BY <3>4 DEF ga, gb
  <2>. QED  BY <2>1, <2>2, <2>3
<1>13. ASSUME NEW q \in rest
       PROVE  Rank[q] \in Nat /\ Rank[q] >= Total(size)
  <2> DEFINE n == Cardinality({p \in rest : p < q})
  <2>1. IsFiniteSet({p \in rest : p < q})
    BY <1>4, FS_Subset
  <2>2. n \in Nat
    BY <2>1, FS_CardinalityType
  <2>3. Rank[q] = Total(size) + n
    BY <1>6
  <2> HIDE DEF n
  <2>. QED  BY <1>2, <2>2, <2>3
<1>14. ASSUME NEW p \in rest, NEW q \in rest, p < q
       PROVE  Rank[p] < Rank[q]
  <2> DEFINE below(n) == {r \in rest : r < n}
  <2>1. p \in Nat /\ q \in Nat /\ rest \subseteq Nat
    BY <1>4
  <2>2. IsFiniteSet(below(q))
    BY <1>4, FS_Subset
  <2>3. below(p) \subseteq below(q) /\ p \in below(q) /\ p \notin below(p)
    <3>1. ASSUME NEW r \in below(p)
          PROVE  r \in below(q)
      <4>1. r \in rest /\ r \in Nat /\ r < p
        BY <2>1
      <4>. QED  BY <1>14, <2>1, <4>1
    <3>2. p \in below(q) /\ p \notin below(p)
      BY <1>14, <2>1
    <3>. QED  BY <3>1, <3>2
  <2>4. Cardinality(below(p)) < Cardinality(below(q)) /\ Cardinality(below(p)) \in Nat /\ Cardinality(below(q)) \in Nat
    <3> HIDE DEF below
    <3>. QED  BY <2>2, <2>3, SmallerPart
  <2>5. Rank[p] = Total(size) + Cardinality(below(p)) /\ Rank[q] = Total(size) + Cardinality(below(q))
    BY <1>6
  <2> HIDE DEF below
  <2>. QED  BY <1>2, <2>4, <2>5
<1>15. ASSUME NEW q \in rest, NEW p \in Polled \ {q}
       PROVE  Rank[p] # Rank[q] /\ (p \in Ids(Items) => Rank[p] < Rank[q])
  <2>1. CASE p \in Ids(Items)
    <3>1. PICK x \in Items : p = x.id
      BY <2>1 DEF Ids
    <3>2. Rank[p] \in Nat /\ Rank[p] < Total(size)
      BY <1>2, <1>10, <3>1
    <3>3. Rank[q] >= Total(size) /\ Rank[q] \in Nat
      BY <1>13
    <3>. QED  BY <1>2, <3>2, <3>3
  <2>2. CASE p \notin Ids(Items)
    <3>1. p \in rest /\ p \in Nat /\ q \in Nat /\ p # q
      BY <1>4, <2>2
    <3>2. Rank[p] \in Nat /\ Rank[q] \in Nat
      BY <1>13, <3>1
    <3>3. Rank[p] < Rank[q] \/ Rank[q] < Rank[p]
      BY <1>14, <3>1
    <3>. QED  BY <2>2, <3>2, <3>3
  <2>. QED  BY <2>1, <2>2
<1>16. ASSUME NEW p \in Polled
       PROVE  Rank[p] \in Nat
  <2>1. CASE p \in Ids(Items)
    <3>1. PICK x \in Items : p = x.id
      BY <2>1 DEF Ids
    <3>. QED  BY <1>10, <3>1
  <2>. QED  BY <1>13, <2>1
<1> HIDE DEF S, rest
<1>. QED  BY <1>9, <1>12, <1>15, <1>16 DEF rest, c

LEMMA RankInState ==
  ASSUME RoutingInv, SchedulesComplete
  PROVE  RankIsPreference
<1>1. ASSUME NEW a \in Items, NEW b \in Items
      PROVE  LET ga == Members(Items, a.group)  gb == Members(Items, b.group) IN
             IF ga = gb THEN Rank[a.id] < Rank[b.id] <=> Preferred(ga, a, b)
             ELSE \/ \A x \in ga, y \in gb : Rank[x.id] < Rank[y.id]
                  \/ \A x \in ga, y \in gb : Rank[x.id] > Rank[y.id]
  <2> DEFINE ga == Members(Items, a.group)
             gb == Members(Items, b.group)
  <2>1. CASE a.group = b.group
    <3>1. b \in ga /\ ga = gb
      BY <2>1 DEF Members
    <3>2. Before(ClusteredItem(Items, a), ClusteredItem(Items, b)) <=> Preferred(ga, a, b)
      BY <3>1, BeforeIsPreferred
    <3>3. Rank[a.id] < Rank[b.id] <=> Before(ClusteredItem(Items, a), ClusteredItem(Items, b))
      BY <2>1, RankOrder
    <3> HIDE DEF ga, gb
    <3>4. IF ga = gb THEN Rank[a.id] < Rank[b.id] <=> Preferred(ga, a, b)
          ELSE \/ \A x \in ga, y \in gb : Rank[x.id] < Rank[y.id]
               \/ \A x \in ga, y \in gb : Rank[x.id] > Rank[y.id]
      BY <3>1, <3>2, <3>3
    <3>. QED  BY <3>4 DEF ga, gb
  <2>2. CASE a.group # b.group
    <3>1. ga # gb
      BY <2>2 DEF Members
    <3>2. \/ \A x \in ga, y \in gb : Rank[x.id] < Rank[y.id]
          \/ \A x \in ga, y \in gb : Rank[x.id] > Rank[y.id]
      BY <2>2, RankOrder
    <3>. QED  BY <3>1, <3>2
  <2>. QED  BY <2>1, <2>2
<1>2. \A q \in Polled \ Ids(Items) : \A p \in Polled \ {q} :
        Rank[p] # Rank[q] /\ (p \in Ids(Items) => Rank[p] < Rank[q])
  BY RankOrder
<1>. QED  BY <1>1, <1>2 DEF RankIsPreference, RanksPrefer

\* In every state and for every policy whose schedules list each day once: within a
\* group one provider ranks better than another if and only if it is preferred,
\* groups do not mix, and a provider about which nothing fresh is known is behind
\* all others (ComputeRanking, Rank, assignSignalClusters).
THEOREM RankIsPreferenceHolds == SchedulesComplete => (RoutingSpec => []RankIsPreference)
<1>. SUFFICES ASSUME SchedulesComplete
              PROVE  RoutingSpec => []RankIsPreference
  OBVIOUS
<1>1. RoutingInv => RankIsPreference
  BY RankInState
<1>. QED  BY <1>1, RoutingInvariant, PTL

-----------------------------------------------------------------------------
(***************************************************************************)
(* Chains.                                                                 *)
(***************************************************************************)
\* applyRoutingOverlay: who comes to stand where.  Only ranked entries move, to
\* places of their group, each to one, the better ones first.
LEMMA OccupantFacts ==
  ASSUME NEW T, NEW s \in Seq(T), NEW ranks, \A p \in DOMAIN ranks : ranks[p] \in Int
  PROVE  LET at == [i \in DOMAIN s |-> Occupant(s, ranks, i)]
             ranked(i) == Owner(s[i]) \in DOMAIN ranks
             group(i) == BalanceGroup(Owner(s[i])) IN
         /\ at \in [DOMAIN s -> DOMAIN s]
         /\ \A i \in DOMAIN s : ~ranked(i) => at[i] = i
         /\ \A i \in DOMAIN s : group(at[i]) = group(i) /\ (ranked(at[i]) <=> ranked(i))
         /\ \A i, j \in DOMAIN s : at[i] = at[j] => i = j
         /\ \A i, j \in DOMAIN s :
              i < j /\ ranked(i) /\ ranked(j) /\ group(i) = group(j) => Better(s, ranks, at[i], at[j])
<1> DEFINE at == [i \in DOMAIN s |-> Occupant(s, ranks, i)]
           ranked(i) == Owner(s[i]) \in DOMAIN ranks
           group(i) == BalanceGroup(Owner(s[i]))
           R == {e \in (DOMAIN s) \X (DOMAIN s) : Better(s, ranks, e[1], e[2])}
           L == {e \in (DOMAIN s) \X (DOMAIN s) : e[1] < e[2]}
           better(i) == [k \in Slots(s, ranks, i) |->
                           Cardinality({j \in Slots(s, ranks, i) : <<j, k>> \in R})]
           left(i) == [k \in Slots(s, ranks, i) |->
                         Cardinality({j \in Slots(s, ranks, i) : <<j, k>> \in L})]
<1>1. DOMAIN s = 1..Len(s) /\ Len(s) \in Nat /\ DOMAIN s \subseteq Int
  OBVIOUS
<1>2. ASSUME NEW i \in DOMAIN s, ranked(i)
      PROVE  /\ i \in Slots(s, ranks, i) /\ Slots(s, ranks, i) \subseteq DOMAIN s
             /\ IsFiniteSet(Slots(s, ranks, i))
             /\ \A k \in Slots(s, ranks, i) : ranked(k) /\ group(k) = group(i)
  <2>1. IsFiniteSet(DOMAIN s)
    BY <1>1, FS_Interval
  <2>. QED  BY <1>2, <2>1, FS_Subset DEF Slots
<1>3. ASSUME NEW i \in DOMAIN s, ranked(i)
      PROVE  LET D == Slots(s, ranks, i)  n == Cardinality(D) IN
             /\ n \in Nat
             /\ \A k \in D : better(i)[k] \in 0..(n - 1) /\ left(i)[k] \in 0..(n - 1)
             /\ \A j, k \in D : (better(i)[j] < better(i)[k] <=> Better(s, ranks, j, k))
                                /\ (left(i)[j] < left(i)[k] <=> j < k)
             /\ \A m \in 0..(n - 1) : \E k \in D : better(i)[k] = m
  <2> DEFINE D == Slots(s, ranks, i)
  <2>1. D \subseteq DOMAIN s /\ IsFiniteSet(D) /\ D \subseteq Int /\ \A k \in D : ranks[Owner(s[k])] \in Int
    BY <1>1, <1>2, <1>3
  <2> HIDE DEF D
  <2>2. /\ \A j, k \in D : <<j, k>> \in R <=> Better(s, ranks, j, k)
        /\ \A j, k \in D : <<j, k>> \in L <=> j < k
    BY <2>1
  <2>3. /\ \A x \in D : <<x, x>> \notin R
        /\ \A x, y, z \in D : <<x, y>> \in R /\ <<y, z>> \in R => <<x, z>> \in R
        /\ \A x, y \in D : x # y => <<x, y>> \in R \/ <<y, x>> \in R
    <3> HIDE DEF R
    <3>1. \A x \in D : <<x, x>> \notin R
      BY <2>1, <2>2 DEF Better
    <3>2. \A x, y, z \in D : <<x, y>> \in R /\ <<y, z>> \in R => <<x, z>> \in R
      BY <2>1, <2>2 DEF Better
    <3>3. \A x, y \in D : x # y => <<x, y>> \in R \/ <<y, x>> \in R
      BY <2>1, <2>2 DEF Better
    <3>. QED  BY <3>1, <3>2, <3>3
  <2>4. /\ \A x \in D : <<x, x>> \notin L
        /\ \A x, y, z \in D : <<x, y>> \in L /\ <<y, z>> \in L => <<x, z>> \in L
        /\ \A x, y \in D : x # y => <<x, y>> \in L \/ <<y, x>> \in L
    <3> HIDE DEF L
    <3>. QED  BY <2>1, <2>2
  <2> HIDE DEF R, L
  <2>5. LET before == [x \in D |-> Cardinality({y \in D : <<y, x>> \in R})] IN
        /\ Cardinality(D) \in Nat
        /\ \A x \in D : before[x] \in 0..(Cardinality(D) - 1)
        /\ \A x, y \in D : before[x] < before[y] <=> <<x, y>> \in R
        /\ \A n \in 0..(Cardinality(D) - 1) : \E x \in D : before[x] = n
    BY ONLY <2>1, <2>3, PositionsInOrder
  <2>6. LET before == [x \in D |-> Cardinality({y \in D : <<y, x>> \in L})] IN
        /\ \A x \in D : before[x] \in 0..(Cardinality(D) - 1)
        /\ \A x, y \in D : before[x] < before[y] <=> <<x, y>> \in L
    BY ONLY <2>1, <2>4, PositionsInOrder
  <2>7. better(i) = [x \in D |-> Cardinality({y \in D : <<y, x>> \in R})]
    BY DEF D
  <2>8. left(i) = [x \in D |-> Cardinality({y \in D : <<y, x>> \in L})]
    BY DEF D
  <2> HIDE DEF better, left
  <2>. QED  BY <2>2, <2>5, <2>6, <2>7, <2>8 DEF D
<1>4. ASSUME NEW i \in DOMAIN s, ranked(i)
      PROVE  at[i] \in Slots(s, ranks, i) /\ better(i)[at[i]] = left(i)[i]
  <2> DEFINE D == Slots(s, ranks, i)
  <2>1. i \in D /\ D \subseteq DOMAIN s
    BY <1>2, <1>4
  <2>2. \E k \in D : better(i)[k] = left(i)[i]
    <3> HIDE DEF better, left
    <3>. QED  BY <1>3, <1>4, <2>1
  <2>3. \A k \in D : better(i)[k] = Cardinality({j \in D : Better(s, ranks, j, k)})
    <3>1. ASSUME NEW k \in D
          PROVE  {j \in D : <<j, k>> \in R} = {j \in D : Better(s, ranks, j, k)}
      BY <2>1
    <3>. QED  BY <3>1
  <2>4. left(i)[i] = Cardinality({j \in D : j < i})
    <3>1. {j \in D : <<j, i>> \in L} = {j \in D : j < i}
      BY <2>1
    <3>. QED  BY <2>1, <3>1
  <2>5. at[i] = CHOOSE k \in D : Cardinality({j \in D : Better(s, ranks, j, k)}) = Cardinality({j \in D : j < i})
    BY <1>4 DEF Occupant
  <2> HIDE DEF better, left, at, D
  <2>. QED  BY <2>2, <2>3, <2>4, <2>5 DEF D
<1>5. \A i \in DOMAIN s : ~ranked(i) => at[i] = i
  BY DEF Occupant
<1> HIDE DEF at, better, left, R, L
<1>6. ASSUME NEW i \in DOMAIN s
      PROVE  at[i] \in DOMAIN s /\ group(at[i]) = group(i) /\ (ranked(at[i]) <=> ranked(i))
  <2>1. CASE ranked(i)
    BY <1>2, <1>4, <2>1
  <2>2. CASE ~ranked(i)
    BY <1>5, <2>2
  <2>. QED  BY <2>1, <2>2
<1>7. ASSUME NEW i \in DOMAIN s, NEW j \in DOMAIN s, ranked(i), ranked(j), group(i) = group(j)
      PROVE  /\ Slots(s, ranks, j) = Slots(s, ranks, i)
             /\ better(j) = better(i) /\ left(j) = left(i)
  BY <1>7 DEF Slots, better, left
<1>8. ASSUME NEW i \in DOMAIN s, NEW j \in DOMAIN s, i < j, ranked(i), ranked(j), group(i) = group(j)
      PROVE  Better(s, ranks, at[i], at[j]) /\ at[i] # at[j]
  <2> DEFINE D == Slots(s, ranks, i)
  <2>1. i \in D /\ j \in D /\ at[i] \in D /\ at[j] \in D
    BY <1>2, <1>4, <1>7, <1>8
  <2>2. left(i)[i] < left(i)[j]
    BY <1>3, <1>8, <2>1
  <2>3. better(i)[at[i]] = left(i)[i] /\ better(i)[at[j]] = left(i)[j]
    BY <1>4, <1>7, <1>8
  <2>4. better(i)[at[i]] < better(i)[at[j]]
    BY <2>2, <2>3
  <2>5. Better(s, ranks, at[i], at[j])
    BY <1>3, <1>8, <2>1, <2>4
  <2>6. left(i)[i] \in Int /\ left(i)[j] \in Int
    BY <1>3, <1>8, <2>1
  <2>. QED  BY <2>2, <2>3, <2>5, <2>6
<1>9. ASSUME NEW i \in DOMAIN s, NEW j \in DOMAIN s, at[i] = at[j]
      PROVE  i = j
  <2>1. group(i) = group(j) /\ (ranked(i) <=> ranked(j))
    BY <1>6, <1>9
  <2>2. CASE ranked(i)
    <3>1. ~(i < j) /\ ~(j < i)
      BY <1>8, <1>9, <2>1, <2>2
    <3>. QED  BY <1>1, <3>1
  <2>3. CASE ~ranked(i)
    BY <1>5, <1>9, <2>1, <2>3
  <2>. QED  BY <2>2, <2>3
<1>10. at \in [DOMAIN s -> DOMAIN s]
  BY <1>6 DEF at
<1>. QED  BY <1>5, <1>6, <1>8, <1>9, <1>10 DEF at

\* What a chain is partitioned into: the usable entries of each mode.
LEMMA PartitionFacts ==
  ASSUME NEW T, NEW chain \in Seq(T)
  PROVE  LET parts == Partitions(chain) IN
         /\ parts.normal \in Seq(T) /\ parts.reserve \in Seq(T)
         /\ ToSet(parts.normal) = {m \in ToSet(chain) : UsableModel(m) /\ MappingMode(Owner(m)) = "normal"}
         /\ ToSet(parts.reserve) = {m \in ToSet(chain) : UsableModel(m) /\ MappingMode(Owner(m)) = "reserve"}
<1> DEFINE normal == {m \in ToSet(chain) : UsableModel(m) /\ MappingMode(Owner(m)) = "normal"}
           reserve == {m \in ToSet(chain) : UsableModel(m) /\ MappingMode(Owner(m)) = "reserve"}
<1>1. Partitions(chain) = [normal |-> Among(chain, normal), reserve |-> Among(chain, reserve)]
  BY DEF Partitions
<1>2. normal \subseteq ToSet(chain) /\ reserve \subseteq ToSet(chain)
  OBVIOUS
<1>n. normal = {m \in ToSet(chain) : UsableModel(m) /\ MappingMode(Owner(m)) = "normal"}
  OBVIOUS
<1>r. reserve = {m \in ToSet(chain) : UsableModel(m) /\ MappingMode(Owner(m)) = "reserve"}
  OBVIOUS
<1> HIDE DEF normal, reserve
<1>3. Among(chain, normal) \in Seq(T) /\ ToSet(Among(chain, normal)) = ToSet(chain) \cap normal
  BY AmongFacts
<1>4. Among(chain, reserve) \in Seq(T) /\ ToSet(Among(chain, reserve)) = ToSet(chain) \cap reserve
  BY AmongFacts
<1>. QED  BY <1>1, <1>2, <1>3, <1>4, <1>n, <1>r

LEMMA LookupType ==
  ASSUME RoutingInv
  PROVE  \A p \in DOMAIN Lookup : Lookup[p] \in Int
BY RankOrder DEF Lookup, Restrict

\* What the order of a chain says of two sequences of which one is the other with
\* each place taken by the entry at another.
ReorderedBy(at, plain, after, ranks) ==
  LET ranked(m) == desired.routing /\ Owner(m) \in DOMAIN ranks IN
  /\ at \in [DOMAIN after -> DOMAIN plain]
  /\ \A i \in DOMAIN after : after[i] = plain[at[i]]
  /\ \A i, j \in DOMAIN after : at[i] = at[j] => i = j
  /\ \A i \in DOMAIN after :
       /\ BalanceGroup(Owner(after[i])) = BalanceGroup(Owner(plain[i]))
       /\ ~ranked(plain[i]) => at[i] = i
  /\ \A i, j \in DOMAIN after :
       (/\ i < j /\ ranked(after[i]) /\ ranked(after[j])
        /\ BalanceGroup(Owner(after[i])) = BalanceGroup(Owner(after[j]))) =>
          \/ ranks[Owner(after[i])] < ranks[Owner(after[j])]
          \/ ranks[Owner(after[i])] = ranks[Owner(after[j])] /\ at[i] < at[j]
          \/ MappingMode(Owner(after[i])) # MappingMode(Owner(after[j]))

\* One part of a chain, with routing or without.
Placed(part, ranks) == IF desired.routing THEN Overlay(part, ranks) ELSE part

LEMMA PlacedFacts ==
  ASSUME NEW T, NEW s \in Seq(T), NEW ranks, \A p \in DOMAIN ranks : ranks[p] \in Int
  PROVE  /\ Placed(s, ranks) \in Seq(T) /\ Len(Placed(s, ranks)) = Len(s)
         /\ ToSet(Placed(s, ranks)) = ToSet(s)
         /\ \E at : ReorderedBy(at, s, Placed(s, ranks), ranks)
<1> DEFINE t == Placed(s, ranks)
           n == Len(s)
<1>1. n \in Nat /\ DOMAIN s = 1..n /\ IsFiniteSet(DOMAIN s)
  BY FS_Interval
<1>2. CASE desired.routing
  <2> DEFINE at == [i \in DOMAIN s |-> Occupant(s, ranks, i)]
             ranked(i) == Owner(s[i]) \in DOMAIN ranks
             group(i) == BalanceGroup(Owner(s[i]))
  <2>1. /\ at \in [DOMAIN s -> DOMAIN s]
        /\ \A i \in DOMAIN s : ~ranked(i) => at[i] = i
        /\ \A i \in DOMAIN s : group(at[i]) = group(i) /\ (ranked(at[i]) <=> ranked(i))
        /\ \A i, j \in DOMAIN s : at[i] = at[j] => i = j
        /\ \A i, j \in DOMAIN s :
             i < j /\ ranked(i) /\ ranked(j) /\ group(i) = group(j) => Better(s, ranks, at[i], at[j])
    BY OccupantFacts
  <2>2. t = [i \in 1..n |-> s[at[i]]]
    BY <1>1, <1>2 DEF Placed, Overlay
  <2> HIDE DEF at
  <2>3. \A i \in 1..n : at[i] \in 1..n /\ s[at[i]] \in T
    BY <1>1, <2>1
  <2>4. t \in Seq(T) /\ Len(t) = n /\ DOMAIN t = 1..n
    BY <1>1, <2>2, <2>3
  <2>5. at \in Surjection(DOMAIN s, DOMAIN s)
    <3>1. at \in Injection(DOMAIN s, DOMAIN s)
      BY <2>1 DEF Injection, IsInjective
    <3>. QED  BY <1>1, <3>1, FS_Injection
  <2>6. ToSet(t) = ToSet(s)
    <3>1. \A k \in 1..n : \E i \in 1..n : at[i] = k
      BY <1>1, <2>5 DEF Surjection
    <3> HIDE DEF t
    <3>2. ToSet(s) \subseteq ToSet(t)
      <4>1. ASSUME NEW k \in 1..n
            PROVE  s[k] \in ToSet(t)
        <5>1. PICK i \in 1..n : at[i] = k
          BY <3>1
        <5>. QED  BY <2>2, <2>4, <5>1 DEF ToSet
      <4>. QED  BY <1>1, <4>1 DEF ToSet
    <3>3. ToSet(t) \subseteq ToSet(s)
      BY <1>1, <2>2, <2>3, <2>4 DEF ToSet
    <3>. QED  BY <3>2, <3>3
  <2>7. ReorderedBy(at, s, t, ranks)
    <3>1. \A i \in 1..n : t[i] = s[at[i]]
      BY <2>2
    <3> HIDE DEF t
    <3>2. at \in [DOMAIN t -> DOMAIN s] /\ \A i \in DOMAIN t : t[i] = s[at[i]]
      BY <1>1, <2>1, <2>4, <3>1
    <3>3. \A i, j \in DOMAIN t : at[i] = at[j] => i = j
      BY <1>1, <2>1, <2>4
    <3>4. ASSUME NEW i \in DOMAIN t
          PROVE  /\ BalanceGroup(Owner(t[i])) = BalanceGroup(Owner(s[i]))
                 /\ ~(desired.routing /\ Owner(s[i]) \in DOMAIN ranks) => at[i] = i
      BY <1>1, <1>2, <2>1, <2>4, <3>2
    <3>5. ASSUME NEW i \in DOMAIN t, NEW j \in DOMAIN t, i < j,
                 Owner(t[i]) \in DOMAIN ranks, Owner(t[j]) \in DOMAIN ranks,
                 BalanceGroup(Owner(t[i])) = BalanceGroup(Owner(t[j]))
          PROVE  \/ ranks[Owner(t[i])] < ranks[Owner(t[j])]
                 \/ ranks[Owner(t[i])] = ranks[Owner(t[j])] /\ at[i] < at[j]
      <4>1. i \in DOMAIN s /\ j \in DOMAIN s /\ t[i] = s[at[i]] /\ t[j] = s[at[j]]
        BY <1>1, <2>4, <3>2
      <4>2. ranked(i) /\ ranked(j) /\ group(i) = group(j)
        BY <2>1, <3>5, <4>1
      <4>3. Better(s, ranks, at[i], at[j])
        BY <2>1, <3>5, <4>1, <4>2
      <4>. QED  BY <4>1, <4>3 DEF Better
    <3>. QED  BY <3>2, <3>3, <3>4, <3>5 DEF ReorderedBy
  <2>. QED  BY <2>4, <2>6, <2>7
<1>3. CASE ~desired.routing
  <2> DEFINE at == [i \in DOMAIN s |-> i]
  <2>1. t = s
    BY <1>3 DEF Placed
  <2>2. ReorderedBy(at, s, s, ranks)
    BY <1>3 DEF ReorderedBy
  <2> HIDE DEF at
  <2>. QED  BY <2>1, <2>2
<1>. QED  BY <1>2, <1>3

\* resolveSurvivors: the normal entries as placed, and behind them those in reserve.
LEMMA SurvivorsFacts ==
  ASSUME RoutingInv, NEW T, NEW chain \in Seq(T)
  PROVE  LET parts == Partitions(chain)  after == Survivors(chain) IN
         /\ after \in Seq(T)
         /\ ToSet(after) = {m \in ToSet(chain) : UsableModel(m)}
         /\ OnlyReordered(parts.normal \o parts.reserve, after, Lookup)
<1> DEFINE normal == Partitions(chain).normal
           reserve == Partitions(chain).reserve
           plain == normal \o reserve
           first == Placed(normal, Lookup)
           second == Placed(reserve, Lookup)
           after == Survivors(chain)
           n == Len(normal)
           k == Len(reserve)
           mode(m) == MappingMode(Owner(m))
<1>1. /\ normal \in Seq(T) /\ reserve \in Seq(T)
      /\ ToSet(normal) = {m \in ToSet(chain) : UsableModel(m) /\ mode(m) = "normal"}
      /\ ToSet(reserve) = {m \in ToSet(chain) : UsableModel(m) /\ mode(m) = "reserve"}
  BY PartitionFacts
<1>2. after = first \o second
  BY DEF Survivors, Ordered, Placed
<1> HIDE DEF normal, reserve, after
<1>3. \A p \in DOMAIN Lookup : Lookup[p] \in Int
  BY LookupType
<1>4. /\ first \in Seq(T) /\ Len(first) = n /\ ToSet(first) = ToSet(normal)
      /\ \E at : ReorderedBy(at, normal, first, Lookup)
  BY <1>1, <1>3, PlacedFacts
<1>5. /\ second \in Seq(T) /\ Len(second) = k /\ ToSet(second) = ToSet(reserve)
      /\ \E at : ReorderedBy(at, reserve, second, Lookup)
  BY <1>1, <1>3, PlacedFacts
<1> HIDE DEF first, second
<1>6. PICK one : ReorderedBy(one, normal, first, Lookup)
  BY <1>4
<1>7. PICK two : ReorderedBy(two, reserve, second, Lookup)
  BY <1>5
<1>8. /\ n \in Nat /\ k \in Nat
      /\ DOMAIN normal = 1..n /\ DOMAIN first = 1..n /\ DOMAIN reserve = 1..k /\ DOMAIN second = 1..k
  BY <1>1, <1>4, <1>5
<1>9. /\ after \in Seq(T) /\ Len(after) = n + k /\ DOMAIN after = 1..(n + k)
      /\ \A i \in 1..n : after[i] = first[i]
      /\ \A i \in 1..k : after[n + i] = second[i]
  <2>1. /\ after \in Seq(T) /\ Len(after) = n + k
        /\ \A i \in 1..(n + k) : after[i] = IF i <= n THEN first[i] ELSE second[i - n]
    <3> HIDE DEF n, k
    <3>. QED  BY <1>2, <1>4, <1>5, ConcatProperties
  <2>2. DOMAIN after = 1..(n + k)
    BY <2>1
  <2>3. ASSUME NEW i \in 1..n
        PROVE  after[i] = first[i]
    BY <1>8, <2>1
  <2>4. ASSUME NEW i \in 1..k
        PROVE  after[n + i] = second[i]
    <3>1. n + i \in 1..(n + k) /\ ~(n + i <= n) /\ (n + i) - n = i
      BY <1>8
    <3>. QED  BY <2>1, <3>1
  <2>. QED  BY <2>1, <2>2, <2>3, <2>4
<1>10. /\ Len(plain) = n + k /\ DOMAIN plain = 1..(n + k)
       /\ \A i \in 1..n : plain[i] = normal[i]
       /\ \A i \in 1..k : plain[n + i] = reserve[i]
  BY <1>1, <1>8
<1>11. /\ \A i \in 1..n : mode(first[i]) = "normal" /\ mode(normal[i]) = "normal"
       /\ \A i \in 1..k : mode(second[i]) = "reserve" /\ mode(reserve[i]) = "reserve"
  <2>1. \A i \in 1..n : first[i] \in ToSet(normal) /\ normal[i] \in ToSet(normal)
    <3>1. ASSUME NEW i \in 1..n
          PROVE  first[i] \in ToSet(first) /\ normal[i] \in ToSet(normal)
      BY <1>8 DEF ToSet
    <3>. QED  BY <1>4, <3>1
  <2>2. \A i \in 1..k : second[i] \in ToSet(reserve) /\ reserve[i] \in ToSet(reserve)
    <3>1. ASSUME NEW i \in 1..k
          PROVE  second[i] \in ToSet(second) /\ reserve[i] \in ToSet(reserve)
      BY <1>8 DEF ToSet
    <3>. QED  BY <1>5, <3>1
  <2>. QED  BY <1>1, <2>1, <2>2
<1>12. ToSet(after) = {m \in ToSet(chain) : UsableModel(m)}
  <2>1. ToSet(after) = ToSet(first) \cup ToSet(second)
    <3>1. \A i \in 1..(n + k) : i \in 1..n \/ (i - n \in 1..k /\ i = n + (i - n))
      BY <1>8
    <3>2. ASSUME NEW i \in 1..(n + k)
          PROVE  after[i] \in ToSet(first) \cup ToSet(second)
      <4>1. CASE i \in 1..n
        BY <1>8, <1>9, <4>1 DEF ToSet
      <4>2. CASE i - n \in 1..k /\ i = n + (i - n)
        <5>1. after[i] = second[i - n]
          BY <1>9, <4>2
        <5>. QED  BY <1>8, <4>2, <5>1 DEF ToSet
      <4>. QED  BY <3>1, <4>1, <4>2
    <3>3. ASSUME NEW i \in 1..n
          PROVE  first[i] \in ToSet(after)
      <4>1. i \in 1..(n + k) /\ after[i] = first[i]
        BY <1>8, <1>9
      <4>. QED  BY <1>9, <4>1 DEF ToSet
    <3>4. ASSUME NEW i \in 1..k
          PROVE  second[i] \in ToSet(after)
      <4>1. n + i \in 1..(n + k) /\ after[n + i] = second[i]
        BY <1>8, <1>9
      <4>. QED  BY <1>9, <4>1 DEF ToSet
    <3>5. ToSet(after) \subseteq ToSet(first) \cup ToSet(second)
      <4>1. ToSet(after) = {after[i] : i \in 1..(n + k)}
        BY <1>9 DEF ToSet
      <4>. QED  BY <3>2, <4>1
    <3>6. ToSet(first) \subseteq ToSet(after)
      <4>1. ToSet(first) = {first[i] : i \in 1..n}
        BY <1>8 DEF ToSet
      <4>. QED  BY <3>3, <4>1
    <3>7. ToSet(second) \subseteq ToSet(after)
      <4>1. ToSet(second) = {second[i] : i \in 1..k}
        BY <1>8 DEF ToSet
      <4>. QED  BY <3>4, <4>1
    <3>. QED  BY <3>5, <3>6, <3>7
  <2>2. \A m : UsableModel(m) => mode(m) = "normal" \/ mode(m) = "reserve"
    BY Modes DEF UsableModel
  <2> HIDE DEF mode
  <2>. QED  BY <1>1, <1>4, <1>5, <2>1, <2>2
<1> DEFINE at == [i \in 1..(n + k) |-> IF i \in 1..n THEN one[i] ELSE n + two[i - n]]
<1>13. \A i \in 1..n : one[i] \in 1..n
  BY <1>6, <1>8 DEF ReorderedBy
<1>14. \A i \in 1..k : two[i] \in 1..k
  BY <1>7, <1>8 DEF ReorderedBy
<1>15. \A i \in 1..(n + k) :
         \/ i \in 1..n /\ at[i] = one[i]
         \/ i \notin 1..n /\ i - n \in 1..k /\ at[i] = n + two[i - n]
  BY <1>8
<1>16. at \in [1..(n + k) -> 1..(n + k)]
  <2>1. ASSUME NEW i \in 1..(n + k)
        PROVE  at[i] \in 1..(n + k)
    <3> HIDE DEF at, n, k
    <3>1. CASE i \in 1..n
      BY <1>8, <1>13, <1>15, <3>1
    <3>2. CASE i \notin 1..n
      <4> DEFINE j == two[i - n]
      <4>1. i - n \in 1..k /\ at[i] = n + j
        BY <1>15, <3>2
      <4>2. j \in 1..k
        BY <1>14, <4>1
      <4> HIDE DEF j
      <4>. QED  BY <1>8, <4>1, <4>2
    <3>. QED  BY <3>1, <3>2
  <2>. QED  BY <2>1
<1> HIDE DEF at, plain, n, k, mode
<1>17. ASSUME NEW i \in 1..(n + k)
       PROVE  \/ /\ i \in 1..n /\ at[i] = one[i] /\ at[i] \in 1..n /\ mode(after[i]) = "normal"
                 /\ after[i] = first[i] /\ plain[i] = normal[i] /\ plain[at[i]] = normal[one[i]]
              \/ /\ i \notin 1..n /\ i - n \in 1..k /\ at[i] = n + two[i - n] /\ at[i] \notin 1..n
                 /\ mode(after[i]) = "reserve" /\ two[i - n] \in 1..k
                 /\ after[i] = second[i - n] /\ plain[i] = reserve[i - n] /\ plain[at[i]] = reserve[two[i - n]]
  <2>1. CASE i \in 1..n
    BY <1>9, <1>10, <1>11, <1>13, <1>15, <2>1
  <2>2. CASE i \notin 1..n
    <3>1. i - n \in 1..k /\ at[i] = n + two[i - n] /\ two[i - n] \in 1..k /\ i = n + (i - n)
      BY <1>8, <1>14, <1>15, <2>2
    <3>2. after[i] = second[i - n] /\ plain[i] = reserve[i - n] /\ plain[at[i]] = reserve[two[i - n]]
      BY <1>9, <1>10, <3>1
    <3>3. at[i] \notin 1..n
      BY <1>8, <3>1
    <3>. QED  BY <1>11, <2>2, <3>1, <3>2, <3>3
  <2>. QED  BY <2>1, <2>2
<1>18. ReorderedBy(at, plain, after, Lookup)
  <2>1. at \in [DOMAIN after -> DOMAIN plain]
    BY <1>9, <1>10, <1>16
  <2>2. ASSUME NEW i \in 1..(n + k)
        PROVE  after[i] = plain[at[i]]
    <3>1. CASE i \in 1..n
      <4>1. first[i] = normal[one[i]]
        BY <1>6, <1>8, <3>1 DEF ReorderedBy
      <4>. QED  BY <1>17, <3>1, <4>1
    <3>2. CASE i \notin 1..n
      <4>1. \A x \in 1..k : second[x] = reserve[two[x]]
        BY <1>7, <1>8 DEF ReorderedBy
      <4>. QED  BY <1>17, <3>2, <4>1
    <3>. QED  BY <3>1, <3>2
  <2>3. ASSUME NEW i \in 1..(n + k), NEW j \in 1..(n + k), at[i] = at[j]
        PROVE  i = j
    <3>1. CASE i \in 1..n
      <4>1. j \in 1..n /\ one[i] = one[j]
        BY <1>17, <2>3, <3>1
      <4>. QED  BY <1>6, <1>8, <3>1, <4>1 DEF ReorderedBy
    <3>2. CASE i \notin 1..n
      <4>1. /\ j \notin 1..n /\ i - n \in 1..k /\ j - n \in 1..k
            /\ n + two[i - n] = n + two[j - n] /\ two[i - n] \in 1..k /\ two[j - n] \in 1..k
        BY <1>17, <2>3, <3>2
      <4>2. two[i - n] = two[j - n]
        BY <1>8, <4>1
      <4>3. i - n = j - n
        BY <1>7, <1>8, <4>1, <4>2 DEF ReorderedBy
      <4>. QED  BY <1>8, <4>3
    <3>. QED  BY <3>1, <3>2
  <2>4. ASSUME NEW i \in 1..(n + k)
        PROVE  /\ BalanceGroup(Owner(after[i])) = BalanceGroup(Owner(plain[i]))
               /\ ~(desired.routing /\ Owner(plain[i]) \in DOMAIN Lookup) => at[i] = i
    <3>1. CASE i \in 1..n
      BY <1>6, <1>8, <1>17, <3>1 DEF ReorderedBy
    <3>2. CASE i \notin 1..n
      <4> DEFINE x == i - n
      <4>1. /\ x \in 1..k /\ n + x = i /\ at[i] = n + two[x]
            /\ after[i] = second[x] /\ plain[i] = reserve[x]
        BY <1>8, <1>17, <3>2
      <4> HIDE DEF x
      <4>2. /\ BalanceGroup(Owner(second[x])) = BalanceGroup(Owner(reserve[x]))
            /\ ~(desired.routing /\ Owner(reserve[x]) \in DOMAIN Lookup) => two[x] = x
        BY <1>7, <1>8, <4>1 DEF ReorderedBy
      <4>. QED  BY <4>1, <4>2
    <3>. QED  BY <3>1, <3>2
  <2>5. ASSUME NEW i \in 1..(n + k), NEW j \in 1..(n + k), i < j,
               desired.routing, Owner(after[i]) \in DOMAIN Lookup, Owner(after[j]) \in DOMAIN Lookup,
               BalanceGroup(Owner(after[i])) = BalanceGroup(Owner(after[j]))
        PROVE  \/ Lookup[Owner(after[i])] < Lookup[Owner(after[j])]
               \/ Lookup[Owner(after[i])] = Lookup[Owner(after[j])] /\ at[i] < at[j]
               \/ mode(after[i]) # mode(after[j])
    <3>1. CASE i \in 1..n /\ j \in 1..n
      <4>1. after[i] = first[i] /\ after[j] = first[j] /\ at[i] = one[i] /\ at[j] = one[j]
        BY <1>17, <3>1
      <4>2. /\ i < j /\ desired.routing
            /\ Owner(first[i]) \in DOMAIN Lookup /\ Owner(first[j]) \in DOMAIN Lookup
            /\ BalanceGroup(Owner(first[i])) = BalanceGroup(Owner(first[j]))
        BY <2>5, <4>1
      <4>3. \/ Lookup[Owner(first[i])] < Lookup[Owner(first[j])]
            \/ Lookup[Owner(first[i])] = Lookup[Owner(first[j])] /\ one[i] < one[j]
            \/ MappingMode(Owner(first[i])) # MappingMode(Owner(first[j]))
        BY ONLY <1>6, <1>8, <3>1, <4>2 DEF ReorderedBy
      <4>. QED  BY <4>1, <4>3 DEF mode
    <3>2. CASE i \notin 1..n /\ j \notin 1..n
      <4> DEFINE x == i - n
                 y == j - n
      <4>1. /\ x \in 1..k /\ y \in 1..k /\ x < y /\ two[x] \in 1..k /\ two[y] \in 1..k
            /\ after[i] = second[x] /\ after[j] = second[y] /\ at[i] = n + two[x] /\ at[j] = n + two[y]
        BY <1>8, <1>17, <2>5, <3>2
      <4> HIDE DEF x, y
      <4>2. \/ Lookup[Owner(second[x])] < Lookup[Owner(second[y])]
            \/ Lookup[Owner(second[x])] = Lookup[Owner(second[y])] /\ two[x] < two[y]
            \/ mode(second[x]) # mode(second[y])
        BY <1>7, <1>8, <2>5, <4>1 DEF ReorderedBy, mode
      <4>. QED  BY <1>8, <4>1, <4>2
    <3>3. CASE (i \in 1..n) # (j \in 1..n)
      BY <1>17, <3>3
    <3>. QED  BY <3>1, <3>2, <3>3
  <2>. QED  BY <1>9, <2>1, <2>2, <2>3, <2>4, <2>5 DEF ReorderedBy, mode
<1>19. ASSUME NEW i \in 2..(n + k), mode(after[i]) = "normal"
       PROVE  mode(after[i - 1]) = "normal"
  <2>1. i \in 1..(n + k) /\ i - 1 \in 1..(n + k)
    BY <1>8
  <2>2. i \in 1..n
    BY <1>17, <1>19, <2>1
  <2>3. i - 1 \in 1..n
    BY <1>8, <2>1, <2>2
  <2>. QED  BY <1>17, <2>1, <2>3
<1>20. OnlyReordered(plain, after, Lookup)
  <2>1. Len(after) = Len(plain) /\ Len(after) = n + k
    BY <1>9, <1>10
  <2>. QED  BY <1>18, <1>19, <2>1 DEF OnlyReordered, ReorderedBy, mode
<1>. QED  BY <1>9, <1>12, <1>20 DEF after, plain, normal, reserve

\* A model that a plan names has survived in a chain, and a survivor is a model
\* the same plan leaves enabled.
LEMMA PlanInState ==
  ASSUME RoutingInv
  PROVE  PlanRefersToEnabled
<1> DEFINE plan == Build
           chains == desired.target.chains
           left(c) == Survivors(chains[c])
           kept == [m \in DOMAIN desired.models |-> MappingMode(Owner(m)) # "disabled" /\ Baseline(m)]
<1>1. SUFFICES ASSUME plan # NoPlan, desired.target.global
               PROVE  /\ \A c \in DOMAIN plan.model : plan.enabled[plan.model[c]]
                      /\ \A c \in DOMAIN plan.fallbacks : \A m \in ToSet(plan.fallbacks[c]) : plan.enabled[m]
  BY DEF PlanRefersToEnabled
<1>2. /\ \A c \in Managed : left(c) # <<>>
      /\ plan = [model     |-> [c \in Managed |-> Head(left(c))],
                 fallbacks |-> [c \in Managed \cap desired.target.definitions |-> Tail(left(c))],
                 enabled   |-> kept]
  BY <1>1 DEF Build
<1> HIDE DEF plan
<1>3. IsPolicy(desired)
  BY RoutingAssumption DEF RoutingInv
<1>4. ASSUME NEW c \in Managed
      PROVE  /\ left(c) \in Seq(DOMAIN desired.models) /\ left(c) # <<>>
             /\ \A m \in ToSet(left(c)) : m \in DOMAIN desired.models /\ kept[m]
  <2>1. c \in DOMAIN chains /\ chains[c] \in Seq(DOMAIN desired.models)
    BY <1>3 DEF Managed, IsPolicy
  <2>2. /\ left(c) \in Seq(DOMAIN desired.models)
        /\ ToSet(left(c)) = {m \in ToSet(chains[c]) : UsableModel(m)}
    BY <2>1, SurvivorsFacts
  <2>3. ToSet(chains[c]) \subseteq DOMAIN desired.models
    BY <2>1 DEF ToSet
  <2> HIDE DEF left, chains
  <2>. QED  BY <1>2, <2>2, <2>3 DEF UsableModel
<1> HIDE DEF kept, left, chains
<1>5. ASSUME NEW T, NEW s \in Seq(T), s # <<>>
      PROVE  Head(s) \in ToSet(s) /\ ToSet(Tail(s)) \subseteq ToSet(s)
  <2>1. Len(s) \in Nat \ {0} /\ DOMAIN s = 1..Len(s) /\ Head(s) = s[1]
    BY <1>5, EmptySeq
  <2>2. /\ Tail(s) \in Seq(T) /\ Len(Tail(s)) = Len(s) - 1
        /\ \A i \in 1..(Len(s) - 1) : Tail(s)[i] = s[i + 1]
    BY <1>5, HeadTailProperties
  <2>3. ASSUME NEW x \in ToSet(Tail(s))
        PROVE  x \in ToSet(s)
    <3>1. PICK i \in DOMAIN Tail(s) : Tail(s)[i] = x
      BY DEF ToSet
    <3>2. i \in 1..(Len(s) - 1) /\ i + 1 \in 1..Len(s)
      BY <2>1, <2>2, <3>1
    <3>. QED  BY <2>1, <2>2, <3>1, <3>2 DEF ToSet
  <2>. QED  BY <2>1, <2>3 DEF ToSet
<1>6. ASSUME NEW c \in DOMAIN plan.model
      PROVE  plan.enabled[plan.model[c]]
  <2>1. c \in Managed /\ plan.model[c] = Head(left(c)) /\ plan.enabled = kept
    BY <1>2
  <2>. QED  BY <1>4, <1>5, <2>1
<1>7. ASSUME NEW c \in DOMAIN plan.fallbacks, NEW m \in ToSet(plan.fallbacks[c])
      PROVE  plan.enabled[m]
  <2>1. c \in Managed /\ plan.fallbacks[c] = Tail(left(c)) /\ plan.enabled = kept
    BY <1>2
  <2>. QED  BY <1>4, <1>5, <2>1
<1>. QED  BY <1>6, <1>7

LEMMA ChainsInState ==
  ASSUME RoutingInv
  PROVE  ChainsKept
<1>1. IsPolicy(desired)
  BY RoutingAssumption DEF RoutingInv
<1>2. \A c \in DOMAIN desired.target.chains : desired.target.chains[c] \in Seq(DOMAIN desired.models)
  BY <1>1 DEF IsPolicy
<1>3. ChainOnlyReordered
  BY <1>2, SurvivorsFacts DEF ChainOnlyReordered
<1>. QED  BY <1>3, PlanInState DEF ChainsKept

\* In every state, for every policy: a chain keeps the survivors of the policy, only
\* ranked entries of the same mode and group change places, the better rank first,
\* and no plan names a model that it disables (resolveSurvivors,
\* applyRoutingOverlay, Build).
THEOREM ChainsKeptHolds == RoutingSpec => []ChainsKept
<1>1. RoutingInv => ChainsKept
  BY ChainsInState
<1>. QED  BY <1>1, RoutingInvariant, PTL

-----------------------------------------------------------------------------
(***************************************************************************)
(* What a window tells.                                                    *)
(***************************************************************************)
\* The shares used that a window tells: as a percentage, and by what is counted.
Tells(w) ==
  ({w.percent} \ {None})
    \cup (IF w.limit # None /\ w.used # None /\ w.limit > 0 THEN {Share(w.used, w.limit)} ELSE {})

\* Nothing is told, or that something is used up.
Spells(shares) == shares = {} \/ \E x \in shares : x >= 100

LEMMA ShareType ==
  ASSUME NEW used \in Int, NEW limit \in Int, limit > 0
  PROVE  Share(used, limit) \in 0..100 /\ Clamp(100 - (used * 100) \div limit, 0, 100) = 100 - Share(used, limit)
<1> DEFINE share == (used * 100) \div limit
<1>1. share \in Int
  OBVIOUS
<1>2. Share(used, limit) = Clamp(share, 0, 100)
  BY DEF Share
<1> HIDE DEF share
<1>3. Clamp(share, 0, 100) \in 0..100 /\ Clamp(100 - share, 0, 100) = 100 - Clamp(share, 0, 100)
  BY <1>1 DEF Clamp
<1>. QED  BY <1>2, <1>3 DEF share

\* Of a window nothing is left if it tells a share of all, and by its percentage
\* alone if something else is counted.
LEMMA RemainingTells ==
  ASSUME NEW w \in Windows, None \notin Int
  PROVE  /\ Tells(w) \subseteq Int
         /\ Remaining(w) = None <=> Tells(w) = {}
         /\ Remaining(w) # None => Remaining(w) \in 0..100
         /\ Remaining(w) = 0 => \E x \in Tells(w) : x >= 100
         /\ (\E x \in Tells(w) : x >= 100) => Remaining(w) = 0 \/ (w.percent # None /\ w.percent >= 100)
         /\ (w.percent # None /\ w.percent >= 100) => \E x \in Tells(w) : x >= 100
<1>1. w.percent \in Maybe(Int) /\ w.limit \in Maybe(Int) /\ w.used \in Maybe(Int)
  BY DEF Windows
<1> DEFINE counted == w.limit # None /\ w.used # None /\ w.limit > 0
<1>2. CASE counted
  <2>1. w.limit \in Int /\ w.used \in Int /\ w.limit > 0
    BY <1>1, <1>2 DEF Maybe
  <2>2. Share(w.used, w.limit) \in 0..100 /\ Remaining(w) = 100 - Share(w.used, w.limit)
    BY <1>2, <2>1, ShareType DEF Remaining
  <2>3. Tells(w) = ({w.percent} \ {None}) \cup {Share(w.used, w.limit)}
    BY <1>2 DEF Tells
  <2>. QED  BY <1>1, <2>2, <2>3 DEF Maybe
<1>3. CASE ~counted
  <2>1. Tells(w) = {w.percent} \ {None}
    BY <1>3 DEF Tells
  <2>2. Remaining(w) = IF w.percent # None THEN Clamp(100 - w.percent, 0, 100) ELSE None
    BY <1>3 DEF Remaining
  <2>. QED  BY <1>1, <2>1, <2>2 DEF Maybe, Clamp
<1>. QED  BY <1>2, <1>3

Told(ws) == UNION {Tells(ws[i]) : i \in DOMAIN ws}

\* A snapshot is out of quota if its windows tell nothing, or that one is used up:
\* determineAvailability and EffectiveRemaining.
LEMMA SnapshotTells ==
  ASSUME NEW ws \in Seq(Windows), NEW snap, snap.windows = ws, snap.avail = Availability(ws), None \notin Int
  PROVE  OutOfQuota(snap) <=> Spells(Told(ws))
<1> DEFINE left == {Remaining(ws[i]) : i \in DOMAIN ws} \ {None}
           full(i) == \E x \in Tells(ws[i]) : x >= 100
           spent(i) == ws[i].percent # None /\ ws[i].percent >= 100
<1>1. \A i \in DOMAIN ws : ws[i] \in Windows
  BY ElementOfSeq
<1>2. \A i \in DOMAIN ws :
         /\ Remaining(ws[i]) = None <=> Tells(ws[i]) = {}
         /\ Remaining(ws[i]) # None => Remaining(ws[i]) \in 0..100
         /\ Remaining(ws[i]) = 0 => full(i)
         /\ full(i) => Remaining(ws[i]) = 0 \/ spent(i)
         /\ spent(i) => full(i)
  BY <1>1, RemainingTells
<1>3. left \in SUBSET Nat
  <2>1. ASSUME NEW x \in left
        PROVE  x \in Nat
    <3>1. PICK i \in DOMAIN ws : x = Remaining(ws[i]) /\ x # None
      BY <2>1
    <3>2. x \in 0..100
      BY <1>2, <3>1
    <3>. QED  BY <3>2
  <2>. QED  BY <2>1
<1>4. left # {} => Min(left) \in left /\ \A n \in left : Min(left) <= n
  BY <1>3, LeastNat
<1>5. left = {} <=> Told(ws) = {}
  <2>1. left = {} <=> \A i \in DOMAIN ws : Remaining(ws[i]) = None
    OBVIOUS
  <2>2. Told(ws) = {} <=> \A i \in DOMAIN ws : Tells(ws[i]) = {}
    BY DEF Told
  <2>. QED  BY <1>2, <2>1, <2>2
<1>6. EffectiveRemaining(snap) = IF left = {} THEN None ELSE Min(left)
  BY DEF EffectiveRemaining
<1>7. (\E x \in Told(ws) : x >= 100) <=> \E i \in DOMAIN ws : full(i)
  BY DEF Told
<1>8. 0 \in left <=> \E i \in DOMAIN ws : Remaining(ws[i]) = 0
  OBVIOUS
<1>9. Availability(ws) # "available" <=> (ws = <<>> \/ \E i \in DOMAIN ws : spent(i))
  BY DEF Availability
<1>10. ws = <<>> => left = {}
  OBVIOUS
<1> HIDE DEF left, full, spent
<1>11. left # {} => (EffectiveRemaining(snap) \in {None, 0} <=> 0 \in left)
  <2>1. SUFFICES ASSUME left # {}
                 PROVE  Min(left) \in {None, 0} <=> 0 \in left
    BY <1>6
  <2>2. Min(left) \in Nat /\ Min(left) \in left /\ \A n \in left : n \in Nat /\ Min(left) <= n
    BY <1>3, <1>4, <2>1
  <2>3. Min(left) # None
    BY <2>2
  <2>4. 0 \in left => Min(left) = 0
    BY <2>2
  <2>. QED  BY <2>2, <2>3, <2>4
<1>12. CASE left = {}
  BY <1>5, <1>6, <1>12 DEF OutOfQuota, Spells
<1>13. CASE left # {}
  <2>1. OutOfQuota(snap) <=> (\E i \in DOMAIN ws : spent(i)) \/ 0 \in left
    BY <1>9, <1>10, <1>11, <1>13 DEF OutOfQuota
  <2>. QED  BY <1>2, <1>5, <1>7, <1>8, <1>13, <2>1 DEF Spells
<1>. QED  BY <1>12, <1>13

\* What a poll makes of an answer that states some shares: nothing if it states
\* none, or a snapshot that is out of quota if it states none or that all is used.
Hears(found, shares) ==
  IF found = None THEN shares = {}
  ELSE found \in FetchedRecords /\ (OutOfQuota(found) <=> Spells(shares))

LEMMA SnapshotHears ==
  ASSUME NEW ws \in Seq(Windows), NEW usedUp \in BOOLEAN, NEW partial \in BOOLEAN, NEW shares, None \notin Int,
         Spells(shares) <=> usedUp \/ Spells(Told(ws))
  PROVE  /\ Snapshot(ws, usedUp, partial) \in FetchedRecords /\ Snapshot(ws, usedUp, partial) # None
         /\ Hears(Snapshot(ws, usedUp, partial), shares)
<1> DEFINE status == IF partial THEN "partial" ELSE "fresh"
           avail  == IF usedUp THEN "unavailable" ELSE Availability(ws)
           snap == Snapshot(ws, usedUp, partial)
<1>1. snap = [status |-> status, avail |-> avail, windows |-> ws, age |-> 0]
  BY DEF Snapshot
<1>2. Availability(ws) \in Availabilities
  BY DEF Availability, Availabilities
<1>3. status \in Statuses /\ avail \in Availabilities
  BY <1>2 DEF Statuses, Availabilities
<1>4. snap.avail = avail /\ snap.windows = ws
  BY <1>1
<1> HIDE DEF status
<1>5. snap \in FetchedRecords
  <2> HIDE DEF avail, snap
  <2>. QED  BY <1>1, <1>3 DEF FetchedRecords
<1>6. snap # None
  BY <1>5, QuotaAssumption
<1> HIDE DEF snap
<1>7. OutOfQuota(snap) <=> Spells(shares)
  <2>1. CASE usedUp
    BY <1>4, <2>1 DEF OutOfQuota
  <2>2. CASE ~usedUp
    BY <1>4, <2>2, SnapshotTells
  <2>. QED  BY <2>1, <2>2
<1>. QED  BY <1>5, <1>6, <1>7 DEF Hears, snap

\* Of windows one after the other.
LEMMA ToldTogether ==
  ASSUME NEW s \in Seq(Windows), NEW t \in Seq(Windows)
  PROVE  s \o t \in Seq(Windows) /\ Told(s \o t) = Told(s) \cup Told(t)
<1>1. /\ s \o t \in Seq(Windows) /\ DOMAIN s = 1..Len(s) /\ DOMAIN t = 1..Len(t)
      /\ DOMAIN (s \o t) = 1..(Len(s) + Len(t)) /\ Len(s) \in Nat /\ Len(t) \in Nat
      /\ \A i \in 1..Len(s) : (s \o t)[i] = s[i]
      /\ \A i \in 1..Len(t) : (s \o t)[Len(s) + i] = t[i]
  BY ConcatProperties
<1>2. ASSUME NEW x \in Told(s \o t)
      PROVE  x \in Told(s) \cup Told(t)
  <2>1. PICK i \in 1..(Len(s) + Len(t)) : x \in Tells((s \o t)[i])
    BY <1>1, <1>2 DEF Told
  <2>2. CASE i <= Len(s)
    BY <1>1, <2>1, <2>2 DEF Told
  <2>3. CASE i > Len(s)
    <3>1. i - Len(s) \in 1..Len(t) /\ i = Len(s) + (i - Len(s))
      BY <1>1, <2>3
    <3>2. (s \o t)[i] = t[i - Len(s)]
      BY <1>1, <3>1
    <3>. QED  BY <1>1, <2>1, <3>1, <3>2 DEF Told
  <2>. QED  BY <1>1, <2>2, <2>3
<1>3. ASSUME NEW x \in Told(s)
      PROVE  x \in Told(s \o t)
  <2>1. PICK i \in 1..Len(s) : x \in Tells(s[i])
    BY <1>1, <1>3 DEF Told
  <2>. QED  BY <1>1, <2>1 DEF Told
<1>4. ASSUME NEW x \in Told(t)
      PROVE  x \in Told(s \o t)
  <2>1. PICK i \in 1..Len(t) : x \in Tells(t[i])
    BY <1>1, <1>4 DEF Told
  <2>2. Len(s) + i \in 1..(Len(s) + Len(t))
    BY <1>1
  <2>. QED  BY <1>1, <2>1, <2>2 DEF Told
<1>. QED  BY <1>1, <1>2, <1>3, <1>4

LEMMA ToldByOne ==
  ASSUME NEW w \in Windows
  PROVE  <<w>> \in Seq(Windows) /\ Told(<<w>>) = Tells(w)
BY DEF Told

LEMMA ToldByNone == <<>> \in Seq(Windows) /\ Told(<<>>) = {}
BY DEF Told

LEMMA WindowType ==
  ASSUME NEW limit \in Maybe(Int), NEW used \in Maybe(Int), NEW percent \in Maybe(Int),
         NEW reset \in Maybe(Int), NEW period \in Maybe(Int)
  PROVE  LET w == Window(limit, used, percent, reset, period) IN
         /\ w \in Windows
         /\ Tells(w) = ({percent} \ {None})
              \cup (IF limit # None /\ used # None /\ limit > 0 THEN {Share(used, limit)} ELSE {})
BY DEF Window, Windows, Tells

\* Of one window that counts what is used of a limit, by its share.
LEMMA CountedWindow ==
  ASSUME NEW limit \in Int, NEW used \in Int, limit > 0, None \notin Int,
         NEW reset \in Maybe(Int), NEW period \in Maybe(Int)
  PROVE  LET w == Window(limit, used, Share(used, limit), reset, period) IN
         /\ <<w>> \in Seq(Windows) /\ Told(<<w>>) = {Share(used, limit)}
<1> DEFINE w == Window(limit, used, Share(used, limit), reset, period)
<1>1. Share(used, limit) \in Int
  <2>1. Share(used, limit) \in 0..100
    BY ONLY ShareType, limit > 0
  <2>. QED  BY <2>1
<1>2. w \in Windows /\ Tells(w) = ({Share(used, limit)} \ {None}) \cup {Share(used, limit)}
  BY <1>1, WindowType DEF Maybe
<1> HIDE DEF w
<1>. QED  BY <1>2, ToldByOne DEF w

-----------------------------------------------------------------------------
(***************************************************************************)
(* What each adapter makes of an answer.                                   *)
(***************************************************************************)
LEMMA PercentWindowsTold ==
  ASSUME NEW T, NEW given \in Seq(T), \A w \in ToSet(given) : IsWindow(w), None \notin Int
  PROVE  /\ PercentWindows(given) \in Seq(Windows)
         /\ Told(PercentWindows(given)) = SharesOf(ToSet(given))
<1> DEFINE S == {w \in ToSet(given) \ {None, Bad} : w.percent # None \/ w.reset # None}
           saying == Among(given, S)
           windows == [i \in DOMAIN saying |-> Window(None, None, saying[i].percent, saying[i].reset, saying[i].period)]
<1>1. saying \in Seq(T) /\ ToSet(saying) = ToSet(given) \cap S
  BY AmongFacts
<1>2. PercentWindows(given) = windows
  BY DEF PercentWindows
<1>3. \A w \in S : w.percent \in Maybe(Int) /\ w.reset \in Maybe(Int) /\ w.period \in Maybe(Int)
  BY DEF IsWindow, Numbers
<1>4. DOMAIN saying = 1..Len(saying) /\ Len(saying) \in Nat
  BY <1>1, LenProperties
<1>n. ToSet(saying) = S
  <2>1. S \subseteq ToSet(given)
    OBVIOUS
  <2> HIDE DEF S, saying
  <2>. QED  BY <1>1, <2>1
<1>5. \A i \in DOMAIN saying : saying[i] \in S
  BY <1>n DEF ToSet
<1>6. \A x \in S : \E i \in DOMAIN saying : saying[i] = x
  <2> HIDE DEF S, saying
  <2>. QED  BY <1>n DEF ToSet
<1>7. \A x \in SharesOf(ToSet(given)) : \E w \in S : w.percent = x /\ x # None
  BY DEF SharesOf
<1>8. \A w \in S : w.percent # None => w.percent \in SharesOf(ToSet(given))
  BY DEF SharesOf
<1> HIDE DEF saying, S
<1>9. ASSUME NEW i \in DOMAIN saying
      PROVE  /\ windows[i] \in Windows
             /\ Tells(windows[i]) = {saying[i].percent} \ {None}
  <2> DEFINE w == Window(None, None, saying[i].percent, saying[i].reset, saying[i].period)
  <2>0. /\ None \in Maybe(Int) /\ saying[i].percent \in Maybe(Int)
        /\ saying[i].reset \in Maybe(Int) /\ saying[i].period \in Maybe(Int)
    BY <1>3, <1>5 DEF Maybe
  <2>1. w \in Windows /\ Tells(w) = ({saying[i].percent} \ {None}) \cup {}
    BY <2>0, WindowType
  <2>2. windows[i] = w
    OBVIOUS
  <2> HIDE DEF w, windows
  <2>. QED  BY <2>1, <2>2
<1>10. DOMAIN windows = DOMAIN saying
  OBVIOUS
<1>11. windows \in Seq(Windows)
  BY <1>4, <1>9
<1> HIDE DEF windows
<1>12. Told(windows) = SharesOf(ToSet(given))
  <2>1. ASSUME NEW x \in Told(windows)
        PROVE  x \in SharesOf(ToSet(given))
    <3>1. PICK i \in DOMAIN saying : x \in Tells(windows[i])
      BY <1>10, <2>1 DEF Told
    <3>. QED  BY <1>5, <1>8, <1>9, <3>1
  <2>2. ASSUME NEW x \in SharesOf(ToSet(given))
        PROVE  x \in Told(windows)
    <3>1. PICK w \in S : w.percent = x /\ x # None
      BY <1>7, <2>2
    <3>2. PICK i \in DOMAIN saying : saying[i] = w
      BY <1>6
    <3>3. x \in Tells(windows[i])
      BY <1>9, <3>1, <3>2
    <3>. QED  BY <1>10, <3>2, <3>3 DEF Told
  <2>. QED  BY <2>1, <2>2
<1>. QED  BY <1>2, <1>11, <1>12

LEMMA SpendWindowTold ==
  ASSUME NEW l, IsLimit(l), None \notin Int
  PROVE  SpendWindow(l) \in Seq(Windows) /\ Told(SpendWindow(l)) = ShareOfLimit(l)
<1>1. CASE l \in {None, Bad}
  BY <1>1, ToldByNone DEF SpendWindow, ShareOfLimit
<1>2. CASE l \notin {None, Bad} /\ {l.limit, l.used, l.left, l.reset} = {None}
  <2>1. l.limit = None /\ l.left = None
    BY <1>2
  <2>2. SpendWindow(l) = <<>> /\ ShareOfLimit(l) = {}
    BY <1>2, <2>1 DEF SpendWindow, ShareOfLimit
  <2>. QED  BY <2>2, ToldByNone
<1>3. CASE l \notin {None, Bad} /\ {l.limit, l.used, l.left, l.reset} # {None}
  <2> DEFINE percent == IF l.left = None THEN None ELSE 100 - l.left
             w == Window(l.limit, l.used, percent, l.reset, None)
  <2>1. l.limit \in Maybe(Int) /\ l.used \in Maybe(Int) /\ l.left \in Maybe(Int) /\ l.reset \in Maybe(Int)
    BY <1>3 DEF IsLimit, Numbers
  <2>2. percent \in Maybe(Int) /\ None \in Maybe(Int)
    BY <2>1 DEF Maybe
  <2>3. SpendWindow(l) = <<w>>
    BY <1>3 DEF SpendWindow
  <2>4. {percent} \ {None} = IF l.left # None THEN {100 - l.left} ELSE {}
    BY <2>1 DEF Maybe
  <2> HIDE DEF percent
  <2>5. /\ w \in Windows
        /\ Tells(w) = ({percent} \ {None})
             \cup (IF l.limit # None /\ l.used # None /\ l.limit > 0 THEN {Share(l.used, l.limit)} ELSE {})
    BY <2>1, <2>2, WindowType
  <2>6. ShareOfLimit(l) = Tells(w)
    BY <1>3, <2>4, <2>5 DEF ShareOfLimit
  <2> HIDE DEF w
  <2>. QED  BY <2>3, <2>5, <2>6, ToldByOne
<1>. QED  BY <1>1, <1>2, <1>3

LEMMA CodexHears ==
  ASSUME NEW body, IsReply("codex", body), None \notin Int
  PROVE  Hears(Codex(body), StatedByCodex(body))
<1> DEFINE rate == IF body.rate = Bad THEN [primary |-> None, secondary |-> None, individual |-> None] ELSE body.rate
           spend == IF body.individual = None THEN rate.individual ELSE body.individual
           shares == <<rate.primary, rate.secondary>>
           front == PercentWindows(shares)
           middle == SpendWindow(spend)
           back == PercentWindows(body.additional)
           windows == front \o middle \o back
           partial == windows = <<>> \/ Bad \in {body.rate, spend, body.credits} \cup ToSet(shares) \cup ToSet(body.additional)
<1>1. /\ IsLimit(body.individual)
      /\ IsList(body.additional) /\ \A w \in ToSet(body.additional) : IsWindow(w)
      /\ body.rate # Bad => IsWindow(body.rate.primary) /\ IsWindow(body.rate.secondary) /\ IsLimit(body.rate.individual)
  BY DEF IsReply
<1>2. IsWindow(None) /\ IsLimit(None)
  BY DEF IsWindow, IsLimit
<1>3. IsWindow(rate.primary) /\ IsWindow(rate.secondary) /\ IsLimit(rate.individual)
  BY <1>1, <1>2
<1>4. IsLimit(spend)
  BY <1>1, <1>3
<1>5. shares \in Seq({rate.primary, rate.secondary}) /\ ToSet(shares) = {rate.primary, rate.secondary}
  BY DEF ToSet
<1>6. Codex(body) = Snapshot(windows, FALSE, partial)
  BY DEF Codex
<1>7. front \in Seq(Windows) /\ Told(front) = SharesOf({rate.primary, rate.secondary})
  BY <1>3, <1>5, PercentWindowsTold
<1>8. middle \in Seq(Windows) /\ Told(middle) = ShareOfLimit(spend)
  BY <1>4, SpendWindowTold
<1>9. back \in Seq(Windows) /\ Told(back) = SharesOf(ToSet(body.additional))
  BY <1>1, PercentWindowsTold DEF IsList
<1>10. StatedByCodex(body) = SharesOf({rate.primary, rate.secondary}) \cup ShareOfLimit(spend) \cup SharesOf(ToSet(body.additional))
  <2>1. ShareOfLimit(None) = {} /\ SharesOf({None}) = {}
    BY DEF ShareOfLimit, SharesOf
  <2>2. CASE body.rate = Bad
    BY <2>1, <2>2 DEF StatedByCodex
  <2>3. CASE body.rate # Bad
    BY <2>1, <2>3 DEF StatedByCodex
  <2>. QED  BY <2>2, <2>3
<1> HIDE DEF front, middle, back, spend, shares, rate
<1>11. windows \in Seq(Windows) /\ Told(windows) = Told(front) \cup Told(middle) \cup Told(back)
  <2>1. front \o middle \in Seq(Windows) /\ Told(front \o middle) = Told(front) \cup Told(middle)
    BY <1>7, <1>8, ToldTogether
  <2>. QED  BY <1>9, <2>1, ToldTogether
<1>12. partial \in BOOLEAN
  OBVIOUS
<1>13. Told(windows) = StatedByCodex(body)
  BY <1>7, <1>8, <1>9, <1>10, <1>11
<1> HIDE DEF windows, partial
<1>14. Spells(StatedByCodex(body)) <=> FALSE \/ Spells(Told(windows))
  BY <1>13
<1>15. Hears(Snapshot(windows, FALSE, partial), StatedByCodex(body))
  BY <1>11, <1>12, <1>14, SnapshotHears
<1>. QED  BY <1>6, <1>15

LEMMA EntryTold ==
  ASSUME NEW l, Numbers({l.usage, l.current, l.remaining, l.percent, l.reset}), l.period \in Int, None \notin Int
  PROVE  ZaiWindow(l) \in Windows /\ Tells(ZaiWindow(l)) = ShareOfEntry(l)
<1> DEFINE used == IF l.current # None THEN l.current
                   ELSE IF l.usage # None /\ l.remaining # None THEN l.usage - l.remaining ELSE None
           counted == used # None /\ l.usage # None /\ l.usage > 0
           percent == IF counted THEN Share(used, l.usage) ELSE l.percent
           period == IF l.period > 0 THEN l.period ELSE None
           w == Window(l.usage, used, percent, l.reset, period)
<1>1. /\ l.usage \in Maybe(Int) /\ l.current \in Maybe(Int) /\ l.remaining \in Maybe(Int)
      /\ l.percent \in Maybe(Int) /\ l.reset \in Maybe(Int) /\ period \in Maybe(Int)
  BY DEF Numbers, Maybe
<1>2. used \in Maybe(Int)
  BY <1>1 DEF Maybe
<1>3. counted => l.usage \in Int /\ used \in Int /\ l.usage > 0 /\ Share(used, l.usage) \in 0..100
  <2>1. counted => l.usage \in Int /\ used \in Int /\ l.usage > 0
    BY <1>1, <1>2 DEF Maybe
  <2> HIDE DEF used
  <2>2. ASSUME counted
        PROVE  Share(used, l.usage) \in 0..100
    BY ONLY <2>1, <2>2, ShareType
  <2>. QED  BY <2>1, <2>2
<1>4. ZaiWindow(l) = w
  BY DEF ZaiWindow
<1>5. ShareOfEntry(l) = IF counted THEN {Share(used, l.usage)} ELSE {l.percent} \ {None}
  BY <1>1 DEF ShareOfEntry, Maybe
<1>6. percent \in Maybe(Int)
  <2> HIDE DEF used
  <2>. QED  BY <1>1, <1>3 DEF Maybe
<1>7. counted => percent = Share(used, l.usage) /\ percent # None
  <2> HIDE DEF used
  <2>. QED  BY <1>3
<1>8. ~counted => percent = l.percent
  OBVIOUS
<1> HIDE DEF used, percent, period
<1>9. /\ w \in Windows
      /\ Tells(w) = ({percent} \ {None})
           \cup (IF l.usage # None /\ used # None /\ l.usage > 0 THEN {Share(used, l.usage)} ELSE {})
  <2> DEFINE a == l.usage
             r == l.reset
             v == Window(a, used, percent, r, period)
  <2>1. a \in Maybe(Int) /\ r \in Maybe(Int) /\ period \in Maybe(Int)
    BY <1>1
  <2>2. w = v
    OBVIOUS
  <2> HIDE DEF w, a, r, counted
  <2>3. /\ v \in Windows
        /\ Tells(v) = ({percent} \ {None})
             \cup (IF a # None /\ used # None /\ a > 0 THEN {Share(used, a)} ELSE {})
    BY <1>2, <1>6, <2>1, WindowType
  <2>. QED  BY <2>2, <2>3 DEF a
<1> HIDE DEF w
<1>. QED  BY <1>4, <1>5, <1>7, <1>8, <1>9

LEMMA ZaiHears ==
  ASSUME NEW body, IsReply("zai", body), None \notin Int
  PROVE  Hears(Zai(body), StatedByZai(body))
<1> DEFINE limits == body.limits
           T == ToSet(limits)
           of(type) == {l \in T \ {Bad} : l.type = type}
           tokens == Among(limits, of("tokens"))
           times  == Among(limits, of("time"))
           key == [i \in DOMAIN tokens |-> tokens[i].period]
           byLength == SortedBy(tokens, key)
           sorted == byLength \o times
           windows == [i \in DOMAIN sorted |-> ZaiWindow(sorted[i])]
           partial == windows = <<>> \/ Bad \in T
<1>1. /\ limits \in Seq(T)
      /\ \A l \in T \ {Bad} : Numbers({l.usage, l.current, l.remaining, l.percent, l.reset}) /\ l.period \in Int
  BY DEF IsReply, IsList
<1>2. Zai(body) = IF ~body.success THEN None ELSE Snapshot(windows, FALSE, partial)
  BY DEF Zai
<1>3. StatedByZai(body) = IF ~body.success THEN {} ELSE UNION {ShareOfEntry(l) : l \in of("tokens") \cup of("time")}
  BY DEF StatedByZai
<1> DEFINE E == of("tokens") \cup of("time")
<1>4. /\ of("tokens") \subseteq T /\ of("time") \subseteq T
      /\ \A l \in E : Numbers({l.usage, l.current, l.remaining, l.percent, l.reset}) /\ l.period \in Int
  BY <1>1
<1>5. of("tokens") \subseteq E /\ of("time") \subseteq E
  OBVIOUS
<1>e. E = of("tokens") \cup of("time")
  OBVIOUS
<1> HIDE DEF limits, T, of, E
<1>6. tokens \in Seq(T) /\ ToSet(tokens) = of("tokens")
  <2>1. tokens \in Seq(T) /\ ToSet(tokens) = ToSet(limits) \cap of("tokens")
    BY <1>1, AmongFacts
  <2>. QED  BY <1>4, <2>1 DEF T
<1>7. times \in Seq(T) /\ ToSet(times) = of("time")
  <2>1. times \in Seq(T) /\ ToSet(times) = ToSet(limits) \cap of("time")
    BY <1>1, AmongFacts
  <2>. QED  BY <1>4, <2>1 DEF T
<1> HIDE DEF tokens, times
<1>8. \A i \in DOMAIN tokens : tokens[i] \in of("tokens")
  BY <1>6 DEF ToSet
<1>9. \A i \in DOMAIN tokens : key[i] \in Int
  BY <1>4, <1>5, <1>8
<1> HIDE DEF key
<1>10. byLength \in Seq(T) /\ ToSet(byLength) = of("tokens")
  <2>1. byLength \in Seq(T) /\ Len(byLength) = Len(tokens)
    BY <1>6, <1>9, SortedByFacts
  <2>2. PICK at \in [DOMAIN tokens -> DOMAIN tokens] : Sorting(tokens, key, byLength, at)
    BY <1>6, <1>9, SortedByFacts
  <2>3. DOMAIN byLength = 1..Len(tokens) /\ DOMAIN tokens = 1..Len(tokens)
    BY <1>6, <2>1, LenProperties
  <2> HIDE DEF byLength
  <2>4. /\ \A i \in DOMAIN tokens : byLength[i] = tokens[at[i]]
        /\ \A k \in DOMAIN tokens : \E i \in DOMAIN tokens : at[i] = k
    BY <2>2 DEF Sorting
  <2>5. ToSet(byLength) = ToSet(tokens)
    BY <2>3, <2>4 DEF ToSet
  <2>. QED  BY <1>6, <2>1, <2>5
<1> HIDE DEF byLength
<1>11. /\ sorted \in Seq(T) /\ DOMAIN byLength = 1..Len(byLength) /\ DOMAIN times = 1..Len(times)
       /\ DOMAIN sorted = 1..(Len(byLength) + Len(times)) /\ Len(byLength) \in Nat /\ Len(times) \in Nat
       /\ \A i \in 1..Len(byLength) : sorted[i] = byLength[i]
       /\ \A i \in 1..Len(times) : sorted[Len(byLength) + i] = times[i]
  BY <1>7, <1>10, ConcatProperties
<1> HIDE DEF sorted
<1>12. \A i \in DOMAIN sorted : sorted[i] \in E
  <2>1. SUFFICES ASSUME NEW i \in 1..(Len(byLength) + Len(times))
                 PROVE  sorted[i] \in E
    BY <1>11
  <2>2. CASE i <= Len(byLength)
    <3>1. sorted[i] = byLength[i] /\ i \in DOMAIN byLength
      BY <1>11, <2>2
    <3>. QED  BY <1>5, <1>10, <3>1 DEF ToSet
  <2>3. CASE i > Len(byLength)
    <3>1. i - Len(byLength) \in 1..Len(times) /\ i = Len(byLength) + (i - Len(byLength))
      BY <1>11, <2>3
    <3>2. sorted[i] = times[i - Len(byLength)]
      BY <1>11, <3>1
    <3>. QED  BY <1>5, <1>7, <1>11, <3>1, <3>2 DEF ToSet
  <2>. QED  BY <1>11, <2>2, <2>3
<1>13. \A l \in E : \E i \in DOMAIN sorted : sorted[i] = l
  <2>1. ASSUME NEW l \in of("tokens")
        PROVE  \E i \in DOMAIN sorted : sorted[i] = l
    <3>1. PICK i \in 1..Len(byLength) : byLength[i] = l
      BY <1>10, <1>11 DEF ToSet
    <3>. QED  BY <1>11, <3>1
  <2>2. ASSUME NEW l \in of("time")
        PROVE  \E i \in DOMAIN sorted : sorted[i] = l
    <3>1. PICK i \in 1..Len(times) : times[i] = l
      BY <1>7, <1>11 DEF ToSet
    <3>2. Len(byLength) + i \in 1..(Len(byLength) + Len(times))
      BY <1>11
    <3>. QED  BY <1>11, <3>1, <3>2
  <2>. QED  BY <1>e, <2>1, <2>2
<1>14. \A i \in DOMAIN sorted : ZaiWindow(sorted[i]) \in Windows /\ Tells(ZaiWindow(sorted[i])) = ShareOfEntry(sorted[i])
  BY <1>4, <1>12, EntryTold
<1>15. DOMAIN windows = DOMAIN sorted /\ \A i \in DOMAIN sorted : windows[i] = ZaiWindow(sorted[i])
  OBVIOUS
<1>16. windows \in Seq(Windows)
  BY <1>11, <1>14
<1> HIDE DEF windows
<1>17. Told(windows) = UNION {ShareOfEntry(l) : l \in E}
  <2>1. ASSUME NEW x \in Told(windows)
        PROVE  x \in UNION {ShareOfEntry(l) : l \in E}
    BY <1>12, <1>14, <1>15, <2>1 DEF Told
  <2>2. ASSUME NEW l \in E, NEW x \in ShareOfEntry(l)
        PROVE  x \in Told(windows)
    <3>1. PICK i \in DOMAIN sorted : sorted[i] = l
      BY <1>13
    <3>. QED  BY <1>14, <1>15, <2>2, <3>1 DEF Told
  <2>. QED  BY <2>1, <2>2
<1>18. partial \in BOOLEAN
  OBVIOUS
<1> HIDE DEF partial
<1>19. CASE ~body.success
  BY <1>2, <1>3, <1>19 DEF Hears
<1>20. CASE body.success
  <2>1. StatedByZai(body) = Told(windows)
    BY <1>3, <1>17, <1>20, <1>e
  <2>2. Spells(StatedByZai(body)) <=> FALSE \/ Spells(Told(windows))
    BY <2>1
  <2>3. Hears(Snapshot(windows, FALSE, partial), StatedByZai(body))
    BY <1>16, <1>18, <2>2, SnapshotHears
  <2>. QED  BY <1>2, <1>20, <2>3
<1>. QED  BY <1>19, <1>20

\* Of a limit that adds up, the window and the snapshot of what is used.
LEMMA CountedHears ==
  ASSUME NEW limit, NEW left, NEW used, AddsUp(limit, left, used), Numbers({limit, left, used}), None \notin Int,
         NEW reset \in Maybe(Int), NEW period \in Maybe(Int), NEW partial \in BOOLEAN
  PROVE  LET w == Window(limit, limit - left, Share(limit - left, limit), reset, period) IN
         /\ Snapshot(<<w>>, left = 0, partial) \in FetchedRecords /\ Snapshot(<<w>>, left = 0, partial) # None
         /\ Hears(Snapshot(<<w>>, left = 0, partial), {Share(limit - left, limit)})
<1> DEFINE share == Share(limit - left, limit)
           w == Window(limit, limit - left, share, reset, period)
           empty == left = 0
<1>1. limit \in Int /\ left \in Int /\ limit > 0 /\ limit - left \in Int
  BY DEF AddsUp, Numbers, Maybe
<1>2. <<w>> \in Seq(Windows) /\ Told(<<w>>) = {share}
  BY <1>1, CountedWindow
<1>3. left = 0 => share >= 100
  <2>1. ASSUME left = 0
        PROVE  share >= 100
    <3> DEFINE q == (limit * 100) \div limit
    <3>1. q = 100
      BY <1>1
    <3>2. limit - left = limit
      BY <1>1, <2>1
    <3>3. share = Clamp(q, 0, 100)
      BY <3>2 DEF Share
    <3> HIDE DEF q, share
    <3>. QED  BY <3>1, <3>3 DEF Clamp
  <2>. QED  BY <2>1
<1> HIDE DEF share
<1>4. Spells({share}) <=> empty \/ Spells(Told(<<w>>))
  BY <1>2, <1>3 DEF Spells
<1>5. empty \in BOOLEAN
  OBVIOUS
<1> HIDE DEF w, empty
<1>6. /\ Snapshot(<<w>>, empty, partial) \in FetchedRecords /\ Snapshot(<<w>>, empty, partial) # None
      /\ Hears(Snapshot(<<w>>, empty, partial), {share})
  BY <1>2, <1>4, <1>5, SnapshotHears
<1>. QED  BY <1>6 DEF w, empty, share

\* A provider that says it is used up is heard, whatever else it says.
LEMMA UsedUpHears ==
  ASSUME NEW ws \in Seq(Windows), NEW partial \in BOOLEAN, NEW shares, Spells(shares), None \notin Int
  PROVE  /\ Snapshot(ws, TRUE, partial) \in FetchedRecords /\ Snapshot(ws, TRUE, partial) # None
         /\ Hears(Snapshot(ws, TRUE, partial), shares)
<1>1. Spells(shares) <=> TRUE \/ Spells(Told(ws))
  OBVIOUS
<1>. QED  BY <1>1, SnapshotHears

LEMMA KeyAllowanceHears ==
  ASSUME NEW a, a.blocked \in Maybe(BOOLEAN), Numbers({a.limit, a.left, a.used}), None \notin Int
  PROVE  Hears(KeyAllowance(a), IF a.blocked = TRUE THEN {100} ELSE IF a.blocked = None THEN {}
                                ELSE ShareLeft(a.limit, a.left, a.used))
<1> DEFINE T == IF a.blocked = TRUE THEN {100} ELSE IF a.blocked = None THEN {} ELSE ShareLeft(a.limit, a.left, a.used)
<1>0. None # TRUE /\ None # FALSE
  BY QuotaAssumption
<1>1. CASE a.blocked = None
  <2>1. T = {} /\ KeyAllowance(a) = None
    BY <1>0, <1>1 DEF KeyAllowance
  <2>. QED  BY <2>1 DEF Hears
<1>2. CASE a.blocked = TRUE
  <2>1. T = {100} /\ KeyAllowance(a) = Snapshot(<<>>, TRUE, FALSE)
    BY <1>0, <1>2 DEF KeyAllowance
  <2>2. Spells({100})
    BY DEF Spells
  <2>3. Hears(Snapshot(<<>>, TRUE, FALSE), {100})
    BY <2>2, ToldByNone, UsedUpHears
  <2>. QED  BY <2>1, <2>3
<1>3. CASE a.blocked = FALSE /\ ~AddsUp(a.limit, a.left, a.used)
  <2>1. T = {} /\ KeyAllowance(a) = None
    BY <1>0, <1>3 DEF KeyAllowance, ShareLeft
  <2>. QED  BY <2>1 DEF Hears
<1>4. CASE a.blocked = FALSE /\ AddsUp(a.limit, a.left, a.used)
  <2> DEFINE w == Window(a.limit, a.limit - a.left, Share(a.limit - a.left, a.limit), None, None)
  <2>1. T = {Share(a.limit - a.left, a.limit)} /\ KeyAllowance(a) = Snapshot(<<w>>, a.left = 0, FALSE)
    BY <1>0, <1>4 DEF KeyAllowance, ShareLeft
  <2>2. None \in Maybe(Int)
    BY DEF Maybe
  <2>3. Hears(Snapshot(<<w>>, a.left = 0, FALSE), {Share(a.limit - a.left, a.limit)})
    BY <1>4, <2>2, CountedHears
  <2>. QED  BY <2>1, <2>3
<1>. QED  BY <1>0, <1>1, <1>2, <1>3, <1>4 DEF Maybe

LEMMA ResetType ==
  ASSUME NEW s, {s.reset, s.start} \subseteq Maybe(Int) \cup {Bad}, now \in Int, None \notin Int, Day \in Nat \ {0}
  PROVE  ResetOf(s) \in Maybe(Int)
<1>1. Month \in Int /\ Month > 0
  BY DEF Month
<1>2. CASE s.reset # None
  BY <1>2 DEF ResetOf, Maybe
<1>3. CASE s.reset = None /\ s.start \in {None, Bad}
  BY <1>3 DEF ResetOf, Maybe
<1>4. CASE s.reset = None /\ s.start \notin {None, Bad}
  <2> DEFINE over == Max({now - s.start, 0})
             cycles == over \div Month + 1
  <2>1. s.start \in Int
    BY <1>4 DEF Maybe
  <2>2. over \in Int
    BY <2>1, PairBounds
  <2> HIDE DEF over
  <2>3. cycles \in Int
    BY <1>1, <2>2
  <2>4. ResetOf(s) = s.start + cycles * Month
    BY <1>4 DEF ResetOf, over
  <2> HIDE DEF cycles
  <2>. QED  BY <1>1, <2>1, <2>3, <2>4 DEF Maybe
<1>. QED  BY <1>2, <1>3, <1>4

LEMMA SubscriptionHears ==
  ASSUME NEW s, s.over \in Maybe(BOOLEAN), s.numbers \in BOOLEAN, Numbers({s.included, s.left, s.used}),
         {s.reset, s.start} \subseteq Maybe(Int) \cup {Bad}, now \in Int, None \notin Int, Day \in Nat \ {0}
  PROVE  Hears(SubscriptionOf(s), IF s.over = TRUE THEN {100} ELSE IF s.over = None \/ ~s.numbers THEN {}
                                  ELSE ShareLeft(s.included, s.left, s.used))
<1> DEFINE T == IF s.over = TRUE THEN {100} ELSE IF s.over = None \/ ~s.numbers THEN {}
                ELSE ShareLeft(s.included, s.left, s.used)
           fits == s.numbers /\ s.included # None /\ s.included > 0 /\ s.left = 0
                     /\ (s.used # None => s.used >= s.included)
           reset == ResetOf(s)
           period == IF reset = None THEN None ELSE Month
           partial == s.reset = None /\ s.start \in {None, Bad}
           used == IF s.used = None THEN s.included ELSE s.used
           w(n) == Window(s.included, n, Share(n, s.included), reset, period)
<1>0. None # TRUE /\ None # FALSE
  BY QuotaAssumption
<1>1. reset \in Maybe(Int)
  BY ResetType
<1>2. Month \in Int
  BY DEF Month
<1> HIDE DEF reset
<1>3. period \in Maybe(Int) /\ partial \in BOOLEAN
  BY <1>2 DEF Maybe
<1>4. \A n, full : SubscriptionSnapshot(s, n, full) = Snapshot(<<w(n)>>, full, partial)
  BY DEF SubscriptionSnapshot, reset
<1>5. Spells({100})
  BY DEF Spells
<1> HIDE DEF period, partial
<1>6. CASE s.over = None
  <2>1. T = {} /\ SubscriptionOf(s) = None
    BY <1>0, <1>6 DEF SubscriptionOf
  <2>. QED  BY <2>1 DEF Hears
<1>7. CASE s.over = TRUE /\ ~fits
  <2>1. T = {100} /\ SubscriptionOf(s) = Snapshot(<<>>, TRUE, FALSE)
    BY <1>0, <1>7 DEF SubscriptionOf
  <2>2. Hears(Snapshot(<<>>, TRUE, FALSE), {100})
    BY <1>5, ToldByNone, UsedUpHears
  <2>. QED  BY <2>1, <2>2
<1>8. CASE s.over = TRUE /\ fits
  <2>1. T = {100} /\ SubscriptionOf(s) = SubscriptionSnapshot(s, used, TRUE)
    BY <1>0, <1>8 DEF SubscriptionOf
  <2>2. s.included \in Int /\ s.included > 0 /\ used \in Int
    BY <1>8 DEF Numbers, Maybe
  <2> HIDE DEF used
  <2>3. <<w(used)>> \in Seq(Windows)
    BY <1>1, <1>3, <2>2, CountedWindow
  <2> HIDE DEF w
  <2>4. Hears(Snapshot(<<w(used)>>, TRUE, partial), {100})
    BY <1>3, <1>5, <2>3, UsedUpHears
  <2>. QED  BY <1>4, <2>1, <2>4
<1>9. CASE s.over = FALSE /\ (~s.numbers \/ ~AddsUp(s.included, s.left, s.used))
  <2>1. T = {} /\ SubscriptionOf(s) = None
    BY <1>0, <1>9 DEF SubscriptionOf, ShareLeft
  <2>. QED  BY <2>1 DEF Hears
<1>10. CASE s.over = FALSE /\ s.numbers /\ AddsUp(s.included, s.left, s.used)
  <2> DEFINE n == s.included - s.left
  <2>1. T = {Share(n, s.included)} /\ SubscriptionOf(s) = SubscriptionSnapshot(s, n, s.left = 0)
    BY <1>0, <1>10 DEF SubscriptionOf, ShareLeft
  <2>2. Hears(Snapshot(<<w(n)>>, s.left = 0, partial), {Share(n, s.included)})
    BY <1>1, <1>3, <1>10, CountedHears
  <2> HIDE DEF w, n
  <2>. QED  BY <1>4, <2>1, <2>2
<1>. QED  BY <1>0, <1>6, <1>7, <1>8, <1>9, <1>10 DEF Maybe

LEMMA BalanceHears ==
  ASSUME NEW b, Numbers({b.total, b.left, b.used}), None \notin Int
  PROVE  Hears(BalanceOf(b), IF b.left = 0 /\ b.total = None THEN {100} ELSE ShareLeft(b.total, b.left, b.used))
<1> DEFINE T == IF b.left = 0 /\ b.total = None THEN {100} ELSE ShareLeft(b.total, b.left, b.used)
           w == Window(b.total, b.total - b.left, Share(b.total - b.left, b.total), None, None)
<1>1. CASE b.left = 0 /\ (b.total = None \/ b.total <= 0)
  <2>1. BalanceOf(b) = Snapshot(<<>>, TRUE, FALSE)
    BY <1>1 DEF BalanceOf
  <2>2. Spells(T)
    <3>1. CASE b.total = None
      BY <1>1, <3>1 DEF Spells
    <3>2. CASE b.total # None
      <4>1. b.total \in Int /\ b.total <= 0
        BY <1>1, <3>2 DEF Numbers, Maybe
      <4>2. ~AddsUp(b.total, b.left, b.used)
        BY <4>1 DEF AddsUp
      <4>. QED  BY <3>2, <4>2 DEF ShareLeft, Spells
    <3>. QED  BY <3>1, <3>2
  <2> HIDE DEF T
  <2>3. Hears(Snapshot(<<>>, TRUE, FALSE), T)
    BY <2>2, ToldByNone, UsedUpHears
  <2>. QED  BY <2>1, <2>3 DEF T
<1>2. CASE ~(b.left = 0 /\ (b.total = None \/ b.total <= 0)) /\ ~AddsUp(b.total, b.left, b.used)
  <2>1. T = {} /\ BalanceOf(b) = None
    BY <1>2 DEF BalanceOf, ShareLeft
  <2>. QED  BY <2>1 DEF Hears
<1>3. CASE ~(b.left = 0 /\ (b.total = None \/ b.total <= 0)) /\ AddsUp(b.total, b.left, b.used)
  <2>1. T = {Share(b.total - b.left, b.total)} /\ BalanceOf(b) = Snapshot(<<w>>, b.left = 0, FALSE)
    BY <1>3 DEF BalanceOf, ShareLeft
  <2>2. None \in Maybe(Int)
    BY DEF Maybe
  <2>3. Hears(Snapshot(<<w>>, b.left = 0, FALSE), {Share(b.total - b.left, b.total)})
    BY <1>3, <2>2, CountedHears
  <2>. QED  BY <2>1, <2>3
<1>. QED  BY <1>1, <1>2, <1>3

LEMMA NeuralwattHears ==
  ASSUME NEW body, IsReply("neuralwatt", body), now \in Int, None \notin Int, Day \in Nat \ {0}
  PROVE  Hears(Neuralwatt(body), StatedByNeuralwatt(body))
<1> DEFINE a == body.allowance
           s == body.subscription
           b == body.balance
           seen == IF a # None THEN KeyAllowance(a)
                   ELSE IF s # None THEN SubscriptionOf(s)
                   ELSE IF b # None THEN BalanceOf(b) ELSE None
           ofKey == IF a.blocked = TRUE THEN {100} ELSE IF a.blocked = None THEN {} ELSE ShareLeft(a.limit, a.left, a.used)
           ofPlan == IF s.over = TRUE THEN {100} ELSE IF s.over = None \/ ~s.numbers THEN {}
                     ELSE ShareLeft(s.included, s.left, s.used)
           ofBalance == IF b.left = 0 /\ b.total = None THEN {100} ELSE ShareLeft(b.total, b.left, b.used)
           shares == IF a # None THEN ofKey ELSE IF s # None THEN ofPlan ELSE IF b # None THEN ofBalance ELSE {}
           late == body.at = Bad \/ body.at > now
<1>1. /\ body.at \in Int \cup {Bad}
      /\ a # None => a.blocked \in Maybe(BOOLEAN) /\ Numbers({a.limit, a.left, a.used})
      /\ s # None => /\ s.over \in Maybe(BOOLEAN) /\ s.numbers \in BOOLEAN /\ Numbers({s.included, s.left, s.used})
                     /\ {s.reset, s.start} \subseteq Maybe(Int) \cup {Bad}
      /\ b # None => Numbers({b.total, b.left, b.used})
  BY DEF IsReply
<1>2. a # None => Hears(KeyAllowance(a), ofKey)
  BY <1>1, KeyAllowanceHears
<1>3. s # None => Hears(SubscriptionOf(s), ofPlan)
  BY <1>1, SubscriptionHears
<1>4. b # None => Hears(BalanceOf(b), ofBalance)
  BY <1>1, BalanceHears
<1>5. StatedByNeuralwatt(body) = IF late THEN {} ELSE shares
  BY DEF StatedByNeuralwatt
<1>6. Neuralwatt(body) = IF body.at = Bad \/ seen = None THEN None
                         ELSE IF body.at > now THEN None ELSE [seen EXCEPT !.age = now - body.at]
  BY DEF Neuralwatt
<1>7. Hears(None, {})
  BY DEF Hears
<1> HIDE DEF ofKey, ofPlan, ofBalance, a, s, b
<1>8. Hears(seen, shares)
  BY <1>2, <1>3, <1>4, <1>7
<1> HIDE DEF seen, shares
<1>9. CASE late
  BY <1>5, <1>6, <1>7, <1>9
<1>10. CASE ~late /\ seen = None
  BY <1>5, <1>6, <1>8, <1>10
<1>11. CASE ~late /\ seen # None
  <2> DEFINE age == now - body.at
             found == [seen EXCEPT !.age = age]
  <2>1. age \in Int
    BY <1>1, <1>11
  <2>2. seen \in FetchedRecords /\ (OutOfQuota(seen) <=> Spells(shares))
    BY <1>8, <1>11 DEF Hears
  <2> HIDE DEF age
  <2>3. found \in FetchedRecords /\ found.avail = seen.avail /\ found.windows = seen.windows
    BY <2>1, <2>2 DEF FetchedRecords
  <2>4. found # None
    BY <2>3, QuotaAssumption
  <2>5. Neuralwatt(body) = found /\ StatedByNeuralwatt(body) = shares
    BY <1>5, <1>6, <1>11 DEF age
  <2> HIDE DEF found
  <2>6. OutOfQuota(found) <=> OutOfQuota(seen)
    BY <2>3 DEF OutOfQuota, EffectiveRemaining
  <2>. QED  BY <2>2, <2>3, <2>4, <2>5, <2>6 DEF Hears
<1>. QED  BY <1>9, <1>10, <1>11

\* A share that is cut off at all tells what the share tells.
LEMMA ShareWindowTold ==
  ASSUME NEW w, IsShare(w), NEW period \in Int, None \notin Int
  PROVE  /\ ShareWindow(w, period) \in Seq(Windows)
         /\ Told(ShareWindow(w, period)) = {Clamp(x, 0, 100) : x \in SharesOf({w})}
         /\ SharesOf({w}) \subseteq Int
         /\ ShareWindow(w, period) = <<>> <=> SharesOf({w}) = {}
<1>1. CASE w \in {None, Bad}
  <2>1. SharesOf({w}) = {} /\ ShareWindow(w, period) = <<>>
    BY <1>1 DEF SharesOf, ShareWindow
  <2>2. {Clamp(x, 0, 100) : x \in SharesOf({w})} = {}
    BY <2>1
  <2>. QED  BY <2>1, <2>2, ToldByNone
<1>2. CASE w \notin {None, Bad}
  <2> DEFINE share == Clamp(w.percent, 0, 100)
             window == Window(None, None, share, w.reset, period)
  <2>1. w.percent \in Int /\ w.percent # None /\ w.reset \in Maybe(Int)
    BY <1>2 DEF IsShare
  <2>2. SharesOf({w}) = {w.percent}
    BY <1>2, <2>1 DEF SharesOf
  <2>3. share \in Int
    BY <2>1 DEF Clamp
  <2>4. ShareWindow(w, period) = <<window>>
    BY <1>2 DEF ShareWindow
  <2>5. {Clamp(x, 0, 100) : x \in SharesOf({w})} = {share}
    BY <2>2
  <2> HIDE DEF share
  <2>6. None \in Maybe(Int) /\ share \in Maybe(Int) /\ period \in Maybe(Int) /\ share # None
    BY <2>3 DEF Maybe
  <2>7. window \in Windows /\ Tells(window) = ({share} \ {None}) \cup {}
    BY <2>1, <2>6, WindowType
  <2> HIDE DEF window
  <2>8. <<window>> \in Seq(Windows) /\ Told(<<window>>) = {share} /\ <<window>> # <<>>
    BY <2>6, <2>7, ToldByOne
  <2>. QED  BY <2>1, <2>2, <2>4, <2>5, <2>8
<1>. QED  BY <1>1, <1>2

LEMMA CutSpells ==
  ASSUME NEW shares \in SUBSET Int
  PROVE  Spells({Clamp(x, 0, 100) : x \in shares}) <=> Spells(shares)
<1> DEFINE cut == {Clamp(x, 0, 100) : x \in shares}
<1>1. \A x \in shares : Clamp(x, 0, 100) >= 100 <=> x >= 100
  BY DEF Clamp
<1>2. cut = {} <=> shares = {}
  OBVIOUS
<1>3. (\E y \in cut : y >= 100) <=> \E x \in shares : x >= 100
  BY <1>1
<1> HIDE DEF cut
<1>4. Spells(cut) <=> Spells(shares)
  BY <1>2, <1>3 DEF Spells
<1>. QED  BY <1>4 DEF cut

LEMMA PeriodType ==
  ASSUME Day \in Nat \ {0}
  PROVE  Session \in Int /\ Week \in Int /\ Month \in Int /\ Month > 0
BY DEF Session, Week, Month

\* Windows that were told by shares that are cut off, of an answer that states them.
LEMMA SharesHear ==
  ASSUME NEW ws \in Seq(Windows), NEW shares \in SUBSET Int, Told(ws) = {Clamp(x, 0, 100) : x \in shares},
         NEW partial \in BOOLEAN, None \notin Int, ws = <<>> <=> shares = {}
  PROVE  Hears(IF ws = <<>> THEN None ELSE Snapshot(ws, FALSE, partial), shares)
<1>1. Spells(shares) <=> FALSE \/ Spells(Told(ws))
  BY CutSpells
<1>2. Hears(Snapshot(ws, FALSE, partial), shares)
  BY <1>1, SnapshotHears
<1>3. shares = {} => Hears(None, shares)
  BY DEF Hears
<1>. QED  BY <1>2, <1>3

LEMMA SubscriptionSharesHear ==
  ASSUME NEW body, IsReply("anthropic-subscription", body), None \notin Int, Day \in Nat \ {0}
  PROVE  Hears(AnthropicSubscription(body), SharesOf({body.five, body.seven}))
<1> DEFINE five == ShareWindow(body.five, Session)
           seven == ShareWindow(body.seven, Week)
           windows == five \o seven
           partial == Len(windows) < 2
           shares == SharesOf({body.five, body.seven})
<1>1. IsShare(body.five) /\ IsShare(body.seven)
  BY DEF IsReply
<1>2. AnthropicSubscription(body) = IF windows = <<>> THEN None ELSE Snapshot(windows, FALSE, partial)
  BY DEF AnthropicSubscription
<1>3. /\ five \in Seq(Windows) /\ Told(five) = {Clamp(x, 0, 100) : x \in SharesOf({body.five})}
      /\ SharesOf({body.five}) \subseteq Int /\ (five = <<>> <=> SharesOf({body.five}) = {})
  BY <1>1, PeriodType, ShareWindowTold
<1>4. /\ seven \in Seq(Windows) /\ Told(seven) = {Clamp(x, 0, 100) : x \in SharesOf({body.seven})}
      /\ SharesOf({body.seven}) \subseteq Int /\ (seven = <<>> <=> SharesOf({body.seven}) = {})
  BY <1>1, PeriodType, ShareWindowTold
<1>5. shares = SharesOf({body.five}) \cup SharesOf({body.seven})
  BY DEF SharesOf
<1> HIDE DEF five, seven, shares
<1>6. windows \in Seq(Windows) /\ Told(windows) = Told(five) \cup Told(seven)
  BY <1>3, <1>4, ToldTogether
<1>7. windows = <<>> <=> five = <<>> /\ seven = <<>>
  BY <1>3, <1>4, ConcatProperties, EmptySeq
<1>8. partial \in BOOLEAN
  OBVIOUS
<1> HIDE DEF windows, partial
<1>9. Told(windows) = {Clamp(x, 0, 100) : x \in shares}
  BY <1>3, <1>4, <1>5, <1>6
<1>10. shares \in SUBSET Int /\ (windows = <<>> <=> shares = {})
  BY <1>3, <1>4, <1>5, <1>7
<1>11. Hears(IF windows = <<>> THEN None ELSE Snapshot(windows, FALSE, partial), shares)
  BY <1>6, <1>8, <1>9, <1>10, SharesHear
<1>. QED  BY <1>2, <1>11 DEF shares

LEMMA OpenCodeHears ==
  ASSUME NEW body, IsReply("opencode-go", body), None \notin Int, Day \in Nat \ {0}
  PROVE  Hears(OpenCodeGo(body), SharesOf({body.rolling, body.weekly, body.monthly}))
<1> DEFINE rolling == ShareWindow(body.rolling, Session)
           weekly  == ShareWindow(body.weekly, Week)
           monthly == ShareWindow(body.monthly, Month)
           front == rolling \o weekly
           windows == front \o monthly
           partial == Len(windows) < 3 \/ \E i \in DOMAIN windows : windows[i].reset = None
           shares == SharesOf({body.rolling, body.weekly, body.monthly})
<1>1. IsShare(body.rolling) /\ IsShare(body.weekly) /\ IsShare(body.monthly)
  BY DEF IsReply
<1>2. OpenCodeGo(body) = IF windows = <<>> THEN None ELSE Snapshot(windows, FALSE, partial)
  BY DEF OpenCodeGo
<1>3. /\ rolling \in Seq(Windows) /\ Told(rolling) = {Clamp(x, 0, 100) : x \in SharesOf({body.rolling})}
      /\ SharesOf({body.rolling}) \subseteq Int /\ (rolling = <<>> <=> SharesOf({body.rolling}) = {})
  BY <1>1, PeriodType, ShareWindowTold
<1>4. /\ weekly \in Seq(Windows) /\ Told(weekly) = {Clamp(x, 0, 100) : x \in SharesOf({body.weekly})}
      /\ SharesOf({body.weekly}) \subseteq Int /\ (weekly = <<>> <=> SharesOf({body.weekly}) = {})
  BY <1>1, PeriodType, ShareWindowTold
<1>5. /\ monthly \in Seq(Windows) /\ Told(monthly) = {Clamp(x, 0, 100) : x \in SharesOf({body.monthly})}
      /\ SharesOf({body.monthly}) \subseteq Int /\ (monthly = <<>> <=> SharesOf({body.monthly}) = {})
  BY <1>1, PeriodType, ShareWindowTold
<1>6. shares = SharesOf({body.rolling}) \cup SharesOf({body.weekly}) \cup SharesOf({body.monthly})
  BY DEF SharesOf
<1> HIDE DEF rolling, weekly, monthly, shares
<1>7. front \in Seq(Windows) /\ Told(front) = Told(rolling) \cup Told(weekly)
  BY <1>3, <1>4, ToldTogether
<1>8. front = <<>> <=> rolling = <<>> /\ weekly = <<>>
  BY <1>3, <1>4, ConcatProperties, EmptySeq
<1> HIDE DEF front
<1>9. windows \in Seq(Windows) /\ Told(windows) = Told(front) \cup Told(monthly)
  BY <1>5, <1>7, ToldTogether
<1>10. windows = <<>> <=> front = <<>> /\ monthly = <<>>
  BY <1>5, <1>7, ConcatProperties, EmptySeq
<1>11. partial \in BOOLEAN
  OBVIOUS
<1> HIDE DEF windows, partial
<1>12. Told(windows) = {Clamp(x, 0, 100) : x \in shares}
  BY <1>3, <1>4, <1>5, <1>6, <1>7, <1>9
<1>13. shares \in SUBSET Int /\ (windows = <<>> <=> shares = {})
  BY <1>3, <1>4, <1>5, <1>6, <1>8, <1>10
<1>14. Hears(IF windows = <<>> THEN None ELSE Snapshot(windows, FALSE, partial), shares)
  BY <1>9, <1>11, <1>12, <1>13, SharesHear
<1>. QED  BY <1>2, <1>14 DEF shares

\* The amounts that can be read add up to a number.
LEMMA SpentType ==
  ASSUME NEW amounts \in Seq(Int \cup {Bad})
  PROVE  PageSum(amounts) \in Int
<1> DEFINE D == {i \in DOMAIN amounts : amounts[i] # Bad}
           f == [i \in D |-> amounts[i]]
<1>1. DOMAIN amounts = 1..Len(amounts) /\ Len(amounts) \in Nat /\ \A i \in DOMAIN amounts : amounts[i] \in Int \cup {Bad}
  BY ElementOfSeq, LenProperties
<1>2. IsFiniteSet(D)
  <2>1. IsFiniteSet(1..Len(amounts))
    BY <1>1, FS_Interval
  <2>. QED  BY <1>1, <2>1, FS_Subset
<1>3. f \in [D -> Int]
  BY <1>1
<1>4. PageSum(amounts) = Total(f)
  BY DEF PageSum, SumOver
<1> HIDE DEF D, f
<1>. QED  BY <1>2, <1>3, <1>4, TotalInt

LEMMA CostHears ==
  ASSUME NEW body, IsReply("anthropic", body), NEW budget \in Nat \ {0}, None \notin Int, now \in Int, Day \in Nat \ {0}
  PROVE  Hears(AnthropicCost(body.pages, budget), StatedByCost(body.pages, budget))
<1> DEFINE pages == body.pages
           n == Len(pages)
           ends == {i \in DOMAIN pages : IF pages[i] = Bad THEN TRUE ELSE ~pages[i].more}
           last == LastPage(pages)
           reset == (now \div Month + 1) * Month
           w == Window(budget, Spend(pages), Share(Spend(pages), budget), reset, Month)
           partial == \E i \in 1..last : Bad \in ToSet(pages[i].amounts)
<1>1. /\ pages \in Seq(ToSet(pages)) /\ pages # <<>>
      /\ \A i \in DOMAIN pages :
           /\ pages[i] # Bad => pages[i].more \in BOOLEAN /\ pages[i].amounts \in Seq(Int \cup {Bad})
           /\ i < n => pages[i] # Bad /\ pages[i].more
  BY DEF IsReply, IsList
<1>2. n \in Nat /\ n > 0 /\ DOMAIN pages = 1..n
  BY <1>1, EmptySeq, LenProperties
<1>3. last = IF ends = {} THEN 0 ELSE Min(ends)
  BY DEF LastPage
<1>4. AnthropicCost(pages, budget) =
        IF last \notin 1..MaxPages THEN None
        ELSE IF pages[last] = Bad THEN None ELSE Snapshot(<<w>>, FALSE, partial)
  BY DEF AnthropicCost
<1>5. StatedByCost(pages, budget) =
        IF Bad \in ToSet(pages) \/ n > MaxPages \/ pages[n].more THEN {} ELSE {Share(Spend(pages), budget)}
  BY DEF StatedByCost
<1>6. MaxPages \in Nat
  BY QuotaAssumption
<1>7. Month \in Int /\ Month > 0
  BY PeriodType
<1> HIDE DEF pages, n, last
<1>8. ends \subseteq {n}
  BY <1>1, <1>2
<1>9. n \in ends <=> (pages[n] = Bad \/ ~pages[n].more)
  BY <1>2
<1>10. Bad \in ToSet(pages) => pages[n] = Bad
  <2>1. ASSUME NEW i \in 1..n, pages[i] = Bad
        PROVE  pages[n] = Bad
    <3>1. i = n
      BY <1>1, <1>2, <2>1
    <3>. QED  BY <2>1, <3>1
  <2>. QED  BY <1>2, <2>1 DEF ToSet
<1> HIDE DEF ends
<1>11. n \in ends => last = n
  <2>1. ASSUME n \in ends
        PROVE  last = n
    <3>1. ends = {n} /\ ends \in SUBSET Nat /\ ends # {}
      BY <1>2, <1>8, <2>1
    <3>2. Min(ends) \in ends
      BY <3>1, LeastNat
    <3>. QED  BY <1>3, <3>1, <3>2
  <2>. QED  BY <2>1
<1>12. n \notin ends => last = 0
  BY <1>3, <1>8
<1>13. Hears(None, {})
  BY DEF Hears
<1>14. CASE pages[n] = Bad
  <2>1. Bad \in ToSet(pages)
    BY <1>2, <1>14 DEF ToSet
  <2>2. last = n
    BY <1>9, <1>11, <1>14
  <2> HIDE DEF w, partial
  <2>3. AnthropicCost(pages, budget) = None /\ StatedByCost(pages, budget) = {}
    BY <1>4, <1>5, <1>14, <2>1, <2>2
  <2>. QED  BY <1>13, <2>3 DEF pages
<1>15. CASE pages[n] # Bad /\ pages[n].more
  <2>1. last = 0
    BY <1>9, <1>12, <1>15
  <2> HIDE DEF w, partial
  <2>2. AnthropicCost(pages, budget) = None
    BY <1>4, <1>6, <2>1
  <2>3. StatedByCost(pages, budget) = {}
    BY <1>5, <1>15
  <2>. QED  BY <1>13, <2>2, <2>3 DEF pages
<1>16. CASE pages[n] # Bad /\ ~pages[n].more /\ n > MaxPages
  <2>1. last = n
    BY <1>9, <1>11, <1>16
  <2> HIDE DEF w, partial
  <2>n. last \notin 1..MaxPages
    BY ONLY <1>2, <1>6, <1>16, <2>1
  <2>2. AnthropicCost(pages, budget) = None
    BY ONLY <1>4, <2>n
  <2>3. StatedByCost(pages, budget) = {}
    BY <1>5, <1>16
  <2>. QED  BY <1>13, <2>2, <2>3 DEF pages
<1>17. CASE pages[n] # Bad /\ ~pages[n].more /\ ~(n > MaxPages)
  <2> DEFINE spend == Spend(pages)
             spent == [i \in 1..n |-> PageSum(pages[i].amounts)]
  <2>1. last = n
    BY <1>9, <1>11, <1>17
  <2>2. Bad \notin ToSet(pages)
    BY <1>10, <1>17
  <2>3. spend = Total(spent)
    BY <2>1 DEF Spend, SumOver, last
  <2>4. \A i \in 1..n : PageSum(pages[i].amounts) \in Int
    <3>1. ASSUME NEW i \in 1..n
          PROVE  pages[i].amounts \in Seq(Int \cup {Bad})
      <4>1. pages[i] # Bad
        BY <1>2, <2>2 DEF ToSet
      <4>. QED  BY <1>1, <1>2, <4>1
    <3>. QED  BY <3>1, SpentType
  <2>5. spent \in [1..n -> Int]
    BY <2>4
  <2> HIDE DEF spent
  <2>6. IsFiniteSet(1..n)
    BY <1>2, FS_Interval
  <2>7. spend \in Int
    BY <2>3, <2>5, <2>6, TotalInt
  <2> HIDE DEF spend
  <2>8. reset \in Int
    BY <1>7
  <2> HIDE DEF reset
  <2>9. budget \in Int /\ budget > 0 /\ reset \in Maybe(Int) /\ Month \in Maybe(Int)
    BY <1>7, <2>8 DEF Maybe
  <2>10. <<w>> \in Seq(Windows) /\ Told(<<w>>) = {Share(spend, budget)}
    BY <2>7, <2>9, CountedWindow DEF spend
  <2>11. partial \in BOOLEAN
    OBVIOUS
  <2> HIDE DEF w, partial
  <2>n. last \in 1..MaxPages
    BY ONLY <1>2, <1>6, <1>17, <2>1
  <2>m. pages[last] # Bad
    BY ONLY <1>17, <2>1
  <2>12. AnthropicCost(pages, budget) = Snapshot(<<w>>, FALSE, partial)
    BY ONLY <1>4, <2>n, <2>m
  <2>13. StatedByCost(pages, budget) = {Share(spend, budget)}
    BY <1>5, <1>17, <2>2 DEF spend
  <2>14. Spells({Share(spend, budget)}) <=> FALSE \/ Spells(Told(<<w>>))
    BY <2>10
  <2>15. Hears(Snapshot(<<w>>, FALSE, partial), {Share(spend, budget)})
    BY <2>10, <2>11, <2>14, SnapshotHears
  <2>. QED  BY <2>12, <2>13, <2>15 DEF pages
<1>. QED  BY <1>14, <1>15, <1>16, <1>17

\* An answer of whichever adapter.
LEMMA FetchHears ==
  ASSUME NEW s, NEW answer, Ready(s), answer # NoAnswer, IsReply(s.adapter, answer),
         s.budget \in Maybe(Nat \ {0}), now \in Int, None \notin Int, Day \in Nat \ {0}
  PROVE  Hears(Fetch(s, answer), Stated(s, answer))
<1>1. s.adapter \in BuiltIn
  BY DEF Ready
<1>2. CASE s.adapter = "codex"
  <2>1. Fetch(s, answer) = Codex(answer) /\ Stated(s, answer) = StatedByCodex(answer)
    BY <1>2 DEF Fetch, Stated
  <2>. QED  BY <1>2, <2>1, CodexHears
<1>3. CASE s.adapter = "zai"
  <2>1. Fetch(s, answer) = Zai(answer) /\ Stated(s, answer) = StatedByZai(answer)
    BY <1>3 DEF Fetch, Stated
  <2>. QED  BY <1>3, <2>1, ZaiHears
<1>4. CASE s.adapter = "neuralwatt"
  <2>1. Fetch(s, answer) = Neuralwatt(answer) /\ Stated(s, answer) = StatedByNeuralwatt(answer)
    BY <1>4 DEF Fetch, Stated
  <2>. QED  BY <1>4, <2>1, NeuralwattHears
<1>5. CASE s.adapter = "opencode-go"
  <2>1. Fetch(s, answer) = OpenCodeGo(answer) /\ Stated(s, answer) = SharesOf({answer.rolling, answer.weekly, answer.monthly})
    BY <1>5 DEF Fetch, Stated
  <2>. QED  BY <1>5, <2>1, OpenCodeHears
<1>6. CASE s.adapter = "anthropic"
  <2>1. /\ Fetch(s, answer) = AnthropicCost(answer.pages, s.budget)
        /\ Stated(s, answer) = StatedByCost(answer.pages, s.budget)
    BY <1>6 DEF Fetch, Stated
  <2>2. s.budget \in Nat \ {0}
    BY <1>6 DEF Ready, Maybe
  <2>. QED  BY <1>6, <2>1, <2>2, CostHears
<1>7. CASE s.adapter = "anthropic-subscription"
  <2>1. Fetch(s, answer) = AnthropicSubscription(answer) /\ Stated(s, answer) = SharesOf({answer.five, answer.seven})
    BY <1>7 DEF Fetch, Stated
  <2>. QED  BY <1>7, <2>1, SubscriptionSharesHear
<1>. QED  BY <1>1, <1>2, <1>3, <1>4, <1>5, <1>6, <1>7 DEF BuiltIn

LEMMA PartialSnapshot ==
  ASSUME NEW ws, NEW usedUp, NEW partial, partial
  PROVE  Snapshot(ws, usedUp, partial).status = "partial"
BY DEF Snapshot

\* What was read in part only is called partial.
LEMMA CodexPartial ==
  ASSUME NEW s, NEW body, s.adapter = "codex", ReadInPart(s, body)
  PROVE  Codex(body).status = "partial"
<1> DEFINE rate == IF body.rate = Bad THEN [primary |-> None, secondary |-> None, individual |-> None] ELSE body.rate
           spend == IF body.individual = None THEN rate.individual ELSE body.individual
           shares == <<rate.primary, rate.secondary>>
           windows == PercentWindows(shares) \o SpendWindow(spend) \o PercentWindows(body.additional)
           broken == {body.rate, spend, body.credits} \cup ToSet(shares) \cup ToSet(body.additional)
           partial == windows = <<>> \/ Bad \in broken
<1>1. Codex(body) = Snapshot(windows, FALSE, partial)
  BY DEF Codex
<1>2. ToSet(shares) = {rate.primary, rate.secondary}
  BY DEF ToSet
<1>3. \/ Bad \in {body.rate, body.individual} \cup ToSet(body.additional)
      \/ /\ body.rate # Bad
         /\ \/ Bad \in {body.rate.primary, body.rate.secondary}
            \/ body.individual = None /\ body.rate.individual = Bad
  BY DEF ReadInPart
<1>4. Bad \in broken
  <2>1. None # Bad
    BY QuotaAssumption DEF Maybe
  <2>. QED  BY <1>2, <1>3, <2>1
<1> HIDE DEF windows, broken
<1>5. partial
  BY <1>4
<1> HIDE DEF partial
<1>. QED  BY <1>1, <1>5, PartialSnapshot

LEMMA ZaiPartial ==
  ASSUME NEW body, Zai(body) # None, Bad \in ToSet(body.limits)
  PROVE  Zai(body).status = "partial"
BY PartialSnapshot DEF Zai

\* One window at the most, and none for one that cannot be read.
LEMMA ShareWindowLength ==
  ASSUME NEW w, NEW period
  PROVE  Len(ShareWindow(w, period)) \in 0..1 /\ (w = Bad => Len(ShareWindow(w, period)) = 0)
BY DEF ShareWindow

LEMMA SubscriptionPartial ==
  ASSUME NEW body, IsReply("anthropic-subscription", body), None \notin Int, Day \in Nat \ {0},
         AnthropicSubscription(body) # None, Bad \in {body.five, body.seven}
  PROVE  AnthropicSubscription(body).status = "partial"
<1> DEFINE five == ShareWindow(body.five, Session)
           seven == ShareWindow(body.seven, Week)
           windows == five \o seven
           partial == Len(windows) < 2
<1>1. AnthropicSubscription(body) = IF windows = <<>> THEN None ELSE Snapshot(windows, FALSE, partial)
  BY DEF AnthropicSubscription
<1>2. five \in Seq(Windows) /\ seven \in Seq(Windows)
  BY PeriodType, ShareWindowTold DEF IsReply
<1>3. /\ Len(five) \in 0..1 /\ (body.five = Bad => Len(five) = 0)
      /\ Len(seven) \in 0..1 /\ (body.seven = Bad => Len(seven) = 0)
  BY ShareWindowLength
<1> HIDE DEF five, seven
<1>4. Len(windows) = Len(five) + Len(seven)
  BY <1>2, ConcatProperties
<1> HIDE DEF windows
<1>5. partial
  <2> DEFINE a == Len(five)
             b == Len(seven)
  <2>1. a \in 0..1 /\ b \in 0..1 /\ (a = 0 \/ b = 0) /\ Len(windows) = a + b
    BY <1>3, <1>4
  <2> HIDE DEF a, b
  <2>. QED  BY ONLY <2>1
<1> HIDE DEF partial
<1>. QED  BY <1>1, <1>5, PartialSnapshot

LEMMA OpenCodePartial ==
  ASSUME NEW body, IsReply("opencode-go", body), None \notin Int, Day \in Nat \ {0},
         OpenCodeGo(body) # None, Bad \in {body.rolling, body.weekly, body.monthly}
  PROVE  OpenCodeGo(body).status = "partial"
<1> DEFINE rolling == ShareWindow(body.rolling, Session)
           weekly  == ShareWindow(body.weekly, Week)
           monthly == ShareWindow(body.monthly, Month)
           front   == rolling \o weekly
           windows == front \o monthly
           partial == Len(windows) < 3 \/ \E i \in DOMAIN windows : windows[i].reset = None
<1>1. OpenCodeGo(body) = IF windows = <<>> THEN None ELSE Snapshot(windows, FALSE, partial)
  BY DEF OpenCodeGo
<1>2. rolling \in Seq(Windows) /\ weekly \in Seq(Windows) /\ monthly \in Seq(Windows)
  BY PeriodType, ShareWindowTold DEF IsReply
<1>3. /\ Len(rolling) \in 0..1 /\ (body.rolling = Bad => Len(rolling) = 0)
      /\ Len(weekly) \in 0..1 /\ (body.weekly = Bad => Len(weekly) = 0)
      /\ Len(monthly) \in 0..1 /\ (body.monthly = Bad => Len(monthly) = 0)
  BY ShareWindowLength
<1> HIDE DEF rolling, weekly, monthly
<1>4. front \in Seq(Windows) /\ Len(front) = Len(rolling) + Len(weekly)
  BY <1>2, ConcatProperties
<1> HIDE DEF front
<1>5. Len(windows) = Len(front) + Len(monthly)
  BY <1>2, <1>4, ConcatProperties
<1> HIDE DEF windows
<1>6. partial
  <2> DEFINE a == Len(rolling)
             b == Len(weekly)
             c == Len(monthly)
  <2>1. a \in 0..1 /\ b \in 0..1 /\ c \in 0..1 /\ (a = 0 \/ b = 0 \/ c = 0) /\ Len(windows) = a + b + c
    BY <1>3, <1>4, <1>5
  <2> HIDE DEF a, b, c
  <2>2. Len(windows) < 3
    BY ONLY <2>1
  <2>. QED  BY <2>2
<1> HIDE DEF partial
<1>. QED  BY <1>1, <1>6, PartialSnapshot

LEMMA CostPartial ==
  ASSUME NEW body, IsReply("anthropic", body), NEW budget, AnthropicCost(body.pages, budget) # None,
         \E page \in ToSet(body.pages) \ {Bad} : Bad \in ToSet(page.amounts)
  PROVE  AnthropicCost(body.pages, budget).status = "partial"
<1> DEFINE pages == body.pages
           n == Len(pages)
           ends == {i \in DOMAIN pages : IF pages[i] = Bad THEN TRUE ELSE ~pages[i].more}
           last == LastPage(pages)
           w == Window(budget, Spend(pages), Share(Spend(pages), budget), (now \div Month + 1) * Month, Month)
           partial == \E i \in 1..last : Bad \in ToSet(pages[i].amounts)
<1>1. /\ pages \in Seq(ToSet(pages)) /\ pages # <<>>
      /\ \A i \in DOMAIN pages : i < n => pages[i] # Bad /\ pages[i].more
  BY DEF IsReply, IsList
<1>2. n \in Nat /\ n > 0 /\ DOMAIN pages = 1..n
  BY <1>1, EmptySeq, LenProperties
<1>3. last = IF ends = {} THEN 0 ELSE Min(ends)
  BY DEF LastPage
<1>4. AnthropicCost(pages, budget) =
        IF last \notin 1..MaxPages THEN None
        ELSE IF pages[last] = Bad THEN None ELSE Snapshot(<<w>>, FALSE, partial)
  BY DEF AnthropicCost
<1>5. PICK i \in 1..n : Bad \in ToSet(pages[i].amounts)
  BY <1>2 DEF ToSet
<1> HIDE DEF w, pages, n, last
<1>6. last # 0 /\ AnthropicCost(pages, budget) = Snapshot(<<w>>, FALSE, partial)
  <2> HIDE DEF partial
  <2>1. MaxPages \in Nat
    BY QuotaAssumption
  <2>2. AnthropicCost(pages, budget) # None
    BY DEF pages
  <2>3. last \in 1..MaxPages /\ pages[last] # Bad
    BY <1>4, <2>2
  <2>4. last # 0
    BY ONLY <2>1, <2>3
  <2>5. AnthropicCost(pages, budget) = Snapshot(<<w>>, FALSE, partial)
    BY ONLY <1>4, <2>3
  <2>. QED  BY <2>4, <2>5
<1>7. ends \subseteq {n}
  BY <1>1, <1>2
<1> HIDE DEF ends
<1>8. last = n
  <2>1. ends = {n} /\ ends \in SUBSET Nat /\ ends # {}
    BY <1>2, <1>3, <1>6, <1>7
  <2>2. Min(ends) \in ends
    BY <2>1, LeastNat
  <2>. QED  BY <1>3, <2>1, <2>2
<1>9. partial
  BY <1>5, <1>8
<1> HIDE DEF partial
<1>10. AnthropicCost(pages, budget).status = "partial"
  BY <1>6, <1>9, PartialSnapshot
<1>. QED  BY <1>10 DEF pages

\* An answer of whichever adapter that is read in part makes a snapshot that says so.
LEMMA FetchPartial ==
  ASSUME NEW s, NEW answer, Ready(s), answer # NoAnswer, IsReply(s.adapter, answer),
         Fetch(s, answer) # None, ReadInPart(s, answer), None \notin Int, Day \in Nat \ {0}
  PROVE  Fetch(s, answer).status = "partial"
<1>1. s.adapter \in BuiltIn
  BY DEF Ready
<1>2. CASE s.adapter = "codex"
  <2>1. Fetch(s, answer) = Codex(answer)
    BY <1>2 DEF Fetch
  <2>. QED  BY <1>2, <2>1, CodexPartial
<1>3. CASE s.adapter = "zai"
  <2>1. Fetch(s, answer) = Zai(answer) /\ Bad \in ToSet(answer.limits)
    BY <1>3 DEF Fetch, ReadInPart
  <2>. QED  BY <2>1, ZaiPartial
<1>4. CASE s.adapter = "neuralwatt"
  BY <1>4 DEF ReadInPart
<1>5. CASE s.adapter = "opencode-go"
  <2>1. Fetch(s, answer) = OpenCodeGo(answer) /\ Bad \in {answer.rolling, answer.weekly, answer.monthly}
    BY <1>5 DEF Fetch, ReadInPart
  <2>. QED  BY <1>5, <2>1, OpenCodePartial
<1>6. CASE s.adapter = "anthropic"
  <2>1. /\ Fetch(s, answer) = AnthropicCost(answer.pages, s.budget)
        /\ \E page \in ToSet(answer.pages) \ {Bad} : Bad \in ToSet(page.amounts)
    BY <1>6 DEF Fetch, ReadInPart
  <2>. QED  BY <1>6, <2>1, CostPartial
<1>7. CASE s.adapter = "anthropic-subscription"
  <2>1. Fetch(s, answer) = AnthropicSubscription(answer) /\ Bad \in {answer.five, answer.seven}
    BY <1>7 DEF Fetch, ReadInPart
  <2>. QED  BY <1>7, <2>1, SubscriptionPartial
<1>. QED  BY <1>1, <1>2, <1>3, <1>4, <1>5, <1>6, <1>7 DEF BuiltIn

-----------------------------------------------------------------------------
(***************************************************************************)
(* What was said is kept.                                                  *)
(***************************************************************************)
ReadPartly(o) == o.snap # None /\ o.snap.status = "partial"

\* A provider that said it is used up has a snapshot that is out of quota, one that
\* said that something is left has none that is, and one whose answer was read in
\* part has a snapshot that says so.
PollingInv ==
  /\ RoutingInv /\ source \in DOMAIN Exchanges
  /\ \A p \in Polled :
       /\ said[p] = "used up" => observed[p].seen /\ SnapshotUnavailable(observed[p])
       /\ said[p] = "left" => ~SnapshotUnavailable(observed[p])
       /\ unread[p] => ReadPartly(observed[p])

\* What becomes of what is known of one provider: a poll that gave nothing takes
\* nothing back, and one that gave a snapshot leaves it as it was heard.
LEMMA AttemptedHears ==
  ASSUME NEW o, NEW f, NEW shares, Hears(f, shares), now \in Int
  PROVE  /\ Attempted(o, f).seen
         /\ f = None => shares = {} /\ (SnapshotUnavailable(Attempted(o, f)) <=> SnapshotUnavailable(o))
         /\ f # None => (SnapshotUnavailable(Attempted(o, f)) <=> Spells(shares)) /\ IsFinding(f)
         /\ f # None /\ f.status = "partial" => ReadPartly(Attempted(o, f))
<1> DEFINE snap == [at |-> now - f.age, status |-> f.status, avail |-> f.avail, windows |-> f.windows]
           after == Attempted(o, f)
<1>1. after.seen /\ after.snap = IF f = None THEN o.snap ELSE snap
  BY DEF Attempted
<1>2. ASSUME f # None
      PROVE  /\ (SnapshotUnavailable(after) <=> Spells(shares)) /\ IsFinding(f)
             /\ f.status = "partial" => ReadPartly(after)
  <2>1. f \in FetchedRecords /\ (OutOfQuota(f) <=> Spells(shares))
    BY <1>2 DEF Hears
  <2>2. /\ f.age \in Int /\ f.status \in Statuses /\ f.avail \in Availabilities
        /\ f.windows \in Seq(Windows) /\ now - f.age \in Int
    BY <2>1 DEF FetchedRecords
  <2>3. snap \in KeptRecords
    BY <2>2 DEF KeptRecords
  <2>4. snap # None /\ snap.avail = f.avail /\ snap.windows = f.windows /\ snap.status = f.status
    BY <2>3, QuotaAssumption
  <2>5. after.snap = snap
    BY <1>1, <1>2
  <2> HIDE DEF snap, after
  <2>6. OutOfQuota(snap) <=> OutOfQuota(f)
    BY <2>4 DEF OutOfQuota, EffectiveRemaining
  <2>. QED  BY <2>1, <2>2, <2>4, <2>5, <2>6 DEF SnapshotUnavailable, IsFinding, ReadPartly
<1>3. ASSUME f = None
      PROVE  shares = {} /\ (SnapshotUnavailable(after) <=> SnapshotUnavailable(o))
  <2> HIDE DEF after
  <2>. QED  BY <1>1, <1>3 DEF Hears, SnapshotUnavailable
<1>. QED  BY <1>1, <1>2, <1>3

\* Polls, the passing of time and nothing else keep what was said.
THEOREM PollingInvariant == PollingSpec => []PollingInv
<1>1. RoutingInit /\ PollingInit => PollingInv
  <2>1. SUFFICES ASSUME RoutingInit, PollingInit
                 PROVE  PollingInv
    OBVIOUS
  <2>2. \A p \in Providers : observed[p].snap = None /\ said[p] = "nothing" /\ ~unread[p]
    BY <2>1 DEF RoutingInit, PollingInit, Unseen
  <2>3. RoutingInv
    BY <2>1, <2>2, RoutingAssumption DEF RoutingInit, RoutingInv
  <2>. QED  BY <2>1, <2>2, <2>3 DEF PollingInv, PollingInit, Polled
<1>2. PollingInv /\ [PollingNext]_<<rvars, qvars>> => PollingInv'
  <2>1. SUFFICES ASSUME PollingInv, [PollingNext]_<<rvars, qvars>>
                 PROVE  PollingInv'
    OBVIOUS
  <2>2. RoutingInv /\ source \in DOMAIN Exchanges /\ now \in Nat /\ now \in Int /\ None \notin Int /\ Day \in Nat \ {0}
    <3>1. RoutingInv /\ source \in DOMAIN Exchanges /\ now \in Nat
      BY <2>1 DEF PollingInv, RoutingInv
    <3>2. None \notin Int /\ Day \in Nat \ {0}
      BY RoutingAssumption
    <3>. QED  BY <3>1, <3>2
  <2>3. ASSUME NEW answers \in Exchanges[source], PollAll(answers)
        PROVE  PollingInv'
    <3>1. /\ desired' = desired /\ now' = now /\ source' = source /\ Polled' = Polled
          /\ said' = Hear(answers) /\ unread' = Missed(answers) /\ Check(Poll(answers))
      BY <2>3 DEF PollAll, Check, Polled
    <3>2. ASSUME NEW p \in Providers, p \notin Polled \cap DOMAIN answers
          PROVE  said'[p] = said[p] /\ unread'[p] = unread[p] /\ observed'[p] = observed[p]
      <4>1. DOMAIN Poll(answers) = DOMAIN answers \cap Polled
        BY DEF Poll
      <4>2. observed'[p] = observed[p]
        BY <3>1, <3>2, <4>1 DEF Check
      <4>3. said'[p] = said[p] /\ unread'[p] = unread[p]
        BY <3>1, <3>2 DEF Hear, Missed
      <4>. QED  BY <4>2, <4>3
    <3>3. ASSUME NEW p \in Providers, p \in Polled \cap DOMAIN answers
          PROVE  /\ observed'[p].snap # None => IsSnapshot(observed'[p].snap)
                 /\ said'[p] = "used up" => observed'[p].seen /\ SnapshotUnavailable(observed'[p])
                 /\ said'[p] = "left" => ~SnapshotUnavailable(observed'[p])
                 /\ unread'[p] => ReadPartly(observed'[p])
      <4> DEFINE s == source[p]
                 answer == answers[p]
                 f == Fetch(s, answer)
                 shares == Stated(s, answer)
      <4>1. observed'[p] = Attempted(observed[p], f)
        BY <3>1, <3>3 DEF Check, Poll
      <4>2. /\ said[p] = "used up" => observed[p].seen /\ SnapshotUnavailable(observed[p])
            /\ said[p] = "left" => ~SnapshotUnavailable(observed[p])
            /\ unread[p] => ReadPartly(observed[p])
            /\ observed[p].snap # None => IsSnapshot(observed[p].snap)
        BY <2>1, <3>3 DEF PollingInv, RoutingInv
      <4>n. unread'[p] = IF f = None THEN unread[p] ELSE ReadInPart(s, answer)
        BY <3>1, <3>3 DEF Missed
      <4>3. CASE ~Ready(s) \/ answer = NoAnswer
        <5>1. said'[p] = said[p]
          BY <3>1, <3>3, <4>3 DEF Hear
        <5>2. f = None
          BY <4>3 DEF Fetch
        <5>3. observed'[p].seen /\ observed'[p].snap = observed[p].snap
          BY <4>1, <5>2 DEF Attempted
        <5>4. unread'[p] = unread[p]
          BY <4>n, <5>2
        <5>. QED  BY <4>2, <5>1, <5>3, <5>4 DEF SnapshotUnavailable, ReadPartly
      <4>4. CASE Ready(s) /\ answer # NoAnswer
        <5>1. IsReply(s.adapter, answer) /\ s.budget \in Maybe(Nat \ {0})
          BY <2>2, <2>3, <3>3, <4>4, QuotaAssumption
        <5> HIDE DEF s, answer
        <5>2. Hears(f, shares)
          BY <2>2, <4>4, <5>1, FetchHears
        <5>n. f # None /\ ReadInPart(s, answer) => f.status = "partial"
          BY <2>2, <4>4, <5>1, FetchPartial
        <5>3. said'[p] = IF \E x \in shares : x >= 100 THEN "used up"
                         ELSE IF shares # {} THEN "left"
                         ELSE IF said[p] = "used up" THEN "used up" ELSE "nothing"
          BY <3>1, <3>3, <4>4 DEF Hear, s, answer
        <5> HIDE DEF f, shares
        <5>4. /\ Attempted(observed[p], f).seen
              /\ f = None => shares = {} /\ (SnapshotUnavailable(Attempted(observed[p], f)) <=> SnapshotUnavailable(observed[p]))
              /\ f # None => (SnapshotUnavailable(Attempted(observed[p], f)) <=> Spells(shares)) /\ IsFinding(f)
              /\ f # None /\ f.status = "partial" => ReadPartly(Attempted(observed[p], f))
          BY <2>2, <5>2, AttemptedHears
        <5>5. IsFinding(f)
          BY <5>4 DEF IsFinding
        <5>6. observed'[p].snap # None => IsSnapshot(observed'[p].snap)
          BY <2>2, <4>1, <4>2, <5>5, AttemptedKeeps
        <5>7. unread'[p] => ReadPartly(observed'[p])
          <6>1. CASE f = None
            <7>1. observed'[p].snap = observed[p].snap
              BY <4>1, <6>1 DEF Attempted
            <7>. QED  BY <4>2, <4>n, <6>1, <7>1 DEF ReadPartly
          <6>2. CASE f # None
            BY <4>1, <4>n, <5>n, <5>4, <6>2
          <6>. QED  BY <6>1, <6>2
        <5>8. CASE f = None
          BY <4>1, <4>2, <5>3, <5>4, <5>6, <5>7, <5>8
        <5>9. CASE f # None
          BY <4>1, <5>3, <5>4, <5>6, <5>7, <5>9 DEF Spells
        <5>. QED  BY <5>8, <5>9
      <4>. QED  BY <4>3, <4>4
    <3>4. RoutingInv'
      BY <2>2, <3>1, <3>2, <3>3 DEF RoutingInv
    <3>5. \A p \in Polled : p \in Providers
      BY DEF Polled
    <3>6. ASSUME NEW p \in Polled
          PROVE  /\ said'[p] = "used up" => observed'[p].seen /\ SnapshotUnavailable(observed'[p])
                 /\ said'[p] = "left" => ~SnapshotUnavailable(observed'[p])
                 /\ unread'[p] => ReadPartly(observed'[p])
      <4>1. CASE p \in DOMAIN answers
        BY <3>3, <3>5, <4>1
      <4>2. CASE p \notin DOMAIN answers
        BY <2>1, <3>2, <3>5, <4>2 DEF PollingInv
      <4>. QED  BY <4>1, <4>2
    <3>. QED  BY <2>2, <3>1, <3>4, <3>6 DEF PollingInv
  <2>4. CASE Passes /\ UNCHANGED qvars
    <3>1. now' \in Nat /\ desired' = desired /\ observed' = observed /\ source' = source /\ said' = said /\ unread' = unread
      BY <2>2, <2>4, RoutingAssumption DEF Passes, qvars
    <3>2. RoutingInv'
      BY <2>2, <3>1 DEF RoutingInv
    <3>3. Polled' = Polled
      BY <3>1 DEF Polled
    <3>. QED  BY <2>1, <3>1, <3>2, <3>3 DEF PollingInv
  <2>5. CASE UNCHANGED <<rvars, qvars>>
    <3>1. UNCHANGED <<desired, observed, now, polls, source, said, unread>>
      BY <2>5 DEF rvars, qvars
    <3>2. Polled' = Polled
      BY <3>1 DEF Polled
    <3>. QED  BY <2>1, <3>1, <3>2 DEF PollingInv, RoutingInv
  <2>. QED  BY <2>1, <2>3, <2>4, <2>5 DEF PollingNext
<1>. QED  BY <1>1, <1>2, PTL DEF PollingSpec

\* A provider that said, in what can be read of its answer, that it is used up is not
\* available, not ranked and not normal until it says otherwise, one that said something
\* is left is not taken for used up, and one of whose answer a part was not read is
\* neither ranked nor gated: in every state, whatever the providers answer
\* (EvaluateEvidence, Fetch of every adapter, applyQuotaObservations, CheckEligibility).
THEOREM SayingsKeptHolds == PollingSpec => []SayingsKept
<1>1. PollingInv => SayingsKept
  <2>1. SUFFICES ASSUME PollingInv, NEW p \in Polled
                 PROVE  /\ said[p] = "used up" => SnapshotUnavailable(observed[p]) /\ ~Eligible(p) /\ MappingMode(p) # "normal"
                        /\ said[p] = "left" => ~SnapshotUnavailable(observed[p])
                        /\ unread[p] => ~Eligible(p) /\ ~Gated(p)
    BY DEF SayingsKept
  <2>2. /\ said[p] = "used up" => observed[p].seen /\ SnapshotUnavailable(observed[p])
        /\ said[p] = "left" => ~SnapshotUnavailable(observed[p])
        /\ unread[p] => ReadPartly(observed[p])
    BY <2>1 DEF PollingInv
  <2>5. ReadPartly(observed[p]) => ~Eligible(p) /\ ~Gated(p)
    BY DEF ReadPartly, Eligible, Gated
  <2>3. SnapshotUnavailable(observed[p]) => ~Eligible(p)
    BY DEF SnapshotUnavailable, Eligible
  <2>4. observed[p].seen /\ SnapshotUnavailable(observed[p]) => MappingMode(p) # "normal"
    BY DEF MappingMode, ExemptMode
  <2>. QED  BY <2>2, <2>3, <2>4, <2>5
<1>. QED  BY <1>1, PollingInvariant, PTL

\* The same is decided of what the providers answer as of what a poll may find at
\* all: in every state of the polling, chains are only reordered and the gate goes
\* by the evidence of the ranking.
THEOREM AnswersAreDecidedOn == PollingSpec => [](GateAndRankAgree /\ ChainsKept)
<1>1. PollingInv => GateAndRankAgree /\ ChainsKept
  BY AgreeInState, ChainsInState DEF PollingInv
<1>. QED  BY <1>1, PollingInvariant, PTL
=============================================================================
