---------------------------- MODULE HistoryProofs ----------------------------
(***************************************************************************)
(* Proofs about the timeline and the reconcile history of History, for     *)
(* every limit, every set of sizes, every change there could be to record, *)
(* and commands of every kind, with saves that are refused or never made.  *)
(***************************************************************************)
EXTENDS History, DataLemmas

HistorySpec(sizes, changes) == HistoryInit /\ [][HistoryNext(sizes, changes)]_hvars

-----------------------------------------------------------------------------
(***************************************************************************)
(* The invariant.                                                          *)
(***************************************************************************)
EventRecords(sizes) == [seq : Nat, rev : Nat, utc : BOOLEAN, size : sizes]
CopyFields == {"events", "omitted", "next", "rev", "records", "gone", "decision", "of"}

\* Events numbered down from the last number given, and all others omitted.
Gapless(events, next, omitted, sizes) ==
  /\ events \in Seq(EventRecords(sizes)) /\ next \in Nat \ {0} /\ omitted \in Nat
  /\ \A i \in DOMAIN events : events[i].seq = next - i
  /\ omitted = next - 1 - Len(events)

\* A copy of the state, in a file or in a command, its events not yet validated.
CopyInv(copy, sizes) ==
  /\ DOMAIN copy = CopyFields /\ copy.rev \in Nat
  /\ Gapless(copy.events, copy.next, copy.omitted, sizes)

HistoryInv(sizes) ==
  /\ CopyInv(saved, sizes) /\ EventsValid(saved.events)
  /\ loaded # NoCopy => CopyInv(loaded, sizes)

-----------------------------------------------------------------------------
(***************************************************************************)
(* Folds over nothing, one event, and two.                                 *)
(***************************************************************************)
\* Nothing adds up to nothing.
LEMMA EmptyTotal ==
  ASSUME NEW f, DOMAIN f = {}
  PROVE  Total(f) = 0
<1> DEFINE R(it) == [s \in SUBSET {} |->
                       IF s = {} THEN 0 ELSE f[CHOOSE x \in s : TRUE] + it[s \ {CHOOSE x \in s : TRUE}]]
           it == CHOOSE g : g = R(g)
<1>1. Total(f) = it[{}]
  BY DEF Total, FoldFunction, FoldFunctionOnSet, MapThenFoldSet
<1>2. \E g : g = R(g)
  <2>1. [s \in SUBSET {} |-> 0] = R([s \in SUBSET {} |-> 0])
    OBVIOUS
  <2> HIDE DEF R
  <2>. QED  BY <2>1
<1>3. it = R(it)
  <2> HIDE DEF R
  <2>. QED  BY <1>2
<1> HIDE DEF it
<1>. QED  BY <1>1, <1>3

\* The greatest of the positions of one or two events.
LEMMA MaxUpToTwo ==
  Max({1}) = 1 /\ Max({2}) = 2 /\ Max({1, 2}) = 2
BY DEF Max

\* Events are appended one after the other.
LEMMA NotedEvents ==
  ASSUME NEW copy, NEW es
  PROVE  /\ DOMAIN es = {1} => Noted(copy, es) = Appended(copy, es[1])
         /\ DOMAIN es = {1, 2} => Noted(copy, es) = Appended(Appended(copy, es[1]), es[2])
<1> DEFINE G(it) == [s \in SUBSET DOMAIN es |->
                       IF s = {} THEN copy ELSE Appended(it[s \ {Max(s)}], es[Max(s)])]
           it == CHOOSE g : g = G(g)
<1>1. Noted(copy, es) = it[DOMAIN es]
  BY DEF Noted, FoldLeft, MapThenFoldSet
<1> DEFINE One == Appended(copy, es[1])
           Two == Appended(copy, es[2])
           Both == Appended(One, es[2])
           g == [s \in SUBSET DOMAIN es |-> IF s = {} THEN copy ELSE IF s = {1} THEN One
                                            ELSE IF s = {2} THEN Two ELSE Both]
<1>2. ASSUME DOMAIN es \subseteq {1, 2}
      PROVE  g = G(g)
  <2> SUFFICES ASSUME NEW s \in SUBSET DOMAIN es
               PROVE  g[s] = G(g)[s]
    OBVIOUS
  <2>1. s = {} \/ s = {1} \/ s = {2} \/ s = {1, 2}
    BY <1>2
  <2>2. {1} \ {1} = {} /\ {2} \ {2} = {} /\ {1, 2} \ {2} = {1} /\ {1} # {} /\ {2} # {} /\ {1, 2} # {}
        /\ {1} # {2} /\ {1} # {1, 2} /\ {2} # {1, 2}
    OBVIOUS
  <2> HIDE DEF One, Two, Both
  <2>3. CASE s = {}
    BY <2>3
  <2>4. CASE s = {1}
    <3>1. {} \in SUBSET DOMAIN es
      OBVIOUS
    <3>. QED  BY <2>2, <2>4, <3>1, MaxUpToTwo DEF One
  <2>5. CASE s = {2}
    <3>1. {} \in SUBSET DOMAIN es
      OBVIOUS
    <3>. QED  BY <2>2, <2>5, <3>1, MaxUpToTwo DEF Two
  <2>6. CASE s = {1, 2}
    <3>1. {1} \in SUBSET DOMAIN es
      BY <2>6
    <3>. QED  BY <2>2, <2>6, <3>1, MaxUpToTwo DEF Both
  <2>. QED  BY <2>1, <2>3, <2>4, <2>5, <2>6
<1>3. ASSUME DOMAIN es \subseteq {1, 2}
      PROVE  it = G(it)
  <2> HIDE DEF G, g
  <2>. QED  BY <1>2, <1>3
<1> HIDE DEF it
<1>4. ASSUME DOMAIN es = {1}
      PROVE  it[{1}] = Appended(copy, es[1])
  <2>1. it = G(it) /\ {} \in SUBSET DOMAIN es /\ {1} \in SUBSET DOMAIN es /\ {1} \ {1} = {} /\ {1} # {}
    BY <1>3, <1>4
  <2>2. it[{}] = copy
    BY <2>1
  <2>3. it[{1}] = Appended(it[{}], es[1])
    BY <2>1, MaxUpToTwo, ZenonT(30)
  <2>. QED  BY <2>2, <2>3
<1>5. ASSUME DOMAIN es = {1, 2}
      PROVE  it[{1, 2}] = Appended(Appended(copy, es[1]), es[2])
  <2>1. /\ it = G(it) /\ {} \in SUBSET DOMAIN es /\ {1} \in SUBSET DOMAIN es /\ {1, 2} \in SUBSET DOMAIN es
        /\ {1} \ {1} = {} /\ {1} # {} /\ {1, 2} # {} /\ {1, 2} \ {2} = {1}
    BY <1>3, <1>5
  <2>2. it[{}] = copy
    BY <2>1
  <2>3. it[{1}] = Appended(it[{}], es[1])
    BY <2>1, MaxUpToTwo
  <2>4. it[{1, 2}] = Appended(it[{1}], es[2])
    BY <2>1, MaxUpToTwo
  <2>. QED  BY <2>2, <2>3, <2>4
<1>. QED  BY <1>1, <1>4, <1>5

-----------------------------------------------------------------------------
(***************************************************************************)
(* The bounds.                                                             *)
(***************************************************************************)
\* What is kept is a beginning within the limits.
LEMMA KeptEventsRange ==
  ASSUME NEW events, Len(events) \in Nat
  PROVE  KeptEvents(events) \in 0..Len(events) /\ KeptEvents(events) <= EventLimit
<1> DEFINE fits(k) == k <= EventLimit /\ EncodedEvents(SubSeq(events, 1, k)) <= EventBytes
           S == {k \in 0..Len(events) : fits(k)}
<1>1. KeptEvents(events) = CHOOSE n \in 0..Len(events) : fits(n) /\ \A k \in n + 1..Len(events) : ~fits(k)
  BY DEF KeptEvents
<1>2. fits(0)
  <2>1. SubSeq(events, 1, 0) = <<>>
    OBVIOUS
  <2>2. EncodedEvents(SubSeq(events, 1, 0)) = 0
    BY <2>1, EmptyTotal DEF EncodedEvents
  <2>. QED  BY <2>2, HistoryAssumption
<1> HIDE DEF fits
<1>3. PICK m \in S : \A k \in S : k <= m
  <2>1. S # {} /\ S \in SUBSET (0..Len(events))
    BY <1>2
  <2> HIDE DEF S
  <2>. QED  BY <2>1, GreatestUpTo
<1>4. fits(m) /\ \A k \in m + 1..Len(events) : ~fits(k)
  BY <1>3
<1>5. KeptEvents(events) \in 0..Len(events) /\ fits(KeptEvents(events))
  BY <1>1, <1>3, <1>4
<1>. QED  BY <1>5 DEF fits

\* The bounds leave out the oldest events, and count them.
LEMMA BoundEventsGapless ==
  ASSUME NEW sizes, NEW events, NEW next, NEW omitted, Gapless(events, next, omitted, sizes)
  PROVE  LET b == BoundEvents(events, omitted) IN
         Gapless(b.events, next, b.omitted, sizes) /\ Len(b.events) <= EventLimit
<1> DEFINE n == KeptEvents(events)
           kept == SubSeq(events, 1, n)
           b == BoundEvents(events, omitted)
<1>1. /\ events \in Seq(EventRecords(sizes)) /\ next \in Nat \ {0} /\ omitted \in Nat
      /\ \A i \in DOMAIN events : events[i].seq = next - i
      /\ omitted = next - 1 - Len(events) /\ Len(events) \in Nat
  BY DEF Gapless
<1>2. n \in 0..Len(events) /\ n <= EventLimit
  BY <1>1, KeptEventsRange
<1>3. b.events = kept /\ b.omitted = omitted + (Len(events) - n)
  BY DEF BoundEvents
<1> HIDE DEF n, b
<1>4. kept \in Seq(EventRecords(sizes)) /\ Len(kept) = n /\ \A i \in 1..n : kept[i] = events[i]
  BY <1>1, <1>2, SubSeqProperties
<1>5. \A i \in DOMAIN kept : kept[i].seq = next - i
  BY <1>1, <1>2, <1>4
<1>6. omitted + (Len(events) - n) \in Nat /\ omitted + (Len(events) - n) = next - 1 - n
  BY <1>1, <1>2
<1>. QED  BY <1>1, <1>2, <1>3, <1>4, <1>5, <1>6 DEF Gapless, b

\* The next number at the front leaves no gap.
LEMMA OneMoreGapless ==
  ASSUME NEW sizes, NEW old, NEW next, NEW omitted, Gapless(old, next, omitted, sizes),
         NEW x \in EventRecords(sizes), x.seq = next
  PROVE  Gapless(<<x>> \o old, next + 1, omitted, sizes)
<1>1. /\ old \in Seq(EventRecords(sizes)) /\ next \in Nat \ {0} /\ omitted \in Nat
      /\ \A i \in DOMAIN old : old[i].seq = next - i
      /\ omitted = next - 1 - Len(old) /\ Len(old) \in Nat
  BY DEF Gapless
<1>2. PICK events : events = <<x>> \o old
  OBVIOUS
<1>3. /\ events \in Seq(EventRecords(sizes)) /\ Len(events) = Len(old) + 1
      /\ events[1] = x /\ \A i \in 2..Len(events) : events[i] = old[i - 1]
  <2>1. <<x>> \in Seq(EventRecords(sizes)) /\ Len(<<x>>) = 1
    OBVIOUS
  <2>. QED  BY <1>1, <1>2, <2>1, ConcatProperties
<1>4. ASSUME NEW i \in DOMAIN events
      PROVE  events[i].seq = next + 1 - i
  <2>1. i \in 1..Len(events)
    BY <1>3
  <2>2. CASE i = 1
    BY <1>1, <1>3, <2>2
  <2>3. CASE i # 1
    <3>1. i \in 2..Len(events) /\ i - 1 \in DOMAIN old
      BY <1>1, <1>3, <2>1, <2>3
    <3>2. events[i] = old[i - 1] /\ old[i - 1].seq = next - (i - 1)
      BY <1>1, <1>3, <3>1
    <3>. QED  BY <1>1, <1>3, <2>1, <3>2
  <2>. QED  BY <2>2, <2>3
<1>5. next + 1 \in Nat \ {0} /\ omitted = next + 1 - 1 - Len(events)
  BY <1>1, <1>3
<1>6. Gapless(events, next + 1, omitted, sizes)
  BY <1>1, <1>3, <1>4, <1>5 DEF Gapless
<1>. QED  BY <1>2, <1>6

\* One event more.
LEMMA AppendedCopy ==
  ASSUME NEW sizes, NEW copy, CopyInv(copy, sizes),
         NEW e, e.utc \in BOOLEAN, e.size \in sizes
  PROVE  LET new == Appended(copy, e) IN
         /\ CopyInv(new, sizes)
         /\ new.rev = copy.rev /\ new.records = copy.records /\ new.of = copy.of
<1> DEFINE x == [seq |-> copy.next, rev |-> copy.rev, utc |-> e.utc, size |-> e.size]
           events == <<x>> \o copy.events
           b == BoundEvents(events, copy.omitted)
<1>1. /\ DOMAIN copy = CopyFields /\ copy.rev \in Nat /\ copy.next \in Nat
      /\ Gapless(copy.events, copy.next, copy.omitted, sizes)
  BY DEF CopyInv, Gapless
<1>2. x \in EventRecords(sizes) /\ x.seq = copy.next
  BY <1>1 DEF EventRecords
<1>3. Appended(copy, e) = [copy EXCEPT !.events = b.events, !.omitted = b.omitted, !.next = copy.next + 1]
  BY DEF Appended
<1>4. Gapless(events, copy.next + 1, copy.omitted, sizes)
  <2> HIDE DEF x
  <2>. QED  BY <1>1, <1>2, OneMoreGapless
<1>5. Gapless(b.events, copy.next + 1, b.omitted, sizes)
  BY <1>4, BoundEventsGapless
<1> HIDE DEF b
<1>6. /\ DOMAIN Appended(copy, e) = CopyFields /\ Appended(copy, e).rev = copy.rev
      /\ Appended(copy, e).events = b.events /\ Appended(copy, e).omitted = b.omitted
      /\ Appended(copy, e).next = copy.next + 1
      /\ Appended(copy, e).records = copy.records /\ Appended(copy, e).of = copy.of
  BY <1>1, <1>3 DEF CopyFields
<1>. QED  BY <1>1, <1>5, <1>6 DEF CopyInv

\* One command notes one event or two.
LEMMA NotedCopy ==
  ASSUME NEW sizes, NEW copy, CopyInv(copy, sizes), NEW es, DOMAIN es \in {{1}, {1, 2}},
         \A i \in DOMAIN es : es[i].utc \in BOOLEAN /\ es[i].size \in sizes
  PROVE  LET new == Noted(copy, es) IN
         /\ CopyInv(new, sizes)
         /\ new.rev = copy.rev /\ new.records = copy.records /\ new.of = copy.of
<1> DEFINE one == Appended(copy, es[1])
           two == Appended(one, es[2])
<1>1. CopyInv(one, sizes) /\ one.rev = copy.rev /\ one.records = copy.records /\ one.of = copy.of
  BY AppendedCopy
<1>2. CASE DOMAIN es = {1}
  BY <1>1, <1>2, NotedEvents
<1>3. CASE DOMAIN es = {1, 2}
  <2>1. es[2].utc \in BOOLEAN /\ es[2].size \in sizes
    BY <1>3
  <2>2. Noted(copy, es) = two
    BY <1>3, NotedEvents
  <2> HIDE DEF one
  <2>3. CopyInv(two, sizes) /\ two.rev = one.rev /\ two.records = one.records /\ two.of = one.of
    BY <1>1, <2>1, AppendedCopy
  <2> HIDE DEF two
  <2>. QED  BY <1>1, <2>2, <2>3
<1>. QED  BY <1>2, <1>3

-----------------------------------------------------------------------------
(***************************************************************************)
(* The steps.                                                              *)
(***************************************************************************)
\* newState has an empty timeline.
LEMMA InitHistoryInv ==
  ASSUME NEW sizes, HistoryInit
  PROVE  HistoryInv(sizes)
<1>1. /\ saved.events = <<>> /\ saved.omitted = 0 /\ saved.next = 1 /\ saved.rev = 0
      /\ DOMAIN saved = CopyFields /\ loaded = NoCopy
  BY DEF HistoryInit, CopyFields
<1>2. Gapless(saved.events, saved.next, saved.omitted, sizes)
  <2>1. <<>> \in Seq(EventRecords(sizes)) /\ Len(<<>>) = 0 /\ DOMAIN <<>> = {}
    OBVIOUS
  <2>2. saved.events \in Seq(EventRecords(sizes)) /\ Len(saved.events) = 0 /\ DOMAIN saved.events = {}
    BY <1>1, <2>1
  <2>3. saved.next \in Nat \ {0} /\ saved.omitted \in Nat /\ saved.omitted = saved.next - 1 - 0
    BY <1>1
  <2>. QED  BY <2>2, <2>3 DEF Gapless
<1>3. EventsValid(saved.events)
  <2>1. Len(<<>>) = 0 /\ DOMAIN <<>> = {}
    OBVIOUS
  <2>. QED  BY <1>1, <2>1, HistoryAssumption DEF EventsValid
<1>. QED  BY <1>1, <1>2, <1>3 DEF HistoryInv, CopyInv

\* A loaded copy is the saved state under the command's revision.
LEMMA LoadHistoryInv ==
  ASSUME NEW sizes, HistoryInv(sizes), NEW keep, Load(keep)
  PROVE  HistoryInv(sizes)'
<1> DEFINE rev == IF keep /\ saved.rev # 0 THEN saved.rev ELSE saved.rev + 1
<1>1. loaded' = [saved EXCEPT !.rev = rev] /\ saved' = saved
  BY DEF Load
<1>2. DOMAIN saved = CopyFields /\ rev \in Nat /\ Gapless(saved.events, saved.next, saved.omitted, sizes)
  BY DEF HistoryInv, CopyInv
<1> HIDE DEF rev
<1>3. /\ DOMAIN loaded' = CopyFields /\ loaded'.rev = rev /\ loaded'.events = saved.events
      /\ loaded'.next = saved.next /\ loaded'.omitted = saved.omitted
  BY <1>1, <1>2 DEF CopyFields
<1>4. CopyInv(loaded', sizes)
  BY <1>2, <1>3 DEF CopyInv
<1>. QED  BY <1>1, <1>4 DEF HistoryInv

\* The events of a command are appended to its own copy.
LEMMA NoteHistoryInv ==
  ASSUME NEW sizes, HistoryInv(sizes), NEW es, DOMAIN es \in {{1}, {1, 2}},
         \A i \in DOMAIN es : es[i].utc \in BOOLEAN /\ es[i].size \in sizes,
         Note(es)
  PROVE  HistoryInv(sizes)'
<1>1. CopyInv(loaded, sizes) /\ loaded' = Noted(loaded, es) /\ saved' = saved
  BY DEF Note, Holding, HistoryInv
<1>2. CopyInv(loaded', sizes)
  BY <1>1, NotedCopy
<1>. QED  BY <1>1, <1>2 DEF HistoryInv

\* One event with its time in UTC.
LEMMA OneInUTC ==
  ASSUME NEW sizes, NEW s \in sizes
  PROVE  /\ DOMAIN InUTC(<<s>>) = {1}
         /\ \A i \in DOMAIN InUTC(<<s>>) : InUTC(<<s>>)[i].utc \in BOOLEAN /\ InUTC(<<s>>)[i].size \in sizes
<1>1. DOMAIN <<s>> = {1} /\ <<s>>[1] = s
  OBVIOUS
<1>2. DOMAIN InUTC(<<s>>) = {1} /\ InUTC(<<s>>)[1] = [utc |-> TRUE, size |-> s]
  BY <1>1 DEF InUTC
<1>3. InUTC(<<s>>)[1].utc \in BOOLEAN /\ InUTC(<<s>>)[1].size \in sizes
  <2>1. [utc |-> TRUE, size |-> s].utc = TRUE /\ [utc |-> TRUE, size |-> s].size = s
    BY Zenon
  <2>. QED  BY <1>2, <2>1, Zenon
<1>. QED  BY <1>2, <1>3, Zenon

\* Two events with their times in UTC.
LEMMA TwoInUTC ==
  ASSUME NEW sizes, NEW s \in sizes, NEW t \in sizes
  PROVE  /\ DOMAIN InUTC(<<s, t>>) = {1, 2}
         /\ \A i \in DOMAIN InUTC(<<s, t>>) :
              InUTC(<<s, t>>)[i].utc \in BOOLEAN /\ InUTC(<<s, t>>)[i].size \in sizes
<1>1. DOMAIN <<s, t>> = {1, 2} /\ <<s, t>>[1] = s /\ <<s, t>>[2] = t
  OBVIOUS
<1>2. /\ DOMAIN InUTC(<<s, t>>) = {1, 2} /\ InUTC(<<s, t>>)[1] = [utc |-> TRUE, size |-> s]
      /\ InUTC(<<s, t>>)[2] = [utc |-> TRUE, size |-> t]
  BY <1>1 DEF InUTC
<1>3. /\ InUTC(<<s, t>>)[1].utc \in BOOLEAN /\ InUTC(<<s, t>>)[1].size \in sizes
      /\ InUTC(<<s, t>>)[2].utc \in BOOLEAN /\ InUTC(<<s, t>>)[2].size \in sizes
  <2>1. /\ [utc |-> TRUE, size |-> s].utc = TRUE /\ [utc |-> TRUE, size |-> s].size = s
        /\ [utc |-> TRUE, size |-> t].utc = TRUE /\ [utc |-> TRUE, size |-> t].size = t
    BY Zenon
  <2>. QED  BY <1>2, <2>1, Zenon
<1>. QED  BY <1>2, <1>3, Zenon

\* The decision is stored beside the timeline, with an event or without one.
LEMMA RoutingHistoryInv ==
  ASSUME NEW sizes, HistoryInv(sizes), NEW d, NEW proven \in BOOLEAN, NEW size \in sizes,
         RoutingChange(d, proven, size)
  PROVE  HistoryInv(sizes)'
<1> DEFINE copy == IF proven /\ d # loaded.decision THEN Noted(loaded, InUTC(<<size>>)) ELSE loaded
<1>1. CopyInv(loaded, sizes) /\ loaded' = [copy EXCEPT !.decision = d] /\ saved' = saved
  BY DEF RoutingChange, Holding, HistoryInv
<1>2. CopyInv(Noted(loaded, InUTC(<<size>>)), sizes)
  <2>1. /\ DOMAIN InUTC(<<size>>) = {1}
        /\ \A i \in DOMAIN InUTC(<<size>>) : InUTC(<<size>>)[i].utc \in BOOLEAN /\ InUTC(<<size>>)[i].size \in sizes
    BY OneInUTC
  <2>. QED  BY <1>1, <2>1, NotedCopy
<1>3. CopyInv(copy, sizes)
  BY <1>1, <1>2
<1> HIDE DEF copy
<1>4. DOMAIN copy = CopyFields
  BY <1>3 DEF CopyInv
<1>5. /\ DOMAIN loaded' = CopyFields /\ loaded'.rev = copy.rev /\ loaded'.events = copy.events
      /\ loaded'.next = copy.next /\ loaded'.omitted = copy.omitted
  BY <1>1, <1>4 DEF CopyFields
<1>6. CopyInv(loaded', sizes)
  BY <1>3, <1>5 DEF CopyInv
<1>. QED  BY <1>1, <1>6 DEF HistoryInv

\* A record of the reconcile history leaves the timeline alone.
LEMMA RecordHistoryInv ==
  ASSUME NEW sizes, HistoryInv(sizes), NEW c, Record(c)
  PROVE  HistoryInv(sizes)'
<1> DEFINE r == Finalize(loaded.rev, BuildTemplate(c))
           with == AppendRecord(loaded, r)
<1>1. CopyInv(loaded, sizes) /\ saved' = saved
  BY DEF Record, Holding, HistoryInv
<1>2. loaded' = IF r = NoRecord THEN loaded ELSE [with EXCEPT !.of[loaded.rev] = c]
  BY DEF Record
<1> HIDE DEF r
<1>3. /\ DOMAIN with = CopyFields /\ with.rev = loaded.rev /\ with.events = loaded.events
      /\ with.next = loaded.next /\ with.omitted = loaded.omitted
  BY <1>1 DEF AppendRecord, CopyInv, CopyFields
<1> HIDE DEF with
<1>4. CASE r = NoRecord
  <2>1. loaded' = loaded
    BY <1>2, <1>4
  <2>. QED  BY <1>1, <2>1 DEF HistoryInv
<1>5. CASE r # NoRecord
  <2>1. loaded' = [with EXCEPT !.of[loaded.rev] = c]
    BY <1>2, <1>5
  <2>2. /\ DOMAIN loaded' = CopyFields /\ loaded'.rev = with.rev /\ loaded'.events = with.events
        /\ loaded'.next = with.next /\ loaded'.omitted = with.omitted
    BY <1>3, <2>1 DEF CopyFields
  <2>3. CopyInv(loaded', sizes)
    BY <1>1, <1>3, <2>2 DEF CopyInv
  <2>. QED  BY <1>1, <2>3 DEF HistoryInv
<1>. QED  BY <1>4, <1>5

\* A save bounds the timeline again and makes no change to what it counts.
LEMMA SaveHistoryInv ==
  ASSUME NEW sizes, HistoryInv(sizes), Save
  PROVE  HistoryInv(sizes)'
<1> DEFINE b == BoundEvents(loaded.events, loaded.omitted)
<1>1. /\ CopyInv(loaded, sizes) /\ EventsValid(b.events) /\ loaded' = loaded
      /\ saved' = [loaded EXCEPT !.events = b.events, !.omitted = b.omitted]
  BY DEF Save, Holding, HistoryInv
<1>2. DOMAIN loaded = CopyFields /\ loaded.rev \in Nat /\ Gapless(loaded.events, loaded.next, loaded.omitted, sizes)
  BY <1>1 DEF CopyInv
<1>3. Gapless(b.events, loaded.next, b.omitted, sizes)
  BY <1>2, BoundEventsGapless
<1> HIDE DEF b
<1>4. /\ DOMAIN saved' = CopyFields /\ saved'.rev = loaded.rev /\ saved'.events = b.events
      /\ saved'.next = loaded.next /\ saved'.omitted = b.omitted
  BY <1>1, <1>2 DEF CopyFields
<1>5. CopyInv(saved', sizes) /\ EventsValid(saved'.events)
  BY <1>1, <1>2, <1>3, <1>4 DEF CopyInv
<1>. QED  BY <1>1, <1>5 DEF HistoryInv

\* Every step keeps the invariant.
LEMMA NextHistoryInv ==
  ASSUME NEW sizes, NEW changes, HistoryInv(sizes), [HistoryNext(sizes, changes)]_hvars
  PROVE  HistoryInv(sizes)'
<1>1. ASSUME NEW keep \in BOOLEAN, Load(keep)
      PROVE  HistoryInv(sizes)'
  BY <1>1, LoadHistoryInv
<1>2. ASSUME NEW size \in sizes, ManualEvent(size)
      PROVE  HistoryInv(sizes)'
  <2>1. Note(InUTC(<<size>>))
    BY <1>2 DEF ManualEvent
  <2>2. /\ DOMAIN InUTC(<<size>>) = {1}
        /\ \A i \in DOMAIN InUTC(<<size>>) : InUTC(<<size>>)[i].utc \in BOOLEAN /\ InUTC(<<size>>)[i].size \in sizes
    BY OneInUTC
  <2>. QED  BY <2>1, <2>2, NoteHistoryInv
<1>3. ASSUME NEW s \in sizes, NEW t \in sizes, QuotaEvents(<<s, t>>) \/ GateEvents(<<s, t>>)
      PROVE  HistoryInv(sizes)'
  <2>1. Note(InUTC(<<s, t>>))
    BY <1>3 DEF QuotaEvents, GateEvents
  <2>2. /\ DOMAIN InUTC(<<s, t>>) = {1, 2}
        /\ \A i \in DOMAIN InUTC(<<s, t>>) :
             InUTC(<<s, t>>)[i].utc \in BOOLEAN /\ InUTC(<<s, t>>)[i].size \in sizes
    BY TwoInUTC
  <2>. QED  BY <2>1, <2>2, NoteHistoryInv
<1>4. ASSUME NEW size \in sizes, NEW d \in Decisions, NEW proven \in BOOLEAN, RoutingChange(d, proven, size)
      PROVE  HistoryInv(sizes)'
  BY <1>4, RoutingHistoryInv
<1>5. ASSUME NEW size \in sizes, NEW utc \in BOOLEAN, FailureEvent(size, utc)
      PROVE  HistoryInv(sizes)'
  <2> DEFINE es == <<[utc |-> utc, size |-> size]>>
  <2>1. Note(es)
    BY <1>5 DEF FailureEvent
  <2>2. DOMAIN es = {1} /\ es[1].utc = utc /\ es[1].size = size
    OBVIOUS
  <2> HIDE DEF es
  <2>3. \A i \in DOMAIN es : es[i].utc \in BOOLEAN /\ es[i].size \in sizes
    BY <2>2
  <2>. QED  BY <2>1, <2>2, <2>3, NoteHistoryInv
<1>6. ASSUME NEW c \in changes, Record(c)
      PROVE  HistoryInv(sizes)'
  BY <1>6, RecordHistoryInv
<1>7. CASE Save
  BY <1>7, SaveHistoryInv
<1>8. CASE EndCommand
  BY <1>8 DEF EndCommand, HistoryInv
<1>9. CASE UNCHANGED hvars
  BY <1>9 DEF hvars, HistoryInv
<1>. QED  BY <1>1, <1>2, <1>3, <1>4, <1>5, <1>6, <1>7, <1>8, <1>9 DEF HistoryNext

-----------------------------------------------------------------------------
(***************************************************************************)
(* The theorems about the timeline.                                        *)
(***************************************************************************)
\* The timeline of the file and of the running command are numbered down from
\* the last number given, without a gap, and count every event left out.
THEOREM HistoryInvariant ==
  ASSUME NEW sizes, NEW changes
  PROVE  HistorySpec(sizes, changes) => []HistoryInv(sizes)
<1>1. HistoryInit => HistoryInv(sizes)
  BY InitHistoryInv
<1>2. HistoryInv(sizes) /\ [HistoryNext(sizes, changes)]_hvars => HistoryInv(sizes)'
  BY NextHistoryInv
<1>. QED  BY <1>1, <1>2, PTL DEF HistorySpec

\* Whatever a command noted, whichever limit it met and however its save ended,
\* the timeline in state.json can be loaded again, is the latest events without
\* a gap, and counts each other event as omitted.
THEOREM TimelineCountedHolds ==
  ASSUME NEW sizes, NEW changes
  PROVE  HistorySpec(sizes, changes) => []TimelineCounted
<1>1. HistoryInv(sizes) => TimelineCounted
  BY DEF HistoryInv, CopyInv, Gapless, TimelineCounted
<1>. QED  BY <1>1, HistoryInvariant, PTL

-----------------------------------------------------------------------------
(***************************************************************************)
(* Reconcile records.                                                      *)
(***************************************************************************)
\* What there can be to record of a change.
ChangeTargets == [id : TargetIds, pending : BOOLEAN, chains : Seq(Nat), edits : Nat]
ChangeRecords == [providers : Nat, ranks : Nat, targets : Seq(ChangeTargets)]

BoundChains == [kept : Nat, omitted : Nat]
BoundTargets ==
  [id : Nat, pending : BOOLEAN, chains : Seq(BoundChains), edits : Nat, omitted : [chains : Nat, edits : Nat]]
Outcomes == [id : Nat, pending : BOOLEAN]
Tallies == [total : Nat, applied : Nat, pending : Nat, omitted : Nat]
Omissions == [providers : Nat, ranks : Nat, chains : Nat, entries : Nat, edits : Nat]
Records ==
  [rev : Nat, tier : {"full", "aggregate"}, counts : Tallies, providers : Nat, ranks : Nat,
   targets : Seq(BoundTargets), compact : Seq(Outcomes), omitted : Omissions]

\* The positions of a sequence are finitely many, and those of its members a part.
LEMMA PositionFacts ==
  ASSUME NEW T, NEW seq \in Seq(T)
  PROVE  /\ Len(seq) \in Nat /\ DOMAIN seq = 1..Len(seq) /\ IsFiniteSet(DOMAIN seq)
         /\ Cardinality(DOMAIN seq) = Len(seq)
         /\ \A i \in DOMAIN seq : seq[i] \in T
<1>1. Len(seq) \in Nat /\ DOMAIN seq = 1..Len(seq)
  OBVIOUS
<1>2. IsFiniteSet(1..Len(seq)) /\ Cardinality(1..Len(seq)) = Len(seq)
  BY <1>1, FS_Interval
<1>3. \A i \in DOMAIN seq : seq[i] \in T
  BY ElementOfSeq
<1>. QED  BY <1>1, <1>2, <1>3

\* What is kept of a number and what is not make up the number.
LEMMA CutNumber ==
  ASSUME NEW n \in Nat, NEW limit \in Nat
  PROVE  /\ Min({n, limit}) \in Nat /\ Min({n, limit}) <= limit /\ Min({n, limit}) <= n
         /\ Excess(n, limit) \in Nat /\ Min({n, limit}) + Excess(n, limit) = n
<1>1. Min({n, limit}) = (IF n <= limit THEN n ELSE limit)
  BY PairBounds
<1>. QED  BY <1>1 DEF Excess

\* The sums of two numbers for each member of a sequence.
LEMMA SeqTotal ==
  ASSUME NEW n \in Nat, NEW f \in [1..n -> Nat], NEW g \in [1..n -> Nat]
  PROVE  /\ Total(f) \in Nat /\ Total(g) \in Nat
         /\ Total([i \in 1..n |-> f[i] + g[i]]) = Total(f) + Total(g)
         /\ (\A i \in 1..n : f[i] <= g[i]) => Total(f) <= Total(g)
<1>1. IsFiniteSet(1..n) /\ f \in [1..n -> Int] /\ g \in [1..n -> Int]
  BY FS_Interval
<1>2. Total(f) \in Nat /\ Total(g) \in Nat
  BY <1>1, TotalNat
<1>. QED  BY <1>1, <1>2, TotalOrder

\* The entries kept of a target's chains, and those left out.
LEMMA EntryFacts ==
  ASSUME NEW t \in BoundTargets
  PROVE  /\ KeptEntries(t) \in Nat /\ LostEntries(t) \in Nat
         /\ KeptEntries(t) + LostEntries(t)
              = Total([i \in 1..Len(t.chains) |-> t.chains[i].kept + t.chains[i].omitted])
<1> DEFINE n == Len(t.chains)
           f == [i \in 1..n |-> t.chains[i].kept]
           g == [i \in 1..n |-> t.chains[i].omitted]
<1>1. n \in Nat /\ DOMAIN t.chains = 1..n /\ \A i \in 1..n : t.chains[i] \in BoundChains
  <2>1. t.chains \in Seq(BoundChains)
    BY DEF BoundTargets
  <2>. QED  BY <2>1, PositionFacts
<1>2. KeptEntries(t) = Total(f) /\ LostEntries(t) = Total(g)
  BY <1>1 DEF KeptEntries, LostEntries
<1> HIDE DEF n
<1>3. f \in [1..n -> Nat] /\ g \in [1..n -> Nat]
  BY <1>1 DEF BoundChains
<1>4. [i \in 1..n |-> f[i] + g[i]] = [i \in 1..n |-> t.chains[i].kept + t.chains[i].omitted]
  OBVIOUS
<1> HIDE DEF f, g
<1>5. Total(f) \in Nat /\ Total(g) \in Nat /\ Total([i \in 1..n |-> f[i] + g[i]]) = Total(f) + Total(g)
  BY <1>1, <1>3, SeqTotal
<1>. QED  BY <1>2, <1>4, <1>5 DEF n

\* BoundTarget cuts nothing that it does not count, but for entries of cut chains.
LEMMA BoundTargetFacts ==
  ASSUME NEW t \in ChangeTargets
  PROVE  LET b == BoundTarget(t) IN
         /\ b \in BoundTargets /\ b.pending = t.pending
         /\ Len(b.chains) + b.omitted.chains = Len(t.chains) /\ b.edits + b.omitted.edits = t.edits
         /\ KeptEntries(b) + LostEntries(b) = Total(SubSeq(t.chains, 1, Min({Len(t.chains), ChainLimit})))
<1> DEFINE b == BoundTarget(t)
           m == Min({Len(t.chains), ChainLimit})
           cut == SubSeq(t.chains, 1, m)
           ch == [i \in 1..m |-> BoundChain(t.chains[i])]
           lost == Excess(Len(t.chains), ChainLimit)
           edits == Min({t.edits, EditLimit})
           unread == Excess(t.edits, EditLimit)
<1>1. /\ t.id \in TargetIds /\ t.pending \in BOOLEAN /\ t.chains \in Seq(Nat) /\ t.edits \in Nat
      /\ Len(t.chains) \in Nat /\ \A i \in 1..Len(t.chains) : t.chains[i] \in Nat
  <2>1. t.id \in TargetIds /\ t.pending \in BOOLEAN /\ t.chains \in Seq(Nat) /\ t.edits \in Nat
    BY DEF ChangeTargets
  <2>. QED  BY <2>1, PositionFacts
<1>2. ChainLimit \in Nat /\ EntryLimit \in Nat /\ EditLimit \in Nat
  BY HistoryAssumption
<1>3. m \in Nat /\ m <= Len(t.chains) /\ lost \in Nat /\ m + lost = Len(t.chains)
  BY <1>1, <1>2, CutNumber
<1>4. edits \in Nat /\ unread \in Nat /\ edits + unread = t.edits
  BY <1>1, <1>2, CutNumber
<1>5. Cut(t.id) \in Nat
  <2>1. t.id \in Nat /\ (LongIds # {} => Min(LongIds) \in Nat)
    <3>1. LongIds \in SUBSET Nat /\ TargetIds \subseteq Nat
      BY HistoryAssumption
    <3>. QED  BY <1>1, <3>1, LeastNat
  <2>. QED  BY <2>1 DEF Cut
<1>6. b = [id |-> Cut(t.id), pending |-> t.pending, chains |-> ch, edits |-> edits,
           omitted |-> [chains |-> lost, edits |-> unread]]
  BY DEF BoundTarget
<1> HIDE DEF m, lost, edits, unread, b
<1>7. \A i \in 1..m : /\ ch[i] \in BoundChains /\ ch[i].kept + ch[i].omitted = t.chains[i]
  <2> SUFFICES ASSUME NEW i \in 1..m
               PROVE  ch[i] \in BoundChains /\ ch[i].kept + ch[i].omitted = t.chains[i]
    OBVIOUS
  <2> DEFINE k == Min({t.chains[i], EntryLimit})
             o == Excess(t.chains[i], EntryLimit)
  <2>1. t.chains[i] \in Nat
    BY <1>1, <1>3
  <2>2. k \in Nat /\ o \in Nat /\ k + o = t.chains[i]
    BY <1>2, <2>1, CutNumber
  <2>3. ch[i] = [kept |-> k, omitted |-> o]
    BY DEF BoundChain
  <2> HIDE DEF k, o, ch
  <2>. QED  BY <2>2, <2>3 DEF BoundChains
<1>8. DOMAIN ch = 1..m
  OBVIOUS
<1> HIDE DEF ch
<1>9. ch \in Seq(BoundChains) /\ Len(ch) = m
  <2>1. ch = [i \in 1..m |-> ch[i]]
    BY DEF ch
  <2>2. ch \in [1..m -> BoundChains]
    BY <1>7, <2>1
  <2>. QED  BY <1>3, <2>2
<1>10. b \in BoundTargets /\ b.pending = t.pending /\ b.chains = ch /\ b.edits = edits
       /\ b.omitted.chains = lost /\ b.omitted.edits = unread
  BY <1>1, <1>3, <1>4, <1>5, <1>6, <1>9 DEF BoundTargets
<1>11. cut \in Seq(Nat) /\ Len(cut) = m /\ \A i \in 1..m : cut[i] = t.chains[i]
  BY <1>1, <1>3, SubSeqProperties
<1> HIDE DEF cut
<1>12. [i \in 1..m |-> ch[i].kept + ch[i].omitted] = cut
  BY <1>7, <1>11
<1>13. KeptEntries(b) + LostEntries(b) = Total(cut)
  <2>1. KeptEntries(b) + LostEntries(b) = Total([i \in 1..Len(b.chains) |-> b.chains[i].kept + b.chains[i].omitted])
    BY <1>10, EntryFacts
  <2>. QED  BY <1>9, <1>10, <1>12, <2>1
<1>. QED  BY <1>3, <1>4, <1>9, <1>10, <1>13 DEF b, m, cut

Parts == {"providers", "ranks", "chains", "entries", "edits"}

\* Accounts, part by part.
LEMMA AccountsParts ==
  ASSUME NEW r, NEW c
  PROVE  LET Left(p) == Shown(r)[p] + r.omitted[p] IN
         /\ DOMAIN There(c) = Parts
         /\ Accounts(r, c) <=>
              /\ r.counts.total = Len(c.targets)
              /\ r.counts.pending = Cardinality({i \in DOMAIN c.targets : c.targets[i].pending})
              /\ r.counts.omitted + Len(r.targets) + Len(r.compact) = Len(c.targets)
              /\ Left("providers") >= There(c)["providers"] /\ Left("ranks") >= There(c)["ranks"]
              /\ Left("chains") >= There(c)["chains"] /\ Left("entries") >= There(c)["entries"]
              /\ Left("edits") >= There(c)["edits"]
              /\ r.tier = "full" =>
                   /\ Left("providers") = There(c)["providers"] /\ Left("ranks") = There(c)["ranks"]
                   /\ Left("chains") = There(c)["chains"] /\ Left("entries") = There(c)["entries"]
                   /\ Left("edits") = There(c)["edits"]
<1>1. DOMAIN There(c) = Parts
  BY DEF There, Parts
<1>. QED  BY <1>1 DEF Accounts, Parts

\* The members of a sequence that are pending are not more than it has.
LEMMA PendingFacts ==
  ASSUME NEW T, NEW ts \in Seq(T)
  PROVE  LET pending == Cardinality({i \in DOMAIN ts : ts[i].pending}) IN
         /\ pending \in Nat /\ pending <= Len(ts) /\ IsFiniteSet({i \in DOMAIN ts : ts[i].pending})
         /\ Counts(ts) = [total |-> Len(ts), applied |-> Len(ts) - pending, pending |-> pending, omitted |-> 0]
         /\ Counts(ts) \in Tallies
<1> DEFINE P == {i \in DOMAIN ts : ts[i].pending}
<1>1. IsFiniteSet(DOMAIN ts) /\ Cardinality(DOMAIN ts) = Len(ts) /\ Len(ts) \in Nat
  BY PositionFacts
<1>2. IsFiniteSet(P) /\ Cardinality(P) <= Len(ts) /\ Cardinality(P) \in Nat
  BY <1>1, FS_Subset, FS_CardinalityType
<1>3. Counts(ts) = [total |-> Len(ts), applied |-> Len(ts) - Cardinality(P), pending |-> Cardinality(P), omitted |-> 0]
  BY DEF Counts
<1> HIDE DEF P
<1>4. Counts(ts) \in Tallies
  BY <1>1, <1>2, <1>3 DEF Tallies
<1>. QED  BY <1>2, <1>3, <1>4 DEF P

\* The sums a record adds up to are sums of its targets, all natural numbers.
LEMMA RecordSums ==
  ASSUME NEW ts \in Seq(BoundTargets)
  PROVE  LET n == Len(ts) IN
         /\ n \in Nat /\ DOMAIN ts = 1..n
         /\ [i \in 1..n |-> Len(ts[i].chains)] \in [1..n -> Nat]
         /\ [i \in 1..n |-> ts[i].omitted.chains] \in [1..n -> Nat]
         /\ [i \in 1..n |-> KeptEntries(ts[i]) + LostEntries(ts[i])] \in [1..n -> Nat]
         /\ [i \in 1..n |-> ts[i].edits] \in [1..n -> Nat]
         /\ [i \in 1..n |-> ts[i].omitted.edits] \in [1..n -> Nat]
         /\ [i \in 1..n |-> 1 + Len(ts[i].chains) + KeptEntries(ts[i]) + ts[i].edits] \in [1..n -> Nat]
         /\ \A i \in 1..n : 1 + Len(ts[i].chains) + KeptEntries(ts[i]) + ts[i].edits >= 1
<1>1. Len(ts) \in Nat /\ DOMAIN ts = 1..Len(ts) /\ \A i \in 1..Len(ts) : ts[i] \in BoundTargets
  BY PositionFacts
<1>2. ASSUME NEW i \in 1..Len(ts)
      PROVE  /\ Len(ts[i].chains) \in Nat /\ ts[i].edits \in Nat
             /\ ts[i].omitted.chains \in Nat /\ ts[i].omitted.edits \in Nat
             /\ KeptEntries(ts[i]) \in Nat /\ LostEntries(ts[i]) \in Nat
  <2>1. ts[i] \in BoundTargets
    BY <1>1
  <2>2. /\ ts[i].chains \in Seq(BoundChains) /\ ts[i].edits \in Nat
        /\ ts[i].omitted.chains \in Nat /\ ts[i].omitted.edits \in Nat
    BY <2>1 DEF BoundTargets
  <2>3. Len(ts[i].chains) \in Nat
    BY <2>2
  <2>4. KeptEntries(ts[i]) \in Nat /\ LostEntries(ts[i]) \in Nat
    BY <2>1, EntryFacts
  <2>. QED  BY <2>2, <2>3, <2>4
<1>. QED  BY ONLY <1>1, <1>2, SMTT(30)

\* A record in full is one, and accounts for its change.
LEMMA FullFacts ==
  ASSUME NEW rev \in Nat, NEW c \in ChangeRecords
  PROVE  LET full == Full(rev, BuildTemplate(c)) IN
         /\ full \in Records /\ full.tier = "full" /\ full.rev = rev /\ full.compact = <<>>
         /\ full.counts = Counts(full.targets) /\ Accounts(full, c)
<1> DEFINE ts == [i \in DOMAIN c.targets |-> BoundTarget(c.targets[i])]
           n == Len(c.targets)
           tpl == BuildTemplate(c)
           full == Full(rev, tpl)
           kp == Min({c.providers, SharedLimit})
           op == Excess(c.providers, SharedLimit)
           kr == Min({c.ranks, SharedLimit})
           or == Excess(c.ranks, SharedLimit)
           shownCh == [i \in 1..n |-> Len(ts[i].chains)]
           shownEd == [i \in 1..n |-> ts[i].edits]
           lostCh == [i \in 1..n |-> ts[i].omitted.chains]
           lostEd == [i \in 1..n |-> ts[i].omitted.edits]
           entries == [i \in 1..n |-> KeptEntries(ts[i]) + LostEntries(ts[i])]
<1>1. /\ c.providers \in Nat /\ c.ranks \in Nat /\ c.targets \in Seq(ChangeTargets)
      /\ n \in Nat /\ DOMAIN c.targets = 1..n /\ \A i \in 1..n : c.targets[i] \in ChangeTargets
  <2>1. c.providers \in Nat /\ c.ranks \in Nat /\ c.targets \in Seq(ChangeTargets)
    BY DEF ChangeRecords
  <2>. QED  BY <2>1, PositionFacts
<1>2. ASSUME NEW i \in 1..n
      PROVE  /\ ts[i] \in BoundTargets /\ ts[i].pending = c.targets[i].pending
             /\ Len(ts[i].chains) + ts[i].omitted.chains = Len(c.targets[i].chains)
             /\ ts[i].edits + ts[i].omitted.edits = c.targets[i].edits
             /\ KeptEntries(ts[i]) + LostEntries(ts[i])
                  = Total(SubSeq(c.targets[i].chains, 1, Min({Len(c.targets[i].chains), ChainLimit})))
  <2>1. ts[i] = BoundTarget(c.targets[i]) /\ c.targets[i] \in ChangeTargets
    BY <1>1
  <2>. QED  BY <2>1, BoundTargetFacts
<1>3. ts \in Seq(BoundTargets) /\ Len(ts) = n /\ DOMAIN ts = 1..n
  <2>1. DOMAIN ts = 1..n /\ ts = [i \in 1..n |-> ts[i]]
    BY <1>1
  <2> HIDE DEF ts, n
  <2>2. ts \in [1..n -> BoundTargets]
    BY <1>2, <2>1
  <2>. QED  BY <1>1, <2>2 DEF n
<1>4. kp \in Nat /\ op \in Nat /\ kp + op = c.providers /\ kr \in Nat /\ or \in Nat /\ kr + or = c.ranks
  <2>1. SharedLimit \in Nat
    BY HistoryAssumption
  <2>. QED  BY <1>1, <2>1, CutNumber
<1>5. /\ tpl.targets = ts /\ tpl.providers = kp /\ tpl.ranks = kr
      /\ tpl.omitted = [providers |-> op, ranks |-> or, chains |-> Total([i \in DOMAIN ts |-> ts[i].omitted.chains]),
                        entries |-> 0, edits |-> Total([i \in DOMAIN ts |-> ts[i].omitted.edits])]
  <2> HIDE DEF kp, op, kr, or, ts
  <2>1. /\ BoundShared(c.providers) = [kept |-> kp, omitted |-> op]
        /\ BoundShared(c.ranks) = [kept |-> kr, omitted |-> or]
    BY DEF BoundShared, kp, op, kr, or
  <2>. QED  BY <2>1 DEF BuildTemplate, ts
<1> HIDE DEF ts, kp, op, kr, or, tpl
<1>6. /\ full = [rev |-> rev, tier |-> "full", counts |-> Counts(ts), providers |-> kp, ranks |-> kr,
                 targets |-> ts, compact |-> <<>>, omitted |-> tpl.omitted]
      /\ tpl.omitted = [providers |-> op, ranks |-> or, chains |-> Total(lostCh), entries |-> 0,
                        edits |-> Total(lostEd)]
  BY <1>3, <1>5 DEF Full
<1>7. /\ shownCh \in [1..n -> Nat] /\ shownEd \in [1..n -> Nat] /\ lostCh \in [1..n -> Nat]
      /\ lostEd \in [1..n -> Nat] /\ entries \in [1..n -> Nat]
  BY <1>3, RecordSums
<1>8. /\ [i \in 1..n |-> shownCh[i] + lostCh[i]] = [i \in 1..n |-> Len(c.targets[i].chains)]
      /\ [i \in 1..n |-> shownEd[i] + lostEd[i]] = [i \in 1..n |-> c.targets[i].edits]
      /\ entries = [i \in 1..n |->
                      Total(SubSeq(c.targets[i].chains, 1, Min({Len(c.targets[i].chains), ChainLimit})))]
  BY <1>2
<1>9. /\ Shown(full) = [providers |-> kp, ranks |-> kr, chains |-> Total(shownCh), entries |-> Total(entries),
                        edits |-> Total(shownEd)]
  <2>1. full.targets = ts /\ full.providers = kp /\ full.ranks = kr
    BY <1>6
  <2> HIDE DEF full
  <2>. QED  BY <1>3, <2>1 DEF Shown
<1>10. There(c) = [providers |-> c.providers, ranks |-> c.ranks,
                   chains |-> Total([i \in 1..n |-> shownCh[i] + lostCh[i]]), entries |-> Total(entries),
                   edits |-> Total([i \in 1..n |-> shownEd[i] + lostEd[i]])]
  BY <1>1, <1>8 DEF There
<1> HIDE DEF shownCh, shownEd, lostCh, lostEd, entries, full
<1>11. /\ Total(shownCh) \in Nat /\ Total(lostCh) \in Nat /\ Total(shownEd) \in Nat /\ Total(lostEd) \in Nat
       /\ Total(entries) \in Nat
       /\ Total([i \in 1..n |-> shownCh[i] + lostCh[i]]) = Total(shownCh) + Total(lostCh)
       /\ Total([i \in 1..n |-> shownEd[i] + lostEd[i]]) = Total(shownEd) + Total(lostEd)
  BY <1>1, <1>7, SeqTotal
<1>12. /\ Counts(ts) \in Tallies /\ Counts(ts).total = n /\ Counts(ts).omitted = 0
       /\ Counts(ts).pending = Cardinality({i \in DOMAIN c.targets : c.targets[i].pending})
  <2>1. {i \in DOMAIN ts : ts[i].pending} = {i \in DOMAIN c.targets : c.targets[i].pending}
    BY <1>1, <1>2, <1>3
  <2>2. /\ Counts(ts) \in Tallies
        /\ Counts(ts) = [total |-> Len(ts), applied |-> Len(ts) - Cardinality({i \in DOMAIN ts : ts[i].pending}),
                         pending |-> Cardinality({i \in DOMAIN ts : ts[i].pending}), omitted |-> 0]
    BY <1>3, PendingFacts
  <2>3. /\ Counts(ts).total = Len(ts) /\ Counts(ts).omitted = 0
        /\ Counts(ts).pending = Cardinality({i \in DOMAIN ts : ts[i].pending})
    BY <2>2
  <2>. QED  BY <1>3, <2>1, <2>2, <2>3, Zenon
<1>13. full.omitted \in Omissions
  BY <1>4, <1>6, <1>11 DEF Omissions
<1>14. full \in Records
  <2>1. <<>> \in Seq(Outcomes)
    OBVIOUS
  <2>. QED  BY <1>3, <1>4, <1>6, <1>12, <1>13, <2>1 DEF Records
<1>15. Accounts(full, c)
  <2>1. /\ full.counts = Counts(ts) /\ full.targets = ts /\ full.compact = <<>>
        /\ full.omitted = [providers |-> op, ranks |-> or, chains |-> Total(lostCh), entries |-> 0,
                           edits |-> Total(lostEd)]
    BY <1>6
  <2>2. full.counts.omitted + Len(full.targets) + Len(full.compact) = n
    BY <1>1, <1>3, <1>12, <2>1
  <2>3. /\ Shown(full)["providers"] + full.omitted["providers"] = There(c)["providers"]
        /\ Shown(full)["ranks"] + full.omitted["ranks"] = There(c)["ranks"]
    BY <1>4, <1>9, <1>10, <2>1
  <2>4. Shown(full)["chains"] + full.omitted["chains"] = There(c)["chains"]
    BY <1>9, <1>10, <1>11, <2>1
  <2>5. Shown(full)["entries"] + full.omitted["entries"] = There(c)["entries"]
    BY <1>9, <1>10, <1>11, <2>1
  <2>6. Shown(full)["edits"] + full.omitted["edits"] = There(c)["edits"]
    BY <1>9, <1>10, <1>11, <2>1
  <2>7. /\ There(c)["providers"] \in Nat /\ There(c)["ranks"] \in Nat /\ There(c)["chains"] \in Nat
        /\ There(c)["entries"] \in Nat /\ There(c)["edits"] \in Nat
    <3>1. /\ There(c)["providers"] = c.providers /\ There(c)["ranks"] = c.ranks
          /\ There(c)["chains"] = Total([i \in 1..n |-> shownCh[i] + lostCh[i]])
          /\ There(c)["entries"] = Total(entries)
          /\ There(c)["edits"] = Total([i \in 1..n |-> shownEd[i] + lostEd[i]])
      BY <1>10
    <3>2. c.providers \in Nat /\ c.ranks \in Nat
      BY <1>1
    <3>3. Total(shownCh) + Total(lostCh) \in Nat /\ Total(shownEd) + Total(lostEd) \in Nat
      BY <1>11
    <3>. QED  BY <1>11, <3>1, <3>2, <3>3
  <2>8. /\ Shown(full)["providers"] + full.omitted["providers"] >= There(c)["providers"]
        /\ Shown(full)["ranks"] + full.omitted["ranks"] >= There(c)["ranks"]
        /\ Shown(full)["chains"] + full.omitted["chains"] >= There(c)["chains"]
        /\ Shown(full)["entries"] + full.omitted["entries"] >= There(c)["entries"]
        /\ Shown(full)["edits"] + full.omitted["edits"] >= There(c)["edits"]
    <3>1. \A x, y \in Nat : x = y => x >= y
      OBVIOUS
    <3>. QED  BY <2>3, <2>4, <2>5, <2>6, <2>7, <3>1, Zenon
  <2>9. full.counts.total = n /\ full.counts.pending = Cardinality({i \in DOMAIN c.targets : c.targets[i].pending})
    BY <1>12, <2>1
  <2>. QED  BY <2>2, <2>3, <2>4, <2>5, <2>6, <2>8, <2>9, AccountsParts, Zenon
<1>16. full.tier = "full" /\ full.rev = rev /\ full.compact = <<>> /\ full.counts = Counts(full.targets)
  BY <1>6
<1>. QED  BY <1>14, <1>15, <1>16 DEF full, tpl

\* The encoded length of a record is a natural number.
LEMMA EncodedNat ==
  ASSUME NEW r \in Records
  PROVE  EncodedRecord(r) \in Nat
<1> DEFINE n == Len(r.targets)
           w == [i \in 1..n |-> 1 + Len(r.targets[i].chains) + KeptEntries(r.targets[i]) + r.targets[i].edits]
<1>1. r.targets \in Seq(BoundTargets) /\ r.providers \in Nat /\ r.ranks \in Nat /\ Len(r.compact) \in Nat
  <2>1. r.targets \in Seq(BoundTargets) /\ r.providers \in Nat /\ r.ranks \in Nat /\ r.compact \in Seq(Outcomes)
    BY DEF Records
  <2>. QED  BY <2>1
<1>2. n \in Nat /\ DOMAIN r.targets = 1..n /\ w \in [1..n -> Nat]
  BY <1>1, RecordSums
<1>3. EncodedRecord(r) = 1 + r.providers + r.ranks + Len(r.compact) + Total(w)
  BY <1>2 DEF EncodedRecord
<1> HIDE DEF w, n
<1>4. Total(w) \in Nat
  BY <1>2, SeqTotal
<1>. QED  BY <1>1, <1>3, <1>4

\* What a function puts into different places is no more than there are.
LEMMA NoMore ==
  ASSUME NEW S, NEW T, IsFiniteSet(T), NEW f, \A x \in S : f[x] \in T,
         \A x, y \in S : f[x] = f[y] => x = y
  PROVE  IsFiniteSet(S) /\ Cardinality(S) \in Nat /\ Cardinality(T) \in Nat /\ Cardinality(S) <= Cardinality(T)
<1> DEFINE g == [x \in S |-> f[x]]
<1>1. g \in Injection(S, T)
  BY DEF Injection, IsInjective
<1>. QED  BY <1>1, FS_Injection, FS_CardinalityType

\* What is not in a part of a finite set.
LEMMA RestOf ==
  ASSUME NEW S, IsFiniteSet(S), NEW P \in SUBSET S
  PROVE  Cardinality(S \ P) = Cardinality(S) - Cardinality(P)
<1>1. S \cap P = P
  OBVIOUS
<1>2. Cardinality(S \ P) = Cardinality(S) - Cardinality(S \cap P)
  BY FS_Difference
<1>. QED  BY <1>1, <1>2

\* The first targets by name, with their outcomes.
LEMMA CompactFacts ==
  ASSUME NEW r \in Records
  PROVE  LET a == Aggregate(r)
             n == Len(r.targets)
             k == Min({n, TargetLimit}) IN
         /\ a = [rev |-> r.rev, tier |-> "aggregate", counts |-> [r.counts EXCEPT !.omitted = Excess(n, TargetLimit)],
                 providers |-> 0, ranks |-> 0, targets |-> <<>>, compact |-> a.compact, omitted |-> AllOmitted(r)]
         /\ a.compact \in Seq(Outcomes) /\ Len(a.compact) = k /\ k \in 0..n
         /\ \E at \in [1..n -> 1..n] :
              /\ \A i, j \in 1..n : at[i] = at[j] => i = j
              /\ \A i \in 1..k : a.compact[i].pending = r.targets[at[i]].pending
<1> DEFINE n == Len(r.targets)
           k == Min({n, TargetLimit})
           all == [i \in DOMAIN r.targets |-> [id |-> r.targets[i].id, pending |-> r.targets[i].pending]]
           ids == [i \in DOMAIN all |-> all[i].id]
           sorted == SortedBy(all, ids)
           compact == SubSeq(sorted, 1, k)
           a == Aggregate(r)
<1>1. n \in Nat /\ DOMAIN r.targets = 1..n /\ \A i \in 1..n : r.targets[i] \in BoundTargets
  <2>1. r.targets \in Seq(BoundTargets)
    BY DEF Records
  <2>. QED  BY <2>1, PositionFacts
<1>2. \A i \in 1..n : all[i] \in Outcomes /\ all[i].id \in Nat /\ all[i].pending = r.targets[i].pending
  BY <1>1 DEF BoundTargets, Outcomes
<1>3. DOMAIN all = 1..n /\ all = [i \in 1..n |-> all[i]]
  BY <1>1
<1> HIDE DEF all
<1>4. all \in Seq(Outcomes) /\ Len(all) = n
  <2>1. all \in [1..n -> Outcomes]
    BY <1>2, <1>3
  <2> HIDE DEF n
  <2>. QED  BY <1>1, <2>1
<1>5. \A i \in DOMAIN all : ids[i] \in Int
  <2> SUFFICES ASSUME NEW i \in DOMAIN all
               PROVE  ids[i] \in Int
    OBVIOUS
  <2>1. ids[i] = all[i].id
    OBVIOUS
  <2>2. all[i].id \in Nat
    BY <1>2, <1>3
  <2> HIDE DEF ids
  <2>. QED  BY <2>1, <2>2
<1> HIDE DEF ids
<1>6. /\ sorted \in Seq(Outcomes) /\ Len(sorted) = Len(all)
      /\ \E at \in [DOMAIN all -> DOMAIN all] : Sorting(all, ids, sorted, at)
  BY <1>4, <1>5, SortedByFacts
<1>7. PICK at \in [DOMAIN all -> DOMAIN all] :
        /\ \A i \in DOMAIN all : sorted[i] = all[at[i]]
        /\ \A i, j \in DOMAIN all : at[i] = at[j] => i = j
  BY <1>6 DEF Sorting
<1>8. k \in 0..n
  <2>1. TargetLimit \in Nat
    BY HistoryAssumption
  <2>. QED  BY <1>1, <2>1, CutNumber
<1>9. a = [rev |-> r.rev, tier |-> "aggregate", counts |-> [r.counts EXCEPT !.omitted = Excess(n, TargetLimit)],
           providers |-> 0, ranks |-> 0, targets |-> <<>>, compact |-> compact, omitted |-> AllOmitted(r)]
  <2>1. a = [rev |-> r.rev, tier |-> "aggregate",
             counts |-> [r.counts EXCEPT !.omitted = Excess(Len(sorted), TargetLimit)],
             providers |-> 0, ranks |-> 0, targets |-> <<>>,
             compact |-> SubSeq(sorted, 1, Min({Len(sorted), TargetLimit})), omitted |-> AllOmitted(r)]
    BY DEF Aggregate, all, ids
  <2> HIDE DEF sorted, a
  <2>. QED  BY <1>4, <1>6, <2>1
<1> HIDE DEF k, n, sorted, a
<1>10. compact \in Seq(Outcomes) /\ Len(compact) = k /\ \A i \in 1..k : compact[i] = sorted[i]
  BY <1>1, <1>4, <1>6, <1>8, SubSeqProperties
<1> HIDE DEF compact
<1>11. \A i \in 1..k : compact[i].pending = r.targets[at[i]].pending
  <2> SUFFICES ASSUME NEW i \in 1..k
               PROVE  compact[i].pending = r.targets[at[i]].pending
    OBVIOUS
  <2>1. i \in 1..n /\ at[i] \in 1..n
    BY <1>1, <1>3, <1>7, <1>8
  <2>2. compact[i] = all[at[i]]
    BY <1>3, <1>7, <1>10, <2>1
  <2>. QED  BY <1>2, <2>1, <2>2
<1>12. at \in [1..n -> 1..n] /\ \A i, j \in 1..n : at[i] = at[j] => i = j
  BY <1>3, <1>7
<1>13. a.compact = compact
  BY <1>9
<1>14. /\ a.compact \in Seq(Outcomes) /\ Len(a.compact) = k
       /\ \E f \in [1..n -> 1..n] :
            /\ \A i, j \in 1..n : f[i] = f[j] => i = j
            /\ \A i \in 1..k : a.compact[i].pending = r.targets[f[i]].pending
  BY <1>10, <1>11, <1>12, <1>13
<1>. QED  BY <1>8, <1>9, <1>13, <1>14 DEF a, k, n

\* An aggregate leaves out all that its record showed, and all that had left out.
LEMMA AllOmittedFacts ==
  ASSUME NEW r \in Records
  PROVE  /\ AllOmitted(r) \in Omissions
         /\ Shown(r) \in Omissions
         /\ \A part \in Parts : AllOmitted(r)[part] >= Shown(r)[part] + r.omitted[part]
<1> DEFINE n == Len(r.targets)
           shownCh == [i \in 1..n |-> Len(r.targets[i].chains)]
           shownEd == [i \in 1..n |-> r.targets[i].edits]
           lostCh == [i \in 1..n |-> r.targets[i].omitted.chains]
           lostEd == [i \in 1..n |-> r.targets[i].omitted.edits]
           entries == [i \in 1..n |-> KeptEntries(r.targets[i]) + LostEntries(r.targets[i])]
           bothCh == [i \in 1..n |-> shownCh[i] + lostCh[i]]
           bothEd == [i \in 1..n |-> shownEd[i] + lostEd[i]]
<1>1. r.targets \in Seq(BoundTargets) /\ r.providers \in Nat /\ r.ranks \in Nat /\ r.omitted \in Omissions
  BY DEF Records
<1>2. /\ n \in Nat /\ DOMAIN r.targets = 1..n
      /\ shownCh \in [1..n -> Nat] /\ shownEd \in [1..n -> Nat] /\ lostCh \in [1..n -> Nat]
      /\ lostEd \in [1..n -> Nat] /\ entries \in [1..n -> Nat]
  BY <1>1, RecordSums
<1>3. Shown(r) = [providers |-> r.providers, ranks |-> r.ranks, chains |-> Total(shownCh),
                  entries |-> Total(entries), edits |-> Total(shownEd)]
  BY <1>2 DEF Shown
<1>4. AllOmitted(r) =
        [providers |-> r.omitted.providers + r.providers, ranks |-> r.omitted.ranks + r.ranks,
         chains |-> r.omitted.chains + Total(bothCh), entries |-> r.omitted.entries + Total(entries),
         edits |-> r.omitted.edits + Total(bothEd)]
  <2>1. /\ bothCh = [i \in 1..n |-> Len(r.targets[i].chains) + r.targets[i].omitted.chains]
        /\ bothEd = [i \in 1..n |-> r.targets[i].edits + r.targets[i].omitted.edits]
    OBVIOUS
  <2>. QED  BY <1>2, <2>1 DEF AllOmitted
<1> HIDE DEF shownCh, shownEd, lostCh, lostEd, entries
<1>5. Total(bothCh) = Total(shownCh) + Total(lostCh) /\ Total(shownCh) \in Nat /\ Total(lostCh) \in Nat
  BY <1>2, SeqTotal
<1>6. Total(bothEd) = Total(shownEd) + Total(lostEd) /\ Total(shownEd) \in Nat /\ Total(lostEd) \in Nat
  BY <1>2, SeqTotal
<1>7. Total(entries) \in Nat
  BY <1>2, SeqTotal
<1> HIDE DEF bothCh, bothEd
<1>8. /\ r.omitted.providers \in Nat /\ r.omitted.ranks \in Nat /\ r.omitted.chains \in Nat
      /\ r.omitted.entries \in Nat /\ r.omitted.edits \in Nat
  BY <1>1 DEF Omissions
<1>9. AllOmitted(r) \in Omissions /\ Shown(r) \in Omissions
  <2>1. Shown(r) \in Omissions
    BY <1>1, <1>3, <1>5, <1>6, <1>7 DEF Omissions
  <2>7. \A x, y \in Nat : x + y \in Nat
    OBVIOUS
  <2>2. r.omitted.providers + r.providers \in Nat /\ r.omitted.ranks + r.ranks \in Nat
    BY <1>1, <1>8, <2>7, Zenon
  <2>6. r.omitted.entries + Total(entries) \in Nat
    BY <1>7, <1>8, <2>7, Zenon
  <2>4. r.omitted.chains + Total(bothCh) \in Nat
    BY <1>5, <1>8
  <2>5. r.omitted.edits + Total(bothEd) \in Nat
    BY <1>6, <1>8
  <2>3. AllOmitted(r) \in Omissions
    BY <1>4, <2>2, <2>4, <2>5, <2>6 DEF Omissions
  <2>. QED  BY <2>1, <2>3
<1>10. /\ AllOmitted(r)["providers"] >= Shown(r)["providers"] + r.omitted["providers"]
       /\ AllOmitted(r)["ranks"] >= Shown(r)["ranks"] + r.omitted["ranks"]
       /\ AllOmitted(r)["entries"] >= Shown(r)["entries"] + r.omitted["entries"]
  <2>1. /\ AllOmitted(r).providers = r.omitted.providers + r.providers /\ Shown(r).providers = r.providers
        /\ AllOmitted(r).ranks = r.omitted.ranks + r.ranks /\ Shown(r).ranks = r.ranks
        /\ AllOmitted(r).entries = r.omitted.entries + Total(entries) /\ Shown(r).entries = Total(entries)
    BY <1>3, <1>4
  <2>2. r.omitted.providers + r.providers >= r.providers + r.omitted.providers
    BY <1>1, <1>8
  <2>3. r.omitted.ranks + r.ranks >= r.ranks + r.omitted.ranks
    BY <1>1, <1>8
  <2>4. r.omitted.entries + Total(entries) >= Total(entries) + r.omitted.entries
    BY <1>7, <1>8
  <2>. QED  BY <2>1, <2>2, <2>3, <2>4
<1>11. AllOmitted(r)["chains"] >= Shown(r)["chains"] + r.omitted["chains"]
  BY <1>3, <1>4, <1>5, <1>8
<1>12. AllOmitted(r)["edits"] >= Shown(r)["edits"] + r.omitted["edits"]
  BY <1>3, <1>4, <1>6, <1>8
<1>. QED  BY <1>9, <1>10, <1>11, <1>12 DEF Parts

\* A record in full as it is made and as it is kept.
IsFull(r) == r.tier = "full" /\ r.counts = Counts(r.targets) /\ r.compact = <<>>

\* An aggregate is a record, of the same revision, and accounts for all its record
\* accounted for.
LEMMA AggregateFacts ==
  ASSUME NEW r \in Records, IsFull(r)
  PROVE  LET a == Aggregate(r) IN
         /\ a \in Records /\ a.rev = r.rev /\ a.tier = "aggregate"
         /\ \A c \in ChangeRecords : Accounts(r, c) => Accounts(a, c)
<1> DEFINE a == Aggregate(r)
           n == Len(r.targets)
           k == Min({n, TargetLimit})
           over == Excess(n, TargetLimit)
<1>1. /\ r.targets \in Seq(BoundTargets) /\ n \in Nat /\ r.counts \in Tallies /\ r.rev \in Nat
      /\ r.counts = Counts(r.targets) /\ r.compact = <<>> /\ r.tier = "full"
  BY DEF Records, IsFull
<1>2. k \in Nat /\ over \in Nat /\ k + over = n
  <2>1. TargetLimit \in Nat
    BY HistoryAssumption
  <2>. QED  BY <1>1, <2>1, CutNumber
<1>3. /\ a = [rev |-> r.rev, tier |-> "aggregate", counts |-> [r.counts EXCEPT !.omitted = over],
              providers |-> 0, ranks |-> 0, targets |-> <<>>, compact |-> a.compact, omitted |-> AllOmitted(r)]
      /\ a.compact \in Seq(Outcomes) /\ Len(a.compact) = k
  BY CompactFacts
<1>4. AllOmitted(r) \in Omissions /\ Shown(r) \in Omissions /\ r.omitted \in Omissions
  BY AllOmittedFacts DEF Records
<1> HIDE DEF a, k, over
<1>5. /\ a.rev = r.rev /\ a.tier = "aggregate" /\ a.counts = [r.counts EXCEPT !.omitted = over]
      /\ a.providers = 0 /\ a.ranks = 0 /\ a.targets = <<>> /\ a.omitted = AllOmitted(r)
  BY <1>3
<1>6. /\ a.counts \in Tallies /\ a.counts.total = r.counts.total /\ a.counts.pending = r.counts.pending
      /\ a.counts.omitted = over
  BY <1>1, <1>2, <1>5 DEF Tallies
<1>7. a \in Records
  <2>1. <<>> \in Seq(BoundTargets)
    OBVIOUS
  <2>. QED  BY <1>1, <1>3, <1>4, <1>6, <2>1 DEF Records
<1>8. /\ Shown(a) \in Omissions /\ \A part \in Parts : Shown(a)[part] >= 0
  <2>1. Shown(a) \in Omissions
    BY <1>7, AllOmittedFacts
  <2>. QED  BY <2>1 DEF Omissions, Parts
<1>9. r.counts.total = n /\ r.counts.omitted = 0
  BY <1>1 DEF Counts
<1>10. ASSUME NEW c \in ChangeRecords, Accounts(r, c)
       PROVE  Accounts(a, c)
  <2>1. /\ r.counts.total = Len(c.targets)
        /\ r.counts.pending = Cardinality({i \in DOMAIN c.targets : c.targets[i].pending})
        /\ \A part \in Parts : Shown(r)[part] + r.omitted[part] >= There(c)[part]
        /\ \A part \in Parts : Shown(r)[part] + r.omitted[part] = There(c)[part]
    <3>1. DOMAIN There(c) = Parts
      BY AccountsParts
    <3>. QED  BY <1>1, <1>10, <3>1 DEF Accounts
  <2>2. a.counts.omitted + Len(a.targets) + Len(a.compact) = Len(c.targets)
    BY <1>2, <1>3, <1>5, <1>6, <1>9, <2>1
  <2>3. ASSUME NEW part \in Parts
        PROVE  Shown(a)[part] + a.omitted[part] >= There(c)[part]
    <3>1. /\ a.omitted[part] >= Shown(r)[part] + r.omitted[part]
          /\ Shown(r)[part] + r.omitted[part] = There(c)[part]
      BY <1>5, <2>1, AllOmittedFacts
    <3>2. Shown(r)[part] \in Nat /\ r.omitted[part] \in Nat /\ Shown(a)[part] \in Nat /\ a.omitted[part] \in Nat
      BY <1>4, <1>5, <1>8 DEF Omissions, Parts
    <3>. QED  BY <3>1, <3>2
  <2>. QED  BY <1>5, <1>6, <2>1, <2>2, <2>3, AccountsParts DEF Accounts
<1>. QED  BY <1>5, <1>7, <1>10 DEF a

\* A full record that is valid stays so as an aggregate.
LEMMA AggregateValid ==
  ASSUME NEW r \in Records, r.tier = "full", RecordValid(r)
  PROVE  IsFull(r) /\ RecordValid(Aggregate(r)) /\ EncodedRecord(Aggregate(r)) <= EncodedRecord(r)
<1> DEFINE a == Aggregate(r)
           n == Len(r.targets)
           k == Min({n, TargetLimit})
           over == Excess(n, TargetLimit)
           w == [i \in 1..n |-> 1 + Len(r.targets[i].chains) + KeptEntries(r.targets[i]) + r.targets[i].edits]
           one == [i \in 1..n |-> 1]
           P == {i \in 1..k : a.compact[i].pending}
           Q == {i \in 1..n : r.targets[i].pending}
<1>1. /\ r.targets \in Seq(BoundTargets) /\ n \in Nat /\ DOMAIN r.targets = 1..n /\ r.counts \in Tallies
      /\ r.rev \in Nat /\ r.providers \in Nat /\ r.ranks \in Nat /\ TargetLimit \in Nat
  BY HistoryAssumption DEF Records
<1>2. /\ r.rev > 0 /\ r.counts = Counts(r.targets) /\ r.compact = <<>> /\ EncodedRecord(r) <= RecordBytes
  BY DEF RecordValid, CountsValid
<1>3. k \in 0..n /\ over \in Nat /\ k + over = n /\ k <= TargetLimit
  BY <1>1, CutNumber
<1>4. /\ a = [rev |-> r.rev, tier |-> "aggregate", counts |-> [r.counts EXCEPT !.omitted = over],
              providers |-> 0, ranks |-> 0, targets |-> <<>>, compact |-> a.compact, omitted |-> AllOmitted(r)]
      /\ a.compact \in Seq(Outcomes) /\ Len(a.compact) = k
      /\ \E at \in [1..n -> 1..n] :
           /\ \A i, j \in 1..n : at[i] = at[j] => i = j
           /\ \A i \in 1..k : a.compact[i].pending = r.targets[at[i]].pending
  BY CompactFacts
<1>5. PICK at \in [1..n -> 1..n] :
        /\ \A i, j \in 1..n : at[i] = at[j] => i = j
        /\ \A i \in 1..k : a.compact[i].pending = r.targets[at[i]].pending
  BY <1>4
<1>6. IsFull(r)
  BY <1>2 DEF IsFull
<1>7. a \in Records
  BY <1>6, AggregateFacts
<1> HIDE DEF a, k, over
<1>8. /\ a.rev = r.rev /\ a.tier = "aggregate" /\ a.counts = [r.counts EXCEPT !.omitted = over]
      /\ a.providers = 0 /\ a.ranks = 0 /\ a.targets = <<>>
  BY <1>4
<1>9. /\ Cardinality(P) \in Nat /\ Cardinality(Q) \in Nat
      /\ Cardinality(P) <= Cardinality(Q) /\ k - Cardinality(P) <= n - Cardinality(Q)
  <2>1. /\ P \in SUBSET (1..k) /\ Q \in SUBSET (1..n)
        /\ \A i \in P : at[i] \in Q
        /\ \A i \in 1..k \ P : at[i] \in 1..n \ Q
        /\ \A i, j \in 1..k : at[i] = at[j] => i = j
    BY <1>3, <1>5, SMTT(30)
  <2> HIDE DEF P, Q, n
  <2>n. n \in Nat /\ k \in Nat
    BY <1>1, <1>3
  <2>2. IsFiniteSet(1..n) /\ Cardinality(1..n) = n /\ IsFiniteSet(1..k) /\ Cardinality(1..k) = k
    BY ONLY <2>n, FS_Interval
  <2>3. IsFiniteSet(Q) /\ IsFiniteSet(1..n \ Q)
    BY ONLY <2>1, <2>2, FS_Subset
  <2>4. Cardinality(P) \in Nat /\ Cardinality(Q) \in Nat /\ Cardinality(P) <= Cardinality(Q)
    <3>1. (\A i \in P : at[i] \in Q) /\ \A i, j \in P : at[i] = at[j] => i = j
      BY <2>1
    <3>. QED  BY ONLY <2>3, <3>1, NoMore
  <2>5. Cardinality(1..k \ P) <= Cardinality(1..n \ Q)
    <3>1. (\A i \in 1..k \ P : at[i] \in 1..n \ Q) /\ \A i, j \in 1..k \ P : at[i] = at[j] => i = j
      BY <2>1
    <3>. QED  BY ONLY <2>3, <3>1, NoMore
  <2>6. Cardinality(1..k \ P) = k - Cardinality(P)
    BY ONLY <2>1, <2>2, RestOf
  <2>7. Cardinality(1..n \ Q) = n - Cardinality(Q)
    BY ONLY <2>1, <2>2, RestOf
  <2>. QED  BY <2>4, <2>5, <2>6, <2>7
<1>10. /\ r.counts = [total |-> n, applied |-> n - Cardinality(Q), pending |-> Cardinality(Q), omitted |-> 0]
       /\ Counts(a.compact) = [total |-> k, applied |-> k - Cardinality(P), pending |-> Cardinality(P), omitted |-> 0]
  <2>1. DOMAIN a.compact = 1..k
    BY <1>4
  <2>. QED  BY <1>1, <1>2, <1>4, <2>1 DEF Counts
<1> HIDE DEF P, Q
<1>11. a.counts = [total |-> n, applied |-> n - Cardinality(Q), pending |-> Cardinality(Q), omitted |-> over]
  BY <1>8, <1>10
<1>12. CountsValid(a)
  <2>1. a.counts.total = a.counts.applied + a.counts.pending /\ a.counts.omitted <= a.counts.total
    BY <1>1, <1>3, <1>9, <1>11
  <2>2. a.counts.omitted = a.counts.total - Len(a.compact)
    BY <1>1, <1>3, <1>4, <1>11
  <2>3. Counts(a.compact).applied <= a.counts.applied /\ Counts(a.compact).pending <= a.counts.pending
    BY <1>9, <1>10, <1>11
  <2>. QED  BY <1>8, <2>1, <2>2, <2>3 DEF CountsValid
<1>13. EncodedRecord(a) = 1 + k
  <2>1. DOMAIN a.targets = {} /\ Len(a.compact) = k
    BY <1>4, <1>8
  <2>2. Total([i \in DOMAIN a.targets |->
                 1 + Len(a.targets[i].chains) + KeptEntries(a.targets[i]) + a.targets[i].edits]) = 0
    BY <2>1, EmptyTotal
  <2>3. EncodedRecord(a) = 1 + 0 + 0 + k + 0
    BY <1>8, <2>1, <2>2 DEF EncodedRecord
  <2>. QED  BY <1>3, <2>3
<1>14. w \in [1..n -> Nat] /\ \A i \in 1..n : w[i] >= 1
  BY <1>1, RecordSums
<1>15. EncodedRecord(r) = 1 + r.providers + r.ranks + 0 + Total(w)
  BY <1>1, <1>2 DEF EncodedRecord
<1>16. n <= Total(w) /\ Total(w) \in Nat
  <2>1. one \in [1..n -> Nat] /\ \A i \in 1..n : one[i] <= w[i]
    BY <1>14
  <2>2. Total(one) = n
    <3> HIDE DEF n
    <3>n. n \in Nat
      BY <1>1
    <3>1. IsFiniteSet(1..n) /\ Cardinality(1..n) = IF 1 > n THEN 0 ELSE n - 1 + 1
      BY ONLY <3>n, FS_Interval
    <3>2. Total(one) = Cardinality(1..n)
      BY <3>1, TotalOnes
    <3>. QED  BY <1>1, <3>1, <3>2
  <2> HIDE DEF one, w
  <2>. QED  BY <1>1, <1>14, <2>1, <2>2, SeqTotal
<1> HIDE DEF w
<1>17. EncodedRecord(a) <= EncodedRecord(r)
  BY <1>1, <1>3, <1>13, <1>15, <1>16
<1>18. EncodedRecord(a) <= RecordBytes
  <2>1. EncodedRecord(a) \in Nat /\ EncodedRecord(r) \in Nat /\ RecordBytes \in Nat
    BY <1>7, EncodedNat, HistoryAssumption
  <2>. QED  BY <1>2, <1>17, <2>1
<1>19. RecordValid(a)
  BY <1>2, <1>3, <1>4, <1>8, <1>12, <1>18 DEF RecordValid
<1>. QED  BY <1>6, <1>17, <1>19 DEF a

-----------------------------------------------------------------------------
(***************************************************************************)
(* The reconcile history.                                                  *)
(***************************************************************************)
\* A record that is valid and accounts for what its revision had to record.
RecordInv(r, of) ==
  /\ r \in Records /\ r.rev \in 1..MaxRev /\ RecordValid(r)
  /\ of[r.rev] \in ChangeRecords /\ Accounts(r, of[r.rev])

\* Records newest first, one for each revision.
RecordsInv(rs, of) ==
  /\ rs \in Seq(Records)
  /\ \A i \in 1..Len(rs) : RecordInv(rs[i], of)
  /\ \A i, j \in 1..Len(rs) : i < j => rs[i].rev > rs[j].rev

\* And within the limits.
BoundedInv(rs, of) ==
  /\ RecordsInv(rs, of) /\ Len(rs) <= RecordLimit /\ EncodedRecords(rs) <= HistoryBytes

\* The encoded length of records is a natural number; no records have none.
LEMMA EncodedRecordsNat ==
  /\ \A rs \in Seq(Records) : EncodedRecords(rs) \in Nat
  /\ EncodedRecords(<<>>) = 0
<1>1. ASSUME NEW rs \in Seq(Records)
      PROVE  EncodedRecords(rs) \in Nat
  <2> DEFINE n == Len(rs)
             w == [i \in 1..n |-> EncodedRecord(rs[i])]
  <2>1. n \in Nat /\ DOMAIN rs = 1..n /\ \A i \in 1..n : rs[i] \in Records
    BY PositionFacts
  <2>2. EncodedRecords(rs) = Total(w)
    BY <2>1 DEF EncodedRecords
  <2> HIDE DEF n
  <2>3. \A i \in 1..n : EncodedRecord(rs[i]) \in Nat
    BY <2>1, EncodedNat
  <2>4. w \in [1..n -> Nat]
    BY <2>3
  <2> HIDE DEF w
  <2>5. Total(w) \in Nat
    BY <2>1, <2>4, SeqTotal
  <2>. QED  BY <2>2, <2>5
<1>2. EncodedRecords(<<>>) = 0
  <2>1. DOMAIN <<>> = {}
    OBVIOUS
  <2>. QED  BY <2>1, EmptyTotal DEF EncodedRecords
<1>. QED  BY <1>1, <1>2

\* The first records of a history are one.
LEMMA FirstInv ==
  ASSUME NEW rs, NEW of, RecordsInv(rs, of), NEW n \in 0..Len(rs)
  PROVE  RecordsInv(SubSeq(rs, 1, n), of) /\ Len(SubSeq(rs, 1, n)) = n
<1> DEFINE cut == SubSeq(rs, 1, n)
<1>1. rs \in Seq(Records) /\ Len(rs) \in Nat
  BY DEF RecordsInv
<1>2. cut \in Seq(Records) /\ Len(cut) = n /\ \A i \in 1..n : cut[i] = rs[i]
  BY <1>1, SubSeqProperties
<1> HIDE DEF cut
<1>3. RecordsInv(cut, of)
  BY <1>1, <1>2 DEF RecordsInv
<1>. QED  BY <1>2, <1>3 DEF cut

\* A record in full and its aggregate account for the same.
LEMMA AggregateInv ==
  ASSUME NEW r, NEW of, RecordInv(r, of), r.tier = "full"
  PROVE  RecordInv(Aggregate(r), of) /\ Aggregate(r).rev = r.rev
<1> DEFINE a == Aggregate(r)
<1>1. r \in Records /\ r.rev \in 1..MaxRev /\ RecordValid(r) /\ of[r.rev] \in ChangeRecords
      /\ Accounts(r, of[r.rev])
  BY DEF RecordInv
<1>2. IsFull(r) /\ RecordValid(a)
  BY <1>1, AggregateValid
<1>3. a \in Records /\ a.rev = r.rev /\ \A c \in ChangeRecords : Accounts(r, c) => Accounts(a, c)
  BY <1>1, <1>2, AggregateFacts
<1> HIDE DEF a
<1>4. RecordInv(a, of)
  BY <1>1, <1>2, <1>3 DEF RecordInv
<1>. QED  BY <1>3, <1>4 DEF a

\* A history stays one when its oldest records are aggregated.
LEMMA AggregateOldestInv ==
  ASSUME NEW rs, NEW of, RecordsInv(rs, of), NEW k
  PROVE  RecordsInv(AggregateOldest(rs, k), of) /\ Len(AggregateOldest(rs, k)) = Len(rs)
<1> DEFINE new == AggregateOldest(rs, k)
           n == Len(rs)
<1>1. /\ rs \in Seq(Records) /\ n \in Nat /\ DOMAIN rs = 1..n /\ \A i \in 1..n : RecordInv(rs[i], of)
      /\ \A i, j \in 1..n : i < j => rs[i].rev > rs[j].rev
  <2>1. rs \in Seq(Records)
    BY DEF RecordsInv
  <2>. QED  BY <2>1, PositionFacts DEF RecordsInv
<1>2. \A i \in 1..n : new[i] = rs[i] \/ (rs[i].tier = "full" /\ new[i] = Aggregate(rs[i]))
  BY <1>1 DEF AggregateOldest
<1>3. DOMAIN new = 1..n /\ new = [i \in 1..n |-> new[i]]
  BY <1>1 DEF AggregateOldest
<1> HIDE DEF new, n
<1>4. ASSUME NEW i \in 1..n
      PROVE  RecordInv(new[i], of) /\ new[i].rev = rs[i].rev
  <2>1. CASE new[i] = rs[i]
    BY <1>1, <2>1
  <2>2. CASE rs[i].tier = "full" /\ new[i] = Aggregate(rs[i])
    BY <1>1, <2>2, AggregateInv
  <2>. QED  BY <1>2, <2>1, <2>2
<1>5. new \in Seq(Records) /\ Len(new) = n
  <2>1. \A i \in 1..n : new[i] \in Records
    BY <1>4 DEF RecordInv
  <2>2. new \in [1..n -> Records]
    BY <1>3, <2>1
  <2>. QED  BY <1>1, <2>2
<1>6. \A i, j \in 1..n : i < j => new[i].rev > new[j].rev
  BY <1>1, <1>4
<1>7. RecordsInv(new, of)
  BY <1>4, <1>5, <1>6 DEF RecordsInv
<1>. QED  BY <1>5, <1>7 DEF new, n

\* BoundHistory makes a history fit, also when that takes more than aggregates.
LEMMA BoundHistoryInv ==
  ASSUME NEW rs, NEW of, RecordsInv(rs, of), Len(rs) <= RecordLimit, NEW gone
  PROVE  BoundedInv(BoundHistory(rs, gone).records, of)
<1> DEFINE n == Len(rs)
           cost(k) == EncodedRecords(AggregateOldest(rs, k))
           all == AggregateOldest(rs, n)
           first(m) == EncodedRecords(SubSeq(all, 1, m))
           F == {k \in 0..n : cost(k) <= HistoryBytes}
           S == {m \in 0..n : first(m) <= HistoryBytes}
           m0 == CHOOSE m \in 0..n : first(m) <= HistoryBytes /\ \A j \in m + 1..n : first(j) > HistoryBytes
           b == BoundHistory(rs, gone)
<1>1. n \in Nat /\ n <= RecordLimit /\ RecordLimit \in Nat /\ HistoryBytes \in Nat
  <2>1. rs \in Seq(Records)
    BY DEF RecordsInv
  <2>. QED  BY <2>1, HistoryAssumption
<1>2. b.records = IF \E k \in 0..n : cost(k) <= HistoryBytes
                  THEN AggregateOldest(rs, Min(F)) ELSE SubSeq(all, 1, m0)
  BY DEF BoundHistory
<1>3. RecordsInv(all, of) /\ Len(all) = n
  BY AggregateOldestInv
<1>4. CASE \E k \in 0..n : cost(k) <= HistoryBytes
  <2>1. F \in SUBSET Nat /\ F # {}
    BY <1>1, <1>4
  <2>2. Min(F) \in F
    <3> HIDE DEF F
    <3>. QED  BY <2>1, LeastNat
  <2>3. cost(Min(F)) <= HistoryBytes
    BY <2>2
  <2> HIDE DEF F
  <2>4. RecordsInv(AggregateOldest(rs, Min(F)), of) /\ Len(AggregateOldest(rs, Min(F))) = n
    BY AggregateOldestInv
  <2>5. b.records = AggregateOldest(rs, Min(F))
    BY <1>2, <1>4
  <2> HIDE DEF b
  <2>. QED  BY <1>1, <2>3, <2>4, <2>5 DEF BoundedInv, b
<1>5. CASE ~ \E k \in 0..n : cost(k) <= HistoryBytes
  <2>1. b.records = SubSeq(all, 1, m0)
    BY <1>2, <1>5
  <2> HIDE DEF all, b
  <2>2. \A m \in 0..n : RecordsInv(SubSeq(all, 1, m), of) /\ Len(SubSeq(all, 1, m)) = m
    BY <1>3, FirstInv
  <2>3. \A m \in 0..n : first(m) \in Nat
    <3>1. \A m \in 0..n : SubSeq(all, 1, m) \in Seq(Records)
      BY <2>2 DEF RecordsInv
    <3>. QED  BY <3>1, EncodedRecordsNat
  <2>4. first(0) = 0
    <3>1. SubSeq(all, 1, 0) = <<>>
      <4>1. Len(SubSeq(all, 1, 0)) = 0 /\ SubSeq(all, 1, 0) \in Seq(Records)
        BY <1>1, <2>2 DEF RecordsInv
      <4>. QED  BY <4>1, EmptySeq
    <3>. QED  BY <3>1, EncodedRecordsNat
  <2> HIDE DEF first
  <2>5. S \in SUBSET (0..n) /\ S # {}
    BY <1>1, <2>4
  <2>6. PICK m \in S : \A k \in S : k <= m
    <3> HIDE DEF S, n
    <3>. QED  BY <1>1, <2>5, GreatestUpTo
  <2>7. first(m) <= HistoryBytes /\ \A j \in m + 1..n : first(j) > HistoryBytes
    <3>1. m \in 0..n /\ first(m) <= HistoryBytes
      BY <2>6
    <3>2. ASSUME NEW j \in m + 1..n
          PROVE  first(j) > HistoryBytes
      <4>1. j \in 0..n /\ j > m
        BY <1>1, <3>1
      <4>2. j \notin S
        BY <2>6, <3>1, <4>1
      <4>. QED  BY <1>1, <2>3, <4>1, <4>2
    <3>. QED  BY <3>1, <3>2
  <2>8. m0 \in 0..n /\ first(m0) <= HistoryBytes
    BY <2>6, <2>7
  <2> HIDE DEF m0
  <2>. QED  BY <1>1, <2>1, <2>2, <2>8 DEF BoundedInv, first, b
<1>. QED  BY <1>4, <1>5

\* A record is put in its place, before those of the same revision are taken out.
LEMMA AppendRecordInv ==
  ASSUME NEW copy, NEW of, RecordsInv(copy.records, of), DOMAIN of = 1..MaxRev,
         DOMAIN copy = CopyFields,
         NEW r \in Records, r.rev \in 1..MaxRev, RecordValid(r),
         NEW c \in ChangeRecords, Accounts(r, c)
  PROVE  BoundedInv(AppendRecord(copy, r).records, [of EXCEPT ![r.rev] = c])
<1> DEFINE with == [of EXCEPT ![r.rev] = c]
           old == copy.records
           Other == {o \in ToSet(old) : o.rev # r.rev}
           others == Among(old, Other)
           all == <<r>> \o others
           key == [i \in DOMAIN all |-> -all[i].rev]
           sorted == SortedBy(all, key)
           n == Len(sorted)
           k == Min({n, RecordLimit})
           newest == SubSeq(sorted, 1, k)
<1>1. /\ old \in Seq(Records) /\ Len(old) \in Nat /\ DOMAIN old = 1..Len(old)
      /\ \A i \in 1..Len(old) : RecordInv(old[i], of)
      /\ \A i, j \in 1..Len(old) : i < j => old[i].rev > old[j].rev
      /\ ToSet(old) = {old[i] : i \in 1..Len(old)}
  <2>1. old \in Seq(Records) /\ DOMAIN old = 1..Len(old) /\ Len(old) \in Nat
    BY DEF RecordsInv
  <2>. QED  BY <2>1 DEF RecordsInv, ToSet
<1>2. AppendRecord(copy, r).records = BoundHistory(newest, copy.gone).records
  <2>1. AppendRecord(copy, r)
          = [copy EXCEPT !.records = BoundHistory(newest, copy.gone).records,
                         !.gone = BoundHistory(newest, copy.gone).gone]
    BY DEF AppendRecord
  <2> HIDE DEF newest
  <2>. QED  BY <2>1 DEF CopyFields
<1> HIDE DEF old
<1>3. others \in Seq(Records) /\ ToSet(others) = ToSet(old) \cap Other
  BY <1>1, AmongFacts
<1>4. \A i, j \in 1..Len(others) : i < j => others[i].rev > others[j].rev
  <2> DEFINE R == {p \in Records \X Records : p[1].rev > p[2].rev}
  <2>1. \A i, j \in 1..Len(old) : i < j => <<old[i], old[j]>> \in R
    BY <1>1 DEF RecordInv
  <2> HIDE DEF R
  <2>2. \A i, j \in 1..Len(others) : i < j => <<others[i], others[j]>> \in R
    BY <1>1, <2>1, AmongOrder
  <2> HIDE DEF others
  <2>. QED  BY <2>2 DEF R
<1>5. ASSUME NEW i \in 1..Len(others)
      PROVE  RecordInv(others[i], with) /\ others[i].rev # r.rev
  <2>1. others[i] \in ToSet(others)
    <3> HIDE DEF others
    <3>1. DOMAIN others = 1..Len(others)
      BY <1>3
    <3>. QED  BY <3>1 DEF ToSet
  <2>2. others[i] \in ToSet(old) /\ others[i].rev # r.rev
    BY <1>3, <2>1
  <2> HIDE DEF others
  <2>3. RecordInv(others[i], of)
    BY <1>1, <2>2
  <2>4. with[others[i].rev] = of[others[i].rev]
    BY <2>2, <2>3 DEF RecordInv
  <2> HIDE DEF with
  <2>. QED  BY <2>2, <2>3, <2>4 DEF RecordInv
<1>6. RecordInv(r, with)
  <2>1. with[r.rev] = c
    OBVIOUS
  <2> HIDE DEF with
  <2>. QED  BY <2>1 DEF RecordInv
<1> HIDE DEF with, others
<1>7. /\ all \in Seq(Records) /\ Len(all) = Len(others) + 1 /\ Len(others) \in Nat
      /\ all[1] = r /\ \A i \in 2..Len(all) : all[i] = others[i - 1]
  <2>1. <<r>> \in Seq(Records) /\ Len(<<r>>) = 1
    OBVIOUS
  <2>. QED  BY <1>3, <2>1, ConcatProperties
<1> HIDE DEF all
<1>8. DOMAIN all = 1..Len(all) /\ Len(all) \in Nat
  BY <1>7
<1>9. ASSUME NEW i \in 1..Len(all)
      PROVE  RecordInv(all[i], with)
  <2>1. CASE i = 1
    BY <1>6, <1>7, <2>1
  <2>2. CASE i # 1
    <3>1. i \in 2..Len(all) /\ i - 1 \in 1..Len(others)
      BY <1>7, <2>2
    <3>. QED  BY <1>5, <1>7, <3>1
  <2>. QED  BY <2>1, <2>2
<1>10. \A i \in 1..Len(all) : all[i].rev \in Nat
  BY <1>9 DEF RecordInv
<1>11. ASSUME NEW i \in 1..Len(all), NEW j \in 1..Len(all), i < j
       PROVE  all[i].rev # all[j].rev
  <2>1. j \in 2..Len(all) /\ j - 1 \in 1..Len(others) /\ all[j] = others[j - 1]
    BY <1>7, <1>8, <1>11
  <2>2. CASE i = 1
    BY <1>5, <1>7, <2>1, <2>2
  <2>3. CASE i # 1
    <3>1. i - 1 \in 1..Len(others) /\ all[i] = others[i - 1] /\ i - 1 < j - 1
      BY <1>7, <1>8, <1>11, <2>1, <2>3
    <3>2. others[i - 1].rev > others[j - 1].rev
      BY <1>4, <2>1, <3>1
    <3>. QED  BY <1>10, <2>1, <3>1, <3>2
  <2>. QED  BY <2>2, <2>3
<1>12. \A i \in DOMAIN all : key[i] \in Int /\ key[i] = -all[i].rev
  BY <1>8, <1>10
<1> HIDE DEF key
<1>13. /\ sorted \in Seq(Records) /\ n = Len(all)
       /\ \E at \in [DOMAIN all -> DOMAIN all] : Sorting(all, key, sorted, at)
  BY <1>7, <1>12, SortedByFacts
<1>14. PICK at \in [DOMAIN all -> DOMAIN all] : Sorting(all, key, sorted, at)
  BY <1>13
<1> HIDE DEF sorted
<1>15. RecordsInv(sorted, with)
  <2>1. \A i \in 1..n : at[i] \in 1..n /\ sorted[i] = all[at[i]]
    BY <1>8, <1>13, <1>14 DEF Sorting
  <2>2. \A i \in 1..n : RecordInv(sorted[i], with)
    BY <1>9, <1>13, <2>1
  <2>3. ASSUME NEW i \in 1..n, NEW j \in 1..n, i < j
        PROVE  sorted[i].rev > sorted[j].rev
    <3>1. Earlier(key, at[i], at[j])
      BY <1>8, <1>13, <1>14, <2>3 DEF Sorting
    <3>2. at[i] \in 1..Len(all) /\ at[j] \in 1..Len(all) /\ sorted[i] = all[at[i]] /\ sorted[j] = all[at[j]]
      BY <1>13, <2>1
    <3>3. key[at[i]] = -all[at[i]].rev /\ key[at[j]] = -all[at[j]].rev
      BY <1>8, <1>12, <3>2
    <3>4. all[at[i]].rev \in Nat /\ all[at[j]].rev \in Nat
      BY <1>10, <3>2
    <3>5. at[i] < at[j] => all[at[i]].rev # all[at[j]].rev
      BY <1>11, <3>2
    <3>. QED  BY ONLY <3>1, <3>2, <3>3, <3>4, <3>5, SMTT(30) DEF Earlier
  <2>. QED  BY <1>13, <2>2, <2>3 DEF RecordsInv
<1>16. k \in 0..n /\ k <= RecordLimit
  <2>1. n \in Nat /\ RecordLimit \in Nat
    BY <1>8, <1>13, HistoryAssumption
  <2>. QED  BY <2>1, CutNumber
<1> HIDE DEF k, n
<1>17. RecordsInv(newest, with) /\ Len(newest) = k
  BY <1>15, <1>16, FirstInv DEF n
<1> HIDE DEF newest
<1>18. BoundedInv(BoundHistory(newest, copy.gone).records, with)
  BY <1>16, <1>17, BoundHistoryInv
<1>. QED  BY <1>2, <1>18 DEF with

\* A command leaves a record or none; with one, the copy has it in its place.
LEMMA RecordedInv ==
  ASSUME NEW copy, NEW of, BoundedInv(copy.records, of), DOMAIN of = 1..MaxRev,
         DOMAIN copy = CopyFields, copy.rev \in 1..MaxRev, NEW c \in ChangeRecords,
         Finalize(copy.rev, BuildTemplate(c)) # NoRecord
  PROVE  BoundedInv(AppendRecord(copy, Finalize(copy.rev, BuildTemplate(c))).records,
                    [of EXCEPT ![copy.rev] = c])
<1> DEFINE tpl == BuildTemplate(c)
           full == Full(copy.rev, tpl)
           fits == Len(tpl.targets) <= TargetLimit /\ EncodedRecord(full) <= RecordBytes
           bounded == IF fits THEN full ELSE Aggregate(full)
           r == Finalize(copy.rev, tpl)
<1>1. copy.rev \in Nat
  BY HistoryAssumption
<1>2. full \in Records /\ full.tier = "full" /\ full.rev = copy.rev /\ full.compact = <<>>
      /\ full.counts = Counts(full.targets) /\ Accounts(full, c)
  BY <1>1, FullFacts
<1>3. r = bounded /\ RecordValid(r)
  <2>1. r = NoRecord \/ (r = bounded /\ RecordValid(bounded))
    BY DEF Finalize
  <2>. QED  BY <2>1
<1> HIDE DEF full, fits
<1>4. bounded \in Records /\ bounded.rev = copy.rev /\ Accounts(bounded, c)
  <2>1. IsFull(full)
    BY <1>2 DEF IsFull
  <2>2. Aggregate(full) \in Records /\ Aggregate(full).rev = full.rev
        /\ \A d \in ChangeRecords : Accounts(full, d) => Accounts(Aggregate(full), d)
    BY <1>2, <2>1, AggregateFacts
  <2>. QED  BY <1>2, <2>2
<1> HIDE DEF bounded, r
<1>5. r \in Records /\ r.rev = copy.rev /\ RecordValid(r) /\ Accounts(r, c)
  BY <1>3, <1>4
<1>6. RecordsInv(copy.records, of) /\ r.rev \in 1..MaxRev
  BY <1>5 DEF BoundedInv
<1>7. BoundedInv(AppendRecord(copy, r).records, [of EXCEPT ![r.rev] = c])
  BY <1>5, <1>6, AppendRecordInv
<1>. QED  BY <1>5, <1>7 DEF r, tpl

-----------------------------------------------------------------------------
(***************************************************************************)
(* The invariant of both histories, and its steps.                         *)
(***************************************************************************)
\* What a state remembers of its reconciles, each revision's record accounted for.
KeptInv(copy) == BoundedInv(copy.records, copy.of) /\ DOMAIN copy.of = 1..MaxRev

AccountInv(sizes) ==
  /\ HistoryInv(sizes)
  /\ KeptInv(saved)
  /\ loaded # NoCopy => KeptInv(loaded) /\ loaded.rev \in 1..MaxRev

\* newState has an empty history.
LEMMA InitAccountInv ==
  ASSUME NEW sizes, HistoryInit
  PROVE  AccountInv(sizes)
<1>1. /\ saved.records = <<>> /\ saved.of = [r \in 1..MaxRev |-> NoGiven] /\ loaded = NoCopy
  BY DEF HistoryInit
<1>2. /\ <<>> \in Seq(Records) /\ Len(<<>>) = 0 /\ 1..Len(<<>>) = {}
  OBVIOUS
<1>3. RecordLimit \in Nat /\ HistoryBytes \in Nat
  BY HistoryAssumption
<1>4. RecordsInv(saved.records, saved.of)
  BY <1>1, <1>2 DEF RecordsInv
<1>5. BoundedInv(saved.records, saved.of)
  BY <1>1, <1>2, <1>3, <1>4, EncodedRecordsNat DEF BoundedInv
<1>. QED  BY <1>1, <1>5, InitHistoryInv DEF AccountInv, KeptInv

\* A step of the timeline leaves the records and their revision alone.
LEMMA NoteAccountInv ==
  ASSUME NEW sizes, AccountInv(sizes), NEW es, DOMAIN es \in {{1}, {1, 2}},
         \A i \in DOMAIN es : es[i].utc \in BOOLEAN /\ es[i].size \in sizes,
         Note(es)
  PROVE  AccountInv(sizes)'
<1>1. /\ HistoryInv(sizes) /\ CopyInv(loaded, sizes) /\ KeptInv(loaded) /\ KeptInv(saved)
      /\ loaded.rev \in 1..MaxRev /\ loaded' = Noted(loaded, es) /\ saved' = saved
  BY DEF AccountInv, HistoryInv, Note, Holding
<1>2. HistoryInv(sizes)'
  BY <1>1, NoteHistoryInv
<1>3. loaded'.rev = loaded.rev /\ loaded'.records = loaded.records /\ loaded'.of = loaded.of
  BY <1>1, NotedCopy
<1>. QED  BY <1>1, <1>2, <1>3 DEF AccountInv, KeptInv

\* Nor does a ranking's decision touch them.
LEMMA RoutingAccountInv ==
  ASSUME NEW sizes, AccountInv(sizes), NEW d, NEW proven \in BOOLEAN, NEW size \in sizes,
         RoutingChange(d, proven, size)
  PROVE  AccountInv(sizes)'
<1> DEFINE copy == IF proven /\ d # loaded.decision THEN Noted(loaded, InUTC(<<size>>)) ELSE loaded
<1>1. /\ HistoryInv(sizes) /\ CopyInv(loaded, sizes) /\ KeptInv(loaded) /\ KeptInv(saved)
      /\ loaded.rev \in 1..MaxRev /\ loaded' = [copy EXCEPT !.decision = d] /\ saved' = saved
  BY DEF AccountInv, HistoryInv, RoutingChange, Holding
<1>2. HistoryInv(sizes)'
  BY <1>1, RoutingHistoryInv
<1>3. LET new == Noted(loaded, InUTC(<<size>>)) IN
      CopyInv(new, sizes) /\ new.rev = loaded.rev /\ new.records = loaded.records /\ new.of = loaded.of
  BY <1>1, OneInUTC, NotedCopy
<1>4. CopyInv(copy, sizes) /\ copy.rev = loaded.rev /\ copy.records = loaded.records /\ copy.of = loaded.of
  BY <1>1, <1>3
<1> HIDE DEF copy
<1>5. loaded'.rev = copy.rev /\ loaded'.records = copy.records /\ loaded'.of = copy.of
  <2>1. DOMAIN copy = CopyFields
    BY <1>4 DEF CopyInv
  <2>. QED  BY <1>1, <2>1 DEF CopyFields
<1>. QED  BY <1>1, <1>2, <1>4, <1>5 DEF AccountInv, KeptInv

\* A command starts from the records in the file, under a revision of its own.
LEMMA LoadAccountInv ==
  ASSUME NEW sizes, AccountInv(sizes), NEW keep \in BOOLEAN, Load(keep)
  PROVE  AccountInv(sizes)'
<1> DEFINE rev == IF keep /\ saved.rev # 0 THEN saved.rev ELSE saved.rev + 1
<1>1. /\ HistoryInv(sizes) /\ KeptInv(saved) /\ DOMAIN saved = CopyFields /\ saved.rev \in Nat
      /\ rev <= MaxRev /\ loaded' = [saved EXCEPT !.rev = rev] /\ saved' = saved
  BY DEF AccountInv, HistoryInv, CopyInv, Load
<1>2. HistoryInv(sizes)'
  BY <1>1, LoadHistoryInv
<1>3. rev \in 1..MaxRev
  BY <1>1, HistoryAssumption
<1> HIDE DEF rev
<1>4. loaded'.rev = rev /\ loaded'.records = saved.records /\ loaded'.of = saved.of
  BY <1>1 DEF CopyFields
<1>. QED  BY <1>1, <1>2, <1>3, <1>4 DEF AccountInv, KeptInv

\* A command that has changed a file records it, or leaves the history as it was.
LEMMA RecordAccountInv ==
  ASSUME NEW sizes, AccountInv(sizes), NEW c \in ChangeRecords, Record(c)
  PROVE  AccountInv(sizes)'
<1> DEFINE r == Finalize(loaded.rev, BuildTemplate(c))
           with == AppendRecord(loaded, r)
           of == [loaded.of EXCEPT ![loaded.rev] = c]
<1>1. /\ HistoryInv(sizes) /\ KeptInv(loaded) /\ KeptInv(saved) /\ DOMAIN loaded = CopyFields
      /\ loaded.rev \in 1..MaxRev /\ saved' = saved
  BY DEF AccountInv, HistoryInv, CopyInv, Record, Holding
<1>2. loaded' = IF r = NoRecord THEN loaded ELSE [with EXCEPT !.of[loaded.rev] = c]
  BY DEF Record
<1>3. HistoryInv(sizes)'
  BY <1>1, RecordHistoryInv
<1>4. BoundedInv(loaded.records, loaded.of) /\ DOMAIN loaded.of = 1..MaxRev
  BY <1>1 DEF KeptInv
<1>5. r # NoRecord => BoundedInv(with.records, of)
  BY <1>1, <1>4, RecordedInv
<1>6. DOMAIN of = 1..MaxRev
  BY <1>4
<1> HIDE DEF r
<1>7. DOMAIN with = CopyFields /\ with.rev = loaded.rev /\ with.of = loaded.of
  BY <1>1 DEF AppendRecord, CopyFields
<1> HIDE DEF with, of
<1>8. CASE r = NoRecord
  <2>1. loaded' = loaded
    BY <1>2, <1>8
  <2>. QED  BY <1>1, <1>3, <2>1 DEF AccountInv, KeptInv
<1>9. CASE r # NoRecord
  <2>1. loaded' = [with EXCEPT !.of[loaded.rev] = c]
    BY <1>2, <1>9
  <2>2. loaded'.rev = with.rev /\ loaded'.records = with.records /\ loaded'.of = of
    BY <1>7, <2>1 DEF CopyFields, of
  <2>3. KeptInv(loaded')
    BY <1>5, <1>6, <1>9, <2>2 DEF KeptInv
  <2>. QED  BY <1>1, <1>3, <1>7, <2>2, <2>3 DEF AccountInv
<1>. QED  BY <1>8, <1>9

\* A save takes the records as they are.
LEMMA SaveAccountInv ==
  ASSUME NEW sizes, AccountInv(sizes), Save
  PROVE  AccountInv(sizes)'
<1> DEFINE b == BoundEvents(loaded.events, loaded.omitted)
<1>1. /\ HistoryInv(sizes) /\ KeptInv(loaded) /\ DOMAIN loaded = CopyFields /\ loaded.rev \in 1..MaxRev
      /\ saved' = [loaded EXCEPT !.events = b.events, !.omitted = b.omitted] /\ loaded' = loaded
  BY DEF AccountInv, HistoryInv, CopyInv, Save, Holding
<1>2. HistoryInv(sizes)'
  BY <1>1, SaveHistoryInv
<1> HIDE DEF b
<1>3. saved'.records = loaded.records /\ saved'.of = loaded.of
  BY <1>1 DEF CopyFields
<1>. QED  BY <1>1, <1>2, <1>3 DEF AccountInv, KeptInv

\* Every step keeps the invariant of both histories.
LEMMA NextAccountInv ==
  ASSUME NEW sizes, NEW changes, changes \subseteq ChangeRecords, AccountInv(sizes),
         [HistoryNext(sizes, changes)]_hvars
  PROVE  AccountInv(sizes)'
<1>1. ASSUME NEW keep \in BOOLEAN, Load(keep)
      PROVE  AccountInv(sizes)'
  BY <1>1, LoadAccountInv
<1>2. ASSUME NEW size \in sizes, ManualEvent(size)
      PROVE  AccountInv(sizes)'
  <2>1. Note(InUTC(<<size>>))
    BY <1>2 DEF ManualEvent
  <2>2. /\ DOMAIN InUTC(<<size>>) = {1}
        /\ \A i \in DOMAIN InUTC(<<size>>) : InUTC(<<size>>)[i].utc \in BOOLEAN /\ InUTC(<<size>>)[i].size \in sizes
    BY OneInUTC
  <2>. QED  BY <2>1, <2>2, NoteAccountInv
<1>3. ASSUME NEW s \in sizes, NEW t \in sizes, QuotaEvents(<<s, t>>) \/ GateEvents(<<s, t>>)
      PROVE  AccountInv(sizes)'
  <2>1. Note(InUTC(<<s, t>>))
    BY <1>3 DEF QuotaEvents, GateEvents
  <2>2. /\ DOMAIN InUTC(<<s, t>>) = {1, 2}
        /\ \A i \in DOMAIN InUTC(<<s, t>>) :
             InUTC(<<s, t>>)[i].utc \in BOOLEAN /\ InUTC(<<s, t>>)[i].size \in sizes
    BY TwoInUTC
  <2>. QED  BY <2>1, <2>2, NoteAccountInv
<1>4. ASSUME NEW size \in sizes, NEW d \in Decisions, NEW proven \in BOOLEAN, RoutingChange(d, proven, size)
      PROVE  AccountInv(sizes)'
  BY <1>4, RoutingAccountInv
<1>5. ASSUME NEW size \in sizes, NEW utc \in BOOLEAN, FailureEvent(size, utc)
      PROVE  AccountInv(sizes)'
  <2> DEFINE es == <<[utc |-> utc, size |-> size]>>
  <2>1. Note(es)
    BY <1>5 DEF FailureEvent
  <2>2. DOMAIN es = {1} /\ es[1].utc = utc /\ es[1].size = size
    OBVIOUS
  <2> HIDE DEF es
  <2>3. \A i \in DOMAIN es : es[i].utc \in BOOLEAN /\ es[i].size \in sizes
    BY <2>2
  <2>. QED  BY <2>1, <2>2, <2>3, NoteAccountInv
<1>6. ASSUME NEW c \in changes, Record(c)
      PROVE  AccountInv(sizes)'
  BY <1>6, RecordAccountInv
<1>7. CASE Save
  BY <1>7, SaveAccountInv
<1>8. CASE EndCommand
  BY <1>8 DEF EndCommand, AccountInv, HistoryInv, KeptInv
<1>9. CASE UNCHANGED hvars
  BY <1>9 DEF hvars, AccountInv, HistoryInv, KeptInv
<1>. QED  BY <1>1, <1>2, <1>3, <1>4, <1>5, <1>6, <1>7, <1>8, <1>9 DEF HistoryNext

\* The records of the file and of the running command are of their revisions, valid,
\* newest first and within the limits, beside the timeline without a gap.
THEOREM AccountInvariant ==
  ASSUME NEW sizes, NEW changes, changes \subseteq ChangeRecords
  PROVE  HistorySpec(sizes, changes) => []AccountInv(sizes)
<1>1. HistoryInit => AccountInv(sizes)
  BY InitAccountInv
<1>2. AccountInv(sizes) /\ [HistoryNext(sizes, changes)]_hvars => AccountInv(sizes)'
  BY NextAccountInv
<1>. QED  BY <1>1, <1>2, PTL DEF HistorySpec

\* However often a record was cut, aggregated or replaced, the reconcile history in
\* state.json is newest first and within its limits, and each record accounts for
\* all its revision had to record.
THEOREM RecordsAccountHolds ==
  ASSUME NEW sizes, NEW changes, changes \subseteq ChangeRecords
  PROVE  HistorySpec(sizes, changes) => []RecordsAccount
<1>1. ASSUME AccountInv(sizes)
      PROVE  RecordsAccount
  <2>1. /\ saved.records \in Seq(Records) /\ Len(saved.records) <= RecordLimit
        /\ EncodedRecords(saved.records) <= HistoryBytes
        /\ \A i \in 1..Len(saved.records) : RecordInv(saved.records[i], saved.of)
        /\ \A i, j \in 1..Len(saved.records) : i < j => saved.records[i].rev > saved.records[j].rev
    BY <1>1 DEF AccountInv, KeptInv, BoundedInv, RecordsInv
  <2>2. DOMAIN saved.records = 1..Len(saved.records)
    BY <2>1
  <2>. QED  BY <2>1, <2>2 DEF RecordsAccount, RecordInv
<1>. QED  BY <1>1, AccountInvariant, PTL
=============================================================================
