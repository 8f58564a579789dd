------------------------------- MODULE History -------------------------------
(***************************************************************************)
(* internal/state/history.go, the history part of state/store.go, and      *)
(* internal/service/history_template.go, history_recording.go,             *)
(* preparation.go and routing_events.go: what state.json remembers.        *)
(*                                                                         *)
(* Two bounded histories, both newest first.  The timeline holds events    *)
(* under sequence numbers; the reconcile history holds one record for each *)
(* revision that changed a managed file, in full or as an aggregate.  A    *)
(* command works on a copy it loaded and makes it durable by a save, which *)
(* may be refused; whatever is left out is to be counted.                  *)
(*                                                                         *)
(* Texts are left out; of an identifier it is kept that two may become one *)
(* when they are cut to their limit.                                       *)
(***************************************************************************)
EXTENDS Data

CONSTANTS
  TargetIds,   \* the targets, as positive numbers in the order of their names
  LongIds,     \* those that cannot be told apart once their names are cut
  EventLimit, EventBytes,                \* limits of the timeline
  RecordLimit, RecordBytes, HistoryBytes,\* limits of the reconcile history
  SharedLimit,                           \* of the providers and ranks of a record
  TargetLimit, ChainLimit, EntryLimit, EditLimit,
  Decisions,                             \* places a ranking can give a provider
  MaxRev, MaxEvents                      \* bounds: revisions and events

\* The limits are numbers.
ASSUME HistoryAssumption ==
  /\ {EventLimit, EventBytes, RecordLimit, RecordBytes, HistoryBytes} \subseteq Nat
  /\ {SharedLimit, TargetLimit, ChainLimit, EntryLimit, EditLimit, MaxRev} \subseteq Nat
  /\ LongIds \subseteq TargetIds /\ TargetIds \subseteq Nat \ {0}

VARIABLES
  saved,    \* the histories in state.json
  loaded    \* the copy of the command that holds the lock, or NoCopy

hvars == <<saved, loaded>>

NoCopy == [none |-> TRUE]
NoRecord == [none |-> TRUE]
NoGiven == [none |-> TRUE]
NoDecision == "none"   \* no ranking has been stored yet

\* newState.  of keeps what there was to record at each revision, before any
\* limit: it is no part of the file.
HistoryInit ==
  /\ saved = [events |-> <<>>, omitted |-> 0, next |-> 1, rev |-> 0, records |-> <<>>, gone |-> 0,
              decision |-> NoDecision, of |-> [r \in 1..MaxRev |-> NoGiven]]
  /\ loaded = NoCopy

Excess(n, limit) == n - Min({n, limit})

-----------------------------------------------------------------------------
(***************************************************************************)
(* The timeline.                                                           *)
(***************************************************************************)
EncodedEvents(events) == Total([i \in DOMAIN events |-> events[i].size])

\* The longest beginning of the events that is within both limits.
KeptEvents(events) ==
  LET fits(k) == k <= EventLimit /\ EncodedEvents(SubSeq(events, 1, k)) <= EventBytes IN
  CHOOSE n \in 0..Len(events) : fits(n) /\ \A k \in n + 1..Len(events) : ~fits(k)

\* Mutant: what is cut off for its size is not counted.
BoundEventsUncounted(events, omitted) ==
  [events |-> SubSeq(events, 1, KeptEvents(events)), omitted |-> omitted + Excess(Len(events), EventLimit)]

\* BoundEventHistory: what is not kept is counted as omitted.
BoundEvents(events, omitted) ==
  LET n == KeptEvents(events) IN
  [events |-> SubSeq(events, 1, n), omitted |-> omitted + (Len(events) - n)]

\* nextEventSequence and AppendEvent.
Appended(copy, e) ==
  LET b == BoundEvents(<<[seq |-> copy.next, rev |-> copy.rev, utc |-> e.utc, size |-> e.size]>>
                         \o copy.events, copy.omitted) IN
  [copy EXCEPT !.events = b.events, !.omitted = b.omitted, !.next = @ + 1]

\* Events of one command, one after the other.
Noted(copy, es) == FoldLeft(Appended, copy, es)

\* ValidateEventHistory: revisions from 1 on, times in UTC, no number twice.
EventsValid(events) ==
  /\ Len(events) <= EventLimit
  /\ \A i \in DOMAIN events : events[i].rev > 0 /\ events[i].utc
  /\ \A i, j \in DOMAIN events : events[i].seq = events[j].seq => i = j

-----------------------------------------------------------------------------
(***************************************************************************)
(* A reconcile record.  A target's chains are a sequence of the numbers of *)
(* their entries.                                                          *)
(***************************************************************************)
Cut(id) == IF id \in LongIds THEN Min(LongIds) ELSE id

\* projectChain and boundIDs.
BoundChain(n) == [kept |-> Min({n, EntryLimit}), omitted |-> Excess(n, EntryLimit)]

\* BuildRecordTemplate and sanitizeTarget.
BoundTarget(t) ==
  [id |-> Cut(t.id), pending |-> t.pending,
   chains  |-> [i \in 1..Min({Len(t.chains), ChainLimit}) |-> BoundChain(t.chains[i])],
   edits   |-> Min({t.edits, EditLimit}),
   omitted |-> [chains |-> Excess(Len(t.chains), ChainLimit), edits |-> Excess(t.edits, EditLimit)]]

\* SanitizeRecordTemplate, of the providers and of the ranks.
BoundShared(n) == [kept |-> Min({n, SharedLimit}), omitted |-> Excess(n, SharedLimit)]

\* The template of a command: its targets in order; what a target leaves out is
\* counted with the target and with the record.
BuildTemplate(c) ==
  LET ts == [i \in DOMAIN c.targets |-> BoundTarget(c.targets[i])] IN
  [providers |-> BoundShared(c.providers).kept, ranks |-> BoundShared(c.ranks).kept, targets |-> ts,
   omitted |-> [providers |-> BoundShared(c.providers).omitted, ranks |-> BoundShared(c.ranks).omitted,
                chains  |-> Total([i \in DOMAIN ts |-> ts[i].omitted.chains]), entries |-> 0,
                edits   |-> Total([i \in DOMAIN ts |-> ts[i].omitted.edits])]]

Counts(ts) ==
  LET pending == Cardinality({i \in DOMAIN ts : ts[i].pending}) IN
  [total |-> Len(ts), applied |-> Len(ts) - pending, pending |-> pending, omitted |-> 0]

KeptEntries(t) == Total([i \in DOMAIN t.chains |-> t.chains[i].kept])
LostEntries(t) == Total([i \in DOMAIN t.chains |-> t.chains[i].omitted])

Full(rev, tpl) ==
  [rev |-> rev, tier |-> "full", counts |-> Counts(tpl.targets), providers |-> tpl.providers,
   ranks |-> tpl.ranks, targets |-> tpl.targets, compact |-> <<>>, omitted |-> tpl.omitted]

EncodedRecord(r) ==
  1 + r.providers + r.ranks + Len(r.compact)
    + Total([i \in DOMAIN r.targets |->
               1 + Len(r.targets[i].chains) + KeptEntries(r.targets[i]) + r.targets[i].edits])

\* Mutant: only what a target had left out already is counted.
AllOmittedOnlyBefore(r) ==
  [providers |-> r.omitted.providers + r.providers, ranks |-> r.omitted.ranks + r.ranks,
   chains  |-> r.omitted.chains + Total([i \in DOMAIN r.targets |-> r.targets[i].omitted.chains]),
   entries |-> r.omitted.entries + Total([i \in DOMAIN r.targets |-> LostEntries(r.targets[i])]),
   edits   |-> r.omitted.edits + Total([i \in DOMAIN r.targets |-> r.targets[i].omitted.edits])]

\* allOmitted: everything an aggregate leaves out, and all left out before.
AllOmitted(r) ==
  [providers |-> r.omitted.providers + r.providers, ranks |-> r.omitted.ranks + r.ranks,
   chains  |-> r.omitted.chains + Total([i \in DOMAIN r.targets |->
                 Len(r.targets[i].chains) + r.targets[i].omitted.chains]),
   entries |-> r.omitted.entries + Total([i \in DOMAIN r.targets |->
                 KeptEntries(r.targets[i]) + LostEntries(r.targets[i])]),
   edits   |-> r.omitted.edits + Total([i \in DOMAIN r.targets |->
                 r.targets[i].edits + r.targets[i].omitted.edits])]

\* aggregateRecord: the first targets by name, with their outcomes only.
Aggregate(r) ==
  LET all == [i \in DOMAIN r.targets |-> [id |-> r.targets[i].id, pending |-> r.targets[i].pending]]
      sorted == SortedBy(all, [i \in DOMAIN all |-> all[i].id])
      compact == SubSeq(sorted, 1, Min({Len(sorted), TargetLimit})) IN
  [rev |-> r.rev, tier |-> "aggregate", counts |-> [r.counts EXCEPT !.omitted = Excess(Len(sorted), TargetLimit)],
   providers |-> 0, ranks |-> 0, targets |-> <<>>, compact |-> compact, omitted |-> AllOmitted(r)]

\* validateCounts.
CountsValid(r) ==
  /\ r.counts.total = r.counts.applied + r.counts.pending /\ r.counts.omitted <= r.counts.total
  /\ r.tier = "full" => r.counts = Counts(r.targets)
  /\ r.tier = "aggregate" =>
       /\ r.counts.omitted = r.counts.total - Len(r.compact)
       /\ Counts(r.compact).applied <= r.counts.applied /\ Counts(r.compact).pending <= r.counts.pending

\* validateTargetDetails and validChain.
TargetValid(t) ==
  /\ Len(t.chains) <= ChainLimit /\ t.edits <= EditLimit
  /\ \A j \in DOMAIN t.chains : t.chains[j].kept <= EntryLimit

\* ValidateHistoryRecord.
RecordValid(r) ==
  /\ r.rev > 0 /\ CountsValid(r)
  /\ IF r.tier = "full"
     THEN /\ r.compact = <<>> /\ Len(r.targets) <= TargetLimit
          /\ r.providers <= SharedLimit /\ r.ranks <= SharedLimit
          /\ \A i \in DOMAIN r.targets : TargetValid(r.targets[i])
     ELSE r.targets = <<>> /\ Len(r.compact) <= TargetLimit
  /\ EncodedRecord(r) <= RecordBytes

\* FinalizeHistoryRecord: no record when two targets have become one, or when
\* even the aggregate is invalid.
Finalize(rev, tpl) ==
  LET full == Full(rev, tpl)
      fits == Len(tpl.targets) <= TargetLimit /\ EncodedRecord(full) <= RecordBytes
      r    == IF fits THEN full ELSE Aggregate(full) IN
  IF \E i, j \in DOMAIN tpl.targets : i # j /\ tpl.targets[i].id = tpl.targets[j].id
  THEN NoRecord
  ELSE IF RecordValid(r) THEN r ELSE NoRecord

-----------------------------------------------------------------------------
(***************************************************************************)
(* The reconcile history.                                                  *)
(***************************************************************************)
EncodedRecords(rs) == Total([i \in DOMAIN rs |-> EncodedRecord(rs[i])])

\* The k oldest records that are in full, as aggregates.
AggregateOldest(rs, k) ==
  [i \in DOMAIN rs |->
     IF rs[i].tier = "full" /\ Cardinality({j \in i + 1..Len(rs) : rs[j].tier = "full"}) < k
     THEN Aggregate(rs[i]) ELSE rs[i]]

\* boundHistory: as few aggregates as will do, the oldest first; when all are,
\* the oldest records go.
BoundHistory(rs, gone) ==
  LET fits(k) == EncodedRecords(AggregateOldest(rs, k)) <= HistoryBytes
      all == AggregateOldest(rs, Len(rs))
      n   == CHOOSE n \in 0..Len(rs) :
               /\ EncodedRecords(SubSeq(all, 1, n)) <= HistoryBytes
               /\ \A m \in n + 1..Len(rs) : EncodedRecords(SubSeq(all, 1, m)) > HistoryBytes IN
  IF \E k \in 0..Len(rs) : fits(k)
  THEN [records |-> AggregateOldest(rs, Min({k \in 0..Len(rs) : fits(k)})), gone |-> gone]
  ELSE [records |-> SubSeq(all, 1, n), gone |-> gone + Len(rs) - n]

\* AppendHistory: a record of the same revision is replaced; those beyond the
\* limit go, without being counted.
AppendRecord(copy, r) ==
  LET all == <<r>> \o Among(copy.records, {o \in ToSet(copy.records) : o.rev # r.rev})
      sorted == SortedBy(all, [i \in DOMAIN all |-> -all[i].rev])
      b == BoundHistory(SubSeq(sorted, 1, Min({Len(sorted), RecordLimit})), copy.gone) IN
  [copy EXCEPT !.records = b.records, !.gone = b.gone]

-----------------------------------------------------------------------------
(***************************************************************************)
(* Commands.                                                               *)
(***************************************************************************)
\* LoadState under the lock, and the next revision; init over an existing state
\* keeps it.  A timeline that is not valid fails every command.
Load(keep) ==
  /\ loaded = NoCopy /\ EventsValid(saved.events)
  /\ LET rev == IF keep /\ saved.rev # 0 THEN saved.rev ELSE saved.rev + 1 IN
     /\ rev <= MaxRev
     /\ loaded' = [saved EXCEPT !.rev = rev]
  /\ UNCHANGED saved

Holding == loaded # NoCopy

Note(es) ==
  /\ Holding /\ loaded.next + Len(es) <= MaxEvents + 1
  /\ loaded' = Noted(loaded, es) /\ UNCHANGED saved

InUTC(sizes) == [i \in DOMAIN sizes |-> [utc |-> TRUE, size |-> sizes[i]]]

\* appendManualEvent: one event of set, clear, enable, disable or reset.
ManualEvent(size) == Note(InUTC(<<size>>))

\* appendQuotaEvents: one for each source that failed.
QuotaEvents(sizes) == Note(InUTC(sizes))

\* appendSignalGateEvents: one for each provider the signals gated or released
\* in a pass that was committed.
GateEvents(sizes) == Note(InUTC(sizes))

\* appendRoutingChangeEvents, for one provider: the decision is always stored;
\* an event says so only when it moved and a file has changed.
RoutingChange(d, proven, size) ==
  /\ Holding /\ loaded.next <= MaxEvents
  /\ loaded' = [(IF proven /\ d # loaded.decision THEN Noted(loaded, InUTC(<<size>>)) ELSE loaded)
                  EXCEPT !.decision = d]
  /\ UNCHANGED saved

\* recordNoticeFailure and recordOnChangeFailures take the clock's own time, and
\* the clock of the program gives the local one.
FailureEvent(size, utc) == Note(<<[utc |-> utc, size |-> size]>>)

\* recordHistoryIfQualified: of a command that has changed a file.
Record(c) ==
  /\ Holding
  /\ LET r == Finalize(loaded.rev, BuildTemplate(c)) IN
     loaded' = IF r = NoRecord THEN loaded
               ELSE [AppendRecord(loaded, r) EXCEPT !.of[loaded.rev] = c]
  /\ UNCHANGED saved

\* Mutant: the timeline is saved without being looked at.
SaveUnchecked ==
  /\ Holding
  /\ LET b == BoundEvents(loaded.events, loaded.omitted) IN
     saved' = [loaded EXCEPT !.events = b.events, !.omitted = b.omitted]
  /\ UNCHANGED loaded

\* Save: bounded and validated again; the command goes on with its copy.
Save ==
  /\ Holding
  /\ LET b == BoundEvents(loaded.events, loaded.omitted) IN
     /\ EventsValid(b.events)
     /\ saved' = [loaded EXCEPT !.events = b.events, !.omitted = b.omitted]
  /\ UNCHANGED loaded

\* The end of a command, also of one whose save has failed or been refused.
EndCommand == Holding /\ loaded' = NoCopy /\ UNCHANGED saved

HistoryNext(sizes, changes) ==
  \/ \E keep \in BOOLEAN : Load(keep)
  \/ \E size \in sizes : ManualEvent(size)
  \/ \E s, t \in sizes : QuotaEvents(<<s, t>>) \/ GateEvents(<<s, t>>)
  \/ \E size \in sizes, d \in Decisions, proven \in BOOLEAN : RoutingChange(d, proven, size)
  \/ \E size \in sizes, utc \in BOOLEAN : FailureEvent(size, utc)
  \/ \E c \in changes : Record(c)
  \/ Save
  \/ EndCommand

-----------------------------------------------------------------------------
(***************************************************************************)
(* Properties.                                                             *)
(***************************************************************************)
\* The timeline in state.json can be loaded again, it is the latest events
\* without a gap, newest first, and every event that was ever saved is either
\* there or counted as omitted.
TimelineCounted ==
  LET es == saved.events IN
  /\ EventsValid(es)
  /\ \A i \in DOMAIN es : es[i].seq = saved.next - i
  /\ saved.omitted = saved.next - 1 - Len(es)

\* What a change has to record, and what a record shows of it.
There(c) ==
  [providers |-> c.providers, ranks |-> c.ranks,
   chains  |-> Total([i \in DOMAIN c.targets |-> Len(c.targets[i].chains)]),
   entries |-> Total([i \in DOMAIN c.targets |->
                 Total(SubSeq(c.targets[i].chains, 1, Min({Len(c.targets[i].chains), ChainLimit})))]),
   edits   |-> Total([i \in DOMAIN c.targets |-> c.targets[i].edits])]

Shown(r) ==
  [providers |-> r.providers, ranks |-> r.ranks,
   chains  |-> Total([i \in DOMAIN r.targets |-> Len(r.targets[i].chains)]),
   entries |-> Total([i \in DOMAIN r.targets |-> KeptEntries(r.targets[i]) + LostEntries(r.targets[i])]),
   edits   |-> Total([i \in DOMAIN r.targets |-> r.targets[i].edits])]

\* All targets by their outcome; every provider, rank, chain, edit and entry of
\* a chain that was not cut is shown or counted.  Not "exactly": an aggregate
\* counts twice what its record had left out before.
Accounts(r, c) ==
  /\ r.counts.total = Len(c.targets)
  /\ r.counts.pending = Cardinality({i \in DOMAIN c.targets : c.targets[i].pending})
  /\ r.counts.omitted + Len(r.targets) + Len(r.compact) = Len(c.targets)
  /\ \A part \in DOMAIN There(c) : Shown(r)[part] + r.omitted[part] >= There(c)[part]
  /\ r.tier = "full" => \A part \in DOMAIN There(c) : Shown(r)[part] + r.omitted[part] = There(c)[part]

\* The reconcile history is newest first, one record for each revision and all
\* within the limits; whatever was cut, aggregated or replaced on the way, a
\* record accounts for all its revision had to record.
RecordsAccount ==
  LET rs == saved.records IN
  /\ Len(rs) <= RecordLimit /\ EncodedRecords(rs) <= HistoryBytes
  /\ \A i, j \in DOMAIN rs : i < j => rs[i].rev > rs[j].rev
  /\ \A i \in DOMAIN rs : RecordValid(rs[i]) /\ Accounts(rs[i], saved.of[rs[i].rev])
=============================================================================
