---------------------------- MODULE QuotaSources ----------------------------
(***************************************************************************)
(* internal/quota and service/quota_poller.go: what a check makes of the   *)
(* answers of the providers.                                               *)
(*                                                                         *)
(* Each mapping that configures quota is polled by its adapter.  An        *)
(* adapter asks nothing once the review of its contract has run out, and   *)
(* reads an answer leniently: what cannot be decoded is left out and makes *)
(* the snapshot partial.  A poll that fails leaves the last snapshot in    *)
(* place, so that what an adapter refuses is as important as what it       *)
(* reads: a provider that says it is used up must not stay available       *)
(* because another part of its answer is broken.                           *)
(*                                                                         *)
(* Shares are in hundredths; the tolerances of the code (a cent, a         *)
(* millionth, five minutes) are below the units used here, and a month has *)
(* thirty days.  The names of windows and the inventory of reset credits,  *)
(* which nothing decides on, are left out.                                 *)
(***************************************************************************)
EXTENDS Routing

CONSTANTS
  Exchanges,  \* for each way to poll the providers, what they may answer
  ReviewBy,   \* until when the contracts of the adapters count as reviewed
  MaxPages    \* the most pages of a cost report

VARIABLES
  source,  \* the adapter and the budget of each provider
  said,    \* history: what each provider said last of its quota
  unread   \* history: whether the last answer taken of it was read in part only

qvars == <<source, said, unread>>

\* No credential, no connection, a redirect, too many bytes, another status than
\* success or an empty body (BoundedClient.Do and its callers).
NoAnswer == [none |-> TRUE]

Window(limit, used, percent, reset, period) ==
  [limit |-> limit, used |-> used, percent |-> percent, reset |-> reset, period |-> period]

Share(used, limit) == Clamp((used * 100) \div limit, 0, 100)

\* determineAvailability.
Availability(windows) ==
  IF windows = <<>> THEN "unknown"
  ELSE IF \E i \in DOMAIN windows : windows[i].percent # None /\ windows[i].percent >= 100
  THEN "unavailable" ELSE "available"

\* The snapshot of a Fetch that succeeds; used up if the provider says so itself.
Snapshot(windows, usedUp, partial) ==
  [status |-> IF partial THEN "partial" ELSE "fresh",
   avail |-> IF usedUp THEN "unavailable" ELSE Availability(windows), windows |-> windows, age |-> 0]

Session == (5 * Day) \div 24
Week == 7 * Day
Month == 30 * Day

-----------------------------------------------------------------------------
(***************************************************************************)
(* The adapters.  Each gives a snapshot, or None when it fails.            *)
(***************************************************************************)
\* decodePercentWindow: of the windows given those that say something.
PercentWindows(given) ==
  LET saying == Among(given, {w \in ToSet(given) \ {None, Bad} : w.percent # None \/ w.reset # None}) IN
  [i \in DOMAIN saying |-> Window(None, None, saying[i].percent, saying[i].reset, saying[i].period)]

\* decodeIndividualLimit.
SpendWindow(l) ==
  IF l \in {None, Bad} THEN <<>>
  ELSE IF {l.limit, l.used, l.left, l.reset} = {None} THEN <<>>
  ELSE <<Window(l.limit, l.used, IF l.left = None THEN None ELSE 100 - l.left, l.reset, None)>>

\* parseCodexUsage.  The individual limit within rate_limit counts only if there
\* is none beside it, be it empty.
Codex(body) ==
  LET rate    == IF body.rate = Bad THEN [primary |-> None, secondary |-> None, individual |-> None] ELSE body.rate
      spend   == IF body.individual = None THEN rate.individual ELSE body.individual
      shares  == <<rate.primary, rate.secondary>>
      windows == PercentWindows(shares) \o SpendWindow(spend) \o PercentWindows(body.additional) IN
  Snapshot(windows, FALSE,
           windows = <<>> \/ Bad \in {body.rate, spend, body.credits} \cup ToSet(shares) \cup ToSet(body.additional))

\* decodeZaiLimit.
ZaiWindow(l) ==
  LET used == IF l.current # None THEN l.current
              ELSE IF l.usage # None /\ l.remaining # None THEN l.usage - l.remaining ELSE None
      counted == used # None /\ l.usage # None /\ l.usage > 0 IN
  Window(l.usage, used, IF counted THEN Share(used, l.usage) ELSE l.percent, l.reset,
         IF l.period > 0 THEN l.period ELSE None)

\* parseZaiQuota: the limits on tokens by their length, those on time behind them;
\* other types are ignored.
Zai(body) ==
  LET read(type) == Among(body.limits, {l \in ToSet(body.limits) \ {Bad} : l.type = type})
      tokens  == read("tokens")
      sorted  == SortedBy(tokens, [i \in DOMAIN tokens |-> tokens[i].period]) \o read("time")
      windows == [i \in DOMAIN sorted |-> ZaiWindow(sorted[i])] IN
  IF ~body.success THEN None
  ELSE Snapshot(windows, FALSE, windows = <<>> \/ Bad \in ToSet(body.limits))

\* What is left, and used if it is given, add up to a limit.
AddsUp(limit, left, used) ==
  /\ limit # None /\ left # None /\ limit > 0
  /\ left \in 0..limit /\ (used # None => used = limit - left)

\* neuralwattAllowanceWindow.
KeyAllowance(a) ==
  IF a.blocked = None THEN None
  ELSE IF a.blocked THEN Snapshot(<<>>, TRUE, FALSE)
  ELSE IF ~AddsUp(a.limit, a.left, a.used) THEN None
  ELSE Snapshot(<<Window(a.limit, a.limit - a.left, Share(a.limit - a.left, a.limit), None, None)>>, a.left = 0, FALSE)

\* applyNeuralwattReset: a reset that was reported and is of no use is not
\* replaced by an estimate; if none was reported, the cycles from the start of
\* the period are counted (nextCycleBoundary).
ResetOf(s) ==
  IF s.reset # None THEN (IF s.reset # Bad /\ s.reset > now THEN s.reset ELSE None)
  ELSE IF s.start \in {None, Bad} THEN None
  ELSE s.start + (Max({now - s.start, 0}) \div Month + 1) * Month

SubscriptionSnapshot(s, used, usedUp) ==
  LET reset == ResetOf(s) IN
  Snapshot(<<Window(s.included, used, Share(used, s.included), reset, IF reset = None THEN None ELSE Month)>>,
           usedUp, s.reset = None /\ s.start \in {None, Bad})

\* Mutant: an overage with numbers of no use fails, like any other subscription.
SubscriptionAddsUp(s) ==
  IF s.over = None \/ ~s.numbers \/ ~AddsUp(s.included, s.left, IF s.over THEN None ELSE s.used) THEN None
  ELSE SubscriptionSnapshot(s, s.included - s.left, s.left = 0)

\* neuralwattSubscriptionWindow: an overage is believed whatever the numbers are,
\* which are kept only if they fit it (neuralwattOverageWindow).
SubscriptionOf(s) ==
  LET fits == s.numbers /\ s.included # None /\ s.included > 0 /\ s.left = 0
                /\ (s.used # None => s.used >= s.included) IN
  IF s.over = None THEN None
  ELSE IF s.over /\ ~fits THEN Snapshot(<<>>, TRUE, FALSE)
  ELSE IF s.over THEN SubscriptionSnapshot(s, IF s.used = None THEN s.included ELSE s.used, TRUE)
  ELSE IF ~s.numbers \/ ~AddsUp(s.included, s.left, s.used) THEN None
  ELSE SubscriptionSnapshot(s, s.included - s.left, s.left = 0)

\* neuralwattBalanceWindow.
BalanceOf(b) ==
  IF b.left = 0 /\ (b.total = None \/ b.total <= 0) THEN Snapshot(<<>>, TRUE, FALSE)
  ELSE IF ~AddsUp(b.total, b.left, b.used) THEN None
  ELSE Snapshot(<<Window(b.total, b.total - b.left, Share(b.total - b.left, b.total), None, None)>>, b.left = 0, FALSE)

\* parseNeuralwattQuota: an allowance of the key before a subscription before a
\* balance, as of the time the answer gives.
Neuralwatt(body) ==
  LET seen == IF body.allowance # None THEN KeyAllowance(body.allowance)
              ELSE IF body.subscription # None THEN SubscriptionOf(body.subscription)
              ELSE IF body.balance # None THEN BalanceOf(body.balance) ELSE None IN
  IF body.at = Bad \/ seen = None THEN None
  ELSE IF body.at > now THEN None ELSE [seen EXCEPT !.age = now - body.at]

\* A window that is named, of the length its name stands for.
ShareWindow(w, period) ==
  IF w \in {None, Bad} THEN <<>> ELSE <<Window(None, None, Clamp(w.percent, 0, 100), w.reset, period)>>

\* parseOpenCodeGoUsage.
OpenCodeGo(body) ==
  LET windows == ShareWindow(body.rolling, Session) \o ShareWindow(body.weekly, Week) \o ShareWindow(body.monthly, Month) IN
  IF windows = <<>> THEN None
  ELSE Snapshot(windows, FALSE, Len(windows) < 3 \/ \E i \in DOMAIN windows : windows[i].reset = None)

\* The first page after which no other is to be asked for, or 0.
LastPage(pages) ==
  LET ends == {i \in DOMAIN pages : IF pages[i] = Bad THEN TRUE ELSE ~pages[i].more} IN
  IF ends = {} THEN 0 ELSE Min(ends)

\* Of the amounts those that can be read.
PageSum(amounts) == SumOver({i \in DOMAIN amounts : amounts[i] # Bad}, LAMBDA i : amounts[i])
Spend(pages) == SumOver(1..LastPage(pages), LAMBDA i : PageSum(pages[i].amounts))

\* fetchMonthToDateSpend, parseAnthropicCostPage, budgetWindow.
AnthropicCost(pages, budget) ==
  LET last == LastPage(pages) IN
  IF last \notin 1..MaxPages THEN None
  ELSE IF pages[last] = Bad THEN None
  ELSE Snapshot(<<Window(budget, Spend(pages), Share(Spend(pages), budget), (now \div Month + 1) * Month, Month)>>,
                FALSE, \E i \in 1..last : Bad \in ToSet(pages[i].amounts))

\* parseAnthropicOAuthUsage.
AnthropicSubscription(body) ==
  LET windows == ShareWindow(body.five, Session) \o ShareWindow(body.seven, Week) IN
  IF windows = <<>> THEN None ELSE Snapshot(windows, FALSE, Len(windows) < 2)

-----------------------------------------------------------------------------
(***************************************************************************)
(* Polling.                                                                *)
(***************************************************************************)
BuiltIn == {"codex", "zai", "neuralwatt", "opencode-go", "anthropic", "anthropic-subscription"}

\* What decoding makes sure of: a number where one is used, and of a cost report
\* the pages up to the one that says it is the last or cannot be read.
Numbers(values) == values \subseteq Maybe(Int)
IsWindow(w) == w \notin {None, Bad} => Numbers({w.percent, w.reset, w.period})
IsShare(w) == w \notin {None, Bad} => w.percent \in Int /\ w.reset \in Maybe(Int)
IsLimit(l) == l \notin {None, Bad} => Numbers({l.limit, l.used, l.left, l.reset})
IsList(list) == list \in Seq(ToSet(list))

IsReply(adapter, body) ==
  CASE adapter = "codex" ->
         /\ IsLimit(body.individual)
         /\ IsList(body.additional) /\ \A w \in ToSet(body.additional) : IsWindow(w)
         /\ body.rate # Bad => IsWindow(body.rate.primary) /\ IsWindow(body.rate.secondary) /\ IsLimit(body.rate.individual)
    [] adapter = "zai" ->
         /\ body.success \in BOOLEAN /\ IsList(body.limits)
         /\ \A l \in ToSet(body.limits) \ {Bad} : Numbers({l.usage, l.current, l.remaining, l.percent, l.reset}) /\ l.period \in Int
    [] adapter = "neuralwatt" ->
         LET a == body.allowance  s == body.subscription  b == body.balance IN
         /\ body.at \in Int \cup {Bad}
         /\ a # None => a.blocked \in Maybe(BOOLEAN) /\ Numbers({a.limit, a.left, a.used})
         /\ s # None => /\ s.over \in Maybe(BOOLEAN) /\ s.numbers \in BOOLEAN /\ Numbers({s.included, s.left, s.used})
                        /\ {s.reset, s.start} \subseteq Maybe(Int) \cup {Bad}
         /\ b # None => Numbers({b.total, b.left, b.used})
    [] adapter = "opencode-go" -> IsShare(body.rolling) /\ IsShare(body.weekly) /\ IsShare(body.monthly)
    [] adapter = "anthropic" ->
         /\ IsList(body.pages) /\ body.pages # <<>>
         /\ \A i \in DOMAIN body.pages :
              /\ body.pages[i] # Bad => body.pages[i].more \in BOOLEAN /\ body.pages[i].amounts \in Seq(Int \cup {Bad})
              /\ i < Len(body.pages) => body.pages[i] # Bad /\ body.pages[i].more
    [] adapter = "anthropic-subscription" -> IsShare(body.five) /\ IsShare(body.seven)
    [] OTHER -> TRUE

\* Nothing that is decoded, made of it or kept is taken for a value that is absent.
Statuses == {"fresh", "partial"}
Availabilities == {"unknown", "available", "unavailable"}
FetchedRecords == [status : Statuses, avail : Availabilities, windows : Seq(Windows), age : Int]
KeptRecords == [status : Statuses, avail : Availabilities, windows : Seq(Windows), at : Int]

ASSUME QuotaAssumption ==
  /\ None \notin BOOLEAN \cup FetchedRecords \cup KeptRecords /\ Bad \notin Maybe(Int) /\ MaxPages \in Nat
  /\ \A s \in DOMAIN Exchanges : \A p \in Providers :
       /\ s[p].budget \in Maybe(Nat \ {0})
       /\ \A answers \in Exchanges[s] :
            p \in DOMAIN answers => answers[p] = NoAnswer \/ IsReply(s[p].adapter, answers[p])

\* Status: fresh evidence, and for a cost report a budget.
Ready(s) == s.adapter \in BuiltIn /\ now <= ReviewBy /\ (s.adapter = "anthropic" => s.budget # None)

\* Fetch.
Fetch(s, answer) ==
  IF ~Ready(s) \/ answer = NoAnswer THEN None
  ELSE CASE s.adapter = "codex"       -> Codex(answer)
         [] s.adapter = "zai"         -> Zai(answer)
         [] s.adapter = "neuralwatt"  -> Neuralwatt(answer)
         [] s.adapter = "opencode-go" -> OpenCodeGo(answer)
         [] s.adapter = "anthropic"   -> AnthropicCost(answer.pages, s.budget)
         [] OTHER                     -> AnthropicSubscription(answer)

\* Poll, pollOne: each on its own.
Poll(answers) == [p \in DOMAIN answers \cap Polled |-> Fetch(source[p], answers[p])]

\* The shares used that windows, a limit, an entry of zai and what is left state.
SharesOf(ws) == {w.percent : w \in ws \ {None, Bad}} \ {None}
ShareOfLimit(l) ==
  IF l \in {None, Bad} THEN {}
  ELSE (IF l.left # None THEN {100 - l.left} ELSE {})
         \cup (IF l.limit # None /\ l.used # None /\ l.limit > 0 THEN {Share(l.used, l.limit)} ELSE {})
ShareOfEntry(l) ==
  IF l.usage # None /\ l.usage > 0 /\ l.current # None THEN {Share(l.current, l.usage)}
  ELSE IF l.usage # None /\ l.usage > 0 /\ l.remaining # None THEN {Share(l.usage - l.remaining, l.usage)}
  ELSE {l.percent} \ {None}
ShareLeft(limit, left, used) == IF AddsUp(limit, left, used) THEN {Share(limit - left, limit)} ELSE {}

(***************************************************************************)
(* The shares used that an answer states.  Only what is read is stated: an *)
(* element of which a field cannot be decoded is Bad as a whole, also if   *)
(* its share can be; neuralwatt's numbers state nothing if they contradict *)
(* each other or limit nothing, if the state of the key or of the overage  *)
(* is missing, or if the answer gives no time or a future one; a report of *)
(* costs, if one of its pages cannot be read or the last is not reached.   *)
(* Whatever is wrong elsewhere in an answer takes nothing from the rest.   *)
(***************************************************************************)
StatedByCodex(body) ==
  SharesOf(ToSet(body.additional)) \cup ShareOfLimit(body.individual)
    \cup (IF body.rate = Bad THEN {}
          ELSE SharesOf({body.rate.primary, body.rate.secondary})
                 \cup (IF body.individual = None THEN ShareOfLimit(body.rate.individual) ELSE {}))

StatedByZai(body) ==
  IF ~body.success THEN {}
  ELSE UNION {ShareOfEntry(l) : l \in {x \in ToSet(body.limits) \ {Bad} : x.type \in {"tokens", "time"}}}

StatedByNeuralwatt(body) ==
  LET a == body.allowance  s == body.subscription  b == body.balance IN
  IF (IF body.at = Bad THEN TRUE ELSE body.at > now) THEN {}
  ELSE IF a # None
  THEN IF a.blocked = TRUE THEN {100} ELSE IF a.blocked = None THEN {} ELSE ShareLeft(a.limit, a.left, a.used)
  ELSE IF s # None
  THEN IF s.over = TRUE THEN {100} ELSE IF s.over = None \/ ~s.numbers THEN {} ELSE ShareLeft(s.included, s.left, s.used)
  ELSE IF b = None THEN {}
  ELSE IF b.left = 0 /\ b.total = None THEN {100} ELSE ShareLeft(b.total, b.left, b.used)

StatedByCost(pages, budget) ==
  IF Bad \in ToSet(pages) \/ Len(pages) > MaxPages \/ pages[Len(pages)].more THEN {} ELSE {Share(Spend(pages), budget)}

Stated(s, body) ==
  CASE s.adapter = "codex"       -> StatedByCodex(body)
    [] s.adapter = "zai"         -> StatedByZai(body)
    [] s.adapter = "neuralwatt"  -> StatedByNeuralwatt(body)
    [] s.adapter = "opencode-go" -> SharesOf({body.rolling, body.weekly, body.monthly})
    [] s.adapter = "anthropic"   -> StatedByCost(body.pages, s.budget)
    [] OTHER                     -> SharesOf({body.five, body.seven})

\* Of an answer that states shares there is a part that is not read, be it one
\* that states another.  The numbers of neuralwatt are read together or not at all.
ReadInPart(s, body) ==
  CASE s.adapter = "codex" ->
         \/ Bad \in {body.rate, body.individual} \cup ToSet(body.additional)
         \/ /\ body.rate # Bad
            /\ \/ Bad \in {body.rate.primary, body.rate.secondary}
               \/ body.individual = None /\ body.rate.individual = Bad
    [] s.adapter = "zai"         -> Bad \in ToSet(body.limits)
    [] s.adapter = "neuralwatt"  -> FALSE
    [] s.adapter = "opencode-go" -> Bad \in {body.rolling, body.weekly, body.monthly}
    [] s.adapter = "anthropic"   -> \E page \in ToSet(body.pages) \ {Bad} : Bad \in ToSet(page.amounts)
    [] OTHER                     -> Bad \in {body.five, body.seven}

\* What a provider said last: an answer that states nothing takes nothing back.
Hear(answers) ==
  [p \in Providers |->
     IF p \notin DOMAIN answers \cap Polled THEN said[p]
     ELSE IF ~Ready(source[p]) \/ answers[p] = NoAnswer THEN said[p]
     ELSE LET stated == Stated(source[p], answers[p]) IN
          IF \E x \in stated : x >= 100 THEN "used up"
          ELSE IF stated # {} THEN "left"
          ELSE IF said[p] = "used up" THEN "used up" ELSE "nothing"]

\* Of the answer its snapshot is made of; a poll that fails leaves both.
Missed(answers) ==
  [p \in Providers |->
     IF p \notin DOMAIN answers \cap Polled THEN unread[p]
     ELSE IF Fetch(source[p], answers[p]) = None THEN unread[p]
     ELSE ReadInPart(source[p], answers[p])]

PollingInit ==
  /\ source \in DOMAIN Exchanges
  /\ said = [p \in Providers |-> "nothing"] /\ unread = [p \in Providers |-> FALSE]

\* The check: of all providers, or of one.
PollAll(answers) ==
  Check(Poll(answers)) /\ said' = Hear(answers) /\ unread' = Missed(answers) /\ UNCHANGED source

PollingNext ==
  \/ \E answers \in Exchanges[source] : PollAll(answers)
  \/ Passes /\ UNCHANGED qvars

PollingSpec == RoutingInit /\ PollingInit /\ [][PollingNext]_<<rvars, qvars>>

-----------------------------------------------------------------------------
\* A provider that said it is used up, blocked or in overage, by whichever of the
\* limits that can be read (Stated), is not available, not ranked and not normal
\* until it says otherwise, whatever is wrong with the other parts of the answer and
\* through failed polls and expired contracts; one that said that every limit leaves
\* something is not taken for used up; and one of whose answer a part was not read,
\* which may be the one that says it is used up, is not ranked and not gated by it.
SayingsKept ==
  \A p \in Polled :
    /\ said[p] = "used up" => SnapshotUnavailable(observed[p]) /\ ~Eligible(p) /\ MappingMode(p) # "normal"
    /\ said[p] = "left" => ~SnapshotUnavailable(observed[p])
    /\ unread[p] => ~Eligible(p) /\ ~Gated(p)
=============================================================================
