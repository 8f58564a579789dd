----------------------------- MODULE PolicyProofs -----------------------------
(***************************************************************************)
(* Proofs about desired.yaml, for all documents and live configurations.   *)
(* What the commands write is loaded back to what they proposed, and it is *)
(* usable whenever it loads.                                               *)
(*                                                                         *)
(* And about Staging, for all layers and plans: what is published is what  *)
(* was validated.                                                          *)
(***************************************************************************)
EXTENDS PolicyFile, Staging, DataLemmas

-----------------------------------------------------------------------------
(***************************************************************************)
(* The sections of a document, one by one.                                 *)
(***************************************************************************)
\* A quota as it is loaded.
UsableQuota(q) ==
  /\ q \in Quotas
  /\ q.budget >= 0 /\ q.weight # 0 /\ q.gate.threshold <= 0
  /\ q.adapter = Budgeted => q.budget > 0
  /\ q.adapter = Subscription => q.budget = 0

\* An operational section and a selection section as they are loaded.
UsableOperational(op) ==
  /\ op \in [duration : Int, backups : Int, actions : Seq([absolute : {TRUE}, timeout : Int])]
  /\ op.duration > 0 /\ op.backups > 0 /\ Len(op.actions) <= MaxOnChangeActions
  /\ \A i \in DOMAIN op.actions : op.actions[i].timeout \in 1..60
UsableSelection(s) ==
  s \in [enabled : BOOLEAN, pin : Text, timeout : Int] /\ s.pin # "malformed" /\ s.timeout > 0

\* What quotaFromWire does not refuse is usable.
LEMMA QuotaLoaded ==
  ASSUME NEW id, NEW explicit, NEW w \in QuotaKeys, QuotaFromWire(id, explicit, w) # Refused
  PROVE  UsableQuota(QuotaFromWire(id, explicit, w))
<1> DEFINE adapter == Default(explicit, id)
           mode == IF adapter = Subscription THEN "subscription" ELSE Default(w.mode, "api")
           q == QuotaFromWire(id, explicit, w)
<1>1. /\ adapter \in Adapters
      /\ mode \in {"api", "subscription"}
      /\ mode = "subscription" => w.budget = None
      /\ w.budget # None => ~(w.budget < 0)
      /\ ~(adapter = Budgeted /\ mode = "api" /\ Default(w.budget, 0) = 0)
      /\ w.gate # None => ~(Default(w.gate.threshold, 0) > 0)
      /\ w.mode # None => adapter = Budgeted
  BY DEF QuotaFromWire
<1>2. q = [adapter  |-> IF mode = "subscription" THEN Subscription ELSE adapter,
           budget   |-> Default(w.budget, 0),
           group    |-> Default(w.group, "default"),
           weight   |-> IF w.weight \in {None, 0} THEN 1 ELSE w.weight,
           schedule |-> IF w.peaks = None THEN None ELSE OffPeakWindows(w.peaks),
           gate     |-> IF w.gate = None THEN [on |-> TRUE, threshold |-> 0]
                        ELSE [on |-> Default(w.gate.enabled, TRUE), threshold |-> Default(w.gate.threshold, 0)],
           exempt   |-> w.exempt = FALSE]
  BY DEF QuotaFromWire
<1> HIDE DEF q
<1>3. q.adapter \in Adapters /\ (q.adapter = Subscription <=> mode = "subscription")
  BY <1>1, <1>2, PolicyAssumption
<1>4. /\ q.budget = Default(w.budget, 0) /\ q.budget \in Int /\ q.budget >= 0
      /\ q.adapter = Budgeted => q.budget > 0
      /\ q.adapter = Subscription => q.budget = 0
  <2>1. w.budget \in Maybe(Int)
    BY DEF QuotaKeys
  <2>2. Default(w.budget, 0) \in Int /\ Default(w.budget, 0) >= 0
    BY <1>1, <2>1 DEF Maybe, Default
  <2>3. q.budget = Default(w.budget, 0)
    BY <1>2
  <2>4. q.adapter = Subscription => q.budget = 0
    BY <1>1, <1>3, <2>3 DEF Default
  <2>5. q.adapter = Budgeted => adapter = Budgeted /\ mode = "api"
    BY <1>1, <1>2, PolicyAssumption
  <2>. QED  BY <1>1, <2>2, <2>3, <2>4, <2>5
<1>5. q.group \in Text /\ q.weight \in Int /\ q.weight # 0
  <2>1. w.group \in Maybe(Text) /\ w.weight \in Maybe(Int)
    BY DEF QuotaKeys
  <2>2. Default(w.group, "default") \in Text
    <3>1. "default" \in Text
      BY DEF Text
    <3>. QED  BY <2>1, <3>1 DEF Maybe, Default
  <2>3. (IF w.weight \in {None, 0} THEN 1 ELSE w.weight) \in Int \ {0}
    BY <2>1 DEF Maybe
  <2>4. q.group = Default(w.group, "default") /\ q.weight = IF w.weight \in {None, 0} THEN 1 ELSE w.weight
    BY <1>2
  <2>. QED  BY <2>2, <2>3, <2>4
<1>6. q.gate \in [on : BOOLEAN, threshold : Int] /\ q.gate.threshold <= 0
  <2>1. w.gate # None => w.gate.enabled \in Maybe(BOOLEAN) /\ w.gate.threshold \in Maybe(Int)
    BY DEF QuotaKeys, GateKeys, Maybe
  <2>2. w.gate # None => Default(w.gate.enabled, TRUE) \in BOOLEAN
    BY <2>1 DEF Maybe, Default
  <2>3. w.gate # None => Default(w.gate.threshold, 0) \in Int /\ Default(w.gate.threshold, 0) <= 0
    BY <1>1, <2>1 DEF Maybe, Default
  <2>4. CASE w.gate = None
    <3>1. q.gate = [on |-> TRUE, threshold |-> 0]
      BY <1>2, <2>4
    <3>. QED  BY <3>1
  <2>5. CASE w.gate # None
    <3>1. q.gate = [on |-> Default(w.gate.enabled, TRUE), threshold |-> Default(w.gate.threshold, 0)]
      BY <1>2, <2>5
    <3> DEFINE on == Default(w.gate.enabled, TRUE)
               threshold == Default(w.gate.threshold, 0)
    <3>3. on \in BOOLEAN /\ threshold \in Int /\ threshold <= 0
      BY <2>2, <2>3, <2>5
    <3>4. q.gate = [on |-> on, threshold |-> threshold]
      BY <3>1
    <3> HIDE DEF on, threshold
    <3>. QED  BY ONLY <3>3, <3>4
  <2>. QED  BY <2>4, <2>5
<1>7. q.schedule \in Maybe(SUBSET PeakHours)
  <2>1. ASSUME w.peaks # None
        PROVE  OffPeakWindows(w.peaks) \subseteq PeakHours
    <3>1. w.peaks \subseteq PeakHours
      BY <2>1 DEF QuotaKeys, Maybe
    <3>2. ASSUME NEW p \in w.peaks
          PROVE  /\ [days |-> p.days, start |-> 0, end |-> p.start] \in PeakHours
                 /\ [days |-> p.days, start |-> p.end, end |-> Day] \in PeakHours
      <4>1. p \in PeakHours /\ Day \in Int
        BY <3>1, PolicyAssumption
      <4>. QED  BY <4>1 DEF PeakHours
    <3>. QED  BY <3>2 DEF OffPeakWindows
  <2>. QED  BY <1>2, <2>1 DEF Maybe
<1>8. q \in Quotas
  <2>1. q.exempt \in BOOLEAN
    BY <1>2
  <2>2. q = [adapter |-> q.adapter, budget |-> q.budget, group |-> q.group, weight |-> q.weight,
             schedule |-> q.schedule, gate |-> q.gate, exempt |-> q.exempt]
    BY <1>2
  <2>. QED  BY <1>3, <1>4, <1>5, <1>6, <1>7, <2>1, <2>2 DEF Quotas
<1>. QED  BY <1>3, <1>4, <1>5, <1>6, <1>8 DEF UsableQuota, q

\* A quota that is usable is loaded again as it was, but for its hours (quotaOut).
LEMMA QuotaAgain ==
  ASSUME NEW id, NEW q, UsableQuota(q)
  PROVE  EnrolledQuota(id, QuotaOut(q)) = [q EXCEPT !.schedule = None]
<1> DEFINE w == QuotaOut(q)
<1>1. q \in Quotas /\ q # None /\ q.adapter # None
  BY PolicyAssumption DEF UsableQuota, Quotas
<1>2. w = [adapter |-> q.adapter, mode |-> None, budget |-> UnlessDefault(q.budget, 0), group |-> q.group,
           weight |-> q.weight, peaks |-> None,
           gate |-> IF q.gate = [on |-> TRUE, threshold |-> 0] THEN None
                    ELSE [enabled |-> q.gate.on, threshold |-> q.gate.threshold],
           exempt |-> IF q.exempt THEN FALSE ELSE None]
  BY <1>1 DEF QuotaOut
<1>3. w # None
  <2>1. w \in QuotaKeys
    <3>1. UnlessDefault(q.budget, 0) \in Maybe(Int)
      BY <1>1 DEF UnlessDefault, Maybe, Quotas
    <3>2. w.gate \in Maybe(GateKeys)
      BY <1>1, <1>2 DEF Maybe, Quotas, GateKeys
    <3>3. w.exempt \in Maybe(BOOLEAN)
      BY <1>2 DEF Maybe
    <3>4. q.adapter \in Text /\ q.group \in Text /\ q.weight \in Int
      BY <1>1, PolicyAssumption DEF Quotas
    <3>5. w = [adapter |-> q.adapter, mode |-> None, budget |-> UnlessDefault(q.budget, 0), group |-> q.group,
               weight |-> q.weight, peaks |-> None, gate |-> w.gate, exempt |-> w.exempt]
      BY <1>2
    <3> HIDE DEF w
    <3>. QED  BY <3>1, <3>2, <3>3, <3>4, <3>5 DEF QuotaKeys, Maybe
  <2>. QED  BY <2>1, PolicyAssumption
<1> HIDE DEF w
<1> DEFINE mode == IF q.adapter = Subscription THEN "subscription" ELSE "api"
           gate == IF w.gate = None THEN [on |-> TRUE, threshold |-> 0]
                   ELSE [on |-> Default(w.gate.enabled, TRUE), threshold |-> Default(w.gate.threshold, 0)]
<1>4. Default(w.budget, 0) = q.budget /\ (w.budget # None => w.budget = q.budget)
  BY <1>1, <1>2, PolicyAssumption DEF UnlessDefault, Default, Quotas
<1>5. gate = q.gate
  <2>1. q.gate \in [on : BOOLEAN, threshold : Int]
    BY <1>1 DEF Quotas
  <2>2. CASE q.gate = [on |-> TRUE, threshold |-> 0]
    BY <1>2, <2>2
  <2>3. CASE q.gate # [on |-> TRUE, threshold |-> 0]
    <3>1. w.gate = [enabled |-> q.gate.on, threshold |-> q.gate.threshold]
      BY <1>2, <2>3
    <3>2. w.gate # None
      <4>1. w.gate \in GateKeys
        BY <2>1, <3>1 DEF GateKeys, Maybe
      <4>. QED  BY <4>1, PolicyAssumption
    <3>3. q.gate.on # None /\ q.gate.threshold # None
      BY <2>1, PolicyAssumption
    <3>. QED  BY <2>1, <3>1, <3>2, <3>3 DEF Default
  <2>. QED  BY <2>2, <2>3
<1>6. (w.exempt = FALSE) = q.exempt
  BY <1>1, <1>2, PolicyAssumption DEF Quotas
<1>7. Default(w.group, "default") = q.group /\ (IF w.weight \in {None, 0} THEN 1 ELSE w.weight) = q.weight
  BY <1>1, <1>2, PolicyAssumption DEF Quotas, UsableQuota, Default
<1> DEFINE result == [adapter  |-> IF mode = "subscription" THEN Subscription ELSE q.adapter,
           budget   |-> Default(w.budget, 0),
           group    |-> Default(w.group, "default"),
           weight   |-> IF w.weight \in {None, 0} THEN 1 ELSE w.weight,
           schedule |-> IF w.peaks = None THEN None ELSE OffPeakWindows(w.peaks),
           gate     |-> gate,
           exempt   |-> w.exempt = FALSE]
<1>8. EnrolledQuota(id, w) = result
  <2>1. w.adapter = q.adapter /\ w.mode = None /\ w.peaks = None
    BY <1>2
  <2>2. EnrolledQuota(id, w) = QuotaFromWire(id, q.adapter, w)
    BY <1>1, <1>3, <2>1 DEF EnrolledQuota
  <2>3. ~(q.adapter \notin Adapters) /\ q.adapter # None
    BY <1>1 DEF Quotas
  <2>4. mode \in {"api", "subscription"} /\ (mode = "subscription" => w.budget = None)
    BY <1>2 DEF UsableQuota, UnlessDefault
  <2>5. /\ ~(w.budget # None /\ w.budget < 0)
        /\ ~(q.adapter = Budgeted /\ mode = "api" /\ Default(w.budget, 0) = 0)
    BY <1>1, <1>4 DEF UsableQuota, Quotas
  <2>6. ~(w.gate # None /\ Default(w.gate.threshold, 0) > 0)
    <3>1. w.gate # None => Default(w.gate.threshold, 0) = q.gate.threshold
      BY <1>5
    <3>2. q.gate.threshold <= 0 /\ q.gate.threshold \in Int
      BY <1>1 DEF UsableQuota, Quotas
    <3>. QED  BY <3>1, <3>2
  <2>7. Default(q.adapter, id) = q.adapter /\ Default(w.mode, "api") = "api"
    BY <2>1, <2>3 DEF Default
  <2>. QED  BY <2>1, <2>2, <2>3, <2>4, <2>5, <2>6, <2>7 DEF QuotaFromWire
<1>9. result = [adapter |-> q.adapter, budget |-> q.budget, group |-> q.group, weight |-> q.weight,
                schedule |-> None, gate |-> q.gate, exempt |-> q.exempt]
  BY <1>2, <1>4, <1>5, <1>6, <1>7
<1>10. q = [adapter |-> q.adapter, budget |-> q.budget, group |-> q.group, weight |-> q.weight,
            schedule |-> q.schedule, gate |-> q.gate, exempt |-> q.exempt]
  BY <1>1 DEF Quotas
<1>. QED  BY <1>8, <1>9, <1>10 DEF w

\* What operationalFromWire does not refuse is usable, and loaded again as it was.
LEMMA OperationalLoaded ==
  ASSUME NEW w \in Maybe(OperationalKeys), Operational(w) # Refused
  PROVE  UsableOperational(Operational(w))
<1> DEFINE op == Operational(w)
           Kind == [absolute : {TRUE}, timeout : Int]
<1>1. CASE w = None
  <2>1. op = [duration |-> 30, backups |-> 1, actions |-> <<>>]
    BY <1>1 DEF Operational, DefaultOperational
  <2>2. <<>> \in Seq(Kind) /\ DOMAIN <<>> = {} /\ Len(<<>>) <= MaxOnChangeActions
    BY PolicyAssumption
  <2> HIDE DEF op, Kind
  <2>3. UsableOperational(op)
    BY <2>1, <2>2 DEF UsableOperational, Kind
  <2>. QED  BY <2>3 DEF op
<1>2. CASE w # None
  <2>1. w \in OperationalKeys
    BY <1>2 DEF Maybe
  <2> DEFINE timeout(i) == Default(w.actions[i].timeout, 10)
             actions == [i \in DOMAIN w.actions |-> [absolute |-> TRUE, timeout |-> timeout(i)]]
  <2>2. /\ ~(Default(w.duration, 30) <= 0) /\ ~(Default(w.backups, 1) <= 0) /\ ~(Len(w.actions) > MaxOnChangeActions)
        /\ \A i \in DOMAIN w.actions : timeout(i) \in 1..60
        /\ op = [duration |-> Default(w.duration, 30), backups |-> Default(w.backups, 1), actions |-> actions]
    BY <1>2 DEF Operational
  <2>3. Default(w.duration, 30) \in Int /\ Default(w.backups, 1) \in Int
    BY <2>1 DEF OperationalKeys, Maybe, Default
  <2>4. w.actions \in Seq([absolute : BOOLEAN, timeout : Maybe(Int)])
    BY <2>1 DEF OperationalKeys
  <2>5. DOMAIN w.actions = 1..Len(w.actions) /\ Len(w.actions) \in Nat
    BY <2>4
  <2>6. actions \in [1..Len(w.actions) -> Kind]
    <3> HIDE DEF timeout
    <3>1. ASSUME NEW i \in 1..Len(w.actions)
          PROVE  [absolute |-> TRUE, timeout |-> timeout(i)] \in Kind
      <4>0. i \in DOMAIN w.actions
        BY <2>5
      <4>1. timeout(i) \in Int
        <5>1. timeout(i) \in 1..60
          BY <2>2, <4>0
        <5>2. 1..60 \subseteq Int
          OBVIOUS
        <5>. QED  BY <5>1, <5>2
      <4>2. \A t \in Int : [absolute |-> TRUE, timeout |-> t] \in Kind
        OBVIOUS
      <4>. QED  BY <4>1, <4>2
    <3> HIDE DEF Kind
    <3>. QED  BY <2>5, <3>1
  <2>7. actions \in Seq(Kind) /\ Len(actions) = Len(w.actions) /\ \A i \in DOMAIN actions : actions[i].timeout \in 1..60
    BY <2>2, <2>5, <2>6
  <2>11. Len(actions) <= MaxOnChangeActions
    BY <2>2, <2>5, <2>7, PolicyAssumption
  <2> HIDE DEF actions, timeout, op, Kind
  <2>8. op.duration > 0 /\ op.backups > 0 /\ op.actions = actions
    BY <2>2, <2>3
  <2>9. op \in [duration : Int, backups : Int, actions : Seq(Kind)]
    BY <2>2, <2>3, <2>7
  <2>10. UsableOperational(op)
    BY <2>7, <2>8, <2>9, <2>11 DEF UsableOperational, Kind
  <2>. QED  BY <2>10 DEF op
<1>. QED  BY <1>1, <1>2

LEMMA OperationalAgain ==
  ASSUME NEW op, UsableOperational(op)
  PROVE  op \in OperationalKeys /\ op # None /\ Operational(op) = op
<1> DEFINE Kind == [absolute : {TRUE}, timeout : Int]
           n == Len(op.actions)
<1>1. op \in [duration : Int, backups : Int, actions : Seq(Kind)]
  BY DEF UsableOperational
<1>0. op.actions \in Seq(Kind)
  BY <1>1
<1> HIDE DEF Kind
<1>2. op.actions \in Seq(Kind) /\ n \in Nat /\ DOMAIN op.actions = 1..n /\ \A i \in 1..n : op.actions[i] \in Kind
  BY <1>0
<1>3. op.duration \in Int /\ op.backups \in Int /\ ~(op.duration <= 0) /\ ~(op.backups <= 0)
  BY <1>1 DEF UsableOperational
<1>4. op \in OperationalKeys
  <2> DEFINE Wire == [absolute : BOOLEAN, timeout : Maybe(Int)]
  <2>1. Kind \subseteq Wire
    BY DEF Maybe, Kind
  <2> HIDE DEF Wire
  <2>2. op.actions \in Seq(Wire)
    BY <1>2, <2>1
  <2>3. op \in [duration : Maybe(Int), backups : Maybe(Int), actions : Seq(Wire)]
    BY <1>1, <2>2 DEF Maybe
  <2>. QED  BY <2>3 DEF OperationalKeys, Wire
<1>5. op # None /\ op.duration # None /\ op.backups # None
  BY <1>3, <1>4, PolicyAssumption
<1>6. \A i \in 1..n : /\ op.actions[i].absolute = TRUE /\ Default(op.actions[i].timeout, 10) = op.actions[i].timeout
                      /\ op.actions[i].timeout \in 1..60
  <2>1. ASSUME NEW i \in 1..n
        PROVE  op.actions[i].absolute = TRUE /\ op.actions[i].timeout # None /\ op.actions[i].timeout \in 1..60
    <3>1. op.actions[i] \in Kind
      BY <1>2
    <3>2. op.actions[i].timeout \in Int /\ op.actions[i].absolute = TRUE
      BY <3>1 DEF Kind
    <3>. QED  BY <1>2, <3>2, PolicyAssumption DEF UsableOperational
  <2>. QED  BY <2>1 DEF Default
<1> DEFINE actions == [i \in DOMAIN op.actions |-> [absolute |-> TRUE, timeout |-> Default(op.actions[i].timeout, 10)]]
<1>7. actions = op.actions
  <2>1. ASSUME NEW i \in 1..n
        PROVE  [absolute |-> TRUE, timeout |-> Default(op.actions[i].timeout, 10)] = op.actions[i]
    BY <1>2, <1>6 DEF Kind
  <2>2. actions = [i \in 1..n |-> op.actions[i]]
    BY <1>2, <2>1
  <2>3. op.actions = [i \in 1..n |-> op.actions[i]]
    BY <1>2
  <2>. QED  BY <2>2, <2>3
<1>10. ~(Len(op.actions) > MaxOnChangeActions)
  BY <1>2, PolicyAssumption DEF UsableOperational
<1>8. Operational(op) = [duration |-> op.duration, backups |-> op.backups, actions |-> actions]
  BY <1>2, <1>3, <1>5, <1>6, <1>10 DEF Operational, Default
<1>9. op = [duration |-> op.duration, backups |-> op.backups, actions |-> op.actions]
  BY <1>1
<1>. QED  BY <1>4, <1>5, <1>7, <1>8, <1>9

\* The same of selectionFromWire and selectionOut.
LEMMA SelectionLoaded ==
  ASSUME NEW w \in Maybe(SelectionKeys), Selection(w) # Refused
  PROVE  UsableSelection(Selection(w))
<1>1. "documented" \in Text
  BY DEF Text
<1>2. CASE w = None
  BY <1>1, <1>2 DEF Selection, DefaultSelection, UsableSelection
<1>3. CASE w # None
  <2>1. w.enabled \in Maybe(BOOLEAN) /\ w.pin \in Maybe(Text) /\ w.timeout \in Maybe(Int)
    BY <1>3 DEF SelectionKeys, Maybe
  <2>2. w.pin # "malformed" /\ (w.timeout # None => ~(w.timeout <= 0))
    BY <1>3 DEF Selection
  <2>3. Default(w.enabled, FALSE) \in BOOLEAN
    BY <2>1 DEF Maybe, Default
  <2>4. Default(w.pin, "documented") \in Text /\ Default(w.pin, "documented") # "malformed"
    BY <1>1, <2>1, <2>2 DEF Maybe, Default
  <2>5. Default(w.timeout, 10) \in Int /\ Default(w.timeout, 10) > 0
    BY <2>1, <2>2 DEF Maybe, Default
  <2>6. Selection(w) = [enabled |-> Default(w.enabled, FALSE), pin |-> Default(w.pin, "documented"), timeout |-> Default(w.timeout, 10)]
    BY <1>3, <2>2 DEF Selection
  <2> DEFINE e == Default(w.enabled, FALSE)
             p == Default(w.pin, "documented")
             t == Default(w.timeout, 10)
  <2>7. e \in BOOLEAN /\ p \in Text /\ p # "malformed" /\ t \in Int /\ t > 0 /\ Selection(w) = [enabled |-> e, pin |-> p, timeout |-> t]
    BY <2>3, <2>4, <2>5, <2>6
  <2> HIDE DEF e, p, t
  <2>. QED  BY ONLY <2>7 DEF UsableSelection
<1>. QED  BY <1>2, <1>3

LEMMA SelectionAgain ==
  ASSUME NEW s, UsableSelection(s)
  PROVE  Selection(SelectionOut(s)) = s /\ SelectionOut(s) \in Maybe(SelectionKeys)
<1>1. s = [enabled |-> s.enabled, pin |-> s.pin, timeout |-> s.timeout]
  BY DEF UsableSelection
<1>2. s.enabled \in BOOLEAN /\ s.pin \in Text /\ s.timeout \in Int /\ s.pin # "malformed" /\ s.timeout > 0
  BY DEF UsableSelection
<1>3. CASE s = DefaultSelection
  BY <1>3 DEF Selection, SelectionOut, Maybe
<1>4. CASE s # DefaultSelection
  <2> DEFINE w == SelectionOut(s)
  <2>1. w = [enabled |-> IF s.enabled THEN TRUE ELSE None, pin |-> UnlessDefault(s.pin, "documented"),
             timeout |-> UnlessDefault(s.timeout, 10)]
    BY <1>4 DEF SelectionOut
  <2>2. w \in SelectionKeys
    <3>1. UnlessDefault(s.pin, "documented") \in Maybe(Text) /\ UnlessDefault(s.timeout, 10) \in Maybe(Int)
      BY <1>2 DEF UnlessDefault, Maybe
    <3>2. (IF s.enabled THEN TRUE ELSE None) \in Maybe(BOOLEAN)
      BY DEF Maybe
    <3> DEFINE e == IF s.enabled THEN TRUE ELSE None
               p == UnlessDefault(s.pin, "documented")
               t == UnlessDefault(s.timeout, 10)
    <3>3. e \in Maybe(BOOLEAN) /\ p \in Maybe(Text) /\ t \in Maybe(Int) /\ w = [enabled |-> e, pin |-> p, timeout |-> t]
      BY <2>1, <3>1, <3>2
    <3> HIDE DEF e, p, t, w
    <3>. QED  BY ONLY <3>3 DEF SelectionKeys
  <2>3. w # None
    BY <2>2, PolicyAssumption
  <2>4. Default(w.enabled, FALSE) = s.enabled
    <3>1. w.enabled = IF s.enabled THEN TRUE ELSE None
      BY <2>1
    <3>2. CASE s.enabled = TRUE
      BY <3>1, <3>2, PolicyAssumption DEF Default
    <3>3. CASE s.enabled = FALSE
      BY <3>1, <3>3 DEF Default
    <3>. QED  BY <1>2, <3>2, <3>3
  <2>5. Default(w.pin, "documented") = s.pin /\ w.pin # "malformed"
    <3>1. w.pin = UnlessDefault(s.pin, "documented")
      BY <2>1
    <3>2. "malformed" # None
      BY PolicyAssumption DEF Text
    <3>. QED  BY <1>2, <3>1, <3>2, PolicyAssumption DEF Default, UnlessDefault
  <2>6. Default(w.timeout, 10) = s.timeout /\ (w.timeout # None => ~(w.timeout <= 0))
    BY <1>2, <2>1, PolicyAssumption DEF Default, UnlessDefault
  <2> HIDE DEF w
  <2>7. Selection(w) = s
    BY <1>1, <2>3, <2>4, <2>5, <2>6 DEF Selection
  <2>. QED  BY <2>2, <2>7 DEF w, Maybe
<1>. QED  BY <1>3, <1>4

-----------------------------------------------------------------------------
(***************************************************************************)
(* A document.                                                             *)
(***************************************************************************)
LEMMA LegacyQuotaLoaded ==
  ASSUME NEW id, NEW w \in Maybe(QuotaKeys), LegacyQuota(id, w) # Refused
  PROVE  LegacyQuota(id, w) = None \/ UsableQuota(LegacyQuota(id, w))
<1>1. NoQuota \in QuotaKeys
  BY DEF NoQuota, QuotaKeys, Maybe
<1>2. Default(w, NoQuota) \in QuotaKeys
  BY <1>1 DEF Default, Maybe
<1>3. CASE LegacyQuota(id, w) = QuotaFromWire(id, None, Default(w, NoQuota))
  BY <1>2, <1>3, QuotaLoaded
<1>4. CASE w # None /\ LegacyQuota(id, w) = QuotaFromWire(id, None, w)
  BY <1>4, QuotaLoaded DEF Maybe
<1>. QED  BY <1>3, <1>4 DEF LegacyQuota

LEMMA EnrolledQuotaLoaded ==
  ASSUME NEW id, NEW w \in Maybe(QuotaKeys), EnrolledQuota(id, w) # Refused
  PROVE  EnrolledQuota(id, w) = None \/ UsableQuota(EnrolledQuota(id, w))
<1>1. CASE w = None
  BY <1>1 DEF EnrolledQuota
<1>2. CASE w # None
  <2>1. w \in QuotaKeys /\ EnrolledQuota(id, w) = QuotaFromWire(id, w.adapter, w)
    BY <1>2 DEF EnrolledQuota, Maybe
  <2>. QED  BY <2>1, QuotaLoaded
<1>. QED  BY <1>1, <1>2

\* What a policy has that is loaded or proposed, and what is as in the document.
IsPolicy(d) ==
  /\ d = [mode |-> d.mode, operational |-> d.operational, selection |-> d.selection, routing |-> d.routing,
          providers |-> d.providers, global |-> d.global, projects |-> d.projects]
  /\ UsableOperational(d.operational) /\ UsableSelection(d.selection)
  /\ d.projects \in Seq(Targets) /\ d.global \in Targets
  /\ \A id \in DOMAIN d.providers : d.providers[id].quota = None \/ UsableQuota(d.providers[id].quota)
LoadedFrom(d, doc) ==
  /\ IsPolicy(d)
  /\ d.mode = IF doc.mode = "provider-only" THEN "provider-only" ELSE "legacy"
  /\ d.projects = doc.projects /\ DOMAIN d.providers = DOMAIN doc.providers

LEMMA DocumentParts ==
  ASSUME NEW doc, IsDocument(doc)
  PROVE  /\ doc # NoFile
         /\ doc.mode \in Maybe(Text) /\ doc.operational \in Maybe(OperationalKeys)
         /\ doc.selection \in Maybe(SelectionKeys) /\ doc.global \in Maybe(Targets) /\ doc.projects \in Seq(Targets)
         /\ \A id \in DOMAIN doc.providers : doc.providers[id].quota \in Maybe(QuotaKeys)
  BY DEF IsDocument, NoFile

LEMMA BareTargetFacts ==
  ASSUME NEW id \in Maybe(Text), NEW root \in Maybe(Text)
  PROVE  LET t == BareTarget(id, root) IN
         /\ t \in Targets /\ t.id = id /\ t.root = root
         /\ TargetRefs(t) = {} /\ t.definitions = <<>>
<1>1. <<>> \in Seq(References) /\ <<>> \in Definitions
  BY DEF Definitions
<1>2. [f \in Fields |-> <<>>] \in Chains
  BY <1>1 DEF Chains
<1> DEFINE t == BareTarget(id, root)
<1>3. t = [id |-> id, root |-> root, chains |-> [f \in Fields |-> <<>>], definitions |-> <<>>]
  BY DEF BareTarget
<1> HIDE DEF t
<1>4. t \in Targets
  BY <1>1, <1>2, <1>3 DEF Targets
<1>5. t.id = id /\ t.root = root /\ t.definitions = <<>> /\ t.chains = [f \in Fields |-> <<>>]
  BY <1>3
<1>6. TargetRefs(t) = {}
  <2>1. \A f \in Fields : t.chains[f] = <<>>
    BY <1>5
  <2>2. ToSet(<<>>) = {} /\ DOMAIN <<>> = {}
    BY DEF ToSet
  <2>. QED  BY <1>5, <2>1, <2>2 DEF TargetRefs, Entries
<1>. QED  BY <1>4, <1>5, <1>6 DEF t

LEMMA NoTargetFacts == NoTarget \in Targets /\ NoTarget.id = None /\ NoTarget.root = None
  BY BareTargetFacts DEF NoTarget, Maybe

LEMMA LegacyLoaded ==
  ASSUME NEW doc, IsDocument(doc), LoadLegacy(doc) # Refused, doc.mode # "provider-only"
  PROVE  LoadedFrom(LoadLegacy(doc), doc)
<1> DEFINE quotas == [id \in DOMAIN doc.providers |-> LegacyQuota(id, doc.providers[id].quota)]
           sel == Selection(doc.selection)
           op == Operational(doc.operational)
           global == Default(doc.global, NoTarget)
           providers == [id \in DOMAIN doc.providers |->
             [models |-> Baselines(doc.providers[id]), keep |-> doc.providers[id].keep, quota |-> quotas[id]]]
           routing == Default(doc.routing, TRUE)
           d == LoadLegacy(doc)
<1>1. /\ sel # Refused /\ op # Refused /\ \A id \in DOMAIN quotas : quotas[id] # Refused
      /\ d = [mode |-> "legacy", operational |-> op, selection |-> sel, routing |-> routing, providers |-> providers,
              global |-> global, projects |-> doc.projects]
  BY DEF LoadLegacy
<1>2. UsableOperational(op) /\ UsableSelection(sel)
  BY <1>1, DocumentParts, OperationalLoaded, SelectionLoaded
<1>3. global \in Targets /\ doc.projects \in Seq(Targets)
  BY DocumentParts, NoTargetFacts DEF Default, Maybe
<1>4. DOMAIN providers = DOMAIN doc.providers
  OBVIOUS
<1>5. ASSUME NEW id \in DOMAIN doc.providers
      PROVE  providers[id].quota = None \/ UsableQuota(providers[id].quota)
  <2>1. doc.providers[id].quota \in Maybe(QuotaKeys) /\ LegacyQuota(id, doc.providers[id].quota) # Refused
    BY <1>1, DocumentParts
  <2>2. providers[id].quota = LegacyQuota(id, doc.providers[id].quota)
    OBVIOUS
  <2>. QED  BY <2>1, <2>2, LegacyQuotaLoaded
<1> HIDE DEF quotas, sel, op, global, providers, routing, d
<1>6. /\ d.mode = "legacy" /\ d.operational = op /\ d.selection = sel /\ d.routing = routing
      /\ d.providers = providers /\ d.global = global /\ d.projects = doc.projects
  BY <1>1
<1>7. LoadedFrom(d, doc)
  BY <1>1, <1>2, <1>3, <1>4, <1>5, <1>6 DEF LoadedFrom, IsPolicy
<1>. QED  BY <1>7 DEF d

\* A provider-only policy has no references, and a root and a name for each target.
EnrolledOnly(d) ==
  /\ d.selection = DefaultSelection /\ d.routing = FALSE /\ DOMAIN d.providers # {}
  /\ \A id \in DOMAIN d.providers : d.providers[id].models = <<>> /\ d.providers[id] =
       [models |-> d.providers[id].models, keep |-> d.providers[id].keep, quota |-> d.providers[id].quota]
  /\ TargetRefs(d.global) = {} /\ d.global.definitions = <<>> /\ d.global.root # None
  /\ \A i \in DOMAIN d.projects : LET p == d.projects[i] IN
       /\ TargetRefs(p) = {} /\ p.definitions = <<>> /\ p.id # None /\ p.root # None
       /\ \A j \in 1..(i - 1) : d.projects[j].id # p.id

LEMMA EnrolledLoaded ==
  ASSUME NEW doc, IsDocument(doc), LoadProviderOnly(doc) # Refused, doc.mode = "provider-only"
  PROVE  LoadedFrom(LoadProviderOnly(doc), doc) /\ EnrolledOnly(LoadProviderOnly(doc))
<1> DEFINE quotas == [id \in DOMAIN doc.providers |-> EnrolledQuota(id, doc.providers[id].quota)]
           op == Operational(doc.operational)
           providers == [id \in DOMAIN doc.providers |->
             [models |-> <<>>, keep |-> doc.providers[id].keep, quota |-> quotas[id]]]
           d == LoadProviderOnly(doc)
<1>1. /\ op # Refused /\ \A id \in DOMAIN quotas : quotas[id] # Refused
      /\ d = [mode |-> "provider-only", operational |-> op, selection |-> DefaultSelection, routing |-> FALSE,
              providers |-> providers, global |-> doc.global, projects |-> doc.projects]
  BY DEF LoadProviderOnly
<1>2. /\ DOMAIN doc.providers # {} /\ doc.global # None
      /\ TargetRefs(doc.global) = {} /\ doc.global.definitions = <<>> /\ doc.global.root # None
      /\ \A i \in DOMAIN doc.projects : LET p == doc.projects[i] IN
           /\ TargetRefs(p) = {} /\ p.definitions = <<>> /\ p.id # None /\ p.root # None
           /\ \A j \in 1..(i - 1) : doc.projects[j].id # p.id
  BY DEF LoadProviderOnly
<1>3. UsableOperational(op) /\ UsableSelection(DefaultSelection)
  <2>1. "documented" \in Text
    BY DEF Text
  <2>. QED  BY <1>1, <2>1, DocumentParts, OperationalLoaded DEF DefaultSelection, UsableSelection
<1>4. doc.global \in Targets /\ doc.projects \in Seq(Targets)
  BY <1>2, DocumentParts DEF Maybe
<1>5. DOMAIN providers = DOMAIN doc.providers
  OBVIOUS
<1>6. ASSUME NEW id \in DOMAIN doc.providers
      PROVE  /\ providers[id].quota = None \/ UsableQuota(providers[id].quota)
             /\ providers[id].models = <<>>
             /\ providers[id] = [models |-> providers[id].models, keep |-> providers[id].keep, quota |-> providers[id].quota]
  <2>1. doc.providers[id].quota \in Maybe(QuotaKeys) /\ EnrolledQuota(id, doc.providers[id].quota) # Refused
    BY <1>1, DocumentParts
  <2>2. providers[id] = [models |-> <<>>, keep |-> doc.providers[id].keep, quota |-> EnrolledQuota(id, doc.providers[id].quota)]
    OBVIOUS
  <2>. QED  BY <2>1, <2>2, EnrolledQuotaLoaded
<1> HIDE DEF quotas, op, providers, d
<1>7. /\ d.mode = "provider-only" /\ d.operational = op /\ d.selection = DefaultSelection /\ d.routing = FALSE
      /\ d.providers = providers /\ d.global = doc.global /\ d.projects = doc.projects
  BY <1>1
<1>8. LoadedFrom(d, doc)
  BY <1>1, <1>3, <1>4, <1>5, <1>6, <1>7 DEF LoadedFrom, IsPolicy
<1>9. EnrolledOnly(d)
  BY <1>2, <1>5, <1>6, <1>7 DEF EnrolledOnly
<1>. QED  BY <1>8, <1>9 DEF d

LEMMA Loaded ==
  ASSUME NEW doc, IsDocument(doc), LoadPolicy(doc) # Refused
  PROVE  LoadedFrom(LoadPolicy(doc), doc) /\ (doc.mode = "provider-only" => EnrolledOnly(LoadPolicy(doc)))
<1>1. CASE doc.mode = "provider-only"
  <2>1. LoadPolicy(doc) = LoadProviderOnly(doc)
    BY <1>1 DEF LoadPolicy
  <2>. QED  BY <1>1, <2>1, EnrolledLoaded
<1>2. CASE doc.mode # "provider-only"
  <2>1. LoadPolicy(doc) = LoadLegacy(doc)
    BY <1>2 DEF LoadPolicy
  <2>. QED  BY <1>2, <2>1, LegacyLoaded
<1>. QED  BY <1>1, <1>2

-----------------------------------------------------------------------------
(***************************************************************************)
(* LoadedIsUsable.                                                         *)
(***************************************************************************)
\* The parts of LoadedIsUsable: references, quotas, and what is written again.
ReferencesResolve(d) ==
  \A t \in {d.global} \cup ToSet(d.projects) : \A ref \in TargetRefs(t) :
    d.mode = "legacy" /\ ref.form # "broken" /\ Cardinality(Resolved(d, ref)) = 1
QuotasUsable(d) ==
  \A id \in DOMAIN d.providers : LET q == d.providers[id].quota IN
    q # None => q.adapter \in Adapters /\ q.weight # 0 /\ (q.adapter = Budgeted => q.budget > 0)
Rewritten(d) ==
  [d EXCEPT !.providers = [id \in DOMAIN d.providers |-> LET q == d.providers[id].quota IN
     [models |-> <<>>, keep |-> FALSE, quota |-> IF q = None THEN None ELSE [q EXCEPT !.schedule = None]]]]

\* Each reference of a legacy policy is of one mapping (the graph of load.go).
LEMMA LegacyReferences ==
  ASSUME NEW doc, IsDocument(doc), LoadLegacy(doc) # Refused
  PROVE  ReferencesResolve(LoadLegacy(doc))
<1> DEFINE d == LoadLegacy(doc)
           global == Default(doc.global, NoTarget)
<1>1. /\ ~ModelsRefused(doc.providers) /\ ~TargetRefused(global, doc.providers)
      /\ \A i \in DOMAIN doc.projects : ~TargetRefused(doc.projects[i], doc.providers)
  BY DEF LoadLegacy
<1>2. /\ d.mode = "legacy" /\ d.global = global /\ d.projects = doc.projects
      /\ DOMAIN d.providers = DOMAIN doc.providers
      /\ \A id \in DOMAIN doc.providers : d.providers[id].models = Baselines(doc.providers[id])
  BY DEF LoadLegacy
<1> HIDE DEF d, global
<1>3. ASSUME NEW t \in {d.global} \cup ToSet(d.projects), NEW ref \in TargetRefs(t)
      PROVE  ref.form # "broken" /\ Cardinality(Resolved(d, ref)) = 1
  <2>1. ~TargetRefused(t, doc.providers)
    BY <1>1, <1>2, <1>3 DEF ToSet
  <2>2. ref.form # "broken" /\ OwnersOf(doc.providers, ref.base) # {}
    BY <2>1, <1>3 DEF TargetRefused, Resolves
  <2>3. PICK id \in DOMAIN doc.providers : ref.base \in Names(doc.providers[id])
    BY <2>2 DEF OwnersOf
  <2>4. OwnersOf(doc.providers, ref.base) = {id}
    BY <1>1, <2>3 DEF ModelsRefused
  <2>5. ASSUME NEW other \in DOMAIN doc.providers
        PROVE  DOMAIN d.providers[other].models = Names(doc.providers[other])
    <3>1. d.providers[other].models = Baselines(doc.providers[other])
      BY <1>2
    <3>2. DOMAIN Baselines(doc.providers[other]) = Names(doc.providers[other])
      BY DEF Baselines
    <3>. QED  BY <3>1, <3>2
  <2>6. Resolved(d, ref) = OwnersOf(doc.providers, ref.base)
    BY <1>2, <2>5 DEF Resolved, OwnersOf
  <2>. QED  BY <2>2, <2>4, <2>6, FS_Singleton
<1>4. ReferencesResolve(d)
  BY <1>2, <1>3 DEF ReferencesResolve
<1>. QED  BY <1>4 DEF d

LEMMA QuotasUsableWhenLoaded ==
  ASSUME NEW doc, IsDocument(doc), LoadPolicy(doc) # Refused
  PROVE  QuotasUsable(LoadPolicy(doc))
<1> DEFINE d == LoadPolicy(doc)
<1>1. LoadedFrom(d, doc)
  BY Loaded
<1> HIDE DEF d
<1>2. \A id \in DOMAIN d.providers : d.providers[id].quota # None => UsableQuota(d.providers[id].quota)
  BY <1>1 DEF LoadedFrom, IsPolicy
<1>3. QuotasUsable(d)
  BY <1>2 DEF QuotasUsable, UsableQuota, Quotas
<1>. QED  BY <1>3 DEF d

\* No models are written as no models (modelOut).
LEMMA NoModelsOut == ModelsOut(<<>>) = <<>>
<1> DEFINE names == SetToSeq(DOMAIN <<>>)
<1>1. DOMAIN <<>> = {} /\ Cardinality({}) = 0
  BY FS_EmptySet
<1>2. <<>> \in [1..0 -> {}] /\ IsInjective(<<>>)
  BY DEF IsInjective
<1>3. names \in [1..0 -> {}]
  BY <1>1, <1>2 DEF SetToSeq
<1>4. names = <<>>
  BY <1>3
<1>. QED  BY <1>4 DEF ModelsOut

\* A provider-only policy that is written is loaded again, but for what has no key.
LEMMA EnrolledAgain ==
  ASSUME NEW d, IsPolicy(d), d.mode = "provider-only", EnrolledOnly(d)
  PROVE  LoadPolicy(Marshal(d)) = Rewritten(d)
<1> DEFINE M == Marshal(d)
           out == [id \in DOMAIN d.providers |->
                     [models |-> ModelsOut(d.providers[id].models), quota |-> QuotaOut(d.providers[id].quota), keep |-> FALSE]]
<1>1. d.global # NoTarget
  BY NoTargetFacts DEF EnrolledOnly
<1>2. Among(d.projects, ToSet(d.projects) \ {NoTarget}) = d.projects
  <2>1. d.projects \in Seq(Targets)
    BY DEF IsPolicy
  <2>2. NoTarget \notin ToSet(d.projects)
    BY NoTargetFacts DEF EnrolledOnly, ToSet
  <2>3. ToSet(d.projects) \subseteq ToSet(d.projects) \ {NoTarget}
    BY <2>2
  <2>. QED  BY <2>1, <2>3, AmongFacts
<1>3. M = [version |-> 1, mode |-> "provider-only", providers |-> out, global |-> d.global, projects |-> d.projects,
           operational |-> d.operational, routing |-> None, selection |-> None]
  <2>1. SelectionOut(d.selection) = None
    BY DEF EnrolledOnly, SelectionOut
  <2>2. UnlessDefault(d.global, NoTarget) = d.global
    BY <1>1 DEF UnlessDefault
  <2>. QED  BY <1>2, <2>1, <2>2 DEF Marshal
<1> HIDE DEF M
<1>4. ASSUME NEW id \in DOMAIN d.providers
      PROVE  /\ out[id].models = <<>> /\ out[id].keep = FALSE
             /\ EnrolledQuota(id, out[id].quota) # Refused
             /\ EnrolledQuota(id, out[id].quota)
                  = (LET q == d.providers[id].quota IN IF q = None THEN None ELSE [q EXCEPT !.schedule = None])
  <2>1. out[id].models = <<>> /\ out[id].keep = FALSE /\ out[id].quota = QuotaOut(d.providers[id].quota)
    BY NoModelsOut DEF EnrolledOnly
  <2> HIDE DEF out
  <2>2. CASE d.providers[id].quota = None
    <3>1. None # Refused
      BY PolicyAssumption DEF Refused
    <3>. QED  BY <2>1, <2>2, <3>1 DEF QuotaOut, EnrolledQuota
  <2>3. CASE d.providers[id].quota # None
    <3> DEFINE q == d.providers[id].quota
    <3>1. UsableQuota(q)
      BY <2>3 DEF IsPolicy
    <3>2. EnrolledQuota(id, out[id].quota) = [q EXCEPT !.schedule = None]
      BY <2>1, <3>1, QuotaAgain
    <3>3. [q EXCEPT !.schedule = None] # Refused
      BY <3>1 DEF UsableQuota, Quotas, Refused
    <3>. QED  BY <2>1, <2>3, <3>2, <3>3
  <2>. QED  BY <2>2, <2>3
<1>5. LoadPolicy(M) = LoadProviderOnly(M)
  BY <1>3 DEF LoadPolicy, NoFile
<1> DEFINE providers == [id \in DOMAIN out |->
             [models |-> <<>>, keep |-> out[id].keep, quota |-> EnrolledQuota(id, out[id].quota)]]
<1>6. DOMAIN out = DOMAIN d.providers
  OBVIOUS
<1>7. LoadProviderOnly(M) = [mode |-> "provider-only", operational |-> d.operational, selection |-> DefaultSelection,
        routing |-> FALSE, providers |-> providers, global |-> d.global, projects |-> d.projects]
  <2> HIDE DEF out
  <2>1. /\ M.providers = out /\ M.operational = d.operational /\ M.global = d.global /\ M.projects = d.projects
        /\ M.routing = None /\ M.selection = None
    BY <1>3
  <2>2. Operational(d.operational) = d.operational /\ d.operational # Refused
    <3>1. UsableOperational(d.operational)
      BY DEF IsPolicy
    <3>2. d.operational # Refused
      BY <3>1 DEF UsableOperational, Refused
    <3>. QED  BY <3>1, <3>2, OperationalAgain
  <2>3. d.global # None /\ DOMAIN out # {}
    BY <1>6, PolicyAssumption DEF IsPolicy, EnrolledOnly
  <2>4. /\ TargetRefs(d.global) = {} /\ d.global.definitions = <<>> /\ d.global.root # None
        /\ \A i \in DOMAIN d.projects : LET p == d.projects[i] IN
             /\ TargetRefs(p) = {} /\ p.definitions = <<>> /\ p.id # None /\ p.root # None
             /\ \A j \in 1..(i - 1) : d.projects[j].id # p.id
    BY DEF EnrolledOnly
  <2>5. ~\E id \in DOMAIN out : out[id].models # <<>> \/ EnrolledQuota(id, out[id].quota) = Refused
    BY <1>4, <1>6
  <2> DEFINE quotas == [id \in DOMAIN out |-> EnrolledQuota(id, out[id].quota)]
  <2>6. ~\E id \in DOMAIN out : out[id].models # <<>> \/ quotas[id] = Refused
    BY <2>5
  <2>7. providers = [id \in DOMAIN out |-> [models |-> <<>>, keep |-> out[id].keep, quota |-> quotas[id]]]
    OBVIOUS
  <2> HIDE DEF providers
  <2>. QED  BY <2>1, <2>2, <2>3, <2>4, <2>6, <2>7 DEF LoadProviderOnly
<1> DEFINE again == [id \in DOMAIN d.providers |-> LET q == d.providers[id].quota IN
             [models |-> <<>>, keep |-> FALSE, quota |-> IF q = None THEN None ELSE [q EXCEPT !.schedule = None]]]
<1>8. providers = again
  <2>1. \A id \in DOMAIN d.providers : providers[id] = again[id]
    BY <1>4, <1>6
  <2> HIDE DEF out
  <2>. QED  BY <1>6, <2>1
<1>9. Rewritten(d) = [mode |-> "provider-only", operational |-> d.operational, selection |-> DefaultSelection,
        routing |-> FALSE, providers |-> again, global |-> d.global, projects |-> d.projects]
  <2>1. Rewritten(d) = [d EXCEPT !.providers = again]
    BY Zenon DEF Rewritten
  <2> DEFINE o == d.operational
             p == d.providers
             g == d.global
             j == d.projects
  <2>2. d = [mode |-> "provider-only", operational |-> o, selection |-> DefaultSelection, routing |-> FALSE,
             providers |-> p, global |-> g, projects |-> j]
    BY DEF IsPolicy, EnrolledOnly
  <2> DEFINE r == FALSE
             m == "provider-only"
  <2>3. d = [mode |-> m, operational |-> o, selection |-> DefaultSelection, routing |-> r,
             providers |-> p, global |-> g, projects |-> j]
    BY <2>2
  <2> HIDE DEF again, o, p, g, j, r, m
  <2>4. [d EXCEPT !.providers = again]
          = [mode |-> m, operational |-> o, selection |-> DefaultSelection, routing |-> r,
             providers |-> again, global |-> g, projects |-> j]
    BY ONLY <2>3
  <2>. QED  BY <2>1, <2>4 DEF o, p, g, j, r, m
<1>. QED  BY <1>5, <1>7, <1>8, <1>9 DEF M

LEMMA UsableWhenLoaded ==
  ASSUME file = NoFile \/ IsDocument(file)
  PROVE  LoadedIsUsable
<1> DEFINE d == LoadPolicy(file)
<1>1. SUFFICES ASSUME d # Refused
               PROVE  ReferencesResolve(d) /\ QuotasUsable(d) /\ (d.mode = "provider-only" => LoadPolicy(Marshal(d)) = Rewritten(d))
  BY DEF LoadedIsUsable, ReferencesResolve, QuotasUsable, Rewritten
<1>2. file # NoFile /\ IsDocument(file)
  BY <1>1 DEF LoadPolicy
<1>3. LoadedFrom(d, file) /\ (file.mode = "provider-only" => EnrolledOnly(d))
  BY <1>1, <1>2, Loaded
<1>4. QuotasUsable(d)
  BY <1>1, <1>2, QuotasUsableWhenLoaded
<1>5. ReferencesResolve(d)
  <2>1. CASE file.mode = "provider-only"
    <3>1. EnrolledOnly(d)
      BY <1>3, <2>1
    <3>2. \A t \in {d.global} \cup ToSet(d.projects) : TargetRefs(t) = {}
      BY <3>1 DEF EnrolledOnly, ToSet
    <3> HIDE DEF d
    <3>. QED  BY <3>2 DEF ReferencesResolve
  <2>2. CASE file.mode # "provider-only"
    <3>1. d = LoadLegacy(file)
      BY <1>1, <2>2 DEF LoadPolicy
    <3>. QED  BY <1>1, <1>2, <3>1, LegacyReferences
  <2>. QED  BY <2>1, <2>2
<1>6. ASSUME d.mode = "provider-only"
      PROVE  LoadPolicy(Marshal(d)) = Rewritten(d)
  <2>1. file.mode = "provider-only"
    BY <1>3, <1>6 DEF LoadedFrom
  <2> HIDE DEF d
  <2>. QED  BY <1>3, <1>6, <2>1, EnrolledAgain DEF LoadedFrom
<1>. QED  BY <1>4, <1>5, <1>6

-----------------------------------------------------------------------------
(***************************************************************************)
(* What init proposes, and what it loads to.                               *)
(***************************************************************************)
\* What modelOut writes for the models of a graph is read back by baselineFromWire.
LEMMA ModelsAgain ==
  ASSUME NEW models, IsFiniteSet(DOMAIN models), NEW wire, wire.models = ModelsOut(models),
         models = [model \in DOMAIN models |-> [enabled |-> models[model].enabled, key |-> models[model].key]],
         \A model \in DOMAIN models : models[model].enabled \in BOOLEAN /\ models[model].key \in BOOLEAN
                                      /\ (models[model].key \/ models[model].enabled)
  PROVE  /\ Names(wire) = DOMAIN models /\ Baselines(wire) = models
         /\ Len(wire.models) = Cardinality(DOMAIN models)
<1> DEFINE S == DOMAIN models
           n == Cardinality(S)
           names == SetToSeq(S)
           enabled(b) == IF b.enabled /\ ~b.key THEN None ELSE b.enabled
<1>1. /\ n \in Nat /\ names \in [1..n -> S] /\ \A x \in S : \E i \in 1..n : names[i] = x
      /\ \A i, j \in 1..n : names[i] = names[j] => i = j
  BY SetToSeqFacts
<1>2. wire.models = [i \in 1..n |-> [name |-> names[i], enabled |-> enabled(models[names[i]])]]
  BY <1>1 DEF ModelsOut
<1> HIDE DEF S, n, names
<1>3. Names(wire) = S
  BY <1>1, <1>2 DEF Names
<1>4. ASSUME NEW model \in S
      PROVE  Baselines(wire)[model] = models[model]
  <2> DEFINE i == CHOOSE j \in DOMAIN wire.models : wire.models[j].name = model
             b == models[model]
  <2>1. DOMAIN wire.models = 1..n /\ \A j \in 1..n : wire.models[j].name = names[j]
    BY <1>2
  <2>2. i \in 1..n /\ names[i] = model
    BY <1>1, <2>1
  <2> HIDE DEF i
  <2>3. wire.models[i].enabled = enabled(b)
    BY <1>2, <2>2
  <2>4. b.enabled \in BOOLEAN /\ b.key \in BOOLEAN /\ (b.key \/ b.enabled) /\ None \notin BOOLEAN
        /\ b = [enabled |-> b.enabled, key |-> b.key]
    BY PolicyAssumption DEF S
  <2>5. Default(enabled(b), TRUE) = b.enabled /\ (enabled(b) # None) = b.key
    <3> HIDE DEF b
    <3>. QED  BY <2>4 DEF Default
  <2>6. Baselines(wire)[model] = [enabled |-> Default(enabled(b), TRUE), key |-> enabled(b) # None]
    BY <1>3, <2>3 DEF Baselines, i
  <2> HIDE DEF enabled, b
  <2>7. Baselines(wire)[model] = b
    BY <2>4, <2>5, <2>6
  <2>. QED  BY <2>7 DEF b
<1>5. Baselines(wire) = models
  <2>1. Baselines(wire) = [model \in S |-> Baselines(wire)[model]]
    BY <1>3 DEF Baselines
  <2>2. models = [model \in S |-> models[model]]
    BY DEF S
  <2>. QED  BY <1>4, <2>1, <2>2
<1>6. Len(wire.models) = n
  BY <1>1, <1>2
<1>. QED  BY <1>3, <1>5, <1>6 DEF S, n

\* The chains of a target are among those of its root, and their models in the graph
\* (filterChain, defChain, buildTarget).
LEMMA BuiltTarget ==
  ASSUME NEW l, NEW source, IsSource(source), NEW id \in Maybe(Text), NEW root \in Maybe(Text)
  PROVE  LET t == BuildTarget(l, source, id, root) IN
         /\ t \in Targets /\ t.id = id /\ t.root = root
         /\ \A ref \in TargetRefs(t) : InGraph(l, ref.base)
<1> DEFINE t == BuildTarget(l, source, id, root)
           defs == source.definitions
           kept == [i \in DOMAIN defs |-> [path |-> defs[i].path, chain |-> Kept(l, defs[i].chain)]]
           chains == [f \in Fields |-> Kept(l, source.chains[f])]
           Def == [path : Text, chain : Seq(References)]
           some == {d \in ToSet(kept) : d.chain # <<>>}
<1>1. ASSUME NEW chain \in Seq(References)
      PROVE  Kept(l, chain) \in Seq(References) /\ \A ref \in ToSet(Kept(l, chain)) : InGraph(l, ref.base)
  <2> DEFINE S == {ref \in ToSet(chain) : InGraph(l, ref.base)}
  <2>1. Among(chain, S) \in Seq(References) /\ ToSet(Among(chain, S)) = ToSet(chain) \cap S
    <3> HIDE DEF S
    <3>. QED  BY AmongFacts
  <2>. QED  BY <2>1 DEF Kept
<1>2. chains \in Chains /\ \A f \in Fields : \A ref \in ToSet(chains[f]) : InGraph(l, ref.base)
  <2>1. \A f \in Fields : source.chains[f] \in Seq(References)
    BY DEF IsSource, Chains
  <2>. QED  BY <1>1, <2>1 DEF Chains
<1>3. defs \in Seq(Def)
  BY DEF IsSource, Definitions
<1>4. kept \in Seq(Def) /\ \A d \in ToSet(kept) : \A ref \in ToSet(d.chain) : InGraph(l, ref.base)
  <2>1. ASSUME NEW i \in DOMAIN defs
        PROVE  kept[i] \in Def /\ \A ref \in ToSet(kept[i].chain) : InGraph(l, ref.base)
    <3>1. defs[i] \in Def
      <4> HIDE DEF Def, defs, kept
      <4>. QED  BY <1>3
    <3>2. defs[i].path \in Text /\ defs[i].chain \in Seq(References)
      BY <3>1
    <3>3. kept[i].path = defs[i].path /\ kept[i].chain = Kept(l, defs[i].chain)
          /\ kept[i] = [path |-> defs[i].path, chain |-> Kept(l, defs[i].chain)]
      OBVIOUS
    <3>. QED  BY <1>1, <3>2, <3>3
  <2>2. DOMAIN defs = 1..Len(defs) /\ Len(defs) \in Nat /\ DOMAIN kept = DOMAIN defs
    BY <1>3
  <2> HIDE DEF kept, Def
  <2>3. kept = [i \in 1..Len(defs) |-> kept[i]]
    BY <2>2 DEF kept
  <2>4. kept \in [1..Len(defs) -> Def]
    BY <2>1, <2>2, <2>3
  <2>5. kept \in Seq(Def)
    BY <2>2, <2>4
  <2>. QED  BY <2>1, <2>2, <2>5 DEF ToSet
<1>5. Among(kept, some) \in Seq(Def) /\ ToSet(Among(kept, some)) \subseteq ToSet(kept)
  <2> HIDE DEF kept, some, Def
  <2>. QED  BY <1>4, AmongFacts
<1>6. t = [id |-> id, root |-> root, chains |-> chains, definitions |-> Among(kept, some)]
  BY DEF BuildTarget
<1> HIDE DEF kept, some, chains, t, defs
<1>7. t \in Targets /\ t.id = id /\ t.root = root
  BY <1>2, <1>5, <1>6 DEF Targets, Definitions
<1>8. \A ref \in TargetRefs(t) : InGraph(l, ref.base)
  <2>1. \A ref \in Entries(t.chains) : InGraph(l, ref.base)
    BY <1>2, <1>6 DEF Entries, Chains
  <2>2. \A i \in DOMAIN t.definitions : \A ref \in ToSet(t.definitions[i].chain) : InGraph(l, ref.base)
    <3>1. t.definitions = Among(kept, some)
      BY <1>6
    <3>2. \A i \in DOMAIN t.definitions : t.definitions[i] \in ToSet(kept)
      BY <1>5, <3>1 DEF ToSet
    <3>. QED  BY <1>4, <3>2
  <2>. QED  BY <2>1, <2>2 DEF TargetRefs
<1>. QED  BY <1>7, <1>8 DEF t

\* A proposal, with what is carried over.
Proposed(mode, op, s, providers, global, projects) ==
  [mode |-> mode, operational |-> op, selection |-> s, routing |-> mode = "legacy", providers |-> providers,
   global |-> global, projects |-> projects]

\* The projects of a policy are at roots that were found, and no target without a name.
LEMMA FoundRoots ==
  ASSUME NEW l, IsLive(l), NEW r \in Seq(Targets), ~Missing(l, r), NEW i \in DOMAIN r
  PROVE  r[i].root \in DOMAIN l.projects /\ r[i].root \in Text /\ r[i].root # None /\ r[i].id \in Maybe(Text)
<1>1. r[i].root \in DOMAIN l.projects
  BY DEF Missing
<1>2. r[i].root \in Text
  BY <1>1 DEF IsLive
<1>3. r[i] \in Targets
  OBVIOUS
<1>. QED  BY <1>1, <1>2, <1>3, PolicyAssumption DEF Targets

\* A graph that buildProviders does not refuse is read back as it was.
LEMMA GraphAgain ==
  ASSUME NEW l, IsLive(l), ~GraphRefused(l), NEW out,
         out = [id \in l.providers |->
                  [models |-> ModelsOut(Graph(l)[id].models), quota |-> QuotaOut(Graph(l)[id].quota), keep |-> FALSE]]
  PROVE  /\ ~ModelsRefused(out)
         /\ \A id \in l.providers : Baselines(out[id]) = Graph(l)[id].models
         /\ \A model : OwnersOf(out, model) # {} <=> InGraph(l, model)
<1>1. ASSUME NEW id \in l.providers
      PROVE  /\ Names(out[id]) = Enumerated(l, id) /\ Baselines(out[id]) = Graph(l)[id].models
             /\ out[id].models # <<>> /\ Len(out[id].models) = Cardinality(Enumerated(l, id))
             /\ Enumerated(l, id) \cap Patterns = {}
  <2> DEFINE models == Graph(l)[id].models
             E == Enumerated(l, id)
             of(model) == [enabled |-> Default(l.models[model], TRUE), key |-> l.models[model] # None]
  <2>1. models = [model \in E |-> of(model)]
    BY DEF Graph
  <2>2. IsFiniteSet(E)
    <3>1. E \subseteq DOMAIN l.models /\ IsFiniteSet(DOMAIN l.models)
      BY DEF Enumerated, IsLive
    <3>. QED  BY <3>1, FS_Subset
  <2>3. ASSUME NEW model \in E
        PROVE  LET b == of(model) IN b.enabled \in BOOLEAN /\ b.key \in BOOLEAN /\ (b.key \/ b.enabled)
    <3>1. l.models[model] \in Maybe(BOOLEAN)
      BY <2>3 DEF Enumerated, IsLive
    <3>. QED  BY <3>1 DEF Maybe, Default
  <2>4. out[id].models = ModelsOut(models)
    OBVIOUS
  <2>5. E # {} /\ E \cap Patterns = {}
    BY DEF GraphRefused
  <2> HIDE DEF models, E, of
  <2>6. DOMAIN models = E /\ \A model \in E : models[model] = of(model)
    BY <2>1
  <2>7. models = [model \in DOMAIN models |-> [enabled |-> models[model].enabled, key |-> models[model].key]]
    <3>1. \A model \in E : of(model) = [enabled |-> of(model).enabled, key |-> of(model).key]
      BY DEF of
    <3>. QED  BY <2>1, <2>6, <3>1
  <2>8. Names(out[id]) = E /\ Baselines(out[id]) = models /\ Len(out[id].models) = Cardinality(E)
    BY <2>2, <2>3, <2>4, <2>6, <2>7, ModelsAgain
  <2>9. out[id].models # <<>>
    BY <2>2, <2>5, <2>8, FS_EmptySet
  <2>. QED  BY <2>5, <2>8, <2>9 DEF models, E
<1>2. DOMAIN out = l.providers
  OBVIOUS
<1>3. \A model : OwnersOf(out, model) = {id \in l.providers : model \in Enumerated(l, id)}
  BY <1>1, <1>2 DEF OwnersOf
<1>4. ASSUME NEW id \in l.providers, NEW model \in Enumerated(l, id)
      PROVE  OwnersOf(out, model) = {id}
  <2> DEFINE O == NamedUnder[model] \cap l.providers
  <2>1. model \in DOMAIN l.models /\ OwnersOf(out, model) = O /\ id \in O
    BY <1>3, <1>4 DEF Enumerated
  <2>2. IsFiniteSet(O)
    BY FS_Intersection DEF IsLive
  <2>3. Cardinality(O) \in Nat /\ Cardinality(O) # 0 /\ ~(Cardinality(O) > 1)
    BY <2>1, <2>2, FS_CardinalityType, FS_EmptySet DEF GraphRefused
  <2> HIDE DEF O
  <2>4. Cardinality(O) = 1
    BY <2>3
  <2>5. PICK x : O = {x}
    BY <2>2, <2>4, FS_Singleton
  <2>. QED  BY <2>1, <2>5
<1> HIDE DEF Graph
<1>5. ~ModelsRefused(out)
  <2>1. SUFFICES ASSUME NEW id \in l.providers
                 PROVE  /\ out[id].models # <<>> /\ Names(out[id]) \cap Patterns = {}
                        /\ ~(Cardinality(Names(out[id])) < Len(out[id].models))
                        /\ \A model \in Names(out[id]) : OwnersOf(out, model) = {id}
    BY <1>2 DEF ModelsRefused
  <2>2. IsFiniteSet(Enumerated(l, id))
    <3>1. Enumerated(l, id) \subseteq DOMAIN l.models /\ IsFiniteSet(DOMAIN l.models)
      BY DEF Enumerated, IsLive
    <3>. QED  BY <3>1, FS_Subset
  <2>3. Cardinality(Enumerated(l, id)) \in Nat
    BY <2>2, FS_CardinalityType
  <2>4. Names(out[id]) = Enumerated(l, id) /\ Len(out[id].models) = Cardinality(Enumerated(l, id))
    BY <1>1
  <2>5. ~(Cardinality(Names(out[id])) < Len(out[id].models))
    BY <2>3, <2>4
  <2>6. \A model \in Names(out[id]) : OwnersOf(out, model) = {id}
    BY <1>4, <2>4
  <2>. QED  BY <1>1, <2>5, <2>6
<1>6. \A model : OwnersOf(out, model) # {} <=> InGraph(l, model)
  BY <1>3 DEF InGraph
<1>. QED  BY <1>1, <1>5, <1>6

ProvidersOut(providers) ==
  [id \in DOMAIN providers |->
     [models |-> ModelsOut(providers[id].models), quota |-> QuotaOut(providers[id].quota), keep |-> FALSE]]
Written(mode, op, s, providers, global, projects) ==
  [version |-> 1, mode |-> IF mode = "provider-only" THEN mode ELSE None, providers |-> ProvidersOut(providers),
   global |-> global, projects |-> projects, operational |-> op, routing |-> None, selection |-> SelectionOut(s)]

\* What is written of a proposal is a document, with the sections as they were.
LEMMA WrittenDocument ==
  ASSUME NEW mode, NEW op, NEW s, NEW providers, NEW global \in Targets, NEW projects \in Seq(Targets),
         UsableOperational(op), UsableSelection(s), global # NoTarget, \A i \in DOMAIN projects : projects[i] # NoTarget,
         DOMAIN providers \subseteq Text, \A id \in DOMAIN providers : providers[id].quota = None,
         mode \in {"legacy", "provider-only"}, NEW M, M = Marshal(Proposed(mode, op, s, providers, global, projects))
  PROVE  IsDocument(M) /\ M = Written(mode, op, s, providers, global, projects)
<1> DEFINE p == Proposed(mode, op, s, providers, global, projects)
           wireMode == IF mode = "provider-only" THEN mode ELSE None
           out == [id \in DOMAIN providers |->
             [models |-> ModelsOut(providers[id].models), quota |-> QuotaOut(providers[id].quota), keep |-> FALSE]]
<1>1. /\ p.mode = mode /\ p.operational = op /\ p.selection = s /\ p.providers = providers /\ p.global = global
      /\ p.projects = projects
  BY DEF Proposed
<1>0. M = Marshal(p)
  OBVIOUS
<1> HIDE DEF p
<1>2. Among(projects, ToSet(projects) \ {NoTarget}) = projects
  <2>1. ToSet(projects) \subseteq ToSet(projects) \ {NoTarget}
    BY DEF ToSet
  <2>. QED  BY <2>1, AmongFacts
<1>3. M = [version |-> 1, mode |-> wireMode, providers |-> out, global |-> global, projects |-> projects,
           operational |-> op, routing |-> None, selection |-> SelectionOut(s)]
  BY <1>0, <1>1, <1>2 DEF Marshal, UnlessDefault
<1>4. wireMode \in Maybe(Text) /\ op \in OperationalKeys /\ SelectionOut(s) \in Maybe(SelectionKeys)
  BY OperationalAgain, SelectionAgain DEF Maybe, Text
<1>5. DOMAIN out \subseteq Text /\ \A id \in DOMAIN out : out[id].keep \in BOOLEAN /\ out[id].quota \in Maybe(QuotaKeys)
  BY DEF QuotaOut, Maybe
<1> HIDE DEF wireMode, out
<1>6. M \in [version : Int, mode : Maybe(Text), operational : Maybe(OperationalKeys), routing : Maybe(BOOLEAN),
             selection : Maybe(SelectionKeys), providers : {M.providers}, global : Maybe(Targets), projects : Seq(Targets)]
  BY <1>3, <1>4 DEF Maybe
<1>7. M.providers = out
  BY <1>3
<1>8. IsDocument(M)
  BY <1>5, <1>6, <1>7 DEF IsDocument
<1>. QED  BY <1>3, <1>8 DEF wireMode, out, Written, ProvidersOut

\* What InitKeeps says of a document that is written and the proposal it was written from.
Faithful(w, p, po) ==
  LET d == LoadPolicy(w) IN
  /\ d = Refused <=> \E t \in {p.global} \cup ToSet(p.projects) : \E ref \in TargetRefs(t) : ref.form = "broken"
  /\ d # Refused =>
       /\ d.mode = IF po THEN "provider-only" ELSE "legacy"
       /\ [d EXCEPT !.providers = [id \in DOMAIN d.providers |-> [d.providers[id] EXCEPT !.quota = None]]] = p

\* Init: a legacy proposal.
LEMMA LegacyWritten ==
  ASSUME NEW l, IsLive(l), NEW r \in Seq(Targets), ~GraphRefused(l), ~Missing(l, r), NEW s, UsableSelection(s),
         NEW p, p = Proposed("legacy", DefaultOperational, s, Graph(l), BuildTarget(l, l.global, "global", l.root),
                      [i \in DOMAIN r |-> BuildTarget(l, l.projects[r[i].root], r[i].id, r[i].root)])
  PROVE  IsDocument(Marshal(p)) /\ Faithful(Marshal(p), p, FALSE)
<1> DEFINE global == BuildTarget(l, l.global, "global", l.root)
           projects == [i \in DOMAIN r |-> BuildTarget(l, l.projects[r[i].root], r[i].id, r[i].root)]
           M == Marshal(p)
           out == [id \in l.providers |->
             [models |-> ModelsOut(Graph(l)[id].models), quota |-> QuotaOut(Graph(l)[id].quota), keep |-> FALSE]]
           Adopted(t) == t \in Targets /\ t # NoTarget /\ \A ref \in TargetRefs(t) : InGraph(l, ref.base)
<1>1. Adopted(global)
  <2>1. IsSource(l.global) /\ "global" \in Maybe(Text) /\ l.root \in Maybe(Text) /\ "global" # None
    BY PolicyAssumption DEF IsLive, Text, Maybe
  <2>2. global \in Targets /\ global.id = "global" /\ \A ref \in TargetRefs(global) : InGraph(l, ref.base)
    BY <2>1, BuiltTarget
  <2>. QED  BY <2>1, <2>2, NoTargetFacts
<1>2. ASSUME NEW i \in DOMAIN r
      PROVE  Adopted(projects[i])
  <2>1. r[i].root \in DOMAIN l.projects /\ r[i].root \in Text /\ r[i].root # None /\ r[i].id \in Maybe(Text)
    BY FoundRoots
  <2>2. IsSource(l.projects[r[i].root]) /\ r[i].root \in Maybe(Text)
    BY <2>1 DEF IsLive, Maybe
  <2> DEFINE source == l.projects[r[i].root]
             id == r[i].id
             root == r[i].root
             t == BuildTarget(l, source, id, root)
  <2>3. t \in Targets /\ t.root = r[i].root /\ \A ref \in TargetRefs(t) : InGraph(l, ref.base)
    <3>1. IsSource(source) /\ id \in Maybe(Text) /\ root \in Maybe(Text)
      BY <2>1, <2>2
    <3> HIDE DEF source, id, root
    <3>2. t \in Targets /\ t.root = root /\ \A ref \in TargetRefs(t) : InGraph(l, ref.base)
      BY <3>1, BuiltTarget
    <3>. QED  BY <3>2 DEF root
  <2>4. projects[i] = t
    OBVIOUS
  <2> HIDE DEF t, projects
  <2>. QED  BY <2>1, <2>3, <2>4, NoTargetFacts
<1>3. projects \in Seq(Targets) /\ DOMAIN projects = DOMAIN r
  <2>1. DOMAIN r = 1..Len(r) /\ Len(r) \in Nat /\ projects = [i \in 1..Len(r) |-> projects[i]] /\ DOMAIN projects = DOMAIN r
    OBVIOUS
  <2> HIDE DEF projects
  <2>2. projects \in [1..Len(r) -> Targets]
    BY <1>2, <2>1
  <2>. QED  BY <2>1, <2>2
<1> HIDE DEF global, projects
<1>4. p = Proposed("legacy", DefaultOperational, s, Graph(l), global, projects)
  BY DEF global, projects
<1>5. DOMAIN Graph(l) = l.providers /\ l.providers \subseteq Text /\ \A id \in l.providers : Graph(l)[id].quota = None
  BY DEF Graph, IsLive
<1>6. UsableOperational(DefaultOperational)
  <2>1. None \in Maybe(OperationalKeys) /\ Operational(None) = DefaultOperational /\ DefaultOperational # Refused
    BY DEF Maybe, Operational, DefaultOperational, Refused
  <2>. QED  BY <2>1, OperationalLoaded
<1>7. /\ IsDocument(M)
      /\ M = [version |-> 1, mode |-> None, providers |-> out, global |-> global, projects |-> projects,
              operational |-> DefaultOperational, routing |-> None, selection |-> SelectionOut(s)]
  <2> DEFINE mode == "legacy"
             op == DefaultOperational
             G == Graph(l)
             W == Marshal(Proposed(mode, op, s, G, global, projects))
  <2>1. /\ global \in Targets /\ global # NoTarget /\ \A i \in DOMAIN projects : projects[i] # NoTarget
        /\ DOMAIN G \subseteq Text /\ \A id \in DOMAIN G : G[id].quota = None
        /\ mode \in {"legacy", "provider-only"} /\ UsableOperational(op)
    BY <1>1, <1>2, <1>3, <1>5, <1>6
  <2>w. W = Marshal(Proposed(mode, op, s, G, global, projects))
    OBVIOUS
  <2> HIDE DEF mode, op, G, W
  <2>2. IsDocument(W) /\ W = Written(mode, op, s, G, global, projects)
    BY <1>3, <2>1, <2>w, WrittenDocument
  <2>3. W = M /\ DOMAIN G = l.providers
    BY <1>4, <1>5 DEF W, mode, op, G
  <2>4. ProvidersOut(G) = out
    BY <1>5 DEF G, ProvidersOut
  <2> HIDE DEF out
  <2>. QED  BY <2>2, <2>3, <2>4 DEF mode, op, Written
<1>8. /\ ~ModelsRefused(out)
      /\ \A id \in l.providers : Baselines(out[id]) = Graph(l)[id].models
      /\ \A model : OwnersOf(out, model) # {} <=> InGraph(l, model)
  BY GraphAgain
<1> DEFINE quotas == [id \in DOMAIN out |-> LegacyQuota(id, out[id].quota)]
           providers == [id \in DOMAIN out |-> [models |-> Baselines(out[id]), keep |-> out[id].keep, quota |-> quotas[id]]]
           broken(t) == \E ref \in TargetRefs(t) : ref.form = "broken"
           d == LoadPolicy(M)
<1>9. DOMAIN out = l.providers /\ \A id \in l.providers : out[id].quota = None /\ out[id].keep = FALSE
  BY <1>5 DEF QuotaOut
<1>10. ASSUME NEW id \in l.providers
       PROVE  LegacyQuota(id, None) # Refused
  <2>1. ASSUME id \in Adapters, id # Budgeted
        PROVE  QuotaFromWire(id, None, NoQuota) # Refused
    <3>1. Default(None, id) = id /\ "api" # "subscription"
      BY DEF Default
    <3> DEFINE w == NoQuota
    <3>2. w.mode = None /\ w.budget = None /\ w.gate = None /\ w.peaks = None
      BY DEF NoQuota
    <3> HIDE DEF w
    <3>3. QuotaFromWire(id, None, w) # Refused
      BY <2>1, <3>1, <3>2 DEF QuotaFromWire, Default, Refused
    <3>. QED  BY <3>3 DEF w
  <2>. QED  BY <2>1, PolicyAssumption DEF LegacyQuota, Default
<1>11. \A t : Adopted(t) => (TargetRefused(t, out) <=> broken(t))
  BY <1>8 DEF TargetRefused, Resolves
<1> HIDE DEF out
<1>12. /\ d = Refused <=> broken(global) \/ \E i \in DOMAIN projects : broken(projects[i])
       /\ d # Refused => d = [mode |-> "legacy", operational |-> DefaultOperational, selection |-> s, routing |-> TRUE,
                              providers |-> providers, global |-> global, projects |-> projects]
  <2>1. d = LoadLegacy(M)
    BY <1>7, PolicyAssumption DEF LoadPolicy, NoFile, Text
  <2>2. /\ M.providers = out /\ M.operational = DefaultOperational /\ M.selection = SelectionOut(s)
        /\ M.global = global /\ M.projects = projects /\ M.routing = None
    BY <1>7
  <2>3. Operational(DefaultOperational) = DefaultOperational /\ Selection(SelectionOut(s)) = s
    BY <1>6, OperationalAgain, SelectionAgain
  <2>4. Refused \notin {s, DefaultOperational}
    <3>1. s # Refused
      BY DEF UsableSelection, Refused
    <3>2. DefaultOperational # Refused
      BY DEF DefaultOperational, Refused
    <3>. QED  BY <3>1, <3>2
  <2>5. ~\E id \in DOMAIN quotas : quotas[id] = Refused
    BY <1>9, <1>10
  <2>6. Default(global, NoTarget) = global /\ Default(None, TRUE) = TRUE
    BY <1>1, PolicyAssumption DEF Default
  <2>7. TargetRefused(global, out) <=> broken(global)
    BY <1>1, <1>11
  <2>8. \A i \in DOMAIN projects : TargetRefused(projects[i], out) <=> broken(projects[i])
    BY <1>2, <1>3, <1>11
  <2> DEFINE result == [mode |-> "legacy", operational |-> DefaultOperational, selection |-> s, routing |-> TRUE,
                        providers |-> providers, global |-> global, projects |-> projects]
  <2>9. result # Refused
    BY DEF Refused
  <2>10. d = IF TargetRefused(global, out) \/ \E i \in DOMAIN projects : TargetRefused(projects[i], out)
             THEN Refused ELSE result
    <3> HIDE DEF M, d
    <3>. QED  BY <1>8, <2>1, <2>2, <2>3, <2>4, <2>5, <2>6 DEF LoadLegacy
  <2> HIDE DEF result, d, broken
  <2>11. (TargetRefused(global, out) \/ \E i \in DOMAIN projects : TargetRefused(projects[i], out))
         <=> (broken(global) \/ \E i \in DOMAIN projects : broken(projects[i]))
    BY <2>7, <2>8
  <2>. QED  BY <2>9, <2>10, <2>11 DEF result
<1>13. (broken(global) \/ \E i \in DOMAIN projects : broken(projects[i]))
         <=> \E t \in {p.global} \cup ToSet(p.projects) : broken(t)
  <2>1. p.global = global /\ p.projects = projects
    BY <1>4 DEF Proposed
  <2> HIDE DEF broken
  <2>. QED  BY <2>1 DEF ToSet
<1>14. ASSUME d # Refused
       PROVE  /\ d.mode = "legacy"
              /\ [d EXCEPT !.providers = [id \in DOMAIN d.providers |-> [d.providers[id] EXCEPT !.quota = None]]] = p
  <2>1. d = [mode |-> "legacy", operational |-> DefaultOperational, selection |-> s, routing |-> TRUE,
             providers |-> providers, global |-> global, projects |-> projects]
    BY <1>12, <1>14
  <2> DEFINE bare == [id \in DOMAIN providers |-> [providers[id] EXCEPT !.quota = None]]
  <2>2. bare = Graph(l)
    <3>1. ASSUME NEW id \in l.providers
          PROVE  [providers[id] EXCEPT !.quota = None] = Graph(l)[id]
      <4> DEFINE m == Graph(l)[id].models
                 q == quotas[id]
                 k == FALSE
      <4>1. Graph(l)[id] = [models |-> m, keep |-> k, quota |-> None]
        BY DEF Graph
      <4>2. providers[id] = [models |-> m, keep |-> k, quota |-> q]
        BY <1>8, <1>9
      <4> HIDE DEF m, q, k, providers
      <4>. QED  BY <4>1, <4>2
    <3>2. DOMAIN providers = l.providers
      BY <1>9
    <3>3. Graph(l) = [id \in l.providers |-> Graph(l)[id]]
      BY DEF Graph
    <3> HIDE DEF providers
    <3>. QED  BY <3>1, <3>2, <3>3
  <2> DEFINE m == "legacy"
             on == TRUE
             op == DefaultOperational
  <2>3. d = [mode |-> m, operational |-> op, selection |-> s, routing |-> on,
             providers |-> providers, global |-> global, projects |-> projects]
    BY <2>1
  <2>4. p = [mode |-> m, operational |-> op, selection |-> s, routing |-> on,
             providers |-> Graph(l), global |-> global, projects |-> projects]
    BY <1>4 DEF Proposed
  <2> HIDE DEF m, on, op, providers, bare, d
  <2>5. [d EXCEPT !.providers = bare] = p
    BY ONLY <2>2, <2>3, <2>4
  <2>6. d.providers = providers /\ d.mode = m
    BY ONLY <2>3
  <2>. QED  BY <2>5, <2>6 DEF bare, m
<1>15. Faithful(M, p, FALSE)
  <2> HIDE DEF M
  <2>. QED  BY <1>12, <1>13, <1>14 DEF Faithful
<1>. QED  BY <1>7, <1>15

\* InitProviderOnly: the proposal of an enrollment is loaded as it was.
LEMMA EnrolledWritten ==
  ASSUME NEW l, IsLive(l), NEW r \in Seq(Targets), l.providers # {}, ~Missing(l, r), NEW op, UsableOperational(op),
         \A i \in DOMAIN r : r[i].id # None /\ \A j \in 1..(i - 1) : r[j].id # r[i].id,
         NEW p, p = Proposed("provider-only", op, DefaultSelection,
                      [id \in l.providers |-> [models |-> <<>>, keep |-> FALSE, quota |-> None]],
                      BareTarget("global", l.root), [i \in DOMAIN r |-> BareTarget(r[i].id, r[i].root)])
  PROVE  IsDocument(Marshal(p)) /\ Faithful(Marshal(p), p, TRUE)
<1> DEFINE mode == "provider-only"
           providers == [id \in l.providers |-> [models |-> <<>>, keep |-> FALSE, quota |-> None]]
           global == BareTarget("global", l.root)
           projects == [i \in DOMAIN r |-> BareTarget(r[i].id, r[i].root)]
           off == FALSE
           M == Marshal(p)
<1>1. global \in Targets /\ global.root # None /\ TargetRefs(global) = {} /\ global.definitions = <<>>
  <2>1. "global" \in Maybe(Text) /\ l.root \in Maybe(Text) /\ l.root # None
    BY PolicyAssumption DEF IsLive, Text, Maybe
  <2>. QED  BY <2>1, BareTargetFacts
<1>2. ASSUME NEW i \in DOMAIN r
      PROVE  /\ projects[i] \in Targets /\ projects[i].id = r[i].id /\ projects[i].root = r[i].root /\ r[i].root # None
             /\ TargetRefs(projects[i]) = {} /\ projects[i].definitions = <<>>
  <2>1. r[i].root \in Text /\ r[i].root # None /\ r[i].id \in Maybe(Text)
    BY FoundRoots
  <2>2. projects[i] = BareTarget(r[i].id, r[i].root) /\ r[i].root \in Maybe(Text)
    BY <2>1 DEF Maybe
  <2> HIDE DEF projects
  <2>. QED  BY <2>1, <2>2, BareTargetFacts
<1>3. projects \in Seq(Targets) /\ DOMAIN projects = DOMAIN r
  <2>1. DOMAIN r = 1..Len(r) /\ Len(r) \in Nat /\ projects = [i \in 1..Len(r) |-> projects[i]] /\ DOMAIN projects = DOMAIN r
    OBVIOUS
  <2> HIDE DEF projects
  <2>2. projects \in [1..Len(r) -> Targets]
    BY <1>2, <2>1
  <2>. QED  BY <2>1, <2>2
<1>4. /\ DOMAIN providers = l.providers /\ l.providers \subseteq Text
      /\ \A id \in l.providers : /\ providers[id] = [models |-> <<>>, keep |-> FALSE, quota |-> None]
                                 /\ providers[id].models = <<>> /\ providers[id].keep = FALSE /\ providers[id].quota = None
  BY DEF IsLive
<1>5. UsableSelection(DefaultSelection)
  BY DEF DefaultSelection, UsableSelection, Text
<1> HIDE DEF global, projects, providers, M
<1>6. p = [mode |-> mode, operational |-> op, selection |-> DefaultSelection, routing |-> off, providers |-> providers,
           global |-> global, projects |-> projects]
  BY DEF Proposed, global, projects, providers
<1> HIDE DEF mode, off
<1>7. /\ p.mode = mode /\ p.operational = op /\ p.selection = DefaultSelection /\ p.routing = off
      /\ p.providers = providers /\ p.global = global /\ p.projects = projects
  BY ONLY <1>6
<1>8. IsPolicy(p)
  BY <1>1, <1>3, <1>4, <1>5, <1>6, <1>7 DEF IsPolicy
<1>9. EnrolledOnly(p)
  <2>1. \A i \in DOMAIN projects : /\ TargetRefs(projects[i]) = {} /\ projects[i].definitions = <<>>
                                   /\ projects[i].id # None /\ projects[i].root # None
    BY <1>2, <1>3
  <2>2. ASSUME NEW i \in DOMAIN projects, NEW j \in 1..(i - 1)
        PROVE  projects[j].id # projects[i].id
    <3>1. DOMAIN r = 1..Len(r) /\ Len(r) \in Nat
      OBVIOUS
    <3>2. i \in DOMAIN r /\ j \in DOMAIN r
      BY <1>3, <3>1
    <3>. QED  BY <1>2, <3>2
  <2>3. \A id \in l.providers : providers[id] =
          [models |-> providers[id].models, keep |-> providers[id].keep, quota |-> providers[id].quota]
    BY <1>4
  <2>. QED  BY <1>1, <1>4, <1>7, <2>1, <2>2, <2>3 DEF EnrolledOnly, off
<1>10. LoadPolicy(M) = Rewritten(p)
  BY <1>7, <1>8, <1>9, EnrolledAgain DEF M, mode
<1>11. Rewritten(p) = p
  <2> DEFINE again == [id \in DOMAIN p.providers |-> LET q == p.providers[id].quota IN
                [models |-> <<>>, keep |-> FALSE, quota |-> IF q = None THEN None ELSE [q EXCEPT !.schedule = None]]]
  <2>1. Rewritten(p) = [p EXCEPT !.providers = again]
    BY Zenon DEF Rewritten
  <2>2. again = providers
    <3>1. \A id \in l.providers : again[id] = providers[id]
      BY <1>4, <1>7
    <3>2. DOMAIN again = l.providers
      BY <1>4, <1>7
    <3>3. providers = [id \in l.providers |-> providers[id]]
      BY DEF providers
    <3>4. again = [id \in l.providers |-> again[id]]
      BY <1>4, <1>7
    <3> HIDE DEF again
    <3>. QED  BY <3>1, <3>3, <3>4
  <2> HIDE DEF again
  <2>3. [p EXCEPT !.providers = again] = p
    BY ONLY <1>6, <2>2
  <2>. QED  BY <2>1, <2>3
<1>12. p # Refused
  BY ONLY <1>6 DEF Refused
<1>13. [p EXCEPT !.providers = [id \in DOMAIN p.providers |-> [p.providers[id] EXCEPT !.quota = None]]] = p
  <2> DEFINE bare == [id \in DOMAIN p.providers |-> [p.providers[id] EXCEPT !.quota = None]]
  <2>1. bare = providers
    <3>1. ASSUME NEW id \in l.providers
          PROVE  bare[id] = providers[id]
      <4> DEFINE e == <<>>
                 k == FALSE
      <4>1. providers[id] = [models |-> e, keep |-> k, quota |-> None]
        BY <1>4
      <4>2. bare[id] = [providers[id] EXCEPT !.quota = None]
        BY <1>4, <1>7
      <4> HIDE DEF e, k, bare
      <4>. QED  BY <4>1, <4>2
    <3>2. bare = [id \in l.providers |-> bare[id]]
      BY <1>4, <1>7
    <3>3. providers = [id \in l.providers |-> providers[id]]
      BY DEF providers
    <3> HIDE DEF bare
    <3>. QED  BY <3>1, <3>2, <3>3
  <2> HIDE DEF bare
  <2>2. [p EXCEPT !.providers = bare] = p
    BY ONLY <1>6, <2>1
  <2>. QED  BY <2>2 DEF bare
<1>14. ~\E t \in {p.global} \cup ToSet(p.projects) : \E ref \in TargetRefs(t) : ref.form = "broken"
  BY <1>1, <1>2, <1>3, <1>7 DEF ToSet
<1>15. Faithful(M, p, TRUE)
  BY <1>7, <1>10, <1>11, <1>12, <1>13, <1>14 DEF Faithful, mode
<1>16. IsDocument(M)
  <2>1. M = Marshal(Proposed(mode, op, DefaultSelection, providers, global, projects))
    BY DEF M, mode, providers, global, projects
  <2>2. global # NoTarget /\ \A i \in DOMAIN projects : projects[i] # NoTarget
    BY <1>1, <1>2, <1>3, NoTargetFacts
  <2>3. mode \in {"legacy", "provider-only"} /\ DOMAIN providers \subseteq Text /\ \A id \in DOMAIN providers : providers[id].quota = None
    BY <1>4 DEF mode
  <2>. QED  BY <1>1, <1>3, <1>5, <2>1, <2>2, <2>3, WrittenDocument
<1>. QED  BY <1>15, <1>16 DEF M

-----------------------------------------------------------------------------
(***************************************************************************)
(* The invariant of the commands.                                          *)
(***************************************************************************)
FilesTyped ==
  /\ file = NoFile \/ IsDocument(file)
  /\ preserved = NoFile \/ IsDocument(preserved)
  /\ live \in Lives

\* What a command holds of the policy it replaces, and of the one it writes.
Carrying(existing) == existing # None => UsableOperational(existing.operational) /\ UsableSelection(existing.selection)
Ready(p, po, existing) ==
  /\ IsDocument(Marshal(p)) /\ Faithful(Marshal(p), p, po)
  /\ (existing # None /\ po) => p.operational = existing.operational
  /\ (existing # None /\ ~po) => p.selection = existing.selection

JobKept ==
  \/ job = Idle
  \/ job.pc = "propose" /\ job.po \in BOOLEAN /\ Carrying(job.existing)
  \/ /\ job = [pc |-> job.pc, po |-> job.po, existing |-> job.existing, proposal |-> job.proposal]
     /\ job.pc \in {"preserve", "write"} /\ Ready(job.proposal, job.po, job.existing)
     /\ Linked => preserved = file
  \/ /\ job.pc = "written" /\ Ready(job.proposal, job.po, job.existing)
     /\ file = Marshal(job.proposal)
     /\ (job.existing # None /\ job.po) => preserved = job.found
PolicyInv == FilesTyped /\ JobKept

\* What Init proposes, with the selection that is carried over.
LEMMA LegacyReady ==
  ASSUME NEW l \in Lives, NEW r \in Seq(Targets), NEW existing, Carrying(existing), ProposeLegacy(l, r) # Refused,
         NEW p, p = Carry(ProposeLegacy(l, r), existing, FALSE)
  PROVE  Ready(p, FALSE, existing)
<1> DEFINE global == BuildTarget(l, l.global, "global", l.root)
           projects == [i \in DOMAIN r |-> BuildTarget(l, l.projects[r[i].root], r[i].id, r[i].root)]
           s == IF existing = None THEN DefaultSelection ELSE existing.selection
           op == DefaultOperational
           m == "legacy"
           on == TRUE
           proposal == ProposeLegacy(l, r)
<1>1. ~GraphRefused(l) /\ ~Missing(l, r) /\ IsLive(l)
  BY PolicyAssumption DEF ProposeLegacy
<1>2. UsableSelection(s)
  <2>1. UsableSelection(DefaultSelection)
    BY DEF DefaultSelection, UsableSelection, Text
  <2>. QED  BY <2>1 DEF Carrying
<1>3. proposal = [mode |-> m, operational |-> op, selection |-> DefaultSelection, routing |-> on, providers |-> Graph(l),
                  global |-> global, projects |-> projects]
  BY <1>1 DEF ProposeLegacy, Starter
<1>4. Proposed(m, op, s, Graph(l), global, projects)
        = [mode |-> m, operational |-> op, selection |-> s, routing |-> on, providers |-> Graph(l),
           global |-> global, projects |-> projects]
  BY DEF Proposed
<1>5. p = IF existing = None THEN proposal ELSE [proposal EXCEPT !.selection = existing.selection]
  BY DEF Carry
<1> HIDE DEF global, projects, op, m, on, proposal
<1>6. [proposal EXCEPT !.selection = existing.selection]
        = [mode |-> m, operational |-> op, selection |-> existing.selection, routing |-> on, providers |-> Graph(l),
           global |-> global, projects |-> projects]
  BY ONLY <1>3
<1>7. p = Proposed(m, op, s, Graph(l), global, projects)
  BY <1>3, <1>4, <1>5, <1>6
<1>8. IsDocument(Marshal(p)) /\ Faithful(Marshal(p), p, FALSE)
  BY <1>1, <1>2, <1>7, LegacyWritten DEF global, projects, op, m
<1>9. p.selection = s
  <2> HIDE DEF s
  <2>. QED  BY ONLY <1>7 DEF Proposed
<1>. QED  BY <1>8, <1>9 DEF Ready

\* What InitProviderOnly proposes, with the operational section that is carried over.
LEMMA EnrolledReady ==
  ASSUME NEW l \in Lives, NEW r \in Seq(Targets), NEW existing, Carrying(existing), ProposeProviderOnly(l, r) # Refused,
         NEW p, p = Carry(ProposeProviderOnly(l, r), existing, TRUE)
  PROVE  Ready(p, TRUE, existing)
<1> DEFINE providers == [id \in l.providers |-> [models |-> <<>>, keep |-> FALSE, quota |-> None]]
           global == BareTarget("global", l.root)
           projects == [i \in DOMAIN r |-> BareTarget(r[i].id, r[i].root)]
           op == IF existing = None THEN DefaultOperational ELSE existing.operational
           m == "provider-only"
           off == FALSE
           proposal == ProposeProviderOnly(l, r)
<1>1. /\ l.providers # {} /\ ~Missing(l, r) /\ IsLive(l)
      /\ \A i \in DOMAIN r : r[i].id # None /\ \A j \in 1..(i - 1) : r[j].id # r[i].id
  BY PolicyAssumption DEF ProposeProviderOnly
<1>2. UsableOperational(op)
  <2>1. None \in Maybe(OperationalKeys) /\ Operational(None) = DefaultOperational /\ DefaultOperational # Refused
    BY DEF Maybe, Operational, DefaultOperational, Refused
  <2>2. UsableOperational(DefaultOperational)
    BY <2>1, OperationalLoaded
  <2>. QED  BY <2>2 DEF Carrying
<1>3. proposal = [mode |-> m, operational |-> DefaultOperational, selection |-> DefaultSelection, routing |-> off,
                  providers |-> providers, global |-> global, projects |-> projects]
  BY <1>1 DEF ProposeProviderOnly, Starter
<1>4. Proposed(m, op, DefaultSelection, providers, global, projects)
        = [mode |-> m, operational |-> op, selection |-> DefaultSelection, routing |-> off, providers |-> providers,
           global |-> global, projects |-> projects]
  BY DEF Proposed
<1>5. p = IF existing = None THEN proposal ELSE [proposal EXCEPT !.operational = existing.operational]
  BY DEF Carry
<1> HIDE DEF providers, global, projects, m, off, proposal
<1>6. [proposal EXCEPT !.operational = existing.operational]
        = [mode |-> m, operational |-> existing.operational, selection |-> DefaultSelection, routing |-> off,
           providers |-> providers, global |-> global, projects |-> projects]
  BY ONLY <1>3
<1>7. p = Proposed(m, op, DefaultSelection, providers, global, projects)
  BY <1>3, <1>4, <1>5, <1>6
<1>8. IsDocument(Marshal(p)) /\ Faithful(Marshal(p), p, TRUE)
  BY <1>1, <1>2, <1>7, EnrolledWritten DEF providers, global, projects, m
<1>9. p.operational = op
  <2> HIDE DEF op
  <2>. QED  BY ONLY <1>7 DEF Proposed
<1>. QED  BY <1>8, <1>9 DEF Ready

LEMMA InitPolicyInv == PolicyInit => PolicyInv
<1> SUFFICES ASSUME PolicyInit
             PROVE  PolicyInv
  OBVIOUS
<1>1. FilesTyped
  BY PolicyAssumption DEF PolicyInit, FilesTyped
<1>2. JobKept
  BY DEF PolicyInit, JobKept
<1>. QED  BY <1>1, <1>2 DEF PolicyInv

\* An init begins with what it reads of the policy it is to replace (transact).
LEMMA InitStartsPolicyInv ==
  ASSUME PolicyInv, NEW force \in BOOLEAN, NEW po \in BOOLEAN, InitStarts(force, po)
  PROVE  PolicyInv'
<1> DEFINE loaded == LoadPolicy(file)
           existing == IF file = NoFile THEN None ELSE loaded
<1>1. FilesTyped'
  BY DEF PolicyInv, FilesTyped, InitStarts
<1>2. CASE job' = Idle
  BY <1>1, <1>2 DEF PolicyInv, JobKept
<1>3. CASE job' # Idle
  <2>1. job' = [pc |-> "propose", po |-> po, existing |-> existing] /\ (file # NoFile => loaded # Refused)
    BY <1>3 DEF InitStarts
  <2>2. Carrying(existing)
    <3>1. file # NoFile => IsDocument(file) /\ IsPolicy(loaded)
      BY <2>1, Loaded DEF PolicyInv, FilesTyped, LoadedFrom
    <3>. QED  BY <3>1 DEF Carrying, IsPolicy
  <2> HIDE DEF existing
  <2>3. job'.pc = "propose" /\ job'.po \in BOOLEAN /\ job'.existing = existing
    BY <2>1
  <2>4. JobKept'
    BY <2>2, <2>3 DEF JobKept, Carrying
  <2>. QED  BY <1>1, <2>4 DEF PolicyInv
<1>. QED  BY <1>2, <1>3

\* What is proposed from the sources as they are now is ready to be written.
LEMMA ProposePolicyInv ==
  ASSUME PolicyInv, Propose
  PROVE  PolicyInv'
<1> DEFINE loaded == LoadPolicy(file)
           registered == IF file = NoFile THEN <<>> ELSE loaded.projects
           proposal == IF job.po THEN ProposeProviderOnly(live, registered) ELSE ProposeLegacy(live, registered)
           carried == Carry(proposal, job.existing, job.po)
           pc == IF job.existing # None /\ job.po THEN "preserve" ELSE "write"
<1>1. FilesTyped'
  BY DEF PolicyInv, FilesTyped, Propose
<1>2. CASE job' = Idle
  BY <1>1, <1>2 DEF PolicyInv, JobKept
<1>3. CASE job' # Idle
  <2>1. /\ job' = [pc |-> pc, po |-> job.po, existing |-> job.existing, proposal |-> carried]
        /\ proposal # Refused /\ (file # NoFile => loaded # Refused)
    BY <1>3 DEF Propose
  <2>2. job.po \in BOOLEAN /\ Carrying(job.existing) /\ live \in Lives
    BY DEF PolicyInv, FilesTyped, JobKept, Propose, Idle
  <2>3. registered \in Seq(Targets)
    <3>1. file # NoFile => loaded.projects \in Seq(Targets)
      BY <2>1, Loaded DEF PolicyInv, FilesTyped, LoadedFrom, IsPolicy
    <3>. QED  BY <3>1
  <2> HIDE DEF registered
  <2>4. Ready(carried, job.po, job.existing)
    <3>1. CASE job.po = TRUE
      BY <3>1, <2>1, <2>2, <2>3, EnrolledReady
    <3>2. CASE job.po = FALSE
      BY <3>2, <2>1, <2>2, <2>3, LegacyReady
    <3>. QED  BY <2>2, <3>1, <3>2
  <2> HIDE DEF carried
  <2>5. job'.pc = pc /\ job'.po = job.po /\ job'.existing = job.existing /\ job'.proposal = carried
    BY <2>1
  <2>6. job' = [pc |-> job'.pc, po |-> job'.po, existing |-> job'.existing, proposal |-> job'.proposal]
    BY <2>1, <2>5
  <2>7. ~Linked'
    BY <2>5 DEF Linked
  <2>8. JobKept'
    BY <2>4, <2>5, <2>6, <2>7 DEF JobKept, Ready
  <2>. QED  BY <1>1, <2>8 DEF PolicyInv
<1>. QED  BY <1>2, <1>3

\* The replaced policy is kept under its other name before it is replaced
\* (ReplaceAtomicWithBackup).
LEMMA PreservePolicyInv ==
  ASSUME PolicyInv, ClearPreserved \/ LinkPreserved
  PROVE  PolicyInv'
<1>1. /\ job = [pc |-> "preserve", po |-> job.po, existing |-> job.existing, proposal |-> job.proposal]
      /\ Ready(job.proposal, job.po, job.existing)
  BY DEF PolicyInv, JobKept, ClearPreserved, LinkPreserved, Idle
<1>2. FilesTyped'
  BY DEF PolicyInv, FilesTyped, ClearPreserved, LinkPreserved
<1>3. CASE ClearPreserved
  <2>1. UNCHANGED <<file, job>> /\ ~Linked /\ ~Linked'
    BY <1>3 DEF ClearPreserved, Linked
  <2>2. JobKept'
    BY <1>1, <2>1 DEF JobKept
  <2>. QED  BY <1>2, <2>2 DEF PolicyInv
<1>4. CASE LinkPreserved
  <2>1. preserved' = file /\ file' = file /\ (job' = Idle \/ job' = [job EXCEPT !.pc = "write"])
    BY <1>4 DEF LinkPreserved
  <2>2. CASE job' = Idle
    BY <1>2, <2>2 DEF PolicyInv, JobKept
  <2>3. CASE job' = [job EXCEPT !.pc = "write"]
    <3>1. job' = [pc |-> "write", po |-> job.po, existing |-> job.existing, proposal |-> job.proposal]
      BY <1>1, <2>3
    <3>2. job'.pc = "write" /\ job'.po = job.po /\ job'.existing = job.existing /\ job'.proposal = job.proposal
      BY <3>1
    <3>3. JobKept'
      BY <1>1, <2>1, <3>1, <3>2 DEF JobKept, Ready
    <3>. QED  BY <1>2, <3>3 DEF PolicyInv
  <2>. QED  BY <2>1, <2>2, <2>3
<1>. QED  BY <1>3, <1>4

\* The proposal takes the name, unless a file has appeared (CreateAtomic).
LEMMA WritePolicyInv ==
  ASSUME PolicyInv, Write
  PROVE  PolicyInv'
<1>1. Ready(job.proposal, job.po, job.existing) /\ (Linked => preserved = file) /\ job.pc = "write"
  BY DEF PolicyInv, JobKept, Write, Idle
<1>2. CASE job' = Idle /\ file' = file
  <2>1. FilesTyped'
    BY <1>2 DEF PolicyInv, FilesTyped, Write
  <2>. QED  BY <1>2, <2>1 DEF PolicyInv, JobKept
<1>3. CASE /\ file' = Marshal(job.proposal)
           /\ job' = [pc |-> "written", po |-> job.po, existing |-> job.existing, proposal |-> job.proposal, found |-> file]
  <2>1. FilesTyped'
    BY <1>1, <1>3 DEF PolicyInv, FilesTyped, Write, Ready
  <2>2. /\ job'.pc = "written" /\ job'.po = job.po /\ job'.existing = job.existing /\ job'.proposal = job.proposal
        /\ job'.found = file /\ preserved' = preserved
    BY <1>3 DEF Write
  <2>3. JobKept'
    BY <1>1, <1>3, <2>2 DEF JobKept, Ready, Linked
  <2>. QED  BY <2>1, <2>3 DEF PolicyInv
<1>. QED  BY <1>2, <1>3 DEF Write

\* What is done beside an init, or ends it (SetRoutingEnabled, the operator, a
\* rollback, a live configuration that changes).
LEMMA BesidePolicyInv ==
  ASSUME PolicyInv,
         \/ Fails \/ RollBack
         \/ \E on \in BOOLEAN : ToggleRouting(on)
         \/ \E doc \in Documents \cup {NoFile} : OperatorWrites(doc)
         \/ \E l \in Lives : LiveChanges(l)
  PROVE  PolicyInv'
<1>1. CASE Fails
  BY <1>1 DEF PolicyInv, FilesTyped, JobKept, Fails
<1>2. CASE RollBack
  BY <1>2 DEF PolicyInv, FilesTyped, JobKept, RollBack
<1>3. ASSUME NEW on \in BOOLEAN, ToggleRouting(on)
      PROVE  PolicyInv'
  <2>1. file # NoFile /\ file' = [file EXCEPT !.routing = on] /\ job' = Idle /\ UNCHANGED <<preserved, live>>
    BY <1>3 DEF ToggleRouting
  <2>2. IsDocument(file)
    BY <2>1 DEF PolicyInv, FilesTyped
  <2> DEFINE P == file.providers
  <2>3. file \in [version : Int, mode : Maybe(Text), operational : Maybe(OperationalKeys), routing : Maybe(BOOLEAN),
               selection : Maybe(SelectionKeys), providers : {P}, global : Maybe(Targets), projects : Seq(Targets)]
    BY <2>2 DEF IsDocument
  <2>4. on \in Maybe(BOOLEAN)
    BY DEF Maybe
  <2> HIDE DEF P
  <2>5. file' \in [version : Int, mode : Maybe(Text), operational : Maybe(OperationalKeys), routing : Maybe(BOOLEAN),
               selection : Maybe(SelectionKeys), providers : {P}, global : Maybe(Targets), projects : Seq(Targets)]
    BY <2>1, <2>3, <2>4
  <2>6. file'.providers = P
    BY <2>5
  <2>7. IsDocument(file)'
    BY <2>2, <2>5, <2>6 DEF IsDocument, P
  <2>. QED  BY <2>1, <2>7 DEF PolicyInv, FilesTyped, JobKept
<1>4. ASSUME NEW doc \in Documents \cup {NoFile}, OperatorWrites(doc)
      PROVE  PolicyInv'
  <2>1. file' = doc /\ (job' = Idle \/ (job' = job /\ job.pc \notin {"idle", "written"})) /\ ~Linked /\ UNCHANGED <<preserved, live>>
    BY <1>4 DEF OperatorWrites, Ended
  <2>2. FilesTyped'
    BY <2>1, PolicyAssumption DEF PolicyInv, FilesTyped
  <2>3. JobKept'
    <3>1. CASE job' = job /\ job.pc \notin {"idle", "written"}
      <4>1. ~Linked'
        BY <2>1, <3>1 DEF Linked
      <4>. QED  BY <3>1, <4>1 DEF PolicyInv, JobKept, Ready, Carrying
    <3>2. CASE job' = Idle
      BY <3>2 DEF JobKept
    <3>. QED  BY <2>1, <3>1, <3>2
  <2>. QED  BY <2>2, <2>3 DEF PolicyInv
<1>5. ASSUME NEW l \in Lives, LiveChanges(l)
      PROVE  PolicyInv'
  <2>1. live' = l /\ (job' = Idle \/ job' = job) /\ UNCHANGED <<file, preserved>>
    BY <1>5 DEF LiveChanges
  <2>2. FilesTyped'
    BY <2>1 DEF PolicyInv, FilesTyped
  <2>3. JobKept'
    BY <2>1 DEF PolicyInv, JobKept, Ready, Carrying, Linked
  <2>. QED  BY <2>2, <2>3 DEF PolicyInv
<1>. QED  BY <1>1, <1>2, <1>3, <1>4, <1>5

LEMMA KeepsWhenWritten ==
  ASSUME PolicyInv
  PROVE  InitKeeps
<1> DEFINE p == job.proposal
           d == LoadPolicy(file)
           was == job.existing
<1>1. SUFFICES ASSUME job.pc = "written"
               PROVE  /\ d = Refused <=> \E t \in {p.global} \cup ToSet(p.projects) : \E ref \in TargetRefs(t) : ref.form = "broken"
                      /\ d # Refused =>
                           /\ d.mode = IF job.po THEN "provider-only" ELSE "legacy"
                           /\ [d EXCEPT !.providers = [id \in DOMAIN d.providers |-> [d.providers[id] EXCEPT !.quota = None]]] = p
                           /\ (was # None /\ job.po) => d.operational = was.operational
                           /\ (was # None /\ ~job.po) => d.selection = was.selection
                      /\ (was # None /\ job.po) => preserved = job.found
  BY DEF InitKeeps
<1>2. /\ Ready(p, job.po, was) /\ file = Marshal(p)
      /\ (was # None /\ job.po) => preserved = job.found
  BY <1>1 DEF PolicyInv, JobKept, Idle
<1>3. Faithful(file, p, job.po)
  BY <1>2 DEF Ready
<1>4. ASSUME d # Refused
      PROVE  d.operational = p.operational /\ d.selection = p.selection
  <2>1. IsPolicy(d)
    BY <1>2, <1>4, Loaded DEF Ready, LoadedFrom
  <2> DEFINE bare == [id \in DOMAIN d.providers |-> [d.providers[id] EXCEPT !.quota = None]]
  <2>2. [d EXCEPT !.providers = bare] = p
    BY <1>3, <1>4 DEF Faithful
  <2> HIDE DEF d, p, bare
  <2>3. d = [mode |-> d.mode, operational |-> d.operational, selection |-> d.selection, routing |-> d.routing,
          providers |-> d.providers, global |-> d.global, projects |-> d.projects]
    BY <2>1 DEF IsPolicy
  <2>. QED  BY <2>2, <2>3
<1> HIDE DEF d, p
<1>. QED  BY <1>2, <1>3, <1>4 DEF Ready, Faithful, d

\* Whatever the operator and the live configuration do in between, a command
\* holds a proposal that is ready to be written, and what it wrote is what it held.
THEOREM PolicyInvariant == PolicySpec => []PolicyInv
<1>1. PolicyInv /\ [PolicyNext]_pvars => PolicyInv'
  <2> SUFFICES ASSUME PolicyInv, [PolicyNext]_pvars
               PROVE  PolicyInv'
    OBVIOUS
  <2>1. ASSUME NEW force \in BOOLEAN, NEW po \in BOOLEAN, InitStarts(force, po)
        PROVE  PolicyInv'
    BY <2>1, InitStartsPolicyInv
  <2>2. CASE Propose
    BY <2>2, ProposePolicyInv
  <2>3. CASE ClearPreserved \/ LinkPreserved
    BY <2>3, PreservePolicyInv
  <2>4. CASE Write
    BY <2>4, WritePolicyInv
  <2>5. CASE \/ Fails \/ RollBack
             \/ \E on \in BOOLEAN : ToggleRouting(on)
             \/ \E doc \in Documents \cup {NoFile} : OperatorWrites(doc)
             \/ \E l \in Lives : LiveChanges(l)
    BY <2>5, BesidePolicyInv
  <2>6. CASE UNCHANGED pvars
    BY <2>6 DEF pvars, PolicyInv, FilesTyped, JobKept, Ready, Carrying, Linked
  <2>. QED  BY <2>1, <2>2, <2>3, <2>4, <2>5, <2>6 DEF PolicyNext
<1>. QED  BY <1>1, InitPolicyInv, PTL DEF PolicySpec

\* Whatever desired.yaml comes to hold, when it loads every reference of it is of
\* one mapping and every quota has an adapter, a weight and its budget; and a
\* provider-only policy that is written again loads as it was (loadBytes, quotaOut,
\* marshalDesired).
THEOREM LoadedIsUsableHolds == PolicySpec => []LoadedIsUsable
<1>1. PolicyInv => LoadedIsUsable
  BY UsableWhenLoaded DEF PolicyInv, FilesTyped
<1>. QED  BY <1>1, PolicyInvariant, PTL

\* What an init has written loads to its proposal unless a live reference is
\* misspelled, with the operator's sections, and a migration can be undone
\* (transactInit, Init, InitProviderOnly, ReplaceAtomicWithBackup).
THEOREM InitKeepsHolds == PolicySpec => []InitKeeps
<1>1. PolicyInv => InitKeeps
  BY KeepsWhenWritten
<1>. QED  BY <1>1, PolicyInvariant, PTL

-----------------------------------------------------------------------------
(***************************************************************************)
(* Staging: edits of a document, and the copies they are applied to.       *)
(***************************************************************************)
\* Keys that a plan edits have its values, and all others those they had.
LEMMA EditedKeys ==
  ASSUME NEW keys, NEW edits
  PROVE /\ DOMAIN Edited(keys, edits) = {k \in DOMAIN edits : edits[k] # Removed} \cup (DOMAIN keys \ DOMAIN edits)
        /\ \A k \in DOMAIN Edited(keys, edits) :
             Edited(keys, edits)[k] = IF k \in DOMAIN edits THEN edits[k] ELSE keys[k]
  BY DEF Edited, Over, Restrict

\* A document that is edited keeps its form, and has the keys of the edits.
LEMMA EditedDocument ==
  ASSUME NEW doc, NEW edits, EditDocument(doc, edits) # Refused
  PROVE /\ EditDocument(doc, edits) = [keys |-> Edited(doc.keys, edits), form |-> doc.form]
        /\ EditDocument(doc, edits).keys = Edited(doc.keys, edits)
        /\ EditDocument(doc, edits).form = doc.form
        /\ doc # Refused
        /\ doc.form \notin {"anchored", "broken"}
<1> DEFINE edited == [keys |-> Edited(doc.keys, edits), form |-> doc.form]
<1>1. EditDocument(doc, edits) = edited
  BY DEF EditDocument
<1>2. edited.keys = Edited(doc.keys, edits) /\ edited.form = doc.form
  OBVIOUS
<1>3. doc # Refused /\ doc.form \notin {"anchored", "broken"}
  BY DEF EditDocument
<1> QED  BY <1>1, <1>2, <1>3

\* What is outside of the edits is as it was.
LEMMA EditedRest ==
  ASSUME NEW keys, NEW edits
  PROVE Restrict(Edited(keys, edits), DOMAIN Edited(keys, edits) \ DOMAIN edits) = Restrict(keys, DOMAIN keys \ DOMAIN edits)
<1>0. /\ DOMAIN Edited(keys, edits) = {k \in DOMAIN edits : edits[k] # Removed} \cup (DOMAIN keys \ DOMAIN edits)
      /\ \A k \in DOMAIN Edited(keys, edits) :
           Edited(keys, edits)[k] = IF k \in DOMAIN edits THEN edits[k] ELSE keys[k]
  BY EditedKeys, Zenon
<1>1. DOMAIN Edited(keys, edits) \ DOMAIN edits = DOMAIN keys \ DOMAIN edits
  BY <1>0
<1>2. \A k \in DOMAIN keys \ DOMAIN edits : Edited(keys, edits)[k] = keys[k]
  BY <1>0
<1> HIDE DEF Edited
<1> QED  BY <1>1, <1>2 DEF Restrict

\* Edits of the same keys, or of more of them, make earlier ones of no effect.
LEMMA EditedAgain ==
  ASSUME NEW keys, NEW first, NEW second, DOMAIN first \subseteq DOMAIN second
  PROVE Edited(Edited(keys, first), second) = Edited(keys, second)
<1> DEFINE once == Edited(keys, first)
           kept == {k \in DOMAIN second : second[k] # Removed}
<1>0. /\ DOMAIN once = {k \in DOMAIN first : first[k] # Removed} \cup (DOMAIN keys \ DOMAIN first)
      /\ \A k \in DOMAIN once : once[k] = IF k \in DOMAIN first THEN first[k] ELSE keys[k]
  BY EditedKeys, Zenon
<1>1. DOMAIN once \ DOMAIN second = DOMAIN keys \ DOMAIN second
  <2> HIDE DEF once
  <2> QED  BY <1>0
<1>2. \A k \in DOMAIN keys \ DOMAIN second : once[k] = keys[k]
  <2> HIDE DEF once
  <2> QED  BY <1>0
<1>3. Restrict(once, DOMAIN once \ DOMAIN second) = Restrict(keys, DOMAIN keys \ DOMAIN second)
  <2> HIDE DEF once
  <2> QED  BY <1>1, <1>2 DEF Restrict
<1>4. Edited(once, second) = Over(Restrict(second, kept), Restrict(once, DOMAIN once \ DOMAIN second))
  BY DEF Edited
<1>5. Edited(keys, second) = Over(Restrict(second, kept), Restrict(keys, DOMAIN keys \ DOMAIN second))
  BY DEF Edited
<1> HIDE DEF once, kept
<1> QED  BY <1>3, <1>4, <1>5 DEF once

\* Files that a plan has been applied to: each edit has found its file.
LEMMA AppliedFiles ==
  ASSUME NEW files, NEW plan, ApplyPlan(files, plan) # Refused
  PROVE /\ files # Refused
        /\ DOMAIN plan.edits \subseteq DOMAIN files
        /\ DOMAIN ApplyPlan(files, plan) = DOMAIN files
        /\ \A f \in DOMAIN plan.edits :
             /\ EditDocument(files[f], plan.edits[f]) # Refused
             /\ ApplyPlan(files, plan)[f] = EditDocument(files[f], plan.edits[f])
        /\ \A f \in DOMAIN files \ DOMAIN plan.edits : ApplyPlan(files, plan)[f] = files[f]
<1> DEFINE edited == [f \in DOMAIN plan.edits |-> EditDocument(At(files, f), plan.edits[f])]
<1>1. /\ files # Refused
      /\ \A f \in DOMAIN plan.edits : edited[f] # Refused
      /\ ApplyPlan(files, plan) = Over(edited, files)
  BY DEF ApplyPlan
<1>2. \A f \in DOMAIN plan.edits : EditDocument(At(files, f), plan.edits[f]) # Refused
  BY <1>1
<1>3. \A doc, edits : EditDocument(doc, edits) # Refused => doc # Refused
  BY DEF EditDocument
<1>4. \A f \in DOMAIN plan.edits : f \in DOMAIN files /\ At(files, f) = files[f]
  BY <1>2, <1>3 DEF At
<1>5. \A f \in DOMAIN plan.edits : edited[f] = EditDocument(files[f], plan.edits[f])
  BY <1>4
<1>6. DOMAIN edited = DOMAIN plan.edits
  OBVIOUS
<1> HIDE DEF edited
<1> QED  BY <1>1, <1>4, <1>5, <1>6 DEF Over

\* A published copy has the files of its plan, each made of its base.
LEMMA PublishedFiles ==
  ASSUME NEW target, NEW global, NEW project, NEW plan, PublishDir(target, global, project, plan) # Refused
  PROVE /\ PublishBase(target, global, project, plan) # Refused
        /\ DOMAIN PublishDir(target, global, project, plan) = DOMAIN plan.edits
        /\ \A f \in DOMAIN plan.edits : PublishDir(target, global, project, plan)[f] # Refused
        /\ ConfigFile \in DOMAIN plan.edits =>
             PublishDir(target, global, project, plan)[ConfigFile]
               = EditDocument(PublishBase(target, global, project, plan), plan.edits[ConfigFile])
        /\ \A f \in DOMAIN plan.edits \ {ConfigFile} :
             /\ f \in Allowlisted /\ f \in DOMAIN MergeFiles(global, project)
             /\ PublishDir(target, global, project, plan)[f]
                  = EditDocument(MergeFiles(global, project)[f], plan.edits[f])
<1> DEFINE files == MergeFiles(global, project)
           base == PublishBase(target, global, project, plan)
           from(f) == IF f = ConfigFile THEN base ELSE IF f \in Allowlisted THEN At(files, f) ELSE Refused
           edited == [f \in DOMAIN plan.edits |-> EditDocument(from(f), plan.edits[f])]
<1>1. /\ base # Refused
      /\ \A f \in DOMAIN edited : edited[f] # Refused
      /\ PublishDir(target, global, project, plan) = edited
  BY DEF PublishDir
<1>2. DOMAIN edited = DOMAIN plan.edits /\ \A f \in DOMAIN plan.edits : edited[f] = EditDocument(from(f), plan.edits[f])
  OBVIOUS
<1>3. \A doc, edits : EditDocument(doc, edits) # Refused => doc # Refused
  BY DEF EditDocument
<1> HIDE DEF edited
<1>4. \A f \in DOMAIN plan.edits : from(f) # Refused
  <2> HIDE DEF from
  <2> QED  BY <1>1, <1>2, <1>3
<1>5. \A f \in DOMAIN plan.edits \ {ConfigFile} : f \in Allowlisted /\ f \in DOMAIN files /\ from(f) = files[f]
  <2> HIDE DEF files, base
  <2> QED  BY <1>4 DEF At
<1>6. from(ConfigFile) = base
  OBVIOUS
<1> HIDE DEF from, files, base
<1> QED  BY <1>1, <1>2, <1>5, <1>6 DEF files, base

\* The layers that are read for a target, and the copy of both before its edits.
GlobalOf(dirs) == ReadLayer(dirs.global)
ProjectOf(dirs, target) == IF target = "project" THEN ReadLayer(dirs.project) ELSE NoLayer
FilesOf(dirs, target) == MergeFiles(GlobalOf(dirs), ProjectOf(dirs, target))
ConfigOf(dirs, target) == Effective(GlobalOf(dirs).config, ProjectOf(dirs, target).config, TRUE)
CopyOf(dirs, target) == Over(Single(ConfigFile, ConfigOf(dirs, target)), FilesOf(dirs, target))

\* What is staged for a target: the copy that is validated and the one that is published.
LEMMA StagedCopies ==
  ASSUME NEW target, NEW dirs, NEW plan, NEW globalPlan, NEW c,
         c = Stage(target, dirs, plan, globalPlan), c # Refused
  PROVE /\ GlobalOf(dirs) # Refused /\ ProjectOf(dirs, target) # Refused /\ ConfigOf(dirs, target) # Refused
        /\ c.target = target /\ c.read = dirs
        /\ c.validated = ApplyPlan(Reconciled(CopyOf(dirs, target), target, globalPlan), plan)
        /\ c.validated # Refused
        /\ c.published = PublishDir(target, GlobalOf(dirs), ProjectOf(dirs, target), plan)
        /\ c.published # Refused
<1> DEFINE global == GlobalOf(dirs)
           project == ProjectOf(dirs, target)
           config == ConfigOf(dirs, target)
           staged == CopyOf(dirs, target)
           given == IF config = Refused THEN Refused ELSE staged
           validated == ApplyPlan(Reconciled(given, target, globalPlan), plan)
           published == PublishDir(target, global, project, plan)
           built == [target |-> target, read |-> dirs, validated |-> validated, published |-> published]
<1>1. /\ global # Refused /\ project # Refused /\ validated # Refused /\ published # Refused
      /\ c = built
  BY DEF Stage, GlobalOf, ProjectOf, ConfigOf, CopyOf, FilesOf
<1>2. config # Refused
  <2>1. SUFFICES ASSUME config = Refused PROVE FALSE
    OBVIOUS
  <2>2. given = Refused
    BY <2>1
  <2>3. \A p : ApplyPlan(Refused, p) = Refused
    BY DEF ApplyPlan
  <2>4. Reconciled(given, target, globalPlan) = Refused
    BY <2>2, <2>3 DEF Reconciled
  <2>5. validated = Refused
    BY <2>3, <2>4
  <2> QED  BY <1>1, <2>5
<1>3. given = staged
  BY <1>2
<1>4. built.target = target /\ built.read = dirs /\ built.validated = validated /\ built.published = published
  OBVIOUS
<1> HIDE DEF global, project, config, staged, given, built
<1>5. validated = ApplyPlan(Reconciled(staged, target, globalPlan), plan)
  BY <1>3
<1> HIDE DEF validated, published
<1> QED  BY <1>1, <1>2, <1>4, <1>5 DEF global, project, config, staged, published

\* What the two configurations are together.
LEMMA EffectiveOfBoth ==
  ASSUME NEW g, NEW p, NEW inert \in BOOLEAN
  PROVE /\ Effective(g, p, inert) # Refused =>
             /\ g.form # "broken" /\ p.form # "broken" /\ ~GroupsRefused(g) /\ ~GroupsRefused(p)
        /\ g.form # "broken" /\ p.form # "broken" /\ ~GroupsRefused(g) /\ ~GroupsRefused(p) =>
             /\ Effective(g, p, inert).keys = IF inert THEN Redact(Merge(g.keys, p.keys)) ELSE Merge(g.keys, p.keys)
             /\ Effective(g, p, inert).form = "marshalled"
<1> DEFINE keys == IF inert THEN Redact(Merge(g.keys, p.keys)) ELSE Merge(g.keys, p.keys)
           doc == [keys |-> keys, form |-> "marshalled"]
<1>1. Effective(g, p, inert) # Refused => g.form # "broken" /\ p.form # "broken" /\ ~GroupsRefused(g) /\ ~GroupsRefused(p)
  BY DEF Effective
<1>2. ASSUME g.form # "broken" /\ p.form # "broken" /\ ~GroupsRefused(g) /\ ~GroupsRefused(p)
      PROVE  Effective(g, p, inert) = doc
  BY <1>2 DEF Effective
<1>3. doc.keys = keys /\ doc.form = "marshalled"
  OBVIOUS
<1> HIDE DEF doc, keys
<1> QED  BY <1>1, <1>2, <1>3 DEF keys

\* Beside no project the global configuration has its own keys.
LEMMA MergedAlone ==
  ASSUME NEW keys
  PROVE /\ DOMAIN Merge(keys, NoLayer.config.keys) = DOMAIN keys
        /\ \A k \in DOMAIN keys : Merge(keys, NoLayer.config.keys)[k] = keys[k]
<1>1. NoLayer.config.keys = <<>> /\ DOMAIN <<>> = {}
  BY DEF NoLayer
<1> QED  BY <1>1 DEF Merge

\* What is read of a layer is its own configuration, and of its files those that are
\* on the list and no links.
LEMMA LayerRead ==
  ASSUME NEW dir, ReadLayer(dir) # Refused
  PROVE /\ ReadLayer(dir).config = dir.config
        /\ ReadLayer(dir).linked = dir.linked
        /\ DOMAIN ReadLayer(dir).files = (DOMAIN dir.files \cap Allowlisted) \ dir.linked
<1> DEFINE files == Restrict(dir.files, (DOMAIN dir.files \cap Allowlisted) \ dir.linked)
           layer == [config |-> dir.config, linked |-> dir.linked, files |-> files]
<1>1. ReadLayer(dir) = layer
  BY DEF ReadLayer
<1>2. layer.config = dir.config /\ layer.linked = dir.linked /\ layer.files = files
  OBVIOUS
<1>3. DOMAIN files = (DOMAIN dir.files \cap Allowlisted) \ dir.linked
  BY DEF Restrict
<1> HIDE DEF layer, files
<1> QED  BY <1>1, <1>2, <1>3

\* What holds between the steps of a command: its plans are those of a command, the
\* candidate is what its files and plans make of them, and a gate pass that has come to
\* its project holds the candidate of the global root, which has no other file.
PlanInv ==
  command # None =>
    /\ IsCommand(command)
    /\ todo \in {<<"global", "project">>, <<"project">>}
    /\ Head(todo) = "global" => command.global # Absent
    /\ \A t \in Roots : ConfigFile \in DOMAIN command.snapshots[t]

CandidateInv ==
  candidate # NoCandidate =>
    /\ command # None
    /\ candidate # Refused
    /\ candidate = Stage(Head(todo), candidate.read, command[Head(todo)], command.global)

HeldInv ==
  command # None /\ Gate /\ todo = <<"project">> =>
    held.target = "global" /\ DOMAIN held.published \subseteq {ConfigFile}

StagingInv == PlanInv /\ CandidateInv /\ HeldInv

\* The base of a configuration that is published has the keys of the root's own, and
\* its form unless a reconciliation writes it anew.
LEMMA BaseIsOwn ==
  ASSUME NEW dirs, NEW t \in Roots, NEW plan,
         GlobalOf(dirs) # Refused, ProjectOf(dirs, t) # Refused,
         PublishBase(t, GlobalOf(dirs), ProjectOf(dirs, t), plan) # Refused
  PROVE  LET base == PublishBase(t, GlobalOf(dirs), ProjectOf(dirs, t), plan) IN
         /\ DOMAIN base.keys = DOMAIN dirs[t].config.keys
         /\ \A k \in DOMAIN base.keys : base.keys[k] = dirs[t].config.keys[k]
         /\ base.form = dirs[t].config.form \/ (t = "global" /\ ~plan.providerOnly)
<1> DEFINE global == GlobalOf(dirs)
           project == ProjectOf(dirs, t)
           base == PublishBase(t, global, project, plan)
<1>1. CASE t = "project"
  <2>1. base = ReadLayer(dirs.project).config
    BY <1>1 DEF PublishBase, ProjectOf
  <2>2. base = dirs[t].config
    BY <1>1, <2>1, LayerRead DEF ProjectOf
  <2> QED  BY <2>2
<1>2. CASE t = "global"
  <2>1. global.config = dirs[t].config
    BY <1>2, LayerRead DEF GlobalOf
  <2>2. CASE plan.providerOnly
    <3>1. base = global.config
      BY <1>2, <2>2 DEF PublishBase
    <3> QED  BY <2>1, <3>1
  <2>3. CASE ~plan.providerOnly
    <3>1. base = Effective(global.config, NoLayer.config, FALSE)
      BY <1>2, <2>3 DEF PublishBase, ProjectOf
    <3>2. base # Refused
      OBVIOUS
    <3> HIDE DEF base, global, project
    <3>3. base.keys = Merge(global.config.keys, NoLayer.config.keys)
      BY <3>1, <3>2, EffectiveOfBoth
    <3>4. /\ DOMAIN Merge(global.config.keys, NoLayer.config.keys) = DOMAIN global.config.keys
          /\ \A k \in DOMAIN global.config.keys : Merge(global.config.keys, NoLayer.config.keys)[k] = global.config.keys[k]
      BY MergedAlone, Zenon
    <3> QED  BY <1>2, <2>1, <2>3, <3>3, <3>4 DEF base, global, project
  <2> QED  BY <2>2, <2>3
<1> QED  BY <1>1, <1>2 DEF Roots

\* What is known of the candidate of a command.
LEMMA CandidateCopies ==
  ASSUME StagingInv, candidate # NoCandidate
  PROVE LET dirs == candidate.read
            t == candidate.target IN
        /\ t \in Roots /\ t = Head(todo)
        /\ IsCommand(command) /\ command[t] # Absent
        /\ t = "global" => command.global # Absent
        /\ GlobalOf(dirs) # Refused /\ ProjectOf(dirs, t) # Refused /\ ConfigOf(dirs, t) # Refused
        /\ candidate.validated = ApplyPlan(Reconciled(CopyOf(dirs, t), t, command.global), command[t])
        /\ candidate.validated # Refused
        /\ candidate.published = PublishDir(t, GlobalOf(dirs), ProjectOf(dirs, t), command[t])
        /\ candidate.published # Refused
<1> DEFINE dirs == candidate.read
           t == Head(todo)
<1>1. /\ IsCommand(command) /\ todo \in {<<"global", "project">>, <<"project">>}
      /\ t = "global" => command.global # Absent
  BY DEF StagingInv, PlanInv, CandidateInv
<1>2. t \in Roots
  BY <1>1 DEF Roots
<1>3. command[t] # Absent
  BY <1>1, <1>2 DEF Roots, IsCommand, IsPlan
<1>4. candidate # Refused /\ candidate = Stage(t, dirs, command[t], command.global)
  BY DEF StagingInv, CandidateInv
<1>5. /\ GlobalOf(dirs) # Refused /\ ProjectOf(dirs, t) # Refused /\ ConfigOf(dirs, t) # Refused
      /\ candidate.target = t
      /\ candidate.validated = ApplyPlan(Reconciled(CopyOf(dirs, t), t, command.global), command[t])
      /\ candidate.validated # Refused
      /\ candidate.published = PublishDir(t, GlobalOf(dirs), ProjectOf(dirs, t), command[t])
      /\ candidate.published # Refused
  <2> HIDE DEF t, dirs
  <2> QED  BY <1>4, StagedCopies
<1> HIDE DEF t, dirs
<1> QED  BY <1>1, <1>2, <1>3, <1>5, Zenon DEF t, dirs

\* What is published of the plan's files is what the operator wrote, but for the keys
\* the plan edits (buildPublishDir).
LEMMA OnlyPlanIsPublished ==
  ASSUME StagingInv, candidate # NoCandidate
  PROVE  OnlyPlanPublished
<1> DEFINE dirs == candidate.read
           t == candidate.target
           plan == command[t]
           global == GlobalOf(dirs)
           project == ProjectOf(dirs, t)
           others == MergeFiles(ReadLayer(dirs.global), IF t = "global" THEN NoLayer ELSE ReadLayer(dirs.project))
           base == PublishBase(t, global, project, plan)
           published == candidate.published
           was(f) == IF f = ConfigFile THEN dirs[t].config ELSE others[f]
           rest(f, keys) == Restrict(keys, DOMAIN keys \ DOMAIN plan.edits[f])
<1>1. /\ t \in Roots /\ IsCommand(command)
      /\ global # Refused /\ project # Refused
      /\ published = PublishDir(t, global, project, plan)
      /\ published # Refused
  BY CandidateCopies
<1>2. others = MergeFiles(global, project)
  BY <1>1 DEF Roots, GlobalOf, ProjectOf
<1>3. /\ base # Refused
      /\ DOMAIN published = DOMAIN plan.edits
      /\ \A f \in DOMAIN plan.edits : published[f] # Refused
      /\ ConfigFile \in DOMAIN plan.edits => published[ConfigFile] = EditDocument(base, plan.edits[ConfigFile])
      /\ \A f \in DOMAIN plan.edits \ {ConfigFile} : published[f] = EditDocument(others[f], plan.edits[f])
  <2> HIDE DEF dirs, t, plan, global, project, others, base, published
  <2>1. PublishDir(t, global, project, plan) # Refused
    BY <1>1
  <2>2. /\ PublishBase(t, global, project, plan) # Refused
        /\ DOMAIN PublishDir(t, global, project, plan) = DOMAIN plan.edits
        /\ \A f \in DOMAIN plan.edits : PublishDir(t, global, project, plan)[f] # Refused
        /\ ConfigFile \in DOMAIN plan.edits =>
             PublishDir(t, global, project, plan)[ConfigFile]
               = EditDocument(PublishBase(t, global, project, plan), plan.edits[ConfigFile])
        /\ \A f \in DOMAIN plan.edits \ {ConfigFile} :
             /\ f \in Allowlisted /\ f \in DOMAIN MergeFiles(global, project)
             /\ PublishDir(t, global, project, plan)[f]
                  = EditDocument(MergeFiles(global, project)[f], plan.edits[f])
    BY <2>1, PublishedFiles
  <2> QED  BY <1>1, <1>2, <2>2 DEF base
<1>4. /\ DOMAIN base.keys = DOMAIN dirs[t].config.keys
      /\ \A k \in DOMAIN base.keys : base.keys[k] = dirs[t].config.keys[k]
      /\ base.form = dirs[t].config.form \/ (t = "global" /\ ~plan.providerOnly)
  <2> HIDE DEF dirs, t, plan
  <2> QED  BY <1>1, <1>3, BaseIsOwn DEF base, global, project
<1> HIDE DEF global, project, others, base, published
<1>5. ASSUME NEW f \in DOMAIN plan.edits, f # ConfigFile
      PROVE  rest(f, published[f].keys) = rest(f, was(f).keys) /\ published[f].form = was(f).form
  <2>1. EditDocument(others[f], plan.edits[f]) # Refused /\ published[f] = EditDocument(others[f], plan.edits[f])
    BY <1>3, <1>5
  <2>2. published[f].keys = Edited(others[f].keys, plan.edits[f]) /\ published[f].form = others[f].form
    BY <2>1, EditedDocument
  <2>3. was(f) = others[f]
    BY <1>5
  <2> HIDE DEF plan, was
  <2>4. rest(f, Edited(others[f].keys, plan.edits[f])) = rest(f, others[f].keys)
    BY EditedRest
  <2> QED  BY <2>2, <2>3, <2>4
<1>6. ASSUME ConfigFile \in DOMAIN plan.edits
      PROVE  /\ rest(ConfigFile, published[ConfigFile].keys) = rest(ConfigFile, was(ConfigFile).keys)
             /\ published[ConfigFile].form = was(ConfigFile).form \/ (t = "global" /\ ~Gate)
  <2> DEFINE e == plan.edits[ConfigFile]
  <2>1. EditDocument(base, e) # Refused /\ published[ConfigFile] = EditDocument(base, e)
    BY <1>3, <1>6
  <2>2. published[ConfigFile].keys = Edited(base.keys, e) /\ published[ConfigFile].form = base.form
    <3> HIDE DEF e
    <3> QED  BY <2>1, EditedDocument
  <2>3. was(ConfigFile) = dirs[t].config
    OBVIOUS
  <2>4. rest(ConfigFile, Edited(base.keys, e)) = rest(ConfigFile, base.keys)
    BY EditedRest
  <2>5. rest(ConfigFile, base.keys) = rest(ConfigFile, dirs[t].config.keys)
    <3> DEFINE out == DOMAIN e
    <3>1. Restrict(base.keys, DOMAIN base.keys \ out) = Restrict(dirs[t].config.keys, DOMAIN dirs[t].config.keys \ out)
      <4> HIDE DEF out, dirs, t
      <4> QED  BY <1>4 DEF Restrict
    <3> QED  BY <3>1
  <2>6. t = "global" /\ Gate => plan.providerOnly
    BY <1>1 DEF IsCommand, Gate
  <2> HIDE DEF plan, e, was
  <2> QED  BY <1>4, <2>2, <2>3, <2>4, <2>5, <2>6
<1>7. \A f \in DOMAIN published :
        /\ rest(f, published[f].keys) = rest(f, was(f).keys)
        /\ published[f].form = was(f).form \/ (t = "global" /\ ~Gate /\ f = ConfigFile)
  <2> HIDE DEF plan, was, rest, t
  <2> QED  BY <1>3, <1>5, <1>6
<1>8. DOMAIN published = DOMAIN plan.edits
  BY <1>3
<1> QED  BY <1>7, <1>8, Zenon DEF OnlyPlanPublished, published, others

\* A plan without its tier defaults edits no more than it did (applyModelGroupsGuard).
LEMMA GuardedPlan ==
  ASSUME NEW plan, plan # Absent, plan.providerOnly \in BOOLEAN
  PROVE  /\ Guarded(plan) # Absent
         /\ Guarded(plan).providerOnly \in BOOLEAN /\ (Guarded(plan).providerOnly <=> plan.providerOnly)
         /\ DOMAIN Guarded(plan).edits \subseteq DOMAIN plan.edits
         /\ \A f \in DOMAIN Guarded(plan).edits \ {ConfigFile} : Guarded(plan).edits[f] = plan.edits[f]
         /\ ConfigFile \in DOMAIN Guarded(plan).edits =>
              /\ DOMAIN Guarded(plan).edits[ConfigFile] \subseteq DOMAIN plan.edits[ConfigFile]
              /\ \A k \in DOMAIN Guarded(plan).edits[ConfigFile] :
                   Guarded(plan).edits[ConfigFile][k] = plan.edits[ConfigFile][k]
<1> DEFINE left == Restrict(plan.edits[ConfigFile], DOMAIN plan.edits[ConfigFile] \ TierKeys)
           rest == Restrict(plan.edits, DOMAIN plan.edits \ {ConfigFile})
           edits == IF DOMAIN left = {} THEN rest ELSE Over(Single(ConfigFile, left), rest)
           guarded == [edits |-> edits, providerOnly |-> FALSE]
<1>1. CASE Guarded(plan) = plan
  BY <1>1
<1>2. CASE Guarded(plan) # plan
  <2>1. ~plan.providerOnly /\ ConfigFile \in DOMAIN plan.edits /\ Guarded(plan) = guarded
    BY <1>2 DEF Guarded
  <2>2. guarded.edits = edits /\ guarded.providerOnly = FALSE /\ guarded # Absent
    BY DEF Absent
  <2>3. /\ DOMAIN left \subseteq DOMAIN plan.edits[ConfigFile]
        /\ \A k \in DOMAIN left : left[k] = plan.edits[ConfigFile][k]
    BY DEF Restrict
  <2>4. /\ DOMAIN rest = DOMAIN plan.edits \ {ConfigFile}
        /\ \A f \in DOMAIN rest : rest[f] = plan.edits[f]
    BY DEF Restrict
  <2> HIDE DEF left, rest
  <2>5. DOMAIN left # {} => /\ DOMAIN edits = DOMAIN rest \cup {ConfigFile}
                            /\ edits[ConfigFile] = left
                            /\ \A f \in DOMAIN rest \ {ConfigFile} : edits[f] = rest[f]
    BY DEF Over, Single
  <2>6. DOMAIN left = {} => edits = rest
    OBVIOUS
  <2> HIDE DEF edits, guarded
  <2>7. /\ DOMAIN edits \subseteq DOMAIN plan.edits
        /\ \A f \in DOMAIN edits \ {ConfigFile} : edits[f] = plan.edits[f]
    BY <2>1, <2>4, <2>5, <2>6
  <2>8. ConfigFile \in DOMAIN edits =>
          /\ DOMAIN edits[ConfigFile] \subseteq DOMAIN plan.edits[ConfigFile]
          /\ \A k \in DOMAIN edits[ConfigFile] : edits[ConfigFile][k] = plan.edits[ConfigFile][k]
    BY <2>3, <2>4, <2>5, <2>6
  <2> QED  BY <2>1, <2>2, <2>7, <2>8
<1> QED  BY <1>1, <1>2

\* What holds of a command's plans holds of those the guard leaves.
LEMMA GuardedCommand ==
  ASSUME NEW c, IsCommand(c), NEW snapshots
  PROVE  /\ IsCommand([global |-> Guarded(c.global), project |-> Guarded(c.project), snapshots |-> snapshots])
         /\ Guarded(c.global) # Absent <=> c.global # Absent
<1> DEFINE g == Guarded(c.global)
           p == Guarded(c.project)
           d == [global |-> g, project |-> p, snapshots |-> snapshots]
<1>1. d.global = g /\ d.project = p
  OBVIOUS
<1>2. c.global = Absent => g = Absent
  BY DEF Guarded
<1>3. ASSUME NEW plan, IsPlan(plan)
      PROVE  IsPlan(Guarded(plan))
  <2>1. plan # Absent /\ plan.providerOnly \in BOOLEAN
    BY <1>3 DEF IsPlan
  <2> DEFINE q == Guarded(plan)
  <2>2. /\ q # Absent
        /\ q.providerOnly \in BOOLEAN /\ (q.providerOnly <=> plan.providerOnly)
        /\ DOMAIN q.edits \subseteq DOMAIN plan.edits
        /\ ConfigFile \in DOMAIN q.edits => DOMAIN q.edits[ConfigFile] \subseteq DOMAIN plan.edits[ConfigFile]
    BY <2>1, GuardedPlan, Zenon
  <2> HIDE DEF q
  <2>3. EditsOf(q, ConfigFile) \subseteq EditsOf(plan, ConfigFile)
    BY <2>2 DEF EditsOf
  <2>4. IsPlan(q)
    BY <1>3, <2>2, <2>3 DEF IsPlan
  <2> QED  BY <2>4 DEF q
<1>4. IsPlan(c.project) /\ IsPlan(p) /\ (c.global # Absent => IsPlan(c.global) /\ IsPlan(g) /\ g # Absent)
  <2>1. IsPlan(c.project) /\ (c.global # Absent => IsPlan(c.global))
    BY DEF IsCommand
  <2>2. \A plan : IsPlan(plan) => IsPlan(Guarded(plan))
    BY <1>3
  <2> QED  BY <2>1, <2>2 DEF IsPlan
<1>5. /\ p.providerOnly <=> c.project.providerOnly
      /\ DOMAIN p.edits \subseteq DOMAIN c.project.edits
      /\ \A f \in DOMAIN p.edits \ {ConfigFile} : p.edits[f] = c.project.edits[f]
      /\ ConfigFile \in DOMAIN p.edits =>
           /\ DOMAIN p.edits[ConfigFile] \subseteq DOMAIN c.project.edits[ConfigFile]
           /\ \A k \in DOMAIN p.edits[ConfigFile] : p.edits[ConfigFile][k] = c.project.edits[ConfigFile][k]
  <2>1. c.project # Absent /\ c.project.providerOnly \in BOOLEAN
    BY <1>4 DEF IsPlan
  <2> QED  BY <2>1, GuardedPlan, Zenon
<1>6. c.global # Absent =>
      /\ g.providerOnly <=> c.global.providerOnly
      /\ DOMAIN g.edits \subseteq DOMAIN c.global.edits
      /\ \A f \in DOMAIN g.edits \ {ConfigFile} : g.edits[f] = c.global.edits[f]
  <2>1. c.global # Absent => c.global.providerOnly \in BOOLEAN
    BY <1>4 DEF IsPlan
  <2> QED  BY <2>1, GuardedPlan, Zenon
<1> HIDE DEF g, p, d
<1>7. c.project.providerOnly => c.global # Absent /\ c.global.providerOnly
  BY DEF IsCommand
<1>8. \A k \in EditsOf(p, ConfigFile) : p.edits[ConfigFile][k] # Removed
  <2>1. \A k \in EditsOf(c.project, ConfigFile) : c.project.edits[ConfigFile][k] # Removed
    BY DEF IsCommand
  <2> QED  BY <1>5, <2>1 DEF EditsOf
<1>9. g # Absent => \A f \in (DOMAIN g.edits \cap DOMAIN p.edits) \ {ConfigFile} : DOMAIN g.edits[f] \subseteq DOMAIN p.edits[f]
  <2>1. c.global # Absent => \A f \in (DOMAIN c.global.edits \cap DOMAIN c.project.edits) \ {ConfigFile} :
                               DOMAIN c.global.edits[f] \subseteq DOMAIN c.project.edits[f]
    BY DEF IsCommand
  <2> QED  BY <1>2, <1>5, <1>6, <2>1
<1>10. IsCommand(d)
  BY <1>1, <1>2, <1>4, <1>5, <1>6, <1>7, <1>8, <1>9 DEF IsCommand
<1> QED  BY <1>2, <1>4, <1>10 DEF d, g, p

\* What is left to do after a target.
LEMMA LeftToDo ==
  Tail(<<"project">>) = <<>> /\ Tail(<<"global", "project">>) = <<"project">>
<1>1. Tail(<<"project">>) = <<>>
  OBVIOUS
<1>2. Tail(<<"global", "project">>) = <<"project">>
  OBVIOUS
<1> QED  BY <1>1, <1>2

\* Every step keeps the invariant.
LEMMA StagingStep ==
  ASSUME StagingInv, [StagingNext]_gvars
  PROVE  StagingInv'
<1> USE DEF StagingInv
<1>1. ASSUME NEW c \in Commands, Start(c)
      PROVE  StagingInv'
  <2>1. command = None /\ candidate = NoCandidate /\ candidate' = candidate
    BY <1>1 DEF Start, CandidateInv
  <2> DEFINE snapshots == [t \in Roots |-> Sources(layers[t])]
             d == [global |-> Guarded(c.global), project |-> Guarded(c.project), snapshots |-> snapshots]
  <2>2. IsCommand(c)
    BY StagingAssumption
  <2>3. /\ command' = d
        /\ todo' = IF c.global = Absent THEN <<"project">> ELSE <<"global", "project">>
    BY <1>1 DEF Start
  <2>4. IsCommand(d) /\ (Guarded(c.global) # Absent <=> c.global # Absent)
    <3> HIDE DEF snapshots
    <3> QED  BY <2>2, GuardedCommand, Zenon
  <2>5. d.global = Guarded(c.global) /\ d.snapshots = snapshots
    OBVIOUS
  <2>6. \A t \in Roots : ConfigFile \in DOMAIN snapshots[t]
    BY DEF Sources, Over, Single
  <2> HIDE DEF d, snapshots
  <2>7. /\ IsCommand(command')
        /\ command'.global # Absent <=> c.global # Absent
        /\ \A t \in Roots : ConfigFile \in DOMAIN command'.snapshots[t]
    BY <2>3, <2>4, <2>5, <2>6
  <2>8. Head(todo') = "global" => c.global # Absent
    BY <2>3
  <2>9. PlanInv'
    BY <2>3, <2>7, <2>8 DEF PlanInv
  <2>10. command'.project.providerOnly => command'.global # Absent
    BY <2>7 DEF IsCommand
  <2>11. HeldInv'
    <3>1. todo' = <<"project">> => c.global = Absent
      BY <2>3
    <3> QED  BY <2>7, <2>10, <3>1 DEF HeldInv, Gate
  <2>12. CandidateInv'
    BY <2>1 DEF CandidateInv
  <2> QED  BY <2>9, <2>11, <2>12
<1>2. ASSUME NEW rest, command # None, rest = Tail(todo) \/ rest = <<>>, Leave(rest), candidate' = NoCandidate,
             rest # <<>> /\ Gate => held'.target = "global" /\ DOMAIN held'.published \subseteq {ConfigFile}
      PROVE  StagingInv'
  <2>1. PlanInv
    OBVIOUS
  <2>2. todo \in {<<"global", "project">>, <<"project">>}
    BY <1>2, <2>1 DEF PlanInv
  <2>3. rest \in {<<"project">>, <<>>}
    BY <1>2, <2>2, LeftToDo
  <2>4. todo' = rest /\ command' = IF rest = <<>> THEN None ELSE command
    BY <1>2 DEF Leave
  <2>5. CASE rest = <<>>
    <3>1. command' = None
      BY <2>4, <2>5
    <3> QED  BY <1>2, <3>1 DEF PlanInv, CandidateInv, HeldInv
  <2>6. CASE rest = <<"project">>
    <3>1. command' = command /\ todo' = <<"project">>
      BY <2>4, <2>6
    <3>2. PlanInv'
      BY <1>2, <2>1, <3>1 DEF PlanInv
    <3>3. CandidateInv'
      BY <1>2 DEF CandidateInv
    <3>4. HeldInv'
      BY <1>2, <2>6, <3>1 DEF HeldInv, Gate
    <3> QED  BY <3>2, <3>3, <3>4
  <2> QED  BY <2>3, <2>5, <2>6
<1>3. CASE StageTarget
  <2> DEFINE target == Head(todo)
             built == Stage(target, layers, command[target], command.global)
  <2>1. command # None /\ candidate = NoCandidate
    BY <1>3 DEF StageTarget
  <2>2. CASE built = Refused
    <3> DEFINE rest == IF Gate THEN <<>> ELSE Tail(todo)
    <3>1. Leave(rest) /\ candidate' = NoCandidate
      BY <1>3, <2>1, <2>2 DEF StageTarget
    <3>2. rest # <<>> => ~Gate
      OBVIOUS
    <3>3. rest = Tail(todo) \/ rest = <<>>
      OBVIOUS
    <3> HIDE DEF rest
    <3> QED  BY <1>2, <2>1, <3>1, <3>2, <3>3
  <2>3. CASE built # Refused
    <3>1. candidate' = built /\ UNCHANGED <<layers, command, todo, held, commands>>
      BY <1>3, <2>1, <2>3 DEF StageTarget
    <3> HIDE DEF built
    <3>2. candidate'.read = layers
      BY <2>3, <3>1, StagedCopies DEF built
    <3>3. candidate' = Stage(Head(todo'), candidate'.read, command'[Head(todo')], command'.global)
      BY <3>1, <3>2 DEF built
    <3>4. CandidateInv'
      BY <2>1, <2>3, <3>1, <3>3 DEF CandidateInv
    <3>5. PlanInv' /\ HeldInv'
      BY <3>1 DEF PlanInv, HeldInv, Gate
    <3> QED  BY <3>4, <3>5
  <2> QED  BY <2>2, <2>3
<1>4. CASE Valid
  <2>1. candidate # NoCandidate /\ Leave(Tail(todo)) /\ candidate' = NoCandidate /\ command # None
    BY <1>4 DEF Valid, CandidateInv
  <2>2. ASSUME Tail(todo) # <<>>, Gate
        PROVE  held'.target = "global" /\ DOMAIN held'.published \subseteq {ConfigFile}
    <3>1. todo = <<"global", "project">>
      BY <2>1, <2>2, LeftToDo DEF PlanInv
    <3>2. held' = candidate
      BY <1>4, <2>2, <3>1 DEF Valid
    <3>3. candidate.target = "global"
      BY <2>1, <3>1, CandidateCopies
    <3>4. /\ candidate.published = PublishDir("global", GlobalOf(candidate.read), ProjectOf(candidate.read, "global"), command.global)
          /\ candidate.published # Refused
      BY <2>1, <3>3, CandidateCopies
    <3>5. DOMAIN candidate.published = DOMAIN command.global.edits
      BY <3>4, PublishedFiles
    <3>6. DOMAIN command.global.edits \subseteq {ConfigFile}
      BY <2>1, <2>2 DEF PlanInv, Gate, IsCommand, IsPlan
    <3> QED  BY <3>2, <3>3, <3>5, <3>6
  <2> QED  BY <1>2, <2>1, <2>2
<1>5. CASE Invalid
  <2> DEFINE rest == IF Gate THEN <<>> ELSE Tail(todo)
  <2>1. candidate # NoCandidate /\ Leave(rest) /\ candidate' = NoCandidate /\ command # None
    BY <1>5 DEF Invalid, CandidateInv
  <2>2. rest # <<>> => ~Gate
    OBVIOUS
  <2>3. rest = Tail(todo) \/ rest = <<>>
    OBVIOUS
  <2> HIDE DEF rest
  <2> QED  BY <1>2, <2>1, <2>2, <2>3
<1>6. ASSUME NEW ls \in Operated, OperatorEdits(ls)
      PROVE  StagingInv'
  <2>1. UNCHANGED <<command, todo, candidate, held>>
    BY <1>6 DEF OperatorEdits
  <2> QED  BY <2>1 DEF PlanInv, CandidateInv, HeldInv, Gate
<1>7. CASE UNCHANGED gvars
  BY <1>7 DEF gvars, PlanInv, CandidateInv, HeldInv, Gate
<1> QED  BY <1>1, <1>3, <1>4, <1>5, <1>6, <1>7 DEF StagingNext

\* A gate pass that publishes writes over what it was planned on.
LEMMA NoEditOverwritten ==
  ASSUME StagingInv, [StagingNext]_gvars, candidate # NoCandidate, candidate' = NoCandidate, Gate
  PROVE  OverwritesNoEdit
<1>1. command # None
  BY DEF StagingInv, CandidateInv
<1>2. Valid \/ Invalid
  <2>1. ASSUME NEW c \in Commands, Start(c) PROVE FALSE
    BY <1>1, <2>1 DEF Start
  <2>2. ~StageTarget
    BY DEF StageTarget
  <2>3. ASSUME NEW ls \in Operated, OperatorEdits(ls) PROVE FALSE
    BY <2>3 DEF OperatorEdits
  <2>4. ~UNCHANGED gvars
    BY DEF gvars
  <2> QED  BY <2>1, <2>2, <2>3, <2>4 DEF StagingNext
<1>3. CASE layers' = layers
  BY <1>3 DEF OverwritesNoEdit
<1>4. CASE layers' # layers
  <2>1. ~Invalid
    BY <1>4 DEF Invalid
  <2>2. ~(Len(todo) > 1) /\ Unchanged
    BY <1>2, <1>4, <2>1 DEF Valid
  <2>3. todo = <<"project">>
    BY <1>1, <2>2 DEF StagingInv, PlanInv
  <2>4. held.target = "global" /\ DOMAIN held.published \subseteq {ConfigFile}
    BY <1>1, <2>3 DEF StagingInv, HeldInv
  <2>5. ConfigFile \in DOMAIN command.snapshots["global"]
    BY <1>1 DEF StagingInv, PlanInv, Roots
  <2>6. At(Sources(layers["global"]), ConfigFile) = command.snapshots["global"][ConfigFile]
    BY <2>2, <2>5 DEF Unchanged, Roots
  <2>7. At(Sources(layers["global"]), ConfigFile) = layers["global"].config
    BY DEF At, Sources, Over, Single
  <2>8. At(command.snapshots["global"], ConfigFile) = command.snapshots["global"][ConfigFile]
    BY <2>5 DEF At
  <2> QED  BY <2>4, <2>6, <2>7, <2>8 DEF OverwritesNoEdit
<1> QED  BY <1>3, <1>4

-----------------------------------------------------------------------------
(***************************************************************************)
(* What is validated is what will be live.                                 *)
(***************************************************************************)
SameKeys(a, b) == DOMAIN a = DOMAIN b /\ \A k \in DOMAIN a : a[k] = b[k]

\* The edits of a file, none if the plan has none of it.
EditsFor(plan, f) == IF f \in DOMAIN plan.edits THEN plan.edits[f] ELSE <<>>
OwnEdits(f) == EditsFor(command[candidate.target], f)
GlobalEdits(f) ==
  IF candidate.target = "global" \/ command.global = Absent THEN <<>> ELSE EditsFor(command.global, f)

\* Edits make the same of the same keys, and no edits make no difference.
LEMMA EditedSame ==
  ASSUME NEW a, NEW b, NEW edits, SameKeys(a, b)
  PROVE  SameKeys(Edited(a, edits), Edited(b, edits))
<1>1. /\ DOMAIN Edited(a, edits) = {k \in DOMAIN edits : edits[k] # Removed} \cup (DOMAIN a \ DOMAIN edits)
      /\ \A k \in DOMAIN Edited(a, edits) : Edited(a, edits)[k] = IF k \in DOMAIN edits THEN edits[k] ELSE a[k]
  BY EditedKeys, Zenon
<1>2. /\ DOMAIN Edited(b, edits) = {k \in DOMAIN edits : edits[k] # Removed} \cup (DOMAIN b \ DOMAIN edits)
      /\ \A k \in DOMAIN Edited(b, edits) : Edited(b, edits)[k] = IF k \in DOMAIN edits THEN edits[k] ELSE b[k]
  BY EditedKeys, Zenon
<1>3. DOMAIN a = DOMAIN b /\ \A k \in DOMAIN a : a[k] = b[k]
  BY DEF SameKeys
<1> QED  BY <1>1, <1>2, <1>3 DEF SameKeys

LEMMA EditedByNone ==
  ASSUME NEW a
  PROVE  SameKeys(Edited(a, <<>>), a)
<1>1. /\ DOMAIN Edited(a, <<>>) = {k \in DOMAIN <<>> : <<>>[k] # Removed} \cup (DOMAIN a \ DOMAIN <<>>)
      /\ \A k \in DOMAIN Edited(a, <<>>) : Edited(a, <<>>)[k] = IF k \in DOMAIN <<>> THEN <<>>[k] ELSE a[k]
  BY EditedKeys, Zenon
<1>2. DOMAIN <<>> = {}
  OBVIOUS
<1> QED  BY <1>1, <1>2 DEF SameKeys

LEMMA SameKeysTransitive ==
  ASSUME NEW a, NEW b, NEW c, SameKeys(a, b), SameKeys(b, c)
  PROVE  SameKeys(a, c)
BY DEF SameKeys

LEMMA SameKeysReflexive ==
  ASSUME NEW a
  PROVE  SameKeys(a, a)
BY DEF SameKeys

LEMMA SameKeysSymmetric ==
  ASSUME NEW a, NEW b, SameKeys(a, b)
  PROVE  SameKeys(b, a)
BY DEF SameKeys

\* What a plan makes of a file of the copy.
LEMMA AppliedKeys ==
  ASSUME NEW files, NEW plan, NEW applied, applied = ApplyPlan(files, plan), applied # Refused
  PROVE  /\ DOMAIN applied = DOMAIN files
         /\ DOMAIN plan.edits \subseteq DOMAIN files
         /\ \A f \in DOMAIN files : SameKeys(applied[f].keys, Edited(files[f].keys, EditsFor(plan, f)))
<1>1. /\ DOMAIN plan.edits \subseteq DOMAIN files
      /\ DOMAIN applied = DOMAIN files
      /\ \A f \in DOMAIN plan.edits :
           /\ EditDocument(files[f], plan.edits[f]) # Refused
           /\ applied[f] = EditDocument(files[f], plan.edits[f])
      /\ \A f \in DOMAIN files \ DOMAIN plan.edits : applied[f] = files[f]
  BY AppliedFiles
<1>2. ASSUME NEW f \in DOMAIN plan.edits
      PROVE  SameKeys(applied[f].keys, Edited(files[f].keys, EditsFor(plan, f)))
  <2>1. EditDocument(files[f], plan.edits[f]) # Refused /\ applied[f] = EditDocument(files[f], plan.edits[f])
    BY <1>1
  <2>2. applied[f].keys = Edited(files[f].keys, plan.edits[f])
    BY <2>1, EditedDocument
  <2>3. EditsFor(plan, f) = plan.edits[f]
    BY DEF EditsFor
  <2> QED  BY <2>2, <2>3, SameKeysReflexive
<1>3. ASSUME NEW f \in DOMAIN files \ DOMAIN plan.edits
      PROVE  SameKeys(applied[f].keys, Edited(files[f].keys, EditsFor(plan, f)))
  <2>1. applied[f] = files[f]
    BY <1>1
  <2>2. EditsFor(plan, f) = <<>>
    BY DEF EditsFor
  <2>3. SameKeys(Edited(files[f].keys, <<>>), files[f].keys)
    BY EditedByNone
  <2> QED  BY <2>1, <2>2, <2>3, SameKeysSymmetric
<1> QED  BY <1>1, <1>2, <1>3

\* The files of the validated copy, each with the edits of both plans.
LEMMA ValidatedFiles ==
  ASSUME StagingInv, candidate # NoCandidate
  PROVE LET dirs == candidate.read
            t == candidate.target
            files == CopyOf(dirs, t) IN
        /\ DOMAIN candidate.validated = DOMAIN files
        /\ DOMAIN command[t].edits \subseteq DOMAIN files
        /\ \A f \in DOMAIN files :
             SameKeys(candidate.validated[f].keys, Edited(Edited(files[f].keys, GlobalEdits(f)), OwnEdits(f)))
<1> DEFINE dirs == candidate.read
           t == candidate.target
           files == CopyOf(dirs, t)
           plan == command[t]
           first == Reconciled(files, t, command.global)
           validated == candidate.validated
<1>1. /\ t \in Roots
      /\ validated = ApplyPlan(first, plan)
      /\ validated # Refused
  BY CandidateCopies
<1>2. /\ DOMAIN first = DOMAIN files
      /\ \A f \in DOMAIN files : SameKeys(first[f].keys, Edited(files[f].keys, GlobalEdits(f)))
  <2>1. CASE t = "global" \/ command.global = Absent
    <3>1. first = files
      BY <2>1 DEF Reconciled
    <3>2. \A f : GlobalEdits(f) = <<>>
      BY <2>1 DEF GlobalEdits
    <3> HIDE DEF first, files
    <3>3. \A f \in DOMAIN files : SameKeys(files[f].keys, Edited(files[f].keys, <<>>))
      BY EditedByNone, SameKeysSymmetric
    <3> QED  BY <3>1, <3>2, <3>3
  <2>2. CASE ~(t = "global" \/ command.global = Absent)
    <3>1. first = ApplyPlan(files, command.global)
      BY <1>1, <2>2 DEF Reconciled, Roots
    <3>2. \A f : GlobalEdits(f) = EditsFor(command.global, f)
      BY <2>2 DEF GlobalEdits
    <3> HIDE DEF first, files
    <3>3. first # Refused
      BY <1>1 DEF ApplyPlan
    <3>4. /\ DOMAIN first = DOMAIN files
          /\ \A f \in DOMAIN files : SameKeys(first[f].keys, Edited(files[f].keys, EditsFor(command.global, f)))
      BY <3>1, <3>3, AppliedKeys, Zenon
    <3> QED  BY <3>2, <3>4
  <2> QED  BY <2>1, <2>2
<1>3. /\ DOMAIN validated = DOMAIN first
      /\ DOMAIN plan.edits \subseteq DOMAIN first
      /\ \A f \in DOMAIN first : SameKeys(validated[f].keys, Edited(first[f].keys, EditsFor(plan, f)))
  <2> HIDE DEF validated, first, plan
  <2> QED  BY <1>1, AppliedKeys, Zenon
<1>4. ASSUME NEW f \in DOMAIN files
      PROVE  SameKeys(validated[f].keys, Edited(Edited(files[f].keys, GlobalEdits(f)), OwnEdits(f)))
  <2>1. OwnEdits(f) = EditsFor(plan, f)
    BY DEF OwnEdits
  <2> HIDE DEF validated, first, plan, files
  <2>2. SameKeys(validated[f].keys, Edited(first[f].keys, EditsFor(plan, f)))
    BY <1>2, <1>3
  <2>3. SameKeys(first[f].keys, Edited(files[f].keys, GlobalEdits(f)))
    BY <1>2
  <2>4. SameKeys(Edited(first[f].keys, EditsFor(plan, f)), Edited(Edited(files[f].keys, GlobalEdits(f)), EditsFor(plan, f)))
    BY <2>3, EditedSame
  <2> QED  BY <2>1, <2>2, <2>4, SameKeysTransitive
<1> HIDE DEF first
<1> QED  BY <1>2, <1>3, <1>4

\* Keys no plan edits: groups, credentials, and what says which of those are kept.
Untouched == GroupKeys \cup AuthKeys \cup {KindOf[k] : k \in AuthKeys}

\* Keys that are alike, but for some.
Alike(a, b, but) ==
  \A k : k \notin but => (k \in DOMAIN a <=> k \in DOMAIN b) /\ (k \in DOMAIN a => a[k] = b[k])

LEMMA EditedAlike ==
  ASSUME NEW keys, NEW edits, NEW a, SameKeys(a, Edited(keys, edits))
  PROVE  /\ \A k : k \notin DOMAIN edits => (k \in DOMAIN a <=> k \in DOMAIN keys) /\ (k \in DOMAIN a => a[k] = keys[k])
         /\ \A k \in DOMAIN edits : (k \in DOMAIN a <=> edits[k] # Removed) /\ (k \in DOMAIN a => a[k] = edits[k])
<1>1. /\ DOMAIN Edited(keys, edits) = {k \in DOMAIN edits : edits[k] # Removed} \cup (DOMAIN keys \ DOMAIN edits)
      /\ \A k \in DOMAIN Edited(keys, edits) :
           Edited(keys, edits)[k] = IF k \in DOMAIN edits THEN edits[k] ELSE keys[k]
  BY EditedKeys, Zenon
<1> QED  BY <1>1 DEF SameKeys

\* Two configurations that are edited and then merged, and merged and then edited,
\* differ in keys of the second that are edited in the first alone.
LEMMA ConfigurationsAgree ==
  ASSUME NEW g, NEW p, NEW ge, NEW pe, NEW gg, NEW pp, NEW valid,
         SameKeys(gg, Edited(g, ge)), SameKeys(pp, Edited(p, pe)),
         SameKeys(valid, Edited(Edited(Redact(Merge(g, p)), ge), pe)),
         DOMAIN ge \cap Untouched = {}, DOMAIN pe \cap Untouched = {},
         \A k \in DOMAIN pe : pe[k] # Removed
  PROVE  Alike(Redact(Merge(gg, pp)), valid, (DOMAIN p \cap DOMAIN ge) \ DOMAIN pe)
<1> DEFINE m == Merge(g, p)
           mm == Merge(gg, pp)
           r == Redact(m)
           rr == Redact(mm)
           once == Edited(r, ge)
<1>1. /\ \A k : k \notin DOMAIN ge => (k \in DOMAIN gg <=> k \in DOMAIN g) /\ (k \in DOMAIN gg => gg[k] = g[k])
      /\ \A k \in DOMAIN ge : (k \in DOMAIN gg <=> ge[k] # Removed) /\ (k \in DOMAIN gg => gg[k] = ge[k])
  BY EditedAlike
<1>2. /\ \A k : k \notin DOMAIN pe => (k \in DOMAIN pp <=> k \in DOMAIN p) /\ (k \in DOMAIN pp => pp[k] = p[k])
      /\ \A k \in DOMAIN pe : (k \in DOMAIN pp <=> pe[k] # Removed) /\ (k \in DOMAIN pp => pp[k] = pe[k])
  BY EditedAlike
<1>3. /\ \A k : k \notin DOMAIN pe => (k \in DOMAIN valid <=> k \in DOMAIN once) /\ (k \in DOMAIN valid => valid[k] = once[k])
      /\ \A k \in DOMAIN pe : (k \in DOMAIN valid <=> pe[k] # Removed) /\ (k \in DOMAIN valid => valid[k] = pe[k])
  <2> HIDE DEF once
  <2> QED  BY EditedAlike DEF once
<1>4. SameKeys(once, Edited(r, ge))
  <2>1. once = Edited(r, ge)
    OBVIOUS
  <2> HIDE DEF once, r
  <2> QED  BY <2>1, SameKeysReflexive
<1>5. /\ \A k : k \notin DOMAIN ge => (k \in DOMAIN once <=> k \in DOMAIN r) /\ (k \in DOMAIN once => once[k] = r[k])
      /\ \A k \in DOMAIN ge : (k \in DOMAIN once <=> ge[k] # Removed) /\ (k \in DOMAIN once => once[k] = ge[k])
  <2> HIDE DEF once, r
  <2> QED  BY <1>4, EditedAlike
<1>6. /\ DOMAIN m = DOMAIN g \cup DOMAIN p
      /\ \A k \in DOMAIN m :
           m[k] = IF k \in GroupKeys \cap DOMAIN g \cap DOMAIN p THEN g[k] \o p[k] ELSE IF k \in DOMAIN p THEN p[k] ELSE g[k]
  BY DEF Merge
<1>7. /\ DOMAIN mm = DOMAIN gg \cup DOMAIN pp
      /\ \A k \in DOMAIN mm :
           mm[k] = IF k \in GroupKeys \cap DOMAIN gg \cap DOMAIN pp THEN gg[k] \o pp[k]
                   ELSE IF k \in DOMAIN pp THEN pp[k] ELSE gg[k]
  BY DEF Merge
<1> HIDE DEF m, mm
<1>8. ASSUME NEW k \in Untouched
      PROVE  (k \in DOMAIN mm <=> k \in DOMAIN m) /\ (k \in DOMAIN mm => mm[k] = m[k])
  <2>1. k \notin DOMAIN ge /\ k \notin DOMAIN pe
    OBVIOUS
  <2>2. (k \in DOMAIN gg <=> k \in DOMAIN g) /\ (k \in DOMAIN pp <=> k \in DOMAIN p)
    BY <1>1, <1>2, <2>1
  <2>3. (k \in DOMAIN gg => gg[k] = g[k]) /\ (k \in DOMAIN pp => pp[k] = p[k])
    BY <1>1, <1>2, <2>1
  <2> QED  BY <1>6, <1>7, <2>2, <2>3
<1>9. ASSUME NEW k \in AuthKeys
      PROVE  Catalog(mm, k) <=> Catalog(m, k)
  <2>1. KindOf[k] \in Untouched
    BY DEF Untouched
  <2>2. (KindOf[k] \in DOMAIN mm <=> KindOf[k] \in DOMAIN m) /\ (KindOf[k] \in DOMAIN mm => mm[KindOf[k]] = m[KindOf[k]])
    BY <1>8, <2>1
  <2> QED  BY <2>2 DEF Catalog
<1>10. /\ DOMAIN r = DOMAIN m
       /\ \A k \in DOMAIN m : r[k] = IF k \in AuthKeys /\ ~Catalog(m, k) THEN Inert ELSE m[k]
  BY DEF Redact
<1>11. /\ DOMAIN rr = DOMAIN mm
       /\ \A k \in DOMAIN mm : rr[k] = IF k \in AuthKeys /\ ~Catalog(mm, k) THEN Inert ELSE mm[k]
  BY DEF Redact
<1> HIDE DEF r, rr, once
<1>12. ASSUME NEW k, k \in Untouched
       PROVE  (k \in DOMAIN rr <=> k \in DOMAIN valid) /\ (k \in DOMAIN rr => rr[k] = valid[k])
  <2>1. k \notin DOMAIN ge /\ k \notin DOMAIN pe
    BY <1>12
  <2>2. (k \in DOMAIN rr <=> k \in DOMAIN r) /\ (k \in DOMAIN rr => rr[k] = r[k])
    BY <1>8, <1>9, <1>10, <1>11, <1>12
  <2>3. (k \in DOMAIN valid <=> k \in DOMAIN r) /\ (k \in DOMAIN valid => valid[k] = r[k])
    BY <1>3, <1>5, <2>1
  <2> QED  BY <2>2, <2>3
<1>13. ASSUME NEW k, k \notin Untouched, k \notin (DOMAIN p \cap DOMAIN ge) \ DOMAIN pe
       PROVE  (k \in DOMAIN rr <=> k \in DOMAIN valid) /\ (k \in DOMAIN rr => rr[k] = valid[k])
  <2>1. k \notin GroupKeys /\ k \notin AuthKeys
    BY <1>13 DEF Untouched
  <2>2. /\ k \in DOMAIN rr <=> k \in DOMAIN gg \/ k \in DOMAIN pp
        /\ k \in DOMAIN rr => rr[k] = IF k \in DOMAIN pp THEN pp[k] ELSE gg[k]
    BY <1>7, <1>11, <2>1
  <2>3. /\ k \in DOMAIN r <=> k \in DOMAIN g \/ k \in DOMAIN p
        /\ k \in DOMAIN r => r[k] = IF k \in DOMAIN p THEN p[k] ELSE g[k]
    BY <1>6, <1>10, <2>1
  <2>4. CASE k \in DOMAIN pe
    BY <1>2, <1>3, <2>2, <2>4
  <2>5. CASE k \notin DOMAIN pe /\ k \in DOMAIN ge
    <3>1. k \notin DOMAIN pp
      BY <1>2, <1>13, <2>5
    <3> QED  BY <1>1, <1>3, <1>5, <2>2, <2>5, <3>1
  <2>6. CASE k \notin DOMAIN pe /\ k \notin DOMAIN ge
    <3>1. (k \in DOMAIN gg <=> k \in DOMAIN g) /\ (k \in DOMAIN pp <=> k \in DOMAIN p)
      BY <1>1, <1>2, <2>6
    <3>2. (k \in DOMAIN gg => gg[k] = g[k]) /\ (k \in DOMAIN pp => pp[k] = p[k])
      BY <1>1, <1>2, <2>6
    <3>3. (k \in DOMAIN valid <=> k \in DOMAIN r) /\ (k \in DOMAIN valid => valid[k] = r[k])
      BY <1>3, <1>5, <2>6
    <3> QED  BY <2>2, <2>3, <3>1, <3>2, <3>3
  <2> QED  BY <2>4, <2>5, <2>6
<1> QED  BY <1>12, <1>13 DEF Alike, rr, mm

\* Without the keys in which they may differ they are the same.
LEMMA AlikeRestricted ==
  ASSUME NEW a, NEW b, NEW but, Alike(a, b, but)
  PROVE  Restrict(a, DOMAIN a \ but) = Restrict(b, DOMAIN b \ but)
<1>1. DOMAIN a \ but = DOMAIN b \ but
  BY DEF Alike
<1>2. \A k \in DOMAIN a \ but : a[k] = b[k]
  BY DEF Alike
<1> QED  BY <1>1, <1>2 DEF Restrict

\* The plans of a command touch no groups and no credentials; a project's takes nothing out.
LEMMA PlansUntouched ==
  ASSUME StagingInv, candidate # NoCandidate
  PROVE  /\ DOMAIN OwnEdits(ConfigFile) \cap Untouched = {}
         /\ DOMAIN GlobalEdits(ConfigFile) \cap Untouched = {}
         /\ candidate.target = "project" => \A k \in DOMAIN OwnEdits(ConfigFile) : OwnEdits(ConfigFile)[k] # Removed
<1>1. /\ candidate.target \in Roots /\ IsCommand(command)
      /\ candidate.target = "global" => command.global # Absent
  BY CandidateCopies
<1>2. \A plan : DOMAIN EditsFor(plan, ConfigFile) = EditsOf(plan, ConfigFile)
  <2>1. DOMAIN <<>> = {}
    OBVIOUS
  <2> QED  BY <2>1 DEF EditsFor, EditsOf
<1>3. \A plan : IsPlan(plan) => DOMAIN EditsFor(plan, ConfigFile) \cap Untouched = {}
  BY <1>2 DEF IsPlan, Untouched
<1>4. IsPlan(command[candidate.target]) /\ (command.global # Absent => IsPlan(command.global))
  BY <1>1 DEF IsCommand, Roots
<1>5. DOMAIN OwnEdits(ConfigFile) \cap Untouched = {}
  BY <1>3, <1>4 DEF OwnEdits
<1>6. DOMAIN GlobalEdits(ConfigFile) \cap Untouched = {}
  <2>1. DOMAIN <<>> = {}
    OBVIOUS
  <2> QED  BY <1>3, <1>4, <2>1 DEF GlobalEdits
<1>7. ASSUME candidate.target = "project", NEW k \in DOMAIN OwnEdits(ConfigFile)
      PROVE  OwnEdits(ConfigFile)[k] # Removed
  <2>1. k \in EditsOf(command.project, ConfigFile) /\ OwnEdits(ConfigFile) = EditsFor(command.project, ConfigFile)
    BY <1>2, <1>7 DEF OwnEdits
  <2>2. EditsFor(command.project, ConfigFile) = command.project.edits[ConfigFile]
    BY <2>1 DEF EditsFor, EditsOf
  <2> QED  BY <1>1, <2>1, <2>2 DEF IsCommand
<1> QED  BY <1>5, <1>6, <1>7

\* What is refused for its groups is refused after edits of other keys as before.
LEMMA GroupsStay ==
  ASSUME NEW doc, NEW edits, NEW new, DOMAIN edits \cap Untouched = {}, SameKeys(new.keys, Edited(doc.keys, edits))
  PROVE  GroupsRefused(new) <=> GroupsRefused(doc)
<1>1. \A k : k \notin DOMAIN edits => (k \in DOMAIN new.keys <=> k \in DOMAIN doc.keys) /\ (k \in DOMAIN new.keys => new.keys[k] = doc.keys[k])
  BY EditedAlike
<1>2. \A k \in GroupKeys : k \notin DOMAIN edits
  BY DEF Untouched
<1> QED  BY <1>1, <1>2 DEF GroupsRefused

\* The files that are read for a target are on the list; config.yaml is not.
LEMMA FilesListed ==
  ASSUME StagingInv, candidate # NoCandidate
  PROVE LET dirs == candidate.read
            t == candidate.target IN
        /\ DOMAIN GlobalOf(dirs).files \subseteq Allowlisted /\ DOMAIN ProjectOf(dirs, t).files \subseteq Allowlisted
        /\ DOMAIN FilesOf(dirs, t) = DOMAIN GlobalOf(dirs).files \cup DOMAIN ProjectOf(dirs, t).files
        /\ \A f \in DOMAIN FilesOf(dirs, t) :
             FilesOf(dirs, t)[f] = IF f \in DOMAIN ProjectOf(dirs, t).files THEN ProjectOf(dirs, t).files[f]
                                   ELSE GlobalOf(dirs).files[f]
        /\ ConfigFile \notin DOMAIN FilesOf(dirs, t)
        /\ t = "global" => DOMAIN ProjectOf(dirs, t).files = {}
<1> DEFINE dirs == candidate.read
           t == candidate.target
<1>1. t \in Roots /\ GlobalOf(dirs) # Refused /\ ProjectOf(dirs, t) # Refused
  BY CandidateCopies
<1>2. DOMAIN GlobalOf(dirs).files \subseteq Allowlisted
  <2>1. ReadLayer(dirs.global) # Refused /\ GlobalOf(dirs) = ReadLayer(dirs.global)
    BY <1>1 DEF GlobalOf
  <2> HIDE DEF dirs
  <2> QED  BY <2>1, LayerRead
<1>3. CASE t = "project"
  <2>1. ProjectOf(dirs, t) = ReadLayer(dirs.project)
    BY <1>3 DEF ProjectOf
  <2> HIDE DEF dirs, t
  <2>2. DOMAIN ProjectOf(dirs, t).files \subseteq Allowlisted
    BY <1>1, <2>1, LayerRead
  <2> QED  BY <1>2, <1>3, <2>2, StagingAssumption DEF FilesOf, MergeFiles, Over, dirs, t
<1>4. CASE t = "global"
  <2>1. ProjectOf(dirs, t) = NoLayer /\ NoLayer.files = <<>> /\ DOMAIN <<>> = {}
    BY <1>4 DEF ProjectOf, NoLayer
  <2>2. DOMAIN ProjectOf(dirs, t).files = {}
    BY <2>1
  <2> HIDE DEF dirs, t
  <2> QED  BY <1>2, <2>2, StagingAssumption DEF FilesOf, MergeFiles, Over, dirs, t
<1> QED  BY <1>1, <1>3, <1>4 DEF Roots

\* The keys of what is published.
LEMMA PublishedKeys ==
  ASSUME StagingInv, candidate # NoCandidate
  PROVE LET dirs == candidate.read
            t == candidate.target
            published == candidate.published IN
        /\ DOMAIN published = DOMAIN command[t].edits
        /\ ConfigFile \in DOMAIN published =>
             /\ SameKeys(published[ConfigFile].keys, Edited(dirs[t].config.keys, OwnEdits(ConfigFile)))
             /\ published[ConfigFile].form # "broken"
        /\ \A f \in DOMAIN published \ {ConfigFile} :
             /\ f \in DOMAIN FilesOf(dirs, t)
             /\ SameKeys(published[f].keys, Edited(FilesOf(dirs, t)[f].keys, OwnEdits(f)))
<1> DEFINE dirs == candidate.read
           t == candidate.target
           published == candidate.published
           plan == command[t]
           global == GlobalOf(dirs)
           project == ProjectOf(dirs, t)
           base == PublishBase(t, global, project, plan)
<1>1. /\ t \in Roots /\ global # Refused /\ project # Refused
      /\ published = PublishDir(t, global, project, plan) /\ published # Refused
  BY CandidateCopies
<1>2. /\ base # Refused
      /\ DOMAIN published = DOMAIN plan.edits
      /\ \A f \in DOMAIN plan.edits : published[f] # Refused
      /\ ConfigFile \in DOMAIN plan.edits => published[ConfigFile] = EditDocument(base, plan.edits[ConfigFile])
      /\ \A f \in DOMAIN plan.edits \ {ConfigFile} :
           f \in DOMAIN MergeFiles(global, project) /\ published[f] = EditDocument(MergeFiles(global, project)[f], plan.edits[f])
  <2> HIDE DEF plan, global, project, published, t
  <2> QED  BY <1>1, PublishedFiles
<1>3. DOMAIN base.keys = DOMAIN dirs[t].config.keys /\ \A k \in DOMAIN base.keys : base.keys[k] = dirs[t].config.keys[k]
  <2> HIDE DEF dirs, t, plan
  <2> QED  BY <1>1, <1>2, BaseIsOwn DEF base, global, project
<1>4. \A f \in DOMAIN plan.edits : OwnEdits(f) = plan.edits[f]
  BY DEF OwnEdits, EditsFor
<1> HIDE DEF base, published
<1>5. ASSUME ConfigFile \in DOMAIN plan.edits
      PROVE  /\ SameKeys(published[ConfigFile].keys, Edited(dirs[t].config.keys, OwnEdits(ConfigFile)))
             /\ published[ConfigFile].form # "broken"
  <2> DEFINE e == plan.edits[ConfigFile]
  <2>1. EditDocument(base, e) # Refused /\ published[ConfigFile] = EditDocument(base, e)
    BY <1>2, <1>5
  <2>2. OwnEdits(ConfigFile) = e
    BY <1>4, <1>5
  <2> HIDE DEF e
  <2>3. published[ConfigFile].keys = Edited(base.keys, e) /\ published[ConfigFile].form # "broken"
    BY <2>1, EditedDocument
  <2>4. SameKeys(base.keys, dirs[t].config.keys)
    BY <1>3 DEF SameKeys
  <2>5. SameKeys(Edited(base.keys, e), Edited(dirs[t].config.keys, e))
    BY <2>4, EditedSame
  <2> QED  BY <2>2, <2>3, <2>5
<1>6. ASSUME NEW f \in DOMAIN plan.edits \ {ConfigFile}
      PROVE  /\ f \in DOMAIN FilesOf(dirs, t)
             /\ SameKeys(published[f].keys, Edited(FilesOf(dirs, t)[f].keys, OwnEdits(f)))
  <2> DEFINE files == MergeFiles(global, project)
  <2>1. /\ EditDocument(files[f], plan.edits[f]) # Refused /\ published[f] = EditDocument(files[f], plan.edits[f])
        /\ f \in DOMAIN files
    BY <1>2
  <2>2. published[f].keys = Edited(files[f].keys, plan.edits[f])
    <3> HIDE DEF files, plan
    <3> QED  BY <2>1, EditedDocument
  <2>3. files = FilesOf(dirs, t)
    BY DEF FilesOf
  <2>4. OwnEdits(f) = plan.edits[f]
    BY <1>4
  <2> HIDE DEF files, plan
  <2> QED  BY <2>1, <2>2, <2>3, <2>4, SameKeysReflexive
<1> HIDE DEF plan
<1> QED  BY <1>2, <1>5, <1>6 DEF published, plan

\* The layers as they will be.
BeforeProject == IF candidate.target = "global" THEN NoLayer ELSE ReadLayer(candidate.read.project)
LiveGlobal == WithFiles(ReadLayer(candidate.read.global), GlobalPublished)
LiveProject == IF candidate.target = "global" THEN NoLayer ELSE WithFiles(BeforeProject, candidate.published)
LiveConfig == Effective([keys |-> LiveGlobal.config.keys, form |-> "plain"], LiveProject.config, TRUE)
LiveFiles == MergeFiles(LiveGlobal, LiveProject)

\* The edits of the global root's own plan.
RootEdits(f) == IF candidate.target = "global" THEN OwnEdits(f) ELSE GlobalEdits(f)

LEMMA WithFilesLayer ==
  ASSUME NEW dir, NEW new
  PROVE  /\ WithFiles(dir, new).config = IF ConfigFile \in DOMAIN new THEN new[ConfigFile] ELSE dir.config
         /\ DOMAIN WithFiles(dir, new).files = (DOMAIN new \ {ConfigFile}) \cup DOMAIN dir.files
         /\ \A f \in DOMAIN WithFiles(dir, new).files :
              WithFiles(dir, new).files[f] = IF f \in DOMAIN new \ {ConfigFile} THEN new[f] ELSE dir.files[f]
<1> DEFINE files == Over(Restrict(new, DOMAIN new \ {ConfigFile}), dir.files)
           config == IF ConfigFile \in DOMAIN new THEN new[ConfigFile] ELSE dir.config
           layer == [config |-> config, linked |-> dir.linked, files |-> files]
<1>1. WithFiles(dir, new) = layer
  BY DEF WithFiles
<1>2. layer.config = config /\ layer.files = files
  OBVIOUS
<1>3. /\ DOMAIN files = (DOMAIN new \ {ConfigFile}) \cup DOMAIN dir.files
      /\ \A f \in DOMAIN files : files[f] = IF f \in DOMAIN new \ {ConfigFile} THEN new[f] ELSE dir.files[f]
  BY DEF Over, Restrict
<1> HIDE DEF layer, files, config
<1> QED  BY <1>1, <1>2, <1>3 DEF config

\* The keys of the files that are published of the global root.
LEMMA GlobalPublishedKeys ==
  ASSUME StagingInv, candidate # NoCandidate, Publishable
  PROVE LET global == GlobalOf(candidate.read)
            new == GlobalPublished IN
        /\ DOMAIN new \subseteq {ConfigFile} \cup DOMAIN global.files
        /\ ConfigFile \in DOMAIN new => SameKeys(new[ConfigFile].keys, Edited(global.config.keys, RootEdits(ConfigFile)))
        /\ ConfigFile \notin DOMAIN new => RootEdits(ConfigFile) = <<>>
        /\ \A f \in DOMAIN new \ {ConfigFile} : SameKeys(new[f].keys, Edited(global.files[f].keys, RootEdits(f)))
        /\ \A f \in DOMAIN global.files \ DOMAIN new : RootEdits(f) = <<>>
<1> DEFINE dirs == candidate.read
           t == candidate.target
           global == GlobalOf(dirs)
           new == GlobalPublished
<1>1. t \in Roots /\ global # Refused /\ IsCommand(command)
  BY CandidateCopies
<1>2. CASE t = "global"
  <2>1. new = candidate.published
    BY <1>2 DEF GlobalPublished
  <2>2. \A f : RootEdits(f) = OwnEdits(f)
    BY <1>2 DEF RootEdits
  <2>3. dirs[t].config = global.config
    <3>1. ReadLayer(dirs.global) # Refused /\ global = ReadLayer(dirs.global) /\ dirs[t] = dirs.global
      BY <1>1, <1>2 DEF GlobalOf
    <3> HIDE DEF dirs, t, global
    <3> QED  BY <3>1, LayerRead
  <2>4. DOMAIN FilesOf(dirs, t) = DOMAIN global.files /\ \A f \in DOMAIN global.files : FilesOf(dirs, t)[f] = global.files[f]
    BY <1>2, FilesListed
  <2>5. /\ DOMAIN new = DOMAIN command[t].edits
        /\ ConfigFile \in DOMAIN new => SameKeys(new[ConfigFile].keys, Edited(dirs[t].config.keys, OwnEdits(ConfigFile)))
        /\ \A f \in DOMAIN new \ {ConfigFile} :
             /\ f \in DOMAIN FilesOf(dirs, t)
             /\ SameKeys(new[f].keys, Edited(FilesOf(dirs, t)[f].keys, OwnEdits(f)))
    BY <2>1, PublishedKeys
  <2>6. \A f : f \notin DOMAIN new => OwnEdits(f) = <<>>
    BY <2>5 DEF OwnEdits, EditsFor
  <2> HIDE DEF new, dirs, t, global
  <2> QED  BY <2>2, <2>3, <2>4, <2>5, <2>6 DEF new, dirs, global
<1>3. CASE t # "global" /\ command.global = Absent
  <2>1. new = <<>> /\ DOMAIN <<>> = {}
    BY <1>3 DEF GlobalPublished
  <2>2. \A f : RootEdits(f) = <<>>
    BY <1>3 DEF RootEdits, GlobalEdits
  <2> HIDE DEF new
  <2> QED  BY <2>1, <2>2 DEF new
<1>4. CASE t # "global" /\ command.global # Absent
  <2> DEFINE plan == command.global
             from(f) == IF f = ConfigFile THEN [keys |-> global.config.keys, form |-> "plain"] ELSE global.files[f]
             planned == DOMAIN plan.edits \cap (DOMAIN global.files \cup {ConfigFile})
  <2>1. new = [f \in planned |-> EditDocument(from(f), plan.edits[f])]
    BY <1>4 DEF GlobalPublished, GlobalOf
  <2>2. \A f \in DOMAIN new : new[f] # Refused
    BY DEF Publishable
  <2>3. \A f : RootEdits(f) = EditsFor(plan, f)
    BY <1>4 DEF RootEdits, GlobalEdits
  <2>4. from(ConfigFile).keys = global.config.keys /\ \A f : f # ConfigFile => from(f) = global.files[f]
    OBVIOUS
  <2> HIDE DEF new, from, plan, global
  <2>5. DOMAIN new = planned /\ \A f \in planned : new[f] = EditDocument(from(f), plan.edits[f])
    BY <2>1
  <2>6. \A f \in planned : new[f].keys = Edited(from(f).keys, plan.edits[f]) /\ RootEdits(f) = plan.edits[f]
    BY <2>2, <2>3, <2>5, EditedDocument DEF EditsFor
  <2>7. \A f \in (DOMAIN global.files \cup {ConfigFile}) \ planned : RootEdits(f) = <<>>
    BY <2>3 DEF EditsFor
  <2>8. \A f \in planned : SameKeys(new[f].keys, Edited(from(f).keys, RootEdits(f)))
    BY <2>6, SameKeysReflexive
  <2> QED  BY <2>4, <2>5, <2>7, <2>8 DEF new, global
<1> QED  BY <1>2, <1>3, <1>4

\* The global root as it will be.
LEMMA GlobalWillBe ==
  ASSUME StagingInv, candidate # NoCandidate, Publishable
  PROVE LET global == GlobalOf(candidate.read) IN
        /\ SameKeys(LiveGlobal.config.keys, Edited(global.config.keys, RootEdits(ConfigFile)))
        /\ DOMAIN LiveGlobal.files = DOMAIN global.files
        /\ \A f \in DOMAIN global.files : SameKeys(LiveGlobal.files[f].keys, Edited(global.files[f].keys, RootEdits(f)))
<1> DEFINE global == GlobalOf(candidate.read)
           new == GlobalPublished
           layer == LiveGlobal
<1>1. layer = WithFiles(global, new)
  BY DEF LiveGlobal, GlobalOf
<1>2. /\ DOMAIN new \subseteq {ConfigFile} \cup DOMAIN global.files
      /\ ConfigFile \in DOMAIN new => SameKeys(new[ConfigFile].keys, Edited(global.config.keys, RootEdits(ConfigFile)))
      /\ ConfigFile \notin DOMAIN new => RootEdits(ConfigFile) = <<>>
      /\ \A f \in DOMAIN new \ {ConfigFile} : SameKeys(new[f].keys, Edited(global.files[f].keys, RootEdits(f)))
      /\ \A f \in DOMAIN global.files \ DOMAIN new : RootEdits(f) = <<>>
  BY GlobalPublishedKeys
<1>3. ConfigFile \notin DOMAIN global.files
  BY FilesListed, StagingAssumption
<1> HIDE DEF global, new, layer
<1>4. /\ layer.config = IF ConfigFile \in DOMAIN new THEN new[ConfigFile] ELSE global.config
      /\ DOMAIN layer.files = (DOMAIN new \ {ConfigFile}) \cup DOMAIN global.files
      /\ \A f \in DOMAIN layer.files : layer.files[f] = IF f \in DOMAIN new \ {ConfigFile} THEN new[f] ELSE global.files[f]
  BY <1>1, WithFilesLayer
<1>5. \A keys : SameKeys(keys, Edited(keys, <<>>))
  BY EditedByNone, SameKeysSymmetric
<1>6. SameKeys(layer.config.keys, Edited(global.config.keys, RootEdits(ConfigFile)))
  BY <1>2, <1>4, <1>5
<1>7. DOMAIN layer.files = DOMAIN global.files
  BY <1>2, <1>4
<1>8. ASSUME NEW f \in DOMAIN global.files
      PROVE  SameKeys(layer.files[f].keys, Edited(global.files[f].keys, RootEdits(f)))
  <2>1. CASE f \in DOMAIN new
    BY <1>2, <1>3, <1>4, <1>7, <2>1
  <2>2. CASE f \notin DOMAIN new
    BY <1>2, <1>4, <1>5, <1>7, <2>2
  <2> QED  BY <2>1, <2>2
<1> QED  BY <1>6, <1>7, <1>8 DEF global, layer

\* The project as it will be.
LEMMA ProjectWillBe ==
  ASSUME StagingInv, candidate # NoCandidate, candidate.target = "project"
  PROVE LET own == ProjectOf(candidate.read, "project")
            files == FilesOf(candidate.read, "project")
            layer == LiveProject IN
        /\ SameKeys(layer.config.keys, Edited(own.config.keys, OwnEdits(ConfigFile)))
        /\ layer.config.form # "broken"
        /\ DOMAIN layer.files = DOMAIN own.files \cup (DOMAIN command.project.edits \ {ConfigFile})
        /\ \A f \in DOMAIN layer.files :
             f \in DOMAIN files /\ SameKeys(layer.files[f].keys, Edited(files[f].keys, OwnEdits(f)))
<1> DEFINE dirs == candidate.read
           own == ProjectOf(dirs, "project")
           files == FilesOf(dirs, "project")
           new == candidate.published
           layer == LiveProject
<1>1. own = ReadLayer(dirs.project) /\ own # Refused /\ ConfigOf(dirs, "project") # Refused
  BY CandidateCopies DEF ProjectOf
<1>2. layer = WithFiles(own, new)
  BY <1>1 DEF LiveProject, BeforeProject
<1>3. /\ DOMAIN new = DOMAIN command.project.edits
      /\ ConfigFile \in DOMAIN new =>
           /\ SameKeys(new[ConfigFile].keys, Edited(dirs.project.config.keys, OwnEdits(ConfigFile)))
           /\ new[ConfigFile].form # "broken"
      /\ \A f \in DOMAIN new \ {ConfigFile} :
           f \in DOMAIN files /\ SameKeys(new[f].keys, Edited(files[f].keys, OwnEdits(f)))
  BY PublishedKeys
<1>4. own.config = dirs.project.config
  <2> HIDE DEF dirs, own
  <2> QED  BY <1>1, LayerRead
<1>5. /\ DOMAIN own.files \subseteq DOMAIN files /\ ConfigFile \notin DOMAIN files
      /\ \A f \in DOMAIN own.files : files[f] = own.files[f]
  BY FilesListed
<1>6. own.config.form # "broken"
  <2> DEFINE global == GlobalOf(dirs)
  <2>1. Effective(global.config, own.config, TRUE) # Refused
    BY <1>1 DEF ConfigOf
  <2> HIDE DEF global, own
  <2> QED  BY <2>1 DEF Effective
<1>7. \A f : f \notin DOMAIN new => OwnEdits(f) = <<>>
  BY <1>3 DEF OwnEdits, EditsFor
<1> HIDE DEF dirs, own, files, new, layer
<1>8. /\ layer.config = IF ConfigFile \in DOMAIN new THEN new[ConfigFile] ELSE own.config
      /\ DOMAIN layer.files = (DOMAIN new \ {ConfigFile}) \cup DOMAIN own.files
      /\ \A f \in DOMAIN layer.files : layer.files[f] = IF f \in DOMAIN new \ {ConfigFile} THEN new[f] ELSE own.files[f]
  BY <1>2, WithFilesLayer
<1>9. \A keys : SameKeys(keys, Edited(keys, <<>>))
  BY EditedByNone, SameKeysSymmetric
<1>10. SameKeys(layer.config.keys, Edited(own.config.keys, OwnEdits(ConfigFile))) /\ layer.config.form # "broken"
  BY <1>3, <1>4, <1>6, <1>7, <1>8, <1>9
<1>11. ASSUME NEW f \in DOMAIN layer.files
       PROVE  f \in DOMAIN files /\ SameKeys(layer.files[f].keys, Edited(files[f].keys, OwnEdits(f)))
  <2>1. CASE f \in DOMAIN new \ {ConfigFile}
    BY <1>3, <1>8, <2>1
  <2>2. CASE f \notin DOMAIN new \ {ConfigFile}
    <3>1. f \in DOMAIN own.files /\ f \notin DOMAIN new /\ layer.files[f] = files[f] /\ f \in DOMAIN files
      BY <1>5, <1>8, <2>2
    <3> QED  BY <1>7, <1>9, <3>1
  <2> QED  BY <2>1, <2>2
<1>12. DOMAIN layer.files = DOMAIN own.files \cup (DOMAIN command.project.edits \ {ConfigFile})
  BY <1>3, <1>8
<1> QED  BY <1>10, <1>11, <1>12 DEF dirs, own, files, layer

\* The validated copy, file by file.
LEMMA ValidatedKeys ==
  ASSUME StagingInv, candidate # NoCandidate
  PROVE LET dirs == candidate.read
            t == candidate.target
            validated == candidate.validated IN
        /\ DOMAIN validated = {ConfigFile} \cup DOMAIN FilesOf(dirs, t)
        /\ SameKeys(validated[ConfigFile].keys,
                    Edited(Edited(ConfigOf(dirs, t).keys, GlobalEdits(ConfigFile)), OwnEdits(ConfigFile)))
        /\ \A f \in DOMAIN FilesOf(dirs, t) :
             SameKeys(validated[f].keys, Edited(Edited(FilesOf(dirs, t)[f].keys, GlobalEdits(f)), OwnEdits(f)))
<1> DEFINE dirs == candidate.read
           t == candidate.target
           files == FilesOf(dirs, t)
           config == ConfigOf(dirs, t)
           copy == CopyOf(dirs, t)
           validated == candidate.validated
<1>1. /\ DOMAIN copy = {ConfigFile} \cup DOMAIN files
      /\ copy[ConfigFile] = config
      /\ \A f \in DOMAIN files \ {ConfigFile} : copy[f] = files[f]
  BY DEF CopyOf, Over, Single
<1>2. ConfigFile \notin DOMAIN files
  BY FilesListed
<1>3. /\ DOMAIN validated = DOMAIN copy
      /\ \A f \in DOMAIN copy :
           SameKeys(validated[f].keys, Edited(Edited(copy[f].keys, GlobalEdits(f)), OwnEdits(f)))
  BY ValidatedFiles
<1> HIDE DEF files, config, copy, validated
<1>4. SameKeys(validated[ConfigFile].keys, Edited(Edited(config.keys, GlobalEdits(ConfigFile)), OwnEdits(ConfigFile)))
  BY <1>1, <1>3
<1>5. \A f \in DOMAIN files : SameKeys(validated[f].keys, Edited(Edited(files[f].keys, GlobalEdits(f)), OwnEdits(f)))
  BY <1>1, <1>2, <1>3
<1> QED  BY <1>1, <1>3, <1>4, <1>5 DEF files, config, copy, validated

\* Edits of two plans leave what those of the second leave, but for keys of the first.
LEMMA EditedTwice ==
  ASSUME NEW keys, NEW first, NEW second, NEW a, NEW b,
         SameKeys(a, Edited(keys, second)), SameKeys(b, Edited(Edited(keys, first), second))
  PROVE  Alike(a, b, DOMAIN first \ DOMAIN second)
<1> DEFINE once == Edited(keys, first)
<1>1. /\ \A k : k \notin DOMAIN second => (k \in DOMAIN a <=> k \in DOMAIN keys) /\ (k \in DOMAIN a => a[k] = keys[k])
      /\ \A k \in DOMAIN second : (k \in DOMAIN a <=> second[k] # Removed) /\ (k \in DOMAIN a => a[k] = second[k])
  BY EditedAlike
<1>2. SameKeys(once, Edited(keys, first))
  BY SameKeysReflexive
<1> HIDE DEF once
<1>3. /\ \A k : k \notin DOMAIN second => (k \in DOMAIN b <=> k \in DOMAIN once) /\ (k \in DOMAIN b => b[k] = once[k])
      /\ \A k \in DOMAIN second : (k \in DOMAIN b <=> second[k] # Removed) /\ (k \in DOMAIN b => b[k] = second[k])
  BY EditedAlike DEF once
<1>4. \A k : k \notin DOMAIN first => (k \in DOMAIN once <=> k \in DOMAIN keys) /\ (k \in DOMAIN once => once[k] = keys[k])
  BY <1>2, EditedAlike
<1> QED  BY <1>1, <1>3, <1>4 DEF Alike

\* Beside no second plan the two are the same, and beside no first one.
LEMMA EditedOnce ==
  ASSUME NEW keys, NEW edits, NEW a, NEW b, SameKeys(a, Edited(keys, edits)),
         SameKeys(b, Edited(Edited(keys, <<>>), edits)) \/ SameKeys(b, Edited(Edited(keys, edits), <<>>))
  PROVE  SameKeys(b, Edited(keys, edits)) /\ Alike(a, b, {})
<1>1. SameKeys(b, Edited(keys, edits))
  <2>1. CASE SameKeys(b, Edited(Edited(keys, <<>>), edits))
    <3>1. SameKeys(Edited(keys, <<>>), keys)
      BY EditedByNone
    <3>2. SameKeys(Edited(Edited(keys, <<>>), edits), Edited(keys, edits))
      BY <3>1, EditedSame
    <3> QED  BY <2>1, <3>2, SameKeysTransitive
  <2>2. CASE SameKeys(b, Edited(Edited(keys, edits), <<>>))
    <3>1. SameKeys(Edited(Edited(keys, edits), <<>>), Edited(keys, edits))
      BY EditedByNone
    <3> QED  BY <2>2, <3>1, SameKeysTransitive
  <2> QED  BY <2>1, <2>2
<1>2. Alike(a, b, {})
  BY <1>1 DEF SameKeys, Alike
<1> QED  BY <1>1, <1>2

\* The configuration a session composes is the one that was validated.
LEMMA LiveConfigAgrees ==
  ASSUME StagingInv, candidate # NoCandidate, Publishable
  PROVE  Alike(LiveConfig.keys, candidate.validated[ConfigFile].keys, Shadowed(BeforeProject, ConfigFile))
<1> DEFINE dirs == candidate.read
           t == candidate.target
           global == GlobalOf(dirs)
           own == ProjectOf(dirs, t)
           gg == LiveGlobal.config.keys
           pp == LiveProject.config.keys
           doc == [keys |-> gg, form |-> "plain"]
           valid == candidate.validated[ConfigFile].keys
           ge == GlobalEdits(ConfigFile)
           pe == OwnEdits(ConfigFile)
           merged == Redact(Merge(global.config.keys, own.config.keys))
<1>1. t \in Roots /\ ConfigOf(dirs, t) # Refused /\ IsCommand(command)
  BY CandidateCopies
<1>2. /\ global.config.form # "broken" /\ own.config.form # "broken"
      /\ ~GroupsRefused(global.config) /\ ~GroupsRefused(own.config)
      /\ ConfigOf(dirs, t).keys = merged
  <2> DEFINE gc == global.config
             oc == own.config
             e == Effective(gc, oc, TRUE)
  <2>1. e # Refused /\ ConfigOf(dirs, t) = e
    BY <1>1 DEF ConfigOf
  <2> HIDE DEF gc, oc
  <2>2. gc.form # "broken" /\ oc.form # "broken" /\ ~GroupsRefused(gc) /\ ~GroupsRefused(oc)
    BY <2>1, EffectiveOfBoth
  <2>3. e.keys = Redact(Merge(gc.keys, oc.keys))
    BY <2>2, EffectiveOfBoth
  <2> HIDE DEF e
  <2> QED  BY <2>1, <2>2, <2>3 DEF gc, oc
<1>3. SameKeys(valid, Edited(Edited(merged, ge), pe))
  BY <1>2, ValidatedKeys
<1>4. /\ DOMAIN pe \cap Untouched = {} /\ DOMAIN ge \cap Untouched = {}
      /\ t = "project" => \A k \in DOMAIN pe : pe[k] # Removed
  BY PlansUntouched
<1>5. SameKeys(gg, Edited(global.config.keys, RootEdits(ConfigFile)))
  BY GlobalWillBe
<1>6. doc.keys = gg /\ doc.form = "plain"
  OBVIOUS
<1>7. LiveConfig = Effective(doc, LiveProject.config, TRUE)
  BY DEF LiveConfig
<1> HIDE DEF doc
<1>8. RootEdits(ConfigFile) = IF t = "global" THEN pe ELSE ge
  BY DEF RootEdits
<1>9. ~GroupsRefused(doc)
  <2>1. DOMAIN RootEdits(ConfigFile) \cap Untouched = {}
    BY <1>4, <1>8
  <2>2. SameKeys(doc.keys, Edited(global.config.keys, RootEdits(ConfigFile)))
    BY <1>5, <1>6
  <2> HIDE DEF global
  <2> QED  BY <1>2, <2>1, <2>2, GroupsStay
<1>10. ASSUME LiveProject.config.form # "broken", ~GroupsRefused(LiveProject.config)
       PROVE  LiveConfig.keys = Redact(Merge(gg, pp))
  <2> DEFINE lc == LiveProject.config
  <2>1. LiveConfig = Effective(doc, lc, TRUE) /\ lc.form # "broken" /\ ~GroupsRefused(lc) /\ lc.keys = pp
    BY <1>7, <1>10
  <2> HIDE DEF gg, lc
  <2>2. Effective(doc, lc, TRUE).keys = Redact(Merge(doc.keys, lc.keys))
    BY <1>6, <1>9, <2>1, EffectiveOfBoth
  <2> QED  BY <1>6, <2>1, <2>2
<1> HIDE DEF gg, valid, ge, pe, merged
<1>11. CASE t = "global"
  <2>1. LiveProject = NoLayer /\ own = NoLayer
    BY <1>11 DEF LiveProject, ProjectOf
  <2>2. DOMAIN own.config.keys = {}
    <3>1. NoLayer.config.keys = <<>> /\ DOMAIN <<>> = {}
      BY DEF NoLayer
    <3> QED  BY <2>1, <3>1
  <2>3. LiveConfig.keys = Redact(Merge(gg, pp)) /\ pp = own.config.keys
    BY <1>2, <1>10, <2>1
  <2>4. ge = <<>> /\ DOMAIN <<>> = {}
    BY <1>11 DEF ge, GlobalEdits
  <2>5. SameKeys(valid, Edited(merged, pe))
    BY <1>3, <2>4, EditedOnce, SameKeysReflexive
  <2>6. SameKeys(Edited(merged, pe), Edited(Edited(merged, pe), <<>>))
    BY EditedByNone, SameKeysSymmetric
  <2>7. SameKeys(valid, Edited(Edited(merged, pe), <<>>))
    BY <2>5, <2>6, SameKeysTransitive
  <2>8. SameKeys(pp, Edited(own.config.keys, <<>>))
    BY <2>3, EditedByNone, SameKeysSymmetric
  <2>9. SameKeys(gg, Edited(global.config.keys, pe))
    BY <1>5, <1>8, <1>11 DEF gg
  <2>10. DOMAIN <<>> \cap Untouched = {} /\ \A k \in DOMAIN <<>> : <<>>[k] # Removed
    BY <2>4
  <2>11. Alike(Redact(Merge(gg, pp)), valid, (DOMAIN own.config.keys \cap DOMAIN pe) \ DOMAIN <<>>)
    <3> HIDE DEF own, global, pp
    <3> QED  BY <1>4, <2>7, <2>8, <2>9, <2>10, ConfigurationsAgree DEF merged
  <2>12. Shadowed(BeforeProject, ConfigFile) = {}
    BY <1>11 DEF Shadowed
  <2> QED  BY <2>2, <2>3, <2>11, <2>12 DEF Alike, valid
<1>12. CASE t = "project"
  <2>1. /\ SameKeys(pp, Edited(own.config.keys, pe)) /\ LiveProject.config.form # "broken"
    BY <1>12, ProjectWillBe DEF pe
  <2>2. ~GroupsRefused(LiveProject.config)
    <3> HIDE DEF own
    <3> QED  BY <1>2, <1>4, <2>1, GroupsStay
  <2>3. LiveConfig.keys = Redact(Merge(gg, pp))
    BY <1>10, <2>1, <2>2
  <2>4. SameKeys(gg, Edited(global.config.keys, ge))
    BY <1>5, <1>8, <1>12 DEF gg
  <2>5. \A k \in DOMAIN pe : pe[k] # Removed
    BY <1>4, <1>12
  <2>6. Alike(Redact(Merge(gg, pp)), valid, (DOMAIN own.config.keys \cap DOMAIN ge) \ DOMAIN pe)
    <3> HIDE DEF own, global, pp
    <3> QED  BY <1>3, <1>4, <2>1, <2>4, <2>5, ConfigurationsAgree DEF merged
  <2>7. (DOMAIN own.config.keys \cap DOMAIN ge) \ DOMAIN pe = Shadowed(BeforeProject, ConfigFile)
    <3>1. BeforeProject = own
      BY <1>12 DEF BeforeProject, ProjectOf
    <3>2. DOMAIN <<>> = {}
      OBVIOUS
    <3>3. DOMAIN pe = EditsOf(command.project, ConfigFile)
      BY <1>12, <3>2 DEF pe, OwnEdits, EditsFor, EditsOf
    <3>4. CASE command.global = Absent
      <4>1. Shadowed(BeforeProject, ConfigFile) = {}
        BY <3>4 DEF Shadowed
      <4>2. DOMAIN ge = {}
        BY <3>2, <3>4 DEF ge, GlobalEdits
      <4> QED  BY <4>1, <4>2
    <3>5. CASE command.global # Absent
      <4>1. DOMAIN ge = EditsOf(command.global, ConfigFile)
        BY <1>12, <3>2, <3>5 DEF ge, GlobalEdits, EditsFor, EditsOf
      <4>2. Shadowed(BeforeProject, ConfigFile)
              = (EditsOf(command.global, ConfigFile) \ EditsOf(command.project, ConfigFile)) \cap DOMAIN own.config.keys
        BY <1>12, <3>1, <3>5 DEF Shadowed
      <4> HIDE DEF own
      <4> QED  BY <3>3, <4>1, <4>2
    <3> QED  BY <3>4, <3>5
  <2> QED  BY <2>3, <2>6, <2>7 DEF valid
<1> QED  BY <1>1, <1>11, <1>12 DEF Roots

\* The definitions a session reads are those that were validated.
LEMMA LiveFilesAgree ==
  ASSUME StagingInv, candidate # NoCandidate, Publishable
  PROVE LET files == FilesOf(candidate.read, candidate.target) IN
        /\ DOMAIN LiveFiles = DOMAIN files
        /\ \A f \in DOMAIN files :
             Alike(LiveFiles[f].keys, candidate.validated[f].keys, Shadowed(BeforeProject, f))
<1> DEFINE dirs == candidate.read
           t == candidate.target
           global == GlobalOf(dirs)
           own == ProjectOf(dirs, t)
           files == FilesOf(dirs, t)
           validated == candidate.validated
<1>1. t \in Roots /\ IsCommand(command)
  BY CandidateCopies
<1>2. /\ DOMAIN files = DOMAIN global.files \cup DOMAIN own.files
      /\ \A f \in DOMAIN files : files[f] = IF f \in DOMAIN own.files THEN own.files[f] ELSE global.files[f]
      /\ ConfigFile \notin DOMAIN files
      /\ t = "global" => DOMAIN own.files = {}
  BY FilesListed
<1>3. \A f \in DOMAIN files : SameKeys(validated[f].keys, Edited(Edited(files[f].keys, GlobalEdits(f)), OwnEdits(f)))
  BY ValidatedKeys
<1>4. /\ DOMAIN LiveGlobal.files = DOMAIN global.files
      /\ \A f \in DOMAIN global.files : SameKeys(LiveGlobal.files[f].keys, Edited(global.files[f].keys, RootEdits(f)))
  BY GlobalWillBe
<1>5. /\ DOMAIN LiveFiles = DOMAIN LiveProject.files \cup DOMAIN LiveGlobal.files
      /\ \A f \in DOMAIN LiveFiles :
           LiveFiles[f] = IF f \in DOMAIN LiveProject.files THEN LiveProject.files[f] ELSE LiveGlobal.files[f]
  BY DEF LiveFiles, MergeFiles, Over
<1>6. DOMAIN <<>> = {}
  OBVIOUS
<1> HIDE DEF global, own, files, validated
<1>7. CASE t = "global"
  <2>1. DOMAIN LiveProject.files = {}
    <3>1. LiveProject.files = <<>>
      BY <1>7 DEF LiveProject, NoLayer
    <3> QED  BY <1>6, <3>1
  <2>2. DOMAIN LiveFiles = DOMAIN files
    BY <1>2, <1>4, <1>5, <1>7, <2>1
  <2>3. ASSUME NEW f \in DOMAIN files
        PROVE  Alike(LiveFiles[f].keys, validated[f].keys, Shadowed(BeforeProject, f))
    <3>1. LiveFiles[f] = LiveGlobal.files[f] /\ files[f] = global.files[f] /\ f \in DOMAIN global.files
      BY <1>2, <1>5, <1>7, <2>1, <2>2
    <3>2. GlobalEdits(f) = <<>> /\ RootEdits(f) = OwnEdits(f) /\ Shadowed(BeforeProject, f) = {}
      BY <1>7 DEF GlobalEdits, RootEdits, Shadowed
    <3>3. SameKeys(LiveFiles[f].keys, Edited(files[f].keys, OwnEdits(f)))
      BY <1>4, <3>1, <3>2
    <3>4. SameKeys(validated[f].keys, Edited(Edited(files[f].keys, <<>>), OwnEdits(f)))
      BY <1>3, <3>2
    <3> QED  BY <3>2, <3>3, <3>4, EditedOnce
  <2> QED  BY <2>2, <2>3 DEF files, validated
<1>8. CASE t = "project"
  <2>1. /\ DOMAIN LiveProject.files = DOMAIN own.files \cup (DOMAIN command.project.edits \ {ConfigFile})
        /\ \A f \in DOMAIN LiveProject.files :
             f \in DOMAIN files /\ SameKeys(LiveProject.files[f].keys, Edited(files[f].keys, OwnEdits(f)))
    BY <1>8, ProjectWillBe DEF own, files
  <2>2. DOMAIN LiveFiles = DOMAIN files
    BY <1>2, <1>4, <1>5, <2>1
  <2>3. BeforeProject = own
    BY <1>8 DEF BeforeProject, own, ProjectOf
  <2>4. \A f : OwnEdits(f) = EditsFor(command.project, f) /\ RootEdits(f) = GlobalEdits(f)
    BY <1>8 DEF OwnEdits, RootEdits
  <2>5. \A f : DOMAIN OwnEdits(f) = EditsOf(command.project, f)
    BY <1>6, <2>4 DEF EditsFor, EditsOf
  <2>6. ASSUME NEW f
        PROVE  DOMAIN GlobalEdits(f) = IF command.global = Absent THEN {} ELSE EditsOf(command.global, f)
    BY <1>6, <1>8 DEF GlobalEdits, EditsFor, EditsOf
  <2>7. ASSUME NEW f \in DOMAIN LiveProject.files
        PROVE  Alike(LiveFiles[f].keys, validated[f].keys, Shadowed(BeforeProject, f))
    <3>1. f \in DOMAIN files /\ LiveFiles[f] = LiveProject.files[f] /\ f # ConfigFile
      BY <1>2, <1>5, <2>1
    <3>2. SameKeys(LiveFiles[f].keys, Edited(files[f].keys, OwnEdits(f)))
      BY <2>1, <3>1
    <3>3. SameKeys(validated[f].keys, Edited(Edited(files[f].keys, GlobalEdits(f)), OwnEdits(f)))
      BY <1>3, <3>1
    <3>4. Alike(LiveFiles[f].keys, validated[f].keys, DOMAIN GlobalEdits(f) \ DOMAIN OwnEdits(f))
      BY <3>2, <3>3, EditedTwice
    <3>5. DOMAIN GlobalEdits(f) \ DOMAIN OwnEdits(f) = Shadowed(BeforeProject, f)
      <4>1. CASE command.global = Absent
        <5>1. Shadowed(BeforeProject, f) = {}
          BY <4>1 DEF Shadowed
        <5> QED  BY <2>6, <4>1, <5>1
      <4>2. CASE command.global # Absent /\ f \in DOMAIN own.files
        <5>1. Shadowed(BeforeProject, f) = EditsOf(command.global, f) \ EditsOf(command.project, f)
          BY <1>8, <2>3, <3>1, <4>2 DEF Shadowed
        <5> QED  BY <2>5, <2>6, <4>2, <5>1
      <4>3. CASE command.global # Absent /\ f \notin DOMAIN own.files
        <5>1. Shadowed(BeforeProject, f) = {}
          BY <2>3, <3>1, <4>3 DEF Shadowed
        <5>2. f \in DOMAIN command.project.edits \ {ConfigFile}
          BY <2>1, <4>3
        <5>3. EditsOf(command.global, f) \subseteq EditsOf(command.project, f)
          BY <1>1, <4>3, <5>2 DEF IsCommand, EditsOf
        <5> QED  BY <2>5, <2>6, <4>3, <5>1, <5>3
      <4> QED  BY <4>1, <4>2, <4>3
    <3> QED  BY <3>4, <3>5
  <2>8. ASSUME NEW f \in DOMAIN files, f \notin DOMAIN LiveProject.files
        PROVE  Alike(LiveFiles[f].keys, validated[f].keys, Shadowed(BeforeProject, f))
    <3>1. /\ f \notin DOMAIN own.files /\ f \in DOMAIN global.files /\ f # ConfigFile
          /\ LiveFiles[f] = LiveGlobal.files[f] /\ files[f] = global.files[f]
      BY <1>2, <1>5, <2>1, <2>2, <2>8
    <3>2. OwnEdits(f) = <<>>
      BY <2>1, <2>4, <2>8, <3>1 DEF EditsFor
    <3>3. Shadowed(BeforeProject, f) = {}
      BY <2>3, <3>1 DEF Shadowed
    <3>4. SameKeys(LiveFiles[f].keys, Edited(files[f].keys, GlobalEdits(f)))
      BY <1>4, <2>4, <3>1
    <3>5. SameKeys(validated[f].keys, Edited(Edited(files[f].keys, GlobalEdits(f)), <<>>))
      BY <1>3, <3>2
    <3> DEFINE keys == files[f].keys
               edits == GlobalEdits(f)
               a == LiveFiles[f].keys
               b == validated[f].keys
    <3> HIDE DEF keys, edits, a, b
    <3>6. Alike(a, b, {})
      <4>1. SameKeys(a, Edited(keys, edits)) /\ SameKeys(b, Edited(Edited(keys, edits), <<>>))
        BY <3>4, <3>5 DEF keys, edits, a, b
      <4> QED  BY <4>1, EditedOnce
    <3> QED  BY <3>3, <3>6 DEF a, b
  <2> QED  BY <2>2, <2>7, <2>8 DEF files, validated
<1> QED  BY <1>1, <1>7, <1>8 DEF Roots

\* What is validated is what a session reads once both roots have their files.
LEMMA ValidatedWillBeLive ==
  ASSUME StagingInv, candidate # NoCandidate, Publishable
  PROVE  WillBeLive
<1> DEFINE files == FilesOf(candidate.read, candidate.target)
           validated == candidate.validated
           read == Over(Single(ConfigFile, LiveConfig), LiveFiles)
           open(f, keys) == Restrict(keys, DOMAIN keys \ Shadowed(BeforeProject, f))
<1>1. /\ DOMAIN LiveFiles = DOMAIN files
      /\ \A f \in DOMAIN files : Alike(LiveFiles[f].keys, validated[f].keys, Shadowed(BeforeProject, f))
  BY LiveFilesAgree
<1>2. Alike(LiveConfig.keys, validated[ConfigFile].keys, Shadowed(BeforeProject, ConfigFile))
  BY LiveConfigAgrees
<1>3. DOMAIN validated = {ConfigFile} \cup DOMAIN files
  BY ValidatedKeys
<1>4. ConfigFile \notin DOMAIN files
  BY FilesListed
<1> HIDE DEF files, validated
<1>5. /\ DOMAIN read = {ConfigFile} \cup DOMAIN LiveFiles
      /\ read[ConfigFile] = LiveConfig
      /\ \A f \in DOMAIN LiveFiles \ {ConfigFile} : read[f] = LiveFiles[f]
  BY DEF Over, Single
<1> HIDE DEF read
<1>6. DOMAIN read = DOMAIN validated
  BY <1>1, <1>3, <1>5
<1>7. ASSUME NEW f \in DOMAIN read
      PROVE  open(f, read[f].keys) = open(f, validated[f].keys)
  <2>1. Alike(read[f].keys, validated[f].keys, Shadowed(BeforeProject, f))
    <3>1. CASE f = ConfigFile
      BY <1>2, <1>5, <3>1
    <3>2. CASE f # ConfigFile
      BY <1>1, <1>5, <3>2
    <3> QED  BY <3>1, <3>2
  <2> QED  BY <2>1, AlikeRestricted
<1> HIDE DEF open
<1> QED  BY <1>6, <1>7, Zenon DEF WillBeLive, read, open, validated, LiveConfig, LiveFiles, LiveGlobal, LiveProject, BeforeProject

\* What holds between the steps of a command, from its first to its last.
THEOREM StagingInvariant == StagingSpec => []StagingInv
<1>1. StagingInit => StagingInv
  BY DEF StagingInit, StagingInv, PlanInv, CandidateInv, HeldInv
<1>2. StagingInv /\ [StagingNext]_gvars => StagingInv'
  BY StagingStep
<1> QED  BY <1>1, <1>2, PTL DEF StagingSpec

\* The copy that is published is the one that was validated (stage, buildPublishDir): a
\* session that reads both roots afterwards finds it, what is published is what the
\* operator wrote but for the keys of the plan, and a gate pass overwrites no edit
\* that was made while the roots were validated and is still there.
THEOREM PublishedAsValidatedHolds == StagingSpec => PublishedAsValidated
<1>1. StagingInv => (Publishable => WillBeLive)
  <2>1. Publishable => candidate # NoCandidate
    BY DEF Publishable
  <2> QED  BY <2>1, ValidatedWillBeLive
<1>2. StagingInv => (candidate # NoCandidate => OnlyPlanPublished)
  BY OnlyPlanIsPublished
<1>3. StagingInv /\ [StagingNext]_gvars
        => [candidate # NoCandidate /\ candidate' = NoCandidate => (Gate => OverwritesNoEdit)]_gvars
  BY NoEditOverwritten
<1> QED  BY <1>1, <1>2, <1>3, StagingInvariant, PTL DEF StagingSpec, PublishedAsValidated
=============================================================================
