---------------------------- MODULE MCDecisions ----------------------------
(***************************************************************************)
(* The parts that decide without talking to anybody: the histories, the    *)
(* ranking and the plan, the answers of the providers, the policy file, the *)
(* copies that are staged and the selection of a model.                    *)
(* A behaviour is about one of them, its focus; the others stay as they    *)
(* are.                                                                    *)
(***************************************************************************)
EXTENDS History, QuotaSources, PolicyFile, Staging, ModelSelection

VARIABLE focus
vars == <<focus, hvars, rvars, qvars, pvars, gvars, svars>>

-----------------------------------------------------------------------------
(* Reconcile records. *)
Reached(id, p, ch, e) == [id |-> id, pending |-> p, chains |-> ch, edits |-> e]
Changes ==
  { [providers |-> 1, ranks |-> 3, targets |-> <<Reached(1, FALSE, <<3, 1>>, 1)>>],
    [providers |-> 1, ranks |-> 1, targets |-> <<Reached(1, TRUE, <<>>, 3), Reached(2, FALSE, <<1, 1, 2>>, 0)>>],
    [providers |-> 3, ranks |-> 1, targets |-> <<Reached(1, FALSE, <<>>, 1), Reached(2, TRUE, <<1>>, 1), Reached(4,FALSE,<<>>, 1)>>],
    [providers |-> 1, ranks |-> 1, targets |-> <<Reached(3, FALSE, <<1>>, 1), Reached(4, FALSE, <<2>>, 1)>>] }

-----------------------------------------------------------------------------
(* Routing: a window of quota, what a poll finds, and four policies. *)
W(limit, used, percent, reset, period) == [limit |-> limit, used |-> used, percent |-> percent, reset |-> reset, period |-> period]
Sight(st, av, ws) == [status |-> st, avail |-> av, windows |-> ws, age |-> 0]
Plenty   == Sight("fresh", "available", <<W(None, None, 20, 8, 28)>>)
Balanced == Sight("fresh", "available", <<W(50, 25, None, 14, 28), W(None, None, 50, 1, 1)>>)
Overdrawn == Sight("fresh", "available", <<W(None, None, 90, 24, 28)>>)
OnPace   == Sight("fresh", "available", <<W(100, 16, None, 23, 28)>>)
NoReset  == Sight("fresh", "available", <<W(None, None, 50, None, 28)>>)
Partial  == Sight("partial", "available", <<W(None, None, 20, 8, 28)>>)
UsedUp   == Sight("fresh", "available", <<W(10, 11, None, 8, 28)>>)
Blocked  == Sight("fresh", "unavailable", <<>>)
MCFindings == {<<a, b, c>> : a \in {Plenty, OnPace, Overdrawn}, b \in {Plenty, NoReset, UsedUp, None}, c \in {Balanced, Overdrawn, Partial}}
A(m, q, a) == [manual |-> m, quota |-> q, avail |-> a]
MCAxes == { A(TRUE, "normal", "available"), A(FALSE, "low", "available"), A(FALSE, "exhausted", "available"), A(FALSE, "corrupt", "") }
Pr(polled, group, weight, peaks, exempt) ==
  [polled |-> polled, group |-> group, weight |-> weight, peaks |-> peaks, ttl |-> 1, exempt |-> exempt, gate |-> TRUE, threshold |-> 0]
Mornings == {[days |-> 0..6, start |-> 1, end |-> 2]}
Weekend == {[days |-> 0..2, start |-> 0, end |-> 1], [days |-> 3..6, start |-> 0, end |-> Day]}
Mo(o, e) == [owner |-> o, enabled |-> e]
Desired(routing, group, polled3, global, groups) ==
  [routing |-> routing,
   providers |-> <<Pr(TRUE, "default", 2, None, FALSE), Pr(TRUE, group, 1, Mornings, TRUE), [Pr(polled3, "default", 0, Weekend, FALSE) EXCEPT !.ttl = 0]>>,
   models |-> <<Mo(1, TRUE), Mo(1, FALSE), Mo(2, TRUE), Mo(3, TRUE)>>,
   target |-> [global |-> global, groups |-> groups, definitions |-> {2},
                 chains |-> <<<<1, 3, 4>>, <<2, 4, 3, 1>>>>]]
\* Nothing is polled, and nothing is to be ranked.
Quiet == [Desired(FALSE, "default", FALSE, FALSE, FALSE) EXCEPT
  !.providers = [p \in 1..3 |-> [@[p] EXCEPT !.polled = FALSE]], !.target.chains = <<>>]
MCDesireds ==
  { Quiet, Desired(TRUE, "default", TRUE, TRUE, FALSE), Desired(TRUE, "other", TRUE, TRUE, TRUE), Desired(FALSE, "default", FALSE, TRUE, FALSE), Desired(TRUE, "default", FALSE, FALSE, FALSE)}

-----------------------------------------------------------------------------
(* Answers: of one provider by each adapter, beside a codex that answers or does *)
(* not and one whose adapter is unknown.                                         *)
Pw(percent, reset) == [percent |-> percent, reset |-> reset, period |-> Week]
Limit(limit, used, left) == [limit |-> limit, used |-> used, left |-> left, reset |-> 20]
Rate(p, s, i) == [primary |-> p, secondary |-> s, individual |-> i]
Usage(rate, individual, additional, credits) == [rate |-> rate, individual |-> individual, additional |-> additional, credits |-> credits]
Some30 == Usage(Rate(Pw(30, 20), Pw(10, None), None), None, <<>>, None)
Tk(type, period, usage, current, remaining, percent) ==
  [type |-> type, period |-> period, usage |-> usage, current |-> current, remaining |-> remaining, percent |-> percent, reset |-> 20]
Of(limits) == [success |-> TRUE, limits |-> limits]
Key(b, l, rest, used) == [blocked |-> b, limit |-> l, left |-> rest, used |-> used]
Subs(over, numbers, included, rest, used, reset, start) ==
  [over |-> over, numbers |-> numbers, included |-> included, left |-> rest, used |-> used, reset |-> reset, start |-> start]
Nw(allowance, sub, balance) == [at |-> 0, allowance |-> allowance, subscription |-> sub, balance |-> balance]
Bal(rest, total, used) == [left |-> rest, total |-> total, used |-> used]
Usual == Subs(FALSE, TRUE, 20, 10, 10, None, 0)
Rs(percent, reset) == [percent |-> percent, reset |-> reset]
Go(r, w, m) == [rolling |-> r, weekly |-> w, monthly |-> m]
Cost(amounts, more) == [amounts |-> amounts, more |-> more]
MCReplies ==
  [codex |-> {Some30, Usage(Rate(Pw(30, 20), Bad, None), Bad, <<>>, None), Usage(Rate(Pw(100, 20), Bad, None), None, <<>>, None), Usage(Bad, Limit(10, 10, None), <<>>, Bad), Usage(Rate(None, None, None), None, <<Bad, Pw(100, None)>>, None),
             Usage(Rate(None, None, Limit(None, None, 0)), None, <<>>, None), Usage(Rate(Pw(None, 20), None, None), None, <<>>, None), Usage(Rate(None, None, None), None, <<>>, None)},
   zai |-> {Of(<<Tk("tokens", 28, 10, 5, None, 50), Tk("tokens", 1, None, None, None, 20)>>), Of(<<Bad, Tk("time", 0, 10, None, 0, 90)>>), Of(<<Tk("other", 4, None, None, None, 100), Tk("tokens", 4, None, None, None, 99)>>),
            Of(<<Tk("tokens", 28, 10, None, 5, 50), Tk("tokens", 4, None, None, None, 100)>>), Of(<<>>), [success |-> FALSE, limits |-> <<>>]},
   neuralwatt |-> {Nw(None, Usual, None), Nw(Key(TRUE, None, None, None), Usual, None), Nw(Key(FALSE, 10, 4, 6), None, None), Nw(Key(FALSE, 10, 4, 5), Usual, None), Nw(Key(None, 10, 4, 6), Usual, None), Nw(Key(FALSE, 10, 0, None), None, None),
            Nw(None, [Usual EXCEPT !.over = TRUE], Bal(5, 10, None)), Nw(None, [Usual EXCEPT !.over = TRUE, !.numbers = FALSE], None), Nw(None, Subs(TRUE, TRUE, 20, 0, 22, Bad, None), None), Nw(None, [Usual EXCEPT !.over = None], Bal(5, 10, None)),
            Nw(None, Subs(FALSE, TRUE, 20, 0, None, 20, None), None), Nw(None, Subs(FALSE, TRUE, 20, 10, 10, None, None), None), Nw(None, Subs(FALSE, FALSE, 20, 10, 10, None, None), None),
            Nw(None, None, Bal(0, None, None)), Nw(None, None, Bal(4, 10, 6)), Nw(None, None, Bal(12, 10, None)), Nw(None, None, None), [Nw(None, Usual, None) EXCEPT !.at = Bad], [Nw(None, Usual, None) EXCEPT !.at = 15]},
   opencode |-> {Go(Rs(10, 1), Rs(20, 20), Rs(30, None)), Go(Rs(10, 1), Rs(20, 20), Rs(30, 40)), Go(Rs(10, 1), Bad, Rs(120, 40)), Go(None, None, Rs(-5, 40)), Go(Bad, None, None)},
   anthropic |-> {[pages |-> ps] : ps \in {<<Cost(<<3, 4>>, FALSE)>>, <<Cost(<<3>>, TRUE), Cost(<<Bad, 9>>, FALSE)>>, <<Cost(<<>>, FALSE)>>, <<Cost(<<12>>, TRUE), Bad>>, <<Cost(<<12>>, TRUE), Cost(<<1>>, TRUE), Cost(<<1>>, FALSE)>>, <<Bad>>}},
   subscription |-> {[five |-> Rs(10, 1), seven |-> Rs(50, 20)], [five |-> Rs(130, 1), seven |-> None], [five |-> Bad, seven |-> Rs(99, None)], [five |-> Bad, seven |-> None]}]
Src(adapter, budget) == [adapter |-> adapter, budget |-> budget]
Beside(s) == <<s, Src("codex", None), Src("other", None)>>
Exchange(replies) == {<<r>> : r \in replies \cup {NoAnswer}} \cup {<<r, other, Some30>> : r \in replies, other \in {Some30, NoAnswer}}
MCExchanges ==
  Beside(Src("codex", None)) :> Exchange(MCReplies.codex) @@ Beside(Src("zai", None)) :> Exchange(MCReplies.zai)
  @@ Beside(Src("neuralwatt", None)) :> Exchange(MCReplies.neuralwatt) @@ Beside(Src("opencode-go", None)) :> Exchange(MCReplies.opencode)
  @@ Beside(Src("anthropic", 10)) :> Exchange(MCReplies.anthropic) @@ Beside(Src("anthropic", None)) :> {<<[pages |-> <<Cost(<<3>>, FALSE)>>]>>}
  @@ Beside(Src("anthropic-subscription", None)) :> Exchange(MCReplies.subscription)
OneSource == Beside(Src("codex", None))
Ranked == Desired(TRUE, "default", TRUE, TRUE, FALSE)

-----------------------------------------------------------------------------
(* Policies: two that are well, and what may be wrong with them. *)
R(b, f) == [base |-> b, form |-> f]
C(full, class) == [f \in Fields |-> IF f = "full" THEN full ELSE IF f = "classifier" THEN class ELSE <<>>]
Def(c) == [path |-> "facets/a.md", chain |-> c]
Tg(id, root, chains, defs) == [id |-> id, root |-> root, chains |-> chains, definitions |-> defs]
Md(n, e) == [name |-> n, enabled |-> e]
Mp(ms, q, k) == [models |-> ms, quota |-> q, keep |-> k]
Gl(on, th) == [enabled |-> on, threshold |-> th]
MCNamedUnder == [m1 |-> {"codex"}, m2 |-> {"codex"}, n1 |-> {"anthropic"}, x1 |-> {}, star |-> {"codex"}]
Proj == Tg("p", "/p", C(<<>>, <<>>), <<>>)
Legacy == [version |-> 1, mode |-> None, operational |-> None, routing |-> None, selection |-> None,
  providers |-> "codex" :> Mp(<<Md("m1", None), Md("m2", FALSE)>>, None, TRUE) @@ "anthropic" :> Mp(<<Md("n1", TRUE)>>, None, FALSE),
  global |-> Tg("global", "/g", C(<<R("m1", "suffix"), R("n1", "plain")>>, <<R("m2", "plain")>>), <<Def(<<R("n1", "plain"), R("m1", "plain")>>)>>),
  projects |-> <<Proj>>]
Enrolled == [version |-> 1, mode |-> "provider-only", operational |-> [duration |-> 5, backups |-> 3, actions |-> <<[absolute |-> TRUE, timeout |-> 20]>>], routing |-> None, selection |-> None,
  providers |-> "codex" :> Mp(<<>>, [NoQuota EXCEPT !.adapter = "codex", !.gate = Gl(FALSE, None), !.peaks = {[days |-> {0}, start |-> 1, end |-> 2]}], TRUE)
             @@ "anthropic" :> Mp(<<>>, [NoQuota EXCEPT !.adapter = "anthropic", !.mode = "subscription", !.exempt = FALSE], FALSE),
  global |-> Tg("global", "/g", C(<<>>, <<>>), <<>>), projects |-> <<Proj>>]
Budget(q) == [Legacy EXCEPT !.providers["anthropic"].quota = q]
MCDocuments ==
  { Legacy, Enrolled,
    [Legacy EXCEPT !.version = 2], [Legacy EXCEPT !.mode = "other"], [Legacy EXCEPT !.mode = "provider-only"], [Enrolled EXCEPT !.mode = "legacy"],
    [Legacy EXCEPT !.providers["codex"].models = <<>>], [Legacy EXCEPT !.providers["codex"].models[2].name = "m1"],
    [Legacy EXCEPT !.providers["codex"].models[2].name = "n1"], [Legacy EXCEPT !.providers["codex"].models[2].name = "star"],
    [Legacy EXCEPT !.global.chains["full"][2].form = "broken"], [Legacy EXCEPT !.global.definitions[1].chain[1].base = "x1"],
    [Legacy EXCEPT !.projects[1].chains["mini"] = <<R("x1", "plain")>>], [Legacy EXCEPT !.projects[1].root = "/gone"], [Legacy EXCEPT !.projects = <<Proj, Proj>>],
    [Legacy EXCEPT !.selection = [enabled |-> TRUE, pin |-> "other", timeout |-> None]], [Legacy EXCEPT !.selection = [enabled |-> None, pin |-> "malformed", timeout |-> None]],
    [Legacy EXCEPT !.operational = [duration |-> 7, backups |-> None, actions |-> <<[absolute |-> TRUE, timeout |-> None]>>]],
    [Legacy EXCEPT !.operational = [duration |-> None, backups |-> None, actions |-> <<[absolute |-> FALSE, timeout |-> 5]>>]],
    [Enrolled EXCEPT !.operational.actions = <<[absolute |-> TRUE, timeout |-> 20], [absolute |-> TRUE, timeout |-> 60]>>],
    Budget([NoQuota EXCEPT !.budget = 5]), Budget([NoQuota EXCEPT !.weight = 0]), Budget([NoQuota EXCEPT !.mode = "subscription"]), Budget([NoQuota EXCEPT !.gate = Gl(None, None)]),
    Budget(NoQuota), [Legacy EXCEPT !.global = None, !.routing = FALSE],
    [Enrolled EXCEPT !.routing = TRUE], [Enrolled EXCEPT !.global.chains["nano"] = <<R("m1", "plain")>>], [Enrolled EXCEPT !.global = None],
    [Enrolled EXCEPT !.projects = <<Proj, Proj>>], [Enrolled EXCEPT !.providers["codex"].quota.adapter = None], [Enrolled EXCEPT !.providers["codex"].quota.gate = Gl(TRUE, 1)],
    [Enrolled EXCEPT !.providers["codex"].quota.gate = Gl(TRUE, -1)], [Enrolled EXCEPT !.providers["anthropic"].quota.adapter = "unknown"], [Enrolled EXCEPT !.providers["anthropic"].quota.mode = "api"],
    [Enrolled EXCEPT !.providers["anthropic"].quota.budget = 1]}
Source(chains, defs) == [chains |-> chains, definitions |-> defs]
MCLive == [providers |-> {"codex", "anthropic"}, models |-> [m1 |-> None, m2 |-> FALSE, n1 |-> TRUE], root |-> "/g",
  global |-> Source(C(<<R("m1", "suffix")>>, <<R("x1", "plain")>>), <<Def(<<R("m2", "plain"), R("x1", "plain")>>), [path |-> "facets/b.md", chain |-> <<R("x1", "plain")>>]>>),
  projects |-> "/p" :> Source(C(<<R("n1", "plain")>>, <<>>), <<>>)]
MCLives == { MCLive, [MCLive EXCEPT !.global.chains["mini"] = <<R("m1", "broken")>>], [MCLive EXCEPT !.providers = {"codex"}], [MCLive EXCEPT !.providers = {}], [MCLive EXCEPT !.models = [m1 |-> None]], [MCLive EXCEPT !.models = [star |-> None, m1|-> None, n1 |-> None]] }

-----------------------------------------------------------------------------
(* Selection: what is known of two providers, policies, and invocations. *)
MCFamily == [m1 |-> "a", m2 |-> "a", n1 |-> "b", x1 |-> "b"]
Seen(at, st, av, left, corrupt) == [at |-> at, status |-> st, avail |-> av, left |-> left, corrupt |-> corrupt]
Pv(manual, quota, avail, attempted, snap) == [manual |-> manual, quota |-> quota, avail |-> avail, attempted |-> attempted, snap |-> snap]
Healthy(snap) == Pv(FALSE, "", "", TRUE, snap)
MCSightings == { Healthy(Seen(3, "fresh", "available", 60, FALSE)), Pv(FALSE, "low", "available", TRUE, Seen(4, "fresh", "available", 40, FALSE)),
  Healthy(Seen(1, "fresh", "available", 60, FALSE)), Healthy(Seen(1, "fresh", "available", 0, FALSE)),
  Healthy(Seen(3, "partial", "available", 60, FALSE)), Healthy(Seen(3, "failed", "unavailable", None, FALSE)),
  Healthy(Seen(None, "", "", None, TRUE)), Healthy(Seen(None, "fresh", "available", 60, FALSE)), Healthy(None), Pv(FALSE, "", "", FALSE, None),
  Pv(TRUE, "normal", "available", FALSE, Seen(4, "fresh", "available", 90, FALSE)), Pv(FALSE, "exhausted", "", FALSE, None) }
Config(mode, consent, f2) == [mode |-> mode, consent |-> consent, freshness |-> <<1, f2>>,
  models |-> [m1 |-> Mo(1, TRUE), m2 |-> Mo(1, FALSE), n1 |-> Mo(2, TRUE)]]
MCConfigs == {Config("legacy", TRUE, 0), Config("legacy", FALSE, None), Config("provider-only", FALSE, 1)}
Rf(b) == [base |-> b, form |-> "plain"]
Suffixed(b) == [base |-> b, form |-> "suffix"]
Doc == [execution |-> [routine |-> <<<<Rf("m2"), Rf("m1"), Rf("n1")>>>>, difficult |-> <<<<Rf("m1")>>, <<Suffixed("n1"), Rf("n1")>>>>]]
Sel(tier, floor, excluded, refresh, doc) == [command |-> "select", phase |-> "execution", tier |-> tier, floor |-> floor, task |-> TRUE,
  excluded |-> excluded, refresh |-> refresh, doc |-> doc]
Fix(id, expected) == [id |-> id, phase |-> "execution", task |-> TRUE, expected |-> expected]
Eval(fixtures) == [command |-> "select-eval", doc |-> Doc, fixtures |-> fixtures]
MCInvocations == { Sel("routine", None, {}, FALSE, Doc), Sel("difficult", None, {"b"}, TRUE, Doc), Sel("normal", None, {}, FALSE, Doc), Sel("difficult", None, {}, FALSE, Doc),
  Sel(None, "difficult", {}, FALSE, Doc), Sel(None, None, {}, FALSE, Doc), Sel("normal", "normal", {}, FALSE, Doc), [Sel(None, None, {}, FALSE, Doc) EXCEPT !.task = FALSE],
  Sel("routine", None, {}, FALSE, [execution |-> [routine |-> <<<<Rf("m1")>>, <<Rf("m1")>>>>]]), Sel("routine", None, {}, FALSE, [execution |-> [routine |-> <<<<Rf("x1")>>>>]]),
  Eval(<<Fix("1", "routine"), Fix("2", Abstention), Fix("3", "difficult")>>), Eval(<<Fix("1", "normal")>>), Eval(<<Fix("1", "routine"), Fix("1", "difficult")>>), Eval(<<>>) }
P(r, n, d, v, i) == [routine |-> r, normal |-> n, difficult |-> d, very_difficult |-> v, insufficient_information |-> i]
An(c, p) == [choice |-> c, probability |-> p]
MCAnswers == {[fails |-> "no_key"], [fails |-> "failed"], An("routine", P(2, 1, 1, 0, 0)), An("routine", P(2, 0, 2, 0, 0)), An("difficult", P(0, 0, 2, 0, 2)), An("normal", P(1, 2, 1, 0, 0)),
  An("routine", P(1, 2, 1, 0, 0)), An("routine", P(4, 1, 0, 0, 0))}
MCConfig == Config("legacy", FALSE, None)
Selects == {a \in MCInvocations : a.command = "select"}
Evals == {a \in MCInvocations : a.command = "select-eval"}
Wells == <<Healthy(Seen(3, "fresh", "available", 60, FALSE)), Healthy(Seen(3, "fresh", "available", 60, FALSE))>>

-----------------------------------------------------------------------------
(* Staging. *)
D(keys, form) == [keys |-> keys, form |-> form]
Dir(doc, fs, linked) == [config |-> doc, files |-> fs, linked |-> linked]
Facet(model) == "f" :> D([model |-> model, fallbacks |-> <<"m3">>, body |-> "text"], "plain")
Stray == "stray" :> D([note |-> "x"], "broken")
GKeys == [full |-> "m1", key |-> "secret", kind |-> "static", dyn |-> "real", dynkind |-> "catalog", enabled |-> "on"]
MCGlobals == {Dir(D(GKeys, "plain"), Facet("m1") @@ Stray, {}), Dir(D(GKeys, "anchored"), Facet("m1"), {}),
              Dir(D([g |-> <<"m1">>] @@ GKeys, "plain"), Facet("m1"), {}), Dir(D([enabled |-> Bad] @@ GKeys, "plain"), Facet("m1"), {"f"})}
MCProjects == {Dir(D([note |-> "p"], "plain"), <<>>, {}), Dir(D([full |-> "m3", kind |-> "catalog"], "plain"), Facet("m2"), {}), Dir(D([full |-> "m3"], "plain"), Facet("m3"), {"f"}),
               Dir(D([full |-> "m3"], "anchored"), <<>>, {}), Dir(D([g |-> <<"m2">>, enabled |-> "off"], "plain"), <<>>, {}), Dir(D([g |-> Bad], "plain"), <<>>, {}),
               Dir(Absent, <<>>, {}), Dir(D(<<>>, "broken"), <<>>, {}), Dir(D(<<>>, "plain"), <<>>, {"config"})}
MCOperated == [global : MCGlobals, project : MCProjects]
Plan(edits, only) == [edits |-> edits, providerOnly |-> only]
Wr(keys) == "config" :> keys
Chain == "f" :> [model |-> "m2", fallbacks |-> Removed]
MCCommands ==
  {[global |-> g, project |-> p] :
     g \in {Absent, Plan(Wr([full |-> "m2", enabled |-> "off"]) @@ Chain, FALSE), Plan(Wr([enabled |-> "off"]), FALSE)},
     p \in {Plan(<<>>, FALSE), Plan(Wr([full |-> "m1"]), FALSE), Plan("f" :> [model |-> "m4", fallbacks |-> <<"m1">>], FALSE), Plan("stray" :> [model |-> "m1"], FALSE)}}
  \cup {[global |-> Plan(Wr([enabled |-> "off"]), TRUE), project |-> Plan(<<>>, TRUE)]}
MCLayers == CHOOSE l \in MCOperated : TRUE
MCKindOf == [key |-> "kind", dyn |-> "dynkind"]

-----------------------------------------------------------------------------
Foci == {"timeline", "records", "routing", "polling", "policy", "staging", "selection", "evaluation"}

Init ==
  /\ focus \in Foci
  /\ HistoryInit
  /\ RoutingInit      /\ (focus \notin {"routing", "polling"} => desired = Quiet /\ now = Min(Moments))
  /\ PollingInit      /\ (IF focus = "polling" THEN desired = Ranked ELSE source = OneSource)
  /\ PolicyInit       /\ (focus # "policy" => file = NoFile /\ live = MCLive)
  /\ StagingInit      /\ (focus # "staging" => layers = MCLayers)
  /\ SelectionInit
  /\ CASE focus = "selection"  -> config.consent \/ state = Wells
       [] focus = "evaluation" -> state = Wells
       [] OTHER -> config = MCConfig /\ state = Wells

Only(others) == UNCHANGED <<focus, others>>
Next ==
  \/ focus = "timeline"   /\ HistoryNext({1, 2}, {}) /\ Only(<<rvars, qvars, pvars, gvars, svars>>)
  \/ focus = "records"    /\ HistoryNext({}, Changes) /\ Only(<<rvars, qvars, pvars, gvars, svars>>)
  \/ focus = "routing"    /\ RoutingNext /\ Only(<<hvars, qvars, pvars, gvars, svars>>)
  \/ focus = "polling"    /\ PollingNext /\ Only(<<hvars, pvars, gvars, svars>>)
  \/ focus = "policy"     /\ PolicyNext /\ Only(<<hvars, rvars, qvars, gvars, svars>>)
  \/ focus = "staging"    /\ StagingNext /\ Only(<<hvars, rvars, qvars, pvars, svars>>)
  \/ focus = "selection"  /\ SelectionNext(Selects) /\ Only(<<hvars, rvars, qvars, pvars, gvars>>)
  \/ focus = "evaluation" /\ SelectionNext(Evals) /\ Only(<<hvars, rvars, qvars, pvars, gvars>>)
Spec == Init /\ [][Next]_vars
=============================================================================
