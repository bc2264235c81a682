------------------------------ MODULE MCItEngine -----------------------------
(* A sector pack of two actors, scenarios, routes and controls, four workbooks   *)
(* and one the engine refuses, three simulated years.                            *)
EXTENDS ItEngine, TLC

ItTechnique(id, st, r, a, s) == [id |-> id, stage |-> st, routes |-> r, actors |-> a, scenarios |-> s, weight |-> id]
ItMapping(t, c, e, f) == [tid |-> t, cid |-> c, effect |-> e, efficacy |-> f]
Read(of, key) == [of |-> of, key |-> key]
Driver(b, s, f) == [block |-> b, actors |-> {"ac", "in"}, scenarios |-> s, formula |-> f]
ItSmallPack ==
  [actors |-> <<"ac", "in">>, scenarios |-> <<"br", "fr">>, routes |-> <<"we", "em">>, controls |-> <<"k1", "k2">>,
   rate |-> 4, weight |-> ("ac" :> 6 @@ "in" :> 3),
   actorScenario |-> ("ac" :> ("br" :> 12 @@ "fr" :> 6) @@ "in" :> ("br" :> 0 @@ "fr" :> 12)),
   actorRoute |-> ("ac" :> ("we" :> 1 @@ "em" :> 2) @@ "in" :> ("we" :> 1 @@ "em" :> 1)),
   scenarioRoute |-> ("br" :> ("we" :> 1 @@ "em" :> 1) @@ "fr" :> ("we" :> 1 @@ "em" :> 0)),
   mask |-> (<<"ALL", "br", "we">> :> {"S1", "S5"} @@ <<"ALL", "br", "em">> :> {"S1"}
             @@ <<"ALL", "fr", "we">> :> {"S5"} @@ <<"in", "fr", "em">> :> {} ),
   priors |-> [r \in {"we", "em"} |-> [st \in {"S1", "S5"} |-> 80]],
   techniques |-> {ItTechnique(1, "S1", {"we", "em"}, {"ac"}, {"br"}), ItTechnique(2, "S1", {"we"}, {"ac", "in"}, {"br", "fr"}),
                   ItTechnique(3, "S5", {"we"}, {"ac", "in"}, {"br", "fr"}), ItTechnique(4, "S1", {"em"}, {"ac"}, {"br"})},
   maps |-> {ItMapping(1, "k1", "PREVENT_SUCCESS", 60), ItMapping(2, "k2", "CONTAIN_SUCCESS", 50), ItMapping(3, "k1", "REDUCE_DURATION", 70),
             ItMapping(3, "k2", "REDUCE_EXPOSURE", 60), ItMapping(4, "k2", "REDUCE_CONSEQUENCE", 60), ItMapping(2, "k1", "PREVENT_SUCCESS", 30)},
   reference |-> [k \in {"k1", "k2"} |-> [level |-> 2, coverage |-> 80]],
   floor |-> 25, ceiling |-> 200, floors |-> [Duration |-> 40, Exposure |-> 40, Direct |-> 40],
   amounts |-> (<<"RATE", "legal">> :> <<2, 5>> @@ <<"br", "days">> :> <<3, 6>> @@ <<"fr", "days">> :> <<2, 4>>
                @@ <<"br", "share">> :> <<10, 40>> @@ <<"fr", "recovery">> :> <<20, 60>>),
   drivers |-> ("LEGAL" :> Driver("Direct", {"br", "fr"}, <<Read("rate", "legal"), Read("param", "days")>>)
                @@ "BI" :> Driver("Duration", {"br"}, <<Read("org", "revenue"), Read("param", "days")>>)
                @@ "NOTIFY" :> Driver("Exposure", {"br"}, <<Read("org", "records"), Read("param", "share")>>)
                @@ "FRAUD" :> Driver("Direct", {"fr"}, <<Read("unrecovered", "recovery")>>))]
BookOf(use, view, lv, em_open, over) ==
  [useExposure |-> use, view |-> view, org |-> [revenue |-> 10, records |-> 2],
   overrides |-> over,
   exposure |-> ("we" :> [applicable |-> TRUE, feasible |-> TRUE, opportunity |-> 80, stage |-> 120, impact |-> 110]
                 @@ "em" :> [applicable |-> em_open, feasible |-> FALSE, opportunity |-> 100, stage |-> 100, impact |-> 100]),
   controls |-> ("k1" :> [level |-> lv, coverage |-> 70])]
NoOverride == << >>
Dear == <<"RATE", "legal">> :> <<8, 2>>
ItSmallBooks == {BookOf(TRUE, "Both", 1, TRUE, NoOverride), BookOf(FALSE, "Best Estimate", 0, FALSE, Dear),
            BookOf(FALSE, "Both", 0, TRUE, NoOverride), BookOf(TRUE, "Prudent", 4, FALSE, Dear),
            BookOf(FALSE, "Worst", 1, TRUE, NoOverride)}
ItSmallLevels == <<0, 25, 50, 95>>
ItSmallStream == <<12, 70, 33, 96, 51, 84, 7, 62, 40, 91, 25, 78, 3, 55, 88, 19, 66>>
==============================================================================
