------------------------------ MODULE MCOtEngine -----------------------------
(* Two actors, scenarios, stages and controls, six techniques of which the       *)
(* facility excludes some, and two simulated years with six campaigns.           *)
EXTENDS OtEngine, TLC

OtSmallActors == <<"ns", "mi">>
OtSmallScenarios == <<"od", "ss">>
OtSmallControls == <<"c1", "c2">>
OtSmallStages == <<"S1", "S5">>
Technique(id, sc, st, d, g) == [id |-> id, scenario |-> sc, stage |-> st, defining |-> d, gate |-> g, actors |-> {"ns", "mi"}]
OtSmallTechniques ==
  {Technique(1, "od", "S1", FALSE, {}), Technique(2, "od", "S1", FALSE, {"route"}), Technique(3, "od", "S5", TRUE, {}), Technique(6, "od", "S5", FALSE, {}),
   Technique(4, "ss", "S1", FALSE, {"route", "remote"}), Technique(5, "ss", "S5", TRUE, {"safety"}) }
Mapping(t, c, ch, e) == [tid |-> t, cid |-> c, channel |-> ch, efficacy |-> e]
OtSmallMappings ==
  {Mapping(1, "c1", "prevent", 60), Mapping(1, "c2", "prevent", 40), Mapping(2, "c2", "prevent", 80), Mapping(3, "c1", "prevent", 50),
   Mapping(3, "c1", "recover", 40), Mapping(4, "c2", "detect", 60), Mapping(5, "c2", "safety", 50), Mapping(2, "c1", "prevent", 20), Mapping(6, "c2", "prevent", 10)}
ImpactOf(d, h) == [days |-> <<d, 2 * d>>, capacity |-> <<50, 80>>, fixed |-> 10, restore |-> 10, harm |-> h]
SheetOf(route, remote, safety, p) ==
  [facility |-> [k \in {"wireless", "route", "remote", "safety"} |->
                  CASE k = "route" -> route [] k = "remote" -> remote
                    [] k = "safety" -> safety [] OTHER -> FALSE],
   impact |-> [s \in {"od", "ss"} |-> IF s = "od" THEN ImpactOf(20, 0) ELSE ImpactOf(40, 30)],
   priors |-> [st \in {"S1", "S5"} |-> IF st = "S1" THEN p ELSE 90],
   mix |-> [a \in {"ns", "mi"} |-> 50], biScale |-> 100,
   propensity |-> [s \in {"od", "ss"} |-> 50]]
OtSmallSheets == {SheetOf(r, m, s, 60) : r \in BOOLEAN, m \in BOOLEAN, s \in BOOLEAN} \cup {[SheetOf(TRUE, TRUE, TRUE, 60) EXCEPT !.propensity = [s \in {"od", "ss"} |-> 40]]}
Campaign(y, a, s, u, z) == [year |-> y, actor |-> a, scenario |-> s, u |-> u, z |-> z]
OtSmallSkeleton ==
  <<Campaign(1, 10, 70, 20, TRUE), Campaign(1, 52, 20, 40, FALSE), Campaign(2, 80, 10, 70, TRUE), Campaign(2, 30, 10, 30, FALSE), Campaign(1, 90, 10, 60, FALSE), Campaign(1, 90, 10, 78, FALSE)>>
OtSmallDraws == {OtSmallSkeleton}
OtSmallRedrawn ==
  [d \in OtSmallDraws |->
     [f \in {80, 120} |->
        IF f = 80 THEN SubSeq(d, 1, 4) ELSE Append(d, Campaign(2, 60, 40, 10, TRUE))]]
OtSmallCoverage == [c \in {"c1", "c2"} |-> IF c = "c1" THEN 75 ELSE 100]
OtSmallShares == [l \in 0..3 |-> IF l = 0 THEN 0 ELSE IF l = 1 THEN 50 ELSE IF l = 2 THEN 75 ELSE 95]
OtSmallArchitecture == <<"wireless", "route">>
OtSmallOverlay == [t \in 1..6 |-> IF t = 3 THEN 80 ELSE 100]
OtSmallAnalyses == {{"whatifs", "packages", "sensitivity"}, {"packages"}}
==============================================================================
