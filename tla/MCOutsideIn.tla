----------------------------- MODULE MCOutsideIn -----------------------------
(* Findings files of up to four findings on four parameters of either domain.    *)
EXTENDS OutsideIn, TLC

FindingOf(id, t, f, v) == [id |-> id, target |-> t, field |-> f, value |-> v, approved |-> TRUE, sufficient |-> TRUE,
   polarity |-> "positive", credit |-> FALSE, assessed |-> FALSE]
Internet(v) == FindingOf("f1", "facility_input", "INTERNET_OT", v)
Remote(v) == FindingOf("f2", "facility_input", "REMOTE_ACCESS", v)
Barrier1(v) == FindingOf("f1", "ttp_prevent_barrier", "T1", v)
Assessed(f) == [f EXCEPT !.assessed = TRUE]
Insufficient(f) == [f EXCEPT !.sufficient = FALSE]
Absence(f, c) == [f EXCEPT !.polarity = "absence", !.credit = c]
SmallModels ==
  [OT |-> (<<"facility_input", "INTERNET_OT">> :> "No" @@ <<"facility_input", "REMOTE_ACCESS">> :> "Controlled"),
   IT |-> (<<"organisation_input", "USE_EXPOSURE_MODEL">> :> "Yes" @@ <<"exposure_route", "WEB.S1">> :> "1")]
SmallFindings == {Internet("Yes"), Assessed(Internet("Yes")), Remote("Yes"), Absence(Remote("No"), TRUE), Absence(Remote("No"), FALSE), Barrier1("0.5"), Assessed(Barrier1("0.8")), Barrier1("2"),
   Insufficient(Internet("Yes")), [Remote("Yes") EXCEPT !.approved = FALSE], FindingOf("f3", "exposure_route", "WEB.S1", "0.5"), FindingOf("f5", "exposure_route", "WEB.s1", "2"), FindingOf("f5", "exposure_route", "WEB", "2"), Barrier1("low"), FindingOf("f4", "organisation_input", "USE_EXPOSURE_MODEL", "No"), FindingOf("f3", "facility_input", "NONE", "Yes")}
SmallFiles == UNION {[1..n -> SmallFindings] : n \in 1..2} \cup {<<Internet("Yes"), Insufficient(Barrier1("0.5")), Assessed(Barrier1("0.8"))>>, <<Internet("Yes"), Remote("Yes"), Barrier1("0.5"), Barrier1("0.5")>>}
SmallRouteSpelling == ("WEB.S1" :> "WEB.S1" @@ "WEB.s1" :> "WEB.S1")
SmallHundredths == ("0.5" :> 50 @@ "0.8" :> 80 @@ "1" :> 100 @@ "2" :> 200)
==============================================================================
