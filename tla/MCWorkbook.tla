------------------------------ MODULE MCWorkbook -----------------------------
(* Workbooks as users fill them in: rows in and out of order, blanks, both        *)
(* domains, and the settings the service and the engine refuse.                   *)
EXTENDS Workbook

EmptyLayer(n) == [name |-> n, attachment |-> Blank, limit |-> Blank, coinsurance |-> 100]
EmptyRows == [r \in LayerRows |-> EmptyLayer(IF r = 20 THEN Marker ELSE Seeds[r - 17])]
SmallTemplate ==
  [domain |-> "OT", basis |-> "Prudent", apply |-> "No", view |-> "Prudent", setupLoss |-> Blank, loss |-> Blank,
   retention |-> 0, fallback |-> 0, primary |-> Blank, aggregate |-> Blank, layers |-> EmptyRows, coverage |-> 75, governed |-> 55]
LayerOf(n, a, l, c) == [name |-> n, attachment |-> a, limit |-> l, coinsurance |-> c]
SmallLayers == {EmptyRows,
  [r \in LayerRows |-> LayerOf(Seeds[r - 17], r, r - 10, 100)],
  [EmptyRows EXCEPT ![18] = LayerOf("Primary", Blank, 5, 100), ![20] = LayerOf(Marker, 5, 9, 80)],
  [EmptyRows EXCEPT ![19] = LayerOf(Blank, 5, 5, Blank), ![20] = LayerOf("Excess 2", 5, 9, 120)],
  [EmptyRows EXCEPT ![18] = LayerOf("Primary", 2, 0, 100), ![20] = LayerOf(Blank, 2, 4, 100), ![21] = LayerOf("Excess 3", -1, 4, 100)]}
SmallWorkbooks ==
  {[SmallTemplate EXCEPT !.domain = d, !.basis = b, !.view = v, !.loss = l, !.retention = r, !.fallback = f, !.layers = ls, !.coverage = c] :
     d \in {"IT", "OT"}, b \in {Blank, "Both", "Prudent"}, v \in {"Both", "Prudent"}, l \in {Blank, 7}, r \in {Blank, 3}, f \in {0, 4}, ls \in SmallLayers, c \in {Blank, 0, 60}}
  \cup {[SmallTemplate EXCEPT !.domain = "IT", !.basis = b, !.view = v] : b \in {Blank, "Both", "Worst"}, v \in {Blank, "Worst"}}
  \cup {[SmallTemplate EXCEPT !.setupLoss = 8], [SmallTemplate EXCEPT !.governed = 66], [SmallTemplate EXCEPT !.apply = "Yes"],
        [SmallTemplate EXCEPT !.primary = 9, !.aggregate = -1], [SmallTemplate EXCEPT !.basis = "Worst"], [SmallTemplate EXCEPT !.coverage = 130]}
==============================================================================
