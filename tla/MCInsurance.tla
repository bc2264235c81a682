----------------------------- MODULE MCInsurance -----------------------------
(* Losses of 1 to 30 trials, programmes with gaps, overlaps, caps and blanks.    *)
EXTENDS Insurance, TLC

InsLayer(n, a, l, c) == [name |-> n, attachment |-> a, limit |-> l, coinsurance |-> c]
Cover(r, ls, p, g) == [retention |-> r, layers |-> ls, primary |-> p, aggregate |-> g]
SmallProgrammes ==
  {Cover(0, << >>, Absent, Absent), Cover(5, << >>, 10, Absent), Cover(2, << >>, Absent, 3),
   Cover(5, <<InsLayer("A", 5, 10, 90), InsLayer("B", 15, 20, 150)>>, 7, Absent),
   Cover(5, <<InsLayer("A", 5, 10, Absent), InsLayer("-", 0, 0, 100), InsLayer("B", 20, 20, 60)>>, Absent, 12),
   Cover(0, <<InsLayer("A", 0, 9, 120), InsLayer("A", 9, 30, -5), InsLayer("C", 39, 7, 100)>>, Absent, 0),
   Cover(1, <<InsLayer("A", 3, 20, 100), InsLayer("B", 10, 20, 100)>>, Absent, Absent)}
LossVector(n, m, k) == [i \in 1..n |-> IF (i * k) % m < 4 THEN 0 ELSE ((i * k) % m) * (IF i % 7 = 0 THEN 5 ELSE 1)]
SimOf(n, k) == LET a == LossVector(n, 11, k)
                 b == LossVector(n, 13, k + 2)
                 c == LossVector(n, 5, k + 1)
             IN [annual |-> [i \in 1..n |-> a[i] + b[i] + c[i]],
                 drivers |-> ("BI" :> a @@ "LEGAL" :> b @@ "IR" :> c)]
SmallSimulations == {SimOf(n, k) : n \in {1, 3, 20, 21, 30}, k \in {3, 4}} \cup {[annual |-> [i \in 1..25 |-> IF i = 9 THEN 40 ELSE 0], drivers |-> ("BI" :> [i \in 1..25 |-> IF i = 9 THEN 40 ELSE 0])]}
SmallCategory == ("BI" :> "Business" @@ "LEGAL" :> "Response" @@ "IR" :> "Response")
SmallAppetites == {<< >>, ("loss" :> 10 @@ "tvar99" :> 30), ("probability" :> 20 @@ "tvar95" :> 25)}
==============================================================================
