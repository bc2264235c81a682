-------------------------------- MODULE Sums --------------------------------
(***************************************************************************)
(* Sums of sequences and of functions, the values of a sequence in order,  *)
(* and sequences joined to one: what numpy and sorted do in both engines.  *)
(***************************************************************************)
EXTENDS Integers, SequencesExt

SumOf(s) == FoldLeft(+, 0, s)
ProductOf(s) == FoldLeft(LAMBDA p, x : p * x, 1, s)

\* The sum of a function's values.
SumOver(f) == MapThenSumSet(LAMBDA x : f[x], DOMAIN f)

\* One sequence of many.
Concat(ss) == FoldLeft(\o, << >>, ss)

\* The k-th largest value is the largest that k items reach.
AtLeast(s, x) == {i \in DOMAIN s : s[i] >= x}
Descending(s) ==
  [k \in DOMAIN s |-> Max({x \in {s[i] : i \in DOMAIN s} : Cardinality(AtLeast(s, x)) >= k})]

\* The indices of a sequence in the order of its values, ties as they come.
Ranking(s) ==
  LET place == [i \in DOMAIN s |->
                  Cardinality({j \in DOMAIN s : s[j] < s[i] \/ (s[j] = s[i] /\ j <= i)})]
  IN [k \in DOMAIN s |-> CHOOSE i \in DOMAIN s : place[i] = k]
Ascending(s) == [k \in DOMAIN s |-> s[Ranking(s)[k]]]
=============================================================================
