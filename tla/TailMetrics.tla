---------------------------- MODULE TailMetrics ----------------------------
(***************************************************************************)
(* The figures both engines report of a vector of annual losses: quantile, *)
(* tail mean with the fractional trial at its cut, the shares of the       *)
(* components in the worst trials, and the appetite they are held against. *)
(* Levels are in percent; a mean is a pair <<sum, count>>, scaled by 100.  *)
(***************************************************************************)
EXTENDS Sums, FiniteSetsExt

\* np.quantile(method="higher"): the index q(n-1), rounded up.
ValueAtRisk(losses, q) ==
  LET sorted == Ascending(losses)
      n == Len(losses)
  IN sorted[1 + (q * (n - 1) + 99) \div 100]

\* Hundredths of trials below the tail: at most all but the last trial.
CutOf(n, q) == Min({q * n, 100 * (n - 1)})

\* Mutant: the trial at the cut counts in full.
WholeTrials(losses, q) ==
  LET sorted == Ascending(losses)
      k == CutOf(Len(losses), q) \div 100
  IN <<100 * SumOf(SubSeq(sorted, k + 1, Len(losses))), 100 * (Len(losses) - k)>>

\* The mean of the worst (100 - q)% of the trials.
ExpectedShortfall(losses, q) ==
  LET sorted == Ascending(losses)
      n == Len(losses)
      k == CutOf(n, q) \div 100
      frac == CutOf(n, q) % 100
  IN <<100 * SumOf(SubSeq(sorted, k + 1, n)) - frac * sorted[k + 1], 100 * (n - k) - frac>>

\* The trials in the order of their total.
Order(losses) == Ranking(losses)

\* What a component loses in the worst trials of the total.
TailContribution(component, order, q) ==
  LET n == Len(order)
      k == CutOf(n, q) \div 100
      frac == CutOf(n, q) % 100
      at == [i \in DOMAIN order |-> component[order[i]]]
  IN 100 * SumOf(SubSeq(at, k + 1, n)) - frac * at[k + 1]

Average(losses) == <<SumOf(losses), Len(losses)>>

AtMost(x, y) == x[1] * y[2] <= y[1] * x[2]

-----------------------------------------------------------------------------
(* Components and appetite.                                                *)

\* Drivers summed by category; rows without any loss are left out.
Rollup(drivers, category) ==
  [k \in {category[d] : d \in DOMAIN drivers} |->
     [i \in DOMAIN drivers[CHOOSE d \in DOMAIN drivers : category[d] = k] |->
        SumOver([d \in DOMAIN drivers |-> IF category[d] = k THEN drivers[d][i] ELSE 0])]]

Rows(components) ==
  {k \in DOMAIN components : \E i \in DOMAIN components[k] : components[k][i] > 0}

\* The component that leads the tail, not the one that leads the average.
Leading(components, order) ==
  IF Rows(components) = {} THEN {}
  ELSE {CHOOSE k \in Rows(components) :
          \A j \in Rows(components) : TailContribution(components[j], order, 99)
                                        <= TailContribution(components[k], order, 99)}

Exceeding(losses, limit) == Cardinality({i \in DOMAIN losses : losses[i] > limit})

\* Limits that are set and broken; none set is a status of its own.
Appetite(limits, losses) ==
  LET above(k) == CASE k = "loss" -> ~AtMost(Average(losses), <<limits[k], 1>>)
                    [] k = "probability" -> 100 * Exceeding(losses, 0) > limits[k] * Len(losses)
                    [] k = "tvar95" -> ~AtMost(ExpectedShortfall(losses, 95), <<limits[k], 1>>)
                    [] k = "tvar99" -> ~AtMost(ExpectedShortfall(losses, 99), <<limits[k], 1>>)
      breaches == {k \in DOMAIN limits : above(k)}
  IN [breaches |-> breaches,
      status |-> IF DOMAIN limits = {} THEN "Tolerance not set"
                 ELSE IF breaches # {} THEN "Above tolerance" ELSE "Within tolerance"]
=============================================================================
