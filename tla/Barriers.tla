------------------------------ MODULE Barriers ------------------------------
(***************************************************************************)
(* The arithmetic both engines share: probabilities, shares and factors    *)
(* are fixed-point numbers of Unit, rounded down, which is monotone as the *)
(* rounding of the code's doubles is; barriers of several controls combine *)
(* with diminishing returns.                                               *)
(***************************************************************************)
EXTENDS Sums

CONSTANTS
  Unit,        \* one
  Increment,   \* AGG_INCREMENT, CONTROL_AGG_INCREMENT
  BarrierCap   \* the cap of a barrier

ASSUME BarrierUnit == /\ Unit \in Nat \ {0}
                      /\ Increment \in 0..Unit /\ BarrierCap \in 0..Unit

Elements(s) == {s[i] : i \in DOMAIN s}
ClipTo(x, lo, hi) == IF x < lo THEN lo ELSE IF x > hi THEN hi ELSE x
Times(x, y) == (x * y) \div Unit

\* What factors leave of one.
Product(factors) == FoldLeft(Times, Unit, factors)

\* The strongest control counts in full, each further one for a smaller
\* share of what is left.
Joined(acc, v) == [sum |-> acc.sum + Times(Times(v, acc.share), Unit - acc.sum),
                   share |-> Times(acc.share, Increment)]
CombineEffects(values) ==
  ClipTo(FoldLeft(Joined, [sum |-> 0, share |-> Unit], Descending(values)).sum, 0, BarrierCap)
=============================================================================
