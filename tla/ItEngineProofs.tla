--------------------------- MODULE ItEngineProofs ---------------------------
(***************************************************************************)
(* What the IT engine's refresh simulates and returns, whatever the sector *)
(* pack, the workbook, the analyses asked for and the random numbers: more *)
(* control lowers every rate and amount, a shock of a block is exact, and  *)
(* whatever is broken down adds up again.                                  *)
(***************************************************************************)
EXTENDS ItEngine, SumProofs

-----------------------------------------------------------------------------
(* Stronger controls: barriers, factors, stages and paths.                 *)

\* Settings of the controls, and none of them weaker than it was.
Settings == [ItControls -> [level : 0..Top, coverage : 0..Unit]]

\* Controls of which none is weaker than it was, at the same coverage.
NoneWeaker(low, high) ==
  \A c \in ItControls : /\ Effective(low[c].level) <= Effective(high[c].level)
                        /\ low[c].coverage = high[c].coverage

\* A level has a share of effectiveness, Not Assessed that of Developing.
LEMMA LevelIndex ==
  ASSUME NEW level \in 0..Top
  PROVE  /\ Top \in Nat /\ Effective(level) \in 1..Top /\ LevelShare[Effective(level)] \in 0..Unit
         /\ Developing \in 1..Top
<1>1. Top \in Nat
  BY ItSettings DEF IsTable, Top
<1> QED BY <1>1, ItSettings DEF Effective

\* A higher level is no less effective.
LEMMA EffectivenessMonotone ==
  ASSUME NEW e \in Nat, NEW x \in [level : 0..Top, coverage : 0..Unit],
         NEW y \in [level : 0..Top, coverage : 0..Unit],
         Effective(x.level) <= Effective(y.level), x.coverage = y.coverage
  PROVE  /\ Effectiveness(e, x) \in Nat /\ Effectiveness(e, y) \in Nat
         /\ Effectiveness(e, x) <= Effectiveness(e, y)
<1> DEFINE a == LevelShare[Effective(x.level)]
           b == LevelShare[Effective(y.level)]
           c == x.coverage
<1>1. a \in Nat /\ b \in Nat /\ a <= b
  <2>1. x.level \in 0..Top /\ y.level \in 0..Top
    OBVIOUS
  <2>2. /\ Effective(x.level) \in 1..Top /\ Effective(y.level) \in 1..Top
        /\ a \in 0..Unit /\ b \in 0..Unit
    BY <2>1, LevelIndex
  <2>3. a <= b
    BY <2>2, ItSettings
  <2>4. Unit \in Nat
    BY BarrierUnit
  <2> QED BY <2>2, <2>3, <2>4
<1>2. c \in Nat /\ e <= e /\ c <= c
  BY BarrierUnit
<1>3. /\ Effectiveness(e, x) = Times(Times(e, a), c)
      /\ Effectiveness(e, y) = Times(Times(e, b), c)
  BY DEF Effectiveness
<1> HIDE DEF a, b, c
<1>4. Times(e, a) \in Nat /\ Times(e, b) \in Nat /\ Times(e, a) <= Times(e, b)
  BY <1>1, <1>2, TimesMonotone
<1>5. /\ Times(Times(e, a), c) \in Nat /\ Times(Times(e, b), c) \in Nat
      /\ Times(Times(e, a), c) <= Times(Times(e, b), c)
  BY <1>2, <1>4, TimesMonotone
<1> QED BY <1>3, <1>5

\* Stronger controls leave no technique with a lower barrier.
LEMMA BarrierMonotone ==
  ASSUME NEW t, NEW effects, NEW low \in Settings, NEW high \in Settings, NoneWeaker(low, high)
  PROVE  /\ Barrier(t, effects, low) \in 0..BarrierCap /\ Barrier(t, effects, high) \in 0..BarrierCap
         /\ Barrier(t, effects, low) <= Barrier(t, effects, high)
<1> DEFINE M == {m \in ItPack.maps : m.tid = t.id /\ m.effect \in effects}
           keys == SetToSeq(M)
           n == Cardinality(M)
           f(settings) == [i \in DOMAIN keys |->
                             ClipTo(Effectiveness(keys[i].efficacy, settings[keys[i].cid]), 0, BarrierCap)]
           x == f(low)
           y == f(high)
<1>1. M \subseteq ItPack.maps /\ IsFiniteSet(M)
  BY ItPackTables, FS_Subset
<1>2. Barrier(t, effects, low) = CombineEffects(x) /\ Barrier(t, effects, high) = CombineEffects(y)
  BY DEF Barrier
<1> HIDE DEF M
<1>3. n \in Nat /\ keys \in [1..n -> M]
  BY <1>1, Listing
<1>4. \A i \in 1..n : x[i] \in 0..BarrierCap /\ y[i] \in 0..BarrierCap /\ x[i] <= y[i]
  <2> SUFFICES ASSUME NEW i \in 1..n
               PROVE  x[i] \in 0..BarrierCap /\ y[i] \in 0..BarrierCap /\ x[i] <= y[i]
    OBVIOUS
  <2> DEFINE m == keys[i]
             v == Effectiveness(m.efficacy, low[m.cid])
             w == Effectiveness(m.efficacy, high[m.cid])
  <2>1. m \in ItPack.maps
    BY <1>1, <1>3
  <2>2. m.efficacy \in Nat /\ m.cid \in ItControls
    BY <2>1, ItPackTables
  <2>3. x[i] = ClipTo(v, 0, BarrierCap) /\ y[i] = ClipTo(w, 0, BarrierCap)
    BY <1>3
  <2> HIDE DEF m, x, y
  <2>4. v \in Nat /\ w \in Nat /\ v <= w
    <3> DEFINE p == low[m.cid]
               q == high[m.cid]
    <3>1. /\ p \in [level : 0..Top, coverage : 0..Unit] /\ q \in [level : 0..Top, coverage : 0..Unit]
          /\ Effective(p.level) <= Effective(q.level) /\ p.coverage = q.coverage
      BY <2>2 DEF Settings, NoneWeaker
    <3> HIDE DEF p, q
    <3>2. /\ Effectiveness(m.efficacy, p) \in Nat /\ Effectiveness(m.efficacy, q) \in Nat
          /\ Effectiveness(m.efficacy, p) <= Effectiveness(m.efficacy, q)
      BY <2>2, <3>1, EffectivenessMonotone
    <3> QED BY <3>2 DEF p, q
  <2> HIDE DEF v, w
  <2>5. v \in Int /\ w \in Int /\ 0 \in Int /\ BarrierCap \in Int /\ 0 <= BarrierCap
    BY <2>4, BarrierUnit
  <2> QED BY <2>3, <2>4, <2>5, ClipMonotone
<1>5. x = [i \in 1..n |-> x[i]] /\ y = [i \in 1..n |-> y[i]]
  BY <1>3
<1> HIDE DEF x, y
<1>6. x \in [1..n -> 0..BarrierCap] /\ y \in [1..n -> 0..BarrierCap]
  BY <1>4, <1>5
<1> QED BY <1>2, <1>3, <1>4, <1>6, CombineMonotone

\* A weighted mean does not fall where no value does.
LEMMA WeightedMonotone ==
  ASSUME NEW ts, ts \subseteq ItPack.techniques, ts # {},
         NEW x, NEW y, \A t \in ts : x[t] \in Int /\ y[t] \in Int /\ x[t] <= y[t]
  PROVE  Weighted(ts, x) \in Int /\ Weighted(ts, y) \in Int /\ Weighted(ts, x) <= Weighted(ts, y)
<1> DEFINE f == [t \in ts |-> t.weight * x[t]]
           g == [t \in ts |-> t.weight * y[t]]
           w == [t \in ts |-> t.weight]
           a == SumOver(f)
           b == SumOver(g)
           c == SumOver(w)
<1>1. IsFiniteSet(ts) /\ \A t \in ts : t.weight \in Nat \ {0}
  BY ItPackTables, FS_Subset
<1>2. f \in [ts -> Int] /\ g \in [ts -> Int] /\ w \in [ts -> Nat \ {0}]
  BY <1>1
<1>3. \A t \in ts : f[t] <= g[t]
  <2> TAKE t \in ts
  <2> DEFINE k == t.weight
             u == x[t]
             v == y[t]
  <2>1. k \in Nat /\ u \in Int /\ v \in Int /\ u <= v /\ f[t] = k * u /\ g[t] = k * v
    BY <1>1
  <2> HIDE DEF k, u, v, f, g
  <2>2. k * u <= k * v
    BY <2>1
  <2> QED BY <2>1, <2>2
<1> HIDE DEF f, g, w
<1>4. a \in Int /\ b \in Int /\ a <= b
  BY <1>1, <1>2, <1>3, SumOverType, SumOverMonotone
<1>5. c \in Nat \ {0}
  BY <1>1, <1>2, SumOverPositive
<1>6. Weighted(ts, x) = a \div c /\ Weighted(ts, y) = b \div c
  BY DEF Weighted, f, g, w
<1> HIDE DEF a, b, c
<1> QED BY <1>4, <1>5, <1>6, DivMonotone

\* A weighted mean of what is not negative is not negative.
LEMMA WeightedNatural ==
  ASSUME NEW ts, ts \subseteq ItPack.techniques, ts # {}, NEW x, \A t \in ts : x[t] \in Nat
  PROVE  Weighted(ts, x) \in Nat
<1> DEFINE f == [t \in ts |-> t.weight * x[t]]
           w == [t \in ts |-> t.weight]
           z == [t \in ts |-> 0]
<1>1. IsFiniteSet(ts) /\ \A t \in ts : t.weight \in Nat \ {0}
  BY ItPackTables, FS_Subset
<1>2. f \in [ts -> Int] /\ w \in [ts -> Nat \ {0}] /\ z \in [ts -> Int]
  BY <1>1
<1>3. \A t \in ts : z[t] <= f[t] /\ z[t] = 0
  <2> TAKE t \in ts
  <2> DEFINE k == t.weight
             u == x[t]
  <2>1. k \in Nat /\ u \in Nat /\ f[t] = k * u /\ z[t] = 0
    BY <1>1
  <2> HIDE DEF k, u, f, z
  <2>2. k * u \in Nat
    BY <2>1
  <2> QED BY <2>1, <2>2
<1> HIDE DEF f, w, z
<1>4. SumOver(z) <= SumOver(f) /\ SumOver(f) \in Int /\ SumOver(z) = 0
  <2>1. SumOver(z) <= SumOver(f)
    BY <1>1, <1>2, <1>3, SumOverMonotone
  <2>2. SumOver(z) = 0
    BY <1>1, <1>2, <1>3, SumOverZero
  <2> QED BY <1>1, <1>2, <2>1, <2>2, SumOverType
<1>5. SumOver(f) \in Nat
  BY <1>4
<1>6. SumOver(w) \in Nat \ {0}
  BY <1>1, <1>2, SumOverPositive
<1>7. Weighted(ts, x) = SumOver(f) \div SumOver(w)
  BY DEF Weighted, f, w
<1> QED BY <1>5, <1>6, <1>7, DivNatural

\* A ratio to the reference does not fall where what is open does not.
LEMMA RatioMonotone ==
  ASSUME NEW x \in Int, NEW y \in Int, x <= y, NEW ref \in Int, NEW lo \in Nat, NEW hi \in Nat, lo <= hi
  PROVE  /\ RatioOf(x, ref, lo, hi) \in Nat /\ RatioOf(y, ref, lo, hi) \in Nat
         /\ RatioOf(x, ref, lo, hi) <= RatioOf(y, ref, lo, hi)
<1> DEFINE d == Max({ref, 1})
           a == x * Unit
           b == y * Unit
<1>1. d \in Nat \ {0}
  <2>1. \E i \in {ref, 1} : \A j \in {ref, 1} : i >= j
    OBVIOUS
  <2>2. d \in {ref, 1} /\ \A j \in {ref, 1} : d >= j
    BY <2>1 DEF Max
  <2> HIDE DEF d
  <2> QED BY <2>2
<1>2. a \in Int /\ b \in Int /\ a <= b
  BY BarrierUnit
<1>3. /\ RatioOf(x, ref, lo, hi) = ClipTo(a \div d, lo, hi)
      /\ RatioOf(y, ref, lo, hi) = ClipTo(b \div d, lo, hi)
  BY DEF RatioOf
<1> HIDE DEF a, b, d
<1>4. a \div d \in Int /\ b \div d \in Int /\ a \div d <= b \div d
  BY <1>1, <1>2, DivMonotone
<1>5. /\ ClipTo(a \div d, lo, hi) \in lo..hi /\ ClipTo(b \div d, lo, hi) \in lo..hi
      /\ ClipTo(a \div d, lo, hi) <= ClipTo(b \div d, lo, hi)
  <2> DEFINE v == a \div d
             w == b \div d
  <2>1. v \in Int /\ w \in Int /\ v <= w /\ lo \in Int /\ hi \in Int
    BY <1>4
  <2> HIDE DEF v, w
  <2>2. /\ ClipTo(v, lo, hi) \in lo..hi /\ ClipTo(w, lo, hi) \in lo..hi
        /\ ClipTo(v, lo, hi) <= ClipTo(w, lo, hi)
    BY <2>1, ClipMonotone
  <2> QED BY <2>2 DEF v, w
<1> QED BY <1>3, <1>5

\* The pack's reference is a setting of the controls.
LEMMA ReferenceSettings == ItPack.reference \in Settings /\ NoneWeaker(ItPack.reference, ItPack.reference)
<1>1. ItPack.reference \in Settings
  BY ItPackTables DEF Settings
<1>2. \A c \in ItControls : Effective(ItPack.reference[c].level) \in 1..Top
  BY <1>1, LevelIndex DEF Settings
<1>3. Top \in Nat
  BY ItSettings DEF IsTable, Top
<1> QED BY <1>1, <1>2, <1>3 DEF NoneWeaker

\* Stronger controls raise no factor of an effect.
LEMMA FactorFalls ==
  ASSUME NEW ts, ts \subseteq ItPack.techniques, NEW effect, NEW floor \in 0..ItPack.ceiling,
         NEW low \in Settings, NEW high \in Settings, NoneWeaker(low, high)
  PROVE  /\ Factor(ts, effect, floor, low) \in Nat /\ Factor(ts, effect, floor, high) \in Nat
         /\ Factor(ts, effect, floor, high) <= Factor(ts, effect, floor, low)
<1> DEFINE mapped == {t \in ts : \E m \in ItPack.maps : m.tid = t.id /\ m.effect = effect}
           open(t, x) == Unit - Barrier(t, {effect}, x)
           ratio(x) == [t \in mapped |-> RatioOf(open(t, x), open(t, ItPack.reference), floor, ItPack.ceiling)]
<1>1. CASE mapped = {}
  <2>1. Factor(ts, effect, floor, low) = Unit /\ Factor(ts, effect, floor, high) = Unit
    BY <1>1 DEF Factor
  <2> QED BY <2>1, BarrierUnit
<1>2. CASE mapped # {}
  <2>1. /\ Factor(ts, effect, floor, low) = Weighted(mapped, ratio(low))
        /\ Factor(ts, effect, floor, high) = Weighted(mapped, ratio(high))
    BY <1>2 DEF Factor
  <2>2. mapped \subseteq ItPack.techniques
    OBVIOUS
  <2>3. \A t \in mapped : ratio(low)[t] \in Nat /\ ratio(high)[t] \in Nat /\ ratio(high)[t] <= ratio(low)[t]
    <3> TAKE t \in mapped
    <3>1. /\ Barrier(t, {effect}, low) \in 0..BarrierCap /\ Barrier(t, {effect}, high) \in 0..BarrierCap
          /\ Barrier(t, {effect}, low) <= Barrier(t, {effect}, high)
          /\ Barrier(t, {effect}, ItPack.reference) \in 0..BarrierCap
      BY BarrierMonotone, ReferenceSettings
    <3>2. /\ open(t, low) \in Int /\ open(t, high) \in Int /\ open(t, ItPack.reference) \in Int
          /\ open(t, high) <= open(t, low)
      BY <3>1, BarrierUnit
    <3>3. floor \in Nat /\ ItPack.ceiling \in Nat /\ floor <= ItPack.ceiling
      BY ItPackTables
    <3>4. /\ ratio(low)[t] = RatioOf(open(t, low), open(t, ItPack.reference), floor, ItPack.ceiling)
          /\ ratio(high)[t] = RatioOf(open(t, high), open(t, ItPack.reference), floor, ItPack.ceiling)
      OBVIOUS
    <3> DEFINE x == open(t, high)
               y == open(t, low)
               ref == open(t, ItPack.reference)
               hi == ItPack.ceiling
    <3>5. /\ ratio(high)[t] = RatioOf(x, ref, floor, hi) /\ ratio(low)[t] = RatioOf(y, ref, floor, hi)
          /\ x \in Int /\ y \in Int /\ x <= y /\ ref \in Int /\ floor \in Nat /\ hi \in Nat /\ floor <= hi
      BY <3>2, <3>3, <3>4
    <3> HIDE DEF open, ratio, x, y, ref, hi
    <3>6. /\ RatioOf(x, ref, floor, hi) \in Nat /\ RatioOf(y, ref, floor, hi) \in Nat
          /\ RatioOf(x, ref, floor, hi) <= RatioOf(y, ref, floor, hi)
      BY <3>5, RatioMonotone
    <3> QED BY <3>5, <3>6
  <2> HIDE DEF mapped, ratio
  <2>4. Weighted(mapped, ratio(low)) \in Nat /\ Weighted(mapped, ratio(high)) \in Nat
    BY <1>2, <2>2, <2>3, WeightedNatural
  <2>5. Weighted(mapped, ratio(high)) <= Weighted(mapped, ratio(low))
    <3>1. \A t \in mapped : ratio(high)[t] \in Int /\ ratio(low)[t] \in Int /\ ratio(high)[t] <= ratio(low)[t]
      BY <2>3
    <3> QED BY <1>2, <2>2, <3>1, WeightedMonotone
  <2> QED BY <2>1, <2>4, <2>5
<1> QED BY <1>1, <1>2

\* The inputs of a run: the pack's rows with answers the engine accepts.
BookOK(b) ==
  /\ b.controls \in Settings
  /\ b.useExposure \in BOOLEAN
  /\ \A key \in DOMAIN b.overrides, q \in {1, 2} : b.overrides[key][q] \in Int
  /\ \A d \in DOMAIN ItPack.drivers : \A f \in Elements(ItPack.drivers[d].formula) :
       f.of = "org" => b.org[f.key] \in Int
  /\ \A r \in ItRoutes :
       LET e == b.exposure[r] IN e.opportunity \in Nat /\ e.stage \in Nat /\ e.impact \in Nat

\* Stronger controls make no stage easier to pass.
LEMMA ThroughOpens ==
  ASSUME NEW b, BookOK(b), NEW r \in ItRoutes, NEW st, ItPack.priors[r][st] \in Nat,
         NEW ts, ts \subseteq ItPack.techniques, ts # {},
         NEW low \in Settings, NEW high \in Settings, NoneWeaker(low, high)
  PROVE  /\ ItThrough(b, r, st, ts, low) \in 0..Unit /\ ItThrough(b, r, st, ts, high) \in 0..Unit
         /\ ItThrough(b, r, st, ts, high) <= ItThrough(b, r, st, ts, low)
<1> DEFINE of(x) == [t \in ts |-> Barrier(t, Prevention, x)]
           open(x) == Unit - Weighted(ts, of(x))
           ratio(x) == RatioOf(open(x), open(ItPack.reference), ItPack.floor, ItPack.ceiling)
           exposure == IF b.useExposure THEN b.exposure[r].stage ELSE Unit
           prior == ItPack.priors[r][st]
           through(x) == Times(Times(prior, ratio(x)), exposure)
<1>1. \A t \in ts : /\ of(low)[t] \in Int /\ of(high)[t] \in Int /\ of(low)[t] <= of(high)[t]
                    /\ of(ItPack.reference)[t] \in Int
                    /\ of(ItPack.reference)[t] <= of(ItPack.reference)[t]
  <2> TAKE t \in ts
  <2>1. /\ Barrier(t, Prevention, low) \in 0..BarrierCap /\ Barrier(t, Prevention, high) \in 0..BarrierCap
        /\ Barrier(t, Prevention, low) <= Barrier(t, Prevention, high)
        /\ Barrier(t, Prevention, ItPack.reference) \in 0..BarrierCap
    BY BarrierMonotone, ReferenceSettings
  <2>2. BarrierCap \in Nat
    BY BarrierUnit
  <2> QED BY <2>1, <2>2
<1> HIDE DEF of
<1>2. /\ Weighted(ts, of(low)) \in Int /\ Weighted(ts, of(high)) \in Int
      /\ Weighted(ts, of(low)) <= Weighted(ts, of(high))
  BY <1>1, WeightedMonotone
<1>3. Weighted(ts, of(ItPack.reference)) \in Int
  BY <1>1, WeightedMonotone
<1>4. /\ open(low) \in Int /\ open(high) \in Int /\ open(ItPack.reference) \in Int
      /\ open(high) <= open(low)
  BY <1>2, <1>3, BarrierUnit
<1> HIDE DEF open
<1>5. ratio(low) \in Nat /\ ratio(high) \in Nat /\ ratio(high) <= ratio(low)
  <2>1. ItPack.floor \in Nat /\ ItPack.ceiling \in Nat /\ ItPack.floor <= ItPack.ceiling
    BY ItPackTables
  <2> QED BY <1>4, <2>1, RatioMonotone
<1>6. exposure \in Nat /\ exposure <= exposure
  <2>1. exposure \in Nat
    BY BarrierUnit DEF BookOK
  <2> HIDE DEF exposure
  <2> QED BY <2>1
<1>7. prior \in Nat /\ prior <= prior
  OBVIOUS
<1> HIDE DEF ratio, exposure, prior
<1>8. /\ Times(prior, ratio(high)) \in Nat /\ Times(prior, ratio(low)) \in Nat
      /\ Times(prior, ratio(high)) <= Times(prior, ratio(low))
  BY <1>5, <1>7, TimesMonotone
<1>9. through(low) \in Nat /\ through(high) \in Nat /\ through(high) <= through(low)
  BY <1>6, <1>8, TimesMonotone
<1>10. /\ ItThrough(b, r, st, ts, low) = ClipTo(through(low), 0, Unit)
       /\ ItThrough(b, r, st, ts, high) = ClipTo(through(high), 0, Unit)
  BY DEF ItThrough, of, open, ratio, exposure, prior
<1> HIDE DEF through
<1>11. through(low) \in Int /\ through(high) \in Int /\ 0 \in Int /\ Unit \in Int /\ 0 <= Unit
  BY <1>9, BarrierUnit
<1>12. /\ ClipTo(through(high), 0, Unit) \in 0..Unit /\ ClipTo(through(low), 0, Unit) \in 0..Unit
       /\ ClipTo(through(high), 0, Unit) <= ClipTo(through(low), 0, Unit)
  BY <1>9, <1>11, ClipMonotone
<1> QED BY <1>10, <1>12

\* Paths: what is open stays open, and what controls leave grows less.
PathFalls(old, new) ==
  /\ new.valid = old.valid /\ new.opportunity = old.opportunity /\ old.opportunity \in Nat
  /\ new.success \in Nat /\ old.success \in Nat /\ new.success <= old.success
  /\ \A k \in Blocks : new.factor[k] \in Nat /\ old.factor[k] \in Nat /\ new.factor[k] <= old.factor[k]

\* The stages an actor must pass are finitely many, each with a prior.
LEMMA StagesKnown ==
  ASSUME NEW a, NEW s, NEW r \in ItRoutes
  PROVE  /\ IsFiniteSet(RequiredStages(ItPack.mask, a, s, r))
         /\ \A st \in RequiredStages(ItPack.mask, a, s, r) : ItPack.priors[r][st] \in Nat
<1>1. CASE <<a, s, r>> \in DOMAIN ItPack.mask
  <2>1. RequiredStages(ItPack.mask, a, s, r) = ItPack.mask[<<a, s, r>>]
    BY <1>1 DEF RequiredStages
  <2> QED BY <1>1, <2>1, ItPackTables
<1>2. CASE <<a, s, r>> \notin DOMAIN ItPack.mask /\ <<"ALL", s, r>> \in DOMAIN ItPack.mask
  <2>1. RequiredStages(ItPack.mask, a, s, r) = ItPack.mask[<<"ALL", s, r>>]
    BY <1>2 DEF RequiredStages
  <2> QED BY <1>2, <2>1, ItPackTables
<1>3. CASE <<a, s, r>> \notin DOMAIN ItPack.mask /\ <<"ALL", s, r>> \notin DOMAIN ItPack.mask
  <2>1. RequiredStages(ItPack.mask, a, s, r) = {}
    BY <1>3 DEF RequiredStages
  <2> QED BY <2>1, FS_EmptySet
<1> QED BY <1>1, <1>2, <1>3

\* Stronger controls leave a path's validity and exposure as they are and raise
\* neither its success nor its factors.
LEMMA PathOpens ==
  ASSUME NEW b, BookOK(b), NEW a, NEW s, NEW r \in ItRoutes,
         NEW low \in Settings, NEW high \in Settings, NoneWeaker(low, high)
  PROVE  PathFalls(Path(b, a, s, r, low), Path(b, a, s, r, high))
<1> DEFINE stages == RequiredStages(ItPack.mask, a, s, r)
           inOrder == SetToSeq(stages)
           n == Cardinality(stages)
           at(st) == {t \in Relevant(a, s, r) : t.stage = st}
           reached == {t \in Relevant(a, s, r) : t.stage \in stages}
           e == b.exposure[r]
           known == {<<a, s, r>>, <<"ALL", s, r>>} \cap DOMAIN ItPack.mask # {}
           feasible == known /\ e.applicable /\ (b.useExposure => e.feasible)
           valid == feasible /\ stages # {} /\ \A st \in stages : at(st) # {}
           impact == IF known /\ b.useExposure THEN e.impact ELSE Unit
           through(x) == [i \in DOMAIN inOrder |-> ItThrough(b, r, inOrder[i], at(inOrder[i]), x)]
           success(x) == IF ~valid THEN 0 ELSE Product(through(x))
           opportunity == IF ~feasible THEN 0 ELSE IF b.useExposure THEN e.opportunity ELSE Unit
           factor(x) == [k \in Blocks |->
                          Times(Factor(reached, EffectOn[k], ItPack.floors[k], x), impact)]
           path(x) == [valid |-> valid, impact |-> impact, success |-> success(x),
                       opportunity |-> opportunity, factor |-> factor(x)]
<1>1. Path(b, a, s, r, low) = path(low) /\ Path(b, a, s, r, high) = path(high)
  BY DEF Path
<1>2. Relevant(a, s, r) \subseteq ItPack.techniques
  BY DEF Relevant
<1>3. opportunity \in Nat /\ impact \in Nat
  BY BarrierUnit DEF BookOK
<1>4. /\ success(high) \in Nat /\ success(low) \in Nat /\ success(high) <= success(low)
  <2>1. CASE ~valid
    <3>1. success(high) = 0 /\ success(low) = 0
      BY <2>1
    <3> HIDE DEF success
    <3> QED BY <3>1
  <2>2. CASE valid
    <3>1. IsFiniteSet(stages) /\ \A st \in stages : ItPack.priors[r][st] \in Nat
      BY StagesKnown
    <3>2. \A st \in stages : at(st) # {} /\ at(st) \subseteq ItPack.techniques
      BY <1>2, <2>2
    <3>3. success(low) = Product(through(low)) /\ success(high) = Product(through(high))
      BY <2>2
    <3> HIDE DEF stages, at, valid, success
    <3>4. n \in Nat /\ inOrder \in [1..n -> stages]
      BY <3>1, Listing
    <3>5. \A i \in 1..n : /\ through(low)[i] \in 0..Unit /\ through(high)[i] \in 0..Unit
                          /\ through(high)[i] <= through(low)[i]
      <4> TAKE i \in 1..n
      <4> DEFINE st == inOrder[i]
      <4>1. st \in stages
        BY <3>4
      <4>2. /\ through(low)[i] = ItThrough(b, r, st, at(st), low)
            /\ through(high)[i] = ItThrough(b, r, st, at(st), high)
        BY <3>4
      <4> HIDE DEF st, through
      <4>3. at(st) # {} /\ at(st) \subseteq ItPack.techniques /\ ItPack.priors[r][st] \in Nat
        BY <3>1, <3>2, <4>1
      <4> DEFINE ts == at(st)
      <4>4. ts # {} /\ ts \subseteq ItPack.techniques
        BY <4>3
      <4> HIDE DEF ts
      <4>5. /\ ItThrough(b, r, st, ts, low) \in 0..Unit /\ ItThrough(b, r, st, ts, high) \in 0..Unit
            /\ ItThrough(b, r, st, ts, high) <= ItThrough(b, r, st, ts, low)
        BY <4>3, <4>4, ThroughOpens
      <4> QED BY <4>2, <4>5 DEF ts
    <3>6. /\ through(low) = [i \in 1..n |-> through(low)[i]]
          /\ through(high) = [i \in 1..n |-> through(high)[i]]
      BY <3>4
    <3> DEFINE x == through(low)
               y == through(high)
    <3> HIDE DEF through
    <3>7. x \in [1..n -> 0..Unit] /\ y \in [1..n -> 0..Unit] /\ \A i \in 1..n : y[i] <= x[i]
      BY <3>5, <3>6
    <3> HIDE DEF x, y, n
    <3>8. Product(y) \in 0..Unit /\ Product(x) \in 0..Unit /\ Product(y) <= Product(x)
      BY <3>4, <3>7, ProductMonotone
    <3>9. Unit \in Nat
      BY BarrierUnit
    <3> QED BY <3>3, <3>8, <3>9 DEF x, y
  <2> QED BY <2>1, <2>2
<1>5. \A k \in Blocks : /\ factor(high)[k] \in Nat /\ factor(low)[k] \in Nat
                        /\ factor(high)[k] <= factor(low)[k]
  <2> TAKE k \in Blocks
  <2> DEFINE u == Factor(reached, EffectOn[k], ItPack.floors[k], high)
             v == Factor(reached, EffectOn[k], ItPack.floors[k], low)
  <2>1. reached \subseteq ItPack.techniques /\ ItPack.floors[k] \in 0..ItPack.ceiling
    BY <1>2, ItPackTables
  <2>2. factor(high)[k] = Times(u, impact) /\ factor(low)[k] = Times(v, impact)
    OBVIOUS
  <2> HIDE DEF reached, factor
  <2>3. u \in Nat /\ v \in Nat /\ u <= v
    BY <2>1, FactorFalls
  <2> HIDE DEF u, v, impact
  <2>4. impact <= impact
    BY <1>3
  <2>5. Times(u, impact) \in Nat /\ Times(v, impact) \in Nat /\ Times(u, impact) <= Times(v, impact)
    BY <1>3, <2>3, <2>4, TimesMonotone
  <2> QED BY <2>2, <2>5
<1> HIDE DEF success, factor, valid, opportunity, impact
<1> QED BY <1>1, <1>3, <1>4, <1>5 DEF PathFalls

-----------------------------------------------------------------------------
(* Folds and sequences joined.                                             *)

-----------------------------------------------------------------------------
(* Cells.                                                                  *)

\* The drivers of the pack, by name.
DriverNames == DOMAIN ItPack.drivers

\* Amounts are whole numbers, and a driver's is not negative.
LEMMA AmountType ==
  ASSUME NEW b, BookOK(b), NEW d \in DriverNames, NEW s \in ItPack.drivers[d].scenarios,
         NEW q \in {1, 2}
  PROVE  Amount(b, d, s, q) \in Nat
<1> DEFINE formula == ItPack.drivers[d].formula
           value(f) == CASE f.of = "org" -> b.org[f.key]
                         [] f.of = "rate" -> UsedAmount(b, <<"RATE", f.key>>, q)
                         [] f.of = "param" -> UsedAmount(b, <<s, f.key>>, q)
                         [] f.of = "unrecovered" -> Unit - UsedAmount(b, <<s, f.key>>, q)
           values == [i \in DOMAIN formula |-> value(formula[i])]
           product == ProductOf(values)
<1>1. IsTable(formula)
  BY ItPackTables DEF DriverNames
<1>2. \A f \in Elements(formula) : value(f) \in Int
  <2> TAKE f \in Elements(formula)
  <2>1. /\ f.of \in {"org", "rate", "param", "unrecovered"}
        /\ f.of = "rate" => ItPack.amounts[<<"RATE", f.key>>][q] \in Int
        /\ f.of \in {"param", "unrecovered"} => ItPack.amounts[<<s, f.key>>][q] \in Int
    BY ItPackTables DEF DriverNames
  <2>2. f.of = "org" => b.org[f.key] \in Int
    BY DEF BookOK, DriverNames
  <2>3. \A key : ItPack.amounts[key][q] \in Int => UsedAmount(b, key, q) \in Int
    BY DEF BookOK, UsedAmount
  <2>4. Unit \in Int
    BY BarrierUnit
  <2>5. CASE f.of = "org"
    BY <2>2, <2>5
  <2>6. CASE f.of = "rate"
    BY <2>1, <2>3, <2>6
  <2>7. CASE f.of = "param"
    BY <2>1, <2>3, <2>7
  <2>8. CASE f.of = "unrecovered"
    <3>1. UsedAmount(b, <<s, f.key>>, q) \in Int
      BY <2>1, <2>3, <2>8
    <3>2. value(f) = Unit - UsedAmount(b, <<s, f.key>>, q)
      BY <2>8
    <3> DEFINE u == UsedAmount(b, <<s, f.key>>, q)
    <3>3. Unit - u \in Int
      <4> HIDE DEF u
      <4> QED BY <2>4, <3>1 DEF u
    <3> HIDE DEF value
    <3> QED BY <3>2, <3>3
  <2> QED BY <2>1, <2>5, <2>6, <2>7, <2>8
<1>3. values \in Seq(Int)
  <2> DEFINE n == Len(formula)
             E == Elements(formula)
  <2>1. formula \in Seq(E)
    BY <1>1 DEF IsTable
  <2>2. n \in Nat /\ DOMAIN formula = 1..n /\ \A i \in 1..n : formula[i] \in E
    <3> HIDE DEF E, formula
    <3> QED BY <2>1
  <2>3. values = [i \in 1..n |-> values[i]] /\ \A i \in 1..n : values[i] \in Int
    <3> HIDE DEF n, value, formula
    <3> QED BY <1>2, <2>2
  <2> HIDE DEF n, values
  <2> QED BY <2>2, <2>3
<1>4. product \in Int
  <2> HIDE DEF values
  <2> QED BY <1>3, WholeProduct
<1>5. Amount(b, d, s, q) = IF product < 0 THEN 0 ELSE product
  BY DEF Amount
<1> HIDE DEF product
<1> QED BY <1>4, <1>5

\* The drivers of an actor and a scenario, each with two amounts.
LEMMA SeverityType ==
  ASSUME NEW b, BookOK(b), NEW a, NEW s
  PROVE  /\ DOMAIN Severity(b, a, s) \subseteq DriverNames
         /\ \A d \in DOMAIN Severity(b, a, s), q \in 1..2 : Severity(b, a, s)[d][q] \in Nat
<1> DEFINE applies(d) == a \in ItPack.drivers[d].actors /\ s \in ItPack.drivers[d].scenarios
           low(d) == Amount(b, d, s, 1)
           high(d) == Amount(b, d, s, 2)
           D == {e \in DriverNames : applies(e) /\ (low(e) > 0 \/ high(e) > 0)}
<1>1. Severity(b, a, s) = [d \in D |-> <<low(d), Max({low(d), high(d)})>>]
  BY DEF Severity, DriverNames
<1>2. \A d \in D, q \in 1..2 : <<low(d), Max({low(d), high(d)})>>[q] \in Nat
  <2> TAKE d \in D, q \in 1..2
  <2>1. d \in DriverNames /\ s \in ItPack.drivers[d].scenarios
    OBVIOUS
  <2>2. low(d) \in Nat /\ high(d) \in Nat
    BY <2>1, AmountType
  <2> HIDE DEF low, high
  <2>3. \E i \in {low(d), high(d)} : \A j \in {low(d), high(d)} : i >= j
    BY <2>2
  <2>4. Max({low(d), high(d)}) \in Nat
    BY <2>2, <2>3 DEF Max
  <2> QED BY <2>2, <2>4
<1>3. D \subseteq DriverNames
  OBVIOUS
<1> HIDE DEF D, low, high
<1> QED BY <1>1, <1>2, <1>3

\* What a cell is made of.
PathSet == [valid : BOOLEAN, impact : Nat, success : Nat, opportunity : Nat, factor : [Blocks -> Nat]]

Loads == UNION {[D -> [1..2 -> Nat]] : D \in SUBSET DriverNames}

CellSet == [actor : ItActors, scenario : ItScenarios, route : ItRoutes, attempt : Nat,
            path : PathSet, rate : Nat, drivers : Loads]

\* A cell without another's uplift, and with it.
CellFalls(old, new) ==
  /\ new.attempt = old.attempt /\ new.rate <= old.rate
  /\ DOMAIN new.drivers = DOMAIN old.drivers
  /\ \A d \in DOMAIN old.drivers, q \in {1, 2} : new.drivers[d][q] <= old.drivers[d][q]

\* Pairs of a cell and itself under an uplift.
Fallen == {p \in CellSet \X CellSet : CellFalls(p[1], p[2])}

\* A path has a success, an exposure and a factor per block.
LEMMA PathInSet ==
  ASSUME NEW b, BookOK(b), NEW a, NEW s, NEW r \in ItRoutes, NEW x \in Settings
  PROVE  Path(b, a, s, r, x) \in PathSet
<1> DEFINE p == Path(b, a, s, r, x)
<1>1. NoneWeaker(x, x)
  <2>1. \A c \in ItControls : Effective(x[c].level) \in 1..Top
    BY LevelIndex DEF Settings
  <2>2. Top \in Nat
    BY ItSettings DEF IsTable, Top
  <2> QED BY <2>1, <2>2 DEF NoneWeaker
<1>2. PathFalls(p, p)
  BY <1>1, PathOpens
<1>3. /\ p = [valid |-> p.valid, impact |-> p.impact, success |-> p.success,
              opportunity |-> p.opportunity, factor |-> p.factor]
      /\ p.valid \in BOOLEAN /\ p.factor = [k \in Blocks |-> p.factor[k]]
      /\ p.impact = Unit \/ (b.useExposure /\ p.impact = b.exposure[r].impact)
  BY DEF Path
<1>4. p.impact \in Nat
  BY <1>3, BarrierUnit DEF BookOK
<1> HIDE DEF p
<1>5. p.factor \in [Blocks -> Nat]
  BY <1>2, <1>3 DEF PathFalls
<1> QED BY <1>2, <1>3, <1>4, <1>5 DEF PathFalls, PathSet, p

\* An uplift of a path is one of its cell.
LEMMA RouteCellFalls ==
  ASSUME NEW a \in ItActors, NEW s \in ItScenarios, NEW r \in ItRoutes, NEW attempt \in Nat,
         NEW severity, DOMAIN severity \subseteq DriverNames,
         \A d \in DOMAIN severity, q \in 1..2 : severity[d][q] \in Nat,
         NEW old \in PathSet, NEW new \in PathSet, PathFalls(old, new)
  PROVE  <<RouteCell(a, s, r, old, attempt, severity), RouteCell(a, s, r, new, attempt, severity)>>
           \in Fallen
<1> DEFINE amount(p) == [d \in DOMAIN severity |->
                          [q \in 1..2 |-> Times(severity[d][q], p.factor[ItPack.drivers[d].block])]]
           cell(p) == [actor |-> a, scenario |-> s, route |-> r, attempt |-> attempt, path |-> p,
                       rate |-> Times(attempt, p.success), drivers |-> amount(p)]
<1>1. \A p : RouteCell(a, s, r, p, attempt, severity) = cell(p)
  BY DEF RouteCell
<1>2. \A d \in DOMAIN severity, q \in 1..2 :
        amount(old)[d][q] \in Nat /\ amount(new)[d][q] \in Nat /\ amount(new)[d][q] <= amount(old)[d][q]
  <2> TAKE d \in DOMAIN severity, q \in 1..2
  <2> DEFINE k == ItPack.drivers[d].block
             u == severity[d][q]
             x == old.factor[k]
             y == new.factor[k]
  <2>1. k \in Blocks
    BY ItPackTables DEF DriverNames
  <2>2. u \in Nat /\ x \in Nat /\ y \in Nat /\ y <= x
    BY <2>1 DEF PathFalls
  <2>3. amount(old)[d][q] = Times(u, x) /\ amount(new)[d][q] = Times(u, y)
    OBVIOUS
  <2> HIDE DEF u, x, y, amount
  <2>4. u <= u
    BY <2>2
  <2>5. Times(u, y) \in Nat /\ Times(u, x) \in Nat /\ Times(u, y) <= Times(u, x)
    BY <2>2, <2>4, TimesMonotone
  <2> QED BY <2>3, <2>5
<1>3. /\ DOMAIN amount(old) = DOMAIN severity /\ DOMAIN amount(new) = DOMAIN severity
      /\ amount(old) \in Loads /\ amount(new) \in Loads
  <2>1. amount(old) \in [DOMAIN severity -> [1..2 -> Nat]] /\ amount(new) \in [DOMAIN severity -> [1..2 -> Nat]]
    BY <1>2
  <2>2. DOMAIN severity \in SUBSET DriverNames
    OBVIOUS
  <2> HIDE DEF amount
  <2> QED BY <2>1, <2>2 DEF Loads
<1>4. /\ Times(attempt, new.success) \in Nat /\ Times(attempt, old.success) \in Nat
      /\ Times(attempt, new.success) <= Times(attempt, old.success)
  <2> DEFINE x == new.success
             y == old.success
  <2>1. x \in Nat /\ y \in Nat /\ x <= y /\ attempt <= attempt
    BY DEF PathFalls
  <2> HIDE DEF x, y
  <2>2. Times(attempt, x) \in Nat /\ Times(attempt, y) \in Nat /\ Times(attempt, x) <= Times(attempt, y)
    BY <2>1, TimesMonotone
  <2> QED BY <2>2 DEF x, y
<1> HIDE DEF amount
<1>5. cell(old) \in CellSet /\ cell(new) \in CellSet
  BY <1>3, <1>4 DEF CellSet
<1>6. CellFalls(cell(old), cell(new))
  BY <1>2, <1>3, <1>4 DEF CellFalls
<1>7. <<cell(old), cell(new)>> \in Fallen
  <2> DEFINE x == cell(old)
             y == cell(new)
  <2>1. x \in CellSet /\ y \in CellSet /\ CellFalls(x, y)
    BY <1>5, <1>6
  <2> HIDE DEF x, y
  <2>2. <<x, y>> \in Fallen
    BY <2>1 DEF Fallen
  <2> QED BY <2>2 DEF x, y
<1> HIDE DEF cell
<1> QED BY <1>1, <1>7

\* A table's items, by place.
LEMMA TableItems ==
  ASSUME NEW s, IsTable(s)
  PROVE  Len(s) \in Nat /\ DOMAIN s = 1..Len(s) /\ \A i \in 1..Len(s) : s[i] \in Elements(s)
<1> DEFINE E == Elements(s)
<1>1. s \in Seq(E)
  BY DEF IsTable
<1> HIDE DEF E
<1>2. Len(s) \in Nat /\ DOMAIN s = 1..Len(s) /\ \A i \in 1..Len(s) : s[i] \in E
  BY <1>1
<1> QED BY <1>2 DEF E

\* An actor's attempts are a whole number.
LEMMA AttemptsType ==
  ASSUME NEW a \in ItActors, NEW s \in ItScenarios
  PROVE  Attempts(a, s) \in Nat
<1> DEFINE x == ItPack.rate
           y == ItPack.weight[a]
           z == ItPack.actorScenario[a][s]
<1>1. x \in Nat /\ y \in Nat /\ z \in Nat
  BY ItPackTables
<1>2. Attempts(a, s) = x * y * z
  BY DEF Attempts
<1> HIDE DEF x, y, z
<1>3. x * y \in Nat
  BY <1>1
<1>4. x * y * z \in Nat
  BY <1>1, <1>3
<1> QED BY <1>2, <1>4

\* Both sides share the attempts in the same way.
LEMMA CellsOverFall ==
  ASSUME NEW a \in ItActors, NEW s \in ItScenarios,
         NEW severity, DOMAIN severity \subseteq DriverNames,
         \A d \in DOMAIN severity, q \in 1..2 : severity[d][q] \in Nat,
         NEW old \in [ItRoutes -> PathSet], NEW new \in [ItRoutes -> PathSet],
         \A r \in ItRoutes : PathFalls(old[r], new[r]),
         NEW raw \in [ItRoutes -> Nat], NEW all \in Nat
  PROVE  /\ CellsOver(a, s, old, raw, all, severity) \in Seq(CellSet)
         /\ CellsOver(a, s, new, raw, all, severity) \in Seq(CellSet)
         /\ Alike(CellsOver(a, s, old, raw, all, severity),
                  CellsOver(a, s, new, raw, all, severity), Fallen)
<1>1. CASE all = 0
  BY <1>1 DEF CellsOver, Alike
<1>2. CASE all # 0
  <2> DEFINE n == Len(ItPack.routes)
             route(i) == ItPack.routes[i]
             attempt(p, r) == Times((Attempts(a, s) * raw[r]) \div all, p[r].opportunity)
             cell(p, i) == RouteCell(a, s, route(i), p[route(i)], attempt(p, route(i)), severity)
             cells(p) == [i \in 1..n |-> cell(p, i)]
  <2>1. n \in Nat /\ DOMAIN ItPack.routes = 1..n /\ \A i \in 1..n : route(i) \in ItRoutes
    BY ItPackTables, TableItems DEF ItRoutes
  <2>2. \A p : CellsOver(a, s, p, raw, all, severity) = cells(p)
    BY <1>2, <2>1 DEF CellsOver
  <2>3. \A i \in 1..n : <<cell(old, i), cell(new, i)>> \in Fallen
    <3> TAKE i \in 1..n
    <3> DEFINE r == route(i)
               t == attempt(old, r)
               x == old[r]
               y == new[r]
    <3>1. r \in ItRoutes
      BY <2>1
    <3>2. x \in PathSet /\ y \in PathSet /\ PathFalls(x, y)
      BY <3>1
    <3>3. attempt(new, r) = t
      BY <3>2 DEF PathFalls
    <3>4. t \in Nat
      <4> DEFINE share == (Attempts(a, s) * raw[r]) \div all
                 open == x.opportunity
      <4>1. share \in Nat
        <5> DEFINE u == Attempts(a, s)
                   v == raw[r]
                   w == u * v
        <5>1. u \in Nat /\ v \in Nat
          BY <3>1, AttemptsType
        <5> HIDE DEF u, v
        <5>2. w \in Nat
          BY <5>1
        <5> HIDE DEF w
        <5>3. w \div all \in Nat
          BY <1>2, <5>2, DivNatural
        <5> QED BY <5>3 DEF u, v, w
      <4>2. open \in Nat
        BY <3>2 DEF PathFalls
      <4>3. t = Times(share, open)
        OBVIOUS
      <4> HIDE DEF share, open
      <4> QED BY <4>1, <4>2, <4>3, TimesNatural
    <3>5. cell(old, i) = RouteCell(a, s, r, x, t, severity) /\ cell(new, i) = RouteCell(a, s, r, y, t, severity)
      BY <3>3
    <3> HIDE DEF r, t, x, y, cell
    <3>6. <<RouteCell(a, s, r, x, t, severity), RouteCell(a, s, r, y, t, severity)>> \in Fallen
      BY <3>1, <3>2, <3>4, RouteCellFalls
    <3> QED BY <3>5, <3>6
  <2> HIDE DEF cell, route, attempt
  <2>4. \A i \in 1..n : cell(old, i) \in CellSet /\ cell(new, i) \in CellSet
    BY <2>3 DEF Fallen
  <2> DEFINE x == cells(old)
             y == cells(new)
  <2>5. x \in Seq(CellSet) /\ y \in Seq(CellSet) /\ Len(x) = n /\ Len(y) = n
    <3> HIDE DEF n
    <3>1. x \in [1..n -> CellSet] /\ y \in [1..n -> CellSet]
      BY <2>4
    <3> HIDE DEF x, y
    <3> QED BY <2>1, <3>1
  <2>6. Alike(x, y, Fallen)
    <3>1. \A i \in 1..n : x[i] = cell(old, i) /\ y[i] = cell(new, i)
      OBVIOUS
    <3> HIDE DEF x, y, n
    <3> QED BY <2>3, <2>5, <3>1 DEF Alike
  <2> HIDE DEF n, cells
  <2>7. CellsOver(a, s, old, raw, all, severity) = x /\ CellsOver(a, s, new, raw, all, severity) = y
    BY <2>2
  <2> QED BY <2>5, <2>6, <2>7
<1> QED BY <1>1, <1>2

\* Stronger controls give the cells of an actor and a scenario, none of which rises.
LEMMA CellsOfFall ==
  ASSUME NEW b, BookOK(b), NEW a \in ItActors, NEW s \in ItScenarios,
         NEW low \in Settings, NEW high \in Settings, NoneWeaker(low, high)
  PROVE  /\ CellsOf(b, low, a, s) \in Seq(CellSet) /\ CellsOf(b, high, a, s) \in Seq(CellSet)
         /\ Alike(CellsOf(b, low, a, s), CellsOf(b, high, a, s), Fallen)
<1> DEFINE path(x) == [r \in ItRoutes |-> Path(b, a, s, r, x)]
           raw(x) == [r \in ItRoutes |-> OpenPropensity(path(x), a, s, r)]
           old == path(low)
           new == path(high)
           shares == raw(low)
           weights == [i \in DOMAIN ItPack.routes |-> shares[ItPack.routes[i]]]
           all == SumOf(weights)
           severity == Severity(b, a, s)
<1>1. /\ old \in [ItRoutes -> PathSet] /\ new \in [ItRoutes -> PathSet]
      /\ \A r \in ItRoutes : PathFalls(old[r], new[r])
  BY PathInSet, PathOpens
<1>2. raw(high) = shares
  <2>1. \A r \in ItRoutes : new[r].valid = old[r].valid
    BY <1>1 DEF PathFalls
  <2> HIDE DEF old, new
  <2>2. \A r \in ItRoutes : OpenPropensity(old, a, s, r) = OpenPropensity(new, a, s, r)
    BY <2>1 DEF OpenPropensity
  <2>3. shares = [r \in ItRoutes |-> OpenPropensity(old, a, s, r)]
        /\ raw(high) = [r \in ItRoutes |-> OpenPropensity(new, a, s, r)]
    BY DEF old, new
  <2> QED BY <2>2, <2>3
<1>3. shares \in [ItRoutes -> Nat]
  <2>1. \A r \in ItRoutes : OpenPropensity(old, a, s, r) \in Nat
    <3> TAKE r \in ItRoutes
    <3> DEFINE u == ItPack.actorRoute[a][r]
               v == ItPack.scenarioRoute[s][r]
    <3>1. u \in Nat /\ v \in Nat
      BY ItPackTables
    <3>2. OpenPropensity(old, a, s, r) \in {0, u * v}
      BY DEF OpenPropensity
    <3> HIDE DEF u, v, old
    <3>3. u * v \in Nat
      BY <3>1
    <3> QED BY <3>2, <3>3
  <2>2. shares = [r \in ItRoutes |-> OpenPropensity(old, a, s, r)]
    OBVIOUS
  <2> HIDE DEF shares, old
  <2> QED BY <2>1, <2>2
<1>4. CellsOf(b, low, a, s) = CellsOver(a, s, old, shares, all, severity)
  BY DEF CellsOf, CellsAlong, CellsOn
<1>5. CellsOf(b, high, a, s) = CellsOver(a, s, new, shares, all, severity)
  <2>1. CellsOf(b, high, a, s) = CellsOn(a, s, new, raw(high), severity)
    BY DEF CellsOf, CellsAlong
  <2> HIDE DEF shares, new, severity, raw
  <2>2. CellsOn(a, s, new, shares, severity) = CellsOver(a, s, new, shares, all, severity)
    BY DEF CellsOn
  <2> QED BY <1>2, <2>1, <2>2
<1>6. DOMAIN severity \subseteq DriverNames /\ \A d \in DOMAIN severity, q \in 1..2 : severity[d][q] \in Nat
  BY SeverityType
<1> HIDE DEF old, new, shares, severity
<1>7. all \in Nat
  <2> DEFINE n == Len(ItPack.routes)
  <2>1. n \in Nat /\ DOMAIN ItPack.routes = 1..n /\ \A i \in 1..n : ItPack.routes[i] \in ItRoutes
    BY ItPackTables, TableItems DEF ItRoutes
  <2>2. weights = [i \in 1..n |-> weights[i]] /\ \A i \in 1..n : weights[i] \in Nat
    <3> HIDE DEF n
    <3> QED BY <1>3, <2>1
  <2> HIDE DEF n, weights
  <2>3. weights \in Seq(Nat)
    BY <2>1, <2>2
  <2> QED BY <2>3, SumNatural
<1> HIDE DEF all
<1>8. /\ CellsOver(a, s, old, shares, all, severity) \in Seq(CellSet)
      /\ CellsOver(a, s, new, shares, all, severity) \in Seq(CellSet)
      /\ Alike(CellsOver(a, s, old, shares, all, severity),
               CellsOver(a, s, new, shares, all, severity), Fallen)
  BY <1>1, <1>3, <1>6, <1>7, CellsOverFall
<1> QED BY <1>4, <1>5, <1>8

\* Stronger controls give as many cells, none of which rises.
LEMMA CellsFall ==
  ASSUME NEW b, BookOK(b), NEW low \in Settings, NEW high \in Settings, NoneWeaker(low, high)
  PROVE  /\ Cells(b, low) \in Seq(CellSet) /\ Cells(b, high) \in Seq(CellSet)
         /\ Alike(Cells(b, low), Cells(b, high), Fallen)
<1> DEFINE n == Len(ItPack.actors)
           m == Len(ItPack.scenarios)
           of(x, a) == [j \in 1..m |-> CellsOf(b, x, a, ItPack.scenarios[j])]
           all(x) == [i \in 1..n |-> Concat(of(x, ItPack.actors[i]))]
           ss == all(low)
           tt == all(high)
<1>1. /\ n \in Nat /\ DOMAIN ItPack.actors = 1..n /\ \A i \in 1..n : ItPack.actors[i] \in ItActors
      /\ m \in Nat /\ DOMAIN ItPack.scenarios = 1..m /\ \A j \in 1..m : ItPack.scenarios[j] \in ItScenarios
  BY ItPackTables, TableItems DEF ItActors, ItScenarios
<1>2. Cells(b, low) = Concat(ss) /\ Cells(b, high) = Concat(tt)
  BY <1>1 DEF Cells
<1> HIDE DEF n, m
<1>3. ASSUME NEW a \in ItActors
      PROVE  /\ Concat(of(low, a)) \in Seq(CellSet) /\ Concat(of(high, a)) \in Seq(CellSet)
             /\ Alike(Concat(of(low, a)), Concat(of(high, a)), Fallen)
  <2> DEFINE x == of(low, a)
             y == of(high, a)
  <2>1. \A j \in 1..m : x[j] \in Seq(CellSet) /\ y[j] \in Seq(CellSet) /\ Alike(x[j], y[j], Fallen)
    <3> TAKE j \in 1..m
    <3> DEFINE s == ItPack.scenarios[j]
    <3>1. s \in ItScenarios
      BY <1>1
    <3>2. x[j] = CellsOf(b, low, a, s) /\ y[j] = CellsOf(b, high, a, s)
      OBVIOUS
    <3> HIDE DEF s, x, y
    <3>3. /\ CellsOf(b, low, a, s) \in Seq(CellSet) /\ CellsOf(b, high, a, s) \in Seq(CellSet)
          /\ Alike(CellsOf(b, low, a, s), CellsOf(b, high, a, s), Fallen)
      BY <1>3, <3>1, CellsOfFall
    <3> QED BY <3>2, <3>3
  <2>2. x = [j \in 1..m |-> x[j]] /\ y = [j \in 1..m |-> y[j]]
    OBVIOUS
  <2> DEFINE F == Fallen
             V == Seq(CellSet)
  <2> HIDE DEF x, y
  <2>3. x \in [1..m -> Seq(CellSet)] /\ y \in [1..m -> Seq(CellSet)]
    <3>1. \A j \in 1..m : x[j] \in V /\ y[j] \in V
      BY <2>1
    <3> HIDE DEF V
    <3>2. x \in [1..m -> V] /\ y \in [1..m -> V]
      BY <2>2, <3>1
    <3> QED BY <3>2 DEF V
  <2>4. Concat(x) \in Seq(CellSet) /\ Concat(y) \in Seq(CellSet) /\ Alike(Concat(x), Concat(y), F)
    <3>1. \A j \in 1..m : Alike(x[j], y[j], F)
      BY <2>1
    <3> HIDE DEF F
    <3> QED BY <1>1, <2>3, <3>1, ConcatAlike
  <2> QED BY <2>4 DEF x, y
<1>4. \A i \in 1..n : /\ ss[i] \in Seq(CellSet) /\ tt[i] \in Seq(CellSet)
                      /\ Alike(ss[i], tt[i], Fallen)
  <2> TAKE i \in 1..n
  <2> DEFINE a == ItPack.actors[i]
  <2>1. a \in ItActors
    BY <1>1
  <2>2. ss[i] = Concat(of(low, a)) /\ tt[i] = Concat(of(high, a))
    OBVIOUS
  <2> HIDE DEF a, of, ss, tt
  <2> QED BY <1>3, <2>1, <2>2
<1>5. ss = [i \in 1..n |-> ss[i]] /\ tt = [i \in 1..n |-> tt[i]]
  OBVIOUS
<1> HIDE DEF ss, tt
<1> DEFINE F == Fallen
           V == Seq(CellSet)
<1>6. ss \in [1..n -> Seq(CellSet)] /\ tt \in [1..n -> Seq(CellSet)]
  <2>1. \A i \in 1..n : ss[i] \in V /\ tt[i] \in V
    BY <1>4
  <2> HIDE DEF V
  <2>2. ss \in [1..n -> V] /\ tt \in [1..n -> V]
    BY <1>5, <2>1
  <2> QED BY <2>2 DEF V
<1>7. Concat(ss) \in Seq(CellSet) /\ Concat(tt) \in Seq(CellSet) /\ Alike(Concat(ss), Concat(tt), F)
  <2>1. \A i \in 1..n : Alike(ss[i], tt[i], F)
    BY <1>4
  <2> HIDE DEF F
  <2> QED BY <1>1, <1>6, <2>1, ConcatAlike
<1> QED BY <1>2, <1>7

-----------------------------------------------------------------------------
(* Sums over two sets, and over the classes of one.                        *)

-----------------------------------------------------------------------------
(* Adding up a simulation.                                                 *)

\* What a simulation holds.
YearLoss == [ItYears -> Nat]

\* What a simulation keeps.
SimSet == [pos : Nat, annual : YearLoss, largest : YearLoss,
           actor : [ItActors -> YearLoss], scenario : [ItScenarios -> YearLoss],
           block : [Blocks -> YearLoss], driver : [DriverNames -> YearLoss]]

\* The years are finitely many.
LEMMA FiniteYears == IsFiniteSet(ItYears) /\ Cardinality(ItYears) \in Nat /\ ItYears = 1..Cardinality(ItYears)
BY ItSettings, FS_CardinalityType

\* Losses are added year by year.
LEMMA PlusType ==
  ASSUME NEW x \in YearLoss, NEW z \in YearLoss
  PROVE  Plus(x, z) \in YearLoss /\ \A y \in ItYears : Plus(x, z)[y] = x[y] + z[y]
BY DEF Plus, YearLoss

\* A contribution is added to its row of a table and to no other.
LEMMA AddToType ==
  ASSUME NEW K, NEW table \in [K -> YearLoss], NEW key \in K, NEW years \in YearLoss
  PROVE  /\ AddTo(table, key, years) \in [K -> YearLoss]
         /\ \A k \in K, y \in ItYears :
              AddTo(table, key, years)[k][y] = table[k][y] + (IF k = key THEN years[y] ELSE 0)
<1> DEFINE V == YearLoss
           z == Plus(table[key], years)
           new == AddTo(table, key, years)
<1>1. z \in V /\ \A y \in ItYears : z[y] = table[key][y] + years[y]
  BY PlusType
<1>2. new = [table EXCEPT ![key] = z]
  BY DEF AddTo
<1>3. new \in [K -> V] /\ new[key] = z /\ \A k \in K : k # key => new[k] = table[k]
  <2> HIDE DEF V, z, new
  <2> QED BY <1>1, <1>2 DEF V
<1>4. ASSUME NEW k \in K, NEW y \in ItYears
      PROVE  new[k][y] = table[k][y] + (IF k = key THEN years[y] ELSE 0)
  <2>1. table[k][y] \in Nat
    BY DEF YearLoss
  <2> HIDE DEF new, z
  <2> QED BY <1>1, <1>3, <2>1
<1> QED BY <1>3, <1>4

\* The tables of the drivers, and of their blocks, as partitions.
BlockOf == [d \in DriverNames |-> ItPack.drivers[d].block]

ItSelf == [d \in DriverNames |-> d]

\* Everything but the drivers' tables.
SameTotals(x, z) ==
  /\ x.pos = z.pos /\ x.annual = z.annual /\ x.largest = z.largest
  /\ x.actor = z.actor /\ x.scenario = z.scenario

\* A driver adds to its own row and to the row of its block.
LEMMA DriverAdded ==
  ASSUME NEW sim \in SimSet, NEW d \in DriverNames, NEW years \in YearLoss
  PROVE  LET new == AddDriver(sim, d, years) IN
         /\ new \in SimSet /\ SameTotals(new, sim)
         /\ \A k \in Blocks, y \in ItYears :
              new.block[k][y] = sim.block[k][y] + (IF BlockOf[d] = k THEN years[y] ELSE 0)
         /\ \A k \in DriverNames, y \in ItYears :
              new.driver[k][y] = sim.driver[k][y] + (IF ItSelf[d] = k THEN years[y] ELSE 0)
<1> DEFINE b == ItPack.drivers[d].block
           u == sim.block
           v == sim.driver
           B == AddTo(u, b, years)
           T == AddTo(v, d, years)
           new == AddDriver(sim, d, years)
<1>1. b \in Blocks /\ BlockOf[d] = b /\ ItSelf[d] = d
  BY ItPackTables DEF DriverNames, BlockOf, ItSelf
<1>2. u \in [Blocks -> YearLoss] /\ v \in [DriverNames -> YearLoss]
  BY DEF SimSet
<1>3. new = [sim EXCEPT !.driver = T, !.block = B]
  BY DEF AddDriver
<1> HIDE DEF u, v, b, new
<1>4. B \in [Blocks -> YearLoss] /\ \A k \in Blocks, y \in ItYears :
        B[k][y] = u[k][y] + (IF k = b THEN years[y] ELSE 0)
  <2>1. b \in Blocks
    BY <1>1
  <2>2. u \in [Blocks -> YearLoss]
    BY <1>2
  <2>3. B \in [Blocks -> YearLoss]
    BY <2>1, <2>2, AddToType
  <2>4. ASSUME NEW k \in Blocks, NEW y \in ItYears
        PROVE  B[k][y] = u[k][y] + (IF k = b THEN years[y] ELSE 0)
    BY <2>1, <2>2, AddToType
  <2> QED BY <2>3, <2>4
<1>5. T \in [DriverNames -> YearLoss] /\ \A k \in DriverNames, y \in ItYears :
        T[k][y] = v[k][y] + (IF k = d THEN years[y] ELSE 0)
  BY <1>2, AddToType
<1> HIDE DEF B, T
<1>6. new \in SimSet /\ new.block = B /\ new.driver = T /\ SameTotals(new, sim)
  BY <1>3, <1>4, <1>5 DEF SimSet, SameTotals
<1> QED BY <1>1, <1>4, <1>5, <1>6 DEF new, u, v

\* A driver keeps a simulation one.
LEMMA DriverAddedType ==
  ASSUME NEW sim \in SimSet, NEW d \in DriverNames, NEW years \in YearLoss
  PROVE  AddDriver(sim, d, years) \in SimSet
BY DriverAdded

\* What the drivers lose by year.
Yearly(yearOf, loss) == [d \in DOMAIN loss |-> ByYear(yearOf, loss[d])]

\* The drivers are added one after the other.
Drives(p, sim, D, vs) ==
  /\ p \in [0..Cardinality(D) -> SimSet]
  /\ p[0] = sim
  /\ \A i \in 1..Cardinality(D) :
       p[i] = AddDriver(p[i - 1], SetToSeq(D)[i], vs[SetToSeq(D)[i]])

\* The drivers of an event are folded in the order of their names.
LEMMA DriversFold ==
  ASSUME NEW sim \in SimSet, NEW yearOf, NEW loss, NEW D, D = DOMAIN loss,
         D \subseteq DriverNames, IsFiniteSet(D),
         NEW vs, vs = Yearly(yearOf, loss), vs \in [D -> YearLoss]
  PROVE  \E p : Drives(p, sim, D, vs) /\ AddDrivers(sim, yearOf, loss) = p[Cardinality(D)]
<1> DEFINE V == SimSet
           n == Cardinality(D)
           s == SetToSeq(D)
           step == [i \in 1..n |-> [acc \in V |-> AddDriver(acc, s[i], vs[s[i]])]]
           Is(h) == h = [T \in SUBSET (1..n) |->
                           IF T = {} THEN sim
                           ELSE AddDriver(h[T \ {Max(T)}], s[Max(T)], ByYear(yearOf, loss[s[Max(T)]]))]
           h == CHOOSE h : Is(h)
<1>1. n \in Nat /\ s \in [1..n -> D]
  BY Listing
<1> HIDE DEF n, s
<1>2. \A i \in 1..n, acc \in V : AddDriver(acc, s[i], vs[s[i]]) \in V
  <2> TAKE i \in 1..n, acc \in V
  <2> DEFINE d == s[i]
             x == vs[d]
  <2>1. d \in DriverNames /\ x \in YearLoss
    BY <1>1
  <2> HIDE DEF d, x
  <2>2. AddDriver(acc, d, x) \in SimSet
    BY <2>1, DriverAddedType
  <2> QED BY <2>2 DEF d, x
<1>3. step \in [1..n -> [V -> V]] /\ \A i \in 1..n, acc \in V : step[i][acc] = AddDriver(acc, s[i], vs[s[i]])
  <2> HIDE DEF V
  <2> QED BY <1>2
<1>4. sim \in V
  OBVIOUS
<1>5. \A i \in 1..n : vs[s[i]] = ByYear(yearOf, loss[s[i]])
  BY <1>1 DEF Yearly
<1> HIDE DEF V, step
<1>6. \E f : Is(f)
  <2>1. PICK f \in [SUBSET (1..n) -> V] : Folds(f, sim, n, step)
    <3>1. step \in [1..n -> [V -> V]] /\ n \in Nat
      BY <1>1, <1>3
    <3> QED BY <3>1, <1>4, FoldExists
  <2>2. ASSUME NEW T \in SUBSET (1..n)
        PROVE  f[T] = IF T = {} THEN sim
                      ELSE AddDriver(f[T \ {Max(T)}], s[Max(T)], ByYear(yearOf, loss[s[Max(T)]]))
    <3>1. f[T] = IF T = {} THEN sim ELSE step[Max(T)][f[T \ {Max(T)}]]
      BY <2>1 DEF Folds
    <3>2. T # {} => Max(T) \in 1..n /\ f[T \ {Max(T)}] \in V
      BY <1>1, GreatestIndex
    <3> QED BY <3>1, <3>2, <1>3, <1>5
  <2>3. f = [T \in SUBSET (1..n) |-> f[T]]
    OBVIOUS
  <2> QED BY <2>2, <2>3
<1>7. Is(h)
  <2> HIDE DEF Is
  <2> QED BY <1>6
<1>8. AddDrivers(sim, yearOf, loss) = h[1..n]
  <2>1. SetToSeq(DOMAIN loss) = s /\ DOMAIN s = 1..n
    BY <1>1 DEF s
  <2> QED BY <2>1 DEF AddDrivers, FoldLeft, MapThenFoldSet
<1>9. h[{}] = sim
  <2>1. {} \in SUBSET (1..n)
    OBVIOUS
  <2> QED BY <1>7, <2>1
<1> HIDE DEF h
<1>10. \A T \in SUBSET (1..n) : T # {} /\ h[T \ {Max(T)}] \in V =>
         h[T] = step[Max(T)][h[T \ {Max(T)}]]
  <2> SUFFICES ASSUME NEW T \in SUBSET (1..n), T # {}, h[T \ {Max(T)}] \in V
               PROVE  h[T] = step[Max(T)][h[T \ {Max(T)}]]
    OBVIOUS
  <2>1. h[T] = AddDriver(h[T \ {Max(T)}], s[Max(T)], ByYear(yearOf, loss[s[Max(T)]]))
    BY <1>7
  <2>2. Max(T) \in 1..n
    BY <1>1, GreatestIndex
  <2> QED BY <1>3, <1>5, <2>1, <2>2
<1>11. FoldsIn(h, V, sim, n, step)
  BY <1>9, <1>10 DEF FoldsIn
<1> HIDE DEF Is
<1>a. PICK p : FoldPath(p, h, V, sim, n, step)
  <2>1. step \in [1..n -> [V -> V]] /\ n \in Nat
    BY <1>1, <1>3
  <2>2. FoldOver(h, V, sim, n, step)
    BY <2>1, <1>4, <1>11 DEF FoldOver
  <2> QED BY <2>2, FoldEnds
<1>12. Iterates(p, sim, n, step) /\ p \in [0..n -> V] /\ h[1..n] = p[n]
  BY <1>a DEF FoldPath
<1>13. p[0] = sim /\ \A i \in 1..n : p[i] = AddDriver(p[i - 1], s[i], vs[s[i]])
  <2>1. p[0] = sim /\ \A i \in 1..n : p[i] = step[i][p[i - 1]]
    BY <1>1, <1>12 DEF Iterates
  <2>2. \A i \in 1..n : p[i - 1] \in V
    BY <1>1, <1>12
  <2> QED BY <1>3, <2>1, <2>2
<1> QED BY <1>8, <1>12, <1>13 DEF Drives, V, n, s

\* What each driver loses in a year.
LossIn(vs, y) == [d \in DOMAIN vs |-> vs[d][y]]

\* All drivers add to each block what is the block's and to each driver what is its own.
LEMMA DriversAdded ==
  ASSUME NEW sim \in SimSet, NEW yearOf, NEW loss, NEW D, D = DOMAIN loss,
         D \subseteq DriverNames, IsFiniteSet(D),
         NEW vs, vs = Yearly(yearOf, loss), vs \in [D -> YearLoss],
         NEW new, new = AddDrivers(sim, yearOf, loss)
  PROVE  /\ new \in SimSet /\ SameTotals(new, sim)
         /\ \A k \in Blocks, y \in ItYears :
              new.block[k][y] = sim.block[k][y] + Part(LossIn(vs, y), BlockOf, k)
         /\ \A k \in DriverNames, y \in ItYears :
              new.driver[k][y] = sim.driver[k][y] + Part(LossIn(vs, y), ItSelf, k)
<1> DEFINE n == Cardinality(D)
           s == SetToSeq(D)
<1>1. PICK p : Drives(p, sim, D, vs) /\ AddDrivers(sim, yearOf, loss) = p[n]
  BY DriversFold
<1>2. n \in Nat /\ s \in [1..n -> D]
  BY Listing
<1>3. /\ p \in [0..n -> SimSet] /\ p[0] = sim
      /\ \A i \in 1..n : p[i] = AddDriver(p[i - 1], s[i], vs[s[i]])
  BY <1>1 DEF Drives
<1>4. new = p[n]
  BY <1>1
<1> HIDE DEF n, s
<1>5. ASSUME NEW i \in 1..n
      PROVE  /\ SameTotals(p[i], p[i - 1])
             /\ \A k \in Blocks, y \in ItYears :
                  p[i].block[k][y] = p[i - 1].block[k][y] + (IF BlockOf[s[i]] = k THEN vs[s[i]][y] ELSE 0)
             /\ \A k \in DriverNames, y \in ItYears :
                  p[i].driver[k][y] = p[i - 1].driver[k][y] + (IF ItSelf[s[i]] = k THEN vs[s[i]][y] ELSE 0)
  <2> DEFINE a == p[i - 1]
             d == s[i]
             x == vs[d]
             b == AddDriver(a, d, x)
  <2>1. a \in SimSet /\ d \in DriverNames /\ x \in YearLoss
    BY <1>2, <1>3
  <2>2. p[i] = b
    BY <1>3
  <2> HIDE DEF a, d, x
  <2>3. /\ SameTotals(b, a)
        /\ \A k \in Blocks, y \in ItYears :
             b.block[k][y] = a.block[k][y] + (IF BlockOf[d] = k THEN x[y] ELSE 0)
        /\ \A k \in DriverNames, y \in ItYears :
             b.driver[k][y] = a.driver[k][y] + (IF ItSelf[d] = k THEN x[y] ELSE 0)
    BY <2>1, DriverAdded
  <2> HIDE DEF b
  <2> QED BY <2>2, <2>3 DEF a, d, x, SameTotals
<1>6. SameTotals(p[n], sim)
  <2> DEFINE R == {i \in 0..n : SameTotals(p[i], sim)}
  <2>1. 0 \in R
    BY <1>2, <1>3 DEF SameTotals
  <2>2. ASSUME NEW i \in 1..n, i - 1 \in R PROVE i \in R
    BY <1>2, <1>5, <2>2 DEF SameTotals
  <2>3. \A i \in 0..n : i \in R
    <3> HIDE DEF R
    <3> QED BY <1>2, <2>1, <2>2, UpTo
  <2> QED BY <1>2, <2>3
<1>7. ASSUME NEW y \in ItYears, NEW c, NEW k, NEW q,
             \A i \in 0..n : q[i] \in Int,
             \A i \in 1..n : q[i] = q[i - 1] + (IF c[s[i]] = k THEN vs[s[i]][y] ELSE 0)
      PROVE  q[n] = q[0] + Part(LossIn(vs, y), c, k)
  <2> DEFINE w == [e \in D |-> IF c[e] = k THEN vs[e][y] ELSE 0]
  <2>1. \A e \in D : vs[e][y] \in Int
    BY DEF YearLoss
  <2>2. w \in [D -> Int]
    BY <2>1
  <2>3. Accumulates(q, D, w)
    BY <1>2, <1>7, <2>2 DEF Accumulates, n, s
  <2>4. Part(LossIn(vs, y), c, k) = SumOver(w)
    <3>1. [e \in DOMAIN LossIn(vs, y) |-> IF c[e] = k THEN LossIn(vs, y)[e] ELSE 0] = w
      BY DEF LossIn
    <3> HIDE DEF w
    <3> QED BY <3>1 DEF Part
  <2> HIDE DEF w
  <2>5. q[Cardinality(D)] = q[0] + SumOver(w)
    BY <2>3, Accumulated
  <2> QED BY <2>4, <2>5 DEF n
<1>8. ASSUME NEW k \in Blocks, NEW y \in ItYears
      PROVE  new.block[k][y] = sim.block[k][y] + Part(LossIn(vs, y), BlockOf, k)
  <2> DEFINE q == [i \in 0..n |-> p[i].block[k][y]]
  <2>1. \A i \in 0..n : q[i] \in Int
    <3> TAKE i \in 0..n
    <3>1. p[i] \in SimSet
      BY <1>3
    <3>2. p[i].block \in [Blocks -> [ItYears -> Nat]]
      BY <3>1 DEF SimSet, YearLoss
    <3> QED BY <3>2
  <2>2. \A i \in 1..n : q[i] = q[i - 1] + (IF BlockOf[s[i]] = k THEN vs[s[i]][y] ELSE 0)
    <3> TAKE i \in 1..n
    <3>1. i \in 0..n /\ i - 1 \in 0..n
      BY <1>2
    <3>2. q[i] = p[i].block[k][y] /\ q[i - 1] = p[i - 1].block[k][y]
      BY <3>1
    <3> HIDE DEF q
    <3> QED BY <1>5, <3>2
  <2>3. q[n] = new.block[k][y] /\ q[0] = sim.block[k][y]
    BY <1>2, <1>3, <1>4
  <2> HIDE DEF q
  <2>4. q[n] = q[0] + Part(LossIn(vs, y), BlockOf, k)
    BY <1>7, <2>1, <2>2
  <2> QED BY <2>3, <2>4
<1>9. ASSUME NEW k \in DriverNames, NEW y \in ItYears
      PROVE  new.driver[k][y] = sim.driver[k][y] + Part(LossIn(vs, y), ItSelf, k)
  <2> DEFINE q == [i \in 0..n |-> p[i].driver[k][y]]
  <2>1. \A i \in 0..n : q[i] \in Int
    <3> TAKE i \in 0..n
    <3>1. p[i] \in SimSet
      BY <1>3
    <3>2. p[i].driver \in [DriverNames -> [ItYears -> Nat]]
      BY <3>1 DEF SimSet, YearLoss
    <3> QED BY <3>2
  <2>2. \A i \in 1..n : q[i] = q[i - 1] + (IF ItSelf[s[i]] = k THEN vs[s[i]][y] ELSE 0)
    <3> TAKE i \in 1..n
    <3>1. i \in 0..n /\ i - 1 \in 0..n
      BY <1>2
    <3>2. q[i] = p[i].driver[k][y] /\ q[i - 1] = p[i - 1].driver[k][y]
      BY <3>1
    <3> HIDE DEF q
    <3> QED BY <1>5, <3>2
  <2>3. q[n] = new.driver[k][y] /\ q[0] = sim.driver[k][y]
    BY <1>2, <1>3, <1>4
  <2> HIDE DEF q
  <2>4. q[n] = q[0] + Part(LossIn(vs, y), ItSelf, k)
    BY <1>7, <2>1, <2>2
  <2> QED BY <2>3, <2>4
<1>10. new \in SimSet
  BY <1>2, <1>3, <1>4
<1> QED BY <1>4, <1>6, <1>8, <1>9, <1>10

-----------------------------------------------------------------------------
(* Sums of what is not negative.                                           *)

\* A table's year is a number per row.
LEMMA ColumnType ==
  ASSUME NEW K, NEW table \in [K -> YearLoss], NEW y \in ItYears
  PROVE  /\ Column(table, y) \in [K -> Nat] /\ Column(table, y) \in [K -> Int]
         /\ \A k \in K : Column(table, y)[k] = table[k][y]
BY DEF Column, YearLoss

\* A contribution to a table adds to the year what it contributes.
LEMMA AddToShares ==
  ASSUME NEW K, IsFiniteSet(K), NEW table \in [K -> YearLoss], NEW key \in K,
         NEW years \in YearLoss, NEW y \in ItYears
  PROVE  SumOver(Column(AddTo(table, key, years), y)) = SumOver(Column(table, y)) + years[y]
<1> DEFINE new == AddTo(table, key, years)
           f == Column(table, y)
           g == Column(new, y)
           x == years[y]
<1>1. new \in [K -> YearLoss] /\ \A k \in K : new[k][y] = table[k][y] + (IF k = key THEN years[y] ELSE 0)
  BY AddToType
<1> HIDE DEF new
<1>2. f \in [K -> Int] /\ \A k \in K : f[k] = table[k][y]
  BY ColumnType
<1>3. g \in [K -> Int] /\ \A k \in K : g[k] = new[k][y]
  BY <1>1, ColumnType
<1>4. x \in Int
  BY DEF YearLoss
<1>5. g[key] = f[key] + x
  BY <1>1, <1>2, <1>3
<1>6. \A j \in K : j # key => g[j] = f[j]
  <2> TAKE j \in K
  <2>1. f[j] \in Int /\ f[j] = table[j][y] /\ g[j] = new[j][y]
    BY <1>2, <1>3
  <2> HIDE DEF f, g, x
  <2> QED BY <1>1, <2>1
<1> HIDE DEF f, g, x
<1>7. SumOver(g) = SumOver(f) + x
  BY <1>2, <1>3, <1>4, <1>5, <1>6, SumOverChanged
<1> QED BY <1>7 DEF f, g, x, new

\* No event of a year loses more than the year, and a year of none loses nothing.
LEMMA ByYearType ==
  ASSUME NEW total \in Nat, NEW yearOf \in [1..total -> ItYears], NEW losses \in [1..total -> Nat]
  PROVE  /\ ByYear(yearOf, losses) \in YearLoss
         /\ \A y \in ItYears :
              /\ Happened(yearOf, y) \subseteq 1..total /\ IsFiniteSet(Happened(yearOf, y))
              /\ \A i \in Happened(yearOf, y) : losses[i] <= ByYear(yearOf, losses)[y]
              /\ (\A i \in Happened(yearOf, y) : losses[i] = 0) => ByYear(yearOf, losses)[y] = 0
<1>1. ASSUME NEW y \in ItYears
      PROVE  LET H == Happened(yearOf, y)
                 x == SumOver([i \in H |-> losses[i]])
             IN /\ H \subseteq 1..total /\ IsFiniteSet(H) /\ x \in Nat
                /\ \A i \in H : losses[i] <= x
                /\ (\A i \in H : losses[i] = 0) => x = 0
  <2> DEFINE H == Happened(yearOf, y)
             f == [i \in H |-> losses[i]]
  <2>1. H \subseteq 1..total
    BY DEF Happened
  <2>2. IsFiniteSet(H)
    BY <2>1, FS_Interval, FS_Subset
  <2>3. f \in [H -> Nat] /\ f \in [H -> Int] /\ \A i \in H : f[i] = losses[i]
    BY <2>1
  <2> HIDE DEF H, f
  <2>4. SumOver(f) \in Nat
    BY <2>2, <2>3, SumOverNatural
  <2>5. \A i \in H : losses[i] <= SumOver(f)
    BY <2>2, <2>3, ItemWithin
  <2>6. (\A i \in H : losses[i] = 0) => SumOver(f) = 0
    BY <2>2, <2>3, SumOverZero
  <2> QED BY <2>1, <2>2, <2>4, <2>5, <2>6 DEF H, f
<1>2. \A y \in ItYears : ByYear(yearOf, losses)[y] = SumOver([i \in Happened(yearOf, y) |-> losses[i]])
  BY DEF ByYear
<1>3. ByYear(yearOf, losses) = [y \in ItYears |-> SumOver([i \in Happened(yearOf, y) |-> losses[i]])]
  BY DEF ByYear
<1>4. ByYear(yearOf, losses) \in [ItYears -> Nat]
  BY <1>1, <1>3
<1> QED BY <1>1, <1>2, <1>4 DEF YearLoss

\* The events of a cell, its drivers added up.
EventsOf(loss, total) == [i \in 1..total |-> SumOver([d \in DOMAIN loss |-> loss[d][i]])]

\* An event loses what its drivers do.
LEMMA EventsType ==
  ASSUME NEW total \in Nat, NEW D, IsFiniteSet(D), NEW loss \in [D -> [1..total -> Nat]]
  PROVE  EventsOf(loss, total) \in [1..total -> Nat]
<1>1. ASSUME NEW i \in 1..total PROVE SumOver([d \in DOMAIN loss |-> loss[d][i]]) \in Nat
  <2> DEFINE f == [d \in DOMAIN loss |-> loss[d][i]]
  <2>1. f \in [D -> Nat]
    OBVIOUS
  <2> HIDE DEF f
  <2>2. SumOver(f) \in Nat
    BY <2>1, SumOverNatural
  <2> QED BY <2>2 DEF f
<1> QED BY <1>1 DEF EventsOf

\* What the drivers lose by year is what the events do.
LEMMA YearsShare ==
  ASSUME NEW total \in Nat, NEW yearOf \in [1..total -> ItYears],
         NEW D, IsFiniteSet(D), NEW loss \in [D -> [1..total -> Nat]],
         NEW vs, vs = Yearly(yearOf, loss), NEW y \in ItYears
  PROVE  /\ vs \in [D -> YearLoss] /\ LossIn(vs, y) \in [D -> Nat]
         /\ SumOver(LossIn(vs, y)) = ByYear(yearOf, EventsOf(loss, total))[y]
<1> DEFINE H == Happened(yearOf, y)
           f == [i \in H |-> [d \in D |-> loss[d][i]]]
           g == [d \in D |-> [i \in H |-> loss[d][i]]]
           event == EventsOf(loss, total)
           F == [i \in H |-> event[i]]
           G == LossIn(vs, y)
<1>1. vs \in [D -> YearLoss]
  <2> SUFFICES ASSUME NEW d \in D PROVE ByYear(yearOf, loss[d]) \in YearLoss
    BY DEF Yearly
  <2> DEFINE x == loss[d]
  <2>1. x \in [1..total -> Nat]
    OBVIOUS
  <2> HIDE DEF x
  <2>2. ByYear(yearOf, x) \in YearLoss
    BY <2>1, ByYearType
  <2> QED BY <2>2 DEF x
<1>2. G \in [D -> Nat]
  BY <1>1 DEF LossIn, YearLoss
<1>3. event \in [1..total -> Nat]
  BY EventsType
<1>4. H \subseteq 1..total /\ IsFiniteSet(H)
  BY <1>3, ByYearType
<1>5. f \in [H -> [D -> Int]] /\ g \in [D -> [H -> Int]] /\ \A i \in H, d \in D : g[d][i] = f[i][d]
  BY <1>4
<1>6. F = [i \in H |-> SumOver(f[i])]
  <2>1. \A i \in H : event[i] = SumOver([d \in D |-> loss[d][i]])
    BY <1>4 DEF EventsOf
  <2> HIDE DEF event, H
  <2> QED BY <2>1
<1>7. G = [d \in D |-> SumOver(g[d])]
  <2>1. \A d \in D : vs[d][y] = SumOver([i \in H |-> loss[d][i]])
    BY DEF ByYear, Yearly
  <2>2. G = [d \in D |-> vs[d][y]]
    BY DEF LossIn, Yearly
  <2> HIDE DEF G, H
  <2> QED BY <2>1, <2>2
<1>8. ByYear(yearOf, event)[y] = SumOver(F)
  BY DEF ByYear
<1> HIDE DEF H, f, g, event, F, G
<1>9. Transposed(H, D, f, g, F, G)
  BY <1>5, <1>6, <1>7 DEF Transposed
<1>10. SumOver(F) = SumOver(G)
  BY <1>4, <1>9, SumExchange
<1> QED BY <1>1, <1>2, <1>8, <1>10 DEF G, event

\* The tables of a simulation are finite.
LEMMA ItFinite ==
  /\ IsFiniteSet(ItActors) /\ IsFiniteSet(ItScenarios) /\ IsFiniteSet(Blocks) /\ IsFiniteSet(DriverNames)
<1>1. ASSUME NEW s, IsTable(s) PROVE IsFiniteSet(Elements(s))
  <2> DEFINE n == Len(s)
             T == Elements(s)
             S == 1..n
  <2>1. T = {s[i] : i \in S} /\ n \in Nat /\ DOMAIN s = S
    BY <1>1, TableItems DEF Elements
  <2>2. IsFiniteSet(S)
    BY <2>1, FS_Interval
  <2>3. s = [i \in S |-> s[i]]
    BY <1>1, <2>1 DEF IsTable
  <2> HIDE DEF S, T
  <2>4. s \in Surjection(S, T)
    BY <2>1, <2>3 DEF Surjection
  <2> QED BY <2>2, <2>4, FS_Surjection DEF T
<1>2. IsTable(ItPack.actors) /\ IsTable(ItPack.scenarios) /\ IsFiniteSet(DriverNames)
  BY ItPackTables DEF DriverNames
<1>3. IsFiniteSet(Blocks)
  <2>1. IsFiniteSet({"Duration"})
    BY FS_Singleton
  <2>2. IsFiniteSet({"Duration"} \cup {"Exposure"})
    BY <2>1, FS_AddElement
  <2>3. IsFiniteSet({"Duration"} \cup {"Exposure"} \cup {"Direct"})
    BY <2>2, FS_AddElement
  <2>4. Blocks = {"Duration"} \cup {"Exposure"} \cup {"Direct"}
    BY DEF Blocks
  <2> QED BY <2>3, <2>4
<1> QED BY <1>1, <1>2, <1>3 DEF ItActors, ItScenarios

-----------------------------------------------------------------------------
(* Simulations that balance.                                               *)

\* What adds up in a simulation, in every year.
BalancedIn(sim, y) ==
  /\ SumOver(Column(sim.actor, y)) = sim.annual[y] /\ SumOver(Column(sim.scenario, y)) = sim.annual[y]
  /\ SumOver(Column(sim.block, y)) = sim.annual[y] /\ SumOver(Column(sim.driver, y)) = sim.annual[y]
  /\ sim.largest[y] <= sim.annual[y]
  /\ sim.largest[y] = 0 <=> sim.annual[y] = 0

\* Simulations whose tables all add up to the year.
Sims == {sim \in SimSet : \A y \in ItYears : BalancedIn(sim, y)}

\* A simulation with the events of a cell, but for its drivers.
WithEvents(acc, cell, yearOf, event, years) ==
  [acc EXCEPT
     !.annual = Plus(@, years),
     !.actor = AddTo(@, cell.actor, years),
     !.scenario = AddTo(@, cell.scenario, years),
     !.largest = [y \in ItYears |-> Max({@[y]} \cup {event[i] : i \in Happened(yearOf, y)})]]

\* The events are added to the year, its actor and its scenario.
Totalled(acc, cell, total, yearOf, event, years, mid) ==
  /\ acc \in Sims /\ cell.actor \in ItActors /\ cell.scenario \in ItScenarios
  /\ total \in Nat /\ yearOf \in [1..total -> ItYears] /\ event \in [1..total -> Nat]
  /\ years = ByYear(yearOf, event) /\ mid = WithEvents(acc, cell, yearOf, event, years)

\* What is kept of the totals once the events are added.
TotalsKept(acc, years, mid) ==
  /\ mid \in SimSet /\ mid.pos = acc.pos /\ mid.block = acc.block /\ mid.driver = acc.driver
  /\ \A y \in ItYears :
       /\ mid.annual[y] = acc.annual[y] + years[y]
       /\ SumOver(Column(mid.actor, y)) = mid.annual[y]
       /\ SumOver(Column(mid.scenario, y)) = mid.annual[y]
       /\ mid.largest[y] <= mid.annual[y]
       /\ mid.largest[y] = 0 <=> mid.annual[y] = 0

\* Adding events keeps actors and scenarios in line with the year.
LEMMA TotalsAdded ==
  ASSUME NEW acc, NEW cell, NEW total, NEW yearOf, NEW event, NEW years, NEW mid,
         Totalled(acc, cell, total, yearOf, event, years, mid)
  PROVE  TotalsKept(acc, years, mid)
<1>a. acc \in Sims /\ cell.actor \in ItActors /\ cell.scenario \in ItScenarios
  BY DEF Totalled
<1>b. total \in Nat /\ yearOf \in [1..total -> ItYears] /\ event \in [1..total -> Nat]
  BY DEF Totalled
<1>c. years = ByYear(yearOf, event) /\ mid = WithEvents(acc, cell, yearOf, event, years)
  BY DEF Totalled
<1> DEFINE a == cell.actor
           s == cell.scenario
           u == acc.annual
           v == acc.actor
           w == acc.scenario
           x == acc.largest
           U == Plus(u, years)
           V == AddTo(v, a, years)
           W == AddTo(w, s, years)
           X == [y \in ItYears |-> Max({x[y]} \cup {event[i] : i \in Happened(yearOf, y)})]
<1>0. acc \in SimSet /\ \A y \in ItYears : BalancedIn(acc, y)
  BY <1>a DEF Sims
<1>1. u \in YearLoss /\ v \in [ItActors -> YearLoss] /\ w \in [ItScenarios -> YearLoss] /\ x \in YearLoss
  BY <1>0 DEF SimSet
<1>2. mid = [acc EXCEPT !.annual = U, !.actor = V, !.scenario = W, !.largest = X]
  BY <1>c DEF WithEvents
<1>3. a \in ItActors /\ s \in ItScenarios
  BY <1>a
<1>4. \A y \in ItYears : /\ SumOver(Column(v, y)) = u[y] /\ SumOver(Column(w, y)) = u[y]
                         /\ x[y] <= u[y] /\ (x[y] = 0 <=> u[y] = 0)
  BY <1>0 DEF BalancedIn
<1>5. years \in YearLoss
  BY <1>b, <1>c, ByYearType
<1> HIDE DEF a, s, u, v, w, x
<1>6. U \in YearLoss /\ \A y \in ItYears : U[y] = u[y] + years[y]
  BY <1>1, <1>5, PlusType
<1>7. V \in [ItActors -> YearLoss]
  BY <1>1, <1>3, <1>5, AddToType
<1>8. W \in [ItScenarios -> YearLoss]
  BY <1>1, <1>3, <1>5, AddToType
<1>9. \A y \in ItYears : SumOver(Column(V, y)) = U[y]
  <2> TAKE y \in ItYears
  <2>1. SumOver(Column(V, y)) = SumOver(Column(v, y)) + years[y]
    BY <1>1, <1>3, <1>5, ItFinite, AddToShares
  <2> HIDE DEF U, V
  <2> QED BY <1>4, <1>6, <2>1
<1>10. \A y \in ItYears : SumOver(Column(W, y)) = U[y]
  <2> TAKE y \in ItYears
  <2>1. SumOver(Column(W, y)) = SumOver(Column(w, y)) + years[y]
    BY <1>1, <1>3, <1>5, ItFinite, AddToShares
  <2> HIDE DEF U, W
  <2> QED BY <1>4, <1>6, <2>1
<1>11. ASSUME NEW y \in ItYears
       PROVE  LET m == Max({x[y]} \cup {event[i] : i \in Happened(yearOf, y)})
              IN m \in Nat /\ m <= U[y] /\ (m = 0 <=> U[y] = 0)
  <2> DEFINE H == Happened(yearOf, y)
             T == {x[y]} \cup {event[i] : i \in H}
             m == Max(T)
             b == U[y]
             p == u[y]
             q == years[y]
             z == x[y]
  <2>1. p \in Nat /\ q \in Nat /\ z \in Nat
    BY <1>1, <1>5 DEF YearLoss
  <2>2. b = p + q
    BY <1>6
  <2>3. \A i \in H : event[i] \in Nat /\ event[i] <= q
    BY <1>b, <1>c, ByYearType
  <2>4. (\A i \in H : event[i] = 0) => q = 0
    BY <1>b, <1>c, ByYearType
  <2>5. z <= p /\ (z = 0 <=> p = 0)
    BY <1>4
  <2>6. T = {z} \cup {event[i] : i \in H}
    OBVIOUS
  <2> HIDE DEF H, b, p, q, z, T
  <2>7. b \in Nat /\ T \subseteq 0..b /\ T # {}
    BY <2>1, <2>2, <2>3, <2>5, <2>6
  <2>8. m \in T /\ m \in 0..b /\ \A t \in T : t <= m
    BY <2>7, GreatestOf
  <2> HIDE DEF m
  <2>9. m \in Nat /\ m <= b
    BY <2>7, <2>8
  <2>10. ASSUME m = 0 PROVE b = 0
    <3>1. z \in T /\ \A i \in H : event[i] \in T
      BY <2>6
    <3>2. z <= 0 /\ \A i \in H : event[i] <= 0
      BY <2>8, <2>10, <3>1
    <3>3. z = 0
      BY <2>1, <3>2
    <3>4. \A i \in H : event[i] = 0
      BY <2>3, <3>2
    <3> QED BY <2>1, <2>2, <2>4, <2>5, <3>3, <3>4
  <2>11. ASSUME b = 0 PROVE m = 0
    BY <2>9, <2>11
  <2> QED BY <2>9, <2>10, <2>11 DEF m, b, T, H
<1>12. X \in YearLoss /\ \A y \in ItYears : X[y] <= U[y] /\ (X[y] = 0 <=> U[y] = 0)
  <2> HIDE DEF U
  <2> QED BY <1>11 DEF YearLoss
<1> HIDE DEF U, V, W, X
<1>13. /\ mid \in SimSet /\ mid.pos = acc.pos /\ mid.block = acc.block /\ mid.driver = acc.driver
       /\ mid.annual = U /\ mid.actor = V /\ mid.scenario = W /\ mid.largest = X
  BY <1>0, <1>2, <1>6, <1>7, <1>8, <1>12 DEF SimSet
<1> QED BY <1>6, <1>9, <1>10, <1>12, <1>13 DEF u, TotalsKept

\* A table that has x in a year is given what v has, by the classes c.
TableGains(K, D, c, v, old, table, x, y) ==
  /\ IsFiniteSet(K) /\ IsFiniteSet(D) /\ \A d \in D : c[d] \in K
  /\ v \in [D -> Nat] /\ old \in [K -> YearLoss] /\ table \in [K -> YearLoss]
  /\ SumOver(Column(old, y)) = x
  /\ \A k \in K : table[k][y] = old[k][y] + Part(v, c, k)

\* A table that gains the parts of a sum gains the sum.
LEMMA TableShares ==
  ASSUME NEW y \in ItYears, NEW K, NEW D, NEW c, NEW v, NEW old, NEW table, NEW x,
         TableGains(K, D, c, v, old, table, x, y)
  PROVE  SumOver(Column(table, y)) = x + SumOver(v)
<1> DEFINE f == Column(old, y)
           h == Column(table, y)
           g == [k \in K |-> Part(v, c, k)]
<1>1. IsFiniteSet(K) /\ IsFiniteSet(D) /\ \A d \in D : c[d] \in K
  BY DEF TableGains
<1>2. old \in [K -> YearLoss] /\ table \in [K -> YearLoss]
  BY DEF TableGains
<1>3. v \in [D -> Int]
  BY DEF TableGains
<1>4. \A k \in K : table[k][y] = old[k][y] + Part(v, c, k)
  BY DEF TableGains
<1>5. SumOver(f) = x
  BY DEF TableGains
<1>6. f \in [K -> Int] /\ \A k \in K : f[k] = old[k][y]
  BY <1>2, ColumnType
<1>7. h \in [K -> Int] /\ \A k \in K : h[k] = table[k][y]
  BY <1>2, ColumnType
<1> HIDE DEF f, h
<1>8. \A k \in K : Part(v, c, k) \in Int
  BY <1>1, <1>3, PartType
<1>9. g \in [K -> Int] /\ \A k \in K : h[k] = f[k] + g[k]
  BY <1>4, <1>6, <1>7, <1>8
<1>10. g = [k \in K |-> Part(v, c, k)]
  OBVIOUS
<1> HIDE DEF g
<1>11. SumOver(g) = SumOver(v)
  BY <1>1, <1>3, <1>10, PartsShare
<1>12. SumsTo(K, f, g, h)
  BY <1>6, <1>7, <1>9 DEF SumsTo
<1>13. SumOver(h) = SumOver(f) + SumOver(g)
  BY <1>1, <1>12, SumOverBoth
<1> QED BY <1>5, <1>11, <1>13 DEF h

\* A simulation, the events of a cell and what they lose.
Eventful(acc, cell, total, yearOf, D, loss, vs, new) ==
  /\ acc \in Sims /\ cell.actor \in ItActors /\ cell.scenario \in ItScenarios
  /\ total \in Nat /\ yearOf \in [1..total -> ItYears]
  /\ D \subseteq DriverNames /\ loss \in [D -> [1..total -> Nat]]
  /\ vs = Yearly(yearOf, loss) /\ new = AddEvents(acc, cell, yearOf, loss)

\* Adding the events of a cell keeps a simulation balanced, and adds to each block
\* what the drivers of the block lose.
LEMMA EventsAdded ==
  ASSUME NEW acc, NEW cell, NEW total, NEW yearOf, NEW D, NEW loss, NEW vs, NEW new,
         Eventful(acc, cell, total, yearOf, D, loss, vs, new)
  PROVE  /\ new \in Sims /\ new.pos = acc.pos
         /\ \A k \in Blocks, y \in ItYears :
              new.block[k][y] = acc.block[k][y] + Part(LossIn(vs, y), BlockOf, k)
<1> SUFFICES ASSUME acc \in Sims, cell.actor \in ItActors, cell.scenario \in ItScenarios,
                    total \in Nat, yearOf \in [1..total -> ItYears],
                    D \subseteq DriverNames, loss \in [D -> [1..total -> Nat]],
                    vs = Yearly(yearOf, loss), new = AddEvents(acc, cell, yearOf, loss)
             PROVE  /\ new \in Sims /\ new.pos = acc.pos
                    /\ \A k \in Blocks, y \in ItYears :
                         new.block[k][y] = acc.block[k][y] + Part(LossIn(vs, y), BlockOf, k)
  BY DEF Eventful
<1> DEFINE event == EventsOf(loss, total)
           years == ByYear(yearOf, event)
           mid == WithEvents(acc, cell, yearOf, event, years)
<1>1. IsFiniteSet(D) /\ D = DOMAIN loss
  BY ItFinite, FS_Subset
<1>2. new = AddDrivers(mid, yearOf, loss)
  <2>1. event = [i \in DOMAIN yearOf |-> SumOver([d \in DOMAIN loss |-> loss[d][i]])]
    BY DEF EventsOf
  <2> HIDE DEF event
  <2> QED BY <2>1 DEF AddEvents, WithEvents
<1>3. event \in [1..total -> Nat]
  BY <1>1, EventsType
<1>4. acc \in SimSet /\ \A y \in ItYears : BalancedIn(acc, y)
  BY DEF Sims
<1>6. vs \in [D -> YearLoss]
  <2> SUFFICES ASSUME NEW d \in D PROVE ByYear(yearOf, loss[d]) \in YearLoss
    BY DEF Yearly
  <2> DEFINE x == loss[d]
  <2>1. x \in [1..total -> Nat]
    OBVIOUS
  <2> HIDE DEF x
  <2>2. ByYear(yearOf, x) \in YearLoss
    BY <2>1, ByYearType
  <2> QED BY <2>2 DEF x
<1>5. \A y \in ItYears : LossIn(vs, y) \in [D -> Nat] /\ SumOver(LossIn(vs, y)) = years[y]
  <2> TAKE y \in ItYears
  <2>1. LossIn(vs, y) \in [D -> Nat]
    BY <1>6 DEF LossIn, YearLoss
  <2>2. SumOver(LossIn(vs, y)) = ByYear(yearOf, EventsOf(loss, total))[y]
    BY <1>1, YearsShare
  <2> QED BY <2>1, <2>2
<1> HIDE DEF event
<1>7. TotalsKept(acc, years, mid)
  <2> HIDE DEF years
  <2>1. years = ByYear(yearOf, event)
    BY DEF years
  <2>2. mid = WithEvents(acc, cell, yearOf, event, years)
    OBVIOUS
  <2> HIDE DEF mid
  <2>3. Totalled(acc, cell, total, yearOf, event, years, mid)
    BY <1>3, <2>1, <2>2 DEF Totalled
  <2> QED BY <2>3, TotalsAdded
<1> HIDE DEF mid, years
<1>8. /\ new \in SimSet /\ SameTotals(new, mid)
      /\ \A k \in Blocks, y \in ItYears :
           new.block[k][y] = mid.block[k][y] + Part(LossIn(vs, y), BlockOf, k)
      /\ \A k \in DriverNames, y \in ItYears :
           new.driver[k][y] = mid.driver[k][y] + Part(LossIn(vs, y), ItSelf, k)
  <2>1. mid \in SimSet
    BY <1>7 DEF TotalsKept
  <2>2. IsFiniteSet(D)
    BY <1>1
  <2>3. D = DOMAIN loss
    BY <1>1
  <2> QED BY <1>2, <1>6, <2>1, <2>2, <2>3, DriversAdded
<1>9. \A d \in D : BlockOf[d] \in Blocks /\ ItSelf[d] \in DriverNames
  BY ItPackTables DEF BlockOf, ItSelf, DriverNames
<1>11. ASSUME NEW y \in ItYears PROVE BalancedIn(new, y)
  <2> DEFINE A == acc.block
             B == new.block
             U == acc.driver
             V == new.driver
  <2>1. A \in [Blocks -> YearLoss] /\ B \in [Blocks -> YearLoss]
    BY <1>4, <1>8 DEF SimSet
  <2>2. U \in [DriverNames -> YearLoss] /\ V \in [DriverNames -> YearLoss]
    BY <1>4, <1>8 DEF SimSet
  <2>3. \A k \in Blocks : B[k][y] = A[k][y] + Part(LossIn(vs, y), BlockOf, k)
    BY <1>7, <1>8 DEF TotalsKept
  <2>4. \A k \in DriverNames : V[k][y] = U[k][y] + Part(LossIn(vs, y), ItSelf, k)
    BY <1>7, <1>8 DEF TotalsKept
  <2>5. SumOver(Column(A, y)) = acc.annual[y] /\ SumOver(Column(U, y)) = acc.annual[y]
    BY <1>4 DEF BalancedIn
  <2> HIDE DEF A, B, U, V
  <2>6. SumOver(Column(B, y)) = mid.annual[y]
    <3>1. TableGains(Blocks, D, BlockOf, LossIn(vs, y), A, B, acc.annual[y], y)
      BY <1>1, <1>5, <1>9, <2>1, <2>3, <2>5, ItFinite DEF TableGains
    <3>2. SumOver(Column(B, y)) = acc.annual[y] + SumOver(LossIn(vs, y))
      BY <3>1, TableShares
    <3> QED BY <1>5, <1>7, <3>2 DEF TotalsKept
  <2>7. SumOver(Column(V, y)) = mid.annual[y]
    <3>1. TableGains(DriverNames, D, ItSelf, LossIn(vs, y), U, V, acc.annual[y], y)
      BY <1>1, <1>5, <1>9, <2>2, <2>4, <2>5, ItFinite DEF TableGains
    <3>2. SumOver(Column(V, y)) = acc.annual[y] + SumOver(LossIn(vs, y))
      BY <3>1, TableShares
    <3> QED BY <1>5, <1>7, <3>2 DEF TotalsKept
  <2> QED BY <1>7, <1>8, <2>6, <2>7 DEF BalancedIn, SameTotals, TotalsKept, B, V
<1> QED BY <1>7, <1>8, <1>11 DEF Sims, SameTotals, TotalsKept

-----------------------------------------------------------------------------
(* The events of a cell.                                                   *)

\* The factors a simulation is run with.
ShockSet == [rate : Nat, actor : [ItActors -> Nat], block : [Blocks -> Nat]]

\* A random number is one of the stream.
LEMMA StreamItem ==
  ASSUME NEW i \in Nat
  PROVE  CellOf(i) \in Nat /\ Unit \in Nat \ {0}
<1> DEFINE n == Len(Stream)
           j == 1 + (i % n)
<1>1. IsTable(Stream) /\ Stream # << >> /\ \A k \in DOMAIN Stream : Stream[k] \in 0..Unit - 1
  BY ItSettings
<1>2. n \in Nat /\ DOMAIN Stream = 1..n
  BY <1>1, TableItems
<1>3. n # 0
  <2> DEFINE E == Elements(Stream)
  <2>1. Stream \in Seq(E)
    BY <1>1 DEF IsTable
  <2> HIDE DEF E
  <2> QED BY <1>1, <2>1
<1> HIDE DEF n
<1>4. j \in 1..n
  BY <1>2, <1>3
<1>5. Unit \in Nat \ {0}
  BY BarrierUnit
<1> QED BY <1>1, <1>2, <1>4, <1>5 DEF CellOf, n

\* A year has a whole number of events of a cell.
LEMMA CountType ==
  ASSUME NEW cell, cell.rate \in Nat, cell.actor \in ItActors, NEW factors \in ShockSet,
         NEW pos \in Nat, NEW y \in ItYears
  PROVE  CountIn(cell, factors, pos, y) \in Nat
<1> DEFINE a == cell.rate
           b == factors.rate
           c == factors.actor[cell.actor]
           u == CellOf(pos + y)
           r == (a * b * c) \div 10000
<1>1. a \in Nat /\ b \in Nat /\ c \in Nat
  BY DEF ShockSet
<1>2. pos + y \in Nat
  BY FiniteYears
<1>3. u \in Nat /\ Unit \in Nat \ {0}
  BY <1>2, StreamItem
<1> HIDE DEF a, b, c, u
<1>4. a * b \in Nat
  BY <1>1
<1>5. a * b * c \in Nat
  BY <1>1, <1>4
<1>6. r \in Nat
  BY <1>5
<1> HIDE DEF r
<1>7. (r + u) \div Unit \in Nat
  BY <1>3, <1>6
<1> QED BY <1>7 DEF CountIn, r, a, b, c, u

\* The years of a cell's events, and what its drivers lose by year.
HappenedIn(cell, factors, pos) ==
  Concat([y \in ItYears |-> [i \in 1..CountIn(cell, factors, pos, y) |-> y]])

DrawnFrom(pos) == pos + Cardinality(ItYears)

\* What they lose, and in which year.
LossesFrom(cell, factors, pos) ==
  EventLosses(cell, factors, DrawnFrom(pos), Len(HappenedIn(cell, factors, pos)))

YearlyFrom(cell, factors, pos) == Yearly(HappenedIn(cell, factors, pos), LossesFrom(cell, factors, pos))

\* The events of a cell, in the order of their years.
LEMMA HappenedType ==
  ASSUME NEW cell \in CellSet, NEW factors \in ShockSet, NEW pos \in Nat,
         NEW yearOf, yearOf = HappenedIn(cell, factors, pos)
  PROVE  Len(yearOf) \in Nat /\ yearOf \in [1..Len(yearOf) -> ItYears]
<1> DEFINE n == Cardinality(ItYears)
           X == ItYears
           ss == [y \in ItYears |-> [i \in 1..CountIn(cell, factors, pos, y) |-> y]]
<1>1. n \in Nat /\ ItYears = 1..n
  BY FiniteYears
<1>2. cell.rate \in Nat /\ cell.actor \in ItActors
  BY DEF CellSet
<1>3. \A y \in ItYears : CountIn(cell, factors, pos, y) \in Nat
  BY <1>2, CountType
<1>4. \A y \in ItYears : ss[y] \in Seq(X)
  <2> TAKE y \in ItYears
  <2> DEFINE c == CountIn(cell, factors, pos, y)
  <2>1. c \in Nat
    BY <1>3
  <2>2. y \in X
    OBVIOUS
  <2>3. ss[y] = [i \in 1..c |-> y]
    OBVIOUS
  <2> HIDE DEF c, X, ss
  <2> QED BY <2>1, <2>2, <2>3
<1>5. ss \in [1..n -> Seq(X)]
  BY <1>1, <1>4
<1>6. yearOf = Concat(ss)
  BY DEF HappenedIn
<1> HIDE DEF n, ss
<1>7. yearOf \in Seq(X)
  BY <1>1, <1>5, <1>6, ConcatType
<1> QED BY <1>7

\* Every driver loses something whole in every event, or nothing.
LEMMA LossesType ==
  ASSUME NEW cell \in CellSet, NEW factors \in ShockSet, NEW first, NEW total \in Nat
  PROVE  /\ DOMAIN cell.drivers \subseteq DriverNames
         /\ EventLosses(cell, factors, first, total) \in [DOMAIN cell.drivers -> [1..total -> Nat]]
<1> DEFINE u == cell.drivers
           D == DOMAIN u
           new == EventLosses(cell, factors, first, total)
<1>1. u \in Loads
  BY DEF CellSet
<1>2. PICK E \in SUBSET DriverNames : u \in [E -> [1..2 -> Nat]]
  BY <1>1 DEF Loads
<1>3. D \subseteq DriverNames /\ \A d \in D, q \in {1, 2} : u[d][q] \in Nat
  BY <1>2
<1>4. \A k \in Blocks : factors.block[k] \in Nat
  BY DEF ShockSet
<1>5. ASSUME NEW d \in D, NEW i \in 1..total
      PROVE  /\ new[d][i] \in Nat /\ DOMAIN new[d] = 1..total
             /\ \E q \in {1, 2} : new[d][i] = u[d][q] * factors.block[ItPack.drivers[d].block]
  <2> DEFINE k == ItPack.drivers[d].block
             c == factors.block[k]
  <2>1. k \in Blocks
    BY <1>3, ItPackTables DEF DriverNames
  <2>2. c \in Nat
    BY <1>4, <2>1
  <2>3. PICK q \in {1, 2} : new[d][i] = u[d][q] * c
    BY DEF EventLosses
  <2>4. u[d][q] \in Nat
    BY <1>3
  <2>5. DOMAIN new[d] = 1..total
    BY DEF EventLosses
  <2> DEFINE x == u[d][q]
  <2> HIDE DEF c
  <2>6. x * c \in Nat
    <3>1. x \in Nat
      BY <2>4
    <3> HIDE DEF x
    <3> QED BY <2>2, <3>1
  <2> QED BY <2>3, <2>5, <2>6 DEF c
<1>6. DOMAIN new = D /\ new = [d \in D |-> new[d]] /\ \A d \in D : new[d] = [i \in 1..total |-> new[d][i]]
  BY DEF EventLosses
<1> HIDE DEF new, D
<1>7. \A d \in D : new[d] \in [1..total -> Nat]
  BY <1>5, <1>6
<1>8. new \in [D -> [1..total -> Nat]]
  BY <1>6, <1>7
<1> QED BY <1>3, <1>8 DEF D, new

\* What a cell adds to a simulation.
CellAddedTo(acc, cell, factors, new) ==
  /\ new \in Sims
  /\ new.pos = DrawnFrom(acc.pos) + 4 * Len(HappenedIn(cell, factors, acc.pos))
  /\ \A k \in Blocks, y \in ItYears :
       new.block[k][y] = acc.block[k][y] + Part(LossIn(YearlyFrom(cell, factors, acc.pos), y), BlockOf, k)

\* A cell keeps a simulation balanced.
LEMMA CellAdded ==
  ASSUME NEW acc \in Sims, NEW cell \in CellSet, NEW factors \in ShockSet
  PROVE  CellAddedTo(acc, cell, factors, AddCell(acc, cell, factors))
<1> DEFINE pos == acc.pos
           first == DrawnFrom(pos)
           yearOf == HappenedIn(cell, factors, pos)
           total == Len(yearOf)
           loss == EventLosses(cell, factors, first, total)
           D == DOMAIN cell.drivers
           vs == Yearly(yearOf, loss)
           x == AddEvents(acc, cell, yearOf, loss)
           end == first + 4 * total
           new == AddCell(acc, cell, factors)
<1>1. pos \in Nat /\ cell.actor \in ItActors /\ cell.scenario \in ItScenarios
  BY DEF Sims, SimSet, CellSet
<1>2. new = [x EXCEPT !.pos = end]
  BY DEF AddCell, HappenedIn, DrawnFrom
<1>3. vs = YearlyFrom(cell, factors, pos)
  BY DEF YearlyFrom, LossesFrom
<1> HIDE DEF pos
<1>4. yearOf = HappenedIn(cell, factors, pos)
  OBVIOUS
<1> HIDE DEF yearOf
<1>5. total \in Nat /\ yearOf \in [1..total -> ItYears]
  BY <1>1, <1>4, HappenedType
<1>6. first \in Nat
  BY <1>1, FiniteYears DEF DrawnFrom
<1> HIDE DEF first, total
<1>7. D \subseteq DriverNames /\ loss \in [D -> [1..total -> Nat]]
  BY <1>5, LossesType
<1>8. end \in Nat
  BY <1>5, <1>6
<1>9. vs = Yearly(yearOf, loss) /\ x = AddEvents(acc, cell, yearOf, loss)
  OBVIOUS
<1> HIDE DEF D, loss, vs, x, end
<1>10. /\ x \in Sims /\ x.pos = acc.pos
       /\ \A k \in Blocks, y \in ItYears :
            x.block[k][y] = acc.block[k][y] + Part(LossIn(vs, y), BlockOf, k)
  <2>1. Eventful(acc, cell, total, yearOf, D, loss, vs, x)
    BY <1>1, <1>5, <1>7, <1>9 DEF Eventful
  <2> QED BY <2>1, EventsAdded
<1>11. x \in SimSet /\ \A y \in ItYears : BalancedIn(x, y)
  BY <1>10 DEF Sims
<1> HIDE DEF new
<1>12. /\ new \in SimSet /\ new.pos = end /\ new.annual = x.annual /\ new.largest = x.largest
       /\ new.actor = x.actor /\ new.scenario = x.scenario /\ new.block = x.block /\ new.driver = x.driver
  BY <1>2, <1>8, <1>11 DEF SimSet
<1>13. \A y \in ItYears : BalancedIn(new, y)
  BY <1>11, <1>12 DEF BalancedIn
<1>14. new \in Sims
  BY <1>12, <1>13 DEF Sims
<1> QED BY <1>3, <1>10, <1>12, <1>14 DEF CellAddedTo, end, total, first, new, pos, yearOf

-----------------------------------------------------------------------------
(* A simulation, and one whose blocks are rescaled.                        *)

\* A table without a loss adds up to nothing.
LEMMA ZeroTable ==
  ASSUME NEW K, IsFiniteSet(K), NEW table, table = [k \in K |-> NoLoss], NEW y \in ItYears
  PROVE  table \in [K -> YearLoss] /\ SumOver(Column(table, y)) = 0
<1>1. table \in [K -> YearLoss]
  BY DEF NoLoss, YearLoss
<1> DEFINE z == Column(table, y)
<1>2. z \in [K -> Int] /\ \A k \in K : z[k] = table[k][y]
  BY <1>1, ColumnType
<1>3. \A k \in K : z[k] = 0
  BY <1>2 DEF NoLoss
<1> HIDE DEF z
<1>4. SumOver(z) = 0
  BY <1>2, <1>3, SumOverZero
<1> QED BY <1>1, <1>4 DEF z

\* A simulation starts balanced.
LEMMA SimStartBalanced == SimStart \in Sims
<1> DEFINE A == SimStart.actor
           S == SimStart.scenario
           B == SimStart.block
           V == SimStart.driver
<1>1. /\ A = [a \in ItActors |-> NoLoss] /\ S = [s \in ItScenarios |-> NoLoss]
      /\ B = [k \in Blocks |-> NoLoss] /\ V = [d \in DriverNames |-> NoLoss]
  BY DEF SimStart, DriverNames
<1>2. NoLoss \in YearLoss
  BY DEF NoLoss, YearLoss
<1>3. SimStart \in SimSet
  BY <1>2 DEF SimStart, SimSet, DriverNames
<1> HIDE DEF A, S, B, V
<1>4. ASSUME NEW y \in ItYears PROVE BalancedIn(SimStart, y)
  <2>1. SumOver(Column(A, y)) = 0
    BY <1>1, ItFinite, ZeroTable
  <2>2. SumOver(Column(S, y)) = 0
    BY <1>1, ItFinite, ZeroTable
  <2>3. SumOver(Column(B, y)) = 0
    BY <1>1, ItFinite, ZeroTable
  <2>4. SumOver(Column(V, y)) = 0
    BY <1>1, ItFinite, ZeroTable
  <2>5. SimStart.annual[y] = 0 /\ SimStart.largest[y] = 0
    BY DEF SimStart, NoLoss
  <2> QED BY <2>1, <2>2, <2>3, <2>4, <2>5 DEF BalancedIn, A, S, B, V
<1> QED BY <1>3, <1>4 DEF Sims

\* The cells are added one after the other.
Runs(p, cells, n, factors) ==
  /\ p \in [0..n -> Sims]
  /\ p[0] = SimStart
  /\ \A i \in 1..n : p[i] = AddCell(p[i - 1], cells[i], factors)

\* A cell keeps a simulation balanced, and one.
LEMMA CellAddedType ==
  ASSUME NEW acc \in Sims, NEW cell \in CellSet, NEW factors \in ShockSet
  PROVE  AddCell(acc, cell, factors) \in Sims
BY CellAdded DEF CellAddedTo

\* A simulation takes the cells one after the other.
LEMMA SimulateFold ==
  ASSUME NEW cells \in Seq(CellSet), NEW factors \in ShockSet
  PROVE  \E p : Runs(p, cells, Len(cells), factors) /\ Simulate(cells, factors) = p[Len(cells)]
<1> DEFINE V == Sims
           n == Len(cells)
           b == SimStart
           step == [i \in 1..n |-> [acc \in V |-> AddCell(acc, cells[i], factors)]]
           Is(h) == h = [T \in SUBSET (1..n) |->
                           IF T = {} THEN SimStart
                           ELSE AddCell(h[T \ {Max(T)}], cells[Max(T)], factors)]
           h == CHOOSE h : Is(h)
<1>1. n \in Nat /\ DOMAIN cells = 1..n /\ \A i \in 1..n : cells[i] \in CellSet
  <2> DEFINE C == CellSet
  <2>1. cells \in Seq(C)
    OBVIOUS
  <2> HIDE DEF C
  <2>2. n \in Nat /\ DOMAIN cells = 1..n /\ \A i \in 1..n : cells[i] \in C
    BY <2>1
  <2> QED BY <2>2 DEF C
<1> HIDE DEF n
<1>2. \A i \in 1..n, acc \in V : AddCell(acc, cells[i], factors) \in V
  <2> TAKE i \in 1..n, acc \in V
  <2> DEFINE c == cells[i]
  <2>1. c \in CellSet
    BY <1>1
  <2> HIDE DEF c
  <2>2. AddCell(acc, c, factors) \in Sims
    BY <2>1, CellAddedType
  <2> QED BY <2>2 DEF c
<1>3. step \in [1..n -> [V -> V]] /\ \A i \in 1..n, acc \in V : step[i][acc] = AddCell(acc, cells[i], factors)
  <2> HIDE DEF V
  <2> QED BY <1>2
<1>4. b \in V
  BY SimStartBalanced
<1> HIDE DEF V, step
<1>5. \E f : Is(f)
  <2>1. PICK f \in [SUBSET (1..n) -> V] : Folds(f, SimStart, n, step)
    <3>1. step \in [1..n -> [V -> V]] /\ n \in Nat
      BY <1>1, <1>3
    <3> HIDE DEF b
    <3>2. \E f \in [SUBSET (1..n) -> V] : Folds(f, b, n, step)
      BY <3>1, <1>4, FoldExists
    <3> QED BY <3>2 DEF b
  <2>2. ASSUME NEW T \in SUBSET (1..n)
        PROVE  f[T] = IF T = {} THEN SimStart
                      ELSE AddCell(f[T \ {Max(T)}], cells[Max(T)], factors)
    <3>1. f[T] = IF T = {} THEN SimStart ELSE step[Max(T)][f[T \ {Max(T)}]]
      BY <2>1 DEF Folds
    <3>2. T # {} => Max(T) \in 1..n /\ f[T \ {Max(T)}] \in V
      BY <1>1, GreatestIndex
    <3> QED BY <3>1, <3>2, <1>3
  <2>3. f = [T \in SUBSET (1..n) |-> f[T]]
    OBVIOUS
  <2> QED BY <2>2, <2>3
<1>6. Is(h)
  <2> HIDE DEF Is
  <2> QED BY <1>5
<1>7. Simulate(cells, factors) = h[1..n]
  BY <1>1 DEF Simulate, FoldLeft, MapThenFoldSet
<1>8. h[{}] = SimStart
  <2>1. {} \in SUBSET (1..n)
    OBVIOUS
  <2> QED BY <1>6, <2>1
<1> HIDE DEF h
<1>9. \A T \in SUBSET (1..n) : T # {} /\ h[T \ {Max(T)}] \in V =>
         h[T] = step[Max(T)][h[T \ {Max(T)}]]
  <2> SUFFICES ASSUME NEW T \in SUBSET (1..n), T # {}, h[T \ {Max(T)}] \in V
               PROVE  h[T] = step[Max(T)][h[T \ {Max(T)}]]
    OBVIOUS
  <2>1. h[T] = AddCell(h[T \ {Max(T)}], cells[Max(T)], factors)
    BY <1>6
  <2>2. Max(T) \in 1..n
    BY <1>1, GreatestIndex
  <2> QED BY <1>3, <2>1, <2>2
<1>10. FoldsIn(h, V, b, n, step)
  BY <1>8, <1>9 DEF FoldsIn
<1> HIDE DEF Is
<1>a. PICK p : FoldPath(p, h, V, b, n, step)
  <2>1. step \in [1..n -> [V -> V]] /\ n \in Nat
    BY <1>1, <1>3
  <2> HIDE DEF b
  <2>2. FoldOver(h, V, b, n, step)
    BY <2>1, <1>4, <1>10 DEF FoldOver
  <2> QED BY <2>2, FoldEnds
<1>11. Iterates(p, b, n, step) /\ p \in [0..n -> V] /\ h[1..n] = p[n]
  BY <1>a DEF FoldPath
<1>12. p[0] = SimStart /\ \A i \in 1..n : p[i] = AddCell(p[i - 1], cells[i], factors)
  <2>1. p[0] = SimStart /\ \A i \in 1..n : p[i] = step[i][p[i - 1]]
    BY <1>1, <1>11 DEF Iterates
  <2>2. \A i \in 1..n : p[i - 1] \in V
    BY <1>1, <1>11
  <2> QED BY <1>3, <2>1, <2>2
<1> QED BY <1>7, <1>11, <1>12 DEF Runs, V, n

\* A simulation is balanced in every year.
LEMMA SimulateType ==
  ASSUME NEW cells \in Seq(CellSet), NEW factors \in ShockSet
  PROVE  Simulate(cells, factors) \in Sims
<1> DEFINE n == Len(cells)
<1>1. n \in Nat
  OBVIOUS
<1>2. PICK p : Runs(p, cells, n, factors) /\ Simulate(cells, factors) = p[n]
  BY SimulateFold
<1>3. p \in [0..n -> Sims]
  BY <1>2 DEF Runs
<1> HIDE DEF n
<1> QED BY <1>1, <1>2, <1>3

-----------------------------------------------------------------------------
(* Factors of the blocks leave the events where they are.                  *)

\* x and z are as rates, and z's factor of block k is c[k] percent of x's.
Rescaled(x, z, c) ==
  /\ x \in ShockSet /\ z \in ShockSet /\ c \in [Blocks -> Nat]
  /\ x.rate = z.rate /\ x.actor = z.actor
  /\ \A k \in Blocks : 100 * z.block[k] = c[k] * x.block[k]

\* A shock of the blocks moves no event.
LEMMA SameEvents ==
  ASSUME NEW x, NEW z, NEW c, Rescaled(x, z, c), NEW cell, NEW pos
  PROVE  HappenedIn(cell, x, pos) = HappenedIn(cell, z, pos)
<1>1. x.rate = z.rate /\ x.actor = z.actor
  BY DEF Rescaled
<1>2. \A y \in ItYears : CountIn(cell, x, pos, y) = CountIn(cell, z, pos, y)
  BY <1>1 DEF CountIn
<1>3. [y \in ItYears |-> [i \in 1..CountIn(cell, x, pos, y) |-> y]]
        = [y \in ItYears |-> [i \in 1..CountIn(cell, z, pos, y) |-> y]]
  BY <1>2
<1> QED BY <1>3 DEF HappenedIn

\* One loss is c percent of the other.
LEMMA LossRescaled ==
  ASSUME NEW x, NEW z, NEW c, Rescaled(x, z, c), NEW cell \in CellSet, NEW first, NEW total \in Nat,
         NEW d \in DOMAIN cell.drivers, NEW i \in 1..total
  PROVE  100 * EventLosses(cell, z, first, total)[d][i]
           = c[BlockOf[d]] * EventLosses(cell, x, first, total)[d][i]
<1> DEFINE u == cell.drivers
           k == ItPack.drivers[d].block
           p == x.block[k]
           q == z.block[k]
           f == c[k]
           latent == LET own == [Duration |-> 1, Exposure |-> 2, Direct |-> 3]
                     IN Rho * CellOf(first + i) + (Unit - Rho) * CellOf(first + own[k] * total + i)
           m == u[d][IF latent >= TailPoint * Unit THEN 2 ELSE 1]
<1>1. /\ x \in ShockSet /\ z \in ShockSet /\ c \in [Blocks -> Nat]
      /\ \A b \in Blocks : 100 * z.block[b] = c[b] * x.block[b]
  BY DEF Rescaled
<1>2. d \in DriverNames /\ u \in Loads
  BY <1>1, LossesType DEF CellSet
<1>3. k \in Blocks /\ BlockOf[d] = k
  BY <1>2, ItPackTables DEF DriverNames, BlockOf
<1>4. p \in Nat /\ q \in Nat /\ f \in Nat /\ 100 * q = f * p
  BY <1>1, <1>3 DEF ShockSet
<1>5. m \in Nat
  <2>1. PICK E \in SUBSET DriverNames : u \in [E -> [1..2 -> Nat]]
    BY <1>2 DEF Loads
  <2>2. u[d][1] \in Nat /\ u[d][2] \in Nat
    BY <2>1
  <2> HIDE DEF u, latent
  <2> QED BY <2>2
<1>6. EventLosses(cell, x, first, total)[d][i] = m * p /\ EventLosses(cell, z, first, total)[d][i] = m * q
  BY DEF EventLosses
<1> HIDE DEF m, p, q, f
<1>7. 100 * (m * q) = f * (m * p)
  <2>1. 100 * (m * q) = m * (100 * q)
    BY <1>4, <1>5
  <2>2. m * (100 * q) = m * (f * p)
    BY <1>4
  <2>3. m * (f * p) = f * (m * p)
    BY <1>4, <1>5
  <2> QED BY <2>1, <2>2, <2>3
<1> QED BY <1>3, <1>6, <1>7 DEF f

\* So is what a year loses to a block.
LEMMA PartRescaled ==
  ASSUME NEW x, NEW z, NEW c, Rescaled(x, z, c), NEW cell \in CellSet, NEW pos \in Nat,
         NEW k \in Blocks, NEW y \in ItYears
  PROVE  /\ 100 * Part(LossIn(YearlyFrom(cell, z, pos), y), BlockOf, k)
              = c[k] * Part(LossIn(YearlyFrom(cell, x, pos), y), BlockOf, k)
         /\ Part(LossIn(YearlyFrom(cell, z, pos), y), BlockOf, k) \in Int
         /\ Part(LossIn(YearlyFrom(cell, x, pos), y), BlockOf, k) \in Int
<1> DEFINE D == DOMAIN cell.drivers
           first == DrawnFrom(pos)
           yearOf == HappenedIn(cell, x, pos)
           total == Len(yearOf)
           F == EventLosses(cell, x, first, total)
           G == EventLosses(cell, z, first, total)
           vx == Yearly(yearOf, F)
           vz == Yearly(yearOf, G)
           fx == LossIn(vx, y)
           fz == LossIn(vz, y)
           gx == [e \in D |-> IF BlockOf[e] = k THEN fx[e] ELSE 0]
           gz == [e \in D |-> IF BlockOf[e] = k THEN fz[e] ELSE 0]
           h == c[k]
           w == 100
<1>1. x \in ShockSet /\ z \in ShockSet /\ h \in Nat
  BY DEF Rescaled
<1>2. vx = YearlyFrom(cell, x, pos) /\ vz = YearlyFrom(cell, z, pos)
  <2>1. HappenedIn(cell, z, pos) = yearOf
    BY SameEvents
  <2> QED BY <2>1 DEF YearlyFrom, LossesFrom
<1>3. yearOf = HappenedIn(cell, x, pos)
  OBVIOUS
<1> HIDE DEF yearOf
<1>4. total \in Nat /\ yearOf \in [1..total -> ItYears]
  BY <1>1, <1>3, HappenedType
<1> HIDE DEF first, total
<1>5. F \in [D -> [1..total -> Nat]] /\ D \subseteq DriverNames
  BY <1>1, <1>4, LossesType
<1>6. G \in [D -> [1..total -> Nat]]
  BY <1>1, <1>4, LossesType
<1>7. \A d \in D, i \in 1..total : 100 * G[d][i] = c[BlockOf[d]] * F[d][i]
  BY <1>4, LossRescaled
<1>8. IsFiniteSet(D)
  BY <1>5, ItFinite, FS_Subset
<1>9. vx = Yearly(yearOf, F) /\ vz = Yearly(yearOf, G)
  OBVIOUS
<1> HIDE DEF D, F, G
<1>10. DOMAIN F = D /\ DOMAIN G = D
  BY <1>5, <1>6
<1>11. ASSUME NEW d \in D, BlockOf[d] = k
       PROVE  w * fz[d] = h * fx[d]
  <2> DEFINE H == Happened(yearOf, y)
             p == F[d]
             q == G[d]
             P == [i \in H |-> p[i]]
             Q == [i \in H |-> q[i]]
  <2>1. p \in [1..total -> Nat] /\ q \in [1..total -> Nat]
    BY <1>5, <1>6
  <2>2. \A i \in 1..total : w * q[i] = h * p[i]
    BY <1>7, <1>11
  <2>3. fx[d] = SumOver(P) /\ fz[d] = SumOver(Q)
    BY <1>10 DEF LossIn, Yearly, ByYear
  <2> HIDE DEF p, q
  <2>4. H \subseteq 1..total /\ IsFiniteSet(H)
    BY <1>4, <2>1, ByYearType
  <2>5. P \in [H -> Int] /\ Q \in [H -> Int] /\ \A i \in H : P[i] = p[i] /\ Q[i] = q[i]
    BY <2>1, <2>4
  <2>6. \A i \in H : w * Q[i] = h * P[i]
    BY <2>2, <2>4, <2>5
  <2>7. w \in Int /\ h \in Int
    BY <1>1
  <2> HIDE DEF H, P, Q, w, h, fx, fz
  <2>8. w * SumOver(Q) = h * SumOver(P)
    <3>1. P \in [H -> Int] /\ Q \in [H -> Int]
      BY <2>5
    <3>2. IsFiniteSet(H)
      BY <2>4
    <3> QED BY <2>6, <2>7, <3>1, <3>2, SumOverScales
  <2> QED BY <2>3, <2>8
<1>12. fx \in [D -> Nat] /\ fz \in [D -> Nat]
  <2>1. vx = Yearly(yearOf, F)
    OBVIOUS
  <2>2. vz = Yearly(yearOf, G)
    OBVIOUS
  <2> HIDE DEF vx, vz
  <2>3. LossIn(vx, y) \in [D -> Nat]
    BY <1>4, <1>5, <1>8, <2>1, YearsShare
  <2>4. LossIn(vz, y) \in [D -> Nat]
    BY <1>4, <1>6, <1>8, <2>2, YearsShare
  <2> QED BY <2>3, <2>4
<1>13. w \in Int /\ h \in Int
  BY <1>1
<1> HIDE DEF fx, fz, w, h
<1>14. gx \in [D -> Int] /\ gz \in [D -> Int]
  BY <1>12
<1>15. \A e \in D : w * gz[e] = h * gx[e]
  <2> TAKE e \in D
  <2>1. CASE BlockOf[e] = k
    BY <1>11, <2>1
  <2>2. CASE BlockOf[e] # k
    BY <1>13, <2>2
  <2> QED BY <2>1, <2>2
<1>16. Part(fx, BlockOf, k) = SumOver(gx) /\ Part(fz, BlockOf, k) = SumOver(gz)
  <2>1. DOMAIN fx = D /\ DOMAIN fz = D
    BY <1>12
  <2> QED BY <2>1 DEF Part
<1> HIDE DEF gx, gz
<1>17. w * SumOver(gz) = h * SumOver(gx)
  BY <1>8, <1>13, <1>14, <1>15, SumOverScales
<1>18. SumOver(gz) \in Int /\ SumOver(gx) \in Int
  BY <1>8, <1>14, SumOverType
<1> QED BY <1>2, <1>16, <1>17, <1>18 DEF w, h, fx, fz

\* A shock of the blocks scales what each of them loses in every year, by its factor.
LEMMA BlocksRescaled ==
  ASSUME NEW x, NEW z, NEW c, Rescaled(x, z, c), NEW cells \in Seq(CellSet)
  PROVE  \A k \in Blocks, y \in ItYears :
           100 * Simulate(cells, z).block[k][y] = c[k] * Simulate(cells, x).block[k][y]
<1> DEFINE n == Len(cells)
           Same(u, v) ==
             /\ u.pos = v.pos
             /\ \A k \in Blocks, y \in ItYears : 100 * v.block[k][y] = c[k] * u.block[k][y]
<1>1. n \in Nat /\ \A i \in 1..n : cells[i] \in CellSet
  <2> DEFINE C == CellSet
  <2>1. cells \in Seq(C)
    OBVIOUS
  <2> HIDE DEF C
  <2>2. n \in Nat /\ \A i \in 1..n : cells[i] \in C
    BY <2>1
  <2> QED BY <2>2 DEF C
<1>2. x \in ShockSet /\ z \in ShockSet /\ c \in [Blocks -> Nat]
  BY DEF Rescaled
<1>3. PICK p : Runs(p, cells, n, x) /\ Simulate(cells, x) = p[n]
  BY <1>2, SimulateFold
<1>4. PICK q : Runs(q, cells, n, z) /\ Simulate(cells, z) = q[n]
  BY <1>2, SimulateFold
<1>5. /\ p \in [0..n -> Sims] /\ p[0] = SimStart
      /\ \A i \in 1..n : p[i] = AddCell(p[i - 1], cells[i], x)
  BY <1>3 DEF Runs
<1>6. /\ q \in [0..n -> Sims] /\ q[0] = SimStart
      /\ \A i \in 1..n : q[i] = AddCell(q[i - 1], cells[i], z)
  BY <1>4 DEF Runs
<1> HIDE DEF n
<1>7. ASSUME NEW u \in Sims, NEW v \in Sims, Same(u, v), NEW cell \in CellSet
      PROVE  Same(AddCell(u, cell, x), AddCell(v, cell, z))
  <2> DEFINE U == AddCell(u, cell, x)
             V == AddCell(v, cell, z)
             pos == u.pos
  <2>1. CellAddedTo(u, cell, x, U)
    BY <1>2, CellAdded
  <2>2. CellAddedTo(v, cell, z, V)
    BY <1>2, CellAdded
  <2>3. pos \in Nat /\ v.pos = pos
    BY <1>7 DEF Sims, SimSet
  <2> HIDE DEF U, V
  <2>4. U.pos = V.pos
    <3>1. U.pos = DrawnFrom(pos) + 4 * Len(HappenedIn(cell, x, pos))
      BY <2>1 DEF CellAddedTo
    <3>2. V.pos = DrawnFrom(pos) + 4 * Len(HappenedIn(cell, z, pos))
      BY <2>2, <2>3 DEF CellAddedTo
    <3>3. HappenedIn(cell, x, pos) = HappenedIn(cell, z, pos)
      BY SameEvents
    <3> QED BY <3>1, <3>2, <3>3
  <2>5. ASSUME NEW k \in Blocks, NEW y \in ItYears
        PROVE  100 * V.block[k][y] = c[k] * U.block[k][y]
    <3> DEFINE a == u.block[k][y]
               b == v.block[k][y]
               s == Part(LossIn(YearlyFrom(cell, x, pos), y), BlockOf, k)
               t == Part(LossIn(YearlyFrom(cell, z, pos), y), BlockOf, k)
               f == c[k]
    <3>1. U.block[k][y] = a + s
      BY <2>1 DEF CellAddedTo
    <3>2. V.block[k][y] = b + t
      BY <2>2, <2>3 DEF CellAddedTo
    <3>3. a \in Nat /\ b \in Nat /\ f \in Nat
      <4>1. u.block \in [Blocks -> [ItYears -> Nat]] /\ v.block \in [Blocks -> [ItYears -> Nat]]
        BY DEF Sims, SimSet, YearLoss
      <4> QED BY <1>2, <4>1
    <3>4. 100 * b = f * a
      BY <1>7
    <3> HIDE DEF pos
    <3>5. 100 * t = f * s /\ s \in Int /\ t \in Int
      BY <2>3, PartRescaled
    <3> HIDE DEF a, b, s, t, f
    <3>6. 100 * (b + t) = f * (a + s)
      BY <3>3, <3>4, <3>5
    <3> QED BY <3>1, <3>2, <3>6 DEF f
  <2> QED BY <2>4, <2>5 DEF U, V
<1>8. Same(SimStart, SimStart)
  <2> SUFFICES ASSUME NEW k \in Blocks, NEW y \in ItYears
               PROVE  100 * SimStart.block[k][y] = c[k] * SimStart.block[k][y]
    OBVIOUS
  <2>1. SimStart.block[k][y] = 0 /\ c[k] \in Nat
    BY <1>2 DEF SimStart, NoLoss
  <2> QED BY <2>1
<1> HIDE DEF Same
<1> DEFINE R == {i \in 0..n : Same(p[i], q[i])}
<1>9. 0 \in R
  BY <1>1, <1>5, <1>6, <1>8
<1>10. ASSUME NEW i \in 1..n, i - 1 \in R PROVE i \in R
  <2> DEFINE u == p[i - 1]
             v == q[i - 1]
             cell == cells[i]
  <2>1. i - 1 \in 0..n /\ i \in 0..n
    BY <1>1
  <2>2. u \in Sims /\ v \in Sims /\ Same(u, v) /\ cell \in CellSet
    BY <1>1, <1>5, <1>6, <1>10, <2>1
  <2>3. p[i] = AddCell(u, cell, x) /\ q[i] = AddCell(v, cell, z)
    BY <1>5, <1>6
  <2> HIDE DEF u, v, cell
  <2>4. Same(AddCell(u, cell, x), AddCell(v, cell, z))
    BY <1>7, <2>2
  <2> QED BY <2>1, <2>3, <2>4
<1>11. n \in R
  <2>1. \A i \in 0..n : i \in R
    <3> HIDE DEF R
    <3> QED BY <1>1, <1>9, <1>10, UpTo
  <2> QED BY <1>1, <2>1
<1>12. Same(p[n], q[n])
  BY <1>11
<1> QED BY <1>3, <1>4, <1>12 DEF Same

-----------------------------------------------------------------------------
(* Rows.                                                                   *)

\* Rows in the order of their gain are the rows.
LEMMA RankedRows ==
  ASSUME NEW n \in Nat, NEW list, IsTable(list), Len(list) = n, NEW gain \in [1..n -> Int]
  PROVE  /\ IsTable(ByGain(list, gain)) /\ Len(ByGain(list, gain)) = n
         /\ \A k \in 1..n : ByGain(list, gain)[k] \in Elements(list)
<1> DEFINE x == [i \in 1..n |-> -gain[i]]
           order == Ranking(x)
           new == ByGain(list, gain)
           E == Elements(new)
<1>1. DOMAIN list = 1..n /\ \A i \in 1..n : list[i] \in Elements(list)
  BY TableItems
<1>2. x \in [1..n -> Int]
  OBVIOUS
<1>3. new = [k \in 1..n |-> list[order[k]]]
  BY <1>1 DEF ByGain
<1> HIDE DEF x
<1>4. order \in [1..n -> 1..n]
  BY <1>2, RankingType
<1> HIDE DEF order
<1>5. \A k \in 1..n : new[k] \in Elements(list)
  BY <1>1, <1>3, <1>4
<1>6. \A k \in 1..n : new[k] \in E
  BY <1>3 DEF Elements
<1>7. new = [k \in 1..n |-> new[k]]
  BY <1>3
<1> HIDE DEF E, new
<1>8. new \in [1..n -> E]
  BY <1>6, <1>7
<1>9. new \in Seq(E) /\ Len(new) = n
  BY <1>8
<1> QED BY <1>5, <1>9 DEF IsTable, E, new

\* A table with one more row.
Extends(s, x, new) ==
  /\ IsTable(new) /\ Len(new) = Len(s) + 1 /\ new[Len(new)] = x /\ Len(s) \in Nat
  /\ \A i \in 1..Len(s) : new[i] = s[i]
  /\ \A i \in 1..Len(new) : i = Len(new) \/ i \in 1..Len(s)

\* A row appended is the last one, after those that were there.
LEMMA TableAppended ==
  ASSUME NEW s, IsTable(s), NEW x, NEW new, new = Append(s, x)
  PROVE  Extends(s, x, new)
<1> DEFINE X == Elements(s) \cup {x}
           E == Elements(new)
           n == Len(s)
<1>1. s \in Seq(X) /\ x \in X /\ n \in Nat
  <2> DEFINE F == Elements(s)
  <2>1. s \in Seq(F)
    BY DEF IsTable
  <2> HIDE DEF F
  <2>2. s \in Seq(F \cup {x}) /\ Len(s) \in Nat
    BY <2>1
  <2> QED BY <2>2 DEF F
<1> HIDE DEF X
<1>2. /\ new \in Seq(X) /\ Len(new) = n + 1 /\ new[n + 1] = x /\ DOMAIN new = 1..(n + 1)
      /\ \A i \in 1..n : new[i] = s[i]
  <2>1. new = Append(s, x)
    OBVIOUS
  <2> QED BY <1>1, <2>1
<1>3. \A i \in 1..(n + 1) : new[i] \in E
  BY <1>2 DEF Elements
<1>4. new = [i \in 1..(n + 1) |-> new[i]]
  <2>1. new \in [1..(n + 1) -> X]
    <3>1. \A t \in Seq(X) : t \in [1..Len(t) -> X]
      OBVIOUS
    <3>2. new \in [1..Len(new) -> X]
      BY <1>2, <3>1
    <3> QED BY <1>2, <3>2
  <2> QED BY <2>1
<1> HIDE DEF E
<1>5. new \in Seq(E)
  BY <1>1, <1>3, <1>4
<1> HIDE DEF n
<1>6. \A i \in 1..(n + 1) : i = n + 1 \/ i \in 1..n
  BY <1>1
<1> QED BY <1>1, <1>2, <1>5, <1>6 DEF IsTable, Extends, E, n

-----------------------------------------------------------------------------
(* What refresh runs the model on.                                         *)

\* A workbook the engine accepts holds levels, coverages and exposures in range.
LEMMA AcceptedBook ==
  ASSUME NEW b \in ItBooks, NEW p, p = ItPrepared(b), Accepted(p)
  PROVE  BookOK(p) /\ p.view \in {"Best Estimate", "Prudent", "Both"}
<1>1. /\ DOMAIN b = BookFields /\ b.useExposure \in BOOLEAN
      /\ \A r \in DOMAIN b.exposure :
           b.exposure[r].opportunity \in Int /\ b.exposure[r].stage \in Int /\ b.exposure[r].impact \in Int
      /\ \A c \in DOMAIN b.controls : b.controls[c] \in [level : Int, coverage : Int]
      /\ \A key \in DOMAIN b.overrides, q \in {1, 2} : b.overrides[key][q] \in Int
      /\ \A d \in DOMAIN ItPack.drivers : \A f \in Elements(ItPack.drivers[d].formula) :
           f.of = "org" => b.org[f.key] \in Int
  BY ItWorkbooks
<1> DEFINE X == [r \in ItRoutes |->
                   IF r \in DOMAIN b.exposure THEN b.exposure[r]
                   ELSE [applicable |-> TRUE, feasible |-> TRUE, opportunity |-> Unit,
                         stage |-> Unit, impact |-> Unit]]
           C == [c \in ItControls |->
                   IF c \in DOMAIN b.controls THEN b.controls[c]
                   ELSE [level |-> ItPack.reference[c].level, coverage |-> ItPack.reference[c].coverage]]
<1>2. p = [b EXCEPT !.exposure = X, !.controls = C]
  BY DEF ItPrepared
<1>3. /\ p.exposure = X /\ p.controls = C /\ p.useExposure = b.useExposure
      /\ p.overrides = b.overrides /\ p.org = b.org /\ p.view = b.view
  <2> HIDE DEF X, C
  <2> QED BY <1>1, <1>2 DEF BookFields
<1>4. \A c \in ItControls : C[c] \in [level : Int, coverage : Int]
  <2> TAKE c \in ItControls
  <2>1. ItPack.reference[c] \in [level : 0..Top, coverage : 0..Unit] /\ Unit \in Nat /\ Top \in Nat
    BY ItPackTables, ItSettings, BarrierUnit DEF IsTable, Top
  <2>2. CASE c \in DOMAIN b.controls
    BY <1>1, <2>2
  <2>3. CASE c \notin DOMAIN b.controls
    BY <2>1, <2>3
  <2> QED BY <2>2, <2>3
<1>5. \A r \in ItRoutes : X[r].opportunity \in Int /\ X[r].stage \in Int /\ X[r].impact \in Int
  <2> TAKE r \in ItRoutes
  <2>1. CASE r \in DOMAIN b.exposure
    BY <1>1, <2>1
  <2>2. CASE r \notin DOMAIN b.exposure
    BY <2>2, BarrierUnit
  <2> QED BY <2>1, <2>2
<1>6. DOMAIN C = ItControls /\ C = [c \in ItControls |-> C[c]]
  OBVIOUS
<1> HIDE DEF X, C
<1>7. \A c \in ItControls : C[c].level \in 0..Top /\ C[c].coverage \in 0..Unit
  BY <1>3 DEF Accepted
<1>8. \A c \in ItControls : C[c] \in [level : 0..Top, coverage : 0..Unit]
  BY <1>4, <1>7
<1>9. C \in Settings
  BY <1>6, <1>8 DEF Settings
<1>10. \A r \in ItRoutes :
         p.exposure[r].opportunity \in Nat /\ p.exposure[r].stage \in Nat /\ p.exposure[r].impact \in Nat
  <2> TAKE r \in ItRoutes
  <2> DEFINE e == X[r]
  <2>1. e.opportunity \in Int /\ e.stage \in Int /\ e.impact \in Int
    BY <1>5
  <2>2. p.exposure[r] = e
    BY <1>3
  <2> HIDE DEF e
  <2>3. e.opportunity >= 0 /\ e.stage >= 0 /\ e.impact >= 0
    BY <2>2 DEF Accepted
  <2> QED BY <2>1, <2>2, <2>3
<1>11. p.view \in {"Best Estimate", "Prudent", "Both"}
  BY DEF Accepted
<1> QED BY <1>1, <1>3, <1>9, <1>10, <1>11 DEF BookOK

\* The settings of both views.
LEMMA NeutralType == Neutral \in ShockSet /\ WithPrudence \in ShockSet
<1> DEFINE r == (100 * Prudence) \div Unit
<1>1. Neutral \in ShockSet
  BY DEF Neutral, ShockSet
<1>2. Prudence \in Nat /\ Unit \in Nat \ {0}
  BY ItSettings, BarrierUnit
<1>3. r \in Nat
  BY <1>2
<1>4. WithPrudence = [Neutral EXCEPT !.rate = r]
  BY DEF WithPrudence
<1> HIDE DEF r
<1> QED BY <1>1, <1>3, <1>4 DEF ShockSet

\* The setting and the name of the reported view.
LEMMA ReportedType == Reported \in ShockSet /\ Primary \in {"best", "prudent"}
BY NeutralType DEF Reported, Primary

\* A book gives cells.
LEMMA CellsType ==
  ASSUME NEW b, BookOK(b), NEW x \in Settings
  PROVE  Cells(b, x) \in Seq(CellSet)
<1>1. NoneWeaker(x, x)
  <2>1. \A c \in ItControls : x[c].level \in 0..Top
    BY DEF Settings
  <2>2. \A c \in ItControls : Effective(x[c].level) \in Int
    BY <2>1, LevelIndex
  <2> QED BY <2>2 DEF NoneWeaker
<1> QED BY <1>1, CellsFall

\* Levels the engine may set are no weaker than those of the workbook.
Permitted(levels) == \A c \in ItControls \cap DOMAIN levels : levels[c] \in 0..Top

\* Levels of which none is lower than in the workbook.
NoLower(levels) ==
  \A c \in ItControls \cap DOMAIN levels : Effective(itBook.controls[c].level) <= Effective(levels[c])

\* Levels that may be set are settings of the controls.
LEMMA AtLevelsType ==
  ASSUME itBook.controls \in Settings, NEW levels, Permitted(levels)
  PROVE  AtLevels(levels) \in Settings
<1> DEFINE s == itBook.controls
           new == AtLevels(levels)
<1>1. s \in [ItControls -> [level : 0..Top, coverage : 0..Unit]]
  BY DEF Settings
<1>2. new = [c \in ItControls |-> IF c \in DOMAIN levels THEN [s[c] EXCEPT !.level = levels[c]] ELSE s[c]]
  BY DEF AtLevels
<1> HIDE DEF s, new
<1>3. ASSUME NEW c \in ItControls PROVE new[c] \in [level : 0..Top, coverage : 0..Unit]
  BY <1>1, <1>2 DEF Permitted
<1>4. new \in [ItControls -> [level : 0..Top, coverage : 0..Unit]]
  BY <1>2, <1>3
<1> QED BY <1>4 DEF Settings, new

\* Levels that are no lower make no control weaker.
LEMMA AtLevelsStronger ==
  ASSUME itBook.controls \in Settings, NEW levels, Permitted(levels), NoLower(levels)
  PROVE  AtLevels(levels) \in Settings /\ NoneWeaker(itBook.controls, AtLevels(levels))
<1> DEFINE s == itBook.controls
           new == AtLevels(levels)
<1>1. s \in [ItControls -> [level : 0..Top, coverage : 0..Unit]]
  BY DEF Settings
<1>2. new = [c \in ItControls |-> IF c \in DOMAIN levels THEN [s[c] EXCEPT !.level = levels[c]] ELSE s[c]]
  BY DEF AtLevels
<1>3. ASSUME NEW c \in ItControls
      PROVE  Effective(s[c].level) <= Effective(new[c].level) /\ s[c].coverage = new[c].coverage
  <2> DEFINE l == s[c].level
  <2>1. s[c] \in [level : 0..Top, coverage : 0..Unit]
    BY <1>1
  <2>2. l \in 0..Top
    BY <2>1
  <2>3. Effective(l) \in Int
    BY <2>2, LevelIndex
  <2>4. CASE c \in DOMAIN levels
    <3>1. Effective(l) <= Effective(levels[c])
      BY <2>4 DEF NoLower
    <3> HIDE DEF s, new
    <3>2. new[c] = [s[c] EXCEPT !.level = levels[c]]
      BY <1>2, <2>4
    <3>3. new[c].level = levels[c] /\ new[c].coverage = s[c].coverage
      BY <2>1, <3>2
    <3> QED BY <3>1, <3>3
  <2>5. CASE c \notin DOMAIN levels
    <3> HIDE DEF s, new
    <3>1. new[c] = s[c]
      BY <1>2, <2>5
    <3> QED BY <2>3, <3>1
  <2> QED BY <2>4, <2>5
<1> QED BY <1>3, AtLevelsType DEF NoneWeaker

\* A raised level is no lower than it was.
LEMMA RaisedHigher ==
  ASSUME NEW level \in 0..Top
  PROVE  Raised(level) \in 0..Top /\ Effective(level) <= Effective(Raised(level))
BY LevelIndex DEF Raised, Effective

\* A what-if sets a level that is no lower.
LEMMA WhatIfLevels ==
  ASSUME itBook.controls \in Settings, NEW c \in ItControls
  PROVE  LET levels == [x \in {c} |-> Raised(itBook.controls[c].level)]
         IN Permitted(levels) /\ NoLower(levels)
<1> DEFINE l == itBook.controls[c].level
           r == Raised(l)
           levels == [x \in {c} |-> r]
<1>1. l \in 0..Top
  BY DEF Settings
<1>2. DOMAIN levels = {c} /\ levels[c] = r
  OBVIOUS
<1> HIDE DEF l, levels
<1>3. r \in 0..Top /\ Effective(l) <= Effective(r)
  BY <1>1, RaisedHigher
<1> QED BY <1>2, <1>3 DEF Permitted, NoLower, l, r, levels

\* A package sets levels, none of them lower but for Foundation.
LEMMA PackageLevelsSet ==
  ASSUME itBook.controls \in Settings, NEW name \in {"Foundation", "Priority", "Target", "User-defined"}
  PROVE  /\ Permitted(PackageOverrides(name))
         /\ name # "Foundation" => NoLower(PackageOverrides(name))
<1> DEFINE level(c) == itBook.controls[c].level
<1>1. \A c \in ItControls : level(c) \in 0..Top
  BY DEF Settings
<1>2. \A c \in ItControls : /\ Effective(level(c)) \in 1..Top /\ Raised(level(c)) \in 0..Top
                            /\ Effective(level(c)) <= Effective(Raised(level(c)))
  <2> TAKE c \in ItControls
  <2> DEFINE l == level(c)
  <2>1. l \in 0..Top
    BY <1>1
  <2> HIDE DEF l
  <2>2. Effective(l) \in 1..Top
    BY <2>1, LevelIndex
  <2> QED BY <2>1, <2>2, RaisedHigher DEF l
<1>3. Top \in Nat /\ Developing \in 1..Top - 1
  BY ItSettings DEF IsTable, Top
<1>4. CASE name = "Foundation"
  <2>1. PackageOverrides(name) = [c \in ItControls |-> Developing]
    BY <1>4 DEF PackageOverrides
  <2> QED BY <1>3, <1>4, <2>1 DEF Permitted
<1>5. CASE name = "Target"
  <2>1. PackageOverrides(name) = [c \in ItControls |-> Top]
    BY <1>5 DEF PackageOverrides
  <2>2. \A c \in ItControls : Effective(level(c)) <= Effective(Top)
    BY <1>2, <1>3 DEF Effective
  <2> QED BY <1>3, <1>5, <2>1, <2>2 DEF Permitted, NoLower
<1>6. CASE name = "Priority"
  <2>1. PackageOverrides(name) = [c \in Priority |-> Raised(level(c))]
    BY <1>6 DEF PackageOverrides
  <2> HIDE DEF level
  <2>2. Permitted(PackageOverrides(name))
    BY <1>2, <2>1 DEF Permitted
  <2>3. \A c \in ItControls : c \in Priority => PackageOverrides(name)[c] = Raised(level(c))
    BY <2>1
  <2>4. NoLower(PackageOverrides(name))
    BY <1>2, <2>1, <2>3 DEF NoLower, level
  <2> QED BY <2>2, <2>4
<1>7. CASE name = "User-defined"
  <2>1. PackageOverrides(name)
          = [c \in ItControls |-> IF Effective(level(c)) <= Developing THEN Developing + 1 ELSE Effective(level(c))]
    BY <1>7 DEF PackageOverrides
  <2> HIDE DEF level
  <2>2. ASSUME NEW c \in ItControls
        PROVE  /\ PackageOverrides(name)[c] \in 0..Top
               /\ Effective(level(c)) <= Effective(PackageOverrides(name)[c])
    <3> DEFINE e == Effective(level(c))
               x == PackageOverrides(name)[c]
    <3>1. e \in 1..Top
      BY <1>2
    <3>2. x = IF e <= Developing THEN Developing + 1 ELSE e
      BY <2>1
    <3> HIDE DEF e, x
    <3>3. x \in 1..Top /\ e <= x
      BY <1>3, <3>1, <3>2
    <3>4. Effective(x) = x
      BY <3>3 DEF Effective
    <3> QED BY <3>3, <3>4 DEF e, x
  <2> QED BY <2>1, <2>2 DEF Permitted, NoLower, level
<1> QED BY <1>4, <1>5, <1>6, <1>7

-----------------------------------------------------------------------------
(* The sensitivities.                                                      *)

\* What a cell's attempts, rate, actor and scenario are.
LEMMA CellItems ==
  ASSUME NEW cells \in Seq(CellSet)
  PROVE  /\ Len(cells) \in Nat /\ DOMAIN cells = 1..Len(cells)
         /\ \A i \in 1..Len(cells) : /\ cells[i].attempt \in Nat /\ cells[i].rate \in Nat
                                     /\ cells[i].actor \in ItActors /\ cells[i].scenario \in ItScenarios
<1> DEFINE C == CellSet
<1>1. cells \in Seq(C)
  OBVIOUS
<1> HIDE DEF C
<1>2. Len(cells) \in Nat /\ DOMAIN cells = 1..Len(cells) /\ \A i \in 1..Len(cells) : cells[i] \in C
  BY <1>1
<1> QED BY <1>2 DEF C, CellSet

\* Attempts are whole numbers, some of them at most all.
LEMMA AttemptsInType ==
  ASSUME NEW cells \in Seq(CellSet), NEW mine
  PROVE  /\ AttemptsIn(cells, mine) \in Nat /\ Attempted(cells) \in Nat
         /\ AttemptsIn(cells, mine) <= Attempted(cells)
<1> DEFINE n == Len(cells)
           s == [i \in DOMAIN cells |-> IF i \in mine THEN cells[i].attempt ELSE 0]
           t == [i \in DOMAIN cells |-> IF i \in DOMAIN cells THEN cells[i].attempt ELSE 0]
<1>1. n \in Nat /\ DOMAIN cells = 1..n /\ \A i \in 1..n : cells[i].attempt \in Nat
  BY CellItems
<1> HIDE DEF n
<1>2. s \in Seq(Nat) /\ Len(s) = n /\ s \in Seq(Int)
  BY <1>1
<1>3. t \in Seq(Nat) /\ Len(t) = n /\ t \in Seq(Int)
  BY <1>1
<1>4. \A i \in 1..n : s[i] <= t[i]
  BY <1>1
<1>5. AttemptsIn(cells, mine) = SumOf(s) /\ Attempted(cells) = SumOf(t)
  BY DEF AttemptsIn, Attempted
<1> HIDE DEF s, t
<1>6. SumOf(s) \in Nat /\ SumOf(t) \in Nat
  BY <1>2, <1>3, SumNatural
<1>7. SumOf(s) <= SumOf(t)
  BY <1>2, <1>3, <1>4, SumMonotone
<1> QED BY <1>5, <1>6, <1>7

\* A mix of actors is a factor per actor.
LEMMA ActorMixType ==
  ASSUME NEW cells \in Seq(CellSet)
  PROVE  ActorMix(cells) \in [ItActors -> Nat]
<1> DEFINE w(a) == AttemptsIn(cells, {i \in DOMAIN cells : cells[i].actor = a})
           lead == ItPack.actors[1]
           all == Attempted(cells)
           f(a) == IF a = lead THEN 120 ELSE 100
           new(a) == IF w(a) = 0 THEN 100 ELSE (f(a) * 10 * all) \div (10 * all + 2 * w(lead))
<1>1. ActorMix(cells) = [a \in ItActors |-> new(a)]
  BY DEF ActorMix
<1>2. ASSUME NEW a \in ItActors PROVE new(a) \in Nat
  <2> DEFINE x == w(a)
             y == w(lead)
             z == all
             c == f(a)
  <2>1. x \in Nat /\ y \in Nat /\ z \in Nat /\ x <= z
    BY AttemptsInType
  <2>2. c \in Nat
    OBVIOUS
  <2>3. new(a) = IF x = 0 THEN 100 ELSE (c * 10 * z) \div (10 * z + 2 * y)
    OBVIOUS
  <2> HIDE DEF x, y, z, c, new
  <2>4. CASE x = 0
    BY <2>3, <2>4
  <2>5. CASE x # 0
    <3> DEFINE num == c * 10 * z
               den == 10 * z + 2 * y
    <3>1. den \in Nat \ {0}
      BY <2>1, <2>5
    <3>2. c * 10 \in Nat
      BY <2>2
    <3>3. num \in Nat
      BY <2>1, <3>2
    <3> HIDE DEF num, den
    <3>4. num \div den \in Nat
      BY <3>1, <3>3
    <3> QED BY <2>3, <2>5, <3>4 DEF num, den
  <2> QED BY <2>4, <2>5
<1> HIDE DEF new
<1> QED BY <1>1, <1>2

\* A setting in the reported view is a setting.
LEMMA InViewType ==
  ASSUME NEW factors \in ShockSet
  PROVE  InView(factors) \in ShockSet
<1> DEFINE r == factors.rate
           v == Reported.rate
           x == (r * v) \div 100
<1>1. r \in Nat /\ v \in Nat
  BY ReportedType DEF ShockSet
<1>2. InView(factors) = [factors EXCEPT !.rate = x]
  BY DEF InView
<1> HIDE DEF r, v
<1>3. r * v \in Nat
  BY <1>1
<1>4. x \in Nat
  BY <1>3
<1> HIDE DEF x
<1> QED BY <1>2, <1>4 DEF ShockSet

\* A block's shock scales its block and leaves the others.
LEMMA BlockShockRescales ==
  ASSUME NEW k \in Blocks, NEW f \in Nat
  PROVE  /\ BlockShock(k, f).shock \in ShockSet
         /\ Rescaled(Reported, InView(BlockShock(k, f).shock), [j \in Blocks |-> IF j = k THEN f ELSE 100])
<1> DEFINE x == Reported
           y == BlockShock(k, f).shock
           z == InView(y)
           c == [j \in Blocks |-> IF j = k THEN f ELSE 100]
<1>1. y = [Neutral EXCEPT !.block[k] = f]
  BY DEF BlockShock
<1>2. /\ Neutral \in ShockSet /\ Neutral.rate = 100
      /\ Neutral.actor = [a \in ItActors |-> 100] /\ Neutral.block = [j \in Blocks |-> 100]
  BY NeutralType DEF Neutral
<1> HIDE DEF x, y
<1>3. /\ y \in ShockSet /\ y.rate = 100 /\ y.actor = Neutral.actor
      /\ y.block = [Neutral.block EXCEPT ![k] = f]
  BY <1>1, <1>2 DEF ShockSet
<1>4. x \in ShockSet /\ x.actor = Neutral.actor /\ x.block = Neutral.block
  BY <1>2, ReportedType DEF x, Reported, WithPrudence, ShockSet
<1>5. z \in ShockSet
  BY <1>3, InViewType
<1>6. z = [y EXCEPT !.rate = (y.rate * x.rate) \div 100]
  BY DEF InView, x
<1> HIDE DEF z
<1>7. z.actor = y.actor /\ z.block = y.block /\ z.rate = (y.rate * x.rate) \div 100
  BY <1>3, <1>6 DEF ShockSet
<1>8. z.rate = x.rate
  <2> DEFINE r == x.rate
  <2>1. r \in Nat
    BY <1>4 DEF ShockSet
  <2> HIDE DEF r
  <2>2. (100 * r) \div 100 = r
    BY <2>1
  <2> QED BY <1>3, <1>7, <2>2 DEF r
<1>9. c \in [Blocks -> Nat]
  OBVIOUS
<1>10. \A j \in Blocks : 100 * z.block[j] = c[j] * x.block[j]
  <2> TAKE j \in Blocks
  <2>1. x.block[j] = 100 /\ z.block[j] = c[j]
    BY <1>2, <1>3, <1>4, <1>7
  <2>2. c[j] \in Nat
    BY <1>9
  <2> HIDE DEF c
  <2> QED BY <2>1, <2>2
<1>11. Rescaled(x, z, c)
  BY <1>3, <1>4, <1>5, <1>7, <1>8, <1>9, <1>10 DEF Rescaled
<1> QED BY <1>3, <1>11 DEF x, y, z

\* A block's shock is a setting.
LEMMA BlockShockType ==
  ASSUME NEW k \in Blocks, NEW f \in {80, 120}
  PROVE  BlockShock(k, f).shock \in ShockSet
<1> DEFINE y == BlockShock(k, f).shock
<1>1. y = [Neutral EXCEPT !.block[k] = f]
  BY DEF BlockShock
<1>2. Neutral \in ShockSet
  BY NeutralType
<1> HIDE DEF y
<1> QED BY <1>1, <1>2 DEF ShockSet, y

\* A sensitivity has a setting, and a shock of a block is one of a block only.
SensitivityOK(item) ==
  /\ item.shock \in ShockSet
  /\ item.of.kind \notin {"whatif", "package"}
  /\ item.of.kind = "block" => \E k \in Blocks, f \in Nat : item = BlockShock(k, f)

\* Every sensitivity of the list is one of these.
LEMMA SensitivityItems ==
  ASSUME itViews.cells \in Seq(CellSet)
  PROVE  Len(Sensitivities) \in Nat /\ \A i \in 1..Len(Sensitivities) : SensitivityOK(Sensitivities[i])
<1> DEFINE up == [of |-> [kind |-> "rate", factor |-> 120], shock |-> [Neutral EXCEPT !.rate = 120]]
           down == [of |-> [kind |-> "rate", factor |-> 80], shock |-> [Neutral EXCEPT !.rate = 80]]
           mix == [of |-> [kind |-> "mix", factor |-> 120],
                   shock |-> [Neutral EXCEPT !.actor = ActorMix(itViews.cells)]]
           OK == {item \in {up, down, mix} \cup {BlockShock(k, f) : k \in Blocks, f \in {80, 120}} :
                    SensitivityOK(item)}
<1>1. SensitivityOK(up) /\ SensitivityOK(down)
  <2>1. [Neutral EXCEPT !.rate = 120] \in ShockSet /\ [Neutral EXCEPT !.rate = 80] \in ShockSet
    BY NeutralType DEF ShockSet
  <2> QED BY <2>1 DEF SensitivityOK
<1>2. SensitivityOK(mix)
  <2>1. [Neutral EXCEPT !.actor = ActorMix(itViews.cells)] \in ShockSet
    BY NeutralType, ActorMixType DEF ShockSet
  <2> QED BY <2>1 DEF SensitivityOK
<1>3. \A k \in Blocks, f \in {80, 120} : SensitivityOK(BlockShock(k, f))
  <2> TAKE k \in Blocks, f \in {80, 120}
  <2> DEFINE g == f
  <2>0. g \in Nat
    OBVIOUS
  <2> HIDE DEF g
  <2>1. BlockShock(k, g).shock \in ShockSet
    BY BlockShockType DEF g
  <2>2. BlockShock(k, f).of.kind = "block"
    BY DEF BlockShock
  <2> QED BY <2>0, <2>1, <2>2 DEF SensitivityOK, g
<1> DEFINE b(k, f) == BlockShock(k, f)
           t == <<up, down, b("Duration", 120), b("Duration", 80), b("Direct", 120), b("Direct", 80),
                  b("Exposure", 120), b("Exposure", 80)>>
           u == IF Len(ItPack.actors) < 2 \/ Attempted(itViews.cells) = 0 THEN << >> ELSE <<mix>>
<1>4. Sensitivities = t \o u
  BY DEF Sensitivities
<1>5. up \in OK /\ down \in OK /\ mix \in OK
  BY <1>1, <1>2
<1>6. \A k \in Blocks, f \in {80, 120} : b(k, f) \in OK
  BY <1>3
<1>7. \A item \in OK : SensitivityOK(item)
  OBVIOUS
<1> HIDE DEF OK, up, down, mix, b
<1>8. t \in Seq(OK)
  BY <1>5, <1>6 DEF Blocks
<1>9. u \in Seq(OK)
  BY <1>5
<1> HIDE DEF t, u
<1>10. t \o u \in Seq(OK)
  BY <1>8, <1>9
<1>11. \A s \in Seq(OK) : Len(s) \in Nat /\ \A i \in 1..Len(s) : s[i] \in OK
  OBVIOUS
<1> QED BY <1>4, <1>7, <1>10, <1>11

-----------------------------------------------------------------------------
(* The invariant of a refresh.                                             *)

\* A row was simulated in the reported view; its simulations are balanced; an uplift
\* raised no cell; a shock of a block scaled the block and nothing else.
RowOK(row, views, primary) ==
  /\ primary \in DOMAIN row.sims
  /\ \A v \in DOMAIN row.sims \ {"cells"} : row.sims[v] \in Sims
  /\ row.of.kind \in {"whatif", "package"} /\ row.of.id # "Foundation" =>
       Alike(views.cells, row.sims.cells, Fallen)
  /\ row.of.kind = "block" =>
       \A k \in Blocks, y \in ItYears :
         100 * row.sims[primary].block[k][y]
           = views[primary].block[k][y] * (IF k = row.of.block THEN row.of.factor ELSE 100)

\* Where refresh has a workbook it accepted, and its views.
Opened == itPc \notin {"load", "failed"}

Viewed == itPc \notin {"load", "failed", "views"}

\* Rows all of which are in order.
RowsOK(list, views, primary) == IsTable(list) /\ \A x \in Elements(list) : RowOK(x, views, primary)

Saved == itPc \in {"sensitivities", "report", "returned"}

\* The rows are all in order, not only the last one: the ranking brings any of them
\* to the end.  What they are held against is the baseline of the workbook as it is.
ItInv ==
  /\ Opened => BookOK(itBook)
  /\ ~Viewed => itViews = ItNothing /\ itRows = << >>
  /\ Viewed => itViews = Both(Cells(itBook, itBook.controls)) /\ RowsOK(itRows, itViews, Primary)
  /\ Saved => Len(itSaved.rows) \in Nat /\ Len(itSaved.rows) <= Len(itRows)

\* The baseline: cells, and a balanced simulation of each view.
LEMMA ViewsType ==
  ASSUME NEW cells \in Seq(CellSet), NEW views, views = Both(cells)
  PROVE  /\ views.cells = cells /\ DOMAIN views = {"cells", "best", "prudent"}
         /\ views.best \in Sims /\ views.prudent \in Sims
         /\ \A v \in DOMAIN views \ {"cells"} : views[v] \in Sims
         /\ Primary \in DOMAIN views /\ views[Primary] \in Sims
         /\ views[Primary] = Simulate(cells, Reported)
<1> DEFINE x == Simulate(cells, Neutral)
           z == Simulate(cells, WithPrudence)
<1>1. x \in Sims /\ z \in Sims
  BY SimulateType, NeutralType
<1>2. views = [cells |-> cells, best |-> x, prudent |-> z]
  BY DEF Both
<1>3. Simulate(cells, Reported) = IF Primary = "best" THEN x ELSE z
  BY DEF Reported
<1> HIDE DEF x, z
<1>4. Primary \in {"best", "prudent"}
  BY ReportedType
<1> QED BY <1>1, <1>2, <1>3, <1>4

\* The cells of the workbook, alike to themselves.
LEMMA BookCells ==
  ASSUME BookOK(itBook)
  PROVE  /\ itBook.controls \in Settings
         /\ Cells(itBook, itBook.controls) \in Seq(CellSet)
         /\ Alike(Cells(itBook, itBook.controls), Cells(itBook, itBook.controls), Fallen)
<1> DEFINE b == itBook
           x == b.controls
<1>1. x \in Settings /\ BookOK(b)
  BY DEF BookOK
<1> HIDE DEF b, x
<1>2. NoneWeaker(x, x)
  <2>1. \A c \in ItControls : x[c].level \in 0..Top
    BY <1>1 DEF Settings
  <2>2. \A c \in ItControls : Effective(x[c].level) \in Int
    BY <2>1, LevelIndex
  <2> QED BY <2>2 DEF NoneWeaker
<1>3. Cells(b, x) \in Seq(CellSet) /\ Alike(Cells(b, x), Cells(b, x), Fallen)
  BY <1>1, <1>2, CellsFall
<1> QED BY <1>1, <1>3 DEF b, x

\* What a level that is set gives: cells that did not rise if it is no lower.
LEMMA LevelledCells ==
  ASSUME BookOK(itBook), NEW levels, Permitted(levels)
  PROVE  /\ Cells(itBook, AtLevels(levels)) \in Seq(CellSet)
         /\ NoLower(levels) =>
              Alike(Cells(itBook, itBook.controls), Cells(itBook, AtLevels(levels)), Fallen)
<1> DEFINE b == itBook
           x == b.controls
           z == AtLevels(levels)
<1>1. x \in Settings /\ BookOK(b)
  BY DEF BookOK
<1>2. z \in Settings
  BY <1>1, AtLevelsType
<1>3. NoLower(levels) => NoneWeaker(x, z)
  BY <1>1, AtLevelsStronger
<1> HIDE DEF b, x, z
<1>4. Cells(b, z) \in Seq(CellSet)
  BY <1>1, <1>2, CellsType
<1>5. CASE NoLower(levels)
  BY <1>1, <1>2, <1>3, <1>4, <1>5, CellsFall DEF b, x, z
<1>6. CASE ~NoLower(levels)
  BY <1>4, <1>6 DEF b, x, z
<1> QED BY <1>5, <1>6

\* The row of a what-if is in order.
LEMMA WhatIfRow ==
  ASSUME BookOK(itBook), itViews = Both(Cells(itBook, itBook.controls)),
         NEW c \in ItControls, NEW same \in BOOLEAN,
         NEW row, row = [of |-> [kind |-> "whatif", id |-> c],
                         sims |-> IF same THEN itViews
                                  ELSE Both(Cells(itBook, AtLevels([x \in {c} |-> Raised(itBook.controls[c].level)])))]
  PROVE  RowOK(row, itViews, Primary)
<1> DEFINE levels == [x \in {c} |-> Raised(itBook.controls[c].level)]
           old == Cells(itBook, itBook.controls)
           new == Cells(itBook, AtLevels(levels))
           sims == IF same THEN itViews ELSE Both(new)
<1>1. itBook.controls \in Settings /\ old \in Seq(CellSet) /\ Alike(old, old, Fallen)
  BY BookCells
<1>2. Permitted(levels) /\ NoLower(levels)
  BY <1>1, WhatIfLevels
<1>3. row = [of |-> [kind |-> "whatif", id |-> c], sims |-> sims]
  OBVIOUS
<1> HIDE DEF levels
<1>4. new \in Seq(CellSet) /\ Alike(old, new, Fallen)
  BY <1>2, LevelledCells
<1> HIDE DEF old, new
<1>5. itViews = Both(old)
  BY DEF old
<1>6. itViews.cells = old /\ (\A v \in DOMAIN itViews \ {"cells"} : itViews[v] \in Sims) /\ Primary \in DOMAIN itViews
  BY <1>1, <1>5, ViewsType
<1> DEFINE other == Both(new)
<1>7. other.cells = new /\ (\A v \in DOMAIN other \ {"cells"} : other[v] \in Sims) /\ Primary \in DOMAIN other
  BY <1>4, ViewsType
<1>8. sims = IF same THEN itViews ELSE other
  OBVIOUS
<1> HIDE DEF sims, other
<1>9. (\A v \in DOMAIN sims \ {"cells"} : sims[v] \in Sims) /\ Primary \in DOMAIN sims
  BY <1>6, <1>7, <1>8
<1>10. sims.cells \in {old, new}
  BY <1>6, <1>7, <1>8
<1>11. Alike(itViews.cells, sims.cells, Fallen)
  BY <1>1, <1>4, <1>6, <1>10
<1>12. row.of.kind = "whatif" /\ row.sims = sims
  BY <1>3
<1> QED BY <1>9, <1>11, <1>12 DEF RowOK

\* The row of a package is in order.
LEMMA PackageRow ==
  ASSUME BookOK(itBook), itViews = Both(Cells(itBook, itBook.controls)),
         NEW name \in {"Foundation", "Priority", "Target", "User-defined"},
         NEW row, row = [of |-> [kind |-> "package", id |-> name],
                         sims |-> OneView(Cells(itBook, AtLevels(PackageOverrides(name))))]
  PROVE  RowOK(row, itViews, Primary)
<1> DEFINE levels == PackageOverrides(name)
           old == Cells(itBook, itBook.controls)
           new == Cells(itBook, AtLevels(levels))
           sims == OneView(new)
<1>1. itBook.controls \in Settings /\ old \in Seq(CellSet)
  BY BookCells
<1>2. Permitted(levels) /\ (name # "Foundation" => NoLower(levels))
  BY <1>1, PackageLevelsSet
<1>3. row = [of |-> [kind |-> "package", id |-> name], sims |-> sims]
  OBVIOUS
<1> HIDE DEF levels
<1>4. new \in Seq(CellSet) /\ (name # "Foundation" => Alike(old, new, Fallen))
  BY <1>2, LevelledCells
<1> HIDE DEF old, new
<1>5. itViews = Both(old)
  BY DEF old
<1>6. itViews.cells = old
  BY <1>5 DEF Both
<1> DEFINE run == Simulate(new, Reported)
<1>7. run \in Sims
  BY <1>4, ReportedType, SimulateType
<1>8. sims = [v \in {"cells", Primary} |-> IF v = "cells" THEN new ELSE run]
  BY DEF OneView
<1> HIDE DEF sims, run
<1>9. Primary # "cells"
  BY ReportedType
<1>10. /\ Primary \in DOMAIN sims /\ sims.cells = new
       /\ \A v \in DOMAIN sims \ {"cells"} : sims[v] \in Sims
  BY <1>7, <1>8
<1>11. row.of.kind = "package" /\ row.of.id = name /\ row.sims = sims
  BY <1>3
<1> QED BY <1>4, <1>6, <1>10, <1>11 DEF RowOK

\* The row of a sensitivity is in order.
LEMMA SensitivityRow ==
  ASSUME BookOK(itBook), itViews = Both(Cells(itBook, itBook.controls)),
         NEW item, SensitivityOK(item),
         NEW row, row = [of |-> item.of,
                         sims |-> [v \in {Primary} |-> Simulate(itViews.cells, InView(item.shock))]]
  PROVE  RowOK(row, itViews, Primary)
<1> DEFINE cells == itViews.cells
           factors == InView(item.shock)
           run == Simulate(cells, factors)
           base == Simulate(cells, Reported)
           p == Primary
<1>1. cells \in Seq(CellSet) /\ itViews[p] = base
  BY BookCells, ViewsType
<1>2. factors \in ShockSet
  BY InViewType DEF SensitivityOK
<1>3. row = [of |-> item.of, sims |-> [v \in {p} |-> run]] /\ p # "cells"
  BY ReportedType
<1> HIDE DEF p, cells, factors
<1>4. run \in Sims /\ base \in Sims
  BY <1>1, <1>2, ReportedType, SimulateType
<1> HIDE DEF run, base
<1>5. row.of = item.of /\ p \in DOMAIN row.sims /\ row.sims[p] = run
      /\ \A v \in DOMAIN row.sims \ {"cells"} : row.sims[v] \in Sims
  BY <1>3, <1>4
<1>6. row.of.kind \notin {"whatif", "package"}
  BY <1>5 DEF SensitivityOK
<1>7. ASSUME row.of.kind = "block", NEW j \in Blocks, NEW y \in ItYears
      PROVE  100 * row.sims[p].block[j][y]
               = itViews[p].block[j][y] * (IF j = row.of.block THEN row.of.factor ELSE 100)
  <2>1. PICK k \in Blocks, f \in Nat : item = BlockShock(k, f)
    BY <1>5, <1>7 DEF SensitivityOK
  <2>2. row.of.block = k /\ row.of.factor = f
    BY <1>5, <2>1 DEF BlockShock
  <2> DEFINE c == [i \in Blocks |-> IF i = k THEN f ELSE 100]
             v == Reported
  <2>3. Rescaled(v, factors, c)
    BY <2>1, BlockShockRescales DEF factors
  <2>4. c[j] = (IF j = k THEN f ELSE 100) /\ c[j] \in Nat
    OBVIOUS
  <2> HIDE DEF c, v
  <2>5. 100 * Simulate(cells, factors).block[j][y] = c[j] * Simulate(cells, v).block[j][y]
    BY <1>1, <2>3, BlocksRescaled
  <2>6. 100 * run.block[j][y] = c[j] * base.block[j][y]
    BY <2>5 DEF run, base, v
  <2>7. base.block[j][y] \in Nat
    BY <1>4 DEF Sims, SimSet, YearLoss
  <2> DEFINE m == base.block[j][y]
             e == c[j]
  <2>8. e * m = m * e
    <3>1. e \in Nat /\ m \in Nat
      BY <2>4, <2>7
    <3> HIDE DEF e, m
    <3> QED BY <3>1
  <2> QED BY <1>1, <1>5, <2>2, <2>4, <2>6, <2>8
<1>8. row.of.kind = "block" =>
        \A j \in Blocks, y \in ItYears :
          100 * row.sims[p].block[j][y]
            = itViews[p].block[j][y] * (IF j = row.of.block THEN row.of.factor ELSE 100)
  BY <1>7
<1> QED BY <1>5, <1>6, <1>8 DEF RowOK, p

\* A row is added to those in order.
LEMMA RowAppended ==
  ASSUME NEW views, NEW primary, NEW list, RowsOK(list, views, primary),
         NEW row, RowOK(row, views, primary)
  PROVE  RowsOK(Append(list, row), views, primary)
<1> DEFINE new == Append(list, row)
<1>0. new = Append(list, row) /\ IsTable(list)
  BY DEF RowsOK
<1> HIDE DEF new
<1>1. IsTable(list) /\ IsTable(new) /\ Len(new) = Len(list) + 1 /\ new[Len(new)] = row /\ Len(list) \in Nat
      /\ \A i \in 1..Len(list) : new[i] = list[i]
  <2>1. IsTable(list) /\ new = Append(list, row)
    BY <1>0
  <2>2. Extends(list, row, new)
    BY <2>1, TableAppended
  <2> QED BY <2>1, <2>2 DEF Extends
<1>3. DOMAIN new = 1..Len(new) /\ DOMAIN list = 1..Len(list)
  BY <1>1, TableItems
<1>2. \A i \in 1..Len(new) : i = Len(new) \/ i \in 1..Len(list)
  BY <1>1
<1>4. \A x \in Elements(new) : \E i \in 1..Len(new) : x = new[i]
  BY <1>3 DEF Elements
<1>5. \A i \in 1..Len(list) : list[i] \in Elements(list)
  BY <1>1, TableItems
<1>6. \A x \in Elements(new) : x = row \/ x \in Elements(list)
  BY <1>1, <1>2, <1>4, <1>5
<1> QED BY <1>1, <1>6 DEF RowsOK, new

\* Rows that are in order stay so when they are ranked.
LEMMA RowsRanked ==
  ASSUME NEW views, NEW primary, NEW list, RowsOK(list, views, primary),
         NEW gain \in [1..Len(list) -> Int]
  PROVE  RowsOK(ByGain(list, gain), views, primary)
<1> DEFINE new == ByGain(list, gain)
           n == Len(list)
<1>1. IsTable(list) /\ n \in Nat
  BY TableItems DEF RowsOK
<1> HIDE DEF n
<1>2. gain \in [1..n -> Int]
  BY DEF n
<1>3. IsTable(new) /\ Len(new) = n /\ \A k \in 1..n : new[k] \in Elements(list)
  BY <1>1, <1>2, RankedRows DEF n
<1>4. DOMAIN new = 1..Len(new)
  BY <1>3, TableItems
<1> HIDE DEF new
<1>5. \A x \in Elements(new) : \E i \in 1..Len(new) : x = new[i]
  BY <1>4 DEF Elements
<1>6. \A x \in Elements(new) : x \in Elements(list)
  BY <1>3, <1>5
<1> QED BY <1>3, <1>6 DEF RowsOK, new

\* An average is of a whole number.
LEMMA AalType ==
  ASSUME NEW sim \in Sims
  PROVE  AalOf(sim) \in Nat
<1> DEFINE s == sim.annual
           n == Cardinality(ItYears)
<1>1. s \in [1..n -> Nat] /\ n \in Nat
  BY FiniteYears DEF Sims, SimSet, YearLoss
<1> HIDE DEF s, n
<1>2. s \in Seq(Nat)
  BY <1>1
<1>3. SumOf(s) \in Nat
  BY <1>2, SumNatural
<1> QED BY <1>3 DEF AalOf, s

\* The next item of a list is one of it.
LEMMA ComingItems ==
  ASSUME NEW list, Len(list) \in Nat, NEW done \in Nat, NEW n \in Nat, n = Len(itRows), done <= n,
         NEW x \in Coming(list, done)
  PROVE  \E i \in 1..Len(list) : x = list[i]
<1> DEFINE m == Len(list)
           k == n - done + 1
<1>1. n - done < m /\ x = list[k]
  BY DEF Coming
<1> HIDE DEF m, k
<1>2. m \in Nat
  BY DEF m
<1>3. k \in 1..m
  BY <1>1, <1>2 DEF k
<1> QED BY <1>1, <1>3 DEF m

-----------------------------------------------------------------------------
(* The steps of a refresh.                                                 *)

\* A refresh starts in order.
LEMMA ItInvInit == ItInit => ItInv
BY DEF ItInit, ItInv, Opened, Viewed, Saved

\* The workbook is prepared, and accepted or refused.
LEMMA PrepareKeeps ==
  ASSUME ItInv, NEW b \in ItBooks, NEW flags, Prepare(b, flags)
  PROVE  ItInv'
<1>1. itViews = ItNothing /\ itRows = << >> /\ itViews' = itViews /\ itRows' = itRows
  BY DEF ItInv, Prepare, Viewed
<1> DEFINE p == ItPrepared(b)
<1>2. itBook' = p /\ itPc' = (IF Accepted(p) THEN "views" ELSE "failed")
  BY DEF Prepare
<1> HIDE DEF p
<1>3. Accepted(p) => BookOK(p)
  BY AcceptedBook DEF p
<1>4. BookOK(itBook') => BookOK(itBook)'
  BY DEF BookOK
<1>5. itPc' = "views" => BookOK(itBook')
  BY <1>2, <1>3
<1>6. itPc' \in {"views", "failed"}
  BY <1>2
<1>7. Opened' => BookOK(itBook)'
  BY <1>4, <1>5, <1>6 DEF Opened
<1>8. ~Viewed' /\ ~Saved'
  BY <1>6 DEF Viewed, Saved
<1> QED BY <1>1, <1>7, <1>8 DEF ItInv

\* The baseline is simulated.
LEMMA ViewsKeeps ==
  ASSUME ItInv, Views
  PROVE  ItInv'
<1>1. /\ itPc = "views" /\ itPc' = "whatifs" /\ itBook' = itBook /\ itRows' = itRows /\ itRows = << >>
      /\ itViews' = Both(Cells(itBook, itBook.controls)) /\ BookOK(itBook)
  BY DEF ItInv, Views, Opened, Viewed
<1>2. BookOK(itBook)'
  BY <1>1 DEF BookOK
<1>3. RowsOK(<< >>, itViews', Primary')
  BY DEF RowsOK, IsTable, Elements
<1>4. RowsOK(itRows, itViews, Primary)'
  BY <1>1, <1>3 DEF RowsOK, RowOK
<1>5. (itViews = Both(Cells(itBook, itBook.controls)))'
  BY <1>1
<1> QED BY <1>1, <1>2, <1>4, <1>5 DEF ItInv, Opened, Viewed, Saved

\* Where the views and the book stay, the rows decide.
Same == itBook' = itBook /\ itViews' = itViews

\* Where book and views stay as they are, the invariant is up to the rows.
LEMMA RowsDecide ==
  ASSUME ItInv, Same, Viewed, itPc' \notin {"load", "failed", "views"}, RowsOK(itRows', itViews, Primary),
         Saved' => Len(itSaved'.rows) \in Nat /\ Len(itSaved'.rows) <= Len(itRows')
  PROVE  ItInv'
<1>1. BookOK(itBook) /\ itViews = Both(Cells(itBook, itBook.controls))
  BY DEF ItInv, Opened, Viewed
<1>2. BookOK(itBook)'
  BY <1>1 DEF Same, BookOK
<1>3. (itViews = Both(Cells(itBook, itBook.controls)))'
  BY <1>1 DEF Same
<1>4. Primary' = Primary
  BY DEF Primary, Same
<1>5. RowsOK(itRows, itViews, Primary)'
  BY <1>4 DEF RowsOK, RowOK, Same
<1> QED BY <1>2, <1>3, <1>5 DEF ItInv, Viewed

\* A what-if is simulated, or keeps the baseline.
LEMMA WhatIfKeeps ==
  ASSUME ItInv, ItWhatIf
  PROVE  ItInv'
<1>1. itPc = "whatifs" /\ itPc' = itPc /\ Same
  BY DEF ItWhatIf, Same
<1>2. /\ BookOK(itBook) /\ itViews = Both(Cells(itBook, itBook.controls)) /\ Viewed
      /\ RowsOK(itRows, itViews, Primary)
  BY <1>1 DEF ItInv, Opened, Viewed
<1>3. PICK c \in Coming(ItPack.controls, 0) :
        LET raised == Raised(itBook.controls[c].level)
            same == \/ ~itFlags.whatifs \/ ~ItMapped(c)
                    \/ raised = Effective(itBook.controls[c].level)
        IN itRows' = Append(itRows, [of |-> [kind |-> "whatif", id |-> c],
                     sims |-> IF same THEN itViews ELSE Both(Cells(itBook, AtLevels([x \in {c} |-> raised])))])
  BY DEF ItWhatIf
<1>4. c \in ItControls
  <2> DEFINE list == ItPack.controls
             n == Len(itRows)
  <2>1. IsTable(list)
    BY ItPackTables
  <2>2. IsTable(itRows)
    BY <1>2 DEF RowsOK
  <2> HIDE DEF list
  <2>3. Len(list) \in Nat /\ \A i \in 1..Len(list) : list[i] \in Elements(list)
    BY <2>1, TableItems
  <2>4. n \in Nat
    BY <2>2, TableItems
  <2>5. c \in Coming(list, 0)
    BY DEF list
  <2>6. 0 <= n /\ 0 \in Nat
    BY <2>4
  <2> HIDE DEF n
  <2>7. n = Len(itRows)
    BY DEF n
  <2>8. \E i \in 1..Len(list) : c = list[i]
    BY <2>3, <2>4, <2>5, <2>6, <2>7, ComingItems
  <2> QED BY <2>3, <2>8 DEF ItControls, list
<1> DEFINE same == \/ ~itFlags.whatifs \/ ~ItMapped(c)
                   \/ Raised(itBook.controls[c].level) = Effective(itBook.controls[c].level)
           row == [of |-> [kind |-> "whatif", id |-> c],
                   sims |-> IF same THEN itViews
                            ELSE Both(Cells(itBook, AtLevels([x \in {c} |-> Raised(itBook.controls[c].level)])))]
<1>5. itRows' = Append(itRows, row)
  BY <1>3
<1>6. same \in BOOLEAN
  OBVIOUS
<1>7. RowOK(row, itViews, Primary)
  <2> HIDE DEF same
  <2> QED BY <1>2, <1>4, <1>6, WhatIfRow
<1> HIDE DEF row
<1>8. RowsOK(Append(itRows, row), itViews, Primary)
  BY <1>2, <1>7, RowAppended
<1>9. RowsOK(itRows', itViews, Primary)
  BY <1>5, <1>8
<1>10. itPc' = "whatifs" /\ ~Saved'
  BY <1>1 DEF Saved
<1> QED BY <1>1, <1>2, <1>9, <1>10, RowsDecide

\* The what-ifs are ranked.
LEMMA RankKeeps ==
  ASSUME ItInv, Rank
  PROVE  ItInv'
<1>1. itPc = "whatifs" /\ itPc' \in {"packages", "save"} /\ Same /\ itRows' = ByReduction(itRows)
  BY DEF Rank, Same
<1>2. /\ BookOK(itBook) /\ itViews = Both(Cells(itBook, itBook.controls)) /\ Viewed
      /\ RowsOK(itRows, itViews, Primary)
  BY <1>1 DEF ItInv, Opened, Viewed
<1> DEFINE list == itRows
           gain == [i \in DOMAIN list |-> Reduction(list[i])]
<1>3. itRows' = ByGain(list, gain)
  BY <1>1 DEF ByReduction
<1>4. IsTable(list)
  BY <1>2 DEF RowsOK
<1>5. DOMAIN list = 1..Len(list) /\ \A i \in 1..Len(list) : list[i] \in Elements(list)
  BY <1>4, TableItems
<1>6. ASSUME NEW i \in 1..Len(list) PROVE Reduction(list[i]) \in Int
  <2> DEFINE x == list[i]
             s == x.sims[Primary]
             t == itViews[Primary]
  <2>1. RowOK(x, itViews, Primary)
    BY <1>2, <1>5 DEF RowsOK
  <2>2. s \in Sims
    BY <2>1, ReportedType DEF RowOK
  <2>3. t \in Sims
    BY <1>2, BookCells, ViewsType
  <2>4. Reduction(x) = AalOf(t) - AalOf(s)
    BY DEF Reduction
  <2> HIDE DEF x, s, t
  <2>5. AalOf(s) \in Nat /\ AalOf(t) \in Nat
    BY <2>2, <2>3, AalType
  <2> QED BY <2>4, <2>5 DEF x
<1>7. gain \in [1..Len(list) -> Int]
  <2> DEFINE r(i) == Reduction(list[i])
  <2>1. \A i \in 1..Len(list) : r(i) \in Int
    BY <1>6
  <2>2. gain = [i \in 1..Len(list) |-> r(i)]
    BY <1>5
  <2> HIDE DEF r, gain
  <2> QED BY <2>1, <2>2
<1> HIDE DEF gain
<1>8. RowsOK(ByGain(list, gain), itViews, Primary)
  BY <1>2, <1>7, RowsRanked
<1>9. RowsOK(itRows', itViews, Primary)
  BY <1>3, <1>8
<1>10. ~Saved'
  BY <1>1 DEF Saved
<1> QED BY <1>1, <1>2, <1>9, <1>10, RowsDecide

\* A package is simulated, or none is left.
LEMMA PackageKeeps ==
  ASSUME ItInv, ItPackage
  PROVE  ItInv'
<1>1. itPc = "packages" /\ Same
  BY DEF ItPackage, Same
<1>2. /\ BookOK(itBook) /\ itViews = Both(Cells(itBook, itBook.controls)) /\ Viewed
      /\ RowsOK(itRows, itViews, Primary)
  BY <1>1 DEF ItInv, Opened, Viewed
<1> DEFINE done == {x.of.id : x \in {y \in Elements(itRows) : y.of.kind = "package"}}
           left == {i \in DOMAIN ItPackages : /\ ItPackages[i] \notin done
                                              /\ DOMAIN PackageOverrides(ItPackages[i]) # {}}
           name == ItPackages[Min(left)]
           row == [of |-> [kind |-> "package", id |-> name],
                   sims |-> OneView(Cells(itBook, AtLevels(PackageOverrides(name))))]
<1>3. IF left = {} THEN itPc' = "save" /\ itRows' = itRows
      ELSE itRows' = Append(itRows, row) /\ itPc' = itPc
  BY DEF ItPackage
<1>4. left \subseteq 1..4
  BY DEF ItPackages
<1> HIDE DEF left
<1>5. CASE left = {}
  <2>1. itPc' = "save" /\ RowsOK(itRows', itViews, Primary)
    BY <1>2, <1>3, <1>5
  <2>2. ~Saved'
    BY <2>1 DEF Saved
  <2> QED BY <1>1, <1>2, <2>1, <2>2, RowsDecide
<1>6. CASE left # {}
  <2>1. Min(left) \in 1..4
    <3>1. left \subseteq Nat
      BY <1>4
    <3>2. Min(left) \in left
      BY <1>6, <3>1, LeastIn
    <3> QED BY <1>4, <3>2
  <2>2. name \in {"Foundation", "Priority", "Target", "User-defined"}
    <3> DEFINE k == Min(left)
    <3>1. k \in {1, 2, 3, 4}
      BY <2>1
    <3> HIDE DEF k
    <3>2. ItPackages[k] \in {"Foundation", "Priority", "Target", "User-defined"}
      BY <3>1 DEF ItPackages
    <3> QED BY <3>2 DEF k
  <2>3. RowOK(row, itViews, Primary)
    <3> HIDE DEF name
    <3> QED BY <1>2, <2>2, PackageRow
  <2> HIDE DEF row
  <2>4. RowsOK(Append(itRows, row), itViews, Primary)
    BY <1>2, <2>3, RowAppended
  <2>5. RowsOK(itRows', itViews, Primary) /\ itPc' = "packages"
    BY <1>1, <1>3, <1>6, <2>4
  <2>6. ~Saved'
    BY <2>5 DEF Saved
  <2> QED BY <1>1, <1>2, <2>5, <2>6, RowsDecide
<1> QED BY <1>5, <1>6

\* The workbook is saved.
LEMMA SaveKeeps ==
  ASSUME ItInv, ItSave
  PROVE  ItInv'
<1>1. /\ itPc = "save" /\ itPc' \in {"sensitivities", "report"} /\ Same /\ itRows' = itRows
      /\ itSaved' = [views |-> itViews, rows |-> itRows, fails |-> Fails]
  BY DEF ItSave, Same
<1>2. Viewed /\ RowsOK(itRows, itViews, Primary)
  BY <1>1 DEF ItInv, Viewed
<1>3. itSaved'.rows = itRows
  <2> DEFINE f == Fails
  <2>1. itSaved' = [views |-> itViews, rows |-> itRows, fails |-> f]
    BY <1>1
  <2> HIDE DEF f
  <2> QED BY <2>1
<1>4. Len(itRows) \in Nat
  BY <1>2, TableItems DEF RowsOK
<1> QED BY <1>1, <1>2, <1>3, <1>4, RowsDecide

\* A sensitivity is simulated, or none is left.
LEMMA SensitivityKeeps ==
  ASSUME ItInv, Sensitivity
  PROVE  ItInv'
<1>1. itPc = "sensitivities" /\ Same /\ itSaved' = itSaved
  BY DEF Sensitivity, Same
<1>2. /\ BookOK(itBook) /\ itViews = Both(Cells(itBook, itBook.controls)) /\ Viewed
      /\ RowsOK(itRows, itViews, Primary)
      /\ Len(itSaved.rows) \in Nat /\ Len(itSaved.rows) <= Len(itRows)
  BY <1>1 DEF ItInv, Opened, Viewed, Saved
<1>3. IsTable(itRows) /\ Len(itRows) \in Nat
  BY <1>2, TableItems DEF RowsOK
<1> DEFINE list == Sensitivities
           done == Len(itSaved.rows)
           todo == Coming(list, done)
           rowOf(x) == [of |-> x.of,
                        sims |-> [v \in {Primary} |-> Simulate(itViews.cells, InView(x.shock))]]
<1>4. IF todo = {} THEN itPc' = "report" /\ itRows' = itRows
      ELSE (\E x \in todo : itRows' = Append(itRows, rowOf(x))) /\ itPc' = itPc
  BY DEF Sensitivity
<1>5. itViews.cells \in Seq(CellSet)
  BY <1>2, BookCells, ViewsType
<1>6. Len(list) \in Nat /\ \A i \in 1..Len(list) : SensitivityOK(list[i])
  BY <1>5, SensitivityItems
<1> HIDE DEF list
<1>7. CASE todo = {}
  <2>1. itPc' = "report" /\ RowsOK(itRows', itViews, Primary) /\ itRows' = itRows
    BY <1>2, <1>4, <1>7
  <2> QED BY <1>1, <1>2, <2>1, RowsDecide
<1>8. CASE todo # {}
  <2>1. PICK x \in todo : itRows' = Append(itRows, rowOf(x))
    BY <1>4, <1>8
  <2> DEFINE n == Len(itRows)
             row == rowOf(x)
  <2>2. SensitivityOK(x)
    <3>1. done \in Nat /\ n \in Nat /\ done <= n
      BY <1>2, <1>3
    <3> HIDE DEF done, n
    <3>2. n = Len(itRows) /\ x \in Coming(list, done)
      BY DEF n
    <3>3. \E i \in 1..Len(list) : x = list[i]
      BY <1>6, <3>1, <3>2, ComingItems
    <3> QED BY <1>6, <3>3
  <2>3. RowOK(row, itViews, Primary)
    BY <1>2, <2>2, SensitivityRow
  <2> HIDE DEF row
  <2>4. RowsOK(Append(itRows, row), itViews, Primary)
    BY <1>2, <2>3, RowAppended
  <2>5. RowsOK(itRows', itViews, Primary) /\ itPc' = "sensitivities"
    BY <1>1, <1>4, <1>8, <2>1, <2>4 DEF row
  <2>6. Len(itRows') = Len(itRows) + 1
    <3> DEFINE rows == itRows
               new == itRows'
    <3>1. IsTable(rows) /\ new = Append(rows, row)
      BY <1>3, <2>1 DEF row
    <3> HIDE DEF rows, new
    <3>2. Extends(rows, row, new)
      BY <3>1, TableAppended
    <3>3. Len(new) = Len(rows) + 1
      BY <3>2 DEF Extends
    <3> QED BY <3>3 DEF rows, new
  <2>7. Len(itSaved'.rows) \in Nat /\ Len(itSaved'.rows) <= Len(itRows')
    <3> DEFINE a == Len(itSaved.rows)
               k == Len(itRows)
    <3>1. a \in Nat /\ k \in Nat /\ a <= k
      BY <1>2, <1>3
    <3> HIDE DEF a, k
    <3>2. a <= k + 1
      BY <3>1
    <3> QED BY <1>1, <2>6, <3>1, <3>2 DEF a, k
  <2> QED BY <1>1, <1>2, <2>5, <2>7, RowsDecide
<1> QED BY <1>7, <1>8

\* The result is returned.
LEMMA ReturnKeeps ==
  ASSUME ItInv, ItReturn
  PROVE  ItInv'
<1>1. /\ itPc = "report" /\ itPc' = "returned" /\ Same /\ itRows' = itRows /\ itSaved' = itSaved
  BY DEF ItReturn, Same
<1>2. /\ Viewed /\ RowsOK(itRows, itViews, Primary)
      /\ Len(itSaved.rows) \in Nat /\ Len(itSaved.rows) <= Len(itRows)
  BY <1>1 DEF ItInv, Viewed, Saved
<1> QED BY <1>1, <1>2, RowsDecide

\* Every step keeps the rows in order.
LEMMA ItInvStep == ItInv /\ [ItNext]_itVars => ItInv'
<1> SUFFICES ASSUME ItInv, [ItNext]_itVars PROVE ItInv'
  OBVIOUS
<1>1. CASE UNCHANGED itVars
  <2>1. itPc' = itPc /\ itBook' = itBook /\ itViews' = itViews /\ itRows' = itRows /\ itSaved' = itSaved
    BY <1>1 DEF itVars
  <2>2. Primary' = Primary
    BY <2>1 DEF Primary
  <2>3. RowsOK(itRows, itViews, Primary) => RowsOK(itRows, itViews, Primary)'
    BY <2>1, <2>2 DEF RowsOK, RowOK
  <2>4. BookOK(itBook) => BookOK(itBook)'
    BY <2>1 DEF BookOK
  <2> QED BY <2>1, <2>3, <2>4 DEF ItInv, Opened, Viewed, Saved
<1>2. ASSUME NEW b \in ItBooks, NEW flags \in [whatifs : BOOLEAN, packages : BOOLEAN, sensitivity : BOOLEAN],
             Prepare(b, flags)
      PROVE  ItInv'
  BY <1>2, PrepareKeeps
<1> QED BY <1>1, <1>2, ViewsKeeps, WhatIfKeeps, RankKeeps, PackageKeeps, SaveKeeps,
           SensitivityKeeps, ReturnKeeps DEF ItNext

-----------------------------------------------------------------------------
(* What the invariant says of the latest row.                              *)

\* The latest row is in order.
LEMMA LatestRow ==
  ASSUME ItInv, Simulated
  PROVE  /\ BookOK(itBook) /\ itViews = Both(Cells(itBook, itBook.controls))
         /\ RowOK(LastRow, itViews, Primary)
<1>1. Viewed
  BY DEF ItInv, Simulated
<1>2. /\ BookOK(itBook) /\ itViews = Both(Cells(itBook, itBook.controls))
      /\ RowsOK(itRows, itViews, Primary)
  BY <1>1 DEF ItInv, Opened, Viewed
<1>3. IsTable(itRows)
  BY <1>2 DEF RowsOK
<1>4. itRows # << >>
  BY DEF Simulated
<1>5. LastRow \in Elements(itRows)
  <2> DEFINE s == itRows
             E == Elements(s)
  <2>1. s \in Seq(E) /\ s # << >>
    BY <1>3, <1>4 DEF IsTable
  <2> HIDE DEF s, E
  <2>2. s[Len(s)] \in E
    BY <2>1
  <2> QED BY <2>2 DEF LastRow, s, E
<1> QED BY <1>2, <1>5 DEF RowsOK

\* The invariant has the latest shock of a block exact.
LEMMA BlocksFollow == ItInv => BlockShocksAreExact
<1> SUFFICES ASSUME ItInv, Simulated, LastRow.of.kind = "block",
                    NEW k \in Blocks, NEW y \in ItYears
             PROVE  100 * LastRow.sims[Primary].block[k][y]
                      = itViews[Primary].block[k][y] * (IF k = LastRow.of.block THEN LastRow.of.factor ELSE 100)
  BY DEF BlockShocksAreExact
<1> DEFINE row == LastRow
           p == Primary
<1>1. RowOK(row, itViews, p)
  BY LatestRow
<1>2. row.of.kind = "block"
  OBVIOUS
<1> HIDE DEF row, p
<1>3. 100 * row.sims[p].block[k][y]
        = itViews[p].block[k][y] * (IF k = row.of.block THEN row.of.factor ELSE 100)
  BY <1>1, <1>2 DEF RowOK
<1> QED BY <1>3 DEF row, p

\* The invariant has the latest uplift lower all rates.
LEMMA UpliftsFollow == ItInv => UpliftLowersRates
<1> SUFFICES ASSUME ItInv, Simulated, LastRow.of.kind \in {"whatif", "package"}, LastRow.of.id # "Foundation",
                    NEW i \in DOMAIN itViews.cells
             PROVE  LET old == itViews.cells[i]
                        new == LastRow.sims.cells[i]
                    IN /\ new.attempt = old.attempt /\ new.rate <= old.rate
                       /\ \A d \in DOMAIN old.drivers, q \in {1, 2} : new.drivers[d][q] <= old.drivers[d][q]
  BY DEF UpliftLowersRates
<1> DEFINE row == LastRow
           old == itViews.cells
           new == row.sims.cells
<1>1. RowOK(row, itViews, Primary)
  BY LatestRow
<1>2. row.of.kind \in {"whatif", "package"} /\ row.of.id # "Foundation"
  OBVIOUS
<1>3. Alike(old, new, Fallen)
  BY <1>1, <1>2 DEF RowOK
<1>4. old \in Seq(CellSet)
  BY LatestRow, BookCells, ViewsType
<1>5. i \in 1..Len(old)
  BY <1>4, CellItems
<1> HIDE DEF old, new
<1>6. <<old[i], new[i]>> \in Fallen
  BY <1>3, <1>5 DEF Alike
<1>7. CellFalls(old[i], new[i])
  BY <1>6 DEF Fallen
<1> QED BY <1>7 DEF CellFalls, old, new, row

-----------------------------------------------------------------------------
(* The trials of the tail.                                                 *)

\* How many years are simulated.
SomeYears == Cardinality(ItYears)

\* There is a year.
LEMMA YearsThere ==
  /\ SomeYears \in Nat \ {0} /\ ItYears = 1..SomeYears /\ IsFiniteSet(ItYears)
  /\ Years(SomeYears, ItYears)
<1> DEFINE n == SomeYears
<1>1. IsFiniteSet(ItYears) /\ ItYears # {} /\ ItYears = 1..n
  BY ItSettings DEF SomeYears
<1>2. n \in Nat
  BY FiniteYears DEF SomeYears
<1> HIDE DEF n
<1>3. n # 0
  BY <1>1
<1> QED BY <1>1, <1>2, <1>3 DEF n, Years

-----------------------------------------------------------------------------
(* Analyses that reconcile.                                                *)

\* Attempts and expected events of each cell.
AttemptOf(cells) == [i \in 1..Len(cells) |-> cells[i].attempt]

EventOf(cells) == [i \in 1..Len(cells) |-> cells[i].rate]

\* The cells of one of a group, and of all of them.
LEMMA PickedCells ==
  ASSUME NEW cells \in Seq(CellSet), NEW c, NEW k, NEW mine, mine = {i \in DOMAIN cells : c[i] = k}
  PROVE  /\ AttemptsIn(cells, mine) = Part(AttemptOf(cells), c, k)
         /\ EventsIn(cells, mine) = Part(EventOf(cells), c, k)
<1> DEFINE n == Len(cells)
           v == AttemptOf(cells)
           w == EventOf(cells)
           s == [i \in DOMAIN cells |-> IF i \in mine THEN cells[i].attempt ELSE 0]
           t == [i \in DOMAIN cells |-> IF i \in mine THEN cells[i].rate ELSE 0]
<1>1. n \in Nat /\ DOMAIN cells = 1..n /\ \A i \in 1..n : cells[i].attempt \in Nat /\ cells[i].rate \in Nat
  BY CellItems
<1>2. v = [i \in 1..n |-> cells[i].attempt] /\ w = [i \in 1..n |-> cells[i].rate]
  BY DEF AttemptOf, EventOf
<1> HIDE DEF n, v, w
<1>3. v \in [1..n -> Int] /\ w \in [1..n -> Int]
  BY <1>1, <1>2
<1>4. s = [i \in 1..n |-> IF c[i] = k THEN v[i] ELSE 0]
  BY <1>1, <1>2
<1>5. t = [i \in 1..n |-> IF c[i] = k THEN w[i] ELSE 0]
  BY <1>1, <1>2
<1>6. AttemptsIn(cells, mine) = SumOf(s) /\ EventsIn(cells, mine) = SumOf(t)
  BY DEF AttemptsIn, EventsIn
<1> HIDE DEF s, t
<1>7. SumOf(s) = Part(v, c, k)
  <2>1. Picks(n, v, c, k, s)
    BY <1>1, <1>3, <1>4 DEF Picks
  <2> QED BY <2>1, PickedIsPart
<1>8. SumOf(t) = Part(w, c, k)
  <2>1. Picks(n, w, c, k, t)
    BY <1>1, <1>3, <1>5 DEF Picks
  <2> QED BY <2>1, PickedIsPart
<1> QED BY <1>6, <1>7, <1>8 DEF v, w

\* All attempts and events of the cells.
LEMMA AllCells ==
  ASSUME NEW cells \in Seq(CellSet)
  PROVE  /\ Attempted(cells) = SumOver(AttemptOf(cells))
         /\ EventsIn(cells, DOMAIN cells) = SumOver(EventOf(cells))
         /\ AttemptOf(cells) \in [1..Len(cells) -> Int] /\ EventOf(cells) \in [1..Len(cells) -> Int]
<1> DEFINE n == Len(cells)
           v == AttemptOf(cells)
           w == EventOf(cells)
           s == [i \in DOMAIN cells |-> IF i \in DOMAIN cells THEN cells[i].attempt ELSE 0]
           t == [i \in DOMAIN cells |-> IF i \in DOMAIN cells THEN cells[i].rate ELSE 0]
<1>1. n \in Nat /\ DOMAIN cells = 1..n /\ \A i \in 1..n : cells[i].attempt \in Nat /\ cells[i].rate \in Nat
  BY CellItems
<1>2. v = [i \in 1..n |-> cells[i].attempt] /\ w = [i \in 1..n |-> cells[i].rate]
  BY DEF AttemptOf, EventOf
<1>3. Attempted(cells) = SumOf(s) /\ EventsIn(cells, DOMAIN cells) = SumOf(t)
  BY DEF Attempted, AttemptsIn, EventsIn
<1> HIDE DEF n
<1>4. s = v /\ t = w
  BY <1>1 DEF AttemptOf, EventOf, n
<1> HIDE DEF v, w
<1>5. v \in [1..n -> Int] /\ w \in [1..n -> Int]
  BY <1>1, <1>2
<1>6. SumOf(v) = SumOver(v) /\ SumOf(w) = SumOver(w)
  BY <1>1, <1>5, SumOverItems
<1> QED BY <1>3, <1>4, <1>5, <1>6 DEF v, w, n

\* An analysis with a row for each of a group.
Analysed(K, cells, c, losses, annual, order, table) ==
  /\ cells \in Seq(CellSet) /\ \A i \in 1..Len(cells) : c[i] \in K
  /\ YearShares(ItYears, K, losses, annual) /\ order \in [ItYears -> ItYears]
  /\ table = [k \in K |-> AnalysisRow(cells, {i \in DOMAIN cells : c[i] = k}, losses[k], order)]

\* Rows that share attempts, events, average and tail.
Reconciled(table, cells, annual, order) ==
  /\ SumOver([k \in DOMAIN table |-> table[k].attempts]) = Attempted(cells)
  /\ SumOver([k \in DOMAIN table |-> table[k].events]) = EventsIn(cells, DOMAIN cells)
  /\ SumOver([k \in DOMAIN table |-> table[k].aal]) = SumOf(annual)
  /\ \A q \in {95, 99} :
       SumOver([k \in DOMAIN table |-> table[k].tail[q]]) = TailContribution(annual, order, q)

\* An analysis reconciles with the whole it analyses.
LEMMA RowsReconcile ==
  ASSUME NEW K, NEW cells, NEW c, NEW losses, NEW annual, NEW order, NEW table,
         Analysed(K, cells, c, losses, annual, order, table)
  PROVE  Reconciled(table, cells, annual, order)
<1> DEFINE mine(k) == {i \in DOMAIN cells : c[i] = k}
           row(k) == AnalysisRow(cells, mine(k), losses[k], order)
           D == 1..Len(cells)
           v == AttemptOf(cells)
           w == EventOf(cells)
<1>1. /\ cells \in Seq(CellSet) /\ (\A i \in D : c[i] \in K) /\ YearShares(ItYears, K, losses, annual)
      /\ IsFiniteSet(K) /\ order \in [ItYears -> ItYears]
  BY DEF Analysed, YearShares
<1>2. table = [k \in K |-> row(k)]
  BY DEF Analysed
<1>3. IsFiniteSet(D)
  <2>1. Len(cells) \in Nat
    BY <1>1, CellItems
  <2> QED BY <2>1, FS_Interval
<1>4. /\ v \in [D -> Int] /\ w \in [D -> Int] /\ Attempted(cells) = SumOver(v)
      /\ EventsIn(cells, DOMAIN cells) = SumOver(w)
  BY <1>1, AllCells
<1>5. \A k \in K : /\ row(k).attempts = Part(v, c, k) /\ row(k).events = Part(w, c, k)
                   /\ row(k).aal = SumOf(losses[k])
                   /\ \A q \in {95, 99} : row(k).tail[q] = TailContribution(losses[k], order, q)
  <2> TAKE k \in K
  <2> DEFINE m == mine(k)
             x == losses[k]
  <2>1. m = {i \in DOMAIN cells : c[i] = k}
    OBVIOUS
  <2> HIDE DEF m
  <2>2. AttemptsIn(cells, m) = Part(v, c, k) /\ EventsIn(cells, m) = Part(w, c, k)
    BY <1>1, <2>1, PickedCells
  <2>3. row(k) = AnalysisRow(cells, m, x, order)
    BY DEF m
  <2> HIDE DEF row, x
  <2>4. /\ row(k).attempts = AttemptsIn(cells, m) /\ row(k).events = EventsIn(cells, m)
        /\ row(k).aal = SumOf(x) /\ \A q \in {95, 99} : row(k).tail[q] = TailContribution(x, order, q)
    BY <2>3 DEF AnalysisRow
  <2> QED BY <2>2, <2>4 DEF x
<1> HIDE DEF row, v, w, D
<1>6. SumOver([k \in K |-> Part(v, c, k)]) = SumOver(v)
  <2> DEFINE F == [k \in K |-> Part(v, c, k)]
  <2>1. F = [k \in K |-> Part(v, c, k)]
    OBVIOUS
  <2> HIDE DEF F
  <2>2. PartsOf(D, K, v, c, F)
    BY <1>1, <1>3, <1>4, <2>1 DEF PartsOf
  <2>3. SumOver(F) = SumOver(v)
    BY <2>2, PartsAdd
  <2> QED BY <2>3 DEF F
<1>7. SumOver([k \in K |-> Part(w, c, k)]) = SumOver(w)
  <2> DEFINE F == [k \in K |-> Part(w, c, k)]
  <2>1. F = [k \in K |-> Part(w, c, k)]
    OBVIOUS
  <2> HIDE DEF F
  <2>2. PartsOf(D, K, w, c, F)
    BY <1>1, <1>3, <1>4, <2>1 DEF PartsOf
  <2>3. SumOver(F) = SumOver(w)
    BY <2>2, PartsAdd
  <2> QED BY <2>3 DEF F
<1>8. DOMAIN table = K /\ \A k \in K : table[k] = row(k)
  BY <1>2
<1>9. SumOver([k \in DOMAIN table |-> table[k].attempts]) = Attempted(cells)
  <2>1. [k \in DOMAIN table |-> table[k].attempts] = [k \in K |-> Part(v, c, k)]
    BY <1>5, <1>8
  <2> QED BY <1>4, <1>6, <2>1
<1>10. SumOver([k \in DOMAIN table |-> table[k].events]) = EventsIn(cells, DOMAIN cells)
  <2>1. [k \in DOMAIN table |-> table[k].events] = [k \in K |-> Part(w, c, k)]
    BY <1>5, <1>8
  <2> QED BY <1>4, <1>7, <2>1
<1>11. SumOver([k \in DOMAIN table |-> table[k].aal]) = SumOf(annual)
  <2>1. [k \in DOMAIN table |-> table[k].aal] = [k \in K |-> SumOf(losses[k])]
    BY <1>5, <1>8
  <2> QED BY <1>1, <2>1, YearsThere, AveragesShare
<1>12. ASSUME NEW q \in {95, 99}
       PROVE  SumOver([k \in DOMAIN table |-> table[k].tail[q]]) = TailContribution(annual, order, q)
  <2>1. [k \in DOMAIN table |-> table[k].tail[q]] = [k \in K |-> TailContribution(losses[k], order, q)]
    BY <1>5, <1>8
  <2>2. SumOver([k \in K |-> TailContribution(losses[k], order, q)]) = TailContribution(annual, order, q)
    <3>1. TailsAdd(SomeYears, K, losses, annual, order, q)
      BY <1>1, YearsThere, TailsShare
    <3> QED BY <3>1 DEF TailsAdd
  <2> QED BY <2>1, <2>2
<1> QED BY <1>9, <1>10, <1>11, <1>12 DEF Reconciled

-----------------------------------------------------------------------------
(* The result.                                                             *)

\* The analyses of the result reconcile.
ResultShares ==
  itPc = "returned" =>
    \A table \in {itResult.scenarios, itResult.actors} :
      /\ \A field \in {"attempts", "events", "aal"} :
           SumOver([k \in DOMAIN table |-> table[k][field]]) = itResult[field]
      /\ \A q \in {95, 99} :
           SumOver([k \in DOMAIN table |-> table[k].tail[q]]) = itResult.tail[q][1]

\* The latest simulations balance in every year.
YearsBalance ==
  itViews # ItNothing =>
    \A sim \in SimsOf(IF itRows = << >> THEN itViews ELSE LastRow.sims), y \in ItYears :
      /\ \A table \in {sim.actor, sim.scenario, sim.block, sim.driver} :
           SumOver([k \in DOMAIN table |-> table[k][y]]) = sim.annual[y]
      /\ sim.largest[y] <= sim.annual[y]
      /\ sim.largest[y] = 0 <=> sim.annual[y] = 0

\* A simulation shares its years over scenarios and over actors.
LEMMA SimShares ==
  ASSUME NEW sim \in Sims
  PROVE  /\ YearShares(ItYears, ItScenarios, sim.scenario, sim.annual)
         /\ YearShares(ItYears, ItActors, sim.actor, sim.annual)
         /\ sim.annual \in [ItYears -> Int]
<1>1. sim \in SimSet /\ \A y \in ItYears : BalancedIn(sim, y)
  BY DEF Sims
<1>2. /\ sim.scenario \in [ItScenarios -> YearLoss] /\ sim.actor \in [ItActors -> YearLoss]
      /\ sim.annual \in YearLoss
  BY <1>1 DEF SimSet
<1>3. \A y \in ItYears : /\ SumOver(Column(sim.actor, y)) = sim.annual[y]
                         /\ SumOver(Column(sim.scenario, y)) = sim.annual[y]
  BY <1>1 DEF BalancedIn
<1>4. sim.annual \in [ItYears -> Int]
  BY <1>2 DEF YearLoss
<1> QED BY <1>2, <1>3, <1>4, ItFinite DEF YearShares, YearLoss

\* Both analyses reconcile with the reported view.
LEMMA ResultReconciled ==
  ASSUME NEW sim \in Sims, NEW cells \in Seq(CellSet), NEW order, order = Order(sim.annual),
         NEW scenarios, NEW actors,
         scenarios = [s \in ItScenarios |->
           AnalysisRow(cells, {i \in DOMAIN cells : cells[i].scenario = s}, sim.scenario[s], order)],
         actors = [a \in ItActors |->
           AnalysisRow(cells, {i \in DOMAIN cells : cells[i].actor = a}, sim.actor[a], order)]
  PROVE  Reconciled(scenarios, cells, sim.annual, order) /\ Reconciled(actors, cells, sim.annual, order)
<1> DEFINE cs == [i \in 1..Len(cells) |-> cells[i].scenario]
           ca == [i \in 1..Len(cells) |-> cells[i].actor]
           byScenario == sim.scenario
           byActor == sim.actor
           annual == sim.annual
<1>1. /\ YearShares(ItYears, ItScenarios, byScenario, annual) /\ YearShares(ItYears, ItActors, byActor, annual)
      /\ annual \in [ItYears -> Int]
  BY SimShares
<1>2. Len(cells) \in Nat /\ DOMAIN cells = 1..Len(cells)
      /\ \A i \in 1..Len(cells) : cells[i].actor \in ItActors /\ cells[i].scenario \in ItScenarios
  BY CellItems
<1>3. order \in [ItYears -> ItYears]
  <2> DEFINE n == SomeYears
  <2>1. n \in Nat /\ ItYears = 1..n
    BY YearsThere
  <2> HIDE DEF n, annual
  <2>2. annual \in [1..n -> Int]
    BY <1>1, <2>1
  <2>3. Ranking(annual) \in [1..n -> 1..n]
    BY <2>1, <2>2, RankingType
  <2> QED BY <2>1, <2>3 DEF Order, annual
<1>4. \A s : {i \in DOMAIN cells : cells[i].scenario = s} = {i \in DOMAIN cells : cs[i] = s}
  BY <1>2
<1>5. \A a : {i \in DOMAIN cells : cells[i].actor = a} = {i \in DOMAIN cells : ca[i] = a}
  BY <1>2
<1>6. \A i \in 1..Len(cells) : cs[i] \in ItScenarios /\ ca[i] \in ItActors
  BY <1>2
<1> HIDE DEF cs, ca
<1>7. scenarios = [s \in ItScenarios |->
        AnalysisRow(cells, {i \in DOMAIN cells : cs[i] = s}, byScenario[s], order)]
  BY <1>4
<1>8. actors = [a \in ItActors |->
        AnalysisRow(cells, {i \in DOMAIN cells : ca[i] = a}, byActor[a], order)]
  BY <1>5
<1> HIDE DEF byScenario, byActor, annual
<1>9. Analysed(ItScenarios, cells, cs, byScenario, annual, order, scenarios)
  BY <1>1, <1>3, <1>6, <1>7 DEF Analysed
<1>10. Analysed(ItActors, cells, ca, byActor, annual, order, actors)
  BY <1>1, <1>3, <1>6, <1>8 DEF Analysed
<1>11. Reconciled(scenarios, cells, annual, order)
  BY <1>9, RowsReconcile
<1>12. Reconciled(actors, cells, annual, order)
  BY <1>10, RowsReconcile
<1> QED BY <1>11, <1>12 DEF annual

\* What refresh returns reconciles.
LEMMA ReturnReconciles ==
  ASSUME ItInv, ItReturn
  PROVE  ResultShares'
<1>1. itPc = "report"
  BY DEF ItReturn
<1>2. BookOK(itBook) /\ itViews = Both(Cells(itBook, itBook.controls))
  BY <1>1 DEF ItInv, Opened, Viewed
<1> DEFINE sim == itViews[Primary]
           cells == itViews.cells
           order == Order(sim.annual)
           tail == [q \in {95, 99} |-> ExpectedShortfall(sim.annual, q)]
           scenarios == [s \in ItScenarios |->
             AnalysisRow(cells, {i \in DOMAIN cells : cells[i].scenario = s}, sim.scenario[s], order)]
           actors == [a \in ItActors |->
             AnalysisRow(cells, {i \in DOMAIN cells : cells[i].actor = a}, sim.actor[a], order)]
           all == AalOf(sim)
           tried == Attempted(cells)
           events == EventsIn(cells, DOMAIN cells)
           fails == itSaved.fails
           rows == itSaved.rows
           moved(x) == LET d == AalOf(x.sims[Primary]) - AalOf(sim) IN Max({d, -d})
           sens == SubSeq(itRows, Len(itSaved.rows) + 1, Len(itRows))
           ranked == ByGain(sens, [i \in DOMAIN sens |-> moved(sens[i])])
<1>3. itResult' = [aal |-> all, tail |-> tail, attempts |-> tried, events |-> events,
                   scenarios |-> scenarios, actors |-> actors, fails |-> fails, rows |-> rows,
                   sensitivities |-> ranked]
  BY DEF ItReturn
<1>4. sim \in Sims /\ cells \in Seq(CellSet)
  BY <1>2, BookCells, ViewsType
<1> HIDE DEF sim, cells, ranked
<1>5. Reconciled(scenarios, cells, sim.annual, order) /\ Reconciled(actors, cells, sim.annual, order)
  <2>1. scenarios = scenarios /\ actors = actors /\ order = order
    OBVIOUS
  <2> HIDE DEF order
  <2>2. order = Order(sim.annual)
    BY DEF order
  <2> QED BY <1>4, <2>2, ResultReconciled
<1>6. ASSUME NEW q \in {95, 99} PROVE tail[q][1] = TailContribution(sim.annual, order, q)
  <2> DEFINE annual == sim.annual
  <2>1. annual \in [ItYears -> Int]
    BY <1>4, SimShares
  <2>2. tail[q] = ExpectedShortfall(annual, q)
    OBVIOUS
  <2> HIDE DEF annual
  <2>3. ExpectedShortfall(annual, q)[1] = TailContribution(annual, Order(annual), q)
    BY <2>1, YearsThere, TailOfWhole
  <2> QED BY <2>2, <2>3 DEF annual
<1>7. all = SumOf(sim.annual)
  BY DEF AalOf
<1> HIDE DEF tail, scenarios, actors, all, tried, events, fails, rows, order
<1>8. /\ itResult'.scenarios = scenarios /\ itResult'.actors = actors /\ itResult'.tail = tail
      /\ itResult'["attempts"] = tried /\ itResult'["events"] = events /\ itResult'["aal"] = all
  BY <1>3
<1>9. ASSUME NEW table \in {scenarios, actors}
      PROVE  /\ \A field \in {"attempts", "events", "aal"} :
                  SumOver([k \in DOMAIN table |-> table[k][field]]) = itResult'[field]
             /\ \A q \in {95, 99} :
                  SumOver([k \in DOMAIN table |-> table[k].tail[q]]) = itResult'.tail[q][1]
  <2>1. Reconciled(table, cells, sim.annual, order)
    BY <1>5
  <2>2. /\ SumOver([k \in DOMAIN table |-> table[k]["attempts"]]) = tried
        /\ SumOver([k \in DOMAIN table |-> table[k]["events"]]) = events
        /\ SumOver([k \in DOMAIN table |-> table[k]["aal"]]) = all
    BY <1>7, <2>1 DEF Reconciled, tried, events
  <2>3. \A field \in {"attempts", "events", "aal"} :
          SumOver([k \in DOMAIN table |-> table[k][field]]) = itResult'[field]
    BY <1>8, <2>2
  <2>4. \A q \in {95, 99} :
          SumOver([k \in DOMAIN table |-> table[k].tail[q]]) = TailContribution(sim.annual, order, q)
    BY <2>1 DEF Reconciled
  <2>5. \A q \in {95, 99} : tail[q][1] = TailContribution(sim.annual, order, q)
    BY <1>6
  <2> QED BY <1>8, <2>3, <2>4, <2>5
<1> QED BY <1>8, <1>9 DEF ResultShares

\* A result that reconciles stays, and one that is returned does.
LEMMA ResultStep == ItInv /\ ResultShares /\ [ItNext]_itVars => ResultShares'
<1> SUFFICES ASSUME ItInv, ResultShares, [ItNext]_itVars PROVE ResultShares'
  OBVIOUS
<1>1. CASE UNCHANGED itVars
  <2>1. itPc' = itPc /\ itResult' = itResult
    BY <1>1 DEF itVars
  <2> DEFINE adds(table, result) ==
        /\ \A field \in {"attempts", "events", "aal"} :
             SumOver([k \in DOMAIN table |-> table[k][field]]) = result[field]
        /\ \A q \in {95, 99} :
             SumOver([k \in DOMAIN table |-> table[k].tail[q]]) = result.tail[q][1]
             shares(result) == \A table \in {result.scenarios, result.actors} : adds(table, result)
  <2>2. ResultShares <=> (itPc = "returned" => shares(itResult))
    BY DEF ResultShares
  <2>3. ResultShares' <=> (itPc' = "returned" => shares(itResult'))
    BY DEF ResultShares
  <2> HIDE DEF shares
  <2> QED BY <2>1, <2>2, <2>3
<1>2. CASE ItReturn
  BY <1>2, ReturnReconciles
<1>3. ASSUME NEW b \in ItBooks, NEW flags, Prepare(b, flags) PROVE itPc' # "returned"
  BY <1>3 DEF Prepare
<1>4. CASE Views \/ ItWhatIf \/ Rank \/ ItPackage \/ ItSave \/ Sensitivity
  <2>1. Views => itPc' # "returned"
    BY DEF Views
  <2>2. ItWhatIf => itPc' # "returned"
    BY DEF ItWhatIf
  <2>3. Rank => itPc' # "returned"
    BY DEF Rank
  <2>4. ItPackage => itPc' # "returned"
    BY DEF ItPackage
  <2>5. ItSave => itPc' # "returned"
    BY DEF ItSave
  <2>6. Sensitivity => itPc' # "returned"
    BY DEF Sensitivity
  <2> QED BY <1>4, <2>1, <2>2, <2>3, <2>4, <2>5, <2>6 DEF ResultShares
<1>5. itPc' # "returned" => ResultShares'
  BY DEF ResultShares
<1> QED BY <1>1, <1>2, <1>3, <1>4, <1>5 DEF ItNext

\* The tables of a simulation add up to the year.
LEMMA SimBalances ==
  ASSUME NEW sim \in Sims, NEW y \in ItYears
  PROVE  /\ \A table \in {sim.actor, sim.scenario, sim.block, sim.driver} :
              SumOver([k \in DOMAIN table |-> table[k][y]]) = sim.annual[y]
         /\ sim.largest[y] <= sim.annual[y]
         /\ sim.largest[y] = 0 <=> sim.annual[y] = 0
<1>1. BalancedIn(sim, y)
  BY DEF Sims
<1>2. \A table \in {sim.actor, sim.scenario, sim.block, sim.driver} :
        SumOver(Column(table, y)) = sim.annual[y]
  BY <1>1 DEF BalancedIn
<1>3. \A table \in {sim.actor, sim.scenario, sim.block, sim.driver} :
        SumOver([k \in DOMAIN table |-> table[k][y]]) = sim.annual[y]
  BY <1>2 DEF Column
<1> QED BY <1>1, <1>3 DEF BalancedIn

\* The invariant has the latest simulations balanced.
LEMMA BalanceFollows == ItInv => YearsBalance
<1> SUFFICES ASSUME ItInv, itViews # ItNothing PROVE YearsBalance
  BY DEF YearsBalance
<1> DEFINE sims == IF itRows = << >> THEN itViews ELSE LastRow.sims
<1>1. Viewed
  BY DEF ItInv
<1>2. BookOK(itBook) /\ itViews = Both(Cells(itBook, itBook.controls))
  BY <1>1 DEF ItInv, Opened, Viewed
<1>5. \A v \in DOMAIN sims \ {"cells"} : sims[v] \in Sims
  <2>1. CASE itRows = << >>
    <3>1. \A v \in DOMAIN itViews \ {"cells"} : itViews[v] \in Sims
      BY <1>2, BookCells, ViewsType
    <3> QED BY <2>1, <3>1
  <2>2. CASE itRows # << >>
    <3>1. Simulated
      BY <1>1, <2>2 DEF Simulated, Viewed
    <3>2. RowOK(LastRow, itViews, Primary)
      BY <3>1, LatestRow
    <3>3. \A v \in DOMAIN LastRow.sims \ {"cells"} : LastRow.sims[v] \in Sims
      BY <3>2 DEF RowOK
    <3> QED BY <2>2, <3>3
  <2> QED BY <2>1, <2>2
<1> HIDE DEF sims
<1>6. \A sim \in SimsOf(sims) : sim \in Sims
  BY <1>5 DEF SimsOf
<1>7. \A sim \in SimsOf(sims), y \in ItYears :
        /\ \A table \in {sim.actor, sim.scenario, sim.block, sim.driver} :
             SumOver([k \in DOMAIN table |-> table[k][y]]) = sim.annual[y]
        /\ sim.largest[y] <= sim.annual[y]
        /\ sim.largest[y] = 0 <=> sim.annual[y] = 0
  BY <1>6, SimBalances
<1> QED BY <1>7 DEF YearsBalance, sims

-----------------------------------------------------------------------------
(* Attempts that are kept.                                                 *)

\* The attempts of a cell.
AttemptIn == [c \in CellSet |-> c.attempt]

LEMMA AttemptInType == AttemptIn \in [CellSet -> Int]
<1>1. \A c \in CellSet : c.attempt \in Int
  BY DEF CellSet
<1> QED BY <1>1 DEF AttemptIn

\* Without the exposure model a valid path has all of its opportunity.
LEMMA ValidIsOpen ==
  ASSUME NEW b, ~b.useExposure, NEW a, NEW s, NEW r, NEW x, Path(b, a, s, r, x).valid
  PROVE  Path(b, a, s, r, x).opportunity = Unit
BY DEF Path

\* A share that meets all of the opportunity, and none.
LEMMA SharePassed ==
  ASSUME NEW y \in Nat, NEW o \in Nat
  PROVE  Times(y, Unit) = y /\ Times(0, o) = 0
<1>1. Unit \in Nat \ {0}
  BY BarrierUnit
<1>2. (y * Unit) \div Unit = y
  BY <1>1
<1>3. (0 * o) \div Unit = 0
  BY <1>1
<1> QED BY <1>2, <1>3 DEF Times

\* A cell's attempts: its share of those of its actor and scenario.
LEMMA ShareOfRoute ==
  ASSUME NEW b, BookOK(b), ~b.useExposure, NEW a \in ItActors, NEW s \in ItScenarios,
         NEW r \in ItRoutes, NEW x \in Settings,
         NEW path, path = [q \in ItRoutes |-> Path(b, a, s, q, x)],
         NEW w, w = OpenPropensity(path, a, s, r), NEW all \in Nat \ {0}
  PROVE  w \in Nat /\ Times((Attempts(a, s) * w) \div all, path[r].opportunity)
                         = (Attempts(a, s) * w) \div all
<1> DEFINE p == Path(b, a, s, r, x)
           u == ItPack.actorRoute[a][r]
           v == ItPack.scenarioRoute[s][r]
           o == p.opportunity
           A == Attempts(a, s)
<1>1. path[r] = p
  OBVIOUS
<1>2. p \in PathSet
  BY PathInSet
<1>3. o \in Nat /\ p.valid \in BOOLEAN
  BY <1>2 DEF PathSet
<1>4. u \in Nat /\ v \in Nat
  BY ItPackTables
<1>5. w = IF p.valid THEN u * v ELSE 0
  BY <1>1 DEF OpenPropensity
<1>6. A \in Nat
  BY AttemptsType
<1>7. p.valid => o = Unit
  BY ValidIsOpen
<1> HIDE DEF p, u, v, o, A
<1>8. w \in Nat
  <2>1. u * v \in Nat
    BY <1>4
  <2> QED BY <1>5, <2>1
<1> DEFINE y == (A * w) \div all
<1>9. y \in Nat
  <2>1. A * w \in Nat
    BY <1>6, <1>8
  <2> DEFINE z == A * w
  <2> HIDE DEF z
  <2>2. z \in Nat /\ y = z \div all
    BY <2>1 DEF z
  <2> QED BY <2>2, DivNatural
<1>10. ~p.valid => y = 0
  <2>1. 0 \div all = 0
    OBVIOUS
  <2>2. A * 0 = 0
    BY <1>6
  <2> QED BY <1>5, <2>1, <2>2
<1>11. Times(y, o) = y
  <2> HIDE DEF y
  <2>1. CASE p.valid
    <3>1. o = Unit
      BY <1>7, <2>1
    <3> QED BY <1>3, <1>9, <3>1, SharePassed
  <2>2. CASE ~p.valid
    <3>1. y = 0
      BY <1>10, <2>2
    <3>2. Times(0, o) = 0
      BY <1>3, <1>9, SharePassed
    <3> QED BY <3>1, <3>2
  <2> QED BY <2>1, <2>2
<1> QED BY <1>1, <1>8, <1>11 DEF y, o, A

\* The cells of a pair share its attempts, and are its own.
PairKept(b, x, a, s) ==
  LET cells == CellsOf(b, x, a, s)
  IN /\ cells \in Seq(CellSet)
     /\ cells # << >> => Short(AttemptIn, cells, Attempts(a, s))
     /\ \A i \in 1..Len(cells) : cells[i].actor = a /\ cells[i].scenario = s

LEMMA CellsShare ==
  ASSUME NEW b, BookOK(b), ~b.useExposure, NEW a \in ItActors, NEW s \in ItScenarios,
         NEW x \in Settings
  PROVE  PairKept(b, x, a, s)
<1> DEFINE path == [r \in ItRoutes |-> Path(b, a, s, r, x)]
           raw == [r \in ItRoutes |-> OpenPropensity(path, a, s, r)]
           n == Len(ItPack.routes)
           route(i) == ItPack.routes[i]
           weights == [i \in DOMAIN ItPack.routes |-> raw[route(i)]]
           all == SumOf(weights)
           severity == Severity(b, a, s)
           cells == CellsOf(b, x, a, s)
           A == Attempts(a, s)
<1>1. NoneWeaker(x, x)
  <2>1. \A c \in ItControls : x[c].level \in 0..Top
    BY DEF Settings
  <2>2. \A c \in ItControls : Effective(x[c].level) \in Int
    BY <2>1, LevelIndex
  <2> QED BY <2>2 DEF NoneWeaker
<1>2. cells \in Seq(CellSet)
  BY <1>1, CellsOfFall
<1>3. n \in Nat /\ DOMAIN ItPack.routes = 1..n /\ \A i \in 1..n : route(i) \in ItRoutes
  BY ItPackTables, TableItems DEF ItRoutes
<1>4. cells = CellsOver(a, s, path, raw, all, severity)
  BY DEF CellsOf, CellsAlong, CellsOn
<1>5. weights = [i \in 1..n |-> raw[route(i)]]
  BY <1>3
<1> HIDE DEF weights, n
<1>6. \A i \in 1..n : weights[i] \in Nat /\ weights[i] = raw[route(i)] /\ raw[route(i)] = OpenPropensity(path, a, s, route(i))
  <2> TAKE i \in 1..n
  <2> DEFINE r == route(i)
             w == OpenPropensity(path, a, s, r)
             one == 1
  <2>1. r \in ItRoutes
    BY <1>3
  <2>2. raw[r] = w /\ weights[i] = raw[r]
    BY <1>5, <2>1
  <2>3. w \in Nat
    <3>1. one \in Nat \ {0}
      OBVIOUS
    <3> HIDE DEF one, r
    <3> QED BY <2>1, <3>1, ShareOfRoute
  <2> QED BY <2>2, <2>3
<1>7. weights \in [1..n -> Nat]
  BY <1>5, <1>6
<1>8. all \in Nat
  <2>1. weights \in Seq(Nat)
    BY <1>3, <1>7
  <2> QED BY <2>1, SumNatural
<1> HIDE DEF all
<1>9. CASE all = 0
  <2>1. cells = << >>
    BY <1>4, <1>9 DEF CellsOver
  <2> HIDE DEF cells
  <2>2. Len(cells) = 0
    BY <2>1
  <2> QED BY <1>2, <2>1, <2>2 DEF PairKept, cells
<1>10. CASE all # 0
  <2> DEFINE share == [i \in 1..n |-> (A * weights[i]) \div all]
             cell(i) == RouteCell(a, s, route(i), path[route(i)],
                          Times((A * raw[route(i)]) \div all, path[route(i)].opportunity), severity)
  <2>1. cells = [i \in 1..n |-> cell(i)]
    BY <1>3, <1>4, <1>10 DEF CellsOver
  <2>2. \A i \in 1..n : cell(i).attempt = share[i] /\ cell(i).actor = a /\ cell(i).scenario = s
    <3> TAKE i \in 1..n
    <3> DEFINE r == route(i)
               w == raw[r]
               t == Times((A * w) \div all, path[r].opportunity)
    <3>1. cell(i).attempt = t /\ cell(i).actor = a /\ cell(i).scenario = s
      BY DEF RouteCell
    <3>2. r \in ItRoutes /\ w = OpenPropensity(path, a, s, r) /\ weights[i] = w
      BY <1>3, <1>6
    <3>3. all \in Nat \ {0}
      BY <1>8, <1>10
    <3> HIDE DEF r, w, path
    <3>4. path = [q \in ItRoutes |-> Path(b, a, s, q, x)]
      BY DEF path
    <3>5. t = (A * w) \div all
      BY <3>2, <3>3, <3>4, ShareOfRoute
    <3>6. share[i] = (A * weights[i]) \div all
      OBVIOUS
    <3> QED BY <3>1, <3>2, <3>5, <3>6
  <2> HIDE DEF cell, cells, A, share
  <2>3. Len(cells) = n /\ \A i \in 1..n : cells[i] = cell(i)
    BY <1>3, <2>1
  <2>4. share \in [1..n -> Nat] /\ SumOf(share) \in A - n..A
    <3>1. A \in Nat
      BY AttemptsType DEF A
    <3>2. SharedOut(n, A, weights, share)
      BY <1>3, <1>7, <1>10, <3>1 DEF SharedOut, share, all
    <3> QED BY <3>2, SharesAddUp
  <2>5. Worth(AttemptIn, cells) = SumOf(share)
    <3>1. \A i \in 1..n : cells[i] \in CellSet
      <4> DEFINE C == CellSet
      <4>1. cells \in Seq(C)
        BY <1>2
      <4> HIDE DEF C
      <4>2. \A i \in 1..n : cells[i] \in C
        BY <2>3, <4>1
      <4> QED BY <4>2 DEF C
    <3>2. \A i \in 1..n : AttemptIn[cells[i]] = share[i]
      <4>1. \A c \in CellSet : AttemptIn[c] = c.attempt
        BY DEF AttemptIn
      <4> QED BY <2>2, <2>3, <3>1, <4>1
    <3>3. share = [i \in 1..n |-> share[i]]
      BY DEF share
    <3> DEFINE u == [i \in 1..Len(cells) |-> AttemptIn[cells[i]]]
    <3>4. u = [i \in 1..n |-> AttemptIn[cells[i]]]
      BY <2>3
    <3>5. u = share
      <4> HIDE DEF u
      <4> QED BY <3>2, <3>3, <3>4
    <3> HIDE DEF u
    <3>6. Worth(AttemptIn, cells) = SumOf(u)
      BY DEF Worth, u
    <3> QED BY <3>5, <3>6
  <2>6. Short(AttemptIn, cells, A)
    BY <2>3, <2>4, <2>5 DEF Short
  <2>7. \A i \in 1..Len(cells) : cells[i].actor = a /\ cells[i].scenario = s
    BY <2>2, <2>3
  <2> QED BY <1>2, <2>6, <2>7 DEF PairKept, cells, A
<1> QED BY <1>9, <1>10

\* All attempts, cell by cell.
LEMMA AttemptedWorth ==
  ASSUME NEW cells \in Seq(CellSet)
  PROVE  Attempted(cells) = Worth(AttemptIn, cells)
<1> DEFINE n == Len(cells)
           s == [i \in DOMAIN cells |-> IF i \in DOMAIN cells THEN cells[i].attempt ELSE 0]
           t == [i \in 1..n |-> AttemptIn[cells[i]]]
           C == CellSet
<1>1. cells \in Seq(C)
  OBVIOUS
<1>2. \A c \in C : AttemptIn[c] = c.attempt
  BY DEF AttemptIn
<1> HIDE DEF C
<1>3. n \in Nat /\ DOMAIN cells = 1..n /\ \A i \in 1..n : cells[i] \in C
  BY <1>1
<1> HIDE DEF n
<1>4. \A i \in 1..n : t[i] = cells[i].attempt
  BY <1>2, <1>3
<1>5. s = t
  BY <1>3, <1>4
<1>6. Attempted(cells) = SumOf(s)
  BY DEF Attempted, AttemptsIn
<1>7. Worth(AttemptIn, cells) = SumOf(t)
  BY DEF Worth, n
<1> QED BY <1>5, <1>6, <1>7

\* Cells of pairs of an actor and a scenario that have cells.
OpenCells(b, x) == {c \in CellSet : CellsOf(b, x, c.actor, c.scenario) # << >>}

\* Every cell is of such a pair.
LEMMA CellsAreOpen ==
  ASSUME NEW b, BookOK(b), ~b.useExposure, NEW x \in Settings
  PROVE  Cells(b, x) \in Seq(OpenCells(b, x))
<1> DEFINE n == Len(ItPack.actors)
           m == Len(ItPack.scenarios)
           of(a) == [j \in 1..m |-> CellsOf(b, x, a, ItPack.scenarios[j])]
           ss == [i \in 1..n |-> Concat(of(ItPack.actors[i]))]
           X == OpenCells(b, x)
<1>1. /\ n \in Nat /\ DOMAIN ItPack.actors = 1..n /\ \A i \in 1..n : ItPack.actors[i] \in ItActors
      /\ m \in Nat /\ DOMAIN ItPack.scenarios = 1..m /\ \A j \in 1..m : ItPack.scenarios[j] \in ItScenarios
  BY ItPackTables, TableItems DEF ItActors, ItScenarios
<1>2. Cells(b, x) = Concat(ss)
  BY <1>1 DEF Cells
<1> HIDE DEF n, m
<1>3. ASSUME NEW a \in ItActors, NEW s \in ItScenarios PROVE CellsOf(b, x, a, s) \in Seq(X)
  <2> DEFINE cells == CellsOf(b, x, a, s)
             C == CellSet
  <2>1. PairKept(b, x, a, s)
    BY CellsShare
  <2>2. cells \in Seq(C) /\ \A i \in 1..Len(cells) : cells[i].actor = a /\ cells[i].scenario = s
    BY <2>1 DEF PairKept
  <2>3. \A c \in C : c.actor = a /\ c.scenario = s /\ cells # << >> => c \in X
    BY DEF OpenCells
  <2> HIDE DEF cells, C, X
  <2>4. Len(cells) \in Nat /\ cells = [i \in 1..Len(cells) |-> cells[i]] /\ \A i \in 1..Len(cells) : cells[i] \in C
    BY <2>2
  <2>5. \A i \in 1..Len(cells) : cells[i] \in X
    <3> TAKE i \in 1..Len(cells)
    <3>1. cells # << >>
      BY <2>4
    <3> QED BY <2>2, <2>3, <2>4, <3>1
  <2>6. cells \in Seq(X)
    BY <2>4, <2>5
  <2> QED BY <2>6 DEF cells
<1> HIDE DEF X
<1>4. ASSUME NEW a \in ItActors PROVE Concat(of(a)) \in Seq(X)
  <2> DEFINE y == of(a)
             V == Seq(X)
  <2>1. \A j \in 1..m : y[j] \in V
    BY <1>1, <1>3
  <2>2. y = [j \in 1..m |-> y[j]]
    OBVIOUS
  <2> HIDE DEF y, V
  <2>3. y \in [1..m -> V]
    BY <2>1, <2>2
  <2>4. y \in [1..m -> Seq(X)]
    BY <2>3 DEF V
  <2>5. Concat(y) \in Seq(X)
    BY <1>1, <2>4, ConcatType
  <2> QED BY <2>5 DEF y
<1>5. ss \in [1..n -> Seq(X)]
  <2> DEFINE V == Seq(X)
  <2>1. \A i \in 1..n : ss[i] \in V
    BY <1>1, <1>4
  <2>2. ss = [i \in 1..n |-> ss[i]]
    OBVIOUS
  <2> HIDE DEF ss, V
  <2>3. ss \in [1..n -> V]
    BY <2>1, <2>2
  <2> QED BY <2>3 DEF V
<1> HIDE DEF ss
<1>6. Concat(ss) \in Seq(X)
  BY <1>1, <1>5, ConcatType
<1> QED BY <1>2, <1>6 DEF X

\* Where every pair with attempts has cells, all attempts are in some cell.
LEMMA CellsPreserve ==
  ASSUME NEW b, BookOK(b), ~b.useExposure, NEW x \in Settings,
         \A a \in ItActors, s \in ItScenarios : Attempts(a, s) > 0 => CellsOf(b, x, a, s) # << >>
  PROVE  Preserves(Cells(b, x))
<1> DEFINE n == Len(ItPack.actors)
           m == Len(ItPack.scenarios)
           of(a) == [j \in 1..m |-> CellsOf(b, x, a, ItPack.scenarios[j])]
           against(a) == [j \in 1..m |-> Attempts(a, ItPack.scenarios[j])]
           ss == [i \in 1..n |-> Concat(of(ItPack.actors[i]))]
           base == [i \in 1..n |-> SumOf(against(ItPack.actors[i]))]
<1>1. /\ n \in Nat /\ DOMAIN ItPack.actors = 1..n /\ \A i \in 1..n : ItPack.actors[i] \in ItActors
      /\ m \in Nat /\ DOMAIN ItPack.scenarios = 1..m /\ \A j \in 1..m : ItPack.scenarios[j] \in ItScenarios
  BY ItPackTables, TableItems DEF ItActors, ItScenarios
<1>2. Cells(b, x) = Concat(ss) /\ BaseAttempts = SumOf(base)
  BY <1>1 DEF Cells, BaseAttempts
<1> HIDE DEF n, m
<1>3. ASSUME NEW a \in ItActors, NEW s \in ItScenarios
      PROVE  CellsOf(b, x, a, s) \in Seq(CellSet) /\ Short(AttemptIn, CellsOf(b, x, a, s), Attempts(a, s))
  <2> DEFINE cells == CellsOf(b, x, a, s)
             A == Attempts(a, s)
  <2>1. PairKept(b, x, a, s)
    BY CellsShare
  <2>2. cells \in Seq(CellSet) /\ (cells # << >> => Short(AttemptIn, cells, A))
    BY <2>1 DEF PairKept
  <2>3. A \in Nat /\ (A > 0 => cells # << >>)
    BY AttemptsType
  <2>4. Short(AttemptIn, << >>, 0)
    BY AttemptInType, NoneShort
  <2> HIDE DEF cells, A
  <2>5. CASE cells = << >>
    <3>1. A = 0
      BY <2>3, <2>5
    <3> QED BY <2>2, <2>4, <2>5, <3>1 DEF cells, A
  <2>6. CASE cells # << >>
    BY <2>2, <2>6 DEF cells, A
  <2> QED BY <2>5, <2>6
<1>4. ASSUME NEW a \in ItActors
      PROVE  /\ Concat(of(a)) \in Seq(CellSet) /\ SumOf(against(a)) \in Int
             /\ Short(AttemptIn, Concat(of(a)), SumOf(against(a)))
  <2> DEFINE y == of(a)
             t == against(a)
             V == Seq(CellSet)
             f == AttemptIn
             X == CellSet
  <2>1. \A j \in 1..m : y[j] \in V /\ t[j] \in Int /\ Short(f, y[j], t[j])
    <3> TAKE j \in 1..m
    <3> DEFINE s == ItPack.scenarios[j]
    <3>1. s \in ItScenarios
      BY <1>1
    <3>2. y[j] = CellsOf(b, x, a, s) /\ t[j] = Attempts(a, s)
      OBVIOUS
    <3>3. Attempts(a, s) \in Int
      BY <3>1, AttemptsType
    <3> HIDE DEF s, y, t
    <3> QED BY <1>3, <3>1, <3>2, <3>3
  <2>2. y = [j \in 1..m |-> y[j]] /\ t = [j \in 1..m |-> t[j]]
    OBVIOUS
  <2>3. f \in [X -> Int]
    BY AttemptInType
  <2> HIDE DEF y, V, t, f
  <2>4. y \in [1..m -> V] /\ t \in [1..m -> Int]
    BY <2>1, <2>2
  <2>5. y \in [1..m -> Seq(X)] /\ \A j \in 1..m : Short(f, y[j], t[j])
    BY <2>1, <2>4 DEF V
  <2> HIDE DEF X
  <2>6. Concat(y) \in Seq(X) /\ Short(f, Concat(y), SumOf(t))
    BY <1>1, <2>3, <2>4, <2>5, ConcatShort
  <2>7. SumOf(t) \in Int
    <3>1. t \in Seq(Int)
      BY <1>1, <2>4
    <3> QED BY <3>1, SumType
  <2> QED BY <2>6, <2>7 DEF y, t, f, X
<1> DEFINE V == Seq(CellSet)
           f == AttemptIn
           X == CellSet
<1>5. \A i \in 1..n : ss[i] \in V /\ base[i] \in Int /\ Short(f, ss[i], base[i])
  <2> TAKE i \in 1..n
  <2> DEFINE a == ItPack.actors[i]
  <2>1. a \in ItActors
    BY <1>1
  <2>2. ss[i] = Concat(of(a)) /\ base[i] = SumOf(against(a))
    OBVIOUS
  <2> HIDE DEF a, of, against, ss, base
  <2> QED BY <1>4, <2>1, <2>2
<1>6. ss = [i \in 1..n |-> ss[i]] /\ base = [i \in 1..n |-> base[i]]
  OBVIOUS
<1>7. f \in [X -> Int]
  BY AttemptInType
<1> HIDE DEF ss, base, V, f
<1>8. ss \in [1..n -> V] /\ base \in [1..n -> Int]
  BY <1>5, <1>6
<1>9. ss \in [1..n -> Seq(X)] /\ \A i \in 1..n : Short(f, ss[i], base[i])
  BY <1>5, <1>8 DEF V
<1> HIDE DEF X
<1>10. Concat(ss) \in Seq(X) /\ Short(f, Concat(ss), SumOf(base))
  BY <1>1, <1>7, <1>8, <1>9, ConcatShort
<1>11. Attempted(Concat(ss)) = Worth(f, Concat(ss))
  BY <1>10, AttemptedWorth DEF f, X
<1> QED BY <1>2, <1>10, <1>11 DEF Preserves, Short

LEMMA KeptFollows == ItInv => AttemptsAreKept
<1> DEFINE b == itBook
           x == itBook.controls
           cells == Cells(b, x)
           after == {p \in ItActors \X ItScenarios : Attempts(p[1], p[2]) > 0}
           open == {<<c.actor, c.scenario>> : c \in Elements(itViews.cells)}
<1> SUFFICES ASSUME ItInv, itViews # ItNothing, ~b.useExposure, after \subseteq open
             PROVE  Preserves(itViews.cells)
  BY DEF AttemptsAreKept
<1>1. Viewed /\ BookOK(b)
  BY DEF ItInv, Viewed, Opened
<1>2. x \in Settings
  BY <1>1 DEF BookOK
<1>3. itViews.cells = cells
  BY <1>1 DEF ItInv, Both
<1>4. cells \in Seq(OpenCells(b, x))
  BY <1>1, <1>2, CellsAreOpen
<1>5. \A c \in Elements(cells) : CellsOf(b, x, c.actor, c.scenario) # << >>
  <2> DEFINE X == OpenCells(b, x)
  <2>1. \A c \in X : CellsOf(b, x, c.actor, c.scenario) # << >>
    BY DEF OpenCells
  <2> HIDE DEF X, cells
  <2>2. \A i \in DOMAIN cells : cells[i] \in X
    BY <1>4 DEF X
  <2> QED BY <2>1, <2>2 DEF Elements
<1>6. ASSUME NEW a \in ItActors, NEW s \in ItScenarios, Attempts(a, s) > 0
      PROVE  CellsOf(b, x, a, s) # << >>
  <2>1. <<a, s>> \in after
    BY <1>6
  <2>2. PICK c \in Elements(cells) : <<c.actor, c.scenario>> = <<a, s>>
    BY <1>3, <2>1
  <2>3. c.actor = a /\ c.scenario = s
    BY <2>2
  <2> QED BY <1>5, <2>2, <2>3
<1> HIDE DEF after, open, cells
<1>7. Preserves(Cells(b, x))
  BY <1>1, <1>2, <1>6, CellsPreserve
<1> QED BY <1>3, <1>7 DEF cells

-----------------------------------------------------------------------------
(* Theorems.                                                               *)

\* Whatever the pack, the workbook and the random numbers, a shock of one block
\* scales the losses of that block in every year by its factor and leaves those of
\* the others alone: the numbers drawn are the same ones in the same places.
THEOREM BlockShocksStayExact == ItSpec => []BlockShocksAreExact
<1>1. ItInit => ItInv
  BY ItInvInit
<1>2. ItInv /\ [ItNext]_itVars => ItInv'
  BY ItInvStep
<1>3. ItInv => BlockShocksAreExact
  BY BlocksFollow
<1> QED BY <1>1, <1>2, <1>3, PTL DEF ItSpec

\* Whatever the pack and the workbook, a what-if and a package that lowers no
\* control move no attempt and raise no event rate and no amount of any cell.
THEOREM UpliftsLowerRates == ItSpec => []UpliftLowersRates
<1>1. ItInit => ItInv
  BY ItInvInit
<1>2. ItInv /\ [ItNext]_itVars => ItInv'
  BY ItInvStep
<1>3. ItInv => UpliftLowersRates
  BY UpliftsFollow
<1> QED BY <1>1, <1>2, <1>3, PTL DEF ItSpec

\* Whatever the pack, the workbook and the random numbers, actors, scenarios, blocks
\* and drivers all add up to the year's loss, and the analyses by scenario and by
\* actor to the attempts, events, average and tail of the result.
THEOREM AnalysesReconcile == ItSpec => []LossesDecompose
<1>1. ItInit => ItInv /\ ResultShares
  BY ItInvInit DEF ItInit, ResultShares
<1>2. ItInv /\ ResultShares /\ [ItNext]_itVars => ItInv' /\ ResultShares'
  BY ItInvStep, ResultStep
<1>3. ItInv /\ ResultShares => LossesDecompose
  <2>1. ResultShares /\ YearsBalance => LossesDecompose
    BY DEF ResultShares, YearsBalance, LossesDecompose
  <2> QED BY <2>1, BalanceFollows
<1> QED BY <1>1, <1>2, <1>3, PTL DEF ItSpec

\* Whatever the pack and the workbook, with the exposure model off no attempt is
\* lost between the routes but for what rounding down takes from a cell's share.
THEOREM AttemptsStayKept == ItSpec => []AttemptsAreKept
<1>1. ItInit => ItInv
  BY ItInvInit
<1>2. ItInv /\ [ItNext]_itVars => ItInv'
  BY ItInvStep
<1>3. ItInv => AttemptsAreKept
  BY KeptFollows
<1> QED BY <1>1, <1>2, <1>3, PTL DEF ItSpec

=============================================================================
