-------------------------- MODULE InsuranceProofs --------------------------
(***************************************************************************)
(* Layers that do not overlap never pay more than was lost: after some of  *)
(* them, what has been paid of a trial is at most the trial's loss and at  *)
(* most the point where the last of them is exhausted, and the next one    *)
(* only pays what lies above that point.  The figures measured then agree  *)
(* with each other, before and after insurance, because tails are weighted *)
(* sums of the losses in order.                                            *)
(***************************************************************************)
EXTENDS Insurance, SumProofs

Layer == [name : LayerNames, attachment : Nat, limit : Nat \ {0}, coinsurance : 0..100]
ProgrammeType ==
  [retention : Nat, layers : Seq(Layer), aggregate : Nat \cup {Absent}]

InsTypeOK ==
  /\ insPc \in {"start", "parse", "layers", "measure", "done"}
  /\ parsed \in Nat /\ applied \in Nat
  /\ gross \in Seq(Nat)
  /\ insured \in [DOMAIN gross -> Nat]
  /\ insPc # "start" => raw \in Programmes /\ programme \in ProgrammeType

ExhaustedAt(layer) == layer.attachment + layer.limit

\* Nothing is paid before the layers are applied, and while they are, no more
\* than up to where the last one is exhausted.
PaidSoFar ==
  /\ insPc \in {"start", "parse"} => applied = 0 /\ \A t \in DOMAIN gross : insured[t] = 0
  /\ insPc = "layers" =>
       /\ applied <= Len(programme.layers)
       /\ Stacked(programme.layers) =>
            \A t \in DOMAIN gross :
              insured[t] <= IF applied = 0 THEN 0 ELSE ExhaustedAt(programme.layers[applied])

WithinLoss ==
  insPc # "start" /\ Stacked(programme.layers) =>
    \A t \in DOMAIN gross : insured[t] <= gross[t]

InsInv == InsTypeOK /\ PaidSoFar /\ WithinLoss

-----------------------------------------------------------------------------
LEMMA ShareType == ASSUME NEW c \in Int PROVE Share(c) \in 0..100
BY DEF Share, Absent

\* A share of an amount is at most the amount.
LEMMA ShareOf ==
  ASSUME NEW part \in Nat, NEW share \in 0..100
  PROVE  (part * share) \div 100 \in Nat /\ (part * share) \div 100 <= part
<1> DEFINE rest == 100 - share
           n == part * share
<1>1. rest \in Nat /\ share \in Nat /\ share + rest = 100
  OBVIOUS
<1>2. part * 100 = part * share + part * rest
  <2> HIDE DEF rest
  <2> QED BY <1>1
<1>3. part * rest \in Nat /\ n \in Nat
  <2> HIDE DEF rest
  <2> QED BY <1>1
<1>4. n <= part * 100
  <2> HIDE DEF rest
  <2> QED BY <1>2, <1>3
<1> HIDE DEF n
<1>5. n \div 100 \in Nat /\ n \div 100 <= part
  BY <1>3, <1>4
<1> QED BY <1>5 DEF n

\* A layer pays at most its limit and at most what lies above its attachment.
LEMMA RecoveryBounds ==
  ASSUME NEW layer \in Layer, NEW loss \in Nat
  PROVE  /\ Recovery(layer, loss) \in Nat
         /\ Recovery(layer, loss) <= layer.limit
         /\ Recovery(layer, loss) <= Excess(loss, layer.attachment)
<1> DEFINE part == Lesser(Excess(loss, layer.attachment), layer.limit)
           pay == (part * layer.coinsurance) \div 100
<1>1. /\ part \in Nat /\ part <= layer.limit /\ part <= Excess(loss, layer.attachment)
      /\ layer.coinsurance \in 0..100 /\ layer.limit \in Nat
      /\ Excess(loss, layer.attachment) \in Nat
  BY DEF Lesser, Excess, Layer
<1>2. Recovery(layer, loss) = pay
  BY DEF Recovery
<1>3. pay \in Nat /\ pay <= part
  BY <1>1, ShareOf
<1> HIDE DEF part, pay
<1> QED BY <1>1, <1>2, <1>3

LEMMA ElementOf ==
  ASSUME NEW S, NEW s \in Seq(S), NEW i \in 1..Len(s)
  PROVE  s[i] \in S
OBVIOUS

LEMMA LayerAt ==
  ASSUME NEW layers \in Seq(Layer), NEW i \in 1..Len(layers)
  PROVE  layers[i] \in Layer
BY ElementOf

-----------------------------------------------------------------------------
LEMMA InitInv == InsInit => InsInv
BY DEF InsInit, InsInv, InsTypeOK, PaidSoFar, WithinLoss

LEMMA StartInv ==
  ASSUME InsInv, NEW given \in Programmes, NEW sim \in Simulations, StartProgramme(given, sim)
  PROVE  InsInv'
<1>1. sim.annual \in Seq(Nat) /\ given.retention \in Nat /\ given.aggregate \in Nat \cup {Absent}
  BY SimulationInputs, InsuranceInputs
<1>2. InsTypeOK'
  BY <1>1 DEF StartProgramme, InsInv, InsTypeOK, ProgrammeType
<1> QED BY <1>1, <1>2 DEF StartProgramme, InsInv, InsTypeOK, PaidSoFar, WithinLoss

LEMMA ParseLayerInv == ASSUME InsInv, ParseLayer PROVE InsInv'
<1> DEFINE layer == raw.layers[parsed + 1]
<1>1. layer \in [name : LayerNames, attachment : Nat, limit : Int, coinsurance : Int]
  <2>1. raw.layers \in Seq([name : LayerNames, attachment : Nat, limit : Int, coinsurance : Int])
    BY InsuranceInputs DEF ParseLayer, InsInv, InsTypeOK
  <2>2. parsed + 1 \in 1..Len(raw.layers)
    <3>1. parsed \in Nat /\ parsed < Len(raw.layers)
      BY DEF ParseLayer, InsInv, InsTypeOK
    <3>2. Len(raw.layers) \in Nat
      BY <2>1
    <3> QED BY <3>1, <3>2
  <2> HIDE DEF layer
  <2>3. raw.layers[parsed + 1] \in
          [name : LayerNames, attachment : Nat, limit : Int, coinsurance : Int]
    BY <2>1, <2>2, ElementOf
  <2> QED BY <2>3 DEF layer
<1>2. ASSUME layer.limit > 0
      PROVE  [layer EXCEPT !.coinsurance = Share(@)] \in Layer
  BY <1>1, <1>2, ShareType DEF Layer
<1>3. programme' \in ProgrammeType
  <2>1. CASE layer.limit > 0
    <3>1. programme' = [programme EXCEPT !.layers =
                          Append(@, [layer EXCEPT !.coinsurance = Share(@)])]
      BY <2>1 DEF ParseLayer
    <3>2. programme \in ProgrammeType
      BY DEF InsInv, InsTypeOK, ParseLayer
    <3>3. Append(programme.layers, [layer EXCEPT !.coinsurance = Share(@)]) \in Seq(Layer)
      <4> HIDE DEF layer
      <4> QED BY <2>1, <3>2, <1>2 DEF ProgrammeType
    <3> HIDE DEF layer
    <3> QED BY <3>1, <3>2, <3>3 DEF ProgrammeType
  <2>2. CASE ~(layer.limit > 0)
    BY <2>2 DEF ParseLayer, InsInv, InsTypeOK
  <2> QED BY <2>1, <2>2
<1>4. InsTypeOK'
  BY <1>3 DEF ParseLayer, InsInv, InsTypeOK
<1> QED BY <1>4 DEF ParseLayer, InsInv, InsTypeOK, PaidSoFar, WithinLoss

LEMMA EndParseInv == ASSUME InsInv, EndParse PROVE InsInv'
<1>1. raw.retention \in Nat /\ raw.primary \in Nat \cup {Absent}
  BY InsuranceInputs DEF EndParse, InsInv, InsTypeOK
<1>2. programme' \in ProgrammeType
  <2>1. CASE programme.layers = << >> /\ raw.primary > 0
    <3>1. [name |-> "Primary", attachment |-> raw.retention,
           limit |-> raw.primary, coinsurance |-> 100] \in Layer
      <4>1. raw.primary \in Nat \ {0}
        BY <1>1, <2>1 DEF Absent
      <4>2. "Primary" \in LayerNames
        BY InsuranceInputs
      <4>3. 100 \in 0..100
        OBVIOUS
      <4> QED BY <4>1, <4>2, <4>3, <1>1 DEF Layer
    <3>2. programme \in ProgrammeType
      BY DEF InsInv, InsTypeOK, EndParse
    <3>3. programme' = [programme EXCEPT !.layers =
                          <<[name |-> "Primary", attachment |-> raw.retention,
                             limit |-> raw.primary, coinsurance |-> 100]>>]
      BY <2>1 DEF EndParse
    <3> DEFINE primary == [name |-> "Primary", attachment |-> raw.retention,
                           limit |-> raw.primary, coinsurance |-> 100]
    <3>4. <<primary>> \in Seq(Layer)
      <4> HIDE DEF primary
      <4>1. primary \in Layer
        BY <3>1 DEF primary
      <4> QED BY <4>1
    <3>5. programme' = [programme EXCEPT !.layers = <<primary>>]
      BY <3>3
    <3> HIDE DEF primary
    <3> QED BY <3>2, <3>4, <3>5 DEF ProgrammeType
  <2>2. CASE ~(programme.layers = << >> /\ raw.primary > 0)
    BY <2>2 DEF EndParse, InsInv, InsTypeOK
  <2> QED BY <2>1, <2>2
<1>3. insPc' \in {"layers", "measure"}
  BY DEF EndParse
<1>4. Len(programme'.layers) \in Nat
  BY <1>2 DEF ProgrammeType
<1> QED BY <1>2, <1>3, <1>4 DEF EndParse, InsInv, InsTypeOK, PaidSoFar, WithinLoss

LEMMA ApplyLayerInv == ASSUME InsInv, ApplyLayer PROVE InsInv'
<1> DEFINE layers == programme.layers
           layer == layers[applied + 1]
<1>1. /\ applied \in Nat /\ gross \in Seq(Nat) /\ insured \in [DOMAIN gross -> Nat]
      /\ layers \in Seq(Layer) /\ applied + 1 \in 1..Len(layers)
      /\ insPc = "layers" /\ insPc' = "layers" /\ applied' = applied + 1
      /\ gross' = gross /\ programme' = programme /\ raw' = raw /\ parsed' = parsed
  BY DEF ApplyLayer, InsInv, InsTypeOK, ProgrammeType
<1>2. layer \in Layer
  BY <1>1, LayerAt
<1>3. \A t \in DOMAIN gross : gross[t] \in Nat
  BY <1>1
<1>4. /\ insured' = [t \in DOMAIN gross |-> insured[t] + Recovery(layer, gross[t])]
      /\ \A t \in DOMAIN gross : Recovery(layer, gross[t]) \in Nat
  <2>1. insured' = [t \in DOMAIN gross |-> insured[t]
                      + [u \in DOMAIN gross |-> Recovery(layer, gross[u])][t]]
    BY DEF ApplyLayer
  <2> QED BY <2>1, <1>2, <1>3, RecoveryBounds
<1>5. InsTypeOK'
  <2>1. insured' \in [DOMAIN gross -> Nat]
    BY <1>1, <1>4
  <2> QED BY <1>1, <2>1 DEF InsInv, InsTypeOK
<1>6. ASSUME Stacked(layers), NEW t \in DOMAIN gross
      PROVE  insured'[t] <= gross[t] /\ insured'[t] <= ExhaustedAt(layer)
  <2> DEFINE loss == gross[t]
             pay == Recovery(layer, loss)
  <2>1. insured[t] \in Nat /\ insured[t] <= loss /\ loss \in Nat
    BY <1>1, <1>3, <1>6 DEF InsInv, WithinLoss
  <2>2. insured[t] <= layer.attachment
    <3>1. CASE applied = 0
      BY <3>1, <1>1, <1>2, <1>6, <2>1 DEF InsInv, PaidSoFar, Layer
    <3>2. CASE applied # 0
      <4>1. applied \in 1..Len(layers) - 1 /\ applied \in 1..Len(layers)
        BY <1>1, <3>2
      <4>2. insured[t] <= ExhaustedAt(layers[applied])
        BY <3>2, <1>1, <1>6 DEF InsInv, PaidSoFar
      <4>3. ExhaustedAt(layers[applied]) <= layer.attachment
        BY <4>1, <1>6 DEF Stacked, ExhaustedAt
      <4>4. layers[applied] \in Layer
        BY <4>1, <1>1, LayerAt
      <4>5. ExhaustedAt(layers[applied]) \in Nat /\ layer.attachment \in Nat
        BY <4>4, <1>2 DEF Layer, ExhaustedAt
      <4> QED BY <4>2, <4>3, <4>5, <2>1
    <3> QED BY <3>1, <3>2
  <2>3. /\ pay \in Nat /\ pay <= layer.limit /\ pay <= Excess(loss, layer.attachment)
        /\ layer.attachment \in Nat /\ layer.limit \in Nat
    BY <1>2, <2>1, RecoveryBounds DEF Layer
  <2>4. insured'[t] = insured[t] + pay
    BY <1>4
  <2> HIDE DEF loss, pay
  <2>5. insured[t] + pay <= loss
    BY <2>1, <2>2, <2>3 DEF Excess
  <2>6. insured[t] + pay <= layer.attachment + layer.limit
    BY <2>1, <2>2, <2>3
  <2> QED BY <2>4, <2>5, <2>6 DEF loss, ExhaustedAt
<1>7. PaidSoFar'
  <2>1. applied' <= Len(programme'.layers)
    BY <1>1
  <2> QED BY <1>1, <1>6, <2>1 DEF PaidSoFar, ExhaustedAt
<1>8. WithinLoss'
  BY <1>1, <1>6 DEF WithinLoss
<1> QED BY <1>5, <1>7, <1>8 DEF InsInv

LEMMA CapRecoveryInv == ASSUME InsInv, CapRecovery PROVE InsInv'
<1>1. /\ insured \in [DOMAIN gross -> Nat] /\ gross \in Seq(Nat)
      /\ programme.aggregate \in Nat \cup {Absent}
      /\ insPc = "layers" /\ insPc' = "measure" /\ gross' = gross /\ programme' = programme
      /\ raw' = raw /\ parsed' = parsed /\ applied' = applied
  BY DEF CapRecovery, InsInv, InsTypeOK, ProgrammeType
<1>2. insured' \in [DOMAIN gross -> Nat] /\ \A t \in DOMAIN gross : insured'[t] <= insured[t]
  <2>1. CASE programme.aggregate > 0
    <3>1. programme.aggregate \in Nat
      BY <1>1, <2>1 DEF Absent
    <3>2. insured' = [t \in DOMAIN gross |-> Lesser(insured[t], programme.aggregate)]
      BY <2>1 DEF CapRecovery
    <3> QED BY <1>1, <3>1, <3>2 DEF Lesser
  <2>2. CASE ~(programme.aggregate > 0)
    <3>1. insured' = insured
      BY <2>2 DEF CapRecovery
    <3> QED BY <3>1, <1>1
  <2> QED BY <2>1, <2>2
<1>3. InsTypeOK'
  BY <1>1, <1>2 DEF InsInv, InsTypeOK
<1>4. WithinLoss'
  <2> SUFFICES ASSUME Stacked(programme.layers), NEW t \in DOMAIN gross
               PROVE  insured'[t] <= gross[t]
    BY <1>1 DEF WithinLoss
  <2>1. insured[t] <= gross[t] /\ insured[t] \in Nat /\ insured'[t] \in Nat /\ gross[t] \in Nat
    BY <1>1, <1>2 DEF InsInv, WithinLoss
  <2> QED BY <2>1, <1>2
<1> QED BY <1>1, <1>3, <1>4 DEF InsInv, PaidSoFar

LEMMA MeasureInv == ASSUME InsInv, NEW limits \in Appetites, Measure(limits) PROVE InsInv'
BY DEF Measure, InsInv, InsTypeOK, PaidSoFar, WithinLoss

LEMMA StepInv == InsInv /\ [InsNext]_insVars => InsInv'
<1> SUFFICES ASSUME InsInv, [InsNext]_insVars PROVE InsInv'
  OBVIOUS
<1>1. CASE \E given \in Programmes, sim \in Simulations : StartProgramme(given, sim)
  BY <1>1, StartInv
<1>2. CASE ParseLayer
  BY <1>2, ParseLayerInv
<1>3. CASE EndParse
  BY <1>3, EndParseInv
<1>4. CASE ApplyLayer
  BY <1>4, ApplyLayerInv
<1>5. CASE CapRecovery
  BY <1>5, CapRecoveryInv
<1>6. CASE \E limits \in Appetites : Measure(limits)
  BY <1>6, MeasureInv
<1>7. CASE UNCHANGED insVars
  BY <1>7 DEF insVars, InsInv, InsTypeOK, PaidSoFar, WithinLoss
<1> QED BY <1>1, <1>2, <1>3, <1>4, <1>5, <1>6, <1>7 DEF InsNext

\* The inductive invariant of a programme's application: what has been paid of
\* a trial stays below the exhaustion of the last layer and below the loss.
THEOREM PaidWithinLayers == InsSpec => []InsInv
BY InitInv, StepInv, PTL DEF InsSpec

\* For every programme of layers that do not overlap and every vector of
\* losses, recoveries never exceed the loss of a trial and the residual loss
\* and the recoveries are the loss again (insurance.py:67-136).
THEOREM NeverOverpaid == InsSpec => []RecoveryWithinLoss
<1>1. InsInv => RecoveryWithinLoss
  <2> SUFFICES ASSUME InsInv, insPc # "start", Stacked(programme.layers), NEW t \in DOMAIN gross
               PROVE  insured[t] <= gross[t] /\ gross[t] = Residual[t] + insured[t]
    BY DEF RecoveryWithinLoss
  <2>1. insured[t] \in Nat /\ gross[t] \in Nat /\ insured[t] <= gross[t]
    BY DEF InsInv, InsTypeOK, WithinLoss
  <2>2. Residual[t] = Excess(gross[t], insured[t])
    BY DEF Residual
  <2>3. Excess(gross[t], insured[t]) = gross[t] - insured[t]
    BY <2>1 DEF Excess
  <2> QED BY <2>1, <2>2, <2>3
<1> QED BY <1>1, PaidWithinLayers, PTL

-----------------------------------------------------------------------------
(* The figures of a report.                                                *)

\* Losses by trial, and what shares them.
Simulated(losses, drivers) ==
  /\ losses \in Seq(Nat) /\ losses # << >>
  /\ YearShares(DOMAIN losses, DOMAIN drivers, drivers, losses)

LEMMA SimulatedTrials ==
  ASSUME NEW losses, NEW drivers, Simulated(losses, drivers)
  PROVE  /\ Years(Len(losses), DOMAIN losses) /\ Trials(Len(losses), losses)
         /\ losses \in [DOMAIN losses -> Nat] /\ losses \in [DOMAIN losses -> Int]
<1> DEFINE n == Len(losses)
<1>1. losses \in Seq(Nat) /\ losses # << >>
  BY DEF Simulated
<1>2. n \in Nat \ {0} /\ DOMAIN losses = 1..n
  BY <1>1
<1>3. losses \in [1..n -> Nat] /\ losses \in [1..n -> Int]
  BY <1>1
<1> HIDE DEF n
<1>4. IsFiniteSet(1..n)
  BY <1>2, FS_Interval
<1> QED BY <1>2, <1>3, <1>4 DEF Years, Trials, n

\* What the code asks of a simulation.
LEMMA SimulationShares ==
  ASSUME NEW sim \in Simulations
  PROVE  Simulated(sim.annual, sim.drivers)
<1> DEFINE a == sim.annual
           d == sim.drivers
<1>1. /\ a \in Seq(Nat) /\ a # << >> /\ IsFiniteSet(DOMAIN d) /\ d \in [DOMAIN d -> [DOMAIN a -> Nat]]
      /\ \A t \in DOMAIN a : SumOver([k \in DOMAIN d |-> d[k][t]]) = a[t]
  BY SimulationInputs
<1> HIDE DEF a, d
<1>2. a \in [DOMAIN a -> Nat]
  BY <1>1
<1>3. \A t \in DOMAIN a : SumOver(Column(d, t)) = a[t]
  BY <1>1 DEF Column
<1> QED BY <1>1, <1>2, <1>3 DEF Simulated, YearShares, a, d

\* Drivers that share the losses share them by category.
LEMMA CategoriesShare ==
  ASSUME NEW losses, NEW drivers, Simulated(losses, drivers), NEW category
  PROVE  Simulated(losses, Rollup(drivers, category))
<1> DEFINE Y == DOMAIN losses
           D == DOMAIN drivers
           K == {category[d] : d \in D}
           c == [d \in D |-> category[d]]
           table == Rollup(drivers, category)
           part(k, y) == Part(Column(drivers, y), category, k)
<1>1. IsFiniteSet(D) /\ drivers \in [D -> [Y -> Nat]] /\ losses \in [Y -> Nat]
  BY DEF Simulated, YearShares
<1>2. IsFiniteSet(K)
  <2>1. c \in Surjection(D, K)
    BY DEF Surjection
  <2> HIDE DEF c, K
  <2> QED BY <1>1, <2>1, FS_Surjection
<1>3. \A y \in Y : /\ Column(drivers, y) \in [D -> Nat] /\ Column(drivers, y) \in [D -> Int]
                   /\ (\A d \in D : Column(drivers, y)[d] = drivers[d][y])
                   /\ SumOver(Column(drivers, y)) = losses[y]
  <2>1. \A y \in Y : SumOver(Column(drivers, y)) = losses[y]
    BY DEF Simulated, YearShares
  <2> HIDE DEF D, Y
  <2> QED BY <1>1, <2>1, ColumnOf
<1>4. \A k, y : part(k, y) = SumOver([d \in DOMAIN Column(drivers, y) |->
                                        IF category[d] = k THEN Column(drivers, y)[d] ELSE 0])
  BY DEF Part
<1>5. ASSUME NEW k \in K, NEW y \in Y
      PROVE  /\ part(k, y) \in Nat
             /\ part(k, y) = SumOver([d \in D |-> IF category[d] = k THEN drivers[d][y] ELSE 0])
  <2> DEFINE f == [d \in D |-> IF category[d] = k THEN drivers[d][y] ELSE 0]
  <2>1. f \in [D -> Nat]
    BY <1>1
  <2>2. [d \in DOMAIN Column(drivers, y) |-> IF category[d] = k THEN Column(drivers, y)[d] ELSE 0] = f
    <3> DEFINE v == Column(drivers, y)
    <3>1. v \in [D -> Nat] /\ \A d \in D : v[d] = drivers[d][y]
      BY <1>3
    <3> HIDE DEF v, D
    <3>2. [d \in DOMAIN v |-> IF category[d] = k THEN v[d] ELSE 0] = f
      BY <3>1
    <3> QED BY <3>2 DEF v
  <2> HIDE DEF f, part
  <2>3. SumOver(f) \in Nat
    BY <1>1, <2>1, SumOverNatural
  <2>4. part(k, y) = SumOver(f)
    BY <1>4, <2>2
  <2> QED BY <2>3, <2>4 DEF f
<1>6. table = [k \in K |-> [y \in Y |-> part(k, y)]]
  <2> DEFINE first(k) == CHOOSE d \in D : category[d] = k
             sum(k, y) == SumOver([d \in D |-> IF category[d] = k THEN drivers[d][y] ELSE 0])
  <2>1. table = [k \in K |-> [y \in DOMAIN drivers[first(k)] |-> sum(k, y)]]
    BY DEF Rollup
  <2>2. \A k \in K : first(k) \in D
    OBVIOUS
  <2> HIDE DEF first
  <2>3. \A k \in K : DOMAIN drivers[first(k)] = Y
    BY <1>1, <2>2
  <2>4. \A k \in K, y \in Y : sum(k, y) = part(k, y)
    BY <1>5
  <2> HIDE DEF sum, part, K, Y, D, table
  <2>5. table = [k \in K |-> [y \in Y |-> sum(k, y)]]
    BY <2>1, <2>3
  <2> QED BY <2>4, <2>5
<1> HIDE DEF table
<1>7. DOMAIN table = K /\ table \in [K -> [Y -> Nat]] /\ \A k \in K, y \in Y : table[k][y] = part(k, y)
  <2> HIDE DEF part, K, Y
  <2> QED BY <1>5, <1>6
<1>8. ASSUME NEW y \in Y PROVE SumOver(Column(table, y)) = losses[y]
  <2> DEFINE v == Column(drivers, y)
             F == [k \in K |-> Part(v, category, k)]
  <2>1. Column(table, y) = F
    <3>1. \A k \in K : table[k][y] = part(k, y)
      BY <1>7
    <3> HIDE DEF K
    <3> QED BY <1>7, <3>1 DEF Column
  <2>2. v \in [D -> Int] /\ SumOver(v) = losses[y]
    BY <1>3
  <2>3. \A d \in D : category[d] \in K
    OBVIOUS
  <2>4. F = [k \in K |-> Part(v, category, k)]
    OBVIOUS
  <2> HIDE DEF v, D, K, F
  <2>5. PartsOf(D, K, v, category, F)
    BY <1>1, <1>2, <2>2, <2>3, <2>4 DEF PartsOf
  <2>6. SumOver(F) = SumOver(v)
    BY <2>5, PartsAdd
  <2> QED BY <2>1, <2>2, <2>6
<1>9. YearShares(Y, K, table, losses)
  <2> HIDE DEF K, Y
  <2> QED BY <1>1, <1>2, <1>7, <1>8 DEF YearShares
<1>10. losses \in Seq(Nat) /\ losses # << >>
  BY DEF Simulated
<1> QED BY <1>7, <1>9, <1>10 DEF Simulated, table

\* What shares the losses shares their tail mean.
LEMMA TailsOfTable ==
  ASSUME NEW losses, NEW table, Simulated(losses, table), NEW q \in {95, 99}
  PROVE  SumOver([k \in DOMAIN table |-> TailContribution(table[k], Order(losses), q)])
           = ExpectedShortfall(losses, q)[1]
<1> DEFINE n == Len(losses)
           Y == DOMAIN losses
           K == DOMAIN table
           order == Order(losses)
<1>1. Years(n, Y) /\ losses \in [Y -> Int]
  BY SimulatedTrials
<1>2. YearShares(Y, K, table, losses)
  BY DEF Simulated
<1> HIDE DEF n, Y, K
<1>3. n \in Nat /\ Y = 1..n
  BY <1>1 DEF Years
<1>4. order \in [Y -> Y]
  <2>1. losses \in [1..n -> Int]
    BY <1>1, <1>3
  <2>2. Ranking(losses) \in [1..n -> 1..n]
    BY <1>3, <2>1, RankingType
  <2> QED BY <1>3, <2>2 DEF Order
<1>5. ExpectedShortfall(losses, q)[1] = TailContribution(losses, order, q)
  BY <1>1, TailOfWhole
<1> HIDE DEF order
<1>6. TailsAdd(n, K, table, losses, order, q)
  BY <1>1, <1>2, <1>4, TailsShare
<1>7. SumOver([k \in K |-> TailContribution(table[k], order, q)]) = TailContribution(losses, order, q)
  BY <1>6 DEF TailsAdd
<1> QED BY <1>5, <1>7 DEF K, order

\* What TailsAreCoherent says of a report.
Coherent(measured, losses, drivers) ==
  /\ AtMost(measured.tvar[95], measured.tvar[99])
  /\ AtMost(Average(losses), measured.tvar[95])
  /\ \A q \in {95, 99} :
       /\ AtMost(<<measured.var[q], 1>>, measured.tvar[q])
       /\ AtMost(measured.residualTvar[q], measured.tvar[q])
       /\ \A table \in {drivers, Rollup(drivers, Category)} :
            SumOver([k \in DOMAIN table |-> TailContribution(table[k], Order(losses), q)])
              = measured.tvar[q][1]

\* A report on losses and on what insurance leaves of them.
Measured(measured, losses, left) ==
  /\ measured.tvar = [q \in {95, 99} |-> ExpectedShortfall(losses, q)]
  /\ measured.var = [q \in {95, 99} |-> ValueAtRisk(losses, q)]
  /\ measured.residualTvar = [q \in {95, 99} |-> ExpectedShortfall(left, q)]

LEMMA MeasuredIsCoherent ==
  ASSUME NEW losses, NEW drivers, Simulated(losses, drivers),
         NEW left \in [DOMAIN losses -> Nat], \A t \in DOMAIN losses : left[t] <= losses[t],
         NEW measured, Measured(measured, losses, left)
  PROVE  Coherent(measured, losses, drivers)
<1> DEFINE n == Len(losses)
<1>1. Trials(n, losses) /\ Years(n, DOMAIN losses)
  BY SimulatedTrials
<1>2. Trials(n, left) /\ \A i \in 1..n : left[i] <= losses[i]
  <2>1. n \in Nat \ {0} /\ DOMAIN losses = 1..n
    BY <1>1 DEF Years
  <2> HIDE DEF n
  <2>2. left \in [1..n -> Nat] /\ \A i \in 1..n : left[i] <= losses[i]
    BY <2>1
  <2>3. left \in [1..n -> Int]
    BY <2>2
  <2> QED BY <2>1, <2>2, <2>3 DEF Trials
<1> HIDE DEF n
<1>3. \A q \in {95, 99} : /\ measured.tvar[q] = ExpectedShortfall(losses, q)
                          /\ measured.var[q] = ValueAtRisk(losses, q)
                          /\ measured.residualTvar[q] = ExpectedShortfall(left, q)
  BY DEF Measured
<1>4. AtMost(measured.tvar[95], measured.tvar[99])
  <2>1. AtMost(ExpectedShortfall(losses, 95), ExpectedShortfall(losses, 99))
    BY <1>1, ShortfallGrows
  <2> QED BY <1>3, <2>1
<1>5. AtMost(Average(losses), measured.tvar[95])
  <2>1. AtMost(Average(losses), ExpectedShortfall(losses, 95))
    BY <1>1, AverageBelowShortfall
  <2> QED BY <1>3, <2>1
<1>6. ASSUME NEW q \in {95, 99}
      PROVE  /\ AtMost(<<measured.var[q], 1>>, measured.tvar[q])
             /\ AtMost(measured.residualTvar[q], measured.tvar[q])
  <2>1. AtMost(<<ValueAtRisk(losses, q), 1>>, ExpectedShortfall(losses, q))
    BY <1>1, QuantileBelowShortfall DEF AtMost
  <2>2. AtMost(ExpectedShortfall(left, q), ExpectedShortfall(losses, q))
    BY <1>1, <1>2, ShortfallFalls
  <2> QED BY <1>3, <2>1, <2>2
<1>7. ASSUME NEW q \in {95, 99}, NEW table \in {drivers, Rollup(drivers, Category)}
      PROVE  SumOver([k \in DOMAIN table |-> TailContribution(table[k], Order(losses), q)])
               = measured.tvar[q][1]
  <2>1. Simulated(losses, table)
    BY CategoriesShare
  <2>2. SumOver([k \in DOMAIN table |-> TailContribution(table[k], Order(losses), q)])
          = ExpectedShortfall(losses, q)[1]
    BY <2>1, TailsOfTable
  <2> QED BY <1>3, <2>2
<1> QED BY <1>4, <1>5, <1>6, <1>7 DEF Coherent

\* Only what a simulation returned is measured.
FiguresInv ==
  /\ InsInv
  /\ insPc # "start" => Simulated(gross, components)
  /\ insPc = "done" => Coherent(report, gross, components)

LEMMA CoherentReport ==
  ASSUME FiguresInv, NEW limits \in Appetites, Measure(limits)
  PROVE  Coherent(report', gross, components)
<1> DEFINE left == Residual
<1>1. Simulated(gross, components) /\ insured \in [DOMAIN gross -> Nat]
  BY DEF Measure, FiguresInv, InsInv, InsTypeOK
<1>2. gross \in [DOMAIN gross -> Nat]
  BY <1>1, SimulatedTrials
<1>3. left \in [DOMAIN gross -> Nat] /\ \A t \in DOMAIN gross : left[t] <= gross[t]
  BY <1>1, <1>2 DEF Residual, Excess
<1>4. Measured(report', gross, left)
  BY DEF Measure, Measured
<1> HIDE DEF left
<1> QED BY <1>1, <1>3, <1>4, MeasuredIsCoherent

LEMMA FiguresStep == FiguresInv /\ [InsNext]_insVars => FiguresInv'
<1> SUFFICES ASSUME FiguresInv, [InsNext]_insVars PROVE FiguresInv'
  OBVIOUS
<1>1. InsInv'
  BY StepInv DEF FiguresInv
<1>2. CASE \E given \in Programmes, sim \in Simulations : StartProgramme(given, sim)
  <2> PICK given \in Programmes, sim \in Simulations : StartProgramme(given, sim)
    BY <1>2
  <2>1. Simulated(sim.annual, sim.drivers)
    BY SimulationShares
  <2>2. gross' = sim.annual /\ components' = sim.drivers /\ insPc' = "parse"
    BY DEF StartProgramme
  <2>3. Simulated(gross', components')
    BY <2>1, <2>2
  <2> QED BY <1>1, <2>2, <2>3 DEF FiguresInv
<1>3. CASE ParseLayer \/ EndParse \/ ApplyLayer \/ CapRecovery
  <2>1. insPc # "start" /\ insPc' # "done" /\ gross' = gross /\ components' = components
    BY <1>3 DEF ParseLayer, EndParse, ApplyLayer, CapRecovery
  <2>2. Simulated(gross', components')
    BY <2>1 DEF FiguresInv
  <2> QED BY <1>1, <2>1, <2>2 DEF FiguresInv
<1>4. CASE \E limits \in Appetites : Measure(limits)
  <2> PICK limits \in Appetites : Measure(limits)
    BY <1>4
  <2>1. insPc = "measure" /\ gross' = gross /\ components' = components
    BY DEF Measure
  <2>2. Coherent(report', gross', components') /\ Simulated(gross', components')
    <3>1. Coherent(report', gross, components)
      BY CoherentReport
    <3> QED BY <2>1, <3>1 DEF FiguresInv
  <2> QED BY <1>1, <2>2 DEF FiguresInv
<1>5. CASE UNCHANGED insVars
  <2>1. insPc' = insPc /\ gross' = gross /\ components' = components /\ report' = report
    BY <1>5 DEF insVars
  <2>2. insPc # "start" => Simulated(gross', components')
    BY <2>1 DEF FiguresInv
  <2>3. insPc = "done" => Coherent(report', gross', components')
    BY <2>1 DEF FiguresInv
  <2> QED BY <1>1, <2>1, <2>2, <2>3 DEF FiguresInv
<1> QED BY <1>2, <1>3, <1>4, <1>5 DEF InsNext

\* For every simulation whose drivers add up to its losses, and every programme,
\* the tail means of a report are coherent: at least the quantile and the average,
\* higher at the higher level, no higher after insurance, and shared by the drivers
\* and by their categories (metrics.py:68-158, aggregation.py:28-39).
THEOREM FiguresCohere == InsSpec => []TailsAreCoherent
<1>1. InsInit => FiguresInv
  BY InitInv DEF InsInit, FiguresInv
<1>2. FiguresInv => TailsAreCoherent
  BY DEF FiguresInv, TailsAreCoherent, Coherent
<1> QED BY <1>1, <1>2, FiguresStep, PTL DEF InsSpec
=============================================================================
