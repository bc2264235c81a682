---------------------------- MODULE EngineProofs ----------------------------
(***************************************************************************)
(* What the OT engine returns, whatever the sector pack, the controls, the *)
(* workbook and the analyses asked for.                                    *)
(***************************************************************************)
EXTENDS OtEngine, SumProofs

-----------------------------------------------------------------------------
(* Shocks.                                                                 *)

\* What the code relies on between a shock and the restore that follows it.
ShockInv ==
  /\ rows \in Seq(Elements(rows))
  /\ otPc \in {"load", "failed", "baseline"} => rows = << >>
  /\ otPc # "shocks" => shock = OtNone
  /\ shock # OtNone => shock.saved = loaded /\ shock.of \in Elements(Shocks)
                     /\ inputs = Shocked(loaded, shock.of)
  /\ ShocksAreAlone

\* A row appended is the latest one.
LEMMA AppendedIsLatest ==
  ASSUME NEW s, s \in Seq(Elements(s)), NEW x
  PROVE  /\ Append(s, x) \in Seq(Elements(Append(s, x)))
         /\ Append(s, x) # << >>
         /\ Append(s, x)[Len(Append(s, x))] = x
<1> DEFINE t == Append(s, x)
           S == Elements(s) \cup {x}
<1>1. s \in Seq(S)
  BY DEF Elements
<1>2. /\ t \in Seq(S) /\ Len(t) = Len(s) + 1 /\ t[Len(s) + 1] = x
      /\ Len(s) \in Nat /\ DOMAIN t = 1..(Len(s) + 1)
  BY <1>1
<1>3. \A i \in 1..Len(t) : t[i] \in Elements(t)
  BY <1>2 DEF Elements
<1>4. t \in Seq(Elements(t))
  BY <1>2, <1>3
<1> QED BY <1>2, <1>4

\* What-ifs and packages are no shocks.
LEMMA ShockKinds ==
  \A s \in Elements(Shocks) : s.kind \notin {"whatif", "package"}
<1> SUFFICES ASSUME NEW i \in 1..14 PROVE Shocks[i].kind \notin {"whatif", "package"}
  BY DEF Elements, Shocks
<1> QED BY DEF Shocks

\* The next evaluation of a list is one of the list.
LEMMA NextIsListed ==
  ASSUME NEW list, NEW x \in NextOf(list)
  PROVE  \E k \in DOMAIN list : x = list[k]
BY DEF NextOf

LEMMA NextKinds ==
  /\ \A w \in NextOf(WhatIfs) : w.kind = "whatif"
  /\ \A p \in NextPackage : p.kind = "package"
  /\ \A s \in NextShock : s \in Elements(Shocks)
<1>1. \A w \in NextOf(WhatIfs) : w.kind = "whatif"
  BY NextIsListed DEF WhatIfs
<1>2. \A p \in NextOf(Packages) : p.kind = "package"
  <2> SUFFICES ASSUME NEW p \in NextOf(Packages) PROVE p.kind = "package"
    OBVIOUS
  <2>1. PICK k \in DOMAIN Packages : p = Packages[k]
    BY NextIsListed
  <2> QED BY <2>1 DEF Packages
<1>3. \A s \in NextOf(Shocks) : s \in Elements(Shocks)
  BY NextIsListed DEF Elements
<1> QED BY <1>1, <1>2, <1>3 DEF NextPackage, NextShock

\* Initially.
LEMMA ShockInit == OtInit => ShockInv
BY DEF OtInit, ShockInv, ShocksAreAlone, Measured, Elements

\* Every step.
LEMMA ShockStep == ShockInv /\ [OtNext]_otVars => ShockInv'
<1> SUFFICES ASSUME ShockInv, [OtNext]_otVars PROVE ShockInv'
  OBVIOUS
<1> USE DEF ShockInv
<1>1. ASSUME NEW sheet \in Sheets, NEW analyses, NEW levels, Load(sheet, levels, analyses)
      PROVE  ShockInv'
  BY <1>1 DEF Load, ShocksAreAlone, Measured
<1>2. ASSUME NEW draws \in Draws, Baseline(draws) PROVE ShockInv'
  BY <1>2 DEF Baseline, ShocksAreAlone, Measured
<1>3. ASSUME NEW row, rows' = Append(rows, row), otPc \in {"whatifs", "packages", "shocks"},
             shock = OtNone, row.of \in Elements(Shocks) => row.result = OtNone,
             UNCHANGED <<otPc, inputs, loaded, shock>>
      PROVE  ShockInv'
  <2>1. rows' \in Seq(Elements(rows')) /\ rows' # << >> /\ Latest' = row
    BY <1>3, AppendedIsLatest DEF Latest
  <2>2. ShocksAreAlone'
    BY <1>3, <2>1 DEF ShocksAreAlone, Measured
  <2> QED BY <1>3, <2>1, <2>2
<1>4. CASE WhatIf
  <2>1. PICK row : rows' = Append(rows, row) /\ row.of \in NextOf(WhatIfs)
    BY <1>4 DEF WhatIf, ResultRow
  <2>2. row.of \notin Elements(Shocks)
    BY <2>1, NextKinds, ShockKinds
  <2> QED BY <1>3, <1>4, <2>1, <2>2 DEF WhatIf
<1>5. CASE SaveWorkbook
  BY <1>5 DEF SaveWorkbook, ShocksAreAlone, Measured, Latest, CampaignsOf
<1>6. CASE Package
  <2>1. PICK row : rows' = Append(rows, row) /\ row.of \in NextPackage
    BY <1>6 DEF Package, ResultRow
  <2>2. row.of \notin Elements(Shocks)
    BY <2>1, NextKinds, ShockKinds
  <2> QED BY <1>3, <1>6, <2>1, <2>2 DEF Package
<1>7. CASE StartShocks
  BY <1>7 DEF StartShocks, ShocksAreAlone, Measured, Latest, CampaignsOf
<1>8. CASE ApplyShock
  <2>1. PICK s \in NextShock :
          \/ /\ Applies(s)
             /\ inputs' = Shocked(inputs, s) /\ shock' = [of |-> s, saved |-> inputs]
             /\ UNCHANGED rows
          \/ /\ ~Applies(s)
             /\ rows' = Append(rows, ResultRow(s, OtNone))
             /\ UNCHANGED <<inputs, shock>>
    BY <1>8 DEF ApplyShock
  <2>2. CASE rows' = Append(rows, ResultRow(s, OtNone)) /\ UNCHANGED <<inputs, shock>>
    BY <1>3, <1>8, <2>2 DEF ApplyShock, ResultRow
  <2>3. CASE /\ inputs' = Shocked(inputs, s) /\ shock' = [of |-> s, saved |-> inputs]
             /\ UNCHANGED rows
    <3>1. inputs = loaded /\ shock' # OtNone
      BY <1>8, <2>3 DEF ApplyShock, ShocksAreAlone, OtNone
    <3>2. ShocksAreAlone'
      BY <1>8, <2>3, <3>1 DEF ApplyShock, ShocksAreAlone, Measured, Latest, CampaignsOf
    <3> QED BY <1>8, <2>3, <3>1, <3>2, NextKinds DEF ApplyShock
  <2> QED BY <2>1, <2>2, <2>3
<1>9. CASE MeasureShock
  <2> DEFINE of == shock.of
             row == ResultRow(of, Evaluate(CampaignsOf(of, inputs), maturity, inputs))
  <2>1. rows' \in Seq(Elements(rows')) /\ rows' # << >> /\ Latest' = row
    BY <1>9, AppendedIsLatest DEF Latest, MeasureShock
  <2>2. inputs = Shocked(loaded, of) /\ shock.saved = loaded
    BY <1>9 DEF MeasureShock
  <2>3. Latest'.of = of /\ Latest'.result = Evaluate(CampaignsOf(of, inputs), maturity, inputs)
    BY <2>1 DEF ResultRow
  <2>4. UNCHANGED <<loaded, maturity, ctx>> /\ inputs' = loaded
    BY <1>9, <2>2 DEF MeasureShock
  <2>5. ShocksAreAlone'
    BY <2>2, <2>3, <2>4 DEF ShocksAreAlone, CampaignsOf
  <2> QED BY <1>9, <2>1, <2>4, <2>5 DEF MeasureShock
<1>10. CASE ReturnResult
  BY <1>10 DEF ReturnResult, ShocksAreAlone, Measured, Latest, CampaignsOf
<1>11. CASE UNCHANGED otVars
  BY <1>11 DEF otVars, ShocksAreAlone, Measured, Latest, CampaignsOf
<1> QED BY <1>1, <1>2, <1>4, <1>5, <1>6, <1>7, <1>8, <1>9, <1>10, <1>11 DEF OtNext

\* Whatever was asked for, a row of the sensitivity table is its shock alone
\* and the inputs are what was loaded between two shocks (engine.py:2627-2776).
THEOREM SensitivitiesAreAlone == OtSpec => []ShocksAreAlone
<1>1. ShockInv => ShocksAreAlone
  BY DEF ShockInv
<1> QED BY <1>1, ShockInit, ShockStep, PTL DEF OtSpec

-----------------------------------------------------------------------------
(* Paths the facility excludes.                                            *)

\* What is evaluated after the baseline: the campaigns drawn for what was
\* loaded, with whole numbers of Unit for the chance of each.
PathInv ==
  /\ otPc \notin {"load", "failed"} => loaded \in Sheets
  /\ otPc \notin {"load", "failed", "baseline"} =>
       /\ ctx.draws \in Draws /\ ctx.campaigns = BuildContext(ctx.draws, loaded)
       /\ base = Evaluate(ctx.campaigns, maturity, loaded)
  /\ ExcludedNeverLose

\* A campaign that hits has a valid path: an invalid one succeeds with
\* probability zero, and no draw is below zero.
LEMMA HitsAreValid ==
  ASSUME NEW context, NEW levels, NEW in, \A k \in DOMAIN context : context[k].u \in Nat,
         NEW k \in Evaluate(context, levels, in).hit
  PROVE  PathValid(context[k].actor, context[k].scenario, in.facility)
<1> DEFINE combo == BuildCombo(context[k].actor, context[k].scenario, levels, in)
<1>1. k \in DOMAIN context /\ context[k].u < combo.success
  BY DEF Evaluate
<1>2. combo.success = CampaignSuccess(context[k].actor, context[k].scenario, levels, in)
  BY DEF BuildCombo
<1>3. ~PathValid(context[k].actor, context[k].scenario, in.facility) => combo.success = 0
  BY <1>2 DEF CampaignSuccess
<1> HIDE DEF combo
<1> QED BY <1>1, <1>3

LEMMA DrawnChances ==
  ASSUME NEW draws, NEW in, \A k \in DOMAIN draws : draws[k].u \in Nat
  PROVE  \A k \in DOMAIN BuildContext(draws, in) : BuildContext(draws, in)[k].u \in Nat
BY DEF BuildContext

LEMMA FrequencyShocks ==
  \A s \in Elements(Shocks) : s.kind = "frequency" => s.factor \in {80, 120}
<1> SUFFICES ASSUME NEW i \in 1..14, Shocks[i].kind = "frequency"
             PROVE  Shocks[i].factor \in {80, 120}
  BY DEF Elements, Shocks
<1> QED BY DEF Shocks

\* The campaigns any row was measured on.
LEMMA CampaignChances ==
  ASSUME ctx.draws \in Draws, ctx.campaigns = BuildContext(ctx.draws, loaded),
         NEW of, of \in Elements(Shocks) \/ of.kind \in {"whatif", "package"}, NEW in
  PROVE  \A k \in DOMAIN CampaignsOf(of, in) : CampaignsOf(of, in)[k].u \in Nat
<1>1. CASE of.kind = "frequency"
  <2>1. of.factor \in {80, 120}
    BY <1>1, FrequencyShocks
  <2> QED BY <1>1, <2>1, DrawnChances, OtInputs DEF CampaignsOf
<1>2. CASE of.kind = "actor_mix"
  BY <1>2, DrawnChances, OtInputs DEF CampaignsOf
<1>3. CASE of.kind \notin {"frequency", "actor_mix"}
  BY <1>3, DrawnChances, OtInputs DEF CampaignsOf
<1> QED BY <1>1, <1>2, <1>3

\* What-ifs and packages are measured on the loaded facility.
LEMMA UnshockedFacility ==
  ASSUME NEW in \in Sheets, NEW of, of.kind \in {"whatif", "package"}
  PROVE  Shocked(in, of).facility = in.facility
BY OtInputs DEF Shocked, SheetColumns

LEMMA PathInit == OtInit => PathInv
BY DEF OtInit, PathInv, ExcludedNeverLose, Measured

LEMMA PathStep == ShockInv /\ PathInv /\ [OtNext]_otVars => PathInv'
<1> SUFFICES ASSUME ShockInv, PathInv, [OtNext]_otVars PROVE PathInv'
  OBVIOUS
<1> USE DEF PathInv
<1>1. ASSUME NEW sheet \in Sheets, NEW analyses, NEW levels, Load(sheet, levels, analyses)
      PROVE  PathInv'
  BY <1>1 DEF Load, ShockInv, ExcludedNeverLose, Measured
<1>2. ASSUME NEW draws \in Draws, Baseline(draws) PROVE PathInv'
  <2>1. inputs = loaded /\ rows = << >>
    BY <1>2 DEF Baseline, ShockInv, ShocksAreAlone
  <2> QED BY <1>2, <2>1 DEF Baseline, ExcludedNeverLose, Measured
<1>3. ASSUME NEW of, of.kind \in {"whatif", "package"}, NEW levels, NEW result,
             result \in {base, Evaluate(ctx.campaigns, levels, loaded)},
             otPc \in {"whatifs", "packages"}, rows' = Append(rows, ResultRow(of, result)),
             UNCHANGED <<otPc, loaded, maturity, ctx, base>>
      PROVE  PathInv'
  <2>1. Latest' = ResultRow(of, result)
    BY <1>3, AppendedIsLatest DEF Latest, ShockInv
  <2>2. \A in : CampaignsOf(of, in) = ctx.campaigns /\ CampaignsOf(of, in)' = ctx.campaigns
    BY <1>3 DEF CampaignsOf
  <2>3. \A k \in DOMAIN ctx.campaigns : ctx.campaigns[k].u \in Nat
    BY <1>3, <2>2, CampaignChances
  <2>4. \A k \in result.hit :
          PathValid(ctx.campaigns[k].actor, ctx.campaigns[k].scenario, loaded.facility)
    BY <1>3, <2>3, HitsAreValid
  <2>5. Shocked(loaded, of).facility = loaded.facility
    BY <1>3, UnshockedFacility
  <2>6. ExcludedNeverLose'
    BY <1>3, <2>1, <2>2, <2>4, <2>5 DEF ExcludedNeverLose, ResultRow
  <2> QED BY <1>3, <2>6
<1>4. CASE WhatIf
  <2>1. inputs = loaded
    BY <1>4 DEF WhatIf, ShockInv, ShocksAreAlone
  <2>2. PICK w \in NextOf(WhatIfs) : \E result :
          /\ rows' = Append(rows, ResultRow(w, result))
          /\ result \in {base, Evaluate(ctx.campaigns, Overridden(w.control), loaded)}
    BY <1>4, <2>1 DEF WhatIf
  <2> QED BY <1>3, <1>4, <2>2, NextKinds DEF WhatIf
<1>5. CASE SaveWorkbook
  BY <1>5 DEF SaveWorkbook, ExcludedNeverLose, Measured, Latest, CampaignsOf
<1>6. CASE Package
  <2>1. inputs = loaded
    BY <1>6 DEF Package, ShockInv, ShocksAreAlone
  <2>2. PICK p \in NextPackage :
          rows' = Append(rows, ResultRow(p, Evaluate(ctx.campaigns, PackageLevels(p.name), loaded)))
    BY <1>6, <2>1 DEF Package
  <2> QED BY <1>3, <1>6, <2>2, NextKinds DEF Package
<1>7. CASE StartShocks
  BY <1>7 DEF StartShocks, ExcludedNeverLose, Measured, Latest, CampaignsOf
<1>8. CASE ApplyShock
  <2>1. CASE UNCHANGED rows
    BY <1>8, <2>1 DEF ApplyShock, ExcludedNeverLose, Measured, Latest, CampaignsOf
  <2>2. CASE \E s : rows' = Append(rows, ResultRow(s, OtNone))
    <3>1. Latest'.result = OtNone
      BY <2>2, AppendedIsLatest DEF Latest, ShockInv, ResultRow
    <3> QED BY <1>8, <3>1 DEF ApplyShock, ExcludedNeverLose, Measured
  <2> QED BY <1>8, <2>1, <2>2 DEF ApplyShock
<1>9. CASE MeasureShock
  <2> DEFINE of == shock.of
             result == Evaluate(CampaignsOf(of, inputs), maturity, inputs)
  <2>1. Latest' = ResultRow(of, result)
    BY <1>9, AppendedIsLatest DEF Latest, ShockInv, MeasureShock
  <2>2. inputs = Shocked(loaded, of) /\ of \in Elements(Shocks)
    BY <1>9 DEF MeasureShock, ShockInv
  <2>3. \A k \in DOMAIN CampaignsOf(of, inputs) : CampaignsOf(of, inputs)[k].u \in Nat
    BY <1>9, <2>2, CampaignChances DEF MeasureShock
  <2>4. \A k \in result.hit :
          PathValid(CampaignsOf(of, inputs)[k].actor, CampaignsOf(of, inputs)[k].scenario,
                    inputs.facility)
    BY <2>3, HitsAreValid
  <2>5. ctx' = ctx /\ loaded' = loaded
    BY <1>9 DEF MeasureShock
  <2>6. ExcludedNeverLose'
    BY <2>1, <2>2, <2>4, <2>5 DEF ExcludedNeverLose, ResultRow, CampaignsOf
  <2> QED BY <1>9, <2>6 DEF MeasureShock
<1>10. CASE ReturnResult
  BY <1>10 DEF ReturnResult, ExcludedNeverLose, Measured, Latest, CampaignsOf
<1>11. CASE UNCHANGED otVars
  BY <1>11 DEF otVars, ExcludedNeverLose, Measured, Latest, CampaignsOf
<1> QED BY <1>1, <1>2, <1>4, <1>5, <1>6, <1>7, <1>8, <1>9, <1>10, <1>11 DEF OtNext

\* No campaign of a path the facility excludes is ever a loss, in the baseline
\* levels or raised ones, shocked or not (engine.py:265-266, 1516-1528).
THEOREM ExcludedPathsNeverLose == OtSpec => []ExcludedNeverLose
<1>1. PathInv => ExcludedNeverLose
  BY DEF PathInv
<1> QED BY <1>1, ShockInit, ShockStep, PathInit, PathStep, PTL DEF OtSpec

-----------------------------------------------------------------------------
(* Barriers.                                                               *)

\* Levels of the controls, and none of them lower than it was.
Levels == [Elements(OtControls) -> 0..TopLevel]
NoneLower(low, high) == \A c \in Elements(OtControls) : low[c] <= high[c]

LEMMA PairMonotone ==
  ASSUME NEW m \in Mappings, NEW l \in 0..TopLevel, NEW h \in 0..TopLevel, l <= h, NEW cover \in Nat
  PROVE  /\ PairEff(m, l, cover) \in 0..BarrierCap /\ PairEff(m, h, cover) \in 0..BarrierCap
         /\ PairEff(m, l, cover) <= PairEff(m, h, cover)
<1> DEFINE x == MaturityShare[l]
           y == MaturityShare[h]
           e == m.efficacy
<1>1. /\ TopLevel \in Nat \ {0} /\ Unit \in Nat /\ e \in Nat
      /\ BarrierCap \in Int /\ 0 \in Int /\ 0 <= BarrierCap
  BY OtPack, BarrierUnit
<1>2. h \in l..TopLevel
  BY <1>1
<1>3. x \in Nat /\ y \in Nat /\ x <= y
  BY <1>2, OtPack
<1> HIDE DEF x, y, e
<1>4. e <= e /\ cover <= cover
  BY <1>1
<1>5. Times(e, x) \in Nat /\ Times(e, y) \in Nat /\ Times(e, x) <= Times(e, y)
  BY <1>1, <1>3, <1>4, TimesMonotone
<1> DEFINE v == Times(Times(e, x), cover)
           w == Times(Times(e, y), cover)
<1>6. v \in Nat /\ w \in Nat /\ v <= w
  BY <1>4, <1>5, TimesMonotone
<1>7. PairEff(m, l, cover) = ClipTo(v, 0, BarrierCap) /\ PairEff(m, h, cover) = ClipTo(w, 0, BarrierCap)
  BY DEF PairEff, e, x, y
<1> HIDE DEF v, w
<1>8. v \in Int /\ w \in Int
  BY <1>6
<1> QED BY <1>1, <1>6, <1>7, <1>8, ClipMonotone

\* The best mapping of each control that counts for a technique.
Mapped(tid, channel) == {m.cid : m \in MappedTo(tid, channel)}
Best(tid, channel, level, cover, c) ==
  Max({PairEff(m, level[c], cover[c]) : m \in {n \in MappedTo(tid, channel) : n.cid = c}})

LEMMA BestMonotone ==
  ASSUME NEW tid, NEW channel, NEW c \in Mapped(tid, channel),
         NEW low \in Levels, NEW high \in Levels, NoneLower(low, high),
         NEW cover, cover[c] \in Nat
  PROVE  /\ Best(tid, channel, low, cover, c) \in 0..BarrierCap
         /\ Best(tid, channel, high, cover, c) \in 0..BarrierCap
         /\ Best(tid, channel, low, cover, c) <= Best(tid, channel, high, cover, c)
<1> DEFINE M == {n \in MappedTo(tid, channel) : n.cid = c}
           X == {PairEff(m, low[c], cover[c]) : m \in M}
           Y == {PairEff(m, high[c], cover[c]) : m \in M}
<1>1. M # {} /\ M \subseteq Mappings /\ c \in Elements(OtControls)
  BY DEF Mapped, MappedTo
<1>2. low[c] \in 0..TopLevel /\ high[c] \in 0..TopLevel /\ low[c] <= high[c]
  BY <1>1 DEF Levels, NoneLower
<1> HIDE DEF M
<1>3. \A m \in M : /\ PairEff(m, low[c], cover[c]) \in 0..BarrierCap
                   /\ PairEff(m, high[c], cover[c]) \in 0..BarrierCap
                   /\ PairEff(m, low[c], cover[c]) <= PairEff(m, high[c], cover[c])
  BY <1>1, <1>2, PairMonotone
<1>4. X \subseteq 0..BarrierCap /\ X # {} /\ Y \subseteq 0..BarrierCap /\ Y # {}
  BY <1>1, <1>3
<1>5. BarrierCap \in Nat
  BY BarrierUnit
<1>6. Best(tid, channel, low, cover, c) = Max(X) /\ Best(tid, channel, high, cover, c) = Max(Y)
  BY DEF Best, M
<1>7. PICK m \in M : Max(X) = PairEff(m, low[c], cover[c])
  <2>1. Max(X) \in X
    <3> HIDE DEF X
    <3> QED BY <1>4, <1>5, GreatestOf
  <2> QED BY <2>1
<1>8. PairEff(m, high[c], cover[c]) \in Y
  BY <1>7
<1>9. /\ Max(X) \in 0..BarrierCap /\ Max(Y) \in 0..BarrierCap
      /\ PairEff(m, high[c], cover[c]) <= Max(Y)
  <2> HIDE DEF X, Y
  <2> QED BY <1>4, <1>5, <1>8, GreatestOf
<1>10. PairEff(m, low[c], cover[c]) <= PairEff(m, high[c], cover[c])
       /\ PairEff(m, high[c], cover[c]) \in 0..BarrierCap
  BY <1>3, <1>7
<1> DEFINE x == Max(X)
           y == Max(Y)
           z == PairEff(m, high[c], cover[c])
<1>11. x <= z /\ z <= y /\ x \in 0..BarrierCap /\ y \in 0..BarrierCap /\ z \in 0..BarrierCap
  BY <1>7, <1>9, <1>10
<1> HIDE DEF x, y, z
<1>12. x <= y
  BY <1>5, <1>11
<1> QED BY <1>6, <1>11, <1>12 DEF x, y

LEMMA TtpMonotone ==
  ASSUME NEW tid, NEW channel, NEW low \in Levels, NEW high \in Levels, NoneLower(low, high),
         NEW cover, \A c \in Elements(OtControls) : cover[c] \in Nat
  PROVE  /\ TtpBarrier(tid, channel, [level |-> low, cover |-> cover]) \in 0..BarrierCap
         /\ TtpBarrier(tid, channel, [level |-> high, cover |-> cover]) \in 0..BarrierCap
         /\ TtpBarrier(tid, channel, [level |-> low, cover |-> cover])
              <= TtpBarrier(tid, channel, [level |-> high, cover |-> cover])
<1> DEFINE S == Mapped(tid, channel)
           keys == SetToSeq(S)
           n == Cardinality(S)
           s == [i \in DOMAIN keys |-> Best(tid, channel, low, cover, keys[i])]
           t == [i \in DOMAIN keys |-> Best(tid, channel, high, cover, keys[i])]
<1>1. S \subseteq Elements(OtControls)
  BY DEF Mapped, MappedTo
<1>2. IsFiniteSet(Elements(OtControls))
  <2>1. Len(OtControls) \in Nat /\ DOMAIN OtControls = 1..Len(OtControls)
    BY OtPack
  <2>2. IsFiniteSet(1..Len(OtControls))
    BY <2>1, FS_Interval
  <2>3. OtControls \in Surjection(1..Len(OtControls), Elements(OtControls))
    <3> DEFINE E == Elements(OtControls)
    <3>1. OtControls \in Seq(E) /\ \A e \in E : \E i \in DOMAIN OtControls : OtControls[i] = e
      BY OtPack DEF Elements
    <3> HIDE DEF E
    <3>2. OtControls \in [1..Len(OtControls) -> E]
      BY <3>1
    <3> QED BY <2>1, <3>1, <3>2 DEF Surjection, E
  <2> QED BY <2>2, <2>3, FS_Surjection
<1>3. IsFiniteSet(S)
  BY <1>1, <1>2, FS_Subset
<1>4. n \in Nat /\ keys \in [1..n -> S]
  BY <1>3, Listing
<1>5. /\ TtpBarrier(tid, channel, [level |-> low, cover |-> cover]) = CombineEffects(s)
      /\ TtpBarrier(tid, channel, [level |-> high, cover |-> cover]) = CombineEffects(t)
  BY DEF TtpBarrier, Best, Mapped
<1>6. \A i \in 1..n : /\ s[i] \in 0..BarrierCap /\ t[i] \in 0..BarrierCap /\ s[i] <= t[i]
  <2> SUFFICES ASSUME NEW i \in 1..n
               PROVE  s[i] \in 0..BarrierCap /\ t[i] \in 0..BarrierCap /\ s[i] <= t[i]
    OBVIOUS
  <2>1. keys[i] \in S /\ i \in DOMAIN keys
    BY <1>4
  <2>2. cover[keys[i]] \in Nat
    BY <1>1, <2>1
  <2> HIDE DEF keys, n
  <2>3. /\ Best(tid, channel, low, cover, keys[i]) \in 0..BarrierCap
        /\ Best(tid, channel, high, cover, keys[i]) \in 0..BarrierCap
        /\ Best(tid, channel, low, cover, keys[i]) <= Best(tid, channel, high, cover, keys[i])
    BY <2>1, <2>2, BestMonotone
  <2> QED BY <2>1, <2>3
<1>7. DOMAIN s = 1..n /\ DOMAIN t = 1..n
  BY <1>4
<1>8. s \in [1..n -> 0..BarrierCap] /\ t \in [1..n -> 0..BarrierCap]
  <2>1. s = [i \in 1..n |-> s[i]] /\ t = [i \in 1..n |-> t[i]]
    BY <1>7
  <2> HIDE DEF s, t, n
  <2> QED BY <1>6, <2>1
<1> HIDE DEF s, t, n
<1> QED BY <1>4, <1>5, <1>6, <1>8, CombineMonotone

LEMMA ActualMonotone ==
  ASSUME NEW t \in Techniques, NEW channel,
         NEW low \in Levels, NEW high \in Levels, NoneLower(low, high)
  PROVE  /\ ActualBarrier(t.id, channel, low) \in Nat /\ ActualBarrier(t.id, channel, high) \in Nat
         /\ ActualBarrier(t.id, channel, low) <= ActualBarrier(t.id, channel, high)
<1> DEFINE a == TtpBarrier(t.id, channel, Actual(low))
           b == TtpBarrier(t.id, channel, Actual(high))
           o == Overlay[t.id]
<1>1. \A c \in Elements(OtControls) : Coverage[c] \in Nat
  BY OtPack
<1>2. a \in 0..BarrierCap /\ b \in 0..BarrierCap /\ a <= b
  BY <1>1, TtpMonotone DEF Actual
<1>3. o \in Nat /\ BarrierCap \in Nat
  BY OtPack, BarrierUnit
<1>4. /\ ActualBarrier(t.id, channel, low) = IF channel = "prevent" THEN Times(a, o) ELSE a
      /\ ActualBarrier(t.id, channel, high) = IF channel = "prevent" THEN Times(b, o) ELSE b
  BY DEF ActualBarrier
<1> HIDE DEF a, b, o
<1>5. a \in Nat /\ b \in Nat /\ o <= o
  BY <1>2, <1>3
<1>6. Times(a, o) \in Nat /\ Times(b, o) \in Nat /\ Times(a, o) <= Times(b, o)
  BY <1>2, <1>3, <1>5, TimesMonotone
<1> QED BY <1>2, <1>4, <1>5, <1>6

LEMMA MeanMonotone ==
  ASSUME NEW S, IsFiniteSet(S), NEW f \in [S -> Int], NEW g \in [S -> Int],
         \A x \in S : f[x] <= g[x]
  PROVE  Mean(f) \in Int /\ Mean(g) \in Int /\ Mean(f) <= Mean(g)
<1>1. CASE S = {}
  BY <1>1 DEF Mean
<1>2. CASE S # {}
  <2> DEFINE x == SumOver(f)
             y == SumOver(g)
             n == Cardinality(S)
  <2>1. x \in Int /\ y \in Int /\ x <= y
    BY SumOverType, SumOverMonotone
  <2>2. n \in Nat \ {0}
    BY <1>2, FS_CardinalityType, FS_EmptySet
  <2>3. Mean(f) = x \div n /\ Mean(g) = y \div n
    BY <1>2 DEF Mean
  <2> HIDE DEF x, y, n
  <2> QED BY <2>1, <2>2, <2>3, DivMonotone
<1> QED BY <1>1, <1>2

LEMMA MeanBarrierMonotone ==
  ASSUME NEW ts \in SUBSET Techniques, NEW channel,
         NEW low \in Levels, NEW high \in Levels, NoneLower(low, high)
  PROVE  /\ MeanBarrier(ts, channel, low) \in Int /\ MeanBarrier(ts, channel, high) \in Int
         /\ MeanBarrier(ts, channel, low) <= MeanBarrier(ts, channel, high)
<1> DEFINE f == [t \in ts |-> ActualBarrier(t.id, channel, low)]
           g == [t \in ts |-> ActualBarrier(t.id, channel, high)]
<1>1. IsFiniteSet(ts)
  BY OtPack, FS_Subset
<1>2. \A t \in ts : /\ ActualBarrier(t.id, channel, low) \in Nat
                    /\ ActualBarrier(t.id, channel, high) \in Nat
                    /\ ActualBarrier(t.id, channel, low) <= ActualBarrier(t.id, channel, high)
  BY ActualMonotone
<1>3. f \in [ts -> Int] /\ g \in [ts -> Int] /\ \A t \in ts : f[t] <= g[t]
  BY <1>2
<1>4. MeanBarrier(ts, channel, low) = Mean(f) /\ MeanBarrier(ts, channel, high) = Mean(g)
  BY DEF MeanBarrier
<1> HIDE DEF f, g
<1> QED BY <1>1, <1>3, <1>4, MeanMonotone

LEMMA ReferenceType ==
  ASSUME NEW ts \in SUBSET Techniques, NEW channel
  PROVE  ReferenceBarrier(ts, channel) \in Int
<1> DEFINE l == [c \in Elements(OtControls) |-> BaselineLevel]
           v == [c \in Elements(OtControls) |-> DefaultCoverage]
           f == [t \in ts |-> TtpBarrier(t.id, channel, Reference)]
<1>1. l \in Levels /\ NoneLower(l, l)
  <2>1. BaselineLevel \in 0..TopLevel /\ BaselineLevel <= BaselineLevel
    BY OtPack
  <2> QED BY <2>1 DEF Levels, NoneLower
<1>2. \A c \in Elements(OtControls) : v[c] \in Nat
  BY OtPack
<1>3. Reference = [level |-> l, cover |-> v] /\ BarrierCap \in Nat
  BY BarrierUnit DEF Reference
<1> HIDE DEF l, v
<1>4. \A t \in ts : TtpBarrier(t.id, channel, Reference) \in 0..BarrierCap
  BY <1>1, <1>2, <1>3, TtpMonotone
<1>5. f \in [ts -> Int] /\ \A t \in ts : f[t] <= f[t]
  BY <1>3, <1>4
<1>6. IsFiniteSet(ts)
  BY OtPack, FS_Subset
<1>7. ReferenceBarrier(ts, channel) = Mean(f)
  BY DEF ReferenceBarrier
<1> HIDE DEF f
<1> QED BY <1>5, <1>6, <1>7, MeanMonotone

\* What is open shrinks as barriers grow.
LEMMA AdjustedMonotone ==
  ASSUME NEW x \in Int, NEW y \in Int, x <= y, NEW ref \in Int
  PROVE  /\ Adjusted(x, ref) \in Nat /\ Adjusted(y, ref) \in Nat
         /\ Adjusted(x, ref) <= Adjusted(y, ref)
<1> DEFINE p == x * Unit
           q == y * Unit
           a == IF ref > 0 THEN p \div ref ELSE Unit
           b == IF ref > 0 THEN q \div ref ELSE Unit
<1>1. /\ Unit \in Nat \ {0} /\ AdjFloor \in Nat /\ AdjCeiling \in Nat /\ AdjFloor <= AdjCeiling
      /\ AdjFloor \in Int /\ AdjCeiling \in Int
  BY OtPack, BarrierUnit
<1>2. p \in Int /\ q \in Int /\ p <= q
  BY <1>1
<1>3. Adjusted(x, ref) = ClipTo(a, AdjFloor, AdjCeiling)
      /\ Adjusted(y, ref) = ClipTo(b, AdjFloor, AdjCeiling)
  BY DEF Adjusted
<1> HIDE DEF p, q
<1>4. a \in Int /\ b \in Int /\ a <= b
  <2>1. CASE ref > 0
    <3>1. ref \in Nat \ {0}
      BY <2>1
    <3> QED BY <1>2, <2>1, <3>1, DivMonotone
  <2>2. CASE ~(ref > 0)
    BY <1>1, <2>2
  <2> QED BY <2>1, <2>2
<1> HIDE DEF a, b
<1>5. /\ ClipTo(a, AdjFloor, AdjCeiling) \in AdjFloor..AdjCeiling
      /\ ClipTo(b, AdjFloor, AdjCeiling) \in AdjFloor..AdjCeiling
      /\ ClipTo(a, AdjFloor, AdjCeiling) <= ClipTo(b, AdjFloor, AdjCeiling)
  BY <1>1, <1>4, ClipMonotone
<1> QED BY <1>1, <1>3, <1>5

LEMMA OpennessFalls ==
  ASSUME NEW ts \in SUBSET Techniques, NEW channel,
         NEW low \in Levels, NEW high \in Levels, NoneLower(low, high)
  PROVE  LET open(levels) == Adjusted(Unit - MeanBarrier(ts, channel, levels),
                                      Unit - ReferenceBarrier(ts, channel))
         IN open(low) \in Nat /\ open(high) \in Nat /\ open(high) <= open(low)
<1> DEFINE a == MeanBarrier(ts, channel, low)
           b == MeanBarrier(ts, channel, high)
           r == ReferenceBarrier(ts, channel)
<1>1. a \in Int /\ b \in Int /\ a <= b /\ r \in Int /\ Unit \in Int
  BY MeanBarrierMonotone, ReferenceType, BarrierUnit
<1> HIDE DEF a, b, r
<1>2. Unit - a \in Int /\ Unit - b \in Int /\ Unit - r \in Int /\ Unit - b <= Unit - a
  BY <1>1
<1>3. /\ Adjusted(Unit - b, Unit - r) \in Nat /\ Adjusted(Unit - a, Unit - r) \in Nat
      /\ Adjusted(Unit - b, Unit - r) <= Adjusted(Unit - a, Unit - r)
  <2> DEFINE x == Unit - b
             y == Unit - a
             z == Unit - r
  <2> HIDE DEF x, y, z
  <2>1. x \in Int /\ y \in Int /\ z \in Int /\ x <= y
    BY <1>2 DEF x, y, z
  <2>2. Adjusted(x, z) \in Nat /\ Adjusted(y, z) \in Nat /\ Adjusted(x, z) <= Adjusted(y, z)
    BY <2>1, AdjustedMonotone
  <2> QED BY <2>2 DEF x, y, z
<1> QED BY <1>3 DEF a, b, r

LEMMA ChannelFalls ==
  ASSUME NEW rel \in SUBSET Techniques, NEW channel,
         NEW low \in Levels, NEW high \in Levels, NoneLower(low, high)
  PROVE  /\ ChannelFactor(rel, channel, low) \in Nat /\ ChannelFactor(rel, channel, high) \in Nat
         /\ ChannelFactor(rel, channel, high) <= ChannelFactor(rel, channel, low)
<1> DEFINE ts == {t \in rel : MappedTo(t.id, channel) # {}}
<1>1. ts \in SUBSET Techniques
  OBVIOUS
<1>2. \A levels : ChannelFactor(rel, channel, levels) =
        Adjusted(Unit - MeanBarrier(ts, channel, levels), Unit - ReferenceBarrier(ts, channel))
  BY DEF ChannelFactor
<1> HIDE DEF ts
<1> QED BY <1>1, <1>2, OpennessFalls

LEMMA ThroughFalls ==
  ASSUME NEW rel \in SUBSET Techniques, NEW st, NEW prior \in Nat,
         NEW low \in Levels, NEW high \in Levels, NoneLower(low, high)
  PROVE  /\ Through(rel, st, prior, low) \in 0..Unit /\ Through(rel, st, prior, high) \in 0..Unit
         /\ Through(rel, st, prior, high) <= Through(rel, st, prior, low)
<1> DEFINE ts == StageTtps(rel, st)
           open(levels) == Adjusted(Unit - MeanBarrier(ts, "prevent", levels),
                                    Unit - ReferenceBarrier(ts, "prevent"))
           a == open(low)
           b == open(high)
<1>1. ts \in SUBSET Techniques
  BY DEF StageTtps
<1>2. /\ Through(rel, st, prior, low) = ClipTo(Times(prior, a), 0, Unit)
      /\ Through(rel, st, prior, high) = ClipTo(Times(prior, b), 0, Unit)
  BY DEF Through
<1>3. a \in Nat /\ b \in Nat /\ b <= a
  <2> HIDE DEF ts
  <2> QED BY <1>1, OpennessFalls
<1> HIDE DEF a, b
<1>4. Times(prior, a) \in Nat /\ Times(prior, b) \in Nat /\ Times(prior, b) <= Times(prior, a)
  <2>1. prior <= prior
    OBVIOUS
  <2> QED BY <1>3, <2>1, TimesMonotone
<1> DEFINE x == Times(prior, a)
           y == Times(prior, b)
<1>5. x \in Int /\ y \in Int /\ y <= x /\ 0 \in Int /\ Unit \in Int /\ 0 <= Unit
  BY <1>4, BarrierUnit
<1> HIDE DEF x, y
<1>6. ClipTo(x, 0, Unit) \in 0..Unit /\ ClipTo(y, 0, Unit) \in 0..Unit
      /\ ClipTo(y, 0, Unit) <= ClipTo(x, 0, Unit)
  BY <1>5, ClipMonotone
<1> QED BY <1>2, <1>6 DEF x, y

-----------------------------------------------------------------------------
(* Campaigns.                                                              *)

LEMMA RelevantAreTechniques ==
  ASSUME NEW actor, NEW sc, NEW fac
  PROVE  RelevantTtps(actor, sc, fac) \in SUBSET Techniques
BY DEF RelevantTtps

LEMMA SuccessFalls ==
  ASSUME NEW actor, NEW sc, NEW in \in Sheets,
         NEW low \in Levels, NEW high \in Levels, NoneLower(low, high)
  PROVE  /\ CampaignSuccess(actor, sc, low, in) \in 0..Unit
         /\ CampaignSuccess(actor, sc, high, in) \in 0..Unit
         /\ CampaignSuccess(actor, sc, high, in) <= CampaignSuccess(actor, sc, low, in)
<1> DEFINE rel == RelevantTtps(actor, sc, in.facility)
           n == Len(OtStages)
           stage(levels) ==
             [i \in DOMAIN OtStages |->
                LET st == OtStages[i]
                IN IF Required(actor, st) THEN Through(rel, st, in.priors[st], levels) ELSE Unit]
           s == stage(high)
           t == stage(low)
<1>1. n \in Nat /\ DOMAIN OtStages = 1..n
  BY OtPack
<1>2. \A i \in 1..n : in.priors[OtStages[i]] \in Nat
  <2> TAKE i \in 1..n
  <2>1. OtStages[i] \in Elements(OtStages)
    BY <1>1 DEF Elements
  <2> QED BY <2>1, OtInputs
<1>3. rel \in SUBSET Techniques
  BY RelevantAreTechniques
<1>4. StageProduct(rel, actor, low, in) = Product(t) /\ StageProduct(rel, actor, high, in) = Product(s)
  BY DEF StageProduct
<1> HIDE DEF rel, n
<1>5. \A i \in 1..n : s[i] \in 0..Unit /\ t[i] \in 0..Unit /\ s[i] <= t[i]
  <2> SUFFICES ASSUME NEW i \in 1..n PROVE s[i] \in 0..Unit /\ t[i] \in 0..Unit /\ s[i] <= t[i]
    OBVIOUS
  <2> DEFINE st == OtStages[i]
             pr == in.priors[OtStages[i]]
  <2>1. /\ Through(rel, st, pr, low) \in 0..Unit /\ Through(rel, st, pr, high) \in 0..Unit
        /\ Through(rel, st, pr, high) <= Through(rel, st, pr, low)
    <3>1. pr \in Nat
      BY <1>2
    <3> HIDE DEF st, pr
    <3> QED BY <1>3, <3>1, ThroughFalls
  <2>2. Unit \in 0..Unit /\ Unit <= Unit
    BY BarrierUnit
  <2> QED BY <1>1, <2>1, <2>2
<1>6. s \in [1..n -> 0..Unit] /\ t \in [1..n -> 0..Unit]
  <2>1. s = [i \in 1..n |-> s[i]] /\ t = [i \in 1..n |-> t[i]]
    BY <1>1
  <2> HIDE DEF s, t
  <2> QED BY <1>5, <2>1
<1> HIDE DEF s, t
<1>7. Product(s) \in 0..Unit /\ Product(t) \in 0..Unit /\ Product(s) <= Product(t)
  BY <1>1, <1>5, <1>6, ProductMonotone
<1>8. 0 \in 0..Unit /\ 0 <= 0
  BY BarrierUnit
<1> QED BY <1>4, <1>7, <1>8 DEF CampaignSuccess, rel

\* A campaign that can succeed is of a known scenario: its last stage has a
\* technique.
LEMMA ValidScenario ==
  ASSUME NEW actor, NEW sc, NEW fac, PathValid(actor, sc, fac)
  PROVE  sc \in Elements(OtScenarios)
<1> DEFINE st == OtStages[Len(OtStages)]
<1>1. st \in Elements(OtStages) /\ Required(actor, st)
  BY OtPack DEF Elements, Required
<1>2. StageValid(RelevantTtps(actor, sc, fac), st)
  BY <1>1 DEF PathValid
<1>3. PICK t \in RelevantTtps(actor, sc, fac) : TRUE
  BY <1>2 DEF StageValid, StageTtps
<1>4. t \in Techniques /\ t.scenario = sc
  BY <1>3 DEF RelevantTtps
<1> QED BY <1>4, OtPack

LEMMA ComboFalls ==
  ASSUME NEW actor, NEW sc \in Elements(OtScenarios), NEW in \in Sheets,
         NEW low \in Levels, NEW high \in Levels, NoneLower(low, high)
  PROVE  LET a == BuildCombo(actor, sc, low, in)
             b == BuildCombo(actor, sc, high, in)
         IN /\ a.duration \in Nat /\ b.duration \in Nat /\ b.duration <= a.duration
            /\ a.other \in Nat /\ b.other \in Nat /\ b.other <= a.other
<1> DEFINE rel == RelevantTtps(actor, sc, in.facility)
           i == in.impact[sc]
           d1 == ChannelFactor(rel, "detect", low)
           d2 == ChannelFactor(rel, "detect", high)
           r1 == ChannelFactor(rel, "recover", low)
           r2 == ChannelFactor(rel, "recover", high)
           s1 == ChannelFactor(rel, "safety", low)
           s2 == ChannelFactor(rel, "safety", high)
           total == i.fixed + i.restore + i.harm
           n1 == i.fixed * Unit + i.restore * r1 + i.harm * s1
           n2 == i.fixed * Unit + i.restore * r2 + i.harm * s2
           t1 == Times(d1, r1)
           t2 == Times(d2, r2)
<1>1. rel \in SUBSET Techniques
  BY RelevantAreTechniques
<1>2. i.fixed \in Nat /\ i.restore \in Nat /\ i.harm \in Nat /\ total \in Nat
  BY OtInputs
<1>3. /\ (BuildCombo(actor, sc, low, in)).duration = IF t1 < DurFloor THEN DurFloor ELSE t1
      /\ (BuildCombo(actor, sc, high, in)).duration = IF t2 < DurFloor THEN DurFloor ELSE t2
      /\ (BuildCombo(actor, sc, low, in)).other =
           IF total = 0 THEN ConseqFloor ELSE ClipTo(n1 \div total, ConseqFloor, ConseqCeiling)
      /\ (BuildCombo(actor, sc, high, in)).other =
           IF total = 0 THEN ConseqFloor ELSE ClipTo(n2 \div total, ConseqFloor, ConseqCeiling)
  BY DEF BuildCombo
<1>4. /\ d1 \in Nat /\ d2 \in Nat /\ d2 <= d1 /\ r1 \in Nat /\ r2 \in Nat /\ r2 <= r1
      /\ s1 \in Nat /\ s2 \in Nat /\ s2 <= s1
  <2> HIDE DEF rel
  <2> QED BY <1>1, ChannelFalls
<1> DEFINE restore == i.restore
           harm == i.harm
           fixed == i.fixed * Unit
<1>5. restore \in Nat /\ harm \in Nat /\ fixed \in Nat
  BY <1>2, BarrierUnit
<1> HIDE DEF d1, d2, r1, r2, s1, s2, total, restore, harm, fixed
<1>6. t1 \in Nat /\ t2 \in Nat /\ t2 <= t1
  BY <1>4, TimesMonotone
<1>7. n1 \in Nat /\ n2 \in Nat /\ n2 <= n1
  <2>1. restore <= restore /\ harm <= harm
    BY <1>5
  <2>2. restore * r1 \in Nat /\ restore * r2 \in Nat /\ restore * r2 <= restore * r1
    BY <1>4, <1>5, <2>1, MulMonotone
  <2>3. harm * s1 \in Nat /\ harm * s2 \in Nat /\ harm * s2 <= harm * s1
    BY <1>4, <1>5, <2>1, MulMonotone
  <2>4. n1 = fixed + restore * r1 + harm * s1 /\ n2 = fixed + restore * r2 + harm * s2
    BY DEF restore, harm, fixed
  <2> QED BY <1>5, <2>2, <2>3, <2>4
<1> HIDE DEF n1, n2, t1, t2
<1>8. /\ ConseqFloor \in Nat /\ ConseqCeiling \in Nat /\ ConseqFloor <= ConseqCeiling /\ DurFloor \in Nat
      /\ ConseqFloor \in Int /\ ConseqCeiling \in Int
  BY OtPack
<1>9. total # 0 => /\ ClipTo(n1 \div total, ConseqFloor, ConseqCeiling) \in ConseqFloor..ConseqCeiling
                   /\ ClipTo(n2 \div total, ConseqFloor, ConseqCeiling) \in ConseqFloor..ConseqCeiling
                   /\ ClipTo(n2 \div total, ConseqFloor, ConseqCeiling)
                        <= ClipTo(n1 \div total, ConseqFloor, ConseqCeiling)
  <2> SUFFICES ASSUME total # 0 PROVE /\ ClipTo(n1 \div total, ConseqFloor, ConseqCeiling) \in ConseqFloor..ConseqCeiling
                   /\ ClipTo(n2 \div total, ConseqFloor, ConseqCeiling) \in ConseqFloor..ConseqCeiling
                   /\ ClipTo(n2 \div total, ConseqFloor, ConseqCeiling)
                        <= ClipTo(n1 \div total, ConseqFloor, ConseqCeiling)
    OBVIOUS
  <2> DEFINE x == n2 \div total
             y == n1 \div total
  <2>1. total \in Nat \ {0} /\ n1 \in Int /\ n2 \in Int
    BY <1>2, <1>7
  <2>2. x \in Int /\ y \in Int /\ x <= y
    BY <1>7, <2>1, DivMonotone
  <2> HIDE DEF x, y
  <2>3. /\ ClipTo(x, ConseqFloor, ConseqCeiling) \in ConseqFloor..ConseqCeiling
        /\ ClipTo(y, ConseqFloor, ConseqCeiling) \in ConseqFloor..ConseqCeiling
        /\ ClipTo(x, ConseqFloor, ConseqCeiling) <= ClipTo(y, ConseqFloor, ConseqCeiling)
    BY <1>8, <2>2, ClipMonotone
  <2> QED BY <2>3 DEF x, y
<1>10. /\ (BuildCombo(actor, sc, low, in)).other \in Nat
       /\ (BuildCombo(actor, sc, high, in)).other \in Nat
       /\ (BuildCombo(actor, sc, high, in)).other <= (BuildCombo(actor, sc, low, in)).other
  BY <1>3, <1>8, <1>9
<1>11. /\ (BuildCombo(actor, sc, low, in)).duration \in Nat
       /\ (BuildCombo(actor, sc, high, in)).duration \in Nat
       /\ (BuildCombo(actor, sc, high, in)).duration <= (BuildCombo(actor, sc, low, in)).duration
  BY <1>3, <1>6, <1>8
<1> QED BY <1>10, <1>11

LEMMA LossFalls ==
  ASSUME NEW c, c.scenario \in Elements(OtScenarios), NEW in \in Sheets,
         NEW a, NEW b, a.duration \in Nat, b.duration \in Nat, b.duration <= a.duration,
         a.other \in Nat, b.other \in Nat, b.other <= a.other
  PROVE  LossOf(c, a, in) \in Nat /\ LossOf(c, b, in) \in Nat /\ LossOf(c, b, in) <= LossOf(c, a, in)
<1> DEFINE i == in.impact[c.scenario]
           days == IF c.z THEN i.days[2] ELSE i.days[1]
           capacity == IF c.z THEN i.capacity[2] ELSE i.capacity[1]
           sum == i.fixed + i.restore + i.harm
           other == IF c.z THEN 2 * sum ELSE sum
           bi == in.biScale
           x(combo) == Times(Times(Times(days, combo.duration), capacity), bi)
           y(combo) == Times(other, combo.other)
<1>1. days \in Nat /\ capacity \in Nat /\ sum \in Nat /\ bi \in Nat
  <2>1. /\ i.days[1] \in Nat /\ i.days[2] \in Nat /\ i.capacity[1] \in Nat /\ i.capacity[2] \in Nat
        /\ i.fixed \in Nat /\ i.restore \in Nat /\ i.harm \in Nat /\ bi \in Nat
    BY OtInputs
  <2> HIDE DEF i
  <2> QED BY <2>1
<1>2. other \in Nat
  BY <1>1
<1>3. \A combo : LossOf(c, combo, in) = x(combo) + y(combo)
  BY DEF LossOf
<1> HIDE DEF days, capacity, other, bi
<1>4. days <= days /\ capacity <= capacity /\ bi <= bi /\ other <= other
  BY <1>1, <1>2
<1> DEFINE p == Times(days, a.duration)
           q == Times(days, b.duration)
<1>5. p \in Nat /\ q \in Nat /\ q <= p
  BY <1>1, <1>4, TimesMonotone
<1> DEFINE v == Times(p, capacity)
           w == Times(q, capacity)
<1> HIDE DEF p, q
<1>6. v \in Nat /\ w \in Nat /\ w <= v
  BY <1>1, <1>4, <1>5, TimesMonotone
<1> HIDE DEF v, w
<1>7. Times(v, bi) \in Nat /\ Times(w, bi) \in Nat /\ Times(w, bi) <= Times(v, bi)
  BY <1>1, <1>4, <1>6, TimesMonotone
<1>8. y(a) \in Nat /\ y(b) \in Nat /\ y(b) <= y(a)
  BY <1>2, <1>4, TimesMonotone
<1>9. x(a) = Times(v, bi) /\ x(b) = Times(w, bi)
  BY DEF v, w, p, q
<1>10. x(a) \in Nat /\ x(b) \in Nat /\ x(b) <= x(a)
  BY <1>7, <1>9
<1> HIDE DEF x, y
<1>11. x(a) + y(a) \in Nat /\ x(b) + y(b) \in Nat /\ x(b) + y(b) <= x(a) + y(a)
  BY <1>8, <1>10
<1> QED BY <1>3, <1>11

-----------------------------------------------------------------------------
(* Uplifts.                                                                *)

\* What a year costs: the campaigns of the year that hit.
YearLosses(context, levels, in, y) ==
  LET combo(k) == BuildCombo(context[k].actor, context[k].scenario, levels, in)
  IN [k \in DOMAIN context |->
        IF context[k].u < combo(k).success /\ context[k].year = y
        THEN LossOf(context[k], combo(k), in) ELSE 0]

LEMMA YearIsSum ==
  ASSUME NEW context, NEW levels, NEW in, NEW y \in OtYears
  PROVE  Evaluate(context, levels, in).annual[y] = SumOf(YearLosses(context, levels, in, y))
<1> DEFINE combo(k) == BuildCombo(context[k].actor, context[k].scenario, levels, in)
           hit == {k \in DOMAIN context : context[k].u < combo(k).success}
           f == [k \in DOMAIN context |->
                   IF k \in hit /\ context[k].year = y THEN LossOf(context[k], combo(k), in) ELSE 0]
<1>1. Evaluate(context, levels, in).annual[y] = SumOf(f)
  BY DEF Evaluate
<1>2. f = YearLosses(context, levels, in, y)
  BY DEF YearLosses
<1> QED BY <1>1, <1>2

LEMMA EvaluateFalls ==
  ASSUME NEW context, NEW n \in Nat, DOMAIN context = 1..n, \A k \in 1..n : context[k].u \in Nat,
         NEW in \in Sheets, NEW low \in Levels, NEW high \in Levels, NoneLower(low, high),
         NEW y \in OtYears
  PROVE  Evaluate(context, high, in).annual[y] <= Evaluate(context, low, in).annual[y]
<1> DEFINE f == YearLosses(context, high, in, y)
           g == YearLosses(context, low, in, y)
<1>1. ASSUME NEW k \in 1..n
      PROVE  f[k] \in Int /\ g[k] \in Int /\ f[k] <= g[k]
  <2> DEFINE c == context[k]
             a == BuildCombo(c.actor, c.scenario, low, in)
             b == BuildCombo(c.actor, c.scenario, high, in)
  <2>1. /\ f[k] = IF c.u < b.success /\ c.year = y THEN LossOf(c, b, in) ELSE 0
        /\ g[k] = IF c.u < a.success /\ c.year = y THEN LossOf(c, a, in) ELSE 0
    BY DEF YearLosses
  <2>2. a.success = CampaignSuccess(c.actor, c.scenario, low, in)
        /\ b.success = CampaignSuccess(c.actor, c.scenario, high, in)
    BY DEF BuildCombo
  <2>3. a.success \in 0..Unit /\ b.success \in 0..Unit /\ b.success <= a.success /\ c.u \in Nat
    BY <2>2, SuccessFalls
  <2>4. c.u < a.success => c.scenario \in Elements(OtScenarios)
    <3> SUFFICES ASSUME c.u < a.success PROVE PathValid(c.actor, c.scenario, in.facility)
      BY ValidScenario
    <3>1. a.success # 0
      <4> HIDE DEF c, a
      <4> QED BY <2>3
    <3> HIDE DEF a, c
    <3> QED BY <2>2, <3>1 DEF CampaignSuccess
  <2>5. c.u < b.success => c.u < a.success
    <3> HIDE DEF a, b, c
    <3> QED BY <2>3, BarrierUnit
  <2>6. c.scenario \in Elements(OtScenarios) =>
          LossOf(c, a, in) \in Nat /\ LossOf(c, b, in) \in Nat /\ LossOf(c, b, in) <= LossOf(c, a, in)
    <3> SUFFICES ASSUME c.scenario \in Elements(OtScenarios)
                 PROVE  LossOf(c, a, in) \in Nat /\ LossOf(c, b, in) \in Nat
                        /\ LossOf(c, b, in) <= LossOf(c, a, in)
      OBVIOUS
    <3>1. /\ a.duration \in Nat /\ b.duration \in Nat /\ b.duration <= a.duration
          /\ a.other \in Nat /\ b.other \in Nat /\ b.other <= a.other
      <4> HIDE DEF c
      <4> QED BY ComboFalls
    <3> HIDE DEF a, b, c
    <3> QED BY <3>1, LossFalls
  <2> HIDE DEF a, b, c, f, g
  <2> QED BY <2>1, <2>4, <2>5, <2>6
<1>2. /\ Evaluate(context, high, in).annual[y] = SumOf(f)
      /\ Evaluate(context, low, in).annual[y] = SumOf(g)
  BY YearIsSum
<1>3. DOMAIN f = 1..n /\ DOMAIN g = 1..n /\ f = [k \in 1..n |-> f[k]] /\ g = [k \in 1..n |-> g[k]]
  BY DEF YearLosses
<1> HIDE DEF f, g
<1>4. f \in Seq(Int) /\ g \in Seq(Int) /\ Len(f) = n /\ Len(g) = n
  <2>1. f \in [1..n -> Int] /\ g \in [1..n -> Int]
    BY <1>1, <1>3
  <2> QED BY <2>1
<1>5. \A k \in 1..Len(f) : f[k] <= g[k]
  BY <1>1, <1>4
<1> QED BY <1>2, <1>4, <1>5, SumMonotone

\* What is asked of a control is never a step down, but for the package that
\* puts every control at Developing.
LEMMA OverriddenIsRaised ==
  ASSUME maturity \in Levels, NEW c
  PROVE  Overridden(c) \in Levels /\ NoneLower(maturity, Overridden(c))
<1>1. TopLevel \in Nat \ {0}
  BY OtPack
<1>2. \A l \in 0..TopLevel : NextLevel(l) \in 0..TopLevel /\ l <= NextLevel(l)
  BY <1>1 DEF NextLevel
<1>3. \A d \in Elements(OtControls) : maturity[d] \in 0..TopLevel
  BY DEF Levels
<1>4. \A d \in Elements(OtControls) :
        Overridden(c)[d] = IF d = c THEN NextLevel(maturity[d]) ELSE maturity[d]
  BY DEF Overridden, Levels
<1>5. Overridden(c) = [d \in Elements(OtControls) |-> Overridden(c)[d]]
  BY DEF Overridden, Levels
<1>6. \A d \in Elements(OtControls) :
        Overridden(c)[d] \in 0..TopLevel /\ maturity[d] <= Overridden(c)[d]
  BY <1>1, <1>2, <1>3, <1>4
<1> QED BY <1>5, <1>6 DEF Levels, NoneLower

LEMMA PackageIsRaised ==
  ASSUME maturity \in Levels, NEW name \in {"Priority", "Target", "User-defined"}
  PROVE  PackageLevels(name) \in Levels /\ NoneLower(maturity, PackageLevels(name))
<1>1. TopLevel \in Nat \ {0}
  BY OtPack
<1>2. \A l \in 0..TopLevel : NextLevel(l) \in 0..TopLevel /\ l <= NextLevel(l)
  BY <1>1 DEF NextLevel
<1>3. \A c \in Elements(OtControls) : maturity[c] \in 0..TopLevel
  BY DEF Levels
<1>4. ASSUME NEW c \in Elements(OtControls)
      PROVE  PackageLevels(name)[c] \in 0..TopLevel /\ maturity[c] <= PackageLevels(name)[c]
  <2>1. CASE name = "Priority"
    <3>1. PackageLevels(name)[c] = IF c \in OtPriority THEN NextLevel(maturity[c]) ELSE maturity[c]
      BY <2>1 DEF PackageLevels
    <3> QED BY <1>1, <1>2, <1>3, <3>1
  <2>2. CASE name = "Target"
    <3>1. PackageLevels(name)[c] = TopLevel
      BY <2>2 DEF PackageLevels
    <3> QED BY <1>1, <1>3, <3>1
  <2>3. CASE name = "User-defined"
    <3>1. PackageLevels(name)[c] =
            IF maturity[c] <= TopLevel - 2 THEN TopLevel - 1 ELSE maturity[c]
      BY <2>3 DEF PackageLevels
    <3> QED BY <1>1, <1>3, <3>1
  <2> QED BY <2>1, <2>2, <2>3
<1>5. PackageLevels(name) = [c \in Elements(OtControls) |-> PackageLevels(name)[c]]
  BY DEF PackageLevels
<1> QED BY <1>4, <1>5 DEF Levels, NoneLower

LEMMA PackageNames ==
  \A p \in NextPackage : p.name \in {"Foundation", "Priority", "Target", "User-defined"}
<1> SUFFICES ASSUME NEW p \in NextOf(Packages)
             PROVE  p.name \in {"Foundation", "Priority", "Target", "User-defined"}
  BY DEF NextPackage
<1>1. PICK k \in DOMAIN Packages : p = Packages[k]
  BY NextIsListed
<1> DEFINE names == <<"Foundation", "Priority", "Target", "User-defined">>
<1>2. k \in 1..4 /\ p.name = names[k]
  BY <1>1 DEF Packages
<1> QED BY <1>2

\* The levels are levels, and a row adds no loss.
UpliftInv ==
  /\ otPc \notin {"load", "failed"} => maturity \in Levels
  /\ UpliftAddsNoLoss

\* The campaigns of the skeleton are evaluated in their order.
LEMMA SkeletonShape ==
  ASSUME ctx.draws \in Draws, ctx.campaigns = BuildContext(ctx.draws, loaded)
  PROVE  \E n \in Nat : DOMAIN ctx.campaigns = 1..n /\ \A k \in 1..n : ctx.campaigns[k].u \in Nat
<1> DEFINE draws == ctx.draws
<1>1. draws \in Seq(Elements(draws)) /\ \A k \in DOMAIN draws : draws[k].u \in Nat
  BY OtInputs
<1>2. Len(draws) \in Nat /\ DOMAIN draws = 1..Len(draws)
  BY <1>1
<1>3. DOMAIN ctx.campaigns = DOMAIN draws /\ \A k \in DOMAIN draws : ctx.campaigns[k].u \in Nat
  BY <1>1, DrawnChances DEF BuildContext
<1> HIDE DEF draws
<1> QED BY <1>2, <1>3

LEMMA UpliftInit == OtInit => UpliftInv
BY DEF OtInit, UpliftInv, UpliftAddsNoLoss, Measured

LEMMA UpliftStep == ShockInv /\ PathInv /\ UpliftInv /\ [OtNext]_otVars => UpliftInv'
<1> SUFFICES ASSUME ShockInv, PathInv, UpliftInv, [OtNext]_otVars PROVE UpliftInv'
  OBVIOUS
<1> USE DEF UpliftInv
<1>1. ASSUME NEW sheet \in Sheets, NEW analyses \in OtAnalyses,
             NEW levels \in [Elements(OtControls) -> 0..TopLevel], Load(sheet, levels, analyses)
      PROVE  UpliftInv'
  BY <1>1 DEF Load, ShockInv, UpliftAddsNoLoss, Measured, Levels
<1>2. ASSUME NEW draws \in Draws, Baseline(draws) PROVE UpliftInv'
  BY <1>2 DEF Baseline, ShockInv, UpliftAddsNoLoss, Measured
\* A row of the skeleton, measured on levels that are no lower.
<1>3. ASSUME NEW row, rows' = Append(rows, row), otPc \in {"whatifs", "packages"},
             UNCHANGED <<otPc, maturity, base>>,
             NEW levels \in Levels, NoneLower(maturity, levels),
             row.result \in {base, Evaluate(ctx.campaigns, levels, loaded)}
      PROVE  UpliftInv'
  <2>1. Latest' = row
    BY <1>3, AppendedIsLatest DEF Latest, ShockInv
  <2>2. loaded \in Sheets /\ maturity \in Levels /\ base = Evaluate(ctx.campaigns, maturity, loaded)
        /\ ctx.draws \in Draws /\ ctx.campaigns = BuildContext(ctx.draws, loaded)
    BY <1>3 DEF PathInv
  <2>3. PICK n \in Nat : DOMAIN ctx.campaigns = 1..n /\ \A k \in 1..n : ctx.campaigns[k].u \in Nat
    BY <2>2, SkeletonShape
  <2>4. NoneLower(maturity, maturity)
    <3>1. \A c \in Elements(OtControls) : maturity[c] \in 0..TopLevel
      BY <2>2 DEF Levels
    <3>2. TopLevel \in Nat
      BY OtPack
    <3> QED BY <3>1, <3>2 DEF NoneLower
  <2>5. ASSUME NEW y \in OtYears PROVE row.result.annual[y] <= base.annual[y]
    <3>1. CASE row.result = base
      <4>1. Evaluate(ctx.campaigns, maturity, loaded).annual[y]
              <= Evaluate(ctx.campaigns, maturity, loaded).annual[y]
        BY <2>2, <2>3, <2>4, EvaluateFalls
      <4> QED BY <2>2, <3>1, <4>1
    <3>2. CASE row.result = Evaluate(ctx.campaigns, levels, loaded)
      <4>1. Evaluate(ctx.campaigns, levels, loaded).annual[y]
              <= Evaluate(ctx.campaigns, maturity, loaded).annual[y]
        BY <1>3, <2>2, <2>3, EvaluateFalls
      <4> QED BY <2>2, <3>2, <4>1
    <3> QED BY <1>3, <3>1, <3>2
  <2>6. UpliftAddsNoLoss'
    BY <1>3, <2>1, <2>5 DEF UpliftAddsNoLoss
  <2> QED BY <1>3, <2>6
\* A row that is no uplift.
<1>4. ASSUME NEW row, rows' = Append(rows, row), UNCHANGED <<otPc, maturity>>,
             \/ row.of.kind \notin {"whatif", "package"}
             \/ row.of.kind = "package" /\ row.of.name = "Foundation"
      PROVE  UpliftInv'
  <2>1. Latest' = row
    BY <1>4, AppendedIsLatest DEF Latest, ShockInv
  <2>2. UpliftAddsNoLoss'
    BY <1>4, <2>1 DEF UpliftAddsNoLoss
  <2> QED BY <1>4, <2>2
<1>5. CASE WhatIf
  <2>1. inputs = loaded /\ maturity \in Levels
    BY <1>5 DEF WhatIf, ShockInv, ShocksAreAlone
  <2>2. PICK w, row :
          /\ w \in NextOf(WhatIfs) /\ rows' = Append(rows, row)
          /\ row.result \in {base, Evaluate(ctx.campaigns, Overridden(w.control), loaded)}
    BY <1>5, <2>1 DEF WhatIf, ResultRow
  <2>3. Overridden(w.control) \in Levels /\ NoneLower(maturity, Overridden(w.control))
    BY <2>1, OverriddenIsRaised
  <2> QED BY <1>3, <1>5, <2>2, <2>3 DEF WhatIf
<1>6. CASE SaveWorkbook
  BY <1>6 DEF SaveWorkbook, UpliftAddsNoLoss, Measured, Latest
<1>7. CASE Package
  <2>1. inputs = loaded /\ maturity \in Levels
    BY <1>7 DEF Package, ShockInv, ShocksAreAlone
  <2>2. PICK p \in NextPackage :
          rows' = Append(rows, ResultRow(p, Evaluate(ctx.campaigns, PackageLevels(p.name), loaded)))
    BY <1>7, <2>1 DEF Package
  <2> DEFINE row == ResultRow(p, Evaluate(ctx.campaigns, PackageLevels(p.name), loaded))
  <2>3. /\ row.of = p /\ p.kind = "package" /\ rows' = Append(rows, row)
        /\ row.result = Evaluate(ctx.campaigns, PackageLevels(p.name), loaded)
    BY <2>2, NextKinds DEF ResultRow
  <2> HIDE DEF row
  <2>4. CASE p.name = "Foundation"
    BY <1>4, <1>7, <2>3, <2>4 DEF Package
  <2>5. CASE p.name # "Foundation"
    <3>1. p.name \in {"Priority", "Target", "User-defined"}
      BY <2>5, PackageNames
    <3>2. PackageLevels(p.name) \in Levels /\ NoneLower(maturity, PackageLevels(p.name))
      BY <2>1, <3>1, PackageIsRaised
    <3> QED BY <1>3, <1>7, <2>3, <3>2 DEF Package
  <2> QED BY <2>4, <2>5
<1>8. CASE StartShocks
  BY <1>8 DEF StartShocks, UpliftAddsNoLoss, Measured, Latest
<1>9. CASE ApplyShock
  <2>1. PICK s \in NextShock : UNCHANGED rows \/ rows' = Append(rows, ResultRow(s, OtNone))
    BY <1>9 DEF ApplyShock
  <2>2. s.kind \notin {"whatif", "package"}
    BY <2>1, NextKinds, ShockKinds
  <2>3. CASE UNCHANGED rows
    BY <1>9, <2>3 DEF ApplyShock, UpliftAddsNoLoss, Measured, Latest
  <2>4. CASE rows' = Append(rows, ResultRow(s, OtNone))
    <3>1. ResultRow(s, OtNone).of = s
      BY DEF ResultRow
    <3> QED BY <1>4, <1>9, <2>2, <2>4, <3>1 DEF ApplyShock
  <2> QED BY <2>1, <2>3, <2>4
<1>10. CASE MeasureShock
  <2>1. shock.of.kind \notin {"whatif", "package"}
    BY <1>10, ShockKinds DEF MeasureShock, ShockInv
  <2>2. PICK row : rows' = Append(rows, row) /\ row.of = shock.of
    BY <1>10 DEF MeasureShock, ResultRow
  <2> QED BY <1>4, <1>10, <2>1, <2>2 DEF MeasureShock
<1>11. CASE ReturnResult
  BY <1>11 DEF ReturnResult, UpliftAddsNoLoss, Measured, Latest
<1>12. CASE UNCHANGED otVars
  BY <1>12 DEF otVars, UpliftAddsNoLoss, Measured, Latest
<1> QED BY <1>1, <1>2, <1>5, <1>6, <1>7, <1>8, <1>9, <1>10, <1>11, <1>12 DEF OtNext

\* Raising controls never adds a loss to a simulated year, whatever the pack,
\* the workbook and the skeleton (engine.py:1431-1600): barriers, what they
\* leave open, the chance of a campaign and its cost are each monotone.
THEOREM UpliftsAddNoLoss == OtSpec => []UpliftAddsNoLoss
<1>1. UpliftInv => UpliftAddsNoLoss
  BY DEF UpliftInv
<1> QED BY <1>1, ShockInit, ShockStep, PathInit, PathStep, UpliftInit, UpliftStep, PTL DEF OtSpec

=============================================================================
