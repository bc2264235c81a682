------------------------------ MODULE ItEngine ------------------------------
(***************************************************************************)
(* The IT engine's refresh: the workbook prepared for the sector pack,     *)
(* cells of actor, scenario and route with their event rates, the          *)
(* simulation over one stream of random numbers, and its re-simulations:   *)
(* what-ifs, control packages and sensitivities.                           *)
(*                                                                         *)
(* The stream is consumed cell by cell: an item per year for the counts,   *)
(* then items for the events of the cell.  A higher item means more events *)
(* or a heavier loss.                                                      *)
(***************************************************************************)
EXTENDS Barriers, TailMetrics, FiniteSets

CONSTANTS
  ItPack,       \* the sector pack
  ItBooks,      \* workbooks a user may hand in
  ItYears,      \* simulated years, 1..n
  Stream,       \* the random numbers of the seed, 0..Unit-1, read cyclically
  Rho,          \* LOSS_BLOCK_RHO
  TailPoint,    \* a latent from here on is a P99 loss
  LevelShare,   \* MATURITY, in the order of MATURITY_ORDER
  Developing,   \* its index there
  Prudence,     \* PRUDENCE_FREQUENCY_FACTOR, of Unit
  MaxPriority   \* controls of the Priority package

VARIABLES
  itPc,       \* where refresh is
  itBook,       \* the workbook's inputs
  itFlags,    \* the optional analyses asked for
  itViews,    \* the baseline: cells and both simulations
  itRows,     \* what was re-simulated, in order
  itSaved,    \* what the output workbook holds
  itResult    \* what refresh returned

itVars == <<itPc, itBook, itFlags, itViews, itRows, itSaved, itResult>>

Blocks == {"Duration", "Exposure", "Direct"}
ItNothing == [none |-> TRUE]
Top == Len(LevelShare)
ItActors == Elements(ItPack.actors)
ItScenarios == Elements(ItPack.scenarios)
ItRoutes == Elements(ItPack.routes)
ItControls == Elements(ItPack.controls)
IsTable(s) == s \in Seq(Elements(s))

\* The tuning constants and the stream.
ASSUME ItSettings ==
  /\ IsFiniteSet(ItYears) /\ ItYears # {} /\ ItYears = 1..Cardinality(ItYears)
  /\ IsTable(Stream) /\ Stream # << >> /\ \A i \in DOMAIN Stream : Stream[i] \in 0..Unit - 1
  /\ IsTable(LevelShare) /\ Developing \in 1..Top - 1
  /\ \A i, j \in 1..Top : LevelShare[i] \in 0..Unit /\ (i <= j => LevelShare[i] <= LevelShare[j])
  /\ Prudence \in Nat

\* The pack: what it lists is known and shares are not negative; an amount is P50
\* and P99. That floors and ceilings are in order and a technique's weight is
\* positive, and in Barriers that the increment is a share, is what the governed
\* packs hold: _load_pack reads them without that check (engine.py:233, 246).
ASSUME ItPackTables ==
  /\ \A list \in {ItPack.actors, ItPack.scenarios, ItPack.routes, ItPack.controls} : IsTable(list)
  /\ IsFiniteSet(ItPack.techniques) /\ \A t \in ItPack.techniques : t.weight \in Nat \ {0}
  /\ IsFiniteSet(ItPack.maps) /\ \A m \in ItPack.maps : m.efficacy \in Nat /\ m.cid \in ItControls
  /\ ItPack.reference \in [ItControls -> [level : 0..Top, coverage : 0..Unit]]
  /\ ItPack.floor \in 0..ItPack.ceiling /\ ItPack.ceiling \in Nat
  /\ \A k \in Blocks : ItPack.floors[k] \in 0..ItPack.ceiling
  /\ \A k \in DOMAIN ItPack.mask :
       /\ IsFiniteSet(ItPack.mask[k])
       /\ \A st \in ItPack.mask[k], r \in ItRoutes : ItPack.priors[r][st] \in Nat
  /\ ItPack.rate \in Nat
  /\ \A a \in ItActors :
       /\ ItPack.weight[a] \in Nat
       /\ \A s \in ItScenarios : ItPack.actorScenario[a][s] \in Nat
       /\ \A r \in ItRoutes : ItPack.actorRoute[a][r] \in Nat
  /\ \A s \in ItScenarios, r \in ItRoutes : ItPack.scenarioRoute[s][r] \in Nat
  /\ IsFiniteSet(DOMAIN ItPack.drivers)
  /\ \A d \in DOMAIN ItPack.drivers :
       LET driver == ItPack.drivers[d]
       IN /\ driver.block \in Blocks /\ IsTable(driver.formula)
          /\ \A f \in Elements(driver.formula), s \in driver.scenarios, q \in {1, 2} :
               /\ f.of \in {"org", "rate", "param", "unrecovered"}
               /\ f.of = "rate" => ItPack.amounts[<<"RATE", f.key>>][q] \in Int
               /\ f.of \in {"param", "unrecovered"} => ItPack.amounts[<<s, f.key>>][q] \in Int

\* A workbook's cells hold numbers; whether they are refused is Accepted's say.
BookFields == {"useExposure", "view", "org", "overrides", "exposure", "controls"}
ASSUME ItWorkbooks ==
  \A b \in ItBooks :
    /\ DOMAIN b = BookFields /\ b.useExposure \in BOOLEAN
    /\ \A r \in DOMAIN b.exposure :
         LET e == b.exposure[r] IN e.opportunity \in Int /\ e.stage \in Int /\ e.impact \in Int
    /\ \A c \in DOMAIN b.controls : b.controls[c] \in [level : Int, coverage : Int]
    /\ \A key \in DOMAIN b.overrides, q \in {1, 2} : b.overrides[key][q] \in Int
    /\ \A d \in DOMAIN ItPack.drivers : \A f \in Elements(ItPack.drivers[d].formula) :
         f.of = "org" => b.org[f.key] \in Int

Weighted(ts, value) ==
  SumOver([t \in ts |-> t.weight * value[t]]) \div SumOver([t \in ts |-> t.weight])

-----------------------------------------------------------------------------
(* The workbook.                                                           *)

\* Rows are rebuilt in the pack's order: an answer of the user is kept for an
\* id the pack has, other ids get the pack's defaults.
ItPrepared(b) ==
  [b EXCEPT
     !.exposure = [r \in ItRoutes |->
        IF r \in DOMAIN b.exposure THEN b.exposure[r]
        ELSE [applicable |-> TRUE, feasible |-> TRUE, opportunity |-> Unit,
              stage |-> Unit, impact |-> Unit]],
     !.controls = [c \in ItControls |->
        IF c \in DOMAIN b.controls THEN b.controls[c]
        ELSE [level |-> ItPack.reference[c].level, coverage |-> ItPack.reference[c].coverage]]]

\* P50 and P99 of a rate or parameter, an override first.
UsedAmount(b, key, q) ==
  IF key \in DOMAIN b.overrides THEN b.overrides[key][q] ELSE ItPack.amounts[key][q]

\* A driver's amount is the product its formula names.
Amount(b, d, s, q) ==
  LET value(f) == CASE f.of = "org" -> b.org[f.key]
                    [] f.of = "rate" -> UsedAmount(b, <<"RATE", f.key>>, q)
                    [] f.of = "param" -> UsedAmount(b, <<s, f.key>>, q)
                    [] f.of = "unrecovered" -> Unit - UsedAmount(b, <<s, f.key>>, q)
      formula == ItPack.drivers[d].formula
      product == ProductOf([i \in DOMAIN formula |-> value(formula[i])])
  IN IF product < 0 THEN 0 ELSE product

\* Drivers that apply to the actor and the scenario, P99 at least P50.
Severity(b, a, s) ==
  LET applies(d) == a \in ItPack.drivers[d].actors /\ s \in ItPack.drivers[d].scenarios
      low(d) == Amount(b, d, s, 1)
      high(d) == Amount(b, d, s, 2)
  IN [d \in {e \in DOMAIN ItPack.drivers : applies(e) /\ (low(e) > 0 \/ high(e) > 0)} |->
        <<low(d), Max({low(d), high(d)})>>]

-----------------------------------------------------------------------------
(* Attack paths.                                                           *)

\* Not Assessed, level 0, counts as Developing.
Effective(level) == IF level = 0 THEN Developing ELSE level

Effectiveness(efficacy, setting) ==
  Times(Times(efficacy, LevelShare[Effective(setting.level)]), setting.coverage)

\* Barrier of the mapped controls on a technique, with its cap on each value.
Barrier(t, effects, settings) ==
  LET maps == SetToSeq({m \in ItPack.maps : m.tid = t.id /\ m.effect \in effects})
  IN CombineEffects([i \in DOMAIN maps |->
       ClipTo(Effectiveness(maps[i].efficacy, settings[maps[i].cid]), 0, BarrierCap)])

Prevention == {"PREVENT_SUCCESS", "CONTAIN_SUCCESS"}

RatioOf(open, ref, lo, hi) == ClipTo((open * Unit) \div Max({ref, 1}), lo, hi)

RequiredStages(mask, a, s, r) ==
  IF <<a, s, r>> \in DOMAIN mask THEN mask[a, s, r]
  ELSE IF <<"ALL", s, r>> \in DOMAIN mask THEN mask["ALL", s, r] ELSE {}

Relevant(a, s, r) ==
  {t \in ItPack.techniques : r \in t.routes /\ a \in t.actors /\ s \in t.scenarios}

\* The factor of an effect over the techniques some control has it on.
Factor(ts, effect, floor, settings) ==
  LET mapped == {t \in ts : \E m \in ItPack.maps : m.tid = t.id /\ m.effect = effect}
  IN IF mapped = {} THEN Unit
     ELSE Weighted(mapped, [t \in mapped |-> RatioOf(Unit - Barrier(t, {effect}, settings),
                                                Unit - Barrier(t, {effect}, ItPack.reference),
                                                floor, ItPack.ceiling)])

ItThrough(b, r, st, ts, settings) ==
  LET open(x) == Unit - Weighted(ts, [t \in ts |-> Barrier(t, Prevention, x)])
      ratio == RatioOf(open(settings), open(ItPack.reference), ItPack.floor, ItPack.ceiling)
      exposure == IF b.useExposure THEN b.exposure[r].stage ELSE Unit
  IN ClipTo(Times(Times(ItPack.priors[r][st], ratio), exposure), 0, Unit)

\* The effect of controls that lowers each block's losses.
EffectOn == [Duration |-> "REDUCE_DURATION", Exposure |-> "REDUCE_EXPOSURE",
             Direct |-> "REDUCE_CONSEQUENCE"]

\* A path is valid when its route is feasible, some stage is required and
\* every required stage has a relevant technique.
Path(b, a, s, r, settings) ==
  LET stages == RequiredStages(ItPack.mask, a, s, r)
      inOrder == SetToSeq(stages)
      at(st) == {t \in Relevant(a, s, r) : t.stage = st}
      reached == {t \in Relevant(a, s, r) : t.stage \in stages}
      e == b.exposure[r]
      known == {<<a, s, r>>, <<"ALL", s, r>>} \cap DOMAIN ItPack.mask # {}
      feasible == known /\ e.applicable /\ (b.useExposure => e.feasible)
      valid == feasible /\ stages # {} /\ \A st \in stages : at(st) # {}
      impact == IF known /\ b.useExposure THEN e.impact ELSE Unit
  IN [valid |-> valid, impact |-> impact,
      success |-> IF ~valid THEN 0
                  ELSE Product([i \in DOMAIN inOrder |->
                                  ItThrough(b, r, inOrder[i], at(inOrder[i]), settings)]),
      opportunity |-> IF ~feasible THEN 0 ELSE IF b.useExposure THEN e.opportunity ELSE Unit,
      factor |-> [k \in Blocks |->
        Times(Factor(reached, EffectOn[k], ItPack.floors[k], settings), impact)]]

-----------------------------------------------------------------------------
(* Cells.                                                                  *)

\* Attempts of an actor against a scenario, over the sector's base rate.
Attempts(a, s) == ItPack.rate * ItPack.weight[a] * ItPack.actorScenario[a][s]

\* Mutant: invalid routes keep their share of the attempts.
Propensity(path, a, s, r) == ItPack.actorRoute[a][r] * ItPack.scenarioRoute[s][r]

\* Only valid routes draw attempts, in proportion.
OpenPropensity(path, a, s, r) ==
  IF path[r].valid THEN ItPack.actorRoute[a][r] * ItPack.scenarioRoute[s][r] ELSE 0

RouteCell(a, s, r, path, attempt, severity) ==
  [actor |-> a, scenario |-> s, route |-> r, attempt |-> attempt, path |-> path,
   rate |-> Times(attempt, path.success),
   drivers |-> [d \in DOMAIN severity |->
                  [q \in 1..2 |-> Times(severity[d][q], path.factor[ItPack.drivers[d].block])]]]

\* The attempts are shared over the routes; none without a valid route.
CellsOver(a, s, path, raw, all, severity) ==
  IF all = 0 THEN << >>
  ELSE [i \in DOMAIN ItPack.routes |->
          LET r == ItPack.routes[i]
          IN RouteCell(a, s, r, path[r],
               Times((Attempts(a, s) * raw[r]) \div all, path[r].opportunity), severity)]

CellsOn(a, s, path, raw, severity) ==
  CellsOver(a, s, path, raw, SumOf([i \in DOMAIN ItPack.routes |-> raw[ItPack.routes[i]]]), severity)

\* One cell for each actor, scenario and route.
CellsAlong(a, s, path, severity) ==
  CellsOn(a, s, path, [r \in ItRoutes |-> OpenPropensity(path, a, s, r)], severity)

CellsOf(b, settings, a, s) ==
  CellsAlong(a, s, [r \in ItRoutes |-> Path(b, a, s, r, settings)], Severity(b, a, s))

Cells(b, settings) ==
  LET of(a) == [j \in DOMAIN ItPack.scenarios |-> CellsOf(b, settings, a, ItPack.scenarios[j])]
  IN Concat([i \in DOMAIN ItPack.actors |-> Concat(of(ItPack.actors[i]))])

-----------------------------------------------------------------------------
(* The simulation.                                                         *)

NoLoss == [y \in ItYears |-> 0]
Plus(x, y) == [k \in ItYears |-> x[k] + y[k]]

\* Mutant: a later cell's contribution replaces the earlier ones.
Overwrite(table, key, years) == [table EXCEPT ![key] = years]

AddTo(table, key, years) == [table EXCEPT ![key] = Plus(@, years)]

CellOf(i) == Stream[1 + (i % Len(Stream))]

SimStart ==
  [pos |-> 0, annual |-> NoLoss, largest |-> NoLoss,
   actor |-> [a \in ItActors |-> NoLoss],
   scenario |-> [s \in ItScenarios |-> NoLoss],
   block |-> [k \in Blocks |-> NoLoss],
   driver |-> [d \in DOMAIN ItPack.drivers |-> NoLoss]]

\* The settings of a simulation: factors of the rate, of each actor's rate and
\* of each block's losses, in percent.
Neutral == [rate |-> 100, actor |-> [a \in ItActors |-> 100], block |-> [k \in Blocks |-> 100]]

CountIn(cell, shock, pos, y) ==
  LET rate == (cell.rate * shock.rate * shock.actor[cell.actor]) \div 10000
  IN (rate + CellOf(pos + y)) \div Unit

\* The losses of one driver, of all drivers, are added up by year.
AddDriver(sim, d, years) ==
  [sim EXCEPT !.driver = AddTo(@, d, years), !.block = AddTo(@, ItPack.drivers[d].block, years)]

\* What the events of each year lose together.
Happened(yearOf, y) == {i \in DOMAIN yearOf : yearOf[i] = y}
ByYear(yearOf, losses) == [y \in ItYears |-> SumOver([i \in Happened(yearOf, y) |-> losses[i]])]

AddDrivers(acc, yearOf, loss) ==
  FoldLeft(LAMBDA sim, d : AddDriver(sim, d, ByYear(yearOf, loss[d])), acc, SetToSeq(DOMAIN loss))

AddEvents(acc, cell, yearOf, loss) ==
  LET event == [i \in DOMAIN yearOf |-> SumOver([d \in DOMAIN loss |-> loss[d][i]])]
      years == ByYear(yearOf, event)
  IN AddDrivers([acc EXCEPT
                   !.annual = Plus(@, years),
                   !.actor = AddTo(@, cell.actor, years),
                   !.scenario = AddTo(@, cell.scenario, years),
                   !.largest = [y \in ItYears |->
                                  Max({@[y]} \cup {event[i] : i \in Happened(yearOf, y)})]],
                yearOf, loss)

\* Events of a cell: one latent of its own per block and a common one, every
\* driver of a block at the same point of its distribution.
EventLosses(cell, shock, first, total) ==
  LET own == [Duration |-> 1, Exposure |-> 2, Direct |-> 3]
      latent(i, k) == Rho * CellOf(first + i) + (Unit - Rho) * CellOf(first + own[k] * total + i)
      loss(i, d, k) ==
        cell.drivers[d][IF latent(i, k) >= TailPoint * Unit THEN 2 ELSE 1] * shock.block[k]
  IN [d \in DOMAIN cell.drivers |-> [i \in 1..total |-> loss(i, d, ItPack.drivers[d].block)]]

AddCell(acc, cell, shock) ==
  LET yearOf == Concat([y \in ItYears |-> [i \in 1..CountIn(cell, shock, acc.pos, y) |-> y]])
      drawn(first, happened) ==
        [AddEvents(acc, cell, happened, EventLosses(cell, shock, first, Len(happened)))
           EXCEPT !.pos = first + 4 * Len(happened)]
  IN drawn(acc.pos + Cardinality(ItYears), yearOf)

Simulate(cells, shock) ==
  FoldLeft(LAMBDA acc, cell : AddCell(acc, cell, shock), SimStart, cells)

AalOf(sim) == SumOf(sim.annual)

-----------------------------------------------------------------------------
(* Refresh.                                                                *)

WithPrudence == [Neutral EXCEPT !.rate = (100 * Prudence) \div Unit]

Primary == IF itBook.view = "Best Estimate" THEN "best" ELSE "prudent"

Both(cells) ==
  [cells |-> cells, best |-> Simulate(cells, Neutral), prudent |-> Simulate(cells, WithPrudence)]

Reported == IF Primary = "best" THEN Neutral ELSE WithPrudence
OneView(cells) ==
  [v \in {"cells", Primary} |-> IF v = "cells" THEN cells ELSE Simulate(cells, Reported)]

\* Mutant: a control that is not assessed is raised to Absent.
RaisedFromNone(level) == IF level < Top THEN level + 1 ELSE Top

Raised(level) == IF Effective(level) < Top THEN Effective(level) + 1 ELSE Top
AtLevels(levels) ==
  [c \in ItControls |->
     IF c \in DOMAIN levels THEN [itBook.controls[c] EXCEPT !.level = levels[c]] ELSE itBook.controls[c]]

ItMapped(c) == \E m \in ItPack.maps : m.cid = c
Reduction(row) == AalOf(itViews[Primary]) - AalOf(row.sims[Primary])

ItPackages == <<"Foundation", "Priority", "Target", "User-defined">>

\* Rows by what they gain, the most first.
ByGain(rows, gain) == [k \in DOMAIN rows |-> rows[Ranking([i \in DOMAIN rows |-> -gain[i]])[k]]]

\* What-ifs are ranked before the packages are built.
ByReduction(rows) == ByGain(rows, [i \in DOMAIN rows |-> Reduction(rows[i])])

\* The first of the ranked controls that can be raised.
Priority ==
  LET useful == SelectSeq(itRows, LAMBDA x : /\ x.of.kind = "whatif" /\ ItMapped(x.of.id)
                                             /\ Raised(itBook.controls[x.of.id].level)
                                                  # itBook.controls[x.of.id].level)
  IN {useful[i].of.id : i \in 1..Min({Len(useful), MaxPriority})}

PackageOverrides(name) ==
  LET current(c) == Effective(itBook.controls[c].level)
  IN CASE name = "Foundation" -> [c \in ItControls |-> Developing]
       [] name = "Target" -> [c \in ItControls |-> Top]
       [] name = "Priority" ->
            [c \in Priority |-> Raised(itBook.controls[c].level)]
       [] OTHER -> [c \in ItControls |->
                      IF current(c) <= Developing THEN Developing + 1 ELSE current(c)]

\* Attempts and expected events of some of the cells.
AttemptsIn(cells, mine) == SumOf([i \in DOMAIN cells |-> IF i \in mine THEN cells[i].attempt ELSE 0])
EventsIn(cells, mine) == SumOf([i \in DOMAIN cells |-> IF i \in mine THEN cells[i].rate ELSE 0])
Attempted(cells) == AttemptsIn(cells, DOMAIN cells)

\* The attempts of all actors against all scenarios.
BaseAttempts ==
  LET against(a) == [j \in DOMAIN ItPack.scenarios |-> Attempts(a, ItPack.scenarios[j])]
  IN SumOf([i \in DOMAIN ItPack.actors |-> SumOf(against(ItPack.actors[i]))])

\* Shares are rounded down, so each cell may be short of less than one attempt.
Preserves(cells) == Attempted(cells) \in BaseAttempts - Len(cells)..BaseAttempts

\* The lead actor's weight grows by a fifth and all are normalised again; an
\* actor without attempts stays as it is.
ActorMix(cells) ==
  LET w(a) == AttemptsIn(cells, {i \in DOMAIN cells : cells[i].actor = a})
      lead == ItPack.actors[1]
      all == Attempted(cells)
  IN [a \in ItActors |->
        IF w(a) = 0 THEN 100
        ELSE ((IF a = lead THEN 120 ELSE 100) * 10 * all) \div (10 * all + 2 * w(lead))]

\* A setting on top of the reported view's factor.
InView(factors) == [factors EXCEPT !.rate = (@ * Reported.rate) \div 100]

\* Mutant: the shock of a block changes how often events happen.
ShockTheRate(k, f) == [of |-> [kind |-> "block", block |-> k, factor |-> f],
                       shock |-> [Neutral EXCEPT !.rate = f]]

BlockShock(k, f) == [of |-> [kind |-> "block", block |-> k, factor |-> f],
                     shock |-> [Neutral EXCEPT !.block[k] = f]]

Sensitivities ==
  <<[of |-> [kind |-> "rate", factor |-> 120], shock |-> [Neutral EXCEPT !.rate = 120]],
    [of |-> [kind |-> "rate", factor |-> 80], shock |-> [Neutral EXCEPT !.rate = 80]],
    BlockShock("Duration", 120), BlockShock("Duration", 80),
    BlockShock("Direct", 120), BlockShock("Direct", 80),
    BlockShock("Exposure", 120), BlockShock("Exposure", 80)>>
    \o IF Len(ItPack.actors) < 2 \/ Attempted(itViews.cells) = 0 THEN << >>
       ELSE <<[of |-> [kind |-> "mix", factor |-> 120],
               shock |-> [Neutral EXCEPT !.actor = ActorMix(itViews.cells)]]>>

ItInit ==
  /\ itPc = "load" /\ itBook = ItNothing /\ itFlags = ItNothing
  /\ itViews = ItNothing /\ itRows = << >> /\ itSaved = ItNothing
  /\ itResult = ItNothing

\* The answers the engine refuses.
Accepted(b) ==
  /\ b.view \in {"Best Estimate", "Prudent", "Both"}
  /\ \A c \in ItControls : b.controls[c].level \in 0..Top /\ b.controls[c].coverage \in 0..Unit
  /\ \A r \in ItRoutes :
       LET e == b.exposure[r] IN e.opportunity >= 0 /\ e.stage >= 0 /\ e.impact >= 0
  /\ \A key \in DOMAIN b.overrides, q \in {1, 2} : b.overrides[key][q] >= 0

Prepare(b, flags) ==
  /\ itPc = "load"
  /\ itBook' = ItPrepared(b) /\ itFlags' = flags
  /\ itPc' = IF Accepted(itBook') THEN "views" ELSE "failed"
  /\ UNCHANGED <<itViews, itRows, itSaved, itResult>>

Views ==
  /\ itPc = "views"
  /\ itViews' = Both(Cells(itBook, itBook.controls))
  /\ itPc' = "whatifs"
  /\ UNCHANGED <<itBook, itFlags, itRows, itSaved, itResult>>

\* The items of a list that follow a number of rows.
Coming(list, done) == IF Len(itRows) - done < Len(list) THEN {list[Len(itRows) - done + 1]} ELSE {}

\* A control that is not mapped or at the top keeps the baseline.
ItWhatIf ==
  /\ itPc = "whatifs"
  /\ \E c \in Coming(ItPack.controls, 0) :
       LET raised == Raised(itBook.controls[c].level)
           same == \/ ~itFlags.whatifs \/ ~ItMapped(c)
                   \/ raised = Effective(itBook.controls[c].level)
       IN itRows' = Append(itRows, [of |-> [kind |-> "whatif", id |-> c],
                    sims |-> IF same THEN itViews ELSE Both(Cells(itBook, AtLevels([x \in {c} |-> raised])))])
  /\ UNCHANGED <<itPc, itBook, itFlags, itViews, itSaved, itResult>>

Rank ==
  /\ itPc = "whatifs" /\ Coming(ItPack.controls, 0) = {}
  /\ itRows' = ByReduction(itRows)
  /\ itPc' = IF itFlags.packages THEN "packages" ELSE "save"
  /\ UNCHANGED <<itBook, itFlags, itViews, itSaved, itResult>>

\* A package without overrides is left out; only the reported view is run.
ItPackage ==
  /\ itPc = "packages"
  /\ LET done == {x.of.id : x \in {y \in Elements(itRows) : y.of.kind = "package"}}
         left == {i \in DOMAIN ItPackages : /\ ItPackages[i] \notin done
                                            /\ DOMAIN PackageOverrides(ItPackages[i]) # {}}
         next == ItPackages[Min(left)]
     IN IF left = {} THEN itPc' = "save" /\ UNCHANGED itRows
        ELSE /\ itRows' = Append(itRows, [of |-> [kind |-> "package", id |-> next],
                            sims |-> OneView(Cells(itBook, AtLevels(PackageOverrides(next))))])
             /\ UNCHANGED itPc
  /\ UNCHANGED <<itBook, itFlags, itViews, itSaved, itResult>>

\* The checks of the run that its inputs can make fail: their names go into
\* the workbook, whose validation is PASS without one.
Fails ==
  LET cells == Elements(itViews.cells)
      after == {p \in ItActors \X ItScenarios : ItPack.actorScenario[p[1]][p[2]] > 0}
      neutral == itBook.useExposure \/ \A c \in cells : c.path.opportunity = Unit /\ c.path.impact = Unit
      kept == itBook.useExposure \/ Preserves(itViews.cells)
      covered == \A p \in after : \E c \in cells : <<c.actor, c.scenario>> = p /\ c.path.valid
      lowered == \A x \in Elements(itRows) : x.of.kind = "whatif" => Reduction(x) >= 0
  IN (IF neutral THEN {} ELSE {"Exposure switch neutralisation"})
     \cup (IF kept THEN {} ELSE {"Baseline attempt frequency preserved"})
     \cup (IF covered THEN {} ELSE {"Positive actor-scenario cells have valid paths"})
     \cup (IF lowered THEN {} ELSE {"Control what-ifs non-increasing"})

\* The workbook is saved before the sensitivities are simulated.
ItSave ==
  /\ itPc = "save"
  /\ itSaved' = [views |-> itViews, rows |-> itRows, fails |-> Fails]
  /\ itPc' = IF itFlags.sensitivity THEN "sensitivities" ELSE "report"
  /\ UNCHANGED <<itBook, itFlags, itViews, itRows, itResult>>

Sensitivity ==
  /\ itPc = "sensitivities"
  /\ LET todo == Coming(Sensitivities, Len(itSaved.rows))
     IN IF todo = {} THEN itPc' = "report" /\ UNCHANGED itRows
        ELSE /\ \E x \in todo :
                  itRows' = Append(itRows,
                    [of |-> x.of,
                     sims |-> [v \in {Primary} |-> Simulate(itViews.cells, InView(x.shock))]])
             /\ UNCHANGED itPc
  /\ UNCHANGED <<itBook, itFlags, itViews, itSaved, itResult>>

\* A row of the analyses by scenario and by actor.
AnalysisRow(cells, mine, losses, order) ==
  [attempts |-> AttemptsIn(cells, mine), events |-> EventsIn(cells, mine), aal |-> SumOf(losses),
   tail |-> [q \in {95, 99} |-> TailContribution(losses, order, q)]]

\* The result is read off the reported view; frequencies are the cells', in
\* percent of the view's factor.  Sensitivities are ranked by what they move.
ItReturn ==
  /\ itPc = "report"
  /\ LET sim == itViews[Primary]
         cells == itViews.cells
         order == Order(sim.annual)
         moved(x) == LET d == AalOf(x.sims[Primary]) - AalOf(sim) IN Max({d, -d})
         sens == SubSeq(itRows, Len(itSaved.rows) + 1, Len(itRows))
     IN itResult' =
          [aal |-> AalOf(sim), tail |-> [q \in {95, 99} |-> ExpectedShortfall(sim.annual, q)],
           attempts |-> Attempted(cells), events |-> EventsIn(cells, DOMAIN cells),
           scenarios |-> [s \in ItScenarios |->
             AnalysisRow(cells, {i \in DOMAIN cells : cells[i].scenario = s}, sim.scenario[s], order)],
           actors |-> [a \in ItActors |->
             AnalysisRow(cells, {i \in DOMAIN cells : cells[i].actor = a}, sim.actor[a], order)],
           fails |-> itSaved.fails, rows |-> itSaved.rows,
           sensitivities |-> ByGain(sens, [i \in DOMAIN sens |-> moved(sens[i])])]
  /\ itPc' = "returned"
  /\ UNCHANGED <<itBook, itFlags, itViews, itRows, itSaved>>

ItNext ==
  \/ \E b \in ItBooks, flags \in [whatifs : BOOLEAN, packages : BOOLEAN, sensitivity : BOOLEAN] :
       Prepare(b, flags)
  \/ Views \/ ItWhatIf \/ Rank \/ ItPackage \/ ItSave \/ Sensitivity \/ ItReturn

ItSpec == ItInit /\ [][ItNext]_itVars

-----------------------------------------------------------------------------
(* Properties.                                                             *)

Simulated == itRows # << >> /\ itPc # "failed"
LastRow == itRows[Len(itRows)]
SimsOf(sims) == {sims[v] : v \in DOMAIN sims \ {"cells"}}

\* A shock of one block leaves every event where it was: the other blocks lose
\* the same in every year and the block exactly its factor more or less
\* (engine.py:473-530, "CRN-compatible block_scale shocks").
BlockShocksAreExact ==
  Simulated /\ LastRow.of.kind = "block" =>
    \A k \in Blocks, y \in ItYears :
      100 * LastRow.sims[Primary].block[k][y]
        = itViews[Primary].block[k][y] * (IF k = LastRow.of.block THEN LastRow.of.factor ELSE 100)

\* In every simulated year the loss is the same whether it is summed over
\* actors, scenarios, blocks or drivers, no event exceeds its year and a year
\* without an event loses nothing; the scenarios and the actors of the result
\* share all of its attempts, events, average and tail (engine.py:491-530,
\* 762-809, the row "Actor/scenario AAL reconcile").
LossesDecompose ==
  /\ itPc = "returned" =>
       \A table \in {itResult.scenarios, itResult.actors} :
         /\ \A field \in {"attempts", "events", "aal"} :
              SumOver([k \in DOMAIN table |-> table[k][field]]) = itResult[field]
         /\ \A q \in {95, 99} :
              SumOver([k \in DOMAIN table |-> table[k].tail[q]]) = itResult.tail[q][1]
  /\ itViews # ItNothing =>
       \A sim \in SimsOf(IF itRows = << >> THEN itViews ELSE LastRow.sims), y \in ItYears :
         /\ \A table \in {sim.actor, sim.scenario, sim.block, sim.driver} :
              SumOver([k \in DOMAIN table |-> table[k][y]]) = sim.annual[y]
         /\ sim.largest[y] <= sim.annual[y]
         /\ sim.largest[y] = 0 <=> sim.annual[y] = 0

\* One more level of a control, or the packages that lower none, raise no
\* cell's event rate and no amount, and move no attempts (engine.py:342-387,
\* 436-470; docs/release_notes/PRODUCTION_READINESS_REPORT.md:123).
UpliftLowersRates ==
  Simulated /\ LastRow.of.kind \in {"whatif", "package"} /\ LastRow.of.id # "Foundation" =>
    \A i \in DOMAIN itViews.cells :
      LET old == itViews.cells[i]
          new == LastRow.sims.cells[i]
      IN /\ new.attempt = old.attempt /\ new.rate <= old.rate
         /\ \A d \in DOMAIN old.drivers, q \in {1, 2} : new.drivers[d][q] <= old.drivers[d][q]

\* With the exposure model off every attempt of the sector's base rate reaches
\* some cell, but for what rounding takes from a cell's share, as long as each
\* actor has a valid path for what it is after (engine.py:659, the row "Baseline
\* attempt frequency preserved").
AttemptsAreKept ==
  itViews # ItNothing /\ ~itBook.useExposure =>
    LET after == {p \in ItActors \X ItScenarios : Attempts(p[1], p[2]) > 0}
        open == {<<c.actor, c.scenario>> : c \in Elements(itViews.cells)}
    IN after \subseteq open => Preserves(itViews.cells)
=============================================================================
