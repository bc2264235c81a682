------------------------------ MODULE OtEngine ------------------------------
(***************************************************************************)
(* The OT engine's refresh: attack paths gated by the facility, one        *)
(* skeleton of campaigns per reporting basis, and every re-evaluation of   *)
(* it: what-ifs, control packages and shocks, which change the inputs the  *)
(* evaluation closes over and put them back.                               *)
(*                                                                         *)
(* Probabilities and factors are fixed-point numbers of Unit; rounding     *)
(* down is monotone as the rounding of the code's doubles is.  A campaign  *)
(* carries its random draws, which the seed fixes.                         *)
(***************************************************************************)
EXTENDS Barriers, FiniteSets, SequencesExt

CONSTANTS
  OtActors, OtScenarios,   \* sequences, in the code's order
  Insider,                 \* the actor that is inside: no S1
  SafetyScenario,          \* infeasible without a safety system
  OtStages,                \* sequence of stages, the last one is S5
  Techniques,              \* [id, scenario, stage, defining, gate, actors]
  Mappings,                \* [tid, cid, channel, efficacy]
  OtControls,              \* sequence of control ids
  TopLevel, BaselineLevel, \* maturities are 0..TopLevel, the top is Optimised; a
                           \* control that is not assessed has the baseline's
  MaturityShare,           \* level -> what it keeps of an efficacy, of Unit
  Coverage,                \* control -> share of the estate, of Unit
  DefaultCoverage,
  Overlay,                 \* technique -> factor of its prevent barrier, of Unit
  AdjFloor, AdjCeiling,
  DurFloor, ConseqFloor, ConseqCeiling,
  Architecture,            \* facility flags of the routes, in the order tried
  PriorityCount,           \* what-ifs the Priority package takes
  Sheets,                  \* the inputs a workbook may hold
  OtAnalyses,                \* which of what-ifs, packages and sensitivity run
  Draws,                   \* skeletons: sequences of campaign draws
  Redrawn,                 \* skeleton -> percent of the rate -> skeleton
  OtYears                  \* simulated years

\* The pack: shares and factors are not negative (a mapping of no efficacy counts
\* as none, an overlay outside (0, 1] stops the run), a technique is listed for a
\* scenario of the pack, and the stages do not end where the insider starts.  That
\* a higher level keeps no less of an efficacy is what the governed sheet says:
\* the engine reads the table as it stands and compares two of its values only
\* (engine.py:1131-1134, 2224, 2226).
ASSUME OtPack ==
  /\ TopLevel \in Nat \ {0} /\ BaselineLevel \in 0..TopLevel
  /\ AdjFloor \in Nat /\ AdjCeiling \in Nat /\ AdjFloor <= AdjCeiling
  /\ DurFloor \in Nat
  /\ ConseqFloor \in Nat /\ ConseqCeiling \in Nat /\ ConseqFloor <= ConseqCeiling
  /\ \A l \in 0..TopLevel :
       /\ MaturityShare[l] \in Nat
       /\ \A h \in l..TopLevel : MaturityShare[l] <= MaturityShare[h]
  /\ OtControls \in Seq(Elements(OtControls)) /\ OtStages \in Seq(Elements(OtStages))
  /\ Len(OtStages) > 0 /\ OtStages[Len(OtStages)] # OtStages[1]
  /\ \A m \in Mappings : m.efficacy \in Nat
  /\ \A c \in Elements(OtControls) : Coverage[c] \in Nat
  /\ DefaultCoverage \in Nat
  /\ IsFiniteSet(Techniques)
  /\ \A t \in Techniques : Overlay[t.id] \in Nat /\ t.scenario \in Elements(OtScenarios)

\* The columns of a sheet, and a draw of a campaign: whole numbers of Unit.
SheetColumns == {"facility", "impact", "priors", "mix", "biScale", "propensity"}

ASSUME OtInputs ==
  /\ \A sheet \in Sheets :
       /\ DOMAIN sheet = SheetColumns
       /\ sheet.biScale \in Nat
       /\ \A st \in Elements(OtStages) : sheet.priors[st] \in Nat
       /\ \A sc \in Elements(OtScenarios) :
            LET i == sheet.impact[sc] IN
            /\ \A k \in {1, 2} : i.days[k] \in Nat /\ i.capacity[k] \in Nat
            /\ i.fixed \in Nat /\ i.restore \in Nat /\ i.harm \in Nat
  /\ \A draws \in Draws :
       draws \in Seq(Elements(draws)) /\ \A k \in DOMAIN draws : draws[k].u \in Nat
  /\ \A draws \in Draws, factor \in {80, 120} :
       \A k \in DOMAIN Redrawn[draws][factor] : Redrawn[draws][factor][k].u \in Nat

VARIABLES
  otPc,        \* where refresh is
  otAsked,       \* the analyses it was called for
  inputs,      \* facility, impact, priors, mix, biScale: shared and mutable
  loaded,      \* what load put there
  maturity,    \* control -> level
  ctx,         \* the skeleton: campaigns with actor and scenario
  base,        \* the baseline's evaluation
  rows,        \* results of what-ifs, packages and shocks
  workbook,    \* what the output file holds
  shock        \* the shock under way

otVars == <<otPc, otAsked, inputs, loaded, maturity, ctx, base, rows, workbook, shock>>

OtNone == [none |-> TRUE]
Channels == {"prevent", "detect", "recover", "safety"}

Mean(f) == IF DOMAIN f = {} THEN 0 ELSE SumOver(f) \div Cardinality(DOMAIN f)

-----------------------------------------------------------------------------
(* Barriers.                                                               *)

PairEff(m, level, cover) ==
  ClipTo(Times(Times(m.efficacy, MaturityShare[level]), cover), 0, BarrierCap)

MappedTo(tid, channel) ==
  {m \in Mappings : m.tid = tid /\ m.channel = channel /\ m.cid \in Elements(OtControls)}

\* The controls as assessed, or raised, and those the calibration refers to.
Actual(levels) == [level |-> levels, cover |-> Coverage]
Reference == [level |-> [c \in Elements(OtControls) |-> BaselineLevel],
              cover |-> [c \in Elements(OtControls) |-> DefaultCoverage]]

\* Each control counts once per technique, at its best mapping.
TtpBarrier(tid, channel, estate) ==
  LET cids == SetToSeq({m.cid : m \in MappedTo(tid, channel)})
      best(c) == Max({PairEff(m, estate.level[c], estate.cover[c]) :
                        m \in {n \in MappedTo(tid, channel) : n.cid = c}})
  IN CombineEffects([i \in DOMAIN cids |-> best(cids[i])])

\* The findings of an outside-in scan weaken what is assessed, on one channel.
ActualBarrier(tid, channel, levels) ==
  IF channel = "prevent" THEN Times(TtpBarrier(tid, channel, Actual(levels)), Overlay[tid])
  ELSE TtpBarrier(tid, channel, Actual(levels))

-----------------------------------------------------------------------------
(* Relevance and attack paths.                                             *)

\* A gate is the set of facility flags any of which opens the technique.
TtpFeasible(t, fac) == t.gate = {} \/ \E g \in t.gate : fac[g]

ScenarioIsFeasible(sc, fac) == sc # SafetyScenario \/ fac["safety"]

RelevantTtps(actor, sc, fac) ==
  IF ~ScenarioIsFeasible(sc, fac) THEN {}
  ELSE {t \in Techniques : /\ t.scenario = sc
                           /\ actor \in t.actors
                           /\ TtpFeasible(t, fac)}

\* The share of the reference's openness that is left, within its limits.
Adjusted(open, ref) ==
  ClipTo(IF ref > 0 THEN (open * Unit) \div ref ELSE Unit, AdjFloor, AdjCeiling)

\* Mutant: techniques without any barrier are left out of the mean.
MeanOfMitigated(ts, channel, levels) ==
  LET mitigated == {t \in ts : ActualBarrier(t.id, channel, levels) > 0}
  IN Mean([t \in mitigated |-> ActualBarrier(t.id, channel, levels)])

\* The mean barrier of a set of techniques on a channel.
MeanBarrier(ts, channel, levels) ==
  Mean([t \in ts |-> ActualBarrier(t.id, channel, levels)])

ReferenceBarrier(ts, channel) ==
  Mean([t \in ts |-> TtpBarrier(t.id, channel, Reference)])

ChannelFactor(rel, channel, levels) ==
  LET mapped == {t \in rel : MappedTo(t.id, channel) # {}}
  IN Adjusted(Unit - MeanBarrier(mapped, channel, levels),
              Unit - ReferenceBarrier(mapped, channel))

Required(actor, st) == ~(actor = Insider /\ st = OtStages[1])

StageTtps(rel, st) == {t \in rel : t.stage = st}

StageValid(rel, st) ==
  /\ StageTtps(rel, st) # {}
  /\ st = OtStages[Len(OtStages)] => \E t \in StageTtps(rel, st) : t.defining

PathValid(actor, sc, fac) ==
  /\ ScenarioIsFeasible(sc, fac)
  /\ \A st \in Elements(OtStages) :
       Required(actor, st) => StageValid(RelevantTtps(actor, sc, fac), st)

\* Every relevant technique of a stage counts, mapped to a control or not.
Through(rel, st, prior, levels) ==
  LET ts == StageTtps(rel, st)
  IN ClipTo(Times(prior, Adjusted(Unit - MeanBarrier(ts, "prevent", levels),
                                  Unit - ReferenceBarrier(ts, "prevent"))),
            0, Unit)

\* P(success) of a campaign: the product of its required stages.
StageProduct(rel, actor, levels, in) ==
  Product([i \in DOMAIN OtStages |->
             LET st == OtStages[i]
             IN IF Required(actor, st) THEN Through(rel, st, in.priors[st], levels) ELSE Unit])

\* Mutant: an invalid path keeps the product of its stages.
KeptSuccess(actor, sc, levels, in) ==
  StageProduct(RelevantTtps(actor, sc, in.facility), actor, levels, in)

CampaignSuccess(actor, sc, levels, in) ==
  IF PathValid(actor, sc, in.facility)
  THEN StageProduct(RelevantTtps(actor, sc, in.facility), actor, levels, in) ELSE 0

BuildCombo(actor, sc, levels, in) ==
  LET rel == RelevantTtps(actor, sc, in.facility)
      recover == ChannelFactor(rel, "recover", levels)
      safety == ChannelFactor(rel, "safety", levels)
      duration == Times(ChannelFactor(rel, "detect", levels), recover)
      costs == in.impact[sc]
      total == costs.fixed + costs.restore + costs.harm
  IN [success |-> CampaignSuccess(actor, sc, levels, in),
      duration |-> IF duration < DurFloor THEN DurFloor ELSE duration,
      other |-> IF total = 0 THEN ConseqFloor
                ELSE ClipTo((costs.fixed * Unit + costs.restore * recover
                               + costs.harm * safety) \div total,
                            ConseqFloor, ConseqCeiling)]

-----------------------------------------------------------------------------
(* The skeleton of campaigns and its evaluation.                           *)

\* The first item whose cumulated weight exceeds the share drawn.
Drawn(items, weight, u) ==
  LET total == FoldLeft(LAMBDA s, x : s + weight[x], 0, items)
      below(i) == FoldLeft(LAMBDA s, x : s + weight[x], 0, SubSeq(items, 1, i))
      hits == {i \in DOMAIN items : u * total < below(i) * Unit}
  IN items[CHOOSE i \in hits : \A j \in hits : i <= j]

Feasible(actor, in) ==
  [sc \in Elements(OtScenarios) |->
     IF PathValid(actor, sc, in.facility) THEN in.propensity[sc] ELSE 0]

\* build_context raises when an actor has no feasible scenario.
NoScenario(in) ==
  \E a \in Elements(OtActors) : \A sc \in Elements(OtScenarios) : Feasible(a, in)[sc] = 0

\* The campaigns of a seed: feasibility is that of the loaded facility.
BuildContext(draws, in) ==
  [k \in DOMAIN draws |->
     LET a == Drawn(OtActors, in.mix, draws[k].actor)
     IN [year |-> draws[k].year, u |-> draws[k].u, z |-> draws[k].z, actor |-> a,
         scenario |-> Drawn(OtScenarios, Feasible(a, in), draws[k].scenario)]]

\* z picks the median or the stress point of the amounts.
LossOf(c, combo, in) ==
  LET i == in.impact[c.scenario]
      at(pair) == IF c.z THEN pair[2] ELSE pair[1]
      other == i.fixed + i.restore + i.harm
  IN Times(Times(Times(at(i.days), combo.duration), at(i.capacity)), in.biScale)
       + Times(at(<<other, 2 * other>>), combo.other)

Evaluate(context, levels, in) ==
  LET combo(k) == BuildCombo(context[k].actor, context[k].scenario, levels, in)
      hit == {k \in DOMAIN context : context[k].u < combo(k).success}
  IN [hit |-> hit,
      annual |-> [y \in OtYears |->
        SumOf([k \in DOMAIN context |->
                 IF k \in hit /\ context[k].year = y THEN LossOf(context[k], combo(k), in) ELSE 0])]]

-----------------------------------------------------------------------------
(* What-ifs, packages and shocks.                                          *)

NextLevel(level) == IF level < TopLevel THEN level + 1 ELSE TopLevel

Overridden(c) == [maturity EXCEPT ![c] = NextLevel(@)]

IsMapped(c) == \E m \in Mappings : m.cid = c /\ m.efficacy > 0

WhatIfs == [i \in DOMAIN OtControls |-> [kind |-> "whatif", control |-> OtControls[i]]]

OtAal(result) == SumOver(result.annual)

\* The mapped controls below the top, by what their what-if took off the loss.
OtPriority ==
  LET open == SelectSeq(OtControls, LAMBDA c : IsMapped(c) /\ NextLevel(maturity[c]) # maturity[c])
      loss(c) == OtAal(rows[CHOOSE i \in DOMAIN rows : rows[i].of = [kind |-> "whatif", control |-> c]].result)
      ranked == SortSeq(open, LAMBDA c, d : loss(c) < loss(d))
  IN Elements(SubSeq(ranked, 1, IF Len(ranked) < PriorityCount THEN Len(ranked) ELSE PriorityCount))

\* A package that changes no control is not evaluated.
Packages ==
  LET names == <<"Foundation", "Priority", "Target", "User-defined">>
  IN [i \in {j \in 1..4 : names[j] # "Priority" \/ OtPriority # {}} |->
        [kind |-> "package", name |-> names[i]]]

\* Managed is one level below the top, Developing two.
PackageLevels(name) ==
  [c \in Elements(OtControls) |->
     CASE name = "Foundation" -> TopLevel - 2
       [] name = "Priority" -> IF c \in OtPriority THEN NextLevel(maturity[c]) ELSE maturity[c]
       [] name = "Target" -> TopLevel
       [] name = "User-defined" ->
            IF maturity[c] <= TopLevel - 2 THEN TopLevel - 1 ELSE maturity[c]]

\* The shocks in the order they run.
Shocks ==
  <<[kind |-> "frequency", factor |-> 120], [kind |-> "frequency", factor |-> 80],
    [kind |-> "downtime", factor |-> 120], [kind |-> "downtime", factor |-> 80],
    [kind |-> "capacity", factor |-> 120], [kind |-> "capacity", factor |-> 80],
    [kind |-> "revenue", factor |-> 120], [kind |-> "revenue", factor |-> 80],
    [kind |-> "restoration", factor |-> 120], [kind |-> "restoration", factor |-> 80],
    [kind |-> "actor_mix", factor |-> 120], [kind |-> "route", factor |-> 0],
    [kind |-> "priors", factor |-> 120], [kind |-> "priors", factor |-> 80]>>

\* The routes of the architecture that are open; the first one is closed.
OpenRoutes(in) == SelectSeq(Architecture, LAMBDA k : in.facility[k])

\* The inputs while a shock is evaluated.
Shocked(in, s) ==
  LET times(x) == (x * s.factor) \div 100
      pair(p) == <<times(p[1]), times(p[2])>>
      costs(i) ==
        CASE s.kind = "downtime" -> [i EXCEPT !.days = pair(@)]
          [] s.kind = "capacity" -> [i EXCEPT !.capacity = [k \in {1, 2} |-> ClipTo(pair(@)[k], 1, Unit)]]
          [] s.kind = "restoration" ->
               [i EXCEPT !.fixed = times(@), !.restore = times(@), !.harm = times(@)]
          [] OTHER -> i
  IN [in EXCEPT
        !.impact = [sc \in DOMAIN @ |-> costs(@[sc])],
        !.biScale = IF s.kind = "revenue" THEN times(@) ELSE @,
        !.mix = IF s.kind = "actor_mix"
                THEN [a \in DOMAIN @ |-> IF a = OtActors[1] THEN times(@[a]) ELSE @[a]]
                ELSE @,
        !.priors = IF s.kind = "priors"
                   THEN [st \in DOMAIN @ |-> ClipTo(times(@[st]), 0, Unit)] ELSE @,
        !.facility = IF s.kind = "route" /\ OpenRoutes(in) # << >>
                     THEN [@ EXCEPT ![OpenRoutes(in)[1]] = FALSE] ELSE @]

\* Without an open route there is nothing to close.
Applies(s) == s.kind = "route" => OpenRoutes(inputs) # << >>

\* Another rate or mix draws other campaigns, other shocks evaluate the same.
CampaignsOf(s, in) ==
  CASE s.kind = "frequency" -> BuildContext(Redrawn[ctx.draws][s.factor], in)
    [] s.kind = "actor_mix" -> BuildContext(ctx.draws, in)
    [] OTHER -> ctx.campaigns

-----------------------------------------------------------------------------
OtInit ==
  /\ otPc = "load" /\ otAsked = {} /\ inputs = OtNone /\ loaded = OtNone /\ maturity = OtNone
  /\ ctx = OtNone /\ base = OtNone /\ rows = << >> /\ workbook = OtNone
  /\ shock = OtNone

\* What refresh refuses to calibrate on: amounts that are not ordered, shares
\* beyond the whole, propensities that do not sum to one, an actor without a
\* feasible scenario.
Calibrated(in) ==
  /\ \A sc \in DOMAIN in.impact :
       /\ in.impact[sc].days[1] <= in.impact[sc].days[2]
       /\ in.impact[sc].capacity[1] <= in.impact[sc].capacity[2]
       /\ in.impact[sc].capacity[2] <= Unit
  /\ FoldLeft(LAMBDA n, sc : n + in.propensity[sc], 0, OtScenarios) = Unit
  /\ ~NoScenario(in)

\* The workbook and the sector pack are read.
Load(sheet, levels, analyses) ==
  /\ otPc = "load"
  /\ otAsked' = analyses
  /\ inputs' = sheet /\ loaded' = sheet /\ maturity' = levels
  /\ otPc' = IF Calibrated(sheet) THEN "baseline" ELSE "failed"
  /\ UNCHANGED <<ctx, base, rows, workbook, shock>>

Baseline(draws) ==
  /\ otPc = "baseline"
  /\ LET campaigns == BuildContext(draws, inputs)
     IN /\ ctx' = [draws |-> draws, campaigns |-> campaigns]
        /\ base' = Evaluate(campaigns, maturity, inputs)
  /\ otPc' = "whatifs"
  /\ UNCHANGED <<otAsked, inputs, loaded, maturity, rows, workbook, shock>>

ResultRow(of, result) == [of |-> of, result |-> result]

\* The next of a list of evaluations without a row.
NextOf(list) ==
  LET left == {k \in DOMAIN list : \A i \in DOMAIN rows : rows[i].of # list[k]}
  IN {list[k] : k \in {j \in left : \A i \in left : j <= i}}

\* Controls that no technique maps, or that are at the top, are not evaluated.
WhatIf ==
  /\ otPc = "whatifs"
  /\ \E w \in NextOf(WhatIfs) :
       rows' = Append(rows, ResultRow(w,
         IF /\ "whatifs" \in otAsked
            /\ IsMapped(w.control) /\ NextLevel(maturity[w.control]) # maturity[w.control]
         THEN Evaluate(ctx.campaigns, Overridden(w.control), inputs) ELSE base))
  /\ UNCHANGED <<otPc, otAsked, inputs, loaded, maturity, ctx, base, workbook, shock>>

\* The workbook is saved before the packages and the shocks are evaluated.
SaveWorkbook ==
  /\ otPc = "whatifs" /\ NextOf(WhatIfs) = {}
  /\ workbook' = [base |-> base, whatifs |-> rows]
  /\ otPc' = "packages"
  /\ UNCHANGED <<otAsked, inputs, loaded, maturity, ctx, base, rows, shock>>

NextPackage == IF "packages" \in otAsked THEN NextOf(Packages) ELSE {}

Package ==
  /\ otPc = "packages"
  /\ \E p \in NextPackage :
       rows' = Append(rows, ResultRow(p,
                 Evaluate(ctx.campaigns, PackageLevels(p.name), inputs)))
  /\ UNCHANGED <<otPc, otAsked, inputs, loaded, maturity, ctx, base, workbook, shock>>

StartShocks ==
  /\ otPc = "packages" /\ NextPackage = {}
  /\ otPc' = "shocks"
  /\ UNCHANGED <<otAsked, inputs, loaded, maturity, ctx, base, rows, workbook, shock>>

NextShock == IF "sensitivity" \in otAsked THEN NextOf(Shocks) ELSE {}

\* The shock changes the inputs evaluate closes over.
ApplyShock ==
  /\ otPc = "shocks" /\ shock = OtNone
  /\ \E s \in NextShock :
       \/ /\ Applies(s)
          /\ inputs' = Shocked(inputs, s)
          /\ shock' = [of |-> s, saved |-> inputs]
          /\ UNCHANGED rows
       \/ /\ ~Applies(s)
          /\ rows' = Append(rows, ResultRow(s, OtNone))
          /\ UNCHANGED <<inputs, shock>>
  /\ UNCHANGED <<otPc, otAsked, loaded, maturity, ctx, base, workbook>>

\* Mutant: the stage priors are not put back.
PriorsStay ==
  /\ otPc = "shocks" /\ shock # OtNone
  /\ rows' = Append(rows, ResultRow(shock.of,
               Evaluate(CampaignsOf(shock.of, inputs), maturity, inputs)))
  /\ inputs' = [shock.saved EXCEPT !.priors = inputs.priors]
  /\ shock' = OtNone
  /\ UNCHANGED <<otPc, otAsked, loaded, maturity, ctx, base, workbook>>

\* It is evaluated and what it changed is put back.
MeasureShock ==
  /\ otPc = "shocks" /\ shock # OtNone
  /\ rows' = Append(rows, ResultRow(shock.of,
               Evaluate(CampaignsOf(shock.of, inputs), maturity, inputs)))
  /\ inputs' = shock.saved
  /\ shock' = OtNone
  /\ UNCHANGED <<otPc, otAsked, loaded, maturity, ctx, base, workbook>>

ReturnResult ==
  /\ otPc = "shocks" /\ shock = OtNone /\ NextShock = {}
  /\ otPc' = "returned"
  /\ UNCHANGED <<otAsked, inputs, loaded, maturity, ctx, base, rows, workbook, shock>>

OtNext ==
  \/ \E sheet \in Sheets, analyses \in OtAnalyses,
        levels \in [Elements(OtControls) -> 0..TopLevel] : Load(sheet, levels, analyses)
  \/ \E draws \in Draws : Baseline(draws)
  \/ WhatIf \/ SaveWorkbook \/ Package
  \/ StartShocks \/ ApplyShock \/ MeasureShock \/ ReturnResult

OtSpec == OtInit /\ [][OtNext]_otVars

-----------------------------------------------------------------------------
(* Properties.                                                             *)

\* The evaluation that was just made.
Latest == rows[Len(rows)]
Measured == rows # << >> /\ Latest.result # OtNone

\* One more level of a control, or a package that lowers none, adds no loss to
\* any simulated year: the campaigns are the same, fewer succeed and each costs
\* no more (engine.py:1431-1600, the row "Every one-level control uplift is
\* non-increasing in AAL for both views" at 2255).
UpliftAddsNoLoss ==
  Measured /\ (\/ Latest.of.kind = "whatif"
               \/ Latest.of.kind = "package" /\ Latest.of.name # "Foundation") =>
    \A y \in OtYears : Latest.result.annual[y] <= base.annual[y]

\* Every row of the sensitivity table is its own shock alone: what an earlier
\* shock changed in the shared inputs is back, and no result was measured on
\* a mixture (engine.py:2627-2776).
ShocksAreAlone ==
  /\ Measured /\ Latest.of \in Elements(Shocks) =>
       LET in == Shocked(loaded, Latest.of)
       IN Latest.result = Evaluate(CampaignsOf(Latest.of, in), maturity, in)
  /\ shock = OtNone => inputs = loaded

\* No campaign of a scenario the facility excludes, or of a path with an empty
\* stage, ever becomes a loss (engine.py:265-266, 1516-1528).
ExcludedNeverLose ==
  Measured =>
    \A k \in Latest.result.hit :
      LET in == Shocked(loaded, Latest.of)
          c == CampaignsOf(Latest.of, in)[k]
      IN PathValid(c.actor, c.scenario, in.facility)
=============================================================================
