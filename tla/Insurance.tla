----------------------------- MODULE Insurance -----------------------------
(***************************************************************************)
(* What follows a simulation: the insurance programme is parsed and        *)
(* applied to the annual losses layer by layer, then gross and residual    *)
(* losses are measured.  Every operation works on the vector of trials.    *)
(***************************************************************************)
EXTENDS TailMetrics

CONSTANTS
  Simulations,   \* [annual, drivers]: losses by trial, of all and of each driver
  Category,      \* driver -> its category
  LayerNames,    \* the names layers may have
  Programmes,    \* [retention, layers, primary, aggregate] as the user gives them
  Appetites      \* limits, those that are set

Absent == -1     \* a blank cell

\* Coinsurance is in percent of a layer; a lone primary limit is named by the
\* code.
ASSUME InsuranceInputs ==
  /\ "Primary" \in LayerNames
  /\ \A p \in Programmes :
       /\ p.retention \in Nat
       /\ p.layers \in Seq([name : LayerNames, attachment : Nat, limit : Int, coinsurance : Int])
       /\ p.primary \in Nat \cup {Absent} /\ p.aggregate \in Nat \cup {Absent}

\* A simulation has a trial, and the losses of its drivers add up to the loss of
\* the trial.
ASSUME SimulationInputs ==
  \A s \in Simulations :
    /\ s.annual \in Seq(Nat) /\ s.annual # << >>
    /\ IsFiniteSet(DOMAIN s.drivers)
    /\ s.drivers \in [DOMAIN s.drivers -> [DOMAIN s.annual -> Nat]]
    /\ \A t \in DOMAIN s.annual :
         SumOver([d \in DOMAIN s.drivers |-> s.drivers[d][t]]) = s.annual[t]

VARIABLES
  insPc,
  raw,          \* the programme as given
  parsed,       \* how many of its layers have been parsed
  components,   \* the drivers' annual losses
  gross,        \* all annual losses
  programme,    \* the parsed programme
  applied,      \* how many layers have been applied
  insured,      \* recoveries by trial
  byLayer,      \* name -> expected recovery, what the layer table shows
  report

insVars == <<insPc, raw, parsed, components, gross, programme, applied, insured, byLayer, report>>

Nothing == [none |-> TRUE]

-----------------------------------------------------------------------------
Lesser(x, y) == IF x < y THEN x ELSE y
Excess(x, y) == IF x > y THEN x - y ELSE 0

\* Mutant: the share of a layer is taken as it is given.
RawShare(coinsurance) == IF coinsurance = Absent THEN 100 ELSE coinsurance

\* A blank share is the whole layer, others are kept between nothing and all.
Share(coinsurance) ==
  IF coinsurance = Absent \/ coinsurance > 100 THEN 100
  ELSE IF coinsurance < 0 THEN 0 ELSE coinsurance

\* A layer pays its share of what exceeds its attachment, up to its limit;
\* attachments count from the ground.
Recovery(layer, loss) ==
  (Lesser(Excess(loss, layer.attachment), layer.limit) * layer.coinsurance) \div 100

Active(p) == p.layers # << >> \/ p.retention > 0 \/ p.aggregate > 0

-----------------------------------------------------------------------------
InsInit ==
  /\ insPc = "start" /\ raw = Nothing /\ parsed = 0
  /\ components = Nothing /\ gross = << >> /\ programme = Nothing
  /\ applied = 0 /\ insured = << >> /\ byLayer = << >> /\ report = Nothing

StartProgramme(given, sim) ==
  /\ insPc = "start"
  /\ raw' = given
  /\ components' = sim.drivers /\ gross' = sim.annual
  /\ programme' = [retention |-> given.retention, layers |-> << >>, aggregate |-> given.aggregate]
  /\ insured' = [t \in DOMAIN sim.annual |-> 0]
  /\ insPc' = "parse"
  /\ UNCHANGED <<parsed, applied, byLayer, report>>

\* A layer without a limit does not count.
ParseLayer ==
  /\ insPc = "parse" /\ parsed < Len(raw.layers)
  /\ LET layer == raw.layers[parsed + 1]
     IN programme' = IF layer.limit > 0
                     THEN [programme EXCEPT !.layers =
                             Append(@, [layer EXCEPT !.coinsurance = Share(@)])]
                     ELSE programme
  /\ parsed' = parsed + 1
  /\ UNCHANGED <<insPc, raw, components, gross, applied, insured, byLayer, report>>

\* A primary limit alone is a layer above the retention; a programme without
\* anything in it is not applied.
EndParse ==
  /\ insPc = "parse" /\ parsed = Len(raw.layers)
  /\ programme' = IF programme.layers = << >> /\ raw.primary > 0
                  THEN [programme EXCEPT !.layers =
                          <<[name |-> "Primary", attachment |-> raw.retention,
                             limit |-> raw.primary, coinsurance |-> 100]>>]
                  ELSE programme
  /\ insPc' = IF Active(programme') THEN "layers" ELSE "measure"
  /\ UNCHANGED <<raw, parsed, components, gross, applied, insured, byLayer, report>>

\* The next layer's recoveries are added; two layers of one name share a row.
ApplyLayer ==
  /\ insPc = "layers" /\ applied < Len(programme.layers)
  /\ LET layer == programme.layers[applied + 1]
         paid == [t \in DOMAIN gross |-> Recovery(layer, gross[t])]
     IN /\ insured' = [t \in DOMAIN gross |-> insured[t] + paid[t]]
        /\ byLayer' = (layer.name :> SumOf(paid)) @@ byLayer
  /\ applied' = applied + 1
  /\ UNCHANGED <<insPc, raw, parsed, components, gross, programme, report>>

\* The limit of the whole programme.
CapRecovery ==
  /\ insPc = "layers" /\ applied = Len(programme.layers)
  /\ insured' = IF programme.aggregate > 0
                THEN [t \in DOMAIN gross |-> Lesser(insured[t], programme.aggregate)]
                ELSE insured
  /\ insPc' = "measure"
  /\ UNCHANGED <<raw, parsed, components, gross, programme, applied, byLayer, report>>

Residual == [t \in DOMAIN gross |-> Excess(gross[t], insured[t])]

Capacity(p) ==
  LET all == p.retention * 100 + SumOf([i \in DOMAIN p.layers |->
                                          p.layers[i].limit * p.layers[i].coinsurance])
  IN IF p.aggregate > 0 THEN Lesser(all, 100 * (p.retention + p.aggregate)) ELSE all

\* Gross and residual losses are measured and held against the appetite,
\* which insurance never enters.
Measure(limits) ==
  /\ insPc = "measure"
  /\ report' =
       [residual |-> Residual,
        reconciles |-> \A t \in DOMAIN gross : gross[t] = Residual[t] + insured[t],
        exhausted |-> {t \in DOMAIN gross :
                         Capacity(programme) > 0 /\ 100 * insured[t] >= Capacity(programme)},
        tvar |-> [q \in {95, 99} |-> ExpectedShortfall(gross, q)],
        var |-> [q \in {95, 99} |-> ValueAtRisk(gross, q)],
        residualTvar |-> [q \in {95, 99} |-> ExpectedShortfall(Residual, q)],
        leading |-> Leading(components, Order(gross)),
        appetite |-> Appetite(limits, gross)]
  /\ insPc' = "done"
  /\ UNCHANGED <<raw, parsed, components, gross, programme, applied, insured, byLayer>>

InsNext ==
  \/ \E given \in Programmes, sim \in Simulations : StartProgramme(given, sim)
  \/ ParseLayer \/ EndParse
  \/ ApplyLayer \/ CapRecovery
  \/ \E limits \in Appetites : Measure(limits)

InsSpec == InsInit /\ [][InsNext]_insVars

-----------------------------------------------------------------------------
(* Properties.                                                             *)

\* Each layer attaches where the one before it is exhausted, or above.
Stacked(layers) ==
  \A i \in 1..Len(layers) - 1 :
    layers[i].attachment + layers[i].limit <= layers[i + 1].attachment

\* Layers that do not overlap never pay more than was lost, whatever their
\* shares and the limit of the programme, so that gross losses are residual
\* losses and recoveries in every trial (insurance.py:67-136, "Reconcile:
\* ground-up = residual + insured").
RecoveryWithinLoss ==
  insPc # "start" /\ Stacked(programme.layers) =>
    \A t \in DOMAIN gross : insured[t] <= gross[t] /\ gross[t] = Residual[t] + insured[t]

\* The tail mean is at least the quantile and the average, grows with its
\* level, is lower after insurance, and is what the drivers, or the
\* categories, contribute to it (metrics.py:68-158, reporting_helpers.py:139-155,
\* docs/LIMITATIONS_REGISTER.md:12).
TailsAreCoherent ==
  insPc = "done" =>
    LET order == Order(gross)
        sum(table, q) == SumOver([k \in DOMAIN table |-> TailContribution(table[k], order, q)])
    IN /\ AtMost(report.tvar[95], report.tvar[99])
       /\ AtMost(Average(gross), report.tvar[95])
       /\ \A q \in {95, 99} :
            /\ AtMost(<<report.var[q], 1>>, report.tvar[q])
            /\ AtMost(report.residualTvar[q], report.tvar[q])
            /\ \A table \in {components, Rollup(components, Category)} :
                 sum(table, q) = report.tvar[q][1]
=============================================================================
