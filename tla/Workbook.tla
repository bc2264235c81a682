------------------------------ MODULE Workbook ------------------------------
(***************************************************************************)
(* The inputs of a run and the ways they reach an engine.  A workbook is   *)
(* run as it is; or its client-owned cells are extracted and replayed onto *)
(* the governed template (the facade); or the public projection of the     *)
(* extracted assessment is validated and new cells are built from it (the  *)
(* service).  The results workbook of a direct run can be run again.       *)
(*                                                                         *)
(* A workbook is a record of the cells the three ways tell apart.  Shares  *)
(* are in per cent.                                                        *)
(***************************************************************************)
EXTENDS Integers, SequencesExt

CONSTANTS
  Workbooks,   \* the workbooks a user may fill in
  Template,    \* the governed template: its cells before anyone fills them in
  Blank,       \* an empty cell
  MaxRuns      \* runs of one workbook and of its results

LayerRows == 18..21
Bases == {"Best Estimate", "Prudent", "Both"}
Marker == "INSURANCE PROGRAMME INPUTS"   \* what cell A20 of the template says
Seeds == <<"Primary", "Excess 1", "Excess 2", "Excess 3">>
Unnamed == <<"Layer 1", "Layer 2", "Layer 3", "Layer 4">>

VARIABLES
  wbPc,        \* where the run is
  path,        \* how the inputs reach the engine
  book,        \* the user's workbook
  assessment,  \* the extracted, or the accepted, assessment
  staged,      \* the workbook of the run
  used,        \* what the engine was given
  runs

workbookVars == <<wbPc, path, book, assessment, staged, used, runs>>

NoInputs == [none |-> TRUE]

CommonFields ==
  {"domain", "basis", "apply", "view", "loss", "retention", "primary",
   "aggregate", "layers", "coverage"}

Fields == CommonFields \cup {"fallback", "setupLoss", "governed"}

\* Only client-owned cells are replayed: the governed ones and the appetite
\* rows of Run Setup are not.  The default retention is a cell of the IT
\* settings, which are extracted for IT alone.
CarriedFields(domain) ==
  CommonFields \cup (IF domain = "IT" THEN {"fallback"} ELSE {})

\* Workbooks have the template's cells, a limit is a number, and the template
\* sets no appetite and no layer.  An empty cell is no number, basis or name.
ASSUME WorkbookCells ==
  /\ Blank \notin Int \cup Bases /\ \A i \in DOMAIN Unnamed : Blank # Unnamed[i]
  /\ Template = [f \in Fields |-> Template[f]]
  /\ Template.setupLoss = Blank
  /\ \A r \in LayerRows : Template.layers[r].limit = Blank
  /\ \A wb \in Workbooks :
       /\ wb = [f \in Fields |-> wb[f]]
       /\ wb.domain \in {"IT", "OT"}
       /\ \A r \in LayerRows : wb.layers[r].limit \in Int \cup {Blank}

IsAmount(x) == x = Blank \/ x >= 0

-----------------------------------------------------------------------------
(* Reading a workbook: reporting/inputs.py.                                *)

\* Sheet 06 overrides the rows of Run Setup.
ReadAppetite(wb) == IF wb.loss # Blank THEN wb.loss ELSE wb.setupLoss

OrZero(x) == IF x = Blank THEN 0 ELSE x

\* Rows without a limit are no layers, the others close up.
ReadRow(wb, r) ==
  LET l == wb.layers[r]
  IN IF l.limit = Blank \/ l.limit <= 0 THEN <<>>
     ELSE <<[name |-> IF l.name = Blank THEN Unnamed[r - 17] ELSE l.name,
             attachment |-> OrZero(l.attachment), limit |-> l.limit,
             coinsurance |-> IF l.coinsurance = Blank THEN 100 ELSE l.coinsurance]>>

ReadLayers(wb) ==
  ReadRow(wb, 18) \o ReadRow(wb, 19) \o ReadRow(wb, 20) \o ReadRow(wb, 21)

\* A blank retention falls back to IT 08, and parse_programme reads zero.
ReadProgramme(wb) ==
  [retention |-> OrZero(IF wb.retention = Blank THEN wb.fallback ELSE wb.retention),
   primary |-> wb.primary, aggregate |-> wb.aggregate, layers |-> ReadLayers(wb)]

\* The basis of the run: the IT settings win over Run Setup.
Reporting(wb) ==
  LET setup == IF wb.basis = Blank THEN "Prudent" ELSE wb.basis
  IN IF wb.domain = "IT" /\ wb.view \in Bases THEN wb.view
     ELSE IF wb.domain = "OT" \/ setup \in Bases THEN setup ELSE "Prudent"

\* It is written where the engine reads it, from where the results of IT are
\* copied back; the IT settings also change Run Setup.
Prepared(wb) ==
  [wb EXCEPT !.view = Reporting(wb),
             !.basis = IF wb.domain = "IT" /\ wb.view \in Bases THEN wb.view ELSE @]

\* A blank coverage: 75% in OT, refused in IT.
EngineCoverage(wb) ==
  IF wb.coverage = Blank /\ wb.domain = "OT" THEN 75 ELSE wb.coverage

EngineInputs(wb) ==
  [basis |-> wb.view, appetite |-> ReadAppetite(wb),
   programme |-> ReadProgramme(wb), coverage |-> EngineCoverage(wb),
   governed |-> wb.governed]

EngineAccepts(inputs) ==
  /\ inputs.basis \in Bases
  /\ inputs.coverage # Blank
  /\ inputs.coverage \in 0..100

-----------------------------------------------------------------------------
(* The extracted assessment, its public projection and its cells.          *)

Extracted(wb) ==
  [domain |-> wb.domain, basis |-> IF wb.basis = Blank THEN "Prudent" ELSE wb.basis,
   apply |-> wb.apply, appetite |-> ReadAppetite(wb), programme |-> ReadProgramme(wb),
   coverage |-> IF wb.domain = "OT" /\ wb.coverage \in {Blank, 0} THEN 75
                ELSE wb.coverage,
   cells |-> [f \in CarriedFields(wb.domain) |-> wb[f]]]

\* assessment_from_public_payload: what the public boundary refuses.
Rejected(a) ==
  \/ a.apply = "Yes"
  \/ a.basis \notin Bases
  \/ ~IsAmount(a.appetite) \/ a.programme.retention < 0
  \/ ~IsAmount(a.programme.primary) \/ ~IsAmount(a.programme.aggregate)
  \/ \E i \in DOMAIN a.programme.layers :
       LET l == a.programme.layers[i]
       IN l.attachment < 0 \/ l.coinsurance \notin 0..100
  \/ a.coverage = Blank \/ a.coverage \notin 0..100

\* Mutant: layers are written from the second row on.
CellsOneRowLower(a) ==
  [domain |-> a.domain, basis |-> a.basis, apply |-> "No", view |-> a.basis,
   loss |-> a.appetite, retention |-> a.programme.retention,
   primary |-> a.programme.primary, aggregate |-> a.programme.aggregate,
   coverage |-> a.coverage,
   layers |-> [r \in LayerRows |->
     IF r - 18 \in DOMAIN a.programme.layers THEN a.programme.layers[r - 18]
     ELSE Template.layers[r]]]

\* The cells built from the payload: rows without a layer are not written.
BuildCells(a) ==
  [domain |-> a.domain, basis |-> a.basis, apply |-> "No", view |-> a.basis,
   loss |-> a.appetite, retention |-> a.programme.retention,
   primary |-> a.programme.primary, aggregate |-> a.programme.aggregate,
   coverage |-> a.coverage,
   layers |-> [r \in LayerRows |->
     IF r - 17 \in DOMAIN a.programme.layers THEN a.programme.layers[r - 17]
     ELSE Template.layers[r]]]

\* The cells of an assessment on the template.
Materialized(cells) ==
  [f \in DOMAIN Template |-> IF f \in DOMAIN cells THEN cells[f] ELSE Template[f]]

-----------------------------------------------------------------------------
WorkbookInit ==
  /\ wbPc = "start" /\ path \in {"direct", "facade", "service"}
  /\ book \in Workbooks
  /\ assessment = NoInputs /\ staged = NoInputs /\ used = NoInputs /\ runs = 0

\* run_combined works on a copy of the workbook.
CopyModel ==
  /\ wbPc = "start" /\ path = "direct"
  /\ staged' = book /\ wbPc' = "staged" /\ runs' = runs + 1
  /\ UNCHANGED <<path, book, assessment, used>>

\* CRQAssessment validates the basis.
Extract ==
  /\ wbPc = "start" /\ path # "direct"
  /\ LET a == Extracted(book)
     IN IF a.basis \in Bases
        THEN assessment' = a /\ wbPc' = "extracted"
        ELSE wbPc' = "failed" /\ UNCHANGED assessment
  /\ UNCHANGED <<path, book, staged, used, runs>>

Submit ==
  /\ wbPc = "extracted" /\ path = "service"
  /\ \/ /\ Rejected(assessment)
        /\ wbPc' = "failed" /\ UNCHANGED assessment
     \/ /\ ~Rejected(assessment)
        /\ assessment' = [assessment EXCEPT !.cells = BuildCells(assessment)]
        /\ wbPc' = "accepted"
  /\ UNCHANGED <<path, book, staged, used, runs>>

Materialize ==
  /\ wbPc = IF path = "service" THEN "accepted" ELSE "extracted"
  /\ staged' = Materialized(assessment.cells)
  /\ wbPc' = "staged" /\ runs' = runs + 1
  /\ UNCHANGED <<path, book, assessment, used>>

\* _run_it, _run_ot: the basis is settled, appetite and programme are read.
RunEngine ==
  /\ wbPc = "staged"
  /\ staged' = Prepared(staged)
  /\ used' = EngineInputs(staged')
  /\ wbPc' = IF EngineAccepts(used') THEN "ran" ELSE "failed"
  /\ UNCHANGED <<path, book, assessment, runs>>

\* ensure_insurance_inputs: sheet 06 is seeded unless A20 says it is.
Reseeded(wb) ==
  IF wb.layers[20].name = Marker THEN wb
  ELSE [wb EXCEPT
         !.loss = Blank, !.retention = 0, !.primary = Blank, !.aggregate = Blank,
         !.layers = [r \in LayerRows |->
           [name |-> IF r = 20 THEN Marker ELSE Seeds[r - 17],
            attachment |-> Blank, limit |-> Blank, coinsurance |-> 100]]]

\* _write_python_snapshot and populate_reporting_suite write the results.
WriteBack ==
  /\ wbPc = "ran"
  /\ staged' =
       Reseeded([staged EXCEPT
         !.basis = IF @ \in {Blank, "Best Estimate", "Prudent"} THEN @ ELSE "Prudent"])
  /\ wbPc' = "done"
  /\ UNCHANGED <<path, book, assessment, used, runs>>

\* The results workbook is the next run's model; the facade's is deleted.
Rerun ==
  /\ wbPc = "done" /\ path = "direct" /\ runs < MaxRuns
  /\ wbPc' = "staged" /\ runs' = runs + 1
  /\ UNCHANGED <<path, book, assessment, staged, used>>

WorkbookNext ==
  \/ CopyModel \/ Extract \/ Submit \/ Materialize \/ RunEngine \/ WriteBack
  \/ Rerun

WorkbookSpec == WorkbookInit /\ [][WorkbookNext]_workbookVars

-----------------------------------------------------------------------------
(* Properties.                                                             *)

\* What no way but the direct one carries: the appetite rows of Run Setup and
\* governed cells; through the facade, the default retention of an OT workbook
\* that states none; to the service, two settings of the basis that differ and
\* a coverage of zero.  A second run of an OT workbook has lost "Both", and
\* one whose third layer was renamed its inputs.
Repeats ==
  book.layers[20].name = Marker /\ (book.domain = "OT" => book.basis # "Both")

Carryable ==
  /\ path # "direct" => book.setupLoss = Blank /\ book.governed = Template.governed
  /\ path = "facade" /\ book.domain = "OT" /\ book.retention = Blank =>
       OrZero(book.fallback) = OrZero(Template.fallback)
  /\ path = "service" =>
       /\ book.domain = "IT" /\ book.view \in Bases => book.basis = book.view
       /\ ~(book.domain = "OT" /\ book.coverage = 0)
  /\ runs > 1 => Repeats

\* An engine is given the same basis, appetite, insurance programme and
\* controls whichever way the workbook reaches it, and again when its results
\* are run (excel_adapter.py:48-220, request_adapter.py:182-336,
\* tests/integration/test_structured_execution_facade.py:31-72).
RunsAlike ==
  wbPc \in {"ran", "done"} /\ Carryable => used = EngineInputs(Prepared(book))

\* The results workbook holds the appetite and the insurance programme of its
\* run, "input block rows 1-22" (reporting/populate.py:487, inputs.py:59-101).
InputBlockKept ==
  wbPc = "done" =>
    /\ ReadAppetite(staged) = used.appetite
    /\ ReadProgramme(staged) = used.programme
=============================================================================
