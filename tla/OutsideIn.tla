------------------------------ MODULE OutsideIn ------------------------------
(***************************************************************************)
(* The outside-in layer of a run: the approved rows of a findings file are *)
(* applied one after the other to the parameters of a workbook that is     *)
(* held in memory, each leaving a row of the audit trail, and the workbook *)
(* is saved when all of them went through.  The results workbook can be    *)
(* run again, with another file or with none.                              *)
(*                                                                         *)
(* A parameter is a pair of a quantitative target and the field of a cell. *)
(* A finding names the field as its author wrote it, which is the cell's   *)
(* own name but for the exposure routes, whose spelling is normalised.     *)
(* Values are texts; those that read as numbers are in Hundredths.         *)
(***************************************************************************)
EXTENDS Naturals, FiniteSets, SequencesExt

CONSTANTS
  Models,      \* domain -> the workbook: parameter -> value
  Files,       \* findings files: sequences of findings
  RouteSpelling,   \* exposure route as written -> the field of its cell
  Hundredths,  \* numeric text -> its value, in hundredths
  MaxFindings, \* MAX_FINDINGS
  MaxOiRuns    \* runs of the workbook and of its results

ExposureTargets == {"facility_input", "organisation_input", "exposure_route"}
ExploitTargets == {"ttp_prevent_barrier"}

\* A workbook holds texts; one that was never run has no overlay of barriers.
ASSUME OiInputs ==
  /\ \A d \in DOMAIN Models :
       /\ Models[d] \in [DOMAIN Models[d] -> STRING]
       /\ \A p \in DOMAIN Models[d] : p[1] \notin ExploitTargets
  /\ \A file \in Files : file \in Seq(ToSet(file))

VARIABLES
  oiPc,
  domain,      \* of the workbook, "IT" or "OT"
  params,      \* the workbook in memory
  trail,       \* its audit trail
  queue,       \* approved findings still to apply
  seen,        \* <<target, field as written>> of this run's changes
  roles,       \* <<finding id, target>> of this run
  saved,       \* the output workbook: parameters and trail
  oiRun        \* number of the run

oiVars == <<oiPc, domain, params, trail, queue, seen, roles, saved, oiRun>>

\* What tells two findings apart: the field as it is written.
Key(f) == <<f.target, f.field>>

\* The cell that is written: an exposure route is split at its dot, both parts
\* are stripped and the column is put in capitals.
Cell(f) ==
  <<f.target, IF f.target = "exposure_route" /\ f.field \in DOMAIN RouteSpelling
              THEN RouteSpelling[f.field] ELSE f.field>>

\* A barrier of the overlay need not exist: any technique gets a row.
Value(p, ps) == IF p \in DOMAIN ps THEN ps[p] ELSE "1"

Changed(p, v, ps) == [q \in DOMAIN ps \cup {p} |-> IF q = p THEN v ELSE ps[q]]

-----------------------------------------------------------------------------
(* What stops a finding.                                                   *)

IsNumber(v) == v \in DOMAIN Hundredths

\* Not having observed an exposure proves nothing without an approved credit.
UncreditedAbsence(f, baseline) ==
  /\ f.polarity = "absence" /\ ~f.credit
  /\ baseline \in {"Yes", "Controlled"} /\ f.value = "No"

\* The domain has the target, the workbook the field, the value is one of it.
Applicable(f, ps) ==
  CASE f.target \in {"facility_input", "organisation_input"} ->
         /\ f.target = IF domain = "OT" THEN "facility_input" ELSE "organisation_input"
         /\ Cell(f) \in DOMAIN ps
         /\ ~UncreditedAbsence(f, ps[Cell(f)])
    [] f.target = "ttp_prevent_barrier" ->
         /\ domain = "OT"
         /\ IsNumber(f.value) /\ Hundredths[f.value] \in 1..100
    [] f.target = "exposure_route" ->
         /\ domain = "IT"
         /\ f.field \in DOMAIN RouteSpelling /\ Cell(f) \in DOMAIN ps
         /\ IsNumber(f.value)
    [] OTHER -> FALSE

RolesOf(f) == {r[2] : r \in {s \in roles : s[1] = f.id}}

\* One finding would change both an exposure and a barrier.
Crosses(f) ==
  \/ f.target \in ExploitTargets /\ RolesOf(f) \cap ExposureTargets # {}
  \/ f.target \in ExposureTargets /\ RolesOf(f) \cap ExploitTargets # {}

Stops(f) ==
  \/ Key(f) \in seen
  \/ Crosses(f) /\ ~f.assessed
  \/ ~Applicable(f, params)

-----------------------------------------------------------------------------
OiInit ==
  /\ oiPc = "copied" /\ domain \in DOMAIN Models /\ params = Models[domain]
  /\ trail = << >> /\ queue = << >> /\ seen = {} /\ roles = {} /\ oiRun = 1
  /\ saved = [params |-> params, trail |-> << >>]

Kept(q, f) == IF f.approved /\ f.target # "" THEN Append(q, f) ELSE q

\* The file is read into the workbook: rows that are approved and have a
\* target are to be applied.
Snapshot(file) ==
  /\ oiPc = "copied"
  /\ LET approved == FoldLeft(Kept, << >>, file)
     IN IF Len(approved) > MaxFindings
        THEN oiPc' = "failed" /\ UNCHANGED queue
        ELSE oiPc' = "applying" /\ queue' = approved
  /\ UNCHANGED <<domain, params, trail, seen, roles, saved, oiRun>>

TrailRow(f, status, baseline) ==
  [of |-> f, status |-> status, baseline |-> baseline, run |-> oiRun]

\* Insufficient attribution is recorded before anything else is looked at.
SkipFinding ==
  /\ oiPc = "applying" /\ queue # << >> /\ ~Head(queue).sufficient
  /\ trail' = Append(trail, TrailRow(Head(queue), "not applied", ""))
  /\ queue' = Tail(queue)
  /\ UNCHANGED <<oiPc, domain, params, seen, roles, saved, oiRun>>

\* The workbook in memory is dropped, the output is the copy of the model.
StopAtFinding ==
  /\ oiPc = "applying" /\ queue # << >> /\ Head(queue).sufficient
  /\ Stops(Head(queue))
  /\ oiPc' = "failed"
  /\ UNCHANGED <<domain, params, trail, queue, seen, roles, saved, oiRun>>

\* Mutant: the baseline is read after the change.
ApplyThenRead ==
  /\ oiPc = "applying" /\ queue # << >> /\ Head(queue).sufficient
  /\ ~Stops(Head(queue))
  /\ LET f == Head(queue)
     IN /\ params' = Changed(Cell(f), f.value, params)
        /\ trail' = Append(trail, TrailRow(f, "approved", params'[Cell(f)]))
        /\ seen' = seen \cup {Key(f)}
        /\ roles' = roles \cup {<<f.id, f.target>>}
  /\ queue' = Tail(queue)
  /\ UNCHANGED <<oiPc, domain, saved, oiRun>>

\* The multiplier of a barrier replaces another one; its baseline reads one.
ApplyFinding ==
  /\ oiPc = "applying" /\ queue # << >> /\ Head(queue).sufficient
  /\ ~Stops(Head(queue))
  /\ LET f == Head(queue)
     IN /\ params' = Changed(Cell(f), f.value, params)
        /\ trail' = Append(trail, TrailRow(f, "approved",
                      IF f.target \in ExploitTargets THEN "1"
                      ELSE Value(Cell(f), params)))
        /\ seen' = seen \cup {Key(f)}
        /\ roles' = roles \cup {<<f.id, f.target>>}
  /\ queue' = Tail(queue)
  /\ UNCHANGED <<oiPc, domain, saved, oiRun>>

SaveConditioned ==
  /\ oiPc = "applying" /\ queue = << >>
  /\ saved' = [params |-> params, trail |-> trail]
  /\ oiPc' = "saved"
  /\ UNCHANGED <<domain, params, trail, queue, seen, roles, oiRun>>

\* A run without a findings file.
NoScan ==
  /\ oiPc = "copied"
  /\ oiPc' = "saved"
  /\ UNCHANGED <<domain, params, trail, queue, seen, roles, saved, oiRun>>

\* The output of a run is the model of the next.
RerunResults ==
  /\ oiPc = "saved" /\ oiRun < MaxOiRuns
  /\ oiPc' = "copied" /\ oiRun' = oiRun + 1
  /\ params' = saved.params /\ trail' = saved.trail
  /\ seen' = {} /\ roles' = {}
  /\ UNCHANGED <<domain, queue, saved>>

OiNext ==
  \/ \E file \in Files : Snapshot(file)
  \/ SkipFinding \/ StopAtFinding \/ ApplyFinding \/ SaveConditioned
  \/ NoScan \/ RerunResults

OiSpec == OiInit /\ [][OiNext]_oiVars

-----------------------------------------------------------------------------
(* Properties.                                                             *)

ApprovedRows == {k \in DOMAIN saved.trail : saved.trail[k].status = "approved"}

\* The parameters after the approved rows of a trail.
Applied(ps, r) == IF r.status = "approved" THEN Changed(Cell(r.of), r.of.value, ps) ELSE ps
Replay(rows) == FoldLeft(Applied, Models[domain], rows)
Replayed(k) == Replay(SubSeq(saved.trail, 1, k))

\* The audit trail of the output explains it: the approved rows lead from the
\* model to its parameters, whether a run stopped half-way or followed another,
\* each with the value it replaced (a barrier's is known in the first run
\* only); each has sufficient attribution, two of a run change one parameter
\* only if it is an exposure route that they spell differently, and a finding
\* that changed an exposure and a barrier says so (router.py:250-407, 924-937).
TrailExplains ==
  /\ Replayed(Len(saved.trail)) = saved.params
  /\ \A k \in ApprovedRows :
       LET r == saved.trail[k]
       IN /\ r.of.approved /\ r.of.sufficient
          /\ \/ r.of.target \in ExploitTargets /\ r.run > 1
             \/ r.baseline = Value(Cell(r.of), Replayed(k - 1))
          /\ \A j \in ApprovedRows \ {k} :
               LET s == saved.trail[j]
               IN s.run = r.run =>
                    /\ Cell(s.of) = Cell(r.of) =>
                         r.of.target = "exposure_route" /\ s.of.field # r.of.field
                    /\ (/\ s.of.id = r.of.id /\ s.of.target \in ExploitTargets
                        /\ r.of.target \in ExposureTargets)
                       => s.of.assessed \/ r.of.assessed

\* "Two approved outside-in rows target the same parameter ...; refusing
\* possible double counting" (router.py:310-313): no two approved rows of a run
\* change one cell.  The code keeps this but for routes spelled in two ways.
CountedOnce ==
  \A j, k \in ApprovedRows :
    j # k /\ saved.trail[j].run = saved.trail[k].run =>
      Cell(saved.trail[j].of) # Cell(saved.trail[k].of)
=============================================================================
