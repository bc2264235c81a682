------------------------------ MODULE Execution ------------------------------
(***************************************************************************)
(* One process of the synchronous Lambda (crq/lambda_adapter.py) and what  *)
(* it runs: the application service (application/service.py), the resolver *)
(* of approved bundles (bundle_resolver.py, model_bundle.py,               *)
(* pack_registry.py), the facade that sets process-wide environment flags  *)
(* around the engine (facade.py) and the normalisation of what the engine  *)
(* returns (result_adapter.py).  The process is warm: requests follow one  *)
(* another and share its environment.  The worker calls the same service.  *)
(***************************************************************************)
EXTENDS Naturals, Sequences, FiniteSets

CONSTANTS
  Requests,      \* the events the Lambda may receive
  Registry,      \* rows of config/approved_model_bundles.json, a sequence
  Deployments,   \* [package, cwd]: the packs under each root, cwd may be NoRoot
  NoRoot,        \* no pack registry at or above the working directory
  Environments,  \* environments the operator may start the process with
  Unset,         \* a variable that is not in the environment
  None,          \* no value, a Python None
  MaxRequests    \* requests one process serves

VARIABLES
  pc,          \* the step the process is at
  request,     \* the event being handled
  deployment,  \* the files the process was deployed with
  operator,    \* the environment the process was started with
  env,         \* os.environ, the three flags of it
  previous,    \* facade: what the flags were before the run
  bundle,      \* the resolved ModelBundle
  native,      \* what the engine returned
  fault,       \* an exception on its way up: a ValueError, or another
  answer,      \* the last HTTP response: [status, code, result]
  served       \* requests answered

execVars == <<pc, request, deployment, operator, env, previous, bundle, native,
              fault, answer, served>>

Flags == {"packages", "sensitivity", "backend"}

-----------------------------------------------------------------------------
(* The boundary.                                                           *)

ErrorStatus ==
  [INVALID_REQUEST |-> 400, INVALID_ASSESSMENT |-> 422, UNSUPPORTED_DOMAIN |-> 422,
   UNSUPPORTED_SECTOR |-> 422, MODEL_BUNDLE_NOT_FOUND |-> 404,
   MODEL_BUNDLE_INCOMPATIBLE |-> 422, SCHEMA_VERSION_UNSUPPORTED |-> 422,
   VALIDATION_FAILED |-> 422, EXECUTION_FAILED |-> 500,
   RESULT_VALIDATION_FAILED |-> 500]

Faults == {"value", "other"}

\* None is no error code and no exception, an unset flag is not set to "1", the
\* registry is a list.
ASSUME ExecutionAssumption ==
  /\ None \notin DOMAIN ErrorStatus \cup Faults
  /\ Unset # "1"
  /\ Registry \in Seq({Registry[i] : i \in DOMAIN Registry})

Refusal(status) == [status |-> status, code |-> "INVALID_REQUEST", result |-> None]
Failure(code) == [status |-> ErrorStatus[code], code |-> code, result |-> None]
Delivered(result) == [status |-> 200, code |-> None, result |-> result]

\* What the handler answers on its own, None when it asks the service.
Boundary(r) ==
  CASE r.path = "health" -> IF r.method = "GET" THEN Delivered(None) ELSE Refusal(405)
    [] r.path = "other" -> Refusal(404)
    [] r.path = "run" /\ r.method # "POST" -> Refusal(405)
    [] r.path = "run" /\ r.method = "POST" ->
         CASE r.type # "application/json" -> Refusal(415)
           [] r.body \in {"undecodable", "empty"} -> Refusal(400)
           [] r.body = "large" -> Refusal(413)
           [] OTHER -> None

Take(r) ==
  /\ pc = "idle" /\ served < MaxRequests
  /\ request' = r
  /\ IF Boundary(r) = None
     THEN pc' = "check" /\ UNCHANGED <<answer, served>>
     ELSE answer' = Boundary(r) /\ served' = served + 1 /\ UNCHANGED pc
  /\ bundle' = None /\ native' = None /\ fault' = None
  /\ UNCHANGED <<deployment, operator, env, previous>>

Respond(a) == pc' = "idle" /\ answer' = a /\ served' = served + 1

-----------------------------------------------------------------------------
(* The service before the run.                                             *)

SectorsOf == [IT |-> {"Financial"}, OT |-> {"Power", "Energy", "Manufacturing"}]

\* The first check of the request and its assessment that fails, in order.
RequestCode(r) ==
  CASE r.body = "notJson" \/ r.body = "badShape" -> "INVALID_REQUEST"
    [] r.body = "oldSchema" -> "SCHEMA_VERSION_UNSUPPORTED"
    [] r.domain \notin DOMAIN SectorsOf -> "UNSUPPORTED_DOMAIN"
    [] r.domain \in DOMAIN SectorsOf /\ r.sector \notin SectorsOf[r.domain] ->
         "UNSUPPORTED_SECTOR"
    [] OTHER -> IF r.optional THEN "VALIDATION_FAILED"
                ELSE IF ~r.canonical THEN "INVALID_ASSESSMENT"
                ELSE IF ~r.runMatches THEN "VALIDATION_FAILED" ELSE None

Check ==
  /\ pc = "check"
  /\ IF RequestCode(request) = None
     THEN pc' = "resolve" /\ UNCHANGED <<answer, served>>
     ELSE Respond(Failure(RequestCode(request)))
  /\ UNCHANGED <<request, deployment, operator, env, previous, bundle, native, fault>>

\* The first row of the id decides; the pack is the one of the package.
RowOf(id) == Registry[CHOOSE i \in DOMAIN Registry :
                      Registry[i].id = id /\ \A j \in 1..(i - 1) : Registry[j].id # id]

PackOf(root, sector) == root[sector]

\* load_model_bundle: validate_pack_file, then everything is hashed.
Bundle(pack, row) ==
  [id |-> pack.id, version |-> row.version, hash |-> pack.hash,
   packVersion |-> pack.version, assets |-> pack.assets]

ResolveCode(r) ==
  IF \A i \in DOMAIN Registry : Registry[i].id # r.id THEN "MODEL_BUNDLE_NOT_FOUND"
  ELSE LET row == RowOf(r.id)
           pack == PackOf(deployment.package, r.sector)
       IN CASE row.status # "APPROVED" \/ row.version # r.version ->
                 "MODEL_BUNDLE_NOT_FOUND"
            [] row.status = "APPROVED" /\ row.version = r.version ->
                 IF <<row.domain, row.sector>> # <<r.domain, r.sector>>
                 THEN "MODEL_BUNDLE_INCOMPATIBLE"
                 ELSE IF ~pack.valid THEN "VALIDATION_FAILED"
                 ELSE IF \/ r.asset \notin pack.assets
                         \/ pack.id # row.id \/ pack.version # row.packVersion
                         \/ pack.hash # row.hash
                 THEN "MODEL_BUNDLE_INCOMPATIBLE" ELSE None

Resolve ==
  /\ pc = "resolve"
  /\ IF ResolveCode(request) = None
     THEN /\ bundle' = Bundle(PackOf(deployment.package, request.sector), RowOf(request.id))
          /\ pc' = "materialize" /\ UNCHANGED <<answer, served>>
     ELSE Respond(Failure(ResolveCode(request))) /\ UNCHANGED bundle
  /\ UNCHANGED <<request, deployment, operator, env, previous, native, fault>>

-----------------------------------------------------------------------------
(* The facade.                                                             *)

\* Writing the workbook: Workbook says what is written, here it may fail.
WriteInputs ==
  /\ pc = "materialize"
  /\ \/ pc' = "enter" /\ UNCHANGED <<answer, served>>
     \/ \E code \in {"VALIDATION_FAILED", "EXECUTION_FAILED"} : Respond(Failure(code))
  /\ UNCHANGED <<request, deployment, operator, env, previous, bundle, native, fault>>

\* Mutant of RunFlags: what is not asked for is left as the operator has it.
OnlyWhatIsAsked == [env EXCEPT !.backend = "1"]

\* The service asks for no optional analysis.
RunFlags == [packages |-> Unset, sensitivity |-> Unset, backend |-> "1"]

EnterFlags ==
  /\ pc = "enter"
  /\ previous' = env
  /\ env' = RunFlags
  /\ pc' = "engine"
  /\ UNCHANGED <<request, deployment, operator, bundle, native, fault, answer, served>>

\* The analyses the router asks of the engine, from the environment.
Analyses == {f \in {"packages", "sensitivity"} :
               IF f = "packages" THEN env[f] = "1" ELSE env[f] \notin {Unset, ""}}

\* The model is a temporary file: project_root_from finds no registry above it
\* and falls back to the working directory, whose packs the engine reads.
CallEngine ==
  /\ pc = "engine"
  /\ \/ /\ deployment.cwd # NoRoot /\ PackOf(deployment.cwd, request.sector).valid
        /\ \E finite, complete \in BOOLEAN :
             native' = [hash |-> PackOf(deployment.cwd, request.sector).hash,
                        analyses |-> Analyses, finite |-> finite,
                        complete |-> complete]
        /\ UNCHANGED fault
     \/ /\ fault' \in Faults
        /\ UNCHANGED native
  /\ pc' = "leave"
  /\ UNCHANGED <<request, deployment, operator, env, previous, bundle, answer, served>>

\* Mutant of LeaveFlags: the flags are put back after the run, not in a finally.
RestoreAfterTheRun ==
  /\ pc = "leave"
  /\ env' = IF fault = None THEN previous ELSE env
  /\ previous' = None
  /\ CASE fault = None -> pc' = "normalize" /\ UNCHANGED <<answer, served>>
       [] fault = "value" -> Respond(Failure("VALIDATION_FAILED"))
       [] OTHER -> Respond(Failure("EXECUTION_FAILED"))
  /\ UNCHANGED <<request, deployment, operator, bundle, native, fault>>

\* The finally of _runtime_flags, whether the engine returned or raised.
LeaveFlags ==
  /\ pc = "leave"
  /\ env' = previous
  /\ previous' = None
  /\ CASE fault = None -> pc' = "normalize" /\ UNCHANGED <<answer, served>>
       [] fault = "value" -> Respond(Failure("VALIDATION_FAILED"))
       [] OTHER -> Respond(Failure("EXECUTION_FAILED"))
  /\ UNCHANGED <<request, deployment, operator, bundle, native, fault>>

-----------------------------------------------------------------------------
(* The result.                                                             *)

\* Provenance is the bundle's, whatever pack the engine says it read; a metric
\* that is missing is a KeyError, a number that is not finite fails the hash.
Finish ==
  /\ pc = "normalize"
  /\ Respond(IF ~native.complete THEN Failure("VALIDATION_FAILED")
             ELSE IF ~native.finite THEN Failure("RESULT_VALIDATION_FAILED")
             ELSE Delivered([bundle |-> bundle, read |-> native.hash,
                           analyses |-> native.analyses, finite |-> native.finite]))
  /\ UNCHANGED <<request, deployment, operator, env, previous, bundle, native, fault>>

ExecInit ==
  /\ pc = "idle" /\ request = None /\ deployment \in Deployments
  /\ operator \in Environments /\ env = operator /\ previous = None
  /\ bundle = None /\ native = None /\ fault = None
  /\ answer = None /\ served = 0

ExecNext ==
  \/ \E r \in Requests : Take(r)
  \/ Check \/ Resolve \/ WriteInputs \/ EnterFlags \/ CallEngine \/ LeaveFlags \/ Finish

ExecSpec == ExecInit /\ [][ExecNext]_execVars

-----------------------------------------------------------------------------

\* A result is only answered for an approved row that is of this request and
\* whose pack is, byte for byte, the one that was approved.  It holds finite
\* numbers and no optional analysis, whatever the operator's environment asks
\* for, and when the process works in its package the engine read that very
\* pack.  Every other answer carries an error and no result.
AnswerIsGoverned ==
  (pc = "idle" /\ answer # None /\ request.path = "run") =>
    IF answer.status = 200
    THEN /\ answer.code = None /\ answer.result.finite
         /\ answer.result.analyses = {}
         /\ \E i \in DOMAIN Registry :
              LET row == Registry[i]
              IN /\ row.status = "APPROVED"
                 /\ <<row.id, row.version>> = <<request.id, request.version>>
                 /\ <<row.domain, row.sector>> = <<request.domain, request.sector>>
                 /\ row.hash = answer.result.bundle.hash
                 /\ deployment.cwd = deployment.package =>
                      answer.result.read = row.hash
    ELSE answer.code # None /\ answer.result = None

\* What the flags are saved in while the engine runs.
FlagsKept ==
  IF pc \in {"engine", "leave"} THEN previous = operator ELSE env = operator

\* Whoever got this far was let through by the checks before.
ChecksPassed ==
  pc \in {"materialize", "enter", "engine", "leave", "normalize"} =>
    /\ ResolveCode(request) = None
    /\ bundle = Bundle(PackOf(deployment.package, request.sector), RowOf(request.id))

\* The engine runs under the service's flags, on the packs it finds.
EngineGoverned ==
  /\ pc = "engine" => env = RunFlags
  /\ (pc = "leave" /\ fault = None) \/ pc = "normalize" =>
       /\ native.analyses = {}
       /\ native.hash = PackOf(deployment.cwd, request.sector).hash

\* Between two requests the environment is the operator's own, a flag that was
\* not set is not set again, however the run before ended.
EnvironmentRestored ==
  pc \in {"idle", "check", "resolve", "materialize", "enter", "normalize"} =>
    env = operator
=============================================================================
