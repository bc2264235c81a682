# A verification project for the CRQ platform

The repository computes cyber risk (IT, OT and combined) for an assessment and
serves it as a product: a browser client, an API on AWS Lambda, a worker on AWS
Lambda, S3 objects and an SQS queue in between.  This directory holds TLA+
models of that system, TLC configurations that check them on small instances,
and proofs that TLAPS checks for every instance.  Paths in this text are
relative to the repository root; line numbers refer to the modelled commit.

## 1. Inventory

| Component | State it keeps | Operations | Interacts with | What makes it correct |
|---|---|---|---|---|
| Asynchronous run protocol: `src/crq/product/api_lambda.py` (`_submit_run`, `_record_enqueued`, `_get_run`, `_get_result`), `worker_lambda.py`, `storage.py`, `records.py`, `contracts.py`, `infra/phase5a/main.tf` | per run three S3 objects (`request.json`, `status.json`, `result.json`), messages on SQS | submit, enqueue, mark enqueued, receive, claim with a lease, execute, persist, complete, promote, fail, redeliver, dead-letter | S3 with conditional writes, SQS, the application service | COMPLETED is final and names the one persisted result; attempts bound executions; no conditional write undoes another; an accepted run settles |
| Assessment store: `api_lambda.py:98-157` | `input.json`, `metadata.json` per assessment | create, replace by a higher version, read | S3; `_submit_run` reads it | versions only grow, both objects describe the same version |
| Application service: `src/crq/application/` | none between calls; environment flags during one | `execute_assessment`: parse, resolve bundle, check versions, run, adapt the result | the runtime facade, the bundle resolver | one governed error per failing stage; flags are restored on every path |
| Copilot: `src/crq/copilot/`, `api_lambda.py:248-330` | `narrative.json` per run; facts, candidates and reasons during one question | query, narrative generation, generate-and-verify loop with a fallback | Bedrock (external) | no unverified text is shown; a run has one narrative |
| Synchronous Lambda boundary: `src/crq/lambda_adapter.py` | none | one request, one response | application service | every outcome has a bounded response |
| Combined router: `src/it_ot_crq/router.py` | workbooks during one call | approved adjustments, IT run, OT run, aggregation | both engines | an approved finding changes one parameter once, and the audit trail leads from the model to the output |
| IT engine, OT engine: `src/it_crq/engine.py`, `src/ot_crq/engine.py`, `packs.py` | arrays during one simulation | path and barrier states, feasibility, frequency, severity, simulation, refresh | packs, impact formulas | a shock is measured alone and put back; a raised control adds no loss; every table adds up to the same year |
| Insurance, appetite, metrics: `src/crq/insurance.py`, `appetite.py`, `metrics.py` | none | layered recovery, appetite status, quantiles and tail means | the engines | a recovery is never more than the loss or the limit; indices at the tail |
| Packs and registry: `src/crq/pack_registry.py`, `io_safety.py` | files | resolve and validate packs, replace files atomically | engines | only approved packs resolve |
| Browser client: `frontend/src/` | session and draft state in the browser | save draft, run, poll, show result, ask the copilot | the API over HTTP | one submission per intent, the poll loop ends |
| Workbook reporting, dashboards, scripts, data | spreadsheets | formatting, tooling | | no protocol to check |

The hard behaviour is concentrated in the run protocol.  S3 and SQS share no
transaction; every invocation may stop between two remote calls; SQS delivers
at least once; a lease, a visibility timeout and a Lambda time limit run at the
same time; the S3 client repeats conditional writes.  That is why it is
modelled first and in most detail.  Behind it are computations that are long
rather than concurrent: an engine evaluates the same inputs dozens of times and
must put back what it changed, a workbook reaches an engine in three ways, a
warm process serves one request after another.  `PROJECT.json` lists each hazard
at its line with the properties that cover it.

## 2. Modules

| Module | What it is |
|---|---|
| `RunContract` | what a client may rely on when it reads `status.json` and `result.json` of a run: accepted once, at most `MaxAttempts` attempts, one result, COMPLETED only with that result and for good |
| `RunLifecycle` | the run protocol: submitters, workers, the queue, faults and time, one action per remote call |
| `AssessmentStore` | the stored assessment: browsers that save a draft and run it, direct clients, and `POST /v1/assessments` one remote call at a time |
| `RunClient` | one browser: the review page, the run page with its poll chains, the results page, and the user who moves between them |
| `Narratives` | the narrative of a run: racing `POST /v1/runs/{id}/narrative` requests and the one that is kept |
| `CopilotService` | one question to the copilot: facts, canned answers, the generate-and-verify loop |
| `Execution` | one warm process of the synchronous Lambda with the application service, the bundle resolver, the facade's environment flags and the result adapter |
| `Workbook` | the inputs of a run and the three ways they reach an engine, and what is written back |
| `OutsideIn` | the router's outside-in layer: approved findings that change parameters, and their audit trail |
| `Sums` | sums, joins and the order of a sequence, which `sum`, `numpy` and `sorted` compute |
| `Barriers` | the fixed-point arithmetic and the combination of controls that both engines use |
| `ItEngine`, `OtEngine` | `refresh` of the two engines, from the prepared inputs to the returned result |
| `TailMetrics`, `Insurance` | quantiles, tail means, contributions, appetite; the insurance programme layer by layer |
| `MCRunLifecycle`, `MCAssessmentStore`, `MCRunClient`, `MCCopilot`, `MCItEngine`, `MCOtEngine`, `MCInsurance`, `MCWorkbook`, `MCOutsideIn`, `MCExecution` | small instances |
| `MCRunFair` | `RunLifecycle` under two profiles of faults, for liveness |
| `MCParts` | the parts that share no state, one at a time in one run |
| `...Proofs` | the theorems about the module they are named for; `ServiceProofs` those about `Narratives`, `Execution`, `OutsideIn`, `CopilotService` and `Workbook`, `EngineProofs` those about `OtEngine` |
| `SumProofs` | lemmas both engines' proofs share: what folds, sums and rankings of any length are worth in a proof, and the arithmetic of barriers |

`RunLifecycle` refines `RunContract`.  `RunClient` sees of the server only the
states that `RunContract` lets a run go through (COMPLETED stays, FAILED may be
retried or promoted).  `AssessmentStore` and `RunLifecycle` meet in one call:
`_submit_run` copies the stored assessment into the run (`Submit`), and the run
never reads it again.  `RunLifecycle!Execute` is one call of the service that
`Execution` takes apart; `Execution!WriteInputs` stands for `Workbook`, and its
`CallEngine` for one of the engines; the engines' annual losses are what
`Insurance` starts from.  `Narratives!QueryCopilot` stands for `CopilotService`.

### How `RunLifecycle` corresponds to the code

One run is modelled.  Every object of a run lives under its own key prefix
(`contracts.run_key`) and the run id is derived from the idempotency key
(`api_lambda.py:180`), so runs do not interact.

* **State.** `request`, `status` and `result` are the three S3 objects.
  `status` keeps the fields the protocol reads: state, attempt, lease,
  `enqueued_at` (whether it is set), `result_available`, `result_hash`, the kind
  of error and the bundle, with its ETag.  Because every object body contains a
  microsecond timestamp, an ETag identifies one write; ETags are numbered.
  `queue` has one message per submitter, because a submitter sends at most one.
  `apc`, `aseen`, `response` are the program counter, the status record and the
  answer of an API invocation; `wpc`, `job`, `wseen`, `output` and `left` are the
  counterparts of a worker, with the time its invocation has left.
* **Submitters** (`_submit_run`): `StartSubmit` (validation, bundle),
  `PutRequest`, `CreateStatus` (If-None-Match), `ReadExisting` (the branch after
  a conflict), `SendJob`, `RecordEnqueued` (If-Match, a conflict is ignored).
  `ApiFail` stops an invocation anywhere.
* **Workers** (`handler`, `_process`, `_mark_failed`): `GetStatus`,
  `GetResult`, `Promote`, `Claim`, `Execute`, `WriteGoverned`, `Persist`,
  `Complete`, `Recheck`, `MarkRead`, `MarkWrite`.  A message is acknowledged
  (`Ack`) when the handler reports no failure and stays (`Nack`) otherwise.
  The read of `request.json` and its match with the job (`worker_lambda.py:77-78`)
  are part of `Execute`: `StatusNamesRequest` shows that the match cannot fail.
* **External**: `Receive` (delivery and visibility timeout), `DeadLetter`
  (redrive), `KillWorker` (crash or time limit), `WriteAnswerLost`,
  `ApiAnswerLost`, `ClaimAnswerLost` (an answer of S3 does not arrive; the SDK
  repeats the call and gets a conflict, or gives up), `WorkerError` (any other
  exception), `Tick` (time).
* **Time.** Deadlines are the time left until them.  `Tick` ages the lease, every
  snapshot of it, the visibility timeouts and the invocations together, so
  that leases that workers remember expire like the stored one.  The constants
  keep the order of the real limits: worker time limit 900 s < visibility
  timeout 960 s = lease 16 min.

### How `AssessmentStore` corresponds to the code

One assessment of one tenant is modelled; no key is shared with another one
(`contracts.assessment_key`).  `input` and `metadata` are the two objects with
their ETag, version and content.  An ETag stands for one write, because every
body has its time.  The hash the code compares covers the version and the
content, so equal hashes are equal pairs.  A content is a model value:
`assessment_from_public_payload` normalises what it stores, and the browser
compares what it gets back.

* **Browsers** (`HttpRunApi.submit`): `Edit` starts a save, `Load` is the GET of
  `saveAssessmentDraft` with its three outcomes (unchanged, next version, first
  version), the invocation follows, and `Submit` asks for the run.  `DraftVersion`
  is 1 because the draft starts from the approved example request.
* **Direct clients** post a version of their own choice (`Post`).  They also
  stand for an invocation that goes on after its browser has given up.
* **The invocation** (`_create_assessment`): `PutInput`, `PutMetadata` (both
  If-None-Match), `GetInput` with its three outcomes after a conflict,
  `ReplaceInput`, `GetMetadata`, `ReplaceMetadata`, `CreateMetadata`.
* **Faults**: `Stop` (a call raises, or the invocation or the request is lost),
  `InputAnswerLost` and `MetadataAnswerLost` (the put took effect, the repeated
  call conflicts with itself).

Two things the model shows a reader.  A 409 may be answered although the
posted assessment is stored: the conflict may come from `metadata.json`, or from
the repeated put.  And `metadata.json` may stay behind `input.json` for ever; it
never gets ahead (`MetadataFollows`).

### How `RunClient` corresponds to the code

A React page is gone when its user leaves, what its handlers await is not.
Each effect of `RunPage` is a *chain* of status requests with its own `active`
flag; `at` says what the chain waits for: a request (`asked`), the continuation
of a settled promise (`answered`, `refused`), the poll timer (`waiting`), the
request for the result (`fetching`) or the navigation timer (`leaving`).
`Unmounted` is the effect's clean-up.  `Arrive` opens a page.  The routes have no
key, so a component stays mounted when only the run in the address changes
(`stays`): then `status` and `completed.current` of `RunPage` and `result` of
`ResultsPage` live on.  A reload drops everything under way.

`Click` draws a key, `Create` is the server's acceptance (possibly after the
browser gave up), `Accepted` and `Rejected` settle the promise.  Saving the draft
before the submission is `AssessmentStore`'s.  `ServerStep` moves a run as
`RunContract` allows.  `Served` is what `GET .../result` makes of each state: 200
and the 202 for an unfinished run both count as ok.  Only links and history
entries of accepted runs are followed, so 404 does not occur.

### How `Narratives` and `CopilotService` correspond to the code

`Narratives` follows `_create_narrative` call by call: read the stored narrative,
ask the copilot, write with If-None-Match, read the winner after a conflict.  A
request may stop anywhere, and its write may have been applied (`LoseRequest`).

`CopilotService` is one call of `query`.  `Ask` builds the facts of the view
(`Collected`: what is listed, narrowed to the selected entity, capped at
`MaxFacts`) and the governed comparison.  Prose is the set of *claims* a reader
takes from it (a number, a name, a rank, a path state, a comparison, a vague
label) with the facts it cites.  The model is arbitrary: `Candidate` takes any
set of claims of `Phrases` with any of four sets of citations.  `Completed` and
`Reasons` are `_complete_exact_fact_citations` and `verify_response`; the canned
answers of each view are translated one by one.

### How `Execution` corresponds to the code

`Boundary` is `lambda_handler` up to the service, `RequestCode` and `ResolveCode`
give the first check that fails, in the code's order.  `EnterFlags`,
`CallEngine` and `LeaveFlags` are `_runtime_flags` around the engine: `env` is
`os.environ`, `previous` what the facade saved.  A process serves several
requests, so a flag that is left behind meets the next one.  A deployment has
packs under the package and, possibly others, under the working directory,
because the engine looks for its packs from the temporary workbook and falls
back to the working directory (`router.py:895`).

### How `Workbook` and `OutsideIn` correspond to the code

A workbook is a record of the cells that the ways to an engine treat
differently.  `CopyModel` runs it as it is, `Extract` and `Materialize` replay the
client-owned cells of its domain (`CarriedFields`) on the template (the facade), `Submit` validates the public
projection and builds new cells from it (the service).  `Prepared` and
`EngineInputs` are what `_run_it` and `_run_ot` make of the staged workbook: `Reporting`
settles the basis of the run from the IT settings and Run Setup, and it is written where
the engine reads it.  `WriteBack` is the results workbook, which gets the basis back, and
`Rerun` runs that again.

`OutsideIn` applies the approved findings in order: `SkipFinding`,
`StopAtFinding` (a parameter twice, one finding on both sides, a value or target
that does not apply) and `ApplyFinding`.  That a parameter comes twice is told from
the field as it is written (`Key`), what is changed is the cell it names (`Cell`).  The
two differ for exposure routes, whose spelling the code normalises before it writes:
`RouteSpelling` gives the cell of each spelling.  A stop drops the workbook in memory,
so the output is the unconditioned copy.

### How the engines correspond to the code

Both are `refresh`, stage by stage, and both are models of the control and of
the bookkeeping, not of the distributions.  `ItEngine` builds one cell per
actor, scenario and route (`Cells`), simulates them over one stream of random
numbers that is read exactly as the generator is (an item per year for the
counts, then the events' latents), and re-simulates them for what-ifs
(`ItWhatIf`), packages (`ItPackage`, which use the ranking of the what-ifs) and
sensitivities (`Sensitivity`).  `OtEngine` builds one skeleton of campaigns
(`BuildContext`) and evaluates it again and again; a shock changes the inputs the
evaluation closes over (`ApplyShock`) and puts them back (`MeasureShock`).
Both save the workbook before their last stage, as the code does.

`Insurance` parses a programme (`ParseLayer`, `EndParse`), applies it
(`ApplyLayer`, `CapRecovery`) and measures gross and residual losses (`Measure`)
with the operators of `TailMetrics`: `ExpectedShortfall` counts the trial at the
cut by its fraction, `ValueAtRisk` takes the higher neighbour.

### Abstractions

* Validation, ownership and serialisation of a submission are left out of
  `RunLifecycle`: they come before the first write and change nothing.  Its
  messages keep the bundle, the only identifier that two submissions under
  one key can disagree on.  A result is the number of the execution that produced
  it, because a result contains its own run id and time
  (`docs/productisation/PHASE4A_ASYNC_FRONTEND_DESIGN.md:38`).  `Duplicates` says
  whether SQS delivers a message that is still hidden; `Overtake` whether a
  worker may be given a job before its submitter has finished marking it.
* Probabilities, shares and factors are integers of `Unit`, rounded down.  What the
  properties need of the code's doubles is that rounding is monotone; the test of the
  attempts, which the code makes to 1e-9, allows one per cell here (`Preserves`).
* A loss distribution is its P50 and P99, chosen by a latent's threshold.  The
  random stream of `ItEngine` is a list read cyclically, the draws of `OtEngine` a
  set of skeletons; what another rate draws is given by `Redrawn`.
* Losses, limits and amounts are small integers, levels are in percent, and a
  mean is a pair of sum and count, so comparisons are exact.
* Wording, layout, formatting and logging are left out everywhere.

## 3. Runs

`CHECK_DEADLOCK FALSE` is set everywhere because the system really may stop: when
all clients are answered, all messages are gone and nobody asks for more there
is nothing to do, and a refresh ends when it has returned.

| Run | Instance and faults | Checks |
|---|---|---|
| `RunSafety` | 2 submitters with 2 bundles under one key, 2 workers, duplicates, overtaking, a killed worker | `TypeOK`, `StatusNamesRequest`, `CompletedNamesResult`, `ExecutionsBounded`, `OneWorkerPerAttempt`, `AcceptedIsPublished`, `ExclusiveExecution` |
| `RunLostAnswers` | 1 bundle, 1 lost answer and 1 error, no duplicates | `IInv`, `CompletedIsFinal`, `NoLostUpdate`, `ImplementsContract` |
| `RunSettles` | `MCRunFair`, fair; profile *quiet*: 2 submitters, duplicates, no fault, no overtaking; profile *faulty*: 1 submitter, 1 error, 1 killed worker, 3 attempts and receives, no duplicates | `QuietRunsSettle`, `FaultyRunsPromote` |
| `AssessmentSaves` | 3 browsers, 1 direct client, 2 contents, 1 save each, 1 fault | `RunsAgree`, `RunsOwnSave`, `MetadataFollows`, `IInv`, `NoLostUpdate`, `VersionsGrow` |
| `ClientPages` | `MCRunClient`: 2 runs, 2 visits of the run page, 1 failing request; profile *roams*: a user who moves about; profile *stays*: a user who does not, fair, the request for the result does not fail | `TypeOK`, `ShownIsOfThisRun`, `OnePoller`, `RoutesToResult`, `StayingIsRouted` |
| `Parts` | `MCParts`, each part on the instance of its own MC module | 16 invariants, see below |
| `RunOvertaken` | 1 submitter, 1 worker, no fault, overtaking, fair | violates `AcceptedSettles` |
| `RunStuck` | 1 submitter, 1 worker, 1 killed worker, fair | violates `AcceptedSettles` |
| `RunResultStranded` | 2 workers, duplicates, 1 error, fair | violates `ResultIsPromoted` |
| `ClientStuck` | 1 run, 1 failing request, fair | violates `CompletedIsRouted` |
| `CopilotDominant` | the copilot of `Parts` | violates `DominantIsLargest` |
| `InputsReseeded` | the workbooks of `Parts` | violates `InputBlockKept` |

`Parts` takes eight parts that share no state in one run.  Its first step is any
of theirs and later steps are of the same part (`part`), so the reachable states
are those of the parts side by side and every invariant is about one of them.

| Part | Invariants |
|---|---|
| copilot | `ShownIsGrounded`: whatever is shown is backed by cited facts; `AnswerIsOfSelection`: an answer about a selected scenario is about that one alone |
| narratives | `OneNarrative`: everyone is given the one stored narrative |
| OT engine | `UpliftAddsNoLoss`: a raised control adds no loss to any year; `ShocksAreAlone`: every shock is measured alone and put back; `ExcludedNeverLose`: an excluded path causes no loss |
| IT engine | `BlockShocksAreExact`: a shock of one block moves no event; `LossesDecompose`: every table adds up to the same year; `UpliftLowersRates`: the OT property, cell by cell; `AttemptsAreKept`: no attempt is lost between routes, but for rounding |
| insurance | `RecoveryWithinLoss`: layers that do not overlap never pay more than the loss; `TailsAreCoherent`: quantile, tail mean, average, contributions and residuals are ordered and add up |
| workbook | `RunsAlike`: an engine is given the same inputs whichever way they come |
| outside-in | `TrailExplains`: the audit trail leads from the model to the output |
| execution | `AnswerIsGoverned`: a result comes from the approved pack and the service's own flags; `EnvironmentRestored`: the flags are put back |

**Bounds.** Two submitters and two workers are what every hazard of the protocol
needs: each of them is about one invocation that read something and another that
changed it.  `MaxAttempts` and `MaxReceive` are 2 where a third attempt adds
nothing, and 3, as in the code, where the retry limit itself matters.  `Lease =
Visibility = 2` and `Timeout = 1` keep the order of the real limits with one tick
between them.  `MaxErrors`, `MaxLost` and `MaxCrashes` bound the faults; the
proofs hold for every value of them.  In `AssessmentStore` three browsers and a
direct client give savers that race; a browser that saves later builds on
what another one stored.  Two visits and two runs in `RunClient` are a page that was
left and the page that is open, for the same run or another one.  Two
narrative requests with four posts are two that race and their retries.

The engines have two actors, scenarios, stages and controls and two or three
years: a what-if has a control beside the raised one, a shock has neighbours that
ran before it, a stage has a technique the facility closes, and a scenario has no
valid path when it was the only one.  The OT instance starts from every assignment
of levels to its controls.  The insurance instances have programmes with gaps, overlaps, blank shares, shares
out of range, a lone primary limit and repeated names, and samples whose tail
cut falls on and between trials.  The workbooks are all combinations of blank and
filled basis, view, losses, retention, coverage and layers in both domains, IT
workbooks whose two settings of the basis are blank or unknown, and
six that differ from the template in another setting.  The findings files have up to four
rows, one route in two spellings among them.  The copilot's results have ties, zero reductions, a
route without a state and a selection in another family.  `Execution` serves two
requests in one process, because a flag left behind shows in the second.

**Fairness.** `RunLifecycle`'s `FairSpec` assumes that a running invocation takes
its next step or is killed (Lambda runs it), that a visible message is delivered
(the event source mapping polls), and that time passes.  It assumes nothing about
clients and forces no fault.  `MCRunFair` assumes the same under each profile.
`RunClient`'s assumes that requests settle, continuations run and timers fire, as
the browser's event loop does; it assumes nothing about the server, which may
leave a run QUEUED, nor about the user.

### What the violations show

The six violation runs are disagreements between the code and what the
repository's documents, comments or labels say of it; `PROJECT.json` quotes both.

* `RunOvertaken`: the API publishes the job and then rewrites `status.json` to
  set `enqueued_at`.  A worker fast enough to read the status before that
  write loses its claim, takes the conflict for another worker's claim and
  acknowledges the only job.  The run is QUEUED, marked as enqueued, and
  nothing will ever process or republish it.
* `RunStuck`: the lease begins at the claim, the visibility timeout at the
  earlier receive, and both last 960 s.  After a crash the redelivery finds the
  lease still held for the time between the two and acknowledges the message;
  the run stays RUNNING.
* `RunResultStranded`: a duplicate that finds a live lease deletes the message.
  If the first worker then fails to write COMPLETED, it marks the run FAILED
  and relies on a redelivery that will not come.
* `ClientStuck`: the run page marks the run as handled before it fetches the
  result.  If that one request fails, later COMPLETED answers are polled past
  and the page never routes.
* `CopilotDominant`: the first actor and scenario of the result are labelled
  "Dominant", and the canned answer repeats it; the lists are in alphabetical
  order, so the largest may be another one.
* `InputsReseeded`: writing the results seeds the input block of sheet 06 unless
  cell A20 holds its marker, and A20 is also the name of the third layer.  A
  workbook in which that layer was renamed has lost its appetite and its
  insurance programme afterwards.

The passing liveness properties are their counterpart.  `QuietRunsSettle` shows
that an accepted run settles, duplicates included, when no invocation is killed
and no worker overtakes its submitter; `FaultyRunsPromote` that a persisted result
is promoted through an error and a killed worker when no job is duplicated;
`StayingIsRouted` that a completed run is routed when the request for its result
does not fail.

The modules also state properties that the documents promise and the code does
not keep, without a run of their own.  Each is refuted within half a minute when it
is added to a configuration with the instance given:

| Property | Instance | What happens |
|---|---|---|
| `RunLifecycle!GovernedIsFinal` | `RunOvertaken` with 2 submitters and `Spec` | a second job of the run (a submitter that republished it) claims a run that failed with a governed, non-retryable error |
| `RunLifecycle!RetryFindsRun` | the same | a submission that stops between its first two writes leaves a `request.json` without a `status.json`; retries under the key are answered 404 |
| `RunClient!LeavingIsRespected` | `ClientPages` | neither the request for the result nor the navigation timer is stopped when the user leaves the run page, so the page open by then is replaced |
| `RunClient!ResultsAreResults` | `ClientPages` | the 202 of an unfinished run is kept as a result |
| `RunClient!ResultMatchesAddress` | `ClientPages` | the results page keeps the result of the previous run when the address changes to another run, for good when the new request fails |
| `RunClient!RetriesAreReplays` | `ClientPages` | a retry after an uncertain submission draws a new key and starts a second run |
| `OutsideIn!CountedOnce` | `Parts` | two approved rows for one parameter should stop the run, "refusing possible double counting" (`router.py:308-313`), but they are compared by the field as written: `WEB.S1` and `WEB.s1` are one cell, so both are applied in one run and the second value replaces the first; `TrailExplains` holds all the same, since the trail records both changes |

Some observations that no document contradicts, for a reader of the code:

* The hash check covers the pack of the package; the engine reads the packs of
  the working directory.  They are the same file when the process works in its
  package, which is the condition in `AnswerIsGoverned`.
* The sensitivity flag is `bool(os.environ.get(...))`, so `"0"` asks for it;
  the facade unsets it, so only direct runs are affected.
* A blank coverage is 75 % in OT and refused in IT, and a coverage of zero
  becomes 75 % on the way through the service (excluded by `Carryable`).
* A direct run of an OT workbook without a retention takes the default of
  `IT 08`!B18 (`reporting/inputs.py:108-117`).  Only an IT workbook's extraction
  carries that cell (`excel_adapter.py:158`), so the facade runs with the template's
  default, although the extracted `insurance.retention` states the workbook's
  (excluded by `Carryable`; the public payload carries the stated one).
* Nothing checks that the maturity table of an OT sheet rises with the levels, that
  the factor floors of a pack are below its ceilings, or that techniques have a
  positive weight; the governed packs satisfy it, and the theorems about uplifts
  assume it.
* Layers of one name share a row of the layer table, where the later replaces
  the earlier; exhaustion compares the insured loss with a capacity that
  includes the retention.
* A POST of an assessment may be answered 409 although what it posted is stored.

## 4. Proofs

The theorems hold for every value of the constants that the named assumption
admits.  None of the state properties is inductive, so each proof has an invariant
of its own; those of the run protocol and of the store, both named `IInv`, are also
checked by the runs `RunLostAnswers` and `AssessmentSaves`.

| Module | Theorems | Assumption |
|---|---|---|
| `RunLifecycleProofs` | `TypeCorrect`, `Invariance` (`IInv`), `CompletedNamesPersisted`, `BundlesAgree`, `AttemptsExclude`, `AcceptedPublished`, `ExecutionsAreBounded`; the action properties `CompletionIsFinal`, `UpdatesAreKept`; `Refinement` (`Spec => ImplementsContract`) | `RunAssumption`: finitely many workers, `Timeout < Lease`, `Timeout < Visibility` |
| `RunLifecycleProofs`, the lease | `LeasesHold` (`TimingInv`), `ExecutionIsExclusive` (`ExclusiveExecution`) | the same |
| `AssessmentStoreProofs` | `TypeCorrect`, `Invariance` (`IInv`), `MetadataIsBehind`, `RunsOfAVersionAgree`, `RunsUseTheSave`; the action properties `VersionsOnlyGrow`, `UpdatesAreSeen` | `StoreAssumption` |
| `RunClientProofs` | `TypeCorrect`, `ShownIsTrue`, `OnePagePolls`, `RoutesLeadToResults` | `ClientAssumption` |
| `ServiceProofs`, narratives | `NarrativeSafe` (`NarrativeInv`), `EveryoneReadsOne` (`OneNarrative`); the action property `NarrativeNeverReplaced` | `NarrativeBounds`, `NarrativeTexts` |
| `ServiceProofs`, execution | `AnswersAreGoverned`, `EnvironmentIsRestored` | `ExecutionAssumption`: the registry is a sequence, and the marks for nothing are no codes |
| `ServiceProofs`, copilot | `ShownIsBacked` (`ShownIsGrounded`), `AnswersAreOfSelection` (`AnswerIsOfSelection`) | `CopilotResults`: the caps are natural numbers and something may be listed, the families of a result are lists, its scenarios have names, each its own |
| `ServiceProofs`, workbook | `InputsAreAlike` (`RunsAlike`) | `WorkbookCells`: workbooks have the template's cells, a limit is a number or blank, the template sets no appetite and no layer, and a blank is no number, basis or name |
| `ServiceProofs`, outside-in | `TrailLeadsToResults` (`TrailExplains`) | `OiInputs`: a workbook's cells are texts, one that was never run has no overlay of barriers, and a file is a sequence of findings |
| `EngineProofs` | `SensitivitiesAreAlone` (`ShocksAreAlone`), `ExcludedPathsNeverLose` (`ExcludedNeverLose`), `UpliftsAddNoLoss` | `BarrierUnit`: shares are parts of one; `OtPack`: the maturity table rises with the levels, floors are below ceilings and the pack's shares and factors are not negative; `OtInputs`: the numbers of a sheet and of a draw are not negative |
| `ItEngineProofs` | `BlockShocksStayExact` (`BlockShocksAreExact`), `UpliftsLowerRates` (`UpliftLowersRates`), `AnalysesReconcile` (`LossesDecompose`), `AttemptsStayKept` (`AttemptsAreKept`) | `BarrierUnit`; `ItSettings`: years are 1, 2 and so on, at least one, the random numbers lie in `0..Unit - 1`, levels are ordered by their share; `ItPackTables`: a pack's tables name what it lists, its shares, factors and rates are not negative, weights of techniques are positive and floors below the ceiling; `ItWorkbooks`: a workbook's cells hold numbers |
| `InsuranceProofs` | `PaidWithinLayers` (`InsInv`), `NeverOverpaid` (`RecoveryWithinLoss`), `FiguresCohere` (`TailsAreCoherent`) | `InsuranceInputs`, `SimulationInputs`: losses, retentions and attachments are natural numbers, a simulation has a trial, and its drivers add up to the loss of each trial |

**The run protocol.**  That a COMPLETED record names the
result depends on what a worker holds when it writes it.  `IInv`
therefore says, beside the types, what every snapshot is worth (`Snapshots`:
equal ETags are equal records, and attempts never shrink), what the stored
record may be (`StatusOK`), and what each program counter implies about the
job, the record and the output held there (`ApiOK`, `WorkerOK`).
`OneWorkerPerAttempt`, itself one of the checked properties, says that two workers
never hold one attempt: a claim counts one more than the record it replaces, and the
If-Match of its write is what keeps a second claim from replacing the same record.
`PublishedFirst` says that whatever shows progress shows a published job.  The proof goes in three layers.  Lemmas
about the records say field by field
what each write stores (`StoredFields`, `ClaimedFields`, ...).  `WorkerWrites`
and `ApiWrites` sum up every action, faults included, as one of four effects on
`status.json` (none, `Rewritten`, `Created`, `Marked`), and `WorkerFrame` and
`ApiFrame` say what it leaves alone.  `InvWorker`, `InvApi`, `InvQueue` and
`InvTick` then preserve each conjunct from those summaries; `StepEffect`
collects them for the action properties and the refinement.  The bound on the
executions adds `AttemptsCounted`, which counts the workers about to execute.

**The lease.**  `ExclusiveExecution` is about runs without errors and lost answers
whose submitters name one bundle (`Clean`; a clean state has clean predecessors,
`CleanBefore`).  A worker that runs the model holds the current record, and its
lease ends after the worker (`LeaseOutlives`), because a claim takes a full `Lease`
and the worker has at most `Timeout` left; time takes the same from both.  So
whoever else comes to claim holds an older record, or one whose lease is seen to
be held (`LeaseWasOver`).  What could still disturb a running worker is another one
that marks the run FAILED; `MarksAreLate` says that in a clean run nobody comes to
do so unless the result exists or the attempts are used up and nobody runs.  The
second case needs that every record older than a claim tells of fewer attempts
(`AttemptsTold`): a late reader of an old record cannot believe that the attempts
are used up while the last of them is running.  `ResultEnds` says that once there
is a result nobody runs, nor will.

**The assessment store.**  The idea of its invariant is one set, `Facts`: every
pair of a version and a
content that somebody takes for stored (the objects themselves, what a browser
loaded, what an invocation read back or has written, what a client was told,
what a run copied).  `Consistent` says that no fact is beyond `input.json` and
that a version has one content among all of them.  A step either adds a fact
that is there already or writes `input.json` with a version higher than every
fact; that the write is higher is what the comparison at `GetInput` and the
If-Match at `ReplaceInput` give together (`Snapshots`, `ClientOK`).  Each of the
state properties is then an instance of `Consistent`.

**The browser.**  `Polls` says what each poll chain is worth: only the chain of the
open page is active (`ActiveIsOpen`, `OpenIsActive`), only an active chain waits for
its timer, an answer COMPLETED stays true on the server (`AnswersHold`), and once the
chain of the open page has taken an answer, that is what the page shows
(`ShownIsAnswer`).  A chain of a page that
was left may still receive its answer; it is then not active, and shows nothing.

**Narratives, execution, insurance.**  `NarrativeInv` adds to `OneNarrative` what a
request holds at its write and at its second read.  `ExecInv` carries the operator's
environment through the engine (`FlagsKept`), the checks a request passed to get
where it is (`ChecksPassed`) and the flags and the pack the engine ran with
(`EngineGoverned`); that a request resolves to the first matching registry row uses
that a set of indices has a least element.  `InsInv` says of the layers applied
so far that they paid, in each trial, no more than the point where the last one is
exhausted (`PaidSoFar`) and no more than the loss (`WithinLoss`): a layer that
attaches there or above adds at most the part of the loss in it.

**The figures of a report.**  The tail mean is proved as what it is, a weighted sum of
the ordered losses: trials before the cut weigh nothing, the one at the cut its
fraction, the ones behind it all (`Weight`).  The losses of a tail are therefore at
least the one at its cut, and the quantile is not beyond it; a higher cut leaves out the
smallest of them (`MeanGrows`).  Residual losses are below the gross ones trial by
trial, hence in order too, and so are their tails.  The contributions rank the
trials once, by the portfolio; a ranking is a permutation, so the weighted sums of
the drivers and of the categories add up to the portfolio's by exchanging the two sums.
`FiguresInv` carries what was simulated to the report.

**The copilot.**  `CopilotInv` says that the facts are those of the question, and that a
reply is `Backed` by them.  The facts of a view are collected item by item, and each is
about its item (`FactsOfView`).  A reply that the verifier accepts is backed because
`Reasons` is empty (`AcceptedBacked`); each canned answer has a lemma of its own, because
it is shown without going through the verifier (`CannedBacked`).  For `AnswerIsOfSelection`
the order matters: the facts of a view of scenarios start with the tail, the average
and the name of the first scenario that is kept (`ScenarioFirst`), which is the selected
one if there is one, and the comparison is of the same scenario.  So the canned answer,
which takes the first fact of each kind, is about that one (`ScenarioAboutOne`).

**The inputs of a run.**  `WorkbookInv` says that whatever is staged gives an engine what the
user's workbook gives it.  Layers that were read once are `Settled`: closing up
their rows, writing them to other rows and reading them again gives the same
(`LayersAgain`), and preparing a workbook twice is preparing it once (`PreparedAgain`).  What
`Carryable` leaves out is what the code does not carry: setup losses and governed
cells on the facade's and the service's way, for the facade the default retention of an
OT workbook that states none, for the service IT workbooks with two
settings of the basis that differ and a coverage of zero in OT.  When results are run again, the
third layer must still have the marker for its name and an OT basis must not be
"Both" (`Repeats`).

**The outside-in layer.**  `TrailExplains` replays the trail of a saved workbook, so
its invariant is about the workbook in memory: `Explains` says that the approved rows
of the trail so far turn the model's parameters into the current ones, each with the
value before it (`Fits`), and that two rows of one run concern different parameters, or
one exposure route that they spell differently (`Apart`).  Findings are told apart by
their keys, so `CellsOfKeys` says when two keys are one cell.  `OiInv` adds what `seen`, `roles` and the queue remember of the run under
way.  That a row appended to the trail is the last step of its replay is
`ReplayOfAppend`; a stop restores a trail that was explained before.

**The OT engine.**  Three theorems, one invariant after the other.  `ShockInv` says that
while a shock is applied the inputs are the loaded ones with that shock and what will be
put back is what was loaded; so the baseline's inputs are there before and after each.
`PathInv` adds that every evaluation uses the campaigns drawn for the loaded sheet, and
that a draw's chance is not negative: a path the facility excludes has success zero and
a campaign hits when its chance is below the success.  `UpliftInv` needs no more state,
but the whole computation: raised levels raise the effectiveness of every control, hence
each barrier, which is a product over controls in descending order with decreasing
weights (`CombineMonotone`, with `DescendingMonotone` for the reordering); the best
barriers of a stage and their means rise (`BestMonotone`, `MeanMonotone`), the
adjustment against the reference falls (`AdjustedMonotone`), the product over the stages
falls (`SuccessFalls`), fewer campaigns hit and each hit loses less (`ComboFalls`,
`LossFalls`), and so does the sum of a year (`EvaluateFalls`).  The assumptions are what
the pack's validation and the sheet's parsing guarantee, except for the order of the
maturity table and of floors and ceilings, which are settings of the governed packs that
no code checks; TLC evaluates them on the instances.

**The IT engine.**  One invariant, `ItInv`, serves all four theorems: what `refresh`
holds is the baseline of the book it accepted, and *every* re-simulated row, not only the
last one, is what its kind says of that baseline (`RowOK`).  It has to be every row,
because `Rank` reorders the what-ifs, so any of them may become the last one, and what a
package raises is read from them.  Three theorems are then facts about one row, the
fourth is about the baseline's cells.

* *A block shock is exact.*  Two simulations of the same cells that differ in the factor
  of one block are followed cell by cell.  After each one they stand at the same position
  of the stream and have seen the same events in the same years, and their block tables
  are in the proportion of the factors.  The step is that the counts do not depend
  on the factor of a block, that latents are drawn whether the block is scaled or not, and
  that a scaled sum is the sum of scaled losses (`SumOverTimes`).
* *An uplift lowers rates.*  Stronger controls (`NoneWeaker`) raise every barrier
  (`BarrierMonotone`), lower every factor (`FactorFalls`) and open no stage
  (`ThroughOpens`), so the product over the stages falls; which routes are open does
  not depend on the levels, so the cells are the same ones with the same attempts.  What a
  what-if raises, and what `Target`, `Priority` and `User-defined` set, is shown to lower
  no control; the package `Foundation` may, and is not part of the property.
* *The analyses reconcile.*  A simulation is *balanced*: in every year the losses by actor,
  scenario, block and driver each sum to the loss of the year, and the largest event is at
  most that.  Adding the events of a cell keeps it so, because the sum over the events of
  the sum over the drivers is the sum over the drivers of the sum over the events
  (`SumExchange`).  For the result, the cells of an actor or of a scenario partition the
  cells (`PartsAdd`), and a tail contribution is a sum over fixed trials, ranked by
  the whole portfolio, so contributions add up to the tail.
* *Attempts are kept.*  The attempts of an actor against a scenario are shared over the
  routes with a valid path, each share rounded down: it loses less than one attempt, so
  the cells of a pair are short of at most one attempt each (`SharesAddUp`).  `Cells` joins
  the cells of all pairs, and a sum over joined sequences is the sum of their sums
  (`SumOfJoin`, `ConcatShort`), so the total is short of at most one per cell.  A pair
  without cells has no attempts, which is what the condition of the property says; with
  the exposure model off a valid path has all of its opportunity (`ValidIsOpen`).

The assumptions are what `_load_pack`, `_prepare` and the parsing of the sheets refuse to
go on without, except that the aggregation increment is a share, that floors are below
ceilings and that techniques have a positive weight: `_load_pack` reads these without such
a check (`it_crq/engine.py:233, 246`), and the governed packs satisfy them.  `Accepted`
makes the rest of the checks, as part of the model.

**Folds and sums.**  Every aggregate of the engines is a fold of the library over a
sequence or a set of any size.  `SumProofs` turns such a fold into a function of a
number of steps: `Recursion` builds the function of partial results, `FoldExists` and
`FoldValue` identify the library's `CHOOSE` with it, and `UpTo` is induction up to a
bound for a set instead of an operator.  The rest follows from those three: the equations of a sum,
that it is monotone, additive, scaled and changed in one place (`SumMonotone`,
`SumAdds`, `SumScales`, `SumOfChanged`), the same for sums of a function's values
(`SumOver...`), sums of sums in either order and by parts, sequences joined to one
(`ConcatFold`), shares of a whole, that a ranking is a permutation (`RankingType`), that the k-th largest value
grows with the values, and that a tail mean does.  The section on barriers is about the arithmetic both
engines share.

**Only model-checked.**  The liveness properties are out of the prover's reach.  They
are `QuietRunsSettle`, `FaultyRunsPromote` and `StayingIsRouted`, which `RunSettles` and
`ClientPages` check.  Every invariant and every other action property of the passing
runs is proved.

## 5. Not modelled

* Sampling, distributions and floating-point arithmetic of the engines.
* The layout of sheets, dashboards, styles and charts, the run manifest and the
  protection of canonical paths in the router.
* Reading the sheets of OT packs, extracting and rewriting pack workbooks, and the
  replacement of files by renaming them.
* In the browser: editing an assessment, sign-in and the copilot panel.  In the API:
  authentication and ownership, which come before the first write and keep no state.
* A second `send` of the same job by the SQS client; duplicated deliveries have the
  same effect apart from the receive count.
* Deployment, scripts and data; the time limits of the queue and of the functions
  enter `RunLifecycle` as constants.

The plan of sections 1 to 3 is carried out.  What a next step could add is the
assessment editor of the browser in front of `AssessmentStore`, and the extraction of
pack workbooks in front of `Execution`.
