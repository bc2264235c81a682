---------------------------- MODULE RunLifecycle ----------------------------
(***************************************************************************)
(* The life of one run of the asynchronous product backend.                *)
(*                                                                         *)
(* API Lambda invocations (Api) submit the run under one idempotency key:  *)
(* they write request.json and status.json to S3, publish a job on SQS and *)
(* mark the status as enqueued.  Worker Lambda invocations (Workers)       *)
(* receive jobs, claim the run with a conditional write and a lease, run   *)
(* the model, write result.json and then the terminal status.  S3 and SQS  *)
(* are not transactional together, and every invocation may stop between   *)
(* any two of its remote calls, so each remote call is an action.          *)
(*                                                                         *)
(* All objects of a run live under its own key prefix, so runs do not      *)
(* interact and one run is modelled.  Every object body carries a          *)
(* microsecond timestamp, so an ETag identifies one write: ETags are the   *)
(* numbers of the writes of status.json.  Deadlines are modelled as the    *)
(* time left until them, which Tick takes away everywhere at once.         *)
(***************************************************************************)
EXTENDS Integers, FiniteSets

CONSTANTS
  Api,          \* invocations of POST /v1/assessments/{id}/run, one key
  Workers,      \* concurrent worker invocations
  Bundles,      \* model bundles a submission may name
  NoBundle,     \* request.json does not exist
  NoJob,        \* a worker that holds no message
  MaxAttempts,  \* worker_lambda.MAX_ATTEMPTS
  Lease,        \* worker_lambda.LEASE_MINUTES, in ticks
  Timeout,      \* the worker Lambda's time limit
  Visibility,   \* the queue's visibility timeout
  MaxReceive,   \* the redrive policy's maxReceiveCount
  Duplicates,   \* whether SQS delivers a message that is still hidden
  Overtake,     \* whether a worker may get a job before it is marked enqueued
  MaxErrors,    \* bound: S3 calls that raise in a worker
  MaxLost,      \* bound: conditional writes whose answer is lost
  MaxCrashes    \* bound: worker invocations killed

ASSUME RunAssumption ==
  /\ IsFiniteSet(Workers)
  /\ NoBundle \notin Bundles
  /\ NoJob \notin Api
  /\ MaxAttempts \in Nat \ {0}
  /\ Lease \in Nat /\ Timeout \in Nat /\ Visibility \in Nat
  /\ Timeout < Lease /\ Timeout < Visibility
  /\ MaxReceive \in Nat \ {0}
  /\ Duplicates \in BOOLEAN /\ Overtake \in BOOLEAN
  /\ MaxErrors \in Nat /\ MaxLost \in Nat /\ MaxCrashes \in Nat

VARIABLES
  request,     \* request.json: the bundle it names, or NoBundle
  status,      \* status.json; its etag is 0 while it does not exist
  result,      \* result.json: its result hash, 0 while it does not exist
  queue,       \* for each submitter the message it may have sent
  apc,         \* the next remote call of each API invocation
  bundle,      \* the bundle each API invocation was asked to run
  aseen,       \* the status record each API invocation holds
  response,    \* the HTTP status each API invocation answered with
  wpc,         \* the next remote call of each worker
  job,         \* the message each worker was given
  wseen,       \* the status record each worker holds, with its ETag
  output,      \* the hash of the result each worker computed
  left,        \* the time each worker has left
  executions,  \* executions of the model that came to an answer
  errors,      \* faults so far, by kind
  lost,
  crashes

store   == <<request, status, result>>
apiVars == <<apc, bundle, aseen, response>>
workerVars == <<wpc, job, wseen, output, left, executions>>
faults  == <<errors, lost, crashes>>
vars    == <<store, queue, apiVars, workerVars, faults>>

-----------------------------------------------------------------------------
(* The objects and the messages.                                           *)

States == {"NONE", "QUEUED", "RUNNING", "FAILED", "COMPLETED"}
Errors == {"none", "governed", "worker"}

StatusRecord ==
  [etag : Nat, state : States, attempt : Nat, lease : Nat, enqueued : BOOLEAN,
   available : BOOLEAN, hash : Nat, error : Errors,
   bundle : Bundles \cup {NoBundle}]

NoStatus ==
  [etag |-> 0, state |-> "NONE", attempt |-> 0, lease |-> 0,
   enqueued |-> FALSE, available |-> FALSE, hash |-> 0, error |-> "none",
   bundle |-> NoBundle]

Message ==
  [state : {"unsent", "queued", "deleted", "dead"},
   bundle : Bundles \cup {NoBundle}, receives : Nat, hidden : Nat]

NoMessage ==
  [state |-> "unsent", bundle |-> NoBundle, receives |-> 0, hidden |-> 0]

ApiPc == {"idle", "put_request", "put_status", "get_status", "send", "record",
          "done"}
WorkerPc == {"idle", "get_status", "get_result", "promote", "claim", "execute",
             "governed", "persist", "complete", "recheck", "mark_read",
             "mark_write"}
Responses == {"none", "202", "404", "500"}

\* Mutant: a put that drops its If-Match condition.
UnconditionalWrite(seen) == TRUE

\* If-Match holds for a record read or written earlier.
Current(seen) == seen.etag = status.etag

\* A conditional write of status.json gives it a new ETag.
Stored(rec) == [rec EXCEPT !.etag = status.etag + 1]

\* Mutant: the enqueue marker is set when the run is created.
MarkedTooEarly(b) ==
  [NoStatus EXCEPT !.state = "QUEUED", !.bundle = b, !.enqueued = TRUE]

QueuedStatus(b) == [NoStatus EXCEPT !.state = "QUEUED", !.bundle = b]

\* Mutant: a run that failed is left alone as well.
FinishedOrFailed(rec) == rec.state \in {"COMPLETED", "FAILED"}

\* A run that needs no more work; _process and _mark_failed leave it alone.
Finished(rec) == rec.state = "COMPLETED"

\* Mutant: a retry trusts the first submission to have published the job.
NeverNeedsJob(rec) == FALSE

\* A submitter that finds this record must publish the job itself.
NeedsJob(rec) == rec.state = "QUEUED" /\ ~rec.enqueued

\* Mutant: the lease is not looked at.
LeaseIgnored(rec) == FALSE

\* The lease of another invocation has not expired.
LeaseHeld(rec) == rec.state = "RUNNING" /\ rec.lease > 0

\* _process: the record a claim writes.
Claimed(rec) ==
  [rec EXCEPT !.state = "RUNNING", !.attempt = @ + 1, !.lease = Lease,
              !.error = "none"]

\* _process: the record a worker writes once result.json exists.
Completed(rec, h) ==
  [rec EXCEPT !.state = "COMPLETED", !.available = TRUE, !.hash = h,
              !.lease = 0, !.error = "none"]

\* _complete_from_existing keeps the error of an earlier failure.
Promoted(rec, h) ==
  [rec EXCEPT !.state = "COMPLETED", !.available = TRUE, !.hash = h,
              !.lease = 0]

\* _write_failure; "worker" stands for retryable, "governed" for final.
Failed(rec, code) ==
  [rec EXCEPT !.state = "FAILED", !.available = FALSE, !.lease = 0,
              !.error = code]

Init ==
  /\ request = NoBundle
  /\ status = NoStatus
  /\ result = 0
  /\ queue = [a \in Api |-> NoMessage]
  /\ apc = [a \in Api |-> "idle"]
  /\ bundle = [a \in Api |-> NoBundle]
  /\ aseen = [a \in Api |-> NoStatus]
  /\ response = [a \in Api |-> "none"]
  /\ wpc = [w \in Workers |-> "idle"]
  /\ job = [w \in Workers |-> NoJob]
  /\ wseen = [w \in Workers |-> NoStatus]
  /\ output = [w \in Workers |-> 0]
  /\ left = [w \in Workers |-> 0]
  /\ executions = 0
  /\ errors = 0 /\ lost = 0 /\ crashes = 0

-----------------------------------------------------------------------------
(* POST /v1/assessments/{id}/run: _submit_run and _record_enqueued.        *)

ApiStep(a, from, to) ==
  /\ apc[a] = from
  /\ apc' = [apc EXCEPT ![a] = to]

Respond(a, code) ==
  /\ apc' = [apc EXCEPT ![a] = "done"]
  /\ response' = [response EXCEPT ![a] = code]
  /\ aseen' = [aseen EXCEPT ![a] = NoStatus]

\* The request is validated against the stored assessment and the run id is
\* derived from the idempotency key, so every submitter names the same keys.
StartSubmit(a) ==
  /\ ApiStep(a, "idle", "put_request")
  /\ \E b \in Bundles : bundle' = [bundle EXCEPT ![a] = b]
  /\ UNCHANGED <<store, queue, aseen, response, workerVars, faults>>

PutRequest(a) ==
  /\ apc[a] = "put_request"
  /\ IF request = NoBundle
     THEN /\ request' = bundle[a]
          /\ apc' = [apc EXCEPT ![a] = "put_status"]
     ELSE /\ apc' = [apc EXCEPT ![a] = "get_status"]
          /\ UNCHANGED request
  /\ UNCHANGED <<status, result, queue, bundle, aseen, response, workerVars,
                 faults>>

CreateStatus(a) ==
  /\ apc[a] = "put_status"
  /\ IF status.etag = 0
     THEN /\ status' = Stored(QueuedStatus(bundle[a]))
          /\ aseen' = [aseen EXCEPT ![a] = status']
          /\ apc' = [apc EXCEPT ![a] = "send"]
     ELSE /\ apc' = [apc EXCEPT ![a] = "get_status"]
          /\ UNCHANGED <<status, aseen>>
  /\ UNCHANGED <<request, result, queue, bundle, response, workerVars, faults>>

\* Another submission was first: republish its job unless it is marked sent.
ReadExisting(a) ==
  /\ apc[a] = "get_status"
  /\ \/ /\ status.etag = 0
        /\ Respond(a, "404")
     \/ /\ NeedsJob(status)
        /\ apc' = [apc EXCEPT ![a] = "send"]
        /\ aseen' = [aseen EXCEPT ![a] = status]
        /\ UNCHANGED response
     \/ /\ status.etag # 0 /\ ~NeedsJob(status)
        /\ Respond(a, "202")
  /\ UNCHANGED <<store, queue, bundle, workerVars, faults>>

\* The job names the bundle of this submission, not that of request.json.
SendJob(a) ==
  /\ ApiStep(a, "send", "record")
  /\ queue' = [queue EXCEPT ![a] = [NoMessage EXCEPT !.state = "queued",
                                                     !.bundle = bundle[a]]]
  /\ UNCHANGED <<store, bundle, aseen, response, workerVars, faults>>

\* After a conflict the current status is only re-read for the answer, which
\* may not arrive either.
RecordEnqueued(a) ==
  /\ apc[a] = "record"
  /\ IF Current(aseen[a])
     THEN status' = Stored([aseen[a] EXCEPT !.enqueued = TRUE])
     ELSE UNCHANGED status
  /\ \E code \in {"202", "500"} : Respond(a, code)
  /\ UNCHANGED <<request, result, queue, bundle, workerVars, faults>>

\* A call raises, the invocation is killed or its answer never arrives.
ApiFail(a) ==
  /\ apc[a] \notin {"idle", "done"}
  /\ Respond(a, "500")
  /\ UNCHANGED <<store, queue, bundle, workerVars, faults>>

\* The S3 client retries a conditional write whose answer was lost: the first
\* try took effect, the second reports a conflict.
ApiAnswerLost(a) ==
  /\ lost < MaxLost
  /\ \/ /\ apc[a] = "put_request" /\ request = NoBundle
        /\ request' = bundle[a]
        /\ UNCHANGED status
     \/ /\ apc[a] = "put_status" /\ status.etag = 0
        /\ status' = Stored(QueuedStatus(bundle[a]))
        /\ UNCHANGED request
  /\ apc' = [apc EXCEPT ![a] = "get_status"]
  /\ lost' = lost + 1
  /\ UNCHANGED <<result, queue, bundle, aseen, response, workerVars, errors,
                 crashes>>

-----------------------------------------------------------------------------
(* The worker Lambda: handler, _process and the writers of its records.    *)

\* The invocation holds its record and its output and goes on to pc.
Goto(w, pc) ==
  /\ wpc' = [wpc EXCEPT ![w] = pc]
  /\ UNCHANGED <<job, left, queue>>

Keep(w, pc) == Goto(w, pc) /\ UNCHANGED <<wseen, output>>

EndInvocation(w) ==
  /\ wpc' = [wpc EXCEPT ![w] = "idle"]
  /\ job' = [job EXCEPT ![w] = NoJob]
  /\ left' = [left EXCEPT ![w] = 0]
  /\ wseen' = [wseen EXCEPT ![w] = NoStatus]
  /\ output' = [output EXCEPT ![w] = 0]

\* handler returns no failure for the record: SQS deletes the message.
Ack(w) ==
  /\ EndInvocation(w)
  /\ queue' = [queue EXCEPT ![job[w]].state = IF @ = "queued" THEN "deleted"
                                             ELSE @]

\* The record is a batch item failure, or no answer comes: the message stays.
Nack(w) ==
  /\ EndInvocation(w)
  /\ UNCHANGED queue

\* An exception leaves _process; handler goes on to _mark_failed.
Raise(w) == Keep(w, "mark_read")

\* External: SQS hands a message to an invocation and hides it.
Receive(w, a) ==
  /\ wpc[w] = "idle"
  /\ queue[a].state = "queued"
  /\ queue[a].receives < MaxReceive
  /\ queue[a].hidden = 0 \/ Duplicates
  /\ apc[a] = "done" \/ Overtake
  /\ queue' = [queue EXCEPT ![a].receives = @ + 1, ![a].hidden = Visibility]
  /\ wpc' = [wpc EXCEPT ![w] = "get_status"]
  /\ job' = [job EXCEPT ![w] = a]
  /\ left' = [left EXCEPT ![w] = Timeout]
  /\ UNCHANGED <<store, apiVars, wseen, output, executions, faults>>

\* External: the redrive policy moves a message received too often.
DeadLetter(a) ==
  /\ queue[a].state = "queued"
  /\ queue[a].hidden = 0
  /\ queue[a].receives = MaxReceive
  /\ queue' = [queue EXCEPT ![a].state = "dead"]
  /\ UNCHANGED <<store, apiVars, workerVars, faults>>

\* Mutant: _assert_job_matches is not called.
AnyJobMatches(w) == TRUE

\* _assert_job_matches: the job names the run as it was persisted.
JobMatches(w) == status.bundle = queue[job[w]].bundle

GetStatus(w) ==
  /\ wpc[w] = "get_status"
  /\ \/ /\ ~JobMatches(w)
        /\ Raise(w)
     \/ /\ JobMatches(w) /\ Finished(status)
        /\ Ack(w)
     \/ /\ JobMatches(w) /\ ~Finished(status)
        /\ Goto(w, "get_result")
        /\ wseen' = [wseen EXCEPT ![w] = status]
        /\ UNCHANGED output
  /\ UNCHANGED <<store, apiVars, executions, faults>>

GetResult(w) ==
  /\ wpc[w] = "get_result"
  /\ \/ /\ result # 0
        /\ Goto(w, "promote")
        /\ output' = [output EXCEPT ![w] = result]
        /\ UNCHANGED wseen
     \/ /\ result = 0 /\ LeaseHeld(wseen[w])
        /\ Ack(w)
     \/ /\ result = 0 /\ ~LeaseHeld(wseen[w])
        /\ wseen[w].attempt >= MaxAttempts
        /\ Raise(w)
     \/ /\ result = 0 /\ ~LeaseHeld(wseen[w])
        /\ wseen[w].attempt < MaxAttempts
        /\ Keep(w, "claim")
  /\ UNCHANGED <<store, apiVars, executions, faults>>

\* _complete_from_existing: a conflict is ignored.
Promote(w) ==
  /\ wpc[w] = "promote"
  /\ IF Current(wseen[w])
     THEN status' = Stored(Promoted(wseen[w], output[w]))
     ELSE UNCHANGED status
  /\ Ack(w)
  /\ UNCHANGED <<request, result, apiVars, executions, faults>>

\* Mutant: the claim is written without If-Match.
ClaimAnyway(w) ==
  /\ wpc[w] = "claim"
  /\ status' = Stored(Claimed(wseen[w]))
  /\ Goto(w, "execute")
  /\ wseen' = [wseen EXCEPT ![w] = status']
  /\ UNCHANGED <<request, result, apiVars, output, executions, faults>>

\* A conflict means that another invocation moved the run: nothing to do.
Claim(w) ==
  /\ wpc[w] = "claim"
  /\ IF Current(wseen[w])
     THEN /\ status' = Stored(Claimed(wseen[w]))
          /\ Goto(w, "execute")
          /\ wseen' = [wseen EXCEPT ![w] = status']
          /\ UNCHANGED output
     ELSE /\ Ack(w)
          /\ UNCHANGED status
  /\ UNCHANGED <<request, result, apiVars, executions, faults>>

\* request.json is read and execute_assessment called.  request.json always
\* matches the job here (StatusNamesRequest).  A result names its own run
\* time, so two executions never have the same hash.
Execute(w) ==
  /\ wpc[w] = "execute"
  /\ executions' = executions + 1
  /\ \/ /\ Goto(w, "persist")
        /\ output' = [output EXCEPT ![w] = executions + 1]
        /\ UNCHANGED wseen
     \/ Keep(w, "governed")
  /\ UNCHANGED <<store, apiVars, faults>>

\* A conflict leaves _process as an exception.
WriteGoverned(w) ==
  /\ wpc[w] = "governed"
  /\ IF Current(wseen[w])
     THEN /\ status' = Stored(Failed(wseen[w], "governed"))
          /\ Ack(w)
     ELSE /\ Raise(w)
          /\ UNCHANGED status
  /\ UNCHANGED <<request, result, apiVars, executions, faults>>

\* Mutant: result.json is written without If-None-Match.
PersistAgain(w) ==
  /\ wpc[w] = "persist"
  /\ result' = output[w]
  /\ Goto(w, "complete")
  /\ UNCHANGED <<request, status, apiVars, wseen, output, executions, faults>>

\* Mutant: after the conflict the worker keeps its own result hash.
PersistKeepsHash(w) ==
  /\ wpc[w] = "persist"
  /\ result' = IF result = 0 THEN output[w] ELSE result
  /\ Goto(w, "complete")
  /\ UNCHANGED <<request, status, apiVars, wseen, output, executions, faults>>

\* The first result stays; a later worker adopts it.
Persist(w) ==
  /\ wpc[w] = "persist"
  /\ IF result = 0
     THEN /\ result' = output[w]
          /\ UNCHANGED output
     ELSE /\ output' = [output EXCEPT ![w] = result]
          /\ UNCHANGED result
  /\ Goto(w, "complete")
  /\ UNCHANGED <<request, status, apiVars, wseen, executions, faults>>

Complete(w) ==
  /\ wpc[w] = "complete"
  /\ IF Current(wseen[w])
     THEN /\ status' = Stored(Completed(wseen[w], output[w]))
          /\ Ack(w)
     ELSE /\ Keep(w, "recheck")
          /\ UNCHANGED status
  /\ UNCHANGED <<request, result, apiVars, executions, faults>>

Recheck(w) ==
  /\ wpc[w] = "recheck"
  /\ IF Finished(status) THEN Ack(w) ELSE Raise(w)
  /\ UNCHANGED <<store, apiVars, executions, faults>>

\* _mark_failed reads the status afresh, whoever wrote it.
MarkRead(w) ==
  /\ wpc[w] = "mark_read"
  /\ IF Finished(status)
     THEN Nack(w)
     ELSE /\ Goto(w, "mark_write")
          /\ wseen' = [wseen EXCEPT ![w] = status]
          /\ UNCHANGED output
  /\ UNCHANGED <<store, apiVars, executions, faults>>

MarkWrite(w) ==
  /\ wpc[w] = "mark_write"
  /\ IF Current(wseen[w])
     THEN status' = Stored(Failed(wseen[w], "worker"))
     ELSE UNCHANGED status
  /\ Nack(w)
  /\ UNCHANGED <<request, result, apiVars, executions, faults>>

-----------------------------------------------------------------------------
(* What may go wrong around a worker, and time.                            *)

\* A call to S3 raises something else than a miss or a conflict, or the model
\* itself raises.  Out of _mark_failed such an exception ends the invocation,
\* like KillWorker.
WorkerError(w) ==
  /\ errors < MaxErrors
  /\ wpc[w] \notin {"idle", "mark_read", "mark_write"}
  /\ errors' = errors + 1
  /\ Raise(w)
  /\ UNCHANGED <<store, apiVars, executions, lost, crashes>>

\* A conditional write takes effect but its caller gets an exception.
WriteAnswerLost(w) ==
  /\ lost < MaxLost
  /\ lost' = lost + 1
  /\ \/ /\ wpc[w] = "claim" /\ Current(wseen[w])
        /\ status' = Stored(Claimed(wseen[w]))
        /\ UNCHANGED result
     \/ /\ wpc[w] = "governed" /\ Current(wseen[w])
        /\ status' = Stored(Failed(wseen[w], "governed"))
        /\ UNCHANGED result
     \/ /\ wpc[w] = "persist" /\ result = 0
        /\ result' = output[w]
        /\ UNCHANGED status
     \/ /\ wpc[w] = "complete" /\ Current(wseen[w])
        /\ status' = Stored(Completed(wseen[w], output[w]))
        /\ UNCHANGED result
  /\ Raise(w)
  /\ UNCHANGED <<request, apiVars, executions, errors, crashes>>

\* The S3 client retries a claim that took effect and gets a conflict for it.
ClaimAnswerLost(w) ==
  /\ lost < MaxLost
  /\ lost' = lost + 1
  /\ wpc[w] = "claim" /\ Current(wseen[w])
  /\ status' = Stored(Claimed(wseen[w]))
  /\ Ack(w)
  /\ UNCHANGED <<request, result, apiVars, executions, errors,
                 crashes>>

\* The invocation crashes, or is killed at its time limit.
KillWorker(w) ==
  /\ crashes < MaxCrashes
  /\ wpc[w] # "idle"
  /\ crashes' = crashes + 1
  /\ Nack(w)
  /\ UNCHANGED <<store, apiVars, executions, errors, lost>>

\* Mutant: a deadline that has passed goes on counting.
LessUnchecked(n) == n - 1

Less(n) == IF n > 0 THEN n - 1 ELSE 0

Aged(rec) == [rec EXCEPT !.lease = Less(@)]

\* Time passes, unless an invocation has none left and must end first.
Tick ==
  /\ \A w \in Workers : wpc[w] # "idle" => left[w] > 0
  /\ \/ status.lease > 0
     \/ \E a \in Api : queue[a].hidden > 0
     \/ \E w \in Workers : left[w] > 0
  /\ status' = Aged(status)
  /\ aseen' = [a \in Api |-> Aged(aseen[a])]
  /\ wseen' = [w \in Workers |-> Aged(wseen[w])]
  /\ queue' = [a \in Api |-> [queue[a] EXCEPT !.hidden = Less(@)]]
  /\ left' = [w \in Workers |-> Less(left[w])]
  /\ UNCHANGED <<request, result, apc, bundle, response, wpc, job, output,
                 executions, faults>>

-----------------------------------------------------------------------------
ApiNext(a) ==
  \/ StartSubmit(a) \/ PutRequest(a) \/ CreateStatus(a) \/ ReadExisting(a)
  \/ SendJob(a) \/ RecordEnqueued(a) \/ ApiFail(a) \/ ApiAnswerLost(a)

\* The steps a running invocation takes by itself.
WorkerStep(w) ==
  \/ GetStatus(w) \/ GetResult(w) \/ Promote(w) \/ Claim(w) \/ Execute(w)
  \/ WriteGoverned(w) \/ Persist(w) \/ Complete(w) \/ Recheck(w)
  \/ MarkRead(w) \/ MarkWrite(w)

WorkerFault(w) ==
  \/ WorkerError(w) \/ WriteAnswerLost(w) \/ ClaimAnswerLost(w)
  \/ KillWorker(w)

QueueNext ==
  \/ \E w \in Workers, a \in Api : Receive(w, a)
  \/ \E a \in Api : DeadLetter(a)

Next ==
  \/ \E a \in Api : ApiNext(a)
  \/ \E w \in Workers : WorkerStep(w) \/ WorkerFault(w)
  \/ QueueNext
  \/ Tick

Spec == Init /\ [][Next]_vars

\* Lambda lets an invocation run on, SQS delivers what is visible, and time
\* passes.  Nothing makes a client submit, and no fault is ever forced.
Fairness ==
  /\ \A w \in Workers : WF_vars(WorkerStep(w))
  /\ WF_vars(\E w \in Workers, a \in Api : Receive(w, a))
  /\ WF_vars(Tick)

FairSpec == Spec /\ Fairness

-----------------------------------------------------------------------------
(* Properties.                                                             *)

\* The places of a worker that has claimed the run.
Claimers == {"execute", "persist", "governed", "complete", "recheck"}

\* Every variable keeps its type, whatever the order of the remote calls.
TypeOK ==
  /\ request \in Bundles \cup {NoBundle}
  /\ status \in StatusRecord
  /\ result \in Nat
  /\ queue \in [Api -> Message]
  /\ apc \in [Api -> ApiPc]
  /\ bundle \in [Api -> Bundles \cup {NoBundle}]
  /\ aseen \in [Api -> StatusRecord]
  /\ response \in [Api -> Responses]
  /\ wpc \in [Workers -> WorkerPc]
  /\ job \in [Workers -> Api \cup {NoJob}]
  /\ wseen \in [Workers -> StatusRecord]
  /\ output \in [Workers -> Nat]
  /\ left \in [Workers -> Nat]
  /\ executions \in Nat
  /\ errors \in Nat /\ lost \in Nat /\ crashes \in Nat

\* A run is COMPLETED only when result.json exists, and status.json then shows
\* the hash of that very object, also when two workers computed two different
\* results (worker_lambda.py:90-98).
CompletedNamesResult ==
  status.state = "COMPLETED" =>
    result # 0 /\ status.hash = result /\ status.available = TRUE

\* No interleaving of claims, lost claims and enqueue markers loses a count:
\* the model is never run more than MAX_ATTEMPTS times for one run
\* (worker_lambda.py:59).
ExecutionsBounded == executions <= status.attempt /\ status.attempt <= MaxAttempts

\* The job a worker executes is the one request.json describes: a submission
\* that reuses the key for another bundle never gets its bundle executed
\* (worker_lambda.py:78).
StatusNamesRequest ==
  /\ status.etag # 0 => status.bundle = request
  /\ \A w \in Workers :
       wpc[w] \in {"execute", "persist", "governed"} =>
         queue[job[w]].bundle = request

\* The attempt number is a fencing token: however claims race, expire and are
\* redelivered, each attempt of the run is one worker's, so two workers that
\* think they hold the run differ in the attempt they write with.  The
\* conditional write of the claim is what keeps them apart
\* (worker_lambda.py:59-70).
OneWorkerPerAttempt ==
  \A v, w \in Workers :
    wpc[v] \in Claimers /\ wpc[w] \in Claimers /\ v # w =>
      wseen[v].attempt # wseen[w].attempt

\* As long as no S3 call fails and no client reuses its key for another
\* bundle, the lease outlives the worker that took it: two workers never run
\* the model at the same time, although jobs are duplicated and workers die.
ExclusiveExecution ==
  /\ errors = 0 /\ lost = 0
  /\ \A a, b \in Api : NoBundle \in {bundle[a], bundle[b]} \/ bundle[a] = bundle[b]
  => \A v, w \in Workers : wpc[v] = "execute" /\ wpc[w] = "execute" => v = w

\* The API answers 202 only when a job for the run has been published, by this
\* submission or by an earlier one (api_lambda.py:208-216).
AcceptedIsPublished ==
  (\E a \in Api : response[a] = "202") =>
    \E a \in Api : queue[a].state # "unsent"

\* COMPLETED is the end: no late failure, claim or enqueue marker overwrites
\* it, and result.json never changes once written.
CompletedIsFinal ==
  [][/\ status.state = "COMPLETED" =>
          status'.state = "COMPLETED" /\ status'.hash = status.hash
     /\ result # 0 => result' = result]_vars

\* Every conditional write builds on the record it replaces: no write of
\* status.json takes back an attempt or the bundle of the run, nor the enqueue
\* marker another invocation wrote.
NoLostUpdate ==
  [][/\ status'.attempt >= status.attempt
     /\ status.enqueued => status'.enqueued
     /\ status.etag # 0 => status'.bundle = status.bundle]_vars

\* Every submission the API accepted reaches a terminal state, although S3 and
\* SQS share no transaction
\* (docs/productisation/PHASE5A_INTEGRATED_BACKEND.md:101-106).
AcceptedSettles ==
  \A a \in Api :
    response[a] = "202" ~> status.state \in {"COMPLETED", "FAILED"}

\* A result that was persisted is promoted to COMPLETED after a status write
\* was interrupted (docs/productisation/PHASE5A_INTEGRATED_BACKEND.md:96-97).
ResultIsPromoted == result # 0 ~> status.state = "COMPLETED"

\* A governed error makes the run FAILED for good: it is not retryable
\* (docs/productisation/PHASE5A_INTEGRATED_BACKEND.md:97-98).
GovernedIsFinal ==
  [][status.state = "FAILED" /\ status.error = "governed"
       => status'.state = "FAILED"]_vars

\* A client that repeats an uncertain submission under its key is not told, by
\* an invocation that finds the run idle, that there is no such run
\* (docs/productisation/PHASE5A_INTEGRATED_BACKEND.md:101-107).
RetryFindsRun ==
  ~ \E a \in Api :
      /\ response[a] = "404"
      /\ \A b \in Api \ {a} : apc[b] \in {"idle", "done"}

\* The detailed protocol implements what the backend promises about a run.
Contract ==
  INSTANCE RunContract WITH phase <- status.state, attempts <- status.attempt,
                            answer <- result, published <- status.hash

ImplementsContract == Contract!Spec

-----------------------------------------------------------------------------
(* The inductive invariant behind the safety properties.                   *)

Open == {"QUEUED", "RUNNING", "FAILED"}   \* states a worker may still leave

Published == \E a \in Api : queue[a].state # "unsent"

\* A record read or written earlier is the current one or an older one: equal
\* ETags mean equal records, and attempts are never taken back.
Snapshot(rec, current) ==
  /\ rec.etag <= current.etag
  /\ rec.etag = current.etag => rec = current
  /\ rec.attempt <= current.attempt

Snapshots ==
  /\ \A a \in Api : Snapshot(aseen[a], status)
  /\ \A w \in Workers : Snapshot(wseen[w], status)

StatusOK ==
  /\ status.etag = 0 => status = NoStatus
  /\ status.etag # 0 => /\ status.state \in Open \cup {"COMPLETED"}
                       /\ request \in Bundles /\ status.bundle = request
  /\ status.attempt <= MaxAttempts
  /\ CompletedNamesResult

ApiOK ==
  \A a \in Api :
    /\ apc[a] # "idle" => bundle[a] \in Bundles
    /\ apc[a] = "put_status" => request = bundle[a]
    /\ apc[a] \in {"send", "record"} =>
         aseen[a].etag # 0 /\ aseen[a].state = "QUEUED"
    /\ apc[a] \notin {"record", "done"} => queue[a].state = "unsent"
    /\ apc[a] = "record" => queue[a].state # "unsent"
    /\ queue[a].state # "unsent" => queue[a].bundle \in Bundles
                                  /\ status.etag # 0

WorkerOK ==
  \A w \in Workers :
    /\ wpc[w] # "idle" => job[w] \in Api /\ queue[job[w]].state # "unsent"
    /\ wpc[w] \in Claimers \cup {"get_result", "promote", "claim"} =>
         queue[job[w]].bundle = request
    /\ wpc[w] \in {"get_result", "promote", "claim", "mark_write"} =>
         wseen[w].etag # 0 /\ wseen[w].state \in Open
    /\ wpc[w] = "claim" => wseen[w].attempt < MaxAttempts
    /\ wpc[w] \in Claimers =>
         wseen[w].etag # 0 /\ wseen[w].state = "RUNNING" /\ wseen[w].attempt > 0
    /\ wpc[w] = "persist" => output[w] # 0
    /\ wpc[w] \in {"promote", "complete", "recheck"} =>
         result # 0 /\ output[w] = result

\* Whatever shows that the run got beyond its creation shows a published job.
PublishedFirst ==
  /\ status.enqueued \/ status.state \notin {"NONE", "QUEUED"} => Published
  /\ (\E a \in Api : response[a] = "202") => Published

\* The inductive invariant: what every S3 object, every snapshot of status.json
\* and every invocation may look like between two remote calls.
IInv ==
  TypeOK /\ Snapshots /\ StatusOK /\ ApiOK /\ WorkerOK /\ OneWorkerPerAttempt
  /\ PublishedFirst

Executing == {w \in Workers : wpc[w] = "execute"}

\* Every execution so far, and every one about to start, was paid for with an
\* attempt of its own.
AttemptsCounted == executions + Cardinality(Executing) <= status.attempt

=============================================================================
