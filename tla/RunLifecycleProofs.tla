------------------------- MODULE RunLifecycleProofs -------------------------
(***************************************************************************)
(* Proofs about RunLifecycle, for every number of submitters and workers,  *)
(* every bound on the faults and every choice of the time limits.          *)
(***************************************************************************)
EXTENDS RunLifecycle, FiniteSetTheorems, TLAPS

USE DEF States, Errors, ApiPc, WorkerPc, Responses

-----------------------------------------------------------------------------
(* The records the code writes are status records.                         *)

\* A conditional write stores a status record.
LEMMA StoredType ==
  ASSUME status \in StatusRecord, NEW rec \in StatusRecord
  PROVE  Stored(rec) \in StatusRecord
<1>1. status.etag + 1 \in Nat
  BY DEF StatusRecord
<1> QED
  BY <1>1 DEF StatusRecord, Stored

\* The record every snapshot starts from.
LEMMA NoStatusType == NoStatus \in StatusRecord
BY DEF NoStatus, StatusRecord

\* The record a submission creates.
LEMMA QueuedType ==
  ASSUME NEW b \in Bundles \cup {NoBundle}
  PROVE  QueuedStatus(b) \in StatusRecord
<1> DEFINE r1 == [NoStatus EXCEPT !.state = "QUEUED"]
<1>1. r1 \in StatusRecord
  BY NoStatusType DEF StatusRecord
<1> HIDE DEF r1
<1>2. [r1 EXCEPT !.bundle = b] \in StatusRecord
  BY <1>1 DEF StatusRecord
<1> QED
  BY <1>2 DEF QueuedStatus, r1

\* The record the enqueue marker is written with.
LEMMA EnqueuedType ==
  ASSUME NEW rec \in StatusRecord
  PROVE  [rec EXCEPT !.enqueued = TRUE] \in StatusRecord
BY DEF StatusRecord

\* The record of a claim.
LEMMA ClaimedType ==
  ASSUME NEW rec \in StatusRecord
  PROVE  Claimed(rec) \in StatusRecord
<1> DEFINE r1 == [rec EXCEPT !.state = "RUNNING"]
           r2 == [r1 EXCEPT !.attempt = rec.attempt + 1]
           r3 == [r2 EXCEPT !.lease = Lease]
           r4 == [r3 EXCEPT !.error = "none"]
<1>1. r1 \in StatusRecord
  BY DEF StatusRecord
<1> HIDE DEF r1
<1>2. r2 \in StatusRecord
  BY RunAssumption, <1>1 DEF StatusRecord
<1> HIDE DEF r2
<1>3. r3 \in StatusRecord
  BY RunAssumption, <1>2 DEF StatusRecord
<1> HIDE DEF r3
<1>4. r4 \in StatusRecord
  BY RunAssumption, <1>3 DEF StatusRecord
<1> HIDE DEF r4
<1> QED
  BY <1>4 DEF Claimed, r1, r2, r3, r4

\* The record that promotes a result already persisted.
LEMMA PromotedType ==
  ASSUME NEW rec \in StatusRecord, NEW h \in Nat
  PROVE  Promoted(rec, h) \in StatusRecord
<1> DEFINE r1 == [rec EXCEPT !.state = "COMPLETED"]
           r2 == [r1 EXCEPT !.available = TRUE]
           r3 == [r2 EXCEPT !.hash = h]
           r4 == [r3 EXCEPT !.lease = 0]
<1>1. r1 \in StatusRecord
  BY DEF StatusRecord
<1> HIDE DEF r1
<1>2. r2 \in StatusRecord
  BY <1>1 DEF StatusRecord
<1> HIDE DEF r2
<1>3. r3 \in StatusRecord
  BY <1>2 DEF StatusRecord
<1> HIDE DEF r3
<1>4. r4 \in StatusRecord
  BY <1>3 DEF StatusRecord
<1> HIDE DEF r4
<1> QED
  BY <1>4 DEF Promoted, r1, r2, r3, r4

\* The record that completes a run.
LEMMA CompletedType ==
  ASSUME NEW rec \in StatusRecord, NEW h \in Nat
  PROVE  Completed(rec, h) \in StatusRecord
<1> DEFINE r == Promoted(rec, h)
<1>1. r \in StatusRecord
  BY PromotedType
<1> HIDE DEF r
<1>2. [r EXCEPT !.error = "none"] \in StatusRecord
  BY <1>1 DEF StatusRecord
<1> QED
  BY <1>2 DEF r, Completed, Promoted

\* The record of a failure.
LEMMA FailedType ==
  ASSUME NEW rec \in StatusRecord, NEW code \in Errors
  PROVE  Failed(rec, code) \in StatusRecord
<1> DEFINE r1 == [rec EXCEPT !.state = "FAILED"]
           r2 == [r1 EXCEPT !.available = FALSE]
           r3 == [r2 EXCEPT !.lease = 0]
           r4 == [r3 EXCEPT !.error = code]
<1>1. r1 \in StatusRecord
  BY DEF StatusRecord
<1> HIDE DEF r1
<1>2. r2 \in StatusRecord
  BY <1>1 DEF StatusRecord
<1> HIDE DEF r2
<1>3. r3 \in StatusRecord
  BY <1>2 DEF StatusRecord
<1> HIDE DEF r3
<1>4. r4 \in StatusRecord
  BY <1>3 DEF StatusRecord
<1> HIDE DEF r4
<1> QED
  BY <1>4 DEF Failed, r1, r2, r3, r4

\* Time leaves a status record a status record.
LEMMA AgedType ==
  ASSUME NEW rec \in StatusRecord PROVE Aged(rec) \in StatusRecord
BY DEF Aged, Less, StatusRecord

-----------------------------------------------------------------------------
(* Type correctness.                                                       *)

\* The control state of a worker keeps its type when its invocation ends.
LEMMA EndType ==
  ASSUME TypeOK, NEW w \in Workers, EndInvocation(w)
  PROVE  /\ wpc' \in [Workers -> WorkerPc]
         /\ job' \in [Workers -> Api \cup {NoJob}]
         /\ left' \in [Workers -> Nat]
         /\ wseen' \in [Workers -> StatusRecord]
         /\ output' \in [Workers -> Nat]
BY NoStatusType DEF TypeOK, EndInvocation

\* Deleting a message keeps the type of the queue.
LEMMA AckType ==
  ASSUME TypeOK, NEW w \in Workers, Ack(w)
  PROVE  queue' \in [Api -> Message]
<1>1. CASE job[w] \in Api
  <2>1. queue[job[w]] \in Message
    BY <1>1 DEF TypeOK
  <2>2. [queue[job[w]] EXCEPT !.state = IF @ = "queued" THEN "deleted" ELSE @]
          \in Message
    BY <2>1 DEF Message
  <2> QED
    BY <1>1, <2>2 DEF TypeOK, Ack
<1>2. CASE job[w] \notin Api
  BY <1>2 DEF TypeOK, Ack
<1> QED
  BY <1>1, <1>2

\* The initial state is well typed.
LEMMA TypeInit == Init => TypeOK
BY NoStatusType, RunAssumption DEF Init, TypeOK, Message, NoMessage

\* Whatever a submitter does, every variable keeps its type.
LEMMA TypeApi ==
  ASSUME TypeOK, NEW a \in Api, ApiNext(a)
  PROVE  TypeOK'
<1> USE DEF store, apiVars, workerVars, faults, TypeOK
<1>1. CASE StartSubmit(a)
  BY <1>1 DEF StartSubmit, ApiStep
<1>2. CASE PutRequest(a)
  BY <1>2 DEF PutRequest
<1>0. Stored(QueuedStatus(bundle[a])) \in StatusRecord
  BY QueuedType, StoredType
<1>3. CASE CreateStatus(a)
  BY <1>0, <1>3 DEF CreateStatus
<1>4. CASE ReadExisting(a)
  BY <1>4, NoStatusType DEF ReadExisting, Respond
<1>5. CASE SendJob(a)
  BY <1>5 DEF SendJob, ApiStep, Message, NoMessage
<1>6. CASE RecordEnqueued(a)
  <2>1. Stored([aseen[a] EXCEPT !.enqueued = TRUE]) \in StatusRecord
    BY EnqueuedType, StoredType
  <2> QED
    BY <1>6, <2>1, NoStatusType DEF RecordEnqueued, Respond
<1>7. CASE ApiFail(a)
  BY <1>7, NoStatusType DEF ApiFail, Respond
<1>8. CASE ApiAnswerLost(a)
  BY <1>0, <1>8 DEF ApiAnswerLost
<1> QED
  BY <1>1, <1>2, <1>3, <1>4, <1>5, <1>6, <1>7, <1>8 DEF ApiNext

\* Whatever a worker invocation does, every variable keeps its type.
LEMMA TypeWorker ==
  ASSUME TypeOK, NEW w \in Workers, WorkerStep(w) \/ WorkerFault(w)
  PROVE  TypeOK'
<1> USE DEF store, apiVars, workerVars, faults
<1>0. /\ status \in StatusRecord /\ wseen[w] \in StatusRecord
      /\ output[w] \in Nat /\ result \in Nat /\ executions + 1 \in Nat
      /\ errors + 1 \in Nat /\ lost + 1 \in Nat /\ crashes + 1 \in Nat
  BY DEF TypeOK
<1>c. Stored(Claimed(wseen[w])) \in StatusRecord
  BY <1>0, ClaimedType, StoredType
<1>p. Stored(Promoted(wseen[w], output[w])) \in StatusRecord
  BY <1>0, PromotedType, StoredType
<1>f. Stored(Completed(wseen[w], output[w])) \in StatusRecord
  BY <1>0, CompletedType, StoredType
<1>g. /\ Stored(Failed(wseen[w], "governed")) \in StatusRecord
      /\ Stored(Failed(wseen[w], "worker")) \in StatusRecord
  BY <1>0, FailedType, StoredType
<1>a. ASSUME Ack(w)
      PROVE  /\ wpc' \in [Workers -> WorkerPc]
             /\ job' \in [Workers -> Api \cup {NoJob}]
             /\ left' \in [Workers -> Nat]
             /\ wseen' \in [Workers -> StatusRecord]
             /\ output' \in [Workers -> Nat]
             /\ queue' \in [Api -> Message]
  BY <1>a, AckType, EndType DEF Ack
<1>n. ASSUME Nack(w)
      PROVE  /\ wpc' \in [Workers -> WorkerPc]
             /\ job' \in [Workers -> Api \cup {NoJob}]
             /\ left' \in [Workers -> Nat]
             /\ wseen' \in [Workers -> StatusRecord]
             /\ output' \in [Workers -> Nat]
             /\ queue' \in [Api -> Message]
  BY <1>n, EndType DEF Nack, TypeOK
<1>k. ASSUME NEW pc \in WorkerPc, Goto(w, pc)
      PROVE  /\ wpc' \in [Workers -> WorkerPc]
             /\ job' \in [Workers -> Api \cup {NoJob}]
             /\ left' \in [Workers -> Nat]
             /\ queue' \in [Api -> Message]
  BY <1>k DEF Goto, TypeOK
<1> USE DEF Raise, Keep, TypeOK
<1>1. CASE GetStatus(w)
  BY <1>1, <1>0, <1>a, <1>k DEF GetStatus
<1>2. CASE GetResult(w)
  BY <1>2, <1>0, <1>a, <1>k DEF GetResult
<1>3. CASE Promote(w)
  BY <1>3, <1>p, <1>a DEF Promote
<1>4. CASE Claim(w)
  BY <1>4, <1>c, <1>a, <1>k DEF Claim
<1>5. CASE Execute(w)
  BY <1>5, <1>0, <1>k DEF Execute
<1>6. CASE WriteGoverned(w)
  BY <1>6, <1>g, <1>a, <1>k DEF WriteGoverned
<1>7. CASE Persist(w)
  BY <1>7, <1>0, <1>k DEF Persist
<1>8. CASE Complete(w)
  BY <1>8, <1>f, <1>a, <1>k DEF Complete
<1>9. CASE Recheck(w)
  BY <1>9, <1>a, <1>k DEF Recheck
<1>10. CASE MarkRead(w)
  BY <1>10, <1>0, <1>n, <1>k DEF MarkRead
<1>11. CASE MarkWrite(w)
  BY <1>11, <1>g, <1>n DEF MarkWrite
<1>12. CASE WorkerError(w)
  BY <1>12, <1>0, <1>k DEF WorkerError
<1>13. CASE WriteAnswerLost(w)
  BY <1>13, <1>0, <1>c, <1>g, <1>f, <1>k DEF WriteAnswerLost
<1>14. CASE ClaimAnswerLost(w)
  BY <1>14, <1>0, <1>c, <1>a DEF ClaimAnswerLost
<1>15. CASE KillWorker(w)
  BY <1>15, <1>0, <1>n DEF KillWorker
<1> QED
  BY <1>1, <1>2, <1>3, <1>4, <1>5, <1>6, <1>7, <1>8, <1>9, <1>10, <1>11,
     <1>12, <1>13, <1>14, <1>15 DEF WorkerStep, WorkerFault

\* The queue and the clock keep the types too.
LEMMA TypeQueue ==
  ASSUME TypeOK, QueueNext \/ Tick
  PROVE  TypeOK'
<1> USE DEF store, apiVars, workerVars, faults, TypeOK
<1>1. ASSUME NEW w \in Workers, NEW a \in Api, Receive(w, a)
      PROVE  TypeOK'
  <2>1. /\ [queue[a] EXCEPT !.receives = @ + 1] \in Message
        /\ Timeout \in Nat /\ Visibility \in Nat
    BY RunAssumption DEF Message
  <2> DEFINE m == [queue[a] EXCEPT !.receives = @ + 1]
  <2>2. [m EXCEPT !.hidden = Visibility] \in Message
    <3> HIDE DEF m
    <3>1. m \in Message
      BY <2>1 DEF m
    <3> QED
      BY <2>1, <3>1 DEF Message
  <2>3. queue' \in [Api -> Message]
    BY <1>1, <2>2 DEF Receive
  <2> QED
    BY <1>1, <2>1, <2>3 DEF Receive
<1>2. ASSUME NEW a \in Api, DeadLetter(a)
      PROVE  TypeOK'
  BY <1>2 DEF DeadLetter, Message
<1>3. CASE Tick
  <2>1. /\ Aged(status) \in StatusRecord
        /\ \A a \in Api : Aged(aseen[a]) \in StatusRecord
        /\ \A w \in Workers : Aged(wseen[w]) \in StatusRecord
    BY AgedType
  <2>2. \A n \in Nat : Less(n) \in Nat
    BY DEF Less
  <2>3. \A a \in Api : [queue[a] EXCEPT !.hidden = Less(@)] \in Message
    BY <2>2 DEF Message
  <2> QED
    BY <1>3, <2>1, <2>2, <2>3 DEF Tick
<1> QED
  BY <1>1, <1>2, <1>3 DEF QueueNext

\* Every reachable state is well typed.
THEOREM TypeCorrect == Spec => []TypeOK
<1>1. TypeOK /\ [Next]_vars => TypeOK'
  <2> SUFFICES ASSUME TypeOK, [Next]_vars PROVE TypeOK'
    OBVIOUS
  <2>1. CASE Next
    BY <2>1, TypeApi, TypeWorker, TypeQueue DEF Next
  <2>2. CASE UNCHANGED vars
    BY <2>2 DEF vars, store, apiVars, workerVars, faults, TypeOK
  <2> QED
    BY <2>1, <2>2
<1> QED
  BY TypeInit, <1>1, PTL DEF Spec

-----------------------------------------------------------------------------
(* What the written records say, field by field.                           *)

\* A conditional write takes the next ETag and stores the rest as it is.
LEMMA StoredFields ==
  ASSUME status \in StatusRecord, NEW rec \in StatusRecord
  PROVE  /\ Stored(rec) \in StatusRecord
         /\ Stored(rec).etag = status.etag + 1
         /\ Stored(rec).state = rec.state
         /\ Stored(rec).attempt = rec.attempt
         /\ Stored(rec).enqueued = rec.enqueued
         /\ Stored(rec).available = rec.available
         /\ Stored(rec).hash = rec.hash
         /\ Stored(rec).error = rec.error
         /\ Stored(rec).bundle = rec.bundle
BY StoredType DEF Stored, StatusRecord

\* A new run is QUEUED, unattempted and unmarked.
LEMMA QueuedFields ==
  ASSUME NEW b \in Bundles \cup {NoBundle}
  PROVE  /\ QueuedStatus(b) \in StatusRecord
         /\ QueuedStatus(b).state = "QUEUED"
         /\ QueuedStatus(b).attempt = 0
         /\ QueuedStatus(b).enqueued = FALSE
         /\ QueuedStatus(b).hash = 0
         /\ QueuedStatus(b).bundle = b
BY QueuedType DEF QueuedStatus, NoStatus

\* The enqueue marker changes nothing else.
LEMMA EnqueuedFields ==
  ASSUME NEW rec \in StatusRecord
  PROVE  /\ [rec EXCEPT !.enqueued = TRUE] \in StatusRecord
         /\ [rec EXCEPT !.enqueued = TRUE].state = rec.state
         /\ [rec EXCEPT !.enqueued = TRUE].attempt = rec.attempt
         /\ [rec EXCEPT !.enqueued = TRUE].enqueued = TRUE
         /\ [rec EXCEPT !.enqueued = TRUE].available = rec.available
         /\ [rec EXCEPT !.enqueued = TRUE].hash = rec.hash
         /\ [rec EXCEPT !.enqueued = TRUE].bundle = rec.bundle
BY EnqueuedType DEF StatusRecord

\* A claim is RUNNING and one more attempt.
LEMMA ClaimedFields ==
  ASSUME NEW rec \in StatusRecord
  PROVE  /\ Claimed(rec) \in StatusRecord
         /\ Claimed(rec).state = "RUNNING"
         /\ Claimed(rec).attempt = rec.attempt + 1
         /\ Claimed(rec).enqueued = rec.enqueued
         /\ Claimed(rec).hash = rec.hash
         /\ Claimed(rec).bundle = rec.bundle
BY ClaimedType DEF Claimed, StatusRecord

\* A promoted record is COMPLETED and names the result.
LEMMA PromotedFields ==
  ASSUME NEW rec \in StatusRecord, NEW h \in Nat
  PROVE  /\ Promoted(rec, h) \in StatusRecord
         /\ Promoted(rec, h).state = "COMPLETED"
         /\ Promoted(rec, h).attempt = rec.attempt
         /\ Promoted(rec, h).enqueued = rec.enqueued
         /\ Promoted(rec, h).available = TRUE
         /\ Promoted(rec, h).hash = h
         /\ Promoted(rec, h).bundle = rec.bundle
BY PromotedType DEF Promoted, StatusRecord

\* A completing record is COMPLETED and names the result.
LEMMA CompletedFields ==
  ASSUME NEW rec \in StatusRecord, NEW h \in Nat
  PROVE  /\ Completed(rec, h) \in StatusRecord
         /\ Completed(rec, h).state = "COMPLETED"
         /\ Completed(rec, h).attempt = rec.attempt
         /\ Completed(rec, h).enqueued = rec.enqueued
         /\ Completed(rec, h).available = TRUE
         /\ Completed(rec, h).hash = h
         /\ Completed(rec, h).bundle = rec.bundle
BY CompletedType DEF Completed, StatusRecord

\* A failing record is FAILED and keeps the rest.
LEMMA FailedFields ==
  ASSUME NEW rec \in StatusRecord, NEW code \in Errors
  PROVE  /\ Failed(rec, code) \in StatusRecord
         /\ Failed(rec, code).state = "FAILED"
         /\ Failed(rec, code).attempt = rec.attempt
         /\ Failed(rec, code).enqueued = rec.enqueued
         /\ Failed(rec, code).hash = rec.hash
         /\ Failed(rec, code).bundle = rec.bundle
BY FailedType DEF Failed, StatusRecord

\* Time changes nothing but the lease.
LEMMA AgedFields ==
  ASSUME NEW rec \in StatusRecord
  PROVE  /\ Aged(rec) \in StatusRecord
         /\ Aged(rec).etag = rec.etag
         /\ Aged(rec).state = rec.state
         /\ Aged(rec).attempt = rec.attempt
         /\ Aged(rec).enqueued = rec.enqueued
         /\ Aged(rec).available = rec.available
         /\ Aged(rec).hash = rec.hash
         /\ Aged(rec).bundle = rec.bundle
BY AgedType DEF Aged, StatusRecord

-----------------------------------------------------------------------------
(* The inductive invariant.                                                *)

\* The inductive invariant holds before the first submission.
LEMMA InvInit == Init => IInv
<1> SUFFICES ASSUME Init PROVE IInv
  OBVIOUS
<1>1. TypeOK
  BY TypeInit
<1>2. Snapshots
  BY DEF Init, Snapshots, Snapshot, NoStatus
<1>3. StatusOK
  BY RunAssumption DEF Init, StatusOK, CompletedNamesResult, NoStatus
<1>4. ApiOK /\ WorkerOK /\ OneWorkerPerAttempt /\ PublishedFirst
  BY DEF Init, ApiOK, WorkerOK, OneWorkerPerAttempt, PublishedFirst, Claimers,
         NoStatus, NoMessage
<1> QED
  BY <1>1, <1>2, <1>3, <1>4 DEF IInv

\* A conditional write of status.json by a worker, seen from outside: a claim
\* or the end of the run.
Rewritten ==
  /\ status' \in StatusRecord
  /\ status'.etag = status.etag + 1
  /\ status.etag # 0
  /\ status.state \in Open
  /\ \/ /\ status'.state = "RUNNING"
        /\ status'.attempt = status.attempt + 1
     \/ /\ status'.state \in {"FAILED", "COMPLETED"}
        /\ status'.attempt = status.attempt
  /\ status'.attempt <= MaxAttempts
  /\ status'.enqueued = status.enqueued
  /\ status'.bundle = status.bundle
  /\ status'.state = "COMPLETED" =>
       result # 0 /\ status'.hash = result /\ status'.available = TRUE
  /\ status'.state # "COMPLETED" => status'.hash = status.hash

\* A snapshot whose ETag is the current one is the current record.
LEMMA CurrentIsStatus ==
  ASSUME IInv, NEW w \in Workers, Current(wseen[w])
  PROVE  wseen[w] = status
BY DEF IInv, Snapshots, Snapshot, Current

\* Every worker leaves status.json alone or rewrites an open record, whatever
\* the other invocations did since it read that record.
LEMMA WorkerWrites ==
  ASSUME IInv, NEW w \in Workers, WorkerStep(w) \/ WorkerFault(w)
  PROVE  UNCHANGED status \/ Rewritten
<1> USE DEF store, faults
<1>0. /\ status \in StatusRecord /\ wseen[w] \in StatusRecord
      /\ output[w] \in Nat /\ status.attempt \in Nat
  BY DEF IInv, TypeOK, StatusRecord
<1>c. ASSUME wpc[w] = "claim", Current(wseen[w]),
             status' = Stored(Claimed(wseen[w]))
      PROVE  Rewritten
  <2>1. /\ wseen[w] = status /\ status.etag # 0 /\ status.state \in Open
        /\ status.attempt < MaxAttempts
    BY <1>c, CurrentIsStatus DEF IInv, WorkerOK
  <2>2. /\ status' \in StatusRecord /\ status'.etag = status.etag + 1
        /\ status'.state = "RUNNING" /\ status'.attempt = status.attempt + 1
        /\ status'.enqueued = status.enqueued
        /\ status'.bundle = status.bundle /\ status'.hash = status.hash
    BY <1>0, <1>c, <2>1, ClaimedFields, StoredFields
  <2> QED
    BY <1>0, <2>1, <2>2, RunAssumption DEF Rewritten, Open
<1>f. ASSUME NEW code \in Errors, status.etag # 0, status.state \in Open,
             wseen[w] = status, status' = Stored(Failed(wseen[w], code))
      PROVE  Rewritten
  <2>1. /\ status' \in StatusRecord /\ status'.etag = status.etag + 1
        /\ status'.state = "FAILED" /\ status'.attempt = status.attempt
        /\ status'.enqueued = status.enqueued
        /\ status'.bundle = status.bundle /\ status'.hash = status.hash
    BY <1>0, <1>f, FailedFields, StoredFields
  <2> QED
    BY <1>0, <1>f, <2>1 DEF Rewritten, Open, IInv, StatusOK
<1>d. ASSUME wpc[w] = "complete", Current(wseen[w]),
             status' = Stored(Completed(wseen[w], output[w]))
      PROVE  Rewritten
  <2>1. /\ wseen[w] = status /\ status.etag # 0 /\ status.state = "RUNNING"
        /\ result # 0 /\ output[w] = result
    BY <1>d, CurrentIsStatus DEF IInv, WorkerOK, Claimers
  <2>2. /\ status' \in StatusRecord /\ status'.etag = status.etag + 1
        /\ status'.state = "COMPLETED" /\ status'.attempt = status.attempt
        /\ status'.enqueued = status.enqueued
        /\ status'.bundle = status.bundle
        /\ status'.hash = output[w] /\ status'.available = TRUE
    <3> DEFINE r == Completed(wseen[w], output[w])
    <3>1. /\ r \in StatusRecord /\ r.state = "COMPLETED"
          /\ r.attempt = wseen[w].attempt /\ r.enqueued = wseen[w].enqueued
          /\ r.bundle = wseen[w].bundle /\ r.hash = output[w]
          /\ r.available = TRUE
      BY <1>0, CompletedFields
    <3> HIDE DEF r
    <3>2. status' = Stored(r)
      BY <1>d DEF r
    <3> QED
      BY <1>0, <2>1, <3>1, <3>2, StoredFields
  <2> QED
    BY <1>0, <2>1, <2>2 DEF Rewritten, Open, IInv, StatusOK
<1>1. CASE Promote(w)
  <2>1. CASE ~Current(wseen[w])
    BY <1>1, <2>1 DEF Promote
  <2>2. CASE Current(wseen[w])
    <3>1. /\ wseen[w] = status /\ status.etag # 0 /\ status.state \in Open
          /\ result # 0 /\ output[w] = result
      BY <1>1, <2>2, CurrentIsStatus DEF IInv, WorkerOK, Promote
    <3>2. /\ status' \in StatusRecord /\ status'.etag = status.etag + 1
          /\ status'.state = "COMPLETED" /\ status'.attempt = status.attempt
          /\ status'.enqueued = status.enqueued
          /\ status'.bundle = status.bundle
          /\ status'.hash = output[w] /\ status'.available = TRUE
      <4> DEFINE r == Promoted(wseen[w], output[w])
      <4>1. /\ r \in StatusRecord /\ r.state = "COMPLETED"
            /\ r.attempt = wseen[w].attempt /\ r.enqueued = wseen[w].enqueued
            /\ r.bundle = wseen[w].bundle /\ r.hash = output[w]
            /\ r.available = TRUE
        BY <1>0, PromotedFields
      <4> HIDE DEF r
      <4>2. status' = Stored(r)
        BY <1>1, <2>2 DEF Promote, r
      <4> QED
        BY <1>0, <3>1, <4>1, <4>2, StoredFields
    <3> QED
      BY <1>0, <3>1, <3>2 DEF Rewritten, IInv, StatusOK
  <2> QED
    BY <2>1, <2>2
<1>2. CASE Claim(w)
  BY <1>2, <1>c DEF Claim
<1>3. CASE WriteGoverned(w)
  BY <1>3, <1>f, CurrentIsStatus
     DEF WriteGoverned, IInv, WorkerOK, Claimers, Open
<1>4. CASE Complete(w)
  BY <1>4, <1>d DEF Complete
<1>5. CASE MarkWrite(w)
  BY <1>5, <1>f, CurrentIsStatus DEF MarkWrite, IInv, WorkerOK
<1>6. CASE WriteAnswerLost(w)
  BY <1>6, <1>c, <1>d, <1>f, CurrentIsStatus
     DEF WriteAnswerLost, IInv, WorkerOK, Claimers, Open
<1>7. CASE ClaimAnswerLost(w)
  BY <1>7, <1>c DEF ClaimAnswerLost
<1>8. CASE GetStatus(w) \/ GetResult(w) \/ Execute(w) \/ Persist(w)
           \/ Recheck(w) \/ MarkRead(w) \/ WorkerError(w) \/ KillWorker(w)
  BY <1>8 DEF GetStatus, GetResult, Execute, Persist, Recheck, MarkRead,
              WorkerError, KillWorker
<1> QED
  BY <1>1, <1>2, <1>3, <1>4, <1>5, <1>6, <1>7, <1>8
     DEF WorkerStep, WorkerFault

\* What a worker leaves alone: the submitters, the other workers, a result that
\* exists, and of the queue whether a job was sent and what it names.
WorkerLeaves(w) ==
  /\ UNCHANGED <<request, apc, bundle, aseen, response>>
  /\ result # 0 => result' = result
  /\ \A a \in Api : /\ queue'[a].bundle = queue[a].bundle
                    /\ queue'[a].state = "unsent" <=> queue[a].state = "unsent"
  /\ \A v \in Workers \ {w} :
       /\ wpc'[v] = wpc[v] /\ job'[v] = job[v]
       /\ wseen'[v] = wseen[v] /\ output'[v] = output[v]

\* Every step of a worker, and every fault, leaves those alone.
LEMMA WorkerFrame ==
  ASSUME IInv, NEW w \in Workers, WorkerStep(w) \/ WorkerFault(w)
  PROVE  WorkerLeaves(w)
<1> USE DEF store, apiVars, faults
<1> DEFINE Q == \A a \in Api :
                  /\ queue'[a].bundle = queue[a].bundle
                  /\ queue'[a].state = "unsent" <=> queue[a].state = "unsent"
           O == \A v \in Workers \ {w} :
                  /\ wpc'[v] = wpc[v] /\ job'[v] = job[v]
                  /\ wseen'[v] = wseen[v] /\ output'[v] = output[v]
<1>0. TypeOK
  BY DEF IInv
<1>e. ASSUME EndInvocation(w) PROVE O
  BY <1>0, <1>e DEF EndInvocation, TypeOK
<1>a. ASSUME Ack(w) PROVE Q /\ O
  <2>1. Q
    BY <1>0, <1>a DEF Ack, TypeOK, Message
  <2> QED
    BY <1>a, <1>e, <2>1 DEF Ack
<1>n. ASSUME Nack(w) PROVE Q /\ O
  BY <1>n, <1>e DEF Nack
<1>k. ASSUME NEW pc, Keep(w, pc) PROVE Q /\ O
  BY <1>0, <1>k DEF Keep, Goto, TypeOK
<1>s. ASSUME NEW pc, NEW r, Goto(w, pc), wseen' = [wseen EXCEPT ![w] = r],
             UNCHANGED output
      PROVE  Q /\ O
  BY <1>0, <1>s DEF Goto, TypeOK
<1>o. ASSUME NEW pc, NEW h, Goto(w, pc), output' = [output EXCEPT ![w] = h],
             UNCHANGED wseen
      PROVE  Q /\ O
  BY <1>0, <1>o DEF Goto, TypeOK
<1>g. ASSUME NEW pc, Goto(w, pc), UNCHANGED <<wseen, output>>
      PROVE  Q /\ O
  BY <1>k, <1>g DEF Keep
<1> HIDE DEF Q, O
<1>1. CASE GetStatus(w)
  <2>1. Q /\ O
    BY <1>1, <1>a, <1>k, <1>s DEF GetStatus, Raise
  <2> QED
    BY <1>1, <2>1 DEF GetStatus, WorkerLeaves, Q, O
<1>2. CASE GetResult(w)
  <2>1. Q /\ O
    BY <1>2, <1>a, <1>k, <1>o DEF GetResult, Raise
  <2> QED
    BY <1>2, <2>1 DEF GetResult, WorkerLeaves, Q, O
<1>3. CASE Promote(w)
  BY <1>3, <1>a DEF Promote, WorkerLeaves, Q, O
<1>4. CASE Claim(w)
  <2>1. Q /\ O
    BY <1>4, <1>a, <1>s DEF Claim
  <2> QED
    BY <1>4, <2>1 DEF Claim, WorkerLeaves, Q, O
<1>5. CASE Execute(w)
  <2>1. Q /\ O
    BY <1>5, <1>k, <1>o DEF Execute
  <2> QED
    BY <1>5, <2>1 DEF Execute, WorkerLeaves, Q, O
<1>6. CASE WriteGoverned(w)
  <2>1. Q /\ O
    BY <1>6, <1>a, <1>k DEF WriteGoverned, Raise
  <2> QED
    BY <1>6, <2>1 DEF WriteGoverned, WorkerLeaves, Q, O
<1>7. CASE Persist(w)
  <2>1. Q /\ O
    BY <1>7, <1>g, <1>o DEF Persist
  <2> QED
    BY <1>7, <2>1 DEF Persist, WorkerLeaves, Q, O
<1>8. CASE Complete(w)
  <2>1. Q /\ O
    BY <1>8, <1>a, <1>k DEF Complete
  <2> QED
    BY <1>8, <2>1 DEF Complete, WorkerLeaves, Q, O
<1>9. CASE Recheck(w)
  BY <1>9, <1>a, <1>k DEF Recheck, Raise, WorkerLeaves, Q, O
<1>10. CASE MarkRead(w)
  <2>1. Q /\ O
    BY <1>10, <1>n, <1>s DEF MarkRead
  <2> QED
    BY <1>10, <2>1 DEF MarkRead, WorkerLeaves, Q, O
<1>11. CASE MarkWrite(w)
  BY <1>11, <1>n DEF MarkWrite, WorkerLeaves, Q, O
<1>12. CASE WorkerError(w)
  BY <1>12, <1>k DEF WorkerError, Raise, WorkerLeaves, Q, O
<1>13. CASE WriteAnswerLost(w)
  BY <1>13, <1>k DEF WriteAnswerLost, Raise, WorkerLeaves, Q, O
<1>14. CASE ClaimAnswerLost(w)
  BY <1>14, <1>a DEF ClaimAnswerLost, WorkerLeaves, Q, O
<1>15. CASE KillWorker(w)
  BY <1>15, <1>n DEF KillWorker, WorkerLeaves, Q, O
<1> QED
  BY <1>1, <1>2, <1>3, <1>4, <1>5, <1>6, <1>7, <1>8, <1>9, <1>10, <1>11,
     <1>12, <1>13, <1>14, <1>15 DEF WorkerStep, WorkerFault

\* The clause of WorkerOK about one worker.
WorkerOKFor(w) ==
  /\ wpc[w] # "idle" => job[w] \in Api /\ queue[job[w]].state # "unsent"
  /\ wpc[w] \in Claimers \cup {"get_result", "promote", "claim"} =>
       queue[job[w]].bundle = request
  /\ wpc[w] \in {"get_result", "promote", "claim", "mark_write"} =>
       wseen[w].etag # 0 /\ wseen[w].state \in Open
  /\ wpc[w] = "claim" => wseen[w].attempt < MaxAttempts
  /\ wpc[w] \in Claimers =>
       wseen[w].etag # 0 /\ wseen[w].state = "RUNNING" /\ wseen[w].attempt > 0
  /\ wpc[w] = "persist" => output[w] # 0
  /\ wpc[w] \in {"promote", "complete", "recheck"} =>
       result # 0 /\ output[w] = result

\* How a worker's place, record and output change when it keeps its job: each
\* conjunct of WorkerOKFor then only needs the facts of its own step.
Stays(w, pc) ==
  /\ wpc'[w] = pc
  /\ job'[w] = job[w]

\* An invocation that ends, by an answer or by a fault, is idle.
LEMMA EndedIsIdle ==
  ASSUME IInv, NEW w \in Workers, Ack(w) \/ Nack(w)
  PROVE  wpc'[w] = "idle" /\ wseen'[w] = NoStatus /\ WorkerOKFor(w)'
<1>1. wpc'[w] = "idle" /\ wseen'[w] = NoStatus
  BY DEF IInv, TypeOK, Ack, Nack, EndInvocation
<1> QED
  BY <1>1 DEF WorkerOKFor, Claimers

\* A worker that raises, or goes on with what it holds, keeps its record.
LEMMA GoesOn ==
  ASSUME IInv, NEW w \in Workers, NEW pc \in WorkerPc, Goto(w, pc)
  PROVE  Stays(w, pc)
BY DEF IInv, TypeOK, Goto, Stays

\* A worker that raises goes on to _mark_failed with the job it has.
LEMMA RaisedIsOK ==
  ASSUME IInv, NEW w \in Workers, Raise(w), wpc[w] # "idle", WorkerLeaves(w)
  PROVE  /\ wpc'[w] = "mark_read" /\ wseen'[w] = wseen[w]
         /\ WorkerOKFor(w)'
<1>1. wpc'[w] = "mark_read" /\ wseen'[w] = wseen[w] /\ job'[w] = job[w]
  BY GoesOn DEF Raise, Keep, Stays
<1> QED
  BY <1>1 DEF WorkerOKFor, Claimers, IInv, WorkerOK, WorkerLeaves

\* Which record a worker holds after a step of its own.
OwnRecord(w) ==
  \/ wseen'[w] = wseen[w] /\ (wpc'[w] \in Claimers => wpc[w] \in Claimers)
  \/ wseen'[w] = NoStatus /\ wpc'[w] \notin Claimers
  \/ wseen'[w] = status /\ UNCHANGED status /\ wpc'[w] \notin Claimers
  \/ wseen'[w] = status' /\ Rewritten

\* A worker that takes a step, or is hit by a fault, is left in a place its
\* job, its record and its output justify.
LEMMA WorkerOwnStep ==
  ASSUME IInv, NEW w \in Workers, WorkerStep(w) \/ WorkerFault(w)
  PROVE  WorkerOKFor(w)' /\ OwnRecord(w)
<1>f. WorkerLeaves(w)
  BY WorkerFrame
<1>w. UNCHANGED status \/ Rewritten
  BY WorkerWrites
<1>i. WorkerOKFor(w)
  BY DEF IInv, WorkerOK, WorkerOKFor
<1>e. ASSUME Ack(w) \/ Nack(w) PROVE WorkerOKFor(w)' /\ OwnRecord(w)
  BY <1>e, EndedIsIdle DEF OwnRecord, Claimers
<1>r. ASSUME Raise(w), wpc[w] # "idle" PROVE WorkerOKFor(w)' /\ OwnRecord(w)
  BY <1>r, <1>f, RaisedIsOK DEF OwnRecord, Claimers
<1>q. wpc[w] # "idle" =>
        /\ job[w] \in Api /\ queue'[job[w]].state # "unsent"
        /\ queue'[job[w]].bundle = queue[job[w]].bundle
  BY <1>i, <1>f DEF WorkerOKFor, WorkerLeaves
<1>t. /\ wseen \in [Workers -> StatusRecord] /\ output \in [Workers -> Nat]
      /\ status \in StatusRecord /\ request' = request
  BY <1>f DEF IInv, TypeOK, WorkerLeaves
<1>1. CASE GetStatus(w)
  <2>1. CASE Raise(w)
    BY <1>1, <1>r, <2>1 DEF GetStatus
  <2>2. CASE Ack(w)
    BY <1>e, <2>2
  <2>3. CASE /\ JobMatches(w) /\ ~Finished(status)
             /\ Goto(w, "get_result")
             /\ wseen' = [wseen EXCEPT ![w] = status]
    <3>1. /\ wpc'[w] = "get_result" /\ job'[w] = job[w] /\ wseen'[w] = status
          /\ wpc[w] # "idle" /\ UNCHANGED status
      BY <1>1, <1>t, <2>3, GoesOn DEF GetStatus, Stays, store
    <3>2. status.etag # 0
      BY <1>q, <3>1, <1>i DEF IInv, ApiOK, WorkerOKFor
    <3>3. status.state \in Open /\ status.bundle = request
      BY <2>3, <3>2 DEF IInv, StatusOK, Finished
    <3>4. queue[job[w]].bundle = request
      BY <2>3, <3>3 DEF JobMatches
    <3> QED
      BY <1>q, <1>t, <3>1, <3>2, <3>3, <3>4
         DEF WorkerOKFor, OwnRecord, Claimers
  <2> QED
    BY <1>1, <2>1, <2>2, <2>3 DEF GetStatus
<1>2. CASE GetResult(w)
  <2>1. CASE Raise(w)
    BY <1>2, <1>r, <2>1 DEF GetResult
  <2>2. CASE Ack(w)
    BY <1>e, <2>2
  <2>3. CASE /\ result # 0 /\ Goto(w, "promote")
             /\ output' = [output EXCEPT ![w] = result] /\ UNCHANGED wseen
    <3>1. /\ wpc'[w] = "promote" /\ job'[w] = job[w] /\ wseen'[w] = wseen[w]
          /\ output'[w] = result /\ wpc[w] = "get_result"
          /\ UNCHANGED <<status, result>>
      BY <1>2, <1>t, <2>3, GoesOn DEF GetResult, Stays, store
    <3> QED
      BY <1>i, <1>q, <1>t, <2>3, <3>1 DEF WorkerOKFor, OwnRecord, Claimers
  <2>4. CASE wseen[w].attempt < MaxAttempts /\ Keep(w, "claim")
    <3>1. /\ wpc'[w] = "claim" /\ job'[w] = job[w] /\ wseen'[w] = wseen[w]
          /\ wpc[w] = "get_result"
      BY <1>2, <2>4, GoesOn DEF GetResult, Stays, Keep
    <3> QED
      BY <1>i, <1>q, <1>t, <2>4, <3>1 DEF WorkerOKFor, OwnRecord, Claimers
  <2> QED
    BY <1>2, <2>1, <2>2, <2>3, <2>4 DEF GetResult
<1>3. CASE Promote(w)
  BY <1>3, <1>e DEF Promote
<1>4. CASE Claim(w)
  <2>1. CASE ~Current(wseen[w])
    BY <1>4, <1>e, <2>1 DEF Claim
  <2>2. CASE Current(wseen[w])
    <3>1. /\ wpc'[w] = "execute" /\ job'[w] = job[w] /\ wseen'[w] = status'
          /\ wpc[w] = "claim" /\ status' = Stored(Claimed(wseen[w]))
      BY <1>4, <1>t, <2>2, GoesOn DEF Claim, Stays
    <3>2. /\ Stored(Claimed(wseen[w])).state = "RUNNING"
          /\ Stored(Claimed(wseen[w])).attempt = wseen[w].attempt + 1
          /\ Stored(Claimed(wseen[w])).etag = status.etag + 1
          /\ wseen[w].attempt \in Nat /\ status.etag \in Nat
      BY <1>t, ClaimedFields, StoredFields DEF StatusRecord
    <3>3. Rewritten
      BY <1>w, <3>1, <3>2 DEF Rewritten
    <3> QED
      BY <1>i, <1>q, <1>t, <3>1, <3>2, <3>3
         DEF WorkerOKFor, OwnRecord, Claimers
  <2> QED
    BY <2>1, <2>2
<1>5. CASE Execute(w)
  <2>1. /\ wpc'[w] \in {"persist", "governed"} /\ job'[w] = job[w]
        /\ wseen'[w] = wseen[w] /\ wpc[w] = "execute"
        /\ wpc'[w] = "persist" => output'[w] = executions + 1
        /\ executions \in Nat
    BY <1>5, <1>t, GoesOn DEF Execute, Keep, Stays, IInv, TypeOK
  <2> QED
    BY <1>i, <1>q, <1>t, <2>1 DEF WorkerOKFor, OwnRecord, Claimers
<1>6. CASE WriteGoverned(w)
  BY <1>6, <1>e, <1>r DEF WriteGoverned
<1>7. CASE Persist(w)
  <2>1. /\ wpc'[w] = "complete" /\ job'[w] = job[w] /\ wseen'[w] = wseen[w]
        /\ wpc[w] = "persist" /\ result' = output'[w] /\ result' # 0
    BY <1>7, <1>i, <1>t, GoesOn DEF Persist, Stays, WorkerOKFor
  <2> QED
    BY <1>i, <1>q, <1>t, <2>1 DEF WorkerOKFor, OwnRecord, Claimers
<1>8. CASE Complete(w)
  <2>1. CASE Ack(w)
    BY <1>e, <2>1
  <2>2. CASE Keep(w, "recheck")
    <3>1. /\ wpc'[w] = "recheck" /\ job'[w] = job[w] /\ wseen'[w] = wseen[w]
          /\ output'[w] = output[w] /\ wpc[w] = "complete"
          /\ result' = result
      BY <1>8, <2>2, GoesOn DEF Complete, Keep, Stays
    <3> QED
      BY <1>i, <1>q, <1>t, <3>1 DEF WorkerOKFor, OwnRecord, Claimers
  <2> QED
    BY <1>8, <2>1, <2>2 DEF Complete
<1>9. CASE Recheck(w)
  BY <1>9, <1>e, <1>r DEF Recheck
<1>10. CASE MarkRead(w)
  <2>1. CASE Nack(w)
    BY <1>e, <2>1
  <2>2. CASE /\ ~Finished(status) /\ Goto(w, "mark_write")
             /\ wseen' = [wseen EXCEPT ![w] = status]
    <3>1. /\ wpc'[w] = "mark_write" /\ job'[w] = job[w] /\ wseen'[w] = status
          /\ wpc[w] # "idle" /\ UNCHANGED status
      BY <1>10, <1>t, <2>2, GoesOn DEF MarkRead, Stays, store
    <3>2. status.etag # 0
      BY <1>q, <3>1, <1>i DEF IInv, ApiOK, WorkerOKFor
    <3>3. status.state \in Open
      BY <2>2, <3>2 DEF IInv, StatusOK, Finished
    <3> QED
      BY <1>q, <1>t, <3>1, <3>2, <3>3 DEF WorkerOKFor, OwnRecord, Claimers
  <2> QED
    BY <1>10, <2>1, <2>2 DEF MarkRead
<1>11. CASE MarkWrite(w)
  BY <1>11, <1>e DEF MarkWrite
<1>12. CASE WorkerError(w)
  BY <1>12, <1>r DEF WorkerError
<1>13. CASE WriteAnswerLost(w)
  BY <1>13, <1>r DEF WriteAnswerLost
<1>14. CASE ClaimAnswerLost(w)
  BY <1>14, <1>e DEF ClaimAnswerLost
<1>15. CASE KillWorker(w)
  BY <1>15, <1>e DEF KillWorker
<1> QED
  BY <1>1, <1>2, <1>3, <1>4, <1>5, <1>6, <1>7, <1>8, <1>9, <1>10, <1>11,
     <1>12, <1>13, <1>14, <1>15 DEF WorkerStep, WorkerFault

\* A snapshot stays one when a worker leaves or rewrites the status.
LEMMA SnapshotKept ==
  ASSUME status \in StatusRecord, NEW rec \in StatusRecord,
         Snapshot(rec, status), UNCHANGED status \/ Rewritten
  PROVE  Snapshot(rec, status')
<1>1. CASE UNCHANGED status
  BY <1>1
<1>2. CASE Rewritten
  <2>1. /\ rec.etag \in Nat /\ status.etag \in Nat
        /\ rec.attempt \in Nat /\ status.attempt \in Nat
    BY DEF StatusRecord
  <2> QED
    BY <1>2, <2>1 DEF Snapshot, Rewritten
<1> QED
  BY <1>1, <1>2

\* The current status, and the record nobody has read, are snapshots.
LEMMA SnapshotBase ==
  ASSUME NEW rec \in StatusRecord
  PROVE  /\ Snapshot(rec, rec)
         /\ rec.etag # 0 => Snapshot(NoStatus, rec)
         /\ Snapshot(NoStatus, NoStatus)
BY DEF Snapshot, NoStatus, StatusRecord

\* Only an invocation that was given a job takes steps or is hit by faults.
LEMMA WorkerBusy ==
  ASSUME NEW w \in Workers, WorkerStep(w) \/ WorkerFault(w)
  PROVE  wpc[w] # "idle"
BY DEF WorkerStep, WorkerFault, GetStatus, GetResult, Promote, Claim, Execute,
       WriteGoverned, Persist, Complete, Recheck, MarkRead, MarkWrite,
       WorkerError, WriteAnswerLost, ClaimAnswerLost, KillWorker

\* The steps and faults of a worker preserve the invariant.
LEMMA InvWorker ==
  ASSUME IInv, NEW w \in Workers, WorkerStep(w) \/ WorkerFault(w)
  PROVE  IInv'
<1>f. WorkerLeaves(w)
  BY WorkerFrame
<1>w. UNCHANGED status \/ Rewritten
  BY WorkerWrites
<1>o. WorkerOKFor(w)' /\ OwnRecord(w)
  BY WorkerOwnStep
<1>b. wpc[w] # "idle"
  BY WorkerBusy
<1>0. TypeOK'
  BY TypeWorker DEF IInv
<1>t. /\ status \in StatusRecord /\ status' \in StatusRecord
      /\ \A v \in Workers : wseen[v] \in StatusRecord
      /\ \A a \in Api : aseen[a] \in StatusRecord
  BY <1>0 DEF IInv, TypeOK
<1>e. status.etag # 0 => status'.etag # 0
  BY <1>t, <1>w DEF Rewritten, StatusRecord
<1>1. Snapshots'
  <2>1. \A a \in Api : Snapshot(aseen[a], status')
    BY <1>t, <1>w, SnapshotKept DEF IInv, Snapshots
  <2>2. \A v \in Workers : Snapshot(wseen[v], status')
    BY <1>t, <1>w, SnapshotKept DEF IInv, Snapshots
  <2>3. Snapshot(NoStatus, status') /\ Snapshot(status', status')
    BY <1>t, SnapshotBase, NoStatusType, SnapshotKept, <1>w
       DEF IInv, StatusOK
  <2>4. Snapshot(wseen'[w], status')
    BY <1>o, <2>2, <2>3 DEF OwnRecord
  <2> QED
    BY <1>f, <2>1, <2>2, <2>4 DEF Snapshots, WorkerLeaves
<1>2. StatusOK'
  <2>1. CASE UNCHANGED status
    BY <1>f, <2>1 DEF IInv, StatusOK, CompletedNamesResult, WorkerLeaves
  <2>2. CASE Rewritten
    <3>1. status'.etag # 0
      BY <1>e, <2>2 DEF Rewritten
    <3> QED
      BY <1>f, <2>2, <3>1
         DEF IInv, StatusOK, CompletedNamesResult, WorkerLeaves, Rewritten,
             Open
  <2> QED
    BY <1>w, <2>1, <2>2
<1>3. ApiOK'
  BY <1>e, <1>f DEF IInv, ApiOK, WorkerLeaves
<1>4. WorkerOK'
  <2>1. ASSUME NEW v \in Workers \ {w} PROVE WorkerOKFor(v)'
    <3>1. WorkerOKFor(v)
      BY DEF IInv, WorkerOK, WorkerOKFor
    <3>2. /\ wpc'[v] = wpc[v] /\ job'[v] = job[v] /\ wseen'[v] = wseen[v]
          /\ output'[v] = output[v] /\ request' = request
          /\ result # 0 => result' = result
          /\ \A a \in Api :
               /\ queue'[a].bundle = queue[a].bundle
               /\ queue'[a].state = "unsent" <=> queue[a].state = "unsent"
      BY <1>f DEF WorkerLeaves
    <3> QED
      BY <3>1, <3>2 DEF WorkerOKFor, Claimers
  <2>2. \A v \in Workers : WorkerOKFor(v)'
    BY <1>o, <2>1
  <2> QED
    BY <2>2 DEF WorkerOK, WorkerOKFor
<1>5. OneWorkerPerAttempt'
  <2>1. ASSUME NEW v \in Workers \ {w}, wpc'[v] \in Claimers,
               wpc'[w] \in Claimers
        PROVE  wseen'[v].attempt # wseen'[w].attempt
    <3>1. wpc[v] \in Claimers /\ wseen'[v] = wseen[v]
      BY <1>f, <2>1 DEF WorkerLeaves
    <3>2. CASE wseen'[w] = wseen[w] /\ wpc[w] \in Claimers
      BY <3>1, <3>2 DEF IInv, OneWorkerPerAttempt
    <3>3. CASE wseen'[w] = status' /\ Rewritten
      <4>1. wseen[v].attempt <= status.attempt
        BY DEF IInv, Snapshots, Snapshot
      <4>2. wseen[v].attempt \in Nat /\ status.attempt \in Nat
        BY <1>t DEF StatusRecord
      <4>3. status'.state = "RUNNING"
        BY <1>o, <2>1, <3>3 DEF WorkerOKFor
      <4>4. status'.attempt = status.attempt + 1
        BY <3>3, <4>3 DEF Rewritten
      <4> QED
        BY <3>1, <3>3, <4>1, <4>2, <4>4
    <3> QED
      BY <1>o, <2>1, <3>2, <3>3 DEF OwnRecord
  <2>2. ASSUME NEW v \in Workers \ {w}, NEW u \in Workers \ {w}, u # v,
               wpc'[v] \in Claimers, wpc'[u] \in Claimers
        PROVE  wseen'[v].attempt # wseen'[u].attempt
    BY <1>f, <2>2 DEF WorkerLeaves, IInv, OneWorkerPerAttempt
  <2> QED
    BY <2>1, <2>2 DEF OneWorkerPerAttempt
<1>6. PublishedFirst'
  <2>1. /\ job[w] \in Api /\ queue[job[w]].state # "unsent"
    BY <1>b DEF IInv, WorkerOK
  <2>2. Published'
    BY <1>f, <2>1 DEF Published, WorkerLeaves
  <2> QED
    BY <2>2 DEF PublishedFirst
<1> QED
  BY <1>0, <1>1, <1>2, <1>3, <1>4, <1>5, <1>6 DEF IInv

-----------------------------------------------------------------------------
(* The submitters preserve the invariant.                                  *)

\* The creation of status.json, seen from outside.
Created ==
  /\ status = NoStatus /\ request \in Bundles /\ request' = request
  /\ status' \in StatusRecord
  /\ status'.etag = 1 /\ status'.state = "QUEUED" /\ status'.attempt = 0
  /\ status'.enqueued = FALSE /\ status'.hash = 0
  /\ status'.bundle = request

\* The enqueue marker, seen from outside.
Marked ==
  /\ status.etag # 0 /\ request' = request /\ Published
  /\ status' \in StatusRecord
  /\ status'.etag = status.etag + 1
  /\ status.state = "QUEUED" /\ status'.state = "QUEUED"
  /\ status'.attempt = status.attempt
  /\ status'.enqueued = TRUE /\ status'.hash = status.hash
  /\ status'.bundle = status.bundle

\* A submitter leaves status.json alone, creates it or marks it enqueued.
LEMMA ApiWrites ==
  ASSUME IInv, NEW a \in Api, ApiNext(a)
  PROVE  UNCHANGED status \/ Created \/ Marked
<1> USE DEF store
<1>0. /\ status \in StatusRecord /\ aseen[a] \in StatusRecord
      /\ bundle[a] \in Bundles \cup {NoBundle}
  BY DEF IInv, TypeOK
<1>c. ASSUME apc[a] = "put_status", status.etag = 0, request' = request,
             status' = Stored(QueuedStatus(bundle[a]))
      PROVE  Created
  <2>1. status = NoStatus /\ request = bundle[a] /\ request \in Bundles
    BY <1>c DEF IInv, StatusOK, ApiOK
  <2> DEFINE r == QueuedStatus(bundle[a])
  <2>2. /\ r \in StatusRecord /\ r.state = "QUEUED" /\ r.attempt = 0
        /\ r.enqueued = FALSE /\ r.hash = 0 /\ r.bundle = bundle[a]
    BY <1>0, QueuedFields
  <2> HIDE DEF r
  <2>3. status' = Stored(r)
    BY <1>c DEF r
  <2>4. /\ status' \in StatusRecord /\ status'.etag = status.etag + 1
        /\ status'.state = "QUEUED" /\ status'.attempt = 0
        /\ status'.enqueued = FALSE /\ status'.hash = 0
        /\ status'.bundle = bundle[a]
    BY <1>0, <2>2, <2>3, StoredFields
  <2> QED
    BY <1>c, <2>1, <2>4 DEF Created
<1>1. CASE CreateStatus(a)
  BY <1>1, <1>c DEF CreateStatus
<1>2. CASE ApiAnswerLost(a)
  BY <1>2, <1>c DEF ApiAnswerLost
<1>3. CASE RecordEnqueued(a)
  <2>1. CASE ~Current(aseen[a])
    BY <1>3, <2>1 DEF RecordEnqueued
  <2>2. CASE Current(aseen[a])
    <3>1. /\ aseen[a] = status /\ status.etag # 0 /\ status.state = "QUEUED"
          /\ Published
      BY <1>3, <2>2
         DEF IInv, Snapshots, Snapshot, Current, ApiOK, RecordEnqueued,
             Published
    <3> DEFINE r == [aseen[a] EXCEPT !.enqueued = TRUE]
    <3>2. /\ r \in StatusRecord /\ r.state = status.state
          /\ r.attempt = status.attempt /\ r.enqueued = TRUE
          /\ r.hash = status.hash /\ r.bundle = status.bundle
      BY <1>0, <3>1, EnqueuedFields
    <3> HIDE DEF r
    <3>3. status' = Stored(r) /\ request' = request
      BY <1>3, <2>2 DEF RecordEnqueued, r
    <3> QED
      BY <1>0, <3>1, <3>2, <3>3, StoredFields DEF Marked
  <2> QED
    BY <2>1, <2>2
<1>4. CASE StartSubmit(a) \/ PutRequest(a) \/ ReadExisting(a) \/ SendJob(a)
           \/ ApiFail(a)
  BY <1>4 DEF StartSubmit, PutRequest, ReadExisting, SendJob, ApiFail
<1> QED
  BY <1>1, <1>2, <1>3, <1>4 DEF ApiNext

\* What a submitter leaves alone: the workers, the result, the other
\* submitters and their messages.
ApiLeaves(a) ==
  /\ UNCHANGED <<result, wpc, job, wseen, output>>
  /\ request' = request \/ (request = NoBundle /\ request' \in Bundles)
  /\ \A b \in Api \ {a} :
       /\ apc'[b] = apc[b] /\ bundle'[b] = bundle[b] /\ aseen'[b] = aseen[b]
       /\ response'[b] = response[b] /\ queue'[b] = queue[b]
  /\ \/ queue'[a] = queue[a]
     \/ /\ apc[a] = "send" /\ queue'[a].state = "queued"
        /\ queue'[a].bundle = bundle[a]

\* Every step of a submitter leaves those alone.
LEMMA ApiFrame ==
  ASSUME IInv, NEW a \in Api, ApiNext(a)
  PROVE  ApiLeaves(a)
<1> USE DEF store, workerVars, faults
<1> DEFINE O == \A b \in Api \ {a} :
                  /\ apc'[b] = apc[b] /\ bundle'[b] = bundle[b]
                  /\ aseen'[b] = aseen[b] /\ response'[b] = response[b]
                  /\ queue'[b] = queue[b]
           W == UNCHANGED <<result, wpc, job, wseen, output>>
           R == \/ request' = request
                \/ request = NoBundle /\ request' \in Bundles
           S == \/ queue'[a] = queue[a]
                \/ /\ apc[a] = "send" /\ queue'[a].state = "queued"
                   /\ queue'[a].bundle = bundle[a]
<1>0. TypeOK
  BY DEF IInv
<1>r. ASSUME NEW code, Respond(a, code), UNCHANGED <<bundle, queue>>
      PROVE  O
  BY <1>0, <1>r DEF Respond, TypeOK
<1>p. ASSUME NEW pc, apc' = [apc EXCEPT ![a] = pc],
             UNCHANGED <<bundle, aseen, response, queue>>
      PROVE  O
  BY <1>0, <1>p DEF TypeOK
<1>g. ASSUME O, W, R, S PROVE ApiLeaves(a)
  BY <1>g DEF ApiLeaves
<1>1. CASE StartSubmit(a)
  <2>1. O
    BY <1>0, <1>1 DEF StartSubmit, ApiStep, TypeOK
  <2>2. W /\ R /\ S
    BY <1>1 DEF StartSubmit
  <2> QED
    BY <1>g, <2>1, <2>2
<1>2. CASE PutRequest(a)
  <2>1. O
    <3> HIDE DEF O
    <3> QED BY <1>2, <1>p DEF PutRequest
  <2>2. W /\ S
    BY <1>2 DEF PutRequest
  <2>3. R
    BY <1>2 DEF PutRequest, IInv, ApiOK
  <2> QED
    BY <1>g, <2>1, <2>2, <2>3
<1>3. CASE CreateStatus(a)
  <2>1. O
    BY <1>0, <1>3 DEF CreateStatus, TypeOK
  <2>2. W /\ R /\ S
    BY <1>3 DEF CreateStatus
  <2> QED
    BY <1>g, <2>1, <2>2
<1>4. CASE ReadExisting(a)
  <2>1. O
    <3>1. CASE UNCHANGED response
      BY <1>0, <1>4, <3>1 DEF ReadExisting, Respond, TypeOK
    <3>2. CASE Respond(a, "404") \/ Respond(a, "202")
      <4> HIDE DEF O
      <4> QED BY <1>4, <1>r, <3>2 DEF ReadExisting
    <3> QED
      BY <1>4, <3>1, <3>2 DEF ReadExisting
  <2>2. W /\ R /\ S
    BY <1>4 DEF ReadExisting
  <2> QED
    BY <1>g, <2>1, <2>2
<1>5. CASE SendJob(a)
  <2>1. O
    BY <1>0, <1>5 DEF SendJob, ApiStep, TypeOK
  <2>2. W /\ R
    BY <1>5 DEF SendJob
  <2>3. S
    BY <1>0, <1>5 DEF SendJob, ApiStep, TypeOK, NoMessage
  <2> QED
    BY <1>g, <2>1, <2>2, <2>3
<1>6. CASE RecordEnqueued(a)
  <2>1. O
    <3> HIDE DEF O
    <3> QED BY <1>6, <1>r DEF RecordEnqueued
  <2>2. W /\ R /\ S
    BY <1>6 DEF RecordEnqueued
  <2> QED
    BY <1>g, <2>1, <2>2
<1>7. CASE ApiFail(a)
  <2>1. O
    <3> HIDE DEF O
    <3> QED BY <1>7, <1>r DEF ApiFail
  <2>2. W /\ R /\ S
    BY <1>7 DEF ApiFail
  <2> QED
    BY <1>g, <2>1, <2>2
<1>8. CASE ApiAnswerLost(a)
  <2>1. O
    <3> HIDE DEF O
    <3> QED BY <1>8, <1>p DEF ApiAnswerLost
  <2>2. W /\ S
    BY <1>8 DEF ApiAnswerLost
  <2>3. R
    BY <1>8 DEF ApiAnswerLost, IInv, ApiOK
  <2> QED
    BY <1>g, <2>1, <2>2, <2>3
<1> QED
  BY <1>1, <1>2, <1>3, <1>4, <1>5, <1>6, <1>7, <1>8 DEF ApiNext

\* The clause of ApiOK about one submitter.
ApiOKFor(a) ==
  /\ apc[a] # "idle" => bundle[a] \in Bundles
  /\ apc[a] = "put_status" => request = bundle[a]
  /\ apc[a] \in {"send", "record"} =>
       aseen[a].etag # 0 /\ aseen[a].state = "QUEUED"
  /\ apc[a] \notin {"record", "done"} => queue[a].state = "unsent"
  /\ apc[a] = "record" => queue[a].state # "unsent"
  /\ queue[a].state # "unsent" => queue[a].bundle \in Bundles
                                /\ status.etag # 0

\* A snapshot stays one when a submitter creates or marks the status.
LEMMA SnapshotKeptByApi ==
  ASSUME status \in StatusRecord, NEW rec \in StatusRecord,
         Snapshot(rec, status), UNCHANGED status \/ Created \/ Marked
  PROVE  Snapshot(rec, status')
<1>0. /\ rec.etag \in Nat /\ status.etag \in Nat
      /\ rec.attempt \in Nat /\ status.attempt \in Nat
  BY DEF StatusRecord
<1>1. CASE UNCHANGED status
  BY <1>1
<1>2. CASE Created
  BY <1>0, <1>2 DEF Snapshot, Created, NoStatus
<1>3. CASE Marked
  BY <1>0, <1>3 DEF Snapshot, Marked
<1> QED
  BY <1>1, <1>2, <1>3

\* Which record a submitter holds, and what its answer says, after its step.
OwnSubmission(a) ==
  /\ aseen'[a] \in {aseen[a], NoStatus, status, status'}
  /\ response'[a] = "202" => response[a] = "202" \/ Published

\* A submitter that takes a step is left in a place its record, its message
\* and request.json justify.
LEMMA ApiOwnStep ==
  ASSUME IInv, NEW a \in Api, ApiNext(a)
  PROVE  ApiOKFor(a)' /\ OwnSubmission(a)
<1> USE DEF store
<1>f. ApiLeaves(a)
  BY ApiFrame
<1>w. UNCHANGED status \/ Created \/ Marked
  BY ApiWrites
<1>i. ApiOKFor(a)
  BY DEF IInv, ApiOK, ApiOKFor
<1>t. /\ apc \in [Api -> ApiPc] /\ bundle \in [Api -> Bundles \cup {NoBundle}]
      /\ aseen \in [Api -> StatusRecord] /\ response \in [Api -> Responses]
      /\ queue \in [Api -> Message] /\ status \in StatusRecord
      /\ NoBundle \notin Bundles
  BY RunAssumption DEF IInv, TypeOK
<1>e. status.etag # 0 => status'.etag # 0
  BY <1>t, <1>w DEF Created, Marked, StatusRecord
<1>r. ASSUME NEW code, Respond(a, code), UNCHANGED <<bundle, queue>>,
             code = "202" => Published, apc[a] # "idle"
      PROVE  ApiOKFor(a)' /\ OwnSubmission(a)
  <2>1. apc'[a] = "done" /\ aseen'[a] = NoStatus /\ response'[a] = code
    BY <1>r, <1>t DEF Respond
  <2>2. bundle[a] \in Bundles
    BY <1>i, <1>r DEF ApiOKFor
  <2> QED
    BY <1>e, <1>i, <1>r, <2>1, <2>2 DEF ApiOKFor, OwnSubmission
<1>1. CASE StartSubmit(a)
  <2>1. /\ apc[a] = "idle" /\ apc'[a] = "put_request" /\ bundle'[a] \in Bundles
        /\ UNCHANGED <<request, status, queue, aseen, response>>
    BY <1>1, <1>t DEF StartSubmit, ApiStep
  <2> QED
    BY <1>i, <2>1 DEF ApiOKFor, OwnSubmission
<1>2. CASE PutRequest(a)
  <2>1. /\ apc[a] = "put_request"
        /\ \/ apc'[a] = "put_status" /\ request' = bundle[a]
           \/ apc'[a] = "get_status"
        /\ UNCHANGED <<status, queue, bundle, aseen, response>>
    BY <1>2, <1>t DEF PutRequest
  <2> QED
    BY <1>i, <2>1 DEF ApiOKFor, OwnSubmission
<1>3. CASE CreateStatus(a)
  <2>1. /\ apc[a] = "put_status"
        /\ UNCHANGED <<request, queue, bundle, response>>
    BY <1>3 DEF CreateStatus
  <2>2. CASE status.etag = 0
    <3>1. /\ apc'[a] = "send" /\ aseen'[a] = status'
          /\ status' = Stored(QueuedStatus(bundle[a]))
      BY <1>3, <1>t, <2>2 DEF CreateStatus
    <3>2. Created
      <4>1. status' # status
        <5>1. QueuedStatus(bundle[a]) \in StatusRecord
          BY <1>t, QueuedType
        <5> QED
          BY <1>t, <3>1, <5>1, StoredFields DEF StatusRecord
      <4> QED
        BY <1>w, <2>2, <4>1 DEF Marked
    <3> QED
      BY <1>i, <2>1, <3>1, <3>2 DEF ApiOKFor, OwnSubmission, Created
  <2>3. CASE status.etag # 0
    <3>1. /\ apc'[a] = "get_status" /\ UNCHANGED <<status, aseen>>
      BY <1>3, <1>t, <2>3 DEF CreateStatus
    <3> QED
      BY <1>i, <2>1, <3>1 DEF ApiOKFor, OwnSubmission
  <2> QED
    BY <2>2, <2>3
<1>4. CASE ReadExisting(a)
  <2>0. UNCHANGED <<request, status, queue, bundle>> /\ apc[a] = "get_status"
    BY <1>4 DEF ReadExisting
  <2>1. CASE status.etag = 0 /\ Respond(a, "404")
    BY <1>r, <2>0, <2>1
  <2>2. CASE /\ NeedsJob(status) /\ apc' = [apc EXCEPT ![a] = "send"]
             /\ aseen' = [aseen EXCEPT ![a] = status] /\ UNCHANGED response
    <3>1. apc'[a] = "send" /\ aseen'[a] = status
      BY <1>t, <2>2
    <3>2. status.state = "QUEUED" /\ status.etag # 0
      BY <2>2 DEF NeedsJob, IInv, StatusOK, NoStatus
    <3> QED
      BY <1>i, <2>0, <2>2, <3>1, <3>2 DEF ApiOKFor, OwnSubmission
  <2>3. CASE status.etag # 0 /\ ~NeedsJob(status) /\ Respond(a, "202")
    <3>1. status.state \in Open \cup {"COMPLETED"}
      BY <2>3 DEF IInv, StatusOK
    <3>2. status.enqueued = TRUE \/ status.state \notin {"NONE", "QUEUED"}
      BY <1>t, <2>3, <3>1 DEF NeedsJob, Open, StatusRecord
    <3>3. Published
      BY <3>2 DEF IInv, PublishedFirst
    <3> QED
      BY <1>r, <2>0, <2>3, <3>3
  <2> QED
    BY <1>4, <2>1, <2>2, <2>3 DEF ReadExisting
<1>5. CASE SendJob(a)
  <2>1. /\ apc[a] = "send" /\ apc'[a] = "record"
        /\ queue'[a].state = "queued" /\ queue'[a].bundle = bundle[a]
        /\ UNCHANGED <<request, status, bundle, aseen, response>>
    BY <1>5, <1>t DEF SendJob, ApiStep, NoMessage
  <2>2. status.etag # 0
    <3>1. aseen[a].etag # 0 /\ aseen[a].etag <= status.etag
      BY <1>i, <2>1 DEF ApiOKFor, IInv, Snapshots, Snapshot
    <3> QED
      BY <1>t, <3>1 DEF StatusRecord
  <2> QED
    BY <1>i, <2>1, <2>2 DEF ApiOKFor, OwnSubmission
<1>6. CASE RecordEnqueued(a)
  <2>1. /\ apc[a] = "record" /\ UNCHANGED <<bundle, queue>>
        /\ \E code \in {"202", "500"} : Respond(a, code)
    BY <1>6 DEF RecordEnqueued
  <2>2. Published
    BY <1>i, <2>1 DEF ApiOKFor, Published
  <2> QED
    BY <1>r, <2>1, <2>2
<1>7. CASE ApiFail(a)
  BY <1>7, <1>r DEF ApiFail
<1>8. CASE ApiAnswerLost(a)
  <2>1. /\ apc[a] \in {"put_request", "put_status"} /\ apc'[a] = "get_status"
        /\ UNCHANGED <<queue, bundle, aseen, response>>
    BY <1>8, <1>t DEF ApiAnswerLost
  <2> QED
    BY <1>i, <2>1 DEF ApiOKFor, OwnSubmission
<1> QED
  BY <1>1, <1>2, <1>3, <1>4, <1>5, <1>6, <1>7, <1>8 DEF ApiNext

\* The steps of a submitter preserve the invariant.
LEMMA InvApi ==
  ASSUME IInv, NEW a \in Api, ApiNext(a)
  PROVE  IInv'
<1>f. ApiLeaves(a)
  BY ApiFrame
<1>w. UNCHANGED status \/ Created \/ Marked
  BY ApiWrites
<1>o. ApiOKFor(a)' /\ OwnSubmission(a)
  BY ApiOwnStep
<1>0. TypeOK'
  BY TypeApi DEF IInv
<1>t. /\ status \in StatusRecord /\ status' \in StatusRecord
      /\ \A v \in Workers : wseen[v] \in StatusRecord
      /\ \A b \in Api : aseen[b] \in StatusRecord
      /\ NoBundle \notin Bundles
  BY <1>0, RunAssumption DEF IInv, TypeOK
<1>e. status.etag # 0 => status'.etag # 0
  BY <1>t, <1>w DEF Created, Marked, StatusRecord
<1>q. request' # request =>
        /\ status.etag = 0 /\ request = NoBundle /\ request' \in Bundles
        /\ \A b \in Api : queue[b].state = "unsent"
  BY <1>f, <1>t DEF ApiLeaves, IInv, StatusOK, ApiOK
<1>p. Published => Published'
  BY <1>f DEF ApiLeaves, Published
<1>1. Snapshots'
  <2>1. \A b \in Api : Snapshot(aseen[b], status')
    BY <1>t, <1>w, SnapshotKeptByApi DEF IInv, Snapshots
  <2>2. \A v \in Workers : Snapshot(wseen[v], status')
    BY <1>t, <1>w, SnapshotKeptByApi DEF IInv, Snapshots
  <2>3. Snapshot(NoStatus, status)
    BY <1>t, SnapshotBase, NoStatusType DEF IInv, StatusOK
  <2>4. Snapshot(status, status) /\ Snapshot(status', status')
    BY <1>t, SnapshotBase
  <2>5. Snapshot(NoStatus, status') /\ Snapshot(status, status')
    BY <1>t, <1>w, <2>3, <2>4, NoStatusType, SnapshotKeptByApi
  <2>6. Snapshot(aseen'[a], status')
    BY <1>o, <2>1, <2>4, <2>5 DEF OwnSubmission
  <2> QED
    BY <1>f, <2>1, <2>2, <2>6 DEF Snapshots, ApiLeaves
<1>2. StatusOK'
  <2>1. CASE UNCHANGED status
    BY <1>f, <1>q, <2>1
       DEF IInv, StatusOK, CompletedNamesResult, ApiLeaves, NoStatus
  <2>2. CASE Created
    BY <2>2, RunAssumption DEF StatusOK, CompletedNamesResult, Created, Open
  <2>3. CASE Marked
    BY <1>t, <2>3
       DEF IInv, StatusOK, CompletedNamesResult, Marked, Open, StatusRecord
  <2> QED
    BY <1>w, <2>1, <2>2, <2>3
<1>3. ApiOK'
  <2>1. ASSUME NEW b \in Api \ {a} PROVE ApiOKFor(b)'
    <3>1. ApiOKFor(b)
      BY DEF IInv, ApiOK, ApiOKFor
    <3>2. /\ apc'[b] = apc[b] /\ bundle'[b] = bundle[b]
          /\ aseen'[b] = aseen[b] /\ queue'[b] = queue[b]
      BY <1>f DEF ApiLeaves
    <3>3. apc[b] = "put_status" => request' = request
      BY <1>q, <1>t, <3>1 DEF ApiOKFor
    <3> QED
      BY <1>e, <3>1, <3>2, <3>3 DEF ApiOKFor
  <2>2. \A b \in Api : ApiOKFor(b)'
    BY <1>o, <2>1
  <2> QED
    BY <2>2 DEF ApiOK, ApiOKFor
<1>4. WorkerOK'
  <2>1. ASSUME NEW v \in Workers PROVE WorkerOKFor(v)'
    <3>1. WorkerOKFor(v)
      BY DEF IInv, WorkerOK, WorkerOKFor
    <3>2. /\ wpc'[v] = wpc[v] /\ job'[v] = job[v] /\ wseen'[v] = wseen[v]
          /\ output'[v] = output[v] /\ result' = result
      BY <1>f DEF ApiLeaves
    <3>3. CASE wpc[v] = "idle"
      BY <3>2, <3>3 DEF WorkerOKFor, Claimers
    <3>4. CASE wpc[v] # "idle"
      <4>1. job[v] \in Api /\ queue[job[v]].state # "unsent"
        BY <3>1, <3>4 DEF WorkerOKFor
      <4>2. job[v] # a \/ apc[a] # "send"
        BY <4>1 DEF IInv, ApiOK
      <4>3. queue'[job[v]] = queue[job[v]] /\ request' = request
        BY <1>f, <1>q, <4>1, <4>2 DEF ApiLeaves
      <4> QED
        BY <3>1, <3>2, <4>1, <4>3 DEF WorkerOKFor, Claimers
    <3> QED
      BY <3>3, <3>4
  <2> QED
    BY <2>1 DEF WorkerOK, WorkerOKFor
<1>5. OneWorkerPerAttempt'
  BY <1>f DEF IInv, OneWorkerPerAttempt, ApiLeaves
<1>6. PublishedFirst'
  <2>1. status'.enqueued \/ status'.state \notin {"NONE", "QUEUED"} =>
          Published'
    BY <1>p, <1>w DEF IInv, PublishedFirst, Created, Marked
  <2>2. (\E b \in Api : response'[b] = "202") => Published'
    BY <1>f, <1>o, <1>p DEF IInv, PublishedFirst, OwnSubmission, ApiLeaves
  <2> QED
    BY <2>1, <2>2 DEF PublishedFirst
<1> QED
  BY <1>0, <1>1, <1>2, <1>3, <1>4, <1>5, <1>6 DEF IInv

-----------------------------------------------------------------------------
(* The queue and the clock preserve the invariant.                         *)

\* Delivering and dead-lettering a message preserve the invariant.
LEMMA InvQueue ==
  ASSUME IInv, QueueNext
  PROVE  IInv'
<1> USE DEF store, apiVars, workerVars, faults
<1>0. TypeOK' /\ TypeOK
  BY TypeQueue DEF IInv
<1>1. ASSUME NEW w \in Workers, NEW a \in Api, Receive(w, a) PROVE IInv'
  <2>1. /\ UNCHANGED <<request, status, result, apc, bundle, aseen, response,
                       wseen, output>>
        /\ wpc[w] = "idle" /\ wpc'[w] = "get_status" /\ job'[w] = a
        /\ queue[a].state = "queued"
        /\ \A v \in Workers \ {w} : wpc'[v] = wpc[v] /\ job'[v] = job[v]
    BY <1>0, <1>1 DEF Receive, TypeOK
  <2>2. \A b \in Api : /\ queue'[b].state = queue[b].state
                       /\ queue'[b].bundle = queue[b].bundle
    BY <1>0, <1>1 DEF Receive, TypeOK, Message
  <2>3. WorkerOK'
    <3>1. WorkerOKFor(w)'
      BY <2>1, <2>2 DEF WorkerOKFor, Claimers
    <3>2. ASSUME NEW v \in Workers \ {w} PROVE WorkerOKFor(v)'
      <4>1. WorkerOKFor(v)
        BY DEF IInv, WorkerOK, WorkerOKFor
      <4> QED
        BY <2>1, <2>2, <4>1 DEF WorkerOKFor, Claimers
    <3>3. \A v \in Workers : WorkerOKFor(v)'
      BY <3>1, <3>2
    <3> QED
      BY <3>3 DEF WorkerOK, WorkerOKFor
  <2>4. Snapshots' /\ StatusOK'
    BY <2>1 DEF IInv, Snapshots, StatusOK, CompletedNamesResult
  <2>5. ApiOK'
    BY <2>1, <2>2 DEF IInv, ApiOK
  <2>6. OneWorkerPerAttempt'
    BY <2>1 DEF IInv, OneWorkerPerAttempt, Claimers
  <2>7. PublishedFirst'
    BY <2>1, <2>2 DEF IInv, PublishedFirst, Published
  <2> QED
    BY <1>0, <2>3, <2>4, <2>5, <2>6, <2>7 DEF IInv
<1>2. ASSUME NEW a \in Api, DeadLetter(a) PROVE IInv'
  <2>1. UNCHANGED <<request, status, result, apc, bundle, aseen, response,
                    wpc, job, wseen, output>>
    BY <1>2 DEF DeadLetter
  <2>2. \A b \in Api :
          /\ queue'[b].state = "unsent" <=> queue[b].state = "unsent"
          /\ queue'[b].bundle = queue[b].bundle
    BY <1>0, <1>2 DEF DeadLetter, TypeOK, Message
  <2>3. WorkerOK'
    BY <2>1, <2>2 DEF IInv, WorkerOK, Claimers
  <2>4. Snapshots' /\ StatusOK' /\ OneWorkerPerAttempt'
    BY <2>1 DEF IInv, Snapshots, StatusOK, CompletedNamesResult,
                OneWorkerPerAttempt
  <2>5. ApiOK'
    BY <2>1, <2>2 DEF IInv, ApiOK
  <2>6. PublishedFirst'
    BY <2>1, <2>2 DEF IInv, PublishedFirst, Published
  <2> QED
    BY <1>0, <2>3, <2>4, <2>5, <2>6 DEF IInv
<1> QED
  BY <1>1, <1>2 DEF QueueNext

\* Time ages every copy of a lease alike and so preserves the invariant.
LEMMA InvTick ==
  ASSUME IInv, Tick
  PROVE  IInv'
<1>0. TypeOK' /\ TypeOK
  BY TypeQueue DEF IInv
<1>1. /\ UNCHANGED <<request, result, apc, bundle, response, wpc, job, output>>
      /\ status' = Aged(status)
      /\ \A a \in Api : aseen'[a] = Aged(aseen[a])
      /\ \A w \in Workers : wseen'[w] = Aged(wseen[w])
  BY DEF Tick
<1>2. \A a \in Api : /\ queue'[a].state = queue[a].state
                     /\ queue'[a].bundle = queue[a].bundle
  BY <1>0 DEF Tick, TypeOK, Message
<1>3. /\ status \in StatusRecord
      /\ \A a \in Api : aseen[a] \in StatusRecord
      /\ \A w \in Workers : wseen[w] \in StatusRecord
  BY <1>0 DEF TypeOK
<1>4. /\ status'.etag = status.etag /\ status'.state = status.state
      /\ status'.attempt = status.attempt
      /\ status'.enqueued = status.enqueued
      /\ status'.available = status.available
      /\ status'.hash = status.hash /\ status'.bundle = status.bundle
  BY <1>1, <1>3, AgedFields
<1>5. \A w \in Workers : /\ wseen'[w].etag = wseen[w].etag
                         /\ wseen'[w].state = wseen[w].state
                         /\ wseen'[w].attempt = wseen[w].attempt
  BY <1>1, <1>3, AgedFields
<1>6. \A a \in Api : /\ aseen'[a].etag = aseen[a].etag
                     /\ aseen'[a].state = aseen[a].state
  BY <1>1, <1>3, AgedFields
<1>7. Snapshots'
  <2>1. ASSUME NEW rec \in StatusRecord, Snapshot(rec, status)
        PROVE  Snapshot(Aged(rec), Aged(status))
    BY <1>3, <2>1, AgedFields DEF Snapshot
  <2> QED
    BY <1>1, <1>3, <2>1 DEF IInv, Snapshots
<1>8. StatusOK'
  <2>1. Aged(NoStatus) = NoStatus
    <3>1. ASSUME NEW rec \in StatusRecord, rec.lease = 0
          PROVE  [rec EXCEPT !.lease = 0] = rec
      BY <3>1 DEF StatusRecord
    <3>2. NoStatus.lease = 0 /\ Aged(NoStatus) = [NoStatus EXCEPT !.lease = 0]
      BY DEF NoStatus, Aged, Less
    <3> QED
      BY <3>1, <3>2, NoStatusType
  <2> QED
    BY <1>1, <1>4, <2>1 DEF IInv, StatusOK, CompletedNamesResult
<1>9. ApiOK'
  BY <1>1, <1>2, <1>4, <1>6 DEF IInv, ApiOK
<1>10. WorkerOK'
  BY <1>1, <1>2, <1>5 DEF IInv, WorkerOK, Claimers
<1>11. OneWorkerPerAttempt'
  BY <1>1, <1>5 DEF IInv, OneWorkerPerAttempt
<1>12. PublishedFirst'
  BY <1>1, <1>2, <1>4 DEF IInv, PublishedFirst, Published
<1> QED
  BY <1>0, <1>7, <1>8, <1>9, <1>10, <1>11, <1>12 DEF IInv

-----------------------------------------------------------------------------
(* The invariant and the safety properties it gives.                       *)

\* Every reachable state satisfies the inductive invariant.
THEOREM Invariance == Spec => []IInv
<1>1. IInv /\ [Next]_vars => IInv'
  <2> SUFFICES ASSUME IInv, [Next]_vars PROVE IInv'
    OBVIOUS
  <2>1. CASE Next
    BY <2>1, InvApi, InvWorker, InvQueue, InvTick DEF Next
  <2>2. CASE UNCHANGED vars
    BY <2>2 DEF vars, store, apiVars, workerVars, faults, IInv, TypeOK,
                Snapshots, StatusOK, CompletedNamesResult, ApiOK, WorkerOK,
                OneWorkerPerAttempt, PublishedFirst, Published
  <2> QED
    BY <2>1, <2>2
<1> QED
  BY InvInit, <1>1, PTL DEF Spec

\* A COMPLETED run shows the hash of the result that was persisted, whichever
\* worker computed it and whichever worker completed the run.
THEOREM CompletedNamesPersisted == Spec => []CompletedNamesResult
<1>1. IInv => CompletedNamesResult
  BY DEF IInv, StatusOK
<1> QED
  BY <1>1, Invariance, PTL

\* The status, the request and every job being executed name one bundle.
THEOREM BundlesAgree == Spec => []StatusNamesRequest
<1>1. IInv => StatusNamesRequest
  BY DEF IInv, StatusOK, WorkerOK, StatusNamesRequest, Claimers
<1> QED
  BY <1>1, Invariance, PTL

\* Two workers never hold the same attempt, because the claim that counts an
\* attempt is a conditional write (worker_lambda.py:59-70).
THEOREM AttemptsExclude == Spec => []OneWorkerPerAttempt
<1>1. IInv => OneWorkerPerAttempt
  BY DEF IInv
<1> QED
  BY <1>1, Invariance, PTL

\* An accepted run has had a job published for it.
THEOREM AcceptedPublished == Spec => []AcceptedIsPublished
<1>1. IInv => AcceptedIsPublished
  BY DEF IInv, PublishedFirst, Published, AcceptedIsPublished
<1> QED
  BY <1>1, Invariance, PTL

\* What one step may do to the two objects a client reads: a submitter writes
\* status.json, a worker writes status.json or the first result.json, and the
\* clock takes from the lease.
LEMMA StepEffect ==
  ASSUME IInv, [Next]_vars
  PROVE  \/ UNCHANGED <<status, result>>
         \/ (Created \/ Marked \/ Rewritten \/ status' = Aged(status))
            /\ UNCHANGED result
         \/ /\ result = 0 /\ result' # 0 /\ result' \in Nat
            /\ status.attempt > 0 /\ UNCHANGED status
<1> USE DEF store
<1>1. ASSUME NEW a \in Api, ApiNext(a)
      PROVE  (UNCHANGED status \/ Created \/ Marked) /\ UNCHANGED result
  BY <1>1, ApiWrites, ApiFrame DEF ApiLeaves
<1>2. ASSUME NEW w \in Workers, Persist(w) \/ WriteAnswerLost(w),
             result' # result
      PROVE  /\ result = 0 /\ result' # 0 /\ result' \in Nat
             /\ status.attempt > 0 /\ UNCHANGED status
  <2>1. /\ wpc[w] = "persist" /\ result = 0 /\ result' = output[w]
        /\ UNCHANGED status
    BY <1>2 DEF Persist, WriteAnswerLost
  <2>2. output[w] # 0 /\ wseen[w].attempt > 0
    BY <2>1 DEF IInv, WorkerOK, Claimers
  <2>3. /\ output[w] \in Nat /\ wseen[w].attempt \in Nat
        /\ status.attempt \in Nat
    BY DEF IInv, TypeOK, StatusRecord
  <2>4. wseen[w].attempt <= status.attempt
    BY DEF IInv, Snapshots, Snapshot
  <2> QED
    BY <2>1, <2>2, <2>3, <2>4
<1>3. ASSUME NEW w \in Workers, WorkerStep(w) \/ WorkerFault(w),
             result' # result
      PROVE  Persist(w) \/ WriteAnswerLost(w)
  BY <1>3 DEF WorkerStep, WorkerFault, GetStatus, GetResult, Promote, Claim,
              Execute, WriteGoverned, Complete, Recheck, MarkRead, MarkWrite,
              WorkerError, ClaimAnswerLost, KillWorker
<1>4. ASSUME NEW w \in Workers, WorkerStep(w) \/ WorkerFault(w)
      PROVE  \/ (UNCHANGED status \/ Rewritten) /\ UNCHANGED result
             \/ /\ result = 0 /\ result' # 0 /\ result' \in Nat
                /\ status.attempt > 0 /\ UNCHANGED status
  BY <1>2, <1>3, <1>4, WorkerWrites
<1>5. CASE QueueNext
  BY <1>5 DEF QueueNext, Receive, DeadLetter
<1>6. CASE Tick
  BY <1>6 DEF Tick
<1>7. CASE UNCHANGED vars
  BY <1>7 DEF vars
<1> QED
  BY <1>1, <1>4, <1>5, <1>6, <1>7 DEF Next

\* COMPLETED is final and result.json is written once.
THEOREM CompletionIsFinal == Spec => CompletedIsFinal
<1> DEFINE A == /\ status.state = "COMPLETED" =>
                     /\ status'.state = "COMPLETED"
                     /\ status'.hash = status.hash
                /\ result # 0 => result' = result
<1>1. IInv /\ [Next]_vars => A
  <2> SUFFICES ASSUME IInv, [Next]_vars PROVE A
    OBVIOUS
  <2>1. status \in StatusRecord
    BY DEF IInv, TypeOK
  <2>2. CASE status' = Aged(status)
    BY <2>1, <2>2, StepEffect, AgedFields
  <2>3. CASE UNCHANGED status
    BY <2>3, StepEffect
  <2>4. CASE Created \/ Marked \/ Rewritten
    <3>1. status.state # "COMPLETED"
      BY <2>4 DEF Created, Marked, Rewritten, NoStatus, Open
    <3> QED
      BY <3>1, StepEffect
  <2> QED
    BY <2>2, <2>3, <2>4, StepEffect
<1>2. IInv /\ [Next]_vars => [A]_vars
  BY <1>1
<1> QED
  BY <1>2, Invariance, PTL DEF Spec, CompletedIsFinal

\* No write of status.json takes back an attempt, the marker or the bundle.
THEOREM UpdatesAreKept == Spec => NoLostUpdate
<1> DEFINE A == /\ status'.attempt >= status.attempt
                /\ status.enqueued => status'.enqueued
                /\ status.etag # 0 => status'.bundle = status.bundle
<1>1. IInv /\ [Next]_vars => A
  <2> SUFFICES ASSUME IInv, [Next]_vars PROVE A
    OBVIOUS
  <2>1. status \in StatusRecord /\ status.attempt \in Nat
    BY DEF IInv, TypeOK, StatusRecord
  <2>2. CASE status' = Aged(status)
    BY <2>1, <2>2, AgedFields
  <2>3. CASE UNCHANGED status
    BY <2>1, <2>3
  <2>4. CASE Created
    BY <2>1, <2>4 DEF Created, NoStatus
  <2>5. CASE Marked
    BY <2>1, <2>5 DEF Marked
  <2>6. CASE Rewritten
    BY <2>1, <2>6 DEF Rewritten
  <2> QED
    BY <2>2, <2>3, <2>4, <2>5, <2>6, StepEffect
<1>2. IInv /\ [Next]_vars => [A]_vars
  BY <1>1
<1> QED
  BY <1>2, Invariance, PTL DEF Spec, NoLostUpdate

\* The protocol implements the contract: Init maps to Init and every step to a
\* step of the contract or to none.
THEOREM Refinement == Spec => ImplementsContract
<1>1. Init => Contract!Init
  BY DEF Init, Contract!Init, NoStatus
<1>2. IInv /\ [Next]_vars => [Contract!Next]_Contract!contractVars
  <2> SUFFICES ASSUME IInv, [Next]_vars
               PROVE  Contract!Next \/ UNCHANGED Contract!contractVars
    OBVIOUS
  <2>0. /\ status \in StatusRecord /\ status.attempt \in Nat
        /\ MaxAttempts \in Nat /\ result \in Nat
    BY RunAssumption DEF IInv, TypeOK, StatusRecord
  <2>1. CASE UNCHANGED <<status, result>>
    BY <2>1 DEF Contract!contractVars
  <2>2. CASE status' = Aged(status) /\ UNCHANGED result
    BY <2>0, <2>2, AgedFields DEF Contract!contractVars
  <2>3. CASE Created /\ UNCHANGED result
    BY <2>3 DEF Created, NoStatus, Contract!Next, Contract!Accept
  <2>4. CASE Marked /\ UNCHANGED result
    BY <2>4 DEF Marked, Contract!contractVars
  <2>5. CASE Rewritten /\ UNCHANGED result
    <3>1. CASE status'.state = "RUNNING"
      <4>1. status'.attempt = status.attempt + 1 /\ status.attempt < MaxAttempts
        BY <2>0, <2>5, <3>1 DEF Rewritten
      <4> QED
        BY <2>5, <3>1, <4>1
           DEF Rewritten, Open, Contract!Next, Contract!Attempt
    <3>2. CASE status'.state = "FAILED"
      BY <2>5, <3>2 DEF Rewritten, Open, Contract!Next, Contract!Fail
    <3>3. CASE status'.state = "COMPLETED"
      BY <2>5, <3>3 DEF Rewritten, Open, Contract!Next, Contract!Publish
    <3> QED
      BY <2>5, <3>1, <3>2, <3>3 DEF Rewritten
  <2>6. CASE /\ result = 0 /\ result' # 0 /\ result' \in Nat
             /\ status.attempt > 0 /\ UNCHANGED status
    BY <2>0, <2>6 DEF Contract!Next, Contract!Persist
  <2> QED
    BY <2>1, <2>2, <2>3, <2>4, <2>5, <2>6, StepEffect
<1> QED
  BY <1>1, <1>2, Invariance, PTL DEF Spec, ImplementsContract, Contract!Spec

-----------------------------------------------------------------------------
(* The number of executions.                                               *)

\* The executing workers are finitely many, so they can be counted.
LEMMA ExecutingFinite ==
  IsFiniteSet(Executing) /\ Cardinality(Executing) \in Nat
<1>1. IsFiniteSet(Executing)
  BY RunAssumption, FS_Subset DEF Executing
<1> QED
  BY <1>1, FS_CardinalityType

\* A step in which no worker starts executing and nothing is executed keeps
\* the count.
LEMMA NoneStarts ==
  ASSUME AttemptsCounted, TypeOK, TypeOK', UNCHANGED executions,
         status'.attempt >= status.attempt, Executing' \subseteq Executing
  PROVE  AttemptsCounted'
<1>1. Cardinality(Executing') <= Cardinality(Executing)
  BY ExecutingFinite, FS_Subset
<1>2. Cardinality(Executing') \in Nat
  BY ExecutingFinite, FS_Subset, FS_CardinalityType
<1>3. /\ status.attempt \in Nat /\ status'.attempt \in Nat
      /\ executions \in Nat
  BY DEF TypeOK, StatusRecord
<1> QED
  BY <1>1, <1>2, <1>3, ExecutingFinite DEF AttemptsCounted

\* A claim pays for one execution before it starts.
LEMMA ClaimCounts ==
  ASSUME AttemptsCounted, IInv, NEW w \in Workers, Claim(w),
         Current(wseen[w])
  PROVE  AttemptsCounted'
<1>1. /\ wpc[w] = "claim" /\ wpc' = [wpc EXCEPT ![w] = "execute"]
      /\ status' = Stored(Claimed(wseen[w])) /\ UNCHANGED executions
  BY DEF Claim, Goto
<1>2. wseen[w] = status /\ status \in StatusRecord /\ executions \in Nat
      /\ wpc \in [Workers -> WorkerPc]
  BY CurrentIsStatus DEF IInv, TypeOK
<1>3. status'.attempt = status.attempt + 1 /\ status.attempt \in Nat
  BY <1>1, <1>2, ClaimedFields, StoredFields DEF StatusRecord
<1>4. Executing' = Executing \cup {w} /\ w \notin Executing
  BY <1>1, <1>2 DEF Executing
<1>5. Cardinality(Executing') = Cardinality(Executing) + 1
  BY <1>4, ExecutingFinite, FS_AddElement
<1> QED
  BY <1>1, <1>2, <1>3, <1>5, ExecutingFinite DEF AttemptsCounted

\* An execution spends the attempt its claim paid for.
LEMMA ExecuteCounts ==
  ASSUME AttemptsCounted, IInv, NEW w \in Workers, Execute(w)
  PROVE  AttemptsCounted'
<1>1. /\ wpc[w] = "execute" /\ UNCHANGED status
      /\ executions' = executions + 1
      /\ \E pc \in {"persist", "governed"} : wpc' = [wpc EXCEPT ![w] = pc]
  BY DEF Execute, Goto, Keep, store
<1>2. wpc \in [Workers -> WorkerPc] /\ executions \in Nat
      /\ status.attempt \in Nat
  BY DEF IInv, TypeOK, StatusRecord
<1>3. Executing' = Executing \ {w} /\ w \in Executing
  BY <1>1, <1>2 DEF Executing
<1>4. Cardinality(Executing') = Cardinality(Executing) - 1
  BY <1>3, ExecutingFinite, FS_RemoveElement
<1> QED
  BY <1>1, <1>2, <1>4, ExecutingFinite DEF AttemptsCounted

\* In every other step no worker starts executing and nothing is executed.
LEMMA OthersStartNothing ==
  ASSUME IInv, [Next]_vars,
         ~ \E w \in Workers : Execute(w) \/ (Claim(w) /\ Current(wseen[w]))
  PROVE  UNCHANGED executions /\ Executing' \subseteq Executing
<1> USE DEF apiVars, workerVars, faults
<1>0. wpc \in [Workers -> WorkerPc]
  BY DEF IInv, TypeOK
<1>1. ASSUME NEW a \in Api, ApiNext(a)
      PROVE  UNCHANGED <<executions, wpc>>
  BY <1>1 DEF ApiNext, StartSubmit, PutRequest, CreateStatus, ReadExisting,
              SendJob, RecordEnqueued, ApiFail, ApiAnswerLost
<1>2. ASSUME NEW w \in Workers, WorkerStep(w) \/ WorkerFault(w)
      PROVE  /\ UNCHANGED executions
             /\ \E pc \in WorkerPc \ {"execute"} :
                  wpc' = [wpc EXCEPT ![w] = pc]
  <2> USE DEF Ack, Nack, EndInvocation, Raise, Keep, Goto
  <2>1. CASE GetStatus(w) \/ GetResult(w) \/ Promote(w)
    BY <2>1 DEF GetStatus, GetResult, Promote
  <2>2. CASE Claim(w)
    <3>1. ~Current(wseen[w])
      BY <2>2
    <3> QED
      BY <2>2, <3>1 DEF Claim
  <2>3. CASE WriteGoverned(w) \/ Persist(w) \/ Complete(w)
    BY <2>3 DEF WriteGoverned, Persist, Complete
  <2>4. CASE Recheck(w) \/ MarkRead(w) \/ MarkWrite(w)
    BY <2>4 DEF Recheck, MarkRead, MarkWrite
  <2>5. CASE WorkerFault(w)
    BY <2>5 DEF WorkerFault, WorkerError, WriteAnswerLost, ClaimAnswerLost,
                KillWorker
  <2> QED
    BY <1>2, <2>1, <2>2, <2>3, <2>4, <2>5 DEF WorkerStep
<1>3. ASSUME NEW w \in Workers, NEW a \in Api, Receive(w, a)
      PROVE  UNCHANGED executions /\ wpc' = [wpc EXCEPT ![w] = "get_status"]
  BY <1>3 DEF Receive
<1>4. CASE Tick \/ UNCHANGED vars \/ \E a \in Api : DeadLetter(a)
  BY <1>4 DEF Tick, vars, DeadLetter, Executing
<1> QED
  <2>1. ASSUME NEW w \in Workers, NEW pc \in WorkerPc \ {"execute"},
               wpc' = [wpc EXCEPT ![w] = pc]
        PROVE  Executing' \subseteq Executing
    BY <1>0, <2>1 DEF Executing
  <2>2. ASSUME UNCHANGED wpc PROVE Executing' \subseteq Executing
    BY <2>2 DEF Executing
  <2> QED
    BY <1>1, <1>2, <1>3, <1>4, <2>1, <2>2 DEF Next, QueueNext

\* The model is executed at most MAX_ATTEMPTS times for one run, by however
\* many workers, deliveries, lost answers and crashes.
THEOREM ExecutionsAreBounded == Spec => []ExecutionsBounded
<1>1. Init => AttemptsCounted
  <2> SUFFICES ASSUME Init PROVE AttemptsCounted
    OBVIOUS
  <2>1. Executing = {}
    BY DEF Init, Executing
  <2>2. Cardinality(Executing) = 0
    BY <2>1, FS_EmptySet
  <2> QED
    BY <2>2 DEF Init, AttemptsCounted, NoStatus
<1>2. AttemptsCounted /\ IInv /\ IInv' /\ [Next]_vars => AttemptsCounted'
  <2> SUFFICES ASSUME AttemptsCounted, IInv, IInv', [Next]_vars
               PROVE  AttemptsCounted'
    OBVIOUS
  <2>1. status'.attempt >= status.attempt
    <3>1. status \in StatusRecord /\ status.attempt \in Nat
      BY DEF IInv, TypeOK, StatusRecord
    <3>2. CASE UNCHANGED status
      BY <3>1, <3>2
    <3>3. CASE status' = Aged(status)
      BY <3>1, <3>3, AgedFields
    <3>4. CASE Created \/ Marked \/ Rewritten
      BY <3>1, <3>4 DEF Created, Marked, Rewritten, NoStatus
    <3> QED
      BY <3>2, <3>3, <3>4, StepEffect
  <2>2. CASE \E w \in Workers :
               Execute(w) \/ (Claim(w) /\ Current(wseen[w]))
    BY <2>2, ExecuteCounts, ClaimCounts
  <2>3. CASE ~ \E w \in Workers :
                 Execute(w) \/ (Claim(w) /\ Current(wseen[w]))
    BY <2>1, <2>3, OthersStartNothing, NoneStarts DEF IInv
  <2> QED
    BY <2>2, <2>3
<1>3. AttemptsCounted /\ IInv => ExecutionsBounded
  BY ExecutingFinite
     DEF AttemptsCounted, ExecutionsBounded, IInv, StatusOK, TypeOK,
         StatusRecord
<1> QED
  BY <1>1, <1>2, <1>3, Invariance, PTL DEF Spec

-----------------------------------------------------------------------------
(* The lease argument: as long as no S3 call of a worker fails and nobody  *)
(* reuses the key for another bundle, two workers never run the model at   *)
(* the same time, because a lease outlives the invocation that took it.    *)
(* Jobs may be duplicated, submissions fail and workers be killed.         *)

\* What ExclusiveExecution assumes.
Clean ==
  /\ errors = 0 /\ lost = 0
  /\ \A a, b \in Api : NoBundle \in {bundle[a], bundle[b]} \/ bundle[a] = bundle[b]

Running == {"execute", "governed", "persist"}
Marking == {"mark_read", "mark_write"}
NobodyRuns == \A w \in Workers : wpc[w] \notin Running

\* A message names the bundle its submitter was asked to run, request.json that
\* of some submitter.
SentBundles ==
  /\ \A a \in Api : queue[a].state # "unsent" => queue[a].bundle = bundle[a]
  /\ \A a \in Api : apc[a] = "idle" => bundle[a] = NoBundle
  /\ request # NoBundle => \E a \in Api : bundle[a] = request

\* Who is about to claim has seen no lease, or one that was over.
LeaseWasOver == \A w \in Workers : wpc[w] = "claim" => ~LeaseHeld(wseen[w])

\* Every record older than a claim tells of fewer attempts.
AttemptsTold ==
  \A v, w \in Workers :
    wpc[w] \in Claimers /\ wseen[v].etag < wseen[w].etag =>
      wseen[v].attempt < wseen[w].attempt

TimeBounded == \A w \in Workers : left[w] <= Timeout

\* The claim of a worker that runs is the current record, and its lease ends
\* after the worker.
LeaseOutlives ==
  \A w \in Workers :
    wpc[w] \in Running => Current(wseen[w]) /\ status.lease > left[w]

\* Once there is a result nobody runs, nor will.
ResultEnds ==
  result # 0 =>
    /\ NobodyRuns
    /\ \A w \in Workers : wpc[w] = "claim" => ~Current(wseen[w])

\* A worker only comes to mark the run FAILED when nobody runs, nor will.
MarksAreLate ==
  (\E w \in Workers : wpc[w] \in Marking) =>
    NobodyRuns /\ (result # 0 \/ status.attempt >= MaxAttempts)

TimingInv ==
  /\ SentBundles /\ LeaseWasOver /\ AttemptsTold /\ TimeBounded
  /\ Clean => LeaseOutlives /\ ResultEnds /\ MarksAreLate

-----------------------------------------------------------------------------
(* What the actions do to the place and the time of a worker.              *)

\* Nobody holds a record, a job or a message before the first submission.
LEMMA TimingInit == Init => TimingInv
<1> SUFFICES ASSUME Init PROVE TimingInv
  OBVIOUS
<1>1. SentBundles
  BY DEF Init, SentBundles, NoMessage
<1>2. LeaseWasOver /\ AttemptsTold /\ TimeBounded
  BY RunAssumption DEF Init, LeaseWasOver, AttemptsTold, TimeBounded, Claimers
<1>3. LeaseOutlives /\ ResultEnds /\ MarksAreLate
  BY DEF Init, LeaseOutlives, ResultEnds, MarksAreLate, NobodyRuns, Running,
         Marking
<1> QED
  BY <1>1, <1>2, <1>3 DEF TimingInv

\* A claim takes a full lease.
LEMMA ClaimedLease ==
  ASSUME status \in StatusRecord, NEW rec \in StatusRecord
  PROVE  Stored(Claimed(rec)).lease = Lease
<1> DEFINE r == Claimed(rec)
<1>1. r \in StatusRecord
  BY ClaimedFields
<1>2. r.lease = Lease
  BY DEF Claimed, StatusRecord
<1> HIDE DEF r
<1>3. Stored(r).lease = r.lease
  BY <1>1 DEF Stored, StatusRecord
<1> QED
  BY <1>2, <1>3 DEF r

\* Why a worker may come to run, to claim or to mark the run.
Entrance(w) ==
  /\ wpc'[w] = "claim" =>
       /\ wpc[w] = "get_result" /\ result = 0 /\ ~LeaseHeld(wseen[w])
       /\ wseen'[w] = wseen[w] /\ UNCHANGED <<status, result>>
  /\ wpc'[w] \in Running =>
       \/ /\ wpc[w] = "execute" /\ wseen'[w] = wseen[w]
          /\ UNCHANGED <<status, result>>
       \/ /\ wpc[w] = "claim" /\ Current(wseen[w])
          /\ status' = Stored(Claimed(wseen[w])) /\ wseen'[w] = status'
          /\ UNCHANGED result
  /\ wpc'[w] \in Marking =>
       \/ errors' = errors + 1 \/ lost' = lost + 1
       \/ wpc[w] = "get_status" /\ ~JobMatches(w)
       \/ /\ wpc[w] = "get_result" /\ ~LeaseHeld(wseen[w])
          /\ wseen[w].attempt >= MaxAttempts
       \/ wpc[w] = "governed" /\ ~Current(wseen[w])
       \/ wpc[w] \in {"recheck", "mark_read"}

\* Every step and fault of a worker enters these places through its guards.
LEMMA Entered ==
  ASSUME IInv, NEW w \in Workers, WorkerStep(w) \/ WorkerFault(w)
  PROVE  Entrance(w)
<1> USE DEF store
<1>t. wseen \in [Workers -> StatusRecord] /\ wpc \in [Workers -> WorkerPc]
  BY DEF IInv, TypeOK
<1>e. ASSUME Ack(w) \/ Nack(w) PROVE Entrance(w)
  BY <1>e, EndedIsIdle DEF Entrance, Running, Marking
<1>r. ASSUME Raise(w) PROVE wpc'[w] = "mark_read"
  BY <1>r, <1>t DEF Raise, Keep, Goto
<1>g. ASSUME NEW pc, Goto(w, pc) PROVE wpc'[w] = pc
  BY <1>g, <1>t DEF Goto
<1>1. CASE GetStatus(w)
  BY <1>1, <1>e, <1>r, <1>g DEF GetStatus, Entrance, Running, Marking
<1>2. CASE GetResult(w)
  <2>1. CASE result = 0 /\ ~LeaseHeld(wseen[w]) /\ Keep(w, "claim")
    <3>1. wpc'[w] = "claim" /\ UNCHANGED wseen
      BY <2>1, <1>g DEF Keep
    <3> QED
      BY <1>2, <2>1, <3>1 DEF GetResult, Entrance, Running, Marking
  <2> QED
    BY <1>2, <2>1, <1>e, <1>r, <1>g DEF GetResult, Entrance, Running, Marking
<1>3. CASE Promote(w)
  BY <1>3, <1>e DEF Promote
<1>4. CASE Claim(w)
  BY <1>4, <1>e, <1>g, <1>t DEF Claim, Entrance, Running, Marking
<1>5. CASE Execute(w)
  BY <1>5, <1>g DEF Execute, Keep, Entrance, Running, Marking
<1>6. CASE WriteGoverned(w)
  BY <1>6, <1>e, <1>r DEF WriteGoverned, Entrance, Running, Marking
<1>7. CASE Persist(w)
  BY <1>7, <1>g DEF Persist, Entrance, Running, Marking
<1>8. CASE Complete(w)
  BY <1>8, <1>e, <1>g DEF Complete, Keep, Entrance, Running, Marking
<1>9. CASE Recheck(w)
  BY <1>9, <1>e, <1>r DEF Recheck, Entrance, Running, Marking
<1>10. CASE MarkRead(w)
  BY <1>10, <1>e, <1>g DEF MarkRead, Entrance, Running, Marking
<1>11. CASE MarkWrite(w)
  BY <1>11, <1>e DEF MarkWrite
<1>12. CASE WorkerError(w)
  BY <1>12, <1>r DEF WorkerError, Entrance, Running, Marking
<1>13. CASE WriteAnswerLost(w)
  BY <1>13, <1>r DEF WriteAnswerLost, Entrance, Running, Marking
<1>14. CASE ClaimAnswerLost(w)
  BY <1>14, <1>e DEF ClaimAnswerLost
<1>15. CASE KillWorker(w)
  BY <1>15, <1>e DEF KillWorker
<1> QED
  BY <1>1, <1>2, <1>3, <1>4, <1>5, <1>6, <1>7, <1>8, <1>9, <1>10, <1>11,
     <1>12, <1>13, <1>14, <1>15 DEF WorkerStep, WorkerFault

\* No step of a worker gives it, or another one, more time.
LEMMA NoTimeGained ==
  ASSUME IInv, NEW w \in Workers, WorkerStep(w) \/ WorkerFault(w)
  PROVE  \A v \in Workers : left'[v] <= left[v]
<1>t. left \in [Workers -> Nat]
  BY DEF IInv, TypeOK
<1>1. UNCHANGED left \/ left' = [left EXCEPT ![w] = 0]
  BY DEF WorkerStep, WorkerFault, GetStatus, GetResult, Promote, Claim,
         Execute, WriteGoverned, Persist, Complete, Recheck, MarkRead,
         MarkWrite, WorkerError, WriteAnswerLost, ClaimAnswerLost, KillWorker,
         Raise, Keep, Goto, Ack, Nack, EndInvocation
<1>2. CASE UNCHANGED left
  BY <1>t, <1>2
<1>3. CASE left' = [left EXCEPT ![w] = 0]
  BY <1>t, <1>3
<1> QED
  BY <1>1, <1>2, <1>3

\* Errors and lost answers are counted, and a submitter's bundle is chosen once:
\* a clean state had clean predecessors.
LEMMA CleanBefore ==
  ASSUME IInv, SentBundles, [Next]_vars, Clean'
  PROVE  Clean
<1> USE DEF store, apiVars, workerVars, faults
<1>t. /\ errors \in Nat /\ lost \in Nat
      /\ bundle \in [Api -> Bundles \cup {NoBundle}]
  BY DEF IInv, TypeOK
<1>1. /\ errors' \in {errors, errors + 1} /\ lost' \in {lost, lost + 1}
      /\ \A a \in Api : bundle'[a] = bundle[a] \/ bundle[a] = NoBundle
  <2>1. ASSUME NEW a \in Api, ApiNext(a) PROVE <1>1!:
    <3>1. CASE StartSubmit(a)
      BY <1>t, <3>1 DEF StartSubmit, ApiStep, SentBundles
    <3>2. CASE ~StartSubmit(a)
      BY <2>1, <3>2 DEF ApiNext, PutRequest, CreateStatus, ReadExisting,
         SendJob, RecordEnqueued, ApiFail, ApiAnswerLost
    <3> QED
      BY <3>1, <3>2
  <2>2. ASSUME NEW w \in Workers, WorkerStep(w) PROVE <1>1!:
    BY <2>2 DEF WorkerStep, GetStatus, GetResult, Promote, Claim, Execute,
       WriteGoverned, Persist, Complete, Recheck, MarkRead, MarkWrite
  <2>3. ASSUME NEW w \in Workers, WorkerFault(w) PROVE <1>1!:
    BY <2>3 DEF WorkerFault, WorkerError, WriteAnswerLost, ClaimAnswerLost,
       KillWorker
  <2>4. CASE QueueNext \/ Tick \/ UNCHANGED vars
    BY <2>4 DEF QueueNext, Receive, DeadLetter, Tick, vars
  <2> QED
    BY <2>1, <2>2, <2>3, <2>4 DEF Next
<1>2. errors' = 0 /\ lost' = 0
  BY DEF Clean
<1>3. errors = 0 /\ lost = 0
  BY <1>t, <1>1, <1>2
<1>4. \A a, b \in Api : NoBundle \in {bundle'[a], bundle'[b]} \/ bundle'[a] = bundle'[b]
  BY DEF Clean
<1>5. ASSUME NEW a \in Api, NEW b \in Api,
             bundle[a] # NoBundle, bundle[b] # NoBundle
      PROVE  bundle[a] = bundle[b]
  BY <1>1, <1>4, <1>5
<1> QED
  BY <1>3, <1>5 DEF Clean

\* The workers' part of the invariant that needs no clean run.
Told == LeaseWasOver /\ AttemptsTold /\ TimeBounded

\* A worker's step or fault keeps what its record tells.
LEMMA ToldWorker ==
  ASSUME IInv, IInv', TimingInv, NEW w \in Workers, WorkerStep(w) \/ WorkerFault(w)
  PROVE  Told'
<1>f. \A v \in Workers \ {w} : wpc'[v] = wpc[v] /\ wseen'[v] = wseen[v]
  BY WorkerFrame DEF WorkerLeaves
<1>t. /\ \A v \in Workers : wseen[v] \in StatusRecord
      /\ status \in StatusRecord /\ status.etag \in Nat /\ status.attempt \in Nat
      /\ \A v \in Workers : wseen[v].etag \in Nat /\ wseen[v].attempt \in Nat
      /\ \A v \in Workers : wseen[v].etag <= status.etag /\ wseen[v].attempt <= status.attempt
      /\ status'.etag \in Nat /\ status'.attempt \in Nat
  BY DEF IInv, TypeOK, StatusRecord, Snapshots, Snapshot
<1>1. LeaseWasOver'
  BY <1>f, Entered DEF Entrance, LeaseWasOver, LeaseHeld, TimingInv
<1>2. TimeBounded'
  <2>1. left \in [Workers -> Nat] /\ left' \in [Workers -> Nat] /\ Timeout \in Nat
    BY RunAssumption DEF IInv, TypeOK
  <2> QED
    BY <2>1, NoTimeGained DEF TimingInv, TimeBounded
<1>3. AttemptsTold'
  <2> SUFFICES ASSUME NEW v \in Workers, NEW u \in Workers, wpc'[u] \in Claimers,
                      wseen'[v].etag < wseen'[u].etag
               PROVE  wseen'[v].attempt < wseen'[u].attempt
    BY DEF AttemptsTold
  <2>1. OwnRecord(w)
    BY WorkerOwnStep
  <2>2. wseen'[u].state = "RUNNING" /\ wseen'[u].attempt > 0
    BY DEF IInv, WorkerOK
  <2>3. CASE wseen'[u] = wseen[u] /\ wpc[u] \in Claimers
    <3>1. CASE wseen'[v] = wseen[v]
      BY <2>3, <3>1 DEF TimingInv, AttemptsTold
    <3>2. CASE wseen'[v] = NoStatus
      BY <2>2, <2>3, <3>2 DEF NoStatus
    <3>3. CASE wseen'[v] = status
      BY <1>t, <2>3, <3>3
    <3>4. CASE wseen'[v] = status' /\ Rewritten
      BY <1>t, <2>3, <3>4 DEF Rewritten
    <3> QED
      BY <1>f, <2>1, <3>1, <3>2, <3>3, <3>4 DEF OwnRecord
  <2>4. CASE u = w /\ wseen'[u] = status' /\ Rewritten
    <3>1. status'.attempt = status.attempt + 1
      BY <2>2, <2>4 DEF Rewritten
    <3>2. v # w
      BY <1>t, <2>4
    <3> QED
      BY <1>t, <1>f, <2>4, <3>1, <3>2
  <2> QED
    BY <1>f, <2>1, <2>3, <2>4 DEF OwnRecord
<1> QED
  BY <1>1, <1>2, <1>3 DEF Told

\* Messages and request.json name what the submitters were asked to run.
LEMMA BundlesSent ==
  ASSUME IInv, SentBundles, [Next]_vars
  PROVE  SentBundles'
<1> USE DEF store, apiVars, workerVars, faults
<1>t. /\ bundle \in [Api -> Bundles \cup {NoBundle}] /\ apc \in [Api -> ApiPc]
      /\ queue \in [Api -> Message]
  BY DEF IInv, TypeOK
<1>1. ASSUME NEW a \in Api, ApiNext(a) PROVE SentBundles'
  <2>1. ApiLeaves(a)
    BY <1>1, ApiFrame
  <2>2. CASE StartSubmit(a)
    <3>1. apc[a] = "idle" /\ apc'[a] = "put_request" /\ UNCHANGED <<request, queue>>
      BY <1>t, <2>2 DEF StartSubmit, ApiStep
    <3>2. queue[a].state = "unsent" /\ bundle[a] = NoBundle
      BY <3>1 DEF IInv, ApiOK, SentBundles
    <3> QED
      BY <2>1, <3>1, <3>2 DEF SentBundles, ApiLeaves
  <2>3. CASE ~StartSubmit(a)
    <3>1. /\ UNCHANGED bundle /\ apc'[a] # "idle"
          /\ request' = request \/ request' = bundle[a]
      BY <1>1, <1>t, <2>3 DEF ApiNext, PutRequest, CreateStatus, ReadExisting,
         SendJob, RecordEnqueued, ApiFail, ApiAnswerLost, Respond, ApiStep
    <3> QED
      BY <2>1, <3>1 DEF SentBundles, ApiLeaves
  <2> QED
    BY <2>2, <2>3
<1>2. ASSUME NEW w \in Workers, WorkerStep(w) \/ WorkerFault(w) PROVE SentBundles'
  BY <1>2, WorkerFrame DEF WorkerLeaves, SentBundles
<1>3. CASE QueueNext
  <2>1. UNCHANGED <<request, bundle, apc>>
    BY <1>3 DEF QueueNext, Receive, DeadLetter
  <2>2. \A b \in Api : /\ queue'[b].bundle = queue[b].bundle
                       /\ queue'[b].state # "unsent" => queue[b].state # "unsent"
    <3>1. ASSUME NEW w \in Workers, NEW a \in Api, Receive(w, a) PROVE <2>2!:
      BY <3>1, <1>t DEF Receive, Message
    <3>2. ASSUME NEW a \in Api, DeadLetter(a) PROVE <2>2!:
      BY <3>2, <1>t DEF DeadLetter, Message
    <3> QED
      BY <1>3, <3>1, <3>2 DEF QueueNext
  <2> QED
    BY <2>1, <2>2 DEF SentBundles
<1>4. CASE Tick
  <2>1. \A b \in Api : /\ queue'[b].bundle = queue[b].bundle
                       /\ queue'[b].state = queue[b].state
    BY <1>4, <1>t DEF Tick, Message
  <2> QED
    BY <1>4, <2>1 DEF Tick, SentBundles
<1>5. CASE UNCHANGED vars
  BY <1>5 DEF vars, SentBundles
<1> QED
  BY <1>1, <1>2, <1>3, <1>4, <1>5 DEF Next

-----------------------------------------------------------------------------
(* Clean runs.                                                             *)

CleanInv == LeaseOutlives /\ ResultEnds /\ MarksAreLate

\* A job matches the run it is about.
LEMMA JobsMatch ==
  ASSUME IInv, SentBundles, Clean, NEW w \in Workers, wpc[w] = "get_status"
  PROVE  JobMatches(w)
<1>1. /\ job[w] \in Api /\ queue[job[w]].state # "unsent"
      /\ queue[job[w]].bundle \in Bundles /\ status.etag # 0
  BY DEF IInv, WorkerOK, ApiOK
<1>2. status.bundle = request /\ request \in Bundles
  BY <1>1 DEF IInv, StatusOK
<1>3. PICK a \in Api : bundle[a] = request
  BY <1>2, RunAssumption DEF SentBundles
<1>4. queue[job[w]].bundle = bundle[job[w]]
  BY <1>1 DEF SentBundles
<1>5. bundle[job[w]] = bundle[a]
  BY <1>1, <1>2, <1>3, <1>4, RunAssumption DEF Clean
<1> QED
  BY <1>2, <1>3, <1>4, <1>5 DEF JobMatches

\* The record of a worker that runs is the current one, with time left on its
\* lease; nobody else holds it in order to claim, or runs.
LEMMA RunnerHolds ==
  ASSUME IInv, TimingInv, CleanInv, NEW u \in Workers, wpc[u] \in Running
  PROVE  /\ wseen[u] = status /\ status.state = "RUNNING" /\ LeaseHeld(status)
         /\ result = 0
         /\ \A v \in Workers : wpc[v] = "claim" => ~Current(wseen[v])
         /\ \A v \in Workers : wpc[v] \in Running => v = u
         /\ \A v \in Workers : wpc[v] \notin Marking
<1>1. wseen[u] = status /\ status.lease > left[u]
  BY CurrentIsStatus DEF CleanInv, LeaseOutlives
<1>2. status.state = "RUNNING"
  BY <1>1 DEF IInv, WorkerOK, Claimers, Running
<1>3. LeaseHeld(status)
  <2>1. status.lease \in Nat /\ left[u] \in Nat
    BY DEF IInv, TypeOK, StatusRecord
  <2> QED
    BY <1>1, <1>2, <2>1 DEF LeaseHeld
<1>4. result = 0
  BY DEF CleanInv, ResultEnds, NobodyRuns
<1>5. \A v \in Workers : wpc[v] = "claim" => ~Current(wseen[v])
  BY <1>3, CurrentIsStatus DEF TimingInv, LeaseWasOver
<1>6. ASSUME NEW v \in Workers, wpc[v] \in Running PROVE v = u
  <2>1. wseen[v] = status
    BY <1>6, CurrentIsStatus DEF CleanInv, LeaseOutlives
  <2> QED
    BY <1>1, <1>6, <2>1 DEF IInv, OneWorkerPerAttempt, Claimers, Running
<1>7. \A v \in Workers : wpc[v] \notin Marking
  BY DEF CleanInv, MarksAreLate, NobodyRuns
<1> QED
  BY <1>1, <1>2, <1>3, <1>4, <1>5, <1>6, <1>7

\* While a worker runs no other one writes the status.
LEMMA RunnerUndisturbed ==
  ASSUME IInv, TimingInv, CleanInv, Clean, Clean',
         NEW u \in Workers, wpc[u] \in Running,
         NEW w \in Workers, w # u, WorkerStep(w) \/ WorkerFault(w)
  PROVE  UNCHANGED <<status, result>>
<1> USE DEF store, faults
<1>1. /\ wpc[w] \notin Running /\ wpc[w] \notin Marking /\ result = 0
      /\ wpc[w] = "claim" => ~Current(wseen[w])
  BY RunnerHolds
<1>2. wpc[w] \notin {"promote", "complete"}
  BY <1>1 DEF IInv, WorkerOK
<1>3. lost' = 0 /\ lost = 0
  BY DEF Clean
<1> QED
  BY <1>1, <1>2, <1>3 DEF Running, Marking, WorkerStep, WorkerFault,
     GetStatus, GetResult, Promote, Claim, Execute, WriteGoverned, Persist,
     Complete, Recheck, MarkRead, MarkWrite, WorkerError, WriteAnswerLost,
     ClaimAnswerLost, KillWorker

\* A step or fault of a worker keeps the leases apart.
LEMMA CleanWorker ==
  ASSUME IInv, IInv', TimingInv, CleanInv, Clean, Clean',
         NEW w \in Workers, WorkerStep(w) \/ WorkerFault(w)
  PROVE  CleanInv'
<1>f. /\ \A v \in Workers \ {w} : wpc'[v] = wpc[v] /\ wseen'[v] = wseen[v]
      /\ result # 0 => result' = result
  BY WorkerFrame DEF WorkerLeaves
<1>e. Entrance(w)
  BY Entered
<1>t. /\ status \in StatusRecord /\ status.etag \in Nat /\ status.attempt \in Nat
      /\ \A v \in Workers : /\ wseen[v] \in StatusRecord
                            /\ wseen[v].etag \in Nat /\ wseen[v].attempt \in Nat
                            /\ wseen[v].etag <= status.etag
                            /\ wseen[v].attempt <= status.attempt
      /\ status'.etag \in Nat /\ status'.attempt \in Nat
      /\ MaxAttempts \in Nat
  BY RunAssumption DEF IInv, TypeOK, StatusRecord, Snapshots, Snapshot
<1>n. /\ status.lease \in Nat /\ status'.lease \in Nat
      /\ left \in [Workers -> Nat] /\ left' \in [Workers -> Nat]
      /\ Lease \in Nat /\ Timeout \in Nat /\ Timeout < Lease
  BY RunAssumption DEF IInv, TypeOK, StatusRecord
<1>m. status'.etag >= status.etag /\ status'.attempt >= status.attempt
  <2>1. CASE UNCHANGED status
    BY <1>t, <2>1
  <2>2. CASE Rewritten
    <3>1. /\ status'.etag = status.etag + 1
          /\ status'.attempt \in {status.attempt, status.attempt + 1}
      BY <2>2 DEF Rewritten
    <3> QED
      BY <1>t, <3>1
  <2> QED
    BY <2>1, <2>2, WorkerWrites
\* The claim that nobody may turn into a run any more.
<1>c. ASSUME NEW v \in Workers, wpc[v] = "claim", Current(wseen[v])
      PROVE  result = 0 /\ status.attempt < MaxAttempts
  <2>1. wseen[v] = status
    BY <1>c, CurrentIsStatus
  <2> QED
    BY <1>c, <2>1 DEF IInv, WorkerOK, CleanInv, ResultEnds
<1>1. LeaseOutlives'
  <2> SUFFICES ASSUME NEW v \in Workers, wpc'[v] \in Running
               PROVE  wseen'[v].etag = status'.etag /\ status'.lease > left'[v]
    BY DEF LeaseOutlives, Current
  <2>1. left'[v] <= left[v] /\ left[v] <= Timeout
    BY NoTimeGained DEF TimingInv, TimeBounded
  <2>2. CASE v # w
    <3>1. /\ wpc[v] \in Running /\ wseen'[v] = wseen[v]
      BY <1>f, <2>2
    <3>2. UNCHANGED status
      BY <2>2, <3>1, RunnerUndisturbed
    <3>3. wseen[v].etag = status.etag /\ status.lease > left[v]
      BY <3>1 DEF CleanInv, LeaseOutlives, Current
    <3> QED
      BY <1>n, <2>1, <3>1, <3>2, <3>3
  <2>3. CASE v = w /\ wpc[w] = "execute" /\ wseen'[w] = wseen[w] /\ UNCHANGED status
    <3>1. wseen[w].etag = status.etag /\ status.lease > left[w]
      BY <2>3 DEF CleanInv, LeaseOutlives, Current, Running
    <3> QED
      BY <1>n, <2>1, <2>3, <3>1
  <2>4. CASE v = w /\ status' = Stored(Claimed(wseen[w])) /\ wseen'[w] = status'
    <3>1. status'.lease = Lease
      BY <1>t, <2>4, ClaimedLease
    <3> QED
      BY <1>n, <2>1, <2>4, <3>1
  <2> QED
    BY <1>e, <2>2, <2>3, <2>4 DEF Entrance
<1>2. ResultEnds'
  <2>1. CASE result # 0
    <3>1. NobodyRuns /\ \A v \in Workers : wpc[v] = "claim" => ~Current(wseen[v])
      BY <2>1 DEF CleanInv, ResultEnds
    <3>2. wpc'[w] \notin Running /\ wpc'[w] # "claim"
      BY <1>e, <2>1, <3>1 DEF Entrance, NobodyRuns, Running
    <3>3. NobodyRuns'
      BY <1>f, <3>1, <3>2 DEF NobodyRuns
    <3>4. ASSUME NEW v \in Workers, wpc'[v] = "claim"
          PROVE  wseen'[v].etag # status'.etag
      <4>1. v # w /\ wseen'[v] = wseen[v] /\ wseen[v].etag # status.etag
        BY <1>f, <3>1, <3>2, <3>4 DEF Current
      <4> QED
        BY <1>t, <1>m, <4>1
    <3> QED
      BY <3>3, <3>4 DEF ResultEnds, Current
  <2>2. CASE result = 0 /\ result' # 0
    <3>1. wpc[w] = "persist" /\ wpc'[w] = "complete" /\ UNCHANGED status
      <4>1. lost = 0 /\ lost' = 0
        BY DEF Clean
      <4>2. Persist(w)
        BY <2>2, <4>1 DEF WorkerStep, WorkerFault, GetStatus, GetResult,
           Promote, Claim, Execute, WriteGoverned, Complete, Recheck, MarkRead,
           MarkWrite, WorkerError, WriteAnswerLost, ClaimAnswerLost,
           KillWorker, store
      <4> QED
        BY <4>2 DEF Persist, Goto, IInv, TypeOK
    <3>2. /\ \A v \in Workers : wpc[v] \in Running => v = w
          /\ \A v \in Workers : wpc[v] = "claim" => wseen[v].etag # status.etag
      BY <3>1, RunnerHolds DEF Running, Current
    <3>3. NobodyRuns'
      BY <1>f, <3>1, <3>2 DEF NobodyRuns, Running
    <3>4. \A v \in Workers : wpc'[v] = "claim" => wseen'[v].etag # status'.etag
      BY <1>f, <3>1, <3>2
    <3> QED
      BY <3>3, <3>4 DEF ResultEnds, Current
  <2> QED
    BY <2>1, <2>2 DEF ResultEnds
<1>3. MarksAreLate'
  <2> SUFFICES ASSUME NEW x \in Workers, wpc'[x] \in Marking
               PROVE  NobodyRuns' /\ (result' # 0 \/ status'.attempt >= MaxAttempts)
    BY DEF MarksAreLate
  <2>1. CASE \E v \in Workers : wpc[v] \in Marking
    <3>1. NobodyRuns /\ (result # 0 \/ status.attempt >= MaxAttempts)
      BY <2>1 DEF CleanInv, MarksAreLate
    <3>2. wpc'[w] \notin Running
      <4>1. ASSUME wpc[w] = "claim", Current(wseen[w]) PROVE FALSE
        <5>1. result = 0 /\ status.attempt < MaxAttempts
          BY <1>c, <4>1
        <5> QED
          BY <1>t, <3>1, <5>1
      <4> QED
        BY <1>e, <3>1, <4>1 DEF Entrance, NobodyRuns, Running
    <3>3. NobodyRuns'
      BY <1>f, <3>1, <3>2 DEF NobodyRuns
    <3> QED
      BY <1>f, <1>t, <1>m, <3>1, <3>3
  <2>2. CASE x = w /\ wpc[w] \notin Marking
    <3>1. errors = 0 /\ errors' = 0 /\ lost = 0 /\ lost' = 0
      BY DEF Clean
    <3>2. ASSUME wpc[w] = "get_status" PROVE JobMatches(w)
      BY <3>2, JobsMatch DEF TimingInv
    <3>3. ASSUME wpc[w] = "governed" PROVE Current(wseen[w])
      BY <3>3 DEF CleanInv, LeaseOutlives, Running
    <3>4. \/ /\ wpc[w] = "get_result" /\ ~LeaseHeld(wseen[w])
             /\ wseen[w].attempt >= MaxAttempts
          \/ wpc[w] = "recheck"
      BY <1>e, <2>2, <3>1, <3>2, <3>3 DEF Entrance, Marking
    <3>5. NobodyRuns /\ (result # 0 \/ status.attempt >= MaxAttempts)
      <4>1. CASE wpc[w] = "recheck"
        BY <4>1 DEF IInv, WorkerOK, CleanInv, ResultEnds
      <4>2. CASE ~LeaseHeld(wseen[w]) /\ wseen[w].attempt >= MaxAttempts
        <5>1. ASSUME NEW u \in Workers, wpc[u] \in Running PROVE FALSE
          <6>1. wseen[u] = status /\ LeaseHeld(status)
            BY <5>1, RunnerHolds
          <6>2. wseen[w] # status
            BY <4>2, <6>1
          <6>3. wseen[w].etag < wseen[u].etag
            BY <1>t, <6>1, <6>2, CurrentIsStatus DEF Current
          <6>4. wseen[w].attempt < status.attempt
            BY <5>1, <6>1, <6>3 DEF TimingInv, AttemptsTold, Claimers, Running
          <6>5. status.attempt <= MaxAttempts
            BY DEF IInv, StatusOK
          <6> QED
            BY <1>t, <4>2, <6>4, <6>5
        <5> QED
          BY <1>t, <4>2, <5>1 DEF NobodyRuns
      <4> QED
        BY <3>4, <4>1, <4>2
    <3>6. NobodyRuns'
      BY <1>f, <2>2, <3>5 DEF NobodyRuns, Running, Marking
    <3> QED
      BY <1>f, <1>t, <1>m, <3>5, <3>6
  <2> QED
    BY <1>f, <2>1, <2>2
<1> QED
  BY <1>1, <1>2, <1>3 DEF CleanInv

\* A submitter leaves the workers alone, and the status while one of them runs.
LEMMA TimingApi ==
  ASSUME IInv, IInv', TimingInv, NEW a \in Api, ApiNext(a)
  PROVE  Told' /\ (Clean /\ CleanInv => CleanInv')
<1>1. UNCHANGED <<result, wpc, wseen>>
  BY ApiFrame DEF ApiLeaves
<1>2. UNCHANGED left
  BY DEF ApiNext, StartSubmit, PutRequest, CreateStatus, ReadExisting, SendJob,
         RecordEnqueued, ApiFail, ApiAnswerLost, workerVars
<1>3. UNCHANGED status \/ Created \/ Marked
  BY ApiWrites
<1>4. Told'
  BY <1>1, <1>2 DEF Told, TimingInv, LeaseWasOver, LeaseHeld, AttemptsTold,
                    TimeBounded, Claimers
<1>5. ASSUME CleanInv PROVE CleanInv'
  <2>t. /\ status.etag \in Nat /\ status'.etag \in Nat
        /\ \A v \in Workers : wseen[v].etag \in Nat /\ wseen[v].etag <= status.etag
        /\ MaxAttempts \in Nat \ {0}
    BY RunAssumption DEF IInv, TypeOK, StatusRecord, Snapshots, Snapshot
  <2>m. status'.etag >= status.etag
    BY <1>3, <2>t DEF Created, Marked, NoStatus
  <2>1. LeaseOutlives'
    <3> SUFFICES ASSUME NEW v \in Workers, wpc[v] \in Running
                 PROVE  Current(wseen[v])' /\ status'.lease > left'[v]
      BY <1>1 DEF LeaseOutlives
    <3>1. Current(wseen[v]) /\ status.lease > left[v]
      BY <1>5 DEF CleanInv, LeaseOutlives
    <3>2. status.state = "RUNNING"
      BY <3>1, CurrentIsStatus DEF IInv, WorkerOK, Claimers, Running
    <3>3. UNCHANGED status
      BY <1>3, <3>2 DEF Created, Marked, NoStatus
    <3> QED
      BY <1>1, <1>2, <3>1, <3>3 DEF Current
  <2>2. ResultEnds'
    <3> SUFFICES ASSUME result # 0
                 PROVE  /\ NobodyRuns'
                        /\ \A v \in Workers :
                             wpc[v] = "claim" => wseen[v].etag # status'.etag
      BY <1>1 DEF ResultEnds, Current
    <3>1. NobodyRuns
      BY <1>5 DEF CleanInv, ResultEnds
    <3>2. \A v \in Workers : wpc[v] = "claim" => wseen[v].etag # status.etag
      BY <1>5 DEF CleanInv, ResultEnds, Current
    <3> QED
      BY <1>1, <2>t, <2>m, <3>1, <3>2 DEF NobodyRuns
  <2>3. MarksAreLate'
    <3> SUFFICES ASSUME NEW v \in Workers, wpc[v] \in Marking
                 PROVE  NobodyRuns' /\ (result # 0 \/ status'.attempt >= MaxAttempts)
      BY <1>1 DEF MarksAreLate
    <3>1. NobodyRuns /\ (result # 0 \/ status.attempt >= MaxAttempts)
      BY <1>5 DEF CleanInv, MarksAreLate
    <3>2. Created => result # 0
      BY <2>t, <3>1 DEF Created, NoStatus
    <3> QED
      BY <1>1, <1>3, <3>1, <3>2 DEF NobodyRuns, Marked
  <2> QED
    BY <2>1, <2>2, <2>3 DEF CleanInv
<1> QED
  BY <1>4, <1>5

\* A worker that gets a job has its whole time, and no claim.
LEMMA TimingQueue ==
  ASSUME IInv, IInv', TimingInv, QueueNext
  PROVE  Told' /\ (Clean /\ CleanInv => CleanInv')
<1>1. UNCHANGED <<status, result, wseen>>
  BY DEF QueueNext, Receive, DeadLetter, store, workerVars
<1>2. \A v \in Workers : \/ wpc'[v] = "get_status" /\ left'[v] = Timeout
                         \/ wpc'[v] = wpc[v] /\ left'[v] = left[v]
  <2>1. ASSUME NEW w \in Workers, NEW a \in Api, Receive(w, a) PROVE <1>2!:
    BY <2>1 DEF IInv, TypeOK, Receive
  <2>2. ASSUME NEW a \in Api, DeadLetter(a) PROVE <1>2!:
    BY <2>2 DEF DeadLetter, workerVars
  <2> QED
    BY <2>1, <2>2 DEF QueueNext
<1>3. Told'
  <2>1. LeaseWasOver' /\ AttemptsTold'
    BY <1>1, <1>2 DEF TimingInv, LeaseWasOver, LeaseHeld, AttemptsTold, Claimers
  <2>2. TimeBounded'
    BY <1>2, RunAssumption DEF TimingInv, TimeBounded
  <2> QED
    BY <2>1, <2>2 DEF Told
<1>4. ASSUME CleanInv PROVE CleanInv'
  <2>1. LeaseOutlives'
    BY <1>1, <1>2, <1>4 DEF CleanInv, LeaseOutlives, Running, Current
  <2>2. ResultEnds' /\ MarksAreLate'
    BY <1>1, <1>2, <1>4 DEF CleanInv, ResultEnds, MarksAreLate, NobodyRuns,
       Running, Marking, Current
  <2> QED
    BY <2>1, <2>2 DEF CleanInv
<1> QED
  BY <1>3, <1>4

\* Time runs for the leases and for the workers alike.
LEMMA TimingTick ==
  ASSUME IInv, IInv', TimingInv, Tick
  PROVE  Told' /\ (Clean /\ CleanInv => CleanInv')
<1>1. /\ UNCHANGED <<result, wpc>>
      /\ status' = Aged(status)
      /\ \A w \in Workers : wseen'[w] = Aged(wseen[w]) /\ left'[w] = Less(left[w])
      /\ \A w \in Workers : wpc[w] # "idle" => left[w] > 0
  BY DEF Tick
<1>2. /\ status \in StatusRecord /\ left \in [Workers -> Nat] /\ Timeout \in Nat
      /\ \A w \in Workers : wseen[w] \in StatusRecord
  BY RunAssumption DEF IInv, TypeOK
<1>3. ASSUME NEW rec \in StatusRecord
      PROVE  /\ rec.lease \in Nat /\ Aged(rec).lease = Less(rec.lease)
             /\ LeaseHeld(Aged(rec)) => LeaseHeld(rec)
             /\ Aged(rec).etag = rec.etag /\ Aged(rec).attempt = rec.attempt
  <2>1. rec.lease \in Nat /\ Aged(rec).lease = Less(rec.lease)
    BY DEF Aged, StatusRecord
  <2> QED
    BY <2>1, AgedFields DEF LeaseHeld, Less
<1>4. /\ status'.etag = status.etag /\ status'.attempt = status.attempt
      /\ status.lease \in Nat /\ status'.lease = Less(status.lease)
      /\ \A w \in Workers : /\ wseen'[w].etag = wseen[w].etag
                            /\ wseen'[w].attempt = wseen[w].attempt
                            /\ LeaseHeld(wseen'[w]) => LeaseHeld(wseen[w])
  BY <1>1, <1>2, <1>3
<1>5. Told'
  <2>1. LeaseWasOver'
    BY <1>1, <1>4 DEF TimingInv, LeaseWasOver, LeaseHeld
  <2>2. AttemptsTold'
    BY <1>1, <1>4 DEF TimingInv, AttemptsTold, Claimers
  <2>3. TimeBounded'
    BY <1>1, <1>2 DEF TimingInv, TimeBounded, Less
  <2> QED
    BY <2>1, <2>2, <2>3 DEF Told
<1>6. ASSUME CleanInv PROVE CleanInv'
  <2>1. LeaseOutlives'
    <3> SUFFICES ASSUME NEW v \in Workers, wpc[v] \in Running
                 PROVE  wseen'[v].etag = status'.etag /\ status'.lease > left'[v]
      BY <1>1 DEF LeaseOutlives, Current
    <3>1. wseen[v].etag = status.etag /\ status.lease > left[v]
      BY <1>6 DEF CleanInv, LeaseOutlives, Current
    <3>2. left[v] > 0 /\ left'[v] = Less(left[v]) /\ left[v] \in Nat
      BY <1>1, <1>2 DEF Running
    <3> QED
      BY <1>4, <3>1, <3>2 DEF Less
  <2>2. ResultEnds' /\ MarksAreLate'
    BY <1>1, <1>4, <1>6 DEF CleanInv, ResultEnds, MarksAreLate, NobodyRuns,
       Running, Marking, Current
  <2> QED
    BY <2>1, <2>2 DEF CleanInv
<1> QED
  BY <1>5, <1>6

-----------------------------------------------------------------------------
(* The invariant and what it gives.                                        *)

\* Every step preserves the argument about the leases.
LEMMA TimingNext ==
  ASSUME IInv, IInv', TimingInv, [Next]_vars
  PROVE  TimingInv'
<1>1. SentBundles'
  BY BundlesSent DEF TimingInv
<1>2. Clean' => Clean /\ CleanInv
  BY CleanBefore DEF TimingInv, CleanInv
<1>3. Told' /\ (Clean' => CleanInv')
  <2>1. ASSUME NEW a \in Api, ApiNext(a) PROVE <1>3!:
    BY <1>2, <2>1, TimingApi
  <2>2. ASSUME NEW w \in Workers, WorkerStep(w) \/ WorkerFault(w) PROVE <1>3!:
    BY <1>2, <2>2, ToldWorker, CleanWorker
  <2>3. CASE QueueNext
    BY <1>2, <2>3, TimingQueue
  <2>4. CASE Tick
    BY <1>2, <2>4, TimingTick
  <2>5. CASE UNCHANGED vars
    <3>1. UNCHANGED <<status, result, wpc, wseen, left>>
      BY <2>5 DEF vars, store, workerVars
    <3>2. Told'
      BY <3>1 DEF TimingInv, Told, LeaseWasOver, LeaseHeld, AttemptsTold,
         TimeBounded, Claimers
    <3>3. CleanInv => CleanInv'
      BY <3>1 DEF CleanInv, LeaseOutlives, ResultEnds, MarksAreLate,
         NobodyRuns, Running, Marking, Current
    <3> QED
      BY <1>2, <3>2, <3>3
  <2> QED
    BY <2>1, <2>2, <2>3, <2>4, <2>5 DEF Next
<1> QED
  BY <1>1, <1>3 DEF TimingInv, Told, CleanInv

\* The argument about the leases holds in every reachable state.
THEOREM LeasesHold == Spec => []TimingInv
<1>1. IInv /\ IInv' /\ TimingInv /\ [Next]_vars => TimingInv'
  BY TimingNext
<1> QED
  BY TimingInit, Invariance, <1>1, PTL DEF Spec

\* Two workers never run the model at the same time, as long as no call to S3
\* fails and the submitters of one key ask for one bundle: the lease of a claim
\* is longer than the worker Lambda's time limit, and whoever waits for it to
\* end sees the attempt it was taken with (worker_lambda.py:55-71).
THEOREM ExecutionIsExclusive == Spec => []ExclusiveExecution
<1>1. IInv /\ TimingInv => ExclusiveExecution
  <2> SUFFICES ASSUME IInv, TimingInv, Clean,
                      NEW v \in Workers, NEW w \in Workers,
                      wpc[v] = "execute", wpc[w] = "execute"
               PROVE  v = w
    BY DEF ExclusiveExecution, Clean
  <2>1. CleanInv
    BY DEF TimingInv, CleanInv
  <2> QED
    BY <2>1, RunnerHolds DEF Running
<1> QED
  BY Invariance, LeasesHold, <1>1, PTL
=============================================================================
