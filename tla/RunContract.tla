---------------------------- MODULE RunContract ----------------------------
(***************************************************************************)
(* What the asynchronous backend promises about one run, seen through the  *)
(* two objects a client can read: status.json and result.json.  A run is   *)
(* accepted once, is attempted at most MaxAttempts times, has at most one  *)
(* persisted result, and is COMPLETED only with that result; COMPLETED is  *)
(* the end.  How submitters, the queue and the workers bring this about is *)
(* the business of RunLifecycle, which implements this module.             *)
(***************************************************************************)
EXTENDS Naturals

CONSTANT MaxAttempts   \* worker_lambda.MAX_ATTEMPTS

VARIABLES
  phase,      \* the "status" field of status.json, "NONE" before it exists
  attempts,   \* its "attempt" field: executions started so far
  answer,     \* the hash of result.json, 0 before it exists
  published   \* the result hash status.json shows, 0 while it shows none

contractVars == <<phase, attempts, answer, published>>

Init ==
  /\ phase = "NONE"
  /\ attempts = 0
  /\ answer = 0
  /\ published = 0

\* POST .../run creates status.json.
Accept ==
  /\ phase = "NONE"
  /\ phase' = "QUEUED"
  /\ UNCHANGED <<attempts, answer, published>>

\* A worker starts one more attempt, also of a run that failed or stalled.
Attempt ==
  /\ phase \in {"QUEUED", "RUNNING", "FAILED"}
  /\ attempts < MaxAttempts
  /\ phase' = "RUNNING"
  /\ attempts' = attempts + 1
  /\ UNCHANGED <<answer, published>>

\* A worker writes result.json, once for ever.
Persist ==
  /\ attempts > 0
  /\ answer = 0
  /\ answer' \in Nat \ {0}
  /\ UNCHANGED <<phase, attempts, published>>

\* A run with a result becomes COMPLETED and names that result.
Publish ==
  /\ phase \in {"QUEUED", "RUNNING", "FAILED"}
  /\ answer # 0
  /\ phase' = "COMPLETED"
  /\ published' = answer
  /\ UNCHANGED <<attempts, answer>>

\* An attempt, or a delivery that never became one, ends in FAILED.
Fail ==
  /\ phase \in {"QUEUED", "RUNNING", "FAILED"}
  /\ phase' = "FAILED"
  /\ UNCHANGED <<attempts, answer, published>>

Next == Accept \/ Attempt \/ Persist \/ Publish \/ Fail

Spec == Init /\ [][Next]_contractVars
=============================================================================
