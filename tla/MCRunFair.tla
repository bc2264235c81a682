----------------------------- MODULE MCRunFair -----------------------------
(* The liveness of RunLifecycle under two profiles of faults: "quiet" has   *)
(* duplicated deliveries and nothing else; "faulty" has a failing call and  *)
(* a killed worker for one submission, without duplicates.  The constants   *)
(* of the .cfg are the quiet profile's.                                     *)
EXTENDS RunLifecycle

VARIABLE profile

Submitter == CHOOSE a \in Api : TRUE

Faulty ==
  INSTANCE RunLifecycle WITH MaxAttempts <- 3, MaxReceive <- 3,
    Duplicates <- FALSE, Overtake <- TRUE, MaxErrors <- 1, MaxCrashes <- 1

FairInit == Init /\ profile \in {"quiet", "faulty"}

QuietStep == profile = "quiet" /\ Next

\* In the faulty profile only one client submits.
FaultyStep ==
  /\ profile = "faulty"
  /\ Faulty!Next
  /\ \A a \in Api \ {Submitter} : apc'[a] = apc[a]

FairNext == (QuietStep \/ FaultyStep) /\ UNCHANGED profile

FairVars == <<vars, profile>>

ProfileSpec ==
  /\ FairInit /\ [][FairNext]_FairVars
  /\ \A w \in Workers :
       /\ WF_FairVars(profile = "quiet" /\ WorkerStep(w) /\ UNCHANGED profile)
       /\ WF_FairVars(profile = "faulty" /\ Faulty!WorkerStep(w)
                        /\ UNCHANGED profile)
  /\ WF_FairVars(profile = "quiet" /\ UNCHANGED profile
                   /\ \E w \in Workers, a \in Api : Receive(w, a))
  /\ WF_FairVars(profile = "faulty" /\ UNCHANGED profile
                   /\ \E w \in Workers, a \in Api : Faulty!Receive(w, a))
  /\ WF_FairVars(Tick /\ UNCHANGED profile)

\* Without faults every accepted submission reaches a terminal state, although
\* S3 and SQS share no transaction and jobs are delivered twice
\* (docs/productisation/PHASE5A_INTEGRATED_BACKEND.md:101-106).
QuietRunsSettle == profile = "quiet" => AcceptedSettles

\* After an interrupted status write the persisted result is promoted to
\* COMPLETED, with a failed call and a killed worker on the way
\* (docs/productisation/PHASE5A_INTEGRATED_BACKEND.md:96-97).
FaultyRunsPromote == profile = "faulty" => ResultIsPromoted
=============================================================================
