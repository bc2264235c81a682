---------------------------- MODULE MCRunClient ----------------------------
(* RunClient with two users, one per profile: "roams" leaves pages, reloads *)
(* and follows links while any request may fail (the constants of the       *)
(* .cfg); "stays" waits on the run page, and the request for the result     *)
(* does not fail.                                                           *)
EXTENDS RunClient

VARIABLE profile

Staying ==
  INSTANCE RunClient WITH Roams <- FALSE, FetchFails <- FALSE,
                          Retries <- FALSE

ProfileVars == <<vars, profile>>

ProfileNext ==
  /\ \/ profile = "roams" /\ Next
     \/ profile = "stays" /\ Staying!Next
  /\ UNCHANGED profile

ProfileInit == Init /\ profile \in {"roams", "stays"}

ProfileSpec ==
  /\ ProfileInit
  /\ [][ProfileNext]_ProfileVars
  /\ \A m \in Mounts :
       WF_ProfileVars(/\ profile = "stays" /\ UNCHANGED profile
                      /\ m \in 1..mount /\ Staying!ChainStep(m))
  /\ WF_ProfileVars(profile = "stays" /\ UNCHANGED profile /\ Staying!Load)

\* A user who stays on the run page of a run ends up at its result once that
\* is COMPLETED, although status requests fail (RunPage.tsx:28-46).
StayingIsRouted == profile = "stays" => CompletedIsRouted
=============================================================================
