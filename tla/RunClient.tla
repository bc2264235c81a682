----------------------------- MODULE RunClient -----------------------------
(***************************************************************************)
(* One browser that submits runs, follows them and opens their results.    *)
(*                                                                         *)
(* A React page is gone when the user leaves it, but what its handlers     *)
(* await is not: a submission, a status request or a result request goes   *)
(* on and its continuation runs later.  Requests and continuations are     *)
(* therefore actions of their own.  Every visit of RunPage starts one      *)
(* chain of status requests, with an "active" flag that leaving clears.    *)
(* A page keeps its state when only the run in its address changes: the    *)
(* router then goes on with the component it has.                          *)
(*                                                                         *)
(* The server is what RunContract promises, seen from outside: a run is    *)
(* QUEUED, RUNNING, FAILED or COMPLETED, and COMPLETED stays.              *)
(***************************************************************************)
EXTENDS Naturals, FiniteSets

CONSTANTS
  Runs,        \* idempotency keys a browser may draw, and the runs they name
  MaxMounts,   \* bound: visits of RunPage
  MaxErrors,   \* bound: requests that fail
  Roams,       \* whether the user leaves pages, reloads and follows links
  FetchFails,  \* whether RunPage's request for the result may fail
  Retries      \* whether the server may retry a run that FAILED

ASSUME ClientAssumption ==
  /\ MaxMounts \in Nat \ {0} /\ MaxErrors \in Nat
  /\ Roams \in BOOLEAN /\ FetchFails \in BOOLEAN /\ Retries \in BOOLEAN

Mounts == 1..MaxMounts

VARIABLES
  server,    \* the state of each run on the server
  page,      \* where the browser is, and for which run
  pending,   \* submissions under way
  busy,      \* ReviewRunPage: the submission that disables its button
  drawn,     \* keys already drawn
  known,     \* runs whose acceptance reached the browser
  chain,     \* the poll chain of each visit of RunPage
  mount,     \* the latest visit
  completed, \* RunPage: completed.current
  shown,     \* RunPage: the status it shows
  loading,   \* ResultsPage: its request is under way
  view,      \* ResultsPage: what it shows
  errors     \* requests that failed so far

submission == <<pending, busy, drawn, known>>
polling == <<chain, mount, completed, shown>>
results == <<loading, view>>
vars == <<server, page, submission, polling, results, errors>>

-----------------------------------------------------------------------------
States == {"absent", "QUEUED", "RUNNING", "FAILED", "COMPLETED"}

Pages ==
  [at : {"review"}] \cup [at : {"run", "results"}, run : Runs]

Review == [at |-> "review"]

\* "asked": getStatus is under way; "answered", "refused": its promise is
\* settled; "waiting": the timer is set; "fetching": getResult is under way;
\* "leaving": the timer that navigates to the results is set.
Steps == {"none", "asked", "answered", "refused", "waiting", "fetching",
          "leaving", "ended"}

Chain ==
  [run : Runs, at : Steps, active : BOOLEAN, answer : States]

\* What ResultsPage got, and of which run.
Nothing == [what |-> "nothing"]
Views   == {Nothing} \cup [what : {"result", "status"}, run : Runs]

TypeOK ==
  /\ server \in [Runs -> States]
  /\ page \in Pages
  /\ pending \subseteq Runs /\ drawn \subseteq Runs /\ known \subseteq Runs
  /\ busy \subseteq Runs
  /\ mount \in 0..MaxMounts
  /\ chain \in [1..mount -> Chain]
  /\ completed \in BOOLEAN
  /\ shown \in States
  /\ loading \in BOOLEAN /\ view \in Views
  /\ errors \in 0..MaxErrors

Init ==
  /\ server = [r \in Runs |-> "absent"]
  /\ page = Review
  /\ pending = {} /\ busy = {} /\ drawn = {} /\ known = {}
  /\ chain = <<>> /\ mount = 0 /\ completed = FALSE /\ shown = "QUEUED"
  /\ loading = FALSE /\ view = Nothing
  /\ errors = 0

Error == errors < MaxErrors /\ errors' = errors + 1

-----------------------------------------------------------------------------
(* The server.                                                             *)

\* The worker's transitions; a redelivery may retry a FAILED run or promote
\* its result.
ServerStep(r) ==
  /\ \/ server[r] = "QUEUED" /\ server' = [server EXCEPT ![r] = "RUNNING"]
     \/ /\ server[r] = "RUNNING"
        /\ \E s \in {"COMPLETED", "FAILED"} :
             server' = [server EXCEPT ![r] = s]
     \/ /\ server[r] = "FAILED" /\ Retries
        /\ \E s \in {"RUNNING", "COMPLETED"} :
             server' = [server EXCEPT ![r] = s]
  /\ UNCHANGED <<page, submission, polling, results, errors>>

\* GET /v1/runs/{id}/result: 200 and 202 both count as ok, 409 does not.
Served(r) ==
  CASE server[r] = "COMPLETED" -> "result"
    [] server[r] = "FAILED" -> "error"
    [] OTHER -> "status"

-----------------------------------------------------------------------------
(* Pages.                                                                  *)

\* Mutant: the clean-up clears the poll timer only.
TimerCleared(c) == IF c.at = "waiting" THEN [c EXCEPT !.at = "ended"] ELSE c

\* The clean-up of RunPage's effect: active is cleared and so is the poll
\* timer, but neither a request nor the navigation timer is.
Unmounted(c) ==
  [c EXCEPT !.active = FALSE, !.at = IF @ = "waiting" THEN "ended" ELSE @]

\* Mutant: a chain starts in the state that only the client knows.
Submitting(r) ==
  [run |-> r, at |-> "asked", active |-> TRUE, answer |-> "SUBMITTING"]

\* The chain a visit starts: its first request is sent at once.
Fresh(r) ==
  [run |-> r, at |-> "asked", active |-> TRUE, answer |-> "absent"]

\* RunPage opens; a component that stays keeps its state and its ref.
ArriveRun(r, stays, chains) ==
  /\ mount < MaxMounts /\ mount' = mount + 1
  /\ chain' = [m \in 1..(mount + 1) |->
                 IF m <= mount THEN Unmounted(chains[m]) ELSE Fresh(r)]
  /\ completed' = (stays /\ completed)
  /\ shown' = IF stays THEN shown ELSE "QUEUED"
  /\ loading' = FALSE /\ view' = Nothing

\* Another page opens; a ResultsPage that stays keeps what it shows.
ArriveElsewhere(p, stays, chains) ==
  /\ chain' = [m \in 1..mount |-> Unmounted(chains[m])]
  /\ loading' = (p.at = "results" /\ (p = page /\ stays => loading))
  /\ view' = IF stays THEN view ELSE Nothing
  /\ UNCHANGED <<mount, completed, shown>>

\* Page p opens; "stays" says whether its component is the one on screen.
Arrive(p, stays, chains) ==
  /\ page' = p /\ busy' = {}
  /\ IF p.at = "run" THEN ArriveRun(p.run, stays, chains)
                     ELSE ArriveElsewhere(p, stays, chains)

\* The user follows a link or goes back or forward in the history.
Roam(p) ==
  /\ Roams /\ p # page
  /\ p # Review => p.run \in known
  /\ Arrive(p, p.at = page.at, chain)
  /\ UNCHANGED <<server, pending, drawn, known, errors>>

\* A reload, such as "Retry status check": everything under way is dropped.
Reload ==
  /\ Roams
  /\ Arrive(page, FALSE, [m \in 1..mount |-> [chain[m] EXCEPT !.at = "ended"]])
  /\ pending' = {}
  /\ UNCHANGED <<server, drawn, known, errors>>

-----------------------------------------------------------------------------
(* ReviewRunPage.                                                          *)

\* "Run Assessment": every click draws a key of its own.
Click(r) ==
  /\ page = Review /\ busy = {}
  /\ r \notin drawn
  /\ drawn' = drawn \cup {r} /\ pending' = pending \cup {r} /\ busy' = {r}
  /\ UNCHANGED <<server, page, known, polling, results, errors>>

\* The submission reaches the server, which may be after the browser gave up.
Create(r) ==
  /\ r \in drawn /\ server[r] = "absent"
  /\ server' = [server EXCEPT ![r] = "QUEUED"]
  /\ UNCHANGED <<page, submission, polling, results, errors>>

\* Its 202 arrives: navigate to the run, whatever page is open by now.
Accepted(r) ==
  /\ r \in pending /\ server[r] # "absent"
  /\ pending' = pending \ {r} /\ known' = known \cup {r}
  /\ Arrive([at |-> "run", run |-> r], page.at = "run", chain)
  /\ UNCHANGED <<server, drawn, errors>>

\* The save or the submission fails, or the answer is lost: an error is shown
\* and the button is enabled again, if the page is still there.
Rejected(r) ==
  /\ r \in pending /\ Error
  /\ pending' = pending \ {r}
  /\ busy' = busy \ {r}
  /\ UNCHANGED <<server, page, drawn, known, polling, results>>

-----------------------------------------------------------------------------
(* RunPage: the poll chain of visit m.                                     *)

Step(m, c) ==
  chain' = [chain EXCEPT ![m] = c]

Kept == UNCHANGED <<server, page, submission, mount, results>>

\* The server reads the status.
Answer(m) ==
  LET c == chain[m] IN
  /\ c.at = "asked"
  /\ Step(m, [c EXCEPT !.at = "answered", !.answer = server[c.run]])
  /\ UNCHANGED <<completed, shown, errors>> /\ Kept

\* The request fails.
Refuse(m) ==
  LET c == chain[m] IN
  /\ c.at = "asked" /\ Error
  /\ Step(m, [c EXCEPT !.at = "refused"])
  /\ UNCHANGED <<completed, shown>> /\ Kept

\* Mutant: the result is asked for in every terminal state.
ShowTerminal(m) ==
  LET c == chain[m] IN
  /\ c.at = "answered" /\ c.active
  /\ Step(m, [c EXCEPT !.at = IF c.answer \in {"COMPLETED", "FAILED"}
                              THEN "fetching" ELSE "waiting"])
  /\ shown' = c.answer
  /\ UNCHANGED <<completed, errors>> /\ Kept

\* The continuation of getStatus.
Show(m) ==
  LET c == chain[m]
      first == c.answer = "COMPLETED" /\ ~completed
  IN
  /\ c.at = "answered"
  /\ \/ /\ ~c.active
        /\ Step(m, [c EXCEPT !.at = "ended"])
        /\ UNCHANGED <<completed, shown>>
     \/ /\ c.active /\ first
        /\ Step(m, [c EXCEPT !.at = "fetching"])
        /\ completed' = TRUE /\ shown' = c.answer
     \/ /\ c.active /\ ~first
        /\ Step(m, [c EXCEPT !.at = IF c.answer = "FAILED" THEN "ended"
                                                           ELSE "waiting"])
        /\ shown' = c.answer /\ UNCHANGED completed
  /\ UNCHANGED errors /\ Kept

\* Mutant: an error ends the chain.
GiveUp(m) ==
  LET c == chain[m] IN
  /\ c.at = "refused"
  /\ Step(m, [c EXCEPT !.at = "ended"])
  /\ UNCHANGED <<completed, shown, errors>> /\ Kept

\* The catch block: another poll in five seconds.
Catch(m) ==
  LET c == chain[m] IN
  /\ c.at = "refused"
  /\ Step(m, [c EXCEPT !.at = IF c.active THEN "waiting" ELSE "ended"])
  /\ UNCHANGED <<completed, shown, errors>> /\ Kept

\* The poll timer fires.
Poll(m) ==
  LET c == chain[m] IN
  /\ c.at = "waiting"
  /\ Step(m, [c EXCEPT !.at = "asked"])
  /\ UNCHANGED <<completed, shown, errors>> /\ Kept

\* getResult settles; a result is not kept, only waited for.
Fetched(m) ==
  LET c == chain[m] IN
  /\ c.at = "fetching"
  /\ \/ /\ Served(c.run) # "error" /\ UNCHANGED errors
        /\ Step(m, [c EXCEPT !.at = "leaving"])
     \/ /\ FetchFails /\ Error
        /\ Step(m, [c EXCEPT !.at = "refused"])
  /\ UNCHANGED <<completed, shown>> /\ Kept

\* The navigation timer fires; nothing looks at active any more.
Route(m) ==
  LET c == chain[m] IN
  /\ c.at = "leaving"
  /\ Arrive([at |-> "results", run |-> c.run], page.at = "results",
            [chain EXCEPT ![m] = [c EXCEPT !.at = "ended"]])
  /\ UNCHANGED <<server, pending, drawn, known, errors>>

-----------------------------------------------------------------------------
(* ResultsPage.                                                            *)

\* Its request settles; an error leaves what is shown.
Load ==
  /\ loading /\ loading' = FALSE
  /\ \/ /\ Served(page.run) # "error"
        /\ view' = [what |-> Served(page.run), run |-> page.run]
        /\ UNCHANGED errors
     \/ Served(page.run) = "error" /\ UNCHANGED <<view, errors>>
     \/ UNCHANGED view /\ Error
  /\ UNCHANGED <<server, page, submission, polling>>

-----------------------------------------------------------------------------
ChainStep(m) ==
  \/ Answer(m) \/ Refuse(m) \/ Show(m) \/ Catch(m) \/ Poll(m)
  \/ Fetched(m) \/ Route(m)

User == (\E p \in Pages : Roam(p)) \/ Reload \/ \E r \in Runs : Click(r)

Next ==
  \/ User \/ Load
  \/ \E r \in Runs :
       ServerStep(r) \/ Create(r) \/ Accepted(r) \/ Rejected(r)
  \/ \E m \in 1..mount : ChainStep(m)

Spec == Init /\ [][Next]_vars

\* Requests settle, timers fire and continuations run.
Fairness ==
  /\ \A m \in Mounts : WF_vars(m \in 1..mount /\ ChainStep(m))
  /\ WF_vars(Load)

FairSpec == Spec /\ Fairness

-----------------------------------------------------------------------------
(* Properties.                                                             *)

\* Once the run page was told a status, what it shows is true of the run in
\* its address: no answer to a request of an address already left is shown,
\* whatever order the answers come in.
ShownIsOfThisRun ==
  page.at = "run" /\ chain[mount].answer # "absent"
      /\ chain[mount].at # "answered" /\ shown = "COMPLETED"
    => server[page.run] = "COMPLETED"

\* At most one chain of requests goes on for ever, that of the open page.
OnePoller ==
  \A m \in 1..mount :
    chain[m].at = "waiting" \/ (chain[m].at = "asked" /\ chain[m].active) =>
      m = mount /\ page = [at |-> "run", run |-> chain[m].run]

\* RunPage only asks for, and only routes to, a result that exists.
RoutesToResult ==
  \A m \in 1..mount :
    chain[m].at \in {"fetching", "leaving"} =>
      server[chain[m].run] = "COMPLETED"

\* An open run page ends up at the result of its run once that is COMPLETED.
CompletedIsRouted ==
  \A r \in Runs :
    (page = [at |-> "run", run |-> r] /\ server[r] = "COMPLETED")
      ~> (page = [at |-> "results", run |-> r])

\* A page that was left takes its user nowhere.
LeavingIsRespected ==
  [][\A m \in 1..mount :
       chain[m].at = "leaving" /\ chain'[m].at = "ended" /\ page' # page
         => page = [at |-> "run", run |-> chain[m].run]]_vars

\* The results page renders results only.
ResultsAreResults == view.what # "status"

\* The results page renders the run in its address.
ResultMatchesAddress == view.what = "result" => view.run = page.run

\* A retry after an uncertain answer is the same submission: once a run is
\* accepted, nothing the browser submitted runs unknown to it.
RetriesAreReplays ==
  page.at = "run" /\ pending = {} =>
    \A r \in Runs : server[r] # "absent" => r \in known
=============================================================================
