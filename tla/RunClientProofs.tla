-------------------------- MODULE RunClientProofs --------------------------
(***************************************************************************)
(* What the browser shows and follows, for any number of runs, visits and  *)
(* failing requests.  The invariant says what each poll chain is worth:    *)
(* only the chain of the open page is active, only an active chain waits   *)
(* for its timer, an answer COMPLETED stays true, and the page shows the   *)
(* last answer of its own chain.                                           *)
(***************************************************************************)
EXTENDS RunClient, TLAPS

\* The active chain is the one of the open page.
ActiveIsOpen ==
  \A m \in 1..mount :
    chain[m].active => m = mount /\ page = [at |-> "run", run |-> chain[m].run]

OpenIsActive ==
  page.at = "run" => mount > 0 /\ chain[mount].active /\ chain[mount].run = page.run

WaitingIsActive == \A m \in 1..mount : chain[m].at = "waiting" => chain[m].active

AnswersHold ==
  \A m \in 1..mount :
    /\ chain[m].answer = "COMPLETED" => server[chain[m].run] = "COMPLETED"
    /\ chain[m].at \in {"fetching", "leaving"} => chain[m].answer = "COMPLETED"

\* Between an answer and its continuation the page shows the one before.
ShownIsAnswer ==
  page.at = "run" /\ chain[mount].answer # "absent" /\ chain[mount].at # "answered"
    => shown = chain[mount].answer

\* Only the results page waits for results.
LoadingIsOpen == loading => page.at = "results"

Polls == /\ ActiveIsOpen /\ OpenIsActive /\ WaitingIsActive
         /\ AnswersHold /\ ShownIsAnswer /\ LoadingIsOpen

ClientInv == TypeOK /\ Polls

-----------------------------------------------------------------------------
(* Pages.                                                                  *)

LEMMA PageKinds ==
  ASSUME NEW p \in Pages
  PROVE  /\ p = Review \/ p \in [at : {"run", "results"}, run : Runs]
         /\ p # Review => p.run \in Runs /\ p.at \in {"run", "results"}
         /\ Review.at = "review"
BY DEF Pages, Review

\* The chains of pages that were left.
LEMMA UnmountedFields ==
  ASSUME NEW c \in Chain
  PROVE  /\ Unmounted(c) \in Chain
         /\ ~Unmounted(c).active
         /\ Unmounted(c).run = c.run /\ Unmounted(c).answer = c.answer
         /\ Unmounted(c).at # "waiting"
         /\ Unmounted(c).at \in {c.at, "ended"}
BY DEF Unmounted, Chain, Steps

LEMMA FreshFields ==
  ASSUME NEW r \in Runs
  PROVE  /\ Fresh(r) \in Chain
         /\ Fresh(r).active /\ Fresh(r).run = r /\ Fresh(r).at = "asked"
         /\ Fresh(r).answer = "absent"
BY DEF Fresh, Chain, Steps, States

\* A page opens, whatever was stopped on the way.
LEMMA ArriveInv ==
  ASSUME ClientInv, NEW p \in Pages, NEW stays \in BOOLEAN,
         NEW chains \in [1..mount -> Chain],
         \A m \in 1..mount : /\ chains[m].run = chain[m].run
                             /\ chains[m].answer = chain[m].answer
                             /\ chains[m].at \in {chain[m].at, "ended"},
         Arrive(p, stays, chains), server' = server,
         pending' \subseteq Runs, drawn' \subseteq Runs, known' \subseteq Runs,
         errors' \in 0..MaxErrors
  PROVE  ClientInv'
<1>0. mount \in Nat /\ mount \in 0..MaxMounts /\ MaxMounts \in Nat
  BY ClientAssumption DEF ClientInv, TypeOK
<1>1. page' = p /\ busy' = {}
  BY DEF Arrive
<1> DEFINE Left(m) == Unmounted(chains[m])
<1>2. ASSUME NEW m \in 1..mount
      PROVE  /\ Left(m) \in Chain /\ ~Left(m).active
             /\ Left(m).at # "waiting"
             /\ Left(m).answer = "COMPLETED" => server[Left(m).run] = "COMPLETED"
             /\ Left(m).at \in {"fetching", "leaving"} => Left(m).answer = "COMPLETED"
  <2>1. chains[m] \in Chain
    OBVIOUS
  <2> QED BY <2>1, UnmountedFields DEF ClientInv, Polls, AnswersHold
<1> HIDE DEF Left
<1>3. CASE p.at = "run"
  <2>1. p.run \in Runs /\ p = [at |-> "run", run |-> p.run]
    BY <1>3, PageKinds
  <2>2. /\ mount < MaxMounts /\ mount' = mount + 1
        /\ chain' = [m \in 1..(mount + 1) |-> IF m <= mount THEN Left(m) ELSE Fresh(p.run)]
        /\ completed' = (stays /\ completed)
        /\ shown' = IF stays THEN shown ELSE "QUEUED"
        /\ loading' = FALSE /\ view' = Nothing
    BY <1>3 DEF Arrive, ArriveRun, Left
  <2>3. \A m \in 1..mount : m \in 1..mount' /\ chain'[m] = Left(m)
    BY <1>0, <2>2
  <2>4. mount' \in 1..mount' /\ chain'[mount'] = Fresh(p.run)
    BY <1>0, <2>2
  <2>5. \A m \in 1..mount' : m \in 1..mount \/ m = mount'
    BY <1>0, <2>2
  <2>6. TypeOK'
    <3>1. \A m \in 1..mount' : chain'[m] \in Chain
      BY <1>2, <2>1, <2>3, <2>4, <2>5, FreshFields
    <3>2. DOMAIN chain' = 1..mount' /\ chain' = [m \in 1..mount' |-> chain'[m]]
      BY <2>2
    <3>3. chain' \in [1..mount' -> Chain]
      BY <3>1, <3>2
    <3>4. mount' \in 0..MaxMounts
      BY <1>0, <2>2
    <3>5. completed' \in BOOLEAN /\ shown' \in States
      BY <2>2 DEF ClientInv, TypeOK, States
    <3> QED BY <1>1, <2>2, <3>3, <3>4, <3>5 DEF ClientInv, TypeOK, Views
  <2>7. Polls'
    BY <1>1, <1>2, <2>1, <2>2, <2>3, <2>4, <2>5, FreshFields
       DEF Polls, ActiveIsOpen, OpenIsActive, WaitingIsActive, AnswersHold, ShownIsAnswer,
           LoadingIsOpen
  <2> QED BY <2>6, <2>7 DEF ClientInv
<1>4. CASE p.at # "run"
  <2>1. /\ chain' = [m \in 1..mount |-> Left(m)]
        /\ loading' = (p.at = "results" /\ (p = page /\ stays => loading))
        /\ view' = IF stays THEN view ELSE Nothing
        /\ UNCHANGED <<mount, completed, shown>>
    BY <1>4 DEF Arrive, ArriveElsewhere, Left
  <2>2. TypeOK'
    <3>1. chain' \in [1..mount' -> Chain]
      BY <1>2, <2>1
    <3>2. loading' \in BOOLEAN /\ view' \in Views
      BY <2>1 DEF ClientInv, TypeOK, Views
    <3> QED BY <1>1, <2>1, <3>1, <3>2 DEF ClientInv, TypeOK
  <2>3. Polls'
    BY <1>1, <1>2, <1>4, <2>1
       DEF Polls, ActiveIsOpen, OpenIsActive, WaitingIsActive, AnswersHold, ShownIsAnswer,
           LoadingIsOpen
  <2> QED BY <2>2, <2>3 DEF ClientInv
<1> QED BY <1>3, <1>4

-----------------------------------------------------------------------------
(* Poll chains.                                                            *)

\* What a step of one chain keeps.
LEMMA ChainInv ==
  ASSUME ClientInv, NEW m \in 1..mount, NEW c \in Chain, Step(m, c), Kept,
         c.run = chain[m].run, c.active = chain[m].active,
         completed' \in BOOLEAN, shown' \in States, errors' \in 0..MaxErrors,
         c.at = "waiting" => c.active,
         c.answer = "COMPLETED" => server[c.run] = "COMPLETED",
         c.at \in {"fetching", "leaving"} => c.answer = "COMPLETED",
         ~c.active => shown' = shown,
         c.active /\ c.answer # "absent" /\ c.at # "answered" => shown' = c.answer
  PROVE  ClientInv'
<1>1. /\ UNCHANGED <<server, page, pending, busy, drawn, known, mount, loading, view>>
      /\ chain' = [chain EXCEPT ![m] = c]
  BY DEF Kept, Step, submission, results
<1>2. chain \in [1..mount -> Chain] /\ mount \in Nat
  BY ClientAssumption DEF ClientInv, TypeOK
<1>3. /\ chain'[m] = c
      /\ \A k \in 1..mount : k # m => chain'[k] = chain[k]
  BY <1>1, <1>2
<1>4. TypeOK'
  BY <1>1, <1>2 DEF ClientInv, TypeOK
<1>5. /\ ActiveIsOpen' /\ OpenIsActive' /\ WaitingIsActive' /\ AnswersHold'
      /\ LoadingIsOpen'
  BY <1>1, <1>2, <1>3
     DEF ClientInv, Polls, ActiveIsOpen, OpenIsActive, WaitingIsActive, AnswersHold,
         LoadingIsOpen
<1>6. ShownIsAnswer'
  <2>1. SUFFICES ASSUME page.at = "run", chain'[mount].answer # "absent",
                        chain'[mount].at # "answered"
                 PROVE  shown' = chain'[mount].answer
    BY <1>1 DEF ShownIsAnswer
  <2>2. mount \in 1..mount /\ chain[mount].active
    BY <1>2, <2>1 DEF ClientInv, Polls, OpenIsActive
  <2>3. CASE m = mount
    BY <1>3, <2>1, <2>2, <2>3
  <2>4. CASE m # mount
    <3>1. ~c.active
      BY <2>4 DEF ClientInv, Polls, ActiveIsOpen
    <3> QED BY <1>3, <2>1, <2>2, <2>4, <3>1 DEF ClientInv, Polls, ShownIsAnswer
  <2> QED BY <2>3, <2>4
<1> QED BY <1>4, <1>5, <1>6 DEF ClientInv, Polls

LEMMA ErrorCounted ==
  ASSUME ClientInv, Error PROVE errors' \in 0..MaxErrors
BY ClientAssumption DEF ClientInv, TypeOK, Error

\* What is known of the chain whose turn it is.
LEMMA ChainFacts ==
  ASSUME ClientInv, NEW m \in 1..mount
  PROVE  /\ chain[m] \in Chain /\ chain[m].run \in Runs
         /\ server[chain[m].run] \in States
         /\ chain[m].active \in BOOLEAN
         /\ chain[m].at = "waiting" => chain[m].active
         /\ chain[m].answer = "COMPLETED" => server[chain[m].run] = "COMPLETED"
         /\ chain[m].at \in {"fetching", "leaving"} => chain[m].answer = "COMPLETED"
         /\ chain[m].active /\ chain[m].answer # "absent" /\ chain[m].at # "answered"
              => shown = chain[m].answer
         /\ completed \in BOOLEAN /\ shown \in States /\ errors \in 0..MaxErrors
<1>1. chain[m] \in Chain
  BY DEF ClientInv, TypeOK
<1>2. chain[m].active => m = mount /\ page.at = "run"
  BY DEF ClientInv, Polls, ActiveIsOpen
<1> QED BY <1>1, <1>2 DEF ClientInv, TypeOK, Chain, Polls, WaitingIsActive, AnswersHold,
                          ShownIsAnswer

\* The fields of a chain after a step that moves it.
LEMMA MovedFields ==
  ASSUME NEW c \in Chain, NEW at \in Steps
  PROVE  LET d == [c EXCEPT !.at = at]
         IN /\ d \in Chain /\ d.at = at /\ d.run = c.run
            /\ d.active = c.active /\ d.answer = c.answer
BY DEF Chain

LEMMA AnswerInv == ASSUME ClientInv, NEW m \in 1..mount, Answer(m) PROVE ClientInv'
<1> DEFINE d == [chain[m] EXCEPT !.at = "answered", !.answer = server[chain[m].run]]
<1>1. /\ d \in Chain /\ d.at = "answered" /\ d.run = chain[m].run
      /\ d.active = chain[m].active /\ d.answer = server[chain[m].run]
  BY ChainFacts DEF Chain, Steps
<1>2. Step(m, d) /\ Kept /\ UNCHANGED <<completed, shown, errors>>
  BY DEF Answer
<1> HIDE DEF d
<1> QED BY <1>1, <1>2, ChainFacts, ChainInv

LEMMA RefuseInv == ASSUME ClientInv, NEW m \in 1..mount, Refuse(m) PROVE ClientInv'
<1> DEFINE d == [chain[m] EXCEPT !.at = "refused"]
<1>1. d \in Chain /\ d.at = "refused" /\ d.run = chain[m].run
      /\ d.active = chain[m].active /\ d.answer = chain[m].answer
  BY ChainFacts, MovedFields DEF Steps
<1>2. Step(m, d) /\ Kept /\ UNCHANGED <<completed, shown>> /\ chain[m].at = "asked" /\ Error
  BY DEF Refuse
<1> HIDE DEF d
<1> QED BY <1>1, <1>2, ChainFacts, ChainInv, ErrorCounted

LEMMA ShowInv == ASSUME ClientInv, NEW m \in 1..mount, Show(m) PROVE ClientInv'
<1>0. chain[m].at = "answered" /\ Kept /\ UNCHANGED errors
  BY DEF Show
<1> DEFINE first == chain[m].answer = "COMPLETED" /\ ~completed
           d(at) == [chain[m] EXCEPT !.at = at]
<1>1. \A at \in Steps : /\ d(at) \in Chain /\ d(at).at = at /\ d(at).run = chain[m].run
                        /\ d(at).active = chain[m].active /\ d(at).answer = chain[m].answer
  BY ChainFacts, MovedFields
<1>2. chain[m].answer \in States
  BY ChainFacts DEF Chain
<1> HIDE DEF d
<1>3. CASE ~chain[m].active /\ Step(m, d("ended")) /\ UNCHANGED <<completed, shown>>
  BY <1>0, <1>1, <1>3, ChainFacts, ChainInv DEF Steps
<1>4. CASE /\ chain[m].active /\ first /\ Step(m, d("fetching"))
           /\ completed' = TRUE /\ shown' = chain[m].answer
  BY <1>0, <1>1, <1>2, <1>4, ChainFacts, ChainInv DEF Steps
<1>5. CASE /\ chain[m].active /\ ~first
           /\ Step(m, d(IF chain[m].answer = "FAILED" THEN "ended" ELSE "waiting"))
           /\ shown' = chain[m].answer /\ UNCHANGED completed
  <2>1. PICK at \in {"ended", "waiting"} : Step(m, d(at))
    BY <1>5
  <2>2. at \in Steps /\ completed' \in BOOLEAN /\ errors' \in 0..MaxErrors
    BY <1>0, <1>5, ChainFacts DEF Steps
  <2>3. d(at).answer = "COMPLETED" => server[d(at).run] = "COMPLETED"
    BY <1>1, <2>2, ChainFacts
  <2>4. /\ d(at) \in Chain /\ d(at).at = at /\ d(at).run = chain[m].run
        /\ d(at).active = chain[m].active /\ d(at).answer = chain[m].answer
    BY <1>1, <2>2
  <2> QED BY <1>0, <1>2, <1>5, <2>1, <2>2, <2>3, <2>4, ChainInv
<1> QED BY <1>3, <1>4, <1>5 DEF Show, d

LEMMA CatchInv == ASSUME ClientInv, NEW m \in 1..mount, Catch(m) PROVE ClientInv'
<1> DEFINE at == IF chain[m].active THEN "waiting" ELSE "ended"
           d == [chain[m] EXCEPT !.at = at]
<1>0. at \in Steps
  BY DEF Steps
<1>1. d \in Chain /\ d.at = at /\ d.run = chain[m].run
      /\ d.active = chain[m].active /\ d.answer = chain[m].answer
  BY <1>0, ChainFacts, MovedFields, Zenon
<1>2. Step(m, d) /\ Kept /\ UNCHANGED <<completed, shown, errors>> /\ chain[m].at = "refused"
  BY DEF Catch
<1> HIDE DEF d
<1> QED BY <1>1, <1>2, ChainFacts, ChainInv

LEMMA PollInv == ASSUME ClientInv, NEW m \in 1..mount, Poll(m) PROVE ClientInv'
<1> DEFINE d == [chain[m] EXCEPT !.at = "asked"]
<1>1. d \in Chain /\ d.at = "asked" /\ d.run = chain[m].run
      /\ d.active = chain[m].active /\ d.answer = chain[m].answer
  BY ChainFacts, MovedFields DEF Steps
<1>2. Step(m, d) /\ Kept /\ UNCHANGED <<completed, shown, errors>> /\ chain[m].at = "waiting"
  BY DEF Poll
<1> HIDE DEF d
<1> QED BY <1>1, <1>2, ChainFacts, ChainInv

LEMMA FetchedInv == ASSUME ClientInv, NEW m \in 1..mount, Fetched(m) PROVE ClientInv'
<1> DEFINE d(at) == [chain[m] EXCEPT !.at = at]
<1>1. \A at \in Steps : /\ d(at) \in Chain /\ d(at).at = at /\ d(at).run = chain[m].run
                        /\ d(at).active = chain[m].active /\ d(at).answer = chain[m].answer
  BY ChainFacts, MovedFields
<1>2. /\ \E at \in {"leaving", "refused"} : Step(m, d(at))
      /\ chain[m].at = "fetching" /\ Kept /\ UNCHANGED <<completed, shown>>
      /\ errors' = errors \/ Error
  BY DEF Fetched
<1> HIDE DEF d
<1>3. errors' \in 0..MaxErrors
  BY <1>2, ChainFacts, ErrorCounted
<1> QED BY <1>1, <1>2, <1>3, ChainFacts, ChainInv DEF Steps

LEMMA RouteInv == ASSUME ClientInv, NEW m \in 1..mount, Route(m) PROVE ClientInv'
<1> DEFINE p == [at |-> "results", run |-> chain[m].run]
           ended == [chain[m] EXCEPT !.at = "ended"]
           chains == [chain EXCEPT ![m] = ended]
<1>1. p \in Pages
  BY ChainFacts DEF Pages
<1>2. /\ ended \in Chain /\ ended.run = chain[m].run /\ ended.answer = chain[m].answer
      /\ ended.at = "ended"
  BY ChainFacts, MovedFields DEF Steps
<1>3. chain \in [1..mount -> Chain]
  BY DEF ClientInv, TypeOK
<1> HIDE DEF ended
<1>4. /\ chains \in [1..mount -> Chain]
      /\ \A k \in 1..mount : /\ chains[k].run = chain[k].run
                             /\ chains[k].answer = chain[k].answer
                             /\ chains[k].at \in {chain[k].at, "ended"}
  BY <1>2, <1>3
<1>5. /\ Arrive(p, page.at = "results", chains)
      /\ UNCHANGED <<server, pending, drawn, known, errors>>
  BY DEF Route, ended
<1>6. (page.at = "results") \in BOOLEAN
  OBVIOUS
<1> HIDE DEF p, chains
<1> QED BY <1>1, <1>4, <1>5, <1>6, ArriveInv DEF ClientInv, TypeOK

-----------------------------------------------------------------------------
(* The user, the server and the submission.                                *)

\* A chain of a page that is left keeps its answer.
LEMMA SameChains ==
  ASSUME ClientInv
  PROVE  /\ chain \in [1..mount -> Chain]
         /\ \A m \in 1..mount : /\ chain[m].run = chain[m].run
                                /\ chain[m].answer = chain[m].answer
                                /\ chain[m].at \in {chain[m].at, "ended"}
BY DEF ClientInv, TypeOK

LEMMA RoamInv == ASSUME ClientInv, NEW p \in Pages, Roam(p) PROVE ClientInv'
<1>1. /\ Arrive(p, p.at = page.at, chain)
      /\ UNCHANGED <<server, pending, drawn, known, errors>>
  BY DEF Roam
<1>2. (p.at = page.at) \in BOOLEAN
  OBVIOUS
<1> QED BY <1>1, <1>2, SameChains, ArriveInv DEF ClientInv, TypeOK

LEMMA ReloadInv == ASSUME ClientInv, Reload PROVE ClientInv'
<1> DEFINE chains == [m \in 1..mount |-> [chain[m] EXCEPT !.at = "ended"]]
<1>1. \A m \in 1..mount : /\ chains[m] \in Chain
                          /\ chains[m].run = chain[m].run
                          /\ chains[m].answer = chain[m].answer
                          /\ chains[m].at = "ended"
  BY ChainFacts, MovedFields DEF Steps
<1>2. chains \in [1..mount -> Chain]
  BY <1>1
<1>3. /\ Arrive(page, FALSE, chains) /\ pending' = {}
      /\ UNCHANGED <<server, drawn, known, errors>>
  BY DEF Reload
<1> HIDE DEF chains
<1> QED BY <1>1, <1>2, <1>3, ArriveInv DEF ClientInv, TypeOK

LEMMA AcceptedInv == ASSUME ClientInv, NEW r \in Runs, Accepted(r) PROVE ClientInv'
<1> DEFINE p == [at |-> "run", run |-> r]
<1>1. p \in Pages
  BY DEF Pages
<1>2. /\ Arrive(p, page.at = "run", chain)
      /\ pending' = pending \ {r} /\ known' = known \cup {r}
      /\ UNCHANGED <<server, drawn, errors>>
  BY DEF Accepted
<1>3. (page.at = "run") \in BOOLEAN
  OBVIOUS
<1> HIDE DEF p
<1> QED BY <1>1, <1>2, <1>3, SameChains, ArriveInv DEF ClientInv, TypeOK

LEMMA RejectedInv == ASSUME ClientInv, NEW r \in Runs, Rejected(r) PROVE ClientInv'
<1>1. errors' \in 0..MaxErrors
  BY ErrorCounted DEF Rejected
<1> QED BY <1>1 DEF Rejected, ClientInv, TypeOK, Polls, ActiveIsOpen, OpenIsActive,
                    WaitingIsActive, AnswersHold, ShownIsAnswer, LoadingIsOpen,
                    polling, results

LEMMA ClickInv == ASSUME ClientInv, NEW r \in Runs, Click(r) PROVE ClientInv'
BY DEF Click, ClientInv, TypeOK, Polls, ActiveIsOpen, OpenIsActive, WaitingIsActive,
       AnswersHold, ShownIsAnswer, LoadingIsOpen, polling, results

\* COMPLETED is final on the server.
LEMMA ServerInv ==
  ASSUME ClientInv, NEW r \in Runs, ServerStep(r) \/ Create(r) PROVE ClientInv'
<1>1. /\ \E s \in States : server' = [server EXCEPT ![r] = s]
      /\ server[r] # "COMPLETED"
      /\ UNCHANGED <<page, submission, polling, results, errors>>
  BY DEF ServerStep, Create, States
<1>2. server' \in [Runs -> States]
  BY <1>1 DEF ClientInv, TypeOK
<1>3. TypeOK'
  BY <1>1, <1>2 DEF ClientInv, TypeOK, submission, polling, results
<1>4. \A k \in Runs : server[k] = "COMPLETED" => server'[k] = "COMPLETED"
  BY <1>1 DEF ClientInv, TypeOK
<1>5. \A m \in 1..mount : chain[m].run \in Runs
  BY ChainFacts
<1>6. AnswersHold'
  BY <1>1, <1>4, <1>5 DEF ClientInv, Polls, AnswersHold, polling
<1>7. ActiveIsOpen' /\ OpenIsActive' /\ WaitingIsActive' /\ ShownIsAnswer'
      /\ LoadingIsOpen'
  BY <1>1 DEF ClientInv, Polls, ActiveIsOpen, OpenIsActive, WaitingIsActive,
              ShownIsAnswer, LoadingIsOpen, polling, results
<1> QED BY <1>3, <1>6, <1>7 DEF ClientInv, Polls

LEMMA LoadInv == ASSUME ClientInv, Load PROVE ClientInv'
<1>1. errors' \in 0..MaxErrors
  BY ErrorCounted DEF Load, ClientInv, TypeOK
<1>2. page \in Pages /\ page.at = "results"
  BY DEF Load, ClientInv, TypeOK, Polls, LoadingIsOpen
<1>3. page.run \in Runs
  BY <1>2, PageKinds
<1>4. view' \in Views
  BY <1>3 DEF Load, Served, Views, ClientInv, TypeOK
<1>5. /\ UNCHANGED <<server, page, submission, polling>> /\ loading' = FALSE
  BY DEF Load
<1>6. TypeOK'
  BY <1>1, <1>4, <1>5 DEF ClientInv, TypeOK, submission, polling
<1>7. Polls'
  BY <1>5 DEF ClientInv, polling, Polls, ActiveIsOpen, OpenIsActive, WaitingIsActive,
              AnswersHold, ShownIsAnswer, LoadingIsOpen
<1> QED BY <1>6, <1>7 DEF ClientInv

-----------------------------------------------------------------------------
LEMMA InitClientInv == Init => ClientInv
<1> SUFFICES ASSUME Init PROVE ClientInv
  OBVIOUS
<1>1. Review \in Pages /\ Review.at = "review"
  BY DEF Pages, Review
<1>2. 1..mount = {} /\ mount \in 0..MaxMounts /\ errors \in 0..MaxErrors
  BY ClientAssumption DEF Init
<1>3. chain \in [1..mount -> Chain]
  BY <1>2 DEF Init
<1>4. TypeOK
  BY <1>1, <1>2, <1>3 DEF Init, TypeOK, States, Views
<1>5. Polls
  BY <1>1, <1>2 DEF Init, Polls, ActiveIsOpen, OpenIsActive, WaitingIsActive,
                    AnswersHold, ShownIsAnswer, LoadingIsOpen
<1> QED BY <1>4, <1>5 DEF ClientInv

LEMMA StepClientInv == ClientInv /\ [Next]_vars => ClientInv'
<1> SUFFICES ASSUME ClientInv, [Next]_vars PROVE ClientInv'
  OBVIOUS
<1>1. CASE UNCHANGED vars
  <2>1. TypeOK'
    BY <1>1 DEF vars, submission, polling, results, ClientInv, TypeOK
  <2>2. Polls'
    BY <1>1 DEF vars, polling, results, ClientInv, Polls, ActiveIsOpen, OpenIsActive,
                WaitingIsActive, AnswersHold, ShownIsAnswer, LoadingIsOpen
  <2> QED BY <2>1, <2>2 DEF ClientInv
<1>2. CASE User
  BY <1>2, RoamInv, ReloadInv, ClickInv DEF User
<1>3. ASSUME NEW m \in 1..mount, ChainStep(m) PROVE ClientInv'
  BY <1>3, AnswerInv, RefuseInv, ShowInv, CatchInv, PollInv, FetchedInv, RouteInv
     DEF ChainStep
<1> QED BY <1>1, <1>2, <1>3, LoadInv, ServerInv, AcceptedInv, RejectedInv DEF Next

LEMMA ClientInvariance == Spec => []ClientInv
BY InitClientInv, StepClientInv, PTL DEF Spec

-----------------------------------------------------------------------------
THEOREM TypeCorrect == Spec => []TypeOK
BY ClientInvariance, PTL DEF ClientInv

\* The run page never shows COMPLETED for a run that is not (RunPage.tsx:28-33).
THEOREM ShownIsTrue == Spec => []ShownIsOfThisRun
<1>1. ClientInv => ShownIsOfThisRun
  <2> SUFFICES ASSUME ClientInv, page.at = "run", chain[mount].answer # "absent",
                      chain[mount].at # "answered", shown = "COMPLETED"
               PROVE  server[page.run] = "COMPLETED"
    BY DEF ShownIsOfThisRun
  <2>1. mount \in 1..mount /\ chain[mount].run = page.run
    BY ClientAssumption DEF ClientInv, TypeOK, Polls, OpenIsActive
  <2>2. chain[mount].answer = "COMPLETED"
    BY DEF ClientInv, Polls, ShownIsAnswer
  <2> QED BY <2>1, <2>2 DEF ClientInv, Polls, AnswersHold
<1> QED BY <1>1, ClientInvariance, PTL

\* Only the open page goes on polling, however often pages are left and
\* reopened (RunPage.tsx:26-46).
THEOREM OnePagePolls == Spec => []OnePoller
<1>1. ClientInv => OnePoller
  BY DEF ClientInv, Polls, ActiveIsOpen, WaitingIsActive, OnePoller
<1> QED BY <1>1, ClientInvariance, PTL

\* The results of a run are only asked for, and opened, when there are any
\* (RunPage.tsx:33-37).
THEOREM RoutesLeadToResults == Spec => []RoutesToResult
<1>1. ClientInv => RoutesToResult
  BY DEF ClientInv, Polls, AnswersHold, RoutesToResult
<1> QED BY <1>1, ClientInvariance, PTL
=============================================================================
