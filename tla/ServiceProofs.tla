--------------------------- MODULE ServiceProofs ---------------------------
(***************************************************************************)
(* The services around the engines: the narrative that every client is     *)
(* given, the environment a warm process keeps between two requests, the   *)
(* trail that the outside-in layer leaves, what the copilot shows, and the *)
(* ways a workbook's inputs take to an engine.                             *)
(***************************************************************************)
EXTENDS Narratives, Execution, OutsideIn, CopilotService, Workbook, SumProofs

-----------------------------------------------------------------------------
(* Narratives: once written a narrative stays, and a request that loses    *)
(* the race answers with what it finds.                                    *)

LEMMA NarrativeInitInv == NarrativeInit => NarrativeInv
BY DEF NarrativeInit, NarrativeInv, NarrativeTypeOK, OneNarrative, DraftsHeld, NarrativePc

\* What a request that goes on to another point of its handler keeps.
LEMMA GoesOn ==
  ASSUME NarrativeInv, NEW c \in Creators, NEW at \in NarrativePc \ {"put", "reget"},
         NGoto(c, at)
  PROVE  /\ npc' \in [Creators -> NarrativePc]
         /\ \A k \in Creators : npc'[k] \in {"put", "reget"} => k # c /\ npc'[k] = npc[k]
BY DEF NGoto, NarrativeInv, NarrativeTypeOK, NarrativePc

\* A request that answers with the stored narrative, or with none.
LEMMA RespondInv ==
  ASSUME NarrativeInv, NEW c \in Creators, NEW texts, NRespond(c, texts),
         stored' \in Texts \cup {NoText}, stored # NoText => stored' = stored,
         texts \subseteq {stored'} \ {NoText}, posts' \in Nat, losses' \in Nat
  PROVE  NarrativeInv'
<1>1. /\ npc' \in [Creators -> NarrativePc]
      /\ \A k \in Creators : npc'[k] \in {"put", "reget"} => k # c /\ npc'[k] = npc[k]
  BY GoesOn DEF NRespond, NarrativePc
<1>2. /\ drafted' \in [Creators -> Texts \cup {NoText}]
      /\ \A k \in Creators : k # c => drafted'[k] = drafted[k]
  BY DEF NRespond, NarrativeInv, NarrativeTypeOK
<1>3. answered' \subseteq Texts /\ answered' \subseteq {stored'}
  <2>1. answered \subseteq {stored} \ {NoText}
    BY NarrativeTexts DEF NarrativeInv, NarrativeTypeOK, OneNarrative
  <2>2. answered' \subseteq {stored'} \ {NoText}
    BY <2>1 DEF NRespond
  <2> QED BY <2>2
<1>4. NarrativeTypeOK'
  BY <1>1, <1>2, <1>3 DEF NarrativeTypeOK
<1>5. DraftsHeld'
  BY <1>1, <1>2, NarrativeTexts DEF DraftsHeld, NarrativeInv
<1> QED BY <1>3, <1>4, <1>5 DEF NarrativeInv, OneNarrative

-----------------------------------------------------------------------------
LEMMA PostInv ==
  ASSUME NarrativeInv, NEW c \in Creators, PostNarrative(c) PROVE NarrativeInv'
<1>1. /\ npc' \in [Creators -> NarrativePc]
      /\ \A k \in Creators : npc'[k] \in {"put", "reget"} => k # c /\ npc'[k] = npc[k]
  BY GoesOn DEF PostNarrative, NarrativePc
<1>2. posts' \in Nat
  BY DEF PostNarrative, NarrativeInv, NarrativeTypeOK
<1> QED BY <1>1, <1>2
    DEF PostNarrative, NarrativeInv, NarrativeTypeOK, OneNarrative, DraftsHeld

LEMMA GetExistingInv ==
  ASSUME NarrativeInv, NEW c \in Creators, GetExisting(c) PROVE NarrativeInv'
<1>1. CASE stored # NoText /\ NRespond(c, {stored})
  BY <1>1, RespondInv DEF GetExisting, NarrativeInv, NarrativeTypeOK
<1>2. CASE stored = NoText /\ NGoto(c, "query") /\ UNCHANGED <<drafted, answered>>
  <2>1. /\ npc' \in [Creators -> NarrativePc]
        /\ \A k \in Creators : npc'[k] \in {"put", "reget"} => k # c /\ npc'[k] = npc[k]
    BY <1>2, GoesOn DEF NarrativePc
  <2> QED BY <1>2, <2>1
      DEF GetExisting, NarrativeInv, NarrativeTypeOK, OneNarrative, DraftsHeld
<1> QED BY <1>1, <1>2 DEF GetExisting

LEMMA QueryInv ==
  ASSUME NarrativeInv, NEW c \in Creators, QueryCopilot(c) PROVE NarrativeInv'
<1>1. CASE NRespond(c, {})
  BY <1>1, RespondInv DEF QueryCopilot, NarrativeInv, NarrativeTypeOK
<1>2. ASSUME NEW t \in Texts, NGoto(c, "put"), drafted' = [drafted EXCEPT ![c] = t],
             UNCHANGED answered
      PROVE  NarrativeInv'
  <2>1. npc' \in [Creators -> NarrativePc] /\ drafted' \in [Creators -> Texts \cup {NoText}]
    BY <1>2 DEF NGoto, NarrativeInv, NarrativeTypeOK, NarrativePc
  <2>2. DraftsHeld'
    BY <1>2 DEF NGoto, DraftsHeld, NarrativeInv, NarrativeTypeOK, QueryCopilot
  <2> QED BY <1>2, <2>1, <2>2
      DEF QueryCopilot, NarrativeInv, NarrativeTypeOK, OneNarrative
<1> QED BY <1>1, <1>2 DEF QueryCopilot

LEMMA PutInv ==
  ASSUME NarrativeInv, NEW c \in Creators, PutNarrative(c) PROVE NarrativeInv'
<1>1. drafted[c] \in Texts
  BY DEF PutNarrative, NarrativeInv, DraftsHeld
<1>2. CASE stored = NoText /\ stored' = drafted[c] /\ NRespond(c, {drafted[c]})
  BY <1>1, <1>2, RespondInv, NarrativeTexts DEF PutNarrative, NarrativeInv, NarrativeTypeOK
<1>3. CASE stored # NoText /\ NGoto(c, "reget") /\ UNCHANGED <<stored, drafted, answered>>
  <2>1. npc' \in [Creators -> NarrativePc]
    BY <1>3 DEF NGoto, NarrativeInv, NarrativeTypeOK, NarrativePc
  <2>2. DraftsHeld'
    BY <1>3 DEF NGoto, DraftsHeld, NarrativeInv, NarrativeTypeOK
  <2> QED BY <1>3, <2>1, <2>2
      DEF PutNarrative, NarrativeInv, NarrativeTypeOK, OneNarrative
<1> QED BY <1>2, <1>3 DEF PutNarrative

LEMMA ReadWinnerInv ==
  ASSUME NarrativeInv, NEW c \in Creators, ReadWinner(c) PROVE NarrativeInv'
<1>1. stored # NoText
  BY DEF ReadWinner, NarrativeInv, DraftsHeld
<1> QED BY <1>1, RespondInv DEF ReadWinner, NarrativeInv, NarrativeTypeOK

LEMMA GetNarrativeInv == ASSUME NarrativeInv, GetNarrative PROVE NarrativeInv'
BY DEF GetNarrative, NarrativeInv, NarrativeTypeOK, OneNarrative, DraftsHeld

LEMMA LoseInv ==
  ASSUME NarrativeInv, NEW c \in Creators, LoseRequest(c) PROVE NarrativeInv'
<1>1. losses' \in Nat /\ posts' \in Nat
  BY DEF LoseRequest, NarrativeInv, NarrativeTypeOK
<1>2. stored' \in Texts \cup {NoText} /\ (stored # NoText => stored' = stored)
  BY DEF LoseRequest, NarrativeInv, NarrativeTypeOK
<1> QED BY <1>1, <1>2, RespondInv DEF LoseRequest

LEMMA NarrativeStep == NarrativeInv /\ [NarrativeNext]_narrativeVars => NarrativeInv'
<1> SUFFICES ASSUME NarrativeInv, [NarrativeNext]_narrativeVars PROVE NarrativeInv'
  OBVIOUS
<1>1. CASE GetNarrative
  BY <1>1, GetNarrativeInv
<1>2. ASSUME NEW c \in Creators, CreatorStep(c) PROVE NarrativeInv'
  BY <1>2, PostInv, GetExistingInv, QueryInv, PutInv, ReadWinnerInv, LoseInv
     DEF CreatorStep
<1>3. CASE UNCHANGED narrativeVars
  BY <1>3 DEF narrativeVars, NarrativeInv, NarrativeTypeOK, OneNarrative, DraftsHeld
<1> QED BY <1>1, <1>2, <1>3 DEF NarrativeNext

\* Requests hold verified drafts where they write and a winner where they read
\* one: with it the invariant is inductive.
THEOREM NarrativeSafe == NarrativeSpec => []NarrativeInv
BY NarrativeInitInv, NarrativeStep, PTL DEF NarrativeSpec

\* For any number of requests, retries, stopped invocations and lost answers,
\* everyone is given the stored narrative (api_lambda.py:281-322).
THEOREM EveryoneReadsOne == NarrativeSpec => []OneNarrative
<1>1. NarrativeInv => OneNarrative
  BY DEF NarrativeInv
<1> QED BY <1>1, NarrativeSafe, PTL

\* A stored narrative is never replaced, whatever races
\* (api_lambda.py:313-320, storage.py:69-80).
THEOREM NarrativeNeverReplaced == NarrativeSpec => NarrativeStays
<1>1. [NarrativeNext]_narrativeVars => [stored # NoText => stored' = stored]_narrativeVars
  <2> SUFFICES ASSUME NarrativeNext PROVE stored # NoText => stored' = stored
    OBVIOUS
  <2>1. CASE GetNarrative
    BY <2>1 DEF GetNarrative
  <2>2. ASSUME NEW c \in Creators, CreatorStep(c) PROVE stored # NoText => stored' = stored
    BY <2>2 DEF CreatorStep, PostNarrative, GetExisting, QueryCopilot, PutNarrative,
               ReadWinner, LoseRequest
  <2> QED BY <2>1, <2>2 DEF NarrativeNext
<1> QED BY <1>1, PTL DEF NarrativeSpec, NarrativeStays

-----------------------------------------------------------------------------
(* The synchronous boundary: whatever requests a warm process serves, in   *)
(* whatever order they fail, its environment is back between two of them,  *)
(* and a result is only answered for an approved bundle.                   *)

ExecInv == FlagsKept /\ ChecksPassed /\ EngineGoverned /\ AnswerIsGoverned

\* None is neither an error code nor an exception.
LEMMA NoneIsNoCode ==
  /\ None # "INVALID_REQUEST" /\ None # "MODEL_BUNDLE_NOT_FOUND"
  /\ None # "MODEL_BUNDLE_INCOMPATIBLE" /\ None # "VALIDATION_FAILED"
  /\ None # "value" /\ None # "other"
BY ExecutionAssumption DEF ErrorStatus, Faults

-----------------------------------------------------------------------------
(* The registry.                                                           *)

\* A non-empty set of indices has a first one.
LEMMA FirstIndex ==
  ASSUME NEW T, T \subseteq Nat, T # {}
  PROVE  \E i \in T : \A j \in T : ~ (j < i)
<1>1. IsWellFoundedOn(OpToRel(<, Nat), Nat)
  BY NatLessThanWellFounded
<1>2. PICK i \in T : \A j \in T : ~ (<<j, i>> \in OpToRel(<, Nat))
  BY <1>1, WFMin
<1>3. \A j \in T : <<j, i>> \in OpToRel(<, Nat) <=> j < i
  BY DEF OpToRel
<1> QED BY <1>2, <1>3

\* The row of an id that the registry has is a row of the registry, of that id.
LEMMA RowIsListed ==
  ASSUME NEW id, \E i \in DOMAIN Registry : Registry[i].id = id
  PROVE  \E i \in DOMAIN Registry : RowOf(id) = Registry[i] /\ Registry[i].id = id
<1> DEFINE T == {i \in DOMAIN Registry : Registry[i].id = id}
           Is(i) == Registry[i].id = id /\ \A j \in 1..(i - 1) : Registry[j].id # id
<1>1. DOMAIN Registry \subseteq Nat /\ \A i \in DOMAIN Registry : 1..i \subseteq DOMAIN Registry
  BY ExecutionAssumption
<1>2. PICK i \in T : \A j \in T : ~ (j < i)
  BY <1>1, FirstIndex
<1>3. \A j \in 1..(i - 1) : j \in DOMAIN Registry /\ j < i
  BY <1>1, <1>2
<1>4. i \in DOMAIN Registry /\ Is(i)
  BY <1>2, <1>3
<1>5. LET k == CHOOSE k \in DOMAIN Registry : Is(k) IN k \in DOMAIN Registry /\ Is(k)
  BY <1>4
<1> QED BY <1>5 DEF RowOf

\* What a resolved bundle says of the row it was resolved from.
LEMMA Resolved ==
  ASSUME NEW r, ResolveCode(r) = None
  PROVE  \E i \in DOMAIN Registry :
           LET row == Registry[i] IN
             /\ row = RowOf(r.id)
             /\ row.status = "APPROVED"
             /\ <<row.id, row.version>> = <<r.id, r.version>>
             /\ <<row.domain, row.sector>> = <<r.domain, r.sector>>
             /\ row.hash = PackOf(deployment.package, r.sector).hash
<1>1. \E i \in DOMAIN Registry : Registry[i].id = r.id
  BY NoneIsNoCode DEF ResolveCode
<1>2. PICK i \in DOMAIN Registry : RowOf(r.id) = Registry[i] /\ Registry[i].id = r.id
  BY <1>1, RowIsListed
<1> DEFINE row == RowOf(r.id)
           pack == PackOf(deployment.package, r.sector)
<1>3. row.status = "APPROVED" /\ row.version = r.version
  BY <1>1, NoneIsNoCode, Zenon DEF ResolveCode
<1>4. <<row.domain, row.sector>> = <<r.domain, r.sector>> /\ pack.hash = row.hash
  BY <1>1, <1>3, NoneIsNoCode, Zenon DEF ResolveCode
<1> QED BY <1>2, <1>3, <1>4

-----------------------------------------------------------------------------
(* Answers.                                                                *)

\* An error is answered with its code and no result.
LEMMA FailureIsGoverned ==
  ASSUME NEW code \in DOMAIN ErrorStatus
  PROVE  /\ Failure(code).status # 200 /\ Failure(code).code # None
         /\ Failure(code).result = None
BY ExecutionAssumption DEF Failure, ErrorStatus

LEMMA RefusalIsGoverned ==
  ASSUME NEW status \in {400, 404, 405, 413, 415}
  PROVE  /\ Refusal(status).status # 200 /\ Refusal(status).code # None
         /\ Refusal(status).result = None
BY NoneIsNoCode DEF Refusal

LEMMA ErrorCodes ==
  /\ \A r : RequestCode(r) \in DOMAIN ErrorStatus \cup {None}
  /\ \A r : ResolveCode(r) \in DOMAIN ErrorStatus \cup {None}
<1>1. ASSUME NEW r PROVE RequestCode(r) \in DOMAIN ErrorStatus \cup {None}
  BY DEF RequestCode, ErrorStatus
<1>2. ASSUME NEW r PROVE ResolveCode(r) \in DOMAIN ErrorStatus \cup {None}
  BY DEF ResolveCode, ErrorStatus
<1> QED BY <1>1, <1>2

\* An answer that is an error leaves AnswerIsGoverned true.
LEMMA ErrorAnswered ==
  ASSUME answer'.status # 200, answer'.code # None, answer'.result = None
  PROVE  AnswerIsGoverned'
BY DEF AnswerIsGoverned

-----------------------------------------------------------------------------
(* The invariant.                                                          *)

LEMMA InitExecInv == ExecInit => ExecInv
BY DEF ExecInit, ExecInv, FlagsKept, ChecksPassed, EngineGoverned, AnswerIsGoverned

LEMMA TakeInv ==
  ASSUME ExecInv, NEW r \in Requests, Take(r) PROVE ExecInv'
<1>1. CASE Boundary(r) = None
  BY <1>1 DEF Take, ExecInv, FlagsKept, ChecksPassed, EngineGoverned, AnswerIsGoverned
<1>2. CASE Boundary(r) # None
  <2>1. pc' = "idle" /\ request' = r /\ answer' = Boundary(r)
    BY <1>2 DEF Take
  <2>2. r.path = "run" => \E s \in {400, 404, 405, 413, 415} : Boundary(r) = Refusal(s)
    BY <1>2 DEF Boundary
  <2>3. AnswerIsGoverned'
    BY <2>1, <2>2, RefusalIsGoverned DEF AnswerIsGoverned
  <2> QED BY <1>2, <2>1, <2>3 DEF Take, ExecInv, FlagsKept, ChecksPassed, EngineGoverned
<1> QED BY <1>1, <1>2

LEMMA CheckInv == ASSUME ExecInv, Check PROVE ExecInv'
<1>1. CASE RequestCode(request) = None
  BY <1>1 DEF Check, ExecInv, FlagsKept, ChecksPassed, EngineGoverned, AnswerIsGoverned
<1>2. CASE RequestCode(request) # None
  <2>1. RequestCode(request) \in DOMAIN ErrorStatus
    BY <1>2, ErrorCodes
  <2>2. AnswerIsGoverned'
    BY <1>2, <2>1, FailureIsGoverned, ErrorAnswered DEF Check, Respond
  <2> QED BY <1>2, <2>2
      DEF Check, Respond, ExecInv, FlagsKept, ChecksPassed, EngineGoverned
<1> QED BY <1>1, <1>2

LEMMA ResolveInv == ASSUME ExecInv, Resolve PROVE ExecInv'
<1>1. CASE ResolveCode(request) = None
  <2>1. ResolveCode(request)' = ResolveCode(request)
    BY DEF Resolve, ResolveCode, PackOf, RowOf
  <2>2. ChecksPassed'
    BY <1>1, <2>1 DEF Resolve, ChecksPassed
  <2> QED BY <1>1, <2>2
      DEF Resolve, ExecInv, FlagsKept, EngineGoverned, AnswerIsGoverned
<1>2. CASE ResolveCode(request) # None
  <2>1. ResolveCode(request) \in DOMAIN ErrorStatus
    BY <1>2, ErrorCodes
  <2>2. AnswerIsGoverned'
    BY <1>2, <2>1, FailureIsGoverned, ErrorAnswered DEF Resolve, Respond
  <2> QED BY <1>2, <2>2
      DEF Resolve, Respond, ExecInv, FlagsKept, ChecksPassed, EngineGoverned
<1> QED BY <1>1, <1>2

\* A step that keeps the request, the files and the bundle keeps what the
\* checks said of them.
LEMMA PassedKept ==
  ASSUME ChecksPassed, UNCHANGED <<request, deployment, bundle>>,
         pc \in {"materialize", "enter", "engine", "leave", "normalize"}
  PROVE  ChecksPassed'
BY DEF ChecksPassed, ResolveCode, PackOf, RowOf, Bundle

LEMMA WriteInputsInv == ASSUME ExecInv, WriteInputs PROVE ExecInv'
<1>1. ChecksPassed'
  BY PassedKept DEF ExecInv, WriteInputs
<1>2. CASE pc' = "enter" /\ UNCHANGED <<answer, served>>
  BY <1>1, <1>2 DEF WriteInputs, ExecInv, FlagsKept, EngineGoverned, AnswerIsGoverned
<1>3. CASE \E code \in {"VALIDATION_FAILED", "EXECUTION_FAILED"} : Respond(Failure(code))
  <2>1. PICK code \in DOMAIN ErrorStatus : Respond(Failure(code))
    BY <1>3 DEF ErrorStatus
  <2>2. AnswerIsGoverned'
    BY <2>1, FailureIsGoverned, ErrorAnswered DEF Respond
  <2> QED BY <1>1, <2>1, <2>2
      DEF WriteInputs, Respond, ExecInv, FlagsKept, EngineGoverned
<1> QED BY <1>2, <1>3 DEF WriteInputs

LEMMA EnterFlagsInv == ASSUME ExecInv, EnterFlags PROVE ExecInv'
<1>1. ChecksPassed'
  BY PassedKept DEF ExecInv, EnterFlags
<1> QED BY <1>1
    DEF EnterFlags, ExecInv, FlagsKept, EngineGoverned, AnswerIsGoverned, RunFlags

LEMMA CallEngineInv == ASSUME ExecInv, CallEngine PROVE ExecInv'
<1>1. ChecksPassed'
  BY PassedKept DEF ExecInv, CallEngine
<1>2. Analyses = {}
  <2>1. env = RunFlags
    BY DEF CallEngine, ExecInv, EngineGoverned
  <2>2. env["packages"] # "1" /\ env["sensitivity"] = Unset
    BY <2>1, ExecutionAssumption DEF RunFlags
  <2> QED BY <2>2 DEF Analyses
<1>3. EngineGoverned'
  <2>1. pc' = "leave" /\ UNCHANGED <<request, deployment>>
    BY DEF CallEngine
  <2>2. fault' # None \/ ( /\ native'.analyses = {}
                          /\ native'.hash = PackOf(deployment.cwd, request.sector).hash)
    <3>1. CASE fault' \in Faults
      BY <3>1, NoneIsNoCode DEF Faults
    <3>2. CASE \E finite, complete \in BOOLEAN :
                 native' = [hash |-> PackOf(deployment.cwd, request.sector).hash,
                            analyses |-> Analyses, finite |-> finite,
                            complete |-> complete]
      BY <1>2, <3>2
    <3> QED BY <3>1, <3>2 DEF CallEngine
  <2> QED BY <2>1, <2>2 DEF EngineGoverned, PackOf
<1> QED BY <1>1, <1>3 DEF CallEngine, ExecInv, FlagsKept, AnswerIsGoverned

LEMMA LeaveFlagsInv == ASSUME ExecInv, LeaveFlags PROVE ExecInv'
<1>1. ChecksPassed'
  BY PassedKept DEF ExecInv, LeaveFlags
<1>2. env' = operator'
  BY DEF LeaveFlags, ExecInv, FlagsKept
<1>3. CASE fault = None
  <2>1. pc' = "normalize" /\ UNCHANGED <<request, deployment, native, answer, fault>>
    BY <1>3, ExecutionAssumption DEF LeaveFlags, Faults
  <2>2. EngineGoverned'
    BY <1>3, <2>1 DEF LeaveFlags, ExecInv, EngineGoverned, PackOf
  <2> QED BY <1>1, <1>2, <2>1, <2>2 DEF ExecInv, FlagsKept, AnswerIsGoverned
<1>4. CASE fault # None
  <2>1. \E code \in DOMAIN ErrorStatus : Respond(Failure(code))
    BY <1>4 DEF LeaveFlags, ErrorStatus
  <2>2. AnswerIsGoverned'
    BY <2>1, FailureIsGoverned, ErrorAnswered DEF Respond
  <2> QED BY <1>1, <1>2, <2>1, <2>2 DEF Respond, ExecInv, FlagsKept, EngineGoverned
<1> QED BY <1>3, <1>4

LEMMA FinishInv == ASSUME ExecInv, Finish PROVE ExecInv'
<1>1. ChecksPassed' /\ FlagsKept' /\ EngineGoverned'
  BY DEF Finish, Respond, ExecInv, FlagsKept, ChecksPassed, EngineGoverned
<1>2. AnswerIsGoverned'
  <2>1. CASE ~native.complete \/ ~native.finite
    <3>1. \E code \in DOMAIN ErrorStatus : answer' = Failure(code)
      BY <2>1 DEF Finish, Respond, ErrorStatus
    <3> QED BY <3>1, FailureIsGoverned, ErrorAnswered
  <2>2. CASE native.complete /\ native.finite
    <3>1. /\ answer'.status = 200 /\ answer'.code = None
          /\ answer'.result = [bundle |-> bundle, read |-> native.hash,
                               analyses |-> native.analyses, finite |-> native.finite]
      BY <2>2 DEF Finish, Respond, Delivered
    <3>2. PICK i \in DOMAIN Registry :
            LET row == Registry[i] IN
              /\ row = RowOf(request.id)
              /\ row.status = "APPROVED"
              /\ <<row.id, row.version>> = <<request.id, request.version>>
              /\ <<row.domain, row.sector>> = <<request.domain, request.sector>>
              /\ row.hash = PackOf(deployment.package, request.sector).hash
      BY Resolved DEF Finish, ExecInv, ChecksPassed
    <3>3. bundle.hash = Registry[i].hash
      BY <3>2 DEF Finish, ExecInv, ChecksPassed, Bundle
    <3>4. /\ native.analyses = {}
          /\ deployment.cwd = deployment.package => native.hash = Registry[i].hash
      BY <3>2 DEF Finish, ExecInv, EngineGoverned, PackOf
    <3>5. UNCHANGED <<request, deployment>>
      BY DEF Finish
    <3> QED BY <2>2, <3>1, <3>2, <3>3, <3>4, <3>5 DEF AnswerIsGoverned
  <2> QED BY <2>1, <2>2
<1> QED BY <1>1, <1>2 DEF ExecInv

LEMMA StepExecInv == ExecInv /\ [ExecNext]_execVars => ExecInv'
<1> SUFFICES ASSUME ExecInv, [ExecNext]_execVars PROVE ExecInv'
  OBVIOUS
<1>1. CASE UNCHANGED execVars
  <2>1. ChecksPassed'
    BY <1>1 DEF execVars, ExecInv, ChecksPassed, ResolveCode, PackOf, RowOf, Bundle
  <2>2. EngineGoverned' /\ FlagsKept'
    BY <1>1 DEF execVars, ExecInv, EngineGoverned, FlagsKept, PackOf, RunFlags
  <2>3. AnswerIsGoverned'
    BY <1>1 DEF execVars, ExecInv, AnswerIsGoverned
  <2> QED BY <2>1, <2>2, <2>3 DEF ExecInv
<1>2. CASE ExecNext
  BY <1>2, TakeInv, CheckInv, ResolveInv, WriteInputsInv, EnterFlagsInv,
     CallEngineInv, LeaveFlagsInv, FinishInv DEF ExecNext
<1> QED BY <1>1, <1>2

LEMMA ExecInvariance == ExecSpec => []ExecInv
BY InitExecInv, StepExecInv, PTL DEF ExecSpec

-----------------------------------------------------------------------------
\* For every list of bundles, every deployment and every sequence of requests:
\* a result is only answered for an approved bundle whose pack is unedited, it
\* holds no optional analysis, and every other answer is an error
\* (service.py:171-209, bundle_resolver.py:14-53).
THEOREM AnswersAreGoverned == ExecSpec => []AnswerIsGoverned
BY ExecInvariance, PTL DEF ExecInv

\* However a run ends, the operator's environment is back before the next
\* request (facade.py:84-100).
THEOREM EnvironmentIsRestored == ExecSpec => []EnvironmentRestored
<1>1. ExecInv => EnvironmentRestored
  BY DEF ExecInv, FlagsKept, EnvironmentRestored
<1> QED BY <1>1, ExecInvariance, PTL

-----------------------------------------------------------------------------
(* The outside-in layer.                                                   *)

\* The findings a file keeps are rows of it that are approved.
KeptSteps(file) == [i \in 1..Len(file) |->
                      [q \in Seq({f \in ToSet(file) : f.approved}) |-> Kept(q, file[i])]]

LEMMA KeptAreApproved ==
  ASSUME NEW F, NEW file \in Seq(F)
  PROVE  FoldLeft(Kept, << >>, file) \in Seq({f \in ToSet(file) : f.approved})
<1> DEFINE n == Len(file)
           V == Seq({f \in ToSet(file) : f.approved})
           step == KeptSteps(file)
           Is(h) == h = [T \in SUBSET (1..n) |->
                           IF T = {} THEN << >> ELSE Kept(h[T \ {Max(T)}], file[Max(T)])]
           h == CHOOSE h : Is(h)
<1>1. n \in Nat /\ DOMAIN file = 1..n /\ \A i \in 1..n : file[i] \in ToSet(file)
  BY DEF ToSet
<1>2. << >> \in V
  OBVIOUS
<1>3. \A i \in 1..n, q \in V : step[i][q] = Kept(q, file[i]) /\ Kept(q, file[i]) \in V
  <2> TAKE i \in 1..n, q \in V
  <2> DEFINE A == {f \in ToSet(file) : f.approved}
  <2>1. file[i].approved => file[i] \in A
    BY <1>1
  <2> HIDE DEF A
  <2>2. file[i] \in A => Append(q, file[i]) \in Seq(A)
    BY DEF A
  <2>3. Kept(q, file[i]) \in V
    BY <2>1, <2>2 DEF Kept, A
  <2> QED BY <2>3 DEF KeptSteps
<1>4. step \in [1..n -> [V -> V]]
  <2>1. step = [i \in 1..n |-> [q \in V |-> Kept(q, file[i])]]
    BY DEF KeptSteps
  <2>2. \A i \in 1..n, q \in V : Kept(q, file[i]) \in V
    BY <1>3
  <2> HIDE DEF V, step
  <2> QED BY <2>1, <2>2
<1> HIDE DEF V, step
<1>5. \E f : Is(f)
  <2>1. PICK f \in [SUBSET (1..n) -> V] : Folds(f, << >>, n, step)
    <3>1. n \in Nat
      BY <1>1
    <3> HIDE DEF n
    <3> QED BY <3>1, <1>2, <1>4, FoldExists
  <2>2. ASSUME NEW T \in SUBSET (1..n)
        PROVE  f[T] = IF T = {} THEN << >> ELSE Kept(f[T \ {Max(T)}], file[Max(T)])
    <3>1. f[T] = IF T = {} THEN << >> ELSE step[Max(T)][f[T \ {Max(T)}]]
      BY <2>1 DEF Folds
    <3>2. T # {} => Max(T) \in 1..n /\ f[T \ {Max(T)}] \in V
      BY <1>1, GreatestIndex
    <3> QED BY <3>1, <3>2, <1>3
  <2>3. f = [T \in SUBSET (1..n) |-> f[T]]
    OBVIOUS
  <2> HIDE DEF n
  <2> QED BY <2>2, <2>3
<1>6. Is(h)
  <2> HIDE DEF Is
  <2> QED BY <1>5
<1>7. FoldLeft(Kept, << >>, file) = h[1..n]
  BY <1>1 DEF FoldLeft, MapThenFoldSet
<1>8. h[{}] = << >>
  <2>1. {} \in SUBSET (1..n)
    OBVIOUS
  <2> QED BY <1>6, <2>1
<1> HIDE DEF h
<1>9. \A T \in SUBSET (1..n) : T # {} /\ h[T \ {Max(T)}] \in V =>
        h[T] = step[Max(T)][h[T \ {Max(T)}]]
  <2> SUFFICES ASSUME NEW T \in SUBSET (1..n), T # {}, h[T \ {Max(T)}] \in V
               PROVE  h[T] = step[Max(T)][h[T \ {Max(T)}]]
    OBVIOUS
  <2>1. h[T] = Kept(h[T \ {Max(T)}], file[Max(T)])
    BY <1>6
  <2>2. Max(T) \in 1..n
    BY <1>1, GreatestIndex
  <2> QED BY <1>3, <2>1, <2>2
<1>10. n \in Nat
  BY <1>1
<1>11. FoldsIn(h, V, << >>, n, step)
  BY <1>8, <1>9 DEF FoldsIn
<1> HIDE DEF Is
<1>12. PICK p : Iterates(p, << >>, n, step) /\ p \in [0..n -> V]
  <2> HIDE DEF n
  <2> QED BY <1>2, <1>4, <1>10, Recursion
<1>13. h[1..n] = p[n]
  <2> HIDE DEF n
  <2> QED BY <1>2, <1>4, <1>10, <1>11, <1>12, FoldValue
<1> QED BY <1>7, <1>10, <1>12, <1>13 DEF V

\* Workbooks a trail can lead to.
TrailBooks(R) ==
  LET M == Models[domain]
      W == STRING \cup {r.of.value : r \in R}
  IN UNION {[D -> W] : D \in SUBSET (DOMAIN M \cup {Cell(r.of) : r \in R})}

LEMMA AppliedType ==
  ASSUME NEW R, NEW r \in R, NEW ps \in TrailBooks(R)
  PROVE  Applied(ps, r) \in TrailBooks(R)
<1> DEFINE P == DOMAIN Models[domain] \cup {Cell(x.of) : x \in R}
           W == STRING \cup {x.of.value : x \in R}
<1>1. PICK D \in SUBSET P : ps \in [D -> W]
  BY DEF TrailBooks
<1>2. Cell(r.of) \in P /\ r.of.value \in W
  OBVIOUS
<1> DEFINE p == Cell(r.of)
           v == r.of.value
           E == D \cup {p}
           new == [q \in E |-> IF q = p THEN v ELSE ps[q]]
<1> HIDE DEF P, W, p, v
<1>3. E \in SUBSET P
  BY <1>1, <1>2 DEF p
<1>4. new \in [E -> W]
  BY <1>1, <1>2 DEF v
<1>5. DOMAIN ps = D
  BY <1>1
<1>6. Changed(p, v, ps) = new
  BY <1>5 DEF Changed
<1>7. Applied(ps, r) = IF r.status = "approved" THEN new ELSE ps
  BY <1>6 DEF Applied, p, v
<1>8. \A S \in SUBSET P : \A f \in [S -> W] : f \in TrailBooks(R)
  BY DEF TrailBooks, P, W
<1> HIDE DEF new, E
<1> QED BY <1>1, <1>3, <1>4, <1>7, <1>8

AppliedSteps(R, t) == [i \in 1..Len(t) |-> [ps \in TrailBooks(R) |-> Applied(ps, t[i])]]

LEMMA ReplayFold ==
  ASSUME domain \in DOMAIN Models, NEW R, NEW t \in Seq(R)
  PROVE  \E p \in [0..Len(t) -> TrailBooks(R)] :
           /\ p[0] = Models[domain]
           /\ \A i \in 1..Len(t) : p[i] = Applied(p[i - 1], t[i])
           /\ Replay(t) = p[Len(t)]
<1> DEFINE n == Len(t)
           M == Models[domain]
           V == TrailBooks(R)
           step == AppliedSteps(R, t)
           Is(h) == h = [T \in SUBSET (1..n) |->
                           IF T = {} THEN M ELSE Applied(h[T \ {Max(T)}], t[Max(T)])]
           h == CHOOSE h : Is(h)
<1>1. n \in Nat /\ DOMAIN t = 1..n /\ \A i \in 1..n : t[i] \in R
  OBVIOUS
<1>2. M \in V
  <2>1. M \in [DOMAIN M -> STRING]
    BY OiInputs
  <2>2. M \in [DOMAIN M -> STRING \cup {r.of.value : r \in R}]
    BY <2>1
  <2> HIDE DEF M
  <2> QED BY <2>2 DEF TrailBooks, M
<1> HIDE DEF V, M
<1>3. \A i \in 1..n, ps \in V : step[i][ps] = Applied(ps, t[i]) /\ Applied(ps, t[i]) \in V
  BY <1>1, AppliedType DEF AppliedSteps, V
<1>4. step \in [1..n -> [V -> V]]
  <2>1. step = [i \in 1..n |-> [ps \in V |-> Applied(ps, t[i])]]
    BY DEF AppliedSteps, V
  <2>2. \A i \in 1..n, ps \in V : Applied(ps, t[i]) \in V
    BY <1>3
  <2> HIDE DEF step
  <2> QED BY <2>1, <2>2
<1> HIDE DEF step
<1>5. \E f : Is(f)
  <2>1. PICK f \in [SUBSET (1..n) -> V] : Folds(f, M, n, step)
    <3>1. n \in Nat
      BY <1>1
    <3> HIDE DEF n
    <3> QED BY <3>1, <1>2, <1>4, FoldExists
  <2>2. ASSUME NEW T \in SUBSET (1..n)
        PROVE  f[T] = IF T = {} THEN M ELSE Applied(f[T \ {Max(T)}], t[Max(T)])
    <3>1. f[T] = IF T = {} THEN M ELSE step[Max(T)][f[T \ {Max(T)}]]
      BY <2>1 DEF Folds
    <3>2. T # {} => Max(T) \in 1..n /\ f[T \ {Max(T)}] \in V
      BY <1>1, GreatestIndex
    <3> QED BY <3>1, <3>2, <1>3
  <2>3. f = [T \in SUBSET (1..n) |-> f[T]]
    OBVIOUS
  <2> HIDE DEF n
  <2> QED BY <2>2, <2>3
<1>6. Is(h)
  <2> HIDE DEF Is
  <2> QED BY <1>5
<1>7. Replay(t) = h[1..n]
  BY <1>1 DEF Replay, FoldLeft, MapThenFoldSet, M
<1>8. h[{}] = M
  <2>1. {} \in SUBSET (1..n)
    OBVIOUS
  <2> QED BY <1>6, <2>1
<1> HIDE DEF h
<1>9. \A T \in SUBSET (1..n) : T # {} /\ h[T \ {Max(T)}] \in V =>
        h[T] = step[Max(T)][h[T \ {Max(T)}]]
  <2> SUFFICES ASSUME NEW T \in SUBSET (1..n), T # {}, h[T \ {Max(T)}] \in V
               PROVE  h[T] = step[Max(T)][h[T \ {Max(T)}]]
    OBVIOUS
  <2>1. h[T] = Applied(h[T \ {Max(T)}], t[Max(T)])
    BY <1>6
  <2>2. Max(T) \in 1..n
    BY <1>1, GreatestIndex
  <2> QED BY <1>3, <2>1, <2>2
<1>10. n \in Nat
  BY <1>1
<1>11. FoldsIn(h, V, M, n, step)
  BY <1>8, <1>9 DEF FoldsIn
<1> HIDE DEF Is
<1>12. PICK p : Iterates(p, M, n, step) /\ p \in [0..n -> V]
  <2> HIDE DEF n
  <2> QED BY <1>2, <1>4, <1>10, Recursion
<1>13. h[1..n] = p[n]
  <2> HIDE DEF n
  <2> QED BY <1>2, <1>4, <1>10, <1>11, <1>12, FoldValue
<1>14. p[0] = M /\ \A i \in 1..n : p[i] = step[i][p[i - 1]]
  <2>1. p = [i \in 0..n |-> IF i = 0 THEN M ELSE step[i][p[i - 1]]]
    BY <1>12 DEF Iterates
  <2> HIDE DEF n, M, step
  <2>2. 0 \in 0..n /\ \A i \in 1..n : i \in 0..n /\ i # 0
    BY <1>10
  <2> QED BY <2>1, <2>2
<1>15. \A i \in 1..n : p[i] = Applied(p[i - 1], t[i])
  <2> TAKE i \in 1..n
  <2>1. p[i - 1] \in V
    BY <1>10, <1>12
  <2> QED BY <1>3, <1>14, <2>1
<1> QED BY <1>7, <1>12, <1>13, <1>14, <1>15 DEF V, M

\* Replaying one more row applies it to what the others lead to.
LEMMA ReplayOfNone ==
  ASSUME domain \in DOMAIN Models
  PROVE  Replay(<< >>) = Models[domain]
<1>1. << >> \in Seq({}) /\ Len(<< >>) = 0
  OBVIOUS
<1> QED BY <1>1, ReplayFold

LEMMA ReplayOfAppend ==
  ASSUME domain \in DOMAIN Models, NEW R, NEW t \in Seq(R), NEW r \in R
  PROVE  Replay(Append(t, r)) = Applied(Replay(t), r)
<1> DEFINE u == Append(t, r)
           n == Len(t)
           V == TrailBooks(R)
<1>1. u \in Seq(R) /\ Len(u) = n + 1 /\ n \in Nat /\ u[n + 1] = r /\ \A i \in 1..n : u[i] = t[i]
  OBVIOUS
<1>2. PICK p \in [0..n -> V] :
        /\ p[0] = Models[domain]
        /\ \A i \in 1..n : p[i] = Applied(p[i - 1], t[i])
        /\ Replay(t) = p[n]
  BY ReplayFold
<1> HIDE DEF u
<1>3. PICK q \in [0..(n + 1) -> V] :
        /\ q[0] = Models[domain]
        /\ \A i \in 1..(n + 1) : q[i] = Applied(q[i - 1], u[i])
        /\ Replay(u) = q[n + 1]
  <2>1. \E q \in [0..Len(u) -> V] :
          /\ q[0] = Models[domain]
          /\ \A i \in 1..Len(u) : q[i] = Applied(q[i - 1], u[i])
          /\ Replay(u) = q[Len(u)]
    BY <1>1, ReplayFold
  <2> HIDE DEF n, V
  <2> QED BY <1>1, <2>1
<1> HIDE DEF n, V
<1> DEFINE S == {i \in 0..n : q[i] = p[i]}
<1>4. 0 \in S
  BY <1>1, <1>2, <1>3
<1>5. ASSUME NEW i \in 1..n, i - 1 \in S PROVE i \in S
  <2>1. i \in 1..(n + 1) /\ u[i] = t[i] /\ q[i - 1] = p[i - 1] /\ i \in 0..n
    BY <1>1, <1>5
  <2> QED BY <1>2, <1>3, <2>1
<1>6. n \in S
  <2>1. \A i \in 0..n : i \in S
    <3> HIDE DEF S
    <3> QED BY <1>1, <1>4, <1>5, UpTo
  <2> QED BY <1>1, <2>1
<1>7. Replay(u) = Applied(q[n], r)
  <2>1. n + 1 \in 1..(n + 1) /\ (n + 1) - 1 = n
    BY <1>1
  <2> QED BY <1>1, <1>3, <2>1
<1> QED BY <1>2, <1>6, <1>7 DEF u

\* A cell is known by the field as it is written, but for the exposure routes.
LEMMA CellIsKey ==
  ASSUME NEW f
  PROVE  /\ Cell(f)[1] = f.target
         /\ f.target # "exposure_route" => Cell(f) = Key(f)
         /\ f.target \in ExploitTargets => Cell(f) = Key(f)
         /\ Cell(f)[1] \in ExploitTargets => Cell(f) = Key(f)
BY DEF Cell, Key, ExploitTargets

LEMMA CellsOfKeys ==
  ASSUME NEW f, NEW g, Cell(g) = Cell(f), Key(g) # Key(f)
  PROVE  f.target = "exposure_route" /\ g.target = f.target /\ g.field # f.field
<1>1. g.target = f.target
  BY CellIsKey
<1>2. f.target = "exposure_route"
  BY <1>1, CellIsKey
<1> QED BY <1>1, <1>2 DEF Key

\* An approved row among the first rows of a trail, and two of them.
Fits(t, k) ==
  LET r == t[k] IN
    /\ r.of.approved /\ r.of.sufficient
    /\ \/ r.of.target \in ExploitTargets /\ r.run > 1
       \/ r.baseline = Value(Cell(r.of), Replay(SubSeq(t, 1, k - 1)))

Apart(r, s) ==
  s.run = r.run =>
    /\ Cell(s.of) = Cell(r.of) =>
         r.of.target = "exposure_route" /\ s.of.field # r.of.field
    /\ (s.of.id = r.of.id /\ s.of.target \in ExploitTargets /\ r.of.target \in ExposureTargets)
         => s.of.assessed \/ r.of.assessed

Approved(t) == {k \in DOMAIN t : t[k].status = "approved"}

\* A trail that explains what it leads to.
Explains(t, ps) ==
  /\ t \in Seq(ToSet(t))
  /\ Replay(t) = ps
  /\ \A k \in DOMAIN t : t[k].run \in Nat /\ t[k].run <= oiRun
  /\ \A k \in Approved(t) : Fits(t, k) /\ \A j \in Approved(t) \ {k} : Apart(t[k], t[j])

\* What the parameters and the trail in memory have to do with each other.
OiInv ==
  /\ domain \in DOMAIN Models /\ oiRun \in Nat
  /\ Explains(trail, params) /\ Explains(saved.trail, saved.params)
  /\ queue \in Seq({f \in ToSet(queue) : f.approved})
  /\ oiPc = "copied" => seen = {}
  /\ \A k \in Approved(trail) : trail[k].run = oiRun =>
       Key(trail[k].of) \in seen /\ <<trail[k].of.id, trail[k].of.target>> \in roles
  /\ oiRun > 0
  /\ oiRun = 1 => \A p \in DOMAIN params : p[1] \in ExploitTargets => p \in seen

LEMMA ExplainedTrail ==
  OiInv => TrailExplains
<1> SUFFICES ASSUME OiInv PROVE TrailExplains
  OBVIOUS
<1> DEFINE t == saved.trail
<1>1. Explains(t, saved.params)
  BY DEF OiInv
<1>2. t \in Seq(ToSet(t)) /\ Replay(t) = saved.params
      /\ \A k \in Approved(t) : Fits(t, k) /\ \A j \in Approved(t) \ {k} : Apart(t[k], t[j])
  BY <1>1 DEF Explains
<1>3. SubSeq(t, 1, Len(t)) = t
  BY <1>2, SubSeqFull
<1>4. Replayed(Len(t)) = saved.params
  BY <1>2, <1>3 DEF Replayed
<1>5. ApprovedRows = Approved(t)
  BY DEF ApprovedRows, Approved
<1> QED BY <1>2, <1>4, <1>5 DEF TrailExplains, Fits, Apart, Replayed

\* What precedes a row does not change when another one is appended.
LEMMA Preceding ==
  ASSUME NEW R, NEW t \in Seq(R), NEW r \in R, NEW k \in 0..Len(t)
  PROVE  SubSeq(Append(t, r), 1, k) = SubSeq(t, 1, k)
<1> DEFINE u == Append(t, r)
<1>1. \A i \in 1..k : u[i] = t[i] /\ t[i] \in R
  OBVIOUS
<1>2. k \in Int /\ 0 <= k
  OBVIOUS
<1> HIDE DEF u
<1>3. /\ SubSeq(u, 1, k) \in Seq(R) /\ Len(SubSeq(u, 1, k)) = IF 1 <= k THEN k - 1 + 1 ELSE 0
      /\ \A i \in 1..(k - 1 + 1) : SubSeq(u, 1, k)[i] = u[1 + i - 1]
  BY <1>1, <1>2, SubSeqProperties
<1>4. /\ SubSeq(t, 1, k) \in Seq(R) /\ Len(SubSeq(t, 1, k)) = IF 1 <= k THEN k - 1 + 1 ELSE 0
      /\ \A i \in 1..(k - 1 + 1) : SubSeq(t, 1, k)[i] = t[1 + i - 1]
  BY <1>1, <1>2, SubSeqProperties
<1> DEFINE a == SubSeq(u, 1, k)
           b == SubSeq(t, 1, k)
<1> HIDE DEF a, b
<1>5. a \in Seq(R) /\ b \in Seq(R) /\ Len(a) = k /\ Len(b) = k
  BY <1>2, <1>3, <1>4 DEF a, b
<1>6. \A i \in 1..k : a[i] = b[i]
  <2> TAKE i \in 1..k
  <2>1. i \in 1..(k - 1 + 1) /\ 1 + i - 1 = i
    BY <1>2
  <2> QED BY <1>1, <1>3, <1>4, <2>1 DEF a, b
<1>7. a = b
  BY <1>2, <1>5, <1>6
<1> QED BY <1>7 DEF a, b, u

LEMMA ApprovedOfMore ==
  ASSUME NEW t, t \in Seq(ToSet(t)), NEW r
  PROVE  \A k \in Approved(Append(t, r)) :
           \/ k \in Approved(t) /\ Append(t, r)[k] = t[k]
           \/ k = Len(t) + 1 /\ Append(t, r)[k] = r /\ r.status = "approved"
<1> DEFINE u == Append(t, r)
           n == Len(t)
           R == ToSet(t) \cup {r}
<1>1. t \in Seq(R) /\ r \in R
  BY DEF ToSet
<1>2. /\ DOMAIN t = 1..n /\ DOMAIN u = 1..(n + 1) /\ n \in Nat
      /\ u[n + 1] = r /\ \A i \in 1..n : u[i] = t[i]
  BY <1>1
<1> HIDE DEF u, n, R
<1> SUFFICES ASSUME NEW k \in Approved(u)
             PROVE  (k \in Approved(t) /\ u[k] = t[k]) \/ (k = n + 1 /\ u[k] = r /\ r.status = "approved")
  BY DEF u, n
<1>3. k \in DOMAIN u /\ u[k].status = "approved"
  BY DEF Approved
<1>4. CASE k \in 1..n
  <2>1. u[k] = t[k] /\ k \in DOMAIN t /\ t[k].status = "approved"
    BY <1>2, <1>3, <1>4
  <2> QED BY <2>1 DEF Approved
<1>5. CASE k = n + 1
  BY <1>2, <1>3, <1>5
<1> QED BY <1>2, <1>3, <1>4, <1>5

LEMMA ApprovedItems ==
  ASSUME NEW F, NEW s \in Seq(F), \A i \in DOMAIN s : s[i].approved
  PROVE  s \in Seq({f \in ToSet(s) : f.approved})
<1>1. \A i \in DOMAIN s : s[i].approved /\ s[i] \in ToSet(s)
  BY DEF ToSet
<1> QED BY <1>1

\* A trail of the same rows with one more.
LEMMA ExplainsMore ==
  ASSUME domain \in DOMAIN Models, oiRun \in Nat, NEW t, NEW ps, Explains(t, ps), NEW r, r.run = oiRun,
         r.status = "approved" =>
           /\ r.of.approved /\ r.of.sufficient
           /\ \/ r.of.target \in ExploitTargets /\ r.run > 1
              \/ r.baseline = Value(Cell(r.of), ps)
           /\ \A k \in Approved(t) : Apart(t[k], r) /\ Apart(r, t[k])
  PROVE  Explains(Append(t, r), Applied(ps, r))
<1> DEFINE u == Append(t, r)
           n == Len(t)
           R == ToSet(t) \cup {r}
<1> USE DEF Explains
<1>1. t \in Seq(R) /\ r \in R
  BY DEF ToSet
<1>2. /\ u \in Seq(R) /\ Len(u) = n + 1 /\ n \in Nat /\ DOMAIN t = 1..n /\ DOMAIN u = 1..(n + 1)
      /\ u[n + 1] = r /\ \A i \in 1..n : u[i] = t[i]
  BY <1>1
<1>3. Replay(u) = Applied(ps, r)
  BY <1>1, ReplayOfAppend
<1>4. \A k \in 1..(n + 1) : SubSeq(u, 1, k - 1) = SubSeq(t, 1, k - 1)
  <2> TAKE k \in 1..(n + 1)
  <2>1. k - 1 \in 0..n
    BY <1>2
  <2> QED BY <1>1, <2>1, Preceding
<1>5. SubSeq(u, 1, n) = t
  <2>1. SubSeq(t, 1, n) = t
    BY <1>1, SubSeqFull
  <2>2. n + 1 \in 1..(n + 1) /\ (n + 1) - 1 = n
    BY <1>2
  <2> QED BY <1>4, <2>1, <2>2
<1>6. u \in Seq(ToSet(u))
  BY <1>2 DEF ToSet
<1> HIDE DEF u, n
<1>7. \A k \in DOMAIN u : k \in 1..n \/ k = n + 1
  BY <1>2
<1>8. \A k \in DOMAIN u : u[k].run \in Nat /\ u[k].run <= oiRun
  BY <1>2, <1>7
<1>9. \A k \in Approved(u) : k \in Approved(t) \/ (k = n + 1 /\ r.status = "approved")
  <2>1. t \in Seq(ToSet(t))
    OBVIOUS
  <2>2. \A k \in Approved(u) :
           \/ k \in Approved(t) /\ u[k] = t[k]
           \/ k = n + 1 /\ u[k] = r /\ r.status = "approved"
    BY <2>1, ApprovedOfMore DEF u, n
  <2> QED BY <2>2
<1>10. ASSUME NEW k \in Approved(u) PROVE Fits(u, k)
  <2>1. CASE k \in Approved(t)
    <3>1. k \in 1..n /\ k \in 1..(n + 1) /\ u[k] = t[k] /\ Fits(t, k)
      BY <1>2, <2>1 DEF Approved
    <3> QED BY <1>4, <3>1 DEF Fits
  <2>2. CASE k = n + 1 /\ r.status = "approved"
    <3>1. SubSeq(u, 1, k - 1) = t /\ u[k] = r
      BY <1>2, <1>5, <2>2
    <3>2. Replay(t) = ps
      OBVIOUS
    <3> QED BY <2>2, <3>1, <3>2 DEF Fits
  <2> QED BY <1>9, <2>1, <2>2
<1>11. ASSUME NEW k \in Approved(u), NEW j \in Approved(u) \ {k} PROVE Apart(u[k], u[j])
  <2>1. \A i \in Approved(t) : u[i] = t[i]
    BY <1>2 DEF Approved
  <2> QED BY <1>2, <1>9, <2>1
<1> QED BY <1>3, <1>6, <1>8, <1>10, <1>11 DEF u

LEMMA OiStarts == OiInit => OiInv
<1> SUFFICES ASSUME OiInit PROVE OiInv
  OBVIOUS
<1>1. /\ domain \in DOMAIN Models /\ params = Models[domain] /\ trail = << >> /\ queue = << >>
      /\ seen = {} /\ roles = {} /\ oiRun = 1
      /\ saved.params = params /\ saved.trail = << >>
  BY DEF OiInit
<1>2. Explains(<< >>, params)
  BY <1>1, ReplayOfNone DEF Explains, Approved
<1>3. \A p \in DOMAIN params : p[1] \notin ExploitTargets
  BY <1>1, OiInputs
<1>4. Approved(trail) = {}
  BY <1>1 DEF Approved
<1>5. queue \in Seq({f \in ToSet(queue) : f.approved})
  BY <1>1
<1> QED BY <1>1, <1>2, <1>3, <1>4, <1>5 DEF OiInv

\* What a trail explains does not depend on what else changes.
LEMMA ExplainsLater ==
  ASSUME domain' = domain, oiRun \in Nat, oiRun' \in Nat, oiRun <= oiRun', NEW t, NEW ps, Explains(t, ps)
  PROVE  Explains(t, ps)'
<1>1. \A s : Replay(s)' = Replay(s)
  BY DEF Replay
<1>2. \A k \in DOMAIN t : t[k].run \in Nat /\ t[k].run <= oiRun'
  BY DEF Explains
<1> QED BY <1>1, <1>2 DEF Explains, Fits

LEMMA OiSteps == OiInv /\ [OiNext]_oiVars => OiInv'
<1> SUFFICES ASSUME OiInv, [OiNext]_oiVars PROVE OiInv'
  OBVIOUS
<1> USE DEF OiInv
<1>1. ASSUME UNCHANGED <<domain, oiRun>>, NEW t, NEW ps, Explains(t, ps)
      PROVE  Explains(t, ps)'
  BY <1>1, ExplainsLater
\* Steps that leave the parameters and their trail alone.
<1>2. ASSUME UNCHANGED <<domain, params, trail, seen, roles, saved, oiRun>>,
             queue' \in Seq({f \in ToSet(queue') : f.approved}),
             oiPc' = "copied" => oiPc = "copied"
      PROVE  OiInv'
  <2>1. Explains(trail, params)' /\ Explains(saved.trail, saved.params)'
    BY <1>1, <1>2
  <2> QED BY <1>2, <2>1
<1>3. ASSUME NEW file \in Files, Snapshot(file) PROVE OiInv'
  <2>1. FoldLeft(Kept, << >>, file) \in Seq({f \in ToSet(file) : f.approved})
    BY OiInputs, KeptAreApproved
  <2>2. \A i \in DOMAIN queue' : queue'[i].approved
    <3> DEFINE A == {f \in ToSet(file) : f.approved}
    <3>1. queue' \in Seq(A) \/ queue' = queue
      BY <1>3, <2>1 DEF Snapshot
    <3>2. \A f \in A : f.approved
      OBVIOUS
    <3>3. \A i \in DOMAIN queue : queue[i].approved
      OBVIOUS
    <3> HIDE DEF A
    <3> QED BY <3>1, <3>2, <3>3
  <2>3. queue' \in Seq({f \in ToSet(queue') : f.approved})
    BY <1>3, <2>1, <2>2, ApprovedItems DEF Snapshot
  <2> QED BY <1>2, <1>3, <2>3 DEF Snapshot
<1>4. ASSUME queue # << >>, queue' = Tail(queue)
      PROVE  /\ Head(queue).approved /\ queue' \in Seq({f \in ToSet(queue') : f.approved})
  <2> DEFINE A == {f \in ToSet(queue) : f.approved}
  <2>1. queue \in Seq(A) /\ \A f \in A : f.approved
    OBVIOUS
  <2> HIDE DEF A
  <2>2. Head(queue) \in A /\ Tail(queue) \in Seq(A)
    BY <1>4, <2>1
  <2>3. queue' \in Seq(A) /\ \A i \in DOMAIN queue' : queue'[i].approved
    BY <1>4, <2>1, <2>2
  <2>4. queue' \in Seq({f \in ToSet(queue') : f.approved})
    BY <2>3, ApprovedItems
  <2> QED BY <2>1, <2>2, <2>4
<1>5. CASE SkipFinding
  <2> DEFINE r == TrailRow(Head(queue), "not applied", "")
  <2>1. r.run = oiRun /\ r.status = "not applied" /\ trail' = Append(trail, r)
    BY <1>5 DEF SkipFinding, TrailRow
  <2>2. Applied(params, r) = params
    BY <2>1 DEF Applied
  <2> HIDE DEF r
  <2>3. Explains(trail', params)
    BY <2>1, <2>2, ExplainsMore
  <2>4. Explains(trail, params)' /\ Explains(saved.trail, saved.params)'
    BY <1>1, <1>5, <2>3 DEF SkipFinding
  <2>5. \A k \in Approved(trail') : k \in Approved(trail) /\ trail'[k] = trail[k]
    <3>1. trail \in Seq(ToSet(trail))
      BY DEF Explains
    <3> QED BY <2>1, <3>1, ApprovedOfMore
  <2> QED BY <1>4, <1>5, <2>4, <2>5 DEF SkipFinding
<1>6. CASE StopAtFinding
  BY <1>2, <1>6 DEF StopAtFinding
<1>7. CASE ApplyFinding
  <2> DEFINE f == Head(queue)
             baseline == IF f.target \in ExploitTargets THEN "1" ELSE Value(Cell(f), params)
             r == TrailRow(f, "approved", baseline)
  <2>1. /\ r.run = oiRun /\ r.status = "approved" /\ r.of = f /\ r.baseline = baseline
        /\ trail' = Append(trail, r)
    BY <1>7 DEF ApplyFinding, TrailRow
  <2>2. /\ params' = Changed(Cell(f), f.value, params) /\ seen' = seen \cup {Key(f)}
        /\ roles' = roles \cup {<<f.id, f.target>>}
        /\ f.approved /\ f.sufficient /\ Key(f) \notin seen /\ (Crosses(f) => f.assessed)
    BY <1>4, <1>7 DEF ApplyFinding, Stops
  <2>3. Applied(params, r) = params'
    BY <2>1, <2>2 DEF Applied
  <2>4. \/ f.target \in ExploitTargets /\ oiRun > 1
        \/ baseline = Value(Cell(f), params)
    <3>1. CASE f.target \in ExploitTargets /\ oiRun = 1
      <4>1. Cell(f)[1] \in ExploitTargets /\ Cell(f) = Key(f)
        BY <3>1, CellIsKey
      <4>2. Cell(f) \notin DOMAIN params
        BY <2>2, <3>1, <4>1
      <4> QED BY <3>1, <4>2 DEF Value
    <3> QED BY <3>1
  <2>5. ASSUME NEW k \in Approved(trail) PROVE Apart(trail[k], r) /\ Apart(r, trail[k])
    <3> DEFINE s == trail[k]
    <3>1. CASE s.run = oiRun
      <4>1. Key(s.of) # Key(f) /\ <<s.of.id, s.of.target>> \in roles
        BY <2>2, <3>1
      <4>4. Cell(s.of) = Cell(f) =>
              f.target = "exposure_route" /\ s.of.target = f.target /\ s.of.field # f.field
        BY <4>1, CellsOfKeys
      <4>2. s.of.id = f.id => s.of.target \in RolesOf(f)
        BY <4>1 DEF RolesOf
      <4>3. /\ s.of.id = f.id /\ s.of.target \in ExploitTargets /\ f.target \in ExposureTargets
              => f.assessed
            /\ s.of.id = f.id /\ f.target \in ExploitTargets /\ s.of.target \in ExposureTargets
              => f.assessed
        BY <2>2, <4>2 DEF Crosses
      <4> HIDE DEF f, r, s
      <4> QED BY <2>1, <4>3, <4>4 DEF Apart, s
    <3>2. CASE s.run # oiRun
      BY <2>1, <3>2 DEF Apart
    <3> QED BY <3>1, <3>2
  <2> HIDE DEF r, baseline
  <2>6. Explains(trail', params')
    <3>1. /\ r.of.approved /\ r.of.sufficient
          /\ \/ r.of.target \in ExploitTargets /\ r.run > 1
             \/ r.baseline = Value(Cell(r.of), params)
      BY <2>1, <2>2, <2>4
    <3> QED BY <2>1, <2>3, <2>5, <3>1, ExplainsMore
  <2>7. Explains(trail, params)' /\ Explains(saved.trail, saved.params)'
    BY <1>1, <1>7, <2>6 DEF ApplyFinding
  <2>8. \A k \in Approved(trail') : trail'[k].run = oiRun' =>
          Key(trail'[k].of) \in seen' /\ <<trail'[k].of.id, trail'[k].of.target>> \in roles'
    <3>1. trail \in Seq(ToSet(trail)) /\ oiRun' = oiRun
      BY <1>7 DEF Explains, ApplyFinding
    <3>3. \A k \in Approved(trail') : (k \in Approved(trail) /\ trail'[k] = trail[k]) \/ trail'[k] = r
      <4>1. \A k \in Approved(Append(trail, r)) :
              \/ k \in Approved(trail) /\ Append(trail, r)[k] = trail[k]
              \/ k = Len(trail) + 1 /\ Append(trail, r)[k] = r /\ r.status = "approved"
        BY <3>1, ApprovedOfMore
      <4> QED BY <2>1, <4>1
    <3> HIDE DEF f
    <3> QED BY <2>1, <2>2, <3>1, <3>3
  <2>9. oiRun = 1 => \A p \in DOMAIN params' : p[1] \in ExploitTargets => p \in seen'
    <3>1. DOMAIN params' = DOMAIN params \cup {Cell(f)}
      BY <2>2 DEF Changed
    <3>2. Cell(f)[1] \in ExploitTargets => Cell(f) = Key(f)
      BY CellIsKey
    <3>3. Key(f) \in seen' /\ seen \subseteq seen'
      BY <2>2
    <3> QED BY <3>1, <3>2, <3>3
  <2> QED BY <1>4, <1>7, <2>7, <2>8, <2>9 DEF ApplyFinding
<1>8. CASE SaveConditioned
  <2>1. Explains(trail, params)' /\ Explains(saved.trail, saved.params)'
    <3>1. saved'.trail = trail /\ saved'.params = params /\ trail' = trail /\ params' = params
      BY <1>8 DEF SaveConditioned
    <3> QED BY <1>1, <1>8, <3>1 DEF SaveConditioned
  <2> QED BY <1>8, <2>1 DEF SaveConditioned
<1>9. CASE NoScan
  BY <1>2, <1>9 DEF NoScan
<1>10. CASE RerunResults
  <2>1. /\ domain' = domain /\ oiRun' = oiRun + 1 /\ params' = saved.params /\ trail' = saved.trail
        /\ seen' = {} /\ roles' = {} /\ queue' = queue /\ saved' = saved
    BY <1>10 DEF RerunResults
  <2>2. oiRun' \in Nat /\ oiRun <= oiRun' /\ oiRun < oiRun' /\ oiRun' > 0 /\ oiRun' # 1
    BY <2>1
  <2>3. Explains(saved.trail, saved.params)' /\ Explains(trail, params)'
    BY <2>1, <2>2, ExplainsLater
  <2>4. \A k \in Approved(trail') : trail'[k].run # oiRun'
    <3>1. \A k \in DOMAIN saved.trail : saved.trail[k].run \in Nat /\ saved.trail[k].run <= oiRun
      BY DEF Explains
    <3> QED BY <2>1, <2>2, <3>1 DEF Approved
  <2> QED BY <2>1, <2>2, <2>3, <2>4
<1>11. CASE UNCHANGED oiVars
  BY <1>2, <1>11 DEF oiVars
<1> QED BY <1>3, <1>5, <1>6, <1>7, <1>8, <1>9, <1>10, <1>11 DEF OiNext

\* Whatever the workbook and the files, and however often the results are run
\* again, the trail leads from the model to the parameters that were saved
\* (router.py:250-407).
THEOREM TrailLeadsToResults == OiSpec => []TrailExplains
BY ExplainedTrail, OiStarts, OiSteps, PTL DEF OiSpec

-----------------------------------------------------------------------------
(* Sequences joined to one, and its items.                                 *)

\* Sequences joined: after the empty ones comes the first that is not.
LEMMA FlattenFold ==
  ASSUME NEW X, NEW n \in Nat, NEW ss \in [1..n -> Seq(X)]
  PROVE  \E p : Joins(p, X, n, ss) /\ FlattenSeq(ss) = p[n]
<1>1. PICK p : Joins(p, X, n, ss)
  BY ConcatFold
<1>2. /\ p \in [0..n -> Seq(X)] /\ p[0] = << >>
      /\ \A i \in 1..n : p[i] = p[i - 1] \o ss[i]
  BY <1>1 DEF Joins
<1>3. ss \in Seq(Seq(X)) /\ Len(ss) = n
  OBVIOUS
<1>4. CASE n = 0
  <2>1. FlattenSeq(ss) = ss
    BY <1>3, <1>4 DEF FlattenSeq
  <2>2. ss = << >>
    BY <1>3, <1>4
  <2> QED BY <1>1, <1>2, <1>4, <2>1, <2>2
<1>5. CASE n # 0
  <2> DEFINE Is(f) == f = [i \in 1..n |-> IF i = 1 THEN ss[i] ELSE f[i - 1] \o ss[i]]
             f == CHOOSE f : Is(f)
             g == [i \in 1..n |-> p[i]]
  <2>1. \A i \in 1..n : ss[i] \in Seq(X) /\ i - 1 \in 0..n /\ p[i - 1] \in Seq(X)
    <3> DEFINE V == Seq(X)
    <3>1. p \in [0..n -> V] /\ ss \in [1..n -> V]
      BY <1>2
    <3>2. \A i \in 1..n : i - 1 \in 0..n
      OBVIOUS
    <3> HIDE DEF V
    <3>3. \A i \in 1..n : ss[i] \in V /\ p[i - 1] \in V
      BY <3>1, <3>2
    <3> QED BY <3>2, <3>3 DEF V
  <2>2. \A i \in 1..n : p[i] = IF i = 1 THEN ss[i] ELSE g[i - 1] \o ss[i]
    <3> TAKE i \in 1..n
    <3>1. CASE i = 1
      <4>1. p[1] = p[0] \o ss[1]
        <5>1. p[i] = p[i - 1] \o ss[i]
          BY <1>2
        <5> QED BY <3>1, <5>1
      <4>2. << >> \o ss[1] = ss[1]
        BY <2>1, <3>1
      <4> QED BY <1>2, <3>1, <4>1, <4>2
    <3>2. CASE i # 1
      <4>1. i - 1 \in 1..n /\ g[i - 1] = p[i - 1]
        BY <3>2
      <4> QED BY <1>2, <3>2, <4>1
    <3> QED BY <3>1, <3>2
  <2>3. Is(g)
    BY <2>2
  <2>4. Is(f)
    <3> HIDE DEF Is
    <3> QED BY <2>3
  <2>5. FlattenSeq(ss) = f[n]
    BY <1>3, <1>5 DEF FlattenSeq
  <2> HIDE DEF f, g
  <2>6. \A i \in 1..n : f[i] = IF i = 1 THEN ss[i] ELSE f[i - 1] \o ss[i]
    BY <2>4
  <2>7. \A i \in 1..n : g[i] = IF i = 1 THEN ss[i] ELSE g[i - 1] \o ss[i]
    BY <2>3
  <2> HIDE DEF Is
  <2> DEFINE S == {i \in 0..n : i = 0 \/ f[i] = g[i]}
  <2>8. 0 \in S
    OBVIOUS
  <2>9. ASSUME NEW i \in 1..n, i - 1 \in S PROVE i \in S
    <3>1. CASE i = 1
      BY <2>6, <2>7, <3>1
    <3>2. CASE i # 1
      <4>1. f[i - 1] = g[i - 1]
        BY <2>9, <3>2
      <4>2. f[i] = f[i - 1] \o ss[i] /\ g[i] = g[i - 1] \o ss[i]
        BY <2>6, <2>7, <3>2
      <4>3. f[i] = g[i]
        BY <4>1, <4>2, Zenon
      <4> QED BY <4>3
    <3> QED BY <3>1, <3>2
  <2>10. n \in S
    <3>1. \A i \in 0..n : i \in S
      <4> HIDE DEF S
      <4> QED BY <2>8, <2>9, UpTo
    <3> QED BY <3>1
  <2>11. f[n] = p[n]
    BY <1>5, <2>10 DEF g
  <2> QED BY <1>1, <2>5, <2>11
<1> QED BY <1>4, <1>5

\* A joined sequence consists of items of the sequences, and starts with the first
\* of them that is not empty.
Extends(s, t, X) == \E u \in Seq(X) : s = t \o u

LEMMA FlattenItems ==
  ASSUME NEW X, NEW n \in Nat, NEW ss \in [1..n -> Seq(X)]
  PROVE  /\ FlattenSeq(ss) \in Seq(X)
         /\ (\A i \in 1..n : ss[i] = << >>) => FlattenSeq(ss) = << >>
         /\ \A j \in 1..n : (\A i \in 1..j - 1 : ss[i] = << >>) =>
              Extends(FlattenSeq(ss), ss[j], X)
<1>1. PICK p : Joins(p, X, n, ss) /\ FlattenSeq(ss) = p[n]
  BY FlattenFold
<1>2. /\ p \in [0..n -> Seq(X)] /\ p[0] = << >>
      /\ \A i \in 1..n : p[i] = p[i - 1] \o ss[i]
  BY <1>1 DEF Joins
<1>3. \A s \in Seq(X) : s \o << >> = s /\ << >> \o s = s
  OBVIOUS
<1>4. ASSUME NEW j \in 0..n, \A i \in 1..j : ss[i] = << >>
      PROVE  p[j] = << >>
  <2> DEFINE S == {i \in 0..j : p[i] = << >>}
  <2>1. 0 \in S
    BY <1>2
  <2>2. ASSUME NEW i \in 1..j, i - 1 \in S PROVE i \in S
    <3>1. i \in 1..n /\ p[i - 1] = << >> /\ ss[i] = << >>
      BY <1>4, <2>2
    <3> QED BY <1>2, <3>1
  <2>3. \A i \in 0..j : i \in S
    <3>1. j \in Nat
      OBVIOUS
    <3> HIDE DEF S
    <3> QED BY <2>1, <2>2, <3>1, UpTo
  <2> QED BY <2>3
<1>5. ASSUME NEW j \in 1..n, \A i \in 1..j - 1 : ss[i] = << >>
      PROVE  Extends(FlattenSeq(ss), ss[j], X)
  <2>1. p[j] = ss[j]
    <3>1. p[j - 1] = << >>
      <4>1. j - 1 \in 0..n
        OBVIOUS
      <4> QED BY <1>4, <1>5, <4>1
    <3> QED BY <1>2, <1>3, <3>1
  <2> DEFINE S == {i \in 0..n : i >= j => Extends(p[i], ss[j], X)}
  <2>2. 0 \in S
    OBVIOUS
  <2>3. ASSUME NEW i \in 1..n, i - 1 \in S PROVE i \in S
    <3>1. CASE i < j
      BY <3>1
    <3>2. CASE i = j
      <4>1. << >> \in Seq(X) /\ p[i] = ss[j] \o << >>
        BY <1>3, <2>1, <3>2
      <4>2. Extends(p[i], ss[j], X)
        BY <4>1, Zenon DEF Extends
      <4> QED BY <4>2
    <3>3. CASE i > j
      <4>a. Extends(p[i - 1], ss[j], X)
        BY <2>3, <3>3
      <4>1. PICK u \in Seq(X) : p[i - 1] = ss[j] \o u
        BY <4>a, Zenon DEF Extends
      <4>2. ss[i] \in Seq(X) /\ ss[j] \in Seq(X)
        OBVIOUS
      <4>3. u \o ss[i] \in Seq(X) /\ (ss[j] \o u) \o ss[i] = ss[j] \o (u \o ss[i])
        BY <4>2
      <4>4. p[i] = ss[j] \o (u \o ss[i])
        <5>1. p[i] = p[i - 1] \o ss[i]
          BY <1>2
        <5> QED BY <4>1, <4>3, <5>1
      <4>5. Extends(p[i], ss[j], X)
        BY <4>3, <4>4, Zenon DEF Extends
      <4> QED BY <4>5
    <3> QED BY <3>1, <3>2, <3>3
  <2>4. \A i \in 0..n : i \in S
    <3> HIDE DEF S
    <3> QED BY <2>2, <2>3, UpTo
  <2>5. Extends(p[n], ss[j], X)
    BY <2>4
  <2> QED BY <1>1, <2>5
<1>6. (\A i \in 1..n : ss[i] = << >>) => FlattenSeq(ss) = << >>
  BY <1>1, <1>4
<1>7. FlattenSeq(ss) \in Seq(X)
  <2> DEFINE V == Seq(X)
  <2>1. p \in [0..n -> V]
    BY <1>2
  <2> HIDE DEF V
  <2>2. p[n] \in V
    BY <2>1
  <2> QED BY <1>1, <2>2 DEF V
<1> QED BY <1>5, <1>6, <1>7, Zenon

-----------------------------------------------------------------------------
(* The copilot: what a view's facts are, and that every answer is backed   *)
(* by them.  The first facts of a view of scenarios are about the scenario *)
(* that is asked about, so the first of each kind is.                      *)

\* What a fact of an item can be.
Values(result) ==
  {NoEntity}
    \cup UNION {UNION {{item.tail, item.aal, item.name, item.state} : item \in Range(result[f])} :
                 f \in Families}
Facts(family, i, result) ==
  [family : {family}, index : {i}, key : {"tail", "aal", "name", "state"}, value : Values(result)]
Known(result) ==
  [family : Families, index : Nat, key : {"tail", "aal", "name", "state", "comparison"},
   value : Values(result)]

\* The facts of an item are about it; its amounts and its name come first.
LEMMA ItemFactsType ==
  ASSUME NEW r \in Results, NEW f \in Families, NEW i \in DOMAIN r[f]
  PROVE  /\ ItemFacts(f, i, r[f][i]) \in Seq(Facts(f, i, r))
         /\ f # "metrics" => /\ Len(ItemFacts(f, i, r[f][i])) \in Nat \ {0, 1, 2}
                             /\ ItemFacts(f, i, r[f][i])[1].key = "tail"
                             /\ ItemFacts(f, i, r[f][i])[2].key = "aal"
                             /\ ItemFacts(f, i, r[f][i])[3].key = "name"
<1> DEFINE item == r[f][i]
           V == Values(r)
           F == Facts(f, i, r)
           fact(k, v) == [family |-> f, index |-> i, key |-> k, value |-> v]
           names == IF f = "metrics" THEN << >> ELSE <<fact("name", item.name)>>
           states == IF f = "routes" /\ item.state # NoEntity THEN <<fact("state", item.state)>> ELSE << >>
<1>1. item.tail \in V /\ item.aal \in V /\ item.name \in V /\ item.state \in V
  <2>1. item \in Range(r[f])
    BY DEF Range
  <2> HIDE DEF item
  <2> QED BY <2>1 DEF Values
<1>2. ItemFacts(f, i, item) = (<<fact("tail", item.tail), fact("aal", item.aal)>> \o names) \o states
  BY DEF ItemFacts
<1> HIDE DEF item, V
<1>3. \A k \in {"tail", "aal", "name", "state"}, v \in V : fact(k, v) \in F
  BY DEF Facts, V
<1> DEFINE two == <<fact("tail", item.tail), fact("aal", item.aal)>>
<1>4. two \in Seq(F) /\ names \in Seq(F) /\ states \in Seq(F)
  <2>1. fact("tail", item.tail) \in F /\ fact("aal", item.aal) \in F /\ fact("name", item.name) \in F
        /\ fact("state", item.state) \in F
    BY <1>1, <1>3
  <2> HIDE DEF F, fact
  <2> QED BY <2>1
<1>5. Len(two) = 2 /\ two[1].key = "tail" /\ two[2].key = "aal"
  OBVIOUS
<1>6. f # "metrics" => Len(names) = 1 /\ names[1].key = "name"
  OBVIOUS
<1> HIDE DEF two, names, states, F, fact
<1>7. two \o names \in Seq(F) /\ (two \o names) \o states \in Seq(F)
  BY <1>4
<1>8. ASSUME f # "metrics"
      PROVE  /\ Len((two \o names) \o states) \in Nat \ {0, 1, 2}
             /\ ((two \o names) \o states)[1] = two[1]
             /\ ((two \o names) \o states)[2] = two[2]
             /\ ((two \o names) \o states)[3] = names[1]
  <2>1. Len(names) = 1 /\ Len(two) = 2 /\ Len(states) \in Nat
    BY <1>4, <1>5, <1>6, <1>8
  <2> DEFINE w == two \o names
  <2>2. Len(w) = 3 /\ w[1] = two[1] /\ w[2] = two[2] /\ w[3] = names[1]
    <3>1. /\ Len(w) = Len(two) + Len(names)
          /\ \A m \in 1..Len(two) : w[m] = two[m]
          /\ \A j \in 1..Len(names) : w[Len(two) + j] = names[j]
      BY <1>4, JoinedItems
    <3> HIDE DEF w
    <3> QED BY <2>1, <3>1
  <2>3. w \in Seq(F)
    BY <1>7
  <2> HIDE DEF w
  <2>4. Len(w \o states) = 3 + Len(states)
    <3>1. Len(w \o states) = Len(w) + Len(states)
      BY <1>4, <2>3, JoinedItems
    <3>2. Len(w) = 3
      BY <2>2
    <3> QED BY <3>1, <3>2
  <2>5. (w \o states)[1] = w[1] /\ (w \o states)[2] = w[2] /\ (w \o states)[3] = w[3]
    <3>1. \A m \in 1..Len(w) : (w \o states)[m] = w[m]
      BY <1>4, <2>3, JoinedItems
    <3>2. 1 \in 1..Len(w) /\ 2 \in 1..Len(w) /\ 3 \in 1..Len(w)
      BY <2>2
    <3> QED BY <3>1, <3>2
  <2> QED BY <2>1, <2>2, <2>4, <2>5 DEF w
<1>9. ItemFacts(f, i, item) = (two \o names) \o states
  BY <1>2 DEF two
<1> QED BY <1>5, <1>6, <1>7, <1>8, <1>9 DEF F, item

\* Items kept are items of the list.
LEMMA KeptType ==
  ASSUME NEW view, NEW f, NEW r, NEW e
  PROVE  KeptItems(view, f, r, e) \subseteq DOMAIN r[f]
BY DEF KeptItems

\* The facts of a family are facts of its kept items.
KeptFacts(view, f, r, e) == {x \in Known(r) : /\ x.family = f /\ x.index \in KeptItems(view, f, r, e)
                                             /\ x.key # "comparison"}

LEMMA FamilyItems ==
  ASSUME NEW view, NEW r \in Results, NEW f \in Families, NEW e
  PROVE  [i \in DOMAIN r[f] |-> IF i \in KeptItems(view, f, r, e) THEN ItemFacts(f, i, r[f][i]) ELSE << >>]
           \in [1..Len(r[f]) -> Seq(KeptFacts(view, f, r, e))]
<1> DEFINE n == Len(r[f])
           kept == KeptItems(view, f, r, e)
           X == KeptFacts(view, f, r, e)
           ss == [i \in DOMAIN r[f] |-> IF i \in kept THEN ItemFacts(f, i, r[f][i]) ELSE << >>]
<1>1. n \in Nat /\ DOMAIN r[f] = 1..n
  BY CopilotResults
<1>2. \A i \in 1..n : ss[i] \in Seq(X)
  <2> TAKE i \in 1..n
  <2>1. CASE i \in kept
    <3>1. ItemFacts(f, i, r[f][i]) \in Seq(Facts(f, i, r))
      BY <1>1, ItemFactsType
    <3>2. Facts(f, i, r) \subseteq X
      BY <1>1, <2>1 DEF Facts, Known, KeptFacts
    <3> DEFINE s == ItemFacts(f, i, r[f][i])
               F == Facts(f, i, r)
    <3>3. ss[i] = s
      BY <1>1, <2>1
    <3> HIDE DEF s, F, X, ss
    <3> QED BY <3>1, <3>2, <3>3 DEF s, F
  <2>2. CASE i \notin kept
    <3>1. ss[i] = << >>
      BY <1>1, <2>2
    <3> HIDE DEF ss, X
    <3> QED BY <3>1
  <2> QED BY <2>1, <2>2
<1>4. ss = [i \in 1..n |-> ss[i]]
  BY <1>1
<1> HIDE DEF ss, X, n
<1>5. ss \in [1..n -> Seq(X)]
  BY <1>2, <1>4
<1> QED BY <1>5 DEF ss, X, n

LEMMA FactsOfFamily ==
  ASSUME NEW view, NEW r \in Results, NEW f \in Families, NEW e
  PROVE  FamilyFacts(view, f, r, e) \in Seq(KeptFacts(view, f, r, e))
<1> DEFINE n == Len(r[f])
           X == KeptFacts(view, f, r, e)
           ss == [i \in DOMAIN r[f] |-> IF i \in KeptItems(view, f, r, e) THEN ItemFacts(f, i, r[f][i]) ELSE << >>]
<1>1. n \in Nat /\ ss \in [1..n -> Seq(X)]
  BY FamilyItems, CopilotResults
<1>2. FamilyFacts(view, f, r, e) = FlattenSeq(ss)
  BY DEF FamilyFacts
<1> HIDE DEF ss, X, n
<1>3. FlattenSeq(ss) \in Seq(X)
  BY <1>1, FlattenItems
<1> QED BY <1>2, <1>3 DEF X

\* The first of a family's facts are those of its first kept item.
LEMMA FamilyStarts ==
  ASSUME NEW view, NEW r \in Results, NEW f \in Families, NEW e, NEW k \in KeptItems(view, f, r, e),
         \A j \in KeptItems(view, f, r, e) : k <= j
  PROVE  Extends(FamilyFacts(view, f, r, e), ItemFacts(f, k, r[f][k]), KeptFacts(view, f, r, e))
<1> DEFINE n == Len(r[f])
           kept == KeptItems(view, f, r, e)
           X == KeptFacts(view, f, r, e)
           ss == [i \in DOMAIN r[f] |-> IF i \in kept THEN ItemFacts(f, i, r[f][i]) ELSE << >>]
<1>1. n \in Nat /\ DOMAIN r[f] = 1..n
  BY CopilotResults
<1>2. ss \in [1..n -> Seq(X)]
  BY FamilyItems
<1>3. FamilyFacts(view, f, r, e) = FlattenSeq(ss)
  BY DEF FamilyFacts
<1>4. k \in 1..n /\ ss[k] = ItemFacts(f, k, r[f][k])
  BY <1>1, KeptType
<1>5. \A i \in 1..k - 1 : ss[i] = << >>
  <2> TAKE i \in 1..k - 1
  <2>1. i \in 1..n /\ i < k
    BY <1>1, <1>4
  <2>2. i \notin kept
    BY <1>4, <2>1
  <2> QED BY <1>1, <2>1, <2>2
<1> HIDE DEF ss, X, n
<1>6. Extends(FlattenSeq(ss), ss[k], X)
  BY <1>1, <1>2, <1>4, <1>5, FlattenItems
<1> QED BY <1>3, <1>4, <1>6 DEF X

\* The families of a view.
LEMMA SectionsType ==
  ASSUME NEW view \in CopilotViews
  PROVE  Sections[view] \in Seq(Families)
<1>1. view \in {"overview", "risk_drivers", "scenarios", "attack_paths", "business_impact", "treatment", "evidence"}
  BY DEF CopilotViews, Sections
<1>2. /\ "metrics" \in Families /\ "actors" \in Families /\ "scenarios" \in Families
      /\ "categories" \in Families /\ "drivers" \in Families /\ "routes" \in Families
      /\ "treatments" \in Families
  BY DEF Families
<1>3. CASE view = "overview"
  <2>1. Sections[view] = <<"metrics", "actors", "scenarios", "categories">>
    BY <1>3 DEF Sections
  <2> QED BY <1>2, <2>1
<1>4. CASE view = "risk_drivers"
  <2>1. Sections[view] = <<"actors", "scenarios", "drivers">>
    BY <1>4 DEF Sections
  <2> QED BY <1>2, <2>1
<1>5. CASE view = "scenarios"
  <2>1. Sections[view] = <<"scenarios", "routes", "drivers">>
    BY <1>5 DEF Sections
  <2> QED BY <1>2, <2>1
<1>6. CASE view = "attack_paths"
  <2>1. Sections[view] = <<"routes">>
    BY <1>6 DEF Sections
  <2> QED BY <1>2, <2>1
<1>7. CASE view = "business_impact"
  <2>1. Sections[view] = <<"categories", "drivers">>
    BY <1>7 DEF Sections
  <2> QED BY <1>2, <2>1
<1>8. CASE view = "treatment"
  <2>1. Sections[view] = <<"treatments">>
    BY <1>8 DEF Sections
  <2> QED BY <1>2, <2>1
<1>9. CASE view = "evidence"
  <2>1. Sections[view] = << >>
    BY <1>9 DEF Sections
  <2> QED BY <2>1
<1> QED BY <1>1, <1>3, <1>4, <1>5, <1>6, <1>7, <1>8, <1>9

\* The facts of a view before they are capped, those of its first family first.
Gathered(view, r, e) ==
  {x \in Known(r) : x.key # "comparison" /\ x.index \in KeptItems(view, x.family, r, e)}
Uncapped(view, r, e) ==
  FlattenSeq([k \in DOMAIN Sections[view] |-> FamilyFacts(view, Sections[view][k], r, e)])

LEMMA UncappedFacts ==
  ASSUME NEW view \in CopilotViews, NEW r \in Results, NEW e
  PROVE  /\ Uncapped(view, r, e) \in Seq(Gathered(view, r, e))
         /\ Sections[view] # << >> =>
              Extends(Uncapped(view, r, e), FamilyFacts(view, Sections[view][1], r, e), Gathered(view, r, e))
<1> DEFINE X == Gathered(view, r, e)
           list == Sections[view]
           n == Len(list)
           ss == [k \in DOMAIN list |-> FamilyFacts(view, list[k], r, e)]
<1>1. list \in Seq(Families)
  BY SectionsType
<1>2. n \in Nat /\ DOMAIN list = 1..n /\ (\A k \in 1..n : list[k] \in Families) /\ (list # << >> => 1 \in 1..n)
  BY <1>1
<1>3. \A k \in 1..n : ss[k] \in Seq(X)
  <2> TAKE k \in 1..n
  <2>1. FamilyFacts(view, list[k], r, e) \in Seq(KeptFacts(view, list[k], r, e))
    BY <1>2, FactsOfFamily
  <2>2. KeptFacts(view, list[k], r, e) \subseteq X
    BY DEF KeptFacts, Gathered
  <2>3. ss[k] = FamilyFacts(view, list[k], r, e)
    BY <1>2
  <2> DEFINE s == ss[k]
             K == KeptFacts(view, list[k], r, e)
  <2>4. s \in Seq(K) /\ K \subseteq X
    BY <2>1, <2>2, <2>3
  <2> HIDE DEF s, K, X
  <2>5. s \in Seq(X)
    BY <2>4
  <2> QED BY <2>5 DEF s
<1>4. ss = [k \in 1..n |-> ss[k]]
  BY <1>2
<1>5. Uncapped(view, r, e) = FlattenSeq(ss)
  BY DEF Uncapped
<1>6. list # << >> => ss[1] = FamilyFacts(view, list[1], r, e)
  BY <1>2
<1> HIDE DEF ss, list, n, X
<1>7. ss \in [1..n -> Seq(X)]
  BY <1>3, <1>4
<1>8. FlattenSeq(ss) \in Seq(X)
  BY <1>2, <1>7, FlattenItems
<1>9. list # << >> => Extends(FlattenSeq(ss), ss[1], X)
  <2>1. \A i \in 1..1 - 1 : ss[i] = << >>
    OBVIOUS
  <2> QED BY <1>2, <1>7, <2>1, FlattenItems
<1> QED BY <1>5, <1>6, <1>8, <1>9 DEF list, X

\* Those that are kept.
LEMMA CollectedFacts ==
  ASSUME NEW view \in CopilotViews, NEW r \in Results, NEW e
  PROVE  /\ Collected(view, r, e) \in Seq(Gathered(view, r, e))
         /\ Len(Collected(view, r, e)) \in Nat
         /\ Len(Collected(view, r, e)) <= Len(Uncapped(view, r, e))
         /\ \A i \in 1..Len(Collected(view, r, e)) : Collected(view, r, e)[i] = Uncapped(view, r, e)[i]
<1> DEFINE all == Uncapped(view, r, e)
           X == Gathered(view, r, e)
           m == IF Len(all) < MaxFacts THEN Len(all) ELSE MaxFacts
<1>1. Collected(view, r, e) = SubSeq(all, 1, m)
  BY DEF Collected, Uncapped
<1>2. all \in Seq(X)
  BY UncappedFacts
<1> HIDE DEF all, X
<1>3. Len(all) \in Nat /\ m \in Nat /\ m <= Len(all)
  BY <1>2, CopilotResults
<1> HIDE DEF m
<1>4. SubSeq(all, 1, m) \in Seq(X) /\ Len(SubSeq(all, 1, m)) = m
  BY <1>2, <1>3
<1>5. \A i \in 1..m : SubSeq(all, 1, m)[i] = all[i]
  BY <1>2, <1>3
<1> QED BY <1>1, <1>3, <1>4, <1>5 DEF all, X

\* The comparison is of the compared scenario.
Compared(r, e) ==
  {x \in Known(r) : x.key = "comparison" /\ (x.family = "scenarios" => x.index = ComparedScenario(r, e))}

LEMMA ComparisonFacts ==
  ASSUME NEW view, NEW r \in Results, NEW e
  PROVE  /\ Comparisons(view, r, e) \in Seq(Compared(r, e))
         /\ Comparisons(view, r, e) # << >> /\ view = "scenarios" => ComparedScenario(r, e) \in DOMAIN r["scenarios"]
<1> DEFINE f == IF view = "overview" THEN "metrics" ELSE "scenarios"
           i == IF view = "overview" THEN 1 ELSE ComparedScenario(r, e)
           c == [family |-> f, index |-> i, key |-> "comparison", value |-> NoEntity]
           X == Compared(r, e)
<1>1. CASE /\ view \in {"overview", "scenarios"} /\ i \in DOMAIN r[f] /\ r[f][i].tail > r[f][i].aal
  <2>1. Comparisons(view, r, e) = <<c>>
    BY <1>1 DEF Comparisons
  <2>2. f \in Families
    BY DEF Families
  <2>3. i \in Nat
    BY <1>1, <2>2, CopilotResults
  <2>4. c \in X
    BY <2>2, <2>3 DEF Compared, Known, Values
  <2>5. view = "scenarios" => ComparedScenario(r, e) \in DOMAIN r["scenarios"]
    BY <1>1
  <2> HIDE DEF c, X
  <2> QED BY <2>1, <2>4, <2>5 DEF X
<1>2. CASE ~(/\ view \in {"overview", "scenarios"} /\ i \in DOMAIN r[f] /\ r[f][i].tail > r[f][i].aal)
  <2>1. Comparisons(view, r, e) = << >>
    BY <1>2 DEF Comparisons
  <2> HIDE DEF X
  <2> QED BY <2>1 DEF X
<1> QED BY <1>1, <1>2

\* What a question is answered from: indexed facts of the view.
LEMMA FactsOfView ==
  ASSUME NEW view \in CopilotViews, NEW r \in Results, NEW e
  PROVE  Collected(view, r, e) \o Comparisons(view, r, e) \in Seq(Known(r))
<1> DEFINE X == Known(r)
           G == Gathered(view, r, e)
           C == Compared(r, e)
           s == Collected(view, r, e)
           t == Comparisons(view, r, e)
<1>1. G \subseteq X /\ C \subseteq X
  BY DEF Gathered, Compared
<1>2. s \in Seq(G) /\ t \in Seq(C)
  BY CollectedFacts, ComparisonFacts
<1> HIDE DEF X, G, C, s, t
<1>3. s \in Seq(X) /\ t \in Seq(X)
  BY <1>1, <1>2
<1>4. s \o t \in Seq(X)
  BY <1>3, JoinedItems
<1> QED BY <1>4 DEF X, s, t

\* Claims of one kind.
LEMMA SayingOf ==
  ASSUME NEW kind, NEW claims, NEW n
  PROVE  n \in Saying(kind, claims) <=> \E c \in claims : c.claim = kind /\ c.of = n
BY DEF Saying

\* The first of some facts is one of them.
LEMMA FirstIn ==
  ASSUME NEW X, facts \in Seq(X), NEW S, S \subseteq DOMAIN facts, S # {}
  PROVE  /\ First(S) \in S /\ \A j \in S : First(S) <= j
         /\ First(S) \in FirstOf(S)
<1>1. S \subseteq Nat
  OBVIOUS
<1>2. \E i \in S : \A j \in S : i <= j
  BY <1>1, LeastNatural
<1>3. First(S) \in S /\ \A j \in S : First(S) <= j
  BY <1>2 DEF First
<1> QED BY <1>3 DEF FirstOf

\* An answer backed by facts: ShownIsGrounded's say on one reply.
Backed(fs, view, r) ==
  /\ \A n \in Saying("number", r.claims) :
       \E i \in r.cites : IsNumeric(fs[i]) /\ fs[i].value = n
  /\ view = "attack_paths" =>
       \A s \in Saying("state", r.claims) :
         \E i \in DOMAIN fs : fs[i].key = "state" /\ fs[i].value = s
  /\ \A i \in DOMAIN fs :
       fs[i].key = "name" /\ fs[i].value \in Saying("rank", r.claims)
         => \E j \in r.cites : IsLabelled(fs[j]) /\ fs[j].value = fs[i].value
  /\ Saying("comparison", r.claims) # {} => \E i \in r.cites : fs[i].key = "comparison"
  /\ r.cites \subseteq DOMAIN fs

\* Silence needs no backing.
LEMMA SilenceBacked ==
  ASSUME NEW view, NEW r, r.claims = {}, r.cites \subseteq DOMAIN facts
  PROVE  Backed(facts, view, r)
<1>1. \A kind : Saying(kind, r.claims) = {}
  BY SayingOf
<1> QED BY <1>1 DEF Backed

\* What verify_response accepts is backed.
LEMMA AcceptedBacked ==
  ASSUME NEW view, NEW claims, NEW cites, Reasons(view, claims, cites) = {}
  PROVE  Backed(facts, view, [by |-> "model", claims |-> claims, cites |-> cites])
<1> DEFINE cited == {facts[i] : i \in cites \cap DOMAIN facts}
           ranks == {f.value : f \in {g \in cited : IsLabelled(g)}}
           named == Saying("name", claims) \cup Saying("rank", claims)
           entities == {f.value : f \in {g \in Range(facts) : g.key = "name"}}
<1>1. /\ cites \subseteq DOMAIN facts
      /\ \A n \in Saying("number", claims) : \E f \in cited : IsNumeric(f) /\ f.value = n
      /\ Saying("rank", claims) # {} => ranks # {} /\ named \cap entities \subseteq ranks
      /\ Saying("comparison", claims) # {} => \E f \in cited : f.key = "comparison"
      /\ view = "attack_paths" =>
           Saying("state", claims) \subseteq {f.value : f \in {g \in cited : g.key = "state"}}
  BY DEF Reasons
<1>2. \A f \in cited : \E i \in cites : i \in DOMAIN facts /\ f = facts[i]
  OBVIOUS
<1>3. \A n \in Saying("number", claims) : \E i \in cites : IsNumeric(facts[i]) /\ facts[i].value = n
  BY <1>1, <1>2
<1>4. view = "attack_paths" =>
        \A s \in Saying("state", claims) : \E i \in DOMAIN facts : facts[i].key = "state" /\ facts[i].value = s
  BY <1>1, <1>2
<1>5. ASSUME NEW i \in DOMAIN facts, facts[i].key = "name", facts[i].value \in Saying("rank", claims)
      PROVE  \E j \in cites : IsLabelled(facts[j]) /\ facts[j].value = facts[i].value
  <2>1. facts[i].value \in named \cap entities
    BY <1>5 DEF Range
  <2>2. facts[i].value \in ranks
    BY <1>1, <1>5, <2>1
  <2>3. PICK f \in cited : IsLabelled(f) /\ f.value = facts[i].value
    BY <2>2
  <2> QED BY <1>2, <2>3
<1>6. Saying("comparison", claims) # {} => \E i \in cites : facts[i].key = "comparison"
  BY <1>1, <1>2
<1> QED BY <1>1, <1>3, <1>4, <1>5, <1>6 DEF Backed

\* Every canned answer is.
LEMMA OverviewBacked ==
  ASSUME NEW X, facts \in Seq(X), NEW a \in OverviewAnswer
  PROVE  Backed(facts, "overview", a)
<1> DEFINE of(k) == FactsOf({k}, {"metrics"})
           claims == {Number(facts[First(of(k))].value) : k \in {"tail", "aal"}} \cup {Greater}
           cites == {First(of(k)) : k \in {"tail", "aal", "comparison"}}
<1>1. (\A k \in {"tail", "aal", "comparison"} : of(k) # {}) /\ a = Canned(claims, cites)
  BY DEF OverviewAnswer
<1>2. \A k \in {"tail", "aal", "comparison"} : of(k) \subseteq DOMAIN facts
  BY DEF FactsOf
<1>3. \A k \in {"tail", "aal", "comparison"} : First(of(k)) \in of(k)
  <2> TAKE k \in {"tail", "aal", "comparison"}
  <2> DEFINE S == of(k)
  <2>1. S \subseteq DOMAIN facts /\ S # {}
    BY <1>1, <1>2
  <2> HIDE DEF S
  <2> QED BY <2>1, FirstIn DEF S
<1>4. \A k \in {"tail", "aal", "comparison"} :
        First(of(k)) \in DOMAIN facts /\ facts[First(of(k))].key = k
  BY <1>3 DEF FactsOf
<1> HIDE DEF of
<1>5. \A n \in Saying("number", claims) : \E i \in cites : IsNumeric(facts[i]) /\ facts[i].value = n
  <2> TAKE n \in Saying("number", claims)
  <2>1. PICK c \in claims : c.claim = "number" /\ c.of = n
    BY SayingOf
  <2>2. PICK k \in {"tail", "aal"} : c = Number(facts[First(of(k))].value)
    BY <2>1 DEF Greater
  <2>3. n = facts[First(of(k))].value
    BY <2>1, <2>2 DEF Number
  <2> QED BY <1>4, <2>3 DEF IsNumeric
<1>6. Saying("rank", claims) = {} /\ Saying("state", claims) = {}
  BY SayingOf DEF Number, Greater
<1>7. \E i \in cites : facts[i].key = "comparison"
  BY <1>4
<1>8. cites \subseteq DOMAIN facts
  BY <1>4
<1>9. a.claims = claims /\ a.cites = cites
  BY <1>1 DEF Canned
<1> HIDE DEF claims, cites
<1> QED BY <1>5, <1>6, <1>7, <1>8, <1>9 DEF Backed

LEMMA TopBacked ==
  ASSUME NEW X, facts \in Seq(X), NEW view, view # "attack_paths", NEW families, NEW a \in TopAnswer(families)
  PROVE  Backed(facts, view, a)
<1> DEFINE top(f) == First(Labels({f}))
           claims == {Ranked(facts[top(f)].value) : f \in families}
           cites == {top(f) : f \in families}
<1>1. (\A f \in families : Labels({f}) # {}) /\ a = Canned(claims, cites)
  BY DEF TopAnswer
<1>2. \A f \in families : top(f) \in Labels({f})
  <2> TAKE f \in families
  <2> DEFINE S == Labels({f})
  <2>1. S \subseteq DOMAIN facts /\ S # {}
    BY <1>1 DEF Labels, FactsOf
  <2> HIDE DEF S
  <2> QED BY <2>1, FirstIn DEF S
<1>3. \A f \in families : top(f) \in DOMAIN facts /\ IsLabelled(facts[top(f)])
  BY <1>2 DEF Labels, FactsOf
<1> HIDE DEF top
<1>4. \A kind : kind # "rank" => Saying(kind, claims) = {}
  BY SayingOf DEF Ranked
<1>5. \A n \in Saying("rank", claims) : \E j \in cites : IsLabelled(facts[j]) /\ facts[j].value = n
  <2> TAKE n \in Saying("rank", claims)
  <2>1. PICK c \in claims : c.claim = "rank" /\ c.of = n
    BY SayingOf
  <2>2. PICK f \in families : c = Ranked(facts[top(f)].value)
    BY <2>1
  <2>3. n = facts[top(f)].value
    BY <2>1, <2>2 DEF Ranked
  <2> QED BY <1>3, <2>3
<1>6. cites \subseteq DOMAIN facts
  BY <1>3
<1>7. a.claims = claims /\ a.cites = cites
  BY <1>1 DEF Canned
<1> HIDE DEF claims, cites
<1> QED BY <1>4, <1>5, <1>6, <1>7 DEF Backed

LEMMA ScenarioBacked ==
  ASSUME NEW X, facts \in Seq(X), NEW a \in ScenarioAnswer
  PROVE  Backed(facts, "scenarios", a)
<1> DEFINE label == Labels({"scenarios"})
           name == IF label # {} THEN label ELSE FactsOf({"name"}, Families)
           tail == FactsOf({"tail"}, {"scenarios"})
           aal == FactsOf({"aal"}, {"scenarios"})
           compared == FactsOf({"comparison"}, {"scenarios"})
           claims == {Named(facts[First(name)].value), Number(facts[First(tail)].value),
                      Number(facts[First(aal)].value)}
                     \cup (IF label # {} THEN {Ranked(facts[First(name)].value)} ELSE {})
                     \cup (IF compared # {} THEN {Greater} ELSE {})
           cites == {First(name), First(tail), First(aal)} \cup compared
<1>1. name # {} /\ tail # {} /\ aal # {} /\ a = Canned(claims, cites)
  BY DEF ScenarioAnswer
<1>2. /\ name \subseteq DOMAIN facts /\ tail \subseteq DOMAIN facts /\ aal \subseteq DOMAIN facts
      /\ compared \subseteq DOMAIN facts
  BY DEF FactsOf, Labels
<1>3. /\ \A i \in tail : facts[i].key = "tail"
      /\ \A i \in aal : facts[i].key = "aal"
      /\ \A i \in compared : facts[i].key = "comparison"
      /\ \A i \in label : IsLabelled(facts[i])
      /\ label # {} => name = label
  BY DEF FactsOf, Labels
<1> HIDE DEF label, name, tail, aal, compared
<1>4. First(name) \in name /\ First(tail) \in tail /\ First(aal) \in aal
  BY <1>1, <1>2, FirstIn
<1>5. ASSUME NEW n \in Saying("number", claims)
      PROVE  \E i \in cites : IsNumeric(facts[i]) /\ facts[i].value = n
  <2>1. PICK c \in claims : c.claim = "number" /\ c.of = n
    BY SayingOf
  <2>2. c = Number(facts[First(tail)].value) \/ c = Number(facts[First(aal)].value)
    BY <2>1 DEF Named, Ranked, Greater
  <2>3. n = facts[First(tail)].value \/ n = facts[First(aal)].value
    BY <2>1, <2>2 DEF Number
  <2> QED BY <1>3, <1>4, <2>3 DEF IsNumeric
<1>6. ASSUME NEW n \in Saying("rank", claims)
      PROVE  \E j \in cites : IsLabelled(facts[j]) /\ facts[j].value = n
  <2>1. PICK c \in claims : c.claim = "rank" /\ c.of = n
    BY SayingOf
  <2>2. label # {} /\ c = Ranked(facts[First(name)].value)
    BY <2>1 DEF Named, Number, Greater
  <2>3. n = facts[First(name)].value /\ IsLabelled(facts[First(name)])
    BY <1>3, <1>4, <2>1, <2>2 DEF Ranked
  <2> QED BY <2>3
<1>7. Saying("comparison", claims) # {} => \E i \in cites : facts[i].key = "comparison"
  <2>1. ASSUME NEW c \in claims, c.claim = "comparison" PROVE compared # {}
    <3>1. CASE compared = {}
      <4>1. \E e : c \in {Named(e), Number(e), Ranked(e)}
        BY <3>1
      <4> QED BY <2>1, <4>1 DEF Named, Number, Ranked
    <3> QED BY <3>1
  <2>2. ASSUME NEW n \in Saying("comparison", claims) PROVE compared # {}
    <3> HIDE DEF claims
    <3>1. \E c \in claims : c.claim = "comparison" /\ c.of = n
      BY SayingOf
    <3> QED BY <2>1, <3>1
  <2> QED BY <1>3, <2>2
<1>8. cites \subseteq DOMAIN facts
  BY <1>2, <1>4
<1>9. a.claims = claims /\ a.cites = cites
  BY <1>1 DEF Canned
<1> HIDE DEF claims, cites
<1> QED BY <1>5, <1>6, <1>7, <1>8, <1>9 DEF Backed

LEMMA NoBenefitBacked ==
  ASSUME NEW X, facts \in Seq(X), NEW view, view # "attack_paths", NEW a \in NoBenefitAnswer
  PROVE  Backed(facts, view, a)
<1> DEFINE amounts == FactsOf({"tail", "aal"}, Families)
           names == FactsOf({"name"}, Families)
           claims == {Number(0)} \cup {Named(facts[i].value) : i \in FirstOf(names)}
           cites == FirstOf(amounts) \cup FirstOf(names)
<1>1. amounts # {} /\ (\A i \in amounts : facts[i].value = 0) /\ a = Canned(claims, cites)
  BY DEF NoBenefitAnswer
<1>2. amounts \subseteq DOMAIN facts /\ names \subseteq DOMAIN facts
      /\ \A i \in amounts : IsNumeric(facts[i])
  BY DEF FactsOf, IsNumeric
<1> HIDE DEF amounts, names
<1>3. First(amounts) \in amounts /\ First(amounts) \in FirstOf(amounts)
  BY <1>1, <1>2, FirstIn
<1>4. \A n \in Saying("number", claims) : n = 0
  BY SayingOf DEF Number, Named
<1>5. \A n \in Saying("number", claims) : \E i \in cites : IsNumeric(facts[i]) /\ facts[i].value = n
  BY <1>1, <1>2, <1>3, <1>4
<1>6. Saying("rank", claims) = {} /\ Saying("comparison", claims) = {}
  BY SayingOf DEF Number, Named
<1>7. cites \subseteq DOMAIN facts
  BY <1>2 DEF FirstOf
<1>8. a.claims = claims /\ a.cites = cites
  BY <1>1 DEF Canned
<1> HIDE DEF claims, cites
<1> QED BY <1>5, <1>6, <1>7, <1>8 DEF Backed

LEMMA GapBacked ==
  ASSUME NEW X, facts \in Seq(X), NEW view, NEW present, NEW a \in GapAnswer(present)
  PROVE  Backed(facts, view, a)
<1>a. a = Canned({}, IF facts = << >> THEN {} ELSE {1})
  BY DEF GapAnswer
<1>1. a.claims = {} /\ a.cites = IF facts = << >> THEN {} ELSE {1}
  BY <1>a DEF Canned
<1>2. facts # << >> => 1 \in DOMAIN facts
  OBVIOUS
<1> QED BY <1>1, <1>2, SilenceBacked

LEMMA CannedByTheService ==
  ASSUME NEW claims, NEW cites
  PROVE  Canned(claims, cites).by = "canned"
BY DEF Canned

LEMMA CannedBacked ==
  ASSUME NEW X, facts \in Seq(X), asked.view \in CopilotViews, NEW a \in CannedAnswers
  PROVE  Backed(facts, asked.view, a) /\ a.by = "canned"
<1>1. asked.view \in {"overview", "risk_drivers", "scenarios", "attack_paths", "business_impact",
                     "treatment", "evidence"}
  BY DEF CopilotViews, Sections
<1>2. asked.topic = "standard"
  BY DEF CannedAnswers
<1>3. CASE asked.view = "overview"
  <2>1. a \in OverviewAnswer
    BY <1>2, <1>3 DEF CannedAnswers
  <2> QED BY <1>3, <2>1, OverviewBacked DEF OverviewAnswer, Canned
<1>4. CASE asked.view = "risk_drivers"
  <2> DEFINE s == {"actors", "scenarios", "drivers"}
  <2>1. a \in TopAnswer(s)
    BY <1>2, <1>4 DEF CannedAnswers
  <2> HIDE DEF s
  <2>2. a.by = "canned"
    BY <2>1, CannedByTheService DEF TopAnswer
  <2> QED BY <1>4, <2>1, <2>2, TopBacked
<1>5. CASE asked.view = "scenarios"
  <2>1. a \in ScenarioAnswer
    BY <1>2, <1>5 DEF CannedAnswers
  <2> QED BY <1>5, <2>1, ScenarioBacked DEF ScenarioAnswer, Canned
<1>6. CASE asked.view = "attack_paths"
  <2> DEFINE s == FactsOf({"state"}, Families)
  <2>1. a \in GapAnswer(s)
    BY <1>2, <1>6 DEF CannedAnswers
  <2> HIDE DEF s
  <2>2. a.by = "canned"
    BY <2>1, CannedByTheService DEF GapAnswer
  <2> QED BY <1>6, <2>1, <2>2, GapBacked
<1>7. CASE asked.view = "business_impact"
  <2> DEFINE s == {"categories", "drivers"}
  <2>1. a \in TopAnswer(s)
    BY <1>2, <1>7 DEF CannedAnswers
  <2> HIDE DEF s
  <2>2. a.by = "canned"
    BY <2>1, CannedByTheService DEF TopAnswer
  <2> QED BY <1>7, <2>1, <2>2, TopBacked
<1>8. CASE asked.view = "treatment"
  <2>1. a \in NoBenefitAnswer
    BY <1>2, <1>8 DEF CannedAnswers
  <2>2. a.by = "canned"
    BY <2>1, CannedByTheService DEF NoBenefitAnswer
  <2> QED BY <1>8, <2>1, <2>2, NoBenefitBacked
<1>9. CASE asked.view = "evidence"
  <2> DEFINE s == Labels(Families)
  <2>1. a \in GapAnswer(s)
    BY <1>2, <1>9 DEF CannedAnswers
  <2> HIDE DEF s
  <2>2. a.by = "canned"
    BY <2>1, CannedByTheService DEF GapAnswer
  <2> QED BY <1>9, <2>1, <2>2, GapBacked
<1> QED BY <1>1, <1>3, <1>4, <1>5, <1>6, <1>7, <1>8, <1>9

\* The scenario a view of the scenarios is about: the first kept, which is the
\* selected one if there is one, and the one the comparison is about.
Own(list, e) == {i \in DOMAIN list : list[i].name = e}

LEMMA KeptScenarios ==
  ASSUME NEW r \in Results, NEW e, KeptItems("scenarios", "scenarios", r, e) # {}
  PROVE  \E k \in KeptItems("scenarios", "scenarios", r, e) :
           /\ \A j \in KeptItems("scenarios", "scenarios", r, e) : k <= j
           /\ k = ComparedScenario(r, e)
           /\ Own(r["scenarios"], e) # {} => k \in Own(r["scenarios"], e)
<1> DEFINE list == r["scenarios"]
           all == DOMAIN list
           own == Own(list, e)
           kept == KeptItems("scenarios", "scenarios", r, e)
           few(items) == {i \in items : Cardinality({j \in items : j <= i}) <= Listed("scenarios")}
<1>1. "scenarios" \in Families /\ "scenarios" \notin Nameless
  BY DEF Families, Nameless
<1>2. /\ list \in Seq(Range(list)) /\ Listed("scenarios") \in Nat \ {0}
      /\ \A i, j \in all : list[i].name # NoEntity /\ (list[i].name = list[j].name => i = j)
  BY <1>1, CopilotResults DEF Listed
<1>3. Len(list) \in Nat /\ all = 1..Len(list)
  BY <1>2
<1>4. /\ e = NoEntity => kept = few(all)
      /\ e # NoEntity => \A i \in kept : i \in all /\ list[i].name \in {NoEntity, e}
  BY <1>1 DEF KeptItems
<1>5. ComparedScenario(r, e) = IF own = {} THEN 1 ELSE CHOOSE i \in own : TRUE
  BY <1>3 DEF ComparedScenario, Own
<1>6. CASE e = NoEntity
  <2>1. own = {}
    BY <1>2, <1>6 DEF Own
  <2>2. all # {} /\ kept \subseteq all
    BY <1>4, <1>6
  <2>3. 1 \in all
    BY <1>3, <2>2
  <2>4. {j \in all : j <= 1} = {1}
    BY <1>3, <2>3
  <2>5. Cardinality({1}) = 1
    BY FS_Singleton
  <2>6. 1 \in kept
    BY <1>2, <1>4, <1>6, <2>3, <2>4, <2>5
  <2>7. \A j \in kept : 1 <= j
    BY <1>3, <2>2
  <2>8. ComparedScenario(r, e) = 1
    BY <1>5, <2>1
  <2> HIDE DEF kept, own
  <2> QED BY <2>1, <2>6, <2>7, <2>8 DEF kept, own
<1>7. CASE e # NoEntity
  <2>1. PICK k \in kept : TRUE
    OBVIOUS
  <2>2. \A i \in kept : i \in own
    BY <1>2, <1>4, <1>7 DEF Own
  <2>3. \A i \in own : i = k
    BY <1>2, <2>1, <2>2 DEF Own
  <2>4. k \in own /\ k \in Nat
    BY <1>3, <2>1, <2>2 DEF Own
  <2>5. ComparedScenario(r, e) = k
    BY <1>5, <2>3, <2>4
  <2>6. \A j \in kept : k <= j
    BY <2>2, <2>3, <2>4
  <2> HIDE DEF kept, own
  <2> QED BY <2>1, <2>4, <2>5, <2>6 DEF kept, own
<1> QED BY <1>6, <1>7

\* Such a view starts with that scenario's tail, AAL and name.
LEMMA ScenarioFirst ==
  ASSUME NEW r \in Results, NEW e, NEW k \in KeptItems("scenarios", "scenarios", r, e),
         \A j \in KeptItems("scenarios", "scenarios", r, e) : k <= j
  PROVE  \A i \in {1, 2, 3} : i <= Len(Collected("scenarios", r, e)) =>
           /\ Collected("scenarios", r, e)[i].index = k
           /\ Collected("scenarios", r, e)[i].key = <<"tail", "aal", "name">>[i]
           /\ Collected("scenarios", r, e)[i].family = "scenarios"
<1> DEFINE f == "scenarios"
           v == "scenarios"
           F == Facts(f, k, r)
           K == KeptFacts(v, f, r, e)
           G == Gathered(v, r, e)
           one == ItemFacts(f, k, r[f][k])
           own == FamilyFacts(v, f, r, e)
           all == Uncapped(v, r, e)
           s == Collected(v, r, e)
<1>1. v \in CopilotViews /\ Sections[v] # << >> /\ Sections[v][1] = f /\ f \in Families /\ f # "metrics"
  BY DEF CopilotViews, Sections, Families
<1>2. k \in DOMAIN r[f]
  BY KeptType
<1>3. /\ one \in Seq(F) /\ Len(one) \in Nat \ {0, 1, 2}
      /\ one[1].key = "tail" /\ one[2].key = "aal" /\ one[3].key = "name"
  BY <1>1, <1>2, ItemFactsType
<1>4. Extends(own, one, K)
  BY <1>1, FamilyStarts
<1>5. Extends(all, own, G)
  BY <1>1, UncappedFacts
<1>6. own \in Seq(K)
  BY <1>1, FactsOfFamily
<1>7. F \subseteq K /\ K \subseteq G
  BY <1>1, <1>2, CopilotResults DEF Facts, Known, KeptFacts, Gathered
<1>8. Len(s) \in Nat /\ \A i \in 1..Len(s) : s[i] = all[i]
  BY <1>1, CollectedFacts
<1>9. \A x \in F : x.family = f /\ x.index = k
  BY DEF Facts
<1> HIDE DEF F, K, G, one, own, all, s
<1>10. one \in Seq(K) /\ own \in Seq(G)
  BY <1>3, <1>6, <1>7
<1>11. \A i \in 1..Len(one) : own[i] = one[i] /\ i \in 1..Len(own)
  <2>1. PICK u \in Seq(K) : own = one \o u
    BY <1>4, Zenon DEF Extends
  <2>2. /\ Len(u) \in Nat /\ Len(one) \in Nat /\ Len(own) = Len(one) + Len(u)
        /\ \A i \in 1..Len(one) : own[i] = one[i]
    BY <1>10, <2>1, JoinedItems
  <2> QED BY <2>2
<1>12. \A i \in 1..Len(own) : all[i] = own[i]
  <2>1. PICK u \in Seq(G) : all = own \o u
    BY <1>5, Zenon DEF Extends
  <2> QED BY <1>10, <2>1, JoinedItems
<1>13. \A i \in {1, 2, 3} : i \in 1..Len(one) /\ one[i] \in F
  <2>1. \A i \in 1..Len(one) : one[i] \in F
    BY <1>3, ElementOfSeq
  <2>2. \A i \in {1, 2, 3} : i \in 1..Len(one)
    <3> DEFINE n == Len(one)
    <3>1. n \in Nat \ {0, 1, 2}
      BY <1>3
    <3> HIDE DEF n
    <3>2. \A i \in {1, 2, 3} : i \in 1..n
      BY <3>1
    <3> QED BY <3>2 DEF n
  <2> QED BY <2>1, <2>2
<1>14. \A i \in {1, 2, 3} : i <= Len(s) => s[i] = one[i]
  BY <1>8, <1>11, <1>12, <1>13
<1>15. \A i \in {1, 2, 3} : i <= Len(s) => s[i].index = k /\ s[i].family = f
  BY <1>9, <1>13, <1>14
<1>16. \A i \in {1, 2, 3} : i <= Len(s) => s[i].key = <<"tail", "aal", "name">>[i]
  BY <1>3, <1>14
<1> QED BY <1>15, <1>16 DEF s

\* The facts before the comparison are of the kept scenario's family alone or
\* compare nothing; those after it compare.
LEMMA ScenarioParts ==
  ASSUME NEW r \in Results, NEW e, facts = Collected("scenarios", r, e) \o Comparisons("scenarios", r, e)
  PROVE  /\ Len(Collected("scenarios", r, e)) \in Nat
         /\ \A i \in DOMAIN facts : facts[i].key # "comparison" =>
              /\ i \in 1..Len(Collected("scenarios", r, e)) /\ facts[i] = Collected("scenarios", r, e)[i]
              /\ facts[i].family = "scenarios" => facts[i].index \in KeptItems("scenarios", "scenarios", r, e)
         /\ \A i \in DOMAIN facts : facts[i].key = "comparison" /\ facts[i].family = "scenarios" =>
              facts[i].index = ComparedScenario(r, e)
         /\ \A i \in 1..Len(Collected("scenarios", r, e)) :
              i \in DOMAIN facts /\ facts[i] = Collected("scenarios", r, e)[i]
<1> DEFINE v == "scenarios"
           G == Gathered(v, r, e)
           C == Compared(r, e)
           X == Known(r)
           s == Collected(v, r, e)
           t == Comparisons(v, r, e)
           kept == KeptItems("scenarios", "scenarios", r, e)
<1>1. v \in CopilotViews
  BY DEF CopilotViews, Sections
<1>2. s \in Seq(G) /\ Len(s) \in Nat /\ t \in Seq(C)
  BY <1>1, CollectedFacts, ComparisonFacts
<1>3. G \subseteq X /\ C \subseteq X
  BY DEF Gathered, Compared
<1>4. /\ \A x \in G : x.key # "comparison" /\ (x.family = "scenarios" => x.index \in kept)
      /\ \A x \in C : x.key = "comparison" /\ (x.family = "scenarios" => x.index = ComparedScenario(r, e))
  BY DEF Gathered, Compared
<1>5. facts = s \o t
  OBVIOUS
<1> HIDE DEF G, C, X, s, t, kept
<1>6. s \in Seq(X) /\ t \in Seq(X)
  BY <1>2, <1>3
<1>7. /\ facts \in Seq(X) /\ Len(t) \in Nat /\ Len(facts) = Len(s) + Len(t)
      /\ \A i \in 1..Len(s) : facts[i] = s[i]
      /\ \A j \in 1..Len(t) : facts[Len(s) + j] = t[j]
  <2>1. s \o t \in Seq(X) /\ Len(t) \in Nat /\ Len(s \o t) = Len(s) + Len(t)
    BY <1>6, JoinedItems
  <2>2. \A i \in 1..Len(s) : (s \o t)[i] = s[i]
    BY <1>6, JoinedItems
  <2>3. \A j \in 1..Len(t) : (s \o t)[Len(s) + j] = t[j]
    BY <1>6, JoinedItems
  <2> QED BY <1>5, <2>1, <2>2, <2>3
<1>8. \A i \in 1..Len(s) : i \in DOMAIN facts /\ facts[i] = s[i] /\ s[i] \in G
  <2>1. \A i \in 1..Len(s) : s[i] \in G
    BY <1>2
  <2>2. DOMAIN facts = 1..Len(s) + Len(t)
    BY <1>7
  <2> QED BY <1>2, <1>7, <2>1, <2>2
<1>9. \A i \in DOMAIN facts : i \in 1..Len(s) \/ facts[i] \in C
  <2> TAKE i \in DOMAIN facts
  <2>1. i \in 1..Len(s) + Len(t)
    BY <1>7
  <2>2. ASSUME i \notin 1..Len(s) PROVE facts[i] \in C
    <3>1. i - Len(s) \in 1..Len(t) /\ i = Len(s) + (i - Len(s))
      BY <1>2, <1>7, <2>1, <2>2
    <3>2. facts[i] = t[i - Len(s)]
      BY <1>7, <3>1
    <3>3. \A j \in 1..Len(t) : t[j] \in C
      BY <1>2
    <3> QED BY <3>1, <3>2, <3>3
  <2> QED BY <2>2
<1>10. ASSUME NEW i \in DOMAIN facts, facts[i].key # "comparison"
       PROVE  i \in 1..Len(s) /\ facts[i] = s[i] /\ (facts[i].family = "scenarios" => facts[i].index \in kept)
  <2>1. i \in 1..Len(s)
    BY <1>4, <1>9, <1>10
  <2> QED BY <1>4, <1>8, <2>1
<1>11. ASSUME NEW i \in DOMAIN facts, facts[i].key = "comparison", facts[i].family = "scenarios"
       PROVE  facts[i].index = ComparedScenario(r, e)
  <2>1. facts[i] \in C
    <3>1. CASE i \in 1..Len(s)
      BY <1>4, <1>8, <1>11, <3>1
    <3> QED BY <1>9, <3>1
  <2> QED BY <1>4, <1>11, <2>1
<1> QED BY <1>2, <1>8, <1>10, <1>11 DEF s, kept

\* What a scenario answer cites is about one scenario, the selected one if any.
AboutOne(fs, list, e, cites) ==
  \E k : {fs[i].index : i \in cites} = {k} /\ (Own(list, e) # {} => k \in Own(list, e))

LEMMA ScenarioAboutOne ==
  ASSUME NEW r \in Results, NEW e, facts = Collected("scenarios", r, e) \o Comparisons("scenarios", r, e),
         NEW a \in ScenarioAnswer
  PROVE  AboutOne(facts, r["scenarios"], e, a.cites)
<1> DEFINE label == Labels({"scenarios"})
           other == FactsOf({"name"}, Families)
           name == IF label # {} THEN label ELSE other
           tail == FactsOf({"tail"}, {"scenarios"})
           aal == FactsOf({"aal"}, {"scenarios"})
           compared == FactsOf({"comparison"}, {"scenarios"})
           cites == {First(name), First(tail), First(aal)} \cup compared
           s == Collected("scenarios", r, e)
           kept == KeptItems("scenarios", "scenarios", r, e)
           c == ComparedScenario(r, e)
<1>1. name # {} /\ tail # {} /\ aal # {} /\ a.cites = cites
  BY DEF ScenarioAnswer, Canned
<1>2. /\ label \subseteq DOMAIN facts /\ other \subseteq DOMAIN facts /\ tail \subseteq DOMAIN facts
      /\ aal \subseteq DOMAIN facts /\ compared \subseteq DOMAIN facts
      /\ \A i \in DOMAIN facts :
           /\ i \in tail <=> facts[i].key = "tail" /\ facts[i].family = "scenarios"
           /\ i \in aal <=> facts[i].key = "aal" /\ facts[i].family = "scenarios"
           /\ i \in compared <=> facts[i].key = "comparison" /\ facts[i].family = "scenarios"
           /\ i \in other <=> facts[i].key = "name" /\ facts[i].family \in Families
           /\ i \in label => facts[i].key = "name" /\ facts[i].family = "scenarios" /\ facts[i].index = 1
  BY DEF FactsOf, Labels, IsLabelled
<1>3. /\ Len(s) \in Nat
      /\ \A i \in DOMAIN facts : facts[i].key # "comparison" =>
           i \in 1..Len(s) /\ facts[i] = s[i] /\ (facts[i].family = "scenarios" => facts[i].index \in kept)
      /\ \A i \in DOMAIN facts : facts[i].key = "comparison" /\ facts[i].family = "scenarios" => facts[i].index = c
      /\ \A i \in 1..Len(s) : i \in DOMAIN facts /\ facts[i] = s[i]
  BY ScenarioParts
<1>4. facts \in Seq(Known(r))
  <2>1. "scenarios" \in CopilotViews
    BY DEF CopilotViews, Sections
  <2> QED BY <2>1, FactsOfView
<1>5. "scenarios" \in Families
  BY DEF Families
<1>6. kept \subseteq DOMAIN r["scenarios"] /\ DOMAIN r["scenarios"] \subseteq Nat \ {0}
  BY <1>5, KeptType, CopilotResults
<1>7. kept # {}
  <2>1. \E i \in tail : facts[i].index \in kept
    BY <1>1, <1>2, <1>3
  <2> QED BY <2>1
<1>8. PICK k \in kept : /\ \A j \in kept : k <= j
                        /\ k = c
                        /\ Own(r["scenarios"], e) # {} => k \in Own(r["scenarios"], e)
  BY <1>7, KeptScenarios
<1>9. \A i \in {1, 2, 3} : i <= Len(s) =>
        s[i].index = k /\ s[i].key = <<"tail", "aal", "name">>[i] /\ s[i].family = "scenarios"
  BY <1>8, ScenarioFirst
<1> HIDE DEF label, other, tail, aal, compared, s, kept, c
<1>10. /\ 1 <= Len(s) => s[1].key = "tail" /\ s[1].index = k /\ s[1].family = "scenarios"
       /\ 2 <= Len(s) => s[2].key = "aal" /\ s[2].index = k /\ s[2].family = "scenarios"
       /\ 3 <= Len(s) => s[3].key = "name" /\ s[3].index = k /\ s[3].family = "scenarios"
  BY <1>9
<1>11. /\ First(tail) \in tail /\ \A j \in tail : First(tail) <= j
       /\ First(aal) \in aal /\ \A j \in aal : First(aal) <= j
       /\ label # {} => First(label) \in label
       /\ other # {} => First(other) \in other /\ \A j \in other : First(other) <= j
  BY <1>1, <1>2, <1>4, FirstIn
<1>12. \A i \in tail \cup aal \cup other : i \in 1..Len(s) /\ facts[i] = s[i]
  BY <1>2, <1>3
<1>13. facts[First(tail)].index = k
  <2>1. First(tail) \in 1..Len(s) /\ 1 <= Len(s)
    BY <1>3, <1>11, <1>12
  <2>2. 1 \in tail
    BY <1>2, <1>3, <1>10, <2>1
  <2>3. First(tail) = 1
    BY <1>11, <2>1, <2>2
  <2> QED BY <1>3, <1>10, <2>1, <2>3
<1>14. facts[First(aal)].index = k
  <2>1. First(aal) \in 1..Len(s)
    BY <1>11, <1>12
  <2>2. First(aal) # 1
    BY <1>2, <1>3, <1>10, <1>11, <1>12, <2>1
  <2>3. 2 <= Len(s)
    BY <1>3, <2>1, <2>2
  <2>4. 2 \in aal
    BY <1>2, <1>3, <1>10, <2>3
  <2>5. First(aal) = 2
    BY <1>11, <2>1, <2>2, <2>4
  <2> QED BY <1>3, <1>10, <2>3, <2>5
<1>15. facts[First(name)].index = k
  <2>1. CASE label # {}
    <3>1. First(label) \in DOMAIN facts /\ facts[First(label)].index = 1 /\ facts[First(label)].index \in kept
      BY <1>2, <1>3, <1>11, <2>1
    <3>2. k <= 1 /\ k \in Nat \ {0}
      BY <1>6, <1>8, <3>1
    <3>3. First(name) = First(label)
      BY <2>1
    <3> QED BY <3>1, <3>2, <3>3
  <2>2. CASE label = {}
    <3>1. name = other /\ other # {}
      BY <1>1, <2>2
    <3>2. First(other) \in 1..Len(s) /\ facts[First(other)].key = "name" /\ facts[First(other)] = s[First(other)]
      BY <1>2, <1>11, <1>12, <3>1
    <3>3. First(other) # 1 /\ First(other) # 2
      BY <1>3, <1>10, <3>2
    <3>4. 3 <= Len(s)
      BY <1>3, <3>2, <3>3
    <3>5. 3 \in other
      BY <1>2, <1>3, <1>5, <1>10, <3>4
    <3>6. First(other) = 3
      BY <1>11, <3>1, <3>2, <3>3, <3>5
    <3>7. facts[3].index = k
      BY <1>3, <1>10, <3>4
    <3> HIDE DEF name
    <3> QED BY <3>1, <3>6, <3>7
  <2> QED BY <2>1, <2>2
<1>16. \A i \in compared : facts[i].index = k
  BY <1>2, <1>3, <1>8
<1> HIDE DEF name
<1>17. {facts[i].index : i \in cites} = {k}
  BY <1>13, <1>14, <1>15, <1>16
<1> QED BY <1>1, <1>8, <1>17 DEF AboutOne

-----------------------------------------------------------------------------
(* The copilot's invariant.                                                *)

\* What is shown is backed by the facts it was asked with, and a canned answer
\* about scenarios is about one of them.
CopilotInv ==
  /\ asked # Nobody =>
       /\ asked.view \in CopilotViews /\ asked.result \in Results
       /\ facts = Collected(asked.view, asked.result, asked.selected)
                    \o Comparisons(asked.view, asked.result, asked.selected)
  /\ Answered =>
       /\ asked # Nobody
       /\ Backed(facts, asked.view, reply)
       /\ asked.view = "scenarios" /\ reply.by = "canned" /\ reply.cites # {} =>
            AboutOne(facts, asked.result["scenarios"], asked.selected, reply.cites)

\* A reply that keeps it.
LEMMA Replied ==
  ASSUME CopilotInv, Open, UNCHANGED <<asked, facts>>, Backed(facts, asked.view, reply'),
         asked.view = "scenarios" /\ reply'.by = "canned" /\ reply'.cites # {} =>
           AboutOne(facts, asked.result["scenarios"], asked.selected, reply'.cites)
  PROVE  CopilotInv'
<1>1. asked' = asked /\ facts' = facts /\ asked # Nobody
  BY DEF Open
<1>2. /\ asked'.view \in CopilotViews /\ asked'.result \in Results
      /\ facts' = Collected(asked'.view, asked'.result, asked'.selected)
                    \o Comparisons(asked'.view, asked'.result, asked'.selected)
  BY <1>1, Zenon DEF CopilotInv
<1>3. /\ Backed(facts', asked'.view, reply')
      /\ asked'.view = "scenarios" /\ reply'.by = "canned" /\ reply'.cites # {} =>
           AboutOne(facts', asked'.result["scenarios"], asked'.selected, reply'.cites)
  BY <1>1, Zenon
<1>4. asked' # Nobody
  BY <1>1
<1> QED BY <1>2, <1>3, <1>4, Zenon DEF CopilotInv

LEMMA OpenFacts ==
  ASSUME CopilotInv, Open
  PROVE  /\ asked # Nobody /\ asked.view \in CopilotViews /\ asked.result \in Results
         /\ facts \in Seq(Known(asked.result))
         /\ facts = Collected(asked.view, asked.result, asked.selected)
                      \o Comparisons(asked.view, asked.result, asked.selected)
<1>1. /\ asked # Nobody /\ asked.view \in CopilotViews /\ asked.result \in Results
      /\ facts = Collected(asked.view, asked.result, asked.selected)
                   \o Comparisons(asked.view, asked.result, asked.selected)
  BY DEF CopilotInv, Open
<1>2. Collected(asked.view, asked.result, asked.selected)
        \o Comparisons(asked.view, asked.result, asked.selected) \in Seq(Known(asked.result))
  BY <1>1, FactsOfView
<1> QED BY <1>1, <1>2

LEMMA CopilotStep ==
  ASSUME CopilotInv, [CopilotNext]_copilotVars
  PROVE  CopilotInv'
<1>1. ASSUME NEW view \in CopilotViews, NEW result \in Results, NEW topic \in {"standard", "insurance", "free"},
             NEW selected, Ask(view, result, selected, topic)
      PROVE  CopilotInv'
  <2>1. reply' = Waiting
    BY <1>1 DEF Ask, CopilotInv, Answered
  <2>2. /\ asked'.view = view /\ asked'.result = result /\ asked'.selected = selected
        /\ facts' = Collected(view, result, selected) \o Comparisons(view, result, selected)
    BY <1>1 DEF Ask
  <2>3. /\ asked'.view \in CopilotViews /\ asked'.result \in Results
        /\ facts' = Collected(asked'.view, asked'.result, asked'.selected)
                      \o Comparisons(asked'.view, asked'.result, asked'.selected)
    BY <2>2, Zenon
  <2>4. ~Answered'
    BY <2>1 DEF Answered
  <2> QED BY <2>3, <2>4, Zenon DEF CopilotInv
<1>2. ASSUME Redirect PROVE CopilotInv'
  <2>1. Open /\ reply'.claims = {} /\ reply'.cites = {} /\ UNCHANGED <<asked, facts>>
    BY <1>2 DEF Redirect, Canned
  <2> DEFINE r == reply'
             v == asked.view
  <2>2. r.claims = {} /\ r.cites \subseteq DOMAIN facts
    BY <2>1
  <2> HIDE DEF r, v
  <2>3. Backed(facts, v, r)
    BY <2>2, SilenceBacked
  <2> QED BY <2>1, <2>3, Replied DEF r, v
<1>3. ASSUME AnswerCanned PROVE CopilotInv'
  <2>1. Open /\ reply' \in CannedAnswers /\ UNCHANGED <<asked, facts>>
    BY <1>3 DEF AnswerCanned
  <2> DEFINE a == reply'
  <2>2. a \in CannedAnswers
    BY <2>1
  <2>3. /\ asked.view \in CopilotViews /\ asked.result \in Results
        /\ facts \in Seq(Known(asked.result))
        /\ facts = Collected(asked.view, asked.result, asked.selected)
                      \o Comparisons(asked.view, asked.result, asked.selected)
    BY <2>1, OpenFacts
  <2> HIDE DEF a
  <2>4. Backed(facts, asked.view, a)
    BY <2>2, <2>3, CannedBacked
  <2>5. ASSUME asked.view = "scenarios"
        PROVE  AboutOne(facts, asked.result["scenarios"], asked.selected, a.cites)
    <3>1. a \in ScenarioAnswer
      BY <2>2, <2>5 DEF CannedAnswers
    <3> DEFINE e == asked.selected
               q == asked.result
    <3>2. q \in Results /\ facts = Collected("scenarios", q, e) \o Comparisons("scenarios", q, e)
      BY <2>3, <2>5
    <3> HIDE DEF e, q
    <3>3. AboutOne(facts, q["scenarios"], e, a.cites)
      BY <3>1, <3>2, ScenarioAboutOne
    <3> QED BY <3>3 DEF e, q
  <2> QED BY <2>1, <2>4, <2>5, Replied DEF a
<1>4. ASSUME CandidateUnusable PROVE CopilotInv'
  <2>1. UNCHANGED <<asked, facts, reply>>
    BY <1>4 DEF CandidateUnusable
  <2> QED BY <2>1, Zenon DEF CopilotInv, Answered
<1>5. ASSUME NEW claims, NEW cites, Candidate(claims, cites) PROVE CopilotInv'
  <2> DEFINE all == Completed(claims, cites)
             m == [by |-> "model", claims |-> claims, cites |-> all]
  <2>1. /\ Open /\ UNCHANGED <<asked, facts>>
        /\ reply' = IF Reasons(asked.view, claims, all) = {} THEN m ELSE Waiting
    BY <1>5 DEF Candidate, MayAsk
  <2>2. CASE Reasons(asked.view, claims, all) = {}
    <3>1. Backed(facts, asked.view, m)
      <4> DEFINE v == asked.view
      <4>1. Reasons(v, claims, all) = {}
        BY <2>2
      <4> HIDE DEF v, all
      <4>2. Backed(facts, v, m)
        BY <4>1, AcceptedBacked
      <4> QED BY <4>2 DEF v
    <3>2. reply' = m /\ m.by # "canned"
      BY <2>1, <2>2
    <3> HIDE DEF m
    <3>3. Backed(facts, asked.view, reply') /\ reply'.by # "canned"
      BY <3>1, <3>2
    <3> QED BY <2>1, <3>3, Replied
  <2>3. CASE Reasons(asked.view, claims, all) # {}
    <3>1. reply' = Waiting /\ reply = Waiting
      BY <2>1, <2>3 DEF Open
    <3>2. reply' = reply
      BY <3>1
    <3> QED BY <2>1, <3>2, Zenon DEF CopilotInv, Answered
  <2> QED BY <2>2, <2>3
<1>6. ASSUME Reject \/ ProviderRaises PROVE CopilotInv'
  <2>1. /\ Open /\ UNCHANGED <<asked, facts>>
        /\ reply'.claims = {} /\ reply'.cites = {}
    BY <1>6 DEF Reject, ProviderRaises, MayAsk
  <2> DEFINE r == reply'
             v == asked.view
  <2>2. r.claims = {} /\ r.cites \subseteq DOMAIN facts
    BY <2>1
  <2> HIDE DEF r, v
  <2>3. Backed(facts, v, r)
    BY <2>2, SilenceBacked
  <2> QED BY <2>1, <2>3, Replied DEF r, v
<1>7. ASSUME UNCHANGED copilotVars PROVE CopilotInv'
  <2>1. UNCHANGED <<asked, facts, reply>>
    BY <1>7 DEF copilotVars
  <2> QED BY <2>1, Zenon DEF CopilotInv, Answered
<1> QED BY <1>1, <1>2, <1>3, <1>4, <1>5, <1>6, <1>7 DEF CopilotNext

\* Invariant: a reader of the copilot is told nothing the facts of the view do
\* not back: numbers and rankings by cited facts, comparisons by a cited one,
\* path states by the view (service.py:48-70, verifier.py:14-99).
LEMMA CopilotInvariant ==
  CopilotSpec => []CopilotInv
<1>1. CopilotInit => CopilotInv
  BY DEF CopilotInit, CopilotInv, Answered
<1>2. CopilotInv /\ [CopilotNext]_copilotVars => CopilotInv'
  BY CopilotStep
<1> QED BY <1>1, <1>2, PTL DEF CopilotSpec

\* ShownIsGrounded, for every result, every phrase and every cap
\* (service.py:48-70, verifier.py:14-99).
THEOREM ShownIsBacked ==
  CopilotSpec => []ShownIsGrounded
<1>1. CopilotInv => ShownIsGrounded
  BY DEF CopilotInv, ShownIsGrounded, Backed
<1> QED BY <1>1, CopilotInvariant, PTL

\* AnswerIsOfSelection, for every list of distinct scenarios
\* (context.py:124-156, 320-347, service.py:174-191).
THEOREM AnswersAreOfSelection ==
  CopilotSpec => []AnswerIsOfSelection
<1>1. CopilotInv => AnswerIsOfSelection
  <2> SUFFICES ASSUME CopilotInv, Answered, asked.view = "scenarios", reply.by = "canned", reply.cites # {}
               PROVE  LET about == {facts[i].index : i \in reply.cites}
                          own == {i \in DOMAIN asked.result.scenarios :
                                    asked.result.scenarios[i].name = asked.selected}
                      IN Cardinality(about) = 1 /\ (own # {} => about \subseteq own)
    BY DEF AnswerIsOfSelection
  <2>1. PICK k : /\ {facts[i].index : i \in reply.cites} = {k}
                 /\ Own(asked.result.scenarios, asked.selected) # {} =>
                      k \in Own(asked.result.scenarios, asked.selected)
    BY DEF CopilotInv, AboutOne
  <2>2. Cardinality({k}) = 1
    BY FS_Singleton
  <2> QED BY <2>1, <2>2 DEF Own
<1> QED BY <1>1, CopilotInvariant, PTL

-----------------------------------------------------------------------------
(* Workbooks: what a run reads from the cells is what it reads again from  *)
(* the cells that were extracted, rebuilt or written by an earlier run.    *)

\* The rows of a programme's layers, closed up, are read as they are.
OneRow(L, i) == IF i \in DOMAIN L THEN <<L[i]>> ELSE <<>>

LEMMA RowsOf ==
  ASSUME NEW S, NEW L \in Seq(S), Len(L) <= 4
  PROVE  L = OneRow(L, 1) \o OneRow(L, 2) \o OneRow(L, 3) \o OneRow(L, 4)
<1> DEFINE Upto(n) == IF n < Len(L) THEN n ELSE Len(L)
           Upper(n) == [i \in 1..Upto(n) |-> L[i]]
<1>1. Len(L) \in Nat /\ DOMAIN L = 1..Len(L)
  OBVIOUS
<1>2. ASSUME NEW n \in Nat
      PROVE  Upper(n) \o OneRow(L, n + 1) = Upper(n + 1)
  <2>1. Upto(n) \in Nat /\ Upto(n + 1) \in Nat
    BY <1>1
  <2>2. Upper(n) \in Seq(S) /\ Len(Upper(n)) = Upto(n)
    BY <1>1, <2>1
  <2>3. Upper(n + 1) \in Seq(S) /\ Len(Upper(n + 1)) = Upto(n + 1)
    BY <1>1, <2>1
  <2>4. CASE n + 1 \in DOMAIN L
    <3>1. OneRow(L, n + 1) = <<L[n + 1]>> /\ L[n + 1] \in S
      BY <2>4 DEF OneRow
    <3>2. n + 1 <= Len(L)
      BY <1>1, <2>4
    <3>3. n \in Nat /\ Len(L) \in Nat
      BY <1>1
    <3>4. n < Len(L) /\ (n + 1 < Len(L) \/ n + 1 = Len(L))
      BY <3>2, <3>3
    <3>5. Upto(n) = n
      BY <3>4
    <3>6. Upto(n + 1) = n + 1
      BY <3>4
    <3> HIDE DEF Upper, Upto
    <3>7. /\ Upper(n) \o <<L[n + 1]>> \in Seq(S)
          /\ Len(Upper(n) \o <<L[n + 1]>>) = n + 1
      BY <2>2, <3>1, <3>5, <3>6
    <3>8. ASSUME NEW i \in 1..(n + 1)
          PROVE  (Upper(n) \o <<L[n + 1]>>)[i] = Upper(n + 1)[i]
      <4>1. Upper(n + 1)[i] = L[i]
        BY <3>6 DEF Upper
      <4>2. CASE i = n + 1
        BY <2>2, <3>1, <3>5, <3>6, <4>1, <4>2
      <4>3. CASE i # n + 1
        <5>1. i \in 1..n
          BY <4>3
        <5>2. Upper(n)[i] = L[i]
          BY <3>5, <3>6, <5>1 DEF Upper
        <5> QED BY <2>2, <3>1, <3>5, <3>6, <4>1, <5>1, <5>2
      <4> QED BY <4>2, <4>3
    <3> QED BY <2>3, <3>1, <3>5, <3>6, <3>7, <3>8, SeqEqual
  <2>5. CASE n + 1 \notin DOMAIN L
    <3>1. OneRow(L, n + 1) = <<>>
      BY <2>5 DEF OneRow
    <3>2. Upto(n) = Upto(n + 1)
      BY <1>1, <2>5
    <3>3. Upper(n) = Upper(n + 1)
      BY <3>2
    <3>4. Upper(n) \o <<>> = Upper(n)
      BY <2>2, ConcatEmptySeq
    <3> QED BY <3>1, <3>3, <3>4
  <2> QED BY <2>4, <2>5
<1>3. Upper(0) = <<>> /\ Upper(4) = L
  <2>1. Upto(0) = 0 /\ Upto(4) = Len(L)
    BY <1>1
  <2>2. Upper(0) = <<>>
    BY <2>1
  <2> QED BY <1>1, <2>1, <2>2
<1>4. OneRow(L, 1) \in Seq(S)
  BY DEF OneRow
<1> HIDE DEF Upper
<1>5. Upper(0) \o OneRow(L, 1) = OneRow(L, 1)
  BY <1>3, <1>4, ConcatEmptySeq
<1>6. Upper(0) \o OneRow(L, 0 + 1) = Upper(0 + 1) /\ Upper(1) \o OneRow(L, 1 + 1) = Upper(1 + 1)
  BY <1>2
<1>7. Upper(2) \o OneRow(L, 2 + 1) = Upper(2 + 1) /\ Upper(3) \o OneRow(L, 3 + 1) = Upper(3 + 1)
  BY <1>2
<1>8. 0 + 1 = 1 /\ 1 + 1 = 2 /\ 2 + 1 = 3 /\ 3 + 1 = 4
  OBVIOUS
<1> QED BY <1>3, <1>5, <1>6, <1>7, <1>8

AtMostOne(s, S) == s \in Seq(S) /\ Len(s) <= 1

LEMMA RowsJoined ==
  ASSUME NEW S, NEW A, NEW B, NEW C, NEW D,
         AtMostOne(A, S), AtMostOne(B, S), AtMostOne(C, S), AtMostOne(D, S)
  PROVE  A \o B \o C \o D \in Seq(S) /\ Len(A \o B \o C \o D) <= 4
BY DEF AtMostOne

-----------------------------------------------------------------------------
Settled(l) ==
  /\ l = [name |-> l.name, attachment |-> l.attachment, limit |-> l.limit,
          coinsurance |-> l.coinsurance]
  /\ l.name # Blank /\ l.coinsurance # Blank
  /\ l.limit # Blank /\ ~(l.limit <= 0) /\ OrZero(l.attachment) = l.attachment

LEMMA SettledRow ==
  ASSUME NEW wb, NEW r \in LayerRows
  PROVE  \/ ReadRow(wb, r) = <<>>
         \/ \E l : Settled(l) /\ ReadRow(wb, r) = <<l>>
<1> DEFINE l == wb.layers[r]
           read == [name |-> IF l.name = Blank THEN Unnamed[r - 17] ELSE l.name,
                    attachment |-> OrZero(l.attachment), limit |-> l.limit,
                    coinsurance |-> IF l.coinsurance = Blank THEN 100
                                    ELSE l.coinsurance]
<1>1. CASE l.limit = Blank \/ l.limit <= 0
  BY <1>1 DEF ReadRow
<1>2. CASE ~(l.limit = Blank \/ l.limit <= 0)
  <2>1. ReadRow(wb, r) = <<read>>
    BY <1>2 DEF ReadRow
  <2>2. Unnamed[r - 17] # Blank /\ Blank # 0 /\ Blank # 100
    <3>1. r - 17 \in 1..4 /\ DOMAIN Unnamed = 1..4
      BY DEF LayerRows, Unnamed
    <3> QED BY <3>1, WorkbookCells
  <2>3. OrZero(OrZero(l.attachment)) = OrZero(l.attachment)
    BY <2>2 DEF OrZero
  <2>4. /\ read.name # Blank /\ read.coinsurance # Blank
        /\ read.limit = l.limit /\ read.attachment = OrZero(l.attachment)
    BY <2>2
  <2>5. read = [name |-> read.name, attachment |-> read.attachment,
                limit |-> read.limit, coinsurance |-> read.coinsurance]
    OBVIOUS
  <2>6. Settled(read)
    BY <1>2, <2>3, <2>4, <2>5 DEF Settled
  <2> QED BY <2>1, <2>6
<1> QED BY <1>1, <1>2

LEMMA LayersAgain ==
  ASSUME NEW wb, NEW v, NEW L, L = ReadLayers(wb),
         \A r \in LayerRows : v.layers[r] = IF r - 17 \in DOMAIN L THEN L[r - 17]
                                            ELSE Template.layers[r]
  PROVE  ReadLayers(v) = L
<1> DEFINE Ready == {l \in UNION {{ReadRow(wb, r)[1]} : r \in LayerRows} : Settled(l)}
<1>1. ASSUME NEW r \in LayerRows
      PROVE  AtMostOne(ReadRow(wb, r), Ready)
  <2>1. CASE ReadRow(wb, r) = <<>>
    BY <2>1 DEF AtMostOne
  <2>2. CASE \E l : Settled(l) /\ ReadRow(wb, r) = <<l>>
    <3>1. PICK l : Settled(l) /\ ReadRow(wb, r) = <<l>>
      BY <2>2
    <3>2. l = ReadRow(wb, r)[1]
      BY <3>1
    <3>3. l \in Ready
      BY <3>1, <3>2
    <3>4. <<l>> \in Seq(Ready) /\ Len(<<l>>) <= 1
      BY <3>3
    <3> QED BY <3>1, <3>4 DEF AtMostOne
  <2> QED BY <2>1, <2>2, SettledRow
<1>2. 18 \in LayerRows /\ 19 \in LayerRows /\ 20 \in LayerRows /\ 21 \in LayerRows
  BY DEF LayerRows
<1> HIDE DEF Ready
<1>3. L \in Seq(Ready) /\ Len(L) <= 4
  BY <1>1, <1>2, RowsJoined DEF ReadLayers
<1>4. \A l \in Ready : Settled(l)
  BY DEF Ready
<1>5. ASSUME NEW i \in 1..4
      PROVE  ReadRow(v, 17 + i) = OneRow(L, i)
  <2>1. 17 + i \in LayerRows /\ (17 + i) - 17 = i
    BY DEF LayerRows
  <2>2. CASE i \in DOMAIN L
    <3>1. L[i] \in Ready
      BY <1>3, <2>2
    <3>2. Settled(L[i]) /\ v.layers[17 + i] = L[i]
      BY <1>4, <2>1, <2>2, <3>1
    <3> QED BY <2>2, <3>2 DEF ReadRow, OneRow, Settled
  <2>3. CASE i \notin DOMAIN L
    <3>1. v.layers[17 + i].limit = Blank
      BY <2>1, <2>3, WorkbookCells
    <3> QED BY <2>3, <3>1 DEF ReadRow, OneRow
  <2> QED BY <2>2, <2>3
<1>6. /\ ReadRow(v, 18) = OneRow(L, 1) /\ ReadRow(v, 19) = OneRow(L, 2)
      /\ ReadRow(v, 20) = OneRow(L, 3) /\ ReadRow(v, 21) = OneRow(L, 4)
  <2>1. 17 + 1 = 18 /\ 17 + 2 = 19 /\ 17 + 3 = 20 /\ 17 + 4 = 21
    OBVIOUS
  <2> QED BY <1>5, <2>1
<1> QED BY <1>3, <1>6, RowsOf DEF ReadLayers

-----------------------------------------------------------------------------
IsBook(wb) == wb = [f \in Fields |-> wb[f]] /\ wb.domain \in {"IT", "OT"}

InputsOf(wb) ==
  [basis |-> Reporting(wb), appetite |-> ReadAppetite(wb),
   programme |-> ReadProgramme(wb), coverage |-> EngineCoverage(wb),
   governed |-> wb.governed]

LEMMA PreparedFields ==
  ASSUME NEW wb, IsBook(wb)
  PROVE  /\ IsBook(Prepared(wb))
         /\ Prepared(wb).view = Reporting(wb)
         /\ Prepared(wb).basis = IF wb.domain = "IT" /\ wb.view \in Bases THEN wb.view
                                 ELSE wb.basis
         /\ \A f \in Fields \ {"view", "basis"} : Prepared(wb)[f] = wb[f]
<1>1. "view" \in Fields /\ "basis" \in Fields /\ "domain" \in Fields
  BY DEF Fields, CommonFields
<1>2. wb = [f \in Fields |-> wb[f]]
  BY DEF IsBook
<1> QED BY <1>1, <1>2 DEF IsBook, Prepared

\* Workbooks that agree in what an engine reads give the same inputs.
SameCells(v, wb) ==
  \A f \in {"domain", "loss", "setupLoss", "retention", "fallback", "primary",
            "aggregate", "layers", "coverage", "governed"} : v[f] = wb[f]

LEMMA SameInputs ==
  ASSUME NEW v, NEW wb, SameCells(v, wb)
  PROVE  /\ ReadAppetite(v) = ReadAppetite(wb) /\ ReadProgramme(v) = ReadProgramme(wb)
         /\ EngineCoverage(v) = EngineCoverage(wb) /\ v.governed = wb.governed
         /\ v.domain = wb.domain /\ v.layers = wb.layers
<1>1. /\ v.domain = wb.domain /\ v.loss = wb.loss /\ v.setupLoss = wb.setupLoss
      /\ v.retention = wb.retention /\ v.fallback = wb.fallback
      /\ v.primary = wb.primary /\ v.aggregate = wb.aggregate
      /\ v.layers = wb.layers /\ v.coverage = wb.coverage /\ v.governed = wb.governed
  BY DEF SameCells
<1>2. ReadLayers(v) = ReadLayers(wb)
  BY <1>1 DEF ReadLayers, ReadRow
<1> QED BY <1>1, <1>2 DEF ReadAppetite, ReadProgramme, EngineCoverage

LEMMA PreparedSame ==
  ASSUME NEW wb, IsBook(wb)
  PROVE  SameCells(Prepared(wb), wb)
BY PreparedFields DEF SameCells, Fields, CommonFields

LEMMA PreparedInputs ==
  ASSUME NEW wb, IsBook(wb)
  PROVE  EngineInputs(Prepared(wb)) = InputsOf(wb)
<1>1. SameCells(Prepared(wb), wb)
  BY PreparedSame
<1> QED BY <1>1, PreparedFields, SameInputs DEF EngineInputs, InputsOf

\* Preparing again changes nothing an engine is given.
LEMMA PreparedAgain ==
  ASSUME NEW wb, IsBook(wb)
  PROVE  Reporting(Prepared(wb)) = Reporting(wb) /\ InputsOf(Prepared(wb)) = InputsOf(wb)
<1> DEFINE p == Prepared(wb)
<1>1. /\ p.view = Reporting(wb) /\ p.domain = wb.domain
      /\ p.basis = IF wb.domain = "IT" /\ wb.view \in Bases THEN wb.view ELSE wb.basis
  BY PreparedFields DEF Fields, CommonFields
<1>2. wb.domain \in {"IT", "OT"} /\ "Prudent" \in Bases
  BY DEF IsBook, Bases
<1>3. SameCells(p, wb)
  BY PreparedSame
<1> HIDE DEF p
<1>4. CASE wb.domain = "IT"
  <2>1. Reporting(wb) \in Bases
    BY <1>2, <1>4 DEF Reporting
  <2>2. \A v : v.domain = "IT" /\ v.view \in Bases => Reporting(v) = v.view
    BY DEF Reporting
  <2>3. Reporting(p) = Reporting(wb)
    BY <1>1, <1>4, <2>1, <2>2
  <2> QED BY <1>3, <2>3, SameInputs DEF p, InputsOf
<1>5. CASE wb.domain = "OT"
  <2>1. Reporting(p) = Reporting(wb)
    BY <1>1, <1>5 DEF Reporting
  <2> QED BY <1>3, <2>1, SameInputs DEF p, InputsOf
<1> QED BY <1>2, <1>4, <1>5

-----------------------------------------------------------------------------
\* What the ways that are not direct must not lose.
Carried ==
  /\ path # "direct" => book.setupLoss = Blank /\ book.governed = Template.governed
  /\ path = "facade" /\ book.domain = "OT" /\ book.retention = Blank =>
       OrZero(book.fallback) = OrZero(Template.fallback)
  /\ path = "service" =>
       /\ book.domain = "IT" /\ book.view \in Bases => book.basis = book.view
       /\ ~(book.domain = "OT" /\ book.coverage = 0)

LEMMA CarryableIs == Carryable <=> Carried /\ (runs > 1 => Repeats)
BY DEF Carryable, Carried

LEMMA MaterializedIsBook ==
  ASSUME NEW cells, "domain" \in DOMAIN cells, cells.domain \in {"IT", "OT"}
  PROVE  IsBook(Materialized(cells))
<1>1. DOMAIN Template = Fields /\ "domain" \in Fields
  BY WorkbookCells DEF Fields, CommonFields
<1> QED BY <1>1 DEF IsBook, Materialized

\* The workbook the facade replays gives an engine the inputs of the user's:
\* only the default retention of an OT workbook may be another cell's.
LEMMA FacadeCarries ==
  ASSUME NEW wb \in Workbooks, wb.setupLoss = Blank, wb.governed = Template.governed,
         wb.domain = "OT" /\ wb.retention = Blank =>
           OrZero(wb.fallback) = OrZero(Template.fallback)
  PROVE  InputsOf(Materialized(Extracted(wb).cells)) = InputsOf(wb)
<1> DEFINE carried == CarriedFields(wb.domain)
           cells == [f \in carried |-> wb[f]]
           m == Materialized(cells)
<1>1. Extracted(wb).cells = cells
  BY DEF Extracted
<1>2. DOMAIN cells = carried /\ DOMAIN Template = Fields
  BY WorkbookCells
<1>3. m = [f \in Fields |-> IF f \in carried THEN wb[f] ELSE Template[f]]
  BY <1>2 DEF Materialized
<1>4. /\ wb.domain \in {"IT", "OT"} /\ Template.setupLoss = wb.setupLoss
      /\ Template.governed = wb.governed
  BY WorkbookCells
<1>5. /\ CommonFields \subseteq carried
      /\ "fallback" \in carried <=> wb.domain = "IT"
      /\ "setupLoss" \notin carried /\ "governed" \notin carried
  BY DEF CarriedFields, CommonFields
<1> HIDE DEF m, cells, carried
<1>6. /\ m.domain = wb.domain /\ m.view = wb.view /\ m.basis = wb.basis
      /\ m.loss = wb.loss /\ m.retention = wb.retention /\ m.primary = wb.primary
      /\ m.aggregate = wb.aggregate /\ m.layers = wb.layers
      /\ m.coverage = wb.coverage
  BY <1>3, <1>5 DEF Fields, CommonFields
<1>7. /\ m.setupLoss = wb.setupLoss /\ m.governed = wb.governed
      /\ m.fallback = IF wb.domain = "IT" THEN wb.fallback ELSE Template.fallback
  BY <1>3, <1>4, <1>5 DEF Fields
<1>8. ReadLayers(m) = ReadLayers(wb)
  BY <1>6 DEF ReadLayers, ReadRow
<1>9. OrZero(IF m.retention = Blank THEN m.fallback ELSE m.retention)
      = OrZero(IF wb.retention = Blank THEN wb.fallback ELSE wb.retention)
  BY <1>4, <1>6, <1>7
<1>10. ReadProgramme(m) = ReadProgramme(wb)
  BY <1>6, <1>8, <1>9 DEF ReadProgramme
<1>11. /\ Reporting(m) = Reporting(wb) /\ ReadAppetite(m) = ReadAppetite(wb)
       /\ EngineCoverage(m) = EngineCoverage(wb)
  BY <1>6, <1>7 DEF Reporting, ReadAppetite, EngineCoverage
<1>12. InputsOf(m) = InputsOf(wb)
  BY <1>7, <1>10, <1>11 DEF InputsOf
<1> QED BY <1>1, <1>12 DEF m

\* The cells the service builds from the projection say the same to an engine.
LEMMA ServiceCarries ==
  ASSUME NEW wb \in Workbooks, wb.setupLoss = Blank, wb.governed = Template.governed,
         wb.domain = "IT" /\ wb.view \in Bases => wb.basis = wb.view,
         ~(wb.domain = "OT" /\ wb.coverage = 0), Extracted(wb).basis \in Bases
  PROVE  LET s == Materialized(BuildCells(Extracted(wb)))
         IN IsBook(s) /\ InputsOf(s) = InputsOf(wb)
<1> DEFINE a == Extracted(wb)
           L == ReadLayers(wb)
           s == Materialized(BuildCells(a))
<1>1. /\ a.domain = wb.domain /\ a.appetite = ReadAppetite(wb)
      /\ a.programme = ReadProgramme(wb)
      /\ a.basis = IF wb.basis = Blank THEN "Prudent" ELSE wb.basis
      /\ a.coverage = IF wb.domain = "OT" /\ wb.coverage \in {Blank, 0} THEN 75
                      ELSE wb.coverage
  BY DEF Extracted
<1>2. /\ a.programme.retention =
           OrZero(IF wb.retention = Blank THEN wb.fallback ELSE wb.retention)
      /\ a.programme.primary = wb.primary /\ a.programme.aggregate = wb.aggregate
      /\ a.programme.layers = L
  BY <1>1 DEF ReadProgramme
<1>3. wb.domain \in {"IT", "OT"} /\ DOMAIN Template = Fields /\ Template.setupLoss = Blank
      /\ Blank # 0 /\ Blank \notin Bases
  BY WorkbookCells
<1>4. /\ s = [f \in Fields |-> s[f]]
      /\ s.domain = a.domain /\ s.basis = a.basis /\ s.view = a.basis
      /\ s.loss = a.appetite /\ s.retention = a.programme.retention
      /\ s.primary = a.programme.primary /\ s.aggregate = a.programme.aggregate
      /\ s.coverage = a.coverage /\ s.setupLoss = Template.setupLoss
      /\ s.governed = Template.governed
      /\ s.layers = [r \in LayerRows |->
           IF r - 17 \in DOMAIN a.programme.layers THEN a.programme.layers[r - 17]
           ELSE Template.layers[r]]
  BY <1>3 DEF Materialized, BuildCells, Fields, CommonFields
<1> HIDE DEF s, a
<1>5. IsBook(s)
  BY <1>1, <1>3, <1>4 DEF IsBook
<1>6. ReadLayers(s) = L
  <2>1. \A r \in LayerRows : s.layers[r] = IF r - 17 \in DOMAIN L THEN L[r - 17]
                                           ELSE Template.layers[r]
    BY <1>2, <1>4
  <2> QED BY <2>1, LayersAgain
<1>7. ReadProgramme(s) = ReadProgramme(wb)
  <2>1. s.retention # Blank /\ OrZero(s.retention) = s.retention
    BY <1>2, <1>3, <1>4 DEF OrZero
  <2> QED BY <1>2, <1>4, <1>6, <2>1 DEF ReadProgramme
<1>8. ReadAppetite(s) = ReadAppetite(wb)
  BY <1>1, <1>3, <1>4 DEF ReadAppetite
<1>9. Reporting(s) = Reporting(wb)
  <2>1. a.basis \in Bases
    BY DEF a
  <2>2. CASE wb.domain = "IT"
    <3>1. Reporting(s) = a.basis
      BY <1>1, <1>4, <2>1, <2>2 DEF Reporting
    <3>2. CASE wb.view \in Bases
      BY <1>1, <1>3, <2>2, <3>1, <3>2 DEF Reporting
    <3>3. CASE wb.view \notin Bases
      BY <1>1, <2>1, <2>2, <3>1, <3>3 DEF Reporting
    <3> QED BY <3>2, <3>3
  <2>3. CASE wb.domain = "OT"
    BY <1>1, <1>4, <2>3 DEF Reporting
  <2> QED BY <1>3, <2>2, <2>3
<1>10. EngineCoverage(s) = EngineCoverage(wb)
  BY <1>1, <1>3, <1>4 DEF EngineCoverage
<1>11. InputsOf(s) = InputsOf(wb)
  BY <1>4, <1>7, <1>8, <1>9, <1>10 DEF InputsOf
<1> QED BY <1>5, <1>11 DEF s, a

-----------------------------------------------------------------------------
Running == wbPc \in {"staged", "ran", "done"}

WorkbookInv ==
  /\ book \in Workbooks /\ path \in {"direct", "facade", "service"}
  /\ wbPc = "extracted" =>
       path # "direct" /\ assessment = Extracted(book) /\ assessment.basis \in Bases
  /\ wbPc = "accepted" =>
       /\ path = "service" /\ Extracted(book).basis \in Bases
       /\ assessment.cells = BuildCells(Extracted(book))
  /\ wbPc \in {"staged", "ran"} /\ Carryable => InputsOf(staged) = InputsOf(book)
  /\ wbPc \in {"ran", "done"} /\ Carryable => used = InputsOf(book)
  /\ runs \in Nat /\ (Running => IsBook(staged) /\ runs > 0)
  /\ Running /\ path = "direct" /\ Repeats =>
       /\ InputsOf(staged) = InputsOf(book) /\ staged.layers = book.layers
       /\ staged.domain = book.domain
       /\ book.domain = "OT" => staged.basis # "Both"
  /\ wbPc = "ran" =>
       /\ staged.view = Reporting(staged) /\ staged.view \in Bases
       /\ used.basis = staged.view

LEMMA BooksAre == \A wb \in Workbooks : IsBook(wb)
BY WorkbookCells DEF IsBook

LEMMA WorkbookInitInv == WorkbookInit => WorkbookInv
BY DEF WorkbookInit, WorkbookInv, Running

LEMMA CopyModelInv == WorkbookInv /\ CopyModel => WorkbookInv'
<1> SUFFICES ASSUME WorkbookInv, CopyModel
             PROVE  WorkbookInv'
  OBVIOUS
<1>1. /\ staged' = book /\ book' = book /\ path' = path /\ wbPc' = "staged"
      /\ runs' \in Nat /\ runs' > 0
  BY DEF CopyModel, WorkbookInv
<1>2. book \in Workbooks /\ path \in {"direct", "facade", "service"} /\ IsBook(book)
  BY BooksAre DEF WorkbookInv
<1>3. Repeats' => (book.domain = "OT" => book.basis # "Both")
  BY <1>1 DEF Repeats
<1> QED BY <1>1, <1>2, <1>3 DEF WorkbookInv, Running

LEMMA ExtractInv == WorkbookInv /\ Extract => WorkbookInv'
BY DEF WorkbookInv, Extract, Running

LEMMA SubmitInv == WorkbookInv /\ Submit => WorkbookInv'
<1> SUFFICES ASSUME WorkbookInv, Submit
             PROVE  WorkbookInv'
  OBVIOUS
<1>1. /\ path' = path /\ book' = book /\ path = "service"
      /\ assessment = Extracted(book) /\ Extracted(book).basis \in Bases
      /\ book \in Workbooks /\ path \in {"direct", "facade", "service"}
      /\ runs' = runs /\ runs \in Nat
  BY DEF WorkbookInv, Submit
<1>2. CASE wbPc' = "failed"
  BY <1>1, <1>2 DEF WorkbookInv, Running
<1>3. CASE /\ wbPc' = "accepted"
           /\ assessment' = [assessment EXCEPT !.cells = BuildCells(assessment)]
  <2>1. assessment'.cells = BuildCells(Extracted(book))
    <3>1. "cells" \in DOMAIN Extracted(book)
      BY DEF Extracted
    <3> QED BY <1>1, <1>3, <3>1
  <2> QED BY <1>1, <1>3, <2>1 DEF WorkbookInv, Running
<1> QED BY <1>2, <1>3 DEF Submit

LEMMA MaterializeInv == WorkbookInv /\ Materialize => WorkbookInv'
<1> SUFFICES ASSUME WorkbookInv, Materialize
             PROVE  WorkbookInv'
  OBVIOUS
<1>1. /\ path' = path /\ book' = book /\ wbPc' = "staged"
      /\ staged' = Materialized(assessment.cells)
      /\ wbPc = IF path = "service" THEN "accepted" ELSE "extracted"
      /\ runs' \in Nat /\ runs' > 0
  BY DEF Materialize, WorkbookInv
<1>2. book \in Workbooks /\ path \in {"direct", "facade", "service"} /\ path # "direct"
  BY <1>1 DEF WorkbookInv
<1>3. Carryable' => Carried
  BY <1>1 DEF Carryable, Carried
<1>4. CASE path = "facade"
  <2>1. assessment = Extracted(book)
    BY <1>1, <1>4 DEF WorkbookInv
  <2>2. IsBook(staged')
    BY <1>1, <1>2, <2>1, BooksAre, MaterializedIsBook DEF Extracted, CarriedFields, CommonFields, IsBook
  <2>3. Carryable' => InputsOf(staged') = InputsOf(book)
    BY <1>1, <1>2, <1>3, <1>4, <2>1, FacadeCarries DEF Carried
  <2> QED BY <1>1, <1>2, <2>2, <2>3 DEF WorkbookInv, Running
<1>5. CASE path = "service"
  <2>1. assessment.cells = BuildCells(Extracted(book)) /\ Extracted(book).basis \in Bases
    BY <1>1, <1>5 DEF WorkbookInv
  <2>2. BuildCells(Extracted(book)).domain = book.domain /\ book.domain \in {"IT", "OT"}
        /\ "domain" \in DOMAIN BuildCells(Extracted(book))
    BY <1>2, WorkbookCells DEF BuildCells, Extracted
  <2>3. IsBook(staged')
    BY <1>1, <2>1, <2>2, MaterializedIsBook
  <2>4. Carryable' => InputsOf(staged') = InputsOf(book)
    BY <1>1, <1>2, <1>3, <1>5, <2>1, ServiceCarries DEF Carried
  <2> QED BY <1>1, <1>2, <2>3, <2>4 DEF WorkbookInv, Running
<1> QED BY <1>2, <1>4, <1>5

LEMMA RunEngineInv == WorkbookInv /\ RunEngine => WorkbookInv'
<1> SUFFICES ASSUME WorkbookInv, RunEngine
             PROVE  WorkbookInv'
  OBVIOUS
<1>1. /\ wbPc = "staged" /\ staged' = Prepared(staged) /\ used' = EngineInputs(staged')
      /\ wbPc' = IF EngineAccepts(used') THEN "ran" ELSE "failed"
      /\ path' = path /\ book' = book /\ runs' = runs
  BY DEF RunEngine
<1>2. Carryable' = Carryable /\ Repeats' = Repeats
  BY <1>1 DEF Carryable, Repeats
<1>3. book \in Workbooks /\ path \in {"direct", "facade", "service"} /\ IsBook(staged)
  BY <1>1 DEF WorkbookInv, Running
<1>4. CASE wbPc' = "failed"
  BY <1>1, <1>3, <1>4 DEF WorkbookInv, Running
<1>5. CASE EngineAccepts(used') /\ wbPc' = "ran"
  <2>1. IsBook(staged') /\ staged'.view = Reporting(staged) /\ SameCells(staged', staged)
    BY <1>1, <1>3, PreparedFields, PreparedSame
  <2>2. used' = InputsOf(staged) /\ InputsOf(staged') = InputsOf(staged)
        /\ Reporting(staged') = Reporting(staged)
    BY <1>1, <1>3, PreparedInputs, PreparedAgain
  <2>3. Carryable => InputsOf(staged) = InputsOf(book)
    BY <1>1 DEF WorkbookInv
  <2>4. used'.basis = staged'.view /\ staged'.view \in Bases
    BY <1>1, <1>5 DEF EngineInputs, EngineAccepts
  <2>5. path = "direct" /\ Repeats =>
          /\ InputsOf(staged') = InputsOf(book) /\ staged'.layers = book.layers
          /\ staged'.domain = book.domain
          /\ book.domain = "OT" => staged'.basis # "Both"
    <3>1. staged'.layers = staged.layers /\ staged'.domain = staged.domain
      BY <2>1, SameInputs
    <3>2. staged.domain = "OT" => staged'.basis = staged.basis
      BY <1>1, <1>3, PreparedFields
    <3> QED BY <1>1, <2>2, <3>1, <3>2 DEF WorkbookInv, Running
  <2> QED BY <1>1, <1>2, <1>3, <1>5, <2>1, <2>2, <2>3, <2>4, <2>5 DEF WorkbookInv, Running
<1> QED BY <1>1, <1>4, <1>5

LEMMA ReseededIsBook ==
  ASSUME NEW wb, IsBook(wb)
  PROVE  IsBook(Reseeded(wb))
BY DEF IsBook, Reseeded, Fields, CommonFields

LEMMA WriteBackInv == WorkbookInv /\ WriteBack => WorkbookInv'
<1> SUFFICES ASSUME WorkbookInv, WriteBack
             PROVE  WorkbookInv'
  OBVIOUS
<1> DEFINE basis == IF staged.basis \in {Blank, "Best Estimate", "Prudent"}
                    THEN staged.basis ELSE "Prudent"
           w == [staged EXCEPT !.basis = basis]
<1>1. /\ wbPc = "ran" /\ wbPc' = "done" /\ staged' = Reseeded(w)
      /\ path' = path /\ book' = book /\ runs' = runs /\ used' = used
  BY DEF WriteBack
<1>2. Carryable' = Carryable /\ Repeats' = Repeats
  BY <1>1 DEF Carryable, Repeats
<1>3. /\ book \in Workbooks /\ path \in {"direct", "facade", "service"} /\ IsBook(staged)
      /\ staged.view = Reporting(staged) /\ staged.view \in Bases
      /\ Carryable => used = InputsOf(book)
  BY <1>1 DEF WorkbookInv, Running
<1>4. /\ IsBook(w) /\ w.basis = basis /\ w.view = staged.view /\ SameCells(w, staged)
      /\ w.domain = staged.domain /\ w.layers = staged.layers
  BY <1>3 DEF IsBook, Fields, CommonFields, SameCells
<1> HIDE DEF w
<1>5. IsBook(staged')
  BY <1>1, <1>4, ReseededIsBook
<1>6. ASSUME path = "direct", Repeats
      PROVE  /\ InputsOf(staged') = InputsOf(book) /\ staged'.layers = book.layers
             /\ staged'.domain = book.domain
             /\ book.domain = "OT" => staged'.basis # "Both"
  <2>1. /\ InputsOf(staged) = InputsOf(book) /\ staged.layers = book.layers
        /\ staged.domain = book.domain
        /\ book.domain = "OT" => staged.basis # "Both"
    BY <1>1, <1>6 DEF WorkbookInv, Running
  <2>2. staged' = w
    BY <1>1, <1>4, <1>6, <2>1 DEF Reseeded, Repeats
  <2>3. Reporting(w) = Reporting(staged)
    <3>1. CASE staged.domain = "IT"
      BY <1>3, <1>4, <3>1 DEF Reporting
    <3>2. CASE staged.domain = "OT"
      <4>1. staged.basis \in Bases \cup {Blank}
        BY <1>3, <3>2 DEF Reporting
      <4>2. w.basis = staged.basis
        BY <1>4, <2>1, <3>2, <4>1 DEF Bases
      <4> QED BY <1>4, <3>2, <4>2 DEF Reporting
    <3> QED BY <1>3, <3>1, <3>2 DEF IsBook
  <2>4. InputsOf(w) = InputsOf(staged)
    BY <1>4, <2>3, SameInputs DEF InputsOf
  <2>5. staged.basis # "Both" => basis # "Both"
    OBVIOUS
  <2> QED BY <1>4, <2>1, <2>2, <2>4, <2>5
<1> QED BY <1>1, <1>2, <1>3, <1>5, <1>6 DEF WorkbookInv, Running

LEMMA RerunInv == WorkbookInv /\ Rerun => WorkbookInv'
<1> SUFFICES ASSUME WorkbookInv, Rerun
             PROVE  WorkbookInv'
  OBVIOUS
<1>1. /\ wbPc = "done" /\ path = "direct" /\ wbPc' = "staged" /\ runs' = runs + 1
      /\ path' = path /\ book' = book /\ staged' = staged
  BY DEF Rerun
<1>2. Repeats' = Repeats /\ runs \in Nat /\ runs > 0
  BY <1>1 DEF Repeats, WorkbookInv, Running
<1>3. runs' \in Nat /\ runs' > 0 /\ (Carryable' => Repeats)
  BY <1>1, <1>2 DEF Carryable
<1> QED BY <1>1, <1>2, <1>3 DEF WorkbookInv, Running

LEMMA WorkbookStill == WorkbookInv /\ UNCHANGED workbookVars => WorkbookInv'
BY DEF WorkbookInv, workbookVars, Running, Carryable, Repeats

\* An engine is given the same basis, appetite, insurance programme and
\* controls whichever way the workbook reaches it, and again when its results
\* are run.
THEOREM InputsAreAlike == WorkbookSpec => []RunsAlike
<1>1. WorkbookInit => WorkbookInv
  BY WorkbookInitInv
<1>2. WorkbookInv /\ [WorkbookNext]_workbookVars => WorkbookInv'
  BY CopyModelInv, ExtractInv, SubmitInv, MaterializeInv, RunEngineInv, WriteBackInv,
     RerunInv, WorkbookStill DEF WorkbookNext
<1>3. WorkbookInv => RunsAlike
  <2> SUFFICES ASSUME WorkbookInv, wbPc \in {"ran", "done"}, Carryable
               PROVE  used = EngineInputs(Prepared(book))
    BY DEF RunsAlike
  <2>1. used = InputsOf(book) /\ book \in Workbooks
    BY DEF WorkbookInv
  <2> QED BY <2>1, BooksAre, PreparedInputs
<1> QED BY <1>1, <1>2, <1>3, PTL DEF WorkbookSpec
=============================================================================
