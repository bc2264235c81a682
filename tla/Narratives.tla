----------------------------- MODULE Narratives -----------------------------
(***************************************************************************)
(* The narrative of a completed run: POST /v1/runs/{id}/narrative asks the *)
(* copilot for one and keeps the first that is stored, GET reads it.  Any  *)
(* number of requests run at once, an invocation may stop between two      *)
(* calls and the answer of a write may be lost.                            *)
(***************************************************************************)
EXTENDS Naturals

CONSTANTS
  Creators,    \* concurrent POST requests, each may be sent again
  Texts,       \* narratives the copilot may produce
  MaxPosts,    \* requests sent in all
  MaxLost      \* stopped invocations and lost answers in all

ASSUME NarrativeBounds == MaxPosts \in Nat /\ MaxLost \in Nat

NoText == "no narrative"

ASSUME NarrativeTexts == NoText \notin Texts

VARIABLES
  stored,      \* narrative.json
  npc,         \* where each request is
  drafted,     \* the VERIFIED answer a request holds
  answered,    \* every narrative a client was given
  posts, losses

narrativeVars == <<stored, npc, drafted, answered, posts, losses>>

NarrativePc == {"idle", "get", "query", "put", "reget"}

NarrativeInit ==
  /\ stored = NoText
  /\ npc = [c \in Creators |-> "idle"]
  /\ drafted = [c \in Creators |-> NoText]
  /\ answered = {}
  /\ posts = 0 /\ losses = 0

NGoto(c, pc) == npc' = [npc EXCEPT ![c] = pc]

\* The request ends: its answer leaves the server, its draft is gone.
NRespond(c, texts) ==
  /\ NGoto(c, "idle")
  /\ drafted' = [drafted EXCEPT ![c] = NoText]
  /\ answered' = answered \cup texts

\* The result and the request of the run are read: they never change.
PostNarrative(c) ==
  /\ npc[c] = "idle" /\ posts < MaxPosts
  /\ posts' = posts + 1
  /\ NGoto(c, "get")
  /\ UNCHANGED <<stored, drafted, answered, losses>>

\* A narrative of this result is returned, otherwise one is generated.
GetExisting(c) ==
  /\ npc[c] = "get"
  /\ \/ stored # NoText /\ NRespond(c, {stored})
     \/ stored = NoText /\ NGoto(c, "query") /\ UNCHANGED <<drafted, answered>>
  /\ UNCHANGED <<stored, posts, losses>>

\* 422 for a rejected candidate, 500 when the provider fails: nothing is kept.
QueryCopilot(c) ==
  /\ npc[c] = "query"
  /\ \/ NRespond(c, {})
     \/ \E t \in Texts : /\ NGoto(c, "put")
                         /\ drafted' = [drafted EXCEPT ![c] = t]
                         /\ UNCHANGED answered
  /\ UNCHANGED <<stored, posts, losses>>

\* Mutant: the loser of a race answers with its own text.
PutAnswersOwn(c) ==
  /\ npc[c] = "put"
  /\ stored' = IF stored = NoText THEN drafted[c] ELSE stored
  /\ NRespond(c, {drafted[c]})
  /\ UNCHANGED <<posts, losses>>

\* The conditional write.
PutNarrative(c) ==
  /\ npc[c] = "put"
  /\ \/ stored = NoText /\ stored' = drafted[c] /\ NRespond(c, {drafted[c]})
     \/ /\ stored # NoText
        /\ NGoto(c, "reget") /\ UNCHANGED <<stored, drafted, answered>>
  /\ UNCHANGED <<posts, losses>>

\* The loser of a race answers with the narrative it finds.
ReadWinner(c) ==
  /\ npc[c] = "reget"
  /\ NRespond(c, {stored})
  /\ UNCHANGED <<stored, posts, losses>>

\* GET /v1/runs/{id}/narrative.
GetNarrative ==
  /\ stored # NoText
  /\ answered' = answered \cup {stored}
  /\ UNCHANGED <<stored, npc, drafted, posts, losses>>

\* The invocation stops, or a call of S3 fails: the client is not answered
\* with a narrative, and a write may have been applied.
LoseRequest(c) ==
  /\ npc[c] # "idle" /\ losses < MaxLost
  /\ losses' = losses + 1
  /\ NRespond(c, {})
  /\ \/ UNCHANGED stored
     \/ npc[c] = "put" /\ stored = NoText /\ stored' = drafted[c]
  /\ UNCHANGED posts

CreatorStep(c) ==
  \/ PostNarrative(c) \/ GetExisting(c) \/ QueryCopilot(c)
  \/ PutNarrative(c) \/ ReadWinner(c) \/ LoseRequest(c)

NarrativeNext == GetNarrative \/ \E c \in Creators : CreatorStep(c)

NarrativeSpec == NarrativeInit /\ [][NarrativeNext]_narrativeVars

-----------------------------------------------------------------------------
NarrativeTypeOK ==
  /\ stored \in Texts \cup {NoText}
  /\ npc \in [Creators -> NarrativePc]
  /\ drafted \in [Creators -> Texts \cup {NoText}]
  /\ answered \subseteq Texts
  /\ posts \in Nat /\ losses \in Nat

\* Everyone who was ever given a narrative of the run was given the same one,
\* the one that is stored, whatever requests raced and whichever of them
\* stopped (api_lambda.py:287-322, docs/productisation/PHASE6A_COPILOT.md:81).
OneNarrative == answered \subseteq {stored}

\* A stored narrative is never replaced (api_lambda.py:313-320).
NarrativeStays == [][stored # NoText => stored' = stored]_narrativeVars

-----------------------------------------------------------------------------
(* The inductive invariant.                                                *)

\* A request reaches its conditional write with a verified draft, and reads
\* the winner of a race only when there is one.
DraftsHeld ==
  /\ \A c \in Creators : npc[c] = "put" => drafted[c] \in Texts
  /\ \A c \in Creators : npc[c] = "reget" => stored # NoText

NarrativeInv == NarrativeTypeOK /\ OneNarrative /\ DraftsHeld
=============================================================================
