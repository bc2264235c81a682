-------------------------- MODULE AssessmentStore --------------------------
(***************************************************************************)
(* The stored assessment and the clients that replace it.                  *)
(*                                                                         *)
(* Browsers save their draft and submit a run of it: they load the stored  *)
(* assessment, choose the version they post, and then ask for a run, which *)
(* loads the stored assessment on the server.  Direct clients post a       *)
(* version of their own choice.  POST /v1/assessments keeps two S3         *)
(* objects, input.json and metadata.json, with conditional writes; every   *)
(* remote call is an action, and an invocation may stop before each.       *)
(*                                                                         *)
(* One assessment of one tenant is modelled, because no key is shared with *)
(* another one.  An ETag stands for one write: every body has its time.    *)
(* The hash of an assessment covers its version and its content.           *)
(***************************************************************************)
EXTENDS Naturals

CONSTANTS
  Browsers,    \* sessions that use saveAssessmentDraft and then run
  Direct,      \* clients that post versions of their own choice
  Contents,    \* what an assessment says, its version left out
  NoContent,   \* the content of an object that does not exist
  MaxVersion,  \* bound: versions that direct clients post
  MaxSaves,    \* bound: saves each client begins
  MaxFaults    \* bound: invocations that stop and answers that are lost

Clients == Browsers \cup Direct

ASSUME StoreAssumption ==
  /\ Browsers \cap Direct = {}
  /\ NoContent \notin Contents
  /\ MaxVersion \in Nat /\ MaxSaves \in Nat /\ MaxFaults \in Nat

VARIABLES
  input,         \* input.json
  metadata,      \* metadata.json
  pc,            \* the next remote call of each client or of its invocation
  draft,         \* the content each client is saving
  target,        \* the version each client posts
  loaded,        \* what each browser got from GET /v1/assessments/{id}
  held,          \* what each invocation read back after a conflict
  tag,           \* the ETag of metadata.json each invocation read
  acknowledged,  \* the version each client was told is stored, or 0
  ran,           \* what the run each browser submitted will compute
  saves,         \* saves each client began
  faults         \* faults so far

clientVars == <<draft, target, loaded, acknowledged, ran, saves>>
vars == <<input, metadata, pc, held, tag, faults, clientVars>>

-----------------------------------------------------------------------------
(* The objects.                                                            *)

Document == [etag : Nat, version : Nat, content : Contents \cup {NoContent}]
Missing  == [etag |-> 0, version |-> 0, content |-> NoContent]

\* put with If-None-Match: "*".
Absent(object) == object.etag = 0

\* Mutant: the write goes through whatever its If-Match says.
AnyTag(etag, object) == TRUE

\* put with If-Match.
Matches(etag, object) == object.etag = etag

\* What a put of the assessment of client c leaves under the key of object.
Written(object, c) ==
  [etag |-> object.etag + 1, version |-> target[c], content |-> draft[c]]

\* Mutant: two assessments of one version are the same.
SameVersion(object, c) == object.version = target[c]

\* The stored assessment is the posted one: same hash and same version.
Replayed(object, c) ==
  object.version = target[c] /\ object.content = draft[c]

\* Mutant: a version may be stored again.
Older(object, c) == target[c] < object.version

\* The posted version does not go beyond the stored one.
Outdated(object, c) == target[c] <= object.version

\* The version of a draft that was never stored.
DraftVersion == 1

Calls == {"put_input", "put_metadata", "get_input", "replace_input",
          "get_metadata", "replace_metadata", "create_metadata"}

TypeOK ==
  /\ input \in Document /\ metadata \in Document
  /\ pc \in [Clients -> Calls \cup {"idle", "load", "submit"}]
  /\ draft \in [Clients -> Contents \cup {NoContent}]
  /\ target \in [Clients -> Nat]
  /\ loaded \in [Clients -> Document]
  /\ held \in [Clients -> Document]
  /\ tag \in [Clients -> Nat]
  /\ acknowledged \in [Clients -> Nat]
  /\ ran \in [Clients -> Document]
  /\ saves \in [Clients -> 0..MaxSaves]
  /\ faults \in 0..MaxFaults

Init ==
  /\ input = Missing /\ metadata = Missing
  /\ pc = [c \in Clients |-> "idle"]
  /\ draft = [c \in Clients |-> NoContent]
  /\ target = [c \in Clients |-> 0]
  /\ loaded = [c \in Clients |-> Missing]
  /\ held = [c \in Clients |-> Missing]
  /\ tag = [c \in Clients |-> 0]
  /\ acknowledged = [c \in Clients |-> 0]
  /\ ran = [c \in Clients |-> Missing]
  /\ saves = [c \in Clients |-> 0]
  /\ faults = 0

-----------------------------------------------------------------------------
(* The clients.                                                            *)

Goto(c, call) == pc' = [pc EXCEPT ![c] = call]

\* A client begins to save content d.
Begin(c, d) ==
  /\ pc[c] = "idle" /\ saves[c] < MaxSaves
  /\ draft' = [draft EXCEPT ![c] = d]
  /\ saves' = [saves EXCEPT ![c] = @ + 1]
  /\ acknowledged' = [acknowledged EXCEPT ![c] = 0]
  /\ ran' = [ran EXCEPT ![c] = Missing]
  /\ UNCHANGED <<input, metadata, held, tag, faults>>

\* The user of a browser edits the draft and asks for a run.
Edit(b, d) ==
  /\ Begin(b, d) /\ Goto(b, "load")
  /\ UNCHANGED <<target, loaded>>

\* A direct client posts version v without looking at the stored one.
Post(c, d, v) ==
  /\ Begin(c, d) /\ Goto(c, "put_input")
  /\ target' = [target EXCEPT ![c] = v]
  /\ UNCHANGED loaded

\* saveAssessmentDraft: GET; an unchanged draft is not posted again.
Load(b) ==
  /\ pc[b] = "load"
  /\ loaded' = [loaded EXCEPT ![b] = input]
  /\ IF ~Absent(input) /\ input.content = draft[b]
     THEN /\ acknowledged' = [acknowledged EXCEPT ![b] = input.version]
          /\ Goto(b, "submit") /\ UNCHANGED target
     ELSE /\ target' = [target EXCEPT ![b] =
                          IF Absent(input) THEN DraftVersion
                                           ELSE input.version + 1]
          /\ Goto(b, "put_input") /\ UNCHANGED acknowledged
  /\ UNCHANGED <<input, metadata, held, tag, faults, draft, ran, saves>>

\* HttpRunApi.submit, _submit_run: the run gets the assessment stored now.
Submit(b) ==
  /\ pc[b] = "submit"
  /\ ran' = [ran EXCEPT ![b] = input]
  /\ Goto(b, "idle")
  /\ UNCHANGED <<input, metadata, held, tag, faults, draft, target, loaded,
                 acknowledged, saves>>

-----------------------------------------------------------------------------
(* POST /v1/assessments.                                                   *)

\* 200 or 201: a browser goes on to submit its run.
Accept(c) ==
  /\ acknowledged' = [acknowledged EXCEPT ![c] = target[c]]
  /\ Goto(c, IF c \in Browsers THEN "submit" ELSE "idle")

\* 409, or the invocation is gone: the client is shown an error.
Refuse(c) == Goto(c, "idle") /\ UNCHANGED acknowledged

Continue(c, call) == Goto(c, call) /\ UNCHANGED acknowledged

\* What an invocation never touches.
Elsewhere == UNCHANGED <<draft, target, loaded, ran, saves>>

PutInput(c) ==
  /\ pc[c] = "put_input"
  /\ IF Absent(input)
     THEN input' = Written(input, c) /\ Continue(c, "put_metadata")
     ELSE UNCHANGED input /\ Continue(c, "get_input")
  /\ UNCHANGED <<metadata, held, tag, faults>> /\ Elsewhere

PutMetadata(c) ==
  /\ pc[c] = "put_metadata"
  /\ IF Absent(metadata)
     THEN metadata' = Written(metadata, c) /\ Accept(c)
     ELSE UNCHANGED metadata /\ Continue(c, "get_input")
  /\ UNCHANGED <<input, held, tag, faults>> /\ Elsewhere

\* After a conflict: a replay, an outdated version, or a replacement.
GetInput(c) ==
  /\ pc[c] = "get_input"
  /\ held' = [held EXCEPT ![c] = input]
  /\ \/ Replayed(input, c) /\ Accept(c)
     \/ ~Replayed(input, c) /\ Outdated(input, c) /\ Refuse(c)
     \/ /\ ~Replayed(input, c) /\ ~Outdated(input, c)
        /\ Continue(c, "replace_input")
  /\ UNCHANGED <<input, metadata, tag, faults>> /\ Elsewhere

ReplaceInput(c) ==
  /\ pc[c] = "replace_input"
  /\ IF Matches(held[c].etag, input)
     THEN input' = Written(input, c) /\ Continue(c, "get_metadata")
     ELSE UNCHANGED input /\ Refuse(c)
  /\ UNCHANGED <<metadata, held, tag, faults>> /\ Elsewhere

GetMetadata(c) ==
  /\ pc[c] = "get_metadata"
  /\ tag' = [tag EXCEPT ![c] = metadata.etag]
  /\ Continue(c, IF Absent(metadata) THEN "create_metadata"
                                     ELSE "replace_metadata")
  /\ UNCHANGED <<input, metadata, held, faults>> /\ Elsewhere

ReplaceMetadata(c) ==
  /\ pc[c] = "replace_metadata"
  /\ IF Matches(tag[c], metadata)
     THEN metadata' = Written(metadata, c) /\ Accept(c)
     ELSE UNCHANGED metadata /\ Refuse(c)
  /\ UNCHANGED <<input, held, tag, faults>> /\ Elsewhere

CreateMetadata(c) ==
  /\ pc[c] = "create_metadata"
  /\ IF Absent(metadata)
     THEN metadata' = Written(metadata, c) /\ Accept(c)
     ELSE UNCHANGED metadata /\ Refuse(c)
  /\ UNCHANGED <<input, held, tag, faults>> /\ Elsewhere

-----------------------------------------------------------------------------
(* Faults.                                                                 *)

Fault == faults < MaxFaults /\ faults' = faults + 1

\* A call raises, or the browser's request or the invocation is lost.
Stop(c) ==
  /\ pc[c] # "idle" /\ Fault /\ Refuse(c)
  /\ UNCHANGED <<input, metadata, held, tag>> /\ Elsewhere

\* A put of input.json took effect, but S3's answer was lost: the repeated
\* call conflicts with itself.
InputAnswerLost(c) ==
  /\ Fault
  /\ \/ pc[c] = "put_input" /\ Absent(input) /\ Continue(c, "get_input")
     \/ /\ pc[c] = "replace_input" /\ Matches(held[c].etag, input)
        /\ Refuse(c)
  /\ input' = Written(input, c)
  /\ UNCHANGED <<metadata, held, tag>> /\ Elsewhere

\* The same for a put of metadata.json.
MetadataAnswerLost(c) ==
  /\ Fault
  /\ \/ pc[c] = "put_metadata" /\ Absent(metadata) /\ Continue(c, "get_input")
     \/ /\ pc[c] = "replace_metadata" /\ Matches(tag[c], metadata)
        /\ Refuse(c)
     \/ pc[c] = "create_metadata" /\ Absent(metadata) /\ Refuse(c)
  /\ metadata' = Written(metadata, c)
  /\ UNCHANGED <<input, held, tag>> /\ Elsewhere

-----------------------------------------------------------------------------
BrowserStep(b) == (\E d \in Contents : Edit(b, d)) \/ Load(b) \/ Submit(b)

Invocation(c) ==
  \/ PutInput(c) \/ PutMetadata(c) \/ GetInput(c) \/ ReplaceInput(c)
  \/ GetMetadata(c) \/ ReplaceMetadata(c) \/ CreateMetadata(c)

Next ==
  \/ \E b \in Browsers : BrowserStep(b)
  \/ \E c \in Direct, d \in Contents, v \in 1..MaxVersion : Post(c, d, v)
  \/ \E c \in Clients :
       \/ Invocation(c)
       \/ Stop(c) \/ InputAnswerLost(c) \/ MetadataAnswerLost(c)

Spec == Init /\ [][Next]_vars

-----------------------------------------------------------------------------
(* Properties.                                                             *)

Body(object) == [version |-> object.version, content |-> object.content]

\* Every write of input.json raises its version, whoever races whom: the
\* comparison in _create_assessment is with a copy that may be stale by then.
VersionsGrow == [][input' # input => input'.version > input.version]_vars

\* A browser only replaces the assessment that it showed to its user: the
\* version it computed in the page and the If-Match of the server together
\* keep a save from hiding one that came between.
NoLostUpdate ==
  [][\A b \in Browsers :
       input' # input /\ pc'[b] # pc[b] => Body(input) = Body(loaded[b])]_vars

\* metadata.json never describes a version that input.json has not reached,
\* nor the stored version with another hash.
MetadataFollows ==
  /\ metadata.version <= input.version
  /\ metadata.version = input.version => metadata.content = input.content

\* Two runs that name the same assessment version compute the same content.
RunsAgree ==
  \A b, c \in Browsers :
    ran[b].version = ran[c].version => ran[b].content = ran[c].content

\* A browser's run computes the draft it saved or something stored after it,
\* never something older and never another content under its version.
RunsOwnSave ==
  \A b \in Browsers :
    ran[b] # Missing =>
      /\ ran[b].version >= acknowledged[b] /\ acknowledged[b] > 0
      /\ ran[b].version = acknowledged[b] => ran[b].content = draft[b]

-----------------------------------------------------------------------------
(* The inductive invariant.                                                *)

\* Calls made after the posted assessment was stored.
StoredCalls ==
  {"put_metadata", "get_metadata", "replace_metadata", "create_metadata"}

\* Every pair of a version and a content that somebody holds as stored;
\* version 0 stands for nothing stored.
Facts ==
  {Body(Missing), Body(input), Body(metadata)}
    \cup {Body(loaded[c]) : c \in Clients}
    \cup {Body(held[c]) : c \in Clients}
    \cup {Body(ran[c]) : c \in Clients}
    \cup {[version |-> target[c], content |-> draft[c]] :
            c \in {d \in Clients : pc[d] \in StoredCalls}}
    \cup {[version |-> acknowledged[c], content |-> draft[c]] :
            c \in {d \in Clients : acknowledged[d] > 0}}

\* A version has one content, and none is beyond input.json.
Consistent ==
  /\ \A f \in Facts : f.version <= input.version
  /\ \A f, g \in Facts : f.version = g.version => f.content = g.content

\* An ETag identifies what was read with it.
Snapshots ==
  /\ input.etag = 0 <=> input.version = 0
  /\ \A c \in Clients :
       /\ held[c].etag <= input.etag
       /\ held[c].etag = input.etag => held[c] = input

\* What each client has to know at each of its calls.
ClientOK(c) ==
  /\ pc[c] \in Calls => target[c] > 0
  /\ pc[c] = "replace_input" => target[c] > held[c].version
  /\ pc[c] = "submit" => acknowledged[c] > 0
  /\ pc[c] # "idle" => ran[c] = Missing
  /\ c \in Browsers /\ pc[c] \in Calls => target[c] = loaded[c].version + 1
  /\ ran[c] # Missing => acknowledged[c] > 0 /\ ran[c].version >= acknowledged[c]

IInv == TypeOK /\ Consistent /\ Snapshots /\ \A c \in Clients : ClientOK(c)
=============================================================================
