----------------------- MODULE AssessmentStoreProofs -----------------------
(***************************************************************************)
(* Proofs about AssessmentStore, for any browsers, direct clients and      *)
(* contents and any bound on saves, versions and faults.                   *)
(***************************************************************************)
EXTENDS AssessmentStore, TLAPS

USE DEF Calls, StoredCalls

\* The one action a client c can take, browsers and direct clients alike.
Action(c) ==
  \/ c \in Browsers /\ BrowserStep(c)
  \/ c \in Direct /\ \E d \in Contents, v \in 1..MaxVersion : Post(c, d, v)
  \/ Invocation(c)
  \/ Stop(c) \/ InputAnswerLost(c) \/ MetadataAnswerLost(c)

\* Next is a step of some client.
LEMMA NextIsAction == Next => \E c \in Clients : Action(c)
BY DEF Next, Action, Clients

\* What a put stores is a document.
LEMMA WrittenType ==
  ASSUME TypeOK, NEW object \in Document, NEW c \in Clients
  PROVE  Written(object, c) \in Document
BY DEF TypeOK, Written, Document

\* What a put stores is what the client posted, under a new ETag.
LEMMA WrittenFields ==
  ASSUME NEW object, NEW c
  PROVE  /\ Written(object, c).etag = object.etag + 1
         /\ Written(object, c).version = target[c]
         /\ Written(object, c).content = draft[c]
BY DEF Written

-----------------------------------------------------------------------------
(* Type correctness.                                                       *)

\* A client's step leaves every variable in its type.
LEMMA TypeStep ==
  ASSUME TypeOK, NEW c \in Clients, Action(c)
  PROVE  TypeOK'
<1> USE StoreAssumption
<1>a. Written(input, c) \in Document /\ Written(metadata, c) \in Document
  BY WrittenType DEF TypeOK
<1>b. target[c] \in Nat
  BY DEF TypeOK
<1>1. ASSUME NEW d \in Contents, Edit(c, d) PROVE TypeOK'
  BY <1>1 DEF TypeOK, Edit, Begin, Goto, Missing, Document
<1>2. ASSUME NEW d \in Contents, NEW v \in 1..MaxVersion, Post(c, d, v)
      PROVE  TypeOK'
  BY <1>2 DEF TypeOK, Post, Begin, Goto, Missing, Document
<1>3. CASE Load(c)
  <2>1. input.version \in Nat
    BY DEF TypeOK, Document
  <2> QED
    BY <1>3, <2>1 DEF TypeOK, Load, Goto, DraftVersion
<1>4. CASE Submit(c)
  BY <1>4 DEF TypeOK, Submit, Goto
<1>5. CASE PutInput(c)
  BY <1>5, <1>a, <1>b DEF TypeOK, PutInput, Continue, Goto, Elsewhere
<1>6. CASE PutMetadata(c)
  BY <1>6, <1>a, <1>b
  DEF TypeOK, PutMetadata, Continue, Accept, Goto, Elsewhere
<1>7. CASE GetInput(c)
  BY <1>7 DEF TypeOK, GetInput, Continue, Accept, Refuse, Goto, Elsewhere
<1>8. CASE ReplaceInput(c)
  BY <1>8, <1>a, <1>b
  DEF TypeOK, ReplaceInput, Continue, Refuse, Goto, Elsewhere
<1>9. CASE GetMetadata(c)
  <2>1. metadata.etag \in Nat
    BY DEF TypeOK, Document
  <2> QED
    BY <1>9, <2>1 DEF TypeOK, GetMetadata, Continue, Goto, Elsewhere
<1>10. CASE ReplaceMetadata(c)
  BY <1>10, <1>a, <1>b
  DEF TypeOK, ReplaceMetadata, Accept, Refuse, Goto, Elsewhere
<1>11. CASE CreateMetadata(c)
  BY <1>11, <1>a, <1>b
  DEF TypeOK, CreateMetadata, Accept, Refuse, Goto, Elsewhere
<1>12. CASE Stop(c)
  BY <1>12 DEF TypeOK, Stop, Fault, Refuse, Goto, Elsewhere
<1>13. CASE InputAnswerLost(c)
  BY <1>13, <1>a, <1>b
  DEF TypeOK, InputAnswerLost, Fault, Refuse, Continue, Goto, Elsewhere
<1>14. CASE MetadataAnswerLost(c)
  BY <1>14, <1>a, <1>b
  DEF TypeOK, MetadataAnswerLost, Fault, Refuse, Continue, Goto, Elsewhere
<1> QED
  BY <1>1, <1>2, <1>3, <1>4, <1>5, <1>6, <1>7, <1>8, <1>9, <1>10, <1>11,
     <1>12, <1>13, <1>14
  DEF Action, BrowserStep, Invocation

\* The variables always hold values of their types.
THEOREM TypeCorrect == Spec => []TypeOK
<1>1. Init => TypeOK
  BY StoreAssumption DEF Init, TypeOK, Missing, Document
<1>2. TypeOK /\ [Next]_vars => TypeOK'
  <2>1. CASE UNCHANGED vars
    BY <2>1 DEF vars, clientVars, TypeOK
  <2> QED
    BY <2>1, NextIsAction, TypeStep
<1> QED
  BY <1>1, <1>2, PTL DEF Spec

-----------------------------------------------------------------------------
(* What is known about the stored versions.                                *)

\* A write of input.json goes to a new version, and only the client whose
\* put it is may write it.
LEMMA InputStep ==
  ASSUME IInv, NEW c \in Clients, Action(c), input' # input
  PROVE  /\ input' = Written(input, c)
         /\ input'.version > input.version
         /\ pc[c] \in {"put_input", "replace_input"}
         /\ pc'[c] # pc[c]
         /\ \A d \in Clients \ {c} : pc'[d] = pc[d]
<1> USE WrittenFields DEF IInv
<1>1. \/ PutInput(c) \/ ReplaceInput(c) \/ InputAnswerLost(c)
  BY DEF Action, BrowserStep, Edit, Load, Submit, Post, Begin, Invocation,
         PutMetadata, GetInput, GetMetadata, ReplaceMetadata, CreateMetadata,
         Stop, MetadataAnswerLost
<1>2. /\ input' = Written(input, c)
      /\ pc[c] \in {"put_input", "replace_input"}
      /\ \/ pc[c] = "put_input" /\ Absent(input)
         \/ pc[c] = "replace_input" /\ Matches(held[c].etag, input)
  BY <1>1 DEF PutInput, ReplaceInput, InputAnswerLost
<1>3. pc'[c] # pc[c] /\ \A d \in Clients \ {c} : pc'[d] = pc[d]
  BY <1>1 DEF PutInput, ReplaceInput, InputAnswerLost, Continue, Refuse, Goto,
              TypeOK
<1>4. target[c] > input.version
  <2>1. CASE pc[c] = "put_input" /\ Absent(input)
    BY <2>1 DEF Absent, Snapshots, ClientOK
  <2>2. CASE pc[c] = "replace_input" /\ Matches(held[c].etag, input)
    BY <2>2 DEF Matches, Snapshots, ClientOK
  <2> QED
    BY <1>2, <2>1, <2>2
<1> QED
  BY <1>2, <1>3, <1>4

\* A fact is the body of one of the objects, or of a client's copy, or what a
\* client posted or was told.
LEMMA FactCases ==
  ASSUME NEW f
  PROVE  f \in Facts <=>
           \/ f \in {Body(Missing), Body(input), Body(metadata)}
           \/ \E c \in Clients :
                \/ f \in {Body(loaded[c]), Body(held[c]), Body(ran[c])}
                \/ /\ pc[c] \in StoredCalls
                   /\ f = [version |-> target[c], content |-> draft[c]]
                \/ /\ acknowledged[c] > 0
                   /\ f = [version |-> acknowledged[c], content |-> draft[c]]
BY DEF Facts

\* The same about the next state.
LEMMA FactCasesNext ==
  ASSUME NEW f
  PROVE  f \in Facts' <=>
           \/ f \in {Body(Missing), Body(input'), Body(metadata')}
           \/ \E c \in Clients :
                \/ f \in {Body(loaded'[c]), Body(held'[c]), Body(ran'[c])}
                \/ /\ pc'[c] \in StoredCalls
                   /\ f = [version |-> target'[c], content |-> draft'[c]]
                \/ /\ acknowledged'[c] > 0
                   /\ f = [version |-> acknowledged'[c], content |-> draft'[c]]
BY DEF Facts, Body, Missing

\* Only a write of input.json makes a new fact.
LEMMA FactsStep ==
  ASSUME IInv, NEW c \in Clients, Action(c)
  PROVE  \A f \in Facts' : f \in Facts \cup {Body(input')}
<1> SUFFICES ASSUME NEW f, f \in Facts'
             PROVE  f \in Facts \/ f = Body(input')
  OBVIOUS
<1> USE FactCases, FactCasesNext
<1>1. ASSUME NEW d \in Contents, Edit(c, d)
      PROVE  f \in Facts
  BY <1>1 DEF Edit, Begin, Goto, IInv, TypeOK
<1>2. ASSUME NEW d \in Contents, NEW v \in 1..MaxVersion, Post(c, d, v)
      PROVE  f \in Facts
  BY <1>2 DEF Post, Begin, Goto, IInv, TypeOK
<1>3. CASE Load(c)
  BY <1>3 DEF Load, Goto, IInv, TypeOK, Body
<1>4. CASE Submit(c)
  BY <1>4 DEF Submit, Goto, IInv, TypeOK
<1>5. CASE PutInput(c)
  BY <1>5, WrittenFields DEF PutInput, Continue, Goto, Elsewhere, IInv, TypeOK, Body
<1>6. CASE PutMetadata(c)
  BY <1>6, WrittenFields
  DEF PutMetadata, Continue, Accept, Goto, Elsewhere, IInv, TypeOK, Body
<1>7. CASE GetInput(c)
  BY <1>7 DEF GetInput, Continue, Accept, Refuse, Goto, Elsewhere, Replayed,
              IInv, TypeOK, Body
<1>8. CASE ReplaceInput(c)
  BY <1>8, WrittenFields
  DEF ReplaceInput, Continue, Refuse, Goto, Elsewhere, IInv, TypeOK, Body
<1>9. CASE GetMetadata(c)
  BY <1>9 DEF GetMetadata, Continue, Goto, Elsewhere, IInv, TypeOK
<1>10. CASE ReplaceMetadata(c)
  BY <1>10, WrittenFields
  DEF ReplaceMetadata, Accept, Refuse, Goto, Elsewhere, IInv, TypeOK, Body
<1>11. CASE CreateMetadata(c)
  BY <1>11, WrittenFields
  DEF CreateMetadata, Accept, Refuse, Goto, Elsewhere, IInv, TypeOK, Body
<1>12. CASE Stop(c)
  BY <1>12 DEF Stop, Refuse, Goto, Elsewhere, IInv, TypeOK
<1>13. CASE InputAnswerLost(c)
  BY <1>13, WrittenFields
  DEF InputAnswerLost, Refuse, Continue, Goto, Elsewhere, IInv, TypeOK, Body
<1>14. CASE MetadataAnswerLost(c)
  BY <1>14, WrittenFields
  DEF MetadataAnswerLost, Refuse, Continue, Goto, Elsewhere, IInv, TypeOK, Body
<1> QED
  BY <1>1, <1>2, <1>3, <1>4, <1>5, <1>6, <1>7, <1>8, <1>9, <1>10, <1>11,
     <1>12, <1>13, <1>14
  DEF Action, BrowserStep, Invocation

\* A client's step keeps one content per version.
LEMMA ConsistentStep ==
  ASSUME IInv, NEW c \in Clients, Action(c)
  PROVE  Consistent'
<1> DEFINE new == Body(input')
<1>1. \A f \in Facts' : f \in Facts \cup {new}
  BY FactsStep
<1>2. CASE input' = input
  <2>1. new \in Facts
    BY <1>2, FactCases
  <2> QED
    BY <1>1, <1>2, <2>1 DEF IInv, Consistent
<1>3. CASE input' # input
  <2>1. new.version = input'.version /\ input'.version > input.version
    BY <1>3, InputStep DEF Body
  <2>2. /\ \A f \in Facts : f.version <= input.version /\ f.version \in Nat
        /\ input.version \in Nat /\ input'.version \in Nat
    <3>1. input' \in Document
      BY TypeStep DEF IInv, TypeOK
    <3>2. \A f \in Facts : f.version \in Nat
      BY FactCases DEF IInv, TypeOK, Document, Body, Missing
    <3> QED
      BY <3>1, <3>2 DEF IInv, TypeOK, Document, Consistent
  <2> HIDE DEF new
  <2>3. \A f, g \in Facts : f.version = g.version => f.content = g.content
    BY DEF IInv, Consistent
  <2> QED
    BY <1>1, <2>1, <2>2, <2>3 DEF Consistent
<1> QED
  BY <1>2, <1>3

\* A client's step leaves every copy of input.json either current or past.
LEMMA SnapshotsStep ==
  ASSUME IInv, NEW c \in Clients, Action(c)
  PROVE  Snapshots'
<1>1. \/ held' = held
      \/ input' = input /\ held' = [held EXCEPT ![c] = input]
  BY DEF Action, BrowserStep, Edit, Load, Submit, Post, Begin, Invocation,
         PutInput, PutMetadata, GetInput, ReplaceInput, GetMetadata,
         ReplaceMetadata, CreateMetadata, Stop, InputAnswerLost,
         MetadataAnswerLost
<1>2. /\ input \in Document
      /\ held \in [Clients -> Document]
      /\ \A d \in Clients : held[d] \in Document
  BY DEF IInv, TypeOK
<1>3. CASE input' = input
  BY <1>1, <1>2, <1>3 DEF IInv, Snapshots, Document
<1>4. CASE input' # input
  <2>1. held' = held /\ input'.etag = input.etag + 1
    BY <1>1, <1>4, InputStep, WrittenFields
  <2>2. input'.version = target[c] /\ input'.version > input.version
    BY <1>4, InputStep, WrittenFields
  <2>3. target[c] \in Nat
    BY DEF IInv, TypeOK
  <2> QED
    BY <1>2, <2>1, <2>2, <2>3 DEF IInv, Snapshots, Document
<1> QED
  BY <1>3, <1>4

\* What a client has to know, kept by its own steps.
LEMMA ClientStep ==
  ASSUME IInv, NEW c \in Clients, Action(c)
  PROVE  ClientOK(c)'
<1>a. /\ input \in Document /\ loaded[c] \in Document /\ held[c] \in Document
      /\ ran[c] \in Document
      /\ acknowledged[c] \in Nat /\ target[c] \in Nat
      /\ ClientOK(c) /\ TypeOK
  BY DEF IInv, TypeOK
<1>b. input.etag = 0 <=> input.version = 0
  BY DEF IInv, Snapshots
<1>c. ASSUME acknowledged[c] > 0 PROVE acknowledged[c] <= input.version
  <2> DEFINE f == [version |-> acknowledged[c], content |-> draft[c]]
  <2>1. f \in Facts
    BY <1>c, FactCases
  <2> QED
    BY <2>1 DEF IInv, Consistent
<1>1. ASSUME NEW d \in Contents, Edit(c, d) PROVE ClientOK(c)'
  BY <1>1, <1>a DEF Edit, Begin, Goto, ClientOK, TypeOK, Missing
<1>2. ASSUME c \in Direct, NEW d \in Contents, NEW v \in 1..MaxVersion,
             Post(c, d, v)
      PROVE  ClientOK(c)'
  BY <1>2, <1>a, StoreAssumption
  DEF Post, Begin, Goto, ClientOK, TypeOK, Missing
<1>3. CASE Load(c)
  BY <1>3, <1>a, <1>b
  DEF Load, Goto, ClientOK, TypeOK, Absent, DraftVersion, Document
<1>4. CASE Submit(c)
  BY <1>4, <1>a, <1>c DEF Submit, Goto, ClientOK, TypeOK, Document
<1>5. CASE PutInput(c)
  BY <1>5, <1>a DEF PutInput, Continue, Goto, Elsewhere, ClientOK, TypeOK
<1>6. CASE PutMetadata(c)
  BY <1>6, <1>a
  DEF PutMetadata, Continue, Accept, Goto, Elsewhere, ClientOK, TypeOK
<1>7. CASE GetInput(c)
  BY <1>7, <1>a
  DEF GetInput, Continue, Accept, Refuse, Goto, Elsewhere, Outdated, ClientOK,
      TypeOK, Document
<1>8. CASE ReplaceInput(c)
  BY <1>8, <1>a
  DEF ReplaceInput, Continue, Refuse, Goto, Elsewhere, ClientOK, TypeOK
<1>9. CASE GetMetadata(c)
  BY <1>9, <1>a DEF GetMetadata, Continue, Goto, Elsewhere, ClientOK, TypeOK
<1>10. CASE ReplaceMetadata(c)
  BY <1>10, <1>a
  DEF ReplaceMetadata, Accept, Refuse, Goto, Elsewhere, ClientOK, TypeOK
<1>11. CASE CreateMetadata(c)
  BY <1>11, <1>a
  DEF CreateMetadata, Accept, Refuse, Goto, Elsewhere, ClientOK, TypeOK
<1>12. CASE Stop(c)
  BY <1>12, <1>a DEF Stop, Refuse, Goto, Elsewhere, ClientOK, TypeOK
<1>13. CASE InputAnswerLost(c)
  BY <1>13, <1>a
  DEF InputAnswerLost, Refuse, Continue, Goto, Elsewhere, ClientOK, TypeOK
<1>14. CASE MetadataAnswerLost(c)
  BY <1>14, <1>a
  DEF MetadataAnswerLost, Refuse, Continue, Goto, Elsewhere, ClientOK, TypeOK
<1> QED
  BY <1>1, <1>2, <1>3, <1>4, <1>5, <1>6, <1>7, <1>8, <1>9, <1>10, <1>11,
     <1>12, <1>13, <1>14
  DEF Action, BrowserStep, Invocation

\* A client's step does not change what another client knows.
LEMMA OthersStep ==
  ASSUME IInv, NEW c \in Clients, Action(c), NEW d \in Clients \ {c}
  PROVE  ClientOK(d)'
<1>1. /\ pc'[d] = pc[d] /\ target'[d] = target[d] /\ held'[d] = held[d]
      /\ acknowledged'[d] = acknowledged[d] /\ ran'[d] = ran[d]
      /\ loaded'[d] = loaded[d]
  BY DEF IInv, TypeOK, Action, BrowserStep, Edit, Load, Submit, Post, Begin,
         Invocation, PutInput, PutMetadata, GetInput, ReplaceInput,
         GetMetadata, ReplaceMetadata, CreateMetadata, Stop, InputAnswerLost,
         MetadataAnswerLost, Continue, Accept, Refuse, Goto, Elsewhere
<1> QED
  BY <1>1 DEF IInv, ClientOK

\* The inductive invariant holds in every reachable state.
THEOREM Invariance == Spec => []IInv
<1>1. Init => IInv
  <2> SUFFICES ASSUME Init PROVE IInv
    OBVIOUS
  <2>1. TypeOK
    BY StoreAssumption DEF Init, TypeOK, Missing, Document
  <2>2. \A f \in Facts : f = Body(Missing)
    BY DEF Init, Facts
  <2>3. Consistent
    BY <2>2 DEF Init, Consistent, Body, Missing
  <2>4. Snapshots /\ \A c \in Clients : ClientOK(c)
    BY DEF Init, Snapshots, ClientOK, Missing
  <2> QED
    BY <2>1, <2>3, <2>4 DEF IInv
<1>2. IInv /\ [Next]_vars => IInv'
  <2> SUFFICES ASSUME IInv, [Next]_vars PROVE IInv'
    OBVIOUS
  <2>1. CASE UNCHANGED vars
    BY <2>1 DEF vars, clientVars, IInv, TypeOK, Consistent, Facts, Body,
                Snapshots, ClientOK
  <2>2. ASSUME NEW c \in Clients, Action(c) PROVE IInv'
    <3>1. TypeOK'
      BY <2>2, TypeStep DEF IInv
    <3>2. Consistent' /\ Snapshots'
      BY <2>2, ConsistentStep, SnapshotsStep
    <3>3. \A d \in Clients : ClientOK(d)'
      BY <2>2, ClientStep, OthersStep
    <3> QED
      BY <3>1, <3>2, <3>3 DEF IInv
  <2> QED
    BY <2>1, <2>2, NextIsAction
<1> QED
  BY <1>1, <1>2, PTL DEF Spec

-----------------------------------------------------------------------------
(* The properties.                                                         *)

\* metadata.json never runs ahead of input.json nor contradicts it.
THEOREM MetadataIsBehind == Spec => []MetadataFollows
<1>1. ASSUME IInv PROVE MetadataFollows
  <2>1. Body(input) \in Facts /\ Body(metadata) \in Facts
    BY FactCases
  <2> QED
    BY <1>1, <2>1 DEF IInv, Consistent, MetadataFollows, Body
<1> QED
  BY <1>1, Invariance, PTL

\* Runs of one version compute one content.
THEOREM RunsOfAVersionAgree == Spec => []RunsAgree
<1>1. IInv => RunsAgree
  <2> SUFFICES ASSUME IInv, NEW b \in Browsers, NEW c \in Browsers,
                      ran[b].version = ran[c].version
               PROVE  ran[b].content = ran[c].content
    BY DEF RunsAgree
  <2>1. Body(ran[b]) \in Facts /\ Body(ran[c]) \in Facts
    BY FactCases DEF Clients
  <2> QED
    BY <2>1 DEF IInv, Consistent, Body
<1> QED
  BY <1>1, Invariance, PTL

\* A browser's run computes what it saved or something newer.
THEOREM RunsUseTheSave == Spec => []RunsOwnSave
<1>1. IInv => RunsOwnSave
  <2> SUFFICES ASSUME IInv, NEW b \in Browsers, ran[b] # Missing
               PROVE  /\ ran[b].version >= acknowledged[b]
                      /\ acknowledged[b] > 0
                      /\ ran[b].version = acknowledged[b]
                           => ran[b].content = draft[b]
    BY DEF RunsOwnSave
  <2> DEFINE told == [version |-> acknowledged[b], content |-> draft[b]]
  <2>1. /\ b \in Clients
        /\ ran[b].version >= acknowledged[b] /\ acknowledged[b] > 0
    BY DEF Clients, IInv, ClientOK
  <2>2. Body(ran[b]) \in Facts /\ told \in Facts
    BY <2>1, FactCases
  <2> QED
    BY <2>1, <2>2 DEF IInv, Consistent, Body
<1> QED
  BY <1>1, Invariance, PTL

\* Every write of input.json raises its version.
THEOREM VersionsOnlyGrow == Spec => VersionsGrow
<1>1. IInv /\ [Next]_vars => [input' # input => input'.version > input.version]_vars
  BY NextIsAction, InputStep DEF vars
<1> QED
  BY <1>1, Invariance, PTL DEF Spec, VersionsGrow

\* A browser only replaces what it loaded.
THEOREM UpdatesAreSeen == Spec => NoLostUpdate
<1> DEFINE Seen == \A b \in Browsers :
             input' # input /\ pc'[b] # pc[b] => Body(input) = Body(loaded[b])
<1>1. IInv /\ [Next]_vars => [Seen]_vars
  <2> SUFFICES ASSUME IInv, NEW c \in Clients, Action(c), NEW b \in Browsers,
                      input' # input, pc'[b] # pc[b]
               PROVE  Body(input) = Body(loaded[b])
    BY NextIsAction DEF vars
  <2>1. /\ b = c /\ b \in Clients /\ pc[c] \in Calls
        /\ target[c] > input.version
    BY InputStep, WrittenFields DEF Clients
  <2>2. target[b] = loaded[b].version + 1
    BY <2>1 DEF IInv, ClientOK
  <2>3. Body(input) \in Facts /\ Body(loaded[b]) \in Facts
    BY <2>1, FactCases
  <2>4. input.version \in Nat /\ loaded[b].version \in Nat
    BY <2>1 DEF IInv, TypeOK, Document
  <2>5. loaded[b].version = input.version
    BY <2>1, <2>2, <2>3, <2>4 DEF IInv, Consistent, Body
  <2> QED
    BY <2>3, <2>5 DEF IInv, Consistent, Body
<1> QED
  BY <1>1, Invariance, PTL DEF Spec, NoLostUpdate
=============================================================================
