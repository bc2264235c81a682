--------------------------- MODULE CopilotService ---------------------------
(***************************************************************************)
(* One question to the copilot: the view is reduced to facts, a canned     *)
(* answer is tried, and otherwise a model is asked at most twice, every    *)
(* candidate being verified against the facts before it is shown.          *)
(*                                                                         *)
(* A result is a list of items per family.  The families that name an      *)
(* entity can be narrowed to the selected one.  Prose is the set of the    *)
(* claims a reader takes from it.                                          *)
(***************************************************************************)
EXTENDS Naturals, FiniteSets, SequencesExt

CONSTANTS
  Results,     \* the results a user may ask about
  NoEntity,    \* no entity: nothing selected, an unnamed item, a missing state
  MaxFacts,    \* context._MAX_FACTS
  MaxListed,   \* context._MAX_LIST_ITEMS
  Phrases      \* sets of claims the model's prose may make

Families ==
  {"metrics", "actors", "scenarios", "categories", "drivers", "routes",
   "treatments"}

\* Components are listed by name, each once (result_adapter.py:134-141).
ASSUME CopilotResults ==
  /\ MaxFacts \in Nat /\ MaxListed \in Nat \ {0}
  /\ \A r \in Results :
       /\ \A f \in Families : r[f] \in Seq(Range(r[f]))
       /\ \A i, j \in DOMAIN r["scenarios"] :
            /\ r["scenarios"][i].name # NoEntity
            /\ r["scenarios"][i].name = r["scenarios"][j].name => i = j

VARIABLES
  asked,       \* the question: view, result, selection, topic
  facts,       \* the ViewContextBundle's facts
  attempt,     \* candidates the model was asked for
  reasons,     \* why the last candidate was rejected
  reply        \* what query returned

copilotVars == <<asked, facts, attempt, reasons, reply>>

-----------------------------------------------------------------------------
(* The view and its facts: build_view_context.                             *)

Sections ==
  [overview |-> <<"metrics", "actors", "scenarios", "categories">>,
   risk_drivers |-> <<"actors", "scenarios", "drivers">>,
   scenarios |-> <<"scenarios", "routes", "drivers">>,
   attack_paths |-> <<"routes">>,
   business_impact |-> <<"categories", "drivers">>,
   treatment |-> <<"treatments">>,
   evidence |-> << >>]

CopilotViews == DOMAIN Sections

Listed(view) == IF view = "overview" THEN 1 ELSE MaxListed

\* Families whose first item the labels call dominant or largest.
Labelled == {"actors", "scenarios", "categories", "drivers"}

\* Families whose items are no entity.
Nameless == {"metrics", "categories"}

\* The facts of one item: its tail and mean amounts (a reduction, for a
\* treatment), its name, and the state of a route that has one.
ItemFacts(family, i, item) ==
  LET fact(k, v) == [family |-> family, index |-> i, key |-> k, value |-> v]
  IN <<fact("tail", item.tail), fact("aal", item.aal)>>
     \o (IF family = "metrics" THEN << >> ELSE <<fact("name", item.name)>>)
     \o (IF family = "routes" /\ item.state # NoEntity
         THEN <<fact("state", item.state)>> ELSE << >>)

\* The items kept of one list: the first of the selected entity, or, when the
\* selection is elsewhere, only items that are no entity.
KeptItems(view, family, result, selected) ==
  LET all == DOMAIN result[family]
      entity(i) == IF family \in Nameless THEN NoEntity ELSE result[family][i].name
      own == {i \in all : entity(i) = selected}
      listed(items) == {i \in items : Cardinality({j \in items : j <= i}) <= Listed(view)}
  IN IF selected = NoEntity THEN listed(all)
     ELSE {i \in listed(IF own = {} THEN all ELSE own) : entity(i) \in {NoEntity, selected}}

FamilyFacts(view, family, result, selected) ==
  LET kept == KeptItems(view, family, result, selected)
  IN FlattenSeq([i \in DOMAIN result[family] |->
                   IF i \in kept THEN ItemFacts(family, i, result[family][i]) ELSE << >>])

Collected(view, result, selected) ==
  LET all == FlattenSeq([k \in DOMAIN Sections[view] |->
                           FamilyFacts(view, Sections[view][k], result, selected)])
  IN SubSeq(all, 1, IF Len(all) < MaxFacts THEN Len(all) ELSE MaxFacts)

\* Mutant: the comparison always describes the first scenario.
FirstScenario(result, selected) == 1

\* The scenario the governed comparison describes.
ComparedScenario(result, selected) ==
  LET own == {i \in 1..Len(result.scenarios) : result.scenarios[i].name = selected}
  IN IF own = {} THEN 1 ELSE CHOOSE i \in own : TRUE

Comparisons(view, result, selected) ==
  LET family == IF view = "overview" THEN "metrics" ELSE "scenarios"
      i == IF view = "overview" THEN 1 ELSE ComparedScenario(result, selected)
  IN IF /\ view \in {"overview", "scenarios"}
        /\ i \in DOMAIN result[family]
        /\ result[family][i].tail > result[family][i].aal
     THEN <<[family |-> family, index |-> i, key |-> "comparison",
             value |-> NoEntity]>>
     ELSE << >>

-----------------------------------------------------------------------------
(* Claims, and the checks of verify_response.                              *)

Number(n) == [claim |-> "number", of |-> n]
Named(e) == [claim |-> "name", of |-> e]
Ranked(e) == [claim |-> "rank", of |-> e]       \* "the dominant ... is e"
State(s) == [claim |-> "state", of |-> s]
Greater == [claim |-> "comparison", of |-> NoEntity]
Vague == [claim |-> "vague", of |-> NoEntity]   \* approximations, adjectives

Saying(kind, claims) == {c.of : c \in {d \in claims : d.claim = kind}}

IsNumeric(f) == f.key \in {"tail", "aal"}
IsLabelled(f) == f.key = "name" /\ f.index = 1 /\ f.family \in Labelled

\* _complete_exact_fact_citations: a fact rendered in the prose is cited.
Completed(claims, cites) ==
  cites \cup
    {i \in DOMAIN facts :
       \/ IsNumeric(facts[i]) /\ facts[i].value \in Saying("number", claims)
       \/ facts[i].key = "name"
            /\ facts[i].value \in Saying("name", claims) \cup Saying("rank", claims)
       \/ facts[i].key = "state" /\ facts[i].value \in Saying("state", claims)}

Reasons(view, claims, cites) ==
  LET cited == {facts[i] : i \in cites \cap DOMAIN facts}
      ranks == {f.value : f \in {g \in cited : IsLabelled(g)}}
      named == Saying("name", claims) \cup Saying("rank", claims)
      entities == {f.value : f \in {g \in Range(facts) : g.key = "name"}}
      check(ok, reason) == IF ok THEN {} ELSE {reason}
  IN check(cites # {} /\ cites \subseteq DOMAIN facts,
           "unknown_or_missing_fact_id")
     \cup check(Saying("vague", claims) = {}, "unsupported_qualitative_label")
     \cup check(\A n \in Saying("number", claims) :
                  \E f \in cited : IsNumeric(f) /\ f.value = n,
                "unsupported_number")
     \cup check(Saying("rank", claims) # {} =>
                  ranks # {} /\ named \cap entities \subseteq ranks,
                "unsupported_ranking")
     \cup check(Saying("comparison", claims) # {} =>
                  \E f \in cited : f.key = "comparison",
                "unsupported_comparison")
     \cup check(view = "attack_paths" =>
                  Saying("state", claims)
                    \subseteq {f.value : f \in {g \in cited : g.key = "state"}},
                "unsupported_path_state")
     \cup check(named \cap entities \subseteq {f.value : f \in cited},
                "uncited_entity_claim")

-----------------------------------------------------------------------------
(* Canned answers: prose assembled from facts, without the model.          *)

\* The facts with one of these keys, of one of these families.
FactsOf(keys, families) ==
  {i \in DOMAIN facts : facts[i].key \in keys /\ facts[i].family \in families}
Labels(families) == {i \in FactsOf({"name"}, families) : IsLabelled(facts[i])}
First(S) == CHOOSE i \in S : \A j \in S : i <= j
FirstOf(S) == {i \in S : \A j \in S : i <= j}

Canned(claims, cites) == [by |-> "canned", claims |-> claims, cites |-> cites]

\* _overview_answer: the metrics, when the tail exceeds the mean.
OverviewAnswer ==
  LET of(k) == FactsOf({k}, {"metrics"})
  IN IF \E k \in {"tail", "aal", "comparison"} : of(k) = {} THEN {}
     ELSE {Canned({Number(facts[First(of(k))].value) : k \in {"tail", "aal"}}
                    \cup {Greater},
                  {First(of(k)) : k \in {"tail", "aal", "comparison"}})}

\* _risk_driver_answer, _business_impact_answer: the labelled item of each.
TopAnswer(families) ==
  IF \E f \in families : Labels({f}) = {} THEN {}
  ELSE {Canned({Ranked(facts[First(Labels({f}))].value) : f \in families},
               {First(Labels({f})) : f \in families})}

\* _scenario_answer: the first name, tail, AAL and comparison of the view.
ScenarioAnswer ==
  LET of(k) == FactsOf({k}, IF k = "name" THEN Families ELSE {"scenarios"})
      name == IF Labels({"scenarios"}) # {} THEN Labels({"scenarios"}) ELSE of("name")
      cited == {First(name), First(of("tail")), First(of("aal"))} \cup of("comparison")
  IN IF name = {} \/ of("tail") = {} \/ of("aal") = {} THEN {}
     ELSE {Canned({Named(facts[First(name)].value),
                   Number(facts[First(of("tail"))].value),
                   Number(facts[First(of("aal"))].value)}
                  \cup (IF Labels({"scenarios"}) # {}
                        THEN {Ranked(facts[First(name)].value)} ELSE {})
                  \cup (IF of("comparison") # {} THEN {Greater} ELSE {}), cited)}

\* _no_treatment_benefit_answer: every reduction is zero.
NoBenefitAnswer ==
  LET amounts == FactsOf({"tail", "aal"}, Families)
      names == FactsOf({"name"}, Families)
  IN IF amounts = {} \/ (\E i \in amounts : facts[i].value # 0) THEN {}
     ELSE {Canned({Number(0)} \cup {Named(facts[i].value) : i \in FirstOf(names)},
                  FirstOf(amounts) \cup FirstOf(names))}

\* _missing_path_state_answer and _missing_evidence_ranking_answer: the gap is
\* named, with some fact of the view cited when there is one.
GapAnswer(present) ==
  IF present # {} THEN {}
  ELSE {Canned({}, IF facts = << >> THEN {} ELSE {1})}

CannedAnswers ==
  IF asked.topic # "standard" THEN {}
  ELSE CASE asked.view = "overview" -> OverviewAnswer
         [] asked.view = "risk_drivers" ->
              TopAnswer({"actors", "scenarios", "drivers"})
         [] asked.view = "scenarios" -> ScenarioAnswer
         [] asked.view = "business_impact" -> TopAnswer({"categories", "drivers"})
         [] asked.view = "treatment" -> NoBenefitAnswer
         [] asked.view = "attack_paths" ->
              GapAnswer(FactsOf({"state"}, Families))
         [] asked.view = "evidence" -> GapAnswer(Labels(Families))

-----------------------------------------------------------------------------
Nobody == [view |-> "none"]
Waiting == [by |-> "nobody"]

CopilotInit ==
  /\ asked = Nobody /\ facts = << >> /\ attempt = 0 /\ reasons = {}
  /\ reply = Waiting

\* A question arrives and its context is built.
Ask(view, result, selected, topic) ==
  /\ asked = Nobody
  /\ asked' = [view |-> view, result |-> result, selected |-> selected,
               topic |-> topic]
  /\ facts' = Collected(view, result, selected)
                \o Comparisons(view, result, selected)
  /\ UNCHANGED <<attempt, reasons, reply>>

Open == asked # Nobody /\ reply = Waiting

\* A question about insurance is redirected to its view.
Redirect ==
  /\ Open /\ asked.topic = "insurance"
  /\ reply' = Canned({}, {})
  /\ UNCHANGED <<asked, facts, attempt, reasons>>

AnswerCanned ==
  /\ Open
  /\ \E a \in CannedAnswers : reply' = a
  /\ UNCHANGED <<asked, facts, attempt, reasons>>

MayAsk ==
  /\ Open /\ attempt < 2
  /\ asked.topic # "insurance" /\ CannedAnswers = {}

\* The provider fails in a way the loop handles, or the shape is wrong.
CandidateUnusable ==
  /\ MayAsk
  /\ attempt' = attempt + 1
  /\ reasons' = {"response_schema"}
  /\ UNCHANGED <<asked, facts, reply>>

\* Mutant: the second candidate is shown whatever the checks say.
LastIsShown(claims, cites) ==
  /\ MayAsk
  /\ attempt' = attempt + 1
  /\ LET all == Completed(claims, cites)
         why == Reasons(asked.view, claims, all)
     IN /\ reasons' = why
        /\ reply' = IF why = {} \/ attempt = 1
                    THEN [by |-> "model", claims |-> claims, cites |-> all]
                    ELSE Waiting
  /\ UNCHANGED <<asked, facts>>

\* A candidate is completed, verified, and shown only when nothing is wrong.
Candidate(claims, cites) ==
  /\ MayAsk
  /\ attempt' = attempt + 1
  /\ LET all == Completed(claims, cites)
         why == Reasons(asked.view, claims, all)
     IN /\ reasons' = why
        /\ reply' = IF why = {}
                    THEN [by |-> "model", claims |-> claims, cites |-> all]
                    ELSE Waiting
  /\ UNCHANGED <<asked, facts>>

\* After two rejected candidates the text is discarded.
Reject ==
  /\ Open /\ attempt = 2
  /\ reply' = [by |-> "rejected", claims |-> {}, cites |-> {}]
  /\ UNCHANGED <<asked, facts, attempt, reasons>>

\* Another exception of the provider leaves query: the API answers 500.
ProviderRaises ==
  /\ MayAsk
  /\ reply' = [by |-> "error", claims |-> {}, cites |-> {}]
  /\ UNCHANGED <<asked, facts, attempt, reasons>>

Selections(result) ==
  {NoEntity} \cup {item.name : item \in UNION {Range(result[f]) : f \in Families \ Nameless}}

CopilotNext ==
  \/ \E view \in CopilotViews, result \in Results,
          topic \in {"standard", "insurance", "free"} :
       \E selected \in Selections(result) : Ask(view, result, selected, topic)
  \/ Redirect \/ AnswerCanned \/ CandidateUnusable
  \/ \E claims \in Phrases :
       \E cites \in {{}, {1}, DOMAIN facts, {Len(facts) + 1}} : Candidate(claims, cites)
  \/ Reject \/ ProviderRaises

CopilotSpec == CopilotInit /\ [][CopilotNext]_copilotVars

-----------------------------------------------------------------------------
(* Properties.                                                             *)

Answered == reply # Waiting

\* Whatever is shown, canned or generated, in either attempt, is backed by the
\* view: its numbers and path states are those of facts, a named entity is
\* cited, a ranking names the items that are labelled so, and a comparison
\* cites a governed one (service.py:48-70, verifier.py:14-99).
ShownIsGrounded ==
  Answered =>
    /\ \A n \in Saying("number", reply.claims) :
         \E i \in reply.cites : IsNumeric(facts[i]) /\ facts[i].value = n
    /\ asked.view = "attack_paths" =>
         \A s \in Saying("state", reply.claims) :
           \E i \in DOMAIN facts : facts[i].key = "state" /\ facts[i].value = s
    /\ \A i \in DOMAIN facts :
         facts[i].key = "name" /\ facts[i].value \in Saying("rank", reply.claims)
           => \E j \in reply.cites :
                IsLabelled(facts[j]) /\ facts[j].value = facts[i].value
    /\ Saying("comparison", reply.claims) # {} =>
         \E i \in reply.cites : facts[i].key = "comparison"
    /\ reply.cites \subseteq DOMAIN facts

\* An answer about the selected scenario is about it alone: the name, the
\* amounts and the comparison of a canned answer describe one scenario, and
\* the selected one when a scenario is selected (context.py:124-156, 320-347,
\* service.py:174-191).
AnswerIsOfSelection ==
  Answered /\ asked.view = "scenarios" /\ reply.by = "canned" /\ reply.cites # {} =>
    LET about == {facts[i].index : i \in reply.cites}
        own == {i \in DOMAIN asked.result.scenarios :
                  asked.result.scenarios[i].name = asked.selected}
    IN Cardinality(about) = 1 /\ (own # {} => about \subseteq own)

\* An answer that calls an actor, a scenario, a category or a driver dominant
\* or largest names one no other of its family exceeds in AAL
\* (context.py:175-181, docs/productisation/PHASE6A_HUMAN_REVIEW.md:50).
DominantIsLargest ==
  Answered /\ reply.by = "canned" =>
    \A i \in reply.cites :
      IsLabelled(facts[i]) /\ facts[i].value \in Saying("rank", reply.claims) =>
        LET items == asked.result[facts[i].family]
        IN \A k \in 1..Len(items) : items[k].aal <= items[facts[i].index].aal
=============================================================================
