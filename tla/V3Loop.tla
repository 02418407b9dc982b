------------------------------- MODULE V3Loop -------------------------------
(***************************************************************************)
(* pipeline.py, CoverPipeline._run_v3_control_loop: before a query is       *)
(* finalized, bounded rounds each read a failure state off the hypotheses, *)
(* build the catalogue of actions that the relation and the state allow,   *)
(* let the planner (production) or a selector (TRAIN collection) choose    *)
(* one, run it, and remember it.  Evidence is the candidates found so far  *)
(* with their support and latest verdict; what the models answer is free.  *)
(***************************************************************************)
EXTENDS Integers, FiniteSets, Sequences

CONSTANTS
  Relations,    \* relations under test
  Candidates,   \* objects the models may name
  PlainNames,   \* candidates whose display text is their normalized key
  MaxRounds,    \* max_control_rounds_per_catalogue, max_steps_per_query
  MaxCalls,     \* Budget.max_calls
  ExtraCalls,   \* train_collection_extra_v3_calls_per_query
  None

ASSUME V3Assumption ==
  /\ PlainNames \subseteq Candidates /\ None \notin Candidates
  /\ MaxRounds \in Nat /\ MaxCalls \in Nat /\ ExtraCalls \in Nat

VARIABLES
  relation, collection,  \* collection: TRAIN collection, else production
  found,     \* candidate |-> Hypothesis, of the candidates named so far
  edges,     \* verdict edges of the evidence graph: <<action, candidate, verdict>>
  history,   \* ActionHistory.entries
  calls,     \* calls_used of the budget snapshot
  at,        \* where the loop is
  chosen     \* the action of this round

v3Vars == <<relation, collection, found, edges, history, calls, at, chosen>>

-----------------------------------------------------------------------------
(* Relation profiles *)

Numeric == {"hasArea", "hasCapacity"}
SetValued == {"companyTradesAtStockExchange", "awardWonBy", "countryLandBordersCountry"}
OpenSet == {"awardWonBy"}
Elimination == {"companyTradesAtStockExchange"}

Recalls == {"MULTI_VIEW_RECALL", "INDEPENDENT_RECALL", "DEFINITION_RECALL",
            "ALTERNATIVE_RECALL", "ATTRIBUTE_DECOMPOSITION", "SET_EXPANSION"}
Checks == {"LISTING_ELIMINATION", "SEMANTIC_VERIFY", "UNARY_VERIFY", "CONTRAST_VERIFY"}

\* _relation_allowed_actions
Allowed ==
  CASE relation \in Numeric ->
         {"MULTI_VIEW_RECALL", "INDEPENDENT_RECALL", "ALTERNATIVE_RECALL",
          "DEFINITION_RECALL", "CONTRAST_VERIFY", "STOP"}
    [] relation = "companyTradesAtStockExchange" ->
         {"MULTI_VIEW_RECALL", "LISTING_ELIMINATION", "SEMANTIC_VERIFY", "STOP"}
    [] relation = "personHasCityOfDeath" ->
         {"INDEPENDENT_RECALL", "ATTRIBUTE_DECOMPOSITION", "SEMANTIC_VERIFY",
          "CONTRAST_VERIFY", "STOP"}
    [] relation = "awardWonBy" ->
         {"MULTI_VIEW_RECALL", "SET_EXPANSION", "ALTERNATIVE_RECALL",
          "UNARY_VERIFY", "STOP"}
    [] OTHER -> {"STOP"}

FailureStates == {"NO_CANDIDATE", "SINGLE_LOW_SUPPORT", "MULTIPLE_CONFLICTING",
                  "HIGH_FP_RISK", "SET_GROWING", "SEMANTIC_AMBIGUITY",
                  "NULL_UNRESOLVED", "STABLE_VERIFIED"}

\* action_region_for_failure_state
Region(state) ==
  CASE state = "NO_CANDIDATE" -> {"MULTI_VIEW_RECALL", "DEFINITION_RECALL"}
    [] state = "SINGLE_LOW_SUPPORT" ->
         {"INDEPENDENT_RECALL", "DEFINITION_RECALL", "ALTERNATIVE_RECALL",
          "ATTRIBUTE_DECOMPOSITION", "UNARY_VERIFY"}
    [] state = "MULTIPLE_CONFLICTING" -> {"CONTRAST_VERIFY", "ALTERNATIVE_RECALL"}
    [] state = "HIGH_FP_RISK" -> {"LISTING_ELIMINATION", "SEMANTIC_VERIFY"}
    [] state = "SET_GROWING" -> {"SET_EXPANSION", "UNARY_VERIFY"}
    [] state = "SEMANTIC_AMBIGUITY" ->
         {"SEMANTIC_VERIFY", "ATTRIBUTE_DECOMPOSITION", "DEFINITION_RECALL"}
    [] state = "NULL_UNRESOLVED" -> {"MULTI_VIEW_RECALL", "ATTRIBUTE_DECOMPOSITION"}
    [] OTHER -> {"STOP"}

-----------------------------------------------------------------------------
(* Hypotheses.  issue: a recorded disagreement ("doubted"), a near-miss     *)
(* listing ("misread"), or a hard contradiction of its own slot ("barred"). *)

Verdicts == {"VALID", "INVALID", "UNKNOWN"}
Hypothesis == [support : 1..2, verdict : Verdicts \cup {"none"},
               issue : {"none", "doubted", "misread", "barred"}]

\* Disagreements; a listing can be misread for an exchange only.
Disputes == {"none", "doubted"} \cup (IF relation \in Elimination THEN {"misread"} ELSE {})

\* HypothesisStatus.DROPPED of _state_machine
Dropped(c) ==
  \/ found[c].verdict = "INVALID"
  \/ found[c].issue = "barred"
  \/ found[c].issue = "doubted" /\ relation \in Elimination

Active == {c \in DOMAIN found : ~Dropped(c)}

\* _failure_state, before Module 8 has emitted anything
failureState ==
  CASE DOMAIN found = {} ->
         IF relation \in Numeric THEN "NO_CANDIDATE" ELSE "NULL_UNRESOLVED"
    [] DOMAIN found # {} /\ Active = {} -> "SEMANTIC_AMBIGUITY"
    [] relation \in Elimination /\ \E c \in Active : found[c].issue = "misread" ->
         "HIGH_FP_RISK"
    [] (relation \notin SetValued /\ Cardinality(Active) >= 2)
         \/ \E c \in Active : found[c].issue = "doubted" -> "MULTIPLE_CONFLICTING"
    [] relation \in OpenSet /\ \E c \in Active : found[c].verdict # "VALID" ->
         "SET_GROWING"
    [] Cardinality(Active) = 1 /\ \A c \in Active : found[c].support = 1 ->
         "SINGLE_LOW_SUPPORT"
    [] OTHER -> "STABLE_VERIFIED"

\* The order of _ordered_hypotheses: by independent support.  What decides
\* between equals, raw support and the hash of the key, is left open.
Foremost(S) == {c \in S : \A d \in S : found[d].support <= found[c].support}

-----------------------------------------------------------------------------
(* ActionHistory *)

Action == [family : Recalls \cup Checks, target : Candidates \cup {None},
           other : Candidates \cup {None}]
Entry == [state : FailureStates, material : BOOLEAN, action : Action]

Recall(family) == [family |-> family, target |-> None, other |-> None]
Check(family, c) == [family |-> family, target |-> c, other |-> None]
Contrast(c, d) == [family |-> "CONTRAST_VERIFY", target |-> c, other |-> d]

Tries(state, family) ==
  {i \in DOMAIN history : history[i].state = state /\ history[i].action.family = family}

\* Fault: the oldest try decides instead of the latest.
RedundantFault(state, family) ==
  \E i \in Tries(state, family) :
    /\ \A j \in Tries(state, family) : i <= j
    /\ ~history[i].material

\* The latest try of this family in this state brought nothing new.
Redundant(state, family) ==
  \E i \in Tries(state, family) :
    /\ \A j \in Tries(state, family) : j <= i
    /\ ~history[i].material

Executed == {history[i].action : i \in DOMAIN history}

\* Only the expansion of an open set may be asked again.
Repeatable(a) == a.family = "SET_EXPANSION"

\* legal_action_families
Legal == {f \in Allowed \cap Region(failureState) : ~Redundant(failureState, f)}

-----------------------------------------------------------------------------
(* build_v3_action_catalog *)

\* _recall_spec: the recalls that some owner can run for this relation.
Offered(family) ==
  CASE family = "ATTRIBUTE_DECOMPOSITION" -> relation = "personHasCityOfDeath"
    [] family = "SET_EXPANSION" -> relation = "awardWonBy"
    [] family = "DEFINITION_RECALL" -> relation \in Numeric
    [] family = "ALTERNATIVE_RECALL" -> relation \in Numeric \cup {"awardWonBy"}
    [] family = "INDEPENDENT_RECALL" -> relation # "companyTradesAtStockExchange"
    [] OTHER -> relation # "companyTradesAtStockExchange" \/ DOMAIN found = {}

\* Fault: select_contrast_pair does not leave the dropped hypotheses out.
ContrastPairsFault ==
  {p \in (DOMAIN found) \X (DOMAIN found) :
     /\ p[1] \in Foremost(DOMAIN found)
     /\ p[2] \in Foremost(DOMAIN found \ {p[1]})}

\* select_contrast_pair: the strongest hypothesis against the next.
ContrastPairs ==
  {p \in Active \X Active :
     p[1] \in Foremost(Active) /\ p[2] \in Foremost(Active \ {p[1]})}

Catalogue ==
  {Recall(f) : f \in {g \in Legal \cap Recalls : Offered(g)}}
  \cup {Check(f, c) : f \in Legal \cap (Checks \ {"CONTRAST_VERIFY"}), c \in Foremost(Active)}
  \cup {Contrast(p[1], p[2]) : p \in {q \in ContrastPairs : "CONTRAST_VERIFY" \in Legal}}

-----------------------------------------------------------------------------
(* One round *)

\* MicroPlanner._screen.  The history holds the display text of a target and
\* the planner's candidate its key, so that they agree on plain names only.
AlreadyExecuted(a) ==
  a \in Executed /\ a.target \in PlainNames \cup {None}

\* The budget of the contract, and what collection may spend on top of it.
CallsLeft ==
  LET max == MaxCalls + (IF collection THEN ExtraCalls ELSE 0)
  IN  IF calls < max THEN max - calls ELSE 0

\* Fault: collection forgets what it executed.
SelectableFault(a) ==
  /\ a \in Catalogue
  /\ ~Repeatable(a) /\ ~collection => ~AlreadyExecuted(a)
  /\ collection => CallsLeft >= 1

\* A selector of TRAIN collection is offered what the history and the budget
\* leave; the planner screens by identity and funds by its ledger alone.
Selectable(a) ==
  /\ a \in Catalogue
  /\ ~Repeatable(a) =>
       IF collection THEN a \notin Executed ELSE ~AlreadyExecuted(a)
  /\ collection => CallsLeft >= 1

Choosing == at = "choose" /\ Len(history) < MaxRounds /\ failureState # "STABLE_VERIFIED"

Choose(a) ==
  /\ Choosing /\ Selectable(a) /\ CallsLeft >= 1
  /\ chosen' = a
  /\ at' = "execute"
  /\ UNCHANGED <<relation, collection, found, edges, history, calls>>

\* The rounds are used up, the state is settled, nothing is selected, or what
\* is selected does not fit the snapshot's budget: Module 8 finalizes.
Finish ==
  /\ at = "choose"
  /\ at' = "finalized"
  /\ UNCHANGED <<relation, collection, found, edges, history, calls, chosen>>

\* PlannerError: an estimate is missing, and the row is lost with it.
PlannerFails ==
  /\ Choosing /\ ~collection
  /\ at' = "failed"
  /\ UNCHANGED <<relation, collection, found, edges, history, calls, chosen>>

Remember(material) ==
  history' = Append(history, [state |-> failureState, material |-> material, action |-> chosen])

\* _execute_generation_action.  Whoever is named gains support, a surface of
\* another slot is barred, and disagreements are read off the evidence again.
\* A warm cache answers without a call.
ExecuteRecall ==
  /\ at = "execute" /\ chosen.family \in Recalls
  /\ calls' \in calls..(calls + 1)
  /\ \E named \in SUBSET Candidates,
        barred \in SUBSET (IF chosen.family = "ATTRIBUTE_DECOMPOSITION" THEN DOMAIN found ELSE {}) :
       /\ named \cap barred = {}
       /\ \E issue \in [DOMAIN found \cup named -> Disputes],
             grown \in SUBSET (named \cap DOMAIN found) :
            found' = [c \in DOMAIN found \cup named |->
              [support |-> IF c \notin DOMAIN found THEN 1
                           ELSE IF c \in grown THEN 2 ELSE found[c].support,
               verdict |-> IF c \in DOMAIN found THEN found[c].verdict ELSE "none",
               issue |-> IF c \in barred \/ (c \in DOMAIN found /\ found[c].issue = "barred")
                         THEN "barred" ELSE issue[c]]]
       /\ Remember(named \cup barred # {})
  /\ at' = "choose"
  /\ UNCHANGED <<relation, collection, edges, chosen>>

\* The verdicts of one answer: on the target, and on what it was contrasted with.
Readings(answer) ==
  IF chosen.other = None THEN {<<chosen, chosen.target, answer>>}
  ELSE {<<chosen, chosen.target, answer>>,
        <<chosen, chosen.other, CASE answer = "VALID" -> "INVALID"
                                  [] answer = "INVALID" -> "VALID"
                                  [] OTHER -> answer>>}

\* _execute_verification_action.  An edge of this request and verdict that is
\* already on the graph is refused, and the exception costs the query its row.
ExecuteCheck ==
  /\ at = "execute" /\ chosen.family \in Checks
  /\ \E answer \in Verdicts :
       IF Readings(answer) \cap edges # {}
       THEN at' = "failed" /\ UNCHANGED <<found, edges, history, calls>>
       ELSE /\ edges' = edges \cup Readings(answer)
            /\ found' = [c \in DOMAIN found |->
                 IF \E r \in Readings(answer) : r[2] = c
                 THEN [found[c] EXCEPT
                         !.verdict = (CHOOSE r \in Readings(answer) : r[2] = c)[3],
                         !.issue = IF chosen.family = "LISTING_ELIMINATION" /\ answer = "INVALID"
                                   THEN "barred" ELSE @]
                 ELSE found[c]]
            /\ Remember(answer # "UNKNOWN")
            /\ calls' \in calls..(calls + 1)
            /\ at' = "choose"
  /\ UNCHANGED <<relation, collection, chosen>>

\* LogitsUnavailable: the action ran and brought nothing.
ExecuteUnscored ==
  /\ at = "execute" /\ chosen.family \in Checks
  /\ Remember(FALSE)
  /\ at' = "choose"
  /\ UNCHANGED <<relation, collection, found, edges, calls, chosen>>

Ended == at \in {"finalized", "failed"} /\ UNCHANGED v3Vars

V3Init ==
  /\ relation \in Relations /\ collection \in BOOLEAN
  /\ \E named \in SUBSET Candidates :
       found \in [named -> {h \in Hypothesis : h.issue \in Disputes \cup {"barred"}}]
  /\ edges = {} /\ history = <<>>
  /\ calls \in 0..MaxCalls
  /\ at = "choose" /\ chosen = Recall("SET_EXPANSION")

V3Next ==
  \/ \E a \in Catalogue : Choose(a)
  \/ Finish \/ PlannerFails \/ ExecuteRecall \/ ExecuteCheck \/ ExecuteUnscored \/ Ended

V3Spec == V3Init /\ [][V3Next]_v3Vars

-----------------------------------------------------------------------------
(* Properties *)

V3TypeOK ==
  /\ relation \in Relations /\ collection \in BOOLEAN
  /\ DOMAIN found \subseteq Candidates /\ \A c \in DOMAIN found : found[c] \in Hypothesis
  /\ edges \subseteq Action \X Candidates \X Verdicts
  /\ history \in Seq(Entry) /\ Len(history) <= MaxRounds
  /\ calls \in 0..(MaxCalls + ExtraCalls)
  /\ at \in {"choose", "execute", "finalized", "failed"} /\ chosen \in Action

\* Backtracking memory: however the failure state wanders between rounds, a
\* family that brought nothing new in a state is not tried in it again.
NoBarrenRetry ==
  \A i, j \in DOMAIN history :
    /\ i < j
    /\ history[i].state = history[j].state
    /\ history[i].action.family = history[j].action.family
    => history[i].material

\* A rejection is final within the loop: no later contrast or check turns the
\* verdict of a hypothesis that was dropped, and so none revives it.
RejectionIsFinal ==
  [][\A c \in DOMAIN found : found[c].verdict = "INVALID" =>
       found'[c].verdict = "INVALID"]_v3Vars

\* In TRAIN collection no verdict is asked for twice, so that none is attached
\* twice: the loop cannot cost a query its row.
CollectionKeepsItsRow == collection => at # "failed"

=============================================================================
