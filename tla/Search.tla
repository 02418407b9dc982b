------------------------------- MODULE Search -------------------------------
(***************************************************************************)
(* The two loops that obey the controller in interleaved mode, one query   *)
(* through both: _adaptive_discovery, and _controlled_phase on what the    *)
(* first one left.  A loop ends when the controller says that the query is *)
(* settled, or where the budget, the steps or the offers end.              *)
(*                                                                         *)
(* What a model says is chosen from sets of answers.                       *)
(***************************************************************************)
EXTENDS Controller

CONSTANTS
  Relations,       \* the relations queried
  SecondFamilies,  \* relation -> may a second family recall: a set
  ViewAnswers,     \* relation -> sets of keys a view names
  ReverseAnswers,  \* relation -> sets of keys a reverse view names
  RecallAnswers,   \* relation -> sets of keys the second family names
  GateAnswers,     \* "NO", "YES", "UNKNOWN", or "UNAVAILABLE"
  BlindAnswers,    \* sequences of distributions; <<>> without logits
  TokenCosts,      \* relation -> tokens of a generation
  MaxCalls,        \* max_calls_per_query
  MaxTokens,       \* max_generated_tokens_per_query
  MaxSteps         \* max_steps_per_query, of each loop

ASSUME QueriesAreOfTheTask == Relations \subseteq AllRelations
ASSUME AnswersAreKeyed ==
  \A r \in Relations : \A S \in ViewAnswers[r] \cup ReverseAnswers[r] \cup RecallAnswers[r] :
    S \subseteq Keys
ASSUME BlindAnswersAreMeasured ==
  \A ds \in BlindAnswers : ds \in Seq(Distributions) /\ (Len(ds) > 1 => Divergence(ds) \in Int)
ASSUME GatesAreAnswered == GateAnswers \subseteq {"NO", "YES", "UNKNOWN", "UNAVAILABLE"}
ASSUME LimitsAreNumbers == MaxCalls \in Nat /\ MaxTokens \in Nat /\ MaxSteps \in Nat

VARIABLES
  relation, cross,   \* the query; is a second family configured
  graph,             \* the evidence graph
  phase, steps,      \* where the query stands; iterations of this loop
  budget,            \* calls and tokens used
  rcse,              \* RCSEState
  action,            \* the action chosen and not run yet
  why,               \* how the loops ended
  warm               \* templates whose content-free control is measured

query == <<relation, cross>>
vars == <<query, graph, phase, steps, budget, rcse, action, why, warm>>

Idle == Act("STOP", 0, 0)
Loops == {"enumerate", "verify"}

\* The stricter of the contract and the configuration.
TokensOf(r) ==
  CASE r \in {Borders, Stock} -> 1024 [] r \in {Death, Area, Capacity} -> 768 [] r = Award -> 6000
CallCeiling(r) == Min({MaxCalls, ContractOf(r).calls})
TokenCeiling(r) == Min({MaxTokens, TokensOf(r)})
Exhausted == budget.calls >= CallCeiling(relation) \/ budget.tokens >= TokenCeiling(relation)
CallsLeft == CallCeiling(relation) - budget.calls

Init ==
  /\ relation \in Relations /\ cross \in SecondFamilies[relation]
  /\ graph = EmptyGraph
  /\ phase = "gate" /\ steps = 0
  /\ budget = [calls |-> 0, tokens |-> 0]
  /\ rcse = NothingYet /\ action = Idle
  /\ why = [l \in Loops |-> ""]
  /\ warm \in {{}, Range(DisagreementTemplates)}

-----------------------------------------------------------------------------
(* Entering and leaving the loops *)

HasGate(r) == r \in {Death, Stock}

\* The gate is scored before the first loop, and again before the second when
\* it could not be; only the first time is on the budget.  A negative closes
\* the query.
ScoreGate ==
  /\ phase \in {"gate", "regate"}
  /\ \E answer \in IF HasGate(relation) /\ graph.gate = "UNSCORED" THEN GateAnswers
                   ELSE {"UNAVAILABLE"} :
       /\ graph' = [graph EXCEPT !.gate = IF answer = "UNAVAILABLE" THEN @ ELSE answer]
       /\ budget' = [budget EXCEPT !.calls =
                       IF phase = "gate" /\ answer # "UNAVAILABLE" THEN @ + 1 ELSE @]
       /\ phase' = IF answer = "NO" THEN "done"
                   ELSE IF phase = "gate" THEN "enumerate" ELSE "verify"
  /\ UNCHANGED <<query, steps, rcse, action, why, warm>>

\* Fault: the outcomes are left to be recovered from the graph.
ReloadedFault(s) == [s EXCEPT !.outcomes = <<>>]

\* RCSEState as the second loop finds it: to_json and from_json.
Reloaded(s) == s

\* Fault: a query that was not settled is resumed until it is.
LeaveFault(g, reason) ==
  /\ why' = [why EXCEPT ![phase] = reason]
  /\ IF phase = "enumerate" \/ reason # "settled"
     THEN graph' = HardRules(g, relation) /\ phase' = "regate" /\ rcse' = Reloaded(rcse)
     ELSE graph' = g /\ phase' = "done" /\ UNCHANGED rcse
  /\ steps' = 0
  /\ UNCHANGED <<query, budget, action, warm>>

\* The hard rules are applied when discovery is over.
Leave(g, reason) ==
  /\ why' = [why EXCEPT ![phase] = reason]
  /\ IF phase = "enumerate"
     THEN graph' = HardRules(g, relation) /\ phase' = "regate" /\ rcse' = Reloaded(rcse)
     ELSE graph' = g /\ phase' = "done" /\ UNCHANGED rcse
  /\ steps' = 0
  /\ UNCHANGED <<query, budget, action, warm>>

Expire ==
  /\ phase \in Loops /\ action = Idle
  /\ Exhausted \/ steps = MaxSteps
  /\ Leave(graph, "limit")

-----------------------------------------------------------------------------
(* One decision *)

\* Fault: only the readings of a verification are planned for.
PlannedCallsFault(a) ==
  IF a.type \in Awaiting THEN Len(BlindTemplates(a.type))
  ELSE IF a.view \in InGroup(relation, "description") THEN 2 ELSE 1

\* The calls an action will need, with the controls that are cold.
PlannedCalls(a) ==
  IF a.type \in Awaiting
  THEN LET templates == BlindTemplates(a.type)
       IN Len(templates) + ControlCallsNeeded(warm, Range(templates))
  ELSE IF a.view \in InGroup(relation, "description") THEN 2 ELSE 1

\* In the second loop the second family recalls once.
MayRecall(g) == cross /\ (phase = "verify" => ~CrossModelDone(g))

\* What the controller may choose: to stop, or the best of what is legal.  It
\* also stops against its own word, when nothing else is legal.
NextChoice(g, c) ==
  LET legal == Legal(g, relation, rcse, MayRecall(g))
  IN IF ShouldStop(g, relation, rcse, c) \/ legal = {} THEN {Idle}
     ELSE Best([a \in legal |-> ActionScore(a, g, relation, rcse, c)])

\* The loop ends rather than start what it cannot pay.
Decide ==
  /\ phase \in Loops /\ action = Idle
  /\ ~Exhausted /\ steps < MaxSteps
  /\ \E g \in {Tiered(graph, relation)} : \E c \in {Signals(g, relation, rcse)} :
      \E choice \in NextChoice(g, c) :
        \/ choice = Idle /\ ShouldStop(g, relation, rcse, c) /\ Leave(g, "settled")
        \/ choice = Idle /\ ~ShouldStop(g, relation, rcse, c) /\ Leave(g, "nothing legal")
        \/ choice # Idle /\ PlannedCalls(choice) > CallsLeft /\ Leave(g, "unaffordable")
        \/ /\ choice # Idle /\ PlannedCalls(choice) <= CallsLeft
           /\ graph' = g /\ action' = choice
           /\ UNCHANGED <<query, phase, steps, budget, rcse, why, warm>>

-----------------------------------------------------------------------------
(* One action *)

\* Scored and tiered again, what it changed goes on record: the yield is what
\* the trusted set gained.
Settle(g, calls, tokens, check) ==
  /\ \E h \in {Tiered(g, relation)} :
       /\ graph' = h
       /\ \E now \in {Trusted(h, relation)} :
            rcse' = [executed |-> rcse.executed \cup {action},
                     outcomes |-> Append(rcse.outcomes,
                                         [gain |-> Cardinality(now \ LastTrusted(rcse)),
                                          tokens |-> tokens, check |-> check]),
                     trusted |-> IF rcse.trusted = <<>> THEN <<now>> ELSE <<LastTrusted(rcse), now>>]
  /\ budget' = [calls |-> budget.calls + calls, tokens |-> budget.tokens + tokens]
  /\ action' = Idle /\ steps' = steps + 1
  /\ UNCHANGED <<query, phase, why>>

\* What the runtimes count while the action runs.
CallsMade(a) ==
  IF a.type \in Awaiting
  THEN LET templates == BlindTemplates(a.type)
       IN Len(templates) + Cardinality({t \in Range(templates) : t \notin warm})
  ELSE IF a.view \in InGroup(relation, "description") THEN 2 ELSE 1

\* One generation that names some keys, and what it cost.
Hear(record, answers) ==
  \E named \in answers : \E tokens \in TokenCosts[relation] :
    /\ MentionsAttach(graph, record, named)
    /\ Settle(AddMentions(graph, record, named), CallsMade(action), tokens, FALSE)
    /\ UNCHANGED warm

RunView ==
  /\ action.type \in {"RUN_VIEW", "RUN_FACET"}
  /\ LET look == Library(relation)[action.view]
     IN Hear(Record(look.name, 0, look.group, Enumerator),
             IF look.group = "EXISTENCE_GATE" THEN {{}} ELSE ViewAnswers[relation])

\* The record of a reverse view bears the candidate it is about; the answer
\* need not be about that one.
RunReverse ==
  /\ action.type = "REVERSE_CHECK"
  /\ Hear([Record(Library(relation)[action.view].name, 0, "reverse", Enumerator)
             EXCEPT !.id = <<@[1], 0, action.key>>],
          ReverseAnswers[relation])

\* The first view that asks for candidates, in the order of the contract.
FirstRecall(r) ==
  CASE r = Borders -> "borders_direct" [] r = Death -> "death_city_direct"
    [] r = Stock -> "stock_exchange_direct" [] r = Area -> "area_direct_km2"
    [] r = Capacity -> "capacity_direct" [] r = Award -> "award_direct"

RunRecall ==
  /\ action.type = "CROSS_MODEL_CHECK"
  /\ LET record == Record(FirstRecall(relation), 0, CrossModel, SecondModel)
     IN \E named \in RecallAnswers[relation] : \E tokens \in TokenCosts[relation] :
          /\ MentionsAttach(graph, record, named)
          /\ Settle(HardRules(AddMentions(graph, record, named), relation), CallsMade(action), tokens, FALSE)
  /\ UNCHANGED warm

\* Without logits nothing is spent, read or measured, and the action is done.
Verify ==
  /\ action.type \in Awaiting
  /\ \E ds \in BlindAnswers :
       LET templates == BlindTemplates(action.type)
       IN /\ ds # <<>> => Len(ds) = Len(templates)
          /\ Settle(VerifyOne(graph, action.key, ds),
                    IF ds = <<>> THEN 0 ELSE CallsMade(action), 0, TRUE)
          /\ warm' = IF ds = <<>> THEN warm ELSE warm \cup Range(templates)

Finished == phase = "done" /\ UNCHANGED vars

Next ==
  \/ ScoreGate \/ Expire \/ Decide
  \/ RunView \/ RunReverse \/ RunRecall \/ Verify
  \/ Finished

Spec == Init /\ [][Next]_vars
\* One thread runs the loops: while the query is not done it goes on.  Some step
\* is always enabled then, so this is WF_vars(Next), said of the state.
FairSpec == Spec /\ ([]<>(phase = "done") \/ []<><<vars' # vars>>_vars)

-----------------------------------------------------------------------------
(* Properties *)

\* A probe about one candidate may answer with another, a verifier may return
\* no logits: whatever an action brought, it is not chosen again, in this loop
\* or the next (legal_actions, RCSEState.executed_actions).
NothingIsAskedTwice == action # Idle => action \notin rcse.executed

\* A verification may need several readings and a control for each; a loop
\* with one call left never starts what takes two, so the calls of a query end
\* at its ceiling (_planned_neural_cost, Budget.can_afford).
CallsStayPlanned == budget.calls <= CallCeiling(relation)

Concludes ==
  action = Idle /\ phase \in Loops /\ phase' # phase /\ why'[phase] = "settled"

\* A low residual settles no query whose mandatory views are not run, whose
\* answer still awaits a verifier, or where another cluster rivals the first;
\* an open set may end on its own rule (should_stop, estimate_residual).
RestLeavesNothingPending ==
  [][Concludes =>
       /\ Mandatory(relation) \subseteq ExecutedViews(rcse)
       /\ relation # Award => Unverified(Tiered(graph, relation)) = {}
       /\ IsNumberRelation(relation) =>
            Competition(ClustersOf(graph, relation)) < ResidualStop]_vars

\* The second loop takes up a query where the first left it.  It asks for more
\* only when the first ran into its limit, or the hard rules took a candidate
\* away in between (_controlled_phase, RCSEState.from_json).
ReopensForAReason ==
  phase = "verify" /\ steps = 0 /\ action # Idle =>
    why["enumerate"] = "limit" \/ \E k \in graph.held : graph.status[k] = "REJECTED"

\* A query ends though the controller may refuse to stop while nothing is left
\* to do: the loops are bounded and each iteration acts or leaves
\* (choose_action, should_stop).  One thread runs them, which is the fairness.
SearchEnds == <>(phase = "done")

\* What should_stop says of the existence gate (controller.py): while it is
\* undecided, an empty candidate set is a reason to keep searching, not
\* permission to stop.
EmptySearchGoesOn ==
  relation = Death /\ graph.gate = "UNKNOWN" /\ graph.held = {} => why["enumerate"] # "settled"

=============================================================================
