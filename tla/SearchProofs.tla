---------------------------- MODULE SearchProofs ----------------------------
(***************************************************************************)
(* Proofs about Search for every set of answers, costs and limits: no      *)
(* action of a query is run twice, its calls end at its ceiling, what is   *)
(* settled has nothing pending, and the second loop takes a query up again *)
(* only for a reason.                                                      *)
(***************************************************************************)
EXTENDS Search, FiniteFacts

\* The steps that run an action end it.
Acts == RunView \/ RunReverse \/ RunRecall \/ Verify

-----------------------------------------------------------------------------
(* No action twice *)

LEMMA LegalIsNew ==
  ASSUME NEW g, NEW r, NEW s, NEW available, NEW a \in Legal(g, r, s, available)
  PROVE  a \notin s.executed
BY DEF Legal

LEMMA ChoiceIsNew ==
  ASSUME NEW g, NEW c, NEW choice \in NextChoice(g, c), choice # Idle
  PROVE  choice \notin rcse.executed
<1> DEFINE legal == Legal(g, relation, rcse, MayRecall(g))
<1>1. choice \in Best([a \in legal |-> ActionScore(a, g, relation, rcse, c)])
  BY DEF NextChoice
<1>2. choice \in legal
  BY <1>1 DEF Best
<1> QED
  BY <1>2, LegalIsNew

\* A decision leaves the loop, or chooses what the calls left can pay.
Chooses(g, c, choice) ==
  /\ choice \in NextChoice(g, c) /\ choice # Idle
  /\ PlannedCalls(choice) <= CallsLeft
  /\ action' = choice
  /\ UNCHANGED <<query, phase, steps, budget, rcse, why, warm>>

LEMMA DecideLeavesOrChooses ==
  ASSUME Decide
  PROVE  /\ action = Idle /\ phase \in Loops
         /\ (\E g, reason : Leave(g, reason)) \/ (\E g, c, choice : Chooses(g, c, choice))
<1>1. action = Idle /\ phase \in Loops
  BY DEF Decide
<1>2. PICK g : \E c \in {Signals(g, relation, rcse)} : \E choice \in NextChoice(g, c) :
        \/ choice = Idle /\ ShouldStop(g, relation, rcse, c) /\ Leave(g, "settled")
        \/ choice = Idle /\ ~ShouldStop(g, relation, rcse, c) /\ Leave(g, "nothing legal")
        \/ choice # Idle /\ PlannedCalls(choice) > CallsLeft /\ Leave(g, "unaffordable")
        \/ /\ choice # Idle /\ PlannedCalls(choice) <= CallsLeft
           /\ graph' = g /\ action' = choice
           /\ UNCHANGED <<query, phase, steps, budget, rcse, why, warm>>
  BY Zenon DEF Decide
<1>3. PICK c : \E choice \in NextChoice(g, c) :
        \/ \E reason : Leave(g, reason)
        \/ /\ choice # Idle /\ PlannedCalls(choice) <= CallsLeft
           /\ action' = choice
           /\ UNCHANGED <<query, phase, steps, budget, rcse, why, warm>>
  BY <1>2, Zenon
<1> QED
  BY <1>1, <1>3, Zenon DEF Chooses

LEMMA ActingEndsTheAction == Acts => action' = Idle
BY DEF Acts, RunView, RunReverse, RunRecall, Verify, Hear, Settle

LEMMA NewnessStep == NothingIsAskedTwice /\ [Next]_vars => NothingIsAskedTwice'
<1> SUFFICES ASSUME NothingIsAskedTwice, [Next]_vars
             PROVE  NothingIsAskedTwice'
  OBVIOUS
<1>1. CASE Acts
  BY <1>1, ActingEndsTheAction DEF NothingIsAskedTwice
<1>2. CASE ScoreGate
  BY <1>2 DEF ScoreGate, NothingIsAskedTwice
<1>3. CASE Expire
  BY <1>3 DEF Expire, Leave, NothingIsAskedTwice
<1>4. CASE Decide
  <2>1. action = Idle
    BY <1>4, DecideLeavesOrChooses
  <2>2. CASE \E g, reason : Leave(g, reason)
    BY <2>1, <2>2 DEF Leave, NothingIsAskedTwice
  <2>3. CASE \E g, c, choice : Chooses(g, c, choice)
    BY <2>3, ChoiceIsNew DEF Chooses, NothingIsAskedTwice
  <2> QED
    BY <1>4, <2>2, <2>3, DecideLeavesOrChooses
<1>5. CASE Finished \/ UNCHANGED vars
  BY <1>5 DEF Finished, vars, NothingIsAskedTwice
<1> QED
  BY <1>1, <1>2, <1>3, <1>4, <1>5 DEF Next, Acts

\* Whatever a probe or a verifier brought back, the action that asked for it
\* is not chosen again in either loop, for any relation and any answers
\* (controller.py, legal_actions and RCSEState.executed_actions).
THEOREM NoActionRunsTwice == Spec => []NothingIsAskedTwice
<1>1. Init => NothingIsAskedTwice
  BY DEF Init, NothingIsAskedTwice
<1> QED
  BY <1>1, NewnessStep, PTL DEF Spec

-----------------------------------------------------------------------------
(* The calls *)

CallInv ==
  /\ relation \in AllRelations
  /\ budget = [calls |-> budget.calls, tokens |-> budget.tokens] /\ budget.calls \in Nat
  /\ budget.calls <= CallCeiling(relation)
  /\ phase = "gate" => budget.calls = 0
  /\ action # Idle => phase \in Loops /\ PlannedCalls(action) <= CallsLeft

LEMMA MinOfTwo ==
  ASSUME NEW m \in Int, NEW n \in Int
  PROVE  Min({m, n}) = IF m <= n THEN m ELSE n
<1> DEFINE least == IF m <= n THEN m ELSE n
<1>1. least \in {m, n} /\ \A y \in {m, n} : least <= y
  OBVIOUS
<1>2. \A x \in {m, n} : (\A y \in {m, n} : x <= y) => x = least
  OBVIOUS
<1> QED
  BY <1>1, <1>2 DEF Min

LEMMA CeilingIsANumber ==
  ASSUME NEW r \in AllRelations
  PROVE  CallCeiling(r) \in Nat /\ (MaxCalls # 0 => CallCeiling(r) >= 1)
<1>1. ContractOf(r).calls \in Nat \ {0}
  BY DEF AllRelations, ContractOf, Borders, Death, Capacity, Award, Stock, Area, Contract,
     BordersContract, DeathContract, StockContract, AreaContract, AwardContract, CapacityContract
<1> QED
  BY <1>1, LimitsAreNumbers, MinOfTwo DEF CallCeiling

\* What the runtimes count while an action runs is what was planned for it.
LEMMA CallsAreAsPlanned ==
  ASSUME NEW a
  PROVE  CallsMade(a) \in Nat /\ CallsMade(a) = PlannedCalls(a)
<1> DEFINE templates == BlindTemplates(a.type)
           cold == {t \in Range(templates) : t \notin warm}
<1>1. CASE a.type \in Awaiting
  <2>1. Range(templates) \subseteq {"standard", "question"} /\ Len(templates) \in Nat
    BY DEF BlindTemplates, DisagreementTemplates, Range
  <2>2. IsFiniteSet({"standard", "question"})
    <3>1. IsFiniteSet({} \cup {"standard"})
      BY FS_EmptySet, FS_AddElement
    <3>2. IsFiniteSet(({} \cup {"standard"}) \cup {"question"})
      BY <3>1, FS_AddElement
    <3>3. {"standard", "question"} = ({} \cup {"standard"}) \cup {"question"}
      OBVIOUS
    <3> QED
      BY <3>2, <3>3
  <2>3. IsFiniteSet(cold)
    BY <2>1, <2>2, FS_Subset
  <2>4. Cardinality(cold) \in Nat
    BY <2>3, FS_CardinalityType
  <2>5. cold = Range(templates) \ warm
    OBVIOUS
  <2>6. CallsMade(a) = Len(templates) + Cardinality(cold)
    BY <1>1 DEF CallsMade
  <2>7. PlannedCalls(a) = Len(templates) + Cardinality(Range(templates) \ warm)
    BY <1>1 DEF PlannedCalls, ControlCallsNeeded
  <2> HIDE DEF templates, cold
  <2> QED
    BY <2>1, <2>4, <2>5, <2>6, <2>7
<1>2. CASE a.type \notin Awaiting
  BY <1>2 DEF CallsMade, PlannedCalls
<1> QED
  BY <1>1, <1>2

\* An action spends what it was planned to, or nothing.
LEMMA ActingSpends ==
  ASSUME Acts
  PROVE  /\ action' = Idle /\ action # Idle /\ UNCHANGED <<query, phase>>
         /\ \E n \in {0, CallsMade(action)} : \E tokens :
              budget' = [calls |-> budget.calls + n, tokens |-> tokens]
<1>0. action # Idle
  <2>1. Idle.type = "STOP"
    BY DEF Idle, Act
  <2>2. action.type # "STOP"
    BY DEF Acts, RunView, RunReverse, RunRecall, Verify, Awaiting
  <2> QED
    BY <2>1, <2>2
<1>1. \E g, tokens, check : \E n \in {0, CallsMade(action)} : Settle(g, n, tokens, check)
  <2>1. RunView \/ RunReverse => \E g, tokens, check : Settle(g, CallsMade(action), tokens, check)
    BY DEF RunView, RunReverse, Hear
  <2>2. RunRecall => \E g, tokens, check : Settle(g, CallsMade(action), tokens, check)
    BY DEF RunRecall
  <2>3. Verify => \E g, tokens, check : \E n \in {0, CallsMade(action)} :
                    Settle(g, n, tokens, check)
    BY DEF Verify
  <2> QED
    BY <2>1, <2>2, <2>3 DEF Acts
<1>2. PICK g, tokens, check : \E n \in {0, CallsMade(action)} : Settle(g, n, tokens, check)
  BY <1>1
<1> QED
  BY <1>0, <1>2, Zenon DEF Settle

LEMMA CallStep == MaxCalls # 0 /\ CallInv /\ [Next]_vars => CallInv'
<1> SUFFICES ASSUME MaxCalls # 0, CallInv, [Next]_vars
             PROVE  CallInv'
  OBVIOUS
<1>0. CallCeiling(relation) \in Nat /\ CallCeiling(relation) >= 1 /\ budget.calls \in Nat
  BY CeilingIsANumber DEF CallInv
<1>1. CASE Acts
  <2>1. action # Idle /\ action' = Idle /\ relation' = relation /\ phase' = phase
    BY <1>1, ActingSpends DEF query
  <2>2. PICK n \in {0, CallsMade(action)} : \E tokens :
          budget' = [calls |-> budget.calls + n, tokens |-> tokens]
    BY <1>1, ActingSpends
  <2>3. n \in Nat /\ n <= PlannedCalls(action) /\ PlannedCalls(action) \in Nat
    BY CallsAreAsPlanned
  <2>4. PlannedCalls(action) <= CallCeiling(relation) - budget.calls /\ phase \in Loops
    BY <2>1 DEF CallInv, CallsLeft
  <2>5. budget'.calls \in Nat /\ budget'.calls <= CallCeiling(relation)
    BY <1>0, <2>2, <2>3, <2>4
  <2>6. phase # "gate"
    BY <2>4 DEF Loops
  <2>7. CallCeiling(relation') = CallCeiling(relation)
    BY <2>1
  <2> QED
    BY <2>1, <2>2, <2>5, <2>6, <2>7 DEF CallInv
<1>2. CASE ScoreGate
  <2>1. phase \in {"gate", "regate"} /\ action = Idle /\ action' = Idle
    BY <1>2 DEF ScoreGate, CallInv, Loops
  <2>2. /\ relation' = relation /\ phase' # "gate"
        /\ \/ budget' = budget
           \/ phase = "gate" /\ budget' = [budget EXCEPT !.calls = @ + 1]
    <3>1. PICK answer :
            /\ budget' = [budget EXCEPT !.calls =
                            IF phase = "gate" /\ answer # "UNAVAILABLE" THEN @ + 1 ELSE @]
            /\ phase' \in {"done", "enumerate", "verify"}
      BY <1>2 DEF ScoreGate
    <3>2. relation' = relation
      BY <1>2 DEF ScoreGate, query
    <3> QED
      BY <3>1, <3>2 DEF CallInv
  <2>3. CASE budget' = budget
    BY <2>1, <2>2, <2>3 DEF CallInv
  <2>4. CASE phase = "gate" /\ budget' = [budget EXCEPT !.calls = @ + 1]
    <3>1. budget'.calls = 1 /\ budget' = [calls |-> budget'.calls, tokens |-> budget'.tokens]
      BY <2>4 DEF CallInv
    <3> QED
      BY <1>0, <2>1, <2>2, <3>1 DEF CallInv
  <2> QED
    BY <2>2, <2>3, <2>4
<1>3. CASE \E g, reason : Leave(g, reason) /\ action = Idle /\ phase \in Loops
  <2>1. /\ UNCHANGED <<relation, budget, action>> /\ action = Idle
        /\ phase' \in {"regate", "done"}
    BY <1>3 DEF Leave, query
  <2> QED
    BY <2>1 DEF CallInv
<1>4. CASE \E g, c, choice : Chooses(g, c, choice) /\ phase \in Loops
  <2>1. /\ UNCHANGED <<relation, budget, phase, warm>> /\ phase \in Loops
        /\ PlannedCalls(action') <= CallsLeft
    BY <1>4 DEF Chooses, query
  <2>2. CallsLeft' = CallsLeft /\ PlannedCalls(action)' = PlannedCalls(action')
    BY <2>1 DEF CallsLeft, CallCeiling, PlannedCalls
  <2> QED
    BY <2>1, <2>2 DEF CallInv
<1>5. CASE Expire \/ Decide
  <2>1. Expire => \E g, reason : Leave(g, reason) /\ action = Idle /\ phase \in Loops
    BY DEF Expire
  <2> QED
    BY <1>3, <1>4, <1>5, <2>1, DecideLeavesOrChooses
<1>6. CASE Finished \/ UNCHANGED vars
  <2>1. UNCHANGED <<relation, budget, phase, action, warm>>
    BY <1>6 DEF Finished, vars, query
  <2>2. CallsLeft' = CallsLeft /\ PlannedCalls(action)' = PlannedCalls(action)
    BY <2>1 DEF CallsLeft, CallCeiling, PlannedCalls
  <2> QED
    BY <2>1, <2>2 DEF CallInv
<1> QED
  BY <1>1, <1>2, <1>5, <1>6 DEF Next, Acts

LEMMA CallInit == Init => CallInv
<1> SUFFICES ASSUME Init
             PROVE  CallInv
  OBVIOUS
<1>1. relation \in AllRelations /\ budget = [calls |-> 0, tokens |-> 0] /\ action = Idle
  BY QueriesAreOfTheTask DEF Init
<1>2. CallCeiling(relation) \in Nat
  BY <1>1, CeilingIsANumber
<1> QED
  BY <1>1, <1>2 DEF CallInv

\* A query never makes more calls than its ceiling, whatever the models answer,
\* whichever controls are cold and in whatever order its actions come; the gate
\* is charged without being asked about, so the limit has to allow one call
\* (pipeline.py, _planned_neural_cost; budget.py, Budget.can_afford).
THEOREM CallsEndAtTheCeiling ==
  ASSUME MaxCalls # 0
  PROVE  Spec => []CallsStayPlanned
<1>1. CallInv /\ [Next]_vars => CallInv'
  BY CallStep
<1>2. CallInv => CallsStayPlanned
  BY DEF CallInv, CallsStayPlanned
<1> QED
  BY <1>1, <1>2, CallInit, PTL DEF Spec

-----------------------------------------------------------------------------
(* The graph *)

\* What a verdict says is numbers.
IsMeasured(v) == v.valid \in Int /\ v.disagreement \in Int
VerdictsAreMeasured(g) ==
  \A k \in Keys : /\ g.verdicts[k] \in Seq({g.verdicts[k][i] : i \in DOMAIN g.verdicts[k]})
                  /\ \A i \in DOMAIN g.verdicts[k] : IsMeasured(g.verdicts[k][i])

\* A record of its eight fields, with something for each key.
GraphShape(g) ==
  /\ g = [held |-> g.held, edges |-> g.edges, records |-> g.records, verdicts |-> g.verdicts,
          status |-> g.status, tier |-> g.tier, reason |-> g.reason, gate |-> g.gate]
  /\ g.verdicts = [k \in Keys |-> g.verdicts[k]]
  /\ g.status = [k \in Keys |-> g.status[k]]
  /\ g.tier = [k \in Keys |-> g.tier[k]]
  /\ g.reason = [k \in Keys |-> g.reason[k]]

\* A graph of keys, with finitely many edges and verdicts that are numbers.
IsGraph(g) ==
  GraphShape(g) /\ g.held \subseteq Keys /\ IsFiniteSet(g.edges) /\ VerdictsAreMeasured(g)

LEMMA MeasuresStay ==
  ASSUME NEW g, NEW h, VerdictsAreMeasured(g),
         \A k \in Keys : \/ h.verdicts[k] = g.verdicts[k]
                         \/ \E v : IsMeasured(v) /\ h.verdicts[k] = Append(g.verdicts[k], v)
  PROVE  VerdictsAreMeasured(h)
<1> SUFFICES ASSUME NEW k \in Keys
             PROVE  /\ h.verdicts[k] \in Seq({h.verdicts[k][i] : i \in DOMAIN h.verdicts[k]})
                    /\ \A i \in DOMAIN h.verdicts[k] : IsMeasured(h.verdicts[k][i])
  BY DEF VerdictsAreMeasured
<1> DEFINE s == g.verdicts[k]
           t == h.verdicts[k]
<1>1. s \in Seq({s[i] : i \in DOMAIN s}) /\ \A i \in DOMAIN s : IsMeasured(s[i])
  BY DEF VerdictsAreMeasured
<1>2. CASE t = s
  <2> HIDE DEF s, t
  <2> QED BY <1>1, <1>2 DEF t
<1>3. CASE t # s
  <2>1. PICK v : IsMeasured(v) /\ t = Append(s, v)
    BY <1>3
  <2> DEFINE T == {s[i] : i \in DOMAIN s} \cup {v}
             U == {t[i] : i \in DOMAIN t}
  <2> HIDE DEF s, t
  <2>2. Len(s) \in Nat /\ DOMAIN s = 1..Len(s)
    BY <1>1
  <2>3. /\ DOMAIN t = 1..(Len(s) + 1) /\ t[Len(s) + 1] = v
        /\ \A i \in 1..Len(s) : t[i] = s[i]
    BY <1>1, <2>1
  <2>4. \A i \in DOMAIN t : IsMeasured(t[i])
    BY <1>1, <2>1, <2>2, <2>3
  <2>5. t \in Seq(U)
    <3>1. Len(s) + 1 \in Nat /\ t = [i \in 1..(Len(s) + 1) |-> t[i]]
      <4>1. s \in Seq(T) /\ v \in T
        BY <1>1 DEF T
      <4>2. t \in Seq(T)
        BY <2>1, <4>1
      <4> QED BY <2>2, <2>3, <4>2
    <3>2. \A i \in 1..(Len(s) + 1) : t[i] \in U
      BY <2>3
    <3> HIDE DEF U
    <3> QED BY <3>1, <3>2
  <2> QED BY <2>4, <2>5 DEF t
<1> QED BY <1>2, <1>3

LEMMA NothingIsMeasured == VerdictsAreMeasured(EmptyGraph)
<1> SUFFICES ASSUME NEW k \in Keys
             PROVE  /\ EmptyGraph.verdicts[k] \in
                         Seq({EmptyGraph.verdicts[k][i] : i \in DOMAIN EmptyGraph.verdicts[k]})
                    /\ \A i \in DOMAIN EmptyGraph.verdicts[k] : IsMeasured(EmptyGraph.verdicts[k][i])
  BY DEF VerdictsAreMeasured
<1>1. EmptyGraph.verdicts[k] = <<>>
  BY DEF EmptyGraph
<1> QED BY <1>1

LEMMA EmptyIsGraph == IsGraph(EmptyGraph)
<1>1. GraphShape(EmptyGraph)
  BY DEF GraphShape, EmptyGraph
<1>2. EmptyGraph.held = {} /\ EmptyGraph.edges = {}
  BY DEF EmptyGraph
<1> QED BY <1>1, <1>2, NothingIsMeasured, FS_EmptySet DEF IsGraph

LEMMA KeysAreFinite == IsFiniteSet(Keys) /\ Keys \subseteq Int
<1>1. IsFiniteSet(Keys) /\ Keys = 1..Cardinality(Keys)
  BY KeysAreNumbered
<1>2. Cardinality(Keys) \in Nat
  BY <1>1, FS_CardinalityType
<1>3. 1..Cardinality(Keys) \subseteq Int
  BY <1>2
<1> QED BY <1>1, <1>3

LEMMA MentionsKeepGraph ==
  ASSUME NEW g, IsGraph(g), NEW r, NEW named, named \subseteq Keys
  PROVE  IsGraph(AddMentions(g, r, named))
<1> DEFINE R == {x \in g.records : x.id # r.id} \cup {r}
           E == {Mention(k, r) : k \in named}
           f == [g EXCEPT !.records = R]
           h == [f EXCEPT !.held = f.held \cup named, !.edges = f.edges \cup E]
<1>1. AddMentions(g, r, named) = h
  BY DEF AddMentions, RegisterRecord
<1>2. IsFiniteSet(E)
  <2>1. IsFiniteSet(named)
    BY KeysAreFinite, FS_Subset
  <2> DEFINE m == [k \in named |-> Mention(k, r)]
  <2>2. DOMAIN m = named /\ E = {m[k] : k \in named}
    OBVIOUS
  <2> HIDE DEF m
  <2> QED BY <2>1, <2>2, FiniteImage
<1> HIDE DEF R, E
<1>3. f = [held |-> g.held, edges |-> g.edges, records |-> R, verdicts |-> g.verdicts,
           status |-> g.status, tier |-> g.tier, reason |-> g.reason, gate |-> g.gate]
  BY DEF IsGraph, GraphShape
<1>4. h = [held |-> g.held \cup named, edges |-> g.edges \cup E, records |-> R,
           verdicts |-> g.verdicts, status |-> g.status, tier |-> g.tier, reason |-> g.reason,
           gate |-> g.gate]
  <2> HIDE DEF f
  <2>1. f.held \cup named = g.held \cup named /\ f.edges \cup E = g.edges \cup E
    BY <1>3
  <2>2. h = [f EXCEPT !.held = g.held \cup named, !.edges = g.edges \cup E]
    BY <2>1
  <2> HIDE DEF h
  <2> QED BY <1>3, <2>2
<1> HIDE DEF h
<1>5. GraphShape(h)
  BY <1>4 DEF IsGraph, GraphShape
<1>6. h.held \subseteq Keys /\ h.verdicts = g.verdicts
  BY <1>4 DEF IsGraph
<1>7. IsFiniteSet(h.edges)
  BY <1>2, <1>4, FS_Union DEF IsGraph
<1>8. VerdictsAreMeasured(h)
  BY <1>6 DEF IsGraph, VerdictsAreMeasured
<1> QED BY <1>1, <1>5, <1>6, <1>7, <1>8 DEF IsGraph

\* The hard rules reject, and where nothing is rejected they change nothing.
LEMMA HardRulesFacts ==
  ASSUME NEW g, IsGraph(g), NEW r
  PROVE  LET h == HardRules(g, r)
         IN /\ IsGraph(h) /\ h.held = g.held
            /\ (\A k \in h.held : h.status[k] # "REJECTED") => h = g
<1>1. ASSUME NEW R, R \subseteq g.held, NEW reason
      PROVE  LET h == Reject(g, R, reason)
             IN /\ IsGraph(h) /\ h.held = g.held
                /\ (\A k \in h.held : h.status[k] # "REJECTED") => h = g
  <2> DEFINE s == [k \in Keys |-> IF k \in R THEN "REJECTED" ELSE g.status[k]]
             w == [k \in Keys |-> IF k \in R THEN reason ELSE g.reason[k]]
             f == [g EXCEPT !.status = s]
             h == [f EXCEPT !.reason = w]
  <2>1. Reject(g, R, reason) = h
    BY DEF Reject
  <2>2. R \subseteq Keys
    BY <1>1 DEF IsGraph
  <2>3. s = [k \in Keys |-> s[k]] /\ w = [k \in Keys |-> w[k]] /\ \A k \in R : s[k] = "REJECTED"
    BY <2>2
  <2>4. R = {} => s = g.status /\ w = g.reason
    BY DEF IsGraph, GraphShape
  <2> HIDE DEF s, w
  <2>5. h = [held |-> g.held, edges |-> g.edges, records |-> g.records, verdicts |-> g.verdicts,
             status |-> s, tier |-> g.tier, reason |-> w, gate |-> g.gate]
    <3>1. f = [held |-> g.held, edges |-> g.edges, records |-> g.records,
               verdicts |-> g.verdicts, status |-> s, tier |-> g.tier,
               reason |-> g.reason, gate |-> g.gate]
      BY DEF IsGraph, GraphShape
    <3> HIDE DEF f
    <3> QED BY <3>1
  <2> HIDE DEF h
  <2>6. GraphShape(h)
    BY <2>3, <2>5 DEF IsGraph, GraphShape
  <2>7. VerdictsAreMeasured(h)
    <3>1. h.verdicts = g.verdicts
      BY <2>5
    <3> QED BY <3>1 DEF IsGraph, VerdictsAreMeasured
  <2>8. IsGraph(h) /\ h.held = g.held
    BY <2>5, <2>6, <2>7 DEF IsGraph
  <2>9. (\A k \in h.held : h.status[k] # "REJECTED") => h = g
    <3> SUFFICES ASSUME \A k \in h.held : h.status[k] # "REJECTED" PROVE h = g
      OBVIOUS
    <3>1. R = {}
      BY <1>1, <2>3, <2>5
    <3> QED BY <2>4, <2>5, <3>1 DEF IsGraph, GraphShape
  <2> QED BY <2>1, <2>8, <2>9
<1> QED BY <1>1 DEF HardRules

\* Tiers are all that is assigned, and assigning them again changes nothing.
LEMMA TieredFacts ==
  ASSUME NEW g, IsGraph(g), NEW r
  PROVE  LET h == Tiered(g, r)
         IN /\ IsGraph(h) /\ h.held = g.held /\ h.edges = g.edges /\ h.verdicts = g.verdicts
            /\ h.status = g.status /\ h.gate = g.gate
            /\ Tiered(h, r) = h
<1> DEFINE t(x) == [k \in Keys |-> IF k \in Active(x) THEN AssignTier(x, r, k) ELSE x.tier[k]]
           h == [g EXCEPT !.tier = t(g)]
<1>1. \A x : Tiered(x, r) = [x EXCEPT !.tier = t(x)]
  BY DEF Tiered
<1>2. t(g) = [k \in Keys |-> t(g)[k]]
  OBVIOUS
<1>3. h = [held |-> g.held, edges |-> g.edges, records |-> g.records, verdicts |-> g.verdicts,
           status |-> g.status, tier |-> t(g), reason |-> g.reason, gate |-> g.gate]
  <2> HIDE DEF t
  <2> QED BY DEF IsGraph, GraphShape
<1> HIDE DEF h
<1>4. Active(h) = Active(g)
  BY <1>3 DEF Active
<1>5. \A k : AssignTier(h, r, k) = AssignTier(g, r, k)
  <2>1. h.edges = g.edges /\ h.verdicts = g.verdicts /\ h.status = g.status
    BY <1>3
  <2>2. \A k : Contradicted(h, k) = Contradicted(g, k)
    BY <2>1 DEF Contradicted
  <2>3. \A k : DisagreementTerm(h, k) = DisagreementTerm(g, k)
    BY <2>1 DEF DisagreementTerm
  <2>4. \A k : Support(h, r, k) = Support(g, r, k)
    BY <2>1 DEF Support, SupportingGroups, Groups
  <2> QED BY <2>1, <2>2, <2>3, <2>4 DEF AssignTier
<1>6. t(h) = h.tier
  <2>1. h.tier = t(g)
    BY <1>3
  <2>2. \A k \in Keys : k \notin Active(g) => h.tier[k] = g.tier[k]
    BY <2>1
  <2> QED BY <1>4, <1>5, <2>1, <2>2
<1> HIDE DEF t
<1>7. [h EXCEPT !.tier = t(h)] = h
  BY <1>3, <1>6
<1>8. GraphShape(h)
  BY <1>2, <1>3 DEF IsGraph, GraphShape
<1>9. VerdictsAreMeasured(h)
  <2>1. h.verdicts = g.verdicts
    BY <1>3
  <2> QED BY <2>1 DEF IsGraph, VerdictsAreMeasured
<1>10. Tiered(g, r) = h
  BY <1>1 DEF h
<1>11. Tiered(h, r) = h
  BY <1>1, <1>7
<1>12. /\ IsGraph(h) /\ h.held = g.held /\ h.edges = g.edges /\ h.verdicts = g.verdicts
       /\ h.status = g.status /\ h.gate = g.gate
  BY <1>3, <1>8, <1>9 DEF IsGraph
<1> QED BY <1>10, <1>11, <1>12

LEMMA MeanIsANumber ==
  ASSUME NEW D, D \subseteq Distributions, NEW ds \in Seq(D), ds # <<>>
  PROVE  Mean(ds)["VALID"] \in Int
<1> DEFINE l == "VALID"
           n == Len(ds)
           sum == FoldLeft(LAMBDA made, d : made + d[l], 0, ds)
<1>1. n \in Nat \ {0} /\ DOMAIN ds = 1..n /\ \A i \in 1..n : ds[i] \in Distributions
  OBVIOUS
<1>2. sum = Folded("sum", 0, ds, l, 0, n)
  BY <1>1 DEF FoldLeft, MapThenFoldSet, Folded, IsFold, Step
<1> HIDE DEF n
<1>3. PICK g : Runs(g, "sum", 0, ds, l, 0, n) /\ g[n] = Folded("sum", 0, ds, l, 0, n)
  BY <1>1, FoldRuns
<1>4. g[0] = 0 /\ \A k \in 0..(n - 1) : g[k + 1] = g[k] + ds[k + 1][l]
  BY <1>3 DEF Runs, Step
<1> DEFINE T == {k \in Nat : k <= n => g[k] \in Int}
<1>5. 0 \in T
  BY <1>4
<1>6. \A k \in Nat : k \in T => k + 1 \in T
  <2> SUFFICES ASSUME NEW k \in Nat, k \in T, k + 1 <= n PROVE g[k + 1] \in Int
    OBVIOUS
  <2>1. k \in 0..(n - 1) /\ k + 1 \in 1..n /\ g[k] \in Int
    BY <1>1
  <2>2. ds[k + 1][l] \in Int
    BY <1>1, <2>1 DEF Distributions
  <2> QED BY <1>4, <2>1, <2>2
<1> HIDE DEF T
<1>7. sum \in Int
  <2>1. n \in T
    BY <1>1, <1>5, <1>6, NumberInduction
  <2>2. g[n] \in Int
    BY <1>1, <2>1 DEF T
  <2>3. sum = g[n]
    <3> HIDE DEF sum
    <3> QED BY <1>2, <1>3
  <2> HIDE DEF sum
  <2> QED BY <2>2, <2>3
<1>8. Mean(ds)["VALID"] = sum \div n
  BY DEF Mean, n
<1> HIDE DEF sum
<1> QED BY <1>1, <1>7, <1>8

LEMMA VerifyKeepsGraph ==
  ASSUME NEW g, IsGraph(g), NEW k, NEW ds \in BlindAnswers
  PROVE  IsGraph(VerifyOne(g, k, ds))
<1> DEFINE v == Aggregate(k, ds)
           h == AddVerification(g, v)
<1>1. CASE ds = <<>>
  BY <1>1 DEF VerifyOne
<1>2. CASE ds # <<>>
  <2>1. ds \in Seq(Distributions) /\ (Len(ds) > 1 => Divergence(ds) \in Int)
    BY BlindAnswersAreMeasured
  <2>2. Mean(ds)["VALID"] \in Int
    BY <1>2, <2>1, MeanIsANumber
  <2>3. Disagreement(ds) \in Int
    <3>1. Len(ds) \in Nat
      BY <2>1
    <3> QED BY <2>1, <3>1 DEF Disagreement
  <2>4. IsMeasured(v)
    BY <2>2, <2>3 DEF Aggregate, IsMeasured
  <2> HIDE DEF v
  <2>5. IsGraph(h)
    <3>1. CASE v.key \in g.held /\ Attachable(g, VerdictEdge(v))
      <4> DEFINE E == g.edges \cup {VerdictEdge(v)}
                 V == [g.verdicts EXCEPT ![v.key] = Append(@, v)]
                 f == [g EXCEPT !.edges = E]
      <4>1. h = [f EXCEPT !.verdicts[v.key] = Append(@, v)]
        BY <3>1 DEF AddVerification, Attach
      <4>2. IsFiniteSet(E)
        BY FS_AddElement DEF IsGraph
      <4>3. /\ V = [l \in Keys |-> V[l]]
            /\ \A l \in Keys : V[l] = g.verdicts[l] \/ V[l] = Append(g.verdicts[l], v)
        BY DEF IsGraph, GraphShape
      <4> HIDE DEF E
      <4>4. f = [held |-> g.held, edges |-> E, records |-> g.records, verdicts |-> g.verdicts,
                 status |-> g.status, tier |-> g.tier, reason |-> g.reason, gate |-> g.gate]
        BY DEF IsGraph, GraphShape
      <4>5. h = [f EXCEPT !.verdicts = V]
        <5> HIDE DEF f
        <5> QED BY <4>1, <4>4
      <4> HIDE DEF V
      <4>6. h = [held |-> g.held, edges |-> E, records |-> g.records, verdicts |-> V,
                 status |-> g.status, tier |-> g.tier, reason |-> g.reason, gate |-> g.gate]
        <5> HIDE DEF f, h
        <5> QED BY <4>4, <4>5
      <4> HIDE DEF h
      <4>7. GraphShape(h)
        BY <4>3, <4>6 DEF IsGraph, GraphShape
      <4>8. VerdictsAreMeasured(h)
        BY <2>4, <4>3, <4>6, MeasuresStay DEF IsGraph
      <4> QED BY <4>2, <4>6, <4>7, <4>8 DEF IsGraph
    <3>2. CASE ~(v.key \in g.held /\ Attachable(g, VerdictEdge(v)))
      BY <3>2 DEF AddVerification
    <3> QED BY <3>1, <3>2
  <2>6. VerifyOne(g, k, ds) = h
    BY <1>2 DEF VerifyOne, h, v
  <2> QED BY <2>5, <2>6
<1> QED BY <1>1, <1>2

LEMMA GateKeepsGraph ==
  ASSUME NEW g, IsGraph(g), NEW x
  PROVE  LET h == [g EXCEPT !.gate = x]
         IN /\ IsGraph(h) /\ h.held = g.held /\ h.edges = g.edges /\ h.verdicts = g.verdicts
            /\ h.status = g.status /\ h.tier = g.tier /\ h.gate = x
            /\ x = g.gate => h = g
<1> DEFINE h == [g EXCEPT !.gate = x]
<1>1. h = [held |-> g.held, edges |-> g.edges, records |-> g.records, verdicts |-> g.verdicts,
           status |-> g.status, tier |-> g.tier, reason |-> g.reason, gate |-> x]
  BY DEF IsGraph, GraphShape
<1> HIDE DEF h
<1>2. GraphShape(h) /\ VerdictsAreMeasured(h)
  <2>1. GraphShape(h)
    BY <1>1 DEF IsGraph, GraphShape
  <2>2. h.verdicts = g.verdicts
    BY <1>1
  <2> QED BY <2>1, <2>2 DEF IsGraph, VerdictsAreMeasured
<1>3. /\ IsGraph(h) /\ h.held = g.held /\ h.edges = g.edges /\ h.verdicts = g.verdicts
      /\ h.status = g.status /\ h.tier = g.tier /\ h.gate = x
      /\ x = g.gate => h = g
  BY <1>1, <1>2 DEF IsGraph, GraphShape
<1> QED BY <1>3 DEF h

-----------------------------------------------------------------------------
(* The shape of the state *)

Outcomes ==
  [gain : Nat, tokens : {0} \cup UNION {TokenCosts[r] : r \in Relations}, check : BOOLEAN]

Shapes ==
  /\ relation \in Relations
  /\ IsGraph(graph)
  /\ rcse.outcomes \in Seq(Outcomes)
  /\ why = [l \in Loops |-> why[l]]
  /\ steps \in Nat
  /\ budget = [calls |-> budget.calls, tokens |-> budget.tokens] /\ budget.calls \in Nat
  /\ phase \in Loops \/ (action = Idle /\ steps = 0)

\* The gain of an action is a number of keys.
LEMMA GainIsANumber ==
  ASSUME NEW g, IsGraph(g), NEW r, NEW S
  PROVE  Cardinality(Trusted(g, r) \ S) \in Nat
<1>1. Trusted(g, r) \ S \subseteq Keys
  BY DEF Trusted, Active, IsGraph
<1>2. IsFiniteSet(Trusted(g, r) \ S)
  BY <1>1, KeysAreFinite, FS_Subset
<1> QED BY <1>2, FS_CardinalityType

LEMMA SettleKeepsShapes ==
  ASSUME Shapes, action # Idle, NEW g, IsGraph(g), NEW calls \in Nat,
         NEW tokens \in {0} \cup TokenCosts[relation], NEW check \in BOOLEAN,
         Settle(g, calls, tokens, check)
  PROVE  Shapes' /\ steps' # 0
<1>1. graph' = Tiered(g, relation)
  BY DEF Settle
<1>2. IsGraph(graph')
  BY <1>1, TieredFacts
<1>3. rcse'.outcomes \in Seq(Outcomes)
  <2> DEFINE o == [gain |-> Cardinality(Trusted(graph', relation) \ LastTrusted(rcse)),
                   tokens |-> tokens, check |-> check]
  <2>1. rcse'.outcomes = Append(rcse.outcomes, o)
    BY <1>1 DEF Settle
  <2>2. o \in Outcomes
    <3>1. Cardinality(Trusted(graph', relation) \ LastTrusted(rcse)) \in Nat
      BY <1>2, GainIsANumber
    <3>2. relation \in Relations
      BY DEF Shapes
    <3> QED BY <3>1, <3>2 DEF Outcomes
  <2> HIDE DEF o
  <2> QED BY <2>1, <2>2 DEF Shapes
<1>4. /\ relation' = relation /\ why' = why /\ phase' = phase /\ steps' = steps + 1
      /\ phase \in Loops
      /\ budget' = [calls |-> budget.calls + calls, tokens |-> budget.tokens + tokens]
  BY DEF Settle, Shapes, query
<1>5. budget' = [calls |-> budget'.calls, tokens |-> budget'.tokens] /\ budget'.calls \in Nat
  BY <1>4 DEF Shapes
<1> QED BY <1>2, <1>3, <1>4, <1>5 DEF Shapes

LEMMA ActingKeepsShapes ==
  ASSUME Shapes, Acts
  PROVE  Shapes' /\ steps' # 0
<1>0. action # Idle /\ relation \in Relations /\ IsGraph(graph)
  BY ActingSpends DEF Shapes
<1>a. CallsMade(action) \in Nat /\ 0 \in Nat
  BY CallsAreAsPlanned
<1>1. ASSUME NEW record, NEW answers, Hear(record, answers), \A S \in answers : S \subseteq Keys
      PROVE  Shapes' /\ steps' # 0
  <2>1. PICK named \in answers, tokens \in TokenCosts[relation] :
          Settle(AddMentions(graph, record, named), CallsMade(action), tokens, FALSE)
    BY <1>1, Zenon DEF Hear
  <2>2. IsGraph(AddMentions(graph, record, named))
    BY <1>0, <1>1, MentionsKeepGraph
  <2> QED BY <1>0, <1>a, <2>1, <2>2, SettleKeepsShapes
<1>2. CASE RunView
  <2>1. PICK look : Hear(Record(look.name, 0, look.group, Enumerator),
                         IF look.group = "EXISTENCE_GATE" THEN {{}} ELSE ViewAnswers[relation])
    BY <1>2 DEF RunView
  <2>2. \A S \in (IF look.group = "EXISTENCE_GATE" THEN {{}} ELSE ViewAnswers[relation]) :
          S \subseteq Keys
    BY <1>0, AnswersAreKeyed
  <2> QED BY <1>1, <2>1, <2>2
<1>3. CASE RunReverse
  <2>1. PICK record : Hear(record, ReverseAnswers[relation])
    BY <1>3 DEF RunReverse
  <2> QED BY <1>0, <1>1, <2>1, AnswersAreKeyed
<1>4. CASE RunRecall
  <2> DEFINE record == Record(FirstRecall(relation), 0, CrossModel, SecondModel)
  <2>1. PICK named \in RecallAnswers[relation], tokens \in TokenCosts[relation] :
          Settle(HardRules(AddMentions(graph, record, named), relation), CallsMade(action),
                 tokens, FALSE)
    BY <1>4, Zenon DEF RunRecall
  <2> HIDE DEF record
  <2>2. IsGraph(AddMentions(graph, record, named))
    BY <1>0, AnswersAreKeyed, MentionsKeepGraph
  <2>3. IsGraph(HardRules(AddMentions(graph, record, named), relation))
    BY <2>2, HardRulesFacts
  <2> QED BY <1>0, <1>a, <2>1, <2>3, SettleKeepsShapes
<1>5. CASE Verify
  <2>1. PICK ds \in BlindAnswers : \E calls \in {0, CallsMade(action)} : Settle(VerifyOne(graph, action.key, ds), calls, 0, TRUE)
    BY <1>5 DEF Verify
  <2>2. IsGraph(VerifyOne(graph, action.key, ds))
    BY <1>0, VerifyKeepsGraph
  <2> QED BY <1>0, <1>a, <2>1, <2>2, SettleKeepsShapes
<1> QED BY <1>2, <1>3, <1>4, <1>5 DEF Acts

LEMMA LeavingKeepsShapes ==
  ASSUME Shapes, action = Idle, phase \in Loops, NEW g, IsGraph(g), NEW reason, Leave(g, reason)
  PROVE  Shapes'
<1>1. graph' = HardRules(g, relation) \/ graph' = g
  BY DEF Leave
<1>2. IsGraph(graph')
  BY <1>1, HardRulesFacts
<1>3. /\ relation' = relation /\ rcse' = rcse /\ steps' = 0 /\ action' = Idle /\ budget' = budget
      /\ why' = [why EXCEPT ![phase] = reason]
  BY DEF Leave, Reloaded, query
<1> QED BY <1>2, <1>3 DEF Shapes

LEMMA ScoringKeepsShapes ==
  ASSUME Shapes, ScoreGate
  PROVE  Shapes'
<1>1. PICK answer : graph' = [graph EXCEPT !.gate = IF answer = "UNAVAILABLE" THEN @ ELSE answer]
  BY DEF ScoreGate
<1>2. \E x : graph' = [graph EXCEPT !.gate = x]
  BY <1>1 DEF Shapes, IsGraph, GraphShape
<1>3. IsGraph(graph')
  BY <1>2, GateKeepsGraph DEF Shapes
<1>4. phase \notin Loops /\ UNCHANGED <<relation, steps, rcse, action, why>>
  BY DEF ScoreGate, Loops, query
<1>5. budget' = [calls |-> budget'.calls, tokens |-> budget'.tokens] /\ budget'.calls \in Nat
  <2>1. PICK n \in {budget.calls, budget.calls + 1} : budget' = [budget EXCEPT !.calls = n]
    BY DEF ScoreGate, Shapes
  <2> QED BY <2>1 DEF Shapes
<1> QED BY <1>3, <1>4, <1>5 DEF Shapes

\* A decision leaves, or chooses, on the tiers of now.
LEMMA DecideFacts ==
  ASSUME Decide
  PROVE  LET g == Tiered(graph, relation)
             c == Signals(g, relation, rcse)
         IN /\ action = Idle /\ phase \in Loops /\ ~Exhausted
            /\ \E choice \in NextChoice(g, c) :
                 \/ choice = Idle /\ ShouldStop(g, relation, rcse, c) /\ Leave(g, "settled")
                 \/ choice = Idle /\ ~ShouldStop(g, relation, rcse, c) /\ Leave(g, "nothing legal")
                 \/ choice # Idle /\ PlannedCalls(choice) > CallsLeft /\ Leave(g, "unaffordable")
                 \/ Chooses(g, c, choice) /\ graph' = g
BY Zenon DEF Decide, Chooses

LEMMA ShapesStep == Shapes /\ [Next]_vars => Shapes'
<1> SUFFICES ASSUME Shapes, [Next]_vars
             PROVE  Shapes'
  OBVIOUS
<1>1. CASE Acts
  BY <1>1, ActingKeepsShapes
<1>2. CASE ScoreGate
  BY <1>2, ScoringKeepsShapes
<1>3. CASE Expire
  <2>1. action = Idle /\ phase \in Loops /\ Leave(graph, "limit") /\ IsGraph(graph)
    BY <1>3 DEF Expire, Shapes
  <2> QED BY <2>1, LeavingKeepsShapes
<1>4. CASE Decide
  <2> DEFINE g == Tiered(graph, relation)
             c == Signals(g, relation, rcse)
  <2>1. IsGraph(g)
    BY TieredFacts DEF Shapes
  <2>2. action = Idle /\ phase \in Loops
    BY <1>4, DecideFacts
  <2>3. (\E reason : Leave(g, reason)) \/ (\E choice : Chooses(g, c, choice) /\ graph' = g)
    BY <1>4, DecideFacts, Zenon
  <2> HIDE DEF g, c
  <2>4. CASE \E reason : Leave(g, reason)
    BY <2>1, <2>2, <2>4, LeavingKeepsShapes
  <2>5. CASE \E choice : Chooses(g, c, choice) /\ graph' = g
    BY <2>1, <2>2, <2>5 DEF Chooses, Shapes, query
  <2> QED BY <2>3, <2>4, <2>5
<1>5. CASE Finished \/ UNCHANGED vars
  BY <1>5 DEF Finished, vars, query, Shapes
<1> QED BY <1>1, <1>2, <1>3, <1>4, <1>5 DEF Next, Acts

LEMMA ShapesInit == Init => Shapes
<1> SUFFICES ASSUME Init PROVE Shapes
  OBVIOUS
<1>1. /\ relation \in Relations /\ graph = EmptyGraph /\ steps = 0 /\ action = Idle
      /\ why = [l \in Loops |-> ""] /\ rcse.outcomes = <<>>
      /\ budget = [calls |-> 0, tokens |-> 0]
  BY DEF Init, NothingYet
<1>2. <<>> \in Seq(Outcomes)
  OBVIOUS
<1>3. why = [l \in Loops |-> why[l]]
  BY <1>1
<1> QED BY <1>1, <1>2, <1>3, EmptyIsGraph DEF Shapes

-----------------------------------------------------------------------------
(* What is read of a graph is numbers *)

\* The mechanisms behind a candidate are among those the contract declares.
LEMMA AcquisitionIsFinite ==
  ASSUME NEW r \in AllRelations
  PROVE  /\ IsFiniteSet(AcquisitionGroups(r))
         /\ Cardinality(AcquisitionGroups(r)) \in Nat \ {0}
<1> DEFINE families == {"direct", "structural", "description", "contrastive", "missingness", "reverse"}
           A == AcquisitionGroups(r)
<1>1. A \subseteq families /\ "direct" \in A
  <2>1. ContractOf(r) \in {BordersContract, DeathContract, StockContract, AreaContract,
                           CapacityContract, AwardContract}
    BY DEF AllRelations, ContractOf
  <2>2. A \subseteq families
    BY <2>1 DEF AcquisitionGroups, EligibleGroups, BordersContract, DeathContract,
       StockContract, AreaContract, CapacityContract, AwardContract, Contract
  <2>3. "direct" \in A
    BY <2>1 DEF AcquisitionGroups, EligibleGroups, BordersContract, DeathContract,
       StockContract, AreaContract, CapacityContract, AwardContract, Contract
  <2> QED BY <2>2, <2>3
<1>2. IsFiniteSet(families)
  <2>1. families = {"direct"} \cup {"structural"} \cup {"description"} \cup {"contrastive"}
                   \cup {"missingness"} \cup {"reverse"}
    OBVIOUS
  <2> HIDE DEF families
  <2> QED BY <2>1, FS_Singleton, FS_Union
<1> HIDE DEF A, families
<1>3. IsFiniteSet(A)
  BY <1>1, <1>2, FS_Subset
<1>4. Cardinality(A) \in Nat /\ Cardinality(A) # 0
  BY <1>1, <1>3, FS_CardinalityType, FS_EmptySet
<1> QED BY <1>3, <1>4 DEF A

LEMMA SupportFacts ==
  ASSUME NEW g, NEW r \in AllRelations, NEW k
  PROVE  Support(g, r, k) \in Nat
<1>1. SupportingGroups(g, r, k) \subseteq AcquisitionGroups(r)
  BY DEF SupportingGroups
<1>2. IsFiniteSet(SupportingGroups(g, r, k))
  BY <1>1, AcquisitionIsFinite, FS_Subset
<1> QED BY <1>2, FS_CardinalityType DEF Support

LEMMA LogitIsANumber ==
  ASSUME NEW valid \in Int
  PROVE  LogitOf(valid) \in Int
<1>1. CASE valid < 10 \/ valid > 90
  BY <1>1 DEF LogitOf
<1>2. CASE ~(valid < 10 \/ valid > 90)
  <2> DEFINE table == <<-732, -462, -282, -135, 0, 135, 282, 462, 732>>
             n == valid \div 10
  <2>1. n \in 1..9
    BY <1>2
  <2>2. LogitOf(valid) = table[n]
    BY <1>2 DEF LogitOf
  <2> HIDE DEF n
  <2>3. \A i \in 1..9 : table[i] \in Int
    OBVIOUS
  <2> QED BY <2>1, <2>2, <2>3
<1> QED BY <1>1, <1>2

LEMMA CoverageIsANumber ==
  ASSUME NEW g, NEW r \in AllRelations, NEW k
  PROVE  CoverageQ(g, r, k) \in Int
BY SupportFacts, AcquisitionIsFinite DEF CoverageQ

LEMMA DisagreementIsANumber ==
  ASSUME NEW g, IsGraph(g), NEW k \in Keys
  PROVE  DisagreementTerm(g, k) \in Int
<1> DEFINE vs == g.verdicts[k]
           f == [i \in DOMAIN vs |-> vs[i].disagreement]
           N == {0} \cup {f[i] : i \in DOMAIN vs}
<1>0. VerdictsAreMeasured(g)
  BY DEF IsGraph
<1>1. IsFiniteSet(DOMAIN vs)
  <2>1. DOMAIN vs = 1..Len(vs) /\ Len(vs) \in Nat
    BY <1>0 DEF VerdictsAreMeasured
  <2> QED BY <2>1, FS_Interval
<1>2. \A i \in DOMAIN vs : f[i] \in Int
  BY <1>0 DEF VerdictsAreMeasured, IsMeasured
<1>3. N = {0} \cup {vs[i].disagreement : i \in DOMAIN vs} /\ DOMAIN f = DOMAIN vs
  OBVIOUS
<1> HIDE DEF f
<1>4. IsFiniteSet({f[i] : i \in DOMAIN vs})
  BY <1>1, <1>3, FiniteImage
<1>5. IsFiniteSet(N) /\ N \subseteq Int /\ N # {}
  <2>1. IsFiniteSet({0})
    BY FS_Singleton
  <2>2. IsFiniteSet(N)
    BY <1>4, <2>1, FS_Union
  <2> QED BY <1>2, <2>2
<1>6. Max(N) \in Int
  BY <1>5, MaxMinFacts
<1> QED BY <1>3, <1>6 DEF DisagreementTerm

LEMMA ScoreIsANumber ==
  ASSUME NEW g, IsGraph(g), NEW r \in AllRelations, NEW k \in Keys
  PROVE  Score(g, r, k) \in Int
<1> DEFINE vs == g.verdicts[k]
<1>0. VerdictsAreMeasured(g)
  BY DEF IsGraph
<1>1. CoverageQ(g, r, k) \in Int
  BY CoverageIsANumber
<1>2. LogitTerm(g, k) \in Int
  <2>1. CASE vs = <<>>
    BY <2>1 DEF LogitTerm
  <2>2. CASE vs # <<>>
    <3>1. Len(vs) \in DOMAIN vs
      BY <1>0, <2>2 DEF VerdictsAreMeasured
    <3>2. LatestVerdict(g, k).valid \in Int
      BY <1>0, <3>1 DEF LatestVerdict, VerdictsAreMeasured, IsMeasured
    <3> QED BY <2>2, <3>2, LogitIsANumber DEF LogitTerm
  <2> QED BY <2>1, <2>2
<1>3. CrossModelTerm(g, k) \in {0, 1000}
  BY DEF CrossModelTerm
<1>4. ContradictionTerm(g, r, k) \in Int
  <2>1. Cardinality(AcquisitionGroups(r)) + 1 \in Nat \ {0}
    BY AcquisitionIsFinite
  <2>2. Cardinality(Groups(g, k, "CONTRADICT")) \in Nat
    <3> DEFINE E == {x \in g.edges : x.key = k /\ x.sign = "CONTRADICT"}
               f == [e \in E |-> e.group]
    <3>1. IsFiniteSet(E)
      BY FS_Subset DEF IsGraph
    <3>2. Groups(g, k, "CONTRADICT") = {f[e] : e \in E} /\ DOMAIN f = E
      BY DEF Groups
    <3> HIDE DEF E, f
    <3>3. IsFiniteSet({f[e] : e \in E})
      BY <3>1, <3>2, FiniteImage
    <3> QED BY <3>2, <3>3, FS_CardinalityType
  <2> QED BY <2>1, <2>2 DEF ContradictionTerm
<1>5. DisagreementTerm(g, k) \in Int
  BY DisagreementIsANumber
<1> HIDE DEF vs
<1> QED BY <1>1, <1>2, <1>3, <1>4, <1>5 DEF Score

\* The keys a graph still holds.
LEMMA ActiveFacts ==
  ASSUME NEW g, IsGraph(g)
  PROVE  Active(g) \subseteq Keys /\ IsFiniteSet(Active(g)) /\ Active(g) \subseteq Int
<1>1. Active(g) \subseteq Keys
  BY DEF Active, IsGraph
<1> QED BY <1>1, KeysAreFinite, FS_Subset

LEMMA MaxOfTwo ==
  ASSUME NEW m \in Int, NEW n \in Int
  PROVE  Max({m, n}) = IF m >= n THEN m ELSE n
<1> DEFINE most == IF m >= n THEN m ELSE n
<1>1. most \in {m, n} /\ \A y \in {m, n} : most >= y
  OBVIOUS
<1>2. \A x \in {m, n} : (\A y \in {m, n} : x >= y) => x = most
  OBVIOUS
<1> QED
  BY <1>1, <1>2 DEF Max

\* The largest of none and some numbers.
LEMMA MaxOfImage ==
  ASSUME NEW S, IsFiniteSet(S), NEW f, DOMAIN f = S, \A x \in S : f[x] \in Int
  PROVE  LET M == {0} \cup {f[x] : x \in S}
         IN /\ IsFiniteSet(M) /\ M \subseteq Int
            /\ Max(M) \in Int /\ Max(M) >= 0 /\ \A x \in S : f[x] <= Max(M)
<1> DEFINE M == {0} \cup {f[x] : x \in S}
<1>1. IsFiniteSet({f[x] : x \in S})
  BY FiniteImage
<1>2. IsFiniteSet(M)
  <2>1. IsFiniteSet({0})
    BY FS_Singleton
  <2> QED BY <1>1, <2>1, FS_Union
<1>3. M \subseteq Int /\ 0 \in M
  OBVIOUS
<1>4. Max(M) \in M /\ \A m \in M : m <= Max(M)
  BY <1>2, <1>3, MaxMinFacts
<1> QED BY <1>2, <1>3, <1>4

\* The looks of a relation are few.
LEMMA LooksFacts ==
  ASSUME NEW r \in AllRelations
  PROVE  /\ IsFiniteSet(Looks(r)) /\ Looks(r) \subseteq Nat \ {0}
         /\ IsFiniteSet(Mandatory(r)) /\ Cardinality(Mandatory(r)) \in 0..7
<1>1. PICK n \in 0..7 : Looks(r) = 1..n
  <2>1. r = Borders => Looks(r) = 1..6
    BY DEF Looks, Library, Borders, Death, Stock, Area, Capacity, Award
  <2>2. r = Death => Looks(r) = 1..4
    BY DEF Looks, Library, Borders, Death, Stock, Area, Capacity, Award
  <2>3. r = Stock => Looks(r) = 1..5
    BY DEF Looks, Library, Borders, Death, Stock, Area, Capacity, Award
  <2>4. r = Area => Looks(r) = 1..3
    BY DEF Looks, Library, Borders, Death, Stock, Area, Capacity, Award
  <2>5. r = Capacity => Looks(r) = 1..3
    BY DEF Looks, Library, Borders, Death, Stock, Area, Capacity, Award
  <2>6. r = Award => Looks(r) = 1..7
    BY DEF Looks, Library, Borders, Death, Stock, Area, Capacity, Award
  <2>7. 6 \in 0..7 /\ 4 \in 0..7 /\ 5 \in 0..7 /\ 3 \in 0..7 /\ 7 \in 0..7
    OBVIOUS
  <2> QED BY <2>1, <2>2, <2>3, <2>4, <2>5, <2>6, <2>7 DEF AllRelations
<1>2. IsFiniteSet(1..n) /\ Cardinality(1..n) = n
  <2>1. n \in Nat
    OBVIOUS
  <2>2. IsFiniteSet(1..n) /\ Cardinality(1..n) = IF 1 > n THEN 0 ELSE n - 1 + 1
    BY <2>1, FS_Interval
  <2> QED BY <2>1, <2>2
<1>3. Mandatory(r) \subseteq 1..n
  BY <1>1 DEF Mandatory
<1>4. IsFiniteSet(Mandatory(r)) /\ Cardinality(Mandatory(r)) <= n /\ Cardinality(Mandatory(r)) \in Nat
  BY <1>2, <1>3, FS_Subset, FS_CardinalityType
<1> QED BY <1>1, <1>2, <1>4

\* A gap is a number, and none of what is declared, where it is little, is
\* missing when there is no gap.
LEMMA GapFacts ==
  ASSUME NEW D, IsFiniteSet(D), NEW C
  PROVE  /\ Gap(D, C) \in Int
         /\ Cardinality(D) \in 0..7 /\ Gap(D, C) = 0 => D \subseteq C
<1>1. CASE D = {}
  BY <1>1 DEF Gap
<1>2. CASE D # {}
  <2> DEFINE n == Cardinality(D \ C)
             m == Cardinality(D)
  <2>1. m \in Nat \ {0} /\ n \in Nat /\ IsFiniteSet(D \ C)
    BY <1>2, FS_CardinalityType, FS_EmptySet, FS_Subset
  <2>2. Gap(D, C) = (10000 * n) \div m
    BY <1>2 DEF Gap, Part, Unit
  <2>3. n = 0 => D \subseteq C
    BY <2>1, FS_EmptySet
  <2> HIDE DEF n
  <2>4. m \in 0..7 /\ n # 0 => (10000 * n) \div m # 0
    <3> SUFFICES ASSUME m \in 1..7, n \in Nat \ {0} PROVE (10000 * n) \div m # 0
      BY <2>1
    <3> HIDE DEF m
    <3>1. m = 1 \/ m = 2 \/ m = 3 \/ m = 4 \/ m = 5 \/ m = 6 \/ m = 7
      OBVIOUS
    <3> QED BY <3>1
  <2>5. (10000 * n) \div m \in Int
    <3> HIDE DEF m
    <3> QED BY <2>1
  <2> QED BY <2>2, <2>3, <2>4, <2>5
<1> QED BY <1>1, <1>2

\* A sum has the sign of what is added.
LEMMA SumSign ==
  ASSUME NEW f, NEW S, IsFiniteSet(S), \A x \in S : f[x] \in Int
  PROVE  /\ SumFunctionOnSet(f, S) \in Int
         /\ (\A x \in S : f[x] <= 0) => SumFunctionOnSet(f, S) <= 0
         /\ (\A x \in S : f[x] >= 0) => SumFunctionOnSet(f, S) >= 0
<1> DEFINE Sum(T) == SumFunctionOnSet(f, T)
           F == {T \in SUBSET S : /\ Sum(T) \in Int
                                  /\ (\A x \in T : f[x] <= 0) => Sum(T) <= 0
                                  /\ (\A x \in T : f[x] >= 0) => Sum(T) >= 0}
<1>1. {} \in F
  <2>1. IsFiniteSet({})
    BY FS_EmptySet
  <2>2. Sum({}) = 0
    BY <2>1, SumFirst
  <2> QED BY <2>2
<1>2. \A T \in SUBSET S : \A x \in S \ T : T \in F => T \cup {x} \in F
  <2> SUFFICES ASSUME NEW T \in F, NEW x \in S \ T PROVE T \cup {x} \in F
    OBVIOUS
  <2> DEFINE U == T \cup {x}
  <2>1. IsFiniteSet(U) /\ x \in U /\ U \ {x} = T /\ U \in SUBSET S
    BY FS_Subset
  <2>2. \A y \in T : y \in U
    OBVIOUS
  <2> HIDE DEF U
  <2>3. Sum(U) = f[x] + Sum(T)
    BY <2>1, SumAdds
  <2> HIDE DEF Sum
  <2>4. U \in F
    BY <2>1, <2>2, <2>3
  <2> QED BY <2>4 DEF U
<1>3. S \in F
  <2> HIDE DEF F
  <2> QED BY <1>1, <1>2, SetInduction
<1> QED BY <1>3

\* A mean is a number, and below zero where nothing is above it and something
\* below.
LEMMA MeanFacts ==
  ASSUME NEW S, IsFiniteSet(S), NEW f, DOMAIN f = S, \A x \in S : f[x] \in Int
  PROVE  /\ MeanOf(f) \in Int
         /\ (\A x \in S : f[x] <= 0) /\ (\E x \in S : f[x] < 0) => MeanOf(f) < 0
<1>1. SumFunction(f) = SumFunctionOnSet(f, S)
  BY DEF SumFunction, SumFunctionOnSet, FoldFunction
<1>2. SumFunctionOnSet(f, S) \in Int
  BY SumFirst
<1>3. CASE S = {}
  BY <1>3 DEF MeanOf
<1>4. CASE S # {}
  <2> DEFINE sum == SumFunctionOnSet(f, S)
             n == Cardinality(S)
  <2>1. n \in Nat \ {0}
    BY <1>4, FS_CardinalityType, FS_EmptySet
  <2>2. MeanOf(f) = sum \div n
    BY <1>1, <1>4 DEF MeanOf
  <2>3. ASSUME \A x \in S : f[x] <= 0, NEW e \in S, f[e] < 0
        PROVE  sum < 0
    <3>1. SumFunctionOnSet(f, S) = f[e] + SumFunctionOnSet(f, S \ {e})
      BY SumAdds
    <3>2. IsFiniteSet(S \ {e})
      BY FS_Subset
    <3>3. SumFunctionOnSet(f, S \ {e}) \in Int /\ SumFunctionOnSet(f, S \ {e}) <= 0
      BY <2>3, <3>2, SumSign
    <3> QED BY <2>3, <3>1, <3>3
  <2> HIDE DEF sum, n
  <2>4. sum \in Int
    BY <1>2 DEF sum
  <2>5. sum \div n \in Int /\ (sum < 0 => sum \div n < 0)
    BY <2>1, <2>4
  <2> QED BY <2>2, <2>3, <2>5
<1> QED BY <1>3, <1>4

\* What presses never counts for nothing.
LEMMA PressureFacts ==
  ASSUME NEW g, IsGraph(g), NEW r \in AllRelations
  PROVE  /\ Pressure(g, r) \in Int
         /\ Pressure(g, r) = 0 => \A k \in Active(g) : ~Open(g, k)
<1> DEFINE f == [k \in Active(g) |-> IF Open(g, k) THEN 0 - Max({Unit \div 4, Q(g, r, k)}) ELSE 0]
<1>1. \A k \in Active(g) : Max({Unit \div 4, Q(g, r, k)}) \in Int /\ Max({Unit \div 4, Q(g, r, k)}) >= 2500
  <2> TAKE k \in Active(g)
  <2>1. Q(g, r, k) \in Int
    BY CoverageIsANumber DEF Q
  <2>2. Unit \div 4 = 2500
    BY DEF Unit
  <2> QED BY <2>1, <2>2, MaxOfTwo
<1>2. \A k \in Active(g) : /\ f[k] \in Int /\ f[k] <= 0
                           /\ Open(g, k) => f[k] < 0
  <2> TAKE k \in Active(g)
  <2> DEFINE m == Max({Unit \div 4, Q(g, r, k)})
  <2>1. f[k] = IF Open(g, k) THEN 0 - m ELSE 0
    OBVIOUS
  <2>2. m \in Int /\ m >= 2500
    BY <1>1
  <2> HIDE DEF m, f
  <2> QED BY <2>1, <2>2
<1>3. DOMAIN f = Active(g) /\ Pressure(g, r) = 0 - MeanOf(f)
  BY DEF Pressure
<1> HIDE DEF f
<1>4. IsFiniteSet(Active(g))
  BY ActiveFacts
<1>5. MeanOf(f) \in Int /\ ((\E k \in Active(g) : Open(g, k)) => MeanOf(f) < 0)
  BY <1>2, <1>3, <1>4, MeanFacts
<1> DEFINE mean == MeanOf(f)
<1>6. Pressure(g, r) = 0 - mean /\ mean \in Int
  BY <1>3, <1>5
<1>7. Pressure(g, r) = 0 => ~(mean < 0)
  <2> HIDE DEF mean
  <2> QED BY <1>6
<1>8. Pressure(g, r) \in Int
  <2> HIDE DEF mean
  <2> QED BY <1>6
<1> QED BY <1>5, <1>7, <1>8

-----------------------------------------------------------------------------
(* Signals *)

LEMMA FacetsAreFinite ==
  ASSUME NEW r \in AllRelations
  PROVE  IsFiniteSet(FacetsOf(r, Looks(r)))
<1> DEFINE f == [i \in Looks(r) |-> Library(r)[i].facet]
<1>1. IsFiniteSet(Looks(r)) /\ DOMAIN f = Looks(r)
  BY LooksFacts
<1>2. FacetsOf(r, Looks(r)) \subseteq {f[i] : i \in Looks(r)}
  BY DEF FacetsOf
<1> HIDE DEF f
<1>3. IsFiniteSet({f[i] : i \in Looks(r)})
  BY <1>1, FiniteImage
<1> QED BY <1>2, <1>3, FS_Subset

LEMMA DisagreesIsANumber ==
  ASSUME NEW g, IsGraph(g), NEW k \in Keys
  PROVE  Disagrees(g, k) \in Int
BY DisagreementIsANumber DEF Disagrees

LEMMA RivalryIsANumber ==
  ASSUME NEW g, IsGraph(g), NEW r \in AllRelations
  PROVE  Rivalry(g, r) \in Int
<1> DEFINE A == Active(g)
           scores == [k \in A |-> Score(g, r, k)]
           best == Max({0} \cup Range(scores))
           first == CHOOSE k \in A : scores[k] = best
           parts == [k \in A \ {first} |-> Part(scores[k], best)]
<1>1. IsFiniteSet(A) /\ DOMAIN scores = A /\ \A k \in A : scores[k] \in Int
  BY ActiveFacts, ScoreIsANumber
<1>2. Rivalry(g, r) = IF best = 0 THEN 0
                      ELSE Max({0} \cup {Part(scores[k], best) : k \in A \ {first}})
  BY DEF Rivalry
<1>3. {parts[k] : k \in A \ {first}} = {Part(scores[k], best) : k \in A \ {first}}
  OBVIOUS
<1> HIDE DEF A, scores
<1>4. best \in Int /\ best >= 0
  <2>1. Range(scores) = {scores[k] : k \in A}
    BY <1>1 DEF Range
  <2> DEFINE R == Range(scores)
             M == {0} \cup {scores[k] : k \in A}
  <2>2. {0} \cup R = M
    BY <2>1
  <2>3. Max(M) \in Int /\ Max(M) >= 0
    <3> HIDE DEF best, first, parts, R
    <3>1. /\ IsFiniteSet(M) /\ M \subseteq Int
          /\ Max(M) \in Int /\ Max(M) >= 0 /\ \A k \in A : scores[k] <= Max(M)
      BY <1>1, MaxOfImage
    <3> HIDE DEF M
    <3> QED BY <3>1
  <2> HIDE DEF M, R
  <2>4. Max({0} \cup R) = Max(M)
    BY <2>2
  <2> QED BY <2>3, <2>4 DEF R
<1>5. CASE best # 0
  <2> HIDE DEF best, first
  <2> DEFINE B == A \ {first}
  <2>1. \A k \in B : parts[k] \in Int
    BY <1>1, <1>4, <1>5 DEF Part, Unit
  <2>2. IsFiniteSet(B) /\ DOMAIN parts = B
    BY <1>1, FS_Subset
  <2> HIDE DEF parts, B
  <2>3. Max({0} \cup {parts[k] : k \in B}) \in Int
    BY <2>1, <2>2, MaxOfImage
  <2> QED BY <1>2, <1>3, <1>5, <2>3 DEF B
<1>6. CASE best = 0
  BY <1>2, <1>6
<1> QED BY <1>5, <1>6

\* The signals that scores and floors read are numbers.
LEMMA SignalFacts ==
  ASSUME NEW g, IsGraph(g), NEW r \in AllRelations, NEW s
  PROVE  LET c == Signals(g, r, s)
         IN /\ c.mandatory \in Int /\ c.mechanism \in Int /\ c.facet \in Int
            /\ c.unresolved \in Int /\ c.disagreement \in Int /\ c.gate \in {0, Unit}
            /\ c.rivalry \in Int
            /\ c.mandatory = 0 => Mandatory(r) \subseteq ExecutedViews(s)
            /\ c.unresolved = 0 => \A k \in Active(g) : ~Open(g, k)
<1> DEFINE c == Signals(g, r, s)
<1>1. /\ c.mandatory = Gap(Mandatory(r), ExecutedViews(s))
      /\ c.mechanism = Gap(AcquisitionGroups(r), ExecutedGroups(r, s))
      /\ c.facet = Gap(FacetsOf(r, Looks(r)), FacetsOf(r, ExecutedViews(s)))
      /\ c.unresolved = Pressure(g, r)
      /\ c.disagreement = Max({0} \cup {Disagrees(g, k) : k \in Active(g)})
      /\ c.gate = IF GateIsOpen(g, r) THEN Unit ELSE 0
      /\ c.rivalry = IF ContractOf(r).program = "NULL_SINGLE" THEN Rivalry(g, r) ELSE 0
  BY DEF Signals
<1> HIDE DEF c
<1>2. c.mandatory \in Int /\ (c.mandatory = 0 => Mandatory(r) \subseteq ExecutedViews(s))
  BY <1>1, LooksFacts, GapFacts
<1>3. c.mechanism \in Int /\ c.facet \in Int
  BY <1>1, AcquisitionIsFinite, FacetsAreFinite, GapFacts
<1>4. c.unresolved \in Int /\ (c.unresolved = 0 => \A k \in Active(g) : ~Open(g, k))
  BY <1>1, PressureFacts
<1>5. c.disagreement \in Int
  <2> DEFINE f == [k \in Active(g) |-> Disagrees(g, k)]
  <2>1. IsFiniteSet(Active(g)) /\ DOMAIN f = Active(g) /\ \A k \in Active(g) : f[k] \in Int
    BY ActiveFacts, DisagreesIsANumber
  <2>2. {f[k] : k \in Active(g)} = {Disagrees(g, k) : k \in Active(g)}
    OBVIOUS
  <2> HIDE DEF f
  <2>3. Max({0} \cup {f[k] : k \in Active(g)}) \in Int
    BY <2>1, MaxOfImage
  <2> QED BY <1>1, <2>2, <2>3
<1>6. c.gate \in {0, Unit} /\ c.rivalry \in Int
  BY <1>1, RivalryIsANumber
<1> QED BY <1>2, <1>3, <1>4, <1>5, <1>6 DEF c

-----------------------------------------------------------------------------
(* Choices *)

\* A legal action is what it says, about a key that is held.
LEMMA LegalFacts ==
  ASSUME NEW g, IsGraph(g), NEW r \in AllRelations, NEW s, NEW available,
         NEW a \in Legal(g, r, s, available)
  PROVE  /\ a = Act(a.type, a.view, a.key) /\ a.view \in Int /\ a.key \in Int
         /\ \/ a.type \in {"RUN_VIEW", "RUN_FACET"}
            \/ a.type \in Awaiting \cup {"REVERSE_CHECK"} /\ a.key \in Keys
            \/ a.type = "CROSS_MODEL_CHECK" /\ a.view = 0 /\ a.key = 0 /\ available
<1>0. Looks(r) \subseteq Int /\ Active(g) \subseteq Keys /\ Active(g) \subseteq Int
  BY LooksFacts, ActiveFacts
<1>1. CASE a \in ViewActions(r, s)
  BY <1>0, <1>1 DEF ViewActions, Act
<1>2. CASE a \in ReverseActions(g, r)
  <2>1. PICK i \in InGroup(r, "reverse"), k \in Active(g) : a = Act("REVERSE_CHECK", i, k)
    BY <1>2 DEF ReverseActions
  <2>2. i \in Looks(r)
    BY DEF InGroup
  <2> QED BY <1>0, <2>1, <2>2 DEF Act
<1>3. CASE a \in CheckActions(g)
  <2>1. PICK k \in Active(g) : g.tier[k] \in Awaiting /\ a = Act(g.tier[k], 0, k)
    BY <1>3 DEF CheckActions, Unverified
  <2> QED BY <1>0, <2>1 DEF Act
<1>4. CASE a \in RecallActions(g, available)
  <2>1. available /\ a = Act("CROSS_MODEL_CHECK", 0, 0)
    BY <1>4 DEF RecallActions, When
  <2> QED BY <2>1 DEF Act
<1> QED BY <1>1, <1>2, <1>3, <1>4 DEF Legal

LEMMA YieldIsANumber ==
  ASSUME NEW a, NEW s, s.outcomes \in Seq(Outcomes)
  PROVE  ExpectedYield(a, s) \in Int
<1> DEFINE runs == {i \in DOMAIN s.outcomes : ~s.outcomes[i].check}
<1>1. IsFiniteSet(DOMAIN s.outcomes)
  <2>1. DOMAIN s.outcomes = 1..Len(s.outcomes) /\ Len(s.outcomes) \in Nat
    OBVIOUS
  <2> QED BY <2>1, FS_Interval
<1>2. IsFiniteSet(runs) /\ IsFiniteSet(runs \cap Productive(s.outcomes))
  BY <1>1, FS_Subset
<1> HIDE DEF runs
<1>3. /\ Cardinality(runs) \in Nat /\ (runs # {} => Cardinality(runs) # 0)
      /\ Cardinality(runs \cap Productive(s.outcomes)) \in Nat
  BY <1>2, FS_CardinalityType, FS_EmptySet
<1>4. runs # {} => Part(Cardinality(runs \cap Productive(s.outcomes)), Cardinality(runs)) \in Int
  BY <1>3 DEF Part, Unit
<1>5. ExpectedYield(a, s) = IF a.view \notin ExecutedViews(s) \/ runs = {} THEN Unit \div 2
        ELSE Part(Cardinality(runs \cap Productive(s.outcomes)), Cardinality(runs))
  BY DEF ExpectedYield, runs
<1>6. Unit \div 2 \in Int
  BY DEF Unit
<1> QED BY <1>4, <1>5, <1>6

LEMMA ImpactIsANumber ==
  ASSUME NEW g, IsGraph(g), NEW r \in AllRelations, NEW k \in Keys, NEW c, c.unresolved \in Int
  PROVE  Impact(g, r, k, c) \in Int
<1> DEFINE U == When(Contradicted(g, k), Unit)
           V == When(g.tier[k] = "ADVERSARIAL_VERIFY", c.unresolved)
           S == {Q(g, r, k), Disagrees(g, k)} \cup U \cup V
<1>1. Q(g, r, k) \in Int /\ Disagrees(g, k) \in Int
  BY CoverageIsANumber, DisagreesIsANumber DEF Q
<1>2. IsFiniteSet(U) /\ U \subseteq Int /\ IsFiniteSet(V) /\ V \subseteq Int
  <2>1. \A x \in Int, b \in BOOLEAN : IsFiniteSet(When(b, x)) /\ When(b, x) \subseteq Int
    BY FS_EmptySet, FS_Singleton DEF When
  <2>2. Unit \in Int
    BY DEF Unit
  <2>3. Contradicted(g, k) \in BOOLEAN /\ (g.tier[k] = "ADVERSARIAL_VERIFY") \in BOOLEAN
    BY DEF Contradicted
  <2> QED BY <2>1, <2>2, <2>3
<1>3. IsFiniteSet({Q(g, r, k), Disagrees(g, k)})
  <2>1. IsFiniteSet({Q(g, r, k)}) /\ IsFiniteSet({Disagrees(g, k)})
    BY FS_Singleton
  <2>2. {Q(g, r, k), Disagrees(g, k)} = {Q(g, r, k)} \cup {Disagrees(g, k)}
    OBVIOUS
  <2> QED BY <2>1, <2>2, FS_Union
<1> HIDE DEF U, V
<1>4. IsFiniteSet(S) /\ S \subseteq Int /\ S # {}
  <2>1. IsFiniteSet({Q(g, r, k), Disagrees(g, k)} \cup U)
    BY <1>2, <1>3, FS_Union
  <2>2. IsFiniteSet(S)
    BY <1>2, <2>1, FS_Union
  <2> QED BY <1>1, <1>2, <2>2
<1>5. Impact(g, r, k, c) = Min({Unit, Max(S)})
  BY DEF Impact, U, V
<1> HIDE DEF S
<1>6. Max(S) \in S
  BY <1>4, MaxMinFacts
<1>7. Max(S) \in Int
  BY <1>4, <1>6
<1>8. Unit \in Int
  BY DEF Unit
<1> QED BY <1>5, <1>7, <1>8, MinOfTwo

LEMMA ActionScoreIsANumber ==
  ASSUME NEW g, IsGraph(g), NEW r \in AllRelations, NEW s, s.outcomes \in Seq(Outcomes),
         NEW c, c.mechanism \in Int, c.facet \in Int, c.unresolved \in Int,
         NEW available, NEW a \in Legal(g, r, s, available)
  PROVE  ActionScore(a, g, r, s, c) \in Int
<1>1. ExpectedYield(a, s) \in Int
  BY YieldIsANumber
<1>2. Redundancy(a, r, s) \in Int
  BY DEF Redundancy, Unit
<1>3. CASE a.type \in {"RUN_VIEW", "RUN_FACET"}
  <2>1. GapRelevance(a, r, c) \in Int
    <3>1. (8 * c.facet) \div 10 \in Int /\ (8 * c.mechanism) \div 10 \in Int /\ Unit \in Int
      BY DEF Unit
    <3> QED BY <3>1 DEF GapRelevance
  <2>2. ActionScore(a, g, r, s, c) = ViewScore(a, g, r, s, c)
    BY <1>3 DEF ActionScore, Awaiting
  <2> QED BY <1>1, <1>2, <2>1, <2>2 DEF ViewScore
<1>4. CASE a.type = "REVERSE_CHECK" /\ a.key \in Keys
  <2>1. Q(g, r, a.key) \in Int /\ Impact(g, r, a.key, c) \in Int
    BY <1>4, CoverageIsANumber, ImpactIsANumber DEF Q
  <2>2. ActionScore(a, g, r, s, c) = ReverseScore(a, g, r, s, c)
    BY <1>4 DEF ActionScore, Awaiting
  <2> QED BY <1>1, <1>2, <2>1, <2>2 DEF ReverseScore, Unit
<1>5. CASE a.type \in Awaiting /\ a.key \in Keys
  <2> DEFINE i == Impact(g, r, a.key, c)
             m == IF a.type = "VERIFY" THEN i ELSE Min({Unit, i + 2000})
  <2>1. i \in Int
    BY <1>5, ImpactIsANumber
  <2> HIDE DEF i
  <2>2. m \in Int
    BY <2>1, MinOfTwo DEF Unit
  <2>3. ActionScore(a, g, r, s, c) = CheckScore(a, g, r, s, c)
    BY <1>5 DEF ActionScore, Awaiting
  <2>4. CheckScore(a, g, r, s, c) =
          (8 * m) \div 10 + c.unresolved - (IF a.type = "VERIFY" THEN 1500 ELSE 3000)
            + (IF c.unresolved >= Unit \div 2 THEN Unit \div 2 ELSE 0)
    BY DEF CheckScore, i
  <2> HIDE DEF m
  <2> QED BY <2>2, <2>3, <2>4 DEF Unit
<1>6. CASE a.type = "CROSS_MODEL_CHECK"
  <2>1. ActionScore(a, g, r, s, c) = RecallScore(a, g, r, s, c)
    BY <1>6 DEF ActionScore, Awaiting
  <2> DEFINE half == Unit \div 2
             done == IF CrossModelDone(g) THEN Unit ELSE 0
  <2>2. done \in Int /\ half \in Int
    BY DEF Unit
  <2>3. RecallScore(a, g, r, s, c) = half + c.mechanism + (8 * c.unresolved) \div 10 - 2250 - done
    BY DEF RecallScore
  <2> HIDE DEF half, done
  <2> QED BY <2>1, <2>2, <2>3
<1> QED BY <1>3, <1>4, <1>5, <1>6, LegalFacts

\* No two actions have one identity.
LEMMA IdentityFacts ==
  ASSUME NEW g, IsGraph(g), NEW r \in AllRelations, NEW s, NEW available,
         NEW a \in Legal(g, r, s, available), NEW b \in Legal(g, r, s, available),
         ~Precedes(Identity(a), Identity(b)), ~Precedes(Identity(b), Identity(a))
  PROVE  a = b
<1> DEFINE x == Identity(a)
           y == Identity(b)
<1>1. ASSUME NEW d \in Legal(g, r, s, available)
      PROVE  TypeRank(d) \in 1..6 /\ Types[TypeRank(d)] = d.type
  <2>1. DOMAIN Types = 1..6
    BY DEF Types
  <2>2. \E i \in 1..6 : Types[i] = d.type
    <3>1. d.type \in {"ADVERSARIAL_VERIFY", "CROSS_MODEL_CHECK", "REVERSE_CHECK", "RUN_FACET",
                      "RUN_VIEW", "VERIFY"}
      BY LegalFacts DEF Awaiting
    <3>2. /\ Types[1] = "ADVERSARIAL_VERIFY" /\ Types[2] = "CROSS_MODEL_CHECK"
          /\ Types[3] = "REVERSE_CHECK" /\ Types[4] = "RUN_FACET"
          /\ Types[5] = "RUN_VIEW" /\ Types[6] = "VERIFY"
      BY DEF Types
    <3>3. 1 \in 1..6 /\ 2 \in 1..6 /\ 3 \in 1..6 /\ 4 \in 1..6 /\ 5 \in 1..6 /\ 6 \in 1..6
      OBVIOUS
    <3> QED BY <3>1, <3>2, <3>3
  <2> QED BY <2>1, <2>2 DEF TypeRank
<1>2. /\ x[1] = TypeRank(a) /\ x[2] = a.view /\ x[3] = a.key
      /\ y[1] = TypeRank(b) /\ y[2] = b.view /\ y[3] = b.key
  BY DEF Identity
<1>3. /\ x[1] \in Int /\ x[2] \in Int /\ x[3] \in Int
      /\ y[1] \in Int /\ y[2] \in Int /\ y[3] \in Int
  BY <1>1, <1>2, LegalFacts
<1> HIDE DEF x, y
<1>4. \A u, v : Precedes(u, v) <=> \/ u[1] < v[1]
                                   \/ u[1] = v[1] /\ u[2] < v[2]
                                   \/ u[1] = v[1] /\ u[2] = v[2] /\ u[3] < v[3]
  <2> TAKE u, v
  <2>1. 1..(1 - 1) = {} /\ 1..(2 - 1) = {1} /\ 1..(3 - 1) = {1, 2} /\ 1..3 = {1, 2, 3}
    OBVIOUS
  <2>2. Precedes(u, v) <=> \E i \in {1, 2, 3} : u[i] < v[i] /\ \A j \in 1..(i - 1) : u[j] = v[j]
    BY <2>1 DEF Precedes
  <2> QED BY <2>1, <2>2
<1>5. x[1] = y[1] /\ x[2] = y[2] /\ x[3] = y[3]
  <2>1. ~Precedes(x, y) /\ ~Precedes(y, x)
    BY DEF x, y
  <2> QED BY <1>3, <1>4, <2>1
<1>6. a.type = b.type /\ a.view = b.view /\ a.key = b.key
  BY <1>1, <1>2, <1>5
<1> QED BY <1>6, LegalFacts

\* The best of what is legal is one, and is still the best of less.
LEMMA BestIsOne ==
  ASSUME NEW g, IsGraph(g), NEW r \in AllRelations, NEW s, s.outcomes \in Seq(Outcomes),
         NEW c, c.mechanism \in Int, c.facet \in Int, c.unresolved \in Int,
         NEW available, NEW L, L \subseteq Legal(g, r, s, available),
         NEW a \in Best([x \in Legal(g, r, s, available) |-> ActionScore(x, g, r, s, c)]), a \in L,
         NEW b \in Best([x \in L |-> ActionScore(x, g, r, s, c)])
  PROVE  a = b
<1> DEFINE M == Legal(g, r, s, available)
           at == [x \in M |-> ActionScore(x, g, r, s, c)]
<1>1. \A x \in M : at[x] \in Int
  BY ActionScoreIsANumber
<1>2. a \in M /\ b \in M /\ b \in L
  BY DEF Best
<1>3. at[b] < at[a] \/ (at[b] = at[a] /\ ~Precedes(Identity(a), Identity(b)))
  BY <1>2 DEF Best
<1>4. at[a] < at[b] \/ (at[a] = at[b] /\ ~Precedes(Identity(b), Identity(a)))
  <2> DEFINE under == [x \in L |-> ActionScore(x, g, r, s, c)]
  <2>1. under[a] < under[b] \/ (under[a] = under[b] /\ ~Precedes(Identity(b), Identity(a)))
    BY DEF Best
  <2>2. under[a] = at[a] /\ under[b] = at[b]
    BY <1>2
  <2> HIDE DEF under, at
  <2> QED BY <2>1, <2>2
<1> HIDE DEF at
<1>5. ~Precedes(Identity(a), Identity(b)) /\ ~Precedes(Identity(b), Identity(a))
  BY <1>1, <1>2, <1>3, <1>4
<1> QED BY <1>2, <1>5, IdentityFacts

-----------------------------------------------------------------------------
(* A query that was left is not taken up again without a reason *)

\* PlannedCalls and what NextChoice offers, of a state that is given.
Planned(a, r, controls) ==
  IF a.type \in Awaiting
  THEN LET templates == BlindTemplates(a.type)
       IN Len(templates) + ControlCallsNeeded(controls, Range(templates))
  ELSE IF a.view \in InGroup(r, "description") THEN 2 ELSE 1

\* There is nothing to do, or nothing that the calls left can pay.
Blocked(g, r, s, recall, controls, left) ==
  LET c == Signals(g, r, s)
      legal == Legal(g, r, s, recall)
  IN \/ ShouldStop(g, r, s, c)
     \/ legal = {}
     \/ \A a \in Best([x \in legal |-> ActionScore(x, g, r, s, c)]) : Planned(a, r, controls) > left

RecallIsLeft(g) == cross /\ ~CrossModelDone(g)
Untouched(g) == \A k \in g.held : g.status[k] # "REJECTED"

ReopenInv ==
  /\ ReopensForAReason
  /\ /\ phase = "regate" \/ (phase = "verify" /\ steps = 0 /\ action = Idle)
     /\ why["enumerate"] # "limit" /\ Untouched(graph)
     => Blocked(Tiered(graph, relation), relation, rcse, RecallIsLeft(graph), warm, CallsLeft)

\* A loop that leaves a query with calls in hand leaves nothing that the next
\* would choose: all it may do no more is the recall, which costs one call.
LEMMA LeavingBlocks ==
  ASSUME Shapes, phase = "enumerate", ~Exhausted, NEW g, IsGraph(g),
         NEW choice \in NextChoice(g, Signals(g, relation, rcse)),
         \/ choice = Idle
         \/ PlannedCalls(choice) > CallsLeft
  PROVE  Blocked(g, relation, rcse, RecallIsLeft(g), warm, CallsLeft)
<1> DEFINE c == Signals(g, relation, rcse)
           legal == Legal(g, relation, rcse, MayRecall(g))
           later == Legal(g, relation, rcse, RecallIsLeft(g))
           scored == [x \in legal |-> ActionScore(x, g, relation, rcse, c)]
<1>0. /\ relation \in AllRelations /\ rcse.outcomes \in Seq(Outcomes)
      /\ c.mechanism \in Int /\ c.facet \in Int /\ c.unresolved \in Int
  BY QueriesAreOfTheTask, SignalFacts DEF Shapes
<1>1. RecallIsLeft(g) => MayRecall(g)
  BY DEF MayRecall, RecallIsLeft
<1>2. \/ ShouldStop(g, relation, rcse, c) \/ legal = {}
      \/ choice \in Best(scored)
  BY DEF NextChoice
<1>3. \A a \in legal : a \in later \/ a = Act("CROSS_MODEL_CHECK", 0, 0)
  BY DEF Legal, RecallActions, When
<1>4. later \subseteq legal
  BY <1>1 DEF Legal, RecallActions, When
<1>5. CASE ShouldStop(g, relation, rcse, c) \/ legal = {}
  BY <1>4, <1>5 DEF Blocked
<1>6. CASE choice \in Best(scored) /\ choice = Idle
  <2>1. choice \in legal
    BY <1>6 DEF Best
  <2>2. choice.type # "STOP"
    BY <1>0, <2>1, LegalFacts DEF Awaiting
  <2> QED BY <1>6, <2>2 DEF Idle, Act
<1>7. CASE choice \in Best(scored) /\ PlannedCalls(choice) > CallsLeft
  <2>1. choice \in legal
    BY <1>7 DEF Best
  <2>2. CallsLeft \in Int /\ CallsLeft >= 1
    <3>1. budget.calls \in Int /\ CallCeiling(relation) \in Int
      BY <1>0, CeilingIsANumber DEF Shapes
    <3>2. ~(budget.calls >= CallCeiling(relation))
      BY DEF Exhausted
    <3> QED BY <3>1, <3>2 DEF CallsLeft
  <2>3. PlannedCalls(Act("CROSS_MODEL_CHECK", 0, 0)) = 1
    <3>1. 0 \notin InGroup(relation, "description")
      BY <1>0, LooksFacts DEF InGroup
    <3> QED BY <3>1 DEF PlannedCalls, Act, Awaiting
  <2>4. choice \in later
    BY <1>3, <1>7, <2>1, <2>2, <2>3
  <2>5. \A a \in Best([x \in later |-> ActionScore(x, g, relation, rcse, c)]) : a = choice
    BY <1>0, <1>4, <1>7, <2>4, BestIsOne
  <2>6. Planned(choice, relation, warm) = PlannedCalls(choice)
    BY DEF Planned, PlannedCalls
  <2> QED BY <1>7, <2>5, <2>6 DEF Blocked
<1> QED BY <1>2, <1>5, <1>6, <1>7

\* Two graphs that only the gate tells apart.
SameEvidence(g, h) ==
  /\ h.held = g.held /\ h.edges = g.edges /\ h.verdicts = g.verdicts
  /\ h.status = g.status /\ h.tier = g.tier

LEMMA SameReadings ==
  ASSUME NEW g, NEW h, SameEvidence(g, h)
  PROVE  /\ Active(h) = Active(g)
         /\ \A r, k : Support(h, r, k) = Support(g, r, k)
         /\ \A k : Contradicted(h, k) = Contradicted(g, k)
         /\ \A k : DisagreementTerm(h, k) = DisagreementTerm(g, k)
         /\ \A r, k : Q(h, r, k) = Q(g, r, k)
         /\ \A k : Disagrees(h, k) = Disagrees(g, k)
         /\ \A r, k : Score(h, r, k) = Score(g, r, k)
         /\ \A k : Open(h, k) = Open(g, k)
         /\ CrossModelDone(h) = CrossModelDone(g)
         /\ Unverified(h) = Unverified(g)
         /\ \A r, s, available : Legal(h, r, s, available) = Legal(g, r, s, available)
<1>0. /\ h.held = g.held /\ h.edges = g.edges /\ h.verdicts = g.verdicts
      /\ h.status = g.status /\ h.tier = g.tier
  BY DEF SameEvidence
<1>1. Active(h) = Active(g)
  BY <1>0 DEF Active
<1>2. \A k, sign : Groups(h, k, sign) = Groups(g, k, sign)
  BY <1>0 DEF Groups
<1>3. \A r, k : Support(h, r, k) = Support(g, r, k)
  BY <1>2 DEF Support, SupportingGroups
<1>4. \A k : Contradicted(h, k) = Contradicted(g, k)
  BY <1>0 DEF Contradicted
<1>5. \A k : DisagreementTerm(h, k) = DisagreementTerm(g, k)
  BY <1>0 DEF DisagreementTerm
<1>6. \A r, k : CoverageQ(h, r, k) = CoverageQ(g, r, k)
  BY <1>3 DEF CoverageQ
<1>7. \A r, k : Q(h, r, k) = Q(g, r, k)
  BY <1>6 DEF Q
<1>8. \A k : Disagrees(h, k) = Disagrees(g, k)
  BY <1>5 DEF Disagrees
<1>9. \A r, k : Score(h, r, k) = Score(g, r, k)
  <2>1. \A k : LogitTerm(h, k) = LogitTerm(g, k)
    BY <1>0 DEF LogitTerm, LatestVerdict
  <2>2. \A k : CrossModelTerm(h, k) = CrossModelTerm(g, k)
    BY <1>0 DEF CrossModelTerm
  <2>3. \A r, k : ContradictionTerm(h, r, k) = ContradictionTerm(g, r, k)
    BY <1>2 DEF ContradictionTerm
  <2> QED BY <1>5, <1>6, <2>1, <2>2, <2>3 DEF Score
<1>10. \A k : Open(h, k) = Open(g, k)
  BY <1>0 DEF Open
<1>11. CrossModelDone(h) = CrossModelDone(g)
  BY <1>0 DEF CrossModelDone
<1>12. Unverified(h) = Unverified(g)
  BY <1>0, <1>1 DEF Unverified
<1>13. \A r, s, available : Legal(h, r, s, available) = Legal(g, r, s, available)
  <2>1. \A r : ReverseActions(h, r) = ReverseActions(g, r)
    BY <1>1, <1>2 DEF ReverseActions, HasReverse
  <2>2. CheckActions(h) = CheckActions(g)
    BY <1>0, <1>12 DEF CheckActions
  <2>3. \A available : RecallActions(h, available) = RecallActions(g, available)
    BY <1>1 DEF RecallActions
  <2> QED BY <2>1, <2>2, <2>3 DEF Legal
<1> QED BY <1>1, <1>3, <1>4, <1>5, <1>7, <1>8, <1>9, <1>10, <1>11, <1>12, <1>13

\* The gate shows in one signal.
LEMMA SameSignals ==
  ASSUME NEW g, NEW h, SameEvidence(g, h), NEW r, NEW s
  PROVE  Signals(h, r, s) =
           [Signals(g, r, s) EXCEPT !.gate = IF GateIsOpen(h, r) THEN Unit ELSE 0]
<1>1. Pressure(h, r) = Pressure(g, r)
  <2> DEFINE f(x) == [k \in Active(x) |-> IF Open(x, k) THEN 0 - Max({Unit \div 4, Q(x, r, k)}) ELSE 0]
  <2>1. f(h) = f(g)
    <3>1. Active(h) = Active(g) /\ \A k : Open(h, k) = Open(g, k) /\ Q(h, r, k) = Q(g, r, k)
      BY SameReadings
    <3> QED BY <3>1
  <2>2. \A x : Pressure(x, r) = 0 - MeanOf(f(x))
    BY DEF Pressure
  <2> HIDE DEF f
  <2> QED BY <2>1, <2>2
<1>2. Max({0} \cup {Disagrees(h, k) : k \in Active(h)}) = Max({0} \cup {Disagrees(g, k) : k \in Active(g)})
  <2>1. {Disagrees(h, k) : k \in Active(h)} = {Disagrees(g, k) : k \in Active(g)}
    BY SameReadings
  <2> QED BY <2>1
<1>3. MeanOf([k \in Active(h) |-> InclusionEntropy(h, r, k)])
        = MeanOf([k \in Active(g) |-> InclusionEntropy(g, r, k)])
  <2>1. \A k : InclusionEntropy(h, r, k) = InclusionEntropy(g, r, k)
    BY SameReadings DEF InclusionEntropy
  <2>2. [k \in Active(h) |-> InclusionEntropy(h, r, k)] = [k \in Active(g) |-> InclusionEntropy(g, r, k)]
    BY <2>1, SameReadings
  <2> QED BY <2>2
<1>4. ClustersOf(h, r) = ClustersOf(g, r)
  <2>1. [k \in Active(h) |-> ValueOf[k]] = [k \in Active(g) |-> ValueOf[k]]
    BY SameReadings
  <2>2. [k \in Active(h) |-> Weight(h, r, k)] = [k \in Active(g) |-> Weight(g, r, k)]
    <3>1. \A k : Weight(h, r, k) = Weight(g, r, k)
      BY SameReadings DEF Weight
    <3> QED BY <3>1, SameReadings
  <2> QED BY <2>1, <2>2 DEF ClustersOf, Weighted
<1>5. Rivalry(h, r) = Rivalry(g, r)
  <2> DEFINE rivalry(A, scores) ==
               LET best == Max({0} \cup Range(scores))
                   first == CHOOSE k \in A : scores[k] = best
               IN IF best = 0 THEN 0
                  ELSE Max({0} \cup {Part(scores[k], best) : k \in A \ {first}})
  <2>1. [k \in Active(h) |-> Score(h, r, k)] = [k \in Active(g) |-> Score(g, r, k)]
    BY SameReadings
  <2>2. Active(h) = Active(g)
    BY SameReadings
  <2>3. \A x : Rivalry(x, r) = rivalry(Active(x), [k \in Active(x) |-> Score(x, r, k)])
    BY DEF Rivalry
  <2> HIDE DEF rivalry
  <2> QED BY <2>1, <2>2, <2>3
<1> DEFINE signals(pressure, disagreement, inclusion, clusters, rivalry, gate) ==
             [mandatory |-> Gap(Mandatory(r), ExecutedViews(s)),
              mechanism |-> Gap(AcquisitionGroups(r), ExecutedGroups(r, s)),
              facet |-> Gap(FacetsOf(r, Looks(r)), FacetsOf(r, ExecutedViews(s))),
              unresolved |-> pressure, yield |-> MarginalYield(s),
              unsaturated |-> Unit - Saturation(s), instability |-> Unit - Stability(s),
              disagreement |-> disagreement, inclusion |-> inclusion,
              dispersion |-> Dispersion(clusters), competition |-> Competition(clusters),
              gate |-> gate,
              rivalry |-> IF ContractOf(r).program = "NULL_SINGLE" THEN rivalry ELSE 0]
           all(x, gate) ==
             signals(Pressure(x, r), Max({0} \cup {Disagrees(x, k) : k \in Active(x)}),
                     MeanOf([k \in Active(x) |-> InclusionEntropy(x, r, k)]),
                     IF IsNumberRelation(r) THEN ClustersOf(x, r) ELSE {}, Rivalry(x, r), gate)
<1>6. \A x : Signals(x, r, s) = all(x, IF GateIsOpen(x, r) THEN Unit ELSE 0)
  BY DEF Signals
<1>7. \A a, b, c, d, e, u, v : [signals(a, b, c, d, e, u) EXCEPT !.gate = v] = signals(a, b, c, d, e, v)
  OBVIOUS
<1> HIDE DEF signals
<1>8. \A v : all(h, v) = all(g, v)
  BY <1>1, <1>2, <1>3, <1>4, <1>5
<1>9. \A x, u, v : [all(x, u) EXCEPT !.gate = v] = all(x, v)
  BY <1>7
<1> HIDE DEF all
<1> QED BY <1>6, <1>8, <1>9

LEMMA SameScores ==
  ASSUME NEW g, NEW h, SameEvidence(g, h), NEW r, NEW s, NEW c, NEW d,
         d.mechanism = c.mechanism, d.facet = c.facet, d.unresolved = c.unresolved, NEW a
  PROVE  ActionScore(a, h, r, s, d) = ActionScore(a, g, r, s, c)
<1>1. ViewScore(a, h, r, s, d) = ViewScore(a, g, r, s, c)
  BY DEF ViewScore, GapRelevance
<1>2. \A k : Impact(h, r, k, d) = Impact(g, r, k, c)
  <2>1. h.tier = g.tier
    BY DEF SameEvidence
  <2> QED BY <2>1, SameReadings DEF Impact
<1>3. ReverseScore(a, h, r, s, d) = ReverseScore(a, g, r, s, c)
  BY <1>2, SameReadings DEF ReverseScore
<1>4. CheckScore(a, h, r, s, d) = CheckScore(a, g, r, s, c)
  <2>1. Impact(h, r, a.key, d) = Impact(g, r, a.key, c)
    BY <1>2
  <2> QED BY <2>1 DEF CheckScore
<1>5. RecallScore(a, h, r, s, d) = RecallScore(a, g, r, s, c)
  BY SameReadings DEF RecallScore
<1> QED BY <1>1, <1>3, <1>4, <1>5 DEF ActionScore

LEMMA SameTiers ==
  ASSUME NEW g, IsGraph(g), NEW h, IsGraph(h), SameEvidence(g, h), NEW r
  PROVE  SameEvidence(Tiered(g, r), Tiered(h, r))
<1>1. \A k : AssignTier(h, r, k) = AssignTier(g, r, k)
  <2>1. h.status = g.status
    BY DEF SameEvidence
  <2> QED BY <2>1, SameReadings DEF AssignTier
<1>2. \A x : IsGraph(x) => Tiered(x, r).tier =
                [k \in Keys |-> IF k \in Active(x) THEN AssignTier(x, r, k) ELSE x.tier[k]]
  BY DEF Tiered, IsGraph, GraphShape
<1>3. Tiered(h, r).tier = Tiered(g, r).tier
  <2>1. Active(h) = Active(g) /\ h.tier = g.tier
    BY SameReadings DEF SameEvidence
  <2> DEFINE t(x) == [k \in Keys |-> IF k \in Active(x) THEN AssignTier(x, r, k) ELSE x.tier[k]]
  <2>2. t(h) = t(g)
    BY <1>1, <2>1, Zenon
  <2>3. Tiered(h, r).tier = t(h) /\ Tiered(g, r).tier = t(g)
    BY <1>2
  <2> QED BY <2>2, <2>3
<1> QED BY <1>3, TieredFacts DEF SameEvidence

-----------------------------------------------------------------------------
(* Residuals *)

LEMMA SumIsPositive ==
  ASSUME NEW f, NEW S, IsFiniteSet(S), S # {}, \A x \in S : f[x] \in Int /\ f[x] > 0
  PROVE  SumFunctionOnSet(f, S) \in Int /\ SumFunctionOnSet(f, S) > 0
<1>1. PICK e \in S : TRUE
  OBVIOUS
<1>2. \A x \in S : f[x] \in Int
  OBVIOUS
<1>3. SumFunctionOnSet(f, S) = f[e] + SumFunctionOnSet(f, S \ {e})
  BY <1>2, SumAdds
<1> DEFINE T == S \ {e}
<1>4. IsFiniteSet(T) /\ (\A x \in T : f[x] \in Int) /\ (\A x \in T : f[x] >= 0)
  BY FS_Subset
<1> HIDE DEF T
<1>5. SumFunctionOnSet(f, T) \in Int /\ SumFunctionOnSet(f, T) >= 0
  BY <1>4, SumSign
<1> QED BY <1>3, <1>5 DEF T

LEMMA BalanceIsANumber ==
  ASSUME NEW n \in Nat \ {0}, NEW terms, DOMAIN terms = 1..n,
         \A i \in 1..n : terms[i][1] \in Nat \ {0} /\ terms[i][2] \in Int
  PROVE  Balance(terms) \in Int
<1> DEFINE f == [i \in DOMAIN terms |-> terms[i][1] * terms[i][2]]
           w == [i \in DOMAIN terms |-> terms[i][1]]
           D == 1..n
<1>1. IsFiniteSet(D) /\ 1 \in D
  BY FS_Interval
<1>2. \A i \in D : f[i] \in Int /\ w[i] \in Int /\ w[i] >= 0 /\ w[i] > 0
  OBVIOUS
<1>3. /\ SumFunction(f) = SumFunctionOnSet(f, D) /\ SumFunction(w) = SumFunctionOnSet(w, D)
      /\ Balance(terms) = SumFunction(f) \div SumFunction(w)
  BY DEF SumFunction, Balance
<1> HIDE DEF f, w, D
<1>4. SumFunctionOnSet(f, D) \in Int
  BY <1>1, <1>2, SumSign
<1>5. SumFunctionOnSet(w, D) \in Int /\ SumFunctionOnSet(w, D) > 0
  <2>1. D # {} /\ \A i \in D : w[i] \in Int /\ w[i] > 0
    BY <1>1, <1>2
  <2> QED BY <1>1, <2>1, SumIsPositive
<1> QED BY <1>3, <1>4, <1>5

\* A low residual has every floor low.
LEMMA FloorsHold ==
  ASSUME NEW b \in Int, NEW F, IsFiniteSet(F), F \subseteq Int, NEW x \in F,
         Min({Unit, Max({b} \cup F)}) < ResidualStop
  PROVE  x < ResidualStop
<1> DEFINE S == {b} \cup F
<1>1. IsFiniteSet(S)
  <2>1. IsFiniteSet({b})
    BY FS_Singleton
  <2> QED BY <2>1, FS_Union
<1>2. S \subseteq Int /\ S # {} /\ x \in S
  OBVIOUS
<1>3. Min({Unit, Max(S)}) < ResidualStop
  OBVIOUS
<1> HIDE DEF S
<1>4. Max(S) \in S /\ x <= Max(S)
  BY <1>1, <1>2, MaxMinFacts
<1>5. Max(S) \in Int /\ x \in Int
  BY <1>2, <1>4
<1>7. Unit = 10000 /\ ResidualStop = 1500
  BY DEF Unit, ResidualStop
<1>6. Min({Unit, Max(S)}) = IF Unit <= Max(S) THEN Unit ELSE Max(S)
  BY <1>5, <1>7, MinOfTwo
<1> QED BY <1>3, <1>4, <1>5, <1>6, <1>7

\* A residual is not low while the gate of a single value is open.
LEMMA OpenGateHolds ==
  ASSUME NEW g, IsGraph(g), NEW r \in AllRelations, NEW s,
         ContractOf(r).program = "NULL_SINGLE", Signals(g, r, s).gate = Unit
  PROVE  ~(Residual(r, Signals(g, r, s)) < ResidualStop)
<1> DEFINE c == Signals(g, r, s)
           terms == <<<<12, c.gate>>, <<10, c.rivalry>>, <<8, c.unresolved>>, <<8, c.mechanism>>,
                      <<6, c.disagreement>>>>
           F == {c.mandatory} \cup {c.gate, c.rivalry}
<1>1. /\ c.mandatory \in Int /\ c.mechanism \in Int /\ c.unresolved \in Int
      /\ c.disagreement \in Int /\ c.gate = Unit /\ Unit \in Int /\ c.rivalry \in Int
  BY SignalFacts DEF Unit
<1>2. Terms(r, c) = terms /\ Floors(r, c) = F
  BY DEF Terms, Floors
<1> HIDE DEF c
<1>3. Balance(terms) \in Int
  <2>1. /\ DOMAIN terms = 1..5
        /\ \A i \in 1..5 : terms[i][1] \in Nat \ {0} /\ terms[i][2] \in Int
    BY <1>1
  <2>2. 5 \in Nat \ {0}
    OBVIOUS
  <2> HIDE DEF terms
  <2> QED BY <2>1, <2>2, BalanceIsANumber
<1>4. IsFiniteSet(F) /\ F \subseteq Int /\ c.gate \in F
  <2>1. IsFiniteSet({c.mandatory}) /\ IsFiniteSet({c.gate}) /\ IsFiniteSet({c.rivalry})
    BY FS_Singleton
  <2>2. F = {c.mandatory} \cup ({c.gate} \cup {c.rivalry})
    OBVIOUS
  <2>3. IsFiniteSet({c.gate} \cup {c.rivalry})
    BY <2>1, FS_Union
  <2>4. IsFiniteSet(F)
    BY <2>1, <2>2, <2>3, FS_Union
  <2> QED BY <1>1, <2>4
<1> HIDE DEF terms, F
<1>5. ~(c.gate < ResidualStop)
  BY <1>1 DEF Unit, ResidualStop
<1>6. Residual(r, c) = Min({Unit, Max({Balance(terms)} \cup F)})
  BY <1>2 DEF Residual
<1> QED BY <1>3, <1>4, <1>5, <1>6, FloorsHold DEF c

\* Scoring the gate gives the second loop nothing to do: an open gate never let
\* the first one stop on a low residual.
LEMMA GateKeepsBlocked ==
  ASSUME NEW g, IsGraph(g), NEW h, SameEvidence(g, h), NEW r \in AllRelations, NEW s,
         h.gate # "UNSCORED", NEW recall, NEW controls, NEW left,
         Blocked(g, r, s, recall, controls, left)
  PROVE  Blocked(h, r, s, recall, controls, left)
<1> DEFINE c == Signals(g, r, s)
           d == Signals(h, r, s)
           legal == Legal(g, r, s, recall)
<1>1. d = [c EXCEPT !.gate = 0]
  <2>1. ~GateIsOpen(h, r)
    BY DEF GateIsOpen
  <2> QED BY <2>1, SameSignals
<1>2. /\ d.mandatory = c.mandatory /\ d.mechanism = c.mechanism /\ d.facet = c.facet
      /\ d.unresolved = c.unresolved /\ d.yield = c.yield /\ d.unsaturated = c.unsaturated
      /\ d.instability = c.instability /\ d.disagreement = c.disagreement
      /\ d.inclusion = c.inclusion /\ d.dispersion = c.dispersion
      /\ d.competition = c.competition /\ d.rivalry = c.rivalry /\ d.gate = 0
      /\ c.gate = 0 => d = c
  <2>1. c = [mandatory |-> c.mandatory, mechanism |-> c.mechanism, facet |-> c.facet,
             unresolved |-> c.unresolved, yield |-> c.yield, unsaturated |-> c.unsaturated,
             instability |-> c.instability, disagreement |-> c.disagreement,
             inclusion |-> c.inclusion, dispersion |-> c.dispersion,
             competition |-> c.competition, gate |-> c.gate, rivalry |-> c.rivalry]
    BY DEF Signals
  <2> HIDE DEF c, d
  <2> QED BY <1>1, <2>1
<1>3. c.gate \in {0, Unit}
  BY SignalFacts
<1>4. Active(h) = Active(g) /\ h.status = g.status /\ Unverified(h) = Unverified(g)
      /\ Legal(h, r, s, recall) = legal
  BY SameReadings DEF SameEvidence
<1>5. [x \in legal |-> ActionScore(x, h, r, s, d)] = [x \in legal |-> ActionScore(x, g, r, s, c)]
  BY <1>2, SameScores
<1> HIDE DEF c, d
<1>6. ShouldStop(g, r, s, c) => ShouldStop(h, r, s, d)
  <2> SUFFICES ASSUME ShouldStop(g, r, s, c) PROVE ShouldStop(h, r, s, d)
    OBVIOUS
  <2>1. CASE Settled(g, r, s, c)
    BY <1>2, <1>4, <2>1 DEF ShouldStop, Settled
  <2>2. CASE Unverified(g) = {} /\ Residual(r, c) < ResidualStop
    <3>1. Residual(r, d) = Residual(r, c)
      <4>1. CASE c.gate = 0
        BY <1>2, <4>1
      <4>2. CASE c.gate = Unit /\ ContractOf(r).program = "NULL_SINGLE"
        BY <2>2, <4>2, OpenGateHolds DEF c
      <4>3. CASE ContractOf(r).program # "NULL_SINGLE"
        <5>1. Terms(r, d) = Terms(r, c)
          BY <1>2, <4>3 DEF Terms
        <5>2. Floors(r, d) = Floors(r, c)
          BY <1>2, <4>3 DEF Floors
        <5> QED BY <5>1, <5>2 DEF Residual
      <4> QED BY <1>3, <4>1, <4>2, <4>3
    <3> QED BY <1>2, <1>4, <2>2, <3>1 DEF ShouldStop
  <2> QED BY <2>1, <2>2 DEF ShouldStop
<1> HIDE DEF legal
<1>7. \/ ShouldStop(g, r, s, c)
      \/ legal = {}
      \/ \A a \in Best([x \in legal |-> ActionScore(x, g, r, s, c)]) : Planned(a, r, controls) > left
  BY DEF Blocked, c, legal
<1>8. Blocked(h, r, s, recall, controls, left)
        <=> \/ ShouldStop(h, r, s, d)
            \/ legal = {}
            \/ \A a \in Best([x \in legal |-> ActionScore(x, h, r, s, d)]) : Planned(a, r, controls) > left
  BY <1>4 DEF Blocked, d
<1> QED BY <1>5, <1>6, <1>7, <1>8

-----------------------------------------------------------------------------
(* The second loop *)

LEMMA LeftIsANumber ==
  ASSUME Shapes
  PROVE  CallsLeft \in Int /\ relation \in AllRelations
<1>1. relation \in AllRelations
  BY QueriesAreOfTheTask DEF Shapes
<1> QED BY <1>1, CeilingIsANumber DEF Shapes, CallsLeft

\* What a blocked query would be offered cannot be chosen.
LEMMA BlockedDoesNotChoose ==
  ASSUME Shapes, phase = "verify", NEW g, NEW choice,
         Blocked(g, relation, rcse, RecallIsLeft(g), warm, CallsLeft)
  PROVE  ~Chooses(g, Signals(g, relation, rcse), choice)
<1> SUFFICES ASSUME Chooses(g, Signals(g, relation, rcse), choice) PROVE FALSE
  OBVIOUS
<1> DEFINE c == Signals(g, relation, rcse)
           legal == Legal(g, relation, rcse, MayRecall(g))
<1>1. choice # Idle /\ PlannedCalls(choice) <= CallsLeft /\ choice \in NextChoice(g, c)
  BY DEF Chooses
<1>2. /\ ~ShouldStop(g, relation, rcse, c) /\ legal # {}
      /\ choice \in Best([x \in legal |-> ActionScore(x, g, relation, rcse, c)])
  BY <1>1 DEF NextChoice
<1>3. legal = Legal(g, relation, rcse, RecallIsLeft(g))
  BY DEF MayRecall, RecallIsLeft
<1>4. Planned(choice, relation, warm) > CallsLeft
  BY <1>2, <1>3 DEF Blocked
<1>5. Planned(choice, relation, warm) = PlannedCalls(choice)
  BY DEF Planned, PlannedCalls
<1>6. PlannedCalls(choice) \in Nat /\ CallsLeft \in Int
  BY CallsAreAsPlanned, LeftIsANumber
<1> HIDE DEF c, legal
<1> QED BY <1>1, <1>4, <1>5, <1>6

LEMMA ReopenStep == Shapes /\ ReopenInv /\ [Next]_vars => ReopenInv'
<1> SUFFICES ASSUME Shapes, ReopenInv, [Next]_vars
             PROVE  ReopenInv'
  OBVIOUS
<1>0. IsGraph(graph) /\ relation \in AllRelations
  BY LeftIsANumber DEF Shapes
<1>1. CASE Acts
  <2>1. action' = Idle /\ phase' = phase /\ steps' # 0 /\ action # Idle
    BY <1>1, ActingKeepsShapes, ActingSpends
  <2>2. phase \in Loops
    BY <2>1 DEF Shapes
  <2>3. phase' # "regate"
    BY <2>1, <2>2 DEF Loops
  <2> QED BY <2>1, <2>3 DEF ReopenInv, ReopensForAReason
<1>2. CASE ScoreGate
  <2>1. /\ UNCHANGED <<relation, cross, rcse, warm, why>> /\ action' = action /\ action = Idle
        /\ phase \in {"gate", "regate"}
    BY <1>2 DEF ScoreGate, query, Shapes, Loops
  <2>2. ReopensForAReason'
    BY <2>1 DEF ReopensForAReason
  <2>3. CASE phase = "gate"
    <3>1. phase' \in {"done", "enumerate"}
      BY <1>2, <2>3 DEF ScoreGate
    <3> QED BY <2>2, <3>1 DEF ReopenInv
  <2>4. CASE phase = "regate"
    <3>1. PICK answer \in (IF HasGate(relation) /\ graph.gate = "UNSCORED" THEN GateAnswers
                           ELSE {"UNAVAILABLE"}) :
            graph' = [graph EXCEPT !.gate = IF answer = "UNAVAILABLE" THEN @ ELSE answer]
      BY <1>2 DEF ScoreGate
    <3> DEFINE x == IF answer = "UNAVAILABLE" THEN graph.gate ELSE answer
    <3>2. graph' = [graph EXCEPT !.gate = x]
      BY <1>0, <3>1 DEF IsGraph, GraphShape
    <3>3. graph.gate = x \/ x # "UNSCORED"
      BY GatesAreAnswered
    <3> HIDE DEF x
    <3>4. budget' = budget
      <4>1. budget' = [budget EXCEPT !.calls = @]
        BY <1>2, <2>4 DEF ScoreGate
      <4> QED BY <4>1 DEF Shapes
    <3>5. CallsLeft' = CallsLeft
      BY <2>1, <3>4 DEF CallsLeft, CallCeiling
    <3>6. CASE graph' = graph
      <4>1. RecallIsLeft(graph)' = RecallIsLeft(graph)
        BY <2>1, <3>6 DEF RecallIsLeft
      <4>2. phase = "regate" /\ why' = why
        BY <2>1, <2>4
      <4> QED BY <2>1, <2>2, <3>5, <3>6, <4>1, <4>2 DEF ReopenInv
    <3>7. CASE x # "UNSCORED"
      <4>1. PICK g : g = Tiered(graph, relation)
        OBVIOUS
      <4>2. PICK h : h = Tiered(graph', relation)
        OBVIOUS
      <4>3. /\ IsGraph(graph') /\ graph'.held = graph.held /\ graph'.edges = graph.edges
            /\ graph'.verdicts = graph.verdicts /\ graph'.status = graph.status
            /\ graph'.tier = graph.tier /\ graph'.gate = x
        BY <1>0, <3>2, GateKeepsGraph
      <4>4. SameEvidence(graph, graph')
        BY <4>3 DEF SameEvidence
      <4>5. SameEvidence(g, h) /\ h.gate = x /\ IsGraph(g)
        BY <1>0, <4>1, <4>2, <4>3, <4>4, TieredFacts, SameTiers
      <4>6. Untouched(graph)' <=> Untouched(graph)
        BY <4>3 DEF Untouched
      <4>7. RecallIsLeft(graph)' = RecallIsLeft(graph)
        BY <2>1, <4>4, SameReadings DEF RecallIsLeft
      <4>8. ASSUME why'["enumerate"] # "limit", Untouched(graph)'
            PROVE  Blocked(h, relation, rcse, RecallIsLeft(graph), warm, CallsLeft)
        <5>1. Blocked(g, relation, rcse, RecallIsLeft(graph), warm, CallsLeft)
          BY <2>1, <2>4, <4>1, <4>6, <4>8 DEF ReopenInv
        <5> QED BY <1>0, <3>7, <4>5, <5>1, GateKeepsBlocked
      <4>9. Tiered(graph, relation)' = h
        BY <2>1, <4>2
      <4>10. ASSUME why'["enumerate"] # "limit", Untouched(graph)'
             PROVE  Blocked(Tiered(graph, relation), relation, rcse, RecallIsLeft(graph), warm, CallsLeft)'
        <5>1. Blocked(h, relation, rcse, RecallIsLeft(graph), warm, CallsLeft)
          BY <4>8, <4>10
        <5>2. relation' = relation /\ rcse' = rcse /\ warm' = warm
          BY <2>1
        <5> QED BY <3>5, <4>7, <4>9, <5>1, <5>2
      <4> QED BY <2>1, <2>2, <4>10 DEF ReopenInv
    <3> QED BY <3>2, <3>3, <3>6, <3>7, <1>0, GateKeepsGraph
  <2> QED BY <2>1, <2>3, <2>4
<1>3. CASE Expire
  <2>1. /\ action' = Idle /\ phase' \in {"regate", "done"}
        /\ phase' = "regate" => why'["enumerate"] = "limit"
    BY <1>3 DEF Expire, Leave, Shapes, Loops
  <2> QED BY <2>1 DEF ReopenInv, ReopensForAReason
<1>4. CASE Decide
  <2>1. PICK g : g = Tiered(graph, relation)
    OBVIOUS
  <2> DEFINE c == Signals(g, relation, rcse)
  <2>2. /\ IsGraph(g) /\ g.held = graph.held /\ g.edges = graph.edges /\ g.status = graph.status
        /\ Tiered(g, relation) = g
    BY <1>0, <2>1, TieredFacts
  <2>3. PICK choice \in NextChoice(g, c) :
          \/ choice = Idle /\ (Leave(g, "settled") \/ Leave(g, "nothing legal"))
          \/ choice # Idle /\ PlannedCalls(choice) > CallsLeft /\ Leave(g, "unaffordable")
          \/ Chooses(g, c, choice) /\ graph' = g
    BY <1>4, <2>1, DecideFacts, Zenon
  <2>4. action = Idle /\ phase \in Loops /\ ~Exhausted
    BY <1>4, DecideFacts
  <2>5. CASE Chooses(g, c, choice) /\ graph' = g
    <3>1. /\ UNCHANGED <<relation, phase, steps, why>> /\ phase' # "regate" /\ action' # Idle
          /\ graph' = g
      BY <2>4, <2>5 DEF Chooses, query, Loops
    <3>2. ASSUME phase = "verify", steps = 0
          PROVE  why["enumerate"] = "limit" \/ ~Untouched(graph)
      <4>1. RecallIsLeft(g) = RecallIsLeft(graph)
        BY <2>2 DEF RecallIsLeft, CrossModelDone
      <4>2. ~Blocked(g, relation, rcse, RecallIsLeft(g), warm, CallsLeft)
        BY <2>5, <3>2, BlockedDoesNotChoose
      <4> QED BY <2>1, <2>4, <3>2, <4>1, <4>2 DEF ReopenInv
    <3>3. Untouched(graph) => Untouched(graph)'
      BY <2>2, <3>1 DEF Untouched
    <3>4. ~Untouched(graph) => \E k \in graph'.held : graph'.status[k] = "REJECTED"
      BY <2>2, <3>1 DEF Untouched
    <3> QED BY <3>1, <3>2, <3>4 DEF ReopenInv, ReopensForAReason
  <2>6. CASE \E reason : Leave(g, reason) /\ (choice = Idle \/ PlannedCalls(choice) > CallsLeft)
    <3>1. /\ UNCHANGED <<relation, cross, budget, rcse, warm>> /\ action' = Idle
          /\ phase = "verify" => phase' = "done"
          /\ phase = "enumerate" => phase' = "regate" /\ graph' = HardRules(g, relation)
      BY <2>4, <2>6 DEF Leave, query, Reloaded
    <3>2. CASE phase = "verify"
      BY <3>1, <3>2 DEF ReopenInv, ReopensForAReason
    <3>3. CASE phase = "enumerate"
      <4>1. Blocked(g, relation, rcse, RecallIsLeft(g), warm, CallsLeft)
        BY <2>2, <2>4, <2>6, <3>3, LeavingBlocks
      <4>2. Untouched(graph)' => graph' = g
        BY <2>2, <3>1, <3>3, HardRulesFacts DEF Untouched
      <4>3. CallsLeft' = CallsLeft
        BY <3>1 DEF CallsLeft, CallCeiling
      <4>4. ASSUME Untouched(graph)'
            PROVE  Blocked(Tiered(graph, relation), relation, rcse, RecallIsLeft(graph), warm, CallsLeft)'
        <5>1. graph' = g /\ Tiered(graph, relation)' = g
          BY <2>2, <3>1, <4>2, <4>4
        <5>2. RecallIsLeft(graph)' = RecallIsLeft(g)
          BY <3>1, <5>1 DEF RecallIsLeft
        <5> QED BY <3>1, <4>1, <4>3, <5>1, <5>2
      <4> QED BY <3>1, <3>3, <4>4 DEF ReopenInv, ReopensForAReason
    <3> QED BY <2>4, <3>2, <3>3 DEF Loops
  <2> HIDE DEF c
  <2> QED BY <2>3, <2>5, <2>6, Zenon
<1>5. CASE Finished \/ UNCHANGED vars
  <2>1. UNCHANGED <<relation, cross, graph, phase, steps, budget, rcse, action, why, warm>>
    BY <1>5 DEF Finished, vars, query
  <2>2. CallsLeft' = CallsLeft /\ RecallIsLeft(graph)' = RecallIsLeft(graph)
    BY <2>1 DEF CallsLeft, CallCeiling, RecallIsLeft
  <2> QED BY <2>1, <2>2 DEF ReopenInv, ReopensForAReason
<1> QED BY <1>1, <1>2, <1>3, <1>4, <1>5 DEF Next, Acts

\* The second loop chooses something to do only where the first ran into a
\* limit or the hard rules took a candidate from it: what the first left
\* settled, or with nothing to do or to pay, the second leaves as it is, also
\* when the gate is scored between them (pipeline.py, _adaptive_discovery,
\* _controlled_phase; state.py, RCSEState).
THEOREM ReopeningHasAReason == Spec => []ReopensForAReason
<1>1. Init => ReopenInv
  BY DEF Init, ReopenInv, ReopensForAReason
<1>2. Shapes /\ ReopenInv /\ [Next]_vars => (Shapes /\ ReopenInv)'
  BY ShapesStep, ReopenStep
<1>3. ReopenInv => ReopensForAReason
  BY DEF ReopenInv
<1> QED BY <1>1, <1>2, <1>3, ShapesInit, PTL DEF Spec

-----------------------------------------------------------------------------
(* What is settled has nothing pending *)

LEMMA NumberRelations ==
  ASSUME NEW r \in AllRelations
  PROVE  /\ IsNumberRelation(r) <=> r \in {Area, Capacity}
         /\ IsNumberRelation(r) => ContractOf(r).program = "NUMERIC"
         /\ r # Award => ContractOf(r).program # "LARGE_OPEN_SET"
<1>1. /\ ContractOf(Borders).program = "SMALL_SET" /\ ContractOf(Stock).program = "SMALL_SET"
      /\ ContractOf(Death).program = "NULL_SINGLE" /\ ContractOf(Award).program = "LARGE_OPEN_SET"
      /\ ContractOf(Area).program = "NUMERIC" /\ ContractOf(Capacity).program = "NUMERIC"
  BY DEF ContractOf, Borders, Death, Stock, Area, Capacity, Award, Contract, BordersContract,
     DeathContract, StockContract, AreaContract, CapacityContract, AwardContract
<1>2. r \in {Borders, Death, Stock, Area, Capacity, Award}
  BY DEF AllRelations
<1>3. IsNumberRelation(r) <=> r \in {Area, Capacity}
  BY <1>1, <1>2 DEF IsNumberRelation, ProgramOf, Programs, Borders, Death, Stock, Area, Capacity, Award
<1> QED BY <1>1, <1>2, <1>3

LEMMA WeightedFacts ==
  ASSUME NEW g, IsGraph(g), NEW r \in AllRelations
  PROVE  LET w == Weighted(g, r)
         IN \E N \in Nat : /\ w \in [1..N -> Active(g)]
                           /\ \A i, j \in 1..N : i <= j => ValueOf[w[i]] <= ValueOf[w[j]]
<1> DEFINE S == Active(g)
           at == [k \in S |-> ValueOf[k]]
           times == [k \in S |-> Weight(g, r, k)]
           w == Weighted(g, r)
<1>1. S \in SUBSET Int /\ IsFiniteSet(S) /\ at \in [S -> Int]
  BY ActiveFacts, QuantitiesAreMeasured
<1>2. times \in [S -> Nat]
  BY SupportFacts DEF Weight
<1>3. w = Repeated(at, times)
  BY DEF Weighted
<1>4. \A k \in S : at[k] = ValueOf[k]
  OBVIOUS
<1> HIDE DEF S, at, times, w
<1>5. PICK N \in Nat : w \in [1..N -> S] /\ \A i, j \in 1..N : i <= j => at[w[i]] <= at[w[j]]
  BY <1>1, <1>2, <1>3, RepeatedFacts
<1>6. \A i \in 1..N : w[i] \in S
  BY <1>5
<1>7. \A i, j \in 1..N : i <= j => ValueOf[w[i]] <= ValueOf[w[j]]
  BY <1>4, <1>5, <1>6
<1> QED BY <1>5, <1>7 DEF w, S

\* The clusters of a quantity are finitely many and have summaries, whatever
\* the signs of the figures.
LEMMA ClusterFacts ==
  ASSUME NEW g, IsGraph(g), NEW r \in AllRelations
  PROVE  LET C == ClustersOf(g, r)
         IN IsFiniteSet(C) /\ \A c \in C : SummaryOf(c) \in Summaries
<1> DEFINE w == Weighted(g, r)
           C == ClustersIn(w, ValueOf, Tolerance)
<1>1. PICK N \in Nat : /\ Weighted(g, r) \in [1..N -> Active(g)]
                       /\ \A i, j \in 1..N : i <= j =>
                            ValueOf[Weighted(g, r)[i]] <= ValueOf[Weighted(g, r)[j]]
  BY WeightedFacts
<1>2. IntegerValued(ValueOf, Active(g))
  BY ActiveFacts, QuantitiesAreMeasured DEF IntegerValued
<1>3. Tolerance \in Nat
  BY DEF Tolerance
<1> HIDE DEF w
<1>4. IsFiniteSet(C) /\ \A c \in C : SummaryOf(c) \in Summaries /\ c.keys \subseteq Active(g)
  <2> HIDE DEF C
  <2>1. /\ N \in Nat /\ w \in [1..N -> Active(g)]
        /\ \A i, j \in 1..N : i <= j => ValueOf[w[i]] <= ValueOf[w[j]]
    BY <1>1 DEF w
  <2> QED BY ONLY <2>1, <1>2, <1>3, ClustersInFacts, SMTT(60) DEF C
<1> QED BY <1>4 DEF ClustersOf, w

LEMMA CappedIsANumber ==
  ASSUME NEW n \in Int
  PROVE  Min({Unit, n}) \in Int
<1>1. Unit \in Int
  BY DEF Unit
<1> QED BY <1>1, MinOfTwo

\* So how far they spread, and how they compete, is numbers.
LEMMA RivalsAreNumbers ==
  ASSUME NEW C, IsFiniteSet(C), \A c \in C : SummaryOf(c) \in Summaries
  PROVE  Dispersion(C) \in Int /\ Competition(C) \in Int
<1> DEFINE top == {c \in C : \A d \in C \ {c} : Dominates(c, d)}
           rest == C \ top
           width(c) == Min({Unit, (10 * Unit * c.spread) \div Span(c)})
           share(c, d) == Min({Unit, Part(2 * d.size, c.size)})
           wide == [c \in top |-> width(c)]
           pairs == top \X rest
           near == [p \in pairs |-> share(p[1], p[2])]
           shares == {share(c, d) : c \in top, d \in rest}
<1>1. \A c \in C : c.size \in Nat \ {0} /\ Span(c) \in Nat \ {0} /\ c.spread \in Int
  BY SpanIsPositive DEF SummaryOf, Summaries
<1>2. IsFiniteSet(top) /\ IsFiniteSet(rest) /\ IsFiniteSet(pairs)
  BY FS_Subset, FS_Product
<1>3. \A c \in C : width(c) \in Int
  <2> SUFFICES ASSUME NEW c \in C PROVE width(c) \in Int
    OBVIOUS
  <2>1. (10 * Unit * c.spread) \div Span(c) \in Int
    BY <1>1 DEF Unit
  <2> QED BY <2>1, CappedIsANumber, Zenon
<1>4. \A c, d \in C : share(c, d) \in Int
  <2> SUFFICES ASSUME NEW c \in C, NEW d \in C PROVE share(c, d) \in Int
    OBVIOUS
  <2>1. Part(2 * d.size, c.size) \in Int
    BY <1>1 DEF Unit, Part
  <2> QED BY <2>1, CappedIsANumber, Zenon
<1>5. Dispersion(C) = Max({0} \cup {width(c) : c \in top})
  BY DEF Dispersion
<1>6. Competition(C) = Max({0} \cup shares)
  BY DEF Competition
<1>7. top \subseteq C /\ rest \subseteq C
  OBVIOUS
<1> HIDE DEF width, share, top, rest
<1> HIDE DEF wide, near, pairs, shares
<1>8. Dispersion(C) \in Int
  <2>1. DOMAIN wide = top /\ (\A c \in top : wide[c] \in Int) /\ \A c \in top : wide[c] = width(c)
    BY <1>3, <1>7 DEF wide
  <2>2. {wide[c] : c \in top} = {width(c) : c \in top}
    BY <2>1
  <2>3. IsFiniteSet(top) /\ DOMAIN wide = top /\ \A c \in top : wide[c] \in Int
    BY <1>2, <2>1
  <2>4. Max({0} \cup {wide[c] : c \in top}) \in Int
    BY <2>3, MaxOfImage
  <2> QED BY <1>5, <2>2, <2>4
<1>9. Competition(C) \in Int
  <2>1. DOMAIN near = pairs /\ \A p \in pairs : near[p] \in Int
    BY <1>4, <1>7 DEF near, pairs
  <2>2. {near[p] : p \in pairs} = shares
    <3>1. \A c \in top : \A d \in rest : <<c, d>> \in pairs /\ near[<<c, d>>] = share(c, d)
      BY DEF near, pairs
    <3>2. \A p \in pairs : \E c \in top : \E d \in rest : p = <<c, d>>
      BY DEF pairs
    <3>3. ASSUME NEW p \in pairs PROVE near[p] \in shares
      BY <3>1, <3>2 DEF shares
    <3>4. ASSUME NEW x \in shares PROVE \E p \in pairs : x = near[p]
      <4>1. PICK c \in top, d \in rest : x = share(c, d)
        BY DEF shares
      <4> QED BY <3>1, <4>1
    <3> QED BY <3>3, <3>4
  <2>3. IsFiniteSet(pairs) /\ DOMAIN near = pairs /\ \A p \in pairs : near[p] \in Int
    BY <1>2, <2>1
  <2>4. Max({0} \cup {near[p] : p \in pairs}) \in Int
    BY <2>3, MaxOfImage
  <2> QED BY <1>6, <2>2, <2>4
<1> QED BY <1>8, <1>9

\* A low residual has little competition.
LEMMA LowIsUncontested ==
  ASSUME NEW g, IsGraph(g), NEW r \in AllRelations, NEW s, IsNumberRelation(r),
         Residual(r, Signals(g, r, s)) < ResidualStop
  PROVE  Signals(g, r, s).competition < ResidualStop
<1> DEFINE c == Signals(g, r, s)
           terms == <<<<10, c.dispersion>>, <<10, c.competition>>, <<8, c.mechanism>>,
                      <<6, c.disagreement>>>>
           F == {c.mandatory} \cup {c.competition}
<1>1. /\ c.mandatory \in Int /\ c.mechanism \in Int /\ c.disagreement \in Int
  BY SignalFacts
<1>2. c.dispersion \in Int /\ c.competition \in Int
  <2>1. c.dispersion = Dispersion(ClustersOf(g, r)) /\ c.competition = Competition(ClustersOf(g, r))
    BY DEF Signals
  <2> QED BY <2>1, ClusterFacts, RivalsAreNumbers
<1>3. Terms(r, c) = terms /\ Floors(r, c) = F
  BY NumberRelations DEF Terms, Floors
<1> HIDE DEF c
<1>4. Balance(terms) \in Int
  <2>1. /\ DOMAIN terms = 1..4
        /\ \A i \in 1..4 : terms[i][1] \in Nat \ {0} /\ terms[i][2] \in Int
    BY <1>1, <1>2
  <2>2. 4 \in Nat \ {0}
    OBVIOUS
  <2> HIDE DEF terms
  <2> QED BY <2>1, <2>2, BalanceIsANumber
<1>5. IsFiniteSet(F) /\ F \subseteq Int /\ c.competition \in F
  <2>1. IsFiniteSet({c.mandatory}) /\ IsFiniteSet({c.competition})
    BY FS_Singleton
  <2>2. IsFiniteSet(F)
    BY <2>1, FS_Union
  <2> QED BY <1>1, <1>2, <2>2
<1> HIDE DEF terms, F
<1>6. Min({Unit, Max({Balance(terms)} \cup F)}) < ResidualStop
  BY <1>3 DEF Residual, c
<1> QED BY <1>4, <1>5, <1>6, FloorsHold DEF c

\* What the controller takes for settled, of any graph.
LEMMA StoppingLeavesNothing ==
  ASSUME NEW g, IsGraph(g), NEW r \in AllRelations, NEW s, ShouldStop(g, r, s, Signals(g, r, s))
  PROVE  /\ Mandatory(r) \subseteq ExecutedViews(s)
         /\ r # Award => Unverified(g) = {}
         /\ IsNumberRelation(r) => Competition(ClustersOf(g, r)) < ResidualStop
<1> DEFINE c == Signals(g, r, s)
<1>1. c.mandatory = 0 /\ (Settled(g, r, s, c) \/ (Unverified(g) = {} /\ Residual(r, c) < ResidualStop))
  BY DEF ShouldStop
<1>2. /\ c.mandatory = 0 => Mandatory(r) \subseteq ExecutedViews(s)
      /\ c.unresolved = 0 => \A k \in Active(g) : ~Open(g, k)
  BY SignalFacts
<1>3. ASSUME r # Award PROVE Unverified(g) = {}
  <2>1. CASE Settled(g, r, s, c)
    <3>1. c.unresolved = 0 \/ Active(g) = {}
      BY <1>3, <2>1, NumberRelations DEF Settled
    <3>2. \A k \in Active(g) : ~Open(g, k)
      BY <1>2, <3>1
    <3> QED BY <3>2 DEF Unverified, Open
  <2> QED BY <1>1, <2>1
<1>4. ASSUME IsNumberRelation(r)
      PROVE  Competition(ClustersOf(g, r)) < ResidualStop
  <2>1. c.competition = Competition(ClustersOf(g, r))
    BY <1>4 DEF Signals
  <2>2. CASE Settled(g, r, s, c)
    <3>1. c.competition = 0
      BY <1>4, <2>2, NumberRelations DEF Settled
    <3> QED BY <2>1, <3>1 DEF ResidualStop
  <2>3. CASE Residual(r, c) < ResidualStop
    BY <1>4, <2>1, <2>3, LowIsUncontested
  <2> QED BY <1>1, <2>2, <2>3
<1> QED BY <1>1, <1>2, <1>3, <1>4

\* A loop that ends settled was stopped by the controller.
LEMMA SettledIsStopped ==
  ASSUME Shapes, [Next]_vars, Concludes
  PROVE  LET g == Tiered(graph, relation) IN ShouldStop(g, relation, rcse, Signals(g, relation, rcse))
<1>1. action = Idle /\ phase \in Loops /\ phase' # phase /\ why'[phase] = "settled"
  BY DEF Concludes
<1>2. \A g, reason : Leave(g, reason) => why'[phase] = reason
  BY <1>1 DEF Leave, Shapes
<1>3. ~Acts
  BY <1>1, ActingSpends
<1>4. ~ScoreGate /\ ~Finished /\ ~UNCHANGED vars
  BY <1>1 DEF ScoreGate, Finished, vars, Loops
<1>5. ~Expire
  BY <1>1, <1>2 DEF Expire
<1>6. Decide
  BY <1>3, <1>4, <1>5 DEF Next, Acts
<1> DEFINE g == Tiered(graph, relation)
           c == Signals(g, relation, rcse)
<1>7. PICK choice \in NextChoice(g, c) :
        \/ choice = Idle /\ ShouldStop(g, relation, rcse, c) /\ Leave(g, "settled")
        \/ choice = Idle /\ ~ShouldStop(g, relation, rcse, c) /\ Leave(g, "nothing legal")
        \/ choice # Idle /\ PlannedCalls(choice) > CallsLeft /\ Leave(g, "unaffordable")
        \/ Chooses(g, c, choice) /\ graph' = g
  BY <1>6, DecideFacts, Zenon
<1> HIDE DEF g, c
<1>8. ~Chooses(g, c, choice)
  BY <1>1 DEF Chooses
<1>9. ~Leave(g, "nothing legal") /\ ~Leave(g, "unaffordable")
  BY <1>1, <1>2
<1> QED BY <1>7, <1>8, <1>9 DEF g, c

\* A query that ends settled has run its mandatory views, has no candidate that
\* awaits a verifier unless it is the open set, and no rival to its first cluster.
LEMMA SettledStep ==
  ASSUME Shapes, [Next]_vars, Concludes
  PROVE  /\ Mandatory(relation) \subseteq ExecutedViews(rcse)
         /\ relation # Award => Unverified(Tiered(graph, relation)) = {}
         /\ IsNumberRelation(relation) =>
              Competition(ClustersOf(graph, relation)) < ResidualStop
<1> DEFINE g == Tiered(graph, relation)
<1>1. relation \in AllRelations /\ IsGraph(graph)
  BY LeftIsANumber DEF Shapes
<1>2. IsGraph(g) /\ g.held = graph.held /\ g.edges = graph.edges /\ g.status = graph.status
  BY <1>1, TieredFacts
<1>3. ShouldStop(g, relation, rcse, Signals(g, relation, rcse))
  BY SettledIsStopped
<1>4. ClustersOf(g, relation) = ClustersOf(graph, relation)
  <2>1. Active(g) = Active(graph)
    BY <1>2 DEF Active
  <2>2. \A k : Weight(g, relation, k) = Weight(graph, relation, k)
    <3>1. \A k : Support(g, relation, k) = Support(graph, relation, k)
      BY <1>2 DEF Support, SupportingGroups, Groups
    <3> QED BY <3>1 DEF Weight
  <2>3. Weighted(g, relation) = Weighted(graph, relation)
    BY <2>1, <2>2 DEF Weighted
  <2> QED BY <2>3 DEF ClustersOf
<1> HIDE DEF g
<1>5. /\ Mandatory(relation) \subseteq ExecutedViews(rcse)
      /\ relation # Award => Unverified(g) = {}
      /\ IsNumberRelation(relation) => Competition(ClustersOf(g, relation)) < ResidualStop
  BY <1>1, <1>2, <1>3, StoppingLeavesNothing
<1> QED BY <1>4, <1>5 DEF g

\* What is settled leaves nothing pending: the mandatory views have run, no
\* candidate awaits a verifier unless the set is open, and no second cluster
\* rivals the first, whatever the signs of the figures: a low residual is below
\* none of its floors (controller.py, should_stop; residual.py,
\* estimate_residual).
THEOREM RestIsComplete == Spec => RestLeavesNothingPending
<1> DEFINE A == Concludes =>
                  /\ Mandatory(relation) \subseteq ExecutedViews(rcse)
                  /\ relation # Award => Unverified(Tiered(graph, relation)) = {}
                  /\ IsNumberRelation(relation) =>
                       Competition(ClustersOf(graph, relation)) < ResidualStop
<1>1. Shapes /\ [Next]_vars => [A]_vars
  BY SettledStep
<1>2. RestLeavesNothingPending <=> [][A]_vars
  BY DEF RestLeavesNothingPending
<1> HIDE DEF A
<1> QED BY <1>1, <1>2, ShapesInit, ShapesStep, PTL DEF Spec

=============================================================================
