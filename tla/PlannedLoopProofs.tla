-------------------------- MODULE PlannedLoopProofs --------------------------
(***************************************************************************)
(* Proofs about V3Loop, for any number of candidates, rounds and calls, and *)
(* about PlannedLoop, for any calibration, any history and either depth.    *)
(*                                                                          *)
(* Of the loop alone: what an action was chosen under still holds when it   *)
(* runs (Underway), and an edge names an action that the history has        *)
(* (EdgeInv).  With the planner and the ledger in charge the loop is still  *)
(* the loop of V3Loop, and what is planned can be paid for: between the     *)
(* planner's answer and the hold nothing changes that the answer was given  *)
(* on (PlanInv).                                                            *)
(***************************************************************************)
EXTENDS PlannedLoop, TLAPS

-----------------------------------------------------------------------------
(* The loop *)

\* Between its choice and its execution nothing an action depends on changes.
Underway ==
  at = "execute" => Selectable(chosen) /\ CallsLeft >= 1 /\ Len(history) < MaxRounds

\* No verdict is on the graph whose action is not in the history.
EdgeInv == \A e \in edges : e[1] \in Executed

V3Inv == V3TypeOK /\ Underway /\ EdgeInv /\ NoBarrenRetry /\ CollectionKeepsItsRow

-----------------------------------------------------------------------------

\* The failure state of any evidence is one of the eight.
LEMMA FailureStateType == failureState \in FailureStates
BY DEF failureState, FailureStates

\* Only hypotheses that have not been dropped are checked or contrasted, and
\* every action comes from a legal family.
LEMMA CatalogueFacts ==
  ASSUME V3TypeOK, NEW a \in Catalogue
  PROVE  /\ a \in Action
         /\ a.family \in Legal
         /\ a.family \in Checks =>
              a.target \in Active /\ a.other \in Active \cup {None}
<1>1. Active \subseteq Candidates
  BY DEF Active, V3TypeOK
<1>2. CASE a \in {Recall(f) : f \in {g \in Legal \cap Recalls : Offered(g)}}
  BY <1>2 DEF Recall, Action, Recalls, Checks
<1>3. CASE a \in {Check(f, c) : f \in Legal \cap (Checks \ {"CONTRAST_VERIFY"}),
                                c \in Foremost(Active)}
  <2>1. PICK f \in Legal \cap Checks, c \in Foremost(Active) : a = Check(f, c)
    BY <1>3
  <2>2. c \in Active
    BY DEF Foremost
  <2> QED
    BY <1>1, <2>1, <2>2 DEF Check, Action
<1>4. CASE a \in {Contrast(p[1], p[2]) : p \in {q \in ContrastPairs : "CONTRAST_VERIFY" \in Legal}}
  <2>1. PICK p \in ContrastPairs : a = Contrast(p[1], p[2]) /\ "CONTRAST_VERIFY" \in Legal
    BY <1>4
  <2>2. p[1] \in Active /\ p[2] \in Active
    BY DEF ContrastPairs
  <2> QED
    BY <1>1, <2>1, <2>2 DEF Contrast, Action, Checks
<1> QED
  BY <1>2, <1>3, <1>4 DEF Catalogue

\* What an answer says is about the two hypotheses it compares.
LEMMA ReadingsFacts ==
  ASSUME NEW said \in Verdicts, NEW r \in Readings(said)
  PROVE  /\ r[1] = chosen
         /\ r[2] = chosen.target \/ (chosen.other # None /\ r[2] = chosen.other)
         /\ r[3] \in Verdicts
BY DEF Readings, Verdicts

\* Remembering a family that is not redundant keeps the memory: were an
\* earlier try of it barren, it would be the latest one and make it redundant.
LEMMA RememberedOnce ==
  ASSUME V3TypeOK, NoBarrenRetry, chosen \in Action, NEW material \in BOOLEAN,
         ~Redundant(failureState, chosen.family), Remember(material)
  PROVE  /\ NoBarrenRetry'
         /\ history' \in Seq(Entry) /\ Len(history') = Len(history) + 1
         /\ Executed \subseteq Executed' /\ chosen \in Executed'
<1> DEFINE last == [state |-> failureState, material |-> material, action |-> chosen]
           n == Len(history)
<1>1. last \in Entry
  BY FailureStateType DEF Entry
<1>2. history \in Seq(Entry) /\ n \in Nat
  BY DEF V3TypeOK
<1>3. history' = Append(history, last)
  BY DEF Remember
<1>4. /\ history' \in Seq(Entry) /\ Len(history') = n + 1
      /\ DOMAIN history = 1..n /\ DOMAIN history' = 1..(n + 1)
      /\ history'[n + 1] = last
      /\ \A i \in 1..n : history'[i] = history[i]
  BY <1>1, <1>2, <1>3
<1>5. ASSUME NEW i \in 1..n, history[i].state = failureState,
             history[i].action.family = chosen.family
      PROVE  history[i].material
  <2> SUFFICES ASSUME ~history[i].material PROVE FALSE
    OBVIOUS
  <2>1. i \in Tries(failureState, chosen.family)
    BY <1>4, <1>5 DEF Tries
  <2>2. \A j \in Tries(failureState, chosen.family) : j <= i
    BY <1>2, <1>4, <1>5 DEF Tries, NoBarrenRetry
  <2> QED
    BY <2>1, <2>2 DEF Redundant
<1>6. NoBarrenRetry'
  <2> SUFFICES ASSUME NEW i \in 1..(n + 1), NEW j \in 1..(n + 1), i < j,
                      history'[i].state = history'[j].state,
                      history'[i].action.family = history'[j].action.family
               PROVE  history'[i].material
    BY <1>4 DEF NoBarrenRetry
  <2>1. i \in 1..n /\ history'[i] = history[i]
    BY <1>2, <1>4
  <2>2. CASE j = n + 1
    BY <1>4, <1>5, <2>1, <2>2
  <2>3. CASE j # n + 1
    <3>1. j \in 1..n /\ history'[j] = history[j]
      BY <1>2, <1>4, <2>3
    <3> QED
      BY <1>4, <2>1, <3>1 DEF NoBarrenRetry
  <2> QED
    BY <2>2, <2>3
<1>7. Executed \subseteq Executed' /\ chosen \in Executed'
  <2>1. Executed' = {history'[i].action : i \in DOMAIN history'}
    BY DEF Executed
  <2>2. Executed = {history[i].action : i \in DOMAIN history}
    BY DEF Executed
  <2>3. history'[n + 1].action = chosen /\ n + 1 \in 1..(n + 1)
    BY <1>2, <1>4
  <2>4. ASSUME NEW a \in Executed PROVE a \in Executed'
    <3>1. PICK i \in 1..n : a = history[i].action
      BY <2>2, <1>4
    <3> QED
      BY <3>1, <2>1, <1>2, <1>4
  <2> QED
    BY <2>1, <2>3, <2>4, <1>4
<1> QED
  BY <1>4, <1>6, <1>7

-----------------------------------------------------------------------------
(* Initial states and steps *)

LEMMA V3InvInit == V3Init => V3Inv
<1> SUFFICES ASSUME V3Init PROVE V3Inv
  OBVIOUS
<1>1. V3TypeOK
  <2>1. PICK named \in SUBSET Candidates :
          found \in [named -> {h \in Hypothesis : h.issue \in Disputes \cup {"barred"}}]
    BY DEF V3Init
  <2>2. DOMAIN found \subseteq Candidates /\ \A c \in DOMAIN found : found[c] \in Hypothesis
    BY <2>1
  <2>3. history = <<>> /\ history \in Seq(Entry) /\ Len(history) <= MaxRounds
    BY V3Assumption DEF V3Init
  <2>4. calls \in 0..(MaxCalls + ExtraCalls)
    BY V3Assumption DEF V3Init
  <2>5. chosen \in Action
    BY DEF V3Init, Recall, Action, Recalls
  <2> QED
    BY <2>2, <2>3, <2>4, <2>5 DEF V3Init, V3TypeOK
<1>2. Underway /\ EdgeInv /\ NoBarrenRetry /\ CollectionKeepsItsRow
  BY DEF V3Init, Underway, EdgeInv, NoBarrenRetry, CollectionKeepsItsRow
<1> QED
  BY <1>1, <1>2 DEF V3Inv

\* What is selectable is read off the evidence, the history and the budget.
LEMMA SelectableKept ==
  ASSUME UNCHANGED <<relation, collection, found, history, calls>>, NEW a
  PROVE  Selectable(a)' = Selectable(a) /\ CallsLeft' = CallsLeft
<1>1. failureState' = failureState /\ Active' = Active /\ Allowed' = Allowed
  BY DEF failureState, Active, Dropped, Allowed, Numeric, Elimination, SetValued, OpenSet
<1>2. \A f : Redundant(failureState, f)' = Redundant(failureState, f)
  BY <1>1 DEF Redundant, Tries
<1>3. Legal' = Legal
  BY <1>1, <1>2 DEF Legal
<1>4. \A f : Offered(f)' = Offered(f)
  BY DEF Offered, Numeric
<1>5. Foremost(Active)' = Foremost(Active)
  BY <1>1 DEF Foremost
<1>6. ContrastPairs' = ContrastPairs
  BY <1>1 DEF ContrastPairs, Foremost
<1>7. Catalogue' = Catalogue
  BY <1>3, <1>4, <1>5, <1>6 DEF Catalogue
<1>8. CallsLeft' = CallsLeft /\ Executed' = Executed
  BY DEF CallsLeft, Executed
<1> QED
  BY <1>7, <1>8 DEF Selectable, AlreadyExecuted

LEMMA ChooseStep ==
  ASSUME V3Inv, NEW a \in Catalogue, Choose(a)
  PROVE  V3Inv'
<1> USE DEF V3Inv
<1>1. a \in Action /\ chosen' = a /\ at' = "execute"
  BY CatalogueFacts DEF Choose
<1>2. /\ relation' = relation /\ collection' = collection /\ found' = found
      /\ edges' = edges /\ history' = history /\ calls' = calls
  BY DEF Choose
<1>3. V3TypeOK'
  BY <1>1, <1>2 DEF V3TypeOK
<1>4. Selectable(a)' /\ CallsLeft' = CallsLeft
  BY <1>2, SelectableKept DEF Choose
<1>5. Underway'
  BY <1>1, <1>2, <1>4 DEF Choose, Choosing, Underway, Selectable
<1>6. EdgeInv' /\ NoBarrenRetry' /\ CollectionKeepsItsRow'
  BY <1>1, <1>2 DEF EdgeInv, NoBarrenRetry, CollectionKeepsItsRow, Executed
<1> QED
  BY <1>3, <1>5, <1>6

\* What both executors start from.
LEMMA AtExecution ==
  ASSUME V3Inv, at = "execute"
  PROVE  /\ chosen \in Action
         /\ ~Redundant(failureState, chosen.family)
         /\ Len(history) < MaxRounds
         /\ calls..(calls + 1) \subseteq 0..(MaxCalls + ExtraCalls)
         /\ chosen.family \in Checks =>
              chosen.target \in Active /\ chosen.other \in Active \cup {None}
         /\ chosen.family \in Checks /\ collection => chosen \notin Executed
<1>1. chosen \in Catalogue /\ CallsLeft >= 1 /\ Len(history) < MaxRounds
  BY DEF V3Inv, Underway, Selectable
<1>2. ~Redundant(failureState, chosen.family)
  BY <1>1, CatalogueFacts DEF Legal, V3Inv
<1>3. calls..(calls + 1) \subseteq 0..(MaxCalls + ExtraCalls)
  BY <1>1, V3Assumption DEF V3Inv, V3TypeOK, CallsLeft
<1>4. chosen.family \in Checks /\ collection => chosen \notin Executed
  BY DEF V3Inv, Underway, Selectable, Repeatable, Checks
<1> QED
  BY <1>1, <1>2, <1>3, <1>4, CatalogueFacts DEF V3Inv

LEMMA RecallStep ==
  ASSUME V3Inv, ExecuteRecall
  PROVE  /\ V3Inv'
         /\ \A c \in DOMAIN found : found'[c].verdict = found[c].verdict
<1> USE DEF V3Inv
<1> DEFINE Grows(named, barred, issue, grown) ==
           found' = [c \in DOMAIN found \cup named |->
              [support |-> IF c \notin DOMAIN found THEN 1
                           ELSE IF c \in grown THEN 2 ELSE found[c].support,
               verdict |-> IF c \in DOMAIN found THEN found[c].verdict ELSE "none",
               issue |-> IF c \in barred \/ (c \in DOMAIN found /\ found[c].issue = "barred")
                         THEN "barred" ELSE issue[c]]]
<1>0. PICK named \in SUBSET Candidates,
           barred \in SUBSET (IF chosen.family = "ATTRIBUTE_DECOMPOSITION" THEN DOMAIN found ELSE {}) :
        /\ \E issue \in [DOMAIN found \cup named -> Disputes],
              grown \in SUBSET (named \cap DOMAIN found) : Grows(named, barred, issue, grown)
        /\ Remember(named \cup barred # {})
  BY DEF ExecuteRecall
<1>1. PICK issue \in [DOMAIN found \cup named -> Disputes],
           grown \in SUBSET (named \cap DOMAIN found) : Grows(named, barred, issue, grown)
  BY <1>0
<1>2. /\ at = "execute" /\ at' = "choose" /\ calls' \in calls..(calls + 1)
      /\ relation' = relation /\ collection' = collection /\ edges' = edges /\ chosen' = chosen
  BY DEF ExecuteRecall
<1>3. (named \cup barred # {}) \in BOOLEAN
  OBVIOUS
<1>4. /\ NoBarrenRetry' /\ Executed \subseteq Executed'
      /\ history' \in Seq(Entry) /\ Len(history') = Len(history) + 1
  BY <1>0, <1>2, <1>3, AtExecution, RememberedOnce
<1>5. /\ DOMAIN found' = DOMAIN found \cup named
      /\ \A c \in DOMAIN found : found'[c].verdict = found[c].verdict
  BY <1>1
<1>6. \A c \in DOMAIN found' : found'[c] \in Hypothesis
  <2> SUFFICES ASSUME NEW c \in DOMAIN found \cup named PROVE found'[c] \in Hypothesis
    BY <1>5
  <2>1. issue[c] \in {"none", "doubted", "misread"}
    BY DEF Disputes
  <2>2. c \in DOMAIN found => found[c] \in Hypothesis
    BY DEF V3TypeOK
  <2> QED
    BY <1>1, <2>1, <2>2 DEF Hypothesis
<1>7. V3TypeOK'
  <2>1. Len(history') <= MaxRounds
    BY <1>2, <1>4, AtExecution, V3Assumption DEF V3TypeOK
  <2> QED
    BY <1>2, <1>4, <1>5, <1>6, <2>1, AtExecution DEF V3TypeOK
<1>8. Underway' /\ EdgeInv' /\ CollectionKeepsItsRow'
  BY <1>2, <1>4 DEF Underway, EdgeInv, CollectionKeepsItsRow
<1> QED
  BY <1>4, <1>5, <1>7, <1>8

\* A check speaks of hypotheses that are not dropped, so it turns no rejection.
LEMMA CheckStep ==
  ASSUME V3Inv, ExecuteCheck
  PROVE  /\ V3Inv'
         /\ \A c \in DOMAIN found : found[c].verdict = "INVALID" => found'[c].verdict = "INVALID"
<1> USE DEF V3Inv
<1>1. PICK said \in Verdicts :
       IF Readings(said) \cap edges # {}
       THEN at' = "failed" /\ UNCHANGED <<found, edges, history, calls>>
       ELSE /\ edges' = edges \cup Readings(said)
            /\ found' = [c \in DOMAIN found |->
                 IF \E r \in Readings(said) : r[2] = c
                 THEN [found[c] EXCEPT
                         !.verdict = (CHOOSE r \in Readings(said) : r[2] = c)[3],
                         !.issue = IF chosen.family = "LISTING_ELIMINATION" /\ said = "INVALID"
                                   THEN "barred" ELSE @]
                 ELSE found[c]]
            /\ Remember(said # "UNKNOWN")
            /\ calls' \in calls..(calls + 1)
            /\ at' = "choose"
  BY DEF ExecuteCheck
<1>2. /\ at = "execute" /\ chosen.family \in Checks
      /\ relation' = relation /\ collection' = collection /\ chosen' = chosen
  BY DEF ExecuteCheck
<1>3. CASE Readings(said) \cap edges # {}
  <2>1. at' = "failed" /\ UNCHANGED <<found, edges, history, calls>>
    BY <1>1, <1>3
  <2>2. chosen \in Executed
    <3>1. PICK e \in edges : e \in Readings(said)
      BY <1>3
    <3>2. e[1] = chosen
      BY <3>1, ReadingsFacts
    <3> QED
      BY <3>2 DEF EdgeInv
  <2>3. ~collection
    BY <1>2, <2>2, AtExecution
  <2>4. V3TypeOK'
    BY <1>2, <2>1 DEF V3TypeOK
  <2>5. Underway' /\ CollectionKeepsItsRow'
    BY <1>2, <2>1, <2>3 DEF Underway, CollectionKeepsItsRow
  <2>6. EdgeInv' /\ NoBarrenRetry'
    BY <2>1 DEF EdgeInv, NoBarrenRetry, Executed
  <2> QED
    BY <2>1, <2>4, <2>5, <2>6
<1>4. CASE Readings(said) \cap edges = {}
  <2>1. /\ edges' = edges \cup Readings(said) /\ Remember(said # "UNKNOWN")
        /\ calls' \in calls..(calls + 1) /\ at' = "choose" /\ DOMAIN found' = DOMAIN found
    BY <1>1, <1>4
  <2>2. (said # "UNKNOWN") \in BOOLEAN
    OBVIOUS
  <2>3. /\ NoBarrenRetry' /\ Executed \subseteq Executed' /\ chosen \in Executed'
        /\ history' \in Seq(Entry) /\ Len(history') = Len(history) + 1
    BY <1>2, <2>1, <2>2, AtExecution, RememberedOnce
  <2>4. \A r \in Readings(said) : r[1] = chosen /\ r[2] \in Active /\ r[3] \in Verdicts
    BY <1>2, ReadingsFacts, AtExecution
  <2>5. ASSUME NEW c \in DOMAIN found
        PROVE  /\ found'[c] \in Hypothesis
               /\ found[c].verdict = "INVALID" => found'[c].verdict = "INVALID"
    <3>1. found[c] \in Hypothesis
      BY DEF V3TypeOK
    <3>2. CASE \E r \in Readings(said) : r[2] = c
      <4> DEFINE v == (CHOOSE r \in Readings(said) : r[2] = c)[3]
      <4>1. v \in Verdicts
        BY <2>4, <3>2
      <4>2. c \in Active
        BY <2>4, <3>2
      <4>3. found[c].verdict # "INVALID"
        BY <4>2 DEF Active, Dropped
      <4>4. found'[c] = [found[c] EXCEPT
                          !.verdict = v,
                          !.issue = IF chosen.family = "LISTING_ELIMINATION" /\ said = "INVALID"
                                    THEN "barred" ELSE @]
        BY <1>1, <1>4, <3>2
      <4> HIDE DEF v
      <4> QED
        BY <3>1, <4>1, <4>3, <4>4 DEF Hypothesis
    <3>3. CASE ~\E r \in Readings(said) : r[2] = c
      BY <1>1, <1>4, <3>1, <3>3
    <3> QED
      BY <3>2, <3>3
  <2>6. edges' \subseteq Action \X Candidates \X Verdicts
    <3>1. \A r \in Readings(said) : r = <<r[1], r[2], r[3]>>
      BY DEF Readings
    <3>2. Active \subseteq Candidates
      BY DEF Active, V3TypeOK
    <3> QED
      BY <1>2, <2>1, <2>4, <3>1, <3>2, AtExecution DEF V3TypeOK
  <2>7. V3TypeOK'
    <3>1. Len(history') <= MaxRounds
      BY <1>2, <2>3, AtExecution, V3Assumption DEF V3TypeOK
    <3> QED
      BY <1>2, <2>1, <2>3, <2>5, <2>6, <3>1, AtExecution DEF V3TypeOK
  <2>8. EdgeInv'
    BY <2>1, <2>3, <2>4 DEF EdgeInv
  <2>9. Underway' /\ CollectionKeepsItsRow'
    BY <2>1 DEF Underway, CollectionKeepsItsRow
  <2> QED
    BY <2>3, <2>5, <2>7, <2>8, <2>9
<1> QED
  BY <1>3, <1>4

LEMMA UnscoredStep ==
  ASSUME V3Inv, ExecuteUnscored
  PROVE  V3Inv' /\ found' = found
<1> USE DEF V3Inv
<1>1. /\ at = "execute" /\ at' = "choose" /\ Remember(FALSE)
      /\ relation' = relation /\ collection' = collection /\ found' = found
      /\ edges' = edges /\ calls' = calls /\ chosen' = chosen
  BY DEF ExecuteUnscored
<1>2. /\ NoBarrenRetry' /\ Executed \subseteq Executed'
      /\ history' \in Seq(Entry) /\ Len(history') = Len(history) + 1
  BY <1>1, AtExecution, RememberedOnce
<1>3. V3TypeOK'
  <2>1. Len(history') <= MaxRounds
    BY <1>1, <1>2, AtExecution, V3Assumption DEF V3TypeOK
  <2> QED
    BY <1>1, <1>2, <2>1 DEF V3TypeOK
<1>4. Underway' /\ EdgeInv' /\ CollectionKeepsItsRow'
  BY <1>1, <1>2 DEF Underway, EdgeInv, CollectionKeepsItsRow
<1> QED
  BY <1>1, <1>2, <1>3, <1>4

\* Finishing, having ended, and stuttering leave evidence and memory alone.
LEMMA QuietStep ==
  ASSUME V3Inv, Finish \/ Ended \/ UNCHANGED v3Vars
  PROVE  V3Inv' /\ found' = found
<1>1. UNCHANGED <<relation, collection, found, edges, history, calls, chosen>>
  BY DEF Finish, Ended, v3Vars
<1>2. CASE at' = at
  <2>1. Underway'
    BY <1>1, <1>2, SelectableKept DEF V3Inv, Underway
  <2> QED
    BY <1>1, <1>2, <2>1 DEF V3Inv, V3TypeOK, EdgeInv, NoBarrenRetry,
       CollectionKeepsItsRow, Executed
<1>3. CASE at' = "finalized"
  BY <1>1, <1>3 DEF V3Inv, V3TypeOK, Underway, EdgeInv, NoBarrenRetry,
     CollectionKeepsItsRow, Executed
<1> QED
  BY <1>2, <1>3 DEF Finish, Ended, v3Vars

LEMMA PlannerFailsStep ==
  ASSUME V3Inv, PlannerFails
  PROVE  V3Inv' /\ found' = found
BY DEF V3Inv, PlannerFails, V3TypeOK, Underway, EdgeInv, NoBarrenRetry,
   CollectionKeepsItsRow, Executed

-----------------------------------------------------------------------------
(* Theorems *)

LEMMA V3InvStep == V3Inv /\ [V3Next]_v3Vars => V3Inv'
BY ChooseStep, RecallStep, CheckStep, UnscoredStep, QuietStep, PlannerFailsStep DEF V3Next

LEMMA V3Invariance == V3Spec => []V3Inv
<1>1. V3Inv /\ [V3Next]_v3Vars => V3Inv'
  BY V3InvStep
<1> QED
  BY <1>1, V3InvInit, PTL DEF V3Spec

\* The loop of _run_v3_control_loop keeps its types: no history is longer than
\* the rounds, and no figure passes what the contract and collection allow.
THEOREM V3TypeCorrect == V3Spec => []V3TypeOK
<1>1. V3Inv => V3TypeOK
  BY DEF V3Inv
<1> QED
  BY <1>1, V3Invariance, PTL

\* ActionHistory: a family that was barren in a failure state is not tried in
\* it again, through any number of rounds and states in between.
THEOREM BarrenFamiliesAreNotRetried == V3Spec => []NoBarrenRetry
<1>1. V3Inv => NoBarrenRetry
  BY DEF V3Inv
<1> QED
  BY <1>1, V3Invariance, PTL

\* TRAIN collection never attaches one verdict twice to the evidence graph.
THEOREM CollectionIsSafe == V3Spec => []CollectionKeepsItsRow
<1>1. V3Inv => CollectionKeepsItsRow
  BY DEF V3Inv
<1> QED
  BY <1>1, V3Invariance, PTL

\* No action of the loop turns a verdict against a hypothesis.
THEOREM RejectionsStand == V3Spec => RejectionIsFinal
<1>1. V3Inv /\ [V3Next]_v3Vars =>
        [\A c \in DOMAIN found : found[c].verdict = "INVALID" =>
           found'[c].verdict = "INVALID"]_v3Vars
  <2> SUFFICES ASSUME V3Inv, [V3Next]_v3Vars, NEW c \in DOMAIN found,
                      found[c].verdict = "INVALID"
               PROVE  found'[c].verdict = "INVALID"
    OBVIOUS
  <2>1. ASSUME NEW a \in Catalogue, Choose(a) PROVE found' = found
    BY <2>1 DEF Choose
  <2> QED
    BY <2>1, RecallStep, CheckStep, UnscoredStep, QuietStep, PlannerFailsStep DEF V3Next
<1> QED
  BY <1>1, V3Invariance, PTL DEF V3Spec, RejectionIsFinal

-----------------------------------------------------------------------------
(* The loop under the planner *)

\* What is planned is still selectable, and the loop is still choosing.
PlanInv ==
  /\ ~collection
  /\ planned # None => Choosing /\ planned \in Catalogue /\ Selectable(planned)

\* And the ledger still takes it.
FundInv ==
  planned # None => \A r \in {relation} : LedgerOf(r)!Refusal(planned.family) = ""

\* The counters that a probe of two actions adds up are integers.
Hold == [action : Families, status : {"OUTSTANDING", "SETTLED", "CANCELLED"},
         calls : Int, tokens : Int]
SpendInv ==
  /\ prior.calls \in Int /\ reservedCalls \in Int /\ settledCalls \in Int
  /\ classCommitted \in [{"DISCOVERY", "VERIFICATION"} -> Int]
  /\ reservations \in Seq(Hold)

-----------------------------------------------------------------------------

\* What can be paid was offered, and was not tried before unless it may be.
LEMMA AffordableFacts ==
  ASSUME ~collection, NEW offered \in Offers, NEW a \in Affordable(offered)
  PROVE  /\ a \in Catalogue /\ Selectable(a)
         /\ \E r \in {relation} : LedgerOf(r)!Refusal(a.family) = ""
BY DEF Affordable, Screened, Offers, Selectable

\* The answer of the ledger is read off its counters.
LEMMA RefusalKept ==
  ASSUME UNCHANGED ledgerVars, NEW r, NEW f
  PROVE  LedgerOf(r)!Refusal(f)' = LedgerOf(r)!Refusal(f)
BY DEF ledgerVars, LedgerOf!Refusal, LedgerOf!OverHardCap, LedgerOf!OverTokenCap,
   LedgerOf!OverClassCap, LedgerOf!OverAvailable, LedgerOf!committedCalls,
   LedgerOf!committedTokens, LedgerOf!availableCalls, LedgerOf!ForeignProtected,
   LedgerOf!OwnPoolAvailable, LedgerOf!VerificationFloor, LedgerOf!SpecialFloor

\* What is legal, and that there is still something to choose, is read off the
\* evidence and the history.
LEMMA CatalogueKept ==
  ASSUME UNCHANGED v3Vars
  PROVE  Catalogue' = Catalogue
BY DEF v3Vars, Catalogue, Legal, Allowed, failureState, Active, Dropped, Numeric, Elimination,
   SetValued, OpenSet, Redundant, Tries, Offered, Foremost, ContrastPairs

LEMMA ChoosingKept ==
  ASSUME UNCHANGED v3Vars
  PROVE  Choosing' = Choosing
BY DEF v3Vars, Choosing, failureState, Active, Dropped, Numeric, Elimination, SetValued, OpenSet

LEMMA PlanStep ==
  ASSUME PlanInv, Plan
  PROVE  PlanInv' /\ FundInv' /\ UNCHANGED v3Vars
<1>1. PICK gap \in Gaps, offered \in Offers :
        \E a \in Affordable(offered) : planned' = a
  BY Zenon DEF Plan
<1>2. PICK a \in Affordable(offered) : planned' = a
  BY <1>1
<1>3. UNCHANGED <<v3Vars, ledgerVars>> /\ ~collection /\ Choosing
  BY DEF Plan, Ready, PlanInv
<1>4. /\ a \in Catalogue /\ Selectable(a)
      /\ \A r \in {relation} : LedgerOf(r)!Refusal(a.family) = ""
  BY <1>2, <1>3, AffordableFacts
<1>5. Choosing' /\ (a \in Catalogue)' /\ Selectable(a)' /\ ~collection'
  BY <1>3, <1>4, SelectableKept, ChoosingKept, CatalogueKept DEF v3Vars
<1>6. \A r \in {relation'} : LedgerOf(r)!Refusal(a.family)' = ""
  BY <1>3, <1>4, RefusalKept DEF v3Vars
<1>7. PlanInv'
  BY <1>2, <1>5 DEF PlanInv
<1>8. FundInv'
  BY <1>2, <1>6 DEF FundInv
<1> QED
  BY <1>3, <1>7, <1>8


\* The planner's stop and the end of the rounds finish the loop; its exception
\* loses the row; what does not fit the snapshot is dropped.
LEMMA EndingStep ==
  ASSUME PlanInv, PlanStop \/ PlanRaises \/ LoopEnds \/ Unfit
  PROVE  PlanInv' /\ FundInv' /\ (Finish \/ PlannerFails) /\ UNCHANGED ledgerVars
<1>1. (Finish \/ PlannerFails) /\ UNCHANGED ledgerVars
  BY DEF PlanStop, PlanRaises, LoopEnds, Unfit
<1>2. planned' = None
  BY DEF PlanStop, PlanRaises, LoopEnds, Unfit, Ready, PlanInv
<1>3. collection' = collection
  BY <1>1 DEF Finish, PlannerFails
<1> QED
  BY <1>1, <1>2, <1>3 DEF PlanInv, FundInv

\* The hold is one step of choice in the loop, of what is still selectable.
LEMMA PrechargeStep ==
  ASSUME PlanInv, Precharge
  PROVE  PlanInv' /\ FundInv' /\ ((\E a \in Catalogue : Choose(a)) \/ Finish)
<1>1. planned' = None /\ planned # None /\ CallsLeft >= 1
  BY DEF Precharge
<1>2. planned \in Catalogue /\ Selectable(planned) /\ Choosing /\ ~collection
  BY <1>1 DEF PlanInv
<1>3. Finish \/ (/\ chosen' = planned /\ at' = "execute"
                 /\ UNCHANGED <<relation, collection, found, edges, history, calls>>)
  BY DEF Precharge
<1>4. Finish \/ Choose(planned)
  BY <1>1, <1>2, <1>3 DEF Choose
<1>5. collection' = collection
  BY <1>4 DEF Finish, Choose
<1> QED
  BY <1>1, <1>2, <1>4, <1>5 DEF PlanInv, FundInv

\* While an action runs nothing is planned.
LEMMA PerformStep ==
  ASSUME PlanInv, Perform
  PROVE  PlanInv' /\ FundInv' /\ (ExecuteRecall \/ ExecuteCheck \/ ExecuteUnscored)
<1>1. (ExecuteRecall \/ ExecuteCheck \/ ExecuteUnscored) /\ planned' = planned
  BY DEF Perform
<1>2. at = "execute" /\ collection' = collection
  BY <1>1 DEF ExecuteRecall, ExecuteCheck, ExecuteUnscored
<1>3. planned = None
  BY <1>2 DEF PlanInv, Choosing
<1> QED
  BY <1>1, <1>2, <1>3 DEF PlanInv, FundInv

LEMMA StutterStep ==
  ASSUME PlanInv, FundInv, UNCHANGED plannedVars
  PROVE  PlanInv' /\ FundInv'
<1>1. UNCHANGED <<v3Vars, ledgerVars>> /\ planned' = planned
  BY DEF plannedVars
<1>2. relation' = relation /\ collection' = collection
  BY <1>1 DEF v3Vars
<1>3. PlanInv'
  BY <1>1, <1>2, SelectableKept, ChoosingKept, CatalogueKept DEF PlanInv, v3Vars
<1>4. FundInv'
  BY <1>1, <1>2, RefusalKept DEF FundInv
<1> QED
  BY <1>3, <1>4

\* Every step of the composition keeps the promises of the planner, and is a
\* step of the loop or one that the loop does not see.
LEMMA PlannedStep ==
  ASSUME PlanInv, FundInv, [PlannedNext]_plannedVars
  PROVE  PlanInv' /\ FundInv' /\ [V3Next]_v3Vars
<1>1. CASE Plan
  BY <1>1, PlanStep
<1>2. CASE PlanStop \/ PlanRaises \/ LoopEnds \/ Unfit
  BY <1>2, EndingStep DEF V3Next
<1>3. CASE Precharge
  BY <1>3, PrechargeStep DEF V3Next
<1>4. CASE Perform
  BY <1>4, PerformStep DEF V3Next
<1>5. CASE Rests \/ UNCHANGED plannedVars
  <2>1. UNCHANGED plannedVars
    BY <1>5 DEF Rests
  <2> QED
    BY <2>1, StutterStep DEF plannedVars
<1> QED
  BY <1>1, <1>2, <1>3, <1>4, <1>5 DEF PlannedNext

LEMMA PlannedStart == PlannedInit => PlanInv /\ FundInv /\ V3Init
BY DEF PlannedInit, PlanInv, FundInv

-----------------------------------------------------------------------------
(* What the ledger counts *)

LEMMA CostsAreWhole ==
  ASSUME NEW f \in Families
  PROVE  OneCall[f] = 1 /\ SpendClass[f] \in {"DISCOVERY", "VERIFICATION"}
BY DEF OneCall, SpendClass

\* Every reservation is of a family of the loop.
LEMMA HeldFamilies ==
  ASSUME SpendInv, NEW i \in DOMAIN reservations
  PROVE  /\ reservations[i] \in Hold /\ reservations[i].action \in Families
         /\ Len(reservations) \in Nat /\ DOMAIN reservations = 1..Len(reservations)
<1>1. reservations \in Seq(Hold)
  BY DEF SpendInv
<1>2. reservations[i] \in Hold
  BY <1>1
<1>3. reservations[i].action \in Families
  BY <1>2 DEF Hold
<1> QED
  BY <1>1, <1>2, <1>3

LEMMA ReserveCounts ==
  ASSUME SpendInv, NEW r, NEW f \in Families, LedgerOf(r)!Reserve(f)
  PROVE  SpendInv'
<1> DEFINE hold == [action |-> f, status |-> "OUTSTANDING", calls |-> 0, tokens |-> 0]
<1>1. hold \in Hold
  BY DEF Hold
<1>2. /\ reservations' = Append(reservations, hold)
      /\ reservedCalls' = reservedCalls + OneCall[f]
      /\ classCommitted' = [classCommitted EXCEPT ![SpendClass[f]] = @ + OneCall[f]]
      /\ prior' = prior /\ settledCalls' = settledCalls
  BY DEF LedgerOf!Reserve, LedgerOf!Commit
<1>3. reservations' \in Seq(Hold)
  BY <1>1, <1>2 DEF SpendInv
<1> QED
  BY <1>2, <1>3, CostsAreWhole DEF SpendInv

LEMMA SettleCounts ==
  ASSUME SpendInv, NEW r, NEW i, NEW m \in Int, NEW n \in Int, LedgerOf(r)!Settle(i, m, n)
  PROVE  SpendInv'
<1> DEFINE f == reservations[i].action
<1>1. i \in DOMAIN reservations
  BY DEF LedgerOf!Settle, LedgerOf!Outstanding
<1>2. f \in Families /\ Len(reservations) \in Nat /\ DOMAIN reservations = 1..Len(reservations)
  BY <1>1, HeldFamilies
<1>3. /\ reservations' = [reservations EXCEPT ![i] =
           [action |-> f, status |-> "SETTLED", calls |-> m, tokens |-> n]]
      /\ reservedCalls' = reservedCalls - OneCall[f]
      /\ settledCalls' = settledCalls + m
      /\ classCommitted' = [classCommitted EXCEPT ![SpendClass[f]] = @ + (m - OneCall[f])]
      /\ prior' = prior
  BY DEF LedgerOf!Settle, LedgerOf!Commit, LedgerOf!ReleaseHold
<1>4. [action |-> f, status |-> "SETTLED", calls |-> m, tokens |-> n] \in Hold
  BY <1>2 DEF Hold
<1>5. reservations' \in Seq(Hold)
  BY <1>1, <1>2, <1>3, <1>4 DEF SpendInv
<1>6. reservedCalls' \in Int /\ settledCalls' \in Int /\ prior'.calls \in Int
  BY <1>2, <1>3, CostsAreWhole DEF SpendInv
<1>7. classCommitted' \in [{"DISCOVERY", "VERIFICATION"} -> Int]
  <2>1. SpendClass[f] \in {"DISCOVERY", "VERIFICATION"} /\ OneCall[f] = 1
    BY <1>2, CostsAreWhole
  <2>2. classCommitted \in [{"DISCOVERY", "VERIFICATION"} -> Int]
    BY DEF SpendInv
  <2> HIDE DEF f
  <2> QED BY <1>3, <2>1, <2>2
<1> QED
  BY <1>5, <1>6, <1>7 DEF SpendInv

LEMMA CancelCounts ==
  ASSUME SpendInv, NEW r, NEW i, LedgerOf(r)!Cancel(i)
  PROVE  SpendInv'
<1> DEFINE f == reservations[i].action
<1>1. i \in DOMAIN reservations
  BY DEF LedgerOf!Cancel, LedgerOf!Outstanding
<1>2. /\ f \in Families /\ Len(reservations) \in Nat /\ DOMAIN reservations = 1..Len(reservations)
      /\ reservations[i] \in Hold
  BY <1>1, HeldFamilies
<1>3. /\ reservations' = [reservations EXCEPT ![i].status = "CANCELLED"]
      /\ reservedCalls' = reservedCalls - OneCall[f] /\ settledCalls' = settledCalls
      /\ classCommitted' = [classCommitted EXCEPT ![SpendClass[f]] = @ + (-OneCall[f])]
      /\ prior' = prior
  BY DEF LedgerOf!Cancel, LedgerOf!Commit, LedgerOf!ReleaseHold
<1>4. [reservations[i] EXCEPT !.status = "CANCELLED"] \in Hold
  BY <1>2 DEF Hold
<1>5. reservations' \in Seq(Hold)
  BY <1>1, <1>2, <1>3, <1>4 DEF SpendInv
<1>6. reservedCalls' \in Int /\ settledCalls' \in Int /\ prior'.calls \in Int
  BY <1>2, <1>3, CostsAreWhole DEF SpendInv
<1>7. classCommitted' \in [{"DISCOVERY", "VERIFICATION"} -> Int]
  <2>1. SpendClass[f] \in {"DISCOVERY", "VERIFICATION"} /\ OneCall[f] = 1
    BY <1>2, CostsAreWhole
  <2>2. classCommitted \in [{"DISCOVERY", "VERIFICATION"} -> Int]
    BY DEF SpendInv
  <2> HIDE DEF f
  <2> QED BY <1>3, <2>1, <2>2
<1> QED
  BY <1>5, <1>6, <1>7 DEF SpendInv

\* Whatever the composition does, the counters stay whole.
LEMMA SpendStep ==
  ASSUME PlanInv, V3TypeOK, V3TypeOK', SpendInv, [PlannedNext]_plannedVars
  PROVE  SpendInv'
<1>1. CASE UNCHANGED ledgerVars
  BY <1>1 DEF ledgerVars, SpendInv
<1>2. CASE Precharge
  <2>1. planned.family \in Families
    BY <1>2, CatalogueFacts DEF Precharge, PlanInv, Families, Action
  <2>2. PICK r \in {relation}, f \in {planned.family} :
          LedgerOf(r)!Reserve(f) \/ LedgerOf(r)!Deny(f)
    BY <1>2 DEF Precharge
  <2>3. CASE LedgerOf(r)!Deny(f)
    BY <2>3 DEF LedgerOf!Deny, LedgerOf!counters, SpendInv
  <2> QED
    BY <2>1, <2>2, <2>3, ReserveCounts
<1>3. CASE Perform
  <2>1. \E m \in Int, executed \in BOOLEAN : Release(m, executed)
    <3>1. calls' - calls \in Int
      BY DEF V3TypeOK
    <3>2. CASE at' = "failed"
      <4>1. PICK m \in 0..1 : Release(m, FALSE)
        BY <1>3, <3>2 DEF Perform
      <4>2. m \in Int /\ FALSE \in BOOLEAN
        OBVIOUS
      <4> QED
        BY <4>1, <4>2, Zenon
    <3>3. CASE at' # "failed"
      <4>1. Release(calls' - calls, TRUE)
        BY <1>3, <3>3 DEF Perform
      <4> QED
        BY <3>1, <4>1, Zenon
    <3> QED
      BY <3>2, <3>3
  <2>2. PICK m \in Int, executed \in BOOLEAN : Release(m, executed)
    BY <2>1
  <2>3. PICK r \in {relation}, i \in {Len(reservations)} :
          LedgerOf(r)!Cancel(i) \/ \E n \in Int : LedgerOf(r)!Settle(i, m, n)
    BY <2>2 DEF Release
  <2> QED
    BY <2>3, CancelCounts, SettleCounts
<1> QED
  BY <1>1, <1>2, <1>3
     DEF PlannedNext, Plan, PlanStop, PlanRaises, LoopEnds, Unfit, Rests, plannedVars

LEMMA SpendStart == PlannedInit => SpendInv
<1> SUFFICES ASSUME PlannedInit PROVE SpendInv
  OBVIOUS
<1>1. PICK r \in {relation} : LedgerOf(r)!LedgerInit
  BY DEF PlannedInit
<1>2. prior.calls \in 0..MaxPrior /\ reservations = <<>> /\ reservedCalls = 0 /\ settledCalls = 0
  BY <1>1 DEF LedgerOf!LedgerInit, LedgerOf!NewLedger
<1>3. classCommitted = [c \in {"DISCOVERY", "VERIFICATION"} |-> 0]
  BY <1>1 DEF LedgerOf!LedgerInit, LedgerOf!NewLedger, LedgerOf!Classes
<1> QED
  BY <1>2, <1>3 DEF SpendInv

\* What is valued together can be held together: the second action is probed
\* with the first one on the copy, where the ceilings of Refusal are sums.
LEMMA PairsAreFunded ==
  ASSUME SpendInv, V3TypeOK, ~collection, NEW offered \in Offers,
         NEW a \in Affordable(offered), NEW b \in Seconds(a, Affordable(offered)),
         NEW r \in {relation}
  PROVE  /\ LedgerOf(r)!committedCalls + 2 <= Calibration[r].hardCalls
         /\ SpendClass[a.family] = SpendClass[b.family] =>
              classCommitted[SpendClass[a.family]] + 2 <= ClassCapOf(r)[SpendClass[a.family]]
<1>0. PICK f \in {a.family}, g \in {b.family} : TRUE
  OBVIOUS
<1>1. Holding(r, f)!Refusal(g) = ""
  BY <1>0 DEF Seconds
<1>2. ~Holding(r, f)!OverHardCap(g) /\ ~Holding(r, f)!OverClassCap(g)
  BY <1>1 DEF Holding!Refusal
<1>3. f \in Families /\ g \in Families
  <2>1. a \in Catalogue /\ b \in Catalogue
    BY AffordableFacts DEF Seconds
  <2> QED
    BY <1>0, <2>1, CatalogueFacts DEF Action, Families
<1>4. ~(prior.calls + (reservedCalls + 1) + settledCalls + 1 > Calibration[r].hardCalls)
  BY <1>2, <1>3, CostsAreWhole DEF Holding!OverHardCap, Holding!committedCalls
<1>5. ~([classCommitted EXCEPT ![SpendClass[f]] = @ + 1][SpendClass[g]] + 1
          > ClassCapOf(r)[SpendClass[g]])
  BY <1>2, <1>3, CostsAreWhole DEF Holding!OverClassCap
<1>6. /\ Calibration[r].hardCalls \in Int
      /\ \A c \in {"DISCOVERY", "VERIFICATION"} : ClassCapOf(r)[c] \in Int
  <2>1. r \in DOMAIN Calibration
    BY PlannerAssumption DEF V3TypeOK
  <2> QED
    BY <2>1, CeilingAssumption DEF ClassCapOf, Smaller
<1>7. prior.calls \in Int /\ reservedCalls \in Int /\ settledCalls \in Int
  BY DEF SpendInv
<1>8. LedgerOf(r)!committedCalls + 2 <= Calibration[r].hardCalls
  BY <1>4, <1>6, <1>7 DEF LedgerOf!committedCalls
<1>9. ASSUME SpendClass[f] = SpendClass[g]
      PROVE  classCommitted[SpendClass[f]] + 2 <= ClassCapOf(r)[SpendClass[f]]
  <2>1. SpendClass[f] \in {"DISCOVERY", "VERIFICATION"} /\ classCommitted[SpendClass[f]] \in Int
    BY <1>3, CostsAreWhole DEF SpendInv
  <2>2. [classCommitted EXCEPT ![SpendClass[f]] = @ + 1][SpendClass[f]]
          = classCommitted[SpendClass[f]] + 1
    BY <1>3, CostsAreWhole DEF SpendInv
  <2> QED
    BY <1>5, <1>6, <1>9, <2>1, <2>2
<1> QED
  BY <1>0, <1>8, <1>9

-----------------------------------------------------------------------------
(* Theorems *)

\* Calibrated production implements the loop of V3Loop: whatever the history
\* says and the ledger holds, a query under Modules 20 and 21 goes through
\* rounds that the loop allows.
THEOREM PlanningImplementsTheLoop == PlannedSpec => ImplementsLoop
<1>1. PlanInv /\ FundInv /\ [PlannedNext]_plannedVars => (PlanInv /\ FundInv)' /\ [V3Next]_v3Vars
  BY PlannedStep
<1> QED
  BY <1>1, PlannedStart, PTL DEF PlannedSpec, ImplementsLoop, V3Spec


\* What Module 21 returns Module 20 pays: no precharge refuses a planned action,
\* and no two actions are valued together that the ledger could not hold.
THEOREM WhatIsPlannedIsPaid == PlannedSpec => []PlansAreFunded
<1>1. PlannedSpec => []V3TypeOK
  BY PlanningImplementsTheLoop, V3TypeCorrect, PTL DEF ImplementsLoop
<1>2. /\ PlanInv /\ FundInv /\ SpendInv /\ V3TypeOK /\ V3TypeOK' /\ [PlannedNext]_plannedVars
           => (PlanInv /\ FundInv /\ SpendInv)'
  BY PlannedStep, SpendStep
<1>3. PlannedInit => PlanInv /\ FundInv /\ SpendInv
  BY PlannedStart, SpendStart
<1>4. PlanInv /\ FundInv /\ SpendInv /\ V3TypeOK => PlansAreFunded
  BY PairsAreFunded DEF PlansAreFunded, FundInv, PlanInv
<1> QED
  BY <1>1, <1>2, <1>3, <1>4, PTL DEF PlannedSpec

=============================================================================
