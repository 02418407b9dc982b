---------------------------- MODULE MicroPlanner ----------------------------
(***************************************************************************)
(* control/micro_planner.py over the catalogue of the V3 loop: what is      *)
(* offered is screened against what ran, probed on copies of the query's    *)
(* ledger, and valued by TRAIN history, one or two steps ahead.  Tokens are *)
(* counted in units of 128.                                                 *)
(***************************************************************************)
EXTENDS V3Loop, PlanningTables

CONSTANTS
  MaxPrior,         \* bound on the spend that precedes the ledger
  MaxReservations,  \* bound on the reservations of one behaviour
  Depth,            \* lookahead_depth
  Gaps              \* what Module 19 may say of a query: feature |-> value or NA

ASSUME PlannerAssumption == Depth \in {1, 2} /\ Relations \subseteq DOMAIN Calibration

VARIABLES
  prior, reservations, reservedCalls, reservedTokens, settledCalls,
  settledTokens, classCommitted, purposeCommitted, answer  \* of the ledger

ledgerVars == <<prior, reservations, reservedCalls, reservedTokens, settledCalls,
                settledTokens, classCommitted, purposeCommitted, answer>>

-----------------------------------------------------------------------------
(* _make_action: what the families of the loop cost, and out of which pool. *)
(* The ledger knows an action by its family.                                *)

Families == Recalls \cup Checks

PurposeOf(f) ==
  CASE f \in {"CONTRAST_VERIFY", "SEMANTIC_VERIFY"} -> "CONTRAST"
    [] f = "SET_EXPANSION" -> "MISSINGNESS"
    [] f = "LISTING_ELIMINATION" -> "PARENT_SUBSIDIARY"
    [] OTHER -> "none"

PoolsOf(r) == [f \in Families |-> Pool(r, PurposeOf(f))]
SpendClass == [f \in Families |-> IF f \in Checks THEN "VERIFICATION" ELSE "DISCOVERY"]
OneCall == [f \in Families |-> 1]
TokenBound == [f \in Families |->
  CASE f \in Checks -> 0 [] f = "SET_EXPANSION" -> 4 [] OTHER -> 1]

\* The ledger of a query of relation r.
LedgerOf(r) == INSTANCE BudgetLedger WITH
  Actions <- Families, Class <- SpendClass, Purpose <- PoolsOf(r),
  Calls <- OneCall, Tokens <- TokenBound, Bounded <- Families,
  HardCalls <- Calibration[r].hardCalls, HardTokens <- Calibration[r].hardTokens,
  ClassCap <- ClassCapOf(r), VerificationReserve <- Calibration[r].verificationReserve,
  SpecialReserve <- ReserveOf(r)

\* A copy of it on which an action of family f is held.
Holding(r, f) == INSTANCE BudgetLedger WITH
  Actions <- Families, Class <- SpendClass, Purpose <- PoolsOf(r),
  Calls <- OneCall, Tokens <- TokenBound, Bounded <- Families,
  HardCalls <- Calibration[r].hardCalls, HardTokens <- Calibration[r].hardTokens,
  ClassCap <- ClassCapOf(r), VerificationReserve <- Calibration[r].verificationReserve,
  SpecialReserve <- ReserveOf(r),
  reservedCalls <- reservedCalls + OneCall[f],
  reservedTokens <- reservedTokens + TokenBound[f],
  classCommitted <- [classCommitted EXCEPT ![SpendClass[f]] = @ + OneCall[f]],
  purposeCommitted <- [p \in {"special1", "special2"} |->
    purposeCommitted[p] + (IF PoolsOf(r)[f] = p THEN OneCall[f] ELSE 0)]

\* A new one of a query that spent nothing before.
Unspent(r) == INSTANCE BudgetLedger WITH
  Actions <- Families, Class <- SpendClass, Purpose <- PoolsOf(r),
  Calls <- OneCall, Tokens <- TokenBound, Bounded <- Families,
  HardCalls <- Calibration[r].hardCalls, HardTokens <- Calibration[r].hardTokens,
  ClassCap <- ClassCapOf(r), VerificationReserve <- Calibration[r].verificationReserve,
  SpecialReserve <- ReserveOf(r),
  prior <- [calls |-> 0, tokens |-> 0], reservations <- <<>>,
  reservedCalls <- 0, reservedTokens <- 0, settledCalls <- 0, settledTokens <- 0,
  classCommitted <- [c \in {"DISCOVERY", "VERIFICATION"} |-> 0],
  purposeCommitted <- [p \in {"special1", "special2"} |-> 0]

-----------------------------------------------------------------------------
(* The three orderings of the planner *)

\* One action of each family is offered, and every check of a single
\* hypothesis has the same target (_primary_hypothesis).
Offers ==
  {S \in SUBSET Catalogue :
     /\ {a.family : a \in S} = {a.family : a \in Catalogue}
     /\ \A a, b \in S :
          /\ a.family = b.family => a = b
          /\ a.other = None /\ b.other = None => None \in {a.target, b.target} \/ a.target = b.target}

\* Fault: whatever is legal may be tried again.
ScreenedFault(offered) == offered

\* _screen
Screened(offered) == {a \in offered : Repeatable(a) \/ ~AlreadyExecuted(a)}

\* Fault: affordability is asked of a ledger that is made for the question.
AffordableFault(offered) ==
  {a \in Screened(offered) : \E r \in {relation} : Unspent(r)!Refusal(a.family) = ""}

\* _affordable: reserve() on a copy of the ledger.
Affordable(offered) ==
  {a \in Screened(offered) : \E r \in {relation} : LedgerOf(r)!Refusal(a.family) = ""}

\* Fault: the second action is probed on the ledger as it is.
SecondsFault(a, actions) == {b \in actions : b # a \/ Repeatable(a)}

\* What can follow a: not a again unless it may be repeated, and only what the
\* ledger still takes when a is held.
Seconds(a, actions) ==
  {b \in actions : /\ b # a \/ Repeatable(a)
                   /\ \E r \in {relation} : Holding(r, a.family)!Refusal(b.family) = ""}

\* Bins name the view of an action by its family.
BinsOf(a, key) == Lookup(relation, key, a.family, a.family)
Estimate(a, key) == CHOOSE b \in BinsOf(a, key) : TRUE

\* No PlannerError: each estimate is there, once, and so are the successors and
\* their estimates when two steps are looked at.
Thinks(actions, key) ==
  \A a \in actions :
    /\ Cardinality(BinsOf(a, key)) = 1
    /\ Depth = 2 =>
         /\ Estimate(a, key).next # {}
         /\ \A s \in Estimate(a, key).next, b \in Seconds(a, actions) :
              Cardinality(BinsOf(b, s[2])) = 1

\* The best that a successor state offers; 0 when nothing can follow.
BestAfter(a, actions, key) ==
  LET Values == {Utility(Estimate(b, key)) : b \in Seconds(a, actions)}
  IN  IF Values = {} THEN 0 ELSE Max(Values)

\* In parts of Whole: U(a) and, two steps deep, the expected best after it.
ValueOf(a, actions, key, depth) ==
  Whole * Utility(Estimate(a, key))
    + (IF depth = 1 THEN 0
       ELSE MapThenSumSet(LAMBDA s : s[1] * BestAfter(a, actions, s[2]), Estimate(a, key).next))

\* Canonical identities begin with the family, so the alphabet decides.
Alphabet == <<"ALTERNATIVE_RECALL", "ATTRIBUTE_DECOMPOSITION", "CONTRAST_VERIFY",
              "DEFINITION_RECALL", "INDEPENDENT_RECALL", "LISTING_ELIMINATION",
              "MULTI_VIEW_RECALL", "SEMANTIC_VERIFY", "SET_EXPANSION", "UNARY_VERIFY">>
Rank(a) == CHOOSE i \in DOMAIN Alphabet : Alphabet[i] = a.family

IsBest(a, actions, key) ==
  \A b \in actions \ {a} :
    LET va == ValueOf(a, actions, key, Depth)
        vb == ValueOf(b, actions, key, Depth)
    IN  va > vb \/ (va = vb /\ Rank(a) < Rank(b))

\* Strictly greater: at tau_continue itself the planner stops.
Worthwhile(a, actions, key) == ValueOf(a, actions, key, Depth) > Whole * Weights.tau

=============================================================================
