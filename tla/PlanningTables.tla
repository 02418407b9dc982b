--------------------------- MODULE PlanningTables ---------------------------
(***************************************************************************)
(* What TRAIN gives the planner of Modules 20 and 21, before any query.    *)
(*                                                                         *)
(* control/relation_budget.py: the special purposes that each relation     *)
(* protects (Table 6) and the plan of a query, which is the calibrated     *)
(* envelope of its relation.  The plan gives the constants of the query's  *)
(* BudgetLedger: a purpose that the relation declares is one of its two    *)
(* pools.                                                                  *)
(*                                                                         *)
(* control/historical_bins.py: the history that every estimate of the      *)
(* planner is read from.  A bin holds the six estimates of one family of   *)
(* actions in one bin of states; a state is binned by the cuts that the    *)
(* package declares; a state without a bin falls back to pooled ones, and  *)
(* an estimate that is missing or ambiguous is never zero: it raises.      *)
(* Probabilities are in parts of Whole.                                    *)
(***************************************************************************)
EXTENDS Integers, Sequences, FiniteSets, FiniteSetsExt

CONSTANTS
  Calibration,  \* relation |-> RelationBudgetCalibration
  Bins,         \* HistoricalBinPackage.bins
  Fallback,     \* fallback_state_bin, None when the package declares none
  Cuts,         \* numeric feature |-> its ascending boundaries
  Weights,      \* PlannerCalibration: the six coefficients and tau
  Whole,        \* the denominator of the successors' probabilities
  NA            \* a feature of which nothing is known, and no fallback

-----------------------------------------------------------------------------
(* Table 6 *)

\* RELATION_BUDGET_POLICIES: the special reserve column of Table 6.
Declared(r) ==
  CASE r = "countryLandBordersCountry" -> <<"REVERSE_SINGLETON">>
    [] r \in {"hasArea", "hasCapacity"} -> <<"CROSS_UNIT", "CONTRAST">>
    [] r = "awardWonBy" -> <<"MISSINGNESS", "REVERSE">>
    [] r = "personHasCityOfDeath" -> <<"FRESHNESS", "CANDIDATE_FREE">>
    [] r = "companyTradesAtStockExchange" -> <<"FRESHNESS", "PARENT_SUBSIDIARY">>

Declares(r, p) == \E i \in DOMAIN Declared(r) : Declared(r)[i] = p

\* The pool of the ledger that stands for a purpose of the relation.
Pool(r, p) ==
  IF p = "none" THEN "none"
  ELSE IF ~Declares(r, p) THEN "undeclared"
  ELSE IF Declared(r)[1] = p THEN "special1" ELSE "special2"

\* RelationBudgetCalibration.__post_init__, and the checks of build_plan.
ASSUME CeilingAssumption ==
  \A r \in DOMAIN Calibration :
    /\ Calibration[r].hardCalls \in Nat /\ Calibration[r].hardTokens \in Nat
    /\ Calibration[r].discoveryCap \in 0..Calibration[r].hardCalls
    /\ Calibration[r].verificationCap \in 0..Calibration[r].hardCalls
ASSUME ReserveAssumption ==
  \A r \in DOMAIN Calibration :
    LET c == Calibration[r] IN
      /\ c.verificationReserve \in 0..c.verificationCap
      /\ \A p \in DOMAIN c.special : Declares(r, p) /\ c.special[p] \in Nat
      /\ c.verificationReserve + MapThenSumSet(LAMBDA p : c.special[p], DOMAIN c.special)
           <= c.hardCalls

-----------------------------------------------------------------------------
(* build_plan: the envelopes of a query *)

Smaller(m, n) == IF m < n THEN m ELSE n
ClassCapOf(r) == [c \in {"DISCOVERY", "VERIFICATION"} |->
  Smaller(IF c = "DISCOVERY" THEN Calibration[r].discoveryCap
          ELSE Calibration[r].verificationCap, Calibration[r].hardCalls)]
ReserveOf(r) == [pool \in {"special1", "special2"} |->
  LET Held == {p \in DOMAIN Calibration[r].special : Pool(r, p) = pool}
  IN  IF Held = {} THEN 0 ELSE Calibration[r].special[CHOOSE p \in Held : TRUE]]

-----------------------------------------------------------------------------
(* The history *)

\* HistoricalActionBin.__post_init__, StateBinningSpec, PlannerCalibration.
ASSUME HistoryAssumption ==
  /\ \A b \in Bins :
       /\ b.gain >= 0 /\ b.cost >= 0 /\ b.redundancy >= 0 /\ b.fp >= 0
       /\ b.next # {} => MapThenSumSet(LAMBDA s : s[1], b.next) = Whole
       /\ \A s, t \in b.next : s[2] = t[2] => s = t
  /\ \A b, c \in Bins :
       <<b.relation, b.program, b.family, b.target>> = <<c.relation, c.program, c.family, c.target>>
         /\ b.state = c.state => b = c
  /\ \A f \in DOMAIN Cuts : \A i, j \in DOMAIN Cuts[f] : i < j => Cuts[f][i] < Cuts[f][j]
  /\ \A w \in {"alpha", "beta", "gamma", "delta", "eta", "kappa"} : Weights[w] >= 0

ProgramOf(r) ==
  CASE r \in {"hasArea", "hasCapacity"} -> "NUMERIC"
    [] r = "awardWonBy" -> "LARGE_OPEN_SET"
    [] r = "personHasCityOfDeath" -> "NULL_SINGLE"
    [] OTHER -> "SMALL_SET"

\* StateBinningSpec.bucket: NA is a bucket of its own.
Bucket(f, value) ==
  IF value = NA THEN NA ELSE Cardinality({i \in DOMAIN Cuts[f] : value >= Cuts[f][i]})

\* state_bin_key, of what Module 19 says of the query.
KeyOf(gap) == [f \in DOMAIN Cuts |-> Bucket(f, gap[f])]

-----------------------------------------------------------------------------
(* HistoricalBinPackage.lookup *)

Places(r, key) ==
  <<<<r, ProgramOf(r), key>>>> \o
  (IF Fallback = NA THEN <<>>
   ELSE <<<<r, ProgramOf(r), Fallback>>,
          <<"__any_relation__", ProgramOf(r), Fallback>>,
          <<"__any_relation__", "__any_program__", Fallback>>>>)

MatchesAt(place, family, target) ==
  {b \in Bins : /\ b.relation = place[1] /\ b.program = place[2] /\ b.state = place[3]
                /\ b.family = family /\ b.target \in {"", target}}

\* The first place that has any, and of those the ones that name the target.
Lookup(r, key, family, target) ==
  LET At(i) == MatchesAt(Places(r, key)[i], family, target)
      Filled == {i \in DOMAIN Places(r, key) : At(i) # {}}
      Matches == IF Filled = {} THEN {} ELSE At(Min(Filled))
      Specific == {b \in Matches : b.target # ""}
  IN  IF Specific # {} THEN Specific ELSE Matches

\* utility: three rewards and three penalties, and no seventh term.
Utility(b) ==
  Weights.alpha * b.gain + Weights.beta * b.deltaR + Weights.gamma * b.deltaH
    - Weights.delta * b.cost - Weights.eta * b.redundancy - Weights.kappa * b.fp

=============================================================================
