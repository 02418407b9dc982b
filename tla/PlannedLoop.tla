----------------------------- MODULE PlannedLoop -----------------------------
(***************************************************************************)
(* pipeline.py, _run_v3_control_loop in calibrated production: V3Loop with  *)
(* Module 21 as the one that chooses (_plan_next_action) and Module 20 as   *)
(* the one that pays.  An action is planned over copies of the ledger, then *)
(* fitted to the snapshot of the core budget, then held, run and settled    *)
(* (_execute_v3_action_record).                                             *)
(***************************************************************************)
EXTENDS MicroPlanner

VARIABLE planned   \* what the planner returned and nothing has been done with

plannedVars == <<v3Vars, ledgerVars, planned>>

Ready == Choosing /\ planned = None

\* _plan_next_action returns an action.
Plan ==
  /\ Ready
  /\ \E gap \in Gaps, offered \in Offers :
       LET actions == Affordable(offered) IN
         /\ Thinks(actions, KeyOf(gap))
         /\ \E a \in actions :
              /\ IsBest(a, actions, KeyOf(gap)) /\ Worthwhile(a, actions, KeyOf(gap))
              /\ planned' = a
  /\ UNCHANGED <<v3Vars, ledgerVars>>

\* Or STOP: nothing is legal, nothing legal can be paid, or nothing is worth it.
PlanStop ==
  /\ Ready
  /\ \E gap \in Gaps, offered \in Offers :
       LET actions == Affordable(offered) IN
         /\ Thinks(actions, KeyOf(gap))
         /\ \A a \in actions :
              IsBest(a, actions, KeyOf(gap)) => ~Worthwhile(a, actions, KeyOf(gap))
  /\ Finish
  /\ UNCHANGED <<ledgerVars, planned>>

\* Or raises, which costs the query its row.
PlanRaises ==
  /\ Ready
  /\ \E gap \in Gaps, offered \in Offers : ~Thinks(Affordable(offered), KeyOf(gap))
  /\ PlannerFails
  /\ UNCHANGED <<ledgerVars, planned>>

\* The rounds are used up, or the state is settled.
LoopEnds ==
  /\ at = "choose" /\ ~Choosing
  /\ Finish
  /\ UNCHANGED <<ledgerVars, planned>>

\* _v3_action_selectability: the snapshot has no call left for what is planned,
\* or not its tokens, which V3Loop does not count.
Unfit ==
  /\ planned # None
  /\ CallsLeft < 1 \/ TokenBound[planned.family] > 0
  /\ Finish
  /\ planned' = None
  /\ UNCHANGED ledgerVars

\* _precharge: the hold, or a refusal, which ends the loop.  (That such a round is
\* remembered first is left out: PlansAreFunded says that there is none.)
Precharge ==
  /\ planned # None /\ CallsLeft >= 1
  /\ \E r \in {relation} :
       IF LedgerOf(r)!Refusal(planned.family) = ""
       THEN /\ chosen' = planned /\ at' = "execute"
            /\ UNCHANGED <<relation, collection, found, edges, history, calls>>
            /\ LedgerOf(r)!Reserve(planned.family)
       ELSE Finish /\ LedgerOf(r)!Deny(planned.family)
  /\ planned' = None

\* _release_hold: what ran is settled for what it measured; what raised is
\* cancelled if it had not reached the model.
Release(spent, executed) ==
  \E r \in {relation}, i \in {Len(reservations)} :
    IF ~executed /\ spent = 0 THEN LedgerOf(r)!Cancel(i)
    ELSE \E tokens \in 0..(IF spent = 0 THEN 0 ELSE TokenBound[chosen.family]) :
           LedgerOf(r)!Settle(i, spent, tokens)

Perform ==
  /\ ExecuteRecall \/ ExecuteCheck \/ ExecuteUnscored
  /\ IF at' = "failed" THEN \E spent \in 0..1 : Release(spent, FALSE)
     ELSE Release(calls' - calls, TRUE)
  /\ UNCHANGED planned

Rests == at \in {"finalized", "failed"} /\ UNCHANGED plannedVars

PlannedInit ==
  /\ V3Init /\ ~collection
  /\ \E r \in {relation} : LedgerOf(r)!LedgerInit
  /\ calls <= prior.calls
  /\ planned = None

PlannedNext ==
  \/ Plan \/ PlanStop \/ PlanRaises \/ LoopEnds
  \/ Unfit \/ Precharge \/ Perform \/ Rests

PlannedSpec == PlannedInit /\ [][PlannedNext]_plannedVars

-----------------------------------------------------------------------------
(* Properties *)

\* A query under the planner and the ledger is one that the V3 loop allows, so
\* that nothing proved of the loop rests on who chooses: the step from the
\* planner's answer to the hold changes nothing the answer was given on.
ImplementsLoop == V3Spec

\* What the planner counts on can be paid: the precharge never refuses what was
\* planned (and so never ends a loop that had a cheaper choice), and two steps
\* deep no pair of actions is valued that the ledger could not hold together
\* (_affordable, _lookahead, _precharge).
PlansAreFunded ==
  \A r \in {relation} :
    /\ planned # None => LedgerOf(r)!Refusal(planned.family) = ""
    /\ Ready => \A offered \in Offers : \A a \in Affordable(offered) :
         \A b \in Seconds(a, Affordable(offered)) :
           /\ LedgerOf(r)!committedCalls + 2 <= Calibration[r].hardCalls
           /\ SpendClass[a.family] = SpendClass[b.family] =>
                classCommitted[SpendClass[a.family]] + 2 <= ClassCapOf(r)[SpendClass[a.family]]

=============================================================================
