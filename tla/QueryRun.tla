------------------------------ MODULE QueryRun ------------------------------
(***************************************************************************)
(* pipeline.py, CoverPipeline.run and the precharge cycle below it.  Each   *)
(* query is acquired, its ledger is opened on what the acquisition spent,  *)
(* and control rounds follow: an action is chosen, its whole cost is held, *)
(* it runs against the model runtimes, and the hold is closed on what the  *)
(* runtimes' counters say it spent.  An action may raise before, between   *)
(* or after its neural calls; an ordinary failure becomes a PIPELINE_ERROR *)
(* row, a spend that the hold cannot represent stops the run.              *)
(* The variables of BudgetLedger are the ledger of the current query.      *)
(***************************************************************************)
EXTENDS BudgetLedger

CONSTANTS
  Repeatable,   \* actions that may run again after they ran
  BudgetCalls, BudgetTokens,  \* PipelineConfig.budget of the contract, with the
                \* extra of TRAIN collection while that is active
  MaxQueries,   \* queries of the run
  MaxRounds,    \* bound on the control rounds of a query
  MaxAcquired   \* bound on the calls and tokens of an acquisition

ASSUME RunAssumption ==
  /\ Repeatable \subseteq Actions
  /\ BudgetCalls \in Nat /\ BudgetTokens \in Nat
  /\ MaxQueries \in Nat /\ MaxRounds \in Nat /\ MaxAcquired \in Nat
  /\ MaxRounds <= MaxReservations

VARIABLES
  loop,       \* the control loop: "v3", or the "sweep" of Modules 17 and 18
  phase,      \* where run() is: see Phases
  physical,   \* [calls, tokens] the counters of the resident runtimes
  baseline,   \* the counters when the current query began
  snapshot,   \* graph.budget_snapshot, which the row will report
  opened,     \* the current query has its ledger
  flight,     \* the action that runs and the counters before it
  executed,   \* actions this query already ran
  rounds,     \* control rounds this query took
  rows        \* stopped_reason and calls_used of the rows collected so far

progress == <<phase, executed, rounds, rows>>
meters == <<physical, baseline, snapshot>>
runVars == <<loop, progress, meters, opened, flight, vars>>

Phases == {"ACQUIRE", "CONTROL", "ACTION", "DONE", "HALTED"}
Meter == [calls : Nat, tokens : Nat]
Row == [outcome : {"predicted", "pipeline_error"}, calls : Nat]

Plus(m, n) == [calls |-> m.calls + n.calls, tokens |-> m.tokens + n.tokens]

\* physical_delta
Since(m) == [calls |-> physical.calls - m.calls, tokens |-> physical.tokens - m.tokens]

-----------------------------------------------------------------------------
(* Rows.  _collect, and the start of the next query. *)

\* Fault: a failed query leaves no row and is taken up again.
EmitFault(outcome, calls) ==
  /\ rows' = IF outcome = "predicted"
             THEN Append(rows, [outcome |-> outcome, calls |-> calls]) ELSE rows
  /\ phase' = IF Len(rows') = MaxQueries THEN "DONE" ELSE "ACQUIRE"
  /\ baseline' = physical
  /\ snapshot' = [calls |-> 0, tokens |-> 0]
  /\ opened' = FALSE
  /\ executed' = {}
  /\ rounds' = 0

Emit(outcome, calls) ==
  /\ rows' = Append(rows, [outcome |-> outcome, calls |-> calls])
  /\ phase' = IF Len(rows') = MaxQueries THEN "DONE" ELSE "ACQUIRE"
  /\ baseline' = physical
  /\ snapshot' = [calls |-> 0, tokens |-> 0]
  /\ opened' = FALSE
  /\ executed' = {}
  /\ rounds' = 0

\* Any exception but AccountingInvariantError costs this query only.
EmitError == Emit("pipeline_error", 0)

-----------------------------------------------------------------------------
(* Acquisition: enumerate_query and verify_graph.  The specialists spend    *)
(* calls that the snapshot does not record. *)

Acquire ==
  /\ phase = "ACQUIRE"
  /\ \E spent \in [calls : 0..MaxAcquired, tokens : 0..MaxAcquired] :
       /\ physical' = Plus(physical, spent)
       /\ snapshot' \in [calls : 0..Least(spent.calls, BudgetCalls), tokens : 0..spent.tokens]
  /\ phase' = "CONTROL"
  /\ UNCHANGED <<loop, baseline, opened, flight, executed, rounds, rows, vars>>

\* Acquisition, planning or selection raises: nothing is held at that point.
QueryFails ==
  /\ phase \in {"ACQUIRE", "CONTROL"}
  /\ EmitError
  /\ UNCHANGED <<loop, physical, flight, vars>>

\* BudgetLedger.__init__
BuildLedger(before) ==
  /\ prior' = before
  /\ reservations' = <<>>
  /\ reservedCalls' = 0 /\ reservedTokens' = 0
  /\ settledCalls' = 0 /\ settledTokens' = 0
  /\ classCommitted' = [c \in Classes |-> 0]
  /\ purposeCommitted' = [p \in Special |-> 0]
  /\ answer' = "CLOSED"

\* Fault: the spend of the acquisition is left outside the envelope.
OpenLedgerFault ==
  /\ phase = "CONTROL" /\ ~opened
  /\ opened' = TRUE
  /\ BuildLedger([calls |-> 0, tokens |-> 0])
  /\ UNCHANGED <<loop, progress, meters, flight>>

\* _budget_ledger_for: built once per query, on what it has spent so far.
OpenLedger ==
  /\ phase = "CONTROL" /\ ~opened
  /\ opened' = TRUE
  /\ BuildLedger(Since(baseline))
  /\ UNCHANGED <<loop, progress, meters, flight>>

-----------------------------------------------------------------------------
(* One control round *)

\* What may be chosen, in the loop of _run_v3_control_loop or of
\* _execute_selected_verifications (whose two catalogues are one set of actions
\* here, in any order): neither run before, unless it is repeatable, nor, in
\* the V3 loop, beyond what the snapshot leaves of the query's budget.
Selectable(a) ==
  /\ phase = "CONTROL" /\ opened /\ rounds < MaxRounds
  /\ a \in executed => loop = "v3" /\ a \in Repeatable
  /\ loop = "v3" =>
       /\ Calls[a] <= PosPart(BudgetCalls - snapshot.calls)
       /\ Tokens[a] <= PosPart(BudgetTokens - snapshot.tokens)

\* Module 20 denies the hold: the action never starts, is not offered again,
\* and the V3 loop ends with it.
Refuse(a) ==
  /\ Selectable(a)
  /\ Deny(a)
  /\ executed' = executed \cup {a}
  /\ rounds' = IF loop = "v3" THEN MaxRounds ELSE rounds + 1
  /\ UNCHANGED <<loop, phase, rows, meters, opened, flight>>

Admit(a) ==
  /\ Selectable(a)
  /\ Reserve(a)
  /\ flight' = [action |-> a, hold |-> Len(reservations'), before |-> physical]
  /\ phase' = "ACTION"
  /\ executed' = executed \cup {a}
  /\ rounds' = rounds + 1
  /\ UNCHANGED <<loop, rows, meters, opened>>

\* One generate or score_labels.  A runtime may make more calls than the
\* descriptor declared, or generate more; MaxOverrun bounds by how much.
MaxOverrun == 1

NeuralCall(tokens) ==
  /\ phase = "ACTION"
  /\ Since(flight.before).calls < Calls[flight.action] + MaxOverrun
  /\ Since(flight.before).tokens + tokens <= Tokens[flight.action] + MaxOverrun
  /\ physical' = Plus(physical, [calls |-> 1, tokens |-> tokens])
  /\ UNCHANGED <<loop, progress, baseline, snapshot, opened, flight, vars>>

-----------------------------------------------------------------------------
(* _release_hold: exactly one of settle and cancel, on every way out. *)

Fits(spent) ==
  spent.calls <= Calls[flight.action] /\ spent.tokens <= Tokens[flight.action]

\* AccountingInvariantError: the hold stays open and no row is collected.
Overruns ==
  /\ phase = "ACTION"
  /\ ~Fits(Since(flight.before))
  /\ phase' = "HALTED"
  /\ UNCHANGED <<loop, executed, rounds, rows, meters, opened, flight, vars>>

\* Fault: an action that spent nothing is taken for one that has no hold.
ActionReturnsFault ==
  LET spent == Since(flight.before)
  IN  /\ phase = "ACTION"
      /\ Fits(spent)
      /\ IF spent.calls = 0
         THEN UNCHANGED vars
         ELSE Settle(flight.hold, spent.calls, spent.tokens)
      /\ snapshot' = IF loop = "v3" THEN Plus(snapshot, spent) ELSE snapshot
      /\ phase' = "CONTROL"
      /\ UNCHANGED <<loop, executed, rounds, rows, physical, baseline, opened, flight>>

\* Fault: the snapshot of the graph stays as the acquisition wrote it.
ActionReturnsUnreported ==
  LET spent == Since(flight.before)
  IN  /\ phase = "ACTION"
      /\ Fits(spent)
      /\ Settle(flight.hold, spent.calls, spent.tokens)
      /\ phase' = "CONTROL"
      /\ UNCHANGED <<loop, executed, rounds, rows, meters, opened, flight>>

ActionReturns ==
  LET spent == Since(flight.before)
  IN  /\ phase = "ACTION"
      /\ Fits(spent)
      /\ Settle(flight.hold, spent.calls, spent.tokens)
      /\ snapshot' = IF loop = "v3" THEN Plus(snapshot, spent) ELSE snapshot
      /\ phase' = "CONTROL"
      /\ UNCHANGED <<loop, executed, rounds, rows, physical, baseline, opened, flight>>

\* Fault: the hold of a failed action is refunded, whatever it spent.
ActionRaisesFault ==
  /\ phase = "ACTION"
  /\ Fits(Since(flight.before))
  /\ Cancel(flight.hold)
  /\ EmitError
  /\ UNCHANGED <<loop, physical, flight>>

ActionRaises ==
  LET spent == Since(flight.before)
  IN  /\ phase = "ACTION"
      /\ Fits(spent)
      /\ IF spent.calls = 0 /\ spent.tokens = 0
         THEN Cancel(flight.hold)
         ELSE Settle(flight.hold, spent.calls, spent.tokens)
      /\ EmitError
      /\ UNCHANGED <<loop, physical, flight>>

-----------------------------------------------------------------------------

\* No action is left, the planner stops or the rounds are used up: finalize.
Decide ==
  /\ phase = "CONTROL"
  /\ Emit("predicted", snapshot.calls)
  /\ UNCHANGED <<loop, physical, flight, vars>>

\* run() has returned, or the run was stopped.
Terminated ==
  /\ phase \in {"DONE", "HALTED"}
  /\ UNCHANGED runVars

RunInit ==
  /\ LedgerInit /\ prior = [calls |-> 0, tokens |-> 0]
  /\ loop \in {"v3", "sweep"}
  /\ phase = (IF MaxQueries = 0 THEN "DONE" ELSE "ACQUIRE")
  /\ physical = [calls |-> 0, tokens |-> 0]
  /\ baseline = physical /\ snapshot = physical
  /\ opened = FALSE
  /\ flight \in [action : Actions, hold : {0}, before : {physical}]
  /\ executed = {} /\ rounds = 0 /\ rows = <<>>

RunNext ==
  \/ Acquire \/ QueryFails \/ OpenLedger
  \/ \E a \in Actions : Refuse(a) \/ Admit(a)
  \/ \E tokens \in 0..1 : NeuralCall(tokens)
  \/ Overruns \/ ActionReturns \/ ActionRaises
  \/ Decide \/ Terminated

RunSpec == RunInit /\ [][RunNext]_runVars /\ WF_runVars(RunNext)

-----------------------------------------------------------------------------
(* Properties *)

RunTypeOK ==
  /\ TypeOK
  /\ loop \in {"v3", "sweep"} /\ phase \in Phases
  /\ physical \in Meter /\ baseline \in Meter /\ snapshot \in Meter
  /\ opened \in BOOLEAN
  /\ flight \in [action : Actions, hold : Nat, before : Meter]
  /\ executed \subseteq Actions
  /\ rounds \in 0..MaxRounds
  /\ rows \in Seq(Row) /\ Len(rows) <= MaxQueries

\* "The precharge is closed on every exit": between two actions nothing is
\* held, however the last one ended, and while one runs only its own hold is.
HoldsAreClosed ==
  /\ phase = "CONTROL" /\ opened => Outstanding = {}
  /\ phase = "ACTION" => Outstanding = {flight.hold}

\* The ledger and the runtimes' own counters tell the same story: a call is
\* neither forgotten because its action failed nor charged twice because the
\* acquisition is inside the envelope.
LedgerMatchesMeters ==
  phase = "CONTROL" /\ opened =>
    Since(baseline) = [calls |-> prior.calls + settledCalls,
                       tokens |-> prior.tokens + settledTokens]

\* "No action may exceed the hard cap": as long as no action overran its hold,
\* the calls and tokens a query really spent stay under its ceiling, or under
\* what its acquisition spent, in the middle of an action too.
SpendStaysUnderCap ==
  opened /\ phase # "HALTED" /\ (phase = "ACTION" => Fits(Since(flight.before))) =>
    /\ Since(baseline).calls <=
         IF prior.calls > HardCalls THEN prior.calls ELSE HardCalls
    /\ Since(baseline).tokens <=
         IF prior.tokens > HardTokens THEN prior.tokens ELSE HardTokens

RowIsAccountedFor ==
  Len(rows') > Len(rows) /\ opened =>
    /\ Outstanding' = {}
    /\ prior'.calls + settledCalls' = Since(baseline).calls
    /\ prior'.tokens + settledTokens' = Since(baseline).tokens

\* A row is collected, answered or failed, only when every call of its query
\* is on its ledger and no hold is left: a broken accounting never becomes a
\* PIPELINE_ERROR row.
EveryRowIsAccountedFor == [][RowIsAccountedFor]_runVars

\* "One query must not kill the run": every query gets its row, unless the
\* accounting broke.
RunCompletes == <>(Len(rows) = MaxQueries \/ phase = "HALTED")

\* The V3 loop takes what is left of the query's budget from the graph's
\* snapshot, the ledger enforces a ceiling of its own, and neither reads the
\* other: yet what the runtimes ran since the ledger was opened stays within the
\* budget of the contract, over any series of cheap, dear, refunded and free
\* actions and in the middle of one, unless an action overran its hold.
V3SpendStaysInBudget ==
  /\ loop = "v3" /\ opened /\ phase # "HALTED"
  /\ phase = "ACTION" => Fits(Since(flight.before))
  => /\ Since(baseline).calls - prior.calls <= BudgetCalls
     /\ Since(baseline).tokens - prior.tokens <= BudgetTokens
=============================================================================
