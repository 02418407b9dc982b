--------------------------- MODULE StagedControl ---------------------------
(***************************************************************************)
(* pipeline.py: the core control of one evidence graph under the hard      *)
(* budget of its contract.  Phase A (enumerate_query) and the phases that  *)
(* follow it (verify_graph, resume) run one bounded loop each: the          *)
(* controller chooses an action over the whole legal space, and the phase  *)
(* runs it when the model it needs is resident.  In staged mode one model  *)
(* is resident at a time: an action of the other role is stored on the     *)
(* graph and run by a later phase, before anything else is chosen.         *)
(* decide_graph emits the row, and refuses work that is still pending.     *)
(***************************************************************************)
EXTENDS Integers, FiniteSets

CONSTANTS
  Actions,      \* instances the controller may choose
  Role,         \* Role[a]: the model role of action a
  Cost,         \* Cost[a]: the neural calls it needs with cold caches
  Views,        \* RUN_VIEW and RUN_FACET, the structural actions
  Repeatable,   \* RESAMPLE of a sampled view
  Verifies,     \* VERIFY and ADVERSARIAL_VERIFY
  MaxCalls, MaxTokens,  \* Budget.max_calls and max_generated_tokens
  MaxSteps,     \* max_steps_per_query, of each phase
  None

Roles == {"enumerator", "verifier"}

ASSUME StagedAssumption ==
  /\ Role \in [Actions -> Roles]
  /\ Cost \in [Actions -> Nat \ {0}]
  /\ Views \subseteq Actions /\ Repeatable \subseteq Actions \ Views
  /\ Verifies \subseteq Actions
  /\ MaxCalls \in Nat \ {0} /\ MaxTokens \in Nat \ {0} /\ MaxSteps \in Nat \ {0}
  /\ None \notin Actions \cup [calls : Nat, tokens : Nat]

VARIABLES
  staged,      \* ExecutionMode.STAGED, else INTERLEAVED
  gated,       \* the relation has an existence gate, of the verifier role
  cold,        \* calibration is on, and no query of the relation was gated yet
  at,          \* the phase that runs, or where the graph waits: see Places
  verified,    \* verify_graph returned at least once
  gate,        \* graph.gate_result
  live,        \* the Budget object of the phase
  steps,       \* iterations of the phase's loop
  inHand,      \* the pending action this phase took and has not run yet
  snapshot,    \* graph.budget_snapshot, None when it was never written
  pending,     \* graph.pending_action
  executed,    \* RCSEState.executed_actions
  verificationCalls,  \* graph.verification_calls
  row,         \* Prediction.calls_used, None before decide_graph
  spent,       \* neural calls really made for this graph
  runs         \* runs[a]: how often a really ran

config == <<staged, gated, cold>>
phaseVars == <<live, steps, inHand>>
graphVars == <<gate, snapshot, pending, executed, verificationCalls>>
ghosts == <<spent, runs>>
stagedVars == <<config, at, verified, row, phaseVars, graphVars, ghosts>>

Loops == {"enumerate", "verify", "resume"}
Places == {"new", "stored", "decided"} \cup Loops

NoSpend == [calls |-> 0, tokens |-> 0]
Figure == [calls : Nat, tokens : Nat]

\* Budget.exhausted and Budget.calls_left
Exhausted(budget) == budget.calls >= MaxCalls \/ budget.tokens >= MaxTokens
CallsLeft(budget) == IF budget.calls < MaxCalls THEN MaxCalls - budget.calls ELSE 0

\* What a later phase charges its fresh Budget with.
Carried == IF snapshot = None THEN NoSpend ELSE snapshot

\* Fault: in interleaved mode, too, phase B holds the verifier alone.
ResidentFault(loop) ==
  IF loop = "verify" THEN {"verifier"}
  ELSE IF staged THEN {"enumerator"} ELSE Roles

\* The roles whose runtime is resident in this phase: _phase_b_roles, the
\* staged test of _adaptive_discovery, and resume's own set.
Resident(loop) ==
  IF ~staged THEN Roles
  ELSE IF loop = "verify" THEN {"verifier"} ELSE {"enumerator"}

-----------------------------------------------------------------------------
(* Entering a phase *)

\* score_gate: the question itself and, the first time that a relation is gated
\* with calibration on, its content-free control.  _run_gate returns 1.
GateCalls == IF cold THEN 2 ELSE 1

\* enumerate_query up to the loop.  The gate is scored here, and charged as one
\* call, unless its model is absent; a confident NO ends the phase with no
\* snapshot.
Enumerate ==
  /\ at = "new"
  /\ IF gated /\ ~staged
     THEN /\ gate' \in {"open", "negative"}
          /\ live' = [NoSpend EXCEPT !.calls = 1]
          /\ spent' = spent + GateCalls
     ELSE UNCHANGED <<gate, live, spent>>
  /\ at' = IF gate' = "negative" THEN "stored" ELSE "enumerate"
  /\ steps' = 0
  /\ UNCHANGED <<config, verified, inHand, snapshot, pending, executed,
                 verificationCalls, row, runs>>

\* Fault: the action stays on the graph after a phase took it.
TakePendingFault(loop) ==
  /\ inHand' = IF pending # None /\ Role[pending] \in Resident(loop) THEN pending ELSE None
  /\ UNCHANGED pending

\* _take_pending: the stored action, when its role is resident.
TakePending(loop) ==
  IF pending # None /\ Role[pending] \in Resident(loop)
  THEN inHand' = pending /\ pending' = None
  ELSE inHand' = None /\ UNCHANGED pending

\* Fault: the phase starts on an empty budget.
StartLoopFault(loop) ==
  /\ at' = loop
  /\ live' = NoSpend
  /\ steps' = 0
  /\ TakePending(loop)

\* _controlled_phase up to its loop
StartLoop(loop) ==
  /\ at' = loop
  /\ live' = Carried
  /\ steps' = 0
  /\ TakePending(loop)

\* Who calls the phases: run calls verify_graph once, a staged orchestrator
\* also goes by pending_role until nothing is pending.
Waits(role) == staged /\ verified /\ pending # None /\ Role[pending] = role

\* Fault: the call of a deferred gate is charged as the phase opens.
EnterVerifyFault ==
  /\ at = "stored"
  /\ ~verified \/ Waits("verifier")
  /\ IF gated /\ gate = "unscored"
     THEN /\ gate' \in {"open", "negative"}
          /\ spent' = spent + GateCalls
          /\ snapshot' = [Carried EXCEPT !.calls = @ + 1]
     ELSE UNCHANGED <<gate, spent, snapshot>>
  /\ IF gate' = "negative"
     THEN verified' = TRUE /\ UNCHANGED <<at, phaseVars, pending>>
     ELSE /\ at' = "verify" /\ live' = snapshot' /\ steps' = 0
                  /\ TakePending("verify") /\ UNCHANGED verified
  /\ UNCHANGED <<config, verificationCalls, executed, row, runs>>

\* verify_graph.  A gate that phase A deferred is scored first; the 1 that
\* _run_gate returns goes to verification_calls, not to the budget.
EnterVerify ==
  /\ at = "stored"
  /\ ~verified \/ Waits("verifier")
  /\ IF gated /\ gate = "unscored"
     THEN /\ gate' \in {"open", "negative"}
          /\ spent' = spent + GateCalls
          /\ verificationCalls' = verificationCalls + 1
     ELSE UNCHANGED <<gate, spent, verificationCalls>>
  /\ IF gate' = "negative"
     THEN verified' = TRUE /\ UNCHANGED <<at, phaseVars, pending>>
     ELSE StartLoop("verify") /\ UNCHANGED verified
  /\ UNCHANGED <<config, snapshot, executed, row, runs>>

\* resume, which leaves a gate-negative graph as it is.
EnterResume ==
  /\ at = "stored" /\ Waits("enumerator")
  /\ gate # "negative"
  /\ StartLoop("resume")
  /\ UNCHANGED <<config, verified, gate, snapshot, executed, verificationCalls, row, ghosts>>

-----------------------------------------------------------------------------
(* One iteration of a loop, and the end of a phase *)

\* Fault: the phase does not write back what it spent.
LeaveFault ==
  /\ at' = "stored"
  /\ verified' = (verified \/ at = "verify")
  /\ inHand' = None
  /\ snapshot' = Carried
  /\ verificationCalls' = verificationCalls +
       (IF at = "verify" THEN live.calls - Carried.calls ELSE 0)
  /\ UNCHANGED <<config, live, steps, gate, executed, row, ghosts>>

\* The phase writes its figures to the graph; verify_graph then adds every
\* call of its phase to verification_calls.
Leave ==
  /\ at' = "stored"
  /\ verified' = (verified \/ at = "verify")
  /\ inHand' = None
  /\ snapshot' = live
  /\ verificationCalls' = verificationCalls +
       (IF at = "verify" THEN live.calls - Carried.calls ELSE 0)
  /\ UNCHANGED <<config, live, steps, gate, executed, row, ghosts>>

\* The budget or the iterations of the phase are used up.
BreakOff ==
  /\ at \in Loops
  /\ Exhausted(live) \/ steps = MaxSteps
  /\ Leave
  /\ UNCHANGED pending

Choosing == at \in Loops /\ ~Exhausted(live) /\ steps < MaxSteps /\ inHand = None

\* choose_action returned STOP.
Stop ==
  /\ Choosing
  /\ Leave
  /\ UNCHANGED pending

\* legal_actions: an action instance runs at most once, unless it is a repeat;
\* repeats only compete once no structural action is left.
Chosen(a) ==
  /\ Choosing
  /\ IF a \in Repeatable THEN Views \subseteq executed ELSE a \notin executed

\* The model that a needs is not resident: a is stored, whatever it costs.
Pend(a) ==
  /\ Chosen(a) /\ Role[a] \notin Resident(at)
  /\ pending' = a
  /\ Leave

\* A planned cost is at most Cost[a]: warm caches make an action cheaper.
TooDear(a) ==
  /\ Chosen(a) /\ Role[a] \in Resident(at)
  /\ Cost[a] > CallsLeft(live)
  /\ Leave
  /\ UNCHANGED pending

\* _execute_action, Budget.charge and record_outcome.  used is measured on the
\* runtimes' counters; judged is what _verify_one returns.
Perform(a, used, tokens) ==
  /\ live' = [calls |-> live.calls + used, tokens |-> live.tokens + tokens]
  /\ spent' = spent + used
  /\ steps' = steps + 1
  /\ executed' = executed \cup {a}
  /\ runs' = [runs EXCEPT ![a] = @ + 1]
  /\ \E judged \in 0..(IF a \in Verifies THEN used ELSE 0) :
       verificationCalls' = verificationCalls + judged
  /\ UNCHANGED <<config, at, verified, gate, snapshot, row, pending>>

\* Views and repeats always generate; a check may find its controls cached, its
\* candidate gone or its labels without logits.
Fewest(a) == IF a \in Views THEN Cost[a] ELSE IF a \in Repeatable THEN 1 ELSE 0

\* Fault: can_afford only asks for one more call.
ExecuteChosenFault(a) ==
  /\ Chosen(a) /\ Role[a] \in Resident(at)
  /\ 1 <= CallsLeft(live)
  /\ \E used \in Fewest(a)..Cost[a], tokens \in 0..1 : Perform(a, used, tokens)
  /\ UNCHANGED inHand

ExecuteChosen(a) ==
  /\ Chosen(a) /\ Role[a] \in Resident(at)
  /\ \E planned \in 1..Cost[a] :
       /\ planned <= CallsLeft(live)
       /\ \E used \in Fewest(a)..planned, tokens \in 0..1 : Perform(a, used, tokens)
  /\ UNCHANGED inHand

\* The pending action runs first, and without another can_afford.
ExecutePending ==
  /\ at \in Loops /\ ~Exhausted(live) /\ steps < MaxSteps
  /\ inHand # None
  /\ inHand' = None
  /\ \E used \in Fewest(inHand)..Cost[inHand], tokens \in 0..1 :
       Perform(inHand, used, tokens)

-----------------------------------------------------------------------------

\* decide_graph: raises, and so emits nothing, while an action is pending and
\* the budget is not exhausted; an exhausted budget abandons the action.
DecideGraph ==
  /\ at = "stored" /\ verified
  /\ pending # None => Exhausted(Carried)
  /\ at' = "decided"
  /\ pending' = None
  /\ row' = Carried.calls
  /\ UNCHANGED <<config, verified, phaseVars, gate, snapshot, executed, verificationCalls, ghosts>>

Decided == at = "decided" /\ UNCHANGED stagedVars

StagedInit ==
  /\ staged \in BOOLEAN /\ gated \in BOOLEAN /\ cold \in BOOLEAN
  /\ at = "new" /\ verified = FALSE
  /\ gate = "unscored"
  /\ live = NoSpend /\ steps = 0 /\ inHand = None
  /\ snapshot = None /\ pending = None /\ executed = {}
  /\ verificationCalls = 0 /\ row = None
  /\ spent = 0 /\ runs = [a \in Actions |-> 0]

StagedNext ==
  \/ Enumerate \/ EnterVerify \/ EnterResume
  \/ BreakOff \/ Stop
  \/ \E a \in Actions : Pend(a) \/ TooDear(a) \/ ExecuteChosen(a)
  \/ ExecutePending
  \/ DecideGraph \/ Decided

StagedSpec == StagedInit /\ [][StagedNext]_stagedVars /\ WF_stagedVars(StagedNext)

-----------------------------------------------------------------------------
(* Properties *)

StagedTypeOK ==
  /\ staged \in BOOLEAN /\ gated \in BOOLEAN /\ cold \in BOOLEAN
  /\ at \in Places /\ verified \in BOOLEAN
  /\ gate \in {"unscored", "open", "negative"}
  /\ live \in Figure /\ steps \in 0..MaxSteps
  /\ inHand \in Actions \cup {None} /\ pending \in Actions \cup {None}
  /\ snapshot \in Figure \cup {None}
  /\ executed \subseteq Actions
  /\ verificationCalls \in Nat /\ spent \in Nat
  /\ row \in Nat \cup {None}
  /\ runs \in [Actions -> Nat]

StoredIsTaken ==
  pending # None /\ pending' # pending =>
    \/ inHand' = pending /\ Role[pending] \in Resident(at')
    \/ at' = "decided" /\ Exhausted(Carried)

TakenIsRun ==
  inHand # None /\ inHand' # inHand => runs' = [runs EXCEPT ![inHand] = @ + 1]

\* "Never silently dropped": an action that was stored for another model is
\* taken over unchanged by a phase that holds its model, and what a phase took
\* is what it runs next; only decide_graph gives one up, on an exhausted budget.
PendedWorkIsKept == [][StoredIsTaken /\ TakenIsRun]_stagedVars

\* No role swap makes the controller run an action twice, also not one that
\* was stored, taken and run in a phase that did not choose it.
EachActionRunsOnce == \A a \in Actions \ Repeatable : runs[a] <= 1

\* The calls of the gate that no budget was charged with: its control in either
\* mode, and the question itself when phase A deferred it.
OffBudget ==
  IF ~gated \/ gate = "unscored" THEN 0
  ELSE (IF staged THEN 1 ELSE 0) + (IF cold THEN 1 ELSE 0)

\* No counter resets at a role swap: whenever the graph waits between two
\* phases its snapshot and the gate's uncharged calls together are every call
\* that was made for it, none lost and none twice, and the row reports the
\* snapshot.
SnapshotIsComplete ==
  at \in {"stored", "decided"} /\ snapshot # None =>
    /\ snapshot.calls + OffBudget = spent
    /\ row # None => row = snapshot.calls

\* With both models resident, the control of the gate is all that can take a
\* query beyond its ceiling: not the gate itself, not a multi-call action on the
\* last call, not the second loop.  That control is uncharged, though types.py:642
\* counts a "calibration control" among the calls of the "hard inference budget".
InterleavedCeiling == ~staged => spent <= MaxCalls + OffBudget

\* In staged mode too, what is beyond the ceiling is the gate's uncharged calls
\* and at most one action, begun under it: nothing starts on an overrun budget.
OverrunIsOneAction ==
  spent > MaxCalls + OffBudget =>
    \E a \in executed : spent < MaxCalls + OffBudget + Cost[a]

\* pipeline.py:3573-3574 tells whoever follows pending_role to "run the staged
\* orchestrator to completion": every graph gets its row.
EveryGraphIsDecided == <>(at = "decided")

\* A gate that closed over a stored action: no phase touches the graph again.
Stranded == gate = "negative" /\ pending # None

\* But for those, no chain of role swaps, and no action that is chosen, stored
\* or found too dear, keeps a graph from its row in either mode.
EveryOpenGraphIsDecided == <>(at = "decided" \/ Stranded)
=============================================================================
