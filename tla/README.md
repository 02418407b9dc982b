# FactElicit-AKBC in TLA+

FactElicit-AKBC completes knowledge-base rows (`subject`, `relation` -> objects)
from the parameters of one or two language models. A query is answered by a
pipeline of elicitation, verification and bounded control rounds; every neural
call it makes is counted, capped and reported. The generation itself is opaque.
What can be got wrong, and what these modules are about, is the machinery around
it: who may spend which call, what is closed when something fails, what survives
a swap of models, and whether every query ends with a row.

Paths are relative to the repository; `cover_kbc` is `src/src/cover_kbc` below.

## 1. The system

### 1.1 Components

| component | code | state it keeps | operations | properties that make it correct |
|---|---|---|---|---|
| query run | `pipeline.py` `run`, `enumerate`, `verify`, `decide`, `_collect` | rows collected, results per layer, the graphs of the run | one query at a time, or phase by phase with stored graphs | one row per query; a failed query is a `PIPELINE_ERROR` row; a broken accounting stops the run |
| call ledger (Module 20) | `control/budget_accounting.py`, `control/budget_types.py` | reservations and six running counters per query | `reserve`, `settle`, `cancel`, `state`, replay | counters equal reservations; ceiling, class caps and protected floors hold |
| budget plan | `control/relation_budget.py` | none | derive risk demand and a plan from a calibration | the plan is within the calibration |
| precharge cycle | `pipeline.py` `_precharge`, `_release_hold`, `execute_action`, `_execute_v3_action_record` | one ledger per query key, the meters of the runtimes | hold, run, close | a hold is closed on every exit, for what was really spent |
| core control | `pipeline.py` `_controlled_phase`, `controller.py` | the phase's `Budget`, `RCSEState`, `graph.pending_action` | choose, run, store or stop | the hard ceiling; each action once; nothing stored is lost |
| staged phases | `enumerate_query`, `verify_graph`, `resume`, `decide_graph` | the graph between the phases | one model resident at a time | no counter resets; every graph is decided |
| residual coverage (RCSE) | `coverage.py`, `controller.should_stop` | yields, executed actions, residual estimate | estimate, stop | stopping and legality agree |
| micro-planner (Module 21) | `control/micro_planner.py`, `action_catalog.py`, `historical_bins.py` | none between calls | screen, afford, score, look one step ahead | only legal, funded actions are chosen |
| V3 control loop | `v3_core/*`, `_run_v3_control_loop` | hypothesis graph, action history, failure state | build catalogue, select, execute | each family once per state; the loop is bounded |
| evidence graph, Layer 4 | `evidence/*` | candidates, edges by id, aliases, clusters | attach, re-integrate, bridge | edges are immutable and attached once; integration is idempotent |
| scoring, selection | `scoring.py`, `selection.py`, `calibration.py` | none | score, tier, select, check cardinality | a selector never breaks its contract |
| specialists (Modules 12 to 15) | `specialists/*` | observations, clusters, gate and closure of a query | run a fixed plan of probes, gate, mine, classify | a gate is earned; silence is not absence; what is open is passed on |
| elicitation (Modules 2, 3) | `elicitation/*` | none | run a view, parse its candidates | one record for each generation |
| verification (Modules 17, 18) | `verification/*` | outcomes per target | select targets, run checks, aggregate | no target is verified twice in a round |
| coverage gap (Module 19) | `coverage_gap/*` | residual per query | combine five components | bounded, monotone in its components |
| relation refinement | `relation_refinement/*` | a per-row budget and record | rescue, multi-view, two-stage resolvers | the row cap; a row is consistent with its refined objects |
| V3.1 repair | `v3_1/*` | none | promote, retain, finalize | additive: nothing valid is dropped |
| staged persistence | `staging.py` | JSON lines | write, read, check | control state survives the round trip |
| accounting, submission | `run_accounting.py`, `scripts/run_cover.py`, `scripts/package_submission.py` | manifest, verdict, files | close, abort, package | nothing invalid is packaged |
| runtimes | `models/*` | call and token counters | `generate`, `score_labels` | counters only grow |
| contracts | `contracts/*` | none | declare programmes, budgets and acceptance per relation | no declaration contradicts its programme |
| query intelligence (Modules 9 to 11) | `query_intelligence/*` | the recall records of a query | profile, compile, run the recall probes | every probe leaves a record, whether it answered or raised |
| normalisation, data, evaluation, diagnostics | the packages of those names | none that control depends on | numeric clustering, string keys, I/O | a cluster holds together; the rest is in section 8 |

### 1.2 How they interact

Everything is called synchronously from `CoverPipeline`; there are no threads.
What interleaves is not processes but *ways a step may end*: each phase, action
and neural call may return, spend less or more than was declared, find a warm
cache, raise before or after its calls, be refused, or be stored for a later
phase. State is shared through three objects that several components write:

- the **evidence graph** of a query, which carries the persisted control state
  (`pending_action`, `budget_snapshot`, `verification_calls`, `gate_result`);
- the **ledger** of a query, opened once on what the acquisition has spent;
- the **counters of the runtimes**, which outlive queries and are only read as
  differences between two snapshots.

Three independent meters therefore describe the same spend: the ledger, the
graph's snapshot and the runtimes. Most hazards below are a disagreement between
two of them.

### 1.3 What is hard here

`PROJECT.json` lists every hazard at its line. Most are of seven kinds: failure
in the middle of an action (holds, partial spend, one query of many), state
carried through role swaps (snapshot, stored action, deferred gate), ceilings
under long series of holds and refunds, figures kept twice, evidence that comes
after something was decided on it (tiers, bridges, repairs), failure taken for an
answer (silence, gates, rejected reads), and liveness of loops whose controller
may neither stop nor act.

## 2. Modules

| module | models | checked by | proved in |
|---|---|---|---|
| `CallEnvelope` | what Module 20 promises, with no counter: tickets for whole actions | `ledger` | `QueryRunProofs` |
| `BudgetLedger` | the ledger of `budget_accounting.py` | `ledger` | `QueryRunProofs` |
| `QueryRun` | `CoverPipeline.run`, ledger opening, precharge, both control loops; *extends* `BudgetLedger`, whose variables are the ledger of the current query | `query_run` | `QueryRunProofs` |
| `StagedControl` | one graph through `enumerate_query`, `verify_graph`, `resume`, `decide_graph` under the active controller, in both modes | `staged_control`, `staged_gate_closes` | `StagedControlProofs` |
| `V3Loop` | `_run_v3_control_loop`: failure states, history, catalogue, execution | `v3_loop` | `PlannedLoopProofs` |
| `Contracts`, `Registries` | what Modules 0 and 1 and the four specialists declare, with their consistency checks | all below | |
| `NumericClusters` | `cluster_values` and what it is built of, the one primitive of Modules 6, 8 and 12 | `acquisition`, `judgement`, `search` | `FiniteFacts` |
| `Recall` | Module 11 and what the specialists share: one probe, one call, one record | `acquisition` | `AcquisitionProofs` |
| `NumericProbes`, `LargeSet`, `NullTemporal`, `SmallSet` | Modules 12, 13, 14, 15 | `acquisition` | `AcquisitionProofs` |
| `Acquisition` | the query's specialist after Module 11, and its facet map | `acquisition` | `AcquisitionProofs` |
| `Evidence`, `Scoring` | the evidence graph with its bridge; S(o), tiers, statuses | `judgement`, `search` | |
| `Consensus`, `Verification`, `Layer4`, `Missingness` | Modules 16; 4, 17 and 18; the integration; 19 | `judgement` | |
| `Selection`, `Finalization` | Module 8 up to the clusters; the selectors, V3.1's repairs and the row | `judgement` | |
| `Judgement` | a query from its first view to its row, without a control loop | `judgement`, `stale_tier` | `JudgementProofs` |
| `Controller` | Modules 6 and 7 | `search` | |
| `Search` | the two interleaved loops that obey the controller | `search`, `undecided_gate` | `SearchProofs` |
| `PlanningTables` | Table 6 and the plan of a query; TRAIN history | `planned_loop` | `PlannedLoopProofs` |
| `MicroPlanner` | Module 21 over the V3 catalogue, on copies of the ledger | `planned_loop` | |
| `PlannedLoop` | `V3Loop` with Module 21 to choose and Module 20 to pay | `planned_loop` | `PlannedLoopProofs` |
| `Refinement` | the resolvers of `relation_refinement`, reply by reply | `delivery` | |
| `Delivery` | runs of `run_cover.py` in one directory, and packaging | `delivery` | `DeliveryProofs` |

`FiniteFacts` has the lemmas about finite sets, sums, rankings, sequences strung
together and the clusters of a quantity that the proofs share. `MC*.tla` only give the constants their values. A definition named `...Fault` (and
`committedCallsLedgerOnly`, `ActionReturnsUnreported`) is the code with one plausible
bug in it; no specification uses it. Each is put in place of the definition it
precedes to show that a property can fail. Shares and scores are integers
(thousandths or ten-thousandths, said where it matters); no definition depends on
the rounding but for ties.

### 2.1 BudgetLedger

| model | code |
|---|---|
| `prior` | `prior_spend`, what the query spent before the ledger was built |
| `reservations` | `_reservations` with `_settlements` and `_sequence`: index = sequence number |
| `reservedCalls` ... `purposeCommitted` | the counters of the same names, in calls and tokens |
| `Deny` / `Reserve` | `reserve`, on each side of its six checks, in their order (`Refusal`) |
| `Settle`, `Cancel` | `settle`, `cancel`; `_held` is the guard, the exceptions of `settle` are disabled steps |
| `answer` | the value returned: a denial with its reason, a hold, or a closing |

An action is a descriptor with a class, an optional special purpose and a
conservative cost; `Bounded` are those with a known one. `Special` has two
purposes because Table 6 declares at most two for a relation. The ceiling,
class caps and floors are constants constrained as
`RelationBudgetCalibration.__post_init__` constrains them, and no more: the class
caps may sum to more than the ceiling. `prior` may exceed the ceiling, because
the acquisition is not bounded by the ledger. Latency, replays and the error
text are left out.

### 2.2 QueryRun

| model | code |
|---|---|
| `phase` | where `run` is: `ACQUIRE` (enumerate_query, verify_graph), `CONTROL` (between actions), `ACTION` (inside one), `DONE`, `HALTED` |
| `physical`, `baseline` | `physical_snapshot()` now and at the start of the query |
| `snapshot` | `graph.budget_snapshot`; `decide_graph` reports it as `calls_used` |
| `Admit`, `Refuse` | `_precharge` with the call of `reserve` it makes |
| `NeuralCall` | one `generate` or `score_labels` inside an action |
| `ActionReturns`, `ActionRaises`, `Overruns` | `_release_hold` after a return, after an exception, and when the hold cannot represent the spend |
| `QueryFails` | any other exception outside an action |
| `Emit` | `_collect`, and the start of the next query |

`loop` tells the V3 loop from the Module 17/18 sweep; they differ in what may be
selected again and in who refreshes the snapshot. The acquisition is one step
that spends any number of calls, of which the snapshot records a part (the
specialists' calls are not in it). Which action a loop picks among the selectable
ones, and when it stops, is free: what holds here holds for every planner. A runtime may exceed
the declared cost by `MaxOverrun`: one unit is enough to make the hold not fit.

### 2.3 StagedControl

| model | code |
|---|---|
| `at` | which phase runs, or `new`, `stored` (between phases), `decided` |
| `live`, `steps`, `inHand` | `Budget`, the loop index and the local `pending` of `_controlled_phase` |
| `snapshot`, `pending`, `verificationCalls`, `gate` | `graph.budget_snapshot`, `pending_action`, `verification_calls`, `gate_result` |
| `executed` | `RCSEState.executed_actions` |
| `Enumerate`, `EnterVerify`, `EnterResume` | the parts of the three phases before their loop, the gate included |
| `Choosing`, `Stop`, `Pend`, `TooDear`, `ExecuteChosen`, `ExecutePending`, `BreakOff` | the branches of one loop iteration, in the order of the code |
| `Leave` | what the phase writes to the graph at its end |
| `DecideGraph` | `decide_graph` up to the row |
| `cold` | the key of the gate's control is not in the calibrator's `_controls` and calibration is on: the query is the first of its relation to be gated |
| `spent`, `runs` | no code: what really happened, to compare the figures with |

The controller's score and `should_stop` are a free choice among `legal_actions`
and a `Stop` at any iteration; `Search` (2.8) has the choice itself. The cost of an action is its cold
cost, less when caches are warm (`planned`), and what it measures may be less
still. The phases are called as `run` calls them and, in staged mode, as
`pending_role` directs. Three things are left out because they do not change the
figures: the fixed view list (inactive controller), `GateRoleUnavailable` (a gate
whose model neither phase has) and `LogitsUnavailable` (a runtime without logits raises
on the question itself, so the query goes on as one without a gate). An exception inside a
phase is `QueryRun`'s `QueryFails`. The branch of `decide_graph` that abandons
a stored action on an exhausted budget is kept although it never fires: an
action is stored only on a budget that is not exhausted, and the deferred gate
that could exhaust it is not charged.

### 2.4 V3Loop

| model | code |
|---|---|
| `found` | the candidates of the evidence graph, as the `Hypothesis` rebuilt for each of them in each round: independent support (one, or more), latest verdict, and what else may drop it |
| `edges` | the edges that V3 verdicts attach; the identity of a request and its verdict is what `derive_edge_id` hashes |
| `history` | `ActionHistory.entries`: failure state, action, whether it was material |
| `calls` | `calls_used` of the budget snapshot |
| `chosen`, `at` | the action of this round, and the place in the loop; `failed` is the exception that makes the row an error |
| `failureState`, `Legal`, `Offered`, `Catalogue` | `_failure_state`, `legal_action_families`, `_recall_spec`, `build_v3_action_catalog` |
| `AlreadyExecuted`, `Selectable` | `MicroPlanner._screen` in production, the history check and the budget in TRAIN collection |
| `Choose`, `Finish` | the rest of one round up to the execution, and each `break` |
| `ExecuteRecall`, `ExecuteCheck`, `ExecuteUnscored` | the two executors; the last is `LogitsUnavailable` |

The loop starts on any evidence the acquisition may leave: candidates of any support
and verdict, doubted, misread or already barred.
What the models answer is free: any set of candidates may be named, any
disagreement may appear or go, any verdict may be returned. Which candidate is
foremost among equals (raw support, then a hash) is left open. The planner may
raise, which fails the query; a check on warm caches may cost no call. Which entry
is chosen, and whether the planner stops instead, is free here and decided in
`PlannedLoop` (2.9). A query without consensus never enters the loop. `PlainNames`
separates the candidates whose display text equals their key from the others,
because two identities of one action differ by that.

### 2.5 Acquisition

| model | code |
|---|---|
| `memory`, `log`, `errors`, `calls` | Module 11's records, the specialist's observations, its recorded errors, the runtime's counter |
| `step` | which stage runs; a stage with nothing to ask is passed over |
| a text | what the parsers tell apart: its bare word, its lexical cues, the names or numbers it gives and the kind of mention each is |
| `Clusters` | `cluster_values` (`NumericClusters`) over usable readings, in the unit of the relation |
| `stated`, `shown`, `probed`, `barrenProbe` | statements of absence; the names a missingness prompt listed; whether that probe ran and found nothing |
| `DeclaredFacets`, `ApplicableFacets` | the facets `facet_coverage.py` reads off the plans and the registry, and those of them it looks at: a probe the registry disables is declared and left out, whatever `enable_facets` says of it, while the specialist's plan (`PlannedFacets`) obeys `enable_facets` |
| `CoverageFor`, `FacetGap`, `NoveltyRate` | `coverage_for`, `build_facet_map`, the novelty of Module 19 |

The probes, their order and their groups are those of the registries, which
`DeclarationsHold` checks as the registries check themselves. A call may raise
before or after the runtime counted it. Which text comes back is free, from a small
set for each relation, chosen so that every cue, every kind of mention, units known
and unknown, abstentions and repeated names occur. Most relations run a part of
their plan (`Considered`): the rest of it repeats the same stage.

### 2.6 Judgement

`graph` holds candidates by key with signed edges, verdicts, tiers and statuses;
`todo` the views or verifications left; `base` is Module 16's consensus, built once;
`readings`, `checks` and `controls` what Modules 17 and 18 executed; `layer4` and
`gap` what is rebuilt from them after every action. The steps are those of the
phases: `RunView` and `FinishViews`, `ScoreGate`, `CrossModelRecall`,
`ChooseVerifications` and `Verify`, `BuildConsensus`, then rounds of `ReadTarget` and
`RunCheck`, each followed by `Reintegrate`, and `Decide`. An action whose guard
(`MentionsAttach`, `IdentitiesHold`) fails is an exception of the code; deadlock
checking shows that none occurs. Which target or check is run next is free: the
selectors of Modules 17 and 18, the planner or the ledger may choose any or stop.
A statement about the death is read in a phrasing of its own (number 0 of a frame), so that its
controls are apart from those of the candidates. A figure recalled freely is compared with
the indices of the clusters, as the code does (`KnownKeys`).
The run has two models, staged as in `verify_graph`, and no control loop before the
consensus: `Search` has that. The repairs of V3.1 are those that the shipped
configuration switches on (`V31`).

### 2.7 Delivery

`run` and `step` say where `main()` is; the locals of a run are lost when it returns.
`disk` says which run last opened each file to write it; `content` and `accounted` are what
`predictions.jsonl` and `run_accounting.json` hold. `Ask`, `Forgo` and `RefineRow` are the
refinement of a row: an object is a number, a reply a parsed text, and `Asks`, `Hear` and
`Refined` (module `Refinement`) are the resolvers of the six relations in every mode of the
configuration.

`main()` writes seven files in the order of `Artifacts`, some of them only on a condition
(`Writes`). `OpenPredictions` empties the predictions, `WriteLine` adds a row, `Write` ends a
file. `Escape` is any exception nobody catches, or the process killed, at any point: the file
in work may be left begun. `Aborted` is the accounting invariant, which leaves a marker.
Nothing removes what an earlier run wrote.

`package_submission` is two steps of another process, which may run at any time:
`Validate` reads the predictions and compares them with a split, and `WriteArchive` copies
the file into the archive, reading it again. A run may open, fill or leave the file in
between, or be writing it during either.

### 2.8 Search

`rcse` is `RCSEState` (what was executed, yields, trusted sets), `budget` the core
budget, `action` what was chosen and not run, `why` how each loop ended, `warm` the
content-free controls already measured. `Controller` gives the signals and
their residual, the legal actions, their scores and `should_stop`;
`Decide` is `choose_action` with the loop around it, `Leave` the end of a loop with the
hard rules and the reload of `RCSEState`, the other actions run what was chosen and
`Settle` it. Nothing is left to chance but the models' answers, their token costs, and
a tie between two actions of one score.

### 2.9 PlannedLoop

`PlannedLoop` *extends* `V3Loop` and instantiates `BudgetLedger` with the constants of
the query's plan (`LedgerOf(r)`): the same module that 2.1 describes. `Plan`,
`PlanStop` and `PlanRaises` are the three outcomes of `_plan_next_action`; `Unfit` and
`Precharge` the two checks between the plan and the hold; `Perform` runs the action
and releases its hold. `MicroPlanner` screens the catalogue against what ran, probes
copies of the ledger (`Holding`, `Unspent`), reads six estimates of each action from
the bins of TRAIN history with their fall-backs, and values one step, or two, over
the successors of a bin. A missing or ambiguous estimate raises. `Gaps` is what
Module 19 may report; `Offers` what the catalogue may offer of candidates that rank
equal. Tokens are in units of 128.

## 3. Runs

| run | instance | asks |
|---|---|---|
| `ledger` | 6 descriptors (both classes, two purposes, one unpriced, one undeclared), ceiling 5 calls / 2 tokens, floor 2, prior spend 0..3, 3 reservations | does the ledger add up, and keep what it promises, under any series of holds and refunds |
| `query_run` | 2 queries, 3 actions (one of two calls, one unpriced), 3 rounds, either loop, a budget of 2 calls under a ceiling of 3 | do holds, ledger, meters and rows agree around every failure, and does the run end |
| `staged_control` | 5 actions (two views, a repeat, a verification of 3 calls, a recall), ceiling 5 calls / 4 tokens, 4 iterations per phase, both modes, with and without a gate, its control warm or cold | what survives the swap of models |
| `v3_loop` | five relations, one of each profile in use and the frozen one; 2 candidates, one of them plain, with any evidence; 3 rounds, 1 call, warm actions, and 1 call more in collection | may the V3 loop try the same again, or unsay a rejection |
| `planned_loop` | 3 relations with a pool for each kind of action, 3 calls, prior spend 0..2, 3 rounds, depth 2, a history with pooled, targeted and successorless bins | is the planned loop still that loop, and what is planned paid |
| `acquisition` | all six relations, 2 to 5 texts each, recalls of Module 11 before them | does every specialist record, gate, cluster and report what it should |
| `judgement` | all six relations, 2 or 3 keys (a fourth, zero, of a quantity), 2 models, one round of Modules 17 and 18 each (two for areas) | does late evidence only annotate, and the row stand on it |
| `search` | all six relations, 2 good keys, a malformed one and a zero, with and without a second family, 12 calls, 12 steps | do the controller's two loops end, and only where nothing is pending |
| `delivery` | 2 runs in one directory, on 4 splits of one or two rows, 4 refinement profiles, figures of which neighbours agree and the ends do not, packaging at any time | what do the files of two runs say together, when is an archive spoilt, does a run with a hole pass, and what decides a refined row |
| `staged_gate_closes` | as `staged_control` | violated: see 6 |
| `stale_tier` | as `judgement` | violated: see 6 |
| `undecided_gate` | as `search` | violated: see 6 |

**Bounds.** `MaxReservations`, `MaxRounds`, `MaxQueries` and `MaxRuns` cap histories.
Three reservations let one hold be settled, one cancelled and one open at once, in
each order; two queries let a failed one precede another. In `delivery` two runs let the
files of one lie beside those of another, and the second come between the check and the
copy of the first's; a row more in the split would only lengthen the prefix a killed run
leaves.
An action of the V3 loop on a warm cache makes no call, so one call is enough for three
rounds and still runs out. A ceiling of 3 to 5 calls is above the dearest action (3) and below the sum
of all, so that every ceiling, class cap and floor refuses something and every action
can be the one that does not fit. `MaxSteps` of `staged_control` is below the number of
actions, so a phase can also end by it; in `search` it is the shipped 12. Three V3
rounds are the shipped `max_control_rounds_per_catalogue`: a family can be tried,
another state visited and the first come back to. Two keys are enough for a
competitor, a contrast or a rival cluster, and a third for a far or a malformed one;
more keys repeat these relations pairwise. `planned_loop` has one candidate, because
what the planner and the ledger add does not depend on which hypothesis is named.
Relations between constants that the bounds rely on are assumed by name in the
modules and evaluated by every run.

`CHECK_DEADLOCK FALSE` is set where the system may really stop: a ledger with no room
and nothing outstanding, a specialist that is done, a directory whose runs are used
up. In `judgement`, `search`, `planned_loop` and the others a state without a step would
be an exception of the code or a loop that hangs.

**Fairness.** `QueryRun` and `StagedControl` have `WF(RunNext)` and `WF(StagedNext)`, and
`Search` says the same of its state (`FairSpec`: a query is done again and again, or
something changes again and again): each is one thread that goes on while it has a
step. No action in particular is assumed to be chosen or to succeed. The other
specifications state safety only.

## 4. Properties

*Ledger.* `LedgerBalances` compares the six counters, kept incrementally, with
the sums over the reservations, written as cardinalities of sets of units.
`EnvelopeHolds` is the ceiling under any series of holds, partial settlements and
refunds. `SoleFloorHolds` says that what a single protected pool still owes is
really left. `ImplementsEnvelope` is the refinement to `CallEnvelope`.

*Run.* `HoldsAreClosed`, `LedgerMatchesMeters` and `EveryRowIsAccountedFor` relate
ledger and meters around failures; `SpendStaysUnderCap` is the ceiling on what
really ran, in the middle of an action too; `V3SpendStaysInBudget` says
that the V3 loop, which reads what is left from the graph's snapshot, keeps the
runtimes within the budget of the contract although the ledger has another ceiling; `RunCompletes` is one row per query.

*Core control.* `SnapshotIsComplete` says no role swap resets a counter;
`EachActionRunsOnce` and `PendedWorkIsKept` are the two sides of a stored action:
not twice, not never; `InterleavedCeiling` and `OverrunIsOneAction` say how far the
ceiling holds in each mode; `EveryOpenGraphIsDecided` is the absence of the
stranded rows of Audit 0078.

*V3 loop.* `NoBarrenRetry` is the backtracking memory: the failure state may
wander, and a family that brought nothing new in a state is not tried in it again.
`RejectionIsFinal` says that a verdict against a hypothesis is not turned by a
later contrast; it rests on the pair being taken from what is not dropped.
`CollectionKeepsItsRow` says that TRAIN collection attaches no verdict twice,
which would cost the query its row.

*Planner.* `ImplementsLoop` is the refinement to `V3Loop`. `PlansAreFunded` says that
the precharge never refuses what the planner chose, which would end a loop that had a
cheaper choice, and that no pair is valued that the ledger could not hold together.

*Acquisition.* `EveryCallLeavesARecord` accounts for every call, raised or not.
`ClustersHoldTogether`: the median is within the tolerance of its cluster, figures
that agree by majority end in at most two clusters, and an answer counts for one value
at most. `GatesAreEarned`: no place of death is asked for without independent sources
for a death, failure is no statement of absence, no exchange without a listing, and at
most one freshness recall. `OpenEndsAreReported`: an applicable facet that stayed silent is a
gap of a map that declares all that ran, and every risk described is a check of Module 18.
It leaves out the missingness facets, which silence closes even when it is a failure, and
the facets that the map leaves out though they ran; for both the code's comments promise
more than the code does (section 6).
`NewnessIsTrue`: a name is new once, and the missingness stage is measured against
what was held before it.

*Judgement.* `BridgeOnlyAnnotates`: whoever shows a candidate never mints one, and
integrating again changes nothing. `FailureIsOnlyACost`: a call that failed is no evidence,
settles no candidate and no cluster in the gap, and is counted once. Whether there is an answer
at all is a unit of its own there; it is settled only when a proposition was asked, but
then even if every reading of it failed (section 6). `XTakesASecondFamily`: the
cross-model credit is never paid for a model agreeing with itself or with what it was
shown. `RowStandsOnTheEvidence`: no candidate rejected last is emitted, a figure is
within tolerance of an accepted one, an accepted figure is lost only among rejected
ones, and the reason of an empty row is true.

*Search.* `NothingIsAskedTwice` spans both loops and answers about other candidates;
`CallsStayPlanned` is the ceiling of a loop that may start actions of several calls;
`RestLeavesNothingPending` says what "settled" may not leave behind;
`ReopensForAReason` relates the second loop to how the first ended; `SearchEnds`.

*Delivery.* `DirectoryIsTelling` says what the files of several runs tell, wherever each of
them stopped. No file is of a later run than one that every run writes before it. A
manifest of an earlier run may lie beside a half-written prediction file, but a manifest of
the run that wrote the predictions means the set is whole; and `errors.json` is then of
that run exactly when the accounting counts a failure, so that one left by an earlier run
is known by it. A marker means that its run wrote nothing else. `DeliversOnlyAnswers`: a
blind run with a hole never returns 0, even when the refinement filled the hole.
`OnlyAnotherRunSpoilsTheArchive`: an archive answers the split it was checked for, unless
another run opened the predictions between the check and the copy; a run limited to a few
rows, killed in the middle of the file, on another split or still writing is refused.
The packager promises it without that exception (section 6). `ViewsDecide` is what the views, the judge and the row's budget may do to a figure
or an exchange.

## 5. Proofs

Every theorem holds for all values of the constants that satisfy the assumptions
named in the modules, which are what the code enforces on its inputs:
`DescriptorAssumption` (each action has a class, a purpose and a cost),
`CalibrationAssumption`, `CeilingAssumption` and `ReserveAssumption`
(`RelationBudgetCalibration.__post_init__`, `build_plan`), `HistoryAssumption` and
`PlannerAssumption` (the checks of the bins and of the planner's configuration),
`BoundAssumption`, `RunAssumption`, `RunsAreBounded` (the caps on histories are numbers; a
query has no more rounds than its ledger has reservations), `StagedAssumption` (roles
and costs of actions, a positive budget as `Budget.__post_init__` asks, a `None` that is
nothing else), `LimitsAreNumbers`. Those of acquisition and judgement say what a parser
returns and a configuration asks: a text has names of the kinds its classifier knows
(`TextsAreReturned`, `MentionsAreClassified`, `LocalitiesAreClassified`), an answer names
keys (`AnswersNameKeys`), the two models differ, a gate asks for one source at least, and
the specialist asks the missingness slice of an award (`MissingnessIsPlanned`), numbers
and factors of units are whole in some unit (`NumbersAreWhole`), and so are the values
keys stand for, and the hard rules reject those that are not positive and no others
(`QuantitiesAreMeasured`);
what a verifier reads are whole percents, and how far readings differ is a number
(`ReadingsAreMeasured`). Those of the search say the same of its answers
(`AnswersAreKeyed`, `BlindAnswersAreMeasured`), and name the decisions a gate can come to
(`GatesAreAnswered`). Those of delivery: the support a rescue asks for is a number
(`SupportIsANumber`, `RelationRefinementConfig`), no split lists every row of another
(`SplitsAreApart`, the splits of the benchmark share none), and a reply, once its labels are
recognised, is a sequence of names or of figures whole in some unit (`TextsAreRead`). The theorems are about the safety part of a
specification; the fairness conjunct is not used.

*Ledger* (`QueryRunProofs`). The inductive invariant is `IInv`: `TypeOK`,
`HoldsFit`, `LedgerBalances`, `EnvelopeHolds`, `SoleFloorHolds`. The envelope
alone is not inductive: that a refund does not make a counter negative, or a
class cap go the wrong way, follows only from the counters being sums over the
reservations (`LedgerBalances`) and from each settlement being within its hold
(`HoldsFit`). A sum over a finite set is the cardinality of its set of units, so
one lemma on cardinalities (`TotalMove`) says what changing one summand does, and
no induction is needed. `Reserve` is one case, `Settle` and `Cancel` another:
both are `Closes(i, m, t)`, a hold of which `m` calls and `t` tokens remain.
`SoleFloorHolds` then is arithmetic on `OwnPoolAvailable` and `ForeignProtected`.
`LedgerImplementsEnvelope` maps the outstanding holds to tickets; a denial is a
stutter, a reservation is `Open`, both closings are `Close`.

*Run* (`QueryRunProofs`). `RunInv` is `IInv` and, beside the types, three parts:
`PhaseInv` (a ledger is open only between acquisition and row), `HoldInv` (the hold
in flight is the one its reservation opened), and `MeterInv`, which carries
`LedgerMatchesMeters` through the middle of an action: the ledger then equals the
counters *before* the action. Every action of the run either leaves the ledger
alone, builds a new one, or is a step of `BudgetLedger`, so the ledger's lemmas
carry over (`NewLedgerOnSpend`, `LedgerUntouched`). `SpendStaysUnderCap` in the
middle of an action is the envelope plus the hold. `V3SpendStaysInBudget` has an
invariant of its own, `BudgetInv`: what is settled is in the snapshot, which is what
the choice of the next action read. In tokens the snapshot of the acquisition may already be
beyond the budget, so there the settled figure is bounded by itself.

*Core control* (`StagedControlProofs`). `StagedInv` is the types, `PendedInv` (when
an action may be stored or in hand, and that a stored one waits on a budget that
is not exhausted), `OnceInv` (what ran is in `executed`, and what is stored or in
hand is not), `FigureInv` (the live figure of a loop, or the snapshot between two
phases, is the spend but for the gate's uncharged calls) and the two ceilings.
`EachActionRunsOnce` needs both: a stored action is legal to choose again, and only
its being taken off the graph, and run before anything is chosen, keeps it from
running twice.

*V3 loop* (`PlannedLoopProofs`). `V3Inv` adds to the properties `Underway` (what is about
to run is still in the catalogue, affordable and not redundant, because nothing it
was chosen on has changed) and `EdgeInv` (an edge names an action of the history).
`NoBarrenRetry` looks at all earlier tries and `redundant` only at the latest; they
agree because a barren try that has a successor would contradict the invariant
itself, so the only try that can be barren is the latest (`RememberedOnce`).
`RejectionIsFinal` follows from `CatalogueFacts`: what is checked or contrasted is
active.

*Planner* (`PlannedLoopProofs`). `PlanningImplementsTheLoop` (`PlannedSpec => V3Spec`)
carries every theorem about the V3 loop over to the planned one. It rests on
`PlanInv`: between the planner's answer and the hold nothing changes that the answer
was given on, so that what was planned can still be chosen; `Precharge` is then the
loop's `Choose`, `Perform` its execution, planning itself a stutter.
`WhatIsPlannedIsPaid` adds `FundInv` (the ledger answers as it did: `RefusalKept`) and
`SpendInv` (the counters are integers), with which `PairsAreFunded` shows that two probes
on a copy are what two holds on the ledger would be. Neither depends on what the bins
say.

*Search* (`SearchProofs`). `NothingIsAskedTwice` is inductive: only `Decide` chooses, and
chooses what is legal, which is not executed; whatever runs ends the action and joins
what was executed. `CallsEndAtTheCeiling` needs `CallInv`: the action in hand still fits,
because what it makes (`CallsMade`) is at most what was planned for it, and nothing
warms or cools a control in between. It assumes `MaxCalls >= 1`: the gate is scored
before any budget is asked.

The other two need `Shapes`: the graph holds keys, finitely many edges and verdicts that
are numbers, so that each signal, score and residual the controller compares is a number
(`SignalFacts`, `ActionScoreIsANumber`, `BalanceIsANumber`), and the best of what is legal
exists and is one action (`BestIsOne`).
`RestLeavesNothingPending` then is a reading of `should_stop`: nothing presses only if
nothing is open (`PressureFacts`), and a low residual is low in every floor (`FloorsHold`).
That the clusters of a quantity have sizes, centres and spans to compare is
`ClusterFacts`, for figures of any sign: the hard rules only reject a figure, and the
controller looks at the clusters before. A spread is relative to the median, which may be
zero (`abs(median) + epsilon` in the code); a group around zero has only zeros, since
nothing else is within the threshold of one (`FarAcrossZero`, `GroupAtZero`), and zeros do
not spread (`ZerosDoNotSpread`), so that any `Span` would do there.
`ReopensForAReason` needs `ReopenInv`: from where the first loop left, without its limit
and with nothing rejected, until the second decides, `Blocked` holds of the graph with its
tiers, which says that the controller stops, or nothing is legal, or the best is not
affordable. Leaving gives it (`LeavingBlocks`): the second loop is offered what the first
was, but for a second recall, which a call in hand would have paid.
It survives the gate (`GateKeepsBlocked`), which is the hard part: a gate
that gets its answer lowers the residual, and no score reads it; the one programme whose
residual does could not have stopped on a low one before, its gate being a floor
(`OpenGateHolds`). What differs in the gate alone reads the same otherwise
(`SameReadings`, `SameSignals`, `SameScores`, `SameTiers`).

*Acquisition* (`AcquisitionProofs`). `BaseInv` is what the five specialists share: where a
query stands (`StepInv`, `FrameInv`), what Module 11 recorded (`MemoryInv`), that each
observation is its probe's reading of a text the model returned (`LogInv`), that every
probe asked is of the plan and asked once (`PlanInv`), and so read one text
(`OneTextInv`). `EveryCallLeavesARecord` is inductive on top of that: the failures in the
log are counted through each way of putting two sequences together. The gates need one
invariant each: `DeathInv` and `StockInv` say that what stage B or an acquisition was
asked on is still what the observations say. This is not obvious, because later
observations are read by the same gate; it holds because a locality, or an exchange, is
read in no later text as a sign of life or of no listing. `HeldInv` says that what is held
after the missingness stage is what was held before it and what that stage brought, the
premise of `NewnessIsTrue`. A relation's step leaves the invariants of the others alone, as
each is about one relation (`NumericKeeps` and its like). `OpenEndsReachTheMap` has the hypothesis
`~CrossFamilyOn`, the shipped configuration; without it the statement is false (section
6), and `OnlyTheRecallIsUndeclared` says by exactly how much. It holds for whatever
`enable_facets` switches on: such a probe is planned and runs, its facet is declared all the
same, and the statement about gaps is of applicable facets, those the map looks at.

*Clusters* (`FiniteFacts`, used by `AcquisitionProofs`). The sweep of `cluster_values` is a fold whose
step reads what it built, so it is first turned into the sequence of what it has made of
the first `k` values (`SweepRuns`). `AreGroups` is its invariant: the groups take all
values in their order, each is near its own first value, and the first value of the next
is not. What lies between two values near each other is near both (`NearBetween`); the
median lies between the first and the last, hence near every member (`MedianNear`, which
is what the docstring of `cluster_values` claims). Were figures near one value in three
groups, that value and the last group would have the first values of two consecutive
groups between them, near each other (`NotScattered`). That dominance is a weak order
(`DominatesFacts`, fractions compared crosswise) makes the order by dominance a
rearrangement, so nothing is lost in it. `ClustersCohere` needs beside this that a usable
reading is positive.

*Judgement* (`JudgementProofs`). The invariant is provenance: every edge of the graph is of a
view, of the blind verifier, of a reading that came back or of a check that said something
(`EdgesNameTheirSource`). With `ReadOnce` and `CheckedOnce`, which rest on what is in `done`,
an edge has one cause, and a call that failed has none; that gives `FailureCosts`
and, with the sums of `FiniteFacts`, `CallsAreSpent`. `CreditIsEarned` is about `base` and
`layer4` as they stood when they were built; the graph and the observations only grow, so
what earned a credit is still there. `BridgeAnnotates` needs that each way of showing a
candidate takes it from what is held, and that Layer 4 is a function of what it reads.
Nothing is assumed of the order, number or kind of the answers.

*The row* (`JudgementProofs`). `RowInv` adds to that invariant what the row is written from:
verdicts are measured (`HeldAreMeasured`, `ReadingsAreNumbers`), a figure that is not
positive is rejected once the views have answered (`ImpossibleIsRejected`), and the row of
a finished query is that of the graph as it is, where no accepted name is INVALID
(`RowIsOfTheGraph`: nothing comes after the decision). `RowFacts` is then about the
selectors alone. The sweep's facts hold of `ClustersOf`, whose active
figures are positive: a cluster's median is near each member, hence near the accepted one that
makes the cluster emittable; every active figure is in some cluster, and with retention
the pool keeps each retainable one, so an emittable cluster that is not INVALID leaves
the row a figure. For names, `SelectEntities` takes from the accepted, in an order that
drops and adds none. The reason of an empty row is what `EmptyReason` says of that graph,
and `NothingIsMinted` makes "nobody named anything" true of the edges too. Without
retention an accepted figure may be lost to a larger cluster that nobody accepts, whence
the hypothesis of `RetainedRowStands`; `RowStands`, the other three parts, has none.

*Delivery* (`DeliveryProofs`). `DirectoryTells` needs `DirInv`: while a run computes it
has touched no file, and while it writes, `WritingInv` says which of the files before `next`
are its own, that its rows are all out once it is past the first file, and what its
accounting and `errors.json` say. The hard step is `OpenPredictions`: with it the manifest
of an earlier run ceases to seal anything, and the order of the files must survive
(`OpeningKeepsOrder`, `OpeningSeals`). That the accounting counts a failure exactly when
there is an `errors.json` of the run rests on `HoleInv`, and so does `OnlyAnswersAreDelivered`:
a row failed only if there is an error, through the refinement, so the verdict, which only
counts, sees it.

`ArchiveIsSpoiltByARun` needs three facts about the file that is read twice. `QueriesInv`: a
run answers rows of its split, at most as many as there are. `ContentInv`: while a run
writes, the file is a prefix of its rows. From these, a file good for a split is finished
(`GoodIsFinished`: a run that has more to write and already answers all of a split would list
all its rows, against `SplitsAreApart`), so nothing of the same run can change it, and
`CheckedInv` holds: what was checked is still there unless another run opened the file.

`ViewsAlwaysDecide` needs `HeardInv`, what the row in refinement has heard. For a quantity
that is `FigureInv`: the clusters are those of the views so far (`Grouped`: each view in
one cluster, the figures of a cluster within tolerance of each other, and no view fitting
an earlier cluster than its own), and a judge that was heard named one of the figures. The last clause of `Grouped` is what the greedy order could spoil: from it equal
figures share a cluster whatever came between them (`AgreeingTogether`). Three of at most
four views are then the top cluster and its median, which needs no judge; else the judge's
figure or a member of the top cluster stands, so none is lost. For an exchange
`ExchangeInv` says that each reply is a list of names, and support counts the views that
name a key. That the `CHOOSE` of a representative, of a surface and of the best
exchange has a witness is `FirstOfTwo` and `FirstOfThree` of `FiniteFacts`. None of this
depends on how many calls the cap left: a view not asked is a view not heard.

*Induction.* `FiniteFacts` states it of families of sets: what has the empty set, or zero, and
is closed under one more, has every finite set, or number. A fold of the community modules is a
function, so that this is enough for the sums over readings and checks, for the order in
which `Ranked` puts a set, and for sequences strung together: a definition whose operator
argument is fixed is first-order once expanded, and its lemma is then about that operator.

Only model-checked: the liveness properties (`RunCompletes`,
`EveryOpenGraphIsDecided`, `SearchEnds`), whose proof needs `ENABLED`; and the violated
statements of section 6.

## 6. Where the code and its documentation differ

In these runs TLC finds the quoted statement violated.

- `staged_gate_closes`: a gate deferred to phase B may close while phase A left a
  stored action; then no phase runs it, and `decide_graph` refuses the graph for ever.
  Needs staged mode; the shipped configuration is interleaved.
- `stale_tier`: a tier is assigned once. `AUTO_ACCEPT` from phase B outlives what
  Modules 17 and 18 find, and `decide_status` accepts whatever the score is by then;
  `assign_tier` gives that tier for "Broad independent support and nothing against it".
- `undecided_gate`: the gate counts as resolved when its decision is not empty, and
  "UNKNOWN" is not empty: an undecided gate with no candidate is permission to stop,
  which the comments of `should_stop` rule out.

Others were met while modelling and are stated here only.

*Budget.* `available_calls` adds an action's own pool to what foreign pools leave,
clipped at zero, and so lets it reach into a foreign pool when general capacity is
short; with one pool the floor holds (`SoleFloorHolds`). Modules 17 and 18 settle
their sweep on the ledger and leave `budget_snapshot` as it was, so the row reports less
than was spent. An action stored for another model is run without `can_afford`; the
overrun is that action at most (`OverrunIsOneAction`). A verification in phase B is
counted by `_execute_action` and again by `verify_graph`. `BudgetLedgerState` leaves prior
spend out of the figure the ledger puts it into. The call of a deferred gate is not
charged, nor the control of any gate (`OffBudget`): the first gate of a relation makes two
calls, the question and its content-free control, and `_run_gate` reports one, so that a
query may make one call more than `Budget.max_calls`, though `types.py:642-647` counts a
calibration control among the calls of that "hard inference budget".

*Planner.* `_make_action` (`v3_core/execution.py`) tags the semantic and contrast checks with
the purpose CONTRAST, which Table 6 declares for quantities only. The ledger denies an
undeclared purpose, so that in calibrated production these checks never run for the
other relations, though their programmes allow them; the planner probes the same
ledger, so nothing is planned in vain (`PlansAreFunded`). Some pools of Table 6 have no action in
this loop that could spend them. With two steps of lookahead, a bin without
successors would raise; the shipped depth is one.

*V3 loop.* A verification is recorded by the display text of its object and screened
by the key. Where the two differ, a confirmed candidate can be verified again; the
answer gives an edge that is there already, and the query ends in an error row. TRAIN
collection compares the display texts (`CollectionKeepsItsRow`).

*Acquisition.* The cross-family recall of Module 14, off in the shipped configuration,
records a facet that no registry declares (`cross_family_recall` is not among
`_null_temporal_facets`), and `build_facet_map` raises `CoverageGapError`; with
`CrossFamilyOn` true TLC shows it in a few steps. The greedy clustering may split
an agreeing majority over two clusters, never more (`ClustersHoldTogether`).

`enable_facets` puts a probe that the registry disables into the plan, and the facet map
reads the registry alone: what ran is reported as `DISABLED_BY_POLICY`, "deliberately not
part of the plan" (`facet_coverage.py:179`), and what it leaves open is no gap. A
missingness probe whose call raised is reported as `EXHAUSTED`, one that found nothing,
against "Failure is not exhaustion" (`facet_coverage.py:22`). `OpenEndsAreReported` leaves
both out.

*Coverage gap.* With no statement about the death recorded, the existence of an answer is
unresolved (`missingness.py:479`); with one recorded it is settled, also when every reading
of it failed, against "Failure is not evidence" (`missingness.py:35`). Candidates and
clusters stay open then. `FailureIsOnlyACost` asks of that unit only that a proposition was
asked.

*Verification.* `_target_keys` promises to compare a free recall with the "canonical value for
quantities" and is given the indices of the clusters, so that only a recalled 1 or another
small number could be taken for a target.

*Evidence.* A record is identified without the model that made it, so that a cross-model
recall through a view already run replaces its record. Retention: `retained_pool` says
that "a query that already emits something is untouched"; the code restricts the pool
whenever any cluster qualifies, and so passes over a dominant cluster whose accepted
member shares it with a figure that was found INVALID without being rejected (one
nobody's own mechanism supports). Label repair runs on values after the selector: the
name behind a label may be a candidate that was rejected itself. The figure of a
quantity is a median, and the member it is attributed to may be unresolved or rejected:
no row carries a rejected name, a figure may stand on one (`EmittedIsNotInvalid` is about
names).

*Search.* The controller may refuse to stop when nothing is legal, and the loop then
stops against it; a chosen action that does not fit ends the loop though cheaper ones
are legal; an open set may settle with candidates awaiting a verdict. No candidate is
ACCEPTED before the decision, so the clauses of `should_stop` that read the status are
dead during the search.

*Delivery.* Packaging reads no accounting, so an archive of a run that was refused can be
built (`run_cover.py` says "a submission gate must read a typed record"). A row that the
refinement fills keeps the reason for which it was empty; the manifest's calls leave the
refinement's out; an abort leaves the predictions of an earlier run in place, and a run
killed while it writes leaves an earlier run's manifest, accounting and `errors.json` beside a
prefix of its own rows (the manifest tells, `DirectoryIsTelling`, but the packager does not
ask it); a cap below what the area resolver needs raises out of the whole refinement.
The packager copies a file it reads a second time (`package_submission.py:243`) and
compares the second reading with nothing; a run that opens the predictions in between puts
other rows under the identity of those that were checked. It is the exception of
`OnlyAnotherRunSpoilsTheArchive`.

## 7. Done and left

Done: the ledger, run, staged control and V3 loop with their proofs; acquisition,
judgement and the row; the controller's search; the planned loop as a refinement of
the V3 loop over the ledger's own module; refinement, files and packaging.

Left, in order of worth:

1. The actions of Modules 17 and 18 in the planner's catalogue (`action_catalog.py`), which
   would make `Judgement`'s free choice the planner's.
2. Consensus and selection inside the V3 loop, so that one instance carries a query from
   its views through V3 to its row; now they meet at the evidence graph only.
3. The clusters of quantities in the V3 loop.

## 8. What is not modelled, and why

Prompt construction, recognisers of cues, string normalisation, data reading, telemetry and
evaluation are text and I/O: the models begin at what a text is recognised as.
`controller_calibration` derives tables offline; its tables are the constants of
`PlanningTables`. `staging.py` has no caller: the pipeline passes
graphs between its phases in memory, so a round trip through files is not a behaviour
of the program. Model backends are external; only their counters matter. The risk
demand of Module 20 is recorded and decides nothing. Of V3.1 the switches on prompts and
`promotion.py`, a table of criteria for people, have no state. In the modules of section
2 themselves, latency, JSON forms, error texts and the replay of a ledger are left out.
