----------------------------- MODULE Judgement -----------------------------
(***************************************************************************)
(* What becomes of one query once it is asked, in the staged mode without  *)
(* the V3 loop: the views answer (enumerate_query), the gate, the second   *)
(* model and the blind verifier judge (verify_graph), and Modules 16 to 19 *)
(* read the result over and over while Modules 17 and 18 add to it         *)
(* (_run_consensus), until Module 8 writes the row (decide_graph).         *)
(*                                                                         *)
(* What a model says is chosen from sets of answers: the names a view      *)
(* gives, the distributions a verifier reads, the words of a check.        *)
(***************************************************************************)
EXTENDS Finalization

CONSTANTS
  Relations,            \* the relations queried
  SpecialistRuns,       \* what the specialist of a relation may have recorded
  ViewAnswers,          \* relation and view number -> sets of keys named
  RecallAnswers,        \* relation -> sets of keys the second model names
  GateAnswers,          \* "NO", "OTHER", "UNAVAILABLE"
  BlindAnswers,         \* sequences of distributions, or <<>> without logits
  SpecialistAnswers,    \* relation -> functions from the frames to answers of Module 17
  CheckAnswers,         \* kind of check -> answers of Module 18
  MaxVerifications,     \* max_verifications_per_query
  MaxRounds             \* relation -> max_control_rounds_per_catalogue (bound)

ASSUME BoundsAreNumbers ==
  MaxVerifications \in Nat /\ \A r \in Relations : MaxRounds[r] \in Nat

\* An observation is of a key or of none, and one of the two models made it.  A
\* reading of the status is about no key.  A probe leaves an observation even
\* when it fails, so wherever a cross-family branch ran there is one by the
\* enumerator; the branch is one call, and its group is its own.
ASSUME ObservationsAreAttributed ==
  \A r \in Relations : \A s \in SpecialistRuns[r] : \A o \in s.obs :
    /\ o.key \in Keys \cup {0} /\ o.model \in {Enumerator, SecondModel}
    /\ o.mined \in BOOLEAN
    /\ o.status => o.key = 0
    /\ o.cross => \E p \in s.obs : ~p.cross /\ p.model = Enumerator
    /\ o.cross => \A p \in s.obs : p.mined = o.mined /\ p.group = o.group =>
                                    p.cross /\ p.model = o.model

VARIABLES
  relation, spec,       \* the query, and the record of its specialist
  graph,                \* the evidence graph
  step, resume,         \* where the query stands, and where it goes from here
  todo,                 \* the views or the candidates still to be asked about
  base,                 \* Module 16's consensus, made once
  controls,             \* the content-free controls already measured
  readings, checks,     \* all that Modules 17 and 18 have executed
  done, rounds,         \* this catalogue: targets or checks run, and how many
  layer4, gap,          \* the integrated state, and what it leaves open
  spent,                \* calls Modules 17 and 18 made
  prediction

core == <<relation, spec>>
evidence == <<base, controls, readings, checks, done, rounds, spent>>
derived == <<layer4, gap>>
vars == <<core, graph, step, resume, todo, evidence, derived, prediction>>

-----------------------------------------------------------------------------
(* Before anything is judged *)

View(id, group) == [view |-> id, group |-> group]

\* The mandatory views in the order they run, the gate's own view first.
ViewsOf(r) ==
  CASE r = Borders -> <<View("borders_direct", "direct"), View("borders_compass", "structural")>>
    [] r = Death -> <<View("death_status_gate", "EXISTENCE_GATE"),
                      View("death_city_direct", "direct")>>
    [] r = Stock -> <<View("stock_listing_gate", "EXISTENCE_GATE"),
                      View("stock_exchange_direct", "direct")>>
    [] r = Area -> <<View("area_direct_km2", "direct"),
                     View("area_total_vs_land", "contrastive")>>
    [] r = Capacity -> <<View("capacity_direct", "direct"),
                         View("capacity_contrast", "contrastive")>>
    [] r = Award -> <<View("award_direct", "direct"), View("award_facet_temporal", "structural"),
                      View("award_facet_recipient_type", "structural"),
                      View("award_missing", "missingness")>>

\* Whatever a model answers, what is read of it are keys.
ASSUME AnswersNameKeys ==
  /\ Relations \subseteq AllRelations
  /\ \A r \in Relations :
       /\ \A i \in DOMAIN ViewsOf(r) : ViewAnswers[r][i] \subseteq SUBSET Keys
       /\ RecallAnswers[r] \subseteq SUBSET Keys
  /\ \A a \in CheckAnswers["CANDIDATE_FREE_RECALL"] : Range(a.named) \subseteq Keys

\* What a verifier reads are whole percents, and how far readings differ is a
\* number.
DistributionsRead(r) == {a[f].dist : a \in SpecialistAnswers[r], f \in AllFrames}
ASSUME ReadingsAreMeasured ==
  /\ \A ds \in BlindAnswers : /\ ds \in Seq(Distributions)
                              /\ Len(ds) > 1 => Divergence(ds) \in Int
  /\ \A r \in Relations :
       /\ DistributionsRead(r) \subseteq Distributions
       /\ \A n \in 2..Len(Frames) : \A ds \in [1..n -> DistributionsRead(r)] :
            Divergence(ds) \in Int

NoBase == [candidates |-> <<>>, clusters |-> <<>>]
NoLayer4 == [candidates |-> <<>>, cost |-> 0]
NoGap == [units |-> {}, residual |-> NotMeasured]
NoPrediction == [chosen |-> <<>>, objects |-> <<>>, value |-> 0, reason |-> "NONE"]

Init ==
  /\ relation \in Relations /\ spec \in SpecialistRuns[relation]
  /\ graph = EmptyGraph
  /\ step = "views" /\ resume = "m17" /\ todo = [i \in DOMAIN ViewsOf(relation) |-> i]
  /\ base = NoBase /\ controls = {} /\ readings = {} /\ checks = {}
  /\ done = {} /\ rounds = 0 /\ spent = 0
  /\ layer4 = NoLayer4 /\ gap = NoGap /\ prediction = NoPrediction

-----------------------------------------------------------------------------
(* Phase A and Phase B *)

\* A gate's view leaves a record and names nobody.
Answers(view) ==
  IF view.group = "EXISTENCE_GATE" THEN {{}} ELSE ViewAnswers[relation][Head(todo)]

RunView ==
  /\ step = "views" /\ todo # <<>>
  /\ LET view == ViewsOf(relation)[Head(todo)]
         record == Record(view.view, 0, view.group, Enumerator)
     IN \E named \in Answers(view) :
          /\ MentionsAttach(graph, record, named)
          /\ graph' = AddMentions(graph, record, named)
  /\ todo' = Tail(todo)
  /\ UNCHANGED <<core, step, resume, evidence, derived, prediction>>

FinishViews ==
  /\ step = "views" /\ todo = <<>>
  /\ graph' = HardRules(graph, relation)
  /\ step' = "gate"
  /\ UNCHANGED <<core, resume, todo, evidence, derived, prediction>>

HasGate(r) == r \in {Death, Stock}

\* Only a confident negative closes the gate, and nobody is asked then.
ScoreGate ==
  /\ step = "gate"
  /\ \E answer \in IF HasGate(relation) THEN GateAnswers ELSE {"UNAVAILABLE"} :
       /\ graph' = [graph EXCEPT !.gate = IF answer = "UNAVAILABLE" THEN @ ELSE answer]
       /\ step' = IF answer = "NO" THEN "consensus" ELSE "recall"
  /\ UNCHANGED <<core, resume, todo, evidence, derived, prediction>>

\* The first view that asks for candidates, asked again of the other model.
FirstRecallView(r) ==
  LET views == ViewsOf(r)
  IN views[Min({i \in DOMAIN views : views[i].group # "EXISTENCE_GATE"})]
CrossModelRecord(r) == Record(FirstRecallView(r).view, 0, CrossModel, SecondModel)

CrossModelRecall ==
  /\ step = "recall"
  /\ \E named \in RecallAnswers[relation] :
       /\ MentionsAttach(graph, CrossModelRecord(relation), named)
       /\ graph' = Tiered(HardRules(AddMentions(graph, CrossModelRecord(relation), named),
                                    relation), relation)
  /\ step' = "targets"
  /\ UNCHANGED <<core, resume, todo, evidence, derived, prediction>>

ChooseVerifications ==
  /\ step = "targets"
  /\ todo' = VerificationTargets(graph, relation, MaxVerifications)
  /\ step' = "verify"
  /\ UNCHANGED <<core, graph, resume, evidence, derived, prediction>>

Verify ==
  /\ step = "verify" /\ todo # <<>>
  /\ \E ds \in BlindAnswers :
       /\ ds # <<>> => Len(ds) = Len(BlindTemplates(graph.tier[Head(todo)]))
       /\ graph' = VerifyOne(graph, Head(todo), ds)
  /\ todo' = Tail(todo)
  /\ UNCHANGED <<core, step, resume, evidence, derived, prediction>>

FinishVerifying ==
  /\ step = "verify" /\ todo = <<>>
  /\ step' = "consensus"
  /\ UNCHANGED <<core, graph, resume, todo, evidence, derived, prediction>>

-----------------------------------------------------------------------------
(* Phase C: one consensus, and then one action at a time *)

BuildConsensus ==
  /\ step = "consensus"
  /\ base' = Consense(graph, relation, spec)
  /\ step' = "integrate" /\ resume' = "m17"
  /\ UNCHANGED <<core, graph, todo, controls, readings, checks, done, rounds, spent, derived,
                 prediction>>

\* Layer 4 from all that ran, its bridge into the graph, and the gap that is
\* left: after the consensus, after every action, and once more at the end.
Reintegrate ==
  /\ step = "integrate"
  /\ IdentitiesHold(base, readings, checks)
  /\ \E state \in {Integrate(relation, base, readings, checks, PriorFamilies(graph))} :
       /\ layer4' = state
       /\ graph' = ApplyBridge(graph, state)
       /\ gap' = Estimate(relation, spec, state)
  /\ step' = resume
  /\ UNCHANGED <<core, resume, todo, evidence, prediction>>

\* Module 17 on one target of the catalogue that has not been run.
ReadTarget ==
  /\ step = "m17" /\ rounds < MaxRounds[relation]
  /\ \E target \in VerifiableTargets(base, relation) \ done :
      \E answers \in SpecialistAnswers[relation] :
       \E result \in {SpecialistResult(controls, target, answers)} :
         /\ readings' = IF target \in {x.target : x \in readings} THEN readings
                        ELSE readings \cup {result}
         /\ controls' = controls \cup result.controls
         /\ spent' = spent + result.calls
         /\ done' = done \cup {target}
  /\ rounds' = rounds + 1 /\ step' = "integrate" /\ resume' = "m17"
  /\ UNCHANGED <<core, graph, todo, base, checks, derived, prediction>>

\* Nothing is left, or the selector or the ledger wants no more.
StopReading ==
  /\ step = "m17"
  /\ step' = "m18" /\ done' = {} /\ rounds' = 0
  /\ UNCHANGED <<core, graph, resume, todo, base, controls, readings, checks, spent, derived,
                 prediction>>

\* Module 18 on one check of the catalogue; the record it already has is kept.
RunCheck ==
  /\ step = "m18" /\ rounds < MaxRounds[relation]
  /\ \E c \in EligibleChecks(base, relation) \ done : \E answer \in CheckAnswers[c.kind] :
       /\ checks' = IF CheckOrigin(c) \in {x.origin : x \in checks} THEN checks
                    ELSE checks \cup {Execute(c, answer, c.target.id, KnownKeys(base, relation))}
       /\ done' = done \cup {c}
  /\ spent' = spent + 1
  /\ rounds' = rounds + 1 /\ step' = "integrate" /\ resume' = "m18"
  /\ UNCHANGED <<core, graph, todo, base, controls, readings, derived, prediction>>

StopChecking ==
  /\ step = "m18"
  /\ step' = "integrate" /\ resume' = "decide"
  /\ UNCHANGED <<core, graph, todo, evidence, derived, prediction>>

Decide ==
  /\ step = "decide"
  /\ \E resolved \in {Resolved(graph, relation)} :
       \E clusters \in {IF IsNumberRelation(relation) THEN ClustersOf(resolved, relation) ELSE {}} :
         \E chosen \in {Select(resolved, relation, clusters)} :
           /\ graph' = resolved
           /\ prediction' = Row(resolved, relation, chosen)
  /\ step' = "done"
  /\ UNCHANGED <<core, resume, todo, evidence, derived>>

\* The row is written.  Any other state without a step is an exception: an
\* edge attached twice, or evidence about what Module 16 does not hold.
Finished == step = "done" /\ UNCHANGED vars

Next ==
  \/ RunView \/ FinishViews \/ ScoreGate
  \/ CrossModelRecall \/ ChooseVerifications \/ Verify \/ FinishVerifying
  \/ BuildConsensus \/ Reintegrate
  \/ ReadTarget \/ StopReading \/ RunCheck \/ StopChecking
  \/ Decide
  \/ Finished

Spec == Init /\ [][Next]_vars

-----------------------------------------------------------------------------
(* Properties *)

Recalled(e) == ~e.shown /\ e.group \in AcquisitionGroups(relation) \cup {CrossModel}

\* Whoever shows a candidate to a model never mints one: every candidate was
\* named by a generation that was shown no name, and no edge is about a key
\* the graph does not hold, though free recalls of Module 18 name others and
\* the bridge meets them (add_verification, ProductionBridge.apply).
NothingIsMinted ==
  /\ \A k \in graph.held : \E e \in graph.edges : e.key = k /\ Recalled(e)
  /\ \A e \in graph.edges : e.key \in graph.held

\* Layer 4 is integrated again from the start after every action, so its bridge
\* meets all it brought before; the second time it changes nothing
\* (EvidenceGraph._attach, ProductionBridge.apply).
RebridgingIsIdempotent ==
  step \in {"m17", "m18", "decide"} => ApplyBridge(graph, layer4) = graph

\* What Modules 17 and 18 find annotates the graph, once
\* (pipeline.py, _integrate_and_bridge).
BridgeOnlyAnnotates == NothingIsMinted /\ RebridgingIsIdempotent

\* The calls the integrated state says Modules 17 and 18 cost are those they
\* made, whatever failed, was repeated or was seen by several candidates
\* (cost_ledger).
LedgerCountsEveryCall ==
  step \in {"m17", "m18", "decide"} => layer4.cost = spent

\* No call that failed and no answer nobody could read ever becomes an edge:
\* failing says nothing about the answer (outcome maps, _apply_verifier).
FailureIsNoEvidence ==
  /\ \A x \in checks : (x.error \/ x.raw = "NONE") => \A e \in graph.edges : e.record # x.origin
  /\ \A x \in readings : ~x.available /\ x.target.kind = "ENTITY_CANDIDATE" =>
       \A e \in graph.edges : e.record # <<"m17", x.target.id>>

\* What the coverage gap holds settled was read: a candidate or a cluster whose
\* readings all failed, or were never made, stays open.  Whether there is an
\* answer at all needs less, a proposition that was asked: one whose readings
\* all failed is recorded too, and settles it (unresolved_mass, where
\* missingness.py:35 says "Failure is not evidence.").
SettledUnitsWereRead ==
  step # "integrate" =>
    \A u \in gap.units :
      LET target == Target(IF u[1] = "cluster" THEN "NUMERIC_CLUSTER" ELSE "ENTITY_CANDIDATE", u[2])
      IN ~u[3] =>
           \E x \in readings :
             IF u[1] = "existence" THEN x.target.kind = "QUERY_PROPOSITION"
             ELSE x.target = target /\ x.available

\* Of a candidate or a cluster, a call that failed is a cost and nothing else:
\* it neither speaks for or against it nor settles it, and nothing is settled
\* that was not even asked (_apply_verifier, cost_ledger, unresolved_mass).
FailureIsOnlyACost == FailureIsNoEvidence /\ SettledUnitsWereRead /\ LedgerCountsEveryCall

\* X stands for a second family: it is paid only for a key the second model
\* named without being shown it, whichever module asked, and never for the
\* enumerator agreeing with itself (cross_model_credit, _cross_family_role).
XTakesASecondFamily ==
  \A k \in DOMAIN layer4.candidates : layer4.candidates[k].x =>
    \/ \E e \in graph.edges : e.key = k /\ e.model = SecondModel /\ ~e.shown
    \/ \E o \in spec.obs : o.key = k /\ o.model = SecondModel /\ o.kind = "TARGET"

\* No row carries a name whose last verdict is INVALID, whichever module gave it
\* and however late (decide_status).  A figure may: it stands for its cluster,
\* and is the member nearest the median, accepted or not (_emit_numeric).
EmittedIsNotInvalid ==
  ~IsNumberRelation(relation) =>
    \A i \in DOMAIN prediction.chosen : LatestLabel(graph, prediction.chosen[i]) # "INVALID"

\* The figure a row carries need not be one anybody said: it is a median.  It
\* is within the tolerance of one the evidence accepted all the same
\* (_cluster_is_emittable, cluster_values).
FigureNearAnAcceptedOne ==
  IsNumberRelation(relation) /\ prediction.objects # <<>> =>
    \E k \in Accepted(graph) :
      1000 * Away(prediction.value, k) <= Tolerance * Max({2 * ValueOf[k], prediction.value})

\* A row of a quantity is empty only if every figure the evidence accepted
\* stands among figures a verifier rejected: neither the order of the clusters
\* nor the ratio of their supports loses it (retained_pool, is_retainable).
AcceptedFigureIsKept ==
  step = "done" /\ IsNumberRelation(relation) /\ prediction.objects = <<>> =>
    \A c \in ClustersOf(graph, relation) :
      Emittable(graph, c) => ClusterVerdict(graph, c) = "INVALID"

\* An empty row says why, and its reason is true: nobody named anything, or
\* all that was named was rejected, or the gate was shut, or evidence is left
\* that did not convince (_empty_reason).
EmptyIsExplained ==
  step = "done" =>
    /\ prediction.reason = "NOT_EMPTY" <=> prediction.objects # <<>>
    /\ prediction.reason = "NO_CANDIDATE_GENERATED" =>
         graph.held = {} /\ \A e \in graph.edges : ~Recalled(e)
    /\ prediction.reason = "CANDIDATE_REJECTED" =>
         graph.held # {} /\ \A k \in graph.held : graph.status[k] = "REJECTED"
    /\ prediction.reason = "CONFIDENT_NEGATIVE_GATE" => graph.gate = "NO"
    /\ prediction.reason = "UNRESOLVED_ABSTENTION" =>
         Active(graph) # {} /\ \A i \in DOMAIN prediction.chosen :
                                 Payload[relation][prediction.chosen[i]] = 0

\* The row is what the evidence says when it is written, however late the
\* evidence came and whatever order the gate, the hard rules and the resolution
\* set the statuses in (decide_graph, select).
RowStandsOnTheEvidence ==
  EmittedIsNotInvalid /\ FigureNearAnAcceptedOne /\ AcceptedFigureIsKept /\ EmptyIsExplained

-----------------------------------------------------------------------------
(* What the code says of itself, and does not do *)

\* assign_tier: "Broad independent support and nothing against it."  The tier
\* is not assigned again when evidence arrives after Phase B.
BroadAcceptanceIsUnopposed ==
  step = "done" =>
    \A k \in Accepted(graph) : graph.tier[k] = "AUTO_ACCEPT" => ~Contradicted(graph, k)

=============================================================================
