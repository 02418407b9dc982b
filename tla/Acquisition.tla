---------------------------- MODULE Acquisition ----------------------------
(***************************************************************************)
(* Layer 2 as the pipeline runs it (pipeline.py, _run_shadow_retrieval and *)
(* the specialists after it) and the coverage map Module 19 reads off what *)
(* the specialist recorded (coverage_gap/facet_coverage.py).  A query has  *)
(* one relation and so one specialist; a raised call never stops the rest. *)
(***************************************************************************)
EXTENDS NumericProbes, LargeSet, NullTemporal, SmallSet

acquisitionVars == <<recallVars, stated, shown, smallSetVars>>

AcquisitionInit ==
  RecallInit /\ SmallSetInit /\ stated = <<>> /\ shown = {}

AcquisitionNext ==
  \/ Retrieve /\ UNCHANGED <<stated, shown, smallSetVars>>
  \/ NumericNext /\ UNCHANGED <<stated, shown, smallSetVars>>
  \/ LargeSetNext /\ UNCHANGED <<stated, smallSetVars>>
  \/ NullTemporalNext /\ UNCHANGED <<shown, smallSetVars>>
  \/ SmallSetNext /\ UNCHANGED <<stated, shown>>

AcquisitionSpec == AcquisitionInit /\ [][AcquisitionNext]_acquisitionVars

Acquired == step = "specialist done"

-----------------------------------------------------------------------------
(* The facet map *)

MissingnessFacets ==
  {p.facet : p \in {x \in Seen(IF relation = Award THEN LargeSetPlan
                               ELSE IF IsSmallSet THEN MissingPlan ELSE <<>>) :
                     x.group = "missingness"}}

PlannedFacets ==
  {p.facet : p \in Seen(
     CASE IsNumeric          -> NumericPlan
       [] relation = Award   -> LargeSetPlan
       [] relation = Death   -> StageA \o StageB
       [] relation = Borders -> BorderPlan \o MissingPlan
       [] relation = Stock   -> GatePlan \o StockPlan \o MissingPlan \o CrossPlan)}

\* What the registry names, also the probe it disables: the map reads the
\* registry's own flag, and not the enable_facets that plans such a probe.
DeclaredFacets == PlannedFacets \cup IF relation = Borders THEN DisabledFacets ELSE {}
ApplicableFacets == DeclaredFacets \ DisabledFacets

\* Each specialist's own test of an observation that says something.
UsableObservation(o) ==
  CASE IsNumeric         -> IsTarget(o)
    [] relation = Award  -> UsableRecipient(o)
    [] relation = Death  -> o.status = "OK" /\ o.kind \in {"DECEASED", "LIVING", "TARGET_CITY"}
    [] IsSmallSet        -> o.status = "OK" /\ o.kind \in {"LISTED", "NOT_LISTED", TargetKind}

\* Only the specialist's own probes cover its facets.
FacetExecutions(facet) ==
  {i \in DOMAIN log : IsSpecialistProbe(log[i]) /\ log[i].probe.facet = facet}

ExhaustionEvidence(facet) ==
  IF relation = Award THEN facet \in MissingnessFacets /\ NewSurfaces(facet) = {}
  ELSE facet \in MissingnessFacets /\ probed /\ barrenProbe

\* Fault: a facet that answered nothing is covered.
CoverageForFault(facet) ==
  IF FacetExecutions(facet) = {} THEN "UNEXPLORED" ELSE "COVERED"

CoverageFor(facet) ==
  LET ran == FacetExecutions(facet)
  IN IF ran = {} THEN "UNEXPLORED"
     ELSE IF ExhaustionEvidence(facet) THEN "EXHAUSTED"
     ELSE IF \E i \in ran : UsableObservation(log[i]) THEN "COVERED" ELSE "WEAK"

\* Executions of a facet nobody declares make build_facet_map raise.
UndeclaredFacets ==
  {o.probe.facet : o \in {x \in Seen(log) : IsSpecialistProbe(x)}} \ DeclaredFacets

\* #UNEXPLORED + #WEAK over the applicable facets.
FacetGap ==
  <<Cardinality({f \in ApplicableFacets : CoverageFor(f) \in {"UNEXPLORED", "WEAK"}}),
    Cardinality(ApplicableFacets)>>

-----------------------------------------------------------------------------
(* Novelty over the acquisition operations, in the order they answered *)

\* What an observation names: Module 12's clusters are its identities.
Identities(clusters) ==
  [i \in DOMAIN log |->
     IF IsNumeric THEN {c \in DOMAIN clusters : i \in Seen(clusters[c])}
     ELSE IF UsableObservation(log[i]) THEN {log[i].name} \ {""} ELSE {}]

\* The most recent operation that named anything, and which of its names no
\* earlier operation gave.  An operation is identified by its id alone, so
\* its observations are gathered where it first appears.
NoveltyRate(identity) ==
  LET named == {i \in DOMAIN log : identity[i] # {}}
      first == [i \in named |-> CHOOSE k \in DOMAIN log :
                  log[k].probe = log[i].probe /\ \A j \in 1..(k - 1) : log[j].probe # log[i].probe]
      latest == {i \in named : \A j \in named : first[j] <= first[i]}
  IN [emitted |-> latest,
      novel |-> {i \in latest : \A j \in named \ latest : identity[j] # identity[i]}]

-----------------------------------------------------------------------------
(* Properties *)

\* Every probe that ran left a record and every failure is both recorded and
\* reported: the records and errors account for all calls, none twice
\* (the except branch of every _execute).
EveryCallLeavesARecord ==
  LET failed(s) == Cardinality({i \in DOMAIN s : s[i].status = "RUNTIME_ERROR"})
      asked == {o.probe : o \in {x \in Seen(log) : IsSpecialistProbe(x)}}
  IN /\ failed(memory) + failed(log) = Len(errors)
     /\ calls >= Len(memory) + Cardinality(asked) - Len(errors)
     /\ calls <= Len(memory) + Cardinality(asked)

\* An applicable facet all of whose answers failed, abstained or named nothing
\* is a gap.  Two kinds of facet are not in it: a missingness facet, which its
\* silence closes as EXHAUSTED even when the call raised, and a disabled one
\* that enable_facets ran and the map leaves out all the same (coverage_for,
\* _small_set_facets; facet_coverage.py:22 and :179 say otherwise).
SilenceLeavesAGap ==
  Acquired =>
  \A f \in ApplicableFacets \ MissingnessFacets :
    (\A i \in FacetExecutions(f) : log[i].status # "OK") =>
      CoverageFor(f) \in {"UNEXPLORED", "WEAK"}

\* What the specialist leaves open it passes on: a silent facet, other than
\* those two kinds, as a gap of the map, everything that ran as a facet the
\* map knows (it raises otherwise), a described risk as a check of Module 18
\* (build_facet_map, build_pending_checks).
OpenEndsAreReported ==
  SilenceLeavesAGap /\ UndeclaredFacets = {} /\ EveryRiskIsRouted

\* Nothing is asked for that the gate did not let through, and a gate is opened
\* or shut by independent sources that said so (each specialist's read_gate).
GatesAreEarned ==
  PlaceNeedsADeath /\ SilenceIsNotAbsence /\ ExchangeNeedsAListing /\ OneFreshnessRecall

\* What every memory of Module 11 had already named is never new again: the
\* operation that named it first keeps it (novelty_diagnostics).
NothingIsNewTwice ==
  Acquired =>
  \A identity \in {Identities(Clusters)} :
    \A i \in NoveltyRate(identity).novel : \A j \in DOMAIN log :
      identity[j] = identity[i] => log[j].probe = log[i].probe

\* What is new depends on the order of the calls and on what each prompt showed
\* as held: a name is new once, and the missingness stage is measured against
\* what was held before it (build_facet_states, build_closure_signals).
NewnessIsTrue ==
  NewnessPartitionsTheNames /\ NothingIsNewTwice /\ MissingnessSeesWhatIsHeld
    /\ ClosureAgreesWithLog

=============================================================================
