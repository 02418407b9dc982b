----------------------------- MODULE Controller -----------------------------
(***************************************************************************)
(* coverage.py, Module 6: how much of a query is still open.  Signals of   *)
(* what was executed, of what it yielded and of the evidence state are     *)
(* weighed by the programme of the relation into one residual.             *)
(* controller.py, Module 7: what is legal next, what each of it is worth,  *)
(* and when a query is settled.                                            *)
(*                                                                         *)
(* Shares and scores are in ten-thousandths.  A view is its place in its   *)
(* relation's library, which is sorted by name: that order breaks ties.    *)
(***************************************************************************)
EXTENDS Selection

Unit == 10000
Part(n, m) == (Unit * n) \div m

Look(name, group, facet) == [name |-> name, group |-> group, facet |-> facet]

\* The gate's view gives a verdict, a description takes two generations and a
\* reverse view is about one candidate.
Library(r) ==
  CASE r = Borders ->
         <<Look("borders_compass", "structural", ""),
           Look("borders_description", "description", ""),
           Look("borders_direct", "direct", ""),
           Look("borders_land_vs_maritime", "contrastive", ""),
           Look("borders_missing", "missingness", ""),
           Look("borders_reverse_check", "reverse", "")>>
    [] r = Death ->
         <<Look("death_city_direct", "direct", ""),
           Look("death_description", "description", ""),
           Look("death_locality_granularity", "contrastive", ""),
           Look("death_status_gate", "EXISTENCE_GATE", "")>>
    [] r = Stock ->
         <<Look("stock_description", "description", ""),
           Look("stock_exchange_direct", "direct", ""),
           Look("stock_listing_gate", "EXISTENCE_GATE", ""),
           Look("stock_parent_contrast", "contrastive", ""),
           Look("stock_reverse_check", "reverse", "")>>
    [] r = Area ->
         <<Look("area_alternate_unit", "structural", ""),
           Look("area_direct_km2", "direct", ""),
           Look("area_total_vs_land", "contrastive", "")>>
    [] r = Capacity ->
         <<Look("capacity_configuration", "structural", ""),
           Look("capacity_contrast", "contrastive", ""),
           Look("capacity_direct", "direct", "")>>
    [] r = Award ->
         <<Look("award_direct", "direct", "award_enumeration"),
           Look("award_exact_identity_contrast", "contrastive", "award_exact_identity"),
           Look("award_facet_category", "structural", "award_category"),
           Look("award_facet_recipient_type", "structural", "award_recipient_type"),
           Look("award_facet_temporal", "structural", "award_temporal"),
           Look("award_missing", "missingness", "award_missingness"),
           Look("award_reverse_check", "reverse", "")>>

Looks(r) == DOMAIN Library(r)
GroupOf(r, i) == Library(r)[i].group
InGroup(r, group) == {i \in Looks(r) : GroupOf(r, i) = group}
Mandatory(r) == {i \in Looks(r) : Library(r)[i].name \in ContractOf(r).mandatory}

-----------------------------------------------------------------------------
(* What was executed and what came of it *)

\* An action is its identity: a view or 0, a candidate or 0.
Act(type, view, key) == [type |-> type, view |-> view, key |-> key]

\* The trusted sets before the last two are never read.
NothingYet == [executed |-> {}, outcomes |-> <<>>, trusted |-> <<>>]

ExecutedViews(s) == {a.view : a \in s.executed} \ {0}
ExecutedGroups(r, s) ==
  ({GroupOf(r, i) : i \in ExecutedViews(s)} \ {"EXISTENCE_GATE"})
    \cup {CrossModel : a \in {x \in s.executed : x.type = "CROSS_MODEL_CHECK"}}
FacetsOf(r, views) == {Library(r)[i].facet : i \in views} \ {""}

LastTrusted(s) == IF s.trusted = <<>> THEN {} ELSE Last(s.trusted)

SaturationWindow == 3
Recent(s) ==
  LET n == Len(s.outcomes)
  IN SubSeq(s.outcomes, Max({1, n - SaturationWindow + 1}), n)

Productive(outcomes) == {i \in DOMAIN outcomes : outcomes[i].gain > 0}

\* Newly trusted per thousand tokens, full at two of them; a window without
\* tokens counts as one or none.
MarginalYield(s) ==
  LET found  == FoldLeft(LAMBDA sum, o : sum + o.gain, 0, Recent(s))
      tokens == FoldLeft(LAMBDA sum, o : sum + o.tokens, 0, Recent(s))
  IN IF tokens = 0 THEN (IF found > 0 THEN Unit \div 2 ELSE 0)
     ELSE Min({Unit, (found * 500 * Unit) \div tokens})

Saturation(s) ==
  LET recent == Recent(s)
  IN IF recent = <<>> THEN 0
     ELSE Unit - Part(Cardinality(Productive(recent)), Len(recent))

\* Two empty sets agree on nothing.
Stability(s) ==
  IF Len(s.trusted) < 2 \/ s.trusted[1] \cup s.trusted[2] = {} THEN 0
  ELSE Part(Cardinality(s.trusted[1] \cap s.trusted[2]),
            Cardinality(s.trusted[1] \cup s.trusted[2]))

ConsecutiveNoGain(s) == Len(s.outcomes) - Max({0} \cup Productive(s.outcomes))

\* What the evidence would accept now; the status of a candidate is written
\* only when the row is.
Trusted(g, r) == {k \in Active(g) : DecideStatus(g, r, k) = "ACCEPTED"}

-----------------------------------------------------------------------------
(* Signals *)

Gap(declared, covered) ==
  IF declared = {} THEN 0 ELSE Part(Cardinality(declared \ covered), Cardinality(declared))

Q(g, r, k) == 10 * CoverageQ(g, r, k)

Awaiting == {"VERIFY", "ADVERSARIAL_VERIFY"}
Open(g, k) == g.status[k] = "UNRESOLVED" \/ g.tier[k] \in Awaiting

MeanOf(values) ==
  IF DOMAIN values = {} THEN 0 ELSE SumFunction(values) \div Cardinality(DOMAIN values)

\* Every open candidate presses by its coverage, by a quarter at least.  Rounded
\* up: what presses never counts for nothing.
Pressure(g, r) ==
  0 - MeanOf([k \in Active(g) |-> IF Open(g, k) THEN 0 - Max({Unit \div 4, Q(g, r, k)}) ELSE 0])

Disagrees(g, k) == 10 * DisagreementTerm(g, k)

\* Binary entropy of s of n mechanisms, over that of an even split.
Entropies ==
  [n \in 3..6 |-> CASE n = 3 -> <<9183, 9183>> [] n = 4 -> <<8113, Unit, 8113>>
                    [] n = 5 -> <<7219, 9710, 9710, 7219>>
                    [] n = 6 -> <<6500, 9183, Unit, 9183, 6500>>]
InclusionEntropy(g, r, k) ==
  LET s == Support(g, r, k)
      n == Cardinality(AcquisitionGroups(r))
  IN IF s \in {0, n} THEN 0 ELSE Entropies[n][s]

\* Of the dominant cluster: its spread over a twentieth of its median, and the
\* strength of the next one over half of its own.
Dispersion(clusters) ==
  LET top == {c \in clusters : \A d \in clusters \ {c} : Dominates(c, d)}
  IN Max({0} \cup {Min({Unit, (10 * Unit * c.spread) \div Span(c)}) : c \in top})
Competition(clusters) ==
  LET top == {c \in clusters : \A d \in clusters \ {c} : Dominates(c, d)}
  IN Max({0} \cup {Min({Unit, Part(2 * d.size, c.size)}) : c \in top, d \in clusters \ top})

\* How near the second candidate comes to the first.
Rivalry(g, r) ==
  LET scores == [k \in Active(g) |-> Score(g, r, k)]
      best == Max({0} \cup Range(scores))
      first == CHOOSE k \in Active(g) : scores[k] = best
  IN IF best = 0 THEN 0
     ELSE Max({0} \cup {Part(scores[k], best) : k \in Active(g) \ {first}})

\* A gate that was scored carries the name of its decision, and any name is
\* resolution enough, UNKNOWN too.
GateIsOpen(g, r) == r \in {Death, Stock} /\ g.gate = "UNSCORED"

Signals(g, r, s) ==
  LET clusters == IF IsNumberRelation(r) THEN ClustersOf(g, r) ELSE {}
  IN [mandatory    |-> Gap(Mandatory(r), ExecutedViews(s)),
      mechanism    |-> Gap(AcquisitionGroups(r), ExecutedGroups(r, s)),
      facet        |-> Gap(FacetsOf(r, Looks(r)), FacetsOf(r, ExecutedViews(s))),
      unresolved   |-> Pressure(g, r),
      yield        |-> MarginalYield(s),
      unsaturated  |-> Unit - Saturation(s),
      instability  |-> Unit - Stability(s),
      disagreement |-> Max({0} \cup {Disagrees(g, k) : k \in Active(g)}),
      inclusion    |-> MeanOf([k \in Active(g) |-> InclusionEntropy(g, r, k)]),
      dispersion   |-> Dispersion(clusters),
      competition  |-> Competition(clusters),
      gate         |-> IF GateIsOpen(g, r) THEN Unit ELSE 0,
      rivalry      |-> IF ContractOf(r).program = "NULL_SINGLE" THEN Rivalry(g, r) ELSE 0]

-----------------------------------------------------------------------------
(* The residual *)

\* Weights in tenths.
Terms(r, c) ==
  LET program == ContractOf(r).program
  IN CASE program = "LARGE_OPEN_SET" ->
            <<<<10, c.yield>>, <<10, c.facet>>, <<8, c.mechanism>>, <<4, c.unresolved>>,
              <<10, c.unsaturated>>>>
       [] program = "NUMERIC" ->
            <<<<10, c.dispersion>>, <<10, c.competition>>, <<8, c.mechanism>>,
              <<6, c.disagreement>>>>
       [] program = "NULL_SINGLE" ->
            <<<<12, c.gate>>, <<10, c.rivalry>>, <<8, c.unresolved>>, <<8, c.mechanism>>,
              <<6, c.disagreement>>>>
       [] program = "SMALL_SET" ->
            <<<<8, c.mechanism>>, <<8, c.unresolved>>, <<8, c.instability>>, <<5, c.yield>>,
              <<5, c.inclusion>>>>

Balance(terms) ==
  SumFunction([i \in DOMAIN terms |-> terms[i][1] * terms[i][2]])
    \div SumFunction([i \in DOMAIN terms |-> terms[i][1]])

\* What alone is reason enough to search is a floor, never averaged away.
Floors(r, c) ==
  {c.mandatory} \cup CASE ContractOf(r).program = "NUMERIC" -> {c.competition}
                       [] ContractOf(r).program = "NULL_SINGLE" -> {c.gate, c.rivalry}
                       [] OTHER -> {}

Residual(r, c) == Min({Unit, Max({Balance(Terms(r, c))} \cup Floors(r, c))})

-----------------------------------------------------------------------------
(* Legality *)

HasReverse(g, k) == "reverse" \in Groups(g, k, "SUPPORT")
CrossModelDone(g) == \E e \in g.edges : e.group = CrossModel

When(condition, value) == IF condition THEN {value} ELSE {}

ViewActions(r, s) ==
  {Act(IF i \in Mandatory(r) THEN "RUN_VIEW" ELSE "RUN_FACET", i, 0) :
     i \in Looks(r) \ (InGroup(r, "reverse") \cup ExecutedViews(s))}
ReverseActions(g, r) ==
  {Act("REVERSE_CHECK", i, k) :
     i \in InGroup(r, "reverse"), k \in {x \in Active(g) : ~HasReverse(g, x)}}
Unverified(g) == {k \in Active(g) : g.verdicts[k] = <<>> /\ g.tier[k] \in Awaiting}
CheckActions(g) == {Act(g.tier[k], 0, k) : k \in Unverified(g)}
RecallActions(g, available) ==
  When(available /\ Active(g) # {}, Act("CROSS_MODEL_CHECK", 0, 0))

\* Fault: what a candidate lacks is asked for again.
LegalFault(g, r, s, available) ==
  ViewActions(r, s) \cup ReverseActions(g, r) \cup CheckActions(g) \cup RecallActions(g, available)

\* No action instance runs twice.  Every view is decoded greedily, so nothing
\* is ever offered for resampling.
Legal(g, r, s, available) ==
  (ViewActions(r, s) \cup ReverseActions(g, r) \cup CheckActions(g)
     \cup RecallActions(g, available)) \ s.executed

-----------------------------------------------------------------------------
(* Scores *)

\* Optimistic until the view was run, and then as good as the run has been.
ExpectedYield(a, s) ==
  LET runs == {i \in DOMAIN s.outcomes : ~s.outcomes[i].check}
  IN IF a.view \notin ExecutedViews(s) \/ runs = {} THEN Unit \div 2
     ELSE Part(Cardinality(runs \cap Productive(s.outcomes)), Cardinality(runs))

GapRelevance(a, r, c) ==
  CASE a.view \in Mandatory(r) -> Unit
    [] OTHER -> (8 * (IF Library(r)[a.view].facet # "" THEN c.facet ELSE c.mechanism)) \div 10

Redundancy(a, r, s) == IF GroupOf(r, a.view) \in ExecutedGroups(r, s) THEN Unit \div 2 ELSE 0

\* How much would be settled by settling this candidate.
Impact(g, r, k, c) ==
  Min({Unit, Max({Q(g, r, k), Disagrees(g, k)}
                   \cup When(Contradicted(g, k), Unit)
                   \cup When(g.tier[k] = "ADVERSARIAL_VERIFY", c.unresolved))})

ViewScore(a, g, r, s, c) ==
  ExpectedYield(a, s) + GapRelevance(a, r, c) + (4 * c.unresolved) \div 10 - 1500
    - Redundancy(a, r, s)
ReverseScore(a, g, r, s, c) ==
  ExpectedYield(a, s) + Unit - Q(g, r, a.key) + (8 * Impact(g, r, a.key, c)) \div 10 - 1500
    - Redundancy(a, r, s)
\* A bonus while half of the evidence is unresolved.
CheckScore(a, g, r, s, c) ==
  (8 * (IF a.type = "VERIFY" THEN Impact(g, r, a.key, c)
        ELSE Min({Unit, Impact(g, r, a.key, c) + 2000}))) \div 10
    + c.unresolved - (IF a.type = "VERIFY" THEN 1500 ELSE 3000)
    + (IF c.unresolved >= Unit \div 2 THEN Unit \div 2 ELSE 0)
RecallScore(a, g, r, s, c) ==
  Unit \div 2 + c.mechanism + (8 * c.unresolved) \div 10 - 2250
    - (IF CrossModelDone(g) THEN Unit ELSE 0)

ActionScore(a, g, r, s, c) ==
  CASE a.type \in {"RUN_VIEW", "RUN_FACET"} -> ViewScore(a, g, r, s, c)
    [] a.type = "REVERSE_CHECK"             -> ReverseScore(a, g, r, s, c)
    [] a.type \in Awaiting                  -> CheckScore(a, g, r, s, c)
    [] a.type = "CROSS_MODEL_CHECK"         -> RecallScore(a, g, r, s, c)

\* In the order of the alphabet, for ties.
Types == <<"ADVERSARIAL_VERIFY", "CROSS_MODEL_CHECK", "REVERSE_CHECK", "RUN_FACET", "RUN_VIEW",
           "VERIFY">>
TypeRank(a) == CHOOSE i \in DOMAIN Types : Types[i] = a.type
Identity(a) == <<TypeRank(a), a.view, a.key>>

Best(scores) ==
  {a \in DOMAIN scores : \A b \in DOMAIN scores :
     \/ scores[b] < scores[a]
     \/ scores[b] = scores[a] /\ ~Precedes(Identity(a), Identity(b))}

-----------------------------------------------------------------------------
(* Stopping *)

ResidualStop == 1500

\* What each programme takes for a finished search.
Settled(g, r, s, c) ==
  LET program == ContractOf(r).program
  IN \/ program = "SMALL_SET" /\ c.instability = 0 /\ c.unresolved = 0
     \/ /\ program = "NULL_SINGLE" /\ c.unresolved = 0
        /\ Cardinality({k \in Active(g) : g.status[k] = "ACCEPTED"}) = 1
     \/ /\ program = "NULL_SINGLE" /\ Active(g) = {} /\ c.gate = 0
        /\ ConsecutiveNoGain(s) >= 1
     \/ /\ program = "NUMERIC" /\ c.competition = 0 /\ c.dispersion = 0
        /\ c.instability = 0 /\ c.unresolved = 0
     \/ /\ program = "LARGE_OPEN_SET" /\ c.facet = 0
        /\ ConsecutiveNoGain(s) >= ContractOf(r).patience

\* Fault: a low residual is looked at before the candidates that await a
\* verifier are.
ShouldStopFault(g, r, s, c) ==
  /\ c.mandatory = 0
  /\ Settled(g, r, s, c) \/ Residual(r, c) < ResidualStop

\* Inside the budget, the only word on whether the query is finished.
ShouldStop(g, r, s, c) ==
  /\ c.mandatory = 0
  /\ Settled(g, r, s, c) \/ (Unverified(g) = {} /\ Residual(r, c) < ResidualStop)

=============================================================================
