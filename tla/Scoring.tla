------------------------------ MODULE Scoring ------------------------------
(***************************************************************************)
(* scoring.py: S(o) and its terms, the tier that decides how much          *)
(* verification a candidate deserves, and the status it ends with.         *)
(*                                                                         *)
(* Scores are in thousandths.  A verdict carries the percentage it gives   *)
(* VALID, a multiple of ten, and the disagreement of its templates, in     *)
(* thousandths of the largest there is.                                    *)
(***************************************************************************)
EXTENDS Evidence

AcceptScore == 200
VerifyMaxSupport == 2
AdversarialMaxSupport == 1
AdversarialDisagreement == 150

\* Thresholds the contracts declare; all six drop a candidate on UNKNOWN.
MinValid(r) == IF r \in {Borders, Area, Capacity} THEN 50 ELSE 60
AutoAccept(r) == ContractOf(r).accept
DeclaresNearMisses(r) == r # Area
MinIndependentSupport == 1

\* The mechanisms that can express a candidate, and those that did.
AcquisitionGroups(r) == EligibleGroups(r)
SupportingGroups(g, r, k) == Groups(g, k, "SUPPORT") \cap AcquisitionGroups(r)
Support(g, r, k) == Cardinality(SupportingGroups(g, r, k))

CoverageQ(g, r, k) == (1000 * Support(g, r, k)) \div Cardinality(AcquisitionGroups(r))

\* log(p / (1 - p)) over the clip of three, saturated outside 10..90 percent.
LogitOf(valid) ==
  IF valid < 10 THEN -1000
  ELSE IF valid > 90 THEN 1000
  ELSE <<-732, -462, -282, -135, 0, 135, 282, 462, 732>>[valid \div 10]

LogitTerm(g, k) ==
  IF g.verdicts[k] = <<>> THEN 0 ELSE LogitOf(LatestVerdict(g, k).valid)

ContradictionTerm(g, r, k) ==
  LET m == Cardinality(AcquisitionGroups(r)) + 1
      n == Cardinality(Groups(g, k, "CONTRADICT"))
  IN IF n >= m THEN 1000 ELSE (1000 * n) \div m

\* Only what a second model said without being shown the name.
CrossModelTerm(g, k) ==
  IF \E e \in g.edges : e.key = k /\ e.sign = "SUPPORT" /\ e.group = CrossModel /\ ~e.shown
  THEN 1000 ELSE 0

DisagreementTerm(g, k) ==
  Max({0} \cup {g.verdicts[k][i].disagreement : i \in DOMAIN g.verdicts[k]})

Score(g, r, k) ==
  CoverageQ(g, r, k) + (6 * LogitTerm(g, k)) \div 10 + CrossModelTerm(g, k) \div 2
    - (15 * ContradictionTerm(g, r, k)) \div 10 - DisagreementTerm(g, k)

AssignTier(g, r, k) ==
  LET s == Support(g, r, k)
  IN CASE g.status[k] = "REJECTED"                           -> "HARD_REJECT"
       [] OTHER ->
     CASE Contradicted(g, k) \/ DisagreementTerm(g, k) > AdversarialDisagreement
                                                             -> "ADVERSARIAL_VERIFY"
       [] OTHER ->
     CASE s >= AutoAccept(r)                                 -> "AUTO_ACCEPT"
       [] s < AutoAccept(r) /\ s <= VerifyMaxSupport ->
            IF DeclaresNearMisses(r) /\ s <= AdversarialMaxSupport
            THEN "ADVERSARIAL_VERIFY" ELSE "VERIFY"
       [] OTHER                                              -> "UNRESOLVED"

\* A candidate is never accepted because it was generated: it takes support,
\* and a verdict that does not speak against it.
DecideStatus(g, r, k) ==
  CASE g.status[k] = "REJECTED"                                      -> "REJECTED"
    [] OTHER ->
  CASE Support(g, r, k) < MinIndependentSupport                      -> "UNRESOLVED"
    [] OTHER ->
  CASE LatestLabel(g, k) = "INVALID"                                 -> "REJECTED"
    [] LatestLabel(g, k) = "UNKNOWN" /\ Support(g, r, k) < AutoAccept(r) -> "UNRESOLVED"
    [] OTHER ->
  CASE LatestLabel(g, k) # "NONE" /\ LatestVerdict(g, k).valid < MinValid(r) -> "UNRESOLVED"
    [] OTHER ->
  IF g.tier[k] = "AUTO_ACCEPT" \/ Score(g, r, k) >= AcceptScore THEN "ACCEPTED"
  ELSE "UNRESOLVED"

\* score_candidate and assign_tier for every candidate still active.
Tiered(g, r) ==
  [g EXCEPT !.tier = [k \in Keys |-> IF k \in Active(g) THEN AssignTier(g, r, k) ELSE @[k]]]

Wanted(g) == {k \in Active(g) : g.tier[k] \in {"ADVERSARIAL_VERIFY", "VERIFY"}}

\* Lexicographic order of triples.
Precedes(x, y) ==
  \E i \in 1..3 : x[i] < y[i] /\ \A j \in 1..(i - 1) : x[j] = y[j]

\* Adversarial cases first, then the weakest, then the key.
VerificationTargets(g, r, budget) ==
  LET rank(k) == <<IF g.tier[k] = "ADVERSARIAL_VERIFY" THEN 0 ELSE 1, Support(g, r, k), k>>
      order == Ranked({rank(k) : k \in Wanted(g)}, Precedes)
      fits == Min({Cardinality(Wanted(g)), budget})
  IN [i \in 1..fits |-> order[i][3]]

=============================================================================
