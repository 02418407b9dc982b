----------------------------- MODULE Selection -----------------------------
(***************************************************************************)
(* Module 8 (selection.py) up to the selectors: what becomes of each       *)
(* candidate when the query is resolved, and the clusters of a quantity.   *)
(***************************************************************************)
EXTENDS Missingness

\* The hard rules reject a value that is not positive.
ASSUME QuantitiesAreMeasured ==
  \A k \in Keys : ValueOf[k] \in Int /\ (k \in NotPositive <=> ValueOf[k] <= 0)

\* numeric_cluster_threshold, in thousandths.
Tolerance == 25

\* Every active candidate is scored; a tier that was assigned is not assigned
\* again; the statuses are decided when all tiers are known.
Resolve(g, r) ==
  LET untiered == {k \in Active(g) : g.tier[k] = "UNRESOLVED"}
      h == [g EXCEPT !.tier = [k \in Keys |-> IF k \in untiered THEN AssignTier(g, r, k) ELSE @[k]]]
  IN [h EXCEPT !.status = [k \in Keys |-> IF k \in Active(g) THEN DecideStatus(h, r, k) ELSE @[k]]]

Accepted(g) == {k \in g.held : g.status[k] = "ACCEPTED"}

-----------------------------------------------------------------------------
(* Quantities *)

Weight(g, r, k) == IF Support(g, r, k) = 0 THEN 1 ELSE Support(g, r, k)

\* Each candidate once for each mechanism behind it, by value.
Weighted(g, r) ==
  Repeated([k \in Active(g) |-> ValueOf[k]], [k \in Active(g) |-> Weight(g, r, k)])

\* The distance of a value from what is given twofold.
Away(centre, k) == Distance(2 * ValueOf[k], centre)

ClustersOf(g, r) == ClustersIn(Weighted(g, r), ValueOf, Tolerance)

\* Of several verdicts one VALID is enough, and one INVALID when none is.
ClusterVerdict(g, c) ==
  LET labels == UNION {{g.verdicts[k][i].label : i \in DOMAIN g.verdicts[k]} : k \in c.keys}
  IN CASE "VALID" \in labels -> "VALID"
       [] "INVALID" \in labels /\ "VALID" \notin labels -> "INVALID"
       [] OTHER -> IF labels = {} THEN "NONE" ELSE "UNKNOWN"

\* Fault: a cluster is enough.
EmittableFault(g, c) == c.keys \cap Active(g) # {}

Emittable(g, c) == c.keys \cap Accepted(g) # {}

=============================================================================
