------------------------------ MODULE Layer4 -------------------------------
(***************************************************************************)
(* evidence/layer4.py: Module 16's consensus with what Modules 17 and 18   *)
(* have executed laid over it.  It is rebuilt from nothing after every     *)
(* action and spends nothing.                                              *)
(***************************************************************************)
EXTENDS Verification

NoReading ==
  [availability |-> "NOT_REQUESTED", label |-> "NONE", valid |-> 0,
   template |-> NotMeasured, order |-> NotMeasured, readings |-> 0]

\* One result of Module 17 as evidence; readings count, controls do not.
SpecialistEvidence(x) ==
  [availability |-> IF x.available THEN "AVAILABLE" ELSE "UNAVAILABLE",
   label |-> x.label, valid |-> IF x.available THEN x.mean[1]["VALID"] ELSE 0,
   template |-> x.template, order |-> x.order, readings |-> x.readings]

Contradicts(v) == v.availability = "AVAILABLE" /\ v.label = "INVALID"

EvidenceAbout(results, target) ==
  LET mine == {x \in results : x.target = target}
  IN IF mine = {} THEN NoReading ELSE SpecialistEvidence(CHOOSE x \in mine : TRUE)

-----------------------------------------------------------------------------
(* Module 18 as signed evidence *)

\* Another value recovered speaks against a target only where one can hold.
ReconstructionMap(r, raw) ==
  CASE raw = "TARGET_RECOVERED" -> "SUPPORT"
    [] raw = "DIFFERENT_VALUE_RECOVERED" ->
         IF AdmitsOneObject(r) THEN "CONTRADICT" ELSE "ALTERNATE_RECOVERED"
    [] OTHER -> "UNRESOLVED"

\* Fault: what does not support contradicts.
OutcomeMapFault(r, kind, raw) ==
  IF raw \in {"SUPPORTED", "TARGET_RELATION", "TARGET_RECALLED", "TARGET_RECOVERED"}
  THEN "SUPPORT" ELSE "CONTRADICT"

\* Neither an absence, nor a failure, nor an unreadable answer contradicts.
OutcomeMap(r, kind, raw) ==
  CASE kind = "KEY_CONDITION" -> ReconstructionMap(r, raw)
    [] raw \in {"SUPPORTED", "TARGET_RELATION", "TARGET_RECALLED"} -> "SUPPORT"
    [] raw \in {"CONTRADICTED", "NEAR_MISS_RELATION"} -> "CONTRADICT"
    [] OTHER -> "UNRESOLVED"

\* Fault: one's own family counts.
CrossModelCreditFault(x, key, families, known) ==
  IF x.independent /\ key \in x.recalled /\ known THEN "CREDITED" ELSE "TARGET_NOT_RECALLED"

\* Whether a record may credit X for a key, and the first reason why not.
CrossModelCredit(x, key, families, known) ==
  CASE x.shown                             -> "SHOWN_CANDIDATE"
    [] OTHER -> CASE ~x.independent        -> "NOT_INDEPENDENT_RECALL"
    [] OTHER -> CASE key \notin x.recalled -> "TARGET_NOT_RECALLED"
    [] OTHER -> CASE ~known                -> "FIRST_DISCOVERY"
    [] OTHER -> CASE families[key] = {}    -> "UNRESOLVED_PROVENANCE"
    [] OTHER -> IF x.model \in families[key] THEN "SAME_FAMILY" ELSE "CREDITED"

StructuralEvidence(r, x, key, families, known) ==
  LET outcome == IF x.error THEN "UNRESOLVED" ELSE OutcomeMap(r, x.check.kind, x.raw)
  IN [key |-> key, kind |-> x.check.kind, group |-> x.group, outcome |-> outcome,
      status |-> IF x.error THEN "FAILED"
                 ELSE IF outcome = "UNRESOLVED" THEN "UNRESOLVED" ELSE "RESOLVED",
      origin |-> x.origin, model |-> x.model, shown |-> x.shown,
      credit |-> CrossModelCredit(x, key, families, known)]

\* What the records say of one key: those about it, and the free recalls that
\* named it.
EvidenceOn(r, base, records, families, key) ==
  {StructuralEvidence(r, x, key, families,
                      x.check.target.kind # "QUERY" \/ key \in DOMAIN base.candidates) :
     x \in {y \in records : \/ y.check.target = Target("ENTITY_CANDIDATE", key)
                            \/ /\ y.check.target.kind = "QUERY"
                               /\ key \in y.recalled}}
ClusterEvidence(r, records, families, index) ==
  {StructuralEvidence(r, x, index, families, TRUE) :
     x \in {y \in records : y.check.target = Target("NUMERIC_CLUSTER", index)}}

StructuralGroups(evidence) ==
  {[group |-> n,
    q |-> \E e \in evidence : e.group = n /\ e.outcome = "SUPPORT",
    recall |-> /\ \A e \in evidence : e.group = n => ~e.shown
               /\ \E e \in evidence : e.group = n /\ e.kind = "CANDIDATE_FREE_RECALL"] :
     n \in {e.group : e \in evidence}}

Against(evidence) == {e.group : e \in {x \in evidence : x.outcome = "CONTRADICT"}}

\* The reason shown when nothing credits, the most informative first.
CreditOf(evidence) ==
  LET order == <<"CREDITED", "SAME_FAMILY", "FIRST_DISCOVERY", "UNRESOLVED_PROVENANCE",
                 "TARGET_NOT_RECALLED", "NOT_INDEPENDENT_RECALL">>
      seen == {i \in DOMAIN order : \E e \in evidence : e.credit = order[i]}
  IN IF seen = {} THEN "SHOWN_CANDIDATE" ELSE order[Min(seen)]

-----------------------------------------------------------------------------
(* The integration *)

BaseOverlay(base, k) ==
  IF k \in DOMAIN base.candidates
  THEN [i |-> base.candidates[k].i, x |-> base.candidates[k].x, hard |-> base.candidates[k].hard,
        supports |-> {n.group : n \in {m \in base.candidates[k].supports : m.q}},
        d |-> base.candidates[k].disagreements # {}, discovered |-> FALSE]
  ELSE [i |-> 0, x |-> FALSE, hard |-> FALSE, supports |-> {}, d |-> FALSE, discovered |-> TRUE]

\* I grows by hidden recalls only, X by the audited credit only; F, the
\* families that acquired the candidate, is the base's.
Finish(overlay, verifier, evidence) ==
  LET groups == StructuralGroups(evidence)
  IN [base |-> overlay, verifier |-> verifier, checks |-> evidence, groups |-> groups,
      against |-> Against(evidence), credit |-> CreditOf(evidence),
      i |-> overlay.i + Cardinality({n \in groups : n.q /\ n.recall}),
      x |-> overlay.x \/ CreditOf(evidence) = "CREDITED"]

\* A pending check is failed when all that ran for it failed.
PendingStatus(records, k) ==
  LET matches == {x \in records : x.check.target = Target("ENTITY_CANDIDATE", k)}
  IN IF matches = {} THEN "ELIGIBLE_NOT_SCHEDULED"
     ELSE IF \A x \in matches : x.error THEN "FAILED" ELSE "RESOLVED"

Overlaid(base, records) ==
  DOMAIN base.candidates
    \cup UNION {x.recalled : x \in {y \in records : y.check.target.kind = "QUERY"}}

PriorFamilies(g) == [k \in Keys |-> {e.model : e \in {x \in g.edges : x.key = k}} \ {""}]

\* Each origin is paid for once.
Cost(results, records) ==
  SumFunction([x \in results |-> x.calls]) + Cardinality({x.origin : x \in records})

Integrate(r, base, results, records, families) ==
  [candidates |->
     [k \in Overlaid(base, records) |->
        Finish(BaseOverlay(base, k), EvidenceAbout(results, Target("ENTITY_CANDIDATE", k)),
               EvidenceOn(r, base, records, families, k))],
   clusters |->
     [i \in DOMAIN base.clusters |->
        [support |-> base.clusters[i].support,
         verifier |-> EvidenceAbout(results, Target("NUMERIC_CLUSTER", i)),
         checks |-> ClusterEvidence(r, records, families, i)]],
   propositions |-> {x \in results : x.target.kind = "QUERY_PROPOSITION"},
   null |-> base.null,
   pending |-> [k \in base.pending |-> PendingStatus(records, k)],
   cost |-> Cost(results, records)]

\* A check or a reading of something Module 16 does not hold is refused.
IdentitiesHold(base, results, records) ==
  \A t \in {x.target : x \in results} \cup {x.check.target : x \in records} :
    /\ t.kind = "ENTITY_CANDIDATE" => t.id \in DOMAIN base.candidates
    /\ t.kind = "NUMERIC_CLUSTER" => t.id \in DOMAIN base.clusters

-----------------------------------------------------------------------------
(* What the bridge is given *)

BridgedReadings(state) ==
  [k \in {c \in DOMAIN state.candidates : /\ state.candidates[c].verifier.availability = "AVAILABLE"
                                          /\ state.candidates[c].verifier.readings > 0} |->
     state.candidates[k].verifier]
BridgedChecks(state) == UNION {state.candidates[k].checks : k \in DOMAIN state.candidates}

ApplyBridge(g, state) == Bridge(g, BridgedReadings(state), BridgedChecks(state))

=============================================================================
