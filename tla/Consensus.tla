----------------------------- MODULE Consensus -----------------------------
(***************************************************************************)
(* Module 16 (evidence/consensus.py with its adapters): everything anyone  *)
(* said of the query as events of one kind, and of each candidate what     *)
(* supports it, what contradicts it and where its sources disagree.        *)
(*                                                                         *)
(* It reads the graph and what the specialist of the relation recorded: a  *)
(* record with the observations (obs), the clusters (a sequence of [keys,  *)
(* support]), the checks it asked for (pending, a set of keys), the        *)
(* records of Module 11 it mined (recalls) and what it knows of the        *)
(* absence of an answer (null).                                            *)
(***************************************************************************)
EXTENDS Scoring

RecallRoles == {"CORE_ACQUISITION", CrossModel, "SPECIALIST_ACQUISITION",
                "SPECIALIST_CROSS_FAMILY"}
PaysX == {CrossModel, "SPECIALIST_CROSS_FAMILY"}

CoreRole(group) ==
  IF group \in {BlindVerifier, CrossModel, "EXISTENCE_GATE"} THEN group ELSE "CORE_ACQUISITION"

ApplicableSpecialist(r) ==
  CASE IsNumberRelation(r) -> "M12" [] r = Award -> "M13" [] r = Death -> "M14"
    [] r \in {Borders, Stock} -> "M15"

\* An atomic event; key 0 marks one about the query and no candidate.
Event(key, plane, group, role, sign, origin, shown, temporal) ==
  [key |-> key, plane |-> plane, group |-> <<plane, group>>, role |-> role, sign |-> sign,
   origin |-> origin, shown |-> shown, temporal |-> temporal]

\* The identity of one physical output: model, operation, prompt, sample.
OriginOf(model, operation, run) == <<model, operation, run>>
RecordOf(g, e) == {x \in g.records : x.id = e.record}
EdgeOrigin(g, e) ==
  OriginOf(e.model, IF RecordOf(g, e) = {} THEN <<e.view, e.record>> ELSE e.record, e.run)

CoreEvents(g) ==
  LET edges == {Event(e.key, "core", e.group, CoreRole(e.group), e.sign, EdgeOrigin(g, e),
                      e.shown, "NONE") : e \in g.edges}
      silent == {x \in g.records : OriginOf(x.model, x.id, x.run) \notin {o.origin : o \in edges}}
  IN edges \cup {Event(0, "core", x.group, CoreRole(x.group), "UNKNOWN",
                       OriginOf(x.model, x.id, x.run), FALSE, "NONE") : x \in silent}

\* Module 11 is registered for provenance and cost; the specialist reads it.
ParametricEvents(s) ==
  {Event(0, "parametric", x.operation, "PARAMETRIC_MEMORY", "UNKNOWN",
         OriginOf(x.model, <<x.operation>>, 0), FALSE, "NONE") : x \in s.recalls}

\* A mention as a target supports, a mention as a near miss contradicts.
ObservationSign(o) ==
  CASE o.key = 0 -> "UNKNOWN" [] o.kind = "TARGET" -> "SUPPORT"
    [] o.kind = "NEAR_MISS" -> "CONTRADICT" [] OTHER -> "UNKNOWN"

\* Only a branch another model ran pays as a second family.
CrossFamilyRole(s, o) ==
  IF o.cross /\ o.model \notin {x.model : x \in {y \in s.obs : ~y.cross}}
  THEN "SPECIALIST_CROSS_FAMILY" ELSE "SPECIALIST_ACQUISITION"

SpecialistEvents(s) ==
  {Event(o.key, IF o.mined THEN "parametric" ELSE "specialist", o.group,
         IF o.status THEN "SPECIALIST_GATE" ELSE CrossFamilyRole(s, o),
         ObservationSign(o), OriginOf(o.model, <<o.operation>>, 0), FALSE, o.temporal) : o \in s.obs}

Events(g, s) == CoreEvents(g) \cup ParametricEvents(s) \cup SpecialistEvents(s)

\* Refused by the events' own constructor: anchored agreement as recall.
AnchoredAsRecall(events) == \E e \in events : e.role \in RecallRoles /\ e.shown

-----------------------------------------------------------------------------
(* phi(o) *)

\* One contribution per group, whatever the number of events in it.
GroupSupports(events) ==
  {[group |-> x, role |-> (CHOOSE e \in events : e.group = x).role,
    q |-> \E e \in events : e.group = x /\ e.sign = "SUPPORT"] : x \in {e.group : e \in events}}

Supporting(supports) == {x \in supports : x.q /\ x.role \in RecallRoles}

\* Sources that contradict each other, several answers where one is admitted,
\* and a figure with rivals among the clusters.
Disagreements(events, single, rivals) ==
  (IF \E e, f \in events : e.sign = "SUPPORT" /\ f.sign = "CONTRADICT"
   THEN {"TARGET_VERSUS_NEAR_MISS"} ELSE {})
  \cup (IF {"CURRENT", "FORMER"} \subseteq {e.temporal : e \in events}
        THEN {"TEMPORAL_STATUS_CONFLICT"} ELSE {})
  \cup (IF single THEN {"COMPETING_SINGLE_VALUE"} ELSE {})
  \cup (IF rivals THEN {"NUMERIC_COMPETING_CLUSTERS"} ELSE {})

AdmitsOneObject(r) == ContractOf(r).cap = 1

\* The candidates somebody named, and the events of each.
About(events, k) == {e \in events : e.key = k}
Named(events) == {e.key : e \in events} \ {0}
IndependentlySupported(events) ==
  {k \in Named(events) : Supporting(GroupSupports(About(events, k))) # {}}
Competing(events, r) ==
  AdmitsOneObject(r) /\ Cardinality(IndependentlySupported(events)) >= 2

\* Module 12's clusters as they are; a core value joins by being one of theirs.
ClusterOf(s, k) == {i \in DOMAIN s.clusters : k \in s.clusters[i].keys}

CandidateConsensus(g, r, s, events, k) ==
  LET mine == About(events, k)  supports == GroupSupports(mine)
  IN [key |-> k,
      supports |-> supports,
      i |-> Cardinality(Supporting(supports)),
      x |-> \E q \in supports : q.q /\ q.role \in PaysX,
      contradicting |-> {e.group : e \in {y \in mine : y.sign = "CONTRADICT"}},
      disagreements |-> Disagreements(mine,
                          Competing(events, r) /\ Supporting(supports) # {},
                          IsNumberRelation(r) /\ ClusterOf(s, k) # {} /\ Len(s.clusters) > 1),
      prompt |-> IF k \in g.held /\ g.verdicts[k] # <<>> THEN LatestVerdict(g, k).disagreement
                 ELSE 0,
      hard |-> g.reason[k] # "",
      label |-> LatestLabel(g, k),
      origins |-> {e.origin : e \in mine},
      cluster |-> ClusterOf(s, k)]

\* The result of one query: each candidate, the facts about none, the pending
\* checks, and the origins with what they cost, one call each.
ConsenseOf(g, r, s, events) ==
  [candidates |-> [k \in Named(events) |-> CandidateConsensus(g, r, s, events, k)],
   silent |-> {e \in events : e.key = 0},
   clusters |-> IF IsNumberRelation(r) THEN s.clusters ELSE <<>>,
   unassigned |-> IF IsNumberRelation(r) THEN {k \in Named(events) : ClusterOf(s, k) = {}} ELSE {},
   pending |-> s.pending,
   null |-> [living |-> s.null.living, nowhere |-> s.null.nowhere,
             failedOnly |-> s.null.failedOnly,
             competing |-> IF r = Death THEN Cardinality(IndependentlySupported(events)) ELSE 0],
   origins |-> {e.origin : e \in events}]

Consense(g, r, s) == ConsenseOf(g, r, s, Events(g, s))

=============================================================================
