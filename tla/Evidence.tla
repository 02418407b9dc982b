------------------------------ MODULE Evidence ------------------------------
(***************************************************************************)
(* evidence/graph.py and evidence/production_bridge.py: the candidates of  *)
(* a query with the signed edges that name who said what of them.          *)
(*                                                                         *)
(* A candidate is its key: the graph merges what the evaluator's own       *)
(* normalisation merges.  Keys are numbers, in the order ties are broken;  *)
(* for a numeric relation the key stands for a value of its own.           *)
(***************************************************************************)
EXTENDS Contracts, NumericClusters

CONSTANTS
  Keys,          \* the keys an answer may name: 1 .. n
  Malformed,     \* entity keys with no letter in them
  NotPositive    \* numeric keys whose value is not positive

ASSUME KeysAreNumbered == IsFiniteSet(Keys) /\ Keys = 1..Cardinality(Keys)

CrossModel == "CROSS_MODEL_RECALL"
BlindVerifier == "BLIND_VERIFIER"

IsNumberRelation(r) == ProgramOf(r).output = "NUMBER"

\* What identifies one generation; the model that produced it is not in it.
RecordId(view, run) == <<view, run>>
Record(view, run, group, model) ==
  [id |-> RecordId(view, run), view |-> view, run |-> run, group |-> group, model |-> model]

Edge(key, record, sign, group, view, run, model, shown) ==
  [key |-> key, record |-> record, sign |-> sign, group |-> group, view |-> view,
   run |-> run, model |-> model, shown |-> shown]

EdgeId(e) == <<e.key, e.record, e.sign, e.group, e.run, e.view>>

\* A graph: the candidates held, their edges, the records kept under their
\* ids, the verdicts in the order they were attached, and the status, tier
\* and rejection of each candidate.
EmptyGraph ==
  [held |-> {}, edges |-> {}, records |-> {},
   verdicts |-> [k \in Keys |-> <<>>],
   status |-> [k \in Keys |-> "UNRESOLVED"], tier |-> [k \in Keys |-> "UNRESOLVED"],
   reason |-> [k \in Keys |-> ""], gate |-> "UNSCORED"]

-----------------------------------------------------------------------------
(* Ingestion *)

\* register_record is a dictionary assignment: a record replaces the one that
\* had its id.
RegisterRecord(g, r) ==
  [g EXCEPT !.records = {x \in @ : x.id # r.id} \cup {r}]

Attachable(g, e) == \A x \in g.edges : EdgeId(x) # EdgeId(e)
Attach(g, e) == [g EXCEPT !.edges = @ \cup {e}]

Mention(k, r) == Edge(k, r.id, "SUPPORT", r.group, r.view, r.run, r.model, FALSE)

\* One generation names some keys: one edge each, however often it names it.
\* A duplicate edge raises.
MentionsAttach(g, r, named) == \A k \in named : Attachable(g, Mention(k, r))
AddMentions(g, r, named) ==
  [RegisterRecord(g, r) EXCEPT !.held = @ \cup named,
                               !.edges = @ \cup {Mention(k, r) : k \in named}]

SignOf(label) ==
  CASE label = "VALID" -> "SUPPORT" [] label = "INVALID" -> "CONTRADICT"
    [] OTHER -> "UNKNOWN"

VerdictEdge(v) ==
  Edge(v.key, v.record, SignOf(v.label), BlindVerifier, "blind_verifier", 0, v.model, TRUE)

\* Fault: the verdict is kept before its edge is refused.
AddVerificationFault(g, v) ==
  IF v.key \notin g.held THEN g
  ELSE LET h == [g EXCEPT !.verdicts[v.key] = Append(@, v)]
       IN IF Attachable(g, VerdictEdge(v)) THEN Attach(h, VerdictEdge(v)) ELSE h

\* A verdict about a candidate nobody holds is dropped; one already attached
\* is refused whole, reading and edge.
AddVerification(g, v) ==
  IF v.key \in g.held /\ Attachable(g, VerdictEdge(v))
  THEN [Attach(g, VerdictEdge(v)) EXCEPT !.verdicts[v.key] = Append(@, v)]
  ELSE g

Reject(g, rejected, why) ==
  [g EXCEPT !.status = [k \in Keys |-> IF k \in rejected THEN "REJECTED" ELSE @[k]],
            !.reason = [k \in Keys |-> IF k \in rejected THEN why ELSE @[k]]]

\* The impossibilities of type and format, and nothing that is a fact.
HardRules(g, r) ==
  IF IsNumberRelation(r) THEN Reject(g, g.held \cap NotPositive, "not positive")
  ELSE Reject(g, g.held \cap Malformed, "no letters")

-----------------------------------------------------------------------------
(* Reading *)

Groups(g, k, sign) == {e.group : e \in {x \in g.edges : x.key = k /\ x.sign = sign}}
IndependentGroups(g, k) == Cardinality(Groups(g, k, "SUPPORT"))
RawSupport(g, k) == Cardinality({e \in g.edges : e.key = k /\ e.sign = "SUPPORT"})
Contradicted(g, k) == \E e \in g.edges : e.key = k /\ e.sign = "CONTRADICT"

Active(g) == {k \in g.held : g.status[k] # "REJECTED"}

LatestVerdict(g, k) == g.verdicts[k][Len(g.verdicts[k])]
LatestLabel(g, k) == IF g.verdicts[k] = <<>> THEN "NONE" ELSE LatestVerdict(g, k).label

-----------------------------------------------------------------------------
(* The bridge: Layer 4's overlays become edges of the graph *)

\* Module 17's verdict enters as a blind verdict; it enters once.
BridgeVerdict(g, k, reading) ==
  AddVerification(g, [key |-> k, label |-> reading.label, valid |-> reading.valid,
                      disagreement |-> Max({0, reading.template}),
                      record |-> <<"m17", k>>, model |-> ""])

\* One verdict for each candidate read, and none of them is about another's.
BridgeVerdicts(g, readings) ==
  LET after(k) == BridgeVerdict(g, k, readings[k])
  IN [g EXCEPT !.edges = @ \cup UNION {after(k).edges : k \in DOMAIN readings},
               !.verdicts = [k \in Keys |-> IF k \in DOMAIN readings THEN after(k).verdicts[k]
                                            ELSE @[k]]]

OutcomeSigns(outcome) == outcome \in {"SUPPORT", "CONTRADICT"}

CheckEdge(c) ==
  Edge(c.key, c.origin, c.outcome, c.group, c.kind, 0, c.model, c.shown)

\* An executed check whose outcome has a sign is one structural edge; a check
\* that ran twice under one origin is the same edge.
BridgeChecks(g, checks) ==
  [g EXCEPT !.edges = @ \cup
     {CheckEdge(c) : c \in {x \in checks : /\ x.status = "RESOLVED"
                                           /\ OutcomeSigns(x.outcome)
                                           /\ x.key \in g.held
                                           /\ Attachable(g, CheckEdge(x))}}]

Bridge(g, readings, checks) == BridgeChecks(BridgeVerdicts(g, readings), checks)

=============================================================================
