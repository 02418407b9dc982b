---------------------------- MODULE Finalization ----------------------------
(***************************************************************************)
(* Module 8 from the resolved graph to the row (selection.py) with the     *)
(* repairs of V3.1 (v3_1/), each of them a switch of the configuration.    *)
(***************************************************************************)
EXTENDS Selection

CONSTANTS
  V31,           \* the repairs switched on (V31SafeConfig)
  Payload,       \* relation -> key -> the key a leaked "label: name" comes down
                 \* to: itself where there is no label, 0 where nothing is named
  NotExchanges   \* keys of a listing that are the company itself, or a status

ASSUME RepairsAreKnown == V31 \subseteq {"RETENTION", "LABELS", "STRUCTURE", "DOMINANCE"}

MaxObjects(r) == ContractOf(r).cap
GateNegative(g) == g.gate = "NO"

-----------------------------------------------------------------------------
(* Names *)

\* Listings only: what cannot be an exchange goes first, and then what fewer
\* mechanisms found than found another.
Listable(g, r) ==
  LET sound == Accepted(g) \ (IF r = Stock /\ "STRUCTURE" \in V31 THEN NotExchanges ELSE {})
  IN IF r = Stock /\ "DOMINANCE" \in V31
     THEN {k \in sound : \A x \in sound : Support(g, r, x) <= Support(g, r, k)}
     ELSE sound

\* SMALL_SET, NULL_SINGLE and LARGE_OPEN_SET: the best score first, then the
\* widest support, then the key, up to the cap.  An open set has no gate to
\* heed.
SelectEntities(g, r) ==
  LET rank(k) == <<0 - Score(g, r, k), 0 - Support(g, r, k), k>>
      order == Ranked({rank(k) : k \in Listable(g, r)}, Precedes)
      n == Cardinality(Listable(g, r))
      fits == IF MaxObjects(r) = 0 THEN n ELSE Min({n, MaxObjects(r)})
  IN IF GateNegative(g) /\ r # Award THEN <<>> ELSE [i \in 1..fits |-> order[i][3]]

-----------------------------------------------------------------------------
(* Quantities *)

\* Accepted by the policy, and not contradicted as a whole.
Retainable(g, c) == Emittable(g, c) /\ ClusterVerdict(g, c) # "INVALID"

\* Fault: the order is asked before the acceptance.
RetainedPoolFault(g, clusters) == clusters

\* FINAL_CANDIDATE_RETENTION: if any cluster is fit to be retained, only those
\* that are compete.
RetainedPool(g, clusters) ==
  LET fit == {c \in clusters : Retainable(g, c)}
  IN IF "RETENTION" \in V31 /\ fit # {} THEN fit ELSE clusters

\* The member nearest the representative, which is what is emitted.
EmitNumeric(c) ==
  LET nearer(x, y) == \/ Away(c.centre, x) < Away(c.centre, y)
                      \/ Away(c.centre, x) = Away(c.centre, y) /\ x < y
      winner == CHOOSE k \in c.keys : \A x \in c.keys \ {k} : nearer(k, x)
  IN [objects |-> <<winner>>, value |-> c.centre]

NothingEmitted == [objects |-> <<>>, value |-> 0]

\* hasArea: the dominant cluster or nothing.
SelectRobust(g, clusters) ==
  LET first == {c \in clusters : Emittable(g, c) /\ \A d \in clusters \ {c} : Dominates(c, d)}
  IN IF first = {} THEN NothingEmitted ELSE EmitNumeric(CHOOSE c \in first : TRUE)

\* The support of a cluster is that of its members.
Qualifies(g, clusters, c) ==
  /\ ClusterVerdict(g, c) # "INVALID"
  /\ (\A d \in clusters : d.size <= c.size) \/ ClusterVerdict(g, c) = "VALID"
  /\ Emittable(g, c)

\* hasCapacity: the highest of the clusters somebody vouches for; when there is
\* none, of those that retention keeps.
SelectHighestValid(g, clusters) ==
  LET vouched == {c \in clusters : Qualifies(g, clusters, c)}
      kept == IF "RETENTION" \in V31 THEN {c \in clusters : Retainable(g, c)} ELSE {}
      fit == IF vouched = {} THEN kept ELSE vouched
      highest == {c \in fit : \A d \in fit : d.centre <= c.centre}
  IN IF highest = {} THEN NothingEmitted ELSE EmitNumeric(CHOOSE c \in highest : TRUE)

Select(g, r, clusters) ==
  CASE r = Area -> SelectRobust(g, RetainedPool(g, clusters))
    [] r = Capacity -> SelectHighestValid(g, clusters)
    [] OTHER -> [objects |-> SelectEntities(g, r), value |-> 0]

-----------------------------------------------------------------------------
(* The row *)

\* The strongest claim first.
EmptyReason(g) ==
  CASE GateNegative(g) -> "CONFIDENT_NEGATIVE_GATE"
    [] OTHER -> CASE g.held = {} -> "NO_CANDIDATE_GENERATED"
    [] OTHER -> IF Active(g) = {} THEN "CANDIDATE_REJECTED" ELSE "UNRESOLVED_ABSTENTION"

\* The graph is resolved unless its gate spared the trouble.
Resolved(g, r) == IF GateNegative(g) /\ r # Award /\ ~IsNumberRelation(r) THEN g ELSE Resolve(g, r)

\* The payloads of leaked lines in their order, each once.
RepairValues(r, keys) ==
  FoldLeft(LAMBDA row, k :
             IF Payload[r][k] = 0 \/ Contains(row, Payload[r][k]) THEN row
             ELSE Append(row, Payload[r][k]),
           <<>>, keys)

\* What is written of the keys chosen.  A figure is only written another way:
\* it bears no unit any more, and is not converted.
FinalValues(r, keys) ==
  IF IsNumberRelation(r) \/ "LABELS" \notin V31 THEN keys ELSE RepairValues(r, keys)

\* The reason is that of an empty row, whichever step emptied it.
Row(g, r, chosen) ==
  LET values == FinalValues(r, chosen.objects)
  IN [chosen |-> chosen.objects, objects |-> values, value |-> chosen.value,
      reason |-> IF values = <<>> THEN EmptyReason(g) ELSE "NOT_EMPTY"]

=============================================================================
