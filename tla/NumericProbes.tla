--------------------------- MODULE NumericProbes ---------------------------
(***************************************************************************)
(* specialists/numeric_specialist.py, Module 12: area and capacity.  Every *)
(* number a text gives is brought to the canonical unit of the relation;   *)
(* an answer that offers irreconcilable values supports none of them; what *)
(* is usable is clustered by normalization/numeric.py under a bound on the *)
(* diameter of the whole cluster.                                          *)
(*                                                                         *)
(* A reading is [value, unit, kind]: unit "" when none was stated and "?"  *)
(* when a word that is no known unit follows the number.  Values are       *)
(* integers: Factor and Whole fix the scale.                               *)
(***************************************************************************)
EXTENDS Recall, NumericClusters

CONSTANTS
  Factor,        \* canonical amount of each convertible unit
  Whole,         \* the value that counts one seat
  Tolerance      \* numeric_cluster_threshold, in thousandths

\* The scale is fine enough for every number of the texts to be whole.
ASSUME NumbersAreWhole ==
  /\ Tolerance \in Nat /\ "km2" \in DOMAIN Factor
  /\ \A u \in DOMAIN Factor : Factor[u] \in Int
  /\ \A r \in Relations \cap OfficialNumeric : \A t \in TextsOf[r] :
       \A i \in DOMAIN t.names : t.names[i].value \in Int

IsNumeric == relation \in OfficialNumeric
NumericPlan == PlanOf(NumericFamilies[relation])

Nothing == [value |-> 0, unit |-> ""]

-----------------------------------------------------------------------------
(* Reading one number *)

\* The canonical value and its status.  Capacity converts no unit and takes
\* only whole counts; a word it does not know is no unit to it.
Canonicalise(reading) ==
  LET convertible == relation = Area
      refused == IF convertible THEN reading.unit \notin DOMAIN Factor \cup {""}
                 ELSE reading.unit \in DOMAIN Factor
      value == IF convertible
               THEN reading.value * Factor[IF reading.unit = "" THEN "km2" ELSE reading.unit]
               ELSE reading.value
  IN IF refused THEN <<0, "UNSUPPORTED_UNIT">>
     ELSE IF value <= 0 \/ (~convertible /\ value % Whole # 0)
          THEN <<0, "INVALID_VALUE">>
          ELSE <<value, "OK">>

Far(a, b) == ~Near(a, b, Tolerance)

IsTarget(o) == o.status = "OK" /\ o.kind = "TARGET"

\* One answer that gives several irreconcilable targets.
MarkDisagreeingReadings(found) ==
  LET targets == {o \in Seen(found) : IsTarget(o)}
      apart == \E a, b \in targets : Far(a.name.value, b.name.value)
  IN [i \in DOMAIN found |->
        IF apart /\ found[i] \in targets
        THEN [found[i] EXCEPT !.status = "AMBIGUOUS"] ELSE found[i]]

ExtractNumbers(probe, source, text) ==
  LET barren(status) ==
        <<Observe(probe, source, status, "TARGET", Nothing, text)>>
      number(r) == Observe(probe, source, Canonicalise(r)[2], r.kind,
                           [value |-> Canonicalise(r)[1], unit |-> r.unit], text)
  IN IF text = Raised THEN barren("RUNTIME_ERROR")
     ELSE IF text.word \in Abstentions THEN barren("ABSTAINED")
     ELSE IF text.names = <<>> THEN barren("NO_NUMBER")
     ELSE MarkDisagreeingReadings([i \in DOMAIN text.names |-> number(text.names[i])])

-----------------------------------------------------------------------------
(* Clusters *)

UsableNumbers == {i \in DOMAIN log : IsTarget(log[i])}
Value(i) == log[i].name.value

Values == [i \in UsableNumbers |-> Value(i)]

ValuesOf(group) == [i \in DOMAIN group |-> Value(group[i])]
Representative(group) == Median(ValuesOf(group))

Clusters ==
  LET swept == Swept(Ascending(Values), Values, Tolerance)
      order == ByDominance([i \in DOMAIN swept |-> Summary(ValuesOf(swept[i]))])
  IN [k \in DOMAIN order |-> swept[order[k]]]

IndependentSupport(group) == {log[i].probe.group : i \in Seen(group)}

\* Agreement of values stated in different units.
CrossUnitChecks ==
  {[left |-> p[1], right |-> p[2], agrees |-> ~Far(Value(p[1]), Value(p[2]))] :
     p \in {q \in UsableNumbers \X UsableNumbers :
             /\ q[1] < q[2]
             /\ {log[q[1]].name.unit, log[q[2]].name.unit} \subseteq DOMAIN Factor
             /\ log[q[1]].name.unit # log[q[2]].name.unit}}

-----------------------------------------------------------------------------
(* The plan *)

MineNumbers ==
  /\ IsNumeric /\ step = "memory" /\ todo = <<>>
  /\ log' = Mined(LAMBDA p, t : ExtractNumbers(p, "MEMORY", t))
  /\ step' = "numbers" /\ todo' = NumericPlan
  /\ UNCHANGED <<relation, memory, calls, errors, gate>>

ProbeNumber ==
  /\ Ask("numbers", LAMBDA p, t : ExtractNumbers(p, "PROBE", t))
  /\ UNCHANGED <<relation, step, memory, gate>>

NumbersDone ==
  /\ step = "numbers" /\ todo = <<>>
  /\ step' = "specialist done"
  /\ UNCHANGED <<relation, todo, memory, log, calls, errors, gate>>

NumericNext == MineNumbers \/ ProbeNumber \/ NumbersDone

-----------------------------------------------------------------------------
(* Properties *)

\* The median of a cluster is within the tolerance of every member: a run of
\* values each near the next never drags the answer away from its own support
\* (cluster_values).
MedianSpeaksForItsCluster ==
  IsNumeric =>
  \A c \in Seen(Clusters) : \A i \in Seen(c) : ~Far(Representative(c), 2 * Value(i))

\* Values that agree pairwise are never scattered: any set of usable readings
\* inside the tolerance falls into at most two clusters, so the largest
\* cluster holds at least half as many readings (cluster_values).
AgreementIsNotScattered ==
  IsNumeric =>
  \A i \in UsableNumbers :
    Cardinality({c \in Seen(Clusters) :
                   \E j \in Seen(c) : Value(j) >= Value(i) /\ ~Far(Value(i), Value(j))}) <= 2

\* What one answer offers as targets agrees: no answer supports two values it
\* could not reconcile itself (_mark_disagreeing_readings).
OneAnswerOneValue ==
  IsNumeric =>
  \A i, j \in UsableNumbers :
    log[i].probe = log[j].probe /\ log[i].source = log[j].source
      /\ log[i].text = log[j].text => ~Far(Value(i), Value(j))

\* A cluster is what its readings agree on: none drifts from its own support,
\* none splits a majority, and no answer stands in two (cluster_values).
ClustersHoldTogether ==
  MedianSpeaksForItsCluster /\ AgreementIsNotScattered /\ OneAnswerOneValue

=============================================================================
