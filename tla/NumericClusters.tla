-------------------------- MODULE NumericClusters --------------------------
(***************************************************************************)
(* normalization/numeric.py: how the values of a quantity are grouped, the *)
(* one primitive of Modules 6, 8 and 12.  A value comes with what gave it: *)
(* order is the sequence of those, by their values ascending, and at their *)
(* values, of any sign: impossible ones are rejected elsewhere, and later.  *)
(***************************************************************************)
EXTENDS Integers, FiniteSets, Sequences, SequencesExt

\* The elements of a set from the best to the worst; Better is a strict order.
Ranked(S, Better(_, _)) ==
  [i \in 1..Cardinality(S) |-> CHOOSE x \in S : Cardinality({y \in S : Better(y, x)}) = i - 1]

\* The arguments of at by their values, lowest first.
Ascending(at) ==
  Ranked(DOMAIN at, LAMBDA i, j : at[i] < at[j] \/ (at[i] = at[j] /\ i < j))

\* Each argument as often as it counts, in that order.
Repeated(at, times) ==
  LET order == Ascending(at)
  IN FlattenSeq([i \in DOMAIN order |-> [n \in 1..times[order[i]] |-> order[i]]])

Distance(a, b) == IF a > b THEN a - b ELSE b - a

Magnitude(n) == IF n < 0 THEN 0 - n ELSE n

\* relative_distance(a, b) <= threshold, in thousandths.
Near(a, b, threshold) ==
  LET x == Magnitude(a)
      y == Magnitude(b)
  IN 1000 * Distance(a, b) <= threshold * (IF x > y THEN x ELSE y)

\* Fault: single linkage, each value against its neighbour.
SweptFault(order, at, threshold) ==
  FoldLeft(LAMBDA groups, x :
             IF groups # <<>> /\ Near(at[Last(Last(groups))], at[x], threshold)
             THEN Append(Front(groups), Append(Last(groups), x))
             ELSE Append(groups, <<x>>),
           <<>>, order)

\* A group grows while its whole diameter stays inside the threshold.
Swept(order, at, threshold) ==
  FoldLeft(LAMBDA groups, x :
             IF groups # <<>> /\ Near(at[Head(Last(groups))], at[x], threshold)
             THEN Append(Front(groups), Append(Last(groups), x))
             ELSE Append(groups, <<x>>),
           <<>>, order)

\* Twice the median of ascending numbers.
Median(numbers) == numbers[(Len(numbers) + 1) \div 2] + numbers[Len(numbers) \div 2 + 1]

\* Four times the median absolute deviation.
Deviation(numbers) ==
  LET gaps == [i \in DOMAIN numbers |-> Distance(2 * numbers[i], Median(numbers))]
      order == Ascending(gaps)
  IN IF Len(numbers) < 2 THEN 0 ELSE Median([k \in DOMAIN order |-> gaps[order[k]]])

\* A cluster of which these are the values.
Summary(numbers) ==
  [size |-> Len(numbers), centre |-> Median(numbers), spread |-> Deviation(numbers)]

\* The clusters, each with what is in it.
ClustersIn(order, at, threshold) ==
  LET groups == Swept(order, at, threshold)
      summary(i) == Summary([p \in DOMAIN groups[i] |-> at[groups[i][p]]])
  IN {[keys |-> Range(groups[i]), size |-> summary(i).size, centre |-> summary(i).centre,
       spread |-> summary(i).spread] : i \in DOMAIN groups}

\* What its spread is relative to.  Around zero there is none: such a cluster
\* has only zeros, which do not spread.
Span(c) == IF c.centre = 0 THEN 1 ELSE Magnitude(c.centre)

\* Largest, then tightest for its median, then lowest.
Dominates(a, b) ==
  \/ a.size > b.size
  \/ a.size = b.size /\ a.spread * Span(b) < b.spread * Span(a)
  \/ a.size = b.size /\ a.spread * Span(b) = b.spread * Span(a) /\ a.centre < b.centre

\* The clusters from the dominant one on, ties in the order they were found.
ByDominance(summary) ==
  Ranked(DOMAIN summary, LAMBDA i, j :
           \/ Dominates(summary[i], summary[j])
           \/ ~Dominates(summary[j], summary[i]) /\ i < j)

=============================================================================
