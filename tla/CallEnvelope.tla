---------------------------- MODULE CallEnvelope ----------------------------
(***************************************************************************)
(* What Module 20 promises about one query's neural calls, said without    *)
(* any counter: a ticket is opened for a whole number of calls before an   *)
(* action runs, it is closed at most once, and what it did not use comes   *)
(* back.  A ticket opens only while the calls already spent, the calls all *)
(* open tickets hold and its own calls fit under the ceiling together.     *)
(* BudgetLedger keeps running totals instead and is shown to implement     *)
(* this.                                                                   *)
(***************************************************************************)
EXTENDS Integers, FiniteSets

CONSTANTS
  Tickets,   \* names a ticket may have, in the order of their opening: 1..N
  Ceiling    \* the hard ceiling of the query, in calls

VARIABLES
  spent,     \* calls made and never refundable
  open       \* open[t] = calls held by the open ticket t

\* One element for every call that the open tickets hold.
HeldCalls == UNION {{t} \X (1..open[t]) : t \in DOMAIN open}

Init ==
  /\ spent \in Nat
  /\ open = [t \in {} |-> 0]

Open(t, calls) ==
  /\ t \notin DOMAIN open
  /\ spent + Cardinality(HeldCalls) + calls <= Ceiling
  /\ open' = [u \in DOMAIN open \cup {t} |-> IF u = t THEN calls ELSE open[u]]
  /\ UNCHANGED spent

\* A ticket closes with the calls it really made; a cancelled one made none.
Close(t, actual) ==
  /\ t \in DOMAIN open
  /\ actual <= open[t]
  /\ spent' = spent + actual
  /\ open' = [u \in DOMAIN open \ {t} |-> open[u]]

Next ==
  \E t \in Tickets :
    \/ \E calls \in 0..Ceiling : Open(t, calls)
    \/ t \in DOMAIN open /\ \E actual \in 0..open[t] : Close(t, actual)

vars == <<spent, open>>

Spec == Init /\ [][Next]_vars
=============================================================================
