--------------------------- MODULE QueryRunProofs ---------------------------
(***************************************************************************)
(* Proofs about BudgetLedger and QueryRun for every catalogue of actions,  *)
(* every calibration and every number of queries.  The counters of the     *)
(* ledger are only known to be natural numbers because they equal sums     *)
(* over the reservations, so the inductive invariant carries               *)
(* LedgerBalances, and the fact that makes those sums finite: no           *)
(* reservation holds more than the ceiling.  The ledger of each query of a *)
(* run satisfies it, whatever was spent when the ledger was built; what is *)
(* added for a run ties it to the counters of the runtimes, which neither  *)
(* the ledger nor the runtimes know of each other.                         *)
(***************************************************************************)
EXTENDS QueryRun, FiniteSetTheorems, TLAPS


-----------------------------------------------------------------------------
(* Sums written as cardinalities *)

\* One reservation accounts for as many units as its charge.
LEMMA SingleUnits ==
  ASSUME NEW i, NEW n \in Nat
  PROVE  /\ IsFiniteSet({i} \X (1..n))
         /\ Cardinality({i} \X (1..n)) = n
<1>1. IsFiniteSet({i}) /\ Cardinality({i}) = 1
  BY FS_Singleton
<1>2. IsFiniteSet(1..n) /\ Cardinality(1..n) = n
  BY FS_Interval
<1>3. /\ IsFiniteSet({i} \X (1..n))
      /\ Cardinality({i} \X (1..n)) = Cardinality({i}) * Cardinality(1..n)
  BY <1>1, <1>2, FS_Product
<1> QED
  BY <1>1, <1>2, <1>3

\* The units of finitely many bounded charges are finite.
LEMMA UnitsFinite ==
  ASSUME NEW I, IsFiniteSet(I), NEW f, NEW m \in Nat,
         \A i \in I : f[i] \in 0..m
  PROVE  IsFiniteSet(Units(I, f))
<1>1. IsFiniteSet(1..m)
  BY FS_Interval
<1>2. IsFiniteSet(I \X (1..m))
  BY <1>1, FS_Product
<1>3. Units(I, f) \subseteq I \X (1..m)
  <2>1. ASSUME NEW i \in I
        PROVE  {i} \X (1..f[i]) \subseteq I \X (1..m)
    <3>1. f[i] \in 0..m
      OBVIOUS
    <3>2. 1..f[i] \subseteq 1..m
      BY <3>1
    <3> QED
      BY <3>2
  <2> QED
    BY <2>1 DEF Units
<1> QED
  BY <1>2, <1>3, FS_Subset

Weight(i, I, f) == IF i \in I THEN f[i] ELSE 0

\* Taking one reservation out of a sum takes exactly its charge out.
LEMMA TotalSplit ==
  ASSUME NEW I, NEW f, NEW i, IsFiniteSet(Units(I, f)),
         i \in I => f[i] \in Nat
  PROVE  /\ Total(I \ {i}, f) = Total(I, f) - Weight(i, I, f)
         /\ Total(I, f) \in Nat
<1>1. Total(I, f) \in Nat
  BY FS_CardinalityType DEF Total
<1>2. CASE i \notin I
  <2>1. I \ {i} = I
    BY <1>2
  <2> QED
    BY <1>1, <1>2, <2>1 DEF Weight
<1>3. CASE i \in I
  <2> DEFINE rest == Units(I \ {i}, f)
             own == {i} \X (1..f[i])
  <2>1. Units(I, f) = rest \cup own
    BY <1>3 DEF Units
  <2>2. rest \cap own = {}
    BY DEF Units
  <2>3. IsFiniteSet(rest)
    BY <2>1, FS_Subset
  <2>4. IsFiniteSet(own) /\ Cardinality(own) = f[i]
    BY <1>3, SingleUnits
  <2>5. Cardinality(rest \cup own)
          = Cardinality(rest) + Cardinality(own) - Cardinality(rest \cap own)
    BY <2>3, <2>4, FS_Union
  <2>6. Cardinality(rest \cap own) = 0
    BY <2>2, FS_EmptySet
  <2>7. Cardinality(rest) \in Nat
    BY <2>3, FS_CardinalityType
  <2> QED
    BY <1>1, <1>3, <2>1, <2>4, <2>5, <2>6, <2>7 DEF Weight, Total
<1> QED
  BY <1>2, <1>3

\* Sums that differ in one reservation only differ by that reservation.
LEMMA TotalMove ==
  ASSUME NEW I, NEW J, NEW f, NEW g, NEW i,
         IsFiniteSet(Units(I, f)), IsFiniteSet(Units(J, g)),
         i \in I => f[i] \in Nat, i \in J => g[i] \in Nat,
         I \ {i} = J \ {i},
         \A j \in I \ {i} : f[j] = g[j]
  PROVE  Total(J, g) = Total(I, f) - Weight(i, I, f) + Weight(i, J, g)
<1>1. Units(I \ {i}, f) = Units(J \ {i}, g)
  <2>1. {{j} \X (1..f[j]) : j \in I \ {i}} = {{j} \X (1..g[j]) : j \in J \ {i}}
    OBVIOUS
  <2> QED
    BY <2>1 DEF Units
<1>2. Total(I \ {i}, f) = Total(J \ {i}, g)
  BY <1>1 DEF Total
<1>3. /\ Total(I \ {i}, f) = Total(I, f) - Weight(i, I, f)
      /\ Total(I, f) \in Nat
  BY TotalSplit
<1>4. /\ Total(J \ {i}, g) = Total(J, g) - Weight(i, J, g)
      /\ Total(J, g) \in Nat
  BY TotalSplit
<1>5. Weight(i, I, f) \in Nat /\ Weight(i, J, g) \in Nat
  BY DEF Weight
<1>6. \A x, y, u, v \in Nat : x - u = y - v => y = x - u + v
  OBVIOUS
<1> QED
  <2>1. /\ Total(I, f) \in Nat /\ Total(J, g) \in Nat
        /\ Weight(i, I, f) \in Nat /\ Weight(i, J, g) \in Nat
    BY <1>3, <1>4, <1>5
  <2>2. Total(I, f) - Weight(i, I, f) = Total(J, g) - Weight(i, J, g)
    BY <1>2, <1>3, <1>4
  <2> QED
    BY <2>1, <2>2, <1>6

\* A new reservation adds its charge to the sums it belongs to, and to no other.
LEMMA TotalAppend ==
  ASSUME NEW I, NEW f, NEW g, NEW n, n \notin I, g[n] \in Nat,
         IsFiniteSet(Units(I, f)), IsFiniteSet(Units(I, g)),
         IsFiniteSet(Units(I \cup {n}, g)),
         \A j \in I : f[j] = g[j]
  PROVE  /\ Total(I, g) = Total(I, f)
         /\ Total(I \cup {n}, g) = Total(I, f) + g[n]
<1>1. Total(I, f) \in Nat
  BY FS_CardinalityType DEF Total
<1>2. Total(I, g) = Total(I, f) - Weight(n, I, f) + Weight(n, I, g)
  BY TotalMove
<1>3. Total(I \cup {n}, g) = Total(I, f) - Weight(n, I, f) + Weight(n, I \cup {n}, g)
  <2>1. (I \cup {n}) \ {n} = I \ {n}
    OBVIOUS
  <2> QED
    BY <2>1, TotalMove
<1>4. /\ Weight(n, I, f) = 0 /\ Weight(n, I, g) = 0
      /\ Weight(n, I \cup {n}, g) = g[n]
  BY DEF Weight
<1> QED
  BY <1>1, <1>2, <1>3, <1>4

-----------------------------------------------------------------------------
(* The inductive invariant *)

\* No hold and no measurement is larger than what was admitted.
HoldsFit ==
  \A i \in DOMAIN reservations :
    LET r == reservations[i]
    IN  /\ Calls[r.action] <= HardCalls /\ Tokens[r.action] <= HardTokens
        /\ r.calls <= Calls[r.action] /\ r.tokens <= Tokens[r.action]
        /\ r.status = "OUTSTANDING" => r.calls = 0 /\ r.tokens = 0

IInv == TypeOK /\ HoldsFit /\ LedgerBalances /\ EnvelopeHolds /\ SoleFloorHolds

\* Sums of bounded charges over the indices of a sequence are natural numbers.
LEMMA SequenceTotals ==
  ASSUME NEW S, NEW s \in Seq(S), NEW f, NEW m \in Nat,
         \A i \in DOMAIN s : f[i] \in 0..m
  PROVE  \A I \in SUBSET DOMAIN s :
           IsFiniteSet(Units(I, f)) /\ Total(I, f) \in Nat
<1> TAKE I \in SUBSET DOMAIN s
<1>1. IsFiniteSet(I)
  <2>1. DOMAIN s = 1..Len(s) /\ Len(s) \in Nat
    OBVIOUS
  <2>2. IsFiniteSet(1..Len(s))
    BY <2>1, FS_Interval
  <2> QED
    BY <2>1, <2>2, FS_Subset
<1>2. IsFiniteSet(Units(I, f))
  BY <1>1, UnitsFinite
<1> QED
  BY <1>2, FS_CardinalityType DEF Total

\* Every charge is bounded by the ceiling of its resource.
LEMMA ChargesBounded ==
  ASSUME reservations \in Seq(Reservation), HoldsFit
  PROVE  \A i \in DOMAIN reservations :
           callCharge[i] \in 0..HardCalls /\ tokenCharge[i] \in 0..HardTokens
<1> TAKE i \in DOMAIN reservations
<1>1. /\ reservations[i].action \in Actions
      /\ reservations[i].calls \in Nat /\ reservations[i].tokens \in Nat
  <2>1. reservations[i] \in Reservation
    OBVIOUS
  <2> QED
    BY <2>1 DEF Reservation
<1>2. /\ Calls[reservations[i].action] \in Nat
      /\ Tokens[reservations[i].action] \in Nat
  BY <1>1, DescriptorAssumption
<1>3. /\ Calls[reservations[i].action] <= HardCalls
      /\ Tokens[reservations[i].action] <= HardTokens
      /\ reservations[i].calls <= Calls[reservations[i].action]
      /\ reservations[i].tokens <= Tokens[reservations[i].action]
  BY DEF HoldsFit
<1>4. callCharge[i] \in 0..HardCalls
  BY <1>1, <1>2, <1>3, CalibrationAssumption DEF callCharge
<1>5. tokenCharge[i] \in 0..HardTokens
  BY <1>1, <1>2, <1>3, CalibrationAssumption DEF tokenCharge
<1> QED
  BY <1>4, <1>5

-----------------------------------------------------------------------------
(* How the two kinds of step move the sums *)

\* Settle and Cancel close hold i with m calls and t tokens measured.
Closes(i, m, t) ==
  LET a == reservations[i].action
  IN  /\ i \in Outstanding
      /\ m \in 0..Calls[a] /\ t \in 0..Tokens[a]
      /\ \E s \in {"SETTLED", "CANCELLED"} :
           reservations' = [reservations EXCEPT ![i] =
             [action |-> a, status |-> s, calls |-> m, tokens |-> t]]
      /\ ReleaseHold(a)
      /\ settledCalls' = settledCalls + m
      /\ settledTokens' = settledTokens + t
      /\ Commit(a, m - Calls[a])
      /\ answer' = "CLOSED"
      /\ UNCHANGED prior

LEMMA SettleCloses ==
  ASSUME IInv, NEW i \in DOMAIN reservations,
         NEW m \in 0..Calls[reservations[i].action],
         NEW t \in 0..Tokens[reservations[i].action], Settle(i, m, t)
  PROVE  Closes(i, m, t)
<1>1. \E s \in {"SETTLED", "CANCELLED"} :
        reservations' = [reservations EXCEPT ![i] =
          [action |-> reservations[i].action, status |-> s, calls |-> m, tokens |-> t]]
  BY DEF Settle
<1> QED
  BY <1>1 DEF Settle, Closes

LEMMA CancelCloses ==
  ASSUME IInv, NEW i \in DOMAIN reservations, Cancel(i)
  PROVE  Closes(i, 0, 0)
<1>1. reservations[i] \in Reservation
  BY DEF IInv, TypeOK
<1>2. /\ i \in Outstanding
      /\ reservations[i].calls = 0 /\ reservations[i].tokens = 0
  BY DEF Cancel, Outstanding, IInv, HoldsFit
<1>3. [reservations[i] EXCEPT !.status = "CANCELLED"]
        = [action |-> reservations[i].action, status |-> "CANCELLED",
           calls |-> 0, tokens |-> 0]
  BY <1>1, <1>2 DEF Reservation
<1>4. reservations' = [reservations EXCEPT ![i] =
        [action |-> reservations[i].action, status |-> "CANCELLED",
         calls |-> 0, tokens |-> 0]]
  BY <1>3 DEF Cancel
<1>5. Calls[reservations[i].action] \in Nat /\ Tokens[reservations[i].action] \in Nat
  BY <1>1, DescriptorAssumption DEF Reservation
<1>6. /\ settledCalls' = settledCalls + 0 /\ settledTokens' = settledTokens + 0
      /\ Commit(reservations[i].action, 0 - Calls[reservations[i].action])
  <2>1. -Calls[reservations[i].action] = 0 - Calls[reservations[i].action]
    BY <1>5
  <2> QED
    BY <2>1 DEF Cancel, IInv, TypeOK
<1> QED
  <2>1. \E s \in {"SETTLED", "CANCELLED"} :
          reservations' = [reservations EXCEPT ![i] =
            [action |-> reservations[i].action, status |-> s, calls |-> 0, tokens |-> 0]]
    BY <1>4
  <2>2. /\ 0 \in 0..Calls[reservations[i].action]
        /\ 0 \in 0..Tokens[reservations[i].action]
    BY <1>5
  <2> QED
    BY <1>2, <1>6, <2>1, <2>2 DEF Cancel, Closes

\* What Reserve(a) appends, and what it leaves as it was.
LEMMA ReserveShape ==
  ASSUME IInv, NEW a \in Actions, Reserve(a)
  PROVE  LET n == Len(reservations) + 1
         IN  /\ reservations' \in Seq(Reservation)
             /\ DOMAIN reservations' = DOMAIN reservations \cup {n}
             /\ n \notin DOMAIN reservations
             /\ \A j \in DOMAIN reservations : reservations'[j] = reservations[j]
             /\ reservations'[n] = [action |-> a, status |-> "OUTSTANDING",
                                    calls |-> 0, tokens |-> 0]
<1>1. [action |-> a, status |-> "OUTSTANDING", calls |-> 0, tokens |-> 0]
        \in Reservation
  BY DEF Reservation
<1>2. reservations \in Seq(Reservation)
  BY DEF IInv, TypeOK
<1> DEFINE r == [action |-> a, status |-> "OUTSTANDING", calls |-> 0, tokens |-> 0]
<1>3. reservations' = Append(reservations, r)
  BY DEF Reserve
<1>4. r \in Reservation
  BY <1>1
<1> HIDE DEF r
<1>5. /\ Append(reservations, r) \in Seq(Reservation)
      /\ Len(reservations) \in Nat
      /\ DOMAIN reservations = 1..Len(reservations)
      /\ DOMAIN Append(reservations, r) = 1..(Len(reservations) + 1)
      /\ \A j \in 1..Len(reservations) : Append(reservations, r)[j] = reservations[j]
      /\ Append(reservations, r)[Len(reservations) + 1] = r
  BY <1>2, <1>4
<1> QED
  BY <1>3, <1>5 DEF r

LEMMA ReserveBalances ==
  ASSUME IInv, NEW a \in Actions, Reserve(a)
  PROVE  HoldsFit' /\ LedgerBalances'
<1> DEFINE n == Len(reservations) + 1
<1>1. /\ reservations \in Seq(Reservation)
      /\ reservations' \in Seq(Reservation)
      /\ DOMAIN reservations' = DOMAIN reservations \cup {n}
      /\ n \notin DOMAIN reservations
      /\ \A j \in DOMAIN reservations : reservations'[j] = reservations[j]
      /\ reservations'[n] = [action |-> a, status |-> "OUTSTANDING",
                             calls |-> 0, tokens |-> 0]
  BY ReserveShape DEF IInv, TypeOK
<1>2. Calls[a] \in 0..HardCalls /\ Tokens[a] \in 0..HardTokens
  <2>1. ~OverHardCap(a) /\ ~OverTokenCap(a)
    BY DEF Reserve, Refusal
  <2>2. committedCalls \in Nat /\ committedTokens \in Nat
    BY DEF IInv, TypeOK, committedCalls, committedTokens
  <2>3. Calls[a] \in Nat /\ Tokens[a] \in Nat
    BY DescriptorAssumption
  <2> QED
    BY <2>1, <2>2, <2>3, CalibrationAssumption DEF OverHardCap, OverTokenCap
<1>3. HoldsFit'
  BY <1>1, <1>2 DEF IInv, HoldsFit
<1> HIDE DEF n
<1>4. /\ callCharge'[n] = Calls[a] /\ tokenCharge'[n] = Tokens[a]
      /\ \A j \in DOMAIN reservations :
           callCharge'[j] = callCharge[j] /\ tokenCharge'[j] = tokenCharge[j]
  BY <1>1 DEF callCharge, tokenCharge
<1>5. /\ Outstanding' = Outstanding \cup {n}
      /\ Closed' = Closed
      /\ \A c : OfClass(c)' = IF Class[a] = c THEN OfClass(c) \cup {n} ELSE OfClass(c)
      /\ \A p : OfPurpose(p)' = IF Purpose[a] = p THEN OfPurpose(p) \cup {n}
                                                  ELSE OfPurpose(p)
  BY <1>1 DEF Outstanding, Closed, OfClass, OfPurpose
<1>6. \A I \in SUBSET DOMAIN reservations :
        /\ Total(I, callCharge') = Total(I, callCharge)
        /\ Total(I, tokenCharge') = Total(I, tokenCharge)
        /\ Total(I \cup {n}, callCharge') = Total(I, callCharge) + Calls[a]
        /\ Total(I \cup {n}, tokenCharge') = Total(I, tokenCharge) + Tokens[a]
  <2> TAKE I \in SUBSET DOMAIN reservations
  <2>1. /\ IsFiniteSet(Units(I, callCharge)) /\ IsFiniteSet(Units(I, tokenCharge))
        /\ Total(I, callCharge) \in Nat /\ Total(I, tokenCharge) \in Nat
    BY <1>1, ChargesBounded, SequenceTotals, CalibrationAssumption DEF IInv
  <2>2. \A j \in DOMAIN reservations' :
          callCharge'[j] \in 0..HardCalls /\ tokenCharge'[j] \in 0..HardTokens
    BY <1>1, <1>2, <1>4, ChargesBounded DEF IInv
  <2>3. /\ IsFiniteSet(Units(I, callCharge')) /\ IsFiniteSet(Units(I, tokenCharge'))
        /\ IsFiniteSet(Units(I \cup {n}, callCharge'))
        /\ IsFiniteSet(Units(I \cup {n}, tokenCharge'))
    <3>1. /\ I \in SUBSET DOMAIN reservations'
          /\ I \cup {n} \in SUBSET DOMAIN reservations'
      BY <1>1
    <3>2. HardCalls \in Nat /\ HardTokens \in Nat
      BY CalibrationAssumption
    <3>3. /\ \A J \in SUBSET DOMAIN reservations' : IsFiniteSet(Units(J, callCharge'))
          /\ \A J \in SUBSET DOMAIN reservations' : IsFiniteSet(Units(J, tokenCharge'))
      <4>1. reservations' \in Seq(Reservation)
        BY <1>1
      <4>2. \A j \in DOMAIN reservations' : callCharge'[j] \in 0..HardCalls
        BY <2>2
      <4>3. \A j \in DOMAIN reservations' : tokenCharge'[j] \in 0..HardTokens
        BY <2>2
      <4>4. \A J \in SUBSET DOMAIN reservations' : IsFiniteSet(Units(J, callCharge'))
        BY <3>2, <4>1, <4>2, SequenceTotals
      <4>5. \A J \in SUBSET DOMAIN reservations' : IsFiniteSet(Units(J, tokenCharge'))
        BY <3>2, <4>1, <4>3, SequenceTotals
      <4> QED
        BY <4>4, <4>5
    <3> QED
      BY <3>1, <3>3
  <2>4. n \notin I /\ I \ {n} = I /\ (I \cup {n}) \ {n} = I
    BY <1>1
  <2>5. /\ \A j \in I : callCharge[j] = callCharge'[j]
        /\ \A j \in I : tokenCharge[j] = tokenCharge'[j]
    BY <1>4
  <2>6. Calls[a] \in Nat /\ Tokens[a] \in Nat
    BY DescriptorAssumption
  <2>7. callCharge'[n] \in Nat /\ tokenCharge'[n] \in Nat
    BY <1>4, <2>6
  <2>8. /\ Total(I, callCharge') = Total(I, callCharge)
        /\ Total(I \cup {n}, callCharge') = Total(I, callCharge) + callCharge'[n]
    <3> DEFINE f == callCharge
               e == callCharge'
    <3>1. /\ \A j \in I : f[j] = e[j]
          /\ n \notin I /\ e[n] \in Nat
          /\ IsFiniteSet(Units(I, f)) /\ IsFiniteSet(Units(I, e))
          /\ IsFiniteSet(Units(I \cup {n}, e))
      BY <2>1, <2>3, <2>4, <2>5, <2>7
    <3> HIDE DEF f, e
    <3>2. /\ Total(I, e) = Total(I, f)
          /\ Total(I \cup {n}, e) = Total(I, f) + e[n]
      BY <3>1, TotalAppend
    <3> QED
      BY <3>2 DEF f, e
  <2>9. /\ Total(I, tokenCharge') = Total(I, tokenCharge)
        /\ Total(I \cup {n}, tokenCharge') = Total(I, tokenCharge) + tokenCharge'[n]
    <3> DEFINE f == tokenCharge
               e == tokenCharge'
    <3>1. /\ \A j \in I : f[j] = e[j]
          /\ n \notin I /\ e[n] \in Nat
          /\ IsFiniteSet(Units(I, f)) /\ IsFiniteSet(Units(I, e))
          /\ IsFiniteSet(Units(I \cup {n}, e))
      BY <2>1, <2>3, <2>4, <2>5, <2>7
    <3> HIDE DEF f, e
    <3>2. /\ Total(I, e) = Total(I, f)
          /\ Total(I \cup {n}, e) = Total(I, f) + e[n]
      BY <3>1, TotalAppend
    <3> QED
      BY <3>2 DEF f, e
  <2> QED
    BY <1>4, <2>8, <2>9
<1>7. /\ Outstanding \in SUBSET DOMAIN reservations
      /\ Closed \in SUBSET DOMAIN reservations
      /\ \A c : OfClass(c) \in SUBSET DOMAIN reservations
      /\ \A p : OfPurpose(p) \in SUBSET DOMAIN reservations
  BY DEF Outstanding, Closed, OfClass, OfPurpose
<1>8. /\ reservedCalls' = Total(Outstanding', callCharge')
      /\ reservedTokens' = Total(Outstanding', tokenCharge')
      /\ settledCalls' = Total(Closed', callCharge')
      /\ settledTokens' = Total(Closed', tokenCharge')
  BY <1>5, <1>6, <1>7 DEF Reserve, IInv, LedgerBalances
<1>9. \A c \in Classes : classCommitted'[c] = Total(OfClass(c)', callCharge')
  <2> TAKE c \in Classes
  <2>1. classCommitted'[c] = classCommitted[c] + (IF Class[a] = c THEN Calls[a] ELSE 0)
    <3>1. Calls[a] \in Nat /\ Class[a] \in Classes
      BY DescriptorAssumption
    <3>2. classCommitted \in [Classes -> Nat]
      BY DEF IInv, TypeOK
    <3>3. classCommitted' = [classCommitted EXCEPT ![Class[a]] = @ + Calls[a]]
      BY DEF Reserve, Commit
    <3> QED
      BY <3>1, <3>2, <3>3
  <2>2. classCommitted[c] = Total(OfClass(c), callCharge) /\ classCommitted[c] \in Nat
    BY DEF IInv, LedgerBalances, TypeOK
  <2>3. /\ Total(OfClass(c), callCharge') = Total(OfClass(c), callCharge)
        /\ Total(OfClass(c) \cup {n}, callCharge')
             = Total(OfClass(c), callCharge) + Calls[a]
    BY <1>6, <1>7
  <2>4. CASE Class[a] = c
    <3>1. OfClass(c)' = OfClass(c) \cup {n}
      BY <1>5, <2>4
    <3> QED
      BY <2>1, <2>2, <2>3, <2>4, <3>1
  <2>5. CASE Class[a] # c
    <3>1. OfClass(c)' = OfClass(c)
      BY <1>5, <2>5
    <3> QED
      BY <2>1, <2>2, <2>3, <2>5, <3>1
  <2> QED
    BY <2>4, <2>5
<1>10. \A p \in Special : purposeCommitted'[p] = Total(OfPurpose(p)', callCharge')
  <2> TAKE p \in Special
  <2>1. purposeCommitted'[p] = purposeCommitted[p] + (IF Purpose[a] = p THEN Calls[a] ELSE 0)
    BY DEF Reserve, Commit
  <2>2. purposeCommitted[p] = Total(OfPurpose(p), callCharge) /\ purposeCommitted[p] \in Nat
    BY DEF IInv, LedgerBalances, TypeOK
  <2>3. /\ Total(OfPurpose(p), callCharge') = Total(OfPurpose(p), callCharge)
        /\ Total(OfPurpose(p) \cup {n}, callCharge')
             = Total(OfPurpose(p), callCharge) + Calls[a]
    BY <1>6, <1>7
  <2> QED
    BY <1>5, <2>1, <2>2, <2>3
<1> QED
  BY <1>3, <1>8, <1>9, <1>10 DEF LedgerBalances

\* What closing hold i changes, and what it leaves as it was.
LEMMA ClosesShape ==
  ASSUME IInv, NEW i, NEW m, NEW t, Closes(i, m, t)
  PROVE  LET a == reservations[i].action
         IN  /\ i \in DOMAIN reservations /\ a \in Actions
             /\ m \in 0..Calls[a] /\ t \in 0..Tokens[a]
             /\ Calls[a] \in 0..HardCalls /\ Tokens[a] \in 0..HardTokens
             /\ reservations' \in Seq(Reservation)
             /\ DOMAIN reservations' = DOMAIN reservations
             /\ \A j \in DOMAIN reservations : j # i => reservations'[j] = reservations[j]
             /\ reservations[i].status = "OUTSTANDING"
             /\ reservations'[i] \in Reservation
             /\ reservations'[i].action = a
             /\ reservations'[i].status \in {"SETTLED", "CANCELLED"}
             /\ reservations'[i].calls = m /\ reservations'[i].tokens = t
<1> DEFINE a == reservations[i].action
<1>1. /\ reservations \in Seq(Reservation) /\ i \in DOMAIN reservations
      /\ reservations[i].status = "OUTSTANDING"
      /\ m \in 0..Calls[a] /\ t \in 0..Tokens[a]
  BY DEF Closes, Outstanding, IInv, TypeOK
<1>2. reservations[i] \in Reservation
  BY <1>1
<1>3. a \in Actions /\ Calls[a] \in Nat /\ Tokens[a] \in Nat
  BY <1>2, DescriptorAssumption DEF Reservation
<1>4. Calls[a] \in 0..HardCalls /\ Tokens[a] \in 0..HardTokens
  BY <1>1, <1>3, CalibrationAssumption DEF IInv, HoldsFit
<1>5. PICK s \in {"SETTLED", "CANCELLED"} :
        reservations' = [reservations EXCEPT ![i] =
          [action |-> a, status |-> s, calls |-> m, tokens |-> t]]
  BY DEF Closes
<1>6. [action |-> a, status |-> s, calls |-> m, tokens |-> t] \in Reservation
  BY <1>1, <1>3 DEF Reservation
<1>7. reservations' \in Seq(Reservation)
  BY <1>1, <1>5, <1>6
<1> QED
  BY <1>1, <1>3, <1>4, <1>5, <1>6, <1>7

LEMMA ClosesBalances ==
  ASSUME IInv, NEW i, NEW m, NEW t, Closes(i, m, t)
  PROVE  HoldsFit' /\ LedgerBalances'
<1> DEFINE a == reservations[i].action
<1>1. /\ i \in DOMAIN reservations /\ a \in Actions
      /\ m \in 0..Calls[a] /\ t \in 0..Tokens[a]
      /\ Calls[a] \in 0..HardCalls /\ Tokens[a] \in 0..HardTokens
      /\ reservations' \in Seq(Reservation)
      /\ DOMAIN reservations' = DOMAIN reservations
      /\ \A j \in DOMAIN reservations : j # i => reservations'[j] = reservations[j]
      /\ reservations[i].status = "OUTSTANDING"
      /\ reservations'[i] \in Reservation
      /\ reservations'[i].action = a
      /\ reservations'[i].status \in {"SETTLED", "CANCELLED"}
      /\ reservations'[i].calls = m /\ reservations'[i].tokens = t
  BY ClosesShape
<1> HIDE DEF a
<1>2. HoldsFit'
  <2>1. \A j \in DOMAIN reservations' : j # i =>
          LET r == reservations'[j]
          IN  /\ Calls[r.action] <= HardCalls /\ Tokens[r.action] <= HardTokens
              /\ r.calls <= Calls[r.action] /\ r.tokens <= Tokens[r.action]
              /\ r.status = "OUTSTANDING" => r.calls = 0 /\ r.tokens = 0
    BY <1>1 DEF IInv, HoldsFit
  <2>2. LET r == reservations'[i]
        IN  /\ Calls[r.action] <= HardCalls /\ Tokens[r.action] <= HardTokens
            /\ r.calls <= Calls[r.action] /\ r.tokens <= Tokens[r.action]
            /\ r.status # "OUTSTANDING"
    BY <1>1, CalibrationAssumption
  <2> QED
    BY <2>1, <2>2 DEF HoldsFit
<1>3. /\ callCharge[i] = Calls[a] /\ tokenCharge[i] = Tokens[a]
      /\ callCharge'[i] = m /\ tokenCharge'[i] = t
      /\ \A j \in DOMAIN reservations : j # i =>
           callCharge'[j] = callCharge[j] /\ tokenCharge'[j] = tokenCharge[j]
  BY <1>1 DEF callCharge, tokenCharge, a
<1>4. /\ Outstanding' = Outstanding \ {i} /\ i \in Outstanding
      /\ Closed' = Closed \cup {i} /\ i \notin Closed
      /\ \A c : OfClass(c)' = OfClass(c) /\ (i \in OfClass(c) <=> Class[a] = c)
      /\ \A p : OfPurpose(p)' = OfPurpose(p) /\ (i \in OfPurpose(p) <=> Purpose[a] = p)
  BY <1>1 DEF Outstanding, Closed, OfClass, OfPurpose, a
<1>5. /\ Outstanding \in SUBSET DOMAIN reservations
      /\ Closed \in SUBSET DOMAIN reservations
      /\ \A c : OfClass(c) \in SUBSET DOMAIN reservations
      /\ \A p : OfPurpose(p) \in SUBSET DOMAIN reservations
  BY DEF Outstanding, Closed, OfClass, OfPurpose
<1>6. \A I, J \in SUBSET DOMAIN reservations : I \ {i} = J \ {i} =>
        /\ i \in I /\ i \in J =>
             Total(J, callCharge') = Total(I, callCharge) + (m - Calls[a])
        /\ i \in I /\ i \notin J =>
             /\ Total(J, callCharge') = Total(I, callCharge) - Calls[a]
             /\ Total(J, tokenCharge') = Total(I, tokenCharge) - Tokens[a]
        /\ i \notin I /\ i \in J =>
             /\ Total(J, callCharge') = Total(I, callCharge) + m
             /\ Total(J, tokenCharge') = Total(I, tokenCharge) + t
        /\ i \notin I /\ i \notin J => Total(J, callCharge') = Total(I, callCharge)
  <2> SUFFICES ASSUME NEW I \in SUBSET DOMAIN reservations,
                      NEW J \in SUBSET DOMAIN reservations, I \ {i} = J \ {i}
               PROVE  /\ i \in I /\ i \in J =>
                           Total(J, callCharge') = Total(I, callCharge) + (m - Calls[a])
                      /\ i \in I /\ i \notin J =>
                           /\ Total(J, callCharge') = Total(I, callCharge) - Calls[a]
                           /\ Total(J, tokenCharge') = Total(I, tokenCharge) - Tokens[a]
                      /\ i \notin I /\ i \in J =>
                           /\ Total(J, callCharge') = Total(I, callCharge) + m
                           /\ Total(J, tokenCharge') = Total(I, tokenCharge) + t
                      /\ i \notin I /\ i \notin J =>
                           Total(J, callCharge') = Total(I, callCharge)
    OBVIOUS
  <2>1. IsFiniteSet(Units(I, callCharge)) /\ IsFiniteSet(Units(I, tokenCharge))
    BY ChargesBounded, SequenceTotals, CalibrationAssumption DEF IInv, TypeOK
  <2>2. \A j \in DOMAIN reservations' :
          callCharge'[j] \in 0..HardCalls /\ tokenCharge'[j] \in 0..HardTokens
    <3>1. \A j \in DOMAIN reservations :
            callCharge[j] \in 0..HardCalls /\ tokenCharge[j] \in 0..HardTokens
      BY ChargesBounded DEF IInv, TypeOK
    <3>2. m \in 0..HardCalls /\ t \in 0..HardTokens
      BY <1>1, CalibrationAssumption
    <3> QED
      BY <1>1, <1>3, <3>1, <3>2
  <2>3. IsFiniteSet(Units(J, callCharge')) /\ IsFiniteSet(Units(J, tokenCharge'))
    BY <1>1, <2>2, SequenceTotals, CalibrationAssumption
  <2>4. /\ callCharge[i] \in Nat /\ callCharge'[i] \in Nat
        /\ tokenCharge[i] \in Nat /\ tokenCharge'[i] \in Nat
    BY <1>1, <1>3
  <2>5. /\ i \in I /\ i \in J =>
             Total(J, callCharge') = Total(I, callCharge) + (callCharge'[i] - callCharge[i])
        /\ i \in I /\ i \notin J =>
             Total(J, callCharge') = Total(I, callCharge) - callCharge[i]
        /\ i \notin I /\ i \in J =>
             Total(J, callCharge') = Total(I, callCharge) + callCharge'[i]
        /\ i \notin I /\ i \notin J => Total(J, callCharge') = Total(I, callCharge)
    <3>1. \A j \in I \ {i} : callCharge[j] = callCharge'[j]
      BY <1>3
    <3>2. Total(J, callCharge')
            = Total(I, callCharge) - Weight(i, I, callCharge) + Weight(i, J, callCharge')
      BY <2>1, <2>3, <2>4, <3>1, TotalMove, SMTT(30)
    <3>3. Total(I, callCharge) \in Nat
      BY <2>1, FS_CardinalityType DEF Total
    <3> QED
      BY <2>4, <3>2, <3>3 DEF Weight
  <2>6. /\ i \in I /\ i \notin J =>
             Total(J, tokenCharge') = Total(I, tokenCharge) - tokenCharge[i]
        /\ i \notin I /\ i \in J =>
             Total(J, tokenCharge') = Total(I, tokenCharge) + tokenCharge'[i]
    <3>1. \A j \in I \ {i} : tokenCharge[j] = tokenCharge'[j]
      BY <1>3
    <3>2. Total(J, tokenCharge')
            = Total(I, tokenCharge) - Weight(i, I, tokenCharge) + Weight(i, J, tokenCharge')
      BY <2>1, <2>3, <2>4, <3>1, TotalMove, SMTT(30)
    <3>3. Total(I, tokenCharge) \in Nat
      BY <2>1, FS_CardinalityType DEF Total
    <3> QED
      BY <2>4, <3>2, <3>3 DEF Weight
  <2> QED
    BY <1>3, <2>5, <2>6
<1>7. /\ reservedCalls' = Total(Outstanding', callCharge')
      /\ reservedTokens' = Total(Outstanding', tokenCharge')
  <2>1. /\ Outstanding' \in SUBSET DOMAIN reservations
        /\ Outstanding \ {i} = Outstanding' \ {i} /\ i \notin Outstanding'
    BY <1>4, <1>5
  <2>2. /\ Total(Outstanding', callCharge') = Total(Outstanding, callCharge) - Calls[a]
        /\ Total(Outstanding', tokenCharge') = Total(Outstanding, tokenCharge) - Tokens[a]
    BY <1>4, <1>5, <1>6, <2>1
  <2> QED
    BY <2>2 DEF Closes, ReleaseHold, IInv, LedgerBalances, a
<1>8. /\ settledCalls' = Total(Closed', callCharge')
      /\ settledTokens' = Total(Closed', tokenCharge')
  <2>1. /\ Closed' \in SUBSET DOMAIN reservations
        /\ Closed \ {i} = Closed' \ {i} /\ i \in Closed'
    BY <1>1, <1>4, <1>5
  <2>2. /\ Total(Closed', callCharge') = Total(Closed, callCharge) + m
        /\ Total(Closed', tokenCharge') = Total(Closed, tokenCharge) + t
    BY <1>4, <1>5, <1>6, <2>1
  <2> QED
    BY <2>2 DEF Closes, IInv, LedgerBalances
<1>9. \A c \in Classes : classCommitted'[c] = Total(OfClass(c)', callCharge')
  <2> TAKE c \in Classes
  <2>1. classCommitted'[c]
          = classCommitted[c] + (IF Class[a] = c THEN m - Calls[a] ELSE 0)
    <3>1. Class[a] \in Classes /\ m - Calls[a] \in Int
      BY <1>1, DescriptorAssumption
    <3>2. classCommitted \in [Classes -> Nat]
      BY DEF IInv, TypeOK
    <3>3. classCommitted' = [classCommitted EXCEPT ![Class[a]] = @ + (m - Calls[a])]
      BY DEF Closes, Commit, a
    <3> QED
      BY <3>1, <3>2, <3>3
  <2>2. classCommitted[c] = Total(OfClass(c), callCharge) /\ classCommitted[c] \in Nat
    BY DEF IInv, LedgerBalances, TypeOK
  <2>3. /\ i \in OfClass(c) => Total(OfClass(c), callCharge')
             = Total(OfClass(c), callCharge) + (m - Calls[a])
        /\ i \notin OfClass(c) => Total(OfClass(c), callCharge')
             = Total(OfClass(c), callCharge)
    BY <1>5, <1>6
  <2> QED
    BY <1>4, <2>1, <2>2, <2>3
<1>10. \A p \in Special : purposeCommitted'[p] = Total(OfPurpose(p)', callCharge')
  <2> TAKE p \in Special
  <2>1. purposeCommitted'[p]
          = purposeCommitted[p] + (IF Purpose[a] = p THEN m - Calls[a] ELSE 0)
    BY DEF Closes, Commit, a
  <2>2. purposeCommitted[p] = Total(OfPurpose(p), callCharge) /\ purposeCommitted[p] \in Nat
    BY DEF IInv, LedgerBalances, TypeOK
  <2>3. /\ i \in OfPurpose(p) => Total(OfPurpose(p), callCharge')
             = Total(OfPurpose(p), callCharge) + (m - Calls[a])
        /\ i \notin OfPurpose(p) => Total(OfPurpose(p), callCharge')
             = Total(OfPurpose(p), callCharge)
    BY <1>5, <1>6
  <2> QED
    BY <1>4, <2>1, <2>2, <2>3
<1> QED
  BY <1>2, <1>7, <1>8, <1>9, <1>10 DEF LedgerBalances

-----------------------------------------------------------------------------
(* The ceiling, the class caps and a sole floor *)

\* An admitted hold fits under every ceiling, and within what its pool rules
\* leave it.
LEMMA Admitted ==
  ASSUME IInv, NEW a \in Actions, Reserve(a)
  PROVE  /\ Calls[a] \in Nat /\ Tokens[a] \in Nat
         /\ committedCalls + Calls[a] <= HardCalls
         /\ committedTokens + Tokens[a] <= HardTokens
         /\ classCommitted[Class[a]] + Calls[a] <= ClassCap[Class[a]]
         /\ Calls[a] <= availableCalls(a)
         /\ committedCalls' = committedCalls + Calls[a]
         /\ committedTokens' = committedTokens + Tokens[a]
         /\ \A c \in Classes : classCommitted'[c]
              = classCommitted[c] + (IF Class[a] = c THEN Calls[a] ELSE 0)
         /\ \A p \in Special : purposeCommitted'[p]
              = purposeCommitted[p] + (IF Purpose[a] = p THEN Calls[a] ELSE 0)
<1>1. Calls[a] \in Nat /\ Tokens[a] \in Nat /\ Class[a] \in Classes
  BY DescriptorAssumption
<1>2. /\ prior.calls \in Nat /\ prior.tokens \in Nat
      /\ reservedCalls \in Nat /\ reservedTokens \in Nat
      /\ settledCalls \in Nat /\ settledTokens \in Nat
      /\ classCommitted \in [Classes -> Nat]
  BY DEF IInv, TypeOK
<1>3. ~OverHardCap(a) /\ ~OverTokenCap(a) /\ ~OverClassCap(a) /\ ~OverAvailable(a)
  BY DEF Reserve, Refusal
<1>4. committedCalls \in Nat /\ committedTokens \in Nat
  BY <1>2 DEF committedCalls, committedTokens
<1>5. availableCalls(a) \in Int
  <2>1. SpecialReserve \in [Special -> Nat] /\ VerificationReserve \in Int
    BY CalibrationAssumption
  <2>2. /\ VerificationFloor \in Nat
        /\ \A p \in Special : SpecialFloor(p) \in Nat
    BY <1>2, <2>1 DEF IInv, TypeOK, VerificationFloor, SpecialFloor, PosPart, Classes
  <2>3. OwnPoolAvailable(a) \in Nat /\ ForeignProtected(a) \in Nat
    BY <2>2 DEF OwnPoolAvailable, ForeignProtected, Special
  <2> QED
    BY <1>4, <2>3, CalibrationAssumption DEF availableCalls, PosPart, Least
<1>6. /\ committedCalls + Calls[a] <= HardCalls
      /\ committedTokens + Tokens[a] <= HardTokens
      /\ Calls[a] <= availableCalls(a)
  BY <1>1, <1>3, <1>4, <1>5, CalibrationAssumption
  DEF OverHardCap, OverTokenCap, OverAvailable
<1>7. classCommitted[Class[a]] + Calls[a] <= ClassCap[Class[a]]
  <2>1. ClassCap[Class[a]] \in Nat /\ classCommitted[Class[a]] \in Nat
    BY <1>1, <1>2, CalibrationAssumption
  <2> QED
    BY <1>1, <1>3, <2>1 DEF OverClassCap
<1>8. /\ committedCalls' = committedCalls + Calls[a]
      /\ committedTokens' = committedTokens + Tokens[a]
  <2>1. /\ prior' = prior
        /\ settledCalls' = settledCalls /\ settledTokens' = settledTokens
        /\ reservedCalls' = reservedCalls + Calls[a]
        /\ reservedTokens' = reservedTokens + Tokens[a]
    BY DEF Reserve
  <2> QED
    BY <1>1, <1>2, <2>1 DEF committedCalls, committedTokens
<1>9. /\ classCommitted' = [classCommitted EXCEPT ![Class[a]] = @ + Calls[a]]
      /\ \A p \in Special : purposeCommitted'[p]
           = purposeCommitted[p] + (IF Purpose[a] = p THEN Calls[a] ELSE 0)
  BY DEF Reserve, Commit
<1>10. \A c \in Classes : classCommitted'[c]
         = classCommitted[c] + (IF Class[a] = c THEN Calls[a] ELSE 0)
  BY <1>1, <1>2, <1>9
<1> QED
  BY <1>1, <1>6, <1>7, <1>8, <1>9, <1>10

\* Closing a hold can only lower the commitments, by the calls not made.
LEMMA Released ==
  ASSUME IInv, NEW i, NEW m, NEW t, Closes(i, m, t)
  PROVE  LET a == reservations[i].action
         IN  /\ Calls[a] - m \in Nat /\ Tokens[a] - t \in Nat
             /\ committedCalls' = committedCalls - (Calls[a] - m)
             /\ committedTokens' = committedTokens - (Tokens[a] - t)
             /\ \A c \in Classes : classCommitted'[c]
                  = classCommitted[c] - (IF Class[a] = c THEN Calls[a] - m ELSE 0)
             /\ \A p \in Special : purposeCommitted'[p]
                  = purposeCommitted[p] - (IF Purpose[a] = p THEN Calls[a] - m ELSE 0)
<1> DEFINE a == reservations[i].action
<1>1. /\ a \in Actions /\ m \in 0..Calls[a] /\ t \in 0..Tokens[a]
      /\ Calls[a] \in Nat /\ Tokens[a] \in Nat
  BY ClosesShape, DescriptorAssumption
<1> HIDE DEF a
<1>2. /\ prior.calls \in Nat /\ prior.tokens \in Nat
      /\ reservedCalls \in Nat /\ reservedTokens \in Nat
      /\ settledCalls \in Nat /\ settledTokens \in Nat
      /\ classCommitted \in [Classes -> Nat]
      /\ purposeCommitted \in [Special -> Nat]
  BY DEF IInv, TypeOK
<1>3. /\ prior' = prior
      /\ reservedCalls' = reservedCalls - Calls[a]
      /\ reservedTokens' = reservedTokens - Tokens[a]
      /\ settledCalls' = settledCalls + m
      /\ settledTokens' = settledTokens + t
      /\ classCommitted' = [classCommitted EXCEPT ![Class[a]] = @ + (m - Calls[a])]
      /\ \A p \in Special : purposeCommitted'[p]
           = purposeCommitted[p] + (IF Purpose[a] = p THEN m - Calls[a] ELSE 0)
  BY DEF Closes, ReleaseHold, Commit, a
<1>4. /\ committedCalls' = committedCalls - (Calls[a] - m)
      /\ committedTokens' = committedTokens - (Tokens[a] - t)
  BY <1>1, <1>2, <1>3 DEF committedCalls, committedTokens
<1>5. Class[a] \in Classes
  BY <1>1, DescriptorAssumption
<1>6. \A c \in Classes : classCommitted'[c]
        = classCommitted[c] - (IF Class[a] = c THEN Calls[a] - m ELSE 0)
  BY <1>1, <1>2, <1>3, <1>5
<1>7. \A p \in Special : purposeCommitted'[p]
        = purposeCommitted[p] - (IF Purpose[a] = p THEN Calls[a] - m ELSE 0)
  BY <1>1, <1>2, <1>3
<1> QED
  BY <1>1, <1>4, <1>6, <1>7 DEF a

LEMMA ReserveEnvelope ==
  ASSUME IInv, NEW a \in Actions, Reserve(a)
  PROVE  EnvelopeHolds'
<1>1. prior' = prior /\ prior.calls \in Nat /\ prior.tokens \in Nat
  BY DEF Reserve, IInv, TypeOK
<1>2. committedCalls' <= HardCalls /\ committedTokens' <= HardTokens
  BY Admitted
<1>3. committedCalls' \in Int /\ committedTokens' \in Int
  <2>1. committedCalls \in Nat /\ committedTokens \in Nat
    BY DEF IInv, TypeOK, committedCalls, committedTokens
  <2> QED
    BY <2>1, Admitted
<1>4. \A c \in Classes : classCommitted'[c] <= ClassCap[c]
  <2> TAKE c \in Classes
  <2>1. /\ classCommitted'[c]
             = classCommitted[c] + (IF Class[a] = c THEN Calls[a] ELSE 0)
        /\ classCommitted[Class[a]] + Calls[a] <= ClassCap[Class[a]]
    BY Admitted
  <2>2. classCommitted[c] <= ClassCap[c] /\ classCommitted[c] \in Nat
    BY DEF IInv, TypeOK, EnvelopeHolds
  <2> QED
    BY <2>1, <2>2
<1> QED
  BY <1>1, <1>2, <1>3, <1>4, CalibrationAssumption DEF EnvelopeHolds

LEMMA ClosesEnvelope ==
  ASSUME IInv, NEW i, NEW m, NEW t, Closes(i, m, t)
  PROVE  EnvelopeHolds'
<1> DEFINE a == reservations[i].action
<1>1. prior' = prior /\ prior.calls \in Nat /\ prior.tokens \in Nat
  BY DEF Closes, IInv, TypeOK
<1>2. /\ Calls[a] - m \in Nat /\ Tokens[a] - t \in Nat
      /\ committedCalls' = committedCalls - (Calls[a] - m)
      /\ committedTokens' = committedTokens - (Tokens[a] - t)
      /\ \A c \in Classes : classCommitted'[c]
           = classCommitted[c] - (IF Class[a] = c THEN Calls[a] - m ELSE 0)
  BY Released
<1>3. committedCalls \in Nat /\ committedTokens \in Nat
  BY DEF IInv, TypeOK, committedCalls, committedTokens
<1>4. \A c \in Classes : classCommitted'[c] <= ClassCap[c]
  <2> TAKE c \in Classes
  <2>1. /\ classCommitted[c] <= ClassCap[c]
        /\ classCommitted[c] \in Nat /\ ClassCap[c] \in Nat
    BY CalibrationAssumption DEF IInv, TypeOK, EnvelopeHolds
  <2> HIDE DEF a
  <2> QED
    BY <1>2, <2>1
<1> HIDE DEF a
<1> QED
  BY <1>1, <1>2, <1>3, <1>4, CalibrationAssumption DEF EnvelopeHolds, IInv

\* The arithmetic of a sole floor: left calls are left, of which owed are to
\* be kept; an action takes n of them, and from the floor only what it owns.
LEMMA FloorArithmetic ==
  ASSUME NEW size \in Nat, NEW room \in Nat, NEW used \in Nat, NEW left \in Nat,
         NEW n \in Nat,
         left >= PosPart(Least(size, room) - used), n <= left
  PROVE  /\ left - n >= PosPart(Least(size, room) - (used + n))
         /\ n <= Least(left, PosPart(left - PosPart(size - used)) + 0)
              => left - n >= PosPart(Least(size, room) - used)
BY DEF PosPart, Least

LEMMA ReserveFloor ==
  ASSUME IInv, NEW a \in Actions, Reserve(a)
  PROVE  SoleFloorHolds'
<1> DEFINE room == PosPart(HardCalls - prior.calls)
           left == PosPart(HardCalls - committedCalls)
           usedV == classCommitted["VERIFICATION"]
<1>1. /\ prior' = prior /\ prior.calls \in Nat
      /\ committedCalls \in Nat /\ usedV \in Nat
      /\ \A p \in Special : purposeCommitted[p] \in Nat
  <2>1. prior' = prior
    BY DEF Reserve
  <2>2. /\ prior \in [calls : Nat, tokens : Nat]
        /\ reservedCalls \in Nat /\ settledCalls \in Nat
        /\ classCommitted \in [Classes -> Nat]
        /\ purposeCommitted \in [Special -> Nat]
    BY DEF IInv, TypeOK
  <2> QED
    BY <2>1, <2>2 DEF committedCalls, Classes
<1>2. /\ VerificationReserve \in Nat /\ HardCalls \in Nat
      /\ \A p \in Special : SpecialReserve[p] \in Nat
      /\ "special1" \in Special /\ "special2" \in Special
  BY CalibrationAssumption DEF Special
<1>3. /\ Calls[a] \in Nat /\ committedCalls + Calls[a] <= HardCalls
      /\ committedCalls' = committedCalls + Calls[a]
      /\ Calls[a] <= availableCalls(a)
      /\ classCommitted'["VERIFICATION"]
           = usedV + (IF Class[a] = "VERIFICATION" THEN Calls[a] ELSE 0)
      /\ \A p \in Special : purposeCommitted'[p]
           = purposeCommitted[p] + (IF Purpose[a] = p THEN Calls[a] ELSE 0)
  BY Admitted DEF Classes
<1>4. /\ room \in Nat /\ left \in Nat /\ Calls[a] <= left
      /\ HardLeft = left /\ HardLeft' = left - Calls[a]
  BY <1>1, <1>2, <1>3 DEF PosPart, HardLeft
<1>5. \A p \in Special : SpecialReserve[p] = 0 => SpecialFloor(p) = 0
  BY <1>1 DEF SpecialFloor, PosPart
<1>6. VerificationReserve = 0 => VerificationFloor = 0
  BY <1>1 DEF VerificationFloor, PosPart
<1>7. \A p \in Special : SpecialFloor(p) = PosPart(SpecialReserve[p] - purposeCommitted[p])
  BY DEF SpecialFloor
<1> HIDE DEF room, left, usedV
<1>8. availableCalls(a)
        = Least(left, PosPart(left - ForeignProtected(a)) + OwnPoolAvailable(a))
  BY DEF availableCalls, left
<1>9. ASSUME SolePool(VerificationReserve)
      PROVE  HardLeft' >= Owed(VerificationReserve, classCommitted["VERIFICATION"])'
  <2>1. SpecialReserve["special1"] = 0 /\ SpecialReserve["special2"] = 0
    BY <1>2, <1>9 DEF SolePool
  <2>2. SpecialFloor("special1") = 0 /\ SpecialFloor("special2") = 0
    BY <1>2, <1>5, <2>1
  <2>3. left >= PosPart(Least(VerificationReserve, room) - usedV)
    BY <1>4, <1>9 DEF IInv, SoleFloorHolds, Owed, room, usedV
  <2>4. Owed(VerificationReserve, classCommitted["VERIFICATION"])'
          = PosPart(Least(VerificationReserve, room) - classCommitted'["VERIFICATION"])
    BY <1>1 DEF Owed, room
  <2>5. CASE Class[a] = "VERIFICATION"
    <3>1. classCommitted'["VERIFICATION"] = usedV + Calls[a]
      BY <1>3, <2>5
    <3>2. VerificationReserve \in Nat /\ usedV \in Nat /\ Calls[a] \in Nat
      BY <1>1, <1>2, <1>3
    <3>3. left - Calls[a] >= PosPart(Least(VerificationReserve, room) - (usedV + Calls[a]))
      BY <1>4, <2>3, <3>2, FloorArithmetic
    <3> QED
      BY <1>4, <2>4, <3>1, <3>3
  <2>6. CASE Class[a] # "VERIFICATION"
    <3>1. OwnPoolAvailable(a) = 0
      BY <2>2, <2>6 DEF OwnPoolAvailable, Special
    <3>2. ForeignProtected(a) = VerificationFloor
      <4>1. VerificationFloor \in Nat
        BY <1>1, <1>2 DEF VerificationFloor, PosPart, usedV
      <4> QED
        BY <2>2, <2>6, <4>1 DEF ForeignProtected
    <3>3. Calls[a] <= Least(left, PosPart(left - PosPart(VerificationReserve - usedV)) + 0)
      BY <1>3, <1>8, <3>1, <3>2 DEF VerificationFloor, usedV
    <3>4. VerificationReserve \in Nat /\ usedV \in Nat /\ Calls[a] \in Nat
      BY <1>1, <1>2, <1>3
    <3>5. left - Calls[a] >= PosPart(Least(VerificationReserve, room) - usedV)
      BY <1>4, <2>3, <3>3, <3>4, FloorArithmetic
    <3>6. classCommitted'["VERIFICATION"] = usedV
      BY <1>3, <2>6, <3>4
    <3> QED
      BY <1>4, <2>4, <3>5, <3>6
  <2> QED
    BY <2>5, <2>6
<1>10. ASSUME NEW p \in Special, SolePool(SpecialReserve[p])
       PROVE  HardLeft' >= Owed(SpecialReserve[p], purposeCommitted[p])'
  <2>1. /\ VerificationReserve = 0
        /\ \A q \in Special : q # p => SpecialReserve[q] = 0
    BY <1>2, <1>10 DEF SolePool, Special
  <2>2. /\ VerificationFloor = 0
        /\ \A q \in Special : q # p => SpecialFloor(q) = 0
    BY <1>5, <1>6, <2>1
  <2>3. left >= PosPart(Least(SpecialReserve[p], room) - purposeCommitted[p])
    BY <1>4, <1>10 DEF IInv, SoleFloorHolds, Owed, room
  <2>4. Owed(SpecialReserve[p], purposeCommitted[p])'
          = PosPart(Least(SpecialReserve[p], room) - purposeCommitted'[p])
    BY <1>1 DEF Owed, room
  <2>5. SpecialReserve[p] \in Nat /\ purposeCommitted[p] \in Nat
    BY <1>1, <1>2
  <2>6. CASE Purpose[a] = p
    <3>1. purposeCommitted'[p] = purposeCommitted[p] + Calls[a] /\ Calls[a] \in Nat
      BY <1>3, <2>6
    <3>2. left - Calls[a] >= PosPart(Least(SpecialReserve[p], room) - (purposeCommitted[p] + Calls[a]))
      BY <1>4, <2>3, <2>5, <3>1, FloorArithmetic
    <3> QED
      BY <1>4, <2>4, <3>1, <3>2
  <2>7. CASE Purpose[a] # p
    <3>1. OwnPoolAvailable(a) = 0
      BY <2>2, <2>7 DEF OwnPoolAvailable
    <3>2. ForeignProtected(a) = SpecialFloor(p)
      <4>1. SpecialFloor(p) \in Nat
        BY <2>5 DEF SpecialFloor, PosPart
      <4> QED
        BY <2>2, <2>7, <4>1 DEF ForeignProtected, Special
    <3>3. Calls[a] <= Least(left,
            PosPart(left - PosPart(SpecialReserve[p] - purposeCommitted[p])) + 0)
      BY <1>3, <1>7, <1>8, <3>1, <3>2
    <3>4. purposeCommitted'[p] = purposeCommitted[p]
      BY <1>3, <2>5, <2>7
    <3>5. Calls[a] \in Nat
      BY <1>3
    <3>6. left - Calls[a] >= PosPart(Least(SpecialReserve[p], room) - purposeCommitted[p])
      BY <1>4, <2>3, <2>5, <3>3, <3>5, FloorArithmetic
    <3> QED
      BY <1>4, <2>4, <3>4, <3>6
  <2> QED
    BY <2>6, <2>7
<1> QED
  BY <1>9, <1>10 DEF SoleFloorHolds, SolePool

LEMMA ClosesFloor ==
  ASSUME IInv, NEW i, NEW m, NEW t, Closes(i, m, t),
         classCommitted' \in [Classes -> Nat], purposeCommitted' \in [Special -> Nat]
  PROVE  SoleFloorHolds'
<1> DEFINE a == reservations[i].action
           n == Calls[a] - m
           left == PosPart(HardCalls - committedCalls)
           room == PosPart(HardCalls - prior.calls)
<1>1. /\ prior' = prior /\ prior.calls \in Nat /\ committedCalls \in Nat
      /\ HardCalls \in Nat /\ VerificationReserve \in Nat
      /\ \A p \in Special : SpecialReserve[p] \in Nat /\ purposeCommitted[p] \in Nat
      /\ classCommitted["VERIFICATION"] \in Nat
  <2>1. prior' = prior
    BY DEF Closes
  <2>2. /\ prior \in [calls : Nat, tokens : Nat]
        /\ reservedCalls \in Nat /\ settledCalls \in Nat
        /\ classCommitted \in [Classes -> Nat]
        /\ purposeCommitted \in [Special -> Nat]
    BY DEF IInv, TypeOK
  <2> QED
    BY <2>1, <2>2, CalibrationAssumption DEF committedCalls, Classes
<1>2. /\ n \in Nat
      /\ committedCalls' = committedCalls - n
      /\ classCommitted'["VERIFICATION"] = classCommitted["VERIFICATION"]
           - (IF Class[a] = "VERIFICATION" THEN n ELSE 0)
      /\ \A p \in Special : purposeCommitted'[p]
           = purposeCommitted[p] - (IF Purpose[a] = p THEN n ELSE 0)
  BY Released DEF Classes
<1>3. committedCalls <= IF prior.calls > HardCalls THEN prior.calls ELSE HardCalls
  BY DEF IInv, EnvelopeHolds
<1> HIDE DEF a, n
\* Either the acquisition phase left no room and nothing is owed, or what the
\* closing releases is really left again.
<1>4. /\ HardLeft = left /\ HardLeft' \in Nat
      /\ room = 0 \/ HardLeft' = left + n
  BY <1>1, <1>2, <1>3 DEF HardLeft, PosPart
<1>5. left \in Nat /\ room \in Nat
  BY <1>1 DEF PosPart
<1> HIDE DEF left, room
<1>6. ASSUME NEW size \in Nat, NEW used \in Nat, NEW used2 \in Nat,
             left >= PosPart(Least(size, room) - used),
             used2 = used \/ used2 = used - n
      PROVE  HardLeft' >= PosPart(Least(size, room) - used2)
  BY <1>2, <1>4, <1>5, <1>6 DEF PosPart, Least
<1>7. ASSUME SolePool(VerificationReserve)
      PROVE  HardLeft' >= Owed(VerificationReserve, classCommitted["VERIFICATION"])'
  <2>1. left >= PosPart(Least(VerificationReserve, room) - classCommitted["VERIFICATION"])
    BY <1>4, <1>7 DEF IInv, SoleFloorHolds, Owed, room
  <2>2. Owed(VerificationReserve, classCommitted["VERIFICATION"])'
          = PosPart(Least(VerificationReserve, room) - classCommitted'["VERIFICATION"])
    BY <1>1 DEF Owed, room
  <2>3. /\ classCommitted'["VERIFICATION"] \in Nat
        /\ \/ classCommitted'["VERIFICATION"] = classCommitted["VERIFICATION"]
           \/ classCommitted'["VERIFICATION"] = classCommitted["VERIFICATION"] - n
    BY <1>1, <1>2 DEF Classes
  <2> QED
    BY <1>1, <1>6, <2>1, <2>2, <2>3
<1>8. ASSUME NEW p \in Special, SolePool(SpecialReserve[p])
      PROVE  HardLeft' >= Owed(SpecialReserve[p], purposeCommitted[p])'
  <2>1. left >= PosPart(Least(SpecialReserve[p], room) - purposeCommitted[p])
    BY <1>4, <1>8 DEF IInv, SoleFloorHolds, Owed, room
  <2>2. Owed(SpecialReserve[p], purposeCommitted[p])'
          = PosPart(Least(SpecialReserve[p], room) - purposeCommitted'[p])
    BY <1>1 DEF Owed, room
  <2>3. /\ purposeCommitted'[p] \in Nat
        /\ \/ purposeCommitted'[p] = purposeCommitted[p]
           \/ purposeCommitted'[p] = purposeCommitted[p] - n
    BY <1>1, <1>2
  <2> QED
    BY <1>1, <1>6, <2>1, <2>2, <2>3
<1> QED
  BY <1>7, <1>8 DEF SoleFloorHolds, SolePool

-----------------------------------------------------------------------------
(* The invariant is inductive *)

\* A ledger may be opened on any spend.
LEMMA NewLedgerIInv == NewLedger /\ prior \in [calls : Nat, tokens : Nat] => IInv
<1> SUFFICES ASSUME NewLedger, prior \in [calls : Nat, tokens : Nat]
             PROVE  IInv
  OBVIOUS
<1>1. /\ reservations = <<>> /\ DOMAIN reservations = {}
      /\ reservedCalls = 0 /\ reservedTokens = 0
      /\ settledCalls = 0 /\ settledTokens = 0
      /\ classCommitted = [c \in Classes |-> 0]
      /\ purposeCommitted = [p \in Special |-> 0]
  BY DEF NewLedger
<1>2. prior \in [calls : Nat, tokens : Nat]
  OBVIOUS
<1>3. TypeOK
  BY <1>1, <1>2 DEF NewLedger, TypeOK
<1>4. HoldsFit
  BY <1>1 DEF HoldsFit
<1>5. LedgerBalances
  <2>1. \A f : Total({}, f) = 0
    BY FS_EmptySet DEF Total, Units
  <2>2. /\ Outstanding = {} /\ Closed = {}
        /\ \A c : OfClass(c) = {}
        /\ \A p : OfPurpose(p) = {}
    BY <1>1 DEF Outstanding, Closed, OfClass, OfPurpose
  <2> QED
    BY <1>1, <2>1, <2>2 DEF LedgerBalances
<1>6. EnvelopeHolds
  <2>1. committedCalls = prior.calls /\ committedTokens = prior.tokens
    BY <1>1, <1>2 DEF committedCalls, committedTokens
  <2> QED
    BY <1>1, <1>2, <2>1, CalibrationAssumption DEF EnvelopeHolds
<1>7. SoleFloorHolds
  <2>1. committedCalls = prior.calls /\ prior.calls \in Nat
    BY <1>1, <1>2 DEF committedCalls
  <2>2. \A size \in Nat : HardLeft >= Owed(size, 0)
    BY <2>1, CalibrationAssumption DEF HardLeft, Owed, PosPart, Least
  <2> QED
    BY <1>1, <2>2, CalibrationAssumption DEF SoleFloorHolds, Classes
<1> QED
  BY <1>3, <1>4, <1>5, <1>6, <1>7 DEF IInv

LEMMA LedgerInitIInv == LedgerInit => IInv
  BY NewLedgerIInv, BoundAssumption DEF LedgerInit

\* The type of the ledger after a step that keeps its balance.
LEMMA TypeStep ==
  ASSUME IInv, reservations' \in Seq(Reservation), HoldsFit', LedgerBalances',
         prior' = prior, answer' \in DenialReasons \cup {"HELD", "CLOSED"},
         classCommitted' \in [Classes -> Int], purposeCommitted' \in [Special -> Int]
  PROVE  TypeOK'
<1>1. \A i \in DOMAIN reservations' :
        callCharge'[i] \in 0..HardCalls /\ tokenCharge'[i] \in 0..HardTokens
  <2> TAKE i \in DOMAIN reservations'
  <2>1. /\ reservations'[i].action \in Actions
        /\ reservations'[i].calls \in Nat /\ reservations'[i].tokens \in Nat
    <3>1. reservations'[i] \in Reservation
      OBVIOUS
    <3> QED
      BY <3>1 DEF Reservation
  <2>2. /\ Calls[reservations'[i].action] \in Nat
        /\ Tokens[reservations'[i].action] \in Nat
    BY <2>1, DescriptorAssumption
  <2>3. /\ Calls[reservations'[i].action] <= HardCalls
        /\ Tokens[reservations'[i].action] <= HardTokens
        /\ reservations'[i].calls <= Calls[reservations'[i].action]
        /\ reservations'[i].tokens <= Tokens[reservations'[i].action]
    BY DEF HoldsFit
  <2>4. /\ Calls[reservations'[i].action] \in 0..HardCalls
        /\ Tokens[reservations'[i].action] \in 0..HardTokens
        /\ reservations'[i].calls \in 0..HardCalls
        /\ reservations'[i].tokens \in 0..HardTokens
    <3>1. HardCalls \in Nat /\ HardTokens \in Nat
      BY CalibrationAssumption
    <3> QED
      BY <2>1, <2>2, <2>3, <3>1
  <2> QED
    BY <2>4 DEF callCharge, tokenCharge
<1>2. /\ Outstanding' \in SUBSET DOMAIN reservations'
      /\ Closed' \in SUBSET DOMAIN reservations'
      /\ \A c : OfClass(c)' \in SUBSET DOMAIN reservations'
      /\ \A p : OfPurpose(p)' \in SUBSET DOMAIN reservations'
  BY DEF Outstanding, Closed, OfClass, OfPurpose
<1>3. /\ Total(Outstanding', callCharge') \in Nat
      /\ Total(Outstanding', tokenCharge') \in Nat
      /\ Total(Closed', callCharge') \in Nat
      /\ Total(Closed', tokenCharge') \in Nat
      /\ \A c : Total(OfClass(c)', callCharge') \in Nat
      /\ \A p : Total(OfPurpose(p)', callCharge') \in Nat
  BY <1>1, <1>2, SequenceTotals, CalibrationAssumption
<1>4. /\ reservedCalls' \in Nat /\ reservedTokens' \in Nat
      /\ settledCalls' \in Nat /\ settledTokens' \in Nat
      /\ \A c \in Classes : classCommitted'[c] \in Nat
      /\ \A p \in Special : purposeCommitted'[p] \in Nat
  BY <1>3 DEF LedgerBalances
<1>5. /\ classCommitted' \in [Classes -> Nat]
      /\ purposeCommitted' \in [Special -> Nat]
  BY <1>4
<1> QED
  BY <1>4, <1>5 DEF TypeOK, IInv

LEMMA ReserveIInv ==
  ASSUME IInv, NEW a \in Actions, Reserve(a)
  PROVE  IInv'
<1>1. HoldsFit' /\ LedgerBalances'
  BY ReserveBalances
<1>2. reservations' \in Seq(Reservation)
  BY ReserveShape
<1>3. /\ classCommitted' \in [Classes -> Int]
      /\ purposeCommitted' \in [Special -> Int]
  <2>1. /\ Calls[a] \in Nat
        /\ classCommitted \in [Classes -> Nat]
        /\ purposeCommitted \in [Special -> Nat]
    BY DescriptorAssumption DEF IInv, TypeOK
  <2>2. classCommitted' = [classCommitted EXCEPT ![Class[a]] = @ + Calls[a]]
    BY DEF Reserve, Commit
  <2>3. purposeCommitted' = [p \in Special |->
          purposeCommitted[p] + (IF Purpose[a] = p THEN Calls[a] ELSE 0)]
    BY DEF Reserve, Commit
  <2>4. classCommitted' \in [Classes -> Int]
    <3>1. \A c \in Classes : classCommitted[c] + Calls[a] \in Int /\ classCommitted[c] \in Int
      BY <2>1
    <3> QED
      BY <2>1, <2>2, <3>1
  <2>5. purposeCommitted' \in [Special -> Int]
    <3>1. \A p \in Special :
            purposeCommitted[p] + (IF Purpose[a] = p THEN Calls[a] ELSE 0) \in Int
      BY <2>1
    <3> QED
      BY <2>3, <3>1
  <2> QED
    BY <2>4, <2>5
<1>4. prior' = prior /\ answer' = "HELD"
  BY DEF Reserve
<1>5. TypeOK'
  BY <1>1, <1>2, <1>3, <1>4, TypeStep
<1> QED
  BY <1>1, <1>5, ReserveEnvelope, ReserveFloor DEF IInv

LEMMA ClosesIInv ==
  ASSUME IInv, NEW i, NEW m, NEW t, Closes(i, m, t)
  PROVE  IInv'
<1>1. HoldsFit' /\ LedgerBalances'
  BY ClosesBalances
<1>2. reservations' \in Seq(Reservation)
  BY ClosesShape
<1>3. /\ classCommitted' \in [Classes -> Int]
      /\ purposeCommitted' \in [Special -> Int]
  <2>1. /\ m - Calls[reservations[i].action] \in Int
        /\ classCommitted \in [Classes -> Nat]
        /\ purposeCommitted \in [Special -> Nat]
    BY ClosesShape DEF IInv, TypeOK
  <2>2. classCommitted' = [classCommitted EXCEPT
          ![Class[reservations[i].action]] = @ + (m - Calls[reservations[i].action])]
    BY DEF Closes, Commit
  <2>3. purposeCommitted' = [p \in Special |-> purposeCommitted[p]
          + (IF Purpose[reservations[i].action] = p
             THEN m - Calls[reservations[i].action] ELSE 0)]
    BY DEF Closes, Commit
  <2> DEFINE n == m - Calls[reservations[i].action]
  <2>4. classCommitted' \in [Classes -> Int]
    <3>1. \A c \in Classes : classCommitted[c] + n \in Int /\ classCommitted[c] \in Int
      BY <2>1
    <3> QED
      BY <2>1, <2>2, <3>1
  <2>5. purposeCommitted' \in [Special -> Int]
    <3>1. \A p \in Special :
            purposeCommitted[p] + (IF Purpose[reservations[i].action] = p
                                   THEN n ELSE 0) \in Int
      BY <2>1
    <3> QED
      BY <2>3, <3>1
  <2> QED
    BY <2>4, <2>5
<1>4. prior' = prior /\ answer' = "CLOSED"
  BY DEF Closes
<1>5. TypeOK'
  BY <1>1, <1>2, <1>3, <1>4, TypeStep
<1>6. /\ classCommitted' \in [Classes -> Nat]
      /\ purposeCommitted' \in [Special -> Nat]
  BY <1>5 DEF TypeOK
<1> QED
  BY <1>1, <1>5, <1>6, ClosesEnvelope, ClosesFloor DEF IInv

\* A denial, like a stuttering step, changes at most the answer.
LEMMA QuietIInv ==
  ASSUME IInv, prior' = prior, reservations' = reservations,
         UNCHANGED counters, answer' \in DenialReasons \cup {"HELD", "CLOSED"}
  PROVE  IInv'
<1>1. /\ reservedCalls' = reservedCalls /\ reservedTokens' = reservedTokens
      /\ settledCalls' = settledCalls /\ settledTokens' = settledTokens
      /\ classCommitted' = classCommitted /\ purposeCommitted' = purposeCommitted
  BY DEF counters
<1>2. committedCalls' = committedCalls /\ committedTokens' = committedTokens
  BY <1>1 DEF committedCalls, committedTokens
<1>3. TypeOK' /\ HoldsFit'
  BY <1>1 DEF IInv, TypeOK, HoldsFit
<1>4. LedgerBalances'
  <2>1. /\ Outstanding' = Outstanding /\ Closed' = Closed
        /\ \A c : OfClass(c)' = OfClass(c)
        /\ \A p : OfPurpose(p)' = OfPurpose(p)
        /\ callCharge' = callCharge /\ tokenCharge' = tokenCharge
    BY DEF Outstanding, Closed, OfClass, OfPurpose, callCharge, tokenCharge
  <2> QED
    BY <1>1, <2>1 DEF IInv, LedgerBalances
<1>5. EnvelopeHolds'
  BY <1>1, <1>2 DEF IInv, EnvelopeHolds
<1>6. SoleFloorHolds'
  BY <1>1, <1>2 DEF IInv, SoleFloorHolds, HardLeft, Owed, SolePool
<1> QED
  BY <1>3, <1>4, <1>5, <1>6 DEF IInv

LEMMA LedgerNextIInv == IInv /\ [LedgerNext]_vars => IInv'
<1> SUFFICES ASSUME IInv, [LedgerNext]_vars
             PROVE  IInv'
  OBVIOUS
<1>1. CASE UNCHANGED vars
  BY <1>1, QuietIInv DEF vars, IInv, TypeOK
<1>2. ASSUME NEW a \in Actions, Deny(a)
      PROVE  IInv'
  <2>1. Refusal(a) \in DenialReasons
    BY <1>2 DEF Deny, Refusal, DenialReasons
  <2> QED
    BY <1>2, <2>1, QuietIInv DEF Deny
<1>3. ASSUME NEW a \in Actions, Reserve(a)
      PROVE  IInv'
  BY <1>3, ReserveIInv
<1>4. ASSUME NEW i \in DOMAIN reservations, Cancel(i)
      PROVE  IInv'
  BY <1>4, CancelCloses, ClosesIInv
<1>5. ASSUME NEW i \in DOMAIN reservations,
             NEW m \in 0..Calls[reservations[i].action],
             NEW t \in 0..Tokens[reservations[i].action], Settle(i, m, t)
      PROVE  IInv'
  BY <1>5, SettleCloses, ClosesIInv
<1> QED
  BY <1>1, <1>2, <1>3, <1>4, <1>5 DEF LedgerNext

-----------------------------------------------------------------------------
(* The ledger implements the envelope *)

\* The holds of the open tickets.
held == [i \in Outstanding |-> Calls[reservations[i].action]]

\* The envelope counts as the ledger does.
LEMMA EnvelopeCounts == \A S : Envelope!Cardinality(S) = Cardinality(S)
  BY DEF Envelope!Cardinality, Cardinality

LEMMA HeldIsReserved ==
  ASSUME IInv
  PROVE  Cardinality(Envelope!HeldCalls) = reservedCalls
<1>1. \A i \in Outstanding : held[i] = callCharge[i]
  BY DEF held, callCharge, Outstanding
<1>2. Envelope!HeldCalls = UNION {{i} \X (1..held[i]) : i \in Outstanding}
  BY DEF Envelope!HeldCalls, held
<1>3. {{i} \X (1..held[i]) : i \in Outstanding} = {{i} \X (1..callCharge[i]) : i \in Outstanding}
  BY <1>1
<1>4. Envelope!HeldCalls = Units(Outstanding, callCharge)
  BY <1>2, <1>3 DEF Units
<1> QED
  BY <1>4 DEF IInv, LedgerBalances, Total

LEMMA EnvelopeInit == LedgerInit => Envelope!Init
<1> SUFFICES ASSUME LedgerInit
             PROVE  Envelope!Init
  OBVIOUS
<1>1. IInv
  BY LedgerInitIInv
<1>2. prior.calls + Total(Closed, callCharge) \in Nat
  <2>1. Total(Closed, callCharge) = settledCalls
    BY <1>1 DEF IInv, LedgerBalances
  <2>2. prior.calls \in Nat /\ settledCalls \in Nat
    BY <1>1 DEF IInv, TypeOK
  <2> QED
    BY <2>1, <2>2
<1>3. [i \in Outstanding |-> Calls[reservations[i].action]] = [t \in {} |-> 0]
  <2>1. Outstanding = {}
    BY DEF LedgerInit, NewLedger, Outstanding
  <2> QED
    BY <2>1
<1> QED
  BY <1>2, <1>3 DEF Envelope!Init

\* A reservation opens the ticket that its sequence number names.
LEMMA ReserveOpens ==
  ASSUME IInv, NEW a \in Actions, Reserve(a), IInv'
  PROVE  Envelope!Next
<1> DEFINE n == Len(reservations) + 1
<1>1. /\ n \notin DOMAIN reservations
      /\ DOMAIN reservations' = DOMAIN reservations \cup {n}
      /\ \A j \in DOMAIN reservations : reservations'[j] = reservations[j]
      /\ reservations'[n] = [action |-> a, status |-> "OUTSTANDING", calls |-> 0, tokens |-> 0]
  BY ReserveShape
<1>2. n \in 1..MaxReservations
  <2>1. Len(reservations) \in Nat /\ Len(reservations) < MaxReservations
    <3>1. reservations \in Seq(Reservation)
      BY DEF IInv, TypeOK
    <3>2. Len(reservations) \in Nat
      BY <3>1
    <3> QED
      BY <3>2 DEF Reserve
  <2> QED
    BY <2>1, BoundAssumption
<1> HIDE DEF n
<1>3. n \notin Outstanding /\ Outstanding' = Outstanding \cup {n}
  BY <1>1 DEF Outstanding
<1>4. /\ Total(Closed, callCharge) = settledCalls
      /\ Total(Closed, callCharge)' = settledCalls'
  BY DEF IInv, LedgerBalances
<1>5. prior' = prior /\ settledCalls' = settledCalls
  BY DEF Reserve
<1>6. Calls[a] \in 0..HardCalls
      /\ prior.calls + settledCalls + reservedCalls + Calls[a] <= HardCalls
  <2>1. prior.calls + reservedCalls + settledCalls + Calls[a] <= HardCalls
    <3>1. ~(committedCalls + Calls[a] > HardCalls)
      BY DEF Reserve, Refusal, OverHardCap
    <3>2. committedCalls \in Nat /\ Calls[a] \in Nat /\ HardCalls \in Nat
      <4>1. committedCalls \in Nat
        BY DEF committedCalls, IInv, TypeOK
      <4> QED
        BY <4>1, DescriptorAssumption, CalibrationAssumption
    <3> QED
      BY <3>1, <3>2 DEF committedCalls
  <2>2. /\ prior.calls \in Nat /\ reservedCalls \in Nat /\ settledCalls \in Nat
        /\ Calls[a] \in Nat /\ HardCalls \in Nat
    BY DescriptorAssumption, CalibrationAssumption DEF IInv, TypeOK
  <2> QED
    BY <2>1, <2>2
<1>7. (prior.calls + Total(Closed, callCharge)) + Cardinality(Envelope!HeldCalls) + Calls[a]
        <= HardCalls
  BY <1>4, <1>6, HeldIsReserved
<1>8. [i \in Outstanding' |-> Calls[reservations'[i].action]]
        = [u \in DOMAIN held \cup {n} |-> IF u = n THEN Calls[a] ELSE held[u]]
  <2>1. DOMAIN held = Outstanding
    BY DEF held
  <2>2. \A u \in Outstanding : reservations'[u].action = reservations[u].action
    BY <1>1 DEF Outstanding
  <2>3. \A u \in Outstanding' :
          Calls[reservations'[u].action] = IF u = n THEN Calls[a] ELSE held[u]
    BY <1>1, <1>3, <2>2 DEF held
  <2> QED
    BY <1>3, <2>1, <2>3
<1>9. Envelope!Open(n, Calls[a])
  <2>1. n \notin DOMAIN held
    BY <1>3 DEF held
  <2>2. (prior.calls + Total(Closed, callCharge))' = prior.calls + Total(Closed, callCharge)
    BY <1>4, <1>5
  <2> QED
    BY <1>7, <1>8, <2>1, <2>2, EnvelopeCounts DEF Envelope!Open, held
<1> QED
  BY <1>2, <1>6, <1>9 DEF Envelope!Next

\* A settlement or a cancellation closes the ticket of its hold.
LEMMA ClosesTicket ==
  ASSUME IInv, IInv', NEW i, NEW m, NEW t, Closes(i, m, t), Len(reservations) <= MaxReservations
  PROVE  Envelope!Next
<1> DEFINE a == reservations[i].action
<1>1. /\ i \in DOMAIN reservations /\ a \in Actions
      /\ m \in 0..Calls[a]
      /\ DOMAIN reservations' = DOMAIN reservations
      /\ \A j \in DOMAIN reservations : j # i => reservations'[j] = reservations[j]
      /\ reservations'[i].status \in {"SETTLED", "CANCELLED"}
      /\ i \in Outstanding
  BY ClosesShape DEF Closes
<1>2. Outstanding' = Outstanding \ {i}
  BY <1>1 DEF Outstanding
<1>3. /\ Total(Closed, callCharge) = settledCalls
      /\ Total(Closed, callCharge)' = settledCalls'
  BY DEF IInv, LedgerBalances
<1>4. prior' = prior /\ settledCalls' = settledCalls + m
  BY DEF Closes
<1>5. (prior.calls + Total(Closed, callCharge))' = prior.calls + Total(Closed, callCharge) + m
  <2>1. prior.calls \in Nat /\ settledCalls \in Nat /\ m \in Int
    BY <1>1 DEF IInv, TypeOK
  <2> QED
    BY <1>3, <1>4, <2>1
<1>6. DOMAIN held = Outstanding /\ held[i] = Calls[a]
  BY <1>1 DEF held
<1>7. [j \in Outstanding' |-> Calls[reservations'[j].action]]
        = [u \in DOMAIN held \ {i} |-> held[u]]
  <2>1. \A u \in Outstanding' : Calls[reservations'[u].action] = held[u]
    BY <1>1, <1>2 DEF held, Outstanding
  <2> QED
    BY <1>2, <1>6, <2>1
<1>8. Calls[a] \in Nat
  BY <1>1, DescriptorAssumption
<1> HIDE DEF a
<1>9. Envelope!Close(i, m)
  BY <1>1, <1>5, <1>6, <1>7, <1>8 DEF Envelope!Close, held
<1>10. i \in 1..MaxReservations
  <2>1. DOMAIN reservations = 1..Len(reservations) /\ Len(reservations) \in Nat
    BY DEF IInv, TypeOK
  <2> QED
    BY <1>1, <2>1, BoundAssumption
<1> QED
  BY <1>1, <1>6, <1>8, <1>9, <1>10 DEF Envelope!Next, held

\* Nothing else moves the tickets.
LEMMA QuietEnvelope ==
  ASSUME prior' = prior, reservations' = reservations
  PROVE  UNCHANGED Envelope!vars
<1>1. Outstanding' = Outstanding /\ Closed' = Closed /\ callCharge' = callCharge
  BY DEF Outstanding, Closed, callCharge
<1>2. Total(Closed, callCharge)' = Total(Closed, callCharge)
  BY <1>1
<1>3. [i \in Outstanding |-> Calls[reservations[i].action]]'
        = [i \in Outstanding |-> Calls[reservations[i].action]]
  BY <1>1
<1> QED
  BY <1>2, <1>3 DEF Envelope!vars

\* The bound on the history of a behaviour.
HistoryFits == Len(reservations) <= MaxReservations

LEMMA EnvelopeStep ==
  IInv /\ IInv' /\ HistoryFits /\ [LedgerNext]_vars => [Envelope!Next]_(Envelope!vars)
<1> SUFFICES ASSUME IInv, IInv', HistoryFits, [LedgerNext]_vars
             PROVE  [Envelope!Next]_(Envelope!vars)
  OBVIOUS
<1>1. CASE UNCHANGED vars
  BY <1>1, QuietEnvelope DEF vars
<1>2. ASSUME NEW a \in Actions, Deny(a)
      PROVE  UNCHANGED Envelope!vars
  BY <1>2, QuietEnvelope DEF Deny
<1>3. ASSUME NEW a \in Actions, Reserve(a)
      PROVE  Envelope!Next
  BY <1>3, ReserveOpens
<1>4. ASSUME NEW i \in DOMAIN reservations, Cancel(i)
      PROVE  Envelope!Next
  BY <1>4, CancelCloses, ClosesTicket DEF HistoryFits
<1>5. ASSUME NEW i \in DOMAIN reservations,
             NEW m \in 0..Calls[reservations[i].action],
             NEW t \in 0..Tokens[reservations[i].action], Settle(i, m, t)
      PROVE  Envelope!Next
  BY <1>5, SettleCloses, ClosesTicket DEF HistoryFits
<1> QED
  BY <1>1, <1>2, <1>3, <1>4, <1>5 DEF LedgerNext

LEMMA HistoryInit == LedgerInit => HistoryFits
<1> SUFFICES ASSUME LedgerInit
             PROVE  HistoryFits
  OBVIOUS
<1>1. Len(reservations) = 0
  BY DEF LedgerInit, NewLedger
<1> QED
  BY <1>1, BoundAssumption DEF HistoryFits

LEMMA HistoryStep == IInv /\ HistoryFits /\ [LedgerNext]_vars => HistoryFits'
<1> SUFFICES ASSUME IInv, HistoryFits, [LedgerNext]_vars
             PROVE  HistoryFits'
  OBVIOUS
<1>1. reservations \in Seq(Reservation) /\ Len(reservations) \in Nat
  BY DEF IInv, TypeOK
<1>2. ASSUME NEW a \in Actions, Reserve(a)
      PROVE  HistoryFits'
  <2>1. /\ Len(reservations) < MaxReservations
        /\ \E r : reservations' = Append(reservations, r)
    BY <1>2 DEF Reserve
  <2>2. Len(reservations') = Len(reservations) + 1
    BY <1>1, <2>1
  <2> QED
    BY <1>1, <2>1, <2>2, BoundAssumption DEF HistoryFits
<1>3. ASSUME NEW i \in DOMAIN reservations, NEW r, reservations' = [reservations EXCEPT ![i] = r]
      PROVE  HistoryFits'
  <2>1. Len(reservations') = Len(reservations)
    BY <1>1, <1>3
  <2> QED
    BY <2>1 DEF HistoryFits
<1>4. ASSUME NEW i \in DOMAIN reservations, Cancel(i)
      PROVE  HistoryFits'
  <2>1. \E r : reservations' = [reservations EXCEPT ![i] = r]
    BY <1>4 DEF Cancel
  <2> QED
    BY <1>3, <2>1
<1>5. ASSUME NEW i \in DOMAIN reservations,
             NEW m \in 0..Calls[reservations[i].action],
             NEW t \in 0..Tokens[reservations[i].action], Settle(i, m, t)
      PROVE  HistoryFits'
  <2>1. \E r : reservations' = [reservations EXCEPT ![i] = r]
    BY <1>5 DEF Settle
  <2> QED
    BY <1>3, <2>1
<1>6. CASE UNCHANGED vars
  BY <1>6 DEF vars, HistoryFits
<1>7. ASSUME NEW a \in Actions, Deny(a)
      PROVE  HistoryFits'
  BY <1>7 DEF Deny, HistoryFits
<1> QED
  BY <1>2, <1>4, <1>5, <1>6, <1>7 DEF LedgerNext

-----------------------------------------------------------------------------
(* Results *)

LEMMA LedgerInductive == LedgerSpec => []IInv
  BY LedgerInitIInv, LedgerNextIInv, PTL DEF LedgerSpec

\* For every calibration and every catalogue the ledger keeps its types: no
\* counter of BudgetLedger goes negative (budget_accounting.py:361-446).
THEOREM LedgerTypeCorrect == LedgerSpec => []TypeOK
<1>1. IInv => TypeOK
  BY DEF IInv
<1> QED
  BY <1>1, LedgerInductive, PTL

\* The running totals always equal the sums over the reservations, so reserve,
\* settle and cancel never lose or double a call (budget_accounting.py:269-446).
THEOREM LedgerAlwaysBalances == LedgerSpec => []LedgerBalances
<1>1. IInv => LedgerBalances
  BY DEF IInv
<1> QED
  BY <1>1, LedgerInductive, PTL

\* No interleaving of holds and releases crosses the call ceiling, the token
\* ceiling or a class cap (budget_accounting.py:302-331).
THEOREM LedgerStaysInEnvelope == LedgerSpec => []EnvelopeHolds
<1>1. IInv => EnvelopeHolds
  BY DEF IInv
<1> QED
  BY <1>1, LedgerInductive, PTL

\* A protected pool that is the only one of its calibration is never eaten
\* into by other actions (budget_accounting.py:202-247).
THEOREM SoleFloorIsProtected == LedgerSpec => []SoleFloorHolds
<1>1. IInv => SoleFloorHolds
  BY DEF IInv
<1> QED
  BY <1>1, LedgerInductive, PTL

\* Whatever counters it keeps, the ledger only ever opens and closes tickets for
\* whole actions under the ceiling (budget_accounting.py:129-136, 265-435).
THEOREM LedgerImplementsEnvelope == LedgerSpec => ImplementsEnvelope
<1>1. LedgerSpec => []HistoryFits
  BY HistoryInit, HistoryStep, LedgerInductive, PTL DEF LedgerSpec
<1> QED
  BY <1>1, EnvelopeInit, EnvelopeStep, LedgerInductive, PTL
     DEF LedgerSpec, ImplementsEnvelope, Envelope!Spec
-----------------------------------------------------------------------------
(* A run of queries, each with its own ledger *)


PhaseInv ==
  /\ opened => phase \in {"CONTROL", "ACTION", "HALTED"}
  /\ phase = "ACTION" => opened
  /\ phase \in {"ACQUIRE", "CONTROL", "ACTION"} => Len(rows) < MaxQueries

\* The hold of the action that runs is the one that its reservation opened.
HoldInv ==
  /\ HoldsAreClosed
  /\ phase = "ACTION" =>
       /\ flight.hold \in DOMAIN reservations
       /\ reservations[flight.hold].action = flight.action

Ahead(m, n) == m.calls >= n.calls /\ m.tokens >= n.tokens

\* Counters only grow.
LEMMA PlusAhead ==
  ASSUME NEW m \in Meter, NEW n \in Meter
  PROVE  Plus(m, n) \in Meter /\ Ahead(Plus(m, n), m)
<1>1. m.calls + n.calls \in Nat /\ m.tokens + n.tokens \in Nat
  BY DEF Meter
<1>2. m.calls + n.calls >= m.calls /\ m.tokens + n.tokens >= m.tokens
  BY DEF Meter
<1> QED
  BY <1>1, <1>2 DEF Meter, Plus, Ahead

LEMMA AheadTrans ==
  ASSUME NEW l \in Meter, NEW m \in Meter, NEW n \in Meter, Ahead(l, m), Ahead(m, n)
  PROVE  Ahead(l, n)
<1>1. /\ l.calls \in Nat /\ m.calls \in Nat /\ n.calls \in Nat
      /\ l.tokens \in Nat /\ m.tokens \in Nat /\ n.tokens \in Nat
  BY DEF Meter
<1> QED
  BY <1>1 DEF Ahead

\* What the ledger knew when the action began is what the counters said then.
MeterInv ==
  /\ Ahead(physical, baseline)
  /\ LedgerMatchesMeters
  /\ phase = "ACTION" =>
       /\ Ahead(physical, flight.before) /\ Ahead(flight.before, baseline)
       /\ flight.before.calls - baseline.calls = prior.calls + settledCalls
       /\ flight.before.tokens - baseline.tokens = prior.tokens + settledTokens

RunInv == IInv /\ RunTypeOK /\ PhaseInv /\ HoldInv /\ MeterInv

LEMMA RunInitInv == RunInit => RunInv
<1> SUFFICES ASSUME RunInit
             PROVE  RunInv
  OBVIOUS
<1> USE RunAssumption
<1>1. IInv
  BY LedgerInitIInv DEF RunInit
<1>2. /\ loop \in {"v3", "sweep"} /\ phase = (IF MaxQueries = 0 THEN "DONE" ELSE "ACQUIRE")
      /\ physical = [calls |-> 0, tokens |-> 0] /\ baseline = physical
      /\ snapshot = physical /\ opened = FALSE
      /\ flight \in [action : Actions, hold : {0}, before : {physical}]
      /\ executed = {} /\ rounds = 0 /\ rows = <<>>
  BY DEF RunInit
<1>3. RunTypeOK
  <2>1. physical \in Meter
    BY <1>2 DEF Meter
  <2>2. flight \in [action : Actions, hold : Nat, before : Meter]
    BY <1>2, <2>1
  <2>3. rows \in Seq(Row) /\ Len(rows) <= MaxQueries /\ rounds \in 0..MaxRounds
    BY <1>2
  <2>4. TypeOK
    BY <1>1 DEF IInv
  <2>5. opened \in BOOLEAN /\ phase \in Phases /\ executed \subseteq Actions
    BY <1>2 DEF Phases
  <2> QED
    BY <1>2, <2>1, <2>2, <2>3, <2>4, <2>5 DEF RunTypeOK
<1>4. PhaseInv
  <2>1. Len(rows) = 0
    BY <1>2
  <2> QED
    BY <1>2, <2>1 DEF PhaseInv
<1>5. HoldInv
  BY <1>2 DEF HoldInv, HoldsAreClosed
<1>6. MeterInv
  BY <1>2 DEF MeterInv, LedgerMatchesMeters, Ahead
<1> QED
  BY <1>1, <1>3, <1>4, <1>5, <1>6 DEF RunInv

\* The types that the steps rely on.
LEMMA RunTypes ==
  ASSUME RunInv
  PROVE  /\ physical.calls \in Nat /\ physical.tokens \in Nat
         /\ baseline.calls \in Nat /\ baseline.tokens \in Nat
         /\ snapshot.calls \in Nat /\ snapshot.tokens \in Nat
         /\ flight.action \in Actions /\ flight.before.calls \in Nat
         /\ flight.before.tokens \in Nat
         /\ prior.calls \in Nat /\ prior.tokens \in Nat
         /\ settledCalls \in Nat /\ settledTokens \in Nat
         /\ rows \in Seq(Row) /\ Len(rows) \in Nat
<1>1. physical \in Meter /\ baseline \in Meter /\ snapshot \in Meter
  BY DEF RunInv, RunTypeOK
<1>2. flight \in [action : Actions, hold : Nat, before : Meter]
  BY DEF RunInv, RunTypeOK
<1>3. prior \in [calls : Nat, tokens : Nat] /\ settledCalls \in Nat /\ settledTokens \in Nat
  BY DEF RunInv, IInv, TypeOK
<1>4. rows \in Seq(Row)
  BY DEF RunInv, RunTypeOK
<1> QED
  BY <1>1, <1>2, <1>3, <1>4 DEF Meter

-----------------------------------------------------------------------------
(* Steps that leave the ledger alone *)

LEMMA LedgerUntouched ==
  ASSUME IInv, UNCHANGED vars
  PROVE  IInv'
  BY LedgerNextIInv

\* A row ends its query: no ledger, no hold and a new baseline.
LEMMA EmitInv ==
  ASSUME RunInv, IInv', phase \in {"ACQUIRE", "CONTROL", "ACTION"},
         NEW outcome \in {"predicted", "pipeline_error"}, NEW calls \in Nat,
         Emit(outcome, calls), UNCHANGED <<loop, physical, flight>>
  PROVE  RunInv'
<1> USE RunAssumption
<1>1. /\ rows' = Append(rows, [outcome |-> outcome, calls |-> calls])
      /\ phase' = IF Len(rows') = MaxQueries THEN "DONE" ELSE "ACQUIRE"
      /\ baseline' = physical /\ physical' = physical
      /\ snapshot' = [calls |-> 0, tokens |-> 0]
      /\ opened' = FALSE /\ executed' = {} /\ rounds' = 0
      /\ loop' = loop /\ flight' = flight
  BY DEF Emit
<1>2. Len(rows) < MaxQueries /\ Len(rows) \in Nat /\ rows \in Seq(Row)
  BY RunTypes DEF RunInv, PhaseInv
<1>3. [outcome |-> outcome, calls |-> calls] \in Row
  BY DEF Row
<1>4. rows' \in Seq(Row) /\ Len(rows') = Len(rows) + 1
  <2> DEFINE r == [outcome |-> outcome, calls |-> calls]
  <2>1. r \in Row /\ rows' = Append(rows, r)
    BY <1>1, <1>3
  <2> HIDE DEF r
  <2> QED
    BY <1>2, <2>1
<1>5. RunTypeOK'
  <2>1. /\ phase' \in Phases /\ opened' \in BOOLEAN /\ executed' \subseteq Actions
        /\ snapshot' \in Meter /\ rounds' \in 0..MaxRounds
    <3>1. phase' \in Phases
      BY <1>1 DEF Phases
    <3>2. snapshot' \in Meter /\ rounds' \in 0..MaxRounds
      BY <1>1 DEF Meter
    <3>3. opened' \in BOOLEAN /\ executed' \subseteq Actions
      BY <1>1, Zenon
    <3> QED
      BY <3>1, <3>2, <3>3
  <2>2. /\ loop' \in {"v3", "sweep"} /\ physical' \in Meter /\ baseline' \in Meter
        /\ flight' \in [action : Actions, hold : Nat, before : Meter]
    BY <1>1 DEF RunInv, RunTypeOK
  <2>3. Len(rows') <= MaxQueries
    BY <1>2, <1>4
  <2>4. TypeOK'
    BY DEF IInv
  <2> QED
    BY <1>4, <2>1, <2>2, <2>3, <2>4 DEF RunTypeOK
<1>6. PhaseInv'
  <2>1. Len(rows') <= MaxQueries /\ Len(rows') \in Nat
    BY <1>2, <1>4
  <2> QED
    BY <1>1, <2>1 DEF PhaseInv
<1>7. HoldInv'
  BY <1>1 DEF HoldInv, HoldsAreClosed
<1>8. MeterInv'
  <2>1. phase' \in {"DONE", "ACQUIRE"} /\ physical' = physical /\ baseline' = physical
    BY <1>1
  <2>2. LedgerMatchesMeters'
    BY <2>1 DEF LedgerMatchesMeters
  <2>3. Ahead(physical, baseline)'
    <3>1. physical.calls \in Nat /\ physical.tokens \in Nat
      BY RunTypes
    <3> QED
      BY <2>1, <3>1 DEF Ahead
  <2> QED
    BY <2>1, <2>2, <2>3 DEF MeterInv
<1> QED
  BY <1>5, <1>6, <1>7, <1>8 DEF RunInv

LEMMA QueryFailsInv ==
  ASSUME RunInv, QueryFails
  PROVE  RunInv'
<1>1. IInv'
  BY LedgerUntouched DEF QueryFails, RunInv
<1>2. Emit("pipeline_error", 0) /\ UNCHANGED <<loop, physical, flight>>
  BY DEF QueryFails, EmitError
<1> QED
  BY <1>1, <1>2, EmitInv DEF QueryFails

LEMMA DecideInv ==
  ASSUME RunInv, Decide
  PROVE  RunInv'
<1>1. IInv'
  BY LedgerUntouched DEF Decide, RunInv
<1>2. Emit("predicted", snapshot.calls) /\ UNCHANGED <<loop, physical, flight>>
  BY DEF Decide
<1> QED
  BY <1>1, <1>2, EmitInv, RunTypes DEF Decide

LEMMA AcquireInv ==
  ASSUME RunInv, Acquire
  PROVE  RunInv'
<1> USE RunAssumption
<1>1. PICK spent \in [calls : 0..MaxAcquired, tokens : 0..MaxAcquired] :
        /\ physical' = Plus(physical, spent)
        /\ snapshot' \in [calls : 0..Least(spent.calls, BudgetCalls), tokens : 0..spent.tokens]
  BY DEF Acquire
<1>2. /\ phase = "ACQUIRE" /\ phase' = "CONTROL" /\ ~opened
      /\ UNCHANGED <<loop, baseline, opened, flight, executed, rounds, rows>>
  BY DEF Acquire, RunInv, PhaseInv
<1>3. IInv'
  BY LedgerUntouched DEF Acquire, RunInv
<1>4. spent \in Meter /\ spent.calls \in Nat /\ spent.tokens \in Nat
  BY <1>1 DEF Meter
<1>5. physical' \in Meter /\ Ahead(physical', physical)
  BY <1>1, <1>4, PlusAhead DEF RunInv, RunTypeOK
<1>6. RunTypeOK'
  <2>1. snapshot' \in Meter
    BY <1>1, <1>4 DEF Meter, Least
  <2>2. TypeOK' /\ phase' \in Phases
    BY <1>2, <1>3 DEF IInv, Phases
  <2> QED
    BY <1>2, <1>5, <2>1, <2>2 DEF RunInv, RunTypeOK
<1>7. PhaseInv'
  BY <1>2 DEF RunInv, PhaseInv
<1>8. HoldInv'
  BY <1>2 DEF HoldInv, HoldsAreClosed
<1>9. MeterInv'
  <2>1. Ahead(physical, baseline)
    BY DEF RunInv, MeterInv
  <2>2. Ahead(physical', baseline')
    BY <1>2, <1>5, <2>1, AheadTrans DEF RunInv, RunTypeOK
  <2> QED
    BY <1>2, <2>2 DEF MeterInv, LedgerMatchesMeters
<1> QED
  BY <1>3, <1>6, <1>7, <1>8, <1>9 DEF RunInv

LEMMA NeuralCallInv ==
  ASSUME RunInv, NEW tokens \in 0..1, NeuralCall(tokens)
  PROVE  RunInv'
<1> DEFINE call == [calls |-> 1, tokens |-> tokens]
<1>1. /\ phase = "ACTION" /\ physical' = Plus(physical, call)
      /\ UNCHANGED <<loop, phase, executed, rounds, rows, baseline, snapshot, opened, flight>>
      /\ UNCHANGED vars
  BY DEF NeuralCall, progress
<1>2. IInv'
  BY <1>1, LedgerUntouched DEF RunInv
<1>3. call \in Meter /\ physical \in Meter /\ baseline \in Meter /\ flight.before \in Meter
  BY DEF Meter, RunInv, RunTypeOK
<1> HIDE DEF call
<1>4. physical' \in Meter /\ Ahead(physical', physical)
  BY <1>1, <1>3, PlusAhead
<1>5. Ahead(physical', baseline) /\ Ahead(physical', flight.before)
  BY <1>1, <1>3, <1>4, AheadTrans DEF RunInv, MeterInv
<1>6. RunTypeOK'
  <2>1. TypeOK'
    BY <1>2 DEF IInv
  <2> QED
    BY <1>1, <1>4, <2>1 DEF RunInv, RunTypeOK
<1>7. PhaseInv'
  BY <1>1 DEF RunInv, PhaseInv
<1>8. HoldInv'
  BY <1>1 DEF RunInv, HoldInv, HoldsAreClosed, Outstanding, vars
<1>9. MeterInv'
  BY <1>1, <1>5 DEF RunInv, MeterInv, LedgerMatchesMeters, vars, counters
<1> QED
  BY <1>2, <1>6, <1>7, <1>8, <1>9 DEF RunInv

\* The run stops: nothing is claimed of the hold that broke it.
LEMMA OverrunsInv ==
  ASSUME RunInv, Overruns
  PROVE  RunInv'
<1>1. /\ phase' = "HALTED"
      /\ UNCHANGED <<loop, executed, rounds, rows, physical, baseline, snapshot, opened, flight>>
  BY DEF Overruns, meters
<1>2. IInv'
  BY LedgerUntouched DEF Overruns, RunInv
<1>3. RunTypeOK'
  <2>1. TypeOK' /\ phase' \in Phases
    BY <1>1, <1>2 DEF IInv, Phases
  <2> QED
    BY <1>1, <2>1 DEF RunInv, RunTypeOK
<1>4. PhaseInv' /\ HoldInv'
  BY <1>1 DEF PhaseInv, HoldInv, HoldsAreClosed
<1>5. MeterInv'
  BY <1>1 DEF RunInv, MeterInv, LedgerMatchesMeters, Ahead
<1> QED
  BY <1>2, <1>3, <1>4, <1>5 DEF RunInv

LEMMA RunStutterInv ==
  ASSUME RunInv, UNCHANGED runVars
  PROVE  RunInv'
<1>1. /\ UNCHANGED <<loop, phase, executed, rounds, rows, physical, baseline, snapshot,
                     opened, flight>>
      /\ UNCHANGED vars
  BY DEF runVars, progress, meters
<1>2. IInv'
  BY <1>1, LedgerUntouched DEF RunInv
<1>3. RunTypeOK'
  <2>1. TypeOK'
    BY <1>2 DEF IInv
  <2> QED
    BY <1>1, <2>1 DEF RunInv, RunTypeOK
<1>4. PhaseInv'
  BY <1>1 DEF RunInv, PhaseInv
<1>5. HoldInv'
  BY <1>1 DEF RunInv, HoldInv, HoldsAreClosed, Outstanding, vars
<1>6. MeterInv'
  BY <1>1 DEF RunInv, MeterInv, LedgerMatchesMeters, Ahead, Since, vars, counters
<1> QED
  BY <1>2, <1>3, <1>4, <1>5, <1>6 DEF RunInv

-----------------------------------------------------------------------------
(* Opening the ledger, and taking a hold *)

NewLedgerOnSpend == NewLedger /\ prior \in [calls : Nat, tokens : Nat]

LEMMA NewLedgerNext == NewLedgerOnSpend' => IInv'
<1>1. NewLedgerOnSpend => IInv
  BY NewLedgerIInv DEF NewLedgerOnSpend
<1> QED
  BY <1>1, PTL

LEMMA OpenLedgerInv ==
  ASSUME RunInv, OpenLedger
  PROVE  RunInv'
<1>1. /\ phase = "CONTROL" /\ opened' = TRUE
      /\ UNCHANGED <<loop, phase, executed, rounds, rows, physical, baseline, snapshot, flight>>
  BY DEF OpenLedger, progress, meters
<1>2. /\ prior' = Since(baseline) /\ reservations' = <<>>
      /\ settledCalls' = 0 /\ settledTokens' = 0
      /\ NewLedger'
  BY DEF OpenLedger, BuildLedger, NewLedger
<1>3. /\ prior' = [calls |-> physical.calls - baseline.calls,
                   tokens |-> physical.tokens - baseline.tokens]
      /\ physical.calls - baseline.calls \in Nat
      /\ physical.tokens - baseline.tokens \in Nat
  <2>1. physical.calls >= baseline.calls /\ physical.tokens >= baseline.tokens
    BY DEF RunInv, MeterInv, Ahead
  <2>2. /\ physical.calls \in Nat /\ physical.tokens \in Nat
        /\ baseline.calls \in Nat /\ baseline.tokens \in Nat
    BY RunTypes
  <2>3. /\ physical.calls - baseline.calls \in Nat
        /\ physical.tokens - baseline.tokens \in Nat
    BY <2>1, <2>2
  <2> QED
    BY <1>2, <2>3 DEF Since
<1>4. IInv'
  <2>1. prior' \in [calls : Nat, tokens : Nat]
    BY <1>3
  <2> QED
    BY <1>2, <2>1, NewLedgerNext DEF NewLedgerOnSpend
<1>5. RunTypeOK'
  <2>1. TypeOK'
    BY <1>4 DEF IInv
  <2>2. opened' \in BOOLEAN
    BY <1>1, Zenon
  <2> QED
    BY <1>1, <2>1, <2>2 DEF RunInv, RunTypeOK
<1>6. PhaseInv'
  BY <1>1 DEF RunInv, PhaseInv
<1>7. HoldInv'
  <2>1. Outstanding' = {}
    BY <1>2 DEF Outstanding
  <2> QED
    BY <1>1, <2>1 DEF HoldInv, HoldsAreClosed
<1>8. MeterInv'
  <2>1. Since(baseline)' = [calls |-> prior'.calls + settledCalls',
                            tokens |-> prior'.tokens + settledTokens']
    BY <1>1, <1>2, <1>3 DEF Since
  <2> QED
    BY <1>1, <2>1 DEF RunInv, MeterInv, LedgerMatchesMeters, Ahead
<1> QED
  BY <1>4, <1>5, <1>6, <1>7, <1>8 DEF RunInv

LEMMA RefuseInv ==
  ASSUME RunInv, NEW a \in Actions, Refuse(a)
  PROVE  RunInv'
<1> USE RunAssumption
<1>1. /\ phase = "CONTROL" /\ opened /\ rounds < MaxRounds /\ Deny(a)
      /\ executed' = executed \cup {a}
      /\ rounds' = IF loop = "v3" THEN MaxRounds ELSE rounds + 1
      /\ UNCHANGED <<loop, phase, rows, physical, baseline, snapshot, opened, flight>>
  BY DEF Refuse, Selectable, meters
<1>2. IInv'
  BY <1>1, LedgerNextIInv DEF RunInv, LedgerNext
<1>3. /\ prior' = prior /\ reservations' = reservations
      /\ settledCalls' = settledCalls /\ settledTokens' = settledTokens
  BY <1>1 DEF Deny, counters
<1>4. RunTypeOK'
  <2>1. rounds' \in 0..MaxRounds
    BY <1>1 DEF RunInv, RunTypeOK
  <2>2. TypeOK'
    BY <1>2 DEF IInv
  <2> QED
    BY <1>1, <2>1, <2>2 DEF RunInv, RunTypeOK
<1>5. PhaseInv'
  BY <1>1 DEF RunInv, PhaseInv
<1>6. HoldInv'
  BY <1>1, <1>3 DEF RunInv, HoldInv, HoldsAreClosed, Outstanding
<1>7. MeterInv'
  BY <1>1, <1>3 DEF RunInv, MeterInv, LedgerMatchesMeters, Ahead, Since
<1> QED
  BY <1>2, <1>4, <1>5, <1>6, <1>7 DEF RunInv

LEMMA AdmitInv ==
  ASSUME RunInv, NEW a \in Actions, Admit(a)
  PROVE  RunInv'
<1> USE RunAssumption
<1>1. /\ phase = "CONTROL" /\ opened /\ rounds < MaxRounds /\ Reserve(a)
      /\ flight' = [action |-> a, hold |-> Len(reservations'), before |-> physical]
      /\ phase' = "ACTION" /\ executed' = executed \cup {a} /\ rounds' = rounds + 1
      /\ UNCHANGED <<loop, rows, physical, baseline, snapshot, opened>>
  BY DEF Admit, Selectable, meters
<1>2. IInv'
  BY <1>1, ReserveIInv DEF RunInv
<1>3. /\ prior' = prior /\ settledCalls' = settledCalls /\ settledTokens' = settledTokens
  BY <1>1 DEF Reserve
<1> DEFINE n == Len(reservations) + 1
<1>4. /\ reservations' \in Seq(Reservation)
      /\ DOMAIN reservations' = DOMAIN reservations \cup {n}
      /\ n \notin DOMAIN reservations
      /\ \A j \in DOMAIN reservations : reservations'[j] = reservations[j]
      /\ reservations'[n] = [action |-> a, status |-> "OUTSTANDING", calls |-> 0, tokens |-> 0]
  BY <1>1, ReserveShape DEF RunInv
<1>5. Len(reservations') = n /\ n \in Nat
  <2>1. reservations \in Seq(Reservation)
    BY DEF RunInv, IInv, TypeOK
  <2>2. \E r : reservations' = Append(reservations, r)
    BY <1>1 DEF Reserve
  <2> QED
    BY <2>1, <2>2
<1> HIDE DEF n
<1>6. Outstanding' = {n}
  <2>1. Outstanding = {}
    BY <1>1 DEF RunInv, HoldInv, HoldsAreClosed
  <2> QED
    BY <1>4, <2>1 DEF Outstanding
<1>7. RunTypeOK'
  <2>1. physical \in Meter /\ rounds' \in 0..MaxRounds
    BY <1>1 DEF RunInv, RunTypeOK
  <2>2. flight' \in [action : Actions, hold : Nat, before : Meter]
    BY <1>1, <1>5, <2>1
  <2>3. TypeOK' /\ phase' \in Phases
    BY <1>1, <1>2 DEF IInv, Phases
  <2> QED
    BY <1>1, <2>1, <2>2, <2>3 DEF RunInv, RunTypeOK
<1>8. PhaseInv'
  BY <1>1 DEF RunInv, PhaseInv
<1>9. HoldInv'
  BY <1>1, <1>4, <1>5, <1>6 DEF HoldInv, HoldsAreClosed
<1>10. MeterInv'
  <2>1. Since(baseline) = [calls |-> prior.calls + settledCalls,
                           tokens |-> prior.tokens + settledTokens]
    BY <1>1 DEF RunInv, MeterInv, LedgerMatchesMeters
  <2>2. /\ physical.calls - baseline.calls = prior.calls + settledCalls
        /\ physical.tokens - baseline.tokens = prior.tokens + settledTokens
    BY <2>1 DEF Since
  <2>3. Ahead(physical, baseline) /\ Ahead(physical, physical)
    <3>1. Ahead(physical, baseline)
      BY DEF RunInv, MeterInv
    <3>2. physical.calls \in Nat /\ physical.tokens \in Nat
      BY RunTypes
    <3> QED
      BY <3>1, <3>2 DEF Ahead
  <2>4. /\ flight'.before = physical /\ phase' = "ACTION"
        /\ physical' = physical /\ baseline' = baseline
    BY <1>1
  <2>5. LedgerMatchesMeters'
    BY <2>4 DEF LedgerMatchesMeters
  <2>6. Ahead(physical, baseline)' /\ Ahead(physical, flight.before)' /\ Ahead(flight.before, baseline)'
    BY <2>3, <2>4
  <2> QED
    BY <1>3, <2>2, <2>4, <2>5, <2>6 DEF MeterInv
<1> QED
  BY <1>2, <1>7, <1>8, <1>9, <1>10 DEF RunInv

-----------------------------------------------------------------------------
(* Closing a hold *)

LEMMA SinceType ==
  ASSUME NEW m \in Meter, physical \in Meter, Ahead(physical, m)
  PROVE  Since(m) \in Meter
<1>1. /\ physical.calls \in Nat /\ physical.tokens \in Nat
      /\ m.calls \in Nat /\ m.tokens \in Nat
      /\ physical.calls >= m.calls /\ physical.tokens >= m.tokens
  BY DEF Meter, Ahead
<1>2. physical.calls - m.calls \in Nat /\ physical.tokens - m.tokens \in Nat
  BY <1>1
<1> QED
  BY <1>2 DEF Since, Meter

\* What an action spent, when it fits its hold, is a settlement of that hold.
LEMMA SpentType ==
  ASSUME RunInv, phase = "ACTION", Fits(Since(flight.before))
  PROVE  /\ flight.hold \in Outstanding
         /\ flight.hold \in DOMAIN reservations
         /\ reservations[flight.hold].action = flight.action
         /\ Since(flight.before).calls \in 0..Calls[reservations[flight.hold].action]
         /\ Since(flight.before).tokens \in 0..Tokens[reservations[flight.hold].action]
<1>1. /\ Outstanding = {flight.hold} /\ flight.hold \in DOMAIN reservations
      /\ reservations[flight.hold].action = flight.action
  BY DEF RunInv, HoldInv, HoldsAreClosed
<1>2. Since(flight.before) \in Meter
  BY SinceType DEF RunInv, RunTypeOK, MeterInv
<1>3. /\ Since(flight.before).calls \in Nat /\ Since(flight.before).tokens \in Nat
  BY <1>2 DEF Meter
<1>4. Calls[flight.action] \in Nat /\ Tokens[flight.action] \in Nat
  BY RunTypes, DescriptorAssumption
<1> HIDE DEF Since
<1>5. /\ Since(flight.before).calls <= Calls[flight.action]
      /\ Since(flight.before).tokens <= Tokens[flight.action]
  BY DEF Fits
<1> QED
  BY <1>1, <1>3, <1>4, <1>5

\* A closing for exactly what the counters say leaves nothing outstanding and
\* ledger and counters in agreement.
LEMMA CloseFlight ==
  ASSUME RunInv, phase = "ACTION",
         Closes(flight.hold, Since(flight.before).calls, Since(flight.before).tokens)
  PROVE  /\ IInv' /\ Outstanding' = {}
         /\ prior'.calls + settledCalls' = Since(baseline).calls
         /\ prior'.tokens + settledTokens' = Since(baseline).tokens
<1> DEFINE m == Since(flight.before).calls
           t == Since(flight.before).tokens
<1>1. IInv'
  BY ClosesIInv DEF RunInv
<1>2. Outstanding = {flight.hold}
  BY DEF RunInv, HoldInv, HoldsAreClosed
<1>3. /\ DOMAIN reservations' = DOMAIN reservations
      /\ \A j \in DOMAIN reservations : j # flight.hold => reservations'[j] = reservations[j]
      /\ reservations'[flight.hold].status \in {"SETTLED", "CANCELLED"}
  BY ClosesShape DEF RunInv
<1>4. Outstanding' = {}
  BY <1>2, <1>3 DEF Outstanding
<1>5. /\ prior' = prior /\ settledCalls' = settledCalls + m
      /\ settledTokens' = settledTokens + t
  BY DEF Closes
<1>6. /\ flight.before.calls - baseline.calls = prior.calls + settledCalls
      /\ flight.before.tokens - baseline.tokens = prior.tokens + settledTokens
  BY DEF RunInv, MeterInv
<1>7. /\ m = physical.calls - flight.before.calls
      /\ t = physical.tokens - flight.before.tokens
      /\ Since(baseline).calls = physical.calls - baseline.calls
      /\ Since(baseline).tokens = physical.tokens - baseline.tokens
  BY DEF Since
<1> HIDE DEF m, t
<1>8. /\ prior'.calls + settledCalls' = Since(baseline).calls
      /\ prior'.tokens + settledTokens' = Since(baseline).tokens
  <2>1. prior'.calls + settledCalls'
          = prior.calls + (settledCalls + (physical.calls - flight.before.calls))
    BY <1>5, <1>7
  <2>2. prior'.tokens + settledTokens'
          = prior.tokens + (settledTokens + (physical.tokens - flight.before.tokens))
    BY <1>5, <1>7
  <2>3. prior.calls + (settledCalls + (physical.calls - flight.before.calls))
          = physical.calls - baseline.calls
    <3>1. /\ prior.calls \in Nat /\ settledCalls \in Nat /\ physical.calls \in Nat
          /\ flight.before.calls \in Nat /\ baseline.calls \in Nat
      BY RunTypes
    <3> QED
      BY <1>6, <3>1
  <2>4. prior.tokens + (settledTokens + (physical.tokens - flight.before.tokens))
          = physical.tokens - baseline.tokens
    <3>1. /\ prior.tokens \in Nat /\ settledTokens \in Nat /\ physical.tokens \in Nat
          /\ flight.before.tokens \in Nat /\ baseline.tokens \in Nat
      BY RunTypes
    <3> QED
      BY <1>6, <3>1
  <2> QED
    BY <1>7, <2>1, <2>2, <2>3, <2>4
<1> QED
  BY <1>1, <1>4, <1>8

LEMMA SettlesFlight ==
  ASSUME RunInv, phase = "ACTION", Fits(Since(flight.before)),
         Settle(flight.hold, Since(flight.before).calls, Since(flight.before).tokens)
  PROVE  Closes(flight.hold, Since(flight.before).calls, Since(flight.before).tokens)
  BY SpentType, SettleCloses DEF RunInv

\* Settled or cancelled, the hold of a failed action closes for what it spent.
LEMMA RaisesCloses ==
  ASSUME RunInv, ActionRaises
  PROVE  Closes(flight.hold, Since(flight.before).calls, Since(flight.before).tokens)
<1>1. phase = "ACTION" /\ Fits(Since(flight.before))
  BY DEF ActionRaises
<1>2. CASE Since(flight.before).calls = 0 /\ Since(flight.before).tokens = 0
  <2>1. Cancel(flight.hold)
    BY <1>2 DEF ActionRaises
  <2> QED
    BY <1>1, <1>2, <2>1, SpentType, CancelCloses DEF RunInv
<1>3. CASE ~(Since(flight.before).calls = 0 /\ Since(flight.before).tokens = 0)
  <2>1. Settle(flight.hold, Since(flight.before).calls, Since(flight.before).tokens)
    BY <1>3 DEF ActionRaises
  <2> QED
    BY <1>1, <2>1, SettlesFlight
<1> QED
  BY <1>2, <1>3

LEMMA ActionRaisesInv ==
  ASSUME RunInv, ActionRaises
  PROVE  RunInv'
<1>1. IInv'
  BY RaisesCloses, CloseFlight DEF ActionRaises
<1>2. phase = "ACTION" /\ Emit("pipeline_error", 0) /\ UNCHANGED <<loop, physical, flight>>
  BY DEF ActionRaises, EmitError
<1> QED
  BY <1>1, <1>2, EmitInv

LEMMA ActionReturnsInv ==
  ASSUME RunInv, ActionReturns
  PROVE  RunInv'
<1>1. /\ phase = "ACTION" /\ Fits(Since(flight.before)) /\ phase' = "CONTROL"
      /\ Settle(flight.hold, Since(flight.before).calls, Since(flight.before).tokens)
      /\ snapshot' = IF loop = "v3" THEN Plus(snapshot, Since(flight.before)) ELSE snapshot
      /\ UNCHANGED <<loop, executed, rounds, rows, physical, baseline, opened, flight>>
  BY DEF ActionReturns
<1>2. /\ IInv' /\ Outstanding' = {}
      /\ prior'.calls + settledCalls' = Since(baseline).calls
      /\ prior'.tokens + settledTokens' = Since(baseline).tokens
  BY <1>1, SettlesFlight, CloseFlight
<1>3. snapshot' \in Meter
  <2>1. Since(flight.before) \in Meter
    BY <1>1, SinceType DEF RunInv, RunTypeOK, MeterInv
  <2> QED
    BY <1>1, <2>1, PlusAhead DEF RunInv, RunTypeOK
<1>4. RunTypeOK'
  <2>1. TypeOK' /\ phase' \in Phases
    BY <1>1, <1>2 DEF IInv, Phases
  <2> QED
    BY <1>1, <1>3, <2>1 DEF RunInv, RunTypeOK
<1>5. PhaseInv'
  BY <1>1 DEF RunInv, PhaseInv
<1>6. HoldInv'
  BY <1>1, <1>2 DEF HoldInv, HoldsAreClosed
<1>7. MeterInv'
  <2>1. Since(baseline)' = [calls |-> prior'.calls + settledCalls',
                            tokens |-> prior'.tokens + settledTokens']
    BY <1>1, <1>2 DEF Since
  <2> QED
    BY <1>1, <2>1 DEF RunInv, MeterInv, LedgerMatchesMeters, Ahead
<1> QED
  BY <1>2, <1>4, <1>5, <1>6, <1>7 DEF RunInv

LEMMA RunNextInv == RunInv /\ [RunNext]_runVars => RunInv'
<1> SUFFICES ASSUME RunInv, [RunNext]_runVars
             PROVE  RunInv'
  OBVIOUS
<1>1. CASE Acquire
  BY <1>1, AcquireInv
<1>2. CASE QueryFails
  BY <1>2, QueryFailsInv
<1>3. CASE OpenLedger
  BY <1>3, OpenLedgerInv
<1>4. ASSUME NEW a \in Actions, Refuse(a)
      PROVE  RunInv'
  BY <1>4, RefuseInv
<1>5. ASSUME NEW a \in Actions, Admit(a)
      PROVE  RunInv'
  BY <1>5, AdmitInv
<1>6. ASSUME NEW tokens \in 0..1, NeuralCall(tokens)
      PROVE  RunInv'
  BY <1>6, NeuralCallInv
<1>7. CASE Overruns
  BY <1>7, OverrunsInv
<1>8. CASE ActionReturns
  BY <1>8, ActionReturnsInv
<1>9. CASE ActionRaises
  BY <1>9, ActionRaisesInv
<1>10. CASE Decide
  BY <1>10, DecideInv
<1>11. CASE Terminated \/ UNCHANGED runVars
  BY <1>11, RunStutterInv DEF Terminated
<1> QED
  BY <1>1, <1>2, <1>3, <1>4, <1>5, <1>6, <1>7, <1>8, <1>9, <1>10, <1>11 DEF RunNext

LEMMA RunInductive == RunSpec => []RunInv
  BY RunInitInv, RunNextInv, PTL DEF RunSpec

-----------------------------------------------------------------------------
(* What really ran *)

\* The hold of the action that runs is part of what the ledger has reserved.
LEMMA FlightIsReserved ==
  ASSUME RunInv, phase = "ACTION"
  PROVE  /\ reservedCalls = Calls[flight.action]
         /\ reservedTokens = Tokens[flight.action]
<1>1. /\ Outstanding = {flight.hold} /\ flight.hold \in DOMAIN reservations
      /\ reservations[flight.hold].action = flight.action
  BY DEF RunInv, HoldInv, HoldsAreClosed
<1>2. /\ callCharge[flight.hold] = Calls[flight.action]
      /\ tokenCharge[flight.hold] = Tokens[flight.action]
  BY <1>1 DEF callCharge, tokenCharge, Outstanding
<1>3. Calls[flight.action] \in Nat /\ Tokens[flight.action] \in Nat
  BY RunTypes, DescriptorAssumption
<1>4. ASSUME NEW f, NEW n \in Nat, f[flight.hold] = n
      PROVE  Total({flight.hold}, f) = n
  <2>1. Units({flight.hold}, f) = {flight.hold} \X (1..n)
    BY <1>4 DEF Units
  <2> QED
    BY <2>1, SingleUnits DEF Total
<1>5. /\ Total({flight.hold}, callCharge) = Calls[flight.action]
      /\ Total({flight.hold}, tokenCharge) = Tokens[flight.action]
  BY <1>2, <1>3, <1>4
<1> QED
  BY <1>1, <1>5 DEF RunInv, IInv, LedgerBalances

\* What a query spent is on its ledger, settled or held.
LEMMA SpendIsCommitted ==
  ASSUME RunInv, opened, phase # "HALTED",
         phase = "ACTION" => Fits(Since(flight.before))
  PROVE  /\ Since(baseline).calls <= committedCalls
         /\ Since(baseline).tokens <= committedTokens
<1>1. /\ reservedCalls \in Nat /\ reservedTokens \in Nat
      /\ prior.calls \in Nat /\ prior.tokens \in Nat
      /\ settledCalls \in Nat /\ settledTokens \in Nat
  BY RunTypes DEF RunInv, IInv, TypeOK
<1>2. CASE phase = "CONTROL"
  <2>1. /\ Since(baseline).calls = prior.calls + settledCalls
        /\ Since(baseline).tokens = prior.tokens + settledTokens
    BY <1>2 DEF RunInv, MeterInv, LedgerMatchesMeters
  <2> QED
    BY <1>1, <2>1 DEF committedCalls, committedTokens
<1>3. CASE phase = "ACTION"
  <2>1. /\ flight.before.calls - baseline.calls = prior.calls + settledCalls
        /\ flight.before.tokens - baseline.tokens = prior.tokens + settledTokens
    BY <1>3 DEF RunInv, MeterInv
  <2>2. /\ physical.calls - flight.before.calls <= Calls[flight.action]
        /\ physical.tokens - flight.before.tokens <= Tokens[flight.action]
    BY <1>3 DEF Fits, Since
  <2>3. /\ reservedCalls = Calls[flight.action]
        /\ reservedTokens = Tokens[flight.action]
    BY <1>3, FlightIsReserved
  <2>4. /\ Since(baseline).calls = physical.calls - baseline.calls
        /\ Since(baseline).tokens = physical.tokens - baseline.tokens
    BY DEF Since
  <2>5. /\ physical.calls \in Nat /\ baseline.calls \in Nat
        /\ flight.before.calls \in Nat
        /\ physical.tokens \in Nat /\ baseline.tokens \in Nat
        /\ flight.before.tokens \in Nat
    BY RunTypes
  <2>6. physical.calls - baseline.calls <= prior.calls + reservedCalls + settledCalls
    BY <1>1, <2>1, <2>2, <2>3, <2>5
  <2>7. physical.tokens - baseline.tokens <= prior.tokens + reservedTokens + settledTokens
    BY <1>1, <2>1, <2>2, <2>3, <2>5
  <2> QED
    BY <2>4, <2>6, <2>7 DEF committedCalls, committedTokens
<1> QED
  BY <1>2, <1>3 DEF RunInv, PhaseInv

LEMMA SpendFits == RunInv => SpendStaysUnderCap
<1> SUFFICES ASSUME RunInv, opened, phase # "HALTED",
                    phase = "ACTION" => Fits(Since(flight.before))
             PROVE  /\ Since(baseline).calls <=
                         IF prior.calls > HardCalls THEN prior.calls ELSE HardCalls
                    /\ Since(baseline).tokens <=
                         IF prior.tokens > HardTokens THEN prior.tokens ELSE HardTokens
  BY DEF SpendStaysUnderCap
<1> DEFINE c == Since(baseline).calls
           t == Since(baseline).tokens
           callCap == IF prior.calls > HardCalls THEN prior.calls ELSE HardCalls
           tokenCap == IF prior.tokens > HardTokens THEN prior.tokens ELSE HardTokens
<1>1. c <= committedCalls /\ t <= committedTokens
  BY SpendIsCommitted
<1>2. committedCalls <= callCap /\ committedTokens <= tokenCap
  BY DEF RunInv, IInv, EnvelopeHolds
<1>3. /\ c \in Int /\ t \in Int
      /\ committedCalls \in Int /\ committedTokens \in Int
      /\ callCap \in Int /\ tokenCap \in Int
  <2>1. c \in Int /\ t \in Int
    <3>1. c = physical.calls - baseline.calls /\ t = physical.tokens - baseline.tokens
      BY DEF Since
    <3>2. /\ physical.calls \in Nat /\ physical.tokens \in Nat
          /\ baseline.calls \in Nat /\ baseline.tokens \in Nat
      BY RunTypes
    <3> HIDE DEF c, t
    <3> QED
      BY <3>1, <3>2
  <2>2. committedCalls \in Int /\ committedTokens \in Int
    <3>1. /\ prior.calls \in Nat /\ prior.tokens \in Nat
          /\ settledCalls \in Nat /\ settledTokens \in Nat
      BY RunTypes
    <3>2. reservedCalls \in Nat /\ reservedTokens \in Nat
      BY DEF RunInv, IInv, TypeOK
    <3> QED
      BY <3>1, <3>2 DEF committedCalls, committedTokens
  <2>3. callCap \in Int /\ tokenCap \in Int
    BY RunTypes, CalibrationAssumption
  <2> QED
    BY <2>1, <2>2, <2>3
<1> HIDE DEF c, t, callCap, tokenCap
<1>4. c <= callCap /\ t <= tokenCap
  BY <1>1, <1>2, <1>3
<1> QED
  BY <1>4 DEF c, t, callCap, tokenCap

-----------------------------------------------------------------------------
(* Rows *)

LEMMA RowStep ==
  ASSUME RunInv, RunNext
  PROVE  RowIsAccountedFor
<1> SUFFICES ASSUME Len(rows') > Len(rows), opened
             PROVE  /\ Outstanding' = {}
                    /\ prior'.calls + settledCalls' = Since(baseline).calls
                    /\ prior'.tokens + settledTokens' = Since(baseline).tokens
  BY DEF RowIsAccountedFor
<1>1. rows' # rows
  BY RunTypes
<1>2. CASE ActionRaises
  BY <1>2, RaisesCloses, CloseFlight DEF ActionRaises
<1>3. CASE Decide \/ QueryFails
  <2>1. phase = "CONTROL"
    BY <1>3 DEF Decide, QueryFails, RunInv, PhaseInv
  <2>2. /\ Outstanding = {} /\ Since(baseline).calls = prior.calls + settledCalls
        /\ Since(baseline).tokens = prior.tokens + settledTokens
    BY <2>1 DEF RunInv, HoldInv, HoldsAreClosed, MeterInv, LedgerMatchesMeters
  <2>3. /\ reservations' = reservations /\ prior' = prior
        /\ settledCalls' = settledCalls /\ settledTokens' = settledTokens
    BY <1>3 DEF Decide, QueryFails, vars, counters
  <2> QED
    BY <2>2, <2>3 DEF Outstanding
\* No other step collects a row.
<1>4. ~Acquire /\ ~OpenLedger /\ ~Overruns /\ ~ActionReturns /\ ~Terminated
  BY <1>1 DEF Acquire, OpenLedger, Overruns, ActionReturns, Terminated, runVars, progress
<1>5. /\ \A a \in Actions : ~Refuse(a) /\ ~Admit(a)
      /\ \A tokens \in 0..1 : ~NeuralCall(tokens)
  BY <1>1 DEF Refuse, Admit, NeuralCall, progress
<1> QED
  BY <1>2, <1>3, <1>4, <1>5 DEF RunNext

-----------------------------------------------------------------------------
(* The budget of the V3 loop *)

\* What the ledger has settled is in the snapshot, and the action that runs fits
\* what the snapshot leaves.  Tokens of the acquisition may be beyond the budget:
\* then no action of any tokens is chosen.
BudgetInv ==
  loop = "v3" /\ phase \in {"CONTROL", "ACTION"} =>
    /\ snapshot.calls <= BudgetCalls
    /\ opened =>
         /\ settledCalls <= snapshot.calls
         /\ settledTokens <= snapshot.tokens /\ settledTokens <= BudgetTokens
    /\ phase = "ACTION" =>
         /\ snapshot.calls + Calls[flight.action] <= BudgetCalls
         /\ settledTokens + Tokens[flight.action] <= BudgetTokens

LEMMA RunInitBudget == RunInit => BudgetInv
<1> SUFFICES ASSUME RunInit
             PROVE  BudgetInv
  OBVIOUS
<1>1. phase \in {"DONE", "ACQUIRE"}
  BY DEF RunInit
<1> QED
  BY <1>1 DEF BudgetInv

LEMMA AcquireBudget ==
  ASSUME RunInv, Acquire
  PROVE  BudgetInv'
<1>1. PICK spent \in [calls : 0..MaxAcquired, tokens : 0..MaxAcquired] :
        snapshot' \in [calls : 0..Least(spent.calls, BudgetCalls), tokens : 0..spent.tokens]
  BY DEF Acquire
<1>2. spent.calls \in Nat /\ BudgetCalls \in Nat
  BY RunAssumption
<1>3. Least(spent.calls, BudgetCalls) \in Nat /\ Least(spent.calls, BudgetCalls) <= BudgetCalls
  BY <1>2 DEF Least
<1>4. snapshot'.calls \in 0..Least(spent.calls, BudgetCalls)
  BY <1>1
<1>5. snapshot'.calls <= BudgetCalls
  BY <1>2, <1>3, <1>4
<1>6. ~opened' /\ phase' = "CONTROL"
  BY DEF Acquire, RunInv, PhaseInv
<1> QED
  BY <1>5, <1>6 DEF BudgetInv

LEMMA OpenLedgerBudget ==
  ASSUME RunInv, BudgetInv, OpenLedger
  PROVE  BudgetInv'
<1>1. /\ phase = "CONTROL" /\ settledCalls' = 0 /\ settledTokens' = 0
      /\ UNCHANGED <<loop, phase, snapshot>>
  BY DEF OpenLedger, BuildLedger, progress, meters
<1>2. snapshot.calls \in Nat /\ snapshot.tokens \in Nat /\ BudgetTokens \in Nat
  BY RunTypes, RunAssumption
<1> QED
  BY <1>1, <1>2 DEF BudgetInv

LEMMA AdmitBudget ==
  ASSUME RunInv, BudgetInv, NEW a \in Actions, Admit(a)
  PROVE  BudgetInv'
<1>1. /\ phase = "CONTROL" /\ opened /\ phase' = "ACTION" /\ flight'.action = a
      /\ UNCHANGED <<loop, snapshot, opened, settledCalls, settledTokens>>
  BY DEF Admit, Selectable, Reserve, meters
<1>2. /\ snapshot.calls \in Nat /\ snapshot.tokens \in Nat
      /\ settledCalls \in Nat /\ settledTokens \in Nat
      /\ BudgetCalls \in Nat /\ BudgetTokens \in Nat
      /\ Calls[a] \in Nat /\ Tokens[a] \in Nat
  BY RunTypes, RunAssumption, DescriptorAssumption
<1> SUFFICES ASSUME loop = "v3"
             PROVE  BudgetInv'
  BY <1>1 DEF BudgetInv
<1>3. /\ Calls[a] <= PosPart(BudgetCalls - snapshot.calls)
      /\ Tokens[a] <= PosPart(BudgetTokens - snapshot.tokens)
  BY DEF Admit, Selectable
<1>4. /\ snapshot.calls <= BudgetCalls /\ settledCalls <= snapshot.calls
      /\ settledTokens <= snapshot.tokens /\ settledTokens <= BudgetTokens
  BY <1>1 DEF BudgetInv
<1>5. snapshot.calls + Calls[a] <= BudgetCalls
  BY <1>2, <1>3, <1>4 DEF PosPart
<1>6. settledTokens + Tokens[a] <= BudgetTokens
  BY <1>2, <1>3, <1>4 DEF PosPart
<1> QED
  BY <1>1, <1>4, <1>5, <1>6 DEF BudgetInv

LEMMA ActionReturnsBudget ==
  ASSUME RunInv, BudgetInv, ActionReturns
  PROVE  BudgetInv'
<1> DEFINE spent == Since(flight.before)
<1>1. /\ phase = "ACTION" /\ phase' = "CONTROL"
      /\ spent.calls <= Calls[flight.action] /\ spent.tokens <= Tokens[flight.action]
      /\ settledCalls' = settledCalls + spent.calls
      /\ settledTokens' = settledTokens + spent.tokens
      /\ snapshot' = IF loop = "v3" THEN Plus(snapshot, spent) ELSE snapshot
      /\ UNCHANGED <<loop, opened>>
  BY DEF ActionReturns, Settle, Fits
<1>2. spent \in Meter
  BY <1>1, SinceType DEF RunInv, RunTypeOK, MeterInv
<1> HIDE DEF spent
<1>3. /\ snapshot.calls \in Nat /\ snapshot.tokens \in Nat
      /\ settledCalls \in Nat /\ settledTokens \in Nat
      /\ BudgetCalls \in Nat /\ BudgetTokens \in Nat
      /\ Calls[flight.action] \in Nat /\ Tokens[flight.action] \in Nat
      /\ spent.calls \in Nat /\ spent.tokens \in Nat
  BY <1>2, RunTypes, RunAssumption, DescriptorAssumption DEF Meter
<1> SUFFICES ASSUME loop = "v3"
             PROVE  BudgetInv'
  BY <1>1 DEF BudgetInv
<1>4. /\ snapshot.calls + Calls[flight.action] <= BudgetCalls
      /\ settledTokens + Tokens[flight.action] <= BudgetTokens
      /\ settledCalls <= snapshot.calls /\ settledTokens <= snapshot.tokens
  BY <1>1 DEF BudgetInv, RunInv, PhaseInv
<1>5. /\ snapshot'.calls = snapshot.calls + spent.calls
      /\ snapshot'.tokens = snapshot.tokens + spent.tokens
  BY <1>1 DEF Plus
<1>6. /\ snapshot'.calls <= BudgetCalls /\ settledCalls' <= snapshot'.calls
  BY <1>1, <1>3, <1>4, <1>5
<1>7. settledTokens' <= snapshot'.tokens /\ settledTokens' <= BudgetTokens
  BY <1>1, <1>3, <1>4, <1>5
<1> QED
  BY <1>1, <1>6, <1>7 DEF BudgetInv

LEMMA RunNextBudget == RunInv /\ BudgetInv /\ [RunNext]_runVars => BudgetInv'
<1> SUFFICES ASSUME RunInv, BudgetInv, [RunNext]_runVars
             PROVE  BudgetInv'
  OBVIOUS
<1>1. CASE Acquire
  BY <1>1, AcquireBudget
<1>2. CASE OpenLedger
  BY <1>2, OpenLedgerBudget
<1>3. ASSUME NEW a \in Actions, Admit(a)
      PROVE  BudgetInv'
  BY <1>3, AdmitBudget
<1>4. CASE ActionReturns
  BY <1>4, ActionReturnsBudget
\* A row ends the query.
<1>5. CASE QueryFails \/ ActionRaises \/ Decide
  <2>1. phase' \in {"DONE", "ACQUIRE"}
    BY <1>5 DEF QueryFails, ActionRaises, Decide, EmitError, Emit
  <2> QED
    BY <2>1 DEF BudgetInv
<1>6. CASE Overruns
  BY <1>6 DEF Overruns, BudgetInv
\* The others leave what the invariant is about alone.
<1>7. ASSUME NEW a \in Actions, Refuse(a)
      PROVE  BudgetInv'
  BY <1>7 DEF Refuse, Deny, meters, counters, BudgetInv
<1>8. ASSUME NEW tokens \in 0..1, NeuralCall(tokens)
      PROVE  BudgetInv'
  BY <1>8 DEF NeuralCall, progress, vars, counters, BudgetInv
<1>9. CASE Terminated \/ UNCHANGED runVars
  BY <1>9 DEF Terminated, runVars, progress, meters, vars, counters, BudgetInv
<1> QED
  BY <1>1, <1>2, <1>3, <1>4, <1>5, <1>6, <1>7, <1>8, <1>9 DEF RunNext

\* What the counters say is what the ledger settled and what runs now.
LEMMA BudgetFits == RunInv /\ BudgetInv => V3SpendStaysInBudget
<1> SUFFICES ASSUME RunInv, BudgetInv, loop = "v3", opened, phase # "HALTED",
                    phase = "ACTION" => Fits(Since(flight.before))
             PROVE  /\ Since(baseline).calls - prior.calls <= BudgetCalls
                    /\ Since(baseline).tokens - prior.tokens <= BudgetTokens
  BY DEF V3SpendStaysInBudget
<1>1. /\ physical.calls \in Nat /\ physical.tokens \in Nat
      /\ baseline.calls \in Nat /\ baseline.tokens \in Nat
      /\ snapshot.calls \in Nat /\ snapshot.tokens \in Nat
      /\ flight.before.calls \in Nat /\ flight.before.tokens \in Nat
      /\ prior.calls \in Nat /\ prior.tokens \in Nat
      /\ settledCalls \in Nat /\ settledTokens \in Nat
      /\ BudgetCalls \in Nat /\ BudgetTokens \in Nat
      /\ Calls[flight.action] \in Nat /\ Tokens[flight.action] \in Nat
  BY RunTypes, RunAssumption, DescriptorAssumption
<1>2. phase \in {"CONTROL", "ACTION"}
  BY DEF RunInv, PhaseInv
<1>3. CASE phase = "CONTROL"
  <2>1. /\ Since(baseline).calls = prior.calls + settledCalls
        /\ Since(baseline).tokens = prior.tokens + settledTokens
    BY <1>3 DEF RunInv, MeterInv, LedgerMatchesMeters
  <2>2. settledCalls <= BudgetCalls /\ settledTokens <= BudgetTokens
    BY <1>1, <1>2 DEF BudgetInv
  <2>3. \A x, y, b \in Nat : y <= b => x + y - x <= b
    OBVIOUS
  <2> QED
    BY <1>1, <2>1, <2>2, <2>3
<1>4. CASE phase = "ACTION"
  <2>1. /\ flight.before.calls - baseline.calls = prior.calls + settledCalls
        /\ flight.before.tokens - baseline.tokens = prior.tokens + settledTokens
    BY <1>4 DEF RunInv, MeterInv
  <2>2. /\ Since(baseline).calls = physical.calls - baseline.calls
        /\ Since(baseline).tokens = physical.tokens - baseline.tokens
    BY DEF Since
  <2>3. /\ physical.calls - flight.before.calls <= Calls[flight.action]
        /\ physical.tokens - flight.before.tokens <= Tokens[flight.action]
    BY <1>4 DEF Fits, Since
  <2>4. /\ settledCalls + Calls[flight.action] <= BudgetCalls
        /\ settledTokens + Tokens[flight.action] <= BudgetTokens
    BY <1>1, <1>4 DEF BudgetInv
  <2>5. \A now, start, began, before, done, cost, b \in Nat :
          /\ began - start = before + done
          /\ now - began <= cost /\ done + cost <= b
          => (now - start) - before <= b
    OBVIOUS
  <2> QED
    BY <1>1, <2>1, <2>2, <2>3, <2>4, <2>5
<1> QED
  BY <1>2, <1>3, <1>4

-----------------------------------------------------------------------------
(* Results *)

\* The run keeps its types: the counters of a query, its rounds and its rows
\* stay in range through every failure (pipeline.py:3704-3762).
THEOREM RunTypeCorrect == RunSpec => []RunTypeOK
<1>1. RunInv => RunTypeOK
  BY DEF RunInv
<1> QED
  BY <1>1, RunInductive, PTL

\* However an action ends, its hold is closed and no other is open
\* (pipeline.py:2152-2160, 2458-2503).
THEOREM EveryHoldIsClosed == RunSpec => []HoldsAreClosed
<1>1. RunInv => HoldsAreClosed
  BY DEF RunInv, HoldInv
<1> QED
  BY <1>1, RunInductive, PTL

\* Between two actions the ledger of a query and the counters of the runtimes
\* agree on every call and token (pipeline.py:2360-2399, 2969-3046).
THEOREM LedgerIsTrue == RunSpec => []LedgerMatchesMeters
<1>1. RunInv => LedgerMatchesMeters
  BY DEF RunInv, MeterInv
<1> QED
  BY <1>1, RunInductive, PTL

\* What a query really spends stays under its ceiling, or under what its
\* acquisition spent, unless an action overruns its hold
\* (budget_accounting.py:299-312, pipeline.py:2493-2503).
THEOREM SpendIsCapped == RunSpec => []SpendStaysUnderCap
<1>1. RunInv => SpendStaysUnderCap
  BY SpendFits
<1> QED
  BY <1>1, RunInductive, PTL

\* No row is collected over an open hold or an unaccounted call
\* (pipeline.py:2458-2503, 3734-3759).
THEOREM RowsAreAccountedFor == RunSpec => EveryRowIsAccountedFor
<1>1. RunInv /\ [RunNext]_runVars => [RowIsAccountedFor]_runVars
  BY RowStep
<1> QED
  BY <1>1, RunInductive, PTL DEF RunSpec, EveryRowIsAccountedFor

\* Whatever the V3 loop runs stays within the budget of the contract, although
\* the loop asks the snapshot what is left and the ledger has another ceiling
\* (pipeline.py:2629-2638, 2741-2776, 2893-2900).
THEOREM V3StaysInBudget == RunSpec => []V3SpendStaysInBudget
<1>1. RunSpec => []BudgetInv
  BY RunInitBudget, RunNextBudget, RunInductive, PTL DEF RunSpec
<1>2. RunInv /\ BudgetInv => V3SpendStaysInBudget
  BY BudgetFits
<1> QED
  BY <1>1, <1>2, RunInductive, PTL
=============================================================================
