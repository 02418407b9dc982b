---------------------------- MODULE BudgetLedger ----------------------------
(***************************************************************************)
(* control/budget_accounting.py, class BudgetLedger: the call and token    *)
(* ledger of one query.  An action of the planner reserves its whole       *)
(* conservative cost before it runs; the hold is later settled against     *)
(* what really ran or cancelled.  Capacity is one hard ceiling, two class  *)
(* caps, and protected pools (a verification floor and the special floors  *)
(* that Table 6 declares, at most two for a relation) that other actions   *)
(* must leave alone.                                                       *)
(***************************************************************************)
EXTENDS Integers, Sequences, FiniteSets

CONSTANTS
  Actions,            \* identities of the descriptors that may be supplied
  Class,              \* Class[a]: the spend class of action a
  Purpose,            \* Purpose[a]: a special purpose, "none" or "undeclared"
  Calls, Tokens,      \* the conservative cost of action a
  Bounded,            \* the actions that declare a safe upper bound
  HardCalls, HardTokens,
  ClassCap,           \* discovery_cap and verification_cap
  VerificationReserve,
  SpecialReserve,     \* SpecialReserve[p]: protected calls of purpose p
  MaxPrior,           \* bound on the spend that precedes the ledger
  MaxReservations     \* bound on the reservations of one behaviour

Classes == {"DISCOVERY", "VERIFICATION"}

\* The two purposes Table 6 may declare for a relation.
Special == {"special1", "special2"}

ASSUME DescriptorAssumption ==
  /\ Class \in [Actions -> Classes]
  /\ Purpose \in [Actions -> Special \cup {"none", "undeclared"}]
  /\ Calls \in [Actions -> Nat]
  /\ Tokens \in [Actions -> Nat]
  /\ Bounded \subseteq Actions

\* RelationBudgetCalibration.__post_init__
ASSUME CalibrationAssumption ==
  /\ HardCalls \in Nat /\ HardTokens \in Nat
  /\ ClassCap \in [Classes -> 0..HardCalls]
  /\ VerificationReserve \in 0..ClassCap["VERIFICATION"]
  /\ SpecialReserve \in [Special -> Nat]
  /\ VerificationReserve + SpecialReserve["special1"]
       + SpecialReserve["special2"] <= HardCalls

ASSUME BoundAssumption == MaxPrior \in Nat /\ MaxReservations \in Nat

VARIABLES
  prior,            \* [calls, tokens] spent before the ledger was opened
  reservations,     \* in sequence order; see Reservation
  reservedCalls, reservedTokens,
  settledCalls, settledTokens,
  classCommitted, purposeCommitted,
  answer            \* what the last call of the ledger returned

counters == <<reservedCalls, reservedTokens, settledCalls, settledTokens,
              classCommitted, purposeCommitted>>
vars == <<prior, reservations, counters, answer>>

\* calls and tokens are what the settlement measured, 0 until then.
Reservation ==
  [action : Actions, status : {"OUTSTANDING", "SETTLED", "CANCELLED"},
   calls : Nat, tokens : Nat]

DenialReasons ==
  {"UNDECLARED_PURPOSE", "UNKNOWN_COST", "HARD_CAP", "TOKEN_CAP",
   "CLASS_CAP", "PROTECTED_RESERVE"}

-----------------------------------------------------------------------------
(* Capacity *)

PosPart(n) == IF n > 0 THEN n ELSE 0
Least(m, n) == IF m < n THEN m ELSE n

\* Fault: what is held but not yet settled is forgotten.
committedCallsFault == prior.calls + settledCalls

\* Fault: what the acquisition spent is forgotten.
committedCallsLedgerOnly == reservedCalls + settledCalls

committedCalls == prior.calls + reservedCalls + settledCalls
committedTokens == prior.tokens + reservedTokens + settledTokens

\* The part of each protected pool that is still unspent.
VerificationFloor == PosPart(VerificationReserve - classCommitted["VERIFICATION"])
SpecialFloor(p) == PosPart(SpecialReserve[p] - purposeCommitted[p])

\* Fault: the verification floor is offered to every untagged action.
OwnPoolAvailableFault(a) ==
  IF Purpose[a] \in Special THEN SpecialFloor(Purpose[a]) ELSE VerificationFloor

OwnPoolAvailable(a) ==
  IF Purpose[a] \in Special THEN SpecialFloor(Purpose[a])
  ELSE IF Class[a] = "VERIFICATION" THEN VerificationFloor
  ELSE 0

ForeignProtected(a) ==
  LET Guarded(p) == IF Purpose[a] = p THEN 0 ELSE SpecialFloor(p)
  IN  (IF Purpose[a] \notin Special /\ Class[a] = "VERIFICATION"
       THEN 0 ELSE VerificationFloor)
        + Guarded("special1") + Guarded("special2")

availableCalls(a) ==
  LET hardLeft == PosPart(HardCalls - committedCalls)
  IN  Least(hardLeft,
            PosPart(hardLeft - ForeignProtected(a)) + OwnPoolAvailable(a))

-----------------------------------------------------------------------------
(* Reservation *)

OverHardCap(a) == committedCalls + Calls[a] > HardCalls
\* Fault: the spend before the ledger is left out of the token ceiling.
OverTokenCapFault(a) == reservedTokens + settledTokens + Tokens[a] > HardTokens
OverTokenCap(a) == committedTokens + Tokens[a] > HardTokens
OverClassCap(a) == classCommitted[Class[a]] + Calls[a] > ClassCap[Class[a]]
OverAvailable(a) == Calls[a] > availableCalls(a)

\* The first check that refuses a, in the order of the code; "" when none does.
Refusal(a) ==
  IF Purpose[a] = "undeclared" THEN "UNDECLARED_PURPOSE"
  ELSE IF a \notin Bounded THEN "UNKNOWN_COST"
  ELSE IF OverHardCap(a) THEN "HARD_CAP"
  ELSE IF OverTokenCap(a) THEN "TOKEN_CAP"
  ELSE IF OverClassCap(a) THEN "CLASS_CAP"
  ELSE IF OverAvailable(a) THEN "PROTECTED_RESERVE"
  ELSE ""

\* Adds n calls (or removes -n) to a's class and, when a is tagged, purpose.
Commit(a, n) ==
  /\ classCommitted' = [classCommitted EXCEPT ![Class[a]] = @ + n]
  /\ purposeCommitted' = [p \in Special |->
       purposeCommitted[p] + (IF Purpose[a] = p THEN n ELSE 0)]

Deny(a) ==
  /\ Refusal(a) # ""
  /\ answer' = Refusal(a)
  /\ UNCHANGED <<prior, reservations, counters>>

Reserve(a) ==
  /\ Refusal(a) = ""
  /\ Len(reservations) < MaxReservations
  /\ reservations' = Append(reservations,
       [action |-> a, status |-> "OUTSTANDING", calls |-> 0, tokens |-> 0])
  /\ reservedCalls' = reservedCalls + Calls[a]
  /\ reservedTokens' = reservedTokens + Tokens[a]
  /\ Commit(a, Calls[a])
  /\ answer' = "HELD"
  /\ UNCHANGED <<prior, settledCalls, settledTokens>>

-----------------------------------------------------------------------------
(* Settlement.  settle() and cancel() raise unless the hold is outstanding,
   and settle() raises when more was spent than was held. *)

Outstanding == {i \in DOMAIN reservations : reservations[i].status = "OUTSTANDING"}

ReleaseHold(a) ==
  /\ reservedCalls' = reservedCalls - Calls[a]
  /\ reservedTokens' = reservedTokens - Tokens[a]

\* Fault: the class and the purpose give the whole hold back.
SettleFault(i, actual, tokens) ==
  LET a == reservations[i].action
  IN  /\ i \in Outstanding
      /\ actual <= Calls[a] /\ tokens <= Tokens[a]
      /\ ReleaseHold(a)
      /\ settledCalls' = settledCalls + actual
      /\ settledTokens' = settledTokens + tokens
      /\ Commit(a, -Calls[a])
      /\ reservations' = [reservations EXCEPT ![i] =
           [action |-> a, status |-> "SETTLED", calls |-> actual, tokens |-> tokens]]
      /\ answer' = "CLOSED"
      /\ UNCHANGED prior

Settle(i, actual, tokens) ==
  LET a == reservations[i].action
  IN  /\ i \in Outstanding
      /\ actual <= Calls[a] /\ tokens <= Tokens[a]
      /\ ReleaseHold(a)
      /\ settledCalls' = settledCalls + actual
      /\ settledTokens' = settledTokens + tokens
      /\ Commit(a, actual - Calls[a])
      /\ reservations' = [reservations EXCEPT ![i] =
           [action |-> a, status |-> "SETTLED", calls |-> actual, tokens |-> tokens]]
      /\ answer' = "CLOSED"
      /\ UNCHANGED prior

\* Fault: a hold that is already closed is released once more.
CancelFault(i) ==
  LET a == reservations[i].action
  IN  /\ ReleaseHold(a)
      /\ Commit(a, -Calls[a])
      /\ reservations' = [reservations EXCEPT ![i].status = "CANCELLED"]
      /\ answer' = "CLOSED"
      /\ UNCHANGED <<prior, settledCalls, settledTokens>>

Cancel(i) ==
  LET a == reservations[i].action
  IN  /\ i \in Outstanding
      /\ ReleaseHold(a)
      /\ Commit(a, -Calls[a])
      /\ reservations' = [reservations EXCEPT ![i].status = "CANCELLED"]
      /\ answer' = "CLOSED"
      /\ UNCHANGED <<prior, settledCalls, settledTokens>>

-----------------------------------------------------------------------------

\* BudgetLedger.__init__, but for what was spent before.
NewLedger ==
  /\ reservations = <<>>
  /\ reservedCalls = 0 /\ reservedTokens = 0
  /\ settledCalls = 0 /\ settledTokens = 0
  /\ classCommitted = [c \in Classes |-> 0]
  /\ purposeCommitted = [p \in Special |-> 0]
  /\ answer = "CLOSED"

\* The acquisition phase is not bounded by the ledger: prior may already be
\* beyond the ceiling.
LedgerInit ==
  /\ prior \in [calls : 0..MaxPrior, tokens : 0..MaxPrior]
  /\ NewLedger

LedgerNext ==
  \/ \E a \in Actions : Deny(a) \/ Reserve(a)
  \/ \E i \in DOMAIN reservations :
       \/ Cancel(i)
       \/ \E actual \in 0..Calls[reservations[i].action],
             tokens \in 0..Tokens[reservations[i].action] :
            Settle(i, actual, tokens)

LedgerSpec == LedgerInit /\ [][LedgerNext]_vars

-----------------------------------------------------------------------------
(* Properties *)

\* Every variable of the ledger keeps its type; in particular no counter of
\* BudgetLedger ever goes below zero.
TypeOK ==
  /\ prior \in [calls : Nat, tokens : Nat]
  /\ reservations \in Seq(Reservation)
  /\ reservedCalls \in Nat /\ reservedTokens \in Nat
  /\ settledCalls \in Nat /\ settledTokens \in Nat
  /\ classCommitted \in [Classes -> Nat]
  /\ purposeCommitted \in [Special -> Nat]
  /\ answer \in DenialReasons \cup {"HELD", "CLOSED"}

\* What each reservation accounts for: its hold, then what was measured.
callCharge == [i \in DOMAIN reservations |->
  IF reservations[i].status = "OUTSTANDING"
  THEN Calls[reservations[i].action] ELSE reservations[i].calls]
tokenCharge == [i \in DOMAIN reservations |->
  IF reservations[i].status = "OUTSTANDING"
  THEN Tokens[reservations[i].action] ELSE reservations[i].tokens]

\* One element for every unit that the reservations of I account for.
Units(I, charge) == UNION {{i} \X (1..charge[i]) : i \in I}
Total(I, charge) == Cardinality(Units(I, charge))

Closed == DOMAIN reservations \ Outstanding
OfClass(c) == {i \in DOMAIN reservations : Class[reservations[i].action] = c}
OfPurpose(p) == {i \in DOMAIN reservations : Purpose[reservations[i].action] = p}

\* The incremental counters of BudgetLedger agree with the reservations they
\* summarise, unit by unit: nothing is charged twice, released twice or leaked
\* by any order of reserve, settle and cancel.
LedgerBalances ==
  /\ reservedCalls = Total(Outstanding, callCharge)
  /\ reservedTokens = Total(Outstanding, tokenCharge)
  /\ settledCalls = Total(Closed, callCharge)
  /\ settledTokens = Total(Closed, tokenCharge)
  /\ \A c \in Classes : classCommitted[c] = Total(OfClass(c), callCharge)
  /\ \A p \in Special : purposeCommitted[p] = Total(OfPurpose(p), callCharge)

\* "No action may exceed the hard cap": whatever was held, released and held
\* again, the commitments of a query stay under the ceiling, or stay what the
\* acquisition phase had already spent when that was beyond it.
EnvelopeHolds ==
  /\ committedCalls <= IF prior.calls > HardCalls THEN prior.calls ELSE HardCalls
  /\ committedTokens <= IF prior.tokens > HardTokens THEN prior.tokens ELSE HardTokens
  /\ \A c \in Classes : classCommitted[c] <= ClassCap[c]

HardLeft == PosPart(HardCalls - committedCalls)

\* The calibration declares one protected pool, as every TRAIN-calibrated
\* relation that has a floor does.
SolePool(size) == VerificationReserve + SpecialReserve["special1"]
                    + SpecialReserve["special2"] = size

\* What is left to protect of a pool once the acquisition phase and the pool's
\* own actions have spent.
Owed(size, used) ==
  PosPart(Least(size, PosPart(HardCalls - prior.calls)) - used)

\* A sole protected pool is never eaten into by other actions, whatever they
\* hold, release and refund: the calls it still owes are really left.
SoleFloorHolds ==
  /\ SolePool(VerificationReserve) =>
       HardLeft >= Owed(VerificationReserve, classCommitted["VERIFICATION"])
  /\ \A p \in Special : SolePool(SpecialReserve[p]) =>
       HardLeft >= Owed(SpecialReserve[p], purposeCommitted[p])

Envelope == INSTANCE CallEnvelope WITH
  Tickets <- 1..MaxReservations,
  Ceiling <- HardCalls,
  spent <- prior.calls + Total(Closed, callCharge),
  open <- [i \in Outstanding |-> Calls[reservations[i].action]]

\* The ledger implements the envelope: a reservation opens a ticket, a
\* settlement or a cancellation closes it, a denial changes nothing.
ImplementsEnvelope == Envelope!Spec
=============================================================================
