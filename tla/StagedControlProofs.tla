------------------------- MODULE StagedControlProofs -------------------------
(***************************************************************************)
(* Proofs about StagedControl for every set of actions, every cost, every  *)
(* budget and both execution modes.  What has to be found out is where a   *)
(* stored action may be: on the graph only between two phases, in the hand *)
(* of one phase only while that phase can still run it, and nowhere at all *)
(* in interleaved mode.                                                    *)
(***************************************************************************)
EXTENDS StagedControl, TLAPS

\* Where a stored action is, and why it is neither run twice nor dropped.
PendedInv ==
  /\ at \in Loops \cup {"new"} => pending = None
  /\ at \notin Loops => inHand = None
  /\ ~staged => pending = None /\ inHand = None
  /\ pending # None =>
       /\ snapshot # None /\ ~Exhausted(snapshot)
       /\ ~verified => Role[pending] = "verifier"
  /\ inHand # None => ~Exhausted(live) /\ steps < MaxSteps
  /\ at \in {"new", "enumerate"} => ~verified
  /\ at = "resume" => verified

\* What ran is known to the controller, and what is stored did not run.
OnceInv ==
  \A a \in Actions \ Repeatable :
    /\ runs[a] <= 1
    /\ a \notin executed => runs[a] = 0
    /\ pending = a \/ inHand = a => a \notin executed

\* Each figure accounts for every call but the gate's uncharged ones.
FigureInv ==
  /\ at = "new" =>
       spent = 0 /\ gate = "unscored" /\ live = NoSpend /\ snapshot = None
  /\ at \in Loops => live.calls + OffBudget = spent
  /\ at = "verify" => live.calls >= Carried.calls
  /\ at \in {"stored", "decided"} =>
       IF snapshot = None THEN gate = "negative" /\ ~staged
       ELSE snapshot.calls + OffBudget = spent
  /\ at # "new" /\ gated /\ ~staged => gate # "unscored"
  /\ row # None => at = "decided" /\ row = Carried.calls

StagedInv ==
  /\ StagedTypeOK /\ PendedInv /\ OnceInv /\ FigureInv
  /\ InterleavedCeiling /\ OverrunIsOneAction

LEMMA StagedInitInv == StagedInit => StagedInv
<1> SUFFICES ASSUME StagedInit
             PROVE  StagedInv
  OBVIOUS
<1> USE StagedAssumption DEF StagedInit
<1>1. StagedTypeOK
  <2>1. live \in Figure /\ steps \in 0..MaxSteps /\ runs \in [Actions -> Nat]
    BY DEF Figure, NoSpend
  <2>2. /\ staged \in BOOLEAN /\ gated \in BOOLEAN /\ cold \in BOOLEAN
        /\ verified \in BOOLEAN
    OBVIOUS
  <2> QED
    BY <2>1, <2>2 DEF StagedTypeOK, Places
<1>2. PendedInv
  BY DEF PendedInv, Loops
<1>3. OnceInv
  BY DEF OnceInv
<1>4. FigureInv
  BY DEF FigureInv, Loops, NoSpend
<1>5. InterleavedCeiling
  BY DEF InterleavedCeiling, OffBudget
<1>6. OverrunIsOneAction
  BY DEF OverrunIsOneAction, OffBudget
<1> QED
  BY <1>1, <1>2, <1>3, <1>4, <1>5, <1>6 DEF StagedInv

\* What a later phase is charged with is a figure.
LEMMA CarriedType == StagedTypeOK => Carried \in Figure
  BY DEF StagedTypeOK, Carried, Figure, NoSpend

-----------------------------------------------------------------------------
(* An action runs *)

\* Nothing starts on an exhausted budget, so what goes beyond the ceiling is
\* the action itself; a chosen one was found to fit.
LEMMA PerformInv ==
  ASSUME StagedInv, at \in Loops, ~Exhausted(live), steps < MaxSteps,
         NEW a \in Actions, NEW used \in 0..Cost[a], NEW tokens \in 0..1,
         Perform(a, used, tokens), inHand' = None,
         a \notin Repeatable => a \notin executed,
         ~staged => used <= CallsLeft(live)
  PROVE  StagedInv'
<1>1. Cost[a] \in Nat /\ used \in Nat /\ MaxCalls \in Nat /\ MaxSteps \in Nat
  BY StagedAssumption
<1>2. /\ live \in Figure /\ live.calls \in Nat /\ live.tokens \in Nat
      /\ spent \in Nat /\ steps \in Nat /\ verificationCalls \in Nat
  BY <1>1 DEF StagedInv, StagedTypeOK, Figure
<1>3. live.calls < MaxCalls
  BY <1>1, <1>2 DEF Exhausted
<1>4. /\ live' = [calls |-> live.calls + used, tokens |-> live.tokens + tokens]
      /\ spent' = spent + used /\ steps' = steps + 1
      /\ executed' = executed \cup {a}
      /\ runs' = [runs EXCEPT ![a] = @ + 1]
      /\ UNCHANGED <<staged, gated, cold, at, verified, gate, snapshot, row, pending>>
  BY DEF Perform, config
<1>5. verificationCalls' \in Nat
  <2>1. \A n \in 0..(IF a \in Verifies THEN used ELSE 0) : verificationCalls + n \in Nat
    BY <1>1, <1>2
  <2> QED
    BY <2>1 DEF Perform
<1>6. pending = None
  BY DEF StagedInv, PendedInv
<1>7. OffBudget' = OffBudget /\ OffBudget \in Nat
  BY <1>4 DEF OffBudget
<1>8. StagedTypeOK'
  <2>1. live' \in Figure
    BY <1>1, <1>2, <1>4 DEF Figure
  <2>2. runs' \in [Actions -> Nat]
    BY <1>4 DEF StagedInv, StagedTypeOK
  <2>3. steps' \in 0..MaxSteps /\ spent' \in Nat
    BY <1>1, <1>2, <1>4
  <2> QED
    BY <1>4, <1>5, <2>1, <2>2, <2>3 DEF StagedInv, StagedTypeOK
<1>9. PendedInv'
  BY <1>4, <1>6 DEF StagedInv, PendedInv
<1>10. OnceInv'
  <2> SUFFICES ASSUME NEW b \in Actions \ Repeatable
               PROVE  /\ runs'[b] <= 1
                      /\ b \notin executed' => runs'[b] = 0
                      /\ pending' = b \/ inHand' = b => b \notin executed'
    BY DEF OnceInv
  <2>1. runs[b] \in Nat /\ runs[b] <= 1 /\ (b \notin executed => runs[b] = 0)
    BY DEF StagedInv, StagedTypeOK, OnceInv
  <2>2. runs'[b] = IF b = a THEN runs[b] + 1 ELSE runs[b]
    BY <1>4 DEF StagedInv, StagedTypeOK
  <2>3. b # None
    BY StagedAssumption
  <2> QED
    BY <1>4, <1>6, <2>1, <2>2, <2>3
<1>11. FigureInv'
  <2>1. live'.calls = live.calls + used
    BY <1>4
  <2>2. live.calls + OffBudget = spent
    BY DEF StagedInv, FigureInv
  <2> DEFINE charged == live'.calls
  <2>3. charged + OffBudget' = spent'
    <3>1. charged = live.calls + used
      BY <2>1
    <3> HIDE DEF charged
    <3> QED
      BY <1>1, <1>2, <1>4, <1>7, <2>2, <3>1
  <2>4. row = None
    BY DEF StagedInv, FigureInv, Loops
  <2>5. at = "verify" => live'.calls >= Carried'.calls
    <3>1. Carried' = Carried /\ Carried.calls \in Nat
      BY <1>4, CarriedType DEF StagedInv, Carried, Figure
    <3>2. at = "verify" => live.calls >= Carried.calls
      BY DEF StagedInv, FigureInv
    <3>3. \A x, y, z \in Nat : x >= y => x + z >= y
      OBVIOUS
    <3> QED
      BY <1>1, <1>2, <2>1, <3>1, <3>2, <3>3
  <2> QED
    BY <1>4, <2>3, <2>4, <2>5 DEF StagedInv, FigureInv, Loops
<1>12. InterleavedCeiling'
  <2>1. live.calls + OffBudget = spent
    BY DEF StagedInv, FigureInv
  <2>2. CallsLeft(live) = MaxCalls - live.calls
    BY <1>3 DEF CallsLeft
  <2>3. used <= MaxCalls - live.calls => spent + used <= MaxCalls + OffBudget
    BY <1>1, <1>2, <1>7, <2>1
  <2> QED
    BY <1>4, <1>7, <2>2, <2>3 DEF InterleavedCeiling
<1>13. OverrunIsOneAction'
  <2>1. live.calls + OffBudget = spent
    BY DEF StagedInv, FigureInv
  <2>2. spent' < MaxCalls + OffBudget' + Cost[a]
    BY <1>1, <1>2, <1>3, <1>4, <1>7, <2>1
  <2> QED
    BY <1>4, <2>2 DEF OverrunIsOneAction
<1> QED
  BY <1>8, <1>9, <1>10, <1>11, <1>12, <1>13 DEF StagedInv

LEMMA ExecuteChosenInv ==
  ASSUME StagedInv, NEW a \in Actions, ExecuteChosen(a)
  PROVE  StagedInv'
<1>1. PICK planned \in 1..Cost[a] :
        /\ planned <= CallsLeft(live)
        /\ \E used \in Fewest(a)..planned, tokens \in 0..1 : Perform(a, used, tokens)
  BY DEF ExecuteChosen
<1>2. PICK used \in Fewest(a)..planned, tokens \in 0..1 : Perform(a, used, tokens)
  BY <1>1
<1>3. /\ Cost[a] \in Nat /\ Fewest(a) \in Nat
      /\ CallsLeft(live) \in Nat
  BY StagedAssumption DEF Fewest, CallsLeft, StagedInv, StagedTypeOK, Figure
<1>4. used \in 0..Cost[a] /\ used <= CallsLeft(live)
  BY <1>1, <1>2, <1>3
<1>5. /\ at \in Loops /\ ~Exhausted(live) /\ steps < MaxSteps /\ inHand = None
      /\ a \notin Repeatable => a \notin executed
  BY DEF ExecuteChosen, Chosen, Choosing
<1>6. inHand' = None
  BY <1>5 DEF ExecuteChosen
<1> QED
  BY <1>2, <1>4, <1>5, <1>6, PerformInv

LEMMA ExecutePendingInv ==
  ASSUME StagedInv, ExecutePending
  PROVE  StagedInv'
<1> DEFINE a == inHand
<1>1. /\ at \in Loops /\ ~Exhausted(live) /\ steps < MaxSteps
      /\ a # None /\ inHand' = None
  BY DEF ExecutePending
<1>2. a \in Actions /\ (a \notin Repeatable => a \notin executed) /\ staged
  BY <1>1 DEF StagedInv, StagedTypeOK, OnceInv, PendedInv
<1>3. PICK used \in Fewest(a)..Cost[a], tokens \in 0..1 : Perform(a, used, tokens)
  BY DEF ExecutePending
<1>4. used \in 0..Cost[a]
  <2>1. Cost[a] \in Nat /\ Fewest(a) \in Nat
    BY <1>2, StagedAssumption DEF Fewest
  <2> QED
    BY <2>1, <1>3
<1> QED
  <2> HIDE DEF a
  <2> QED
    BY <1>1, <1>2, <1>3, <1>4, PerformInv

-----------------------------------------------------------------------------
(* A phase ends *)

\* What the phase knows is what the graph is left with; an action it may store
\* then is one that a later phase can take.
LEMMA LeaveInv ==
  ASSUME StagedInv, at \in Loops, Leave,
         \/ pending' = None
         \/ /\ pending' \in Actions /\ staged /\ ~Exhausted(live)
            /\ at = "enumerate" => Role[pending'] = "verifier"
            /\ pending' \notin Repeatable => pending' \notin executed
  PROVE  StagedInv'
<1>1. /\ at' = "stored" /\ inHand' = None /\ snapshot' = live
      /\ verified' = (verified \/ at = "verify")
      /\ UNCHANGED <<staged, gated, cold, live, steps, gate, executed, row, spent, runs>>
  BY DEF Leave, config, ghosts
<1>2. /\ live \in Figure /\ live.calls \in Nat /\ spent \in Nat
      /\ Carried.calls \in Nat /\ verificationCalls \in Nat
  BY CarriedType DEF StagedInv, StagedTypeOK, Figure
<1>3. live # None
  BY <1>2, StagedAssumption DEF Figure
<1>4. verificationCalls' \in Nat
  <2>1. at = "verify" => live.calls >= Carried.calls
    BY DEF StagedInv, FigureInv
  <2>2. verificationCalls' = verificationCalls
          + (IF at = "verify" THEN live.calls - Carried.calls ELSE 0)
    BY DEF Leave
  <2> QED
    BY <1>2, <2>1, <2>2
<1>5. StagedTypeOK'
  <2>1. pending' \in Actions \cup {None}
    OBVIOUS
  <2>2. verified' \in BOOLEAN
    BY <1>1 DEF StagedInv, StagedTypeOK
  <2>3. /\ staged' \in BOOLEAN /\ gated' \in BOOLEAN /\ cold' \in BOOLEAN
        /\ snapshot' \in Figure \cup {None} /\ at' \in Places
    BY <1>1, <1>2 DEF StagedInv, StagedTypeOK, Places
  <2> QED
    BY <1>1, <1>2, <1>4, <2>1, <2>2, <2>3 DEF StagedInv, StagedTypeOK
<1>6. PendedInv'
  <2>1. ~verified' => at = "enumerate"
    BY <1>1 DEF StagedInv, PendedInv, Loops
  <2>2. ~staged => pending' = None
    <3>1. ~staged \/ staged
      BY DEF StagedInv, StagedTypeOK
    <3> QED
      BY <3>1
  <2>3. pending' # None => ~Exhausted(snapshot') /\ snapshot' # None
    BY <1>1, <1>3
  <2>4. pending' # None /\ ~verified' => Role'[pending'] = "verifier"
    BY <2>1
  <2> QED
    BY <1>1, <2>2, <2>3, <2>4 DEF PendedInv, Loops, Exhausted
<1>7. OnceInv'
  <2> SUFFICES ASSUME NEW b \in Actions \ Repeatable
               PROVE  /\ runs'[b] <= 1
                      /\ b \notin executed' => runs'[b] = 0
                      /\ pending' = b \/ inHand' = b => b \notin executed'
    BY DEF OnceInv
  <2>1. runs[b] <= 1 /\ (b \notin executed => runs[b] = 0) /\ b # None
    BY StagedAssumption DEF StagedInv, OnceInv
  <2> QED
    BY <1>1, <2>1
<1>8. FigureInv'
  <2>1. OffBudget' = OffBudget
    BY <1>1 DEF OffBudget
  <2>2. live.calls + OffBudget = spent /\ row = None
    BY DEF StagedInv, FigureInv, Loops
  <2>3. snapshot'.calls + OffBudget' = spent'
    BY <1>1, <2>1, <2>2
  <2>4. gated /\ ~staged => gate # "unscored"
    BY DEF StagedInv, FigureInv, Loops
  <2> QED
    BY <1>1, <1>3, <2>2, <2>3, <2>4 DEF FigureInv, Loops
<1>9. InterleavedCeiling'
  BY <1>1 DEF StagedInv, InterleavedCeiling, OffBudget
<1>10. OverrunIsOneAction'
  BY <1>1 DEF StagedInv, OverrunIsOneAction, OffBudget
<1> QED
  BY <1>5, <1>6, <1>7, <1>8, <1>9, <1>10 DEF StagedInv

LEMMA PendInv ==
  ASSUME StagedInv, NEW a \in Actions, Pend(a)
  PROVE  StagedInv'
<1>1. /\ at \in Loops /\ ~Exhausted(live) /\ Leave /\ pending' = a
      /\ a \notin Repeatable => a \notin executed
  BY DEF Pend, Chosen, Choosing
<1>2. Role[a] \in Roles /\ Role[a] \notin Resident(at)
  BY StagedAssumption DEF Pend
<1>3. staged
  BY <1>2 DEF Resident
<1>4. at = "enumerate" => Role[a] = "verifier"
  BY <1>2, <1>3 DEF Resident, Roles
<1> QED
  BY <1>1, <1>3, <1>4, LeaveInv

LEMMA EndInv ==
  ASSUME StagedInv, BreakOff \/ Stop \/ \E a \in Actions : TooDear(a)
  PROVE  StagedInv'
<1>1. at \in Loops /\ Leave /\ pending' = pending
  BY DEF BreakOff, Stop, TooDear, Chosen, Choosing
<1>2. pending = None
  BY <1>1 DEF StagedInv, PendedInv
<1> QED
  BY <1>1, <1>2, LeaveInv

-----------------------------------------------------------------------------
(* A phase begins *)

LEMMA EnumerateInv ==
  ASSUME StagedInv, Enumerate
  PROVE  StagedInv'
<1> USE StagedAssumption
<1>1. /\ at = "new" /\ spent = 0 /\ gate = "unscored" /\ ~verified
      /\ pending = None /\ inHand = None /\ snapshot = snapshot' /\ row = None
  BY DEF Enumerate, StagedInv, FigureInv, PendedInv, Loops
<1>2. /\ steps' = 0
      /\ UNCHANGED <<staged, gated, cold, verified, inHand, snapshot, pending, executed,
                     verificationCalls, row, runs>>
      /\ at' = IF gate' = "negative" THEN "stored" ELSE "enumerate"
  BY DEF Enumerate, config
<1>3. CASE gated /\ ~staged
  <2>1. /\ gate' \in {"open", "negative"} /\ spent' = IF cold THEN 2 ELSE 1
        /\ live' = [calls |-> 1, tokens |-> 0]
    BY <1>1, <1>3 DEF Enumerate, NoSpend, GateCalls
  <2>2. OffBudget' = IF cold THEN 1 ELSE 0
    BY <1>2, <1>3, <2>1 DEF OffBudget
  <2>3. StagedTypeOK'
    BY <1>1, <1>2, <2>1 DEF StagedInv, StagedTypeOK, Figure, Places, Loops
  <2>4. PendedInv'
    BY <1>1, <1>2 DEF PendedInv, Loops
  <2>5. OnceInv'
    BY <1>2 DEF StagedInv, OnceInv
  <2>6. snapshot = None
    BY <1>1 DEF StagedInv, FigureInv
  <2>7. FigureInv'
    BY <1>1, <1>2, <1>3, <2>1, <2>2, <2>6 DEF FigureInv, Loops
  <2>8. InterleavedCeiling' /\ OverrunIsOneAction'
    BY <1>2, <2>1, <2>2 DEF InterleavedCeiling, OverrunIsOneAction
  <2> QED
    BY <2>3, <2>4, <2>5, <2>7, <2>8 DEF StagedInv
<1>4. CASE ~(gated /\ ~staged)
  <2>1. gate' = gate /\ live' = live /\ spent' = spent /\ at' = "enumerate"
    BY <1>1, <1>2, <1>4 DEF Enumerate
  <2>2. OffBudget' = 0
    BY <1>1, <2>1 DEF OffBudget
  <2>3. StagedTypeOK'
    BY <1>2, <2>1 DEF StagedInv, StagedTypeOK, Places, Loops
  <2>4. PendedInv'
    BY <1>1, <1>2, <2>1 DEF PendedInv, Loops
  <2>5. OnceInv'
    BY <1>2 DEF StagedInv, OnceInv
  <2>6. live.calls = 0
    BY <1>1 DEF StagedInv, FigureInv, NoSpend
  <2>7. FigureInv'
    BY <1>1, <1>2, <1>4, <2>1, <2>2, <2>6 DEF FigureInv, Loops
  <2>8. InterleavedCeiling' /\ OverrunIsOneAction'
    BY <1>1, <1>2, <2>1, <2>2 DEF InterleavedCeiling, OverrunIsOneAction
  <2> QED
    BY <2>3, <2>4, <2>5, <2>7, <2>8 DEF StagedInv
<1> QED
  BY <1>3, <1>4

\* Whatever a phase starts with, it starts on all that was spent in the budget,
\* and with the stored action in its hand.
LEMMA StartLoopInv ==
  ASSUME StagedInv, at = "stored", snapshot # None,
         NEW loop \in {"verify", "resume"}, StartLoop(loop),
         loop = "resume" => verified,
         pending # None => Role[pending] \in Resident(loop),
         UNCHANGED <<staged, gated, cold, verified, snapshot, executed, row, runs>>,
         gate' \in {"unscored", "open"}, gated /\ ~staged => gate' # "unscored",
         spent' \in Nat, verificationCalls' \in Nat,
         snapshot.calls + OffBudget' = spent',
         InterleavedCeiling', OverrunIsOneAction'
  PROVE  StagedInv'
<1> USE StagedAssumption
<1>1. /\ at' = loop /\ live' = snapshot /\ steps' = 0
      /\ pending' = None /\ inHand' = pending
  <2>1. Carried = snapshot
    BY DEF Carried
  <2>2. inHand' = pending /\ pending' = None
    BY DEF StartLoop, TakePending
  <2> QED
    BY <2>1, <2>2 DEF StartLoop
<1>2. snapshot \in Figure /\ row = None /\ loop \in Loops
  BY DEF StagedInv, StagedTypeOK, FigureInv, Loops
<1>3. StagedTypeOK'
  <2>1. verified' \in BOOLEAN
    BY DEF StagedInv, StagedTypeOK
  <2> QED
    BY <1>1, <1>2, <2>1 DEF StagedInv, StagedTypeOK, Places, Loops
<1>4. PendedInv'
  <2>1. pending # None => ~Exhausted(snapshot) /\ staged
    BY DEF StagedInv, PendedInv
  <2>2. /\ inHand' # None => ~Exhausted(live') /\ steps' < MaxSteps
        /\ ~staged' => inHand' = None
    BY <1>1, <2>1
  <2> QED
    BY <1>1, <1>2, <2>2 DEF PendedInv, Exhausted, Loops
<1>5. OnceInv'
  <2>1. \A a \in Actions \ Repeatable : pending' # a
    BY <1>1
  <2> QED
    BY <1>1, <2>1 DEF StagedInv, OnceInv
<1>6. FigureInv'
  <2>1. live'.calls + OffBudget' = spent'
    BY <1>1
  <2>2. at' = "verify" => live'.calls >= Carried'.calls
    <3>1. Carried' = snapshot /\ snapshot.calls \in Nat
      BY <1>2 DEF Carried, Figure
    <3> QED
      BY <1>1, <3>1
  <2> QED
    BY <1>1, <1>2, <2>1, <2>2 DEF FigureInv, Loops
<1> QED
  BY <1>3, <1>4, <1>5, <1>6 DEF StagedInv

LEMMA EnterResumeInv ==
  ASSUME StagedInv, EnterResume
  PROVE  StagedInv'
<1>1. /\ at = "stored" /\ Waits("enumerator") /\ gate # "negative"
      /\ StartLoop("resume")
      /\ UNCHANGED <<staged, gated, cold, verified, gate, snapshot, executed,
                     verificationCalls, row, spent, runs>>
  BY DEF EnterResume, config, ghosts
<1>2. /\ staged /\ verified /\ Role[pending] = "enumerator"
      /\ snapshot # None /\ snapshot.calls + OffBudget = spent
  BY <1>1 DEF Waits, StagedInv, FigureInv
<1>3. OffBudget' = OffBudget
  BY <1>1 DEF OffBudget
<1>4. Role[pending] \in Resident("resume")
  BY <1>2 DEF Resident
<1>5. /\ gate' \in {"unscored", "open"} /\ (gated /\ ~staged => gate' # "unscored")
      /\ spent' \in Nat /\ verificationCalls' \in Nat
      /\ snapshot.calls + OffBudget' = spent'
  BY <1>1, <1>2, <1>3 DEF StagedInv, StagedTypeOK
<1>6. InterleavedCeiling' /\ OverrunIsOneAction'
  BY <1>1, <1>3 DEF StagedInv, InterleavedCeiling, OverrunIsOneAction
<1> QED
  BY <1>1, <1>2, <1>4, <1>5, <1>6, StartLoopInv

LEMMA EnterVerifyInv ==
  ASSUME StagedInv, EnterVerify
  PROVE  StagedInv'
<1> USE StagedAssumption
<1>1. /\ at = "stored" /\ (~verified \/ Waits("verifier"))
      /\ UNCHANGED <<staged, gated, cold, snapshot, executed, row, runs>>
  BY DEF EnterVerify, config
<1>2. spent \in Nat /\ verificationCalls \in Nat /\ MaxCalls \in Nat
  BY DEF StagedInv, StagedTypeOK
\* A gate that is scored now was deferred, which only staged mode does.
<1>3. /\ gate' \in {"unscored", "open", "negative"}
      /\ gated /\ ~staged => gate' # "unscored"
      /\ spent' \in Nat /\ verificationCalls' \in Nat
      /\ \E calls \in 0..2 : spent' = spent + calls /\ OffBudget' = OffBudget + calls
      /\ OffBudget \in Nat /\ OffBudget' \in Nat
      /\ ~staged => spent' = spent
      /\ gate = "negative" => gate' = "negative" /\ UNCHANGED <<gate, spent>>
  <2>1. CASE gated /\ gate = "unscored"
    <3>1. /\ gate' \in {"open", "negative"} /\ spent' = spent + GateCalls
          /\ verificationCalls' = verificationCalls + 1
      BY <2>1 DEF EnterVerify
    <3>2. staged
      BY <1>1, <2>1 DEF StagedInv, FigureInv
    <3>3. OffBudget = 0 /\ OffBudget' = GateCalls /\ GateCalls \in 0..2
      BY <1>1, <2>1, <3>1, <3>2 DEF OffBudget, GateCalls
    <3> QED
      BY <1>1, <1>2, <2>1, <3>1, <3>2, <3>3
  <2>2. CASE ~(gated /\ gate = "unscored")
    <3>1. UNCHANGED <<gate, spent, verificationCalls>>
      BY <2>2 DEF EnterVerify
    <3>2. OffBudget' = OffBudget /\ OffBudget \in Nat
      BY <1>1, <3>1 DEF OffBudget
    <3>3. gate \in {"unscored", "open", "negative"}
      BY DEF StagedInv, StagedTypeOK
    <3> QED
      BY <1>1, <1>2, <2>2, <3>1, <3>2, <3>3
  <2> QED
    BY <2>1, <2>2
<1>4. InterleavedCeiling'
  <2>1. \A x, y, b, c, n \in Nat :
          x = y + n /\ b = c + n /\ y <= MaxCalls + c => x <= MaxCalls + b
    BY <1>2
  <2> QED
    BY <1>1, <1>2, <1>3, <2>1 DEF StagedInv, InterleavedCeiling
<1>5. OverrunIsOneAction'
  <2> SUFFICES ASSUME spent' > MaxCalls + OffBudget'
               PROVE  \E a \in executed' : spent' < MaxCalls + OffBudget' + Cost[a]
    BY DEF OverrunIsOneAction
  <2>1. spent > MaxCalls + OffBudget
    <3>1. \A x, y, b, c, n \in Nat :
            /\ x = y + n /\ b = c + n
            /\ x > MaxCalls + b
            => y > MaxCalls + c
      BY <1>2
    <3> QED
      BY <1>2, <1>3, <3>1
  <2>2. PICK a \in executed : spent < MaxCalls + OffBudget + Cost[a]
    BY <2>1 DEF StagedInv, OverrunIsOneAction
  <2>3. Cost[a] \in Nat
    BY DEF StagedInv, StagedTypeOK
  <2>4. spent' < MaxCalls + OffBudget' + Cost[a]
    BY <1>2, <1>3, <2>2, <2>3
  <2> QED
    BY <1>1, <2>4
<1>6. snapshot # None => snapshot.calls + OffBudget' = spent'
  <2>1. snapshot # None => snapshot.calls + OffBudget = spent
    BY <1>1 DEF StagedInv, FigureInv
  <2>2. snapshot # None => snapshot.calls \in Nat
    BY DEF StagedInv, StagedTypeOK, Figure
  <2> QED
    BY <1>2, <1>3, <2>1, <2>2
<1>7. CASE gate' = "negative"
  <2>1. /\ verified' = TRUE
        /\ UNCHANGED <<at, live, steps, inHand, pending>>
    BY <1>7 DEF EnterVerify, phaseVars
  <2>2. StagedTypeOK'
    BY <1>1, <1>3, <2>1 DEF StagedInv, StagedTypeOK
  <2>3. PendedInv'
    <3>1. Exhausted(snapshot)' = Exhausted(snapshot)
      BY <1>1 DEF Exhausted
    <3> QED
      BY <1>1, <2>1, <3>1 DEF StagedInv, PendedInv, Loops
  <2>4. OnceInv'
    BY <1>1, <2>1 DEF StagedInv, OnceInv
  <2>5. FigureInv'
    <3>1. row = None /\ (snapshot = None => gate = "negative" /\ ~staged)
      BY <1>1 DEF StagedInv, FigureInv
    <3> QED
      BY <1>1, <1>6, <1>7, <2>1, <3>1 DEF FigureInv, Loops
  <2> QED
    BY <1>4, <1>5, <2>2, <2>3, <2>4, <2>5 DEF StagedInv
<1>8. CASE gate' # "negative"
  <2>1. StartLoop("verify") /\ UNCHANGED verified
    BY <1>8 DEF EnterVerify
  <2>2. snapshot # None
    BY <1>1, <1>3, <1>8 DEF StagedInv, FigureInv
  <2>3. pending # None => Role[pending] \in Resident("verify")
    <3>1. pending # None => staged /\ Role[pending] = "verifier"
      BY <1>1 DEF StagedInv, PendedInv, Waits
    <3> QED
      BY <3>1 DEF Resident
  <2> QED
    BY <1>1, <1>3, <1>4, <1>5, <1>6, <1>8, <2>1, <2>2, <2>3, StartLoopInv
<1> QED
  BY <1>7, <1>8

-----------------------------------------------------------------------------
(* The invariant is inductive *)

\* A row is emitted with the figure of the graph; nothing is chosen any more.
LEMMA DecideGraphInv ==
  ASSUME StagedInv, DecideGraph
  PROVE  StagedInv'
<1>1. /\ at = "stored" /\ at' = "decided" /\ pending' = None /\ row' = Carried.calls
      /\ UNCHANGED <<staged, gated, cold, verified, live, steps, inHand, gate, snapshot,
                     executed, verificationCalls, spent, runs>>
  BY DEF DecideGraph, config, phaseVars, ghosts
<1>2. StagedTypeOK'
  <2>1. row' \in Nat
    BY <1>1, CarriedType DEF StagedInv, Figure
  <2> QED
    BY <1>1, <2>1 DEF StagedInv, StagedTypeOK, Places
<1>3. PendedInv'
  BY <1>1 DEF StagedInv, PendedInv, Loops
<1>4. OnceInv'
  <2>1. \A a \in Actions \ Repeatable : pending' # a
    BY <1>1, StagedAssumption
  <2> QED
    BY <1>1, <2>1 DEF StagedInv, OnceInv
<1>5. OffBudget' = OffBudget /\ Carried' = Carried
  BY <1>1 DEF OffBudget, Carried
<1>6. FigureInv'
  BY <1>1, <1>5 DEF StagedInv, FigureInv, Loops
<1>7. InterleavedCeiling' /\ OverrunIsOneAction'
  BY <1>1, <1>5 DEF StagedInv, InterleavedCeiling, OverrunIsOneAction
<1> QED
  BY <1>2, <1>3, <1>4, <1>6, <1>7 DEF StagedInv

LEMMA StagedStutterInv ==
  ASSUME StagedInv, UNCHANGED stagedVars
  PROVE  StagedInv'
<1>1. UNCHANGED <<staged, gated, cold, at, verified, row, live, steps, inHand, gate, snapshot,
                  pending, executed, verificationCalls, spent, runs>>
  BY DEF stagedVars, config, phaseVars, graphVars, ghosts
<1>2. OffBudget' = OffBudget /\ Carried' = Carried
  BY <1>1 DEF OffBudget, Carried
<1>3. StagedTypeOK' /\ PendedInv' /\ OnceInv'
  BY <1>1 DEF StagedInv, StagedTypeOK, PendedInv, OnceInv, Exhausted
<1>4. FigureInv' /\ InterleavedCeiling' /\ OverrunIsOneAction'
  BY <1>1, <1>2 DEF StagedInv, FigureInv, InterleavedCeiling, OverrunIsOneAction
<1> QED
  BY <1>3, <1>4 DEF StagedInv

LEMMA StagedNextInv == StagedInv /\ [StagedNext]_stagedVars => StagedInv'
<1> SUFFICES ASSUME StagedInv, [StagedNext]_stagedVars
             PROVE  StagedInv'
  OBVIOUS
<1>1. CASE Enumerate
  BY <1>1, EnumerateInv
<1>2. CASE EnterVerify
  BY <1>2, EnterVerifyInv
<1>3. CASE EnterResume
  BY <1>3, EnterResumeInv
<1>4. CASE BreakOff \/ Stop \/ \E a \in Actions : TooDear(a)
  BY <1>4, EndInv
<1>5. ASSUME NEW a \in Actions, Pend(a)
      PROVE  StagedInv'
  BY <1>5, PendInv
<1>6. ASSUME NEW a \in Actions, ExecuteChosen(a)
      PROVE  StagedInv'
  BY <1>6, ExecuteChosenInv
<1>7. CASE ExecutePending
  BY <1>7, ExecutePendingInv
<1>8. CASE DecideGraph
  BY <1>8, DecideGraphInv
<1>9. CASE Decided \/ UNCHANGED stagedVars
  BY <1>9, StagedStutterInv DEF Decided
<1> QED
  BY <1>1, <1>2, <1>3, <1>4, <1>5, <1>6, <1>7, <1>8, <1>9 DEF StagedNext

LEMMA StagedInductive == StagedSpec => []StagedInv
  BY StagedInitInv, StagedNextInv, PTL DEF StagedSpec

-----------------------------------------------------------------------------
(* What a step does to a stored action *)

LEMMA PendedStep ==
  ASSUME StagedInv, StagedNext
  PROVE  StoredIsTaken /\ TakenIsRun
\* Inside a phase nothing is on the graph, and what is in the hand can still run.
<1>1. CASE at \in Loops
  <2>1. pending = None /\ (inHand # None => ~Exhausted(live) /\ steps < MaxSteps)
    BY <1>1 DEF StagedInv, PendedInv
  <2>2. StoredIsTaken
    BY <2>1 DEF StoredIsTaken
  <2>3. ASSUME inHand # None, inHand' # inHand
        PROVE  ExecutePending
    <3>1. steps < MaxSteps /\ steps # MaxSteps /\ ~Exhausted(live)
      BY <2>1, <2>3, StagedAssumption DEF StagedInv, StagedTypeOK
    <3>2. ~BreakOff /\ ~Stop /\ ~DecideGraph /\ ~Decided
      BY <1>1, <2>3, <3>1 DEF BreakOff, Stop, Choosing, DecideGraph, Decided, Loops
    <3>3. \A a \in Actions : ~Pend(a) /\ ~TooDear(a) /\ ~ExecuteChosen(a)
      BY <2>3 DEF Pend, TooDear, ExecuteChosen, Chosen, Choosing
    <3>4. ~Enumerate /\ ~EnterVerify /\ ~EnterResume
      BY <1>1 DEF Enumerate, EnterVerify, EnterResume, Loops
    <3> QED
      BY <3>2, <3>3, <3>4 DEF StagedNext
  <2>4. ASSUME inHand # None, inHand' # inHand
        PROVE  runs' = [runs EXCEPT ![inHand] = @ + 1]
    BY <2>3, <2>4 DEF ExecutePending, Perform
  <2> QED
    BY <2>2, <2>4 DEF TakenIsRun
\* Outside one nothing is in the hand, and what is on the graph is taken by the
\* phase that it waited for, or given up by decide_graph.
<1>2. CASE at \notin Loops
  <2>1. inHand = None
    BY <1>2 DEF StagedInv, PendedInv
  <2>2. TakenIsRun
    BY <2>1 DEF TakenIsRun
  <2>3. ASSUME pending # None, pending' # pending
        PROVE  \/ inHand' = pending /\ Role[pending] \in Resident(at')
               \/ at' = "decided" /\ Exhausted(Carried)
    <3>1. ASSUME NEW loop, StartLoop(loop)
          PROVE  /\ at' = loop /\ inHand' = pending
                 /\ Role[pending] \in Resident(loop)
      BY <2>3, <3>1 DEF StartLoop, TakePending
    <3>2. EnterVerify => StartLoop("verify")
      BY <2>3 DEF EnterVerify
    <3>3. EnterResume => StartLoop("resume")
      BY DEF EnterResume
    <3>4. DecideGraph => at' = "decided" /\ Exhausted(Carried)
      BY <2>3 DEF DecideGraph
    <3>5. ~Enumerate /\ ~Decided
      BY <2>3 DEF Enumerate, Decided, stagedVars, graphVars
    <3>6. /\ ~BreakOff /\ ~Stop /\ ~ExecutePending
          /\ \A a \in Actions : ~Pend(a) /\ ~TooDear(a) /\ ~ExecuteChosen(a)
      BY <1>2 DEF BreakOff, Stop, ExecutePending, Pend, TooDear, ExecuteChosen,
                  Chosen, Choosing
    <3>7. EnterVerify \/ EnterResume \/ DecideGraph
      BY <3>5, <3>6 DEF StagedNext
    <3>8. ASSUME NEW loop, StartLoop(loop)
          PROVE  inHand' = pending /\ Role[pending] \in Resident(at')
      BY <3>1, <3>8 DEF Resident
    <3> QED
      BY <3>2, <3>3, <3>4, <3>7, <3>8
  <2> QED
    BY <2>2, <2>3 DEF StoredIsTaken
<1> QED
  BY <1>1, <1>2

-----------------------------------------------------------------------------
(* Results *)

\* The control state of a graph keeps its types through every role swap
\* (pipeline.py:1600-1721).
THEOREM StagedTypeCorrect == StagedSpec => []StagedTypeOK
<1>1. StagedInv => StagedTypeOK
  BY DEF StagedInv
<1> QED
  BY <1>1, StagedInductive, PTL

\* With both models resident no gate, multi-call action or second loop takes a
\* query beyond max_calls and the control of its gate, whatever the actions cost
\* (pipeline.py:1509-1546, 802-842).
THEOREM InterleavedStaysUnderCeiling == StagedSpec => []InterleavedCeiling
<1>1. StagedInv => InterleavedCeiling
  BY DEF StagedInv
<1> QED
  BY <1>1, StagedInductive, PTL

\* In either mode what goes beyond the ceiling and the gate's uncharged calls is
\* one action, for every set of actions and costs (pipeline.py:1649-1657).
THEOREM OverrunIsBounded == StagedSpec => []OverrunIsOneAction
<1>1. StagedInv => OverrunIsOneAction
  BY DEF StagedInv
<1> QED
  BY <1>1, StagedInductive, PTL

\* No action that is not a repeat runs twice, stored or not
\* (pipeline.py:1723-1752, controller.py:302-452).
THEOREM ActionsRunOnce == StagedSpec => []EachActionRunsOnce
<1>1. StagedInv => EachActionRunsOnce
  BY DEF StagedInv, OnceInv, EachActionRunsOnce
<1> QED
  BY <1>1, StagedInductive, PTL

\* Between two phases the snapshot and the gate's uncharged calls are every call
\* that was made, and the row reports the snapshot (pipeline.py:1714-1721,
\* blind.py:350-382, 676-678).
THEOREM SnapshotAccounts == StagedSpec => []SnapshotIsComplete
<1>1. StagedInv => SnapshotIsComplete
  <2> SUFFICES ASSUME StagedInv, at \in {"stored", "decided"}, snapshot # None
               PROVE  /\ snapshot.calls + OffBudget = spent
                      /\ row # None => row = snapshot.calls
    BY DEF SnapshotIsComplete
  <2> QED
    BY DEF StagedInv, FigureInv, Carried
<1> QED
  BY <1>1, StagedInductive, PTL

\* An action stored for another model is taken over by a phase that holds its
\* model and run there, or given up by decide_graph on an exhausted budget; it
\* is never dropped (pipeline.py:1676-1686, 1723-1752, 3552-3593).
THEOREM PendedWorkIsNeverDropped == StagedSpec => PendedWorkIsKept
<1>1. StagedInv /\ [StagedNext]_stagedVars => [StoredIsTaken /\ TakenIsRun]_stagedVars
  BY PendedStep
<1> QED
  BY <1>1, StagedInductive, PTL DEF StagedSpec, PendedWorkIsKept
=============================================================================
