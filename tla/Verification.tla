---------------------------- MODULE Verification ----------------------------
(***************************************************************************)
(* verification/: the blind verifier of Module 4, the specialist verifier  *)
(* of Module 17 and the bidirectional checks of Module 18.  Each of them   *)
(* catalogues for nothing, runs what the caller chose and reports what it  *)
(* read and what it cost; none of them decides.                            *)
(*                                                                         *)
(* A distribution gives whole percents to VALID, INVALID and UNKNOWN.  A   *)
(* target is [kind, id]: a key, the index of a cluster, the number of a    *)
(* proposition, or 0 for the query.                                        *)
(***************************************************************************)
EXTENDS Consensus

CONSTANTS
  Enumerator, SecondModel,  \* the two models, each its own family
  ValueOf,                  \* the number a key of a numeric relation stands for
  Divergence(_),            \* normalised divergence of a sequence of distributions
  Frames,                   \* <<phrasing, label order>> of the readings of a candidate
  ClassesChecked            \* hard negatives of a contract put to the test (bound)

\* distinct_families: two names, and not the same.
ASSUME ModelsDiffer == Enumerator # SecondModel /\ "" \notin {Enumerator, SecondModel}

Target(kind, id) == [kind |-> kind, id |-> id]

-----------------------------------------------------------------------------
(* Reading labels *)

Labels == <<"INVALID", "UNKNOWN", "VALID">>

Distributions == [{"INVALID", "UNKNOWN", "VALID"} -> Nat]

\* The most likely label, the first in the alphabet among equals.
ArgMax(d) ==
  Labels[CHOOSE i \in 1..3 : \A j \in 1..3 :
           d[Labels[i]] > d[Labels[j]] \/ (d[Labels[i]] = d[Labels[j]] /\ i <= j)]

Mean(ds) ==
  [l \in {"INVALID", "UNKNOWN", "VALID"} |->
     FoldLeft(LAMBDA sum, d : sum + d[l], 0, ds) \div Len(ds)]

Disagreement(ds) == IF Len(ds) < 2 THEN 0 ELSE Divergence(ds)

\* The content-free controls a request would still have to measure.
ControlCallsNeeded(controls, templates) == Cardinality(templates \ controls)

-----------------------------------------------------------------------------
(* Module 4: one blind verdict, from one template or from two *)

DisagreementTemplates == <<"standard", "question">>
BlindTemplates(tier) ==
  IF tier = "ADVERSARIAL_VERIFY" THEN DisagreementTemplates ELSE <<"standard">>

\* The verdict of averaged readings; its record is the first template's.
Aggregate(k, ds) ==
  [key |-> k, label |-> ArgMax(Mean(ds)), valid |-> Mean(ds)["VALID"],
   disagreement |-> Disagreement(ds), record |-> <<"verify", "standard", k>>,
   model |-> SecondModel]

\* Verified once, with the readings ds, one for each template; <<>> when the
\* runtime gives no logits, which attaches nothing and reports no call.
VerifyOne(g, k, ds) == IF ds = <<>> THEN g ELSE AddVerification(g, Aggregate(k, ds))

-----------------------------------------------------------------------------
(* Module 17 *)

SpecialistTargetKinds(r) ==
  CASE IsNumberRelation(r) -> {"NUMERIC_CLUSTER"}
    [] r = Death -> {"ENTITY_CANDIDATE", "QUERY_PROPOSITION"}
    [] OTHER -> {"ENTITY_CANDIDATE"}

\* Living, deceased, no known locality.
Propositions(r) == IF r = Death THEN 1..3 ELSE {}

\* A proposition has a phrasing of its own, number 0, in every label order; its
\* controls are its own with it.
PropositionFrames ==
  LET orders == SelectSeq(Frames, LAMBDA f : f[1] = 1)
  IN [i \in DOMAIN orders |-> <<0, orders[i][2]>>]
AllFrames == Range(Frames) \cup Range(PropositionFrames)

\* What is selected of a sequence is one.
ASSUME FramesAreSequences ==
  Frames \in Seq(Nat \X Nat) /\ PropositionFrames \in Seq(Nat \X Nat)

\* A judgement of type: what a verifier cannot rescue is no target for it.
VerifiableTargets(base, r) ==
  {Target("ENTITY_CANDIDATE", k) :
     k \in {c \in DOMAIN base.candidates : /\ "ENTITY_CANDIDATE" \in SpecialistTargetKinds(r)
                                           /\ ~base.candidates[c].hard}}
  \cup {Target("NUMERIC_CLUSTER", i) : i \in DOMAIN base.clusters}
  \cup {Target("QUERY_PROPOSITION", p) : p \in Propositions(r)}

FramesOf(target) ==
  IF target.kind = "QUERY_PROPOSITION" THEN PropositionFrames ELSE Frames

\* One reading is [fault, dist]: the call failed, the control failed, the
\* answer lacks a label, or there is a distribution.  A cold control is one
\* more call, and stays cold when it failed; one already measured cannot fail.
ReadOne(controls, frame, answer) ==
  LET fault == IF answer.fault = "CONTROL_RAISED" /\ frame \in controls THEN "NONE"
               ELSE answer.fault
  IN [dist |-> IF fault = "NONE" THEN <<answer.dist>> ELSE <<>>,
      error |-> fault # "NONE",
      measures |-> fault \in {"NONE", "INCOMPLETE"},
      cold |-> fault # "RAISED" /\ frame \notin controls]

\* The distributions read in some of the frames.
Dists(readings) == FlattenSeq([i \in DOMAIN readings |-> readings[i].dist])
DistsIn(frames, readings, side, n) ==
  FlattenSeq([i \in DOMAIN readings |-> IF frames[i][side] = n THEN readings[i].dist ELSE <<>>])

\* The largest divergence over the groups of frames that agree on one side;
\* -1 when no group has two readings.
NotMeasured == -1
Instability(frames, readings, side) ==
  LET groups == {DistsIn(frames, readings, side, n) : n \in {frames[i][side] : i \in DOMAIN frames}}
      measured == {ds \in groups : Len(ds) > 1}
  IN IF measured = {} THEN NotMeasured ELSE Max({Divergence(ds) : ds \in measured})

\* The result of one target: answers gives one to each of its frames.
SpecialistResult(controls, target, answers) ==
  LET frames == FramesOf(target)
      readings == [i \in DOMAIN frames |-> ReadOne(controls, frames[i], answers[frames[i]])]
      usable == Dists(readings)
  IN [target |-> target,
      available |-> usable # <<>>,
      mean |-> IF usable = <<>> THEN <<>> ELSE <<Mean(usable)>>,
      label |-> IF usable = <<>> THEN "NONE" ELSE ArgMax(Mean(usable)),
      template |-> Instability(frames, readings, 2),
      order |-> Instability(frames, readings, 1),
      readings |-> Len(readings),
      calls |-> Len(frames) + Cardinality({i \in 1..Len(frames) : readings[i].cold}),
      controls |-> {frames[i] : i \in {j \in DOMAIN frames : readings[j].measures}}]

-----------------------------------------------------------------------------
(* Module 18 *)

ShowsCandidate(kind) == kind \in {"REVERSE", "COUNTERFACTUAL"}
StructuralGroup(kind) ==
  CASE kind = "REVERSE" -> "M18_REVERSE" [] kind = "COUNTERFACTUAL" -> "M18_COUNTERFACTUAL"
    [] kind = "KEY_CONDITION" -> "M18_KEY_CONDITION"
    [] kind = "CANDIDATE_FREE_RECALL" -> "M18_CANDIDATE_FREE_RECALL"

\* Only land contact reads the same from the other side.
SupportedChecks(r) ==
  {"KEY_CONDITION", "COUNTERFACTUAL", "CANDIDATE_FREE_RECALL"}
    \cup (IF r = Borders THEN {"REVERSE"} ELSE {})
CheckTargetKind(r) ==
  IF IsNumberRelation(r) THEN "NUMERIC_CLUSTER" ELSE "ENTITY_CANDIDATE"
CounterfactualClasses(r) == (0..(ContractOf(r).negatives - 1)) \cap ClassesChecked

CheckTargets(base, r) ==
  IF IsNumberRelation(r) THEN {Target("NUMERIC_CLUSTER", i) : i \in DOMAIN base.clusters}
  ELSE {Target("ENTITY_CANDIDATE", k) : k \in DOMAIN base.candidates}

\* A judgement of type again.  A free recall is about the query and hides all.
Eligible(base, r, kind, target) ==
  /\ kind \in SupportedChecks(r)
  /\ \/ kind = "CANDIDATE_FREE_RECALL"
     \/ target.kind = "NUMERIC_CLUSTER"
     \/ ~base.candidates[target.id].hard

Check(kind, target, class) == [kind |-> kind, target |-> target, class |-> class]
EligibleChecks(base, r) ==
  {c \in {Check("COUNTERFACTUAL", t, n) : t \in CheckTargets(base, r),
                                          n \in CounterfactualClasses(r)}
         \cup {Check(kind, t, 0) : kind \in {"REVERSE", "KEY_CONDITION"},
                                   t \in CheckTargets(base, r)} :
     Eligible(base, r, c.kind, c.target)}
  \cup {Check("CANDIDATE_FREE_RECALL", Target("QUERY", 0), 0)}

\* Compared with what a free recall names, after the call.  For a quantity the
\* figures are compared with the indices of the clusters, which count from 0.
KnownKeys(base, r) ==
  IF IsNumberRelation(r)
  THEN {k \in Keys : \E i \in DOMAIN base.clusters : ValueOf[k] = i - 1}
  ELSE {t.id : t \in CheckTargets(base, r)}

\* An answer is [word, named]; one that nobody can read has no outcome.
ParseReverse(a) ==
  CASE a.word = "supported" -> "SUPPORTED" [] a.word = "contradicted" -> "CONTRADICTED"
    [] a.word \in {"unresolved", "abstains"} -> "UNRESOLVED" [] OTHER -> "NONE"
ParseCounterfactual(a) ==
  CASE a.word = "target" -> "TARGET_RELATION" [] a.word = "excluded" -> "NEAR_MISS_RELATION"
    [] a.word = "neither" -> "NEITHER"
    [] a.word \in {"unknown", "abstains"} -> "UNRESOLVED" [] OTHER -> "NONE"

\* The first value named is the one recovered; for a cluster the target is the
\* key of its representative.
ParseReconstruction(a, key) ==
  CASE a.word = "abstains" -> "UNRESOLVED" [] a.named = <<>> -> "NONE"
    [] Head(a.named) = key -> "TARGET_RECOVERED" [] OTHER -> "DIFFERENT_VALUE_RECOVERED"

\* Every name that is no abstention counts; an empty recall denies nothing.
ParseCandidateFree(a, known) ==
  IF \E i \in DOMAIN a.named : a.named[i] \in known THEN "TARGET_RECALLED"
  ELSE IF a.named # <<>> THEN "TARGET_ABSENT"
  ELSE IF a.word = "no number" THEN "NONE" ELSE "NOTHING_RECALLED"

Unraised(a) == a.word # "RAISED"
Parse(c, a, key, known) ==
  CASE ~Unraised(a)                         -> "NONE"
    [] c.kind = "REVERSE"                   -> ParseReverse(a)
    [] c.kind = "COUNTERFACTUAL"            -> ParseCounterfactual(a)
    [] c.kind = "KEY_CONDITION"             -> ParseReconstruction(a, key)
    [] c.kind = "CANDIDATE_FREE_RECALL"     -> ParseCandidateFree(a, known)

CheckOrigin(c) == <<Enumerator, c.kind, c.target, c.class>>

\* One chosen check, one call, one origin, whatever came back.
Execute(c, a, key, known) ==
  [check |-> c, origin |-> CheckOrigin(c), raw |-> Parse(c, a, key, known),
   error |-> ~Unraised(a), model |-> Enumerator, group |-> StructuralGroup(c.kind),
   shown |-> ShowsCandidate(c.kind),
   independent |-> c.kind = "CANDIDATE_FREE_RECALL" /\ Unraised(a),
   recalled |-> IF c.kind = "CANDIDATE_FREE_RECALL" THEN Range(a.named) ELSE {}, calls |-> 1]

=============================================================================
