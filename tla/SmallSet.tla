------------------------------ MODULE SmallSet ------------------------------
(***************************************************************************)
(* specialists/small_set_specialist.py, Module 15: land borders and stock  *)
(* exchanges.  The stock path is gated on whether the company is listed;   *)
(* its one cross-family recall runs when this query's listing state is     *)
(* uncertain.  Both paths end with a missingness probe whose result feeds  *)
(* the closure signals.                                                    *)
(***************************************************************************)
EXTENDS Recall

CONSTANTS
  MinListingGroups,     \* independent sources the listing gate asks for
  StockCrossFamily,     \* decide_cross_family's answer for this configuration
  EnableFacets,         \* disabled facets the configuration turns on
  Explosion             \* the abnormal length of a candidate list

\* A mention is the target of the relation or one of its declared near misses.
ASSUME MentionsAreClassified ==
  \A r \in Relations \cap {Borders, Stock} : \A t \in TextsOf[r] : \A n \in ToSet(t.names) :
    n.kind \in IF r = Stock THEN {"TARGET_EXCHANGE"} \cup ToSet(StockNearMisses)
               ELSE {"TARGET_NEIGHBOUR"} \cup ToSet(BorderNearMisses)
ASSUME ListingNeedsASource == MinListingGroups \in Nat \ {0}

VARIABLES
  trigger,       \* CrossFamilyTrigger of this query
  before,        \* names held when the missingness stage starts
  fresh,         \* names the missingness stage returned
  probed,        \* missingness_probed
  barrenProbe    \* missingness_empty

smallSetVars == <<trigger, before, fresh, probed, barrenProbe>>

IsSmallSet == relation \in {Borders, Stock}
TargetKind == IF relation = Stock THEN "TARGET_EXCHANGE" ELSE "TARGET_NEIGHBOUR"

\* Templates become probes; a facet names the probe, its family the source.
FacetPlan(templates) ==
  Planned(FlattenSeq([i \in DOMAIN templates |->
    LET t == templates[i]
    IN IF t.facet \in DisabledFacets \ EnableFacets THEN <<>>
       ELSE <<Probe(t.facet, t.facet, t.family)>>]))
GatePlan == FacetPlan(StockGate)
StockPlan == FacetPlan(StockAcquisition)
BorderPlan == FacetPlan(BorderAcquisition)
MissingPlan == FacetPlan(IF relation = Stock THEN StockMissingness ELSE BorderMissingness)
CrossPlan == FacetPlan(StockFreshness)

-----------------------------------------------------------------------------
(* Parsing *)

\* A bare word, then the cues with NOT_LISTED before LISTED.
ParseListingStatus(text) ==
  IF text = Raised THEN <<"UNKNOWN", "RUNTIME_ERROR">>
  ELSE IF text.word = "" THEN <<"UNKNOWN", "EMPTY">>
  ELSE IF text.word = "UNKNOWN" THEN <<"UNKNOWN", "ABSTAINED">>
  ELSE IF text.word \in {"LISTED", "NOT_LISTED"} THEN <<text.word, "OK">>
  ELSE IF "not listed" \in text.cues THEN <<"NOT_LISTED", "OK">>
  ELSE IF "listed" \in text.cues THEN <<"LISTED", "OK">>
  ELSE <<"UNKNOWN", "UNPARSED_STATUS">>

ListingObservation(probe, text) ==
  <<Observe(probe, "PROBE", ParseListingStatus(text)[2], ParseListingStatus(text)[1],
            "", text)>>

\* One record for each name and each way of describing it: a response that
\* repeats itself adds no support.
ExtractCandidates(probe, source, text) ==
  LET distinct == SetToSeq(Seen(text.names))
      barren(status) == Barren(probe, source, status, TargetKind, text)
  IN CASE text = Raised              -> barren("RUNTIME_ERROR")
       [] text.word = ""             -> barren("EMPTY")
       [] text.word \in Abstentions  -> barren("ABSTAINED")
       [] OTHER -> IF distinct = <<>> THEN barren("NO_CANDIDATES")
                   ELSE [i \in DOMAIN distinct |->
                           Observe(probe, source, "OK", distinct[i].kind,
                                   distinct[i].name, text)]

UsableCandidate(o) == o.status = "OK" /\ o.kind = TargetKind /\ o.name # ""
NearCandidate(o) == o.status = "OK" /\ o.kind # TargetKind
CandidateOccurrence(name) == Occurrence(name, UsableCandidate, NearCandidate)
Held == {o.name : o \in {x \in Seen(log) : UsableCandidate(x)}}

-----------------------------------------------------------------------------
(* The listing gate and the cross-family trigger *)

ListingGroups(reading) ==
  {o.probe.group : o \in {x \in Seen(log) : x.status = "OK" /\ x.kind = reading}}

\* Independent sources, none of them contradicted.
ReadListingGate ==
  LET listed == ListingGroups("LISTED")  notListed == ListingGroups("NOT_LISTED")
  IN IF listed # {} /\ notListed # {} THEN "UNRESOLVED"
     ELSE IF Cardinality(listed) >= MinListingGroups THEN "LISTED_PLAUSIBLE"
     ELSE IF Cardinality(notListed) >= MinListingGroups THEN "NOT_LISTED_PLAUSIBLE"
     ELSE "UNRESOLVED"

PermitsAcquisition == relation = Borders \/ gate = "LISTED_PLAUSIBLE"

\* The temporal reading of a mention: its kind tells a former listing, a cue
\* of the clause a current one.
Temporal(o) ==
  IF "former" \in o.text.cues THEN "FORMER_OR_DELISTED"
  ELSE IF "current" \in o.text.cues THEN "CURRENT" ELSE "UNCLEAR"

EvaluateTrigger ==
  LET usable == {o \in Seen(log) : /\ o.status = "OK" /\ o.name # ""
                                   /\ o.probe.group # "cross_family_recall"}
      of(n) == {o \in usable : o.name = n}
      statuses(n) == {Temporal(o) : o \in of(n)}
      kinds(n) == {o.kind : o \in of(n)}
  IN IF gate = "NONE" THEN "NOT_EVALUATED"
     ELSE IF gate = "UNRESOLVED" THEN "UNRESOLVED_LISTING_GATE"
     ELSE IF gate # "LISTED_PLAUSIBLE" THEN "LOCALLY_CLEAR"
     ELSE IF \E o \in usable :
               \/ {"CURRENT", "FORMER_OR_DELISTED"} \subseteq statuses(o.name)
               \/ {"TARGET_EXCHANGE", "HISTORICAL_OR_DELISTED"} \subseteq kinds(o.name)
     THEN "TEMPORAL_STATUS_CONFLICT"
     ELSE IF usable # {} /\ \A o \in usable : Temporal(o) = "UNCLEAR"
     THEN "TEMPORAL_STATUS_UNCLEAR" ELSE "LOCALLY_CLEAR"

Fires(t) == t \in {"UNRESOLVED_LISTING_GATE", "TEMPORAL_STATUS_UNCLEAR",
                   "TEMPORAL_STATUS_CONFLICT"}

-----------------------------------------------------------------------------
(* The plan *)

MineSmallSet ==
  /\ IsSmallSet /\ step = "memory" /\ todo = <<>>
  /\ log' = Mined(LAMBDA p, t : ExtractCandidates(p, "MEMORY", t))
  /\ IF relation = Stock THEN step' = "listing" /\ todo' = GatePlan
     ELSE step' = "acquisition" /\ todo' = BorderPlan
  /\ UNCHANGED <<relation, memory, calls, errors, gate, smallSetVars>>

ProbeListing ==
  /\ Ask("listing", ListingObservation)
  /\ UNCHANGED <<relation, step, memory, gate, smallSetVars>>

OpenListingGate ==
  /\ step = "listing" /\ todo = <<>>
  /\ gate' = ReadListingGate
  /\ step' = "acquisition"
  /\ todo' = IF gate' = "LISTED_PLAUSIBLE" THEN StockPlan ELSE <<>>
  /\ UNCHANGED <<relation, memory, log, calls, errors, smallSetVars>>

ProbeCandidates ==
  /\ Ask("acquisition", LAMBDA p, t : ExtractCandidates(p, "PROBE", t))
  /\ UNCHANGED <<relation, step, memory, gate, smallSetVars>>

\* Evaluated once, from what was observed so far.
DecideCrossFamily ==
  /\ step = "acquisition" /\ todo = <<>>
  /\ trigger' = IF relation = Stock /\ StockCrossFamily
                THEN EvaluateTrigger ELSE "NOT_ELIGIBLE"
  /\ step' = "cross"
  /\ todo' = IF Fires(trigger') THEN CrossPlan ELSE <<>>
  /\ UNCHANGED <<relation, memory, log, calls, errors, gate, before, fresh, probed,
                 barrenProbe>>

ProbeCrossFamily ==
  /\ Ask("cross", LAMBDA p, t : ExtractCandidates(p, "PROBE", t))
  /\ UNCHANGED <<relation, step, memory, gate, smallSetVars>>

\* What is held is read before the stage asks.
StartMissingness ==
  /\ step = "cross" /\ todo = <<>>
  /\ before' = Held
  /\ step' = "missingness"
  /\ todo' = IF PermitsAcquisition THEN MissingPlan ELSE <<>>
  /\ UNCHANGED <<relation, memory, log, calls, errors, gate, trigger, fresh, probed,
                 barrenProbe>>

\* A call that raised returns one barren record, and reads as empty.
ProbeMissingness ==
  /\ step = "missingness" /\ todo # <<>>
  /\ Call(LAMBDA text :
       LET found == ExtractCandidates(Head(todo), "PROBE", text)
           names == {o.name : o \in {x \in Seen(found) : UsableCandidate(x)}}
       IN /\ log' = log \o found
          /\ fresh' = fresh \cup names
          /\ barrenProbe' = (barrenProbe \/ names = {}))
  /\ probed' = TRUE
  /\ todo' = Tail(todo)
  /\ UNCHANGED <<relation, step, memory, gate, trigger, before>>

CloseSmallSet ==
  /\ step = "missingness" /\ todo = <<>>
  /\ step' = "specialist done"
  /\ UNCHANGED <<relation, todo, memory, log, calls, errors, gate, smallSetVars>>

SmallSetNext ==
  \/ MineSmallSet \/ ProbeListing \/ OpenListingGate \/ ProbeCandidates
  \/ DecideCrossFamily \/ ProbeCrossFamily \/ StartMissingness \/ ProbeMissingness
  \/ CloseSmallSet

SmallSetInit ==
  /\ trigger = "NOT_ELIGIBLE" /\ before = {} /\ fresh = {}
  /\ probed = FALSE /\ barrenProbe = FALSE

-----------------------------------------------------------------------------
(* The result *)

ClosureSignals ==
  LET held == Held
      supported(n) == CandidateOccurrence(n).total > 0
      singleton(n) == Cardinality(CandidateOccurrence(n).groups) = 1
      near(n) == CandidateOccurrence(n).near # {}
  IN [new |-> fresh \ before, duplicate |-> fresh \cap before,
      common |-> Cardinality(before \cap held), union |-> Cardinality(before \cup held),
      singletons |-> {n \in NamesSeen : supported(n) /\ singleton(n)},
      highRisk |-> {n \in NamesSeen : supported(n) /\ singleton(n) /\ near(n)},
      conflicting |-> {n \in NamesSeen : supported(n) /\ near(n)}]

CandidateExplosion == Cardinality(NamesSeen) > Explosion

\* What Module 18 is asked to check, and why.
PendingChecks ==
  LET supported == {n \in NamesSeen : CandidateOccurrence(n).total > 0}
      mentions == {o \in Seen(log) : o.status = "OK" /\ o.name # ""}
      ask(kind, reason, n) == [kind |-> kind, reason |-> reason, name |-> n]
      of(kinds, kind, reason) ==
        {ask(kind, reason, o.name) : o \in {x \in mentions : x.kind \in kinds}}
  IN IF relation = Borders
     THEN {ask("REVERSE_ADJACENCY", "SINGLETON_CANDIDATE", n) : n \in ClosureSignals.singletons}
          \cup {ask("REVERSE_ADJACENCY", "CONFLICTING_SOURCES", n) :
                  n \in ClosureSignals.conflicting}
          \cup of({"NON_INTEGRAL_DEPENDENCY", "DISPUTED_CLAIM_ONLY", "SUBNATIONAL_REGION"},
                  "REVERSE_ADJACENCY", "TERRITORY_AMBIGUITY")
     ELSE of({"PARENT_COMPANY_LISTING", "SUBSIDIARY_LISTING"},
             "PARENT_SUBSIDIARY", "PARENT_SUBSIDIARY_RISK")
          \cup of({"INDEX_OR_NON_EXCHANGE"}, "INDEX_CONFUSION", "INDEX_RISK")
          \cup of({"HISTORICAL_OR_DELISTED"}, "COMPANY_ITSELF", "HISTORICAL_LISTING_RISK")
          \cup of({"PRIVATE_OR_NOT_LISTED"}, "COMPANY_ITSELF", "CONFLICTING_SOURCES")
          \cup {ask("COMPANY_ITSELF", "CANDIDATE_EXPLOSION", n) :
                  n \in {x \in supported : CandidateExplosion}}

-----------------------------------------------------------------------------
(* Properties *)

\* No exchange is asked for while the listing of the company is in doubt: an
\* acquisition or missingness call follows enough independent sources that
\* say listed and none that says otherwise.  The cross-family recall is the
\* one exception the code makes (analyse).
ExchangeNeedsAListing ==
  relation = Stock
    /\ (\E o \in Seen(log) : /\ o.source = "PROBE"
                             /\ o.probe \in Seen(StockPlan) \cup Seen(MissingPlan)) =>
  /\ ListingGroups("NOT_LISTED") = {}
  /\ Cardinality(ListingGroups("LISTED")) >= MinListingGroups

\* The closure signals agree with the log: what the missingness stage found
\* new is what was held after it and not before, and the two snapshots are
\* equal when, and only when, it found nothing new (build_closure_signals).
ClosureAgreesWithLog ==
  IsSmallSet /\ step = "specialist done" =>
  /\ before \subseteq Held
  /\ ClosureSignals.new = Held \ before
  /\ (ClosureSignals.common = ClosureSignals.union) <=> (ClosureSignals.new = {})

\* A name that some source also described as a near miss leaves the specialist
\* with a check requested of Module 18: no described risk is recorded and told
\* to nobody (build_pending_checks).
EveryRiskIsRouted ==
  IsSmallSet /\ step = "specialist done" =>
  \A n \in ClosureSignals.conflicting : \E c \in PendingChecks : c.name = n

\* The freshness recall runs at most once in a query, and only for a stock
\* query whose gate let nothing else run or whose listing it left unclear
\* (evaluate_cross_family_trigger).
OneFreshnessRecall ==
  LET cross == {o \in Seen(log) : o.probe.group = "cross_family_recall"}
  IN /\ relation = Stock /\ cross # {} =>
          gate = "UNRESOLVED" \/ gate = "LISTED_PLAUSIBLE"
     /\ \A o, p \in cross : o.text = p.text

=============================================================================
