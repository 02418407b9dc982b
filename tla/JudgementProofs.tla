--------------------------- MODULE JudgementProofs ---------------------------
(***************************************************************************)
(* Proofs about Judgement, for any number of keys, any answers and any     *)
(* divergence.                                                             *)
(***************************************************************************)
EXTENDS Judgement, FiniteFacts

-----------------------------------------------------------------------------
(* What each operation does to the candidates and the edges *)

\* A graph is a record of its eight fields, with a sequence for each key.
GraphShape(g) ==
  /\ g = [held |-> g.held, edges |-> g.edges, records |-> g.records, verdicts |-> g.verdicts,
          status |-> g.status, tier |-> g.tier, reason |-> g.reason, gate |-> g.gate]
  /\ g.verdicts = [k \in Keys |-> g.verdicts[k]]

LEMMA EmptyGraphShape == GraphShape(EmptyGraph)
BY DEF GraphShape, EmptyGraph

LEMMA AddMentionsFacts ==
  ASSUME NEW g, GraphShape(g), NEW r, NEW named
  PROVE  LET h == AddMentions(g, r, named)
         IN /\ GraphShape(h)
            /\ h.held = g.held \cup named
            /\ h.edges = g.edges \cup {Mention(k, r) : k \in named}
            /\ h.verdicts = g.verdicts /\ h.status = g.status
<1> DEFINE R == {x \in g.records : x.id # r.id} \cup {r}
           E == {Mention(k, r) : k \in named}
           f == [g EXCEPT !.records = R]
           h == [f EXCEPT !.held = f.held \cup named, !.edges = f.edges \cup E]
<1>1. AddMentions(g, r, named) = h
  BY DEF AddMentions, RegisterRecord
<1> HIDE DEF R, E
<1>2. f = [held |-> g.held, edges |-> g.edges, records |-> R, verdicts |-> g.verdicts,
           status |-> g.status, tier |-> g.tier, reason |-> g.reason, gate |-> g.gate]
  BY DEF GraphShape
<1>3. h = [held |-> g.held \cup named, edges |-> g.edges \cup E, records |-> R,
           verdicts |-> g.verdicts, status |-> g.status, tier |-> g.tier, reason |-> g.reason,
           gate |-> g.gate]
  <2> HIDE DEF f
  <2>1. f.held \cup named = g.held \cup named /\ f.edges \cup E = g.edges \cup E
    BY <1>2
  <2>2. h = [f EXCEPT !.held = g.held \cup named, !.edges = g.edges \cup E]
    BY <2>1
  <2> HIDE DEF h
  <2> QED BY <1>2, <2>2
<1> HIDE DEF h
<1>4. /\ GraphShape(h) /\ h.held = g.held \cup named /\ h.edges = g.edges \cup E
      /\ h.verdicts = g.verdicts /\ h.status = g.status
  BY <1>3 DEF GraphShape
<1> QED BY <1>1, <1>4 DEF E

LEMMA HardRulesFacts ==
  ASSUME NEW g, GraphShape(g), NEW r
  PROVE  LET h == HardRules(g, r)
         IN /\ GraphShape(h) /\ h.held = g.held /\ h.edges = g.edges
            /\ h.verdicts = g.verdicts
            /\ \A k \in Keys : g.status[k] = "REJECTED" => h.status[k] = "REJECTED"
            /\ IsNumberRelation(r) => \A k \in g.held \cap NotPositive \cap Keys : h.status[k] = "REJECTED"
<1> DEFINE Rejects(e, R) ==
             /\ GraphShape(e) /\ e.held = g.held /\ e.edges = g.edges
             /\ e.verdicts = g.verdicts
             /\ \A k \in Keys : g.status[k] = "REJECTED" \/ k \in R => e.status[k] = "REJECTED"
<1>1. ASSUME NEW R, NEW why
      PROVE  Rejects(Reject(g, R, why), R)
  <2> DEFINE status == [k \in Keys |-> IF k \in R THEN "REJECTED" ELSE g.status[k]]
             reason == [k \in Keys |-> IF k \in R THEN why ELSE g.reason[k]]
             f == [g EXCEPT !.status = status]
             h == [f EXCEPT !.reason = reason]
  <2>1. Reject(g, R, why) = h
    BY DEF Reject
  <2>2. \A k \in Keys : g.status[k] = "REJECTED" \/ k \in R => status[k] = "REJECTED"
    OBVIOUS
  <2> HIDE DEF status, reason
  <2>3. /\ GraphShape(h) /\ h.held = g.held /\ h.edges = g.edges
        /\ h.verdicts = g.verdicts /\ h.status = status
    <3>1. h = [held |-> g.held, edges |-> g.edges, records |-> g.records, verdicts |-> g.verdicts,
               status |-> status, tier |-> g.tier, reason |-> reason, gate |-> g.gate]
      <4>1. f = [held |-> g.held, edges |-> g.edges, records |-> g.records,
                 verdicts |-> g.verdicts, status |-> status, tier |-> g.tier,
                 reason |-> g.reason, gate |-> g.gate]
        BY DEF GraphShape
      <4> HIDE DEF f
      <4> QED BY <4>1
    <3> HIDE DEF h
    <3> QED BY <3>1 DEF GraphShape
  <2> HIDE DEF h
  <2> QED BY <2>1, <2>2, <2>3
<1> DEFINE h == HardRules(g, r)
<1>2. CASE IsNumberRelation(r)
  <2> DEFINE S == g.held \cap NotPositive
  <2>1. h = Reject(g, S, "not positive")
    BY <1>2 DEF HardRules
  <2> HIDE DEF h, S, Rejects
  <2>2. Rejects(h, S)
    BY <1>1, <2>1
  <2> QED BY <2>2 DEF h, S, Rejects
<1>3. CASE ~IsNumberRelation(r)
  <2> DEFINE S == g.held \cap Malformed
  <2>1. h = Reject(g, S, "no letters")
    BY <1>3 DEF HardRules
  <2> HIDE DEF h, S, Rejects
  <2>2. Rejects(h, S)
    BY <1>1, <2>1
  <2> QED BY <1>3, <2>2 DEF h, Rejects
<1> QED BY <1>2, <1>3

LEMMA TieredFacts ==
  ASSUME NEW g, GraphShape(g), NEW r
  PROVE  LET h == Tiered(g, r)
         IN /\ GraphShape(h) /\ h.held = g.held /\ h.edges = g.edges
            /\ h.verdicts = g.verdicts /\ h.status = g.status
BY DEF GraphShape, Tiered

LEMMA ResolvedFacts ==
  ASSUME NEW g, GraphShape(g), NEW r
  PROVE  LET h == Resolved(g, r)
         IN /\ GraphShape(h) /\ h.held = g.held /\ h.edges = g.edges
            /\ h.verdicts = g.verdicts
BY DEF GraphShape, Resolved, Resolve

LEMMA AddVerificationFacts ==
  ASSUME NEW g, GraphShape(g), NEW v
  PROVE  LET h == AddVerification(g, v)
         IN /\ GraphShape(h)
            /\ h.held = g.held
            /\ h.edges = IF v.key \in g.held /\ Attachable(g, VerdictEdge(v))
                         THEN g.edges \cup {VerdictEdge(v)} ELSE g.edges
            /\ h.status = g.status
            /\ \A k \in Keys :
                 \/ h.verdicts[k] = g.verdicts[k]
                 \/ k = v.key /\ h.verdicts[k] = Append(g.verdicts[k], v)
<1>1. CASE v.key \in g.held /\ Attachable(g, VerdictEdge(v))
  BY <1>1 DEF GraphShape, AddVerification, Attach
<1>2. CASE ~(v.key \in g.held /\ Attachable(g, VerdictEdge(v)))
  BY <1>2 DEF AddVerification
<1> QED BY <1>1, <1>2

\* The edges the bridge adds for the readings, and for the checks.
VerdictOf(k, reading) ==
  [key |-> k, label |-> reading.label, valid |-> reading.valid,
   disagreement |-> Max({0, reading.template}), record |-> <<"m17", k>>, model |-> ""]
NewVerdicts(g, readings_) ==
  {VerdictEdge(VerdictOf(k, readings_[k])) :
     k \in {x \in DOMAIN readings_ : /\ x \in g.held
                                     /\ Attachable(g, VerdictEdge(VerdictOf(x, readings_[x])))}}
NewChecks(g, checks_) ==
  {CheckEdge(c) : c \in {x \in checks_ : /\ x.status = "RESOLVED" /\ OutcomeSigns(x.outcome)
                                         /\ x.key \in g.held /\ Attachable(g, CheckEdge(x))}}

LEMMA BridgeVerdictsFacts ==
  ASSUME NEW g, GraphShape(g), NEW readings_
  PROVE  LET h == BridgeVerdicts(g, readings_)
         IN /\ GraphShape(h)
            /\ h.held = g.held
            /\ h.edges = g.edges \cup NewVerdicts(g, readings_)
            /\ NewVerdicts(g, readings_) = {} => h = g
            /\ h.status = g.status
            /\ \A k \in Keys :
                 \/ h.verdicts[k] = g.verdicts[k]
                 \/ /\ k \in DOMAIN readings_
                    /\ h.verdicts[k] = Append(g.verdicts[k], VerdictOf(k, readings_[k]))
<1> DEFINE h == BridgeVerdicts(g, readings_)
           after(k) == BridgeVerdict(g, k, readings_[k])
           E == UNION {after(k).edges : k \in DOMAIN readings_}
           V == [k \in Keys |-> IF k \in DOMAIN readings_ THEN after(k).verdicts[k] ELSE g.verdicts[k]]
           new(k) == k \in g.held /\ Attachable(g, VerdictEdge(VerdictOf(k, readings_[k])))
<1>1. \A k : /\ after(k).edges = IF new(k)
                               THEN g.edges \cup {VerdictEdge(VerdictOf(k, readings_[k]))} ELSE g.edges
             /\ ~new(k) => after(k) = g
             /\ k \in Keys =>
                  \/ after(k).verdicts[k] = g.verdicts[k]
                  \/ after(k).verdicts[k] = Append(g.verdicts[k], VerdictOf(k, readings_[k]))
  <2> TAKE k
  <2>1. after(k) = AddVerification(g, VerdictOf(k, readings_[k]))
    BY DEF BridgeVerdict, VerdictOf
  <2>2. VerdictOf(k, readings_[k]).key = k
    BY DEF VerdictOf
  <2> HIDE DEF after
  <2>3. ~new(k) => AddVerification(g, VerdictOf(k, readings_[k])) = g
    BY <2>2 DEF AddVerification
  <2> QED BY <2>1, <2>2, <2>3, AddVerificationFacts
<1>2. h = [g EXCEPT !.edges = g.edges \cup E, !.verdicts = V]
  BY DEF BridgeVerdicts
<1> HIDE DEF after, new, h
<1>3. g.edges \cup E = g.edges \cup NewVerdicts(g, readings_)
  <2>1. \A x \in E : x \in g.edges \cup NewVerdicts(g, readings_)
    BY <1>1 DEF NewVerdicts, new, E
  <2>2. \A x \in NewVerdicts(g, readings_) : x \in E
    <3> SUFFICES ASSUME NEW k \in DOMAIN readings_, new(k)
                 PROVE  VerdictEdge(VerdictOf(k, readings_[k])) \in E
      BY DEF NewVerdicts, new
    <3>1. VerdictEdge(VerdictOf(k, readings_[k])) \in after(k).edges
      BY <1>1
    <3> QED BY <3>1 DEF E
  <2> HIDE DEF E
  <2> QED BY <2>1, <2>2
<1>4. NewVerdicts(g, readings_) = {} => V = g.verdicts
  <2> SUFFICES ASSUME NewVerdicts(g, readings_) = {} PROVE V = g.verdicts
    OBVIOUS
  <2>1. \A k \in DOMAIN readings_ : ~new(k)
    BY DEF NewVerdicts, new
  <2>2. \A k \in Keys : V[k] = g.verdicts[k]
    BY <1>1, <2>1
  <2> QED BY <2>2 DEF GraphShape
<1> HIDE DEF E, V
<1>5. h.held = g.held /\ h.edges = g.edges \cup E /\ h.verdicts = V /\ h.status = g.status
  BY <1>2 DEF GraphShape
<1>8. \A k \in Keys :
        \/ V[k] = g.verdicts[k]
        \/ /\ k \in DOMAIN readings_
           /\ V[k] = Append(g.verdicts[k], VerdictOf(k, readings_[k]))
  BY <1>1 DEF V
<1>6. GraphShape(h)
  <2>1. V = [k \in Keys |-> V[k]]
    BY DEF V
  <2> QED BY <1>2, <2>1 DEF GraphShape
<1>7. NewVerdicts(g, readings_) = {} => h = g
  BY <1>2, <1>3, <1>4 DEF GraphShape
<1> QED BY <1>3, <1>5, <1>6, <1>7, <1>8 DEF h

LEMMA BridgeFacts ==
  ASSUME NEW g, GraphShape(g), NEW readings_, NEW checks_
  PROVE  LET f == BridgeVerdicts(g, readings_)
             h == Bridge(g, readings_, checks_)
         IN /\ GraphShape(h)
            /\ h.held = g.held
            /\ h.edges = g.edges \cup NewVerdicts(g, readings_) \cup NewChecks(f, checks_)
            /\ NewVerdicts(g, readings_) = {} /\ NewChecks(g, checks_) = {} => h = g
            /\ h.status = f.status /\ h.verdicts = f.verdicts
<1> DEFINE f == BridgeVerdicts(g, readings_)
           h == Bridge(g, readings_, checks_)
<1>1. /\ GraphShape(f) /\ f.held = g.held /\ f.edges = g.edges \cup NewVerdicts(g, readings_)
      /\ NewVerdicts(g, readings_) = {} => f = g
  BY BridgeVerdictsFacts
<1>2. h = [f EXCEPT !.edges = f.edges \cup NewChecks(f, checks_)]
  BY DEF Bridge, BridgeChecks, NewChecks
<1> HIDE DEF f, h
<1>3. /\ GraphShape(h) /\ h.held = f.held /\ h.edges = f.edges \cup NewChecks(f, checks_)
      /\ h.status = f.status /\ h.verdicts = f.verdicts
  BY <1>1, <1>2 DEF GraphShape
<1>4. NewVerdicts(g, readings_) = {} /\ NewChecks(g, checks_) = {} => h = g
  BY <1>1, <1>2 DEF GraphShape
<1> QED BY <1>1, <1>3, <1>4 DEF f, h

\* What the bridge has brought once it does not bring again.
LEMMA BridgeIsIdempotent ==
  ASSUME NEW g, GraphShape(g), NEW readings_, NEW checks_
  PROVE  LET h == Bridge(g, readings_, checks_) IN Bridge(h, readings_, checks_) = h
<1> DEFINE f == BridgeVerdicts(g, readings_)
           h == Bridge(g, readings_, checks_)
<1>1. GraphShape(h) /\ h.held = g.held
      /\ h.edges = g.edges \cup NewVerdicts(g, readings_) \cup NewChecks(f, checks_)
  BY BridgeFacts
<1>2. f.held = g.held /\ f.edges = g.edges \cup NewVerdicts(g, readings_)
  BY BridgeVerdictsFacts
<1> HIDE DEF f, h
<1>3. NewVerdicts(h, readings_) = {}
  <2> SUFFICES ASSUME NEW k \in DOMAIN readings_, k \in h.held,
                      Attachable(h, VerdictEdge(VerdictOf(k, readings_[k])))
               PROVE  FALSE
    BY DEF NewVerdicts
  <2> DEFINE e == VerdictEdge(VerdictOf(k, readings_[k]))
  <2> HIDE DEF e
  <2>1. \A x \in h.edges : EdgeId(x) # EdgeId(e)
    BY DEF Attachable, e
  <2>2. Attachable(g, e)
    BY <1>1, <2>1 DEF Attachable
  <2>3. e \in NewVerdicts(g, readings_)
    BY <1>1, <2>2 DEF NewVerdicts, e
  <2> QED BY <1>1, <2>1, <2>3
<1>4. NewChecks(h, checks_) = {}
  <2> SUFFICES ASSUME NEW c \in checks_, c.status = "RESOLVED", OutcomeSigns(c.outcome),
                      c.key \in h.held, Attachable(h, CheckEdge(c))
               PROVE  FALSE
    BY DEF NewChecks
  <2>1. \A x \in h.edges : EdgeId(x) # EdgeId(CheckEdge(c))
    BY DEF Attachable
  <2>2. Attachable(f, CheckEdge(c))
    BY <1>1, <1>2, <2>1 DEF Attachable
  <2>3. CheckEdge(c) \in NewChecks(f, checks_)
    BY <1>1, <1>2, <2>2 DEF NewChecks
  <2> QED BY <1>1, <2>1, <2>3
<1>5. Bridge(h, readings_, checks_) = h
  BY <1>1, <1>3, <1>4, BridgeFacts
<1> QED BY <1>5 DEF h

-----------------------------------------------------------------------------
(* The invariant *)

\* Before the consensus, while Module 17 runs, and while Module 18 does.
Asking == step \in {"views", "gate", "recall", "targets", "verify", "consensus"}
Reading == step = "m17" \/ (step = "integrate" /\ resume = "m17")
Checking == step = "m18" \/ (step = "integrate" /\ resume = "m18")
Closing == step \in {"decide", "done"} \/ (step = "integrate" /\ resume = "decide")

Shapes ==
  /\ relation \in Relations /\ spec \in SpecialistRuns[relation]
  /\ GraphShape(graph)
  /\ Asking \/ Reading \/ Checking \/ Closing
  /\ resume \in {"m17", "m18", "decide"}
  /\ step = "views" => todo \in Seq(DOMAIN ViewsOf(relation))

\* Every edge names who said it: a view, the second model's recall, the blind
\* verifier, a reading that came back, or a check that said something.
ViewNames == {"borders_direct", "borders_compass", "death_status_gate", "death_city_direct",
              "stock_listing_gate", "stock_exchange_direct", "area_direct_km2",
              "area_total_vs_land", "capacity_direct", "capacity_contrast", "award_direct",
              "award_facet_temporal", "award_facet_recipient_type", "award_missing"}
FromView(e) ==
  /\ ~e.shown /\ \E v \in ViewNames : e.record = <<v, 0>>
  /\ \/ e.group \in AcquisitionGroups(relation) /\ e.model = Enumerator
     \/ e.group = CrossModel /\ e.model = SecondModel
FromBlindVerifier(e) ==
  e.shown /\ e.group = BlindVerifier /\ e.record = <<"verify", "standard", e.key>>
FromReading(e) ==
  /\ e.shown /\ e.group = BlindVerifier /\ e.record = <<"m17", e.key>>
  /\ \E x \in readings : x.available /\ x.target = Target("ENTITY_CANDIDATE", e.key)
CheckGroups == {"M18_REVERSE", "M18_COUNTERFACTUAL", "M18_KEY_CONDITION", "M18_CANDIDATE_FREE_RECALL"}
FromCheck(e) ==
  /\ e.group \in CheckGroups
  /\ \E x \in checks : e.record = x.origin /\ ~x.error /\ x.raw # "NONE"
Sourced(e) == FromView(e) \/ FromBlindVerifier(e) \/ FromReading(e) \/ FromCheck(e)
EdgesNameTheirSource == \A e \in graph.edges : Sourced(e)

\* A target is read once and a check made once.
ReadOnce ==
  /\ IsFiniteSet(readings)
  /\ \A x \in readings : /\ x.calls \in Nat /\ x.available \in BOOLEAN
                         /\ x.target = Target(x.target.kind, x.target.id)
  /\ \A x, y \in readings : x.target = y.target => x = y
  /\ Asking => readings = {}
  /\ Reading => \A x \in readings : x.target \in done
CheckedOnce ==
  /\ IsFiniteSet(checks)
  /\ \A x \in checks :
       /\ x.check = Check(x.check.kind, x.check.target, x.check.class)
       /\ x.origin = CheckOrigin(x.check) /\ x.model = Enumerator
       /\ x.group \in CheckGroups /\ x.recalled \subseteq Keys
  /\ \A x, y \in checks : x.origin = y.origin => x = y
  /\ Asking \/ Reading => checks = {}
  /\ Checking => \A x \in checks : x.check \in done

CallsAreSpent ==
  /\ spent = Cost(readings, checks)
  /\ LedgerCountsEveryCall

SecondFamilySaid(k) ==
  \/ \E e \in graph.edges : e.key = k /\ e.model = SecondModel /\ ~e.shown
  \/ \E o \in spec.obs : o.key = k /\ o.model = SecondModel /\ o.kind = "TARGET"
CreditIsEarned ==
  /\ \A k \in DOMAIN base.candidates : base.candidates[k].x => SecondFamilySaid(k)
  /\ \A k \in DOMAIN layer4.candidates : layer4.candidates[k].x => SecondFamilySaid(k)

IInv ==
  /\ Shapes
  /\ NothingIsMinted /\ RebridgingIsIdempotent
  /\ EdgesNameTheirSource
  /\ ReadOnce /\ CheckedOnce /\ CallsAreSpent
  /\ SettledUnitsWereRead
  /\ CreditIsEarned

-----------------------------------------------------------------------------
(* What a step adds to the graph *)

\* The families of its contract that a relation's views ask in.
LEMMA GroupFacts ==
  /\ {"direct", "structural"} \subseteq AcquisitionGroups(Borders)
  /\ {"direct"} \subseteq AcquisitionGroups(Death)
  /\ {"direct"} \subseteq AcquisitionGroups(Stock)
  /\ {"direct", "contrastive"} \subseteq AcquisitionGroups(Area)
  /\ {"direct", "contrastive"} \subseteq AcquisitionGroups(Capacity)
  /\ {"direct", "structural", "missingness"} \subseteq AcquisitionGroups(Award)
<1>1. /\ ContractOf(Borders) = BordersContract /\ ContractOf(Death) = DeathContract
      /\ ContractOf(Stock) = StockContract /\ ContractOf(Area) = AreaContract
      /\ ContractOf(Capacity) = CapacityContract /\ ContractOf(Award) = AwardContract
  BY DEF ContractOf, Borders, Death, Stock, Area, Capacity, Award
<1>2. {"direct", "structural"} \subseteq AcquisitionGroups(Borders)
  BY <1>1 DEF AcquisitionGroups, EligibleGroups, BordersContract, Contract
<1>3. {"direct"} \subseteq AcquisitionGroups(Death)
  BY <1>1 DEF AcquisitionGroups, EligibleGroups, DeathContract, Contract
<1>4. {"direct"} \subseteq AcquisitionGroups(Stock)
  BY <1>1 DEF AcquisitionGroups, EligibleGroups, StockContract, Contract
<1>5. {"direct", "contrastive"} \subseteq AcquisitionGroups(Area)
  BY <1>1 DEF AcquisitionGroups, EligibleGroups, AreaContract, Contract
<1>6. {"direct", "contrastive"} \subseteq AcquisitionGroups(Capacity)
  BY <1>1 DEF AcquisitionGroups, EligibleGroups, CapacityContract, Contract
<1>7. {"direct", "structural", "missingness"} \subseteq AcquisitionGroups(Award)
  BY <1>1 DEF AcquisitionGroups, EligibleGroups, AwardContract, Contract
<1> QED BY <1>2, <1>3, <1>4, <1>5, <1>6, <1>7

\* No contract declares the second model's recall or a verifier as a family.
LEMMA CrossModelAcquiresNothing ==
  ASSUME NEW r \in AllRelations
  PROVE  /\ CrossModel \notin AcquisitionGroups(r) /\ BlindVerifier \notin AcquisitionGroups(r)
         /\ \A x \in CheckGroups : x \notin AcquisitionGroups(r)
<1>1. AcquisitionGroups(r) \subseteq
        {"direct", "structural", "description", "contrastive", "missingness", "reverse"}
  <2>1. ContractOf(r) \in {BordersContract, DeathContract, StockContract, AreaContract,
                           CapacityContract, AwardContract}
    BY DEF AllRelations, ContractOf
  <2> QED BY <2>1 DEF AcquisitionGroups, EligibleGroups, BordersContract, DeathContract,
             StockContract, AreaContract, CapacityContract, AwardContract, Contract
<1> HIDE DEF AcquisitionGroups
<1> QED BY <1>1 DEF CrossModel, BlindVerifier, CheckGroups

LEMMA ViewFacts ==
  ASSUME NEW r \in AllRelations, NEW i \in DOMAIN ViewsOf(r)
  PROVE  LET v == ViewsOf(r)[i]
         IN /\ v.view \in ViewNames
            /\ v.group = "EXISTENCE_GATE" \/ v.group \in AcquisitionGroups(r)
<1> HIDE DEF AcquisitionGroups
<1> USE GroupFacts DEF ViewsOf, View, ViewNames
<1>1. CASE r = Borders
  BY <1>1 DEF Borders, Death, Stock, Area, Capacity, Award
<1>2. CASE r = Death
  BY <1>2 DEF Borders, Death, Stock, Area, Capacity, Award
<1>3. CASE r = Stock
  BY <1>3 DEF Borders, Death, Stock, Area, Capacity, Award
<1>4. CASE r = Area
  BY <1>4 DEF Borders, Death, Stock, Area, Capacity, Award
<1>5. CASE r = Capacity
  BY <1>5 DEF Borders, Death, Stock, Area, Capacity, Award
<1>6. CASE r = Award
  BY <1>6 DEF Borders, Death, Stock, Area, Capacity, Award
<1> QED BY <1>1, <1>2, <1>3, <1>4, <1>5, <1>6 DEF AllRelations

\* Every relation has a view that asks for candidates.
LEMMA RecallViewFacts ==
  ASSUME NEW r \in AllRelations
  PROVE  FirstRecallView(r).view \in ViewNames
<1> DEFINE views == ViewsOf(r)
           asking == {i \in DOMAIN views : views[i].group # "EXISTENCE_GATE"}
<1>1. /\ DOMAIN views \in {1..2, 1..4}
      /\ views[2].group # "EXISTENCE_GATE"
  BY DEF ViewsOf, View, AllRelations, Borders, Death, Stock, Area, Capacity, Award
<1> HIDE DEF views
<1>2. asking # {} /\ asking \subseteq Int /\ IsFiniteSet(asking)
  <2>1. 2 \in asking
    BY <1>1
  <2>2. IsFiniteSet(1..2) /\ IsFiniteSet(1..4)
    <3>1. 1 \in Int /\ 2 \in Int /\ 4 \in Int
      OBVIOUS
    <3> QED BY <3>1, FS_Interval, Zenon
  <2> QED BY <1>1, <2>1, <2>2, FS_Subset
<1>3. Min(asking) \in asking
  BY <1>2, MaxMinFacts
<1>4. FirstRecallView(r) = views[Min(asking)]
  BY DEF FirstRecallView, views
<1>5. Min(asking) \in DOMAIN views
  BY <1>3
<1> QED BY <1>4, <1>5, ViewFacts DEF views

\* What a step may do: new candidates come with an edge of a recall, new edges
\* name their source.
Grows(g, h) ==
  /\ GraphShape(h)
  /\ g.edges \subseteq h.edges /\ g.held \subseteq h.held
  /\ \A e \in h.edges \ g.edges : e.key \in h.held /\ Sourced(e)
  /\ \A k \in h.held \ g.held : \E e \in h.edges : e.key = k /\ Recalled(e)

LEMMA SameEdgesGrow ==
  ASSUME NEW g, NEW h, GraphShape(h), h.held = g.held, h.edges = g.edges
  PROVE  Grows(g, h)
BY DEF Grows

\* Mentions of a generation that was shown nobody.
LEMMA MentionsGrow ==
  ASSUME NEW g, GraphShape(g), NEW v \in ViewNames, NEW group, NEW model, NEW named,
         \/ named = {}
         \/ group \in AcquisitionGroups(relation) /\ model = Enumerator
         \/ group = CrossModel /\ model = SecondModel
  PROVE  Grows(g, AddMentions(g, Record(v, 0, group, model), named))
<1> DEFINE r == Record(v, 0, group, model)
           h == AddMentions(g, r, named)
<1>1. /\ GraphShape(h) /\ h.held = g.held \cup named
      /\ h.edges = g.edges \cup {Mention(k, r) : k \in named}
  BY AddMentionsFacts
<1>2. ASSUME NEW k \in named
      PROVE  LET e == Mention(k, r) IN e.key = k /\ FromView(e) /\ Recalled(e)
  BY DEF Mention, Edge, Record, RecordId, FromView, Recalled
<1> HIDE DEF h, r
<1> QED BY <1>1, <1>2 DEF Grows, Sourced, h, r

\* A verdict of the blind verifier.
LEMMA VerdictGrows ==
  ASSUME NEW g, GraphShape(g), NEW k, NEW ds
  PROVE  Grows(g, VerifyOne(g, k, ds))
<1> DEFINE v == Aggregate(k, ds)
           e == VerdictEdge(v)
<1>1. e.key = v.key /\ FromBlindVerifier(e)
  BY DEF VerdictEdge, Edge, Aggregate, FromBlindVerifier
<1> HIDE DEF v, e
<1>2. Grows(g, AddVerification(g, v))
  <2> DEFINE h == AddVerification(g, v)
  <2>1. /\ GraphShape(h) /\ h.held = g.held
        /\ h.edges = IF v.key \in g.held /\ Attachable(g, VerdictEdge(v))
                     THEN g.edges \cup {VerdictEdge(v)} ELSE g.edges
    BY AddVerificationFacts
  <2> HIDE DEF h
  <2>2. Grows(g, h)
    BY <1>1, <2>1 DEF Grows, Sourced, e
  <2> QED BY <2>2 DEF h
<1>3. Grows(g, g)
  BY SameEdgesGrow
<1> QED BY <1>2, <1>3 DEF VerifyOne, v

\* Evidence that stands came from a record that had an outcome.
LEMMA OutcomeFacts ==
  ASSUME NEW r, NEW x, NEW key, NEW families, NEW known,
         LET c == StructuralEvidence(r, x, key, families, known)
         IN c.status = "RESOLVED" /\ OutcomeSigns(c.outcome)
  PROVE  ~x.error /\ x.raw # "NONE"
BY DEF StructuralEvidence, OutcomeSigns, OutcomeMap, ReconstructionMap

\* What Layer 4 says of a target, it says of a reading of that target.
LEMMA AboutFacts ==
  ASSUME NEW results, NEW target, EvidenceAbout(results, target).availability = "AVAILABLE"
  PROVE  \E x \in results : /\ x.target = target /\ x.available
                            /\ EvidenceAbout(results, target) = SpecialistEvidence(x)
<1> DEFINE mine == {x \in results : x.target = target}
           y == CHOOSE x \in mine : TRUE
<1>1. mine # {}
  BY DEF EvidenceAbout, NoReading
<1>2. y \in mine
  BY <1>1
<1> HIDE DEF y, mine
<1>3. EvidenceAbout(results, target) = SpecialistEvidence(y)
  BY <1>1 DEF EvidenceAbout, mine, y
<1>4. y.available
  BY <1>3 DEF SpecialistEvidence
<1> QED BY <1>2, <1>3, <1>4 DEF mine

\* The bridge of an integrated state brings edges that name their source.
LEMMA BridgeGrows ==
  ASSUME NEW g, GraphShape(g), NEW families,
         \A x \in checks : x.group \in CheckGroups
  PROVE  Grows(g, ApplyBridge(g, Integrate(relation, base, readings, checks, families)))
<1> DEFINE state == Integrate(relation, base, readings, checks, families)
           verifier(k) == EvidenceAbout(readings, Target("ENTITY_CANDIDATE", k))
           on(k) == EvidenceOn(relation, base, checks, families, k)
           read == BridgedReadings(state)
           made == BridgedChecks(state)
           f == BridgeVerdicts(g, read)
           h == ApplyBridge(g, state)
<1>1. /\ GraphShape(h) /\ h.held = g.held
      /\ h.edges = g.edges \cup NewVerdicts(g, read) \cup NewChecks(f, made)
      /\ f.held = g.held
  <2> HIDE DEF read, made, state
  <2> QED BY BridgeFacts, BridgeVerdictsFacts DEF ApplyBridge, read, made
<1>2. \A k \in DOMAIN state.candidates :
        state.candidates[k].verifier = verifier(k) /\ state.candidates[k].checks = on(k)
  BY DEF Integrate, Finish
<1> HIDE DEF state, verifier, on
<1>3. ASSUME NEW e \in NewVerdicts(g, read)
      PROVE  e.key \in g.held /\ FromReading(e)
  <2>1. PICK k \in DOMAIN read : k \in g.held /\ e = VerdictEdge(VerdictOf(k, read[k]))
    BY <1>3 DEF NewVerdicts
  <2>2. k \in DOMAIN state.candidates /\ state.candidates[k].verifier.availability = "AVAILABLE"
    BY <2>1 DEF BridgedReadings
  <2>3. \E x \in readings : x.target = Target("ENTITY_CANDIDATE", k) /\ x.available
    BY <1>2, <2>2, AboutFacts DEF verifier
  <2>4. e.key = k /\ e.shown /\ e.group = BlindVerifier /\ e.record = <<"m17", k>>
    BY <2>1 DEF VerdictEdge, VerdictOf, Edge
  <2> QED BY <2>1, <2>3, <2>4 DEF FromReading
<1>4. ASSUME NEW e \in NewChecks(f, made)
      PROVE  e.key \in g.held /\ FromCheck(e)
  <2>1. PICK c \in made : /\ c.status = "RESOLVED" /\ OutcomeSigns(c.outcome)
                          /\ c.key \in g.held /\ e = CheckEdge(c)
    BY <1>1, <1>4 DEF NewChecks
  <2>2. PICK k \in DOMAIN state.candidates : c \in on(k)
    BY <1>2, <2>1 DEF BridgedChecks
  <2>3. PICK x \in checks, known \in BOOLEAN : c = StructuralEvidence(relation, x, k, families, known)
    BY <2>2 DEF on, EvidenceOn
  <2>4. ~x.error /\ x.raw # "NONE"
    BY <2>1, <2>3, OutcomeFacts
  <2>5. e.key = c.key /\ e.record = x.origin /\ e.group = x.group
    BY <2>1, <2>3 DEF CheckEdge, Edge, StructuralEvidence
  <2> QED BY <2>1, <2>4, <2>5 DEF FromCheck
<1> HIDE DEF f, h, read, made
<1>5. Grows(g, h)
  BY <1>1, <1>3, <1>4 DEF Grows, Sourced
<1> QED BY <1>5 DEF h, state

\* One step of the query, whatever it is.
LEMMA StepGrows ==
  ASSUME Shapes, CheckedOnce, Next
  PROVE  core' = core /\ Grows(graph, graph')
<1>1. GraphShape(graph) /\ relation \in AllRelations
  BY AnswersNameKeys DEF Shapes
<1>2. graph' = graph => Grows(graph, graph')
  BY <1>1, SameEdgesGrow
<1>3. ASSUME RunView PROVE core' = core /\ Grows(graph, graph')
  <2> DEFINE view == ViewsOf(relation)[Head(todo)]
  <2>1. PICK named \in Answers(view) :
          graph' = AddMentions(graph, Record(view.view, 0, view.group, Enumerator), named)
    BY <1>3 DEF RunView
  <2>2. Head(todo) \in DOMAIN ViewsOf(relation)
    BY <1>3 DEF RunView, Shapes
  <2> HIDE DEF view
  <2>3. /\ view.view \in ViewNames
        /\ view.group = "EXISTENCE_GATE" \/ view.group \in AcquisitionGroups(relation)
    BY <1>1, <2>2, ViewFacts DEF view
  <2>4. view.group = "EXISTENCE_GATE" => named = {}
    BY <2>1 DEF Answers
  <2>5. Grows(graph, graph')
    BY <1>1, <2>1, <2>3, <2>4, MentionsGrow
  <2> QED BY <1>3, <2>5 DEF RunView, core
<1>4. ASSUME FinishViews PROVE core' = core /\ Grows(graph, graph')
  BY <1>1, <1>4, HardRulesFacts, SameEdgesGrow DEF FinishViews, core
<1>5. ASSUME ScoreGate PROVE core' = core /\ Grows(graph, graph')
  <2>1. PICK answer : graph' = [graph EXCEPT !.gate = IF answer = "UNAVAILABLE" THEN @ ELSE answer]
    BY <1>5 DEF ScoreGate
  <2>2. GraphShape(graph') /\ graph'.held = graph.held /\ graph'.edges = graph.edges
    BY <1>1, <2>1 DEF GraphShape
  <2> QED BY <1>5, <2>2, SameEdgesGrow DEF ScoreGate, core
<1>6. ASSUME CrossModelRecall PROVE core' = core /\ Grows(graph, graph')
  <2> DEFINE r == Record(FirstRecallView(relation).view, 0, CrossModel, SecondModel)
  <2>1. PICK named : graph' = Tiered(HardRules(AddMentions(graph, r, named), relation), relation)
    BY <1>6 DEF CrossModelRecall, CrossModelRecord
  <2> DEFINE f == AddMentions(graph, r, named)
  <2>2. Grows(graph, f)
    BY <1>1, RecallViewFacts, MentionsGrow
  <2> HIDE DEF f, r
  <2>3. GraphShape(graph') /\ graph'.held = f.held /\ graph'.edges = f.edges
    <3>1. GraphShape(f)
      BY <2>2 DEF Grows
    <3> QED BY <2>1, <3>1, HardRulesFacts, TieredFacts DEF f
  <2>4. Grows(graph, graph')
    BY <2>2, <2>3 DEF Grows
  <2> QED BY <1>6, <2>4 DEF CrossModelRecall, core
<1>7. ASSUME ChooseVerifications PROVE core' = core /\ Grows(graph, graph')
  BY <1>2, <1>7 DEF ChooseVerifications, core
<1>8. ASSUME Verify PROVE core' = core /\ Grows(graph, graph')
  BY <1>1, <1>8, VerdictGrows DEF Verify, core
<1>9. ASSUME FinishVerifying PROVE core' = core /\ Grows(graph, graph')
  BY <1>2, <1>9 DEF FinishVerifying, core
<1>10. ASSUME BuildConsensus PROVE core' = core /\ Grows(graph, graph')
  BY <1>2, <1>10 DEF BuildConsensus, core
<1>11. ASSUME Reintegrate PROVE core' = core /\ Grows(graph, graph')
  BY <1>1, <1>11, BridgeGrows DEF Reintegrate, core, CheckedOnce
<1>12. ASSUME ReadTarget PROVE core' = core /\ Grows(graph, graph')
  BY <1>2, <1>12 DEF ReadTarget, core
<1>13. ASSUME StopReading PROVE core' = core /\ Grows(graph, graph')
  BY <1>2, <1>13 DEF StopReading, core
<1>14. ASSUME RunCheck PROVE core' = core /\ Grows(graph, graph')
  BY <1>2, <1>14 DEF RunCheck, core
<1>15. ASSUME StopChecking PROVE core' = core /\ Grows(graph, graph')
  BY <1>2, <1>15 DEF StopChecking, core
<1>16. ASSUME Decide PROVE core' = core /\ Grows(graph, graph')
  BY <1>1, <1>16, ResolvedFacts, SameEdgesGrow DEF Decide, core
<1>17. ASSUME Finished PROVE core' = core /\ Grows(graph, graph')
  BY <1>2, <1>17 DEF Finished, vars, core
<1> QED BY <1>3, <1>4, <1>5, <1>6, <1>7, <1>8, <1>9, <1>10, <1>11, <1>12, <1>13, <1>14, <1>15,
           <1>16, <1>17 DEF Next

\* A source once named is not forgotten: readings and checks are only added.
LEMMA SourcesStay ==
  ASSUME Next, core' = core, NEW e, Sourced(e)
  PROVE  Sourced(e)'
<1>1. readings \subseteq readings' /\ checks \subseteq checks'
  BY DEF Next, RunView, FinishViews, ScoreGate, CrossModelRecall, ChooseVerifications, Verify,
         FinishVerifying, BuildConsensus, Reintegrate, ReadTarget, StopReading, RunCheck,
         StopChecking, Decide, Finished, vars, evidence
<1> QED BY <1>1 DEF core, Sourced, FromView, FromBlindVerifier, FromReading, FromCheck

-----------------------------------------------------------------------------
(* Each part of the invariant is kept *)

LEMMA TailIsSequence ==
  ASSUME NEW S, NEW s \in Seq(S), s # <<>>
  PROVE  Tail(s) \in Seq(S)
OBVIOUS

LEMMA ShapesKept ==
  ASSUME Shapes, CheckedOnce, Next
  PROVE  Shapes'
<1>1. relation' = relation /\ spec' = spec /\ GraphShape(graph')
  BY StepGrows DEF core, Grows
<1>2. (Asking \/ Reading \/ Checking \/ Closing)' /\ resume' \in {"m17", "m18", "decide"}
  BY DEF Shapes, Asking, Reading, Checking, Closing, Next, RunView, FinishViews, ScoreGate,
         CrossModelRecall, ChooseVerifications, Verify, FinishVerifying, BuildConsensus,
         Reintegrate, ReadTarget, StopReading, RunCheck, StopChecking, Decide, Finished, vars
<1>3. (step = "views" => todo \in Seq(DOMAIN ViewsOf(relation)))'
  <2> SUFFICES ASSUME step' = "views" PROVE todo' \in Seq(DOMAIN ViewsOf(relation))
    BY <1>1
  <2>1. step = "views" /\ (todo' = todo \/ (todo # <<>> /\ todo' = Tail(todo)))
    BY DEF Shapes, Next, RunView, FinishViews, ScoreGate, CrossModelRecall,
           ChooseVerifications, Verify, FinishVerifying, BuildConsensus, Reintegrate, ReadTarget,
           StopReading, RunCheck, StopChecking, Decide, Finished, vars
  <2> DEFINE D == DOMAIN ViewsOf(relation)
  <2>2. todo \in Seq(D)
    BY <2>1 DEF Shapes
  <2> HIDE DEF D
  <2>3. todo' \in Seq(D)
    BY <2>1, <2>2, TailIsSequence
  <2> QED BY <2>3 DEF D
<1> QED BY <1>1, <1>2, <1>3 DEF Shapes

LEMMA EvidenceKept ==
  ASSUME Shapes, CheckedOnce, NothingIsMinted, EdgesNameTheirSource, Next
  PROVE  NothingIsMinted' /\ EdgesNameTheirSource'
<1>1. core' = core /\ relation' = relation /\ Grows(graph, graph')
  BY StepGrows DEF core
<1>2. \A e : Recalled(e)' <=> Recalled(e)
  BY <1>1 DEF Recalled
<1>3. NothingIsMinted'
  BY <1>1, <1>2 DEF NothingIsMinted, Grows
<1>4. EdgesNameTheirSource'
  BY <1>1, SourcesStay DEF EdgesNameTheirSource, Grows
<1> QED BY <1>3, <1>4

LEMMA RebridgingKept ==
  ASSUME Shapes, RebridgingIsIdempotent, Next
  PROVE  RebridgingIsIdempotent'
<1>1. CASE Reintegrate
  <2>1. PICK state : layer4' = state /\ graph' = ApplyBridge(graph, state)
    BY <1>1 DEF Reintegrate
  <2>2. ApplyBridge(graph', state) = graph'
    BY <2>1, BridgeIsIdempotent DEF Shapes, ApplyBridge
  <2> QED BY <2>1, <2>2 DEF RebridgingIsIdempotent
<1>2. CASE StopReading
  BY <1>2 DEF StopReading, RebridgingIsIdempotent, derived
<1>3. CASE Finished
  BY <1>3 DEF Finished, vars, RebridgingIsIdempotent, derived
<1>4. CASE ~Reintegrate /\ ~StopReading /\ ~Finished
  BY <1>4 DEF RebridgingIsIdempotent, Shapes, Asking, Next, RunView, FinishViews,
         ScoreGate, CrossModelRecall, ChooseVerifications, Verify, FinishVerifying,
         BuildConsensus, ReadTarget, RunCheck, StopChecking, Decide
<1> QED BY <1>1, <1>2, <1>3, <1>4

\* One result of Module 17 is a record of a reading and of calls.
LEMMA ResultFacts ==
  ASSUME NEW c, NEW target, NEW answers
  PROVE  LET x == SpecialistResult(c, target, answers)
         IN x.target = target /\ x.available \in BOOLEAN /\ x.calls \in Nat
<1> DEFINE frames == FramesOf(target)
           n == Len(frames)
           cold(i) == ReadOne(c, frames[i], answers[frames[i]]).cold
           counted == {i \in 1..n : [j \in DOMAIN frames |->
                                     ReadOne(c, frames[j], answers[frames[j]])][i].cold}
           x == SpecialistResult(c, target, answers)
<1>1. n \in Nat
  BY FramesAreSequences DEF FramesOf
<1>2. IsFiniteSet(counted) /\ Cardinality(counted) \in Nat
  <2> HIDE DEF n
  <2>1. IsFiniteSet(1..n)
    BY <1>1, FS_Interval
  <2> QED BY <2>1, FS_Subset, FS_CardinalityType
<1>3. x.calls = n + Cardinality(counted) /\ x.target = target /\ x.available \in BOOLEAN
  BY DEF SpecialistResult
<1> HIDE DEF counted, n, x
<1> QED BY <1>1, <1>2, <1>3 DEF x

LEMMA TargetFacts ==
  ASSUME NEW r, NEW target \in VerifiableTargets(base, r)
  PROVE  target = Target(target.kind, target.id)
BY DEF VerifiableTargets, Target

LEMMA ReadOnceKept ==
  ASSUME Shapes, ReadOnce, Next
  PROVE  ReadOnce'
<1>1. CASE ReadTarget
  <2>1. PICK target, answers :
          LET x == SpecialistResult(controls, target, answers)
          IN /\ target \in VerifiableTargets(base, relation)
             /\ readings' = IF target \in {y.target : y \in readings} THEN readings
                            ELSE readings \cup {x}
             /\ done' = done \cup {target}
    BY <1>1 DEF ReadTarget
  <2> DEFINE x == SpecialistResult(controls, target, answers)
  <2>2. /\ x.target = target /\ x.available \in BOOLEAN /\ x.calls \in Nat
        /\ x.target = Target(x.target.kind, x.target.id)
    BY <2>1, ResultFacts, TargetFacts
  <2> HIDE DEF x
  <2>3. readings' = readings \/ (readings' = readings \cup {x} /\ \A y \in readings : y.target # target)
    BY <2>1 DEF x
  <2>4. IsFiniteSet(readings')
    BY <2>3, FS_AddElement DEF ReadOnce
  <2>5. \A y \in readings' : /\ y.calls \in Nat /\ y.available \in BOOLEAN
                             /\ y.target = Target(y.target.kind, y.target.id)
    BY <2>2, <2>3 DEF ReadOnce
  <2>6. \A y, z \in readings' : y.target = z.target => y = z
    BY <2>2, <2>3 DEF ReadOnce
  <2>7. \A y \in readings' : y.target \in done'
    BY <1>1, <2>1, <2>2, <2>3 DEF ReadOnce, Reading, ReadTarget
  <2>8. step' = "integrate"
    BY <1>1 DEF ReadTarget
  <2> QED BY <2>4, <2>5, <2>6, <2>7, <2>8 DEF ReadOnce, Asking
<1>2. CASE ~ReadTarget
  <2>1. readings' = readings
    BY <1>2 DEF Next, RunView, FinishViews, ScoreGate, CrossModelRecall, ChooseVerifications,
           Verify, FinishVerifying, BuildConsensus, Reintegrate, StopReading, RunCheck,
           StopChecking, Decide, Finished, vars, evidence
  <2>2. /\ Asking' => Asking
        /\ Reading' => Asking \/ (Reading /\ done' = done)
    BY <1>2 DEF Shapes, Asking, Reading, Next, RunView, FinishViews, ScoreGate, CrossModelRecall,
           ChooseVerifications, Verify, FinishVerifying, BuildConsensus, Reintegrate,
           StopReading, RunCheck, StopChecking, Decide, Finished, vars, evidence
  <2> QED BY <2>1, <2>2 DEF ReadOnce
<1> QED BY <1>1, <1>2

\* Every check of the catalogue is a record of what it checks.
LEMMA EligibleFacts ==
  ASSUME NEW c \in EligibleChecks(base, relation)
  PROVE  c = Check(c.kind, c.target, c.class) /\ StructuralGroup(c.kind) \in CheckGroups
BY DEF EligibleChecks, Check, StructuralGroup, CheckGroups

LEMMA OriginFacts ==
  ASSUME NEW c, NEW d, c = Check(c.kind, c.target, c.class), d = Check(d.kind, d.target, d.class),
         CheckOrigin(c) = CheckOrigin(d)
  PROVE  c = d
BY DEF CheckOrigin, Check

\* A check nobody has made becomes a record under an origin of its own.
Records(x) ==
  /\ x.check \notin done /\ done' = done \cup {x.check}
  /\ x.check = Check(x.check.kind, x.check.target, x.check.class)
  /\ x.origin = CheckOrigin(x.check) /\ x.model = Enumerator
  /\ x.group \in CheckGroups /\ x.recalled \subseteq Keys
  /\ \A y \in checks : y.origin # x.origin
  /\ checks' = checks \cup {x}

LEMMA RunCheckFacts ==
  ASSUME CheckedOnce, RunCheck
  PROVE  \E x : Records(x)
<1>1. PICK c \in EligibleChecks(base, relation) \ done : \E answer \in CheckAnswers[c.kind] :
        /\ checks' = IF CheckOrigin(c) \in {x.origin : x \in checks} THEN checks
                     ELSE checks \cup {Execute(c, answer, c.target.id, KnownKeys(base, relation))}
        /\ done' = done \cup {c}
  BY DEF RunCheck
<1>2. PICK answer \in CheckAnswers[c.kind] :
        /\ checks' = IF CheckOrigin(c) \in {x.origin : x \in checks} THEN checks
                     ELSE checks \cup {Execute(c, answer, c.target.id, KnownKeys(base, relation))}
        /\ done' = done \cup {c}
  BY <1>1
<1> DEFINE x == Execute(c, answer, c.target.id, KnownKeys(base, relation))
<1>3. c = Check(c.kind, c.target, c.class) /\ StructuralGroup(c.kind) \in CheckGroups
  BY EligibleFacts
<1>4. /\ x.check = c /\ x.origin = CheckOrigin(c) /\ x.model = Enumerator
      /\ x.group = StructuralGroup(c.kind)
      /\ x.recalled = IF c.kind = "CANDIDATE_FREE_RECALL" THEN Range(answer.named) ELSE {}
  BY DEF Execute
<1> HIDE DEF x
<1>5. x.recalled \subseteq Keys
  BY <1>4, AnswersNameKeys
<1>6. \A y \in checks : y.origin # CheckOrigin(c)
  BY <1>1, <1>3, OriginFacts DEF CheckedOnce, RunCheck, Checking
<1>7. checks' = checks \cup {x}
  BY <1>2, <1>6 DEF x
<1>8. Records(x)
  BY <1>1, <1>3, <1>4, <1>5, <1>6, <1>7 DEF Records
<1> QED BY <1>8

LEMMA CheckedOnceKept ==
  ASSUME Shapes, CheckedOnce, Next
  PROVE  CheckedOnce'
<1>1. CASE RunCheck
  <2>1. PICK x : Records(x)
    BY <1>1, RunCheckFacts
  <2>2. IsFiniteSet(checks')
    BY <2>1, FS_AddElement DEF CheckedOnce, Records
  <2>3. step' = "integrate" /\ resume' = "m18" /\ Checking
    BY <1>1 DEF RunCheck, Checking
  <2>4. \A y \in checks' :
          /\ y.check = Check(y.check.kind, y.check.target, y.check.class)
          /\ y.origin = CheckOrigin(y.check) /\ y.model = Enumerator
          /\ y.group \in CheckGroups /\ y.recalled \subseteq Keys
    BY <2>1 DEF CheckedOnce, Records
  <2>5. \A y, z \in checks' : y.origin = z.origin => y = z
    BY <2>1 DEF CheckedOnce, Records
  <2>6. \A y \in checks' : y.check \in done'
    BY <2>1, <2>3 DEF CheckedOnce, Records
  <2> QED BY <2>2, <2>3, <2>4, <2>5, <2>6 DEF CheckedOnce, Asking, Reading
<1>2. CASE ~RunCheck
  <2>1. checks' = checks
    BY <1>2 DEF Next, RunView, FinishViews, ScoreGate, CrossModelRecall, ChooseVerifications,
           Verify, FinishVerifying, BuildConsensus, Reintegrate, ReadTarget, StopReading,
           StopChecking, Decide, Finished, vars, evidence
  <2>2. /\ Asking' \/ Reading' => Asking \/ Reading
        /\ Checking' => Asking \/ Reading \/ (Checking /\ done' = done)
    BY <1>2 DEF Shapes, Asking, Reading, Checking, Next, RunView, FinishViews, ScoreGate,
           CrossModelRecall, ChooseVerifications, Verify, FinishVerifying, BuildConsensus,
           Reintegrate, ReadTarget, StopReading, StopChecking, Decide, Finished, vars, evidence
  <2> QED BY <2>1, <2>2 DEF CheckedOnce
<1> QED BY <1>1, <1>2

\* The calls of the records made so far, and what one more costs.
LEMMA OriginsAreCounted ==
  ASSUME NEW records, IsFiniteSet(records)
  PROVE  LET O == {x.origin : x \in records} IN IsFiniteSet(O) /\ Cardinality(O) \in Nat
<1> DEFINE f == [x \in records |-> x.origin]
           O == {x.origin : x \in records}
<1>1. {f[x] : x \in records} = O
  OBVIOUS
<1>2. DOMAIN f = records
  OBVIOUS
<1> HIDE DEF f, O
<1>3. IsFiniteSet(O)
  BY <1>1, <1>2, FiniteImage
<1> QED BY <1>3, FS_CardinalityType DEF O

LEMMA NothingCosts == Cost({}, {}) = 0
<1> DEFINE f == [x \in {} |-> x.calls]
<1>1. IsFiniteSet({}) /\ Cardinality({}) = 0
  BY FS_EmptySet
<1>2. DOMAIN f = {} /\ \A x \in {} : f[x] \in Int
  OBVIOUS
<1> HIDE DEF f
<1>3. SumFunctionOnSet(f, {}) = 0
  BY <1>1, <1>2, SumFirst
<1>4. SumFunction(f) = 0
  BY <1>2, <1>3 DEF SumFunction
<1>5. {x.origin : x \in {}} = {}
  OBVIOUS
<1> QED BY <1>1, <1>4, <1>5 DEF Cost, f

LEMMA ReadingCosts ==
  ASSUME NEW results, IsFiniteSet(results), \A y \in results : y.calls \in Nat,
         NEW records, IsFiniteSet(records), NEW x, x \notin results, x.calls \in Nat
  PROVE  Cost(results \cup {x}, records) = Cost(results, records) + x.calls
<1> DEFINE f == [y \in results \cup {x} |-> y.calls]
           g == [y \in results |-> y.calls]
           n == Cardinality({y.origin : y \in records})
<1>1. n \in Nat
  BY OriginsAreCounted
<1>2. /\ DOMAIN f = results \cup {x} /\ DOMAIN g = results
      /\ \A y \in results \cup {x} : f[y] \in Int
      /\ \A y \in results : g[y] = f[y]
      /\ f[x] = x.calls
  OBVIOUS
<1>3. Cost(results \cup {x}, records) = SumFunction(f) + n /\ Cost(results, records) = SumFunction(g) + n
  BY DEF Cost
<1> HIDE DEF f, g, n
<1>4. SumFunction(f) = f[x] + SumFunction(g) /\ SumFunction(g) \in Int
  BY <1>2, SumFunctionAdds
<1> QED BY <1>1, <1>2, <1>3, <1>4

LEMMA CheckCosts ==
  ASSUME NEW results, IsFiniteSet(results), \A y \in results : y.calls \in Nat,
         NEW records, IsFiniteSet(records), NEW x, \A y \in records : y.origin # x.origin
  PROVE  Cost(results, records \cup {x}) = Cost(results, records) + 1
<1> DEFINE g == [y \in results |-> y.calls]
           O == {y.origin : y \in records}
           P == {y.origin : y \in records \cup {x}}
<1>1. IsFiniteSet(O) /\ Cardinality(O) \in Nat
  BY OriginsAreCounted
<1>2. P = O \cup {x.origin} /\ x.origin \notin O
  OBVIOUS
<1>3. DOMAIN g = results /\ \A y \in results : g[y] \in Int
  OBVIOUS
<1>4. /\ Cost(results, records \cup {x}) = SumFunction(g) + Cardinality(P)
      /\ Cost(results, records) = SumFunction(g) + Cardinality(O)
  BY DEF Cost
<1> HIDE DEF g, O, P
<1>5. Cardinality(P) = Cardinality(O) + 1
  BY <1>1, <1>2, FS_AddElement
<1>6. SumFunction(g) \in Int
  BY <1>3, SumFirst DEF SumFunction
<1> QED BY <1>1, <1>4, <1>5, <1>6

LEMMA CallsKept ==
  ASSUME Shapes, ReadOnce, CheckedOnce, CallsAreSpent, Next
  PROVE  CallsAreSpent'
<1>1. CASE ReadTarget
  <2>1. PICK target, answers :
          LET x == SpecialistResult(controls, target, answers)
          IN /\ target \notin done
             /\ readings' = (IF target \in {y.target : y \in readings} THEN readings
                             ELSE readings \cup {x})
             /\ spent' = spent + x.calls
    BY <1>1 DEF ReadTarget
  <2> DEFINE x == SpecialistResult(controls, target, answers)
  <2>2. x.target = target /\ x.calls \in Nat
    BY ResultFacts
  <2>3. Reading /\ checks' = checks /\ step' = "integrate"
    BY <1>1 DEF ReadTarget, Reading
  <2>4. \A y \in readings : y.target # target
    BY <2>1, <2>3 DEF ReadOnce
  <2>5. readings' = readings \cup {x} /\ x \notin readings /\ spent' = spent + x.calls
    BY <2>1, <2>2, <2>4
  <2> HIDE DEF x
  <2>6. spent' = Cost(readings', checks')
    BY <2>2, <2>3, <2>5, ReadingCosts DEF ReadOnce, CheckedOnce, CallsAreSpent
  <2> QED BY <2>3, <2>6 DEF CallsAreSpent, LedgerCountsEveryCall
<1>2. CASE RunCheck
  <2>1. PICK x : Records(x)
    BY <1>2, RunCheckFacts
  <2>2. readings' = readings /\ step' = "integrate" /\ spent' = spent + 1
    BY <1>2 DEF RunCheck
  <2>3. spent' = Cost(readings', checks')
    BY <2>1, <2>2, CheckCosts DEF Records, ReadOnce, CheckedOnce, CallsAreSpent
  <2> QED BY <2>2, <2>3 DEF CallsAreSpent, LedgerCountsEveryCall
<1>3. CASE Reintegrate
  <2>1. layer4'.cost = Cost(readings, checks)
    BY <1>3 DEF Reintegrate, Integrate
  <2>2. readings' = readings /\ checks' = checks /\ spent' = spent
    BY <1>3 DEF Reintegrate, evidence
  <2> QED BY <2>1, <2>2 DEF CallsAreSpent, LedgerCountsEveryCall
<1>4. CASE ~ReadTarget /\ ~RunCheck /\ ~Reintegrate
  <2>1. readings' = readings /\ checks' = checks /\ spent' = spent
    BY <1>4 DEF Next, RunView, FinishViews, ScoreGate, CrossModelRecall, ChooseVerifications,
           Verify, FinishVerifying, BuildConsensus, StopReading, StopChecking, Decide, Finished,
           vars, evidence
  <2>2. step' \in {"m17", "m18", "decide"} =>
          layer4' = layer4 /\ step \in {"m17", "m18", "decide"}
    BY <1>4 DEF Next, RunView, FinishViews, ScoreGate, CrossModelRecall, ChooseVerifications,
           Verify, FinishVerifying, BuildConsensus, StopReading, StopChecking, Decide, Finished,
           vars, derived
  <2> QED BY <2>1, <2>2 DEF CallsAreSpent, LedgerCountsEveryCall
<1> QED BY <1>1, <1>2, <1>3, <1>4

LEMMA ResolvedFromReadings ==
  ASSUME Shapes, SettledUnitsWereRead, Next
  PROVE  SettledUnitsWereRead'
<1>1. CASE Reintegrate
  <2>1. PICK state : /\ state = Integrate(relation, base, readings, checks, PriorFamilies(graph))
                     /\ gap' = Estimate(relation, spec, state)
    BY <1>1 DEF Reintegrate
  <2>2. gap'.units = Units(relation, state) /\ readings' = readings
    BY <1>1, <2>1 DEF Estimate, Reintegrate, evidence
  <2>3. ASSUME NEW i \in DOMAIN state.clusters, ~ClusterUnresolved(state, i)
        PROVE  \E x \in readings : x.target = Target("NUMERIC_CLUSTER", i) /\ x.available
    <3>1. state.clusters[i].verifier = EvidenceAbout(readings, Target("NUMERIC_CLUSTER", i))
      BY <2>1, <2>3 DEF Integrate
    <3>2. EvidenceAbout(readings, Target("NUMERIC_CLUSTER", i)).availability = "AVAILABLE"
      BY <2>3, <3>1 DEF ClusterUnresolved, Unread, EvidenceAbout, NoReading, SpecialistEvidence
    <3> QED BY <3>2, AboutFacts
  <2>4. ASSUME NEW k \in DOMAIN state.candidates, ~CandidateUnresolved(state, k)
        PROVE  \E x \in readings : x.target = Target("ENTITY_CANDIDATE", k) /\ x.available
    <3>1. state.candidates[k].verifier = EvidenceAbout(readings, Target("ENTITY_CANDIDATE", k))
      BY <2>1, <2>4 DEF Integrate, Finish
    <3>2. EvidenceAbout(readings, Target("ENTITY_CANDIDATE", k)).availability = "AVAILABLE"
      BY <2>4, <3>1 DEF CandidateUnresolved, Unread, EvidenceAbout, NoReading, SpecialistEvidence
    <3> QED BY <3>2, AboutFacts
  <2>5. ASSUME ~ExistenceUnresolved(state)
        PROVE  \E x \in readings : x.target.kind = "QUERY_PROPOSITION"
    BY <2>1, <2>5 DEF ExistenceUnresolved, Integrate
  <2> HIDE DEF Target
  <2> SUFFICES ASSUME NEW u \in Units(relation, state), ~u[3]
               PROVE  \E x \in readings :
                        IF u[1] = "existence" THEN x.target.kind = "QUERY_PROPOSITION"
                        ELSE /\ x.target =
                                  Target(IF u[1] = "cluster" THEN "NUMERIC_CLUSTER"
                                         ELSE "ENTITY_CANDIDATE", u[2])
                             /\ x.available
    BY <2>2 DEF SettledUnitsWereRead
  <2>6. \/ \E i \in DOMAIN state.clusters : u = <<"cluster", i, ClusterUnresolved(state, i)>>
        \/ \E k \in DOMAIN state.candidates : u = <<"candidate", k, CandidateUnresolved(state, k)>>
        \/ u = <<"existence", 0, ExistenceUnresolved(state)>>
    BY DEF Units
  <2> QED BY <2>3, <2>4, <2>5, <2>6
<1>2. CASE ~Reintegrate
  <2>1. /\ gap' = gap /\ readings \subseteq readings'
        /\ step' # "integrate" => step # "integrate"
    BY <1>2 DEF Next, RunView, FinishViews, ScoreGate, CrossModelRecall, ChooseVerifications,
           Verify, FinishVerifying, BuildConsensus, ReadTarget, StopReading, RunCheck,
           StopChecking, Decide, Finished, vars, evidence, derived
  <2> QED BY <2>1 DEF SettledUnitsWereRead
<1> QED BY <1>1, <1>2

-----------------------------------------------------------------------------
(* Whoever pays X *)

\* The events of Module 16 that can speak for a key.
LEMMA EventFacts ==
  ASSUME NEW g, NEW s, NEW e \in Events(g, s), e.key # 0
  PROVE  \/ \E d \in g.edges : /\ e.key = d.key /\ e.group = <<"core", d.group>>
                               /\ e.role = CoreRole(d.group)
         \/ \E o \in s.obs : /\ e.key = o.key /\ e.sign = ObservationSign(o)
                             /\ e.group = <<IF o.mined THEN "parametric" ELSE "specialist",
                                             o.group>>
                             /\ e.role = IF o.status THEN "SPECIALIST_GATE"
                                         ELSE CrossFamilyRole(s, o)
<1>1. CASE e \in CoreEvents(g)
  BY <1>1 DEF CoreEvents, Event
<1>2. CASE e \in ParametricEvents(s)
  <2>1. PICK x \in s.recalls :
          e = Event(0, "parametric", x.operation, "PARAMETRIC_MEMORY", "UNKNOWN",
                    OriginOf(x.model, <<x.operation>>, 0), FALSE, "NONE")
    BY <1>2 DEF ParametricEvents
  <2>2. e.key = 0
    BY <2>1 DEF Event
  <2> QED BY <2>2
<1>3. CASE e \in SpecialistEvents(s)
  <2>1. PICK o \in s.obs :
          e = Event(o.key, IF o.mined THEN "parametric" ELSE "specialist", o.group,
                    IF o.status THEN "SPECIALIST_GATE" ELSE CrossFamilyRole(s, o),
                    ObservationSign(o), OriginOf(o.model, <<o.operation>>, 0), FALSE, o.temporal)
    BY <1>3 DEF SpecialistEvents
  <2>2. /\ e.key = o.key /\ e.sign = ObservationSign(o)
        /\ e.group = <<IF o.mined THEN "parametric" ELSE "specialist", o.group>>
        /\ e.role = IF o.status THEN "SPECIALIST_GATE" ELSE CrossFamilyRole(s, o)
    BY <2>1 DEF Event
  <2> QED BY <2>2
<1> QED BY <1>1, <1>2, <1>3 DEF Events

\* A group that pays X, and the two events that make it pay.
LEMMA PaysXFacts ==
  ASSUME NEW events, NEW q \in GroupSupports(events), q.q, q.role \in PaysX
  PROVE  \E d, e \in events : /\ d.role \in PaysX /\ d.group = q.group
                              /\ e.sign = "SUPPORT" /\ e.group = q.group
<1>1. PICK x \in {e.group : e \in events} :
        /\ q.group = x /\ q.role = (CHOOSE e \in events : e.group = x).role
        /\ q.q = \E e \in events : e.group = x /\ e.sign = "SUPPORT"
  BY DEF GroupSupports
<1> DEFINE d == CHOOSE e \in events : e.group = x
<1>2. d \in events /\ d.group = x
  BY <1>1
<1>3. d.role = q.role
  BY <1>1
<1> HIDE DEF d
<1>4. PICK e \in events : e.group = x /\ e.sign = "SUPPORT"
  BY <1>1
<1> QED BY <1>1, <1>2, <1>3, <1>4

\* The consensus pays X for the second model's own word only.
LEMMA ConsensusCredits ==
  ASSUME Shapes, EdgesNameTheirSource,
         NEW k \in DOMAIN Consense(graph, relation, spec).candidates,
         Consense(graph, relation, spec).candidates[k].x
  PROVE  SecondFamilySaid(k)
<1> DEFINE all == Events(graph, spec)
           mine == About(all, k)
<1>1. k \in Named(all) /\ \E q \in GroupSupports(mine) : q.q /\ q.role \in PaysX
  BY DEF Consense, ConsenseOf, CandidateConsensus
<1>2. k # 0
  BY <1>1 DEF Named
<1> HIDE DEF mine
<1>3. PICK d \in mine, e \in mine : d.role \in PaysX /\ e.sign = "SUPPORT" /\ d.group = e.group
  BY <1>1, PaysXFacts
<1>4. d \in all /\ d.key = k /\ e \in all /\ e.key = k
  BY <1>3 DEF mine, About
<1> HIDE DEF all
<1>5. CASE \E c \in graph.edges : c.key = k /\ d.role = CoreRole(c.group)
  <2>1. PICK c \in graph.edges : c.key = k /\ c.group = CrossModel
    BY <1>3, <1>5 DEF PaysX, CoreRole, CrossModel, BlindVerifier
  <2>2. Sourced(c)
    BY DEF EdgesNameTheirSource
  <2>3. c.model = SecondModel /\ ~c.shown
    <3>1. CrossModel \notin AcquisitionGroups(relation)
      BY CrossModelAcquiresNothing, AnswersNameKeys DEF Shapes
    <3> QED BY <2>1, <2>2, <3>1 DEF Sourced, FromView, FromBlindVerifier, FromReading, FromCheck,
               CrossModel, BlindVerifier, CheckGroups
  <2> QED BY <2>1, <2>3 DEF SecondFamilySaid
<1>6. CASE ~\E c \in graph.edges : c.key = k /\ d.role = CoreRole(c.group)
  <2>1. PICK o \in spec.obs :
          /\ d.group = <<IF o.mined THEN "parametric" ELSE "specialist", o.group>>
          /\ d.role = IF o.status THEN "SPECIALIST_GATE" ELSE CrossFamilyRole(spec, o)
    BY <1>2, <1>4, <1>6, EventFacts DEF all
  <2>2. o.cross /\ o.model \notin {x.model : x \in {y \in spec.obs : ~y.cross}}
    BY <1>3, <2>1 DEF PaysX, CrossModel, CrossFamilyRole
  <2>3. o.model = SecondModel
    BY <2>2, ObservationsAreAttributed DEF Shapes
  <2>4. PICK p \in spec.obs :
          /\ p.key = k /\ e.sign = ObservationSign(p)
          /\ e.group = <<IF p.mined THEN "parametric" ELSE "specialist", p.group>>
    <3>1. d.group[1] # "core"
      BY <2>1
    <3>2. ~\E c \in graph.edges : e.group = <<"core", c.group>>
      BY <1>3, <3>1
    <3> QED BY <1>2, <1>4, <3>2, EventFacts DEF all
  <2>5. p.mined = o.mined /\ p.group = o.group
    <3>1. /\ (IF p.mined THEN "parametric" ELSE "specialist") =
             (IF o.mined THEN "parametric" ELSE "specialist")
          /\ p.group = o.group
      <4>1. /\ d.group[1] = IF o.mined THEN "parametric" ELSE "specialist"
            /\ d.group[2] = o.group
        BY <2>1
      <4>2. /\ e.group[1] = IF p.mined THEN "parametric" ELSE "specialist"
            /\ e.group[2] = p.group
        BY <2>4
      <4> QED BY <1>3, <4>1, <4>2
    <3>2. p.mined \in BOOLEAN /\ o.mined \in BOOLEAN
      BY ObservationsAreAttributed DEF Shapes
    <3> QED BY <3>1, <3>2
  <2>6. p.model = SecondModel
    BY <2>2, <2>3, <2>5, ObservationsAreAttributed DEF Shapes
  <2>7. p.kind = "TARGET"
    BY <1>3, <2>4 DEF ObservationSign
  <2> QED BY <2>4, <2>6, <2>7 DEF SecondFamilySaid
<1> QED BY <1>5, <1>6

\* A record credits X for a key only if its model is none of those that had
\* named the key; and somebody had.
LEMMA CreditFacts ==
  ASSUME NEW evidence_, CreditOf(evidence_) = "CREDITED"
  PROVE  \E c \in evidence_ : c.credit = "CREDITED"
<1> DEFINE order == <<"CREDITED", "SAME_FAMILY", "FIRST_DISCOVERY", "UNRESOLVED_PROVENANCE",
                      "TARGET_NOT_RECALLED", "NOT_INDEPENDENT_RECALL">>
           seen == {i \in DOMAIN order : \E c \in evidence_ : c.credit = order[i]}
<1>1. seen # {} /\ order[Min(seen)] = "CREDITED"
  BY DEF CreditOf
<1>2. IsFiniteSet(seen) /\ seen \subseteq Int
  <2>1. DOMAIN order = 1..6 /\ 1 \in Int /\ 6 \in Int
    OBVIOUS
  <2> HIDE DEF order
  <2>2. IsFiniteSet(1..6)
    BY <2>1, FS_Interval, Zenon
  <2> QED BY <2>1, <2>2, FS_Subset
<1> HIDE DEF order
<1>3. Min(seen) \in seen
  BY <1>1, <1>2, MaxMinFacts
<1> QED BY <1>1, <1>3

LEMMA RecordCredits ==
  ASSUME Shapes, NothingIsMinted, EdgesNameTheirSource, CheckedOnce,
         NEW x \in checks, NEW k, NEW known,
         CrossModelCredit(x, k, PriorFamilies(graph), known) = "CREDITED"
  PROVE  SecondFamilySaid(k)
<1> DEFINE families == PriorFamilies(graph)
<1>1. k \in x.recalled /\ families[k] # {} /\ x.model \notin families[k]
  <2> HIDE DEF families
  <2> QED BY DEF CrossModelCredit, families
<1>2. k \in Keys /\ x.model = Enumerator
  BY <1>1 DEF CheckedOnce
<1>3. families[k] = {e.model : e \in {y \in graph.edges : y.key = k}} \ {""}
  BY <1>2 DEF PriorFamilies
<1> HIDE DEF families
<1>4. PICK d \in graph.edges : d.key = k
  BY <1>1, <1>3
<1>5. PICK e \in graph.edges : e.key = k /\ Recalled(e)
  BY <1>4 DEF NothingIsMinted
<1>6. ~e.shown /\ e.model \in {Enumerator, SecondModel}
  <2>1. relation \in AllRelations
    BY AnswersNameKeys DEF Shapes
  <2>2. e.group \notin CheckGroups /\ e.group # BlindVerifier /\ ~e.shown
    BY <1>5, <2>1, CrossModelAcquiresNothing DEF Recalled, CheckGroups, CrossModel, BlindVerifier
  <2>3. Sourced(e)
    BY DEF EdgesNameTheirSource
  <2> QED BY <2>2, <2>3 DEF Sourced, FromView, FromBlindVerifier, FromReading, FromCheck
<1>7. e.model = SecondModel
  <2>1. e.model # "" => e.model \in families[k]
    BY <1>3, <1>5
  <2> QED BY <1>1, <1>2, <1>6, <2>1, ModelsDiffer
<1> QED BY <1>5, <1>6, <1>7 DEF SecondFamilySaid

\* What the integration adds to the consensus pays X on the same terms.
LEMMA IntegrationCredits ==
  ASSUME Shapes, NothingIsMinted, EdgesNameTheirSource, CheckedOnce, CreditIsEarned,
         NEW k \in DOMAIN Integrate(relation, base, readings, checks, PriorFamilies(graph)).candidates,
         Integrate(relation, base, readings, checks, PriorFamilies(graph)).candidates[k].x
  PROVE  SecondFamilySaid(k)
<1> DEFINE families == PriorFamilies(graph)
           said == EvidenceOn(relation, base, checks, families, k)
<1>1. BaseOverlay(base, k).x \/ CreditOf(said) = "CREDITED"
  BY DEF Integrate, Finish
<1>2. CASE BaseOverlay(base, k).x
  BY <1>2 DEF BaseOverlay, CreditIsEarned
<1>3. CASE CreditOf(said) = "CREDITED"
  <2> HIDE DEF said
  <2>1. PICK c \in said : c.credit = "CREDITED"
    BY <1>3, CreditFacts
  <2>2. PICK x \in checks, known \in BOOLEAN : c = StructuralEvidence(relation, x, k, families, known)
    BY DEF said, EvidenceOn
  <2>3. CrossModelCredit(x, k, families, known) = "CREDITED"
    BY <2>1, <2>2 DEF StructuralEvidence
  <2> QED BY <2>3, RecordCredits
<1> QED BY <1>1, <1>2, <1>3

LEMMA CreditKept ==
  ASSUME Shapes, NothingIsMinted, EdgesNameTheirSource, CheckedOnce, CreditIsEarned, Next
  PROVE  CreditIsEarned'
<1>1. relation' = relation /\ spec' = spec /\ graph.edges \subseteq graph'.edges
  BY StepGrows DEF core, Grows
<1>2. \A k : SecondFamilySaid(k) => SecondFamilySaid(k)'
  BY <1>1 DEF SecondFamilySaid
<1>3. CASE BuildConsensus
  <2>1. base' = Consense(graph, relation, spec) /\ layer4' = layer4
    BY <1>3 DEF BuildConsensus, derived
  <2> QED BY <1>2, <2>1, ConsensusCredits DEF CreditIsEarned
<1>4. CASE Reintegrate
  <2>1. base' = base
        /\ layer4' = Integrate(relation, base, readings, checks, PriorFamilies(graph))
    BY <1>4 DEF Reintegrate, evidence
  <2> QED BY <1>2, <2>1, IntegrationCredits DEF CreditIsEarned
<1>5. CASE ~BuildConsensus /\ ~Reintegrate
  <2>1. base' = base /\ layer4' = layer4
    BY <1>5 DEF Next, RunView, FinishViews, ScoreGate, CrossModelRecall, ChooseVerifications,
           Verify, FinishVerifying, ReadTarget, StopReading, RunCheck, StopChecking, Decide,
           Finished, vars, evidence, derived
  <2> QED BY <1>2, <2>1 DEF CreditIsEarned
<1> QED BY <1>3, <1>4, <1>5

\* The mechanisms behind a candidate are among those the contract declares.
LEMMA AcquisitionIsFinite ==
  ASSUME NEW r \in AllRelations
  PROVE  /\ IsFiniteSet(AcquisitionGroups(r))
         /\ Cardinality(AcquisitionGroups(r)) \in Nat \ {0}
<1> DEFINE families == {"direct", "structural", "description", "contrastive", "missingness", "reverse"}
           A == AcquisitionGroups(r)
<1>1. A \subseteq families /\ A # {}
  <2>1. ContractOf(r) \in {BordersContract, DeathContract, StockContract, AreaContract,
                           CapacityContract, AwardContract}
    BY DEF AllRelations, ContractOf
  <2>2. A \subseteq families
    BY <2>1 DEF AcquisitionGroups, EligibleGroups, BordersContract, DeathContract,
       StockContract, AreaContract, CapacityContract, AwardContract, Contract
  <2> HIDE DEF A, families
  <2>3. "direct" \in A
    BY GroupFacts DEF A, AllRelations
  <2> QED BY <2>2, <2>3
<1>2. IsFiniteSet(families)
  <2>1. families = {"direct"} \cup {"structural"} \cup {"description"} \cup {"contrastive"}
                   \cup {"missingness"} \cup {"reverse"}
    OBVIOUS
  <2> HIDE DEF families
  <2> QED BY <2>1, FS_Singleton, FS_Union
<1> HIDE DEF A, families
<1>3. IsFiniteSet(A)
  BY <1>1, <1>2, FS_Subset
<1>4. Cardinality(A) \in Nat /\ Cardinality(A) # 0
  BY <1>1, <1>3, FS_CardinalityType, FS_EmptySet
<1> QED BY <1>3, <1>4 DEF A

LEMMA SupportFacts ==
  ASSUME NEW g, NEW r \in AllRelations, NEW k
  PROVE  Support(g, r, k) \in Nat
<1>1. SupportingGroups(g, r, k) \subseteq AcquisitionGroups(r)
  BY DEF SupportingGroups
<1>2. IsFiniteSet(SupportingGroups(g, r, k))
  BY <1>1, AcquisitionIsFinite, FS_Subset
<1> QED BY <1>2, FS_CardinalityType DEF Support

-----------------------------------------------------------------------------
(* The row of a quantity *)

\* No rule has let a figure pass that is not positive.
FiguresArePositive(g) ==
  g.held \subseteq Keys /\ \A k \in Active(g) : ValueOf[k] \in Nat \ {0}

LEMMA ActiveIsFinite ==
  ASSUME NEW g, g.held \subseteq Keys
  PROVE  IsFiniteSet(Active(g)) /\ Active(g) \subseteq Int /\ Active(g) \subseteq Keys
<1>1. Active(g) \subseteq Keys
  BY DEF Active
<1>2. IsFiniteSet(Keys) /\ Keys \subseteq Int
  <2>1. IsFiniteSet(Keys) /\ Keys = 1..Cardinality(Keys)
    BY KeysAreNumbered
  <2>2. Cardinality(Keys) \in Nat
    BY <2>1, FS_CardinalityType
  <2>3. 1..Cardinality(Keys) \subseteq Int
    BY <2>2
  <2> QED BY <2>1, <2>3
<1> QED BY <1>1, <1>2, FS_Subset

\* The figures ascend, each as often as it has support.
LEMMA WeightedFacts ==
  ASSUME NEW g, FiguresArePositive(g), NEW r \in AllRelations
  PROVE  LET w == Weighted(g, r)
         IN \E N \in Nat : /\ w \in [1..N -> Active(g)]
                           /\ \A i, j \in 1..N : i <= j => ValueOf[w[i]] <= ValueOf[w[j]]
<1> DEFINE S == Active(g)
           at == [k \in S |-> ValueOf[k]]
           times == [k \in S |-> Weight(g, r, k)]
           w == Weighted(g, r)
<1>1. S \in SUBSET Int /\ IsFiniteSet(S) /\ at \in [S -> Int]
  BY ActiveIsFinite DEF FiguresArePositive
<1>2. times \in [S -> Nat]
  BY SupportFacts DEF Weight
<1>3. w = Repeated(at, times)
  BY DEF Weighted
<1>4. \A k \in S : at[k] = ValueOf[k]
  OBVIOUS
<1> HIDE DEF S, at, times, w
<1>5. PICK N \in Nat : w \in [1..N -> S] /\ \A i, j \in 1..N : i <= j => at[w[i]] <= at[w[j]]
  BY <1>1, <1>2, <1>3, RepeatedFacts
<1>6. \A i \in 1..N : w[i] \in S
  BY <1>5
<1>7. \A i, j \in 1..N : i <= j => ValueOf[w[i]] <= ValueOf[w[j]]
  BY <1>4, <1>5, <1>6
<1> QED BY <1>5, <1>7 DEF w, S

\* The clusters of a quantity have summaries, no two have the same centre, and
\* every member is within the tolerance of it.
LEMMA ClusterFacts ==
  ASSUME NEW g, FiguresArePositive(g), NEW r \in AllRelations
  PROVE  LET C == ClustersOf(g, r)
         IN /\ IsFiniteSet(C)
            /\ \A c \in C : /\ SummaryOf(c) \in Summaries /\ c.centre \in Nat
                            /\ \A k \in c.keys : k \in Active(g) /\ Near(c.centre, 2 * ValueOf[k], Tolerance)
            /\ \A c, d \in C : c.centre = d.centre => c = d
<1> DEFINE w == Weighted(g, r)
           C == ClustersIn(w, ValueOf, Tolerance)
<1>1. PICK N \in Nat : /\ Weighted(g, r) \in [1..N -> Active(g)]
                       /\ \A i, j \in 1..N : i <= j =>
                            ValueOf[Weighted(g, r)[i]] <= ValueOf[Weighted(g, r)[j]]
  BY WeightedFacts
<1>2. \A x \in Active(g) : ValueOf[x] \in Nat
  BY DEF FiguresArePositive
<1>3. IntegerValued(ValueOf, Active(g))
  BY <1>2 DEF IntegerValued
<1>4. Tolerance \in Nat
  BY DEF Tolerance
<1> HIDE DEF w
<1>5. /\ IsFiniteSet(C)
      /\ \A c \in C : SummaryOf(c) \in Summaries /\ c.keys \subseteq Active(g)
      /\ \A c, d \in C : c.centre = d.centre => c = d
      /\ (\A x \in Active(g) : ValueOf[x] \in Nat) =>
           \A c \in C : /\ c.centre \in Nat
                        /\ \A k \in c.keys : Near(c.centre, 2 * ValueOf[k], Tolerance)
  <2> HIDE DEF C
  <2>1. /\ N \in Nat /\ w \in [1..N -> Active(g)]
        /\ \A i, j \in 1..N : i <= j => ValueOf[w[i]] <= ValueOf[w[j]]
    BY <1>1 DEF w
  <2> QED BY ONLY <2>1, <1>3, <1>4, ClustersInFacts, SMTT(60) DEF C
<1>6. C = ClustersOf(g, r)
  BY DEF ClustersOf, w
<1> HIDE DEF C
<1> QED BY <1>2, <1>5, <1>6

LEMMA NumberRelations ==
  ASSUME NEW r \in AllRelations
  PROVE  IsNumberRelation(r) <=> r \in {Area, Capacity}
<1>1. /\ ContractOf(Borders).program = "SMALL_SET" /\ ContractOf(Stock).program = "SMALL_SET"
      /\ ContractOf(Death).program = "NULL_SINGLE" /\ ContractOf(Award).program = "LARGE_OPEN_SET"
      /\ ContractOf(Area).program = "NUMERIC" /\ ContractOf(Capacity).program = "NUMERIC"
  BY DEF ContractOf, Borders, Death, Stock, Area, Capacity, Award, Contract, BordersContract,
     DeathContract, StockContract, AreaContract, CapacityContract, AwardContract
<1>2. r \in {Borders, Death, Stock, Area, Capacity, Award}
  BY DEF AllRelations
<1> QED BY <1>1, <1>2 DEF IsNumberRelation, ProgramOf, Programs, Borders, Death, Stock, Area,
           Capacity, Award

\* What is emitted is a cluster that may be, or nothing.
Emitted(g, C, chosen) ==
  \/ chosen = NothingEmitted
  \/ \E c \in C : Emittable(g, c) /\ chosen.objects # <<>> /\ chosen.value = c.centre

LEMMA EmitFacts ==
  ASSUME NEW c
  PROVE  EmitNumeric(c).objects # <<>> /\ EmitNumeric(c).value = c.centre
BY DEF EmitNumeric

LEMMA AreaFacts ==
  ASSUME NEW g, NEW C, IsFiniteSet(C), \A c \in C : SummaryOf(c) \in Summaries,
         \A c, d \in C : c.centre = d.centre => c = d
  PROVE  LET chosen == SelectRobust(g, RetainedPool(g, C))
         IN /\ Emitted(g, C, chosen)
            /\ "RETENTION" \in V31 /\ chosen.objects = <<>> => \A c \in C : ~Retainable(g, c)
<1> DEFINE F == RetainedPool(g, C)
           first == {c \in F : Emittable(g, c) /\ \A d \in F \ {c} : Dominates(c, d)}
           chosen == SelectRobust(g, F)
           best == CHOOSE c \in first : TRUE
<1>1. F \subseteq C
  BY DEF RetainedPool
<1>2. chosen = IF first = {} THEN NothingEmitted ELSE EmitNumeric(best)
  BY DEF SelectRobust
<1>3. first # {} => best \in C /\ Emittable(g, best)
  <2> HIDE DEF F
  <2> QED BY <1>1
<1>4. Emitted(g, C, chosen)
  <2> HIDE DEF best, first, chosen
  <2> QED BY <1>2, <1>3, EmitFacts DEF Emitted
<1>5. ASSUME "RETENTION" \in V31, NEW c \in C, Retainable(g, c)
      PROVE  chosen.objects # <<>>
  <2>1. F = {d \in C : Retainable(g, d)} /\ c \in F
    BY <1>5 DEF RetainedPool
  <2> HIDE DEF F
  <2>2. IsFiniteSet(F)
    BY <1>1, FS_Subset
  <2>3. PICK d \in F : \A e \in F \ {d} : Dominates(d, e)
    BY <1>1, <2>1, <2>2, OneDominates
  <2>4. d \in first
    BY <2>1, <2>3 DEF Retainable
  <2> HIDE DEF first, best, chosen
  <2> QED BY <1>2, <2>4, EmitFacts
<1> QED BY <1>4, <1>5

LEMMA CapacityFacts ==
  ASSUME NEW g, NEW C, IsFiniteSet(C), \A c \in C : SummaryOf(c) \in Summaries
  PROVE  LET chosen == SelectHighestValid(g, C)
         IN /\ Emitted(g, C, chosen)
            /\ "RETENTION" \in V31 /\ chosen.objects = <<>> => \A c \in C : ~Retainable(g, c)
<1> DEFINE vouched == {c \in C : Qualifies(g, C, c)}
           kept == IF "RETENTION" \in V31 THEN {c \in C : Retainable(g, c)} ELSE {}
           fit == IF vouched = {} THEN kept ELSE vouched
           highest == {c \in fit : \A d \in fit : d.centre <= c.centre}
           best == CHOOSE c \in highest : TRUE
           chosen == SelectHighestValid(g, C)
<1>1. chosen = IF highest = {} THEN NothingEmitted ELSE EmitNumeric(best)
  BY DEF SelectHighestValid
<1>2. fit \subseteq C /\ \A c \in fit : Emittable(g, c)
  BY DEF Qualifies, Retainable
<1>3. "RETENTION" \in V31 => \A c \in C : Retainable(g, c) => fit # {}
  OBVIOUS
<1> HIDE DEF fit
<1>4. highest # {} => best \in C /\ Emittable(g, best)
  BY <1>2
<1>5. fit # {} => highest # {}
  <2> SUFFICES ASSUME fit # {} PROVE highest # {}
    OBVIOUS
  <2> DEFINE f == [c \in fit |-> c.centre]
             N == {f[c] : c \in fit}
  <2>1. IsFiniteSet(fit) /\ DOMAIN f = fit
    BY <1>2, FS_Subset
  <2>2. \A c \in fit : f[c] = c.centre /\ f[c] \in Int
    BY <1>2 DEF SummaryOf, Summaries
  <2> HIDE DEF f
  <2>3. IsFiniteSet(N) /\ N \subseteq Int /\ N # {}
    BY <2>1, <2>2, FiniteImage
  <2>4. PICK n \in N : \A m \in N : m <= n
    BY <2>3, FiniteExtremes
  <2>5. PICK c \in fit : n = f[c]
    OBVIOUS
  <2>6. \A d \in fit : d.centre <= c.centre
    BY <2>2, <2>4, <2>5
  <2> QED BY <2>6
<1> HIDE DEF highest, best, chosen
<1>6. Emitted(g, C, chosen)
  BY <1>1, <1>4, EmitFacts DEF Emitted
<1>7. ASSUME "RETENTION" \in V31, NEW c \in C, Retainable(g, c)
      PROVE  chosen.objects # <<>>
  BY <1>1, <1>3, <1>5, <1>7, EmitFacts
<1> QED BY <1>6, <1>7 DEF chosen

\* A figure is emitted because one nearby was accepted, and with retention
\* none is lost for want of order.
FigureStandsOn(g, r, objects, value) ==
  /\ objects # <<>> =>
       \E k \in Accepted(g) :
         1000 * Away(value, k) <= Tolerance * Max({2 * ValueOf[k], value})
  /\ "RETENTION" \in V31 /\ objects = <<>> =>
       \A c \in ClustersOf(g, r) : Emittable(g, c) => ClusterVerdict(g, c) = "INVALID"

LEMMA FigureFacts ==
  ASSUME NEW g, FiguresArePositive(g), NEW r \in {Area, Capacity}, NEW chosen,
         chosen = Select(g, r, ClustersOf(g, r))
  PROVE  FigureStandsOn(g, r, chosen.objects, chosen.value)
<1> DEFINE C == ClustersOf(g, r)
<1>1. r \in AllRelations
  BY DEF AllRelations
<1>2. /\ IsFiniteSet(C)
      /\ \A c \in C : /\ SummaryOf(c) \in Summaries /\ c.centre \in Nat
                      /\ \A k \in c.keys : k \in Active(g) /\ Near(c.centre, 2 * ValueOf[k], Tolerance)
      /\ \A c, d \in C : c.centre = d.centre => c = d
  BY <1>1, ClusterFacts
<1> HIDE DEF C
<1>3. /\ Emitted(g, C, chosen)
      /\ "RETENTION" \in V31 /\ chosen.objects = <<>> => \A c \in C : ~Retainable(g, c)
  <2>1. CASE r = Area
    <3>1. chosen = SelectRobust(g, RetainedPool(g, C))
      BY <2>1 DEF Select, Area, Capacity, C
    <3> QED BY <1>2, <3>1, AreaFacts
  <2>2. CASE r = Capacity
    <3>1. chosen = SelectHighestValid(g, C)
      BY <2>2 DEF Select, Area, Capacity, C
    <3> QED BY <1>2, <3>1, CapacityFacts
  <2> QED BY <2>1, <2>2
<1>4. ASSUME chosen.objects # <<>>
      PROVE  \E k \in Accepted(g) :
               1000 * Away(chosen.value, k) <= Tolerance * Max({2 * ValueOf[k], chosen.value})
  <2>1. PICK c \in C : Emittable(g, c) /\ chosen.value = c.centre
    BY <1>3, <1>4 DEF Emitted, NothingEmitted
  <2>2. PICK k \in Accepted(g) : k \in c.keys
    BY <2>1 DEF Emittable
  <2> DEFINE v == 2 * ValueOf[k]
             m == c.centre
  <2>3. v \in Nat /\ m \in Nat /\ Near(m, v, Tolerance) /\ Tolerance \in Nat
    BY <1>2, <2>2 DEF FiguresArePositive, Tolerance
  <2>4. Away(m, k) = Distance(v, m)
    BY DEF Away
  <2> HIDE DEF v, m
  <2>5. Max({v, m}) = IF m > v THEN m ELSE v
    <3>1. IsFiniteSet({v, m})
      <4>1. {v, m} = {v} \cup {m}
        OBVIOUS
      <4>2. IsFiniteSet({v}) /\ IsFiniteSet({m})
        BY FS_Singleton
      <4> QED BY <4>1, <4>2, FS_Union
    <3>2. Max({v, m}) \in {v, m} /\ \A n \in {v, m} : n <= Max({v, m})
      BY <2>3, <3>1, MaxMinFacts
    <3> QED BY <2>3, <3>2
  <2>6. 1000 * Away(m, k) <= Tolerance * Max({v, m})
    <3>1. 1000 * Distance(m, v) <= Tolerance * (IF m > v THEN m ELSE v)
      BY <2>3, NearOfNaturals
    <3>2. Distance(m, v) = Distance(v, m)
      BY <2>3 DEF Distance
    <3> QED BY <2>4, <2>5, <3>1, <3>2
  <2>7. chosen.value = m
    BY <2>1 DEF m
  <2>8. 1000 * Away(chosen.value, k) <= Tolerance * Max({2 * ValueOf[k], chosen.value})
    BY <2>6, <2>7 DEF v
  <2> WITNESS k \in Accepted(g)
  <2> QED BY <2>8
<1>5. "RETENTION" \in V31 /\ chosen.objects = <<>> =>
        \A c \in C : Emittable(g, c) => ClusterVerdict(g, c) = "INVALID"
  BY <1>3 DEF Retainable
<1> QED BY <1>4, <1>5 DEF FigureStandsOn, C

-----------------------------------------------------------------------------
(* The row of names *)

\* Triples of numbers are put in order.
LEMMA TriplesInOrder ==
  ASSUME NEW S \in SUBSET (Int \X Int \X Int), IsFiniteSet(S)
  PROVE  Cardinality(S) \in Nat /\ Ranked(S, Precedes) \in [1..Cardinality(S) -> S]
<1> DEFINE R == {p \in S \X S : Precedes(p[1], p[2])}
           order == Ranked(S, Precedes)
           f(i) == CHOOSE x \in S : Cardinality({y \in S : Precedes(y, x)}) = i - 1
<1>1. order = [i \in 1..Cardinality(S) |-> f(i)]
  BY DEF Ranked
<1>2. \A x, y \in S : <<x, y>> \in R <=> Precedes(x, y)
  OBVIOUS
<1>3. \A x \in S : x[1] \in Int /\ x[2] \in Int /\ x[3] \in Int /\ x = <<x[1], x[2], x[3]>>
  OBVIOUS
<1>4. \A x, y \in S : Precedes(x, y) <=> \/ x[1] < y[1]
                                         \/ x[1] = y[1] /\ x[2] < y[2]
                                         \/ x[1] = y[1] /\ x[2] = y[2] /\ x[3] < y[3]
  <2> TAKE x \in S, y \in S
  <2>1. 1..(1 - 1) = {} /\ 1..(2 - 1) = {1} /\ 1..(3 - 1) = {1, 2}
    OBVIOUS
  <2>2. 1..3 = {1, 2, 3}
    OBVIOUS
  <2>3. Precedes(x, y) <=>
          \E i \in {1, 2, 3} : x[i] < y[i] /\ \A j \in 1..(i - 1) : x[j] = y[j]
    BY <2>2 DEF Precedes
  <2> QED BY <2>1, <2>3
<1>5. Orders(R, S)
  <2>1. \A x \in S : ~Precedes(x, x)
    BY <1>3, <1>4
  <2>2. \A x, y, z \in S : Precedes(x, y) /\ Precedes(y, z) => Precedes(x, z)
    BY <1>3, <1>4
  <2>3. \A x, y \in S : x # y => Precedes(x, y) \/ Precedes(y, x)
    BY <1>3, <1>4
  <2> HIDE DEF R
  <2> QED BY <1>2, <2>1, <2>2, <2>3 DEF Orders
<1> HIDE DEF R, order
<1>6. \A i : f(i) = CHOOSE x \in S : Rank(x, R, S) = i - 1
  <2>1. \A x \in S : {y \in S : Precedes(y, x)} = {y \in S : <<y, x>> \in R}
    BY <1>2
  <2>2. \A x \in S : Cardinality({y \in S : Precedes(y, x)}) = Rank(x, R, S)
    BY <2>1 DEF Rank
  <2> QED BY <2>2
<1> HIDE DEF f
<1>7. IsRanked(order, R, S)
  <2>1. \A i \in 1..Cardinality(S) : order[i] = CHOOSE x \in S : Rank(x, R, S) = i - 1
    BY <1>1, <1>6
  <2>2. order = [i \in 1..Cardinality(S) |-> order[i]]
    BY <1>1
  <2> QED BY <2>1, <2>2 DEF IsRanked
<1> QED BY <1>5, <1>7, InOrder DEF order

\* What a verdict says is numbers.
IsMeasured(v) == v.valid \in Int /\ v.disagreement \in Int
VerdictsAreMeasured(g) ==
  \A k \in Keys : /\ g.verdicts[k] \in Seq({g.verdicts[k][i] : i \in DOMAIN g.verdicts[k]})
                  /\ \A i \in DOMAIN g.verdicts[k] : IsMeasured(g.verdicts[k][i])

\* The edges of a candidate come in finitely many groups.
GroupsAreFinite(g) ==
  \A k : \A sign : IsFiniteSet(Groups(g, k, sign)) /\ Cardinality(Groups(g, k, sign)) \in Nat

LEMMA LogitIsANumber ==
  ASSUME NEW valid \in Int
  PROVE  LogitOf(valid) \in Int
<1>1. CASE valid < 10 \/ valid > 90
  BY <1>1 DEF LogitOf
<1>2. CASE ~(valid < 10 \/ valid > 90)
  <2> DEFINE table == <<-732, -462, -282, -135, 0, 135, 282, 462, 732>>
             n == valid \div 10
  <2>1. n \in 1..9
    BY <1>2
  <2>2. LogitOf(valid) = table[n]
    BY <1>2 DEF LogitOf
  <2> HIDE DEF n
  <2>3. \A i \in 1..9 : table[i] \in Int
    OBVIOUS
  <2> QED BY <2>1, <2>2, <2>3
<1> QED BY <1>1, <1>2

\* The score of a candidate is a number.
LEMMA ScoreIsANumber ==
  ASSUME NEW g, VerdictsAreMeasured(g), GroupsAreFinite(g), NEW r \in AllRelations, NEW k \in Keys
  PROVE  Score(g, r, k) \in Int
<1> DEFINE vs == g.verdicts[k]
<1>1. CoverageQ(g, r, k) \in Int
  BY SupportFacts, AcquisitionIsFinite DEF CoverageQ
<1>2. LogitTerm(g, k) \in Int
  <2>1. CASE vs = <<>>
    BY <2>1 DEF LogitTerm
  <2>2. CASE vs # <<>>
    <3>1. Len(vs) \in DOMAIN vs
      BY <2>2 DEF VerdictsAreMeasured
    <3>2. LatestVerdict(g, k).valid \in Int
      BY <3>1 DEF LatestVerdict, VerdictsAreMeasured, IsMeasured
    <3> QED BY <2>2, <3>2, LogitIsANumber DEF LogitTerm
  <2> QED BY <2>1, <2>2
<1>3. CrossModelTerm(g, k) \in {0, 1000}
  BY DEF CrossModelTerm
<1>4. ContradictionTerm(g, r, k) \in Int
  <2>1. Cardinality(AcquisitionGroups(r)) + 1 \in Nat \ {0}
    BY AcquisitionIsFinite
  <2>2. Cardinality(Groups(g, k, "CONTRADICT")) \in Nat
    BY DEF GroupsAreFinite
  <2> QED BY <2>1, <2>2 DEF ContradictionTerm
<1>5. DisagreementTerm(g, k) \in Int
  <2> DEFINE f == [i \in DOMAIN vs |-> vs[i].disagreement]
             N == {0} \cup {f[i] : i \in DOMAIN vs}
  <2>1. IsFiniteSet(DOMAIN vs)
    <3>1. DOMAIN vs = 1..Len(vs) /\ Len(vs) \in Nat
      BY DEF VerdictsAreMeasured
    <3> QED BY <3>1, FS_Interval
  <2>2. \A i \in DOMAIN vs : f[i] \in Int
    BY DEF VerdictsAreMeasured, IsMeasured
  <2>3. N = {0} \cup {vs[i].disagreement : i \in DOMAIN vs} /\ DOMAIN f = DOMAIN vs
    OBVIOUS
  <2> HIDE DEF f
  <2>4. IsFiniteSet({f[i] : i \in DOMAIN vs})
    BY <2>1, <2>3, FiniteImage
  <2>5. IsFiniteSet(N) /\ N \subseteq Int /\ N # {}
    <3>1. IsFiniteSet({0})
      BY FS_Singleton
    <3>2. IsFiniteSet(N)
      BY <2>4, <3>1, FS_Union
    <3> QED BY <2>2, <3>2
  <2>6. Max(N) \in Int
    BY <2>5, MaxMinFacts
  <2> QED BY <2>3, <2>6 DEF DisagreementTerm
<1> HIDE DEF vs
<1> QED BY <1>1, <1>2, <1>3, <1>4, <1>5 DEF Score

LEMMA SupportIsKeyed ==
  ASSUME NEW g, NEW r \in AllRelations, VerdictsAreMeasured(g), GroupsAreFinite(g),
         NEW k \in Keys
  PROVE  <<0 - Score(g, r, k), 0 - Support(g, r, k), k>> \in Int \X Int \X Int
<1>1. Score(g, r, k) \in Int /\ Support(g, r, k) \in Int
  BY ScoreIsANumber, SupportFacts
<1>2. k \in Int
  BY KeysAreNumbered, FS_CardinalityType
<1> QED BY <1>1, <1>2

\* The names of a row were accepted; behind a shut gate there are none.
LEMMA EntityFacts ==
  ASSUME NEW g, NEW r \in AllRelations, g.held \subseteq Keys,
         VerdictsAreMeasured(g), GroupsAreFinite(g)
  PROVE  LET s == SelectEntities(g, r)
         IN /\ \E n \in Nat : DOMAIN s = 1..n
            /\ \A i \in DOMAIN s : s[i] \in Accepted(g)
            /\ GateNegative(g) /\ r # Award => s = <<>>
<1> DEFINE rank(k) == <<0 - Score(g, r, k), 0 - Support(g, r, k), k>>
           L == Listable(g, r)
           f == [k \in L |-> rank(k)]
           S == {rank(k) : k \in L}
           order == Ranked(S, Precedes)
           n == Cardinality(L)
           fits == IF MaxObjects(r) = 0 THEN n ELSE Min({n, MaxObjects(r)})
           s == SelectEntities(g, r)
<1>1. s = IF GateNegative(g) /\ r # Award THEN <<>> ELSE [i \in 1..fits |-> order[i][3]]
  BY DEF SelectEntities
<1>2. L \subseteq Accepted(g) /\ Accepted(g) \subseteq Keys
  BY DEF Listable, Accepted
<1> HIDE DEF L
<1>3. IsFiniteSet(L)
  BY <1>2, KeysAreNumbered, FS_Subset
<1>4. \A k \in L : rank(k) \in Int \X Int \X Int /\ rank(k)[3] = k
  <2> TAKE k \in L
  <2>1. rank(k) \in Int \X Int \X Int
    BY <1>2, SupportIsKeyed
  <2> QED BY <2>1
<1> HIDE DEF rank
<1>5. S \subseteq Int \X Int \X Int /\ IsFiniteSet(S)
  <2>1. DOMAIN f = L /\ S = {f[k] : k \in L}
    OBVIOUS
  <2> HIDE DEF f, S
  <2>2. IsFiniteSet(S)
    BY <1>3, <2>1, FiniteImage
  <2> QED BY <1>4, <2>2 DEF S
<1> HIDE DEF f
<1>6. Cardinality(S) \in Nat /\ order \in [1..Cardinality(S) -> S]
  <2> HIDE DEF S
  <2> QED BY <1>5, TriplesInOrder
<1>7. \A x \in S : x[3] \in L
  BY <1>4
<1>8. Cardinality(S) = n
  <2> DEFINE h == [k \in L |-> rank(k)]
  <2>1. h \in [L -> S] /\ \A y \in S : \E k \in L : h[k] = y
    OBVIOUS
  <2>2. \A k, l \in L : h[k] = h[l] => k = l
    BY <1>4
  <2> HIDE DEF h, S
  <2>3. h \in Bijection(L, S)
    BY <2>1, <2>2 DEF Bijection, Injection, Surjection, IsInjective
  <2> QED BY <1>3, <2>3, FS_Bijection DEF ExistsBijection
<1> HIDE DEF S, order
<1>9. fits \in Nat /\ fits <= n
  <2>1. MaxObjects(r) \in Nat
    <3>1. ContractOf(r) \in {BordersContract, DeathContract, StockContract, AreaContract,
                             CapacityContract, AwardContract}
      BY DEF AllRelations, ContractOf
    <3> QED BY <3>1 DEF MaxObjects, BordersContract, DeathContract, StockContract, AreaContract,
               CapacityContract, AwardContract, Contract
  <2>2. n \in Nat
    BY <1>6, <1>8
  <2> DEFINE m == MaxObjects(r)
  <2> HIDE DEF m, n
  <2>3. IsFiniteSet({n, m})
    <3>1. {n, m} = {n} \cup {m} /\ IsFiniteSet({n}) /\ IsFiniteSet({m})
      BY FS_Singleton
    <3> QED BY <3>1, FS_Union
  <2>4. Min({n, m}) \in {n, m} /\ Min({n, m}) <= n
    <3>1. {n, m} \subseteq Int /\ {n, m} # {}
      BY <2>1, <2>2 DEF m
    <3>2. Min({n, m}) \in {n, m} /\ \A x \in {n, m} : Min({n, m}) <= x
      BY <2>3, <3>1, MaxMinFacts
    <3> QED BY <3>2
  <2> QED BY <2>1, <2>2, <2>4 DEF m
<1> HIDE DEF fits, n, s
<1>10. ASSUME NEW i \in 1..fits PROVE order[i][3] \in Accepted(g)
  <2>1. i \in 1..Cardinality(S)
    BY <1>6, <1>8, <1>9
  <2> QED BY <1>2, <1>6, <1>7, <2>1
<1>11. CASE GateNegative(g) /\ r # Award
  <2>1. s = <<>>
    BY <1>1, <1>11
  <2>2. DOMAIN s = 1..0
    BY <2>1
  <2> QED BY <2>1, <2>2 DEF s
<1>12. CASE ~(GateNegative(g) /\ r # Award)
  <2>1. s = [i \in 1..fits |-> order[i][3]]
    BY <1>1, <1>12
  <2> QED BY <1>9, <1>10, <1>12, <2>1 DEF s
<1> QED BY <1>11, <1>12

\* The repair leaves nothing of a row only if nothing was in it.
LEMMA RepairFacts ==
  ASSUME NEW r, NEW n \in Nat, NEW s, DOMAIN s = 1..n
  PROVE  RepairValues(r, s) = <<>> => \A i \in 1..n : Payload[r][s[i]] = 0
<1> DEFINE p == Payload[r]
           V == {p[s[i]] : i \in 1..n}
<1>1. RepairValues(r, s) = Folded("list", <<>>, s, p, 0, n)
  BY DEF RepairValues, FoldLeft, MapThenFoldSet, Folded, IsFold, Step
<1>2. PICK g : Runs(g, "list", <<>>, s, p, 0, n) /\ g[n] = Folded("list", <<>>, s, p, 0, n)
  BY FoldRuns
<1> HIDE DEF p
<1>3. /\ g[0] = <<>>
      /\ \A k \in 0..(n - 1) : g[k + 1] = IF p[s[k + 1]] = 0 \/ Contains(g[k], p[s[k + 1]])
                                         THEN g[k] ELSE Append(g[k], p[s[k + 1]])
  BY <1>2 DEF Runs, Step
<1> DEFINE T == {k \in Nat : k <= n =>
                   g[k] \in Seq(V) /\ (g[k] = <<>> => \A i \in 1..k : p[s[i]] = 0)}
<1>4. 0 \in T
  <2>1. <<>> \in Seq(V) /\ \A i \in 1..0 : FALSE
    OBVIOUS
  <2> HIDE DEF V
  <2> QED BY <1>3, <2>1
<1>5. \A k \in Nat : k \in T => k + 1 \in T
  <2> SUFFICES ASSUME NEW k \in Nat, k \in T, k + 1 <= n
               PROVE  /\ g[k + 1] \in Seq(V)
                      /\ g[k + 1] = <<>> => \A i \in 1..(k + 1) : p[s[i]] = 0
    OBVIOUS
  <2> DEFINE made == g[k]
             x == p[s[k + 1]]
  <2>1. made \in Seq(V) /\ (made = <<>> => \A i \in 1..k : p[s[i]] = 0)
    OBVIOUS
  <2>2. k \in 0..(n - 1) /\ k + 1 \in 1..n
    OBVIOUS
  <2>3. x \in V
    BY <2>2
  <2>4. g[k + 1] = IF x = 0 \/ Contains(made, x) THEN made ELSE Append(made, x)
    BY <1>3, <2>2
  <2> HIDE DEF made, V
  <2>5. CASE x = 0
    <3>1. g[k + 1] = made
      BY <2>4, <2>5
    <3>2. \A i \in 1..(k + 1) : i \in 1..k \/ i = k + 1
      OBVIOUS
    <3> QED BY <2>1, <2>5, <3>1, <3>2
  <2>6. CASE Contains(made, x)
    <3>1. made # <<>>
      <4>1. Len(<<>>) = 0
        OBVIOUS
      <4> QED BY <2>6, <4>1 DEF Contains
    <3> QED BY <2>1, <2>4, <2>6, <3>1
  <2>7. CASE ~(x = 0 \/ Contains(made, x))
    BY <2>1, <2>3, <2>4, <2>7, Appended
  <2> QED BY <2>5, <2>6, <2>7
<1> HIDE DEF T
<1>6. n \in T
  BY <1>4, <1>5, NumberInduction
<1> QED BY <1>1, <1>2, <1>6 DEF T, p

\* What a row has to stand on when it is written.
RowOf(g, r) == Row(g, r, Select(g, r, IF IsNumberRelation(r) THEN ClustersOf(g, r) ELSE {}))

RowStandsOn(g, r, row) ==
  /\ ~IsNumberRelation(r) => \A i \in DOMAIN row.chosen : LatestLabel(g, row.chosen[i]) # "INVALID"
  /\ IsNumberRelation(r) => FigureStandsOn(g, r, row.objects, row.value)
  /\ row.objects = <<>> => \A i \in DOMAIN row.chosen : Payload[r][row.chosen[i]] = 0
  /\ row.reason = IF row.objects = <<>> THEN EmptyReason(g) ELSE "NOT_EMPTY"

\* Nothing rejected as INVALID has been accepted, but behind a shut gate, where
\* nobody asks.
AcceptedAreNotInvalid(g, r) ==
  (GateNegative(g) /\ r # Award) \/ \A k \in Accepted(g) : LatestLabel(g, k) # "INVALID"

LEMMA RowFacts ==
  ASSUME NEW g, NEW r \in AllRelations, g.held \subseteq Keys,
         IsNumberRelation(r) => FiguresArePositive(g),
         VerdictsAreMeasured(g), GroupsAreFinite(g), AcceptedAreNotInvalid(g, r)
  PROVE  RowStandsOn(g, r, RowOf(g, r))
<1> DEFINE C == IF IsNumberRelation(r) THEN ClustersOf(g, r) ELSE {}
           chosen == Select(g, r, C)
           values == FinalValues(r, chosen.objects)
           row == RowOf(g, r)
<1>1. /\ row.chosen = chosen.objects /\ row.objects = values /\ row.value = chosen.value
      /\ row.reason = IF values = <<>> THEN EmptyReason(g) ELSE "NOT_EMPTY"
  <2> HIDE DEF chosen
  <2> QED BY DEF RowOf, Row, values, chosen
<1>2. IsNumberRelation(r) <=> r \in {Area, Capacity}
  BY NumberRelations
<1>3. CASE IsNumberRelation(r)
  <2>1. values = chosen.objects
    BY <1>3 DEF FinalValues
  <2>2. FigureStandsOn(g, r, chosen.objects, chosen.value)
    <3>1. C = ClustersOf(g, r) /\ r \in {Area, Capacity}
      BY <1>2, <1>3
    <3>2. chosen = Select(g, r, ClustersOf(g, r))
      BY <3>1
    <3> HIDE DEF chosen
    <3> QED BY <1>3, <3>1, <3>2, FigureFacts
  <2> HIDE DEF row, values, chosen
  <2>3. row.objects = <<>> => \A i \in DOMAIN row.chosen : Payload[r][row.chosen[i]] = 0
    BY <1>1, <2>1
  <2>4. RowStandsOn(g, r, row)
    BY <1>1, <1>3, <2>1, <2>2, <2>3 DEF RowStandsOn
  <2> QED BY <2>4 DEF row
<1>4. CASE ~IsNumberRelation(r)
  <2>1. chosen = [objects |-> SelectEntities(g, r), value |-> 0]
    BY <1>2, <1>4 DEF Select
  <2> DEFINE s == SelectEntities(g, r)
  <2>2. /\ \E n \in Nat : DOMAIN s = 1..n
        /\ \A i \in DOMAIN s : s[i] \in Accepted(g)
        /\ GateNegative(g) /\ r # Award => s = <<>>
    BY EntityFacts
  <2>3. chosen.objects = s
    BY <2>1
  <2> HIDE DEF s, chosen
  <2>4. \A i \in DOMAIN s : LatestLabel(g, s[i]) # "INVALID"
    BY <2>2 DEF AcceptedAreNotInvalid
  <2>5. values = <<>> => \A i \in DOMAIN s : Payload[r][s[i]] = 0
    <3>1. CASE values = s
      BY <3>1
    <3>2. CASE values = RepairValues(r, s)
      <4>1. PICK n \in Nat : DOMAIN s = 1..n
        BY <2>2
      <4>2. RepairValues(r, s) = <<>> => \A i \in 1..n : Payload[r][s[i]] = 0
        BY <4>1, RepairFacts, Zenon
      <4> HIDE DEF values
      <4> QED BY <3>2, <4>1, <4>2
    <3> QED BY <2>3, <3>1, <3>2 DEF FinalValues
  <2> HIDE DEF row, values
  <2> QED BY <1>1, <1>4, <2>3, <2>4, <2>5 DEF RowStandsOn, row
<1> QED BY <1>3, <1>4

\* The mean of distributions is one of numbers.
LEMMA MeanIsANumber ==
  ASSUME NEW D, D \subseteq Distributions, NEW ds \in Seq(D), ds # <<>>
  PROVE  Mean(ds)["VALID"] \in Int
<1> DEFINE l == "VALID"
           n == Len(ds)
           sum == FoldLeft(LAMBDA made, d : made + d[l], 0, ds)
<1>1. n \in Nat \ {0} /\ DOMAIN ds = 1..n /\ \A i \in 1..n : ds[i] \in Distributions
  OBVIOUS
<1>2. sum = Folded("sum", 0, ds, l, 0, n)
  BY <1>1 DEF FoldLeft, MapThenFoldSet, Folded, IsFold, Step
<1> HIDE DEF n
<1>3. PICK g : Runs(g, "sum", 0, ds, l, 0, n) /\ g[n] = Folded("sum", 0, ds, l, 0, n)
  BY <1>1, FoldRuns
<1>4. g[0] = 0 /\ \A k \in 0..(n - 1) : g[k + 1] = g[k] + ds[k + 1][l]
  BY <1>3 DEF Runs, Step
<1> DEFINE T == {k \in Nat : k <= n => g[k] \in Int}
<1>5. 0 \in T
  BY <1>4
<1>6. \A k \in Nat : k \in T => k + 1 \in T
  <2> SUFFICES ASSUME NEW k \in Nat, k \in T, k + 1 <= n PROVE g[k + 1] \in Int
    OBVIOUS
  <2>1. k \in 0..(n - 1) /\ k + 1 \in 1..n /\ g[k] \in Int
    BY <1>1
  <2>2. ds[k + 1][l] \in Int
    BY <1>1, <2>1 DEF Distributions
  <2> QED BY <1>4, <2>1, <2>2
<1> HIDE DEF T
<1>7. sum \in Int
  <2>1. n \in T
    BY <1>1, <1>5, <1>6, NumberInduction
  <2>2. g[n] \in Int
    BY <1>1, <2>1 DEF T
  <2>3. sum = g[n]
    <3> HIDE DEF sum
    <3> QED BY <1>2, <1>3
  <2> HIDE DEF sum
  <2> QED BY <2>2, <2>3
<1>8. Mean(ds)["VALID"] = sum \div n
  BY DEF Mean, n
<1> HIDE DEF sum
<1> QED BY <1>1, <1>7, <1>8

\* How far the readings of a candidate differ is a number.
LEMMA InstabilityIsANumber ==
  ASSUME NEW D, NEW N \in Nat, NEW frames, DOMAIN frames = 1..N,
         NEW read, DOMAIN read = 1..N,
         \A i \in 1..N : read[i].dist = <<>> \/ \E d \in D : read[i].dist = <<d>>,
         \A n \in 2..N : \A ds \in [1..n -> D] : Divergence(ds) \in Int,
         NEW side
  PROVE  Instability(frames, read, side) \in Int
<1> DEFINE at == [i \in 1..N |-> frames[i][side]]
           A == {at[i] : i \in 1..N}
           of == [n \in A |-> DistsIn(frames, read, side, n)]
           groups == {of[n] : n \in A}
           measured == {ds \in groups : Len(ds) > 1}
           by == [ds \in measured |-> Divergence(ds)]
           values == {by[ds] : ds \in measured}
<1>1. Instability(frames, read, side) = IF measured = {} THEN NotMeasured ELSE Max(values)
  <2>1. {frames[i][side] : i \in DOMAIN frames} = A
    OBVIOUS
  <2> HIDE DEF A
  <2>2. {DistsIn(frames, read, side, n) : n \in A} = groups
    OBVIOUS
  <2> HIDE DEF groups
  <2>3. {Divergence(ds) : ds \in measured} = values
    OBVIOUS
  <2> HIDE DEF values
  <2> QED BY <2>1, <2>2, <2>3 DEF Instability
<1>2. IsFiniteSet(A)
  <2>1. DOMAIN at = 1..N /\ IsFiniteSet(1..N)
    BY FS_Interval
  <2> HIDE DEF at
  <2> QED BY <2>1, FiniteImage
<1>3. IsFiniteSet(groups)
  <2>1. DOMAIN of = A
    OBVIOUS
  <2> HIDE DEF of, A
  <2> QED BY <1>2, <2>1, FiniteImage
<1>4. \A ds \in measured : Divergence(ds) \in Int
  <2> SUFFICES ASSUME NEW n \in A, Len(of[n]) > 1 PROVE Divergence(of[n]) \in Int
    OBVIOUS
  <2> DEFINE seqs == [i \in DOMAIN read |-> IF frames[i][side] = n THEN read[i].dist ELSE <<>>]
             ds == of[n]
  <2>1. seqs \in [1..N -> Seq(D)] /\ \A i \in 1..N : Len(seqs[i]) <= 1
    <3>1. ASSUME NEW i \in 1..N
          PROVE  seqs[i] \in Seq(D) /\ Len(seqs[i]) <= 1
      <4>1. <<>> \in Seq(D) /\ Len(<<>>) = 0
        OBVIOUS
      <4>2. \A d \in D : <<d>> \in Seq(D) /\ Len(<<d>>) = 1
        OBVIOUS
      <4>3. seqs[i] = <<>> \/ \E d \in D : seqs[i] = <<d>>
        OBVIOUS
      <4> HIDE DEF seqs
      <4>4. CASE seqs[i] = <<>>
        BY <4>1, <4>4
      <4>5. CASE seqs[i] # <<>>
        <5>1. PICK d \in D : seqs[i] = <<d>>
          BY <4>3, <4>5
        <5> QED BY <4>2, <5>1
      <4> QED BY <4>4, <4>5
    <3>2. DOMAIN seqs = 1..N /\ seqs = [i \in 1..N |-> seqs[i]]
      OBVIOUS
    <3> HIDE DEF seqs
    <3> QED BY <3>1, <3>2
  <2>2. ds = FlattenSeq(seqs)
    BY DEF DistsIn
  <2> HIDE DEF seqs, ds
  <2>3. ds \in Seq(D) /\ Len(ds) <= N
    BY <2>1, <2>2, FlattenFacts, FlattenLength
  <2>4. ds \in [1..Len(ds) -> D] /\ Len(ds) \in 2..N
    BY <2>3 DEF ds
  <2> QED BY <2>4 DEF ds
<1> HIDE DEF groups
<1>5. IsFiniteSet(values) /\ values \subseteq Int /\ (measured # {} => values # {})
  <2>1. IsFiniteSet(measured) /\ DOMAIN by = measured
    BY <1>3, FS_Subset
  <2>2. \A ds \in measured : by[ds] \in Int
    BY <1>4
  <2> HIDE DEF by, measured
  <2> QED BY <2>1, <2>2, FiniteImage
<1> HIDE DEF values, measured
<1>6. CASE measured = {}
  BY <1>1, <1>6 DEF NotMeasured
<1>7. CASE measured # {}
  <2>1. Max(values) \in values
    BY <1>5, <1>7, MaxMinFacts
  <2>2. Instability(frames, read, side) = Max(values)
    BY <1>1, <1>7
  <2> QED BY <1>5, <2>1, <2>2
<1> QED BY <1>6, <1>7

-----------------------------------------------------------------------------
(* What the row is written from *)

\* What is read of a candidate is numbers.
ReadingsAreNumbers ==
  \A x \in readings : x.target.kind = "ENTITY_CANDIDATE" =>
    /\ x.template \in Int
    /\ x.available => x.mean[1]["VALID"] \in Int

\* Once the views have answered, a figure that is not positive is rejected.
ImpossibleIsRejected ==
  step # "views" /\ IsNumberRelation(relation) =>
    \A k \in graph.held \cap NotPositive : graph.status[k] = "REJECTED"

\* The row is that of the graph it was written from, and nothing comes after.
RowIsOfTheGraph ==
  IF step = "done"
  THEN AcceptedAreNotInvalid(graph, relation) /\ prediction = RowOf(graph, relation)
  ELSE prediction = NoPrediction

HeldAreMeasured(g) == g.held \subseteq Keys /\ VerdictsAreMeasured(g)

RowInv ==
  /\ HeldAreMeasured(graph)
  /\ ReadingsAreNumbers /\ ImpossibleIsRejected /\ RowIsOfTheGraph

\* One more verdict is one more measure.
LEMMA MeasuresStay ==
  ASSUME NEW g, NEW h, VerdictsAreMeasured(g),
         \A k \in Keys : \/ h.verdicts[k] = g.verdicts[k]
                         \/ \E v : IsMeasured(v) /\ h.verdicts[k] = Append(g.verdicts[k], v)
  PROVE  VerdictsAreMeasured(h)
<1> SUFFICES ASSUME NEW k \in Keys
             PROVE  /\ h.verdicts[k] \in Seq({h.verdicts[k][i] : i \in DOMAIN h.verdicts[k]})
                    /\ \A i \in DOMAIN h.verdicts[k] : IsMeasured(h.verdicts[k][i])
  BY DEF VerdictsAreMeasured
<1> DEFINE s == g.verdicts[k]
           t == h.verdicts[k]
<1>1. s \in Seq({s[i] : i \in DOMAIN s}) /\ \A i \in DOMAIN s : IsMeasured(s[i])
  BY DEF VerdictsAreMeasured
<1>2. CASE t = s
  <2> HIDE DEF s, t
  <2> QED BY <1>1, <1>2 DEF t
<1>3. CASE t # s
  <2>1. PICK v : IsMeasured(v) /\ t = Append(s, v)
    BY <1>3
  <2> DEFINE T == {s[i] : i \in DOMAIN s} \cup {v}
             U == {t[i] : i \in DOMAIN t}
  <2> HIDE DEF s, t
  <2>2. Len(s) \in Nat /\ DOMAIN s = 1..Len(s)
    BY <1>1
  <2>3. /\ DOMAIN t = 1..(Len(s) + 1) /\ t[Len(s) + 1] = v
        /\ \A i \in 1..Len(s) : t[i] = s[i]
    BY <1>1, <2>1
  <2>4. \A i \in DOMAIN t : IsMeasured(t[i])
    BY <1>1, <2>1, <2>2, <2>3
  <2>5. t \in Seq(U)
    <3>1. Len(s) + 1 \in Nat /\ t = [i \in 1..(Len(s) + 1) |-> t[i]]
      <4>1. s \in Seq(T) /\ v \in T
        BY <1>1 DEF T
      <4>2. t \in Seq(T)
        BY <2>1, <4>1
      <4> QED BY <2>2, <2>3, <4>2
    <3>2. \A i \in 1..(Len(s) + 1) : t[i] \in U
      BY <2>3
    <3> HIDE DEF U
    <3> QED BY <3>1, <3>2
  <2> QED BY <2>4, <2>5 DEF t
<1> QED BY <1>2, <1>3

LEMMA NothingIsMeasured == VerdictsAreMeasured(EmptyGraph)
<1> SUFFICES ASSUME NEW k \in Keys
             PROVE  /\ EmptyGraph.verdicts[k] \in
                         Seq({EmptyGraph.verdicts[k][i] : i \in DOMAIN EmptyGraph.verdicts[k]})
                    /\ \A i \in DOMAIN EmptyGraph.verdicts[k] : IsMeasured(EmptyGraph.verdicts[k][i])
  BY DEF VerdictsAreMeasured
<1>1. EmptyGraph.verdicts[k] = <<>>
  BY DEF EmptyGraph
<1> QED BY <1>1

\* Both verifiers give numbers.
LEMMA VerifyMeasures ==
  ASSUME NEW g, GraphShape(g), HeldAreMeasured(g), NEW k, NEW ds \in BlindAnswers
  PROVE  LET h == VerifyOne(g, k, ds) IN HeldAreMeasured(h) /\ h.status = g.status /\ h.held = g.held
<1> DEFINE v == Aggregate(k, ds)
           h == AddVerification(g, v)
<1>1. CASE ds = <<>>
  BY <1>1 DEF VerifyOne
<1>2. CASE ds # <<>>
  <2>1. ds \in Seq(Distributions) /\ (Len(ds) > 1 => Divergence(ds) \in Int)
    BY ReadingsAreMeasured
  <2>2. Mean(ds)["VALID"] \in Int
    BY <1>2, <2>1, MeanIsANumber
  <2>3. Disagreement(ds) \in Int
    <3>1. Len(ds) \in Nat
      BY <2>1
    <3> QED BY <2>1, <3>1 DEF Disagreement
  <2>4. IsMeasured(v)
    BY <2>2, <2>3 DEF Aggregate, IsMeasured
  <2> HIDE DEF v
  <2>5. /\ h.held = g.held /\ h.status = g.status
        /\ \A l \in Keys : \/ h.verdicts[l] = g.verdicts[l]
                           \/ l = v.key /\ h.verdicts[l] = Append(g.verdicts[l], v)
    BY AddVerificationFacts
  <2> HIDE DEF h
  <2>6. HeldAreMeasured(h)
    BY <2>4, <2>5, MeasuresStay DEF HeldAreMeasured
  <2>7. VerifyOne(g, k, ds) = h
    BY <1>2 DEF VerifyOne, h, v
  <2> QED BY <2>5, <2>6, <2>7
<1> QED BY <1>1, <1>2

\* The largest of no spread and a spread is a number.
LEMMA ClippedIsANumber ==
  ASSUME NEW n \in Int
  PROVE  Max({0, n}) \in Int
<1>1. {0, n} = {0} \cup {n} /\ IsFiniteSet({0}) /\ IsFiniteSet({n})
  BY FS_Singleton
<1>2. IsFiniteSet({0, n})
  BY <1>1, FS_Union
<1>3. {0, n} \subseteq Int /\ {0, n} # {}
  OBVIOUS
<1>4. Max({0, n}) \in {0, n}
  BY <1>2, <1>3, MaxMinFacts
<1> QED BY <1>4

LEMMA BridgeMeasures ==
  ASSUME NEW g, GraphShape(g), HeldAreMeasured(g), ReadingsAreNumbers, NEW families
  PROVE  LET h == ApplyBridge(g, Integrate(relation, base, readings, checks, families))
         IN HeldAreMeasured(h) /\ h.status = g.status /\ h.held = g.held
<1> DEFINE state == Integrate(relation, base, readings, checks, families)
           verifier(k) == EvidenceAbout(readings, Target("ENTITY_CANDIDATE", k))
           read == BridgedReadings(state)
           made == BridgedChecks(state)
           f == BridgeVerdicts(g, read)
           h == ApplyBridge(g, state)
<1>1. /\ h.held = g.held /\ h.status = g.status
      /\ \A k \in Keys : \/ h.verdicts[k] = g.verdicts[k]
                         \/ /\ k \in DOMAIN read
                            /\ h.verdicts[k] = Append(g.verdicts[k], VerdictOf(k, read[k]))
  <2> HIDE DEF read, made, state
  <2>1. h = Bridge(g, read, made)
    BY DEF ApplyBridge, read, made
  <2>2. /\ f.status = g.status
        /\ \A k \in Keys : \/ f.verdicts[k] = g.verdicts[k]
                           \/ /\ k \in DOMAIN read
                              /\ f.verdicts[k] = Append(g.verdicts[k], VerdictOf(k, read[k]))
    BY BridgeVerdictsFacts
  <2>3. h.held = g.held /\ h.status = f.status /\ h.verdicts = f.verdicts
    BY <2>1, BridgeFacts
  <2> HIDE DEF f, h
  <2> QED BY <2>2, <2>3
<1>2. ASSUME NEW k \in DOMAIN read PROVE IsMeasured(VerdictOf(k, read[k]))
  <2>1. k \in DOMAIN state.candidates /\ read[k] = state.candidates[k].verifier
        /\ state.candidates[k].verifier.availability = "AVAILABLE"
    BY <1>2 DEF BridgedReadings
  <2>2. state.candidates[k].verifier = verifier(k)
    BY <2>1 DEF Integrate, Finish
  <2> HIDE DEF state, read
  <2>3. PICK x \in readings : /\ x.target = Target("ENTITY_CANDIDATE", k) /\ x.available
                              /\ verifier(k) = SpecialistEvidence(x)
    BY <2>1, <2>2, AboutFacts
  <2>4. x.template \in Int /\ x.mean[1]["VALID"] \in Int
    BY <2>3 DEF ReadingsAreNumbers, Target
  <2>5. read[k].template = x.template /\ read[k].valid = x.mean[1]["VALID"]
    BY <2>1, <2>2, <2>3 DEF SpecialistEvidence
  <2> HIDE DEF verifier
  <2> QED BY <2>4, <2>5, ClippedIsANumber DEF IsMeasured, VerdictOf
<1> HIDE DEF h, read, state
<1>3. HeldAreMeasured(h)
  BY <1>1, <1>2, MeasuresStay DEF HeldAreMeasured
<1> QED BY <1>1, <1>3 DEF h, state

\* What a reading of a candidate reports is numbers.
LEMMA ReadingMeasures ==
  ASSUME relation \in Relations, NEW c, NEW target, target.kind = "ENTITY_CANDIDATE",
         NEW answers \in SpecialistAnswers[relation]
  PROVE  LET x == SpecialistResult(c, target, answers)
         IN x.template \in Int /\ (x.available => x.mean[1]["VALID"] \in Int)
<1> DEFINE D == DistributionsRead(relation)
           N == Len(Frames)
           read == [i \in 1..N |-> ReadOne(c, Frames[i], answers[Frames[i]])]
           dists == [i \in 1..N |-> read[i].dist]
           usable == Dists(read)
           x == SpecialistResult(c, target, answers)
<1>1. N \in Nat /\ DOMAIN Frames = 1..N
  BY FramesAreSequences
<1>2. FramesOf(target) = Frames
  BY DEF FramesOf
<1>3. /\ x.template = Instability(Frames, read, 2)
      /\ x.available <=> usable # <<>>
      /\ x.mean = IF usable = <<>> THEN <<>> ELSE <<Mean(usable)>>
  <2>1. [i \in DOMAIN Frames |-> ReadOne(c, Frames[i], answers[Frames[i]])] = read
    BY <1>1
  <2> HIDE DEF read, N
  <2> QED BY <1>2, <2>1 DEF SpecialistResult
<1>4. ASSUME NEW i \in 1..N PROVE read[i].dist = <<>> \/ \E d \in D : read[i].dist = <<d>>
  <2>1. Frames[i] \in Range(Frames)
    BY <1>1 DEF Range
  <2>2. answers[Frames[i]].dist \in D
    BY <2>1 DEF DistributionsRead, AllFrames
  <2>3. read[i].dist \in {<<>>, <<answers[Frames[i]].dist>>}
    BY DEF ReadOne
  <2> HIDE DEF read, D
  <2> QED BY <2>2, <2>3
<1>5. D \subseteq Distributions /\ \A n \in 2..N : \A ds \in [1..n -> D] : Divergence(ds) \in Int
  BY ReadingsAreMeasured
<1>6. DOMAIN read = 1..N
  OBVIOUS
<1> HIDE DEF D, N, x
<1>7. x.template \in Int
  <2> HIDE DEF read
  <2>1. Instability(Frames, read, 2) \in Int
    BY <1>1, <1>4, <1>5, <1>6, InstabilityIsANumber, Zenon
  <2> QED BY <1>3, <2>1
<1>8. x.available => x.mean[1]["VALID"] \in Int
  <2>1. dists \in [1..N -> Seq(D)]
    <3>1. ASSUME NEW i \in 1..N PROVE read[i].dist \in Seq(D)
      <4>1. <<>> \in Seq(D) /\ \A d \in D : <<d>> \in Seq(D)
        OBVIOUS
      <4> HIDE DEF read
      <4> QED BY <1>4, <4>1
    <3> HIDE DEF read
    <3> QED BY <3>1
  <2>2. usable = FlattenSeq(dists)
    BY <1>6 DEF Dists
  <2>3. usable \in Seq(D)
    <3> HIDE DEF dists, usable
    <3> QED BY <1>1, <2>1, <2>2, FlattenFacts
  <2> HIDE DEF usable, read
  <2>4. usable # <<>> => Mean(usable)["VALID"] \in Int
    BY <1>5, <2>3, MeanIsANumber
  <2> QED BY <1>3, <2>4
<1> QED BY <1>7, <1>8 DEF x

\* Resolving rejects nobody less, and accepts nobody a verifier rejected.
LEMMA ResolvedStatus ==
  ASSUME NEW g, GraphShape(g), g.held \subseteq Keys, NEW r
  PROVE  /\ \A k \in Keys : g.status[k] = "REJECTED" => Resolved(g, r).status[k] = "REJECTED"
         /\ AcceptedAreNotInvalid(Resolved(g, r), r)
<1> DEFINE untiered == {k \in Active(g) : g.tier[k] = "UNRESOLVED"}
           tier == [k \in Keys |-> IF k \in untiered THEN AssignTier(g, r, k) ELSE g.tier[k]]
           f == [g EXCEPT !.tier = tier]
           status == [k \in Keys |-> IF k \in Active(g) THEN DecideStatus(f, r, k) ELSE g.status[k]]
           h == [f EXCEPT !.status = status]
<1>1. Resolve(g, r) = h
  <2>1. f.status = g.status
    BY DEF GraphShape
  <2> QED BY <2>1 DEF Resolve
<1> HIDE DEF tier
<1>2. f = [held |-> g.held, edges |-> g.edges, records |-> g.records, verdicts |-> g.verdicts,
           status |-> g.status, tier |-> tier, reason |-> g.reason, gate |-> g.gate]
  BY DEF GraphShape
<1>3. f.verdicts = g.verdicts /\ f.status = g.status
  BY <1>2
<1> HIDE DEF f
<1>4. \A k \in Keys : status[k] = IF k \in Active(g) THEN DecideStatus(f, r, k) ELSE g.status[k]
  OBVIOUS
<1> HIDE DEF status
<1>5. h = [held |-> g.held, edges |-> g.edges, records |-> g.records, verdicts |-> g.verdicts,
           status |-> status, tier |-> tier, reason |-> g.reason, gate |-> g.gate]
  BY <1>2
<1>6. h.held = g.held /\ h.status = status /\ h.verdicts = g.verdicts
  BY <1>5
<1> HIDE DEF h
<1>7. \A k \in Keys : g.status[k] = "REJECTED" => status[k] = "REJECTED"
  BY <1>4 DEF Active
<1>8. ASSUME NEW k \in Keys, k \in Active(g), status[k] = "ACCEPTED"
      PROVE  LatestLabel(h, k) # "INVALID"
  <2>1. DecideStatus(f, r, k) = "ACCEPTED"
    BY <1>4, <1>8
  <2>2. LatestLabel(f, k) # "INVALID"
    BY <2>1 DEF DecideStatus
  <2> QED BY <1>3, <1>6, <2>2 DEF LatestLabel, LatestVerdict
<1>9. CASE Resolved(g, r) = h
  <2>1. ASSUME NEW k \in Accepted(h) PROVE LatestLabel(h, k) # "INVALID"
    <3>1. k \in Keys /\ k \in g.held /\ status[k] = "ACCEPTED"
      BY <1>6 DEF Accepted
    <3>2. k \in Active(g)
      BY <1>7, <3>1 DEF Active
    <3> QED BY <1>8, <3>1, <3>2
  <2> QED BY <1>6, <1>7, <1>9, <2>1 DEF AcceptedAreNotInvalid
<1>10. CASE Resolved(g, r) = g /\ GateNegative(g) /\ r # Award
  BY <1>10 DEF AcceptedAreNotInvalid
<1> QED BY <1>1, <1>9, <1>10 DEF Resolved

\* What each step does to the candidates, their verdicts and their rejections.
LEMMA MeasuredKept ==
  ASSUME Shapes, HeldAreMeasured(graph), ReadingsAreNumbers, ImpossibleIsRejected, Next
  PROVE  HeldAreMeasured(graph') /\ ImpossibleIsRejected'
<1>1. GraphShape(graph) /\ relation \in AllRelations /\ relation \in Relations
  BY AnswersNameKeys DEF Shapes
<1> DEFINE Rejected(g) == \A k \in g.held \cap NotPositive : g.status[k] = "REJECTED"
           Kept(g) == HeldAreMeasured(g) /\ (IsNumberRelation(relation) => Rejected(g))
<1>2. (step # "views" => Kept(graph)) /\ (step = "views" => HeldAreMeasured(graph))
  BY DEF ImpossibleIsRejected
<1>3. SUFFICES (step' # "views" => Kept(graph')) /\ (step' = "views" => HeldAreMeasured(graph'))
  <2>1. relation' = relation
    BY DEF Next, RunView, FinishViews, ScoreGate, CrossModelRecall, ChooseVerifications, Verify,
           FinishVerifying, BuildConsensus, Reintegrate, ReadTarget, StopReading, RunCheck,
           StopChecking, Decide, Finished, vars, core
  <2> QED BY <2>1 DEF ImpossibleIsRejected
<1>4. ASSUME NEW g, NEW h, h.held = g.held, h.status = g.status, HeldAreMeasured(h), Kept(g)
      PROVE  Kept(h)
  BY <1>4
<1>5. ASSUME NEW g, GraphShape(g), HeldAreMeasured(g) PROVE Kept(HardRules(g, relation))
  <2> DEFINE h == HardRules(g, relation)
  <2>1. /\ h.held = g.held /\ h.verdicts = g.verdicts
        /\ IsNumberRelation(relation) =>
             \A k \in g.held \cap NotPositive \cap Keys : h.status[k] = "REJECTED"
    BY <1>5, HardRulesFacts
  <2> HIDE DEF h
  <2>2. HeldAreMeasured(h)
    BY <1>5, <2>1 DEF HeldAreMeasured, VerdictsAreMeasured
  <2>3. IsNumberRelation(relation) => Rejected(h)
    BY <1>5, <2>1 DEF HeldAreMeasured
  <2> QED BY <2>2, <2>3 DEF h
<1>6. CASE RunView
  <2> DEFINE view == ViewsOf(relation)[Head(todo)]
             r == Record(view.view, 0, view.group, Enumerator)
  <2>1. PICK named \in Answers(view) : graph' = AddMentions(graph, r, named)
    BY <1>6 DEF RunView
  <2>2. Head(todo) \in DOMAIN ViewsOf(relation)
    BY <1>6 DEF RunView, Shapes
  <2>3. named \subseteq Keys
    BY <1>1, <2>1, <2>2, AnswersNameKeys DEF Answers
  <2> HIDE DEF view, r
  <2>4. graph'.held = graph.held \cup named /\ graph'.verdicts = graph.verdicts
    BY <1>1, <2>1, AddMentionsFacts
  <2>5. step' = "views" /\ step = "views"
    BY <1>6 DEF RunView
  <2> QED BY <1>2, <2>3, <2>4, <2>5 DEF HeldAreMeasured, VerdictsAreMeasured
<1>7. CASE FinishViews
  <2>1. graph' = HardRules(graph, relation) /\ step' = "gate" /\ step = "views"
    BY <1>7 DEF FinishViews
  <2> QED BY <1>1, <1>2, <1>5, <2>1
<1>8. CASE ScoreGate
  <2>1. PICK answer : graph' = [graph EXCEPT !.gate = IF answer = "UNAVAILABLE" THEN @ ELSE answer]
    BY <1>8 DEF ScoreGate
  <2>2. /\ graph'.held = graph.held /\ graph'.status = graph.status
        /\ graph'.verdicts = graph.verdicts
    BY <1>1, <2>1 DEF GraphShape
  <2>3. HeldAreMeasured(graph')
    BY <1>2, <2>2 DEF HeldAreMeasured, VerdictsAreMeasured
  <2>4. step' # "views" /\ step # "views"
    BY <1>8 DEF ScoreGate
  <2> QED BY <1>2, <1>4, <2>2, <2>3, <2>4
<1>9. CASE CrossModelRecall
  <2> DEFINE r == CrossModelRecord(relation)
  <2>1. PICK named \in RecallAnswers[relation] :
          graph' = Tiered(HardRules(AddMentions(graph, r, named), relation), relation)
    BY <1>9 DEF CrossModelRecall
  <2> HIDE DEF r
  <2> DEFINE f == AddMentions(graph, r, named)
             h == HardRules(f, relation)
  <2>2. GraphShape(f) /\ f.held = graph.held \cup named /\ f.verdicts = graph.verdicts
    BY <1>1, AddMentionsFacts
  <2>3. named \subseteq Keys
    BY <1>1, <2>1, AnswersNameKeys
  <2> HIDE DEF f
  <2>4. HeldAreMeasured(f)
    BY <1>2, <2>2, <2>3 DEF HeldAreMeasured, VerdictsAreMeasured
  <2>5. GraphShape(h) /\ Kept(h)
    BY <1>5, <2>2, <2>4, HardRulesFacts
  <2> HIDE DEF h
  <2>6. graph'.held = h.held /\ graph'.status = h.status /\ graph'.verdicts = h.verdicts
    BY <2>1, <2>5, TieredFacts DEF h, f
  <2>7. HeldAreMeasured(graph')
    BY <2>5, <2>6 DEF HeldAreMeasured, VerdictsAreMeasured
  <2>8. step' # "views"
    BY <1>9 DEF CrossModelRecall
  <2> QED BY <1>4, <2>5, <2>6, <2>7, <2>8
<1>10. CASE Verify
  <2>1. PICK ds \in BlindAnswers : graph' = VerifyOne(graph, Head(todo), ds)
    BY <1>10 DEF Verify
  <2>2. HeldAreMeasured(graph') /\ graph'.held = graph.held /\ graph'.status = graph.status
    BY <1>1, <1>2, <2>1, VerifyMeasures
  <2>3. step' # "views" /\ step # "views"
    BY <1>10 DEF Verify
  <2> QED BY <1>2, <1>4, <2>2, <2>3
<1>11. CASE Reintegrate
  <2>1. graph' = ApplyBridge(graph, Integrate(relation, base, readings, checks, PriorFamilies(graph)))
    BY <1>11 DEF Reintegrate
  <2>2. HeldAreMeasured(graph') /\ graph'.held = graph.held /\ graph'.status = graph.status
    BY <1>1, <1>2, <2>1, BridgeMeasures
  <2>3. step' # "views" /\ step # "views"
    BY <1>11 DEF Reintegrate, Shapes
  <2> QED BY <1>2, <1>4, <2>2, <2>3
<1>12. CASE Decide
  <2>1. graph' = Resolved(graph, relation) /\ step' = "done" /\ step = "decide"
    BY <1>12 DEF Decide
  <2>2. graph'.held = graph.held /\ graph'.verdicts = graph.verdicts
    BY <1>1, <2>1, ResolvedFacts
  <2>3. HeldAreMeasured(graph')
    BY <1>2, <2>2 DEF HeldAreMeasured, VerdictsAreMeasured
  <2>4. graph.held \subseteq Keys
    BY <1>2 DEF HeldAreMeasured
  <2>5. \A k \in Keys : graph.status[k] = "REJECTED" => graph'.status[k] = "REJECTED"
    BY <1>1, <2>1, <2>4, ResolvedStatus
  <2> QED BY <1>2, <2>1, <2>2, <2>3, <2>4, <2>5
<1>13. CASE \/ ChooseVerifications \/ FinishVerifying \/ BuildConsensus \/ ReadTarget
            \/ StopReading \/ RunCheck \/ StopChecking \/ Finished
  <2>1. graph' = graph /\ (step' = "views" <=> step = "views")
    BY <1>13 DEF ChooseVerifications, FinishVerifying, BuildConsensus, ReadTarget, StopReading,
       RunCheck, StopChecking, Finished, vars
  <2> QED BY <1>2, <2>1
<1> QED BY <1>6, <1>7, <1>8, <1>9, <1>10, <1>11, <1>12, <1>13 DEF Next

LEMMA NumbersKept ==
  ASSUME Shapes, ReadingsAreNumbers, Next
  PROVE  ReadingsAreNumbers'
<1>1. CASE ReadTarget
  <2>1. PICK target \in VerifiableTargets(base, relation), answers \in SpecialistAnswers[relation] :
          \/ readings' = readings
          \/ readings' = readings \cup {SpecialistResult(controls, target, answers)}
    BY <1>1 DEF ReadTarget
  <2> DEFINE x == SpecialistResult(controls, target, answers)
  <2>2. x.target = target
    BY ResultFacts
  <2>3. target.kind = "ENTITY_CANDIDATE" =>
          x.template \in Int /\ (x.available => x.mean[1]["VALID"] \in Int)
    BY ReadingMeasures DEF Shapes
  <2> HIDE DEF x
  <2> QED BY <2>1, <2>2, <2>3 DEF ReadingsAreNumbers, x
<1>2. CASE ~ReadTarget
  <2>1. readings' = readings
    BY <1>2 DEF Next, RunView, FinishViews, ScoreGate, CrossModelRecall, ChooseVerifications,
           Verify, FinishVerifying, BuildConsensus, Reintegrate, StopReading, RunCheck,
           StopChecking, Decide, Finished, vars, evidence
  <2> QED BY <2>1 DEF ReadingsAreNumbers
<1> QED BY <1>1, <1>2

LEMMA RowKept ==
  ASSUME Shapes, HeldAreMeasured(graph), RowIsOfTheGraph, Next
  PROVE  RowIsOfTheGraph'
<1>1. CASE Decide
  <2>1. PICK resolved, clusters, chosen :
          /\ resolved = Resolved(graph, relation)
          /\ clusters = IF IsNumberRelation(relation) THEN ClustersOf(resolved, relation) ELSE {}
          /\ chosen = Select(resolved, relation, clusters)
          /\ graph' = resolved /\ prediction' = Row(resolved, relation, chosen)
    BY <1>1 DEF Decide
  <2>2. step' = "done" /\ relation' = relation
    BY <1>1 DEF Decide, core
  <2>3. prediction' = RowOf(graph', relation)
    BY <2>1 DEF RowOf
  <2>4. AcceptedAreNotInvalid(graph', relation)
    BY <2>1, ResolvedStatus DEF Shapes, HeldAreMeasured
  <2> QED BY <2>2, <2>3, <2>4 DEF RowIsOfTheGraph
<1>2. CASE Finished
  BY <1>2 DEF Finished, vars, core, RowIsOfTheGraph
<1>3. CASE ~Decide /\ ~Finished
  <2>1. step # "done" /\ step' # "done" /\ prediction' = prediction
    BY <1>3 DEF Shapes, Next, RunView, FinishViews, ScoreGate, CrossModelRecall,
       ChooseVerifications, Verify, FinishVerifying, BuildConsensus, Reintegrate, ReadTarget,
       StopReading, RunCheck, StopChecking
  <2> QED BY <2>1 DEF RowIsOfTheGraph
<1> QED BY <1>1, <1>2, <1>3

-----------------------------------------------------------------------------
(* The theorems *)

LEMMA IInvInitially == Init => IInv
<1> SUFFICES ASSUME Init PROVE IInv
  OBVIOUS
<1> USE DEF Init
<1>1. Shapes
  <2>1. todo \in Seq(DOMAIN ViewsOf(relation))
    <3> DEFINE D == DOMAIN ViewsOf(relation)
    <3>1. relation \in AllRelations
      BY AnswersNameKeys
    <3>2. D \in {1..2, 1..4}
      BY <3>1 DEF ViewsOf, AllRelations, Borders, Death, Stock, Area, Capacity, Award
    <3> HIDE DEF D
    <3>3. [i \in D |-> i] \in Seq(D)
      BY <3>2
    <3>4. todo = [i \in D |-> i]
      BY DEF D
    <3> QED BY <3>3, <3>4 DEF D
  <2> QED BY <2>1, EmptyGraphShape DEF Shapes, Asking
<1>2. NothingIsMinted /\ EdgesNameTheirSource
  BY DEF NothingIsMinted, EdgesNameTheirSource, EmptyGraph
<1>3. RebridgingIsIdempotent /\ LedgerCountsEveryCall
  BY DEF RebridgingIsIdempotent, LedgerCountsEveryCall
<1>4. ReadOnce /\ CheckedOnce
  BY FS_EmptySet DEF ReadOnce, CheckedOnce, Reading, Checking
<1>5. CallsAreSpent
  BY <1>3, NothingCosts DEF CallsAreSpent
<1>6. SettledUnitsWereRead
  BY DEF SettledUnitsWereRead, NoGap
<1>7. CreditIsEarned
  BY DEF CreditIsEarned, NoBase, NoLayer4
<1> QED BY <1>1, <1>2, <1>3, <1>4, <1>5, <1>6, <1>7 DEF IInv

LEMMA IInvKept == IInv /\ [Next]_vars => IInv'
<1>1. CASE Next
  <2> SUFFICES ASSUME IInv PROVE IInv'
    BY <1>1
  <2> USE <1>1 DEF IInv
  <2>1. Shapes'
    BY ShapesKept
  <2>2. NothingIsMinted' /\ EdgesNameTheirSource'
    BY EvidenceKept
  <2>3. RebridgingIsIdempotent'
    BY RebridgingKept
  <2>4. ReadOnce' /\ CheckedOnce'
    BY ReadOnceKept, CheckedOnceKept
  <2>5. CallsAreSpent' /\ SettledUnitsWereRead'
    BY CallsKept, ResolvedFromReadings
  <2>6. CreditIsEarned'
    BY CreditKept
  <2> QED BY <2>1, <2>2, <2>3, <2>4, <2>5, <2>6
<1>2. CASE UNCHANGED vars
  BY <1>2 DEF vars, core, evidence, derived, IInv, Shapes, Asking, Reading, Checking, Closing,
     NothingIsMinted, Recalled, RebridgingIsIdempotent, EdgesNameTheirSource, Sourced, FromView,
     FromBlindVerifier, FromReading, FromCheck, ReadOnce, CheckedOnce, CallsAreSpent,
     LedgerCountsEveryCall, SettledUnitsWereRead, CreditIsEarned, SecondFamilySaid
<1> QED BY <1>1, <1>2

LEMMA IInvAlways == Spec => []IInv
BY IInvInitially, IInvKept, PTL DEF Spec

\* A record of one length is no record of another.
LEMMA RecordsDiffer ==
  ASSUME NEW v \in ViewNames, NEW k, NEW m, NEW a, NEW b, NEW c, NEW d
  PROVE  /\ <<v, 0>> # <<a, b, c, d>> /\ <<"verify", "standard", k>> # <<a, b, c, d>>
         /\ <<"m17", k>> # <<a, b, c, d>>
         /\ <<v, 0>> # <<"m17", m>> /\ <<"verify", "standard", k>> # <<"m17", m>>
<1>1. /\ Len(<<v, 0>>) = 2 /\ Len(<<"m17", k>>) = 2 /\ Len(<<"m17", m>>) = 2
      /\ Len(<<"verify", "standard", k>>) = 3 /\ Len(<<a, b, c, d>>) = 4
  OBVIOUS
<1>2. v # "m17"
  BY DEF ViewNames
<1>3. <<v, 0>>[1] = v /\ <<"m17", m>>[1] = "m17"
  OBVIOUS
<1> QED BY <1>1, <1>2, <1>3

LEMMA FailuresLeaveNoEdge ==
  ASSUME IInv
  PROVE  FailureIsNoEvidence
<1>1. ASSUME NEW x \in checks, x.error \/ x.raw = "NONE", NEW e \in graph.edges
      PROVE  e.record # x.origin
  <2>1. Sourced(e)
    BY DEF IInv, EdgesNameTheirSource
  <2>2. x.origin = <<Enumerator, x.check.kind, x.check.target, x.check.class>>
    BY DEF IInv, CheckedOnce, CheckOrigin
  <2>3. CASE FromView(e)
    BY <2>2, <2>3, RecordsDiffer DEF FromView
  <2>4. CASE FromBlindVerifier(e)
    BY <2>2, <2>4, RecordsDiffer DEF FromBlindVerifier, ViewNames
  <2>5. CASE FromReading(e)
    BY <2>2, <2>5, RecordsDiffer DEF FromReading, ViewNames
  <2>6. CASE FromCheck(e)
    BY <1>1, <2>6 DEF FromCheck, IInv, CheckedOnce
  <2> QED BY <2>1, <2>3, <2>4, <2>5, <2>6 DEF Sourced
<1>2. ASSUME NEW x \in readings, ~x.available, x.target.kind = "ENTITY_CANDIDATE",
             NEW e \in graph.edges, e.record = <<"m17", x.target.id>>
      PROVE  FALSE
  <2>1. Sourced(e)
    BY DEF IInv, EdgesNameTheirSource
  <2>2. ~FromView(e) /\ ~FromBlindVerifier(e)
    BY <1>2, RecordsDiffer DEF FromView, FromBlindVerifier, ViewNames
  <2>3. ~FromCheck(e)
    <3> SUFFICES ASSUME NEW y \in checks, e.record = y.origin PROVE FALSE
      BY DEF FromCheck
    <3>1. y.origin = <<Enumerator, y.check.kind, y.check.target, y.check.class>>
      BY DEF IInv, CheckedOnce, CheckOrigin
    <3> QED BY <1>2, <3>1, RecordsDiffer DEF ViewNames
  <2>4. PICK y \in readings : y.available /\ y.target = Target("ENTITY_CANDIDATE", e.key)
                              /\ e.record = <<"m17", e.key>>
    BY <2>1, <2>2, <2>3 DEF Sourced, FromReading
  <2>5. x.target = Target("ENTITY_CANDIDATE", x.target.id)
    BY <1>2 DEF IInv, ReadOnce
  <2>6. e.key = x.target.id
    BY <1>2, <2>4
  <2> QED BY <1>2, <2>4, <2>5, <2>6 DEF IInv, ReadOnce
<1> QED BY <1>1, <1>2 DEF FailureIsNoEvidence

LEMMA RowInvInitially == Init => RowInv
<1> SUFFICES ASSUME Init PROVE RowInv
  OBVIOUS
<1> USE DEF Init
<1>1. graph = EmptyGraph /\ EmptyGraph.held = {} /\ step = "views"
  BY DEF EmptyGraph
<1>2. HeldAreMeasured(graph)
  BY <1>1, NothingIsMeasured DEF HeldAreMeasured
<1>3. ReadingsAreNumbers /\ ImpossibleIsRejected /\ RowIsOfTheGraph
  BY <1>1 DEF ReadingsAreNumbers, ImpossibleIsRejected, RowIsOfTheGraph
<1> QED BY <1>2, <1>3 DEF RowInv

LEMMA RowInvKept == IInv /\ RowInv /\ [Next]_vars => RowInv'
<1>1. CASE Next
  <2> SUFFICES ASSUME IInv, RowInv PROVE RowInv'
    BY <1>1
  <2> QED BY <1>1, MeasuredKept, NumbersKept, RowKept DEF IInv, RowInv
<1>2. CASE UNCHANGED vars
  BY <1>2 DEF vars, core, evidence, derived, RowInv, ReadingsAreNumbers, ImpossibleIsRejected,
     RowIsOfTheGraph
<1> QED BY <1>1, <1>2

LEMMA RowInvAlways == Spec => [](IInv /\ RowInv)
<1>1. Init => IInv /\ RowInv
  BY IInvInitially, RowInvInitially
<1>2. IInv /\ RowInv /\ [Next]_vars => IInv' /\ RowInv'
  BY IInvKept, RowInvKept
<1> QED BY <1>1, <1>2, PTL DEF Spec

\* There are finitely many groups to speak in.
LEMMA SourcesAreFew ==
  ASSUME Shapes, EdgesNameTheirSource
  PROVE  GroupsAreFinite(graph)
<1> DEFINE G == AcquisitionGroups(relation)
           few == {CrossModel, BlindVerifier, "M18_REVERSE", "M18_COUNTERFACTUAL",
                   "M18_KEY_CONDITION", "M18_CANDIDATE_FREE_RECALL"}
<1>1. IsFiniteSet(G)
  BY AnswersNameKeys, AcquisitionIsFinite DEF Shapes
<1>2. IsFiniteSet(few)
  <2> DEFINE a == {CrossModel} \cup {BlindVerifier}
             b == {"M18_REVERSE"} \cup {"M18_COUNTERFACTUAL"}
             c == {"M18_KEY_CONDITION"} \cup {"M18_CANDIDATE_FREE_RECALL"}
  <2>1. few = (a \cup b) \cup c
    OBVIOUS
  <2>2. IsFiniteSet(a) /\ IsFiniteSet(b) /\ IsFiniteSet(c)
    <3>1. \A x : IsFiniteSet({x})
      BY FS_Singleton
    <3> QED BY <3>1, FS_Union
  <2> HIDE DEF a, b, c
  <2>3. IsFiniteSet(a \cup b)
    BY <2>2, FS_Union
  <2>4. IsFiniteSet((a \cup b) \cup c)
    BY <2>2, <2>3, FS_Union
  <2> HIDE DEF few
  <2> QED BY <2>1, <2>4
<1>3. \A e \in graph.edges : e.group \in G \cup few
  <2> HIDE DEF G
  <2> QED BY DEF EdgesNameTheirSource, Sourced, FromView, FromBlindVerifier, FromReading,
             FromCheck, CheckGroups, G
<1> HIDE DEF G, few
<1>4. IsFiniteSet(G \cup few)
  BY <1>1, <1>2, FS_Union
<1>5. ASSUME NEW k, NEW sign
      PROVE  IsFiniteSet(Groups(graph, k, sign)) /\ Cardinality(Groups(graph, k, sign)) \in Nat
  <2>1. Groups(graph, k, sign) \subseteq G \cup few
    BY <1>3 DEF Groups
  <2>2. IsFiniteSet(Groups(graph, k, sign))
    BY <1>4, <2>1, FS_Subset
  <2> QED BY <2>2, FS_CardinalityType
<1> QED BY <1>5 DEF GroupsAreFinite

\* The invariants make the row stand.
LEMMA WrittenRowStands ==
  ASSUME IInv, RowInv
  PROVE  /\ EmittedIsNotInvalid /\ FigureNearAnAcceptedOne /\ EmptyIsExplained
         /\ "RETENTION" \in V31 => AcceptedFigureIsKept
<1>1. CASE step # "done"
  <2>1. prediction = NoPrediction
    BY <1>1 DEF RowInv, RowIsOfTheGraph
  <2>2. prediction.chosen = <<>> /\ prediction.objects = <<>>
    BY <2>1 DEF NoPrediction
  <2> QED BY <1>1, <2>2 DEF EmittedIsNotInvalid, FigureNearAnAcceptedOne, EmptyIsExplained,
             AcceptedFigureIsKept
<1>2. CASE step = "done"
  <2>1. relation \in AllRelations /\ graph.held \subseteq Keys /\ VerdictsAreMeasured(graph)
        /\ GroupsAreFinite(graph) /\ AcceptedAreNotInvalid(graph, relation)
        /\ prediction = RowOf(graph, relation)
    BY <1>2, AnswersNameKeys, SourcesAreFew DEF IInv, Shapes, RowInv, HeldAreMeasured, RowIsOfTheGraph
  <2>2. IsNumberRelation(relation) => FiguresArePositive(graph)
    <3> SUFFICES ASSUME IsNumberRelation(relation), NEW k \in Active(graph)
                 PROVE  ValueOf[k] \in Nat \ {0}
      BY <2>1 DEF FiguresArePositive
    <3>1. k \in graph.held /\ graph.status[k] # "REJECTED"
      BY DEF Active
    <3>2. k \in Keys /\ k \notin NotPositive
      BY <1>2, <2>1, <3>1 DEF RowInv, ImpossibleIsRejected
    <3>3. ValueOf[k] \in Int /\ ValueOf[k] > 0
      BY <3>2, QuantitiesAreMeasured
    <3> QED BY <3>3
  <2>3. RowStandsOn(graph, relation, prediction)
    BY <2>1, <2>2, RowFacts
  <2>4. EmittedIsNotInvalid
    BY <2>3 DEF RowStandsOn, EmittedIsNotInvalid
  <2>5. /\ FigureNearAnAcceptedOne
        /\ "RETENTION" \in V31 => AcceptedFigureIsKept
    BY <2>3 DEF RowStandsOn, FigureStandsOn, FigureNearAnAcceptedOne, AcceptedFigureIsKept
  <2>6. /\ prediction.objects = <<>> =>
             \A i \in DOMAIN prediction.chosen : Payload[relation][prediction.chosen[i]] = 0
        /\ prediction.reason = IF prediction.objects = <<>> THEN EmptyReason(graph) ELSE "NOT_EMPTY"
    BY <2>3 DEF RowStandsOn
  <2>7. /\ EmptyReason(graph) # "NOT_EMPTY"
        /\ EmptyReason(graph) = "NO_CANDIDATE_GENERATED" => graph.held = {}
        /\ EmptyReason(graph) = "CANDIDATE_REJECTED" => graph.held # {} /\ Active(graph) = {}
        /\ EmptyReason(graph) = "CONFIDENT_NEGATIVE_GATE" => GateNegative(graph)
        /\ EmptyReason(graph) = "UNRESOLVED_ABSTENTION" => Active(graph) # {}
    BY DEF EmptyReason
  <2>8. EmptyIsExplained
    <3>1. prediction.reason = "NOT_EMPTY" <=> prediction.objects # <<>>
      BY <2>6, <2>7
    <3>2. prediction.reason # "NOT_EMPTY" =>
            prediction.objects = <<>> /\ prediction.reason = EmptyReason(graph)
      BY <2>6
    <3>3. graph.held = {} => graph.edges = {}
      BY DEF IInv, NothingIsMinted
    <3>4. Active(graph) = {} => \A k \in graph.held : graph.status[k] = "REJECTED"
      BY DEF Active
    <3> QED BY <2>6, <2>7, <3>1, <3>2, <3>3, <3>4 DEF EmptyIsExplained, GateNegative
  <2> QED BY <2>4, <2>5, <2>8
<1> QED BY <1>1, <1>2

\* In every state Modules 17 and 18 only annotate what free recall named, and
\* bridging again changes nothing (_integrate_and_bridge).
THEOREM BridgeAnnotates == Spec => []BridgeOnlyAnnotates
<1>1. IInv => BridgeOnlyAnnotates
  BY DEF IInv, BridgeOnlyAnnotates
<1> QED BY <1>1, IInvAlways, PTL

\* In every state a call that failed for a candidate or a cluster has cost a call
\* and changed nothing else: no edge came of it and no candidate or cluster is
\* settled by it in the gap.  The existence of an answer is settled by no less
\* than a proposition that was asked, though, unlike those, perhaps in vain
\* (_apply_verifier, cost_ledger, unresolved_mass).
THEOREM FailureCosts == Spec => []FailureIsOnlyACost
<1>1. IInv => FailureIsOnlyACost
  BY FailuresLeaveNoEdge DEF IInv, FailureIsOnlyACost, CallsAreSpent
<1> QED BY <1>1, IInvAlways, PTL

\* In every state X is paid for the word of the second model alone
\* (cross_model_credit, _cross_family_role).
THEOREM XIsASecondFamily == Spec => []XTakesASecondFamily
<1>1. IInv => XTakesASecondFamily
  BY DEF IInv, CreditIsEarned, SecondFamilySaid, XTakesASecondFamily
<1> QED BY <1>1, IInvAlways, PTL

\* In every state a name that was written is not one the last verdict called
\* INVALID, a figure is near one the evidence accepted, and an empty row gives
\* a reason that is true, whatever repairs are switched on (decide_graph).
THEOREM RowStands == Spec => [](EmittedIsNotInvalid /\ FigureNearAnAcceptedOne /\ EmptyIsExplained)
<1>1. IInv /\ RowInv => EmittedIsNotInvalid /\ FigureNearAnAcceptedOne /\ EmptyIsExplained
  BY WrittenRowStands
<1> QED BY <1>1, RowInvAlways, PTL

\* With the retention of V3.1 no order of clusters loses a figure the evidence
\* accepted either (retained_pool).
THEOREM RetainedRowStands == Spec => []("RETENTION" \in V31 => RowStandsOnTheEvidence)
<1>1. IInv /\ RowInv => ("RETENTION" \in V31 => RowStandsOnTheEvidence)
  BY WrittenRowStands DEF RowStandsOnTheEvidence
<1> QED BY <1>1, RowInvAlways, PTL

=============================================================================
