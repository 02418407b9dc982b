----------------------------- MODULE Contracts -----------------------------
(***************************************************************************)
(* contracts/: what Modules 0 and 1 declare of the six relations, and the  *)
(* checks that refuse a declaration that disagrees with its programme.     *)
(***************************************************************************)
EXTENDS Integers, FiniteSets

Borders == "countryLandBordersCountry"
Death == "personHasCityOfDeath"
Capacity == "hasCapacity"
Award == "awardWonBy"
Stock == "companyTradesAtStockExchange"
Area == "hasArea"
AllRelations == {Borders, Death, Capacity, Award, Stock, Area}

\* Table 4: the regime of each programme; 0 is "no cap".
Programs ==
  [SMALL_SET      |-> [cardinality |-> "ZERO_OR_MANY_SMALL", output |-> "ENTITY",
                       cap |-> 0, missingness |-> TRUE],
   NULL_SINGLE    |-> [cardinality |-> "ZERO_OR_ONE", output |-> "ENTITY",
                       cap |-> 1, missingness |-> FALSE],
   NUMERIC        |-> [cardinality |-> "EXACTLY_ONE", output |-> "NUMBER",
                       cap |-> 1, missingness |-> FALSE],
   LARGE_OPEN_SET |-> [cardinality |-> "ZERO_OR_MANY_LARGE", output |-> "ENTITY",
                       cap |-> 0, missingness |-> TRUE]]

Contract(program, cap, mandatory, optional, families, accept, calls, patience, negatives) ==
  [program |-> program, cap |-> cap, mandatory |-> mandatory, optional |-> optional,
   families |-> families, accept |-> accept, calls |-> calls, patience |-> patience,
   negatives |-> negatives]

BordersContract ==
  Contract("SMALL_SET", 0, {"borders_direct", "borders_compass"},
           {"borders_land_vs_maritime", "borders_missing", "borders_description",
            "borders_reverse_check"},
           {"direct", "structural", "description", "contrastive", "missingness", "reverse"},
           2, 4, 1, 6)
DeathContract ==
  Contract("NULL_SINGLE", 1, {"death_status_gate", "death_city_direct"},
           {"death_locality_granularity", "death_description"},
           {"gate", "direct", "description", "contrastive"}, 3, 4, 2, 5)
StockContract ==
  Contract("SMALL_SET", 0, {"stock_listing_gate", "stock_exchange_direct"},
           {"stock_parent_contrast", "stock_description", "stock_reverse_check"},
           {"gate", "direct", "description", "contrastive", "reverse"}, 3, 5, 2, 5)
AreaContract ==
  Contract("NUMERIC", 1, {"area_direct_km2", "area_total_vs_land"},
           {"area_alternate_unit"}, {"direct", "structural", "contrastive"}, 2, 4, 2, 5)
CapacityContract ==
  Contract("NUMERIC", 1, {"capacity_direct", "capacity_contrast"},
           {"capacity_configuration"}, {"direct", "structural", "contrastive"}, 2, 4, 2, 5)
AwardContract ==
  Contract("LARGE_OPEN_SET", 0,
           {"award_direct", "award_facet_temporal", "award_facet_recipient_type",
            "award_missing"},
           {"award_facet_category", "award_exact_identity_contrast", "award_reverse_check"},
           {"direct", "structural", "contrastive", "missingness", "reverse"}, 2, 16, 3, 5)

ContractOf(r) ==
  CASE r = Borders -> BordersContract [] r = Death -> DeathContract
    [] r = Stock -> StockContract     [] r = Area -> AreaContract
    [] r = Award -> AwardContract     [] r = Capacity -> CapacityContract

ProgramOf(r) == Programs[ContractOf(r).program]
AllowsEmpty(r) == ProgramOf(r).cardinality # "EXACTLY_ONE"

\* The families that can produce a candidate; a gate yields a verdict only.
EligibleGroups(r) == ContractOf(r).families \ {"gate"}

\* check_program_compatibility and validate.
ContractIsConsistent(r) ==
  LET c == ContractOf(r)  p == ProgramOf(r)
  IN /\ p.cap # 0 => c.cap \in {0, p.cap}
     /\ ~p.missingness => "missingness" \notin c.families
     /\ c.mandatory # {} /\ c.mandatory \cap c.optional = {}
     /\ ~AllowsEmpty(r) => c.cap \in {0, 1}
     /\ EligibleGroups(r) # {} /\ c.calls > 0 /\ c.negatives > 0

\* The evaluator's own types (RELATION_TYPE) agree with the contracts'.
OfficialNumeric == {Area, Capacity}
RouterIsConsistent ==
  \A r \in AllRelations :
    /\ ContractIsConsistent(r)
    /\ (ProgramOf(r).output = "NUMBER") <=> (r \in OfficialNumeric)

=============================================================================
