----------------------------- MODULE Registries -----------------------------
(***************************************************************************)
(* specialists/*_registry.py: the probes each specialist declares for its  *)
(* relations, in plan order, and the checks a specialist makes of them     *)
(* before it runs.                                                         *)
(***************************************************************************)
EXTENDS Contracts, Sequences, SequencesExt

Direct == "exact_quantity_direct"
Contrast == "contrastive_definition"

NumericFamilies ==
  [r \in OfficialNumeric |->
     IF r = Capacity
     THEN <<Direct, Contrast, "cross_unit_format", "historical_current_configuration",
            "candidate_free_reelicitation">>
     ELSE <<Direct, Contrast, "cross_unit_format", "candidate_free_reelicitation">>]

NumericNearMisses ==
  [r \in OfficialNumeric |->
     IF r = Capacity
     THEN <<"ATTENDANCE", "SEATED_ONLY", "HISTORICAL_CONFIGURATION", "UNRELATED_QUANTITY">>
     ELSE <<"LAND_ONLY", "WATER_ONLY", "SURROUNDING_REGION", "UNRELATED_QUANTITY">>]

Facet(kind, enabled, slices) == [kind |-> kind, enabled |-> enabled, slices |-> slices]

LargeSetFacets ==
  <<Facet("temporal", TRUE, <<"temporal_early", "temporal_middle", "temporal_recent">>),
    Facet("recipient_type", TRUE, <<"recipient_person", "recipient_group",
                                    "recipient_organisation", "recipient_project">>),
    Facet("category", TRUE, <<"category_dimension">>),
    Facet("geography", FALSE, <<>>),
    Facet("missingness", TRUE, <<"missingness_uncovered">>)>>

AwardNearMisses ==
  <<"NOMINEE", "RESCINDED", "ADJACENT_AWARD", "DIFFERENT_CATEGORY", "WINNING_WORK">>

DeathStageA == <<"direct_life_status", "death_event_existence", "life_dates_recollection">>
DeathStageB == <<"direct_locality", "biography_locality", "birth_residence_contrast",
                 "candidate_free_recall">>
StatusCues == <<"deceased", "living", "unknown">>
LocalityNearMisses == <<"BURIAL_PLACE", "BIRTHPLACE", "RESIDENCE", "COUNTRY_OR_REGION">>

Template(facet, family) == [facet |-> facet, family |-> family]

\* The border direct probe is declared and disabled: enable_facets names it.
BorderAcquisition == <<Template("border_direct", "border_direct"),
                       Template("border_geographic", "border_geographic")>>
DisabledFacets == {"border_direct"}
BorderMissingness == <<Template("border_missingness", "missingness")>>

StockGate == <<Template("stock_listing_gate", "stock_listing_gate"),
               Template("stock_listing_existence", "stock_listing_existence")>>
StockAcquisition ==
  <<Template("stock_primary", "stock_primary_listing"),
    Template("stock_secondary_dual", "stock_secondary_dual_listing"),
    Template("stock_temporal", "stock_temporal_status"),
    Template("stock_company_itself", "stock_company_itself")>>
StockMissingness == <<Template("stock_missingness", "missingness")>>
StockFreshness == <<Template("stock_cross_family", "cross_family_recall")>>

BorderNearMisses ==
  <<"MARITIME_ONLY", "NON_INTEGRAL_DEPENDENCY", "DISPUTED_CLAIM_ONLY",
    "NEARBY_NOT_ADJACENT", "SUBJECT_ITSELF", "SUBNATIONAL_REGION">>
StockNearMisses ==
  <<"PARENT_COMPANY_LISTING", "SUBSIDIARY_LISTING", "INDEX_OR_NON_EXCHANGE",
    "HISTORICAL_OR_DELISTED", "PRIVATE_OR_NOT_LISTED">>

-----------------------------------------------------------------------------
(* The consistency checks *)

NumericRegistryHolds ==
  \A r \in AllRelations :
    /\ (r \in DOMAIN NumericFamilies) <=> (ContractOf(r).program = "NUMERIC")
    /\ r \in DOMAIN NumericFamilies =>
         /\ Direct \in ToSet(NumericFamilies[r])
         /\ "TARGET" \notin ToSet(NumericNearMisses[r])
         /\ IsInjective(NumericNearMisses[r])

LargeSetRegistryHolds ==
  LET slices == FlattenSeq([i \in DOMAIN LargeSetFacets |-> LargeSetFacets[i].slices])
  IN /\ {r \in AllRelations : ContractOf(r).program = "LARGE_OPEN_SET"} = {Award}
     /\ IsInjective([i \in DOMAIN LargeSetFacets |-> LargeSetFacets[i].kind])
     /\ \A i \in DOMAIN LargeSetFacets :
          LargeSetFacets[i].kind # "seed"
            /\ (LargeSetFacets[i].enabled <=> LargeSetFacets[i].slices # <<>>)
     /\ IsInjective(slices) /\ IsInjective(AwardNearMisses)
     /\ Len(AwardNearMisses) = ContractOf(Award).negatives

NullTemporalRegistryHolds ==
  /\ {r \in AllRelations : ContractOf(r).program = "NULL_SINGLE"} = {Death}
  /\ AllowsEmpty(Death)
  /\ Len(DeathStageA) >= 2 /\ IsInjective(DeathStageA) /\ IsInjective(DeathStageB)
  /\ ToSet(StatusCues) = {"deceased", "living", "unknown"}
  /\ Len(LocalityNearMisses) <= ContractOf(Death).negatives

\* Only stock has a gate, and its freshness recall is one probe.
SmallSetRegistryHolds ==
  /\ {r \in AllRelations : ContractOf(r).program = "SMALL_SET"} = {Borders, Stock}
  /\ \E i \in DOMAIN BorderAcquisition : BorderAcquisition[i].facet \notin DisabledFacets
  /\ BorderMissingness # <<>> /\ StockMissingness # <<>> /\ StockAcquisition # <<>>
  /\ StockGate # <<>> /\ Len(StockFreshness) <= 1
  /\ LET facets(s) == [i \in DOMAIN s |-> s[i].facet]
     IN /\ IsInjective(facets(BorderAcquisition \o BorderMissingness))
        /\ IsInjective(facets(StockGate \o StockAcquisition \o StockMissingness
                              \o StockFreshness))
  /\ Len(BorderNearMisses) = ContractOf(Borders).negatives
  /\ Len(StockNearMisses) = ContractOf(Stock).negatives

ASSUME DeclarationsHold ==
  /\ RouterIsConsistent
  /\ NumericRegistryHolds /\ LargeSetRegistryHolds
  /\ NullTemporalRegistryHolds /\ SmallSetRegistryHolds

=============================================================================
