--------------------------- MODULE MCAcquisition ---------------------------
(***************************************************************************)
(* One instance of each relation's acquisition.                            *)
(***************************************************************************)
EXTENDS Acquisition

Bare(w) == [word |-> w, cues |-> {}, names |-> <<>>]
Says(cues) == [word |-> "prose", cues |-> cues, names |-> <<>>]
Lists(names) == [word |-> "prose", cues |-> {}, names |-> names]
OneName(n, k) == [name |-> n, kind |-> k]
OneNumber(v, u, k) == [value |-> v, unit |-> u, kind |-> k]

MCMissingness == {Borders, Award}
MCRecallOps == <<"QUERY_REWRITE", "SELF_ASK">>
MCOneRecall == <<"QUERY_REWRITE">>

MCTextsOf == [r \in AllRelations |->
  CASE r = Area ->
         {Bare("NONE"), Lists(<<OneNumber(1000, "", "TARGET")>>),
          Lists(<<OneNumber(1024, "km2", "TARGET"), OneNumber(395, "mi2", "TARGET")>>),
          Lists(<<OneNumber(1049, "km2", "TARGET")>>),
          Lists(<<OneNumber(1000, "", "TARGET"), OneNumber(1020, "", "TARGET"),
                  OneNumber(1040, "", "TARGET")>>)}
    [] r = Capacity ->
         {Says({}), Lists(<<OneNumber(5000, "?", "TARGET"), OneNumber(7000, "", "RECORD")>>),
          Lists(<<OneNumber(5005, "", "TARGET"), OneNumber(0, "", "TARGET"),
                  OneNumber(40, "km2", "TARGET")>>)}
    [] r = Award ->
         {Bare("UNKNOWN"), Lists(<<OneName("a", Recipient), OneName("a", Recipient)>>),
          Lists(<<OneName("b", "NOMINEE"), OneName("a", Recipient)>>),
          [word |-> "prose", cues |-> {"answers"}, names |-> <<OneName("b", Recipient)>>]}
    [] r = Death ->
         {Bare("UNKNOWN"), Bare("NONE"), Bare("DECEASED"), Says({"living", "noKnownLocality"}),
          [word |-> "prose", cues |-> {"deceased"},
           names |-> <<OneName("a", "TARGET_CITY"), OneName("b", "BIRTHPLACE")>>]}
    [] r = Borders ->
         {Bare(""), Lists(<<OneName("a", "TARGET_NEIGHBOUR"), OneName("a", "TARGET_NEIGHBOUR")>>),
          Lists(<<OneName("b", "TARGET_NEIGHBOUR"), OneName("a", "DISPUTED_CLAIM_ONLY")>>)}
    [] r = Stock ->
         {Bare("NOT_LISTED"),
          [word |-> "prose", cues |-> {"listed", "current"},
           names |-> <<OneName("a", "TARGET_EXCHANGE")>>],
          [word |-> "prose", cues |-> {"former"},
           names |-> <<OneName("a", "HISTORICAL_OR_DELISTED")>>]}]

MCFactor == [u \in {"km2", "mi2"} |-> IF u = "km2" THEN 10 ELSE 26]
MCConsidered ==
  {"exact_quantity_direct", "cross_unit_format"}
    \cup {"temporal_early", "missingness_uncovered"}
    \cup {"direct_life_status", "death_event_existence", "direct_locality"}
    \cup {"border_direct", "border_geographic", "border_missingness"}
    \cup {"stock_listing_gate", "stock_listing_existence", "stock_primary",
          "stock_cross_family", "stock_missingness"}

=============================================================================
