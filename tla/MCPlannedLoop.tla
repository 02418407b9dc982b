---------------------------- MODULE MCPlannedLoop ----------------------------
(***************************************************************************)
(* PlannedLoop for TLC: a relation with each kind of pool for the actions   *)
(* of the loop, a ledger that a few calls fill, and a history with bins of  *)
(* a relation, pooled ones, one that names its target, and one without      *)
(* successors, over which nothing can be planned two steps deep.            *)
(***************************************************************************)
EXTENDS PlannedLoop, TLC

MCRelations == {"hasCapacity", "awardWonBy", "companyTradesAtStockExchange"}

MCCalibration ==
  [r \in MCRelations |->
     [hardCalls |-> 3, hardTokens |-> 5, discoveryCap |-> 2, verificationCap |-> 2,
      verificationReserve |-> IF r = "hasCapacity" THEN 1 ELSE 0,
      special |-> CASE r = "awardWonBy" -> [p \in {"MISSINGNESS"} |-> 1]
                    [] r = "hasCapacity" -> [p \in {"CROSS_UNIT"} |-> 1]
                    [] OTHER -> [p \in {} |-> 0]]]

MCCuts == [residual |-> <<1>>]
MCGaps == [residual : {NA, 0, 1}]
MCWeights == [alpha |-> 2, beta |-> 1, gamma |-> 1, delta |-> 1, eta |-> 1, kappa |-> 1, tau |-> 0]

Bin(relation_, program, state, family, gain, next) ==
  [relation |-> relation_, program |-> program, state |-> state, family |-> family,
   target |-> "", gain |-> gain, deltaR |-> 0, deltaH |-> 0, cost |-> 1, redundancy |-> 0,
   fp |-> 0, next |-> next]

High == [residual |-> 1]
AnyThen == {<<2, Fallback>>}
Either == {<<1, Fallback>>, <<1, High>>}
Pooled(family, gain, next) == Bin("__any_relation__", "__any_program__", Fallback, family, gain, next)

MCBins ==
  {Pooled("MULTI_VIEW_RECALL", 1, AnyThen), Pooled("INDEPENDENT_RECALL", 0, AnyThen),
   Pooled("ALTERNATIVE_RECALL", 1, AnyThen), Pooled("SET_EXPANSION", 2, Either),
   Pooled("LISTING_ELIMINATION", 1, AnyThen), Pooled("SEMANTIC_VERIFY", 1, AnyThen),
   Pooled("CONTRAST_VERIFY", 1, {}),
   Bin("__any_relation__", "NUMERIC", Fallback, "DEFINITION_RECALL", 1, Either),
   Bin("awardWonBy", "LARGE_OPEN_SET", High, "ALTERNATIVE_RECALL", 2, {}),
   Bin("awardWonBy", "LARGE_OPEN_SET", Fallback, "UNARY_VERIFY", 1, AnyThen),
   Bin("awardWonBy", "LARGE_OPEN_SET", High, "UNARY_VERIFY", 3, AnyThen),
   [Bin("awardWonBy", "LARGE_OPEN_SET", High, "UNARY_VERIFY", 0, AnyThen)
      EXCEPT !.target = "UNARY_VERIFY", !.redundancy = 1]}
=============================================================================
