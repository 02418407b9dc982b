--------------------------- MODULE MCBudgetLedger ---------------------------
(***************************************************************************)
(* Instances of BudgetLedger for TLC: actions of both classes, with and    *)
(* without a special purpose, one that declares no cost bound and one      *)
(* whose purpose Table 6 does not declare.                                 *)
(***************************************************************************)
EXTENDS BudgetLedger

MCActions == {"explore", "verify", "recheck", "probe", "unpriced", "stray"}

MCClass == [a \in MCActions |->
  IF a \in {"explore", "probe", "unpriced"} THEN "DISCOVERY" ELSE "VERIFICATION"]

MCPurpose == [a \in MCActions |->
  CASE a = "recheck" -> "special1"
    [] a = "probe"   -> "special2"
    [] a = "stray"   -> "undeclared"
    [] OTHER         -> "none"]

MCCalls == [a \in MCActions |->
  CASE a = "verify" -> 2 [] a = "recheck" -> 2 [] OTHER -> 1]

MCTokens == [a \in MCActions |-> IF a \in {"explore", "probe"} THEN 1 ELSE 0]

MCBounded == MCActions \ {"unpriced"}

\* Discovery may take all but one call, so that it can reach the floor of
\* verification through what the acquisition spent before.
MCClassCap == [c \in Classes |-> IF c = "DISCOVERY" THEN 4 ELSE 5]

\* One pool, and three at once.
MCNoSpecial == [p \in Special |-> 0]
MCThreePools == [p \in Special |-> 1]
=============================================================================
