----------------------------- MODULE MCQueryRun -----------------------------
(***************************************************************************)
(* Instances of QueryRun for TLC: a discovery action, a verification that  *)
(* costs two calls and one that Module 20 cannot price.                    *)
(***************************************************************************)
EXTENDS QueryRun

MCActions == {"explore", "verify", "unpriced"}
MCClass == [a \in MCActions |-> IF a = "verify" THEN "VERIFICATION" ELSE "DISCOVERY"]
MCPurpose == [a \in MCActions |-> "none"]
MCCalls == [a \in MCActions |-> IF a = "verify" THEN 2 ELSE 1]
MCTokens == [a \in MCActions |-> IF a = "verify" THEN 0 ELSE 1]
MCBounded == {"explore", "verify"}
MCRepeatable == {"verify"}
MCClassCap == [c \in Classes |-> 3]
MCSpecialReserve == [p \in Special |-> 0]
=============================================================================
