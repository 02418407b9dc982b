-------------------------- MODULE MCStagedControl --------------------------
(***************************************************************************)
(* Instances of StagedControl for TLC: a view, a description view of two   *)
(* calls, a repeat of a sampled view, a multi-template verification and    *)
(* the recall by the other model.                                          *)
(***************************************************************************)
EXTENDS StagedControl

MCActions == {"view", "description", "resample", "adversarial", "recall"}
MCRole == [a \in MCActions |->
  IF a \in {"adversarial", "recall"} THEN "verifier" ELSE "enumerator"]
MCCost == [a \in MCActions |->
  CASE a = "description" -> 2 [] a = "adversarial" -> 3 [] OTHER -> 1]
MCViews == {"view", "description"}
MCRepeatable == {"resample"}
MCVerifies == {"adversarial"}
=============================================================================
