------------------------------ MODULE MCSearch ------------------------------
(***************************************************************************)
(* Two candidates of each relation; a third is malformed.  A quantity has  *)
(* a fourth, which is zero.  Few answers.                                  *)
(***************************************************************************)
EXTENDS Search

Dist(v, i, u) == [VALID |-> v, INVALID |-> i, UNKNOWN |-> u]
Yes == Dist(90, 10, 0)
No == Dist(10, 90, 0)

MCDivergence(ds) ==
  10 * (Max({ds[i]["VALID"] : i \in DOMAIN ds}) - Min({ds[i]["VALID"] : i \in DOMAIN ds}))
MCFrames == <<<<1, 1>>>>
MCValueOf == <<1000, 1020, 2000, 0>>

MCSecondFamilies == [r \in AllRelations |-> IF r \in {Death, Stock} THEN BOOLEAN ELSE {FALSE}]
MCViewAnswers == [r \in AllRelations |->
  CASE r = Award -> {{}, {1}} [] r = Borders -> {{}, {1}, {1, 2}}
    [] r \in {Stock, Death} -> {{}, {1}, {1, 3}, {2}} [] OTHER -> {{}, {1}, {2}, {3}, {4}, {2, 4}}]
MCReverseAnswers == [r \in AllRelations |-> IF r = Award THEN {{}, {1}} ELSE {{}, {1}, {2}}]
MCRecallAnswers == [r \in AllRelations |-> {{}, {1}}]
MCGateAnswers == {"NO", "YES", "UNKNOWN", "UNAVAILABLE"}
MCBlindAnswers == {<<>>, <<Yes>>, <<No>>, <<Yes, Yes>>, <<No, Yes>>, <<No, No>>}
MCTokenCosts == [r \in AllRelations |-> IF r = Borders THEN {100, 400} ELSE {200}]
MCMalformed == {3}
MCDeath == {Death}

=============================================================================
