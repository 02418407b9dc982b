---------------------------- MODULE MCJudgement ----------------------------
(***************************************************************************)
(* Two or three keys of each relation, and few answers.  The third key of  *)
(* a quantity is its rival far off, the fourth is zero; the second of an   *)
(* area is within the tolerance of the first.                              *)
(***************************************************************************)
EXTENDS Judgement

Dist(v, i, u) == [VALID |-> v, INVALID |-> i, UNKNOWN |-> u]
Yes == Dist(90, 10, 0)
No == Dist(10, 90, 0)
Unsure == Dist(20, 20, 60)

MCDivergence(ds) ==
  10 * (Max({ds[i]["VALID"] : i \in DOMAIN ds}) - Min({ds[i]["VALID"] : i \in DOMAIN ds}))

MCFrames == <<<<1, 1>>, <<1, 2>>, <<2, 1>>, <<2, 2>>>>

\* One observation of a specialist.
Seen(k, kind, group, model) ==
  [key |-> k, kind |-> kind, mined |-> FALSE, cross |-> FALSE, status |-> FALSE, group |-> group,
   operation |-> group, model |-> model, temporal |-> "NONE"]
NoNull == [living |-> FALSE, nowhere |-> FALSE, failedOnly |-> FALSE]
Run(obs, clusters, pending, null, origins, facets) ==
  [obs |-> obs, clusters |-> clusters, pending |-> pending, recalls |-> {},
   null |-> null, origins |-> origins, facetGap |-> facets]

MCSpecialistRuns == [r \in AllRelations |->
  CASE r = Borders ->
         {Run({Seen(1, "TARGET", "m15_direct", Enumerator),
               [Seen(2, "NEAR_MISS", "m15_missing", Enumerator) EXCEPT !.mined = TRUE]},
              <<>>, {1}, NoNull, <<<<1>>, <<1, 2>>>>, 500)}
    [] r = Stock ->
         {Run({[Seen(1, "TARGET", "m15_former", Enumerator) EXCEPT !.temporal = "FORMER"],
               [Seen(1, "TARGET", "m15_cross", SecondModel) EXCEPT !.cross = TRUE,
                                                                   !.temporal = "CURRENT"]},
              <<>>, {}, NoNull, <<<<1>>>>, 0)}
    [] r = Award ->
         {Run({Seen(1, "TARGET", "m13_temporal", Enumerator)}, <<>>, {}, NoNull,
              <<<<1>>, <<>>>>, 250)}
    [] r = Death ->
         {Run({Seen(1, "TARGET", "m14_direct", Enumerator)}, <<>>, {},
              [NoNull EXCEPT !.living = TRUE], <<<<1>>>>, 500),
          Run({}, <<>>, {}, [NoNull EXCEPT !.failedOnly = TRUE], <<>>, NotMeasured)}
    [] r = Area ->
         {Run({Seen(1, "TARGET", "m12_direct", Enumerator),
               Seen(2, "TARGET", "m12_unit", Enumerator)},
              <<[keys |-> {1, 2}, support |-> 2]>>, {}, NoNull, <<<<1>>, <<1>>>>, NotMeasured)}
    [] r = Capacity ->
         {Run({Seen(1, "TARGET", "m12_direct", Enumerator),
               Seen(3, "TARGET", "m12_record", Enumerator)},
              <<[keys |-> {1}, support |-> 1], [keys |-> {3}, support |-> 1]>>, {}, NoNull,
              <<<<1>>, <<2>>>>, NotMeasured)}]

MCViewAnswers == [r \in AllRelations |->
  CASE r = Borders  -> <<{{}, {1, 2}}, {{}, {1}}>>
    [] r = Death    -> <<{{}}, {{}, {1}}>>
    [] r = Stock    -> <<{{}}, {{1}}>>
    [] r = Area     -> <<{{1}, {2}, {1, 2}, {4}}, {{}, {2}, {3}}>>
    [] r = Capacity -> <<{{}, {1}, {1, 3}}, {{1}, {3}, {3, 4}}>>
    [] r = Award    -> <<{{}, {1, 2}}, {{1}}, {{}}, {{}, {2}}>>]
MCRecallAnswers == [r \in AllRelations |->
  CASE r = Area -> {{}, {1}, {2}} [] r \in {Capacity, Award} -> {{}}
    [] r = Borders -> {{}, {1}} [] r = Stock -> {{}, {1, 2}}
    [] r = Death -> {{2}}]
MCGateAnswers == {"NO", "OTHER", "UNAVAILABLE"}

MCBlindAnswers == {<<>>, <<Yes>>, <<No>>, <<Unsure>>, <<Yes, Yes>>, <<No, Yes>>}
Read(d) == [fault |-> "NONE", dist |-> d]
Fails(fault) == [fault |-> fault, dist |-> Unsure]
Always(answer) == [f \in AllFrames |-> answer]
PartlyUnsure ==
  [f \in AllFrames |-> IF f = <<1, 1>> THEN Fails("CONTROL_RAISED") ELSE Read(Unsure)]
MCSpecialistAnswers == [r \in AllRelations |->
  IF r = Death THEN {Always(Read(Yes)), Always(Fails("RAISED"))}
  ELSE {Always(Read(No)), Always(Fails("RAISED")), PartlyUnsure}]

Word(w) == [word |-> w, named |-> <<>>]
Names(s) == [word |-> "prose", named |-> s]
MCCheckAnswers ==
  [REVERSE |-> {Word("supported"), Word("contradicted"), Word("RAISED")},
   COUNTERFACTUAL |-> {Word("excluded"), Word("gibberish")},
   KEY_CONDITION |-> {Names(<<1>>), Word("abstains")},
   CANDIDATE_FREE_RECALL |-> {Names(<<1, 2>>), Word("no number")}]

MCMaxRounds == [r \in AllRelations |-> IF r = Area THEN 2 ELSE 1]

MCValueOf == <<1000, 1020, 2000, 0>>
MCMalformed == {}

\* The second recipient is the first one behind a label, and the only neighbour
\* a second view gives is an empty bucket; the second listing is the company.
MCPayload == [r \in AllRelations |->
  CASE r = Award -> <<1, 1, 3, 4>> [] r = Borders -> <<1, 0, 3, 4>> [] OTHER -> <<1, 2, 3, 4>>]
MCV31 == {"RETENTION", "LABELS", "STRUCTURE"}

=============================================================================
