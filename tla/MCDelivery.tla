----------------------------- MODULE MCDelivery -----------------------------
(***************************************************************************)
(* Two runs that may share a directory and its packaging: splits of one or *)
(* two rows, and every way their refinement may go.                        *)
(* Of the figures 100, 104 and 109 the neighbours are within the tolerance *)
(* and the ends are not.  21 and 22 are two surfaces of one exchange; 11   *)
(* is 12 with metadata, 13 is nothing else, 14 writes 12 in another way.   *)
(***************************************************************************)
EXTENDS Delivery

Asked(subject, relation) == [subject |-> subject, relation |-> relation]
MCSplits ==
  {[rows |-> <<Asked("a", Stock), Asked("b", Death)>>, blind |-> TRUE],
   [rows |-> <<Asked("c", Award)>>, blind |-> FALSE],
   [rows |-> <<Asked("e", Area)>>, blind |-> TRUE],
   [rows |-> <<Asked("f", Capacity)>>, blind |-> TRUE]}

Caps(stock, area, capacity, death) ==
  (Stock :> stock) @@ (Area :> area) @@ (Capacity :> capacity) @@ (Death :> death)
    @@ (Award :> 1) @@ (Borders :> 0)
Profile(city, stock, area, capacity, caps) ==
  [enabled |-> TRUE, city |-> city, area |-> area, capacity |-> capacity, stock |-> stock,
   support |-> 3, award |-> TRUE, caps |-> caps]

\* The active modes with the calls they need; others, with fewer than they need
\* or a configuration that raises on areas; the direct view alone; no refinement.
MCProfiles ==
  {Profile("DIRECT_ALL", "EMPTY_ONLY", "MULTIVIEW", "OFF", Caps(4, 5, 0, 2)),
   [Profile("EMPTY_ONLY", "OFF", "MULTIVIEW", "MULTIVIEW", Caps(0, 3, 3, 1))
      EXCEPT !.award = FALSE],
   Profile("OFF", "OFF", "DIRECT", "OFF", Caps(0, 1, 0, 0)),
   NoProfile}

MCAnswers == [r \in AllRelations |->
  CASE r = Stock -> {<<>>, <<23>>}
    [] r = Borders -> {<<31>>}
    [] r = Death -> {<<41>>}
    [] r = Award -> {<<11, 12, 13, 14>>}
    [] r \in Numeric -> {<<7>>}]

Says(word) == <<Line(word, 0)>>
Gives(v) == Line("VALUE", v)
MCTexts == [kind \in {"figure", "judge", "life", "city", "exchanges"} |->
  CASE kind = "figure" -> {<<Gives(100)>>, <<Gives(104)>>, <<Gives(109)>>, Says("UNKNOWN")}
    [] kind = "judge" -> {<<Line("LABEL", 1)>>, <<Line("LABEL", 2)>>, <<Gives(100), Gives(104)>>}
    [] kind = "life" -> {Says("DECEASED"), Says("LIVING"), <<>>}
    [] kind = "city" -> {<<Gives(42)>>, Says("UNKNOWN"), Says("OTHER")}
    [] kind = "exchanges" -> {<<Gives(21)>>, <<Gives(22), Gives(21), Gives(23)>>,
                              Says("UNKNOWN")}]

MCCanonical == (21 :> 1) @@ (22 :> 1) @@ (23 :> 2)
MCRecipient == (11 :> 12) @@ (12 :> 12) @@ (13 :> 0) @@ (14 :> 14)
MCStrictKey ==
  [s \in {11, 12, 13, 14, 21, 22, 23, 31, 41, 42} |-> IF s = 14 THEN 12 ELSE s]

=============================================================================
