------------------------------ MODULE LargeSet ------------------------------
(***************************************************************************)
(* specialists/large_set_specialist.py, Module 13: award recipients.  A    *)
(* seed query, one probe for each enabled slice, and last the missingness  *)
(* slice, which is shown the names held so far.  Every mention counts:     *)
(* a name a response repeats is seen twice.                                *)
(***************************************************************************)
EXTENDS Recall

\* The plan always ends with it.
ASSUME MissingnessIsPlanned == "missingness_uncovered" \in Considered

VARIABLE
  shown          \* the names the missingness prompt listed

Recipient == "TARGET_RECIPIENT"

\* The slices of the enabled facets; those of one dimension share a group.
FacetProbes ==
  FlattenSeq([i \in DOMAIN LargeSetFacets |->
    LET f == LargeSetFacets[i]
    IN IF f.enabled THEN [k \in DOMAIN f.slices |-> Probe(f.slices[k], f.slices[k], f.kind)]
       ELSE <<>>])
LargeSetPlan == <<Probe("seed", "seed", "seed")>> \o Planned(FacetProbes)

ExtractMentions(probe, source, text) ==
  LET barren(status) == Barren(probe, source, status, Recipient, text)
  IN CASE text = Raised             -> barren("RUNTIME_ERROR")
       [] text.word = ""            -> barren("EMPTY")
       [] text.word \in Abstentions -> barren("ABSTAINED")
       [] OTHER -> IF text.names = <<>> THEN barren("NO_CANDIDATES")
                   ELSE [i \in DOMAIN text.names |->
                           Observe(probe, source, "OK", text.names[i].kind,
                                   text.names[i].name, text)]

UsableRecipient(o) == o.status = "OK" /\ o.kind = Recipient
NearRecipient(o) == o.kind # Recipient
RecipientOccurrence(name) == Occurrence(name, UsableRecipient, NearRecipient)
Recipients(observations) == {o.name : o \in {x \in observations : UsableRecipient(x)}}

\* What a facet returned: memory records carry the facet of Module 11.
FoundIn(facet) == {o \in Seen(log) : o.probe.facet = facet}

\* Fault: every name of the query is held already.
NewSurfacesFault(facet) ==
  Recipients(FoundIn(facet)) \ Recipients({o \in Seen(log) : o.probe.facet # facet})

\* Names first seen in this facet, in plan order; what only Module 11 named
\* comes after every facet of the plan.
NewSurfaces(facet) ==
  LET at == CHOOSE i \in DOMAIN LargeSetPlan : LargeSetPlan[i].facet = facet
  IN Recipients(FoundIn(facet))
       \ UNION {Recipients(FoundIn(LargeSetPlan[i].facet)) : i \in 1..(at - 1)}

\* 1 - unique / targets, as <<numerator, denominator>>.
DuplicateRatio ==
  LET targets == Len(SelectSeq(log, UsableRecipient))
  IN IF targets = 0 THEN <<0, 1>>
     ELSE <<targets - Cardinality(NamesSeen), targets>>

-----------------------------------------------------------------------------
(* The plan *)

MineRecipients ==
  /\ relation = Award /\ step = "memory" /\ todo = <<>>
  /\ log' = Mined(LAMBDA p, t : ExtractMentions(p, "MEMORY", t))
  /\ step' = "facets" /\ todo' = LargeSetPlan
  /\ UNCHANGED <<relation, memory, calls, errors, gate, shown>>

\* The missingness facet is shown what is held; it runs whatever that is.
ProbeFacet ==
  /\ Ask("facets", LAMBDA p, t : ExtractMentions(p, "PROBE", t))
  /\ shown' = IF Head(todo).group = "missingness" THEN Recipients(Seen(log)) ELSE shown
  /\ UNCHANGED <<relation, step, memory, gate>>

FacetsDone ==
  /\ step = "facets" /\ todo = <<>>
  /\ step' = "specialist done"
  /\ UNCHANGED <<relation, todo, memory, log, calls, errors, gate, shown>>

LargeSetNext == MineRecipients \/ ProbeFacet \/ FacetsDone

-----------------------------------------------------------------------------
(* Properties *)

\* Every name is new exactly once: the facets of the plan share the names
\* they found among them, and the name is new in the first facet that gave it
\* (build_facet_states).
NewnessPartitionsTheNames ==
  relation = Award =>
  LET facets == {p.facet : p \in Seen(LargeSetPlan)}
  IN \A n \in Recipients({o \in Seen(log) : IsSpecialistProbe(o)}) :
       Cardinality({f \in facets : n \in NewSurfaces(f)}) = 1

\* The missingness prompt lists every name held when it ran: a name it could
\* not see was returned by that probe itself (_execute).
MissingnessSeesWhatIsHeld ==
  relation = Award /\ step = "specialist done" =>
  Recipients(Seen(log)) \ shown \subseteq
    Recipients({o \in Seen(log) : o.probe.group = "missingness"})

=============================================================================
