---------------------------- MODULE NullTemporal ----------------------------
(***************************************************************************)
(* specialists/null_temporal_specialist.py, Module 14: the city of death.  *)
(* Stage A asks whether the person is dead; the gate counts independent    *)
(* sources; only a gate that reads DECEASED_PLAUSIBLE lets stage B ask for *)
(* a place.  Absence is evidence when a text states it, never when recall  *)
(* merely failed.                                                          *)
(***************************************************************************)
EXTENDS Recall

CONSTANTS
  MinGroups,         \* independent sources the gate asks for
  CrossFamilyOn      \* decide_cross_family's answer for this configuration

ASSUME LocalitiesAreClassified ==
  Death \in Relations => \A t \in TextsOf[Death] : \A n \in ToSet(t.names) :
    n.kind \in {"TARGET_CITY"} \cup ToSet(LocalityNearMisses)
ASSUME GateNeedsASource == MinGroups \in Nat \ {0}

VARIABLE
  stated             \* <<operation, source>> of each statement of absence

StageA == PlanOf(DeathStageA)
StageB == PlanOf(DeathStageB)

-----------------------------------------------------------------------------
(* Parsing *)

\* One bare word first, then the cues in declaration order: a text that says
\* "has not died" holds a deceased cue and reads DECEASED.
ParseDeathStatus(text) ==
  IF text = Raised THEN <<"UNKNOWN", "RUNTIME_ERROR">>
  ELSE IF text.word = "" THEN <<"UNKNOWN", "EMPTY">>
  ELSE IF text.word = "UNKNOWN" THEN <<"UNKNOWN", "ABSTAINED">>
  ELSE IF text.word \in {"LIVING", "DECEASED"} THEN <<text.word, "OK">>
  ELSE IF "deceased" \in text.cues THEN <<"DECEASED", "OK">>
  ELSE IF "living" \in text.cues THEN <<"LIVING", "OK">>
  ELSE IF "unknown" \in text.cues THEN <<"UNKNOWN", "ABSTAINED">>
  ELSE <<"UNKNOWN", "UNPARSED_STATUS">>

StatusObservation(probe, text) ==
  <<Observe(probe, "PROBE", ParseDeathStatus(text)[2], ParseDeathStatus(text)[1],
            "", text)>>

\* Labelled lines and prepositional places; otherwise a text that is nothing
\* but one capitalised word is a name, the status words included.
ExtractLocalities(text) ==
  IF text.names # <<>> THEN text.names
  ELSE IF text.word \in {"LIVING", "DECEASED"}
       THEN <<[name |-> text.word, kind |-> "TARGET_CITY"]>>
       ELSE <<>>

LocalityRecords(probe, source, text) ==
  LET found == ExtractLocalities(text)
      barren(status) == Barren(probe, source, status, "TARGET_CITY", text)
  IN CASE text = Raised              -> barren("RUNTIME_ERROR")
       [] text.word = ""             -> barren("EMPTY")
       [] text.word \in Abstentions  -> barren("ABSTAINED")
       [] OTHER -> IF found = <<>> THEN barren("NO_LOCALITY")
                   ELSE [i \in DOMAIN found |->
                           Observe(probe, source, "OK", found[i].kind,
                                   found[i].name, text)]

\* A claim about the record: a third-person statement, or the bare sentinel
\* where the prompt defined it.
AssertsAbsence(text, sentinelIsDefined) ==
  \/ "noKnownLocality" \in text.cues
  \/ sentinelIsDefined /\ text.word = "NONE"

Stated(probe, text, sentinelIsDefined) ==
  IF AssertsAbsence(text, sentinelIsDefined)
  THEN <<<<probe.op, probe.group>>>> ELSE <<>>

\* Only the query rewrite carries the output contract that defines NONE.
SentinelDefined(probe) == probe.op = "QUERY_REWRITE"

-----------------------------------------------------------------------------
(* The gate *)

StatusGroups(reading) ==
  {o.probe.group : o \in {x \in Seen(log) : x.status = "OK" /\ x.kind = reading}}

\* Fault: observations are counted, not their sources.
ReadDeathGateFault ==
  LET count(r) == Len(SelectSeq(log, LAMBDA o : o.status = "OK" /\ o.kind = r))
  IN IF count("DECEASED") >= MinGroups THEN "DECEASED_PLAUSIBLE"
     ELSE IF count("LIVING") >= MinGroups THEN "NULL_PLAUSIBLE"
     ELSE "UNRESOLVED"

\* Independent sources, none of them contradicted.
ReadDeathGate ==
  LET deceased == StatusGroups("DECEASED")
      living   == StatusGroups("LIVING")
  IN IF deceased # {} /\ living # {} THEN "UNRESOLVED"
     ELSE IF Cardinality(deceased) >= MinGroups THEN "DECEASED_PLAUSIBLE"
     ELSE IF Cardinality(living) >= MinGroups THEN "NULL_PLAUSIBLE"
     ELSE "UNRESOLVED"

-----------------------------------------------------------------------------
(* The plan *)

CrossProbe == Probe("cross_family_recall", "cross_family_recall", "cross_family_recall")

\* The memory of Module 11 is read before any probe runs.
MineDeath ==
  /\ relation = Death /\ step = "memory" /\ todo = <<>>
  /\ LET status(p, t)   == IF ParseDeathStatus(t)[2] = "OK"
                           THEN <<Observe(p, "MEMORY", "OK", ParseDeathStatus(t)[1],
                                          "", t)>> ELSE <<>>
         locality(p, t) == LocalityRecords(p, "MEMORY", t)
         absence(p, t)  == Stated(p, t, SentinelDefined(p))
     IN /\ log' = Mined(status) \o Mined(locality)
        /\ stated' = Mined(absence)
  /\ step' = "stageA" /\ todo' = StageA
  /\ UNCHANGED <<relation, memory, calls, errors, gate>>

ProbeStatus ==
  /\ Ask("stageA", StatusObservation)
  /\ UNCHANGED <<relation, step, memory, gate, stated>>

OpenGate ==
  /\ step = "stageA" /\ todo = <<>>
  /\ gate' = ReadDeathGate
  /\ IF gate' = "DECEASED_PLAUSIBLE"
     THEN /\ step' = "stageB"
          /\ todo' = StageB \o IF CrossFamilyOn THEN <<CrossProbe>> ELSE <<>>
     ELSE step' = "specialist done" /\ todo' = <<>>
  /\ UNCHANGED <<relation, memory, log, calls, errors, stated>>

ProbeLocality ==
  /\ step = "stageB" /\ todo # <<>>
  /\ Call(LAMBDA text :
            /\ log' = log \o LocalityRecords(Head(todo), "PROBE", text)
            /\ stated' = stated \o Stated(Head(todo), text, FALSE))
  /\ todo' = Tail(todo)
  /\ UNCHANGED <<relation, step, memory, gate>>

LocalitiesDone ==
  /\ step = "stageB" /\ todo = <<>>
  /\ step' = "specialist done"
  /\ UNCHANGED <<relation, todo, memory, log, calls, errors, gate, stated>>

NullTemporalNext ==
  MineDeath \/ ProbeStatus \/ OpenGate \/ ProbeLocality \/ LocalitiesDone

-----------------------------------------------------------------------------
(* The result *)

UsableLocality(o) == o.status = "OK" /\ o.kind = "TARGET_CITY"
NearLocality(o) ==
  o.kind \in {"BIRTHPLACE", "BURIAL_PLACE", "RESIDENCE", "COUNTRY_OR_REGION"}
LocalityOccurrence(name) == Occurrence(name, UsableLocality, NearLocality)

\* E_null: its three classes kept apart.
NullEvidence ==
  [living |-> StatusGroups("LIVING"),
   noKnown |-> {s[2] : s \in Seen(stated)},
   failed |-> {o.probe.op : o \in {x \in Seen(log) :
                 /\ x.status \in {"EMPTY", "ABSTAINED", "NO_LOCALITY", "RUNTIME_ERROR"}
                 /\ x.kind = "TARGET_CITY"}}
              \ {s[1] : s \in Seen(stated)}]

SubstantiveGroups == NullEvidence.living \cup NullEvidence.noKnown

-----------------------------------------------------------------------------
(* Properties *)

\* A place is only asked for after enough independent sources, none of them
\* contradicted, have read the person as dead: repeated samples of one source
\* and failed calls never open stage B (read_gate, analyse).
PlaceNeedsADeath ==
  relation = Death
    /\ (\E o \in Seen(log) : o.source = "PROBE" /\ o.probe \in Seen(StageB)) =>
  /\ StatusGroups("LIVING") = {}
  /\ Cardinality(StatusGroups("DECEASED")) >= MinGroups

\* Emptiness is claimed only by a source one of whose answers says so: a
\* silence, an abstention or a failed call is never evidence that there is no
\* place (build_null_evidence, asserts_relation_level_absence).
SilenceIsNotAbsence ==
  relation = Death =>
  \A g \in SubstantiveGroups :
    \E o \in Seen(log) :
      /\ o.probe.group = g
      /\ \/ o.text.word = "LIVING" \/ "living" \in o.text.cues
         \/ "noKnownLocality" \in o.text.cues
         \/ o.text.word = "NONE" /\ SentinelDefined(o.probe)

=============================================================================
