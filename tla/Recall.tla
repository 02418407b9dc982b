------------------------------- MODULE Recall -------------------------------
(***************************************************************************)
(* The acquisition that precedes the evidence graph: Module 11             *)
(* (query_intelligence/parametric_retrieval.py) runs its recall probes,    *)
(* and the specialist of the relation (Modules 12 to 15) mines what they   *)
(* said and runs its own fixed plan of probes.  This module holds what the *)
(* five share: a probe is one runtime call, a call may raise before or     *)
(* after the runtime counted it, and whatever happens leaves a record.     *)
(*                                                                         *)
(* A text is what the parsers tell apart: its word when it is one bare     *)
(* word ("" for an empty text, "prose" otherwise), the lexical cues it     *)
(* contains, and the names it lists with the kind of mention each has.     *)
(***************************************************************************)
EXTENDS Registries

CONSTANTS
  Relations,     \* the relations whose acquisition is explored
  TextsOf,       \* TextsOf[r]: the texts a model may return for relation r
  RecallOps,     \* the probe kinds of Module 11, once for each sample, in order
  Considered     \* the probes of the registries this instance plans

\* What a model returns is a text, and is never what a raised call leaves.
ASSUME TextsAreReturned ==
  /\ Relations \subseteq AllRelations
  /\ \A r \in Relations : \A t \in TextsOf[r] :
       t.word # "RAISED" /\ t.names \in Seq(ToSet(t.names))

\* RecallOperationKind.
ASSUME RecallIsOfModule11 ==
  RecallOps \in Seq({"PSEUDO_MEMORY", "SELF_ASK", "QUERY_REWRITE"})

VARIABLES
  relation,      \* the relation of the query
  step,          \* the stage of the plan that runs
  todo,          \* probes of that stage still to run, in plan order
  memory,        \* Module 11's records
  log,           \* the specialist's observations, in order
  calls,         \* runtime calls charged to the run
  errors,        \* operations whose call raised
  gate           \* the reading of the relation's gate, "NONE" until there is one

recallVars == <<relation, step, todo, memory, log, calls, errors, gate>>

\* What a raised call leaves to parse.
Raised == [word |-> "RAISED", cues |-> {}, names |-> <<>>]
Abstentions == {"UNKNOWN", "NONE"}

\* A probe of a plan: its operation, its facet and its structural source.
Probe(op, facet, group) == [op |-> op, facet |-> facet, group |-> group]

\* The part of a registry's plan that the instance considers.
Planned(probes) ==
  FlattenSeq([i \in DOMAIN probes |->
                IF probes[i].facet \in Considered THEN <<probes[i]>> ELSE <<>>])
PlanOf(families) == Planned([i \in DOMAIN families |->
                               Probe(families[i], families[i], families[i])])

\* An observation keeps the probe, the text and how a parser read it.
Observe(probe, source, status, kind, name, text) ==
  [probe |-> probe, source |-> source, status |-> status, kind |-> kind,
   name |-> name, text |-> text]

\* The one barren record of an output that named nothing.
Barren(probe, source, status, kind, text) ==
  <<Observe(probe, source, status, kind, "", text)>>

\* One call of the runtime.  The counter is read around the call, so a call
\* that raised is charged when the runtime had counted it already.
Call(Keep(_)) ==
  \/ \E text \in TextsOf[relation] :
        Keep(text) /\ calls' = calls + 1 /\ UNCHANGED errors
  \/ \E spent \in {0, 1} :
        /\ Keep(Raised)
        /\ calls' = calls + spent
        /\ errors' = Append(errors, Head(todo).op)

-----------------------------------------------------------------------------
(* Module 11 *)

\* Fault: a failure is filed as an empty answer.
ClassifyOutputFault(kind, text) ==
  IF text.word = "" \/ text = Raised THEN "EMPTY"
  ELSE IF text.word \in Abstentions THEN "ABSTAINED"
  ELSE "OK"

\* How usable an output is, by its shape alone.
ClassifyOutput(kind, text) ==
  IF text = Raised THEN "RUNTIME_ERROR"
  ELSE IF text.word = "" THEN "EMPTY"
  ELSE IF text.word \in Abstentions THEN "ABSTAINED"
  ELSE IF kind = "SELF_ASK" /\ "answers" \notin text.cues THEN "MALFORMED"
  ELSE "OK"

\* One probe for each kind and sample; samples of a kind share its group.
RetrievalPlan == [i \in DOMAIN RecallOps |->
                    Probe(RecallOps[i], RecallOps[i], RecallOps[i])]

MemoryRecord(probe, text) ==
  [probe |-> probe, text |-> text, status |-> ClassifyOutput(probe.op, text)]

\* One probe of Module 11: one call, one record.
Retrieve ==
  /\ step = "memory" /\ todo # <<>>
  /\ Call(LAMBDA text : memory' = Append(memory, MemoryRecord(Head(todo), text)))
  /\ todo' = Tail(todo)
  /\ UNCHANGED <<relation, step, log, gate>>

\* The records a specialist mines: everything that did not raise.
Minable(record) == record.status # "RUNTIME_ERROR"

\* What Read makes of every minable record, in order.
Mined(Read(_, _)) ==
  FlattenSeq([i \in DOMAIN memory |->
                IF Minable(memory[i]) THEN Read(memory[i].probe, memory[i].text) ELSE <<>>])

RecallInit ==
  /\ relation \in Relations
  /\ step = "memory" /\ todo = RetrievalPlan
  /\ memory = <<>> /\ log = <<>> /\ errors = <<>> /\ calls = 0
  /\ gate = "NONE"

-----------------------------------------------------------------------------
(* The specialists' common reading of a log *)

Seen(s) == {s[i] : i \in DOMAIN s}

\* A probe of the specialist itself, not a memory of Module 11.
IsSpecialistProbe(o) == o.source = "PROBE"

\* One probe of the plan: its observations follow those of earlier probes.
Ask(stage, Read(_, _)) ==
  /\ step = stage /\ todo # <<>>
  /\ Call(LAMBDA text : log' = log \o Read(Head(todo), text))
  /\ todo' = Tail(todo)

\* How often a name was seen as a target, from which structural sources, and
\* as which near misses.  Usable and NearMiss are the specialist's own tests.
Occurrence(name, Usable(_), NearMiss(_)) ==
  [total  |-> Len(SelectSeq(log, LAMBDA o : Usable(o) /\ o.name = name)),
   groups |-> {o.probe.group : o \in {x \in Seen(log) : Usable(x) /\ x.name = name}},
   near   |-> {o.kind : o \in {x \in Seen(log) : ~Usable(x) /\ NearMiss(x)
                                                 /\ x.name = name}}]

NamesSeen == {o.name : o \in Seen(log)} \ {""}

=============================================================================
