------------------------------ MODULE Delivery ------------------------------
(***************************************************************************)
(* scripts/run_cover.py and scripts/package_submission.py: a run answers    *)
(* the rows of a split, refines them and writes its files; packaging reads *)
(* the predictions twice, once to check and once to copy them.  The        *)
(* directory outlives the run: --output-dir may name one that an earlier   *)
(* run wrote to, and packaging does not wait for a run to end.             *)
(***************************************************************************)
EXTENDS Refinement

CONSTANTS
  Splits,     \* [rows, blind]: identities in order, and whether nobody may see the answers
  Profiles,   \* the refinement configurations: modes and caps
  Answers,    \* relation -> objects the pipeline may decide on
  Texts,      \* kind of call -> what the model may generate
  MaxRuns     \* bound on the runs that share the directory

ASSUME RunsAreBounded == MaxRuns \in Nat
ASSUME SplitsAreSequences == \A s \in Splits : s.rows \in Seq(ToSet(s.rows))
\* The splits of benchmark/data share no row; it is enough that none of them
\* lists all rows of another.
ASSUME SplitsAreApart ==
  \A s, t \in Splits : ToSet(s.rows) \subseteq ToSet(t.rows) => s.rows = t.rows

ASSUME SupportIsANumber == \A p \in Profiles : p.enabled => p.support \in Int

\* What follows a label is a figure, whole in some unit, or a name.
ASSUME TextsAreRead ==
  /\ \A kind \in {"figure", "exchanges"} : \A text \in Texts[kind] : text \in Seq(ToSet(text))
  /\ \A text \in Texts["figure"] : \A n \in DOMAIN text : text[n].value \in Int

VARIABLES
  run,          \* runs started so far; the last of them is the current one
  step,         \* where its main() is
  split, queries, profile,
  predictions,  \* result.predictions: objects, and empty_reason = PIPELINE_ERROR
  errors,       \* result.errors: the identities whose query raised
  refined,      \* rows the refinement has done
  heard, calls, \* of the row in refinement: the replies, and RowBudget.calls
  accounting,   \* what the refinement accounts for
  next,         \* the next file to write
  exit,         \* what the last run that ended returned
  disk,         \* file -> the run that last opened it to write, 0 for none
  content,      \* the rows of predictions.jsonl: of whom, and whether objects repeat
  accounted,    \* what run_accounting.json says
  checked,      \* what packaging found good: the split it is of, and whose file
  archive       \* the last submission: whom its rows answer, and what was checked

locals == <<split, queries, profile, predictions, errors>>
refinement == <<refined, heard, calls, accounting>>
directory == <<disk, content, accounted>>
package == <<checked, archive>>
vars == <<run, step, locals, refinement, next, exit, directory, package>>

\* In the order main() writes them.
Artifacts == <<"predictions", "trace", "refinement", "errors", "run_accounting", "metrics",
               "manifest">>
Files == {"predictions", "trace", "refinement", "errors", "run_accounting", "metrics",
          "manifest", "marker"}

Nothing == [calls |-> 0, changed |-> 0]
NoSplit == [rows |-> <<>>, blind |-> FALSE]
NoProfile == [enabled |-> FALSE]
NoAccounting == [total |-> 0, rows |-> 0, failed |-> 0, errorRows |-> 0]
Unchecked == [of |-> <<>>, from |-> 0]
NoArchive == [rows |-> <<>>, of |-> <<>>, from |-> 0, checked |-> 0]

\* main() has returned: its locals are gone.
Return(code) ==
  /\ step' = "idle" /\ exit' = code /\ next' = 1
  /\ split' = NoSplit /\ queries' = <<>> /\ profile' = NoProfile
  /\ predictions' = <<>> /\ errors' = <<>>
  /\ refined' = 0 /\ heard' = NoneHeard /\ calls' = 0 /\ accounting' = Nothing

Init ==
  /\ run = 0 /\ step = "idle" /\ exit = -1 /\ next = 1
  /\ split = NoSplit /\ queries = <<>> /\ profile = NoProfile
  /\ predictions = <<>> /\ errors = <<>>
  /\ refined = 0 /\ heard = NoneHeard /\ calls = 0 /\ accounting = Nothing
  /\ disk = [f \in Files |-> 0] /\ content = <<>> /\ accounted = NoAccounting
  /\ checked = Unchecked /\ archive = NoArchive

\* A recovery manifest, a relation filter and --limit each leave rows of the
\* split out and keep the order of the others; no row at all is refused.
Start ==
  /\ step = "idle" /\ run < MaxRuns
  /\ run' = run + 1 /\ step' = "pipeline" /\ exit' = -1
  /\ split' \in Splits /\ profile' \in Profiles
  /\ \E n \in DOMAIN split'.rows : \E kept \in [1..n -> DOMAIN split'.rows] :
       /\ \A i, j \in 1..n : i < j => kept[i] < kept[j]
       /\ queries' = [i \in 1..n |-> split'.rows[kept[i]]]
  /\ UNCHANGED <<predictions, errors, refinement, next, directory, package>>

-----------------------------------------------------------------------------
(* pipeline.run *)

Query == queries[Len(predictions) + 1]
Answering == step = "pipeline" /\ Len(predictions) < Len(queries)

Decided ==
  /\ Answering
  /\ \E objects \in Answers[Query.relation] :
       predictions' = Append(predictions, [objects |-> objects, failed |-> FALSE])
  /\ UNCHANGED <<run, step, split, queries, profile, errors, refinement, next, exit, directory,
                 package>>

\* Any exception but one costs the row only.
Failed ==
  /\ Answering
  /\ predictions' = Append(predictions, [objects |-> <<>>, failed |-> TRUE])
  /\ errors' = Append(errors, Query)
  /\ UNCHANGED <<run, step, split, queries, profile, refinement, next, exit, directory, package>>

\* AccountingInvariantError: a marker, and nothing else.
Aborted ==
  /\ Answering
  /\ disk' = [disk EXCEPT !["marker"] = run]
  /\ Return(2)
  /\ UNCHANGED <<run, content, accounted, package>>

FinishPipeline ==
  /\ step = "pipeline" /\ Len(predictions) = Len(queries)
  /\ step' = IF profile.enabled THEN "refine" ELSE "write"
  /\ UNCHANGED <<run, locals, refinement, next, exit, directory, package>>

-----------------------------------------------------------------------------
(* RelationRefinementStack.apply, row by row *)

Row == refined + 1
Before == predictions[Row].objects
Relation == queries[Row].relation
Cap == profile.caps[Relation]
Refining == step = "refine" /\ refined < Len(predictions)
Kind == IF HasRefiner(Relation) /\ Cap > 0 THEN Asks(profile, Relation, Before, heard) ELSE "none"
Misconfigured == Cap > 0 /\ Raises(profile, Relation)

Ask ==
  /\ Refining /\ ~Misconfigured /\ calls < Cap
  /\ \E kind \in {Kind} \ {"none"} : \E text \in Texts[kind] :
       heard' = Hear(heard, kind, Parse(kind, text, heard))
  /\ calls' = calls + 1
  /\ UNCHANGED <<run, step, locals, refined, accounting, next, exit, directory, package>>

\* The row has no call left: the resolver goes on without this reply.
Forgo ==
  /\ Refining /\ ~Misconfigured /\ Kind # "none" /\ calls >= Cap
  /\ heard' = Hear(heard, Kind, Unread)
  /\ UNCHANGED <<run, step, locals, refined, calls, accounting, next, exit, directory, package>>

\* The calls and the changed rows of the whole refinement, over its records.
Accounting(after) ==
  [calls |-> accounting.calls + calls,
   changed |-> accounting.changed + (IF after = Before THEN 0 ELSE 1)]

\* replace(prediction, object_entities=...): the reason the row was empty stays.
RefineRow ==
  /\ Refining /\ ~Misconfigured /\ Kind = "none"
  /\ \E after \in {IF Cap > 0 THEN Refined(profile, Relation, Before, heard) ELSE Before} :
        /\ predictions' = [predictions EXCEPT ![Row].objects = after]
        /\ accounting' = Accounting(after)
  /\ refined' = refined + 1 /\ heard' = NoneHeard /\ calls' = 0
  /\ UNCHANGED <<run, step, split, queries, profile, errors, next, exit, directory, package>>

\* A cap below what the resolver needs raises, and nothing catches it.
Misconfigure ==
  /\ Refining /\ Misconfigured
  /\ Return(1)
  /\ UNCHANGED <<run, directory, package>>

FinishRefinement ==
  /\ step = "refine" /\ refined = Len(predictions)
  /\ step' = "write"
  /\ UNCHANGED <<run, locals, refinement, next, exit, directory, package>>

-----------------------------------------------------------------------------
(* The files *)

Repeats(s) == \E i, j \in DOMAIN s : i # j /\ s[i] = s[j]

\* What write_predictions makes of a row: the evaluator's duplicates are left out.
WrittenRow(i) ==
  [of |-> queries[i],
   repeats |-> Repeats(IF queries[i].relation \in Numeric THEN predictions[i].objects
                       ELSE FirstPerKey(predictions[i].objects, StrictKey))]
WrittenRows == [i \in DOMAIN predictions |-> WrittenRow(i)]

\* Fault: a row that holds an object is no failed row.
RunAccountingFault ==
  LET holes == {i \in DOMAIN predictions : predictions[i].failed /\ predictions[i].objects = <<>>}
  IN [total |-> Len(queries), rows |-> Len(predictions), failed |-> Cardinality(holes),
      errorRows |-> Cardinality(holes)]

RunAccounting ==
  [total |-> Len(queries), rows |-> Len(predictions), failed |-> Len(errors),
   errorRows |-> Cardinality({i \in DOMAIN predictions : predictions[i].failed})]

SubmissionReady(a) == a.failed = 0 /\ a.rows = a.total /\ a.failed = a.errorRows

Writes(file) ==
  CASE file = "errors" -> errors # <<>>
    [] file = "refinement" -> profile.enabled
    [] file = "metrics" -> ~split.blind
    [] OTHER -> TRUE

AtPredictions == step = "write" /\ next = 1

\* open(..., "w") empties the file, and its rows follow one by one.
OpenPredictions ==
  /\ AtPredictions /\ disk["predictions"] # run
  /\ disk' = [disk EXCEPT !["predictions"] = run]
  /\ content' = <<>>
  /\ UNCHANGED <<run, step, locals, refinement, next, exit, accounted, package>>

WriteLine ==
  /\ AtPredictions /\ disk["predictions"] = run /\ Len(content) < Len(predictions)
  /\ content' = Append(content, WrittenRow(Len(content) + 1))
  /\ UNCHANGED <<run, step, locals, refinement, next, exit, disk, accounted, package>>

WrittenOut == disk["predictions"] = run /\ Len(content) = Len(predictions)

\* Fault: the manifest is begun when the predictions are out.
WriteFault ==
  /\ step = "write" /\ next \in DOMAIN Artifacts
  /\ next = 1 => WrittenOut
  /\ LET file == Artifacts[next]
     IN /\ disk' = IF Writes(file) THEN [disk EXCEPT ![file] = run, !["manifest"] = run] ELSE disk
        /\ accounted' = IF file = "run_accounting" THEN RunAccounting ELSE accounted
  /\ next' = next + 1
  /\ UNCHANGED <<run, step, locals, refinement, exit, content, package>>

Write ==
  /\ step = "write" /\ next \in DOMAIN Artifacts
  /\ next = 1 => WrittenOut
  /\ LET file == Artifacts[next]
     IN /\ disk' = IF Writes(file) THEN [disk EXCEPT ![file] = run] ELSE disk
        /\ accounted' = IF file = "run_accounting" THEN RunAccounting ELSE accounted
  /\ next' = next + 1
  /\ UNCHANGED <<run, step, locals, refinement, exit, content, package>>

\* The exit code: a blind run that is not ready is refused.
Finish ==
  /\ step = "write" /\ next \notin DOMAIN Artifacts
  /\ Return(IF SubmissionReady(RunAccounting) \/ ~split.blind THEN 0 ELSE 3)
  /\ UNCHANGED <<run, directory, package>>

\* Nothing in main() catches what the refinement or a writer raises, and the
\* process may be killed: the file it is at may be left begun and unreadable.
Escape ==
  /\ step # "idle"
  /\ \/ UNCHANGED <<disk, accounted>>
     \/ /\ step = "write" /\ next \in 2..Len(Artifacts) /\ Writes(Artifacts[next])
        /\ disk' = [disk EXCEPT ![Artifacts[next]] = run]
        /\ accounted' = IF Artifacts[next] = "run_accounting" THEN NoAccounting ELSE accounted
  /\ Return(1)
  /\ UNCHANGED <<run, content, package>>

-----------------------------------------------------------------------------
(* package_submission: another process, which may come and die at any time *)

Whom(rows) == [i \in DOMAIN rows |-> rows[i].of]

\* Fault: rows are paired with the rows of the split as far as both go.
AcceptsFault(rows, s) ==
  \A i \in DOMAIN rows \cap DOMAIN s.rows :
    rows[i].of = s.rows[i] /\ ~rows[i].repeats

\* validate: as many rows as the split, each at its place, none repeated.
Accepts(rows, s) ==
  /\ Len(rows) = Len(s.rows)
  /\ \A i \in DOMAIN rows : rows[i].of = s.rows[i] /\ ~rows[i].repeats
  /\ ~Repeats(Whom(rows))

Validate ==
  /\ disk["predictions"] # 0
  /\ \E s \in Splits :
       /\ Accepts(content, s)
       /\ checked' = [of |-> s.rows, from |-> disk["predictions"]]
  /\ UNCHANGED <<run, step, locals, refinement, next, exit, directory, archive>>

\* zf.write reads the file anew, and nothing compares it with what was checked.
WriteArchive ==
  /\ checked # Unchecked
  /\ archive' = [rows |-> Whom(content), of |-> checked.of, from |-> disk["predictions"],
                 checked |-> checked.from]
  /\ checked' = Unchecked
  /\ UNCHANGED <<run, step, locals, refinement, next, exit, directory>>

\* The model calls return and the writers succeed.
Progress ==
  \/ Decided \/ Failed \/ Aborted \/ FinishPipeline
  \/ Ask \/ Forgo \/ RefineRow \/ Misconfigure \/ FinishRefinement
  \/ OpenPredictions \/ WriteLine \/ Write \/ Finish

Next == Start \/ Progress \/ Escape \/ Validate \/ WriteArchive
Spec == Init /\ [][Next]_vars

-----------------------------------------------------------------------------
(* Properties *)

\* The files that every run writes that ends its writing.
AlwaysWritten == {"predictions", "trace", "run_accounting", "manifest"}

\* A later file is never of a later run than a file that comes before it in
\* every run.
FilesAreInOrder ==
  \A i, j \in DOMAIN Artifacts :
    i < j /\ Artifacts[i] \in AlwaysWritten => disk[Artifacts[j]] <= disk[Artifacts[i]]

\* When manifest and predictions are of one run the set is whole, and
\* errors.json is of that run if, and only if, its accounting counts a failure.
ManifestSealsTheRun ==
  disk["manifest"] = disk["predictions"] /\ disk["manifest"] # 0 =>
    /\ \A f \in AlwaysWritten : disk[f] = disk["manifest"]
    /\ Len(content) = accounted.total /\ accounted.rows = accounted.total
    /\ disk["errors"] = disk["manifest"] <=> accounted.failed # 0

\* What the files of any of the runs that shared the directory, each stopped
\* wherever it may be, still say together.  An earlier run's manifest may stand
\* beside a later run's unfinished predictions, and an earlier run's errors.json
\* beside a later run's whole set: the two conjuncts above are how they are told
\* from the others.  The run of a marker has written nothing else, and a run
\* whose exit code speaks of a submission has written its manifest
\* (main, write_predictions, _abort_on_accounting_invariant).
DirectoryIsTelling ==
  /\ FilesAreInOrder
  /\ ManifestSealsTheRun
  /\ disk["marker"] # 0 => \A f \in Files \ {"marker"} : disk[f] # disk["marker"]
  /\ exit \in {0, 3} => disk["manifest"] = run

\* A row whose query raised is a hole, and stays one when the refinement has
\* put an object in it: a blind run with a hole never returns 0
\* (RelationRefinementStack.apply, run_accounting, submission_verdict).
Delivers == step = "write" /\ split.blind /\ exit' = 0
DeliversOnlyAnswers ==
  [][Delivers => /\ \A i \in DOMAIN predictions : ~predictions[i].failed
                 /\ Len(predictions) = Len(queries)]_vars

\* An archive answers every row of the split it was checked for in its place,
\* unless another run opened the predictions between the check and the copy: runs
\* may be limited to a few rows, may be killed in the middle of the file, may
\* have answered another split, and may still be writing when the file is
\* checked (validate, write_predictions).
OnlyAnotherRunSpoilsTheArchive ==
  archive.from = archive.checked => archive.rows = archive.of

Multiview(r) ==
  \/ r = Area /\ profile.area = "MULTIVIEW"
  \/ r = Capacity /\ profile.capacity = "MULTIVIEW"
Resolves == refined' = refined + 1 /\ Cap > 0
After == predictions'[Row].objects

\* Whatever the views, the judge and the budget do, a quantity is a figure some
\* view gave, and is missing only if no view gave one
\* (decide_area_multiview, refine_capacity).
NoFigureIsLost ==
  Multiview(Relation) =>
    IF Figures(heard) = {} THEN After = <<>>
    ELSE \E v \in Figures(heard) : After = <<v>>

\* Three views that give one figure decide the row: no order in which the
\* fourth came and nothing the judge says moves it (cluster_area_values,
\* cluster_capacity_values).
ThreeViewsOutvoteTheJudge ==
  Multiview(Relation) =>
    \A v \in Figures(heard) :
      Cardinality({i \in Observing(heard) : Figure(heard, i) = v}) >= 3
        => After = <<v>>

\* The rescue of an exchange fills an empty row or leaves it empty, and what it
\* writes enough views have named, each counted once however many surfaces of
\* it a view lists (refine_stock, decide_stock_empty_rescue).
RescueNeedsItsViews ==
  Relation = Stock /\ profile.stock = "EMPTY_ONLY" =>
    IF Before # <<>> THEN After = Before
    ELSE /\ Len(After) <= 1
         /\ After # <<>> =>
              Cardinality({i \in DOMAIN heard.replies : Canonical[After[1]] \in NamedBy(heard, i)})
                >= profile.support

\* What the views of a row say decides what is written of it (apply): the three
\* rules above, of every step that resolves a row.
ViewsDecide ==
  [][Resolves => NoFigureIsLost /\ ThreeViewsOutvoteTheJudge /\ RescueNeedsItsViews]_vars

=============================================================================
