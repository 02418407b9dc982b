--------------------------- MODULE DeliveryProofs ---------------------------
(***************************************************************************)
(* Proofs about Delivery for every split, profile and number of runs: what *)
(* an output directory says of the runs that wrote to it, wherever each    *)
(* was stopped, what an exit code says of the rows, and what the views     *)
(* of a row, its judge and its cap on calls make of it.                    *)
(***************************************************************************)
EXTENDS Delivery, FiniteFacts

(* The rows *)

IsSequence(s) == \E S : s \in Seq(S)
IsPrediction(p) == p = [objects |-> p.objects, failed |-> p.failed]

\* A row failed only if its identity is among the errors, and a run that
\* writes has a row for every query.
HoleInv ==
  /\ IsSequence(predictions) /\ IsSequence(errors)
  /\ \A i \in DOMAIN predictions : IsPrediction(predictions[i])
  /\ errors = <<>> => \A i \in DOMAIN predictions : ~predictions[i].failed
  /\ step \in {"refine", "write"} => Len(predictions) = Len(queries)

LEMMA AppendKeeps ==
  ASSUME NEW s, NEW e, IsSequence(s)
  PROVE  /\ IsSequence(Append(s, e)) /\ Append(s, e) # <<>>
         /\ \A i \in DOMAIN Append(s, e) :
              (i \in DOMAIN s /\ Append(s, e)[i] = s[i]) \/ Append(s, e)[i] = e
<1>1. PICK S : s \in Seq(S)
  BY DEF IsSequence
<1>2. s \in Seq(S \cup {e}) /\ e \in S \cup {e}
  BY <1>1, SeqMonotonic
<1>3. Append(s, e) \in Seq(S \cup {e})
  BY <1>2
<1> QED
  BY <1>2, <1>3 DEF IsSequence

LEMMA ReplaceKeeps ==
  ASSUME NEW T, NEW s \in Seq(T), NEW i, NEW e \in T
  PROVE  /\ [s EXCEPT ![i] = e] \in Seq(T) /\ Len([s EXCEPT ![i] = e]) = Len(s)
         /\ DOMAIN [s EXCEPT ![i] = e] = DOMAIN s
         /\ \A j \in DOMAIN s : [s EXCEPT ![i] = e][j] = IF j = i THEN e ELSE s[j]
<1>1. CASE i \in 1..Len(s)
  BY <1>1, ExceptSeq
<1>2. CASE i \notin 1..Len(s)
  <2>1. [s EXCEPT ![i] = e] = s
    BY <1>2
  <2> QED
    BY <1>2, <2>1
<1> QED
  BY <1>1, <1>2

LEMMA EmptyIsSequence == IsSequence(<<>>)
<1>1. <<>> \in Seq({})
  OBVIOUS
<1> QED
  BY <1>1 DEF IsSequence

LEMMA ReturnKeepsHoles == \A code : Return(code) => HoleInv'
BY EmptyIsSequence DEF Return, HoleInv

LEMMA FailedKeepsHoles == HoleInv /\ Failed => HoleInv'
<1> SUFFICES ASSUME HoleInv, Failed
             PROVE  HoleInv'
  OBVIOUS
<1> DEFINE hole == [objects |-> <<>>, failed |-> TRUE]
<1>1. /\ predictions' = Append(predictions, hole) /\ errors' = Append(errors, Query)
      /\ step' = "pipeline"
  BY DEF Failed, Answering
<1>2. IsPrediction(hole)
  BY DEF IsPrediction
<1>3. IsSequence(predictions') /\ IsSequence(errors') /\ errors' # <<>>
  BY <1>1, AppendKeeps DEF HoleInv
<1>4. \A i \in DOMAIN predictions' : IsPrediction(predictions'[i])
  BY <1>1, <1>2, AppendKeeps DEF HoleInv
<1> QED
  BY <1>1, <1>3, <1>4 DEF HoleInv

LEMMA DecidedKeepsHoles == HoleInv /\ Decided => HoleInv'
<1> SUFFICES ASSUME HoleInv, Decided
             PROVE  HoleInv'
  OBVIOUS
<1>1. PICK objects : predictions' = Append(predictions, [objects |-> objects, failed |-> FALSE])
  BY DEF Decided
<1> DEFINE row == [objects |-> objects, failed |-> FALSE]
<1>2. errors' = errors /\ step' = "pipeline"
  BY DEF Decided, Answering
<1>3. IsPrediction(row) /\ ~row.failed
  BY DEF IsPrediction
<1>4. IsSequence(predictions')
  BY <1>1, AppendKeeps DEF HoleInv
<1>5. \A i \in DOMAIN predictions' :
        (i \in DOMAIN predictions /\ predictions'[i] = predictions[i]) \/ predictions'[i] = row
  BY <1>1, AppendKeeps DEF HoleInv
<1>6. \A i \in DOMAIN predictions' : IsPrediction(predictions'[i])
  BY <1>3, <1>5 DEF HoleInv
<1>7. errors' = <<>> => \A i \in DOMAIN predictions' : ~predictions'[i].failed
  BY <1>2, <1>3, <1>5 DEF HoleInv
<1> QED
  BY <1>2, <1>4, <1>6, <1>7 DEF HoleInv

\* What the refinement makes of a row leaves the mark of a failed query on it.
LEMMA RefineRowKeepsHoles == HoleInv /\ RefineRow => HoleInv'
<1> SUFFICES ASSUME HoleInv, RefineRow
             PROVE  HoleInv'
  OBVIOUS
<1>1. PICK after : predictions' = [predictions EXCEPT ![Row] =
                                     [predictions[Row] EXCEPT !.objects = after]]
  BY Zenon DEF RefineRow
<1>2. errors' = errors /\ queries' = queries /\ step' = "refine" /\ step = "refine"
  BY DEF RefineRow, Refining
<1>3. PICK S : predictions \in Seq(S)
  BY DEF HoleInv, IsSequence
<1> DEFINE row == [predictions[Row] EXCEPT !.objects = after]
           T == S \cup {row}
<1>4. predictions \in Seq(T)
  BY <1>3, SeqMonotonic
<1>5. /\ predictions' \in Seq(T) /\ Len(predictions') = Len(predictions)
      /\ DOMAIN predictions' = DOMAIN predictions
      /\ \A i \in DOMAIN predictions : predictions'[i] = IF i = Row THEN row ELSE predictions[i]
  <2> HIDE DEF row
  <2>1. predictions' = [predictions EXCEPT ![Row] = row] /\ row \in T
    BY <1>1 DEF row
  <2> HIDE DEF T
  <2> QED
    BY <1>4, <2>1, ReplaceKeeps
<1>6. ASSUME NEW i \in DOMAIN predictions
      PROVE  /\ IsPrediction(predictions'[i])
             /\ predictions'[i].failed = predictions[i].failed
  <2>1. IsPrediction(predictions[i])
    BY DEF HoleInv
  <2>2. CASE i = Row
    <3>1. row = [objects |-> after, failed |-> predictions[Row].failed]
      BY <2>1, <2>2 DEF IsPrediction
    <3> QED
      BY <1>5, <2>2, <3>1 DEF IsPrediction
  <2>3. CASE i # Row
    BY <1>5, <2>1, <2>3
  <2> QED
    BY <2>2, <2>3
<1>7. IsSequence(predictions')
  BY <1>5 DEF IsSequence
<1> QED
  BY <1>2, <1>5, <1>6, <1>7 DEF HoleInv

LEMMA HoleStep == HoleInv /\ [Next]_vars => HoleInv'
<1> SUFFICES ASSUME HoleInv, [Next]_vars
             PROVE  HoleInv'
  OBVIOUS
<1> DEFINE Quiet == UNCHANGED <<step, queries, predictions, errors>>
<1>1. Quiet => HoleInv'
  BY DEF HoleInv
<1>2. Ask \/ Forgo \/ UNCHANGED vars => Quiet
  BY DEF Ask, Forgo, vars, locals
<1>6. OpenPredictions \/ WriteLine \/ Write \/ Validate \/ WriteArchive => Quiet
  BY DEF OpenPredictions, WriteLine, Write, Validate, WriteArchive, locals
<1>3. Aborted \/ Misconfigure \/ Finish \/ Escape => \E code : Return(code)
  <2>1. Aborted => Return(2)
    BY DEF Aborted
  <2>2. Misconfigure => Return(1)
    BY DEF Misconfigure
  <2>3. Finish => \E code : Return(code)
    BY DEF Finish
  <2>4. Escape => Return(1)
    BY DEF Escape
  <2> QED
    BY <2>1, <2>2, <2>3, <2>4
<1>4. Start => HoleInv'
  BY DEF Start, HoleInv
<1>5. FinishPipeline \/ FinishRefinement => HoleInv'
  BY DEF FinishPipeline, FinishRefinement, HoleInv, locals
<1> QED
  BY <1>1, <1>2, <1>3, <1>4, <1>5, <1>6, FailedKeepsHoles, DecidedKeepsHoles, RefineRowKeepsHoles,
     ReturnKeepsHoles DEF Next, Progress

LEMMA HoleInit == Init => HoleInv
BY EmptyIsSequence DEF Init, HoleInv

-----------------------------------------------------------------------------
(* The directory *)

FileOf(i) == Artifacts[i]

\* The run has written nothing yet.
Untouched == \A f \in Files : disk[f] # run

\* What is on disk of a run that writes its files in order.
WritingInv ==
  /\ disk["marker"] # run
  /\ \A i \in next..7 : i # 1 => disk[FileOf(i)] # run
  /\ \A i \in 1..(next - 1) : FileOf(i) \in AlwaysWritten => disk[FileOf(i)] = run
  /\ next > 1 => Len(content) = Len(predictions)
  /\ next > 4 => (disk["errors"] = run <=> errors # <<>>)
  /\ next > 5 => accounted = RunAccounting

DirInv ==
  /\ run \in Nat /\ next \in 1..8
  /\ step \in {"idle", "pipeline", "refine", "write"}
  /\ disk \in [Files -> Nat] /\ \A f \in Files : disk[f] <= run
  /\ run = 0 => step = "idle"
  /\ step # "write" => next = 1
  /\ step # "idle" => exit = -1
  /\ step \in {"pipeline", "refine"} => Untouched
  /\ step = "write" => WritingInv
  /\ DirectoryIsTelling

LEMMA ArtifactNames ==
  /\ DOMAIN Artifacts = 1..7 /\ Len(Artifacts) = 7
  /\ FileOf(1) = "predictions" /\ FileOf(2) = "trace" /\ FileOf(3) = "refinement"
  /\ FileOf(4) = "errors" /\ FileOf(5) = "run_accounting" /\ FileOf(6) = "metrics"
  /\ FileOf(7) = "manifest"
  /\ \A i \in 1..7 : FileOf(i) \in Files /\ FileOf(i) # "marker"
BY DEF Artifacts, FileOf, Files

LEMMA DirInit == Init => DirInv
<1> SUFFICES ASSUME Init PROVE DirInv
  OBVIOUS
<1>1. disk = [f \in Files |-> 0] /\ run = 0 /\ exit = -1 /\ step = "idle" /\ next = 1
  BY DEF Init
<1>2. FilesAreInOrder
  <2> SUFFICES ASSUME NEW i \in 1..7, NEW j \in 1..7
               PROVE  disk[FileOf(j)] <= disk[FileOf(i)]
    BY ArtifactNames DEF FilesAreInOrder, FileOf
  <2> QED BY <1>1, ArtifactNames
<1>3. DirectoryIsTelling
  BY <1>1, <1>2 DEF DirectoryIsTelling, ManifestSealsTheRun, Files
<1> QED BY <1>1, <1>3 DEF DirInv

LEMMA StartKeepsDir == DirInv /\ Start => DirInv'
<1> SUFFICES ASSUME DirInv, Start
             PROVE  DirInv'
  OBVIOUS
<1>1. /\ run' = run + 1 /\ run \in Nat /\ step' = "pipeline" /\ exit' = -1 /\ next' = 1
      /\ UNCHANGED <<disk, content, accounted>>
  BY DEF DirInv, Start, directory
<1>2. disk' \in [Files -> Nat] /\ \A f \in Files : disk'[f] <= run' /\ disk'[f] # run'
  BY <1>1 DEF DirInv
<1>3. DirectoryIsTelling'
  BY <1>1 DEF DirInv, DirectoryIsTelling, FilesAreInOrder, ManifestSealsTheRun
<1> QED
  BY <1>1, <1>2, <1>3 DEF DirInv, Untouched

\* A step that touches neither the files nor where main() is, and no run that
\* writes.
LEMMA QuietKeepsDir ==
  DirInv /\ UNCHANGED <<run, step, next, exit, disk, content, accounted>>
    /\ (step = "write" => UNCHANGED <<queries, predictions, errors>>) => DirInv'
<1> SUFFICES ASSUME DirInv, UNCHANGED <<run, step, next, exit, disk, content, accounted>>,
                    step = "write" => UNCHANGED <<queries, predictions, errors>>
             PROVE  DirInv'
  OBVIOUS
<1>1. DirectoryIsTelling'
  BY DEF DirInv, DirectoryIsTelling, FilesAreInOrder, ManifestSealsTheRun
<1>2. step = "write" => WritingInv'
  BY DEF DirInv, WritingInv, RunAccounting
<1> QED
  BY <1>1, <1>2 DEF DirInv, Untouched

\* main() returns and leaves the files as they are.
LEMMA ReturnKeepsDir ==
  ASSUME DirInv, NEW code, Return(code), UNCHANGED <<run, directory>>,
         code \in {0, 3} => disk["manifest"] = run
  PROVE  DirInv'
<1>1. DirectoryIsTelling'
  BY DEF DirInv, DirectoryIsTelling, FilesAreInOrder, ManifestSealsTheRun, Return, directory
<1> QED
  BY <1>1 DEF DirInv, Return, directory

LEMMA AbortKeepsDir == DirInv /\ Aborted => DirInv'
<1> SUFFICES ASSUME DirInv, Aborted
             PROVE  DirInv'
  OBVIOUS
<1>1. /\ step = "pipeline" /\ run \in Nat /\ Untouched /\ run # 0
      /\ disk' = [disk EXCEPT !["marker"] = run] /\ run' = run
      /\ step' = "idle" /\ exit' = 2 /\ next' = 1
      /\ disk \in [Files -> Nat] /\ \A f \in Files : disk[f] <= run
      /\ UNCHANGED <<content, accounted>>
  BY DEF DirInv, Aborted, Answering, Return
<1>2. disk' \in [Files -> Nat] /\ \A f \in Files : disk'[f] <= run'
  BY <1>1 DEF Files
<1>3. /\ disk'["marker"] = run
      /\ \A f \in Files \ {"marker"} : disk'[f] = disk[f] /\ disk'[f] # run
  BY <1>1 DEF Files, Untouched
<1>4. FilesAreInOrder'
  <2> SUFFICES ASSUME NEW i \in 1..7, NEW j \in 1..7, i < j, FileOf(i) \in AlwaysWritten
               PROVE  disk'[FileOf(j)] <= disk'[FileOf(i)]
    BY ArtifactNames DEF FilesAreInOrder, FileOf
  <2>1. disk[FileOf(j)] <= disk[FileOf(i)]
    BY ArtifactNames DEF DirInv, DirectoryIsTelling, FilesAreInOrder, FileOf
  <2> QED BY <2>1, <1>3, ArtifactNames
<1>5. ManifestSealsTheRun'
  <2>1. AlwaysWritten \subseteq Files \ {"marker"} /\ "errors" \in Files \ {"marker"}
        /\ {"manifest", "predictions"} \subseteq AlwaysWritten
    BY DEF AlwaysWritten, Files
  <2> QED BY <1>1, <1>3, <2>1 DEF DirInv, DirectoryIsTelling, ManifestSealsTheRun
<1> QED
  BY <1>1, <1>2, <1>3, <1>4, <1>5 DEF DirInv, DirectoryIsTelling

LEMMA FinishPipelineKeepsDir == DirInv /\ FinishPipeline => DirInv'
<1> SUFFICES ASSUME DirInv, FinishPipeline
             PROVE  DirInv'
  OBVIOUS
<1>1. /\ step = "pipeline" /\ step' \in {"refine", "write"} /\ next = 1
      /\ UNCHANGED <<run, next, exit, disk, content, accounted>>
  BY DEF DirInv, FinishPipeline, directory
<1>2. Untouched /\ Untouched' /\ WritingInv'
  BY <1>1, ArtifactNames DEF DirInv, Untouched, WritingInv, Files
<1>3. DirectoryIsTelling'
  BY <1>1 DEF DirInv, DirectoryIsTelling, FilesAreInOrder, ManifestSealsTheRun
<1> QED
  BY <1>1, <1>2, <1>3 DEF DirInv

LEMMA FinishRefinementKeepsDir == DirInv /\ FinishRefinement => DirInv'
<1> SUFFICES ASSUME DirInv, FinishRefinement
             PROVE  DirInv'
  OBVIOUS
<1>1. /\ step = "refine" /\ step' = "write" /\ next = 1
      /\ UNCHANGED <<run, next, exit, disk, content, accounted>>
  BY DEF DirInv, FinishRefinement, directory
<1>2. Untouched /\ WritingInv'
  BY <1>1, ArtifactNames DEF DirInv, Untouched, WritingInv, Files
<1>3. DirectoryIsTelling'
  BY <1>1 DEF DirInv, DirectoryIsTelling, FilesAreInOrder, ManifestSealsTheRun
<1> QED
  BY <1>1, <1>2, <1>3 DEF DirInv

\* The rows of the predictions are not sealed by anything while they are
\* written.
LEMMA LinesKeepDir == DirInv /\ (OpenPredictions \/ WriteLine) => DirInv'
<1> SUFFICES ASSUME DirInv, OpenPredictions \/ WriteLine
             PROVE  DirInv'
  OBVIOUS
<1>1. /\ step = "write" /\ next = 1 /\ run # 0 /\ run \in Nat
      /\ disk' = [disk EXCEPT !["predictions"] = run]
      /\ UNCHANGED <<run, step, next, exit, accounted>>
      /\ disk \in [Files -> Nat] /\ \A f \in Files : disk[f] <= run
      /\ WritingInv
  BY DEF DirInv, OpenPredictions, WriteLine, AtPredictions
<1>2. /\ disk' \in [Files -> Nat] /\ \A f \in Files : disk'[f] <= run'
      /\ disk'["predictions"] = run
      /\ \A f \in Files \ {"predictions"} : disk'[f] = disk[f]
  BY <1>1 DEF Files
<1>3. disk["manifest"] # run /\ disk["marker"] # run
  BY <1>1, ArtifactNames DEF WritingInv
<1>4. WritingInv'
  BY <1>1, <1>2, ArtifactNames DEF WritingInv, Files
<1>5. FilesAreInOrder'
  <2> SUFFICES ASSUME NEW i \in 1..7, NEW j \in 1..7, i < j, FileOf(i) \in AlwaysWritten
               PROVE  disk'[FileOf(j)] <= disk'[FileOf(i)]
    BY ArtifactNames DEF FilesAreInOrder, FileOf
  <2>1. disk[FileOf(j)] <= disk[FileOf(i)]
    BY ArtifactNames DEF DirInv, DirectoryIsTelling, FilesAreInOrder, FileOf
  <2>2. FileOf(j) # "predictions" /\ FileOf(j) \in Files /\ FileOf(i) \in Files
    BY ArtifactNames
  <2> QED BY <1>1, <1>2, <2>1, <2>2
<1>6. ManifestSealsTheRun'
  BY <1>1, <1>2, <1>3 DEF ManifestSealsTheRun, Files
<1>7. DirectoryIsTelling'
  BY <1>1, <1>2, <1>3, <1>5, <1>6 DEF DirInv, DirectoryIsTelling, Files
<1> QED
  BY <1>1, <1>2, <1>4, <1>7 DEF DirInv

\* The file at hand is opened, and what was to be written before it is there.
LEMMA OpeningKeepsOrder ==
  ASSUME DirInv, step = "write", next \in 1..7, next = 1 => disk["predictions"] = run,
         disk' = [disk EXCEPT ![FileOf(next)] = run], run' = run
  PROVE  /\ disk' \in [Files -> Nat] /\ \A f \in Files : disk'[f] <= run'
         /\ disk'[FileOf(next)] = run
         /\ \A f \in Files : f # FileOf(next) => disk'[f] = disk[f]
         /\ disk'["marker"] # run /\ FilesAreInOrder'
         /\ disk'["marker"] # 0 => \A f \in Files \ {"marker"} : disk'[f] # disk'["marker"]
<1>1. /\ WritingInv /\ run \in Nat /\ disk \in [Files -> Nat] /\ \A f \in Files : disk[f] <= run
      /\ FileOf(next) \in Files /\ FileOf(next) # "marker" /\ "marker" \in Files
  BY ArtifactNames DEF DirInv, Files
<1>2. /\ disk' \in [Files -> Nat] /\ \A f \in Files : disk'[f] <= run'
      /\ disk'[FileOf(next)] = run
      /\ \A f \in Files : f # FileOf(next) => disk'[f] = disk[f]
  BY <1>1
<1>3. disk'["marker"] = disk["marker"] /\ disk["marker"] # run
  BY <1>1, <1>2 DEF WritingInv
<1>4. FilesAreInOrder'
  <2> SUFFICES ASSUME NEW i \in 1..7, NEW j \in 1..7, i < j, FileOf(i) \in AlwaysWritten
               PROVE  disk'[FileOf(j)] <= disk'[FileOf(i)]
    BY ArtifactNames DEF FilesAreInOrder, FileOf
  <2>1. disk[FileOf(j)] <= disk[FileOf(i)] /\ FileOf(j) \in Files /\ FileOf(i) \in Files
    BY ArtifactNames DEF DirInv, DirectoryIsTelling, FilesAreInOrder, FileOf
  <2>2. CASE i <= next
    <3>1. disk'[FileOf(i)] = run
      <4>1. CASE i = next
        BY <1>2, <4>1
      <4>2. CASE i # next
        <5>1. i \in 1..(next - 1)
          BY <2>2, <4>2
        <5>2. disk[FileOf(i)] = run
          BY <1>1, <5>1 DEF WritingInv
        <5> QED BY <1>1, <1>2, <2>1, <5>2
      <4> QED BY <4>1, <4>2
    <3> QED BY <1>2, <2>1, <3>1
  <2>3. CASE i > next
    <3>1. FileOf(j) # FileOf(next) /\ FileOf(i) # FileOf(next)
      BY <2>3, ArtifactNames
    <3> QED BY <1>2, <2>1, <3>1
  <2> QED BY <2>2, <2>3
<1>5. disk'["marker"] # 0 => \A f \in Files \ {"marker"} : disk'[f] # disk'["marker"]
  <2> SUFFICES ASSUME disk'["marker"] # 0, NEW f \in Files \ {"marker"}
               PROVE  disk'[f] # disk'["marker"]
    OBVIOUS
  <2>1. disk[f] # disk["marker"]
    BY <1>3 DEF DirInv, DirectoryIsTelling
  <2>2. CASE f = FileOf(next)
    BY <1>2, <1>3, <2>2
  <2>3. CASE f # FileOf(next)
    BY <1>2, <1>3, <2>1, <2>3
  <2> QED BY <2>2, <2>3
<1> QED BY <1>2, <1>3, <1>4, <1>5

\* The manifest of a run is opened when the rest of its files are whole, and
\* before that it is of another run than the predictions.
LEMMA OpeningSeals ==
  ASSUME DirInv, HoleInv, step = "write", next \in 1..7, next = 1 => WrittenOut,
         disk' = [disk EXCEPT ![FileOf(next)] = run] \/ disk' = disk,
         content' = content, next = 7 => accounted' = accounted
  PROVE  ManifestSealsTheRun'
<1>1. /\ WritingInv /\ run \in Nat /\ run # 0 /\ disk \in [Files -> Nat]
      /\ FileOf(next) \in Files
  BY ArtifactNames DEF DirInv
<1>2. disk["predictions"] = run
  <2>1. CASE next = 1
    BY <2>1 DEF WrittenOut
  <2>2. CASE next # 1
    BY <1>1, <2>2, ArtifactNames DEF WritingInv, AlwaysWritten
  <2> QED BY <2>1, <2>2
<1>3. disk["manifest"] # run
  <2>1. 7 \in next..7
    OBVIOUS
  <2> QED BY <1>1, <2>1, ArtifactNames DEF WritingInv
<1>4. disk'["predictions"] = run
  BY <1>1, <1>2 DEF Files
<1>5. CASE next # 7 \/ disk' = disk
  <2>1. "manifest" # FileOf(next) \/ disk' = disk
    BY <1>5, ArtifactNames
  <2>2. disk'["manifest"] = disk["manifest"]
    BY <1>1, <2>1 DEF Files
  <2> QED BY <1>3, <1>4, <2>2 DEF ManifestSealsTheRun
<1>6. CASE next = 7 /\ disk' = [disk EXCEPT ![FileOf(next)] = run]
  <2>1. disk' = [disk EXCEPT !["manifest"] = run]
    BY <1>6, ArtifactNames
  <2>2. /\ disk["predictions"] = run /\ disk["trace"] = run /\ disk["run_accounting"] = run
        /\ Len(content) = Len(predictions) /\ accounted = RunAccounting
        /\ disk["errors"] = run <=> errors # <<>>
    BY <1>1, <1>6, ArtifactNames DEF WritingInv, AlwaysWritten
  <2>3. \A f \in AlwaysWritten : disk'[f] = run
    BY <1>1, <2>1, <2>2 DEF AlwaysWritten, Files
  <2>4. disk'["errors"] = disk["errors"] /\ disk'["manifest"] = run
    BY <1>1, <2>1 DEF Files
  <2>5. PICK S : errors \in Seq(S)
    BY DEF HoleInv, IsSequence
  <2>6. Len(errors) # 0 <=> errors # <<>>
    BY <2>5
  <2>7. /\ accounted'.total = Len(queries) /\ accounted'.rows = Len(predictions)
        /\ accounted'.failed = Len(errors) /\ Len(predictions) = Len(queries)
    BY <1>6, <2>2 DEF RunAccounting, HoleInv
  <2> QED BY <2>2, <2>3, <2>4, <2>6, <2>7 DEF ManifestSealsTheRun
<1> QED BY <1>5, <1>6

LEMMA WriteKeepsDir == DirInv /\ HoleInv /\ Write => DirInv'
<1> SUFFICES ASSUME DirInv, HoleInv, Write
             PROVE  DirInv'
  OBVIOUS
<1> DEFINE file == FileOf(next)
<1>1. /\ step = "write" /\ step' = "write" /\ next \in 1..7 /\ next' = next + 1
      /\ UNCHANGED <<run, exit, content, queries, predictions, errors>> /\ WritingInv
      /\ run \in Nat /\ exit = -1
      /\ disk \in [Files -> Nat] /\ \A f \in Files : disk[f] <= run /\ run # 0
      /\ next = 1 => WrittenOut
  BY ArtifactNames DEF DirInv, Write, locals
<1>2. /\ disk' = IF Writes(file) THEN [disk EXCEPT ![file] = run] ELSE disk
      /\ accounted' = IF file = "run_accounting" THEN RunAccounting ELSE accounted
  BY DEF Write, FileOf
<1>3. file \in AlwaysWritten => Writes(file)
  BY DEF AlwaysWritten, Writes
<1>4. next = 1 => disk["predictions"] = run
  BY <1>1 DEF WrittenOut
<1>5. ManifestSealsTheRun'
  <2>1. disk' = [disk EXCEPT ![file] = run] \/ disk' = disk
    BY <1>2
  <2>2. next = 7 => accounted' = accounted
    BY <1>2, ArtifactNames
  <2> QED BY <1>1, <2>1, <2>2, OpeningSeals
<1>6. /\ disk' \in [Files -> Nat] /\ \A f \in Files : disk'[f] <= run'
      /\ file \in AlwaysWritten => disk'[file] = run
      /\ \A f \in Files : f # file => disk'[f] = disk[f]
      /\ disk'["marker"] # run /\ FilesAreInOrder'
      /\ disk'["marker"] # 0 => \A f \in Files \ {"marker"} : disk'[f] # disk'["marker"]
  <2>1. CASE Writes(file)
    <3>1. disk' = [disk EXCEPT ![file] = run]
      BY <1>2, <2>1
    <3> HIDE DEF file
    <3> QED BY <1>1, <1>4, <3>1, OpeningKeepsOrder DEF file
  <2>2. CASE ~Writes(file)
    <3>1. disk' = disk /\ file \notin AlwaysWritten
      BY <1>2, <1>3, <2>2
    <3>2. FilesAreInOrder'
      BY <3>1 DEF DirInv, DirectoryIsTelling, FilesAreInOrder
    <3> QED BY <1>1, <3>1, <3>2 DEF DirInv, DirectoryIsTelling, WritingInv
  <2> QED BY <2>1, <2>2
<1>7. \A i, j \in 1..7 : i # j => FileOf(i) # FileOf(j)
  BY ArtifactNames
<1>8. ASSUME NEW i \in (next + 1)..7
      PROVE  disk'[FileOf(i)] # run'
  <2>1. i \in next..7 /\ i \in 1..7 /\ i # next /\ i # 1
    BY <1>1
  <2>2. FileOf(i) \in Files /\ FileOf(i) # file
    BY <1>1, <1>7, <2>1, ArtifactNames
  <2> QED
    BY <1>1, <1>6, <2>1, <2>2 DEF WritingInv
<1>9. ASSUME NEW i \in 1..next, FileOf(i) \in AlwaysWritten
      PROVE  disk'[FileOf(i)] = run'
  <2>1. CASE i = next
    BY <1>1, <1>6, <1>9, <2>1
  <2>2. CASE i # next
    <3>1. i \in 1..(next - 1) /\ i \in 1..7
      BY <1>1, <2>2
    <3>2. FileOf(i) \in Files /\ FileOf(i) # file
      BY <1>1, <1>7, <2>2, <3>1, ArtifactNames
    <3> QED
      BY <1>1, <1>6, <1>9, <3>1, <3>2 DEF WritingInv
  <2> QED
    BY <2>1, <2>2
<1>10. Len(content') = Len(predictions')
  <2>1. CASE next = 1
    BY <1>1, <2>1 DEF WrittenOut
  <2>2. CASE next # 1
    BY <1>1, <2>2 DEF WritingInv
  <2> QED BY <2>1, <2>2
<1>11. next' > 4 => (disk'["errors"] = run' <=> errors' # <<>>)
  <2>1. CASE next = 4
    <3>1. file = "errors" /\ (Writes(file) <=> errors # <<>>) /\ "errors" \in Files
      BY <2>1, ArtifactNames DEF Writes, Files
    <3>2. disk["errors"] # run
      BY <1>1, <2>1, ArtifactNames DEF WritingInv
    <3> QED BY <1>1, <1>2, <3>1, <3>2
  <2>2. CASE next > 4
    <3>1. file # "errors" /\ "errors" \in Files
      BY <1>1, <2>2, ArtifactNames DEF Files
    <3> QED BY <1>1, <1>6, <2>2, <3>1 DEF WritingInv
  <2> QED BY <1>1, <2>1, <2>2
<1>12. next' > 5 => accounted' = RunAccounting'
  <2>1. RunAccounting' = RunAccounting
    BY <1>1 DEF RunAccounting
  <2>2. CASE next = 5
    BY <1>2, <2>1, <2>2, ArtifactNames
  <2>3. CASE next > 5
    <3>1. file # "run_accounting"
      BY <1>1, <2>3, ArtifactNames
    <3> QED BY <1>1, <1>2, <2>1, <2>3, <3>1 DEF WritingInv
  <2> QED BY <1>1, <2>2, <2>3
<1>13. WritingInv'
  <2>1. next' - 1 = next /\ next' \in 1..8
    BY <1>1
  <2> QED
    BY <1>1, <1>6, <1>8, <1>9, <1>10, <1>11, <1>12, <2>1 DEF WritingInv, FileOf
<1>14. DirectoryIsTelling'
  BY <1>1, <1>5, <1>6 DEF DirectoryIsTelling
<1> QED
  BY <1>1, <1>6, <1>13, <1>14 DEF DirInv

LEMMA FinishKeepsDir == DirInv /\ Finish => DirInv'
<1> SUFFICES ASSUME DirInv, Finish
             PROVE  DirInv'
  OBVIOUS
<1>1. step = "write" /\ next = 8
  BY ArtifactNames DEF DirInv, Finish
<1>2. disk["manifest"] = run
  BY <1>1, ArtifactNames DEF DirInv, WritingInv, AlwaysWritten
<1>3. \E code : Return(code) /\ UNCHANGED <<run, directory>>
  BY DEF Finish
<1> QED
  BY <1>2, <1>3, ReturnKeepsDir

LEMMA EscapeKeepsDir == DirInv /\ HoleInv /\ Escape => DirInv'
<1> SUFFICES ASSUME DirInv, HoleInv, Escape
             PROVE  DirInv'
  OBVIOUS
<1>1. /\ step # "idle" /\ Return(1) /\ UNCHANGED <<run, content>>
      /\ step' = "idle" /\ next' = 1 /\ exit' = 1
      /\ run \in Nat /\ run # 0
  BY DEF DirInv, Escape, Return
<1>2. CASE UNCHANGED <<disk, accounted>>
  BY <1>1, <1>2, ReturnKeepsDir DEF directory
<1>3. CASE /\ step = "write" /\ next \in 2..Len(Artifacts)
           /\ disk' = [disk EXCEPT ![Artifacts[next]] = run]
           /\ accounted' = IF Artifacts[next] = "run_accounting" THEN NoAccounting ELSE accounted
  <2>1. /\ next \in 1..7 /\ next # 1 /\ disk' = [disk EXCEPT ![FileOf(next)] = run]
        /\ step = "write" /\ run' = run /\ content' = content
    BY <1>1, <1>3, ArtifactNames DEF FileOf
  <2>2. next = 7 => accounted' = accounted
    BY <1>3, ArtifactNames DEF FileOf
  <2>3. ManifestSealsTheRun'
    BY <2>1, <2>2, OpeningSeals
  <2>4. /\ disk' \in [Files -> Nat] /\ \A f \in Files : disk'[f] <= run'
        /\ FilesAreInOrder'
        /\ disk'["marker"] # 0 => \A f \in Files \ {"marker"} : disk'[f] # disk'["marker"]
    BY <2>1, OpeningKeepsOrder
  <2>5. DirectoryIsTelling'
    BY <1>1, <2>3, <2>4 DEF DirectoryIsTelling
  <2> QED BY <1>1, <2>4, <2>5 DEF DirInv
<1> QED
  BY <1>2, <1>3 DEF Escape

LEMMA DirStep == DirInv /\ HoleInv /\ [Next]_vars => DirInv'
<1> SUFFICES ASSUME DirInv, HoleInv, [Next]_vars
             PROVE  DirInv'
  OBVIOUS
<1> DEFINE Quiet == /\ UNCHANGED <<run, step, next, exit, disk, content, accounted>>
                    /\ step = "write" => UNCHANGED <<queries, predictions, errors>>
<1>1. ASSUME \/ Decided \/ Failed \/ Ask \/ Forgo \/ RefineRow \/ Validate \/ WriteArchive
             \/ UNCHANGED vars
      PROVE  Quiet
  <2>1. Decided \/ Failed => Quiet
    BY DEF Decided, Failed, Answering, directory
  <2>2. Ask \/ Forgo \/ RefineRow => Quiet
    BY DEF Ask, Forgo, RefineRow, Refining, directory
  <2>3. Validate \/ WriteArchive \/ UNCHANGED vars => Quiet
    BY DEF Validate, WriteArchive, directory, vars, locals
  <2> QED
    BY <1>1, <2>1, <2>2, <2>3
<1>2. Misconfigure => DirInv'
  BY ReturnKeepsDir DEF Misconfigure
<1>3. \/ Quiet \/ Start \/ Aborted \/ FinishPipeline \/ Misconfigure \/ FinishRefinement
      \/ OpenPredictions \/ WriteLine \/ Write \/ Finish \/ Escape
  BY <1>1 DEF Next, Progress
<1>4. Quiet => DirInv'
  BY QuietKeepsDir
<1> HIDE DEF Quiet
<1> QED
  BY <1>2, <1>3, <1>4, StartKeepsDir, AbortKeepsDir, FinishPipelineKeepsDir,
     FinishRefinementKeepsDir, LinesKeepDir, WriteKeepsDir, FinishKeepsDir, EscapeKeepsDir

\* In a directory that any number of runs have shared, each stopped anywhere,
\* also in the middle of a file: files are of runs in the order main() writes
\* them, a manifest beside predictions of its own run seals a whole set, whose
\* errors.json is that run's just if its accounting counts a failure, and the
\* run of a marker has written nothing else (run_cover.py, main,
\* write_predictions and _abort_on_accounting_invariant).
THEOREM DirectoryTells == Spec => []DirectoryIsTelling
<1>1. DirInv => DirectoryIsTelling
  BY DEF DirInv
<1> QED
  BY <1>1, DirInit, DirStep, HoleInit, HoleStep, PTL DEF Spec

-----------------------------------------------------------------------------
(* The exit code *)

DeliversARow ==
  /\ \A i \in DOMAIN predictions : ~predictions[i].failed
  /\ Len(predictions) = Len(queries)

\* The one step of a blind run that returns 0 has counted no error.
LEMMA DeliveryStep ==
  DirInv /\ HoleInv /\ [Next]_vars => [Delivers => DeliversARow]_vars
<1> SUFFICES ASSUME DirInv, HoleInv, Next, Delivers
             PROVE  DeliversARow
  OBVIOUS
<1>1. step = "write" /\ exit = -1 /\ exit' = 0 /\ split.blind
  BY DEF DirInv, Delivers
<1>2. Finish
  <2>1. ~Start /\ ~Decided /\ ~Failed /\ ~Aborted /\ ~FinishPipeline
    BY <1>1 DEF Start, Decided, Failed, Aborted, FinishPipeline, Answering
  <2>2. ~Ask /\ ~Forgo /\ ~RefineRow /\ ~Misconfigure /\ ~FinishRefinement
    BY <1>1 DEF Ask, Forgo, RefineRow, Misconfigure, FinishRefinement, Refining
  <2>3. ~OpenPredictions /\ ~WriteLine /\ ~Write /\ ~Escape /\ ~Validate /\ ~WriteArchive
    BY <1>1 DEF OpenPredictions, WriteLine, Write, Escape, Return, Validate, WriteArchive
  <2> QED
    BY <2>1, <2>2, <2>3 DEF Next, Progress
<1>3. SubmissionReady(RunAccounting)
  <2>1. exit' = IF SubmissionReady(RunAccounting) \/ ~split.blind THEN 0 ELSE 3
    BY <1>2 DEF Finish, Return
  <2> QED
    BY <1>1, <2>1
<1>4. Len(errors) = 0
  BY <1>3 DEF SubmissionReady, RunAccounting
<1>5. errors = <<>>
  <2>1. PICK S : errors \in Seq(S)
    BY DEF HoleInv, IsSequence
  <2> QED
    BY <1>4, <2>1
<1> QED
  BY <1>1, <1>5 DEF HoleInv, DeliversARow

\* A blind run that exits with 0 has an answer to every query it was given,
\* for any split, any refinement and any earlier content of the directory:
\* the refinement cannot hide a row that failed
\* (run_cover.py, run_accounting and submission_verdict).
THEOREM OnlyAnswersAreDelivered == Spec => DeliversOnlyAnswers
<1>1. DirInv /\ HoleInv /\ [Next]_vars => [Delivers => DeliversARow]_vars
  BY DeliveryStep
<1> QED
  BY <1>1, DirInit, DirStep, HoleInit, HoleStep, PTL DEF Spec, DeliversOnlyAnswers, DeliversARow

-----------------------------------------------------------------------------
(* The archive *)

\* A run answers rows of its split, and no more of them than it has.
QueriesInv ==
  step # "idle" =>
    /\ split \in Splits /\ IsSequence(queries) /\ Len(queries) <= Len(split.rows)
    /\ \A i \in DOMAIN queries : queries[i] \in ToSet(split.rows)

\* What lies in predictions.jsonl is rows, in order while a run writes them.
ContentInv ==
  /\ IsSequence(content)
  /\ AtPredictions /\ disk["predictions"] = run =>
       /\ Len(content) <= Len(predictions)
       /\ \A i \in DOMAIN content : content[i].of = queries[i]

\* What was checked is still there, unless another run has opened the file.
CheckedInv ==
  checked # Unchecked =>
    /\ \E s \in Splits : checked.of = s.rows
    /\ checked.from \in Nat /\ checked.from <= disk["predictions"]
    /\ checked.from = disk["predictions"] => Whom(content) = checked.of

PackageInv == QueriesInv /\ ContentInv /\ CheckedInv /\ OnlyAnotherRunSpoilsTheArchive

LEMMA RowsOf ==
  ASSUME IsSequence(content)
  PROVE  /\ Len(content) \in Nat /\ DOMAIN content = 1..Len(content)
         /\ Whom(content) = [i \in 1..Len(content) |-> content[i].of]
         /\ Len(Whom(content)) = Len(content)
<1>1. PICK S : content \in Seq(S)
  BY DEF IsSequence
<1>2. /\ Len(content) \in Nat /\ DOMAIN content = 1..Len(content)
      /\ Whom(content) = [i \in 1..Len(content) |-> content[i].of]
  BY <1>1 DEF Whom
<1> DEFINE T == {content[i].of : i \in 1..Len(content)}
<1>3. \A i \in 1..Len(content) : content[i].of \in T
  OBVIOUS
<1> HIDE DEF T
<1>4. Whom(content) \in [1..Len(content) -> T]
  BY <1>2, <1>3
<1>5. Whom(content) \in Seq(T) /\ Len(Whom(content)) = Len(content)
  BY <1>2, <1>4
<1> QED BY <1>2, <1>5

LEMMA StartKeepsQueries == Start => QueriesInv'
<1> SUFFICES ASSUME Start PROVE QueriesInv'
  OBVIOUS
<1>1. split' \in Splits
  BY DEF Start
<1>2. PICK n \in DOMAIN split'.rows : \E kept \in [1..n -> DOMAIN split'.rows] :
        queries' = [i \in 1..n |-> split'.rows[kept[i]]]
  BY DEF Start
<1>3. PICK kept \in [1..n -> DOMAIN split'.rows] : queries' = [i \in 1..n |-> split'.rows[kept[i]]]
  BY <1>2
<1>4. split'.rows \in Seq(ToSet(split'.rows))
  BY <1>1, SplitsAreSequences
<1>5. n \in Nat /\ n <= Len(split'.rows) /\ \A i \in 1..n : split'.rows[kept[i]] \in ToSet(split'.rows)
  BY <1>3, <1>4
<1>6. queries' \in [1..n -> ToSet(split'.rows)]
  BY <1>3, <1>5
<1>7. queries' \in Seq(ToSet(split'.rows)) /\ Len(queries') = n /\ DOMAIN queries' = 1..n
  BY <1>5, <1>6
<1> QED BY <1>1, <1>5, <1>6, <1>7 DEF QueriesInv, IsSequence

\* A row goes to the end of the file and says whom it is of.
LEMMA LineKeepsContent ==
  ASSUME HoleInv, ContentInv, WriteLine
  PROVE  ContentInv' /\ \A i \in DOMAIN content : content'[i] = content[i]
<1> DEFINE row == WrittenRow(Len(content) + 1)
<1>1. /\ AtPredictions /\ disk["predictions"] = run /\ Len(content) < Len(predictions)
      /\ content' = Append(content, row) /\ UNCHANGED <<queries, predictions>>
  BY DEF WriteLine, locals
<1>2. row.of = queries[Len(content) + 1]
  BY DEF WrittenRow
<1> HIDE DEF row
<1>3. PICK S : content \in Seq(S)
  BY DEF ContentInv, IsSequence
<1>4. content \in Seq(S \cup {row}) /\ row \in S \cup {row}
  BY <1>3, SeqMonotonic
<1>5. /\ content' \in Seq(S \cup {row}) /\ Len(content') = Len(content) + 1
      /\ \A i \in 1..Len(content) : content'[i] = content[i]
      /\ content'[Len(content) + 1] = row /\ Len(content) \in Nat
      /\ DOMAIN content = 1..Len(content) /\ DOMAIN content' = 1..(Len(content) + 1)
  BY <1>1, <1>4
<1>6. PICK P : predictions \in Seq(P)
  BY DEF HoleInv, IsSequence
<1>7. Len(content') <= Len(predictions')
  BY <1>1, <1>5, <1>6
<1>8. \A i \in DOMAIN content' : content'[i].of = queries'[i]
  BY <1>1, <1>2, <1>5 DEF ContentInv
<1> QED BY <1>5, <1>7, <1>8 DEF ContentInv, IsSequence

\* A file that was found good has every row of its split, so that the run it
\* is of has nothing more to write to it.
LEMMA GoodIsFinished ==
  ASSUME HoleInv, QueriesInv, ContentInv, CheckedInv, WriteLine, checked # Unchecked
  PROVE  checked.from # disk["predictions"]
<1> SUFFICES ASSUME checked.from = disk["predictions"]
             PROVE  FALSE
  OBVIOUS
<1>1. step = "write" /\ next = 1 /\ disk["predictions"] = run /\ Len(content) < Len(predictions)
  BY DEF WriteLine, AtPredictions
<1>2. PICK s \in Splits : checked.of = s.rows
  BY DEF CheckedInv
<1>3. Whom(content) = s.rows
  BY <1>2 DEF CheckedInv
<1>4. /\ split \in Splits /\ Len(queries) <= Len(split.rows) /\ Len(predictions) = Len(queries)
      /\ \A i \in DOMAIN queries : queries[i] \in ToSet(split.rows)
  BY <1>1 DEF QueriesInv, HoleInv
<1>5. PICK Q : queries \in Seq(Q)
  BY <1>1 DEF QueriesInv, IsSequence
<1>6. /\ Len(content) \in Nat /\ DOMAIN content = 1..Len(content)
      /\ Whom(content) = [i \in 1..Len(content) |-> content[i].of]
      /\ Len(Whom(content)) = Len(content)
  BY RowsOf DEF ContentInv
<1>7. \A i \in 1..Len(content) : s.rows[i] \in ToSet(split.rows)
  <2> SUFFICES ASSUME NEW i \in 1..Len(content)
               PROVE  s.rows[i] \in ToSet(split.rows)
    OBVIOUS
  <2>1. s.rows[i] = queries[i]
    BY <1>1, <1>3, <1>6 DEF ContentInv, AtPredictions
  <2>2. i \in DOMAIN queries
    BY <1>1, <1>4, <1>5, <1>6
  <2> QED BY <1>4, <2>1, <2>2
<1>8. DOMAIN s.rows = 1..Len(content)
  BY <1>3, <1>6
<1>9. ToSet(s.rows) \subseteq ToSet(split.rows)
  BY <1>7, <1>8 DEF ToSet
<1>10. s.rows = split.rows
  BY <1>2, <1>4, <1>9, SplitsAreApart
<1>11. Len(split.rows) = Len(content)
  BY <1>3, <1>6, <1>10
<1> QED BY <1>1, <1>4, <1>5, <1>6, <1>11

\* validate has compared every row of the file with the row of the split at
\* its place, and found as many.
LEMMA ValidatePairsTheRows ==
  ASSUME DirInv, ContentInv, Validate
  PROVE  CheckedInv'
<1>1. PICK s \in Splits :
        /\ Accepts(content, s)
        /\ checked' = [of |-> s.rows, from |-> disk["predictions"]]
  BY DEF Validate
<1>2. PICK S : content \in Seq(S)
  BY DEF ContentInv, IsSequence
<1>3. s.rows \in Seq(ToSet(s.rows))
  BY SplitsAreSequences
<1>4. /\ Len(content) = Len(s.rows)
      /\ \A i \in DOMAIN content : content[i].of = s.rows[i]
  BY <1>1 DEF Accepts
<1>5. /\ DOMAIN content = 1..Len(content) /\ DOMAIN s.rows = 1..Len(s.rows)
      /\ s.rows = [i \in 1..Len(s.rows) |-> s.rows[i]]
  BY <1>2, <1>3
<1>6. Whom(content) = [i \in 1..Len(s.rows) |-> content[i].of]
  BY <1>4, <1>5 DEF Whom
<1>7. Whom(content) = s.rows
  BY <1>4, <1>5, <1>6
<1>8. Whom(content)' = Whom(content) /\ disk' = disk /\ disk["predictions"] \in Nat
  BY DEF Validate, directory, Whom, DirInv, Files
<1>9. checked'.of = s.rows /\ checked'.from = disk["predictions"]
  BY <1>1
<1> QED
  BY <1>7, <1>8, <1>9 DEF CheckedInv

LEMMA PackageStep == DirInv /\ HoleInv /\ PackageInv /\ [Next]_vars => PackageInv'
<1> SUFFICES ASSUME DirInv, HoleInv, PackageInv, [Next]_vars
             PROVE  PackageInv'
  OBVIOUS
<1> USE DEF PackageInv
<1>1. Whom(content)' = Whom(content') /\ disk \in [Files -> Nat] /\ "predictions" \in Files
      /\ run \in Nat /\ disk["predictions"] <= run
  BY DEF Whom, DirInv, Files
<1>2. ASSUME UNCHANGED <<content, disk["predictions"], checked>>
      PROVE  CheckedInv'
  BY <1>1, <1>2 DEF CheckedInv
<1>3. ASSUME UNCHANGED archive PROVE OnlyAnotherRunSpoilsTheArchive'
  BY <1>3 DEF OnlyAnotherRunSpoilsTheArchive
<1>4. ASSUME UNCHANGED <<step, split, queries>> PROVE QueriesInv'
  BY <1>4 DEF QueriesInv, IsSequence
<1>5. ASSUME UNCHANGED content, ~AtPredictions' PROVE ContentInv'
  BY <1>5 DEF ContentInv, IsSequence
<1>6. ASSUME UNCHANGED <<run, step, next, queries, predictions, disk, content>> PROVE ContentInv'
  BY <1>6 DEF ContentInv, IsSequence, AtPredictions
<1>7. CASE Start
  <2>1. UNCHANGED <<content, disk["predictions"], checked, archive>> /\ ~AtPredictions'
    BY <1>7 DEF Start, directory, package, AtPredictions
  <2> QED BY <1>2, <1>3, <1>5, <1>7, <2>1, StartKeepsQueries
<1>8. CASE Decided \/ Failed \/ Ask \/ Forgo \/ RefineRow
  <2>1. UNCHANGED <<content, disk["predictions"], checked, archive, step, split, queries>>
        /\ ~AtPredictions'
    BY <1>8 DEF Decided, Failed, Ask, Forgo, RefineRow, Answering, Refining, directory, package,
                locals, AtPredictions
  <2> QED BY <1>2, <1>3, <1>4, <1>5, <2>1
<1>9. CASE Aborted \/ Misconfigure \/ Finish \/ Escape
  <2>1. (\E code : Return(code)) /\ UNCHANGED <<content, checked, archive>>
    <3>1. CASE Aborted
      BY <3>1 DEF Aborted, package
    <3>2. CASE Misconfigure
      BY <3>2 DEF Misconfigure, directory, package
    <3>3. CASE Finish
      BY <3>3 DEF Finish, directory, package
    <3>4. CASE Escape
      BY <3>4 DEF Escape, package
    <3> QED BY <1>9, <3>1, <3>2, <3>3, <3>4
  <2>2. step' = "idle" /\ ~AtPredictions'
    BY <2>1 DEF Return, AtPredictions
  <2>3. disk'["predictions"] = disk["predictions"]
    <3>1. CASE Aborted
      BY <1>1, <3>1 DEF Aborted
    <3>2. CASE Misconfigure \/ Finish
      BY <3>2 DEF Misconfigure, Finish, directory
    <3>3. CASE Escape
      <4>1. next \in 2..7 => Artifacts[next] # "predictions"
        BY ArtifactNames DEF FileOf
      <4> QED BY <1>1, <3>3, <4>1, ArtifactNames DEF Escape
    <3> QED BY <1>9, <3>1, <3>2, <3>3
  <2>4. QueriesInv'
    BY <2>2 DEF QueriesInv
  <2> QED BY <1>2, <1>3, <1>5, <2>1, <2>2, <2>3, <2>4
<1>10. CASE FinishPipeline \/ FinishRefinement
  <2>1. /\ UNCHANGED <<run, content, disk, checked, archive, split, queries>>
        /\ step \in {"pipeline", "refine"}
    BY <1>10 DEF FinishPipeline, FinishRefinement, directory, package, locals
  <2>2. disk["predictions"] # run
    BY <2>1 DEF DirInv, Untouched, Files
  <2>3. ContentInv'
    BY <2>1, <2>2 DEF ContentInv, IsSequence
  <2>4. QueriesInv'
    BY <2>1 DEF QueriesInv, IsSequence
  <2> QED BY <1>2, <1>3, <2>1, <2>3, <2>4
<1>11. CASE OpenPredictions
  <2>1. /\ content' = <<>> /\ disk'["predictions"] = run /\ disk["predictions"] # run
        /\ UNCHANGED <<step, split, queries, predictions, checked, archive>>
    BY <1>1, <1>11 DEF OpenPredictions, locals, package
  <2>2. CheckedInv'
    BY <1>1, <2>1 DEF CheckedInv
  <2>3. PICK P : predictions \in Seq(P)
    BY DEF HoleInv, IsSequence
  <2>4. ContentInv'
    BY <2>1, <2>3, EmptyIsSequence DEF ContentInv
  <2> QED BY <1>3, <1>4, <2>1, <2>2, <2>4
<1>12. CASE WriteLine
  <2>1. UNCHANGED <<step, split, queries, checked, archive, disk>>
    BY <1>12 DEF WriteLine, locals, package
  <2>2. CheckedInv'
    BY <1>12, <2>1, GoodIsFinished DEF CheckedInv
  <2> QED BY <1>3, <1>4, <1>12, <2>1, <2>2, LineKeepsContent
<1>13. CASE Write
  <2>1. /\ UNCHANGED <<content, step, split, queries, predictions, checked, archive>>
        /\ next \in 1..7 /\ next' = next + 1
    BY <1>13, ArtifactNames DEF Write, locals, package
  <2>2. disk'["predictions"] = disk["predictions"] /\ ~AtPredictions'
    <3>1. next # 1 => Artifacts[next] # "predictions"
      BY <2>1, ArtifactNames DEF FileOf
    <3>2. next = 1 => disk["predictions"] = run /\ Artifacts[next] = "predictions"
      BY <1>13, ArtifactNames DEF Write, WrittenOut, FileOf
    <3>3. disk' = disk \/ disk' = [disk EXCEPT ![Artifacts[next]] = run]
      BY <1>13 DEF Write
    <3>4. disk'["predictions"] = disk["predictions"]
      BY <1>1, <3>1, <3>2, <3>3
    <3> QED BY <2>1, <3>4 DEF AtPredictions
  <2> QED BY <1>2, <1>3, <1>4, <1>5, <2>1, <2>2
<1>14. CASE Validate
  <2>1. UNCHANGED <<run, step, next, split, queries, predictions, disk, content, archive>>
    BY <1>14 DEF Validate, directory, locals
  <2> QED BY <1>3, <1>4, <1>6, <1>14, <2>1, ValidatePairsTheRows
<1>15. CASE WriteArchive
  <2>1. /\ UNCHANGED <<run, step, next, split, queries, predictions, disk, content>>
        /\ checked # Unchecked /\ checked' = Unchecked
        /\ archive' = [rows |-> Whom(content), of |-> checked.of, from |-> disk["predictions"],
                       checked |-> checked.from]
    BY <1>15 DEF WriteArchive, directory, locals
  <2>2. CheckedInv'
    BY <2>1 DEF CheckedInv, Unchecked
  <2>3. OnlyAnotherRunSpoilsTheArchive'
    BY <2>1 DEF CheckedInv, OnlyAnotherRunSpoilsTheArchive
  <2> QED BY <1>4, <1>6, <2>1, <2>2, <2>3
<1>16. CASE UNCHANGED vars
  <2>1. UNCHANGED <<run, step, next, split, queries, predictions, disk, content, checked, archive>>
    BY <1>16 DEF vars, directory, locals, package
  <2> QED BY <1>2, <1>3, <1>4, <1>6, <2>1
<1> QED
  BY <1>7, <1>8, <1>9, <1>10, <1>11, <1>12, <1>13, <1>14, <1>15, <1>16 DEF Next, Progress

LEMMA PackageInit == Init => PackageInv
BY EmptyIsSequence DEF Init, PackageInv, QueriesInv, ContentInv, CheckedInv, AtPredictions,
   OnlyAnotherRunSpoilsTheArchive, NoArchive

\* Whatever runs have written to the directory, in whatever state they left its
\* predictions, and though the file may be checked while a run still writes it:
\* an archive answers every row of the split it was checked for, in its place,
\* unless another run opened the file between the check and the copy
\* (package_submission.py, validate and main).
THEOREM ArchiveIsSpoiltByARun == Spec => []OnlyAnotherRunSpoilsTheArchive
<1>1. PackageInv => OnlyAnotherRunSpoilsTheArchive
  BY DEF PackageInv
<1> QED
  BY <1>1, DirInit, DirStep, HoleInit, HoleStep, PackageInit, PackageStep, PTL DEF Spec

-----------------------------------------------------------------------------
(* What the views of a figure say *)


\* The views are numbered.
LEMMA ViewNumbers == ToSet(Views) = 1..4
<1>1. DOMAIN Views = 1..4
  BY DEF Views
<1>2. Views[1] = 1 /\ Views[2] = 2 /\ Views[3] = 3 /\ Views[4] = 4
  BY DEF Views
<1>3. ToSet(Views) = {Views[i] : i \in 1..4}
  BY <1>1 DEF ToSet
<1>4. \A i \in 1..4 : Views[i] = i
  <2>1. \A i \in 1..4 : i = 1 \/ i = 2 \/ i = 3 \/ i = 4
    OBVIOUS
  <2> QED BY <1>2, <2>1
<1> QED BY <1>3, <1>4

LEMMA ViewsAreFinite ==
  ASSUME NEW V, V \subseteq 1..4
  PROVE  IsFiniteSet(V) /\ Cardinality(V) \in Nat
<1>1. IsFiniteSet(1..4)
  <2>1. 1 \in Int /\ 4 \in Int
    OBVIOUS
  <2> QED BY <2>1, FS_Interval
<1> QED BY <1>1, FS_Subset, FS_CardinalityType

LEMMA CompatibleFacts ==
  ASSUME NEW a \in Nat \ {0}, NEW b \in Nat \ {0}
  PROVE  Compatible(a, a) /\ (Compatible(a, b) <=> Compatible(b, a))
<1>1. Max({a, a}) = a
  <2>1. IsFiniteSet({a})
    BY FS_Singleton
  <2>3. {a} # {} /\ {a} \subseteq Int /\ {a, a} = {a}
    OBVIOUS
  <2>2. Max({a}) \in {a}
    BY <2>1, <2>3, MaxMinFacts
  <2> QED BY <2>2, <2>3
<1>2. {a, b} = {b, a}
  OBVIOUS
<1>3. Apart(a, b) = Apart(b, a) /\ Apart(a, a) = 0
  BY DEF Apart
<1> QED BY <1>1, <1>2, <1>3 DEF Compatible

\* The clusters of some views: each view is in one of them, the figures of a
\* cluster are compatible, and no view would have fitted an earlier one.
Fits(at, i, c) == \A j \in c : Compatible(at[i], at[j])
Grouped(clusters, at, V) ==
  /\ clusters \in Seq(SUBSET V)
  /\ \A c \in DOMAIN clusters : clusters[c] # {} /\ \A i \in clusters[c] : Fits(at, i, clusters[c])
  /\ \A i \in V : \E c \in DOMAIN clusters : i \in clusters[c]
  /\ \A c, d \in DOMAIN clusters : c < d =>
       \A i \in clusters[d] : i \notin clusters[c] /\ ~Fits(at, i, clusters[c])

GroupsWith(clusters, at, i) ==
  LET fits == {c \in DOMAIN clusters : Fits(at, i, clusters[c])}
  IN IF fits = {} THEN Append(clusters, {i})
     ELSE [clusters EXCEPT ![Min(fits)] = @ \cup {i}]

\* One more view leaves the clusters of the others as they should be.
LEMMA GroupedOneMore ==
  ASSUME NEW V, NEW i, i \notin V, NEW at \in [V \cup {i} -> Nat \ {0}],
         NEW clusters, Grouped(clusters, at, V)
  PROVE  Grouped(GroupsWith(clusters, at, i), at, V \cup {i})
<1> DEFINE W == V \cup {i}
           n == Len(clusters)
           fits == {c \in DOMAIN clusters : Fits(at, i, clusters[c])}
           new == GroupsWith(clusters, at, i)
<1>1. /\ n \in Nat /\ DOMAIN clusters = 1..n
      /\ \A c \in 1..n : clusters[c] \subseteq V /\ clusters[c] # {}
      /\ \A c \in 1..n : \A j, k \in clusters[c] : Compatible(at[j], at[k])
      /\ \A j \in V : \E c \in 1..n : j \in clusters[c]
      /\ \A c, d \in 1..n : c < d =>
           \A j \in clusters[d] : j \notin clusters[c] /\ ~Fits(at, j, clusters[c])
  <2>1. clusters \in Seq(SUBSET V)
    BY DEF Grouped
  <2>2. n \in Nat /\ DOMAIN clusters = 1..n
    BY <2>1
  <2>3. \A c \in 1..n : clusters[c] \subseteq V
    BY <2>1
  <2> QED BY <2>2, <2>3 DEF Grouped, Fits
<1>2. \A j \in V : Compatible(at[i], at[j]) <=> Compatible(at[j], at[i])
  <2> SUFFICES ASSUME NEW j \in V PROVE Compatible(at[i], at[j]) <=> Compatible(at[j], at[i])
    OBVIOUS
  <2>1. at[i] \in Nat \ {0} /\ at[j] \in Nat \ {0}
    OBVIOUS
  <2> QED BY <2>1, CompatibleFacts
<1>3. Compatible(at[i], at[i])
  <2>1. at[i] \in Nat \ {0}
    OBVIOUS
  <2> QED BY <2>1, CompatibleFacts
<1>4. ASSUME fits = {} PROVE Grouped(new, at, W)
  <2>1. new = Append(clusters, {i})
    BY <1>4 DEF GroupsWith
  <2>2. clusters \in Seq(SUBSET W) /\ {i} \in SUBSET W
    <3>1. clusters \in Seq(SUBSET V)
      BY DEF Grouped
    <3> QED BY <3>1, SeqMonotonic
  <2>3. /\ new \in Seq(SUBSET W) /\ DOMAIN new = 1..(n + 1)
        /\ \A c \in 1..n : new[c] = clusters[c]
        /\ new[n + 1] = {i}
    BY <2>1, <2>2
  <2>4. \A c \in 1..(n + 1) : c \in 1..n \/ c = n + 1
    BY <1>1
  <2>5. \A c \in DOMAIN new : new[c] # {} /\ \A j \in new[c] : Fits(at, j, new[c])
    BY <1>1, <1>3, <2>3, <2>4 DEF Fits
  <2>6. \A j \in W : \E c \in DOMAIN new : j \in new[c]
    <3> SUFFICES ASSUME NEW j \in W PROVE \E c \in DOMAIN new : j \in new[c]
      OBVIOUS
    <3>1. CASE j = i
      <4>1. n + 1 \in DOMAIN new /\ i \in new[n + 1]
        BY <1>1, <2>3
      <4> QED BY <3>1, <4>1
    <3>2. CASE j \in V
      <4>1. PICK c \in 1..n : j \in clusters[c]
        BY <1>1, <3>2
      <4>2. c \in 1..(n + 1) /\ new[c] = clusters[c]
        BY <1>1, <2>3
      <4> QED BY <2>3, <4>1, <4>2
    <3> QED BY <3>1, <3>2
  <2>7. ASSUME NEW c \in DOMAIN new, NEW d \in DOMAIN new, c < d, NEW j \in new[d]
        PROVE  j \notin new[c] /\ ~Fits(at, j, new[c])
    <3>1. c \in 1..n /\ new[c] = clusters[c]
      BY <1>1, <2>3, <2>7
    <3>2. CASE d = n + 1
      <4>1. j = i /\ i \notin clusters[c]
        BY <1>1, <2>3, <3>1, <3>2
      <4>2. ~Fits(at, i, clusters[c])
        BY <1>1, <1>4, <3>1
      <4> QED BY <3>1, <4>1, <4>2
    <3>3. CASE d \in 1..n
      BY <1>1, <2>3, <2>7, <3>1, <3>3
    <3> QED BY <2>3, <2>4, <3>2, <3>3
  <2> HIDE DEF new
  <2> QED BY <2>3, <2>5, <2>6, <2>7 DEF Grouped
<1>5. ASSUME fits # {} PROVE Grouped(new, at, W)
  <2> DEFINE m == Min(fits)
  <2>1. m \in fits /\ \A c \in fits : m <= c
    <3>1. IsFiniteSet(1..n) /\ fits \subseteq 1..n
      BY <1>1, FS_Interval
    <3>2. IsFiniteSet(fits) /\ fits \subseteq Int
      BY <3>1, FS_Subset
    <3> QED BY <1>5, <3>2, MaxMinFacts
  <2>2. m \in 1..n /\ Fits(at, i, clusters[m])
    BY <1>1, <2>1
  <2>3. new = [clusters EXCEPT ![m] = clusters[m] \cup {i}]
    BY <1>5 DEF GroupsWith
  <2> HIDE DEF m
  <2>4. /\ new \in Seq(SUBSET W) /\ DOMAIN new = 1..n
        /\ \A c \in 1..n : new[c] = IF c = m THEN clusters[m] \cup {i} ELSE clusters[c]
    <3>1. clusters \in Seq(SUBSET V)
      BY DEF Grouped
    <3>2. clusters \in Seq(SUBSET W)
      BY <3>1, SeqMonotonic
    <3>3. clusters[m] \cup {i} \in SUBSET W
      BY <1>1, <2>2
    <3> QED BY <1>1, <2>3, <3>2, <3>3, ReplaceKeeps
  <2> HIDE DEF new
  <2>5. \A c \in DOMAIN new : new[c] # {} /\ \A j \in new[c] : Fits(at, j, new[c])
    <3> SUFFICES ASSUME NEW c \in 1..n PROVE new[c] # {} /\ \A j \in new[c] : Fits(at, j, new[c])
      BY <2>4
    <3>1. CASE c # m
      BY <1>1, <2>4, <3>1 DEF Fits
    <3>2. CASE c = m
      <4>1. new[c] = clusters[m] \cup {i} /\ clusters[m] \subseteq V
        BY <1>1, <2>2, <2>4, <3>2
      <4>2. \A j, k \in clusters[m] : Compatible(at[j], at[k])
        BY <1>1, <2>2
      <4>3. \A k \in clusters[m] : Compatible(at[i], at[k]) /\ Compatible(at[k], at[i])
        BY <1>2, <2>2, <4>1 DEF Fits
      <4> QED BY <1>3, <4>1, <4>2, <4>3 DEF Fits
    <3> QED BY <3>1, <3>2
  <2>6. \A j \in W : \E c \in DOMAIN new : j \in new[c]
    BY <1>1, <2>2, <2>4
  <2>7. ASSUME NEW c \in DOMAIN new, NEW d \in DOMAIN new, c < d, NEW j \in new[d]
        PROVE  j \notin new[c] /\ ~Fits(at, j, new[c])
    <3>1. c \in 1..n /\ d \in 1..n /\ clusters[c] \subseteq new[c]
      BY <2>4
    <3>2. CASE j \in clusters[d]
      <4>1. j \notin clusters[c] /\ ~Fits(at, j, clusters[c]) /\ j # i
        BY <1>1, <2>7, <3>1, <3>2
      <4> QED BY <2>4, <3>1, <4>1 DEF Fits
    <3>3. CASE j \notin clusters[d]
      <4>1. d = m /\ j = i /\ c # m
        BY <1>1, <2>4, <2>7, <3>1, <3>3
      <4>2. new[c] = clusters[c] /\ c \notin fits
        BY <1>1, <2>1, <2>4, <2>7, <3>1, <4>1
      <4> QED BY <1>1, <3>1, <4>1, <4>2
    <3> QED BY <3>2, <3>3
  <2> QED BY <2>4, <2>5, <2>6, <2>7 DEF Grouped
<1> QED BY <1>4, <1>5

\* The top cluster is one of the largest.
LEMMA TopIsLargest ==
  ASSUME NEW h, NEW V, V \subseteq 1..4, NEW at, Grouped(h.clusters, at, V), h.clusters # <<>>
  PROVE  \E t \in DOMAIN h.clusters :
           /\ TopCluster(h) = h.clusters[t]
           /\ \A d \in DOMAIN h.clusters : Cardinality(h.clusters[d]) <= Cardinality(h.clusters[t])
<1> DEFINE C == h.clusters
           D == DOMAIN C
           n == Len(C)
           less == [c \in D |-> 0 - Cardinality(C[c])]
           place == [c \in D |-> c]
<1>1. n \in Nat /\ D = 1..n /\ n # 0 /\ \A c \in D : C[c] \subseteq V
  BY DEF Grouped
<1>2. \A c \in D : Cardinality(C[c]) \in Nat
  BY <1>1, ViewsAreFinite
<1>3. less \in [D -> Int] /\ place \in [D -> Int]
  BY <1>1, <1>2
<1>4. IsFiniteSet(D) /\ D # {}
  <2>1. 1 \in Int /\ n \in Int /\ 1 \in 1..n
    BY <1>1
  <2> QED BY <1>1, <2>1, FS_Interval
<1>5. PICK t \in D : \A y \in D : AheadByTwo(less, place, t, y)
  <2> HIDE DEF less, place, D
  <2> QED BY <1>3, <1>4, FirstOfTwo, Zenon
<1>6. \E c \in D : \A d \in D :
        \/ Cardinality(C[c]) > Cardinality(C[d])
        \/ Cardinality(C[c]) = Cardinality(C[d]) /\ c <= d
  <2>1. ASSUME NEW d \in D
        PROVE  \/ Cardinality(C[t]) > Cardinality(C[d])
               \/ Cardinality(C[t]) = Cardinality(C[d]) /\ t <= d
    <3>1. Cardinality(C[t]) \in Nat /\ Cardinality(C[d]) \in Nat /\ t \in Nat /\ d \in Nat
      BY <1>1, <1>2
    <3>2. /\ less[t] = 0 - Cardinality(C[t]) /\ less[d] = 0 - Cardinality(C[d])
          /\ place[t] = t /\ place[d] = d
      OBVIOUS
    <3>3. less[t] < less[d] \/ (less[t] = less[d] /\ place[t] <= place[d])
      BY <1>5 DEF AheadByTwo
    <3> HIDE DEF less, place
    <3> QED BY <3>1, <3>2, <3>3
  <2> QED BY <2>1
<1> DEFINE u == CHOOSE c \in D : \A d \in D :
                  \/ Cardinality(C[c]) > Cardinality(C[d])
                  \/ Cardinality(C[c]) = Cardinality(C[d]) /\ c <= d
<1>7. u \in D /\ \A d \in D : \/ Cardinality(C[u]) > Cardinality(C[d])
                              \/ Cardinality(C[u]) = Cardinality(C[d]) /\ u <= d
  BY <1>6
<1>8. TopCluster(h) = C[u]
  BY DEF TopCluster
<1> HIDE DEF u
<1> QED BY <1>2, <1>7, <1>8

\* In the order of their figures, the earlier view first of two that agree.
BelowOf(h, c) ==
  {a \in c \X c : \/ Figure(h, a[1]) < Figure(h, a[2])
                  \/ Figure(h, a[1]) = Figure(h, a[2]) /\ a[1] < a[2]}
FigureAt(h, c, n) == Figure(h, CHOOSE i \in c : Rank(i, BelowOf(h, c), c) = n)

LEMMA MedianUnfolds ==
  ASSUME NEW h, NEW c
  PROVE  MedianTwice(h, c) = FigureAt(h, c, (Cardinality(c) - 1) \div 2)
                             + FigureAt(h, c, Cardinality(c) \div 2)
<1>1. \A i \in c : {j \in c : \/ Figure(h, j) < Figure(h, i)
                              \/ (Figure(h, j) = Figure(h, i) /\ j < i)}
                   = {j \in c : <<j, i>> \in BelowOf(h, c)}
  BY DEF BelowOf
<1>2. ASSUME NEW n
      PROVE  (CHOOSE i \in c : Rank(i, BelowOf(h, c), c) = n)
             = CHOOSE i \in c :
                 Cardinality({j \in c : \/ Figure(h, j) < Figure(h, i)
                                        \/ (Figure(h, j) = Figure(h, i) /\ j < i)}) = n
  BY <1>1 DEF Rank
<1> QED BY <1>2 DEF MedianTwice, FigureAt

\* A figure that three of four views at most give is their median.
LEMMA MedianFacts ==
  ASSUME NEW h, NEW c, c \subseteq 1..4, c # {}, \A i \in c : Figure(h, i) \in Nat \ {0}
  PROVE  /\ MedianTwice(h, c) \in Int
         /\ \A v : Cardinality({i \in c : Figure(h, i) = v}) >= 3 => MedianTwice(h, c) = 2 * v
<1> DEFINE n == Cardinality(c)
           R == BelowOf(h, c)
           at == [i \in c |-> Figure(h, i)]
           low == (n - 1) \div 2
           high == n \div 2
<1>1. IsFiniteSet(c) /\ n \in Nat /\ IsFiniteSet(1..4) /\ Cardinality(1..4) = 4
  <2>1. 1 \in Int /\ 4 \in Int /\ 1..4 \subseteq 1..4
    OBVIOUS
  <2>2. Cardinality(1..4) = IF 1 > 4 THEN 0 ELSE 4 - 1 + 1
    BY <2>1, FS_Interval
  <2>3. IsFiniteSet(c) /\ n \in Nat /\ IsFiniteSet(1..4)
    BY <2>1, ViewsAreFinite
  <2> QED BY <2>2, <2>3
<1>2. n # 0 /\ n <= 4
  <2>1. n # 0
    BY <1>1, FS_EmptySet
  <2>2. n <= Cardinality(1..4)
    BY <1>1, FS_Subset
  <2> QED BY <1>1, <2>1, <2>2
<1>3. \A i \in c : at[i] = Figure(h, i) /\ at[i] \in Nat \ {0} /\ i \in Nat
  OBVIOUS
<1>4. \A i, j \in c : <<i, j>> \in R <=> at[i] < at[j] \/ (at[i] = at[j] /\ i < j)
  BY <1>3 DEF BelowOf
<1>5. Orders(R, c)
  <2> HIDE DEF R, at
  <2> QED BY <1>3, <1>4 DEF Orders
<1>6. \A i \in 1..n : \E x \in c : Rank(x, R, c) = i - 1
  <2> HIDE DEF R
  <2> QED BY <1>1, <1>5, Ranking
<1>7. low \in 0..(n - 1) /\ high \in 0..(n - 1)
  BY <1>1, <1>2
<1>8. ASSUME NEW k \in 0..(n - 1)
      PROVE  \E i \in c : Rank(i, R, c) = k /\ FigureAt(h, c, k) = at[i]
  <2>1. k + 1 \in 1..n /\ (k + 1) - 1 = k
    BY <1>1
  <2>2. \E x \in c : Rank(x, R, c) = k
    BY <1>6, <2>1
  <2> DEFINE x == CHOOSE i \in c : Rank(i, R, c) = k
  <2>3. x \in c /\ Rank(x, R, c) = k
    BY <2>2
  <2>4. FigureAt(h, c, k) = Figure(h, x)
    BY DEF FigureAt
  <2> HIDE DEF x
  <2> QED BY <1>3, <2>3, <2>4
<1>9. MedianTwice(h, c) = FigureAt(h, c, low) + FigureAt(h, c, high)
  BY MedianUnfolds
<1>10. MedianTwice(h, c) \in Int
  <2>1. FigureAt(h, c, low) \in Nat /\ FigureAt(h, c, high) \in Nat
    BY <1>3, <1>7, <1>8
  <2> QED BY <1>9, <2>1
<1>11. ASSUME NEW v, Cardinality({i \in c : Figure(h, i) = v}) >= 3
       PROVE  MedianTwice(h, c) = 2 * v
  <2> DEFINE S == {i \in c : Figure(h, i) = v}
             m == Cardinality(S)
  <2>1. IsFiniteSet(S) /\ m \in Nat /\ m >= 3 /\ m <= n
    BY <1>1, <1>11, FS_Subset, FS_CardinalityType
  <2>2. v \in Nat
    <3>1. S # {}
      BY <2>1, FS_EmptySet
    <3> QED BY <3>1
  <2>3. ASSUME NEW k \in {low, high} PROVE FigureAt(h, c, k) = v
    <3>1. PICK i \in c : Rank(i, R, c) = k /\ FigureAt(h, c, k) = at[i]
      BY <1>7, <1>8
    <3> DEFINE B == {y \in c : <<y, i>> \in R}
    <3>2. IsFiniteSet(B) /\ Cardinality(B) = k
      BY <1>1, <3>1, FS_Subset DEF Rank
    <3>3. CASE at[i] = v
      BY <3>1, <3>3
    <3>4. CASE at[i] > v
      <4>1. S \subseteq B
        <5> SUFFICES ASSUME NEW y \in S PROVE <<y, i>> \in R
          OBVIOUS
        <5>1. y \in c /\ at[y] = v
          OBVIOUS
        <5>2. at[y] < at[i]
          BY <3>4, <5>1
        <5> HIDE DEF R, at, S
        <5> QED BY <1>4, <5>1, <5>2
      <4>2. m <= k
        BY <2>1, <3>2, <4>1, FS_Subset
      <4>3. k <= 2
        BY <1>1, <1>2
      <4> QED BY <2>1, <4>2, <4>3
    <3>5. CASE at[i] < v
      <4>1. S \subseteq c \ {i} /\ B \subseteq c \ (S \cup {i})
        <5>1. \A y \in S : y \in c /\ at[y] = v
          OBVIOUS
        <5>2. ASSUME NEW y \in B PROVE y \in c /\ y # i /\ at[y] # v
          <6>1. y \in c /\ <<y, i>> \in R
            OBVIOUS
          <6>2. at[y] < at[i] \/ (at[y] = at[i] /\ y < i)
            <7> HIDE DEF R, at
            <7> QED BY <1>4, <6>1
          <6>3. at[y] \in Nat /\ at[i] \in Nat /\ y \in Nat /\ i \in Nat
            BY <1>3, <6>1
          <6> HIDE DEF R, at
          <6> QED BY <2>2, <3>5, <6>1, <6>2, <6>3
        <5> HIDE DEF at, B
        <5>3. B \subseteq c
          BY <5>2
        <5>4. i \notin S
          BY <2>2, <3>5, <5>1
        <5>5. \A y \in B : y \notin S
          BY <5>1, <5>2
        <5> HIDE DEF S
        <5> QED BY <5>1, <5>2, <5>3, <5>4, <5>5
      <4>2. IsFiniteSet(S \cup {i}) /\ Cardinality(S \cup {i}) = m + 1
        BY <2>1, <4>1, FS_AddElement
      <4>3. Cardinality(c \ (S \cup {i})) = n - (m + 1)
        <5> DEFINE T == S \cup {i}
        <5>1. c \cap T = T /\ Cardinality(T) = m + 1
          BY <4>2
        <5>2. Cardinality(c \ T) = n - Cardinality(c \cap T)
          <6> HIDE DEF T
          <6> QED BY <1>1, FS_Difference
        <5> QED BY <5>1, <5>2
      <4>4. k <= n - (m + 1)
        <5> DEFINE U == c \ (S \cup {i})
        <5>1. IsFiniteSet(U)
          BY <1>1, FS_Subset
        <5>2. B \subseteq U
          BY <4>1
        <5>3. Cardinality(B) <= Cardinality(U)
          <6> HIDE DEF B, U
          <6> QED BY <5>1, <5>2, FS_Subset
        <5> QED BY <3>2, <4>3, <5>3
      <4>5. m = 3 /\ n = 4 /\ k <= 0
        BY <1>1, <1>2, <1>7, <2>1, <4>4
      <4>6. k >= 1
        BY <4>5
      <4> QED BY <1>7, <4>5, <4>6
    <3>6. at[i] \in Nat
      BY <1>3
    <3> QED BY <2>2, <3>3, <3>4, <3>5, <3>6
  <2> QED BY <1>9, <2>2, <2>3
<1> QED BY <1>10, <1>11

\* The representative is a figure of the top cluster, and that of three of its
\* views if three agree.
Represents(h, c) ==
  /\ \E i \in c : Representative(h) = Figure(h, i)
  /\ \A v : Cardinality({i \in c : Figure(h, i) = v}) >= 3 => Representative(h) = v

LEMMA RepresentativeFacts ==
  ASSUME NEW h, NEW c, c \subseteq 1..4, c # {}, \A i \in c : Figure(h, i) \in Nat \ {0},
         TopCluster(h) = c, c \subseteq Observing(h)
  PROVE  Represents(h, c)
<1> DEFINE m == MedianTwice(h, c)
           Off(i) == Apart(2 * Figure(h, i), m)
           Nearest(i) == \A j \in c : Off(i) < Off(j) \/ (Off(i) = Off(j) /\ i <= j)
           Chosen(figure) == \E i \in c : figure = Figure(h, i) /\ Nearest(i)
           off == [i \in c |-> Off(i)]
           place == [i \in c |-> i]
<1>1. m \in Int
  BY MedianFacts
<1>2. \A i \in c : Off(i) \in Int /\ Off(i) >= 0 /\ i \in Int
  BY <1>1 DEF Apart
<1>3. IsFiniteSet(c) /\ off \in [c -> Int] /\ place \in [c -> Int]
  BY <1>2, ViewsAreFinite
<1>4. \E i \in c : Nearest(i)
  <2>1. PICK i \in c : \A y \in c : AheadByTwo(off, place, i, y)
    <3> HIDE DEF off, place
    <3> QED BY <1>3, FirstOfTwo, Zenon
  <2>2. ASSUME NEW j \in c PROVE Off(i) < Off(j) \/ (Off(i) = Off(j) /\ i <= j)
    <3>1. off[i] = Off(i) /\ off[j] = Off(j) /\ place[i] = i /\ place[j] = j
      OBVIOUS
    <3> HIDE DEF off, place, Off
    <3> QED BY <1>2, <2>1, <3>1 DEF AheadByTwo
  <2> QED BY <2>2
<1>5. Representative(h) = CHOOSE figure \in Figures(h) : Chosen(figure)
  BY DEF Representative
<1>6. \E figure \in Figures(h) : Chosen(figure)
  <2>1. PICK i \in c : Nearest(i)
    BY <1>4
  <2>2. Figure(h, i) \in Figures(h)
    BY DEF Figures
  <2> HIDE DEF Nearest
  <2> QED BY <2>1, <2>2
<1>7. Chosen(Representative(h))
  <2> HIDE DEF Chosen
  <2> QED BY <1>5, <1>6
<1>8. ASSUME NEW v, Cardinality({i \in c : Figure(h, i) = v}) >= 3 PROVE Representative(h) = v
  <2>1. m = 2 * v
    BY <1>8, MedianFacts
  <2>2. PICK j \in c : Figure(h, j) = v
    <3>1. {i \in c : Figure(h, i) = v} # {}
      BY <1>8, FS_EmptySet
    <3> QED BY <3>1
  <2>3. PICK i \in c : Representative(h) = Figure(h, i) /\ Nearest(i)
    BY <1>7
  <2>4. Off(j) = 0 /\ Off(i) <= 0
    <3>1. Off(j) = 0
      BY <2>1, <2>2 DEF Apart
    <3>2. Off(i) < Off(j) \/ Off(i) = Off(j)
      BY <2>3
    <3> HIDE DEF Off
    <3> QED BY <1>2, <3>1, <3>2
  <2>5. Off(i) = 0
    <3> HIDE DEF Off
    <3> QED BY <1>2, <2>4
  <2>6. Figure(h, i) \in Nat /\ v \in Nat
    BY <2>2
  <2>7. 2 * Figure(h, i) = 2 * v
    BY <2>1, <2>5, <2>6 DEF Apart
  <2> QED BY <2>3, <2>6, <2>7
<1>9. \E i \in c : Representative(h) = Figure(h, i)
  BY <1>7
<1> QED BY <1>8, <1>9 DEF Represents

\* Views that give one figure are in one cluster, whatever came between them.
LEMMA AgreeingTogether ==
  ASSUME NEW V, NEW at \in [V -> Nat \ {0}], NEW clusters, Grouped(clusters, at, V),
         NEW i \in V, NEW j \in V, at[i] = at[j],
         NEW c \in DOMAIN clusters, i \in clusters[c]
  PROVE  j \in clusters[c]
<1>1. PICK d \in DOMAIN clusters : j \in clusters[d]
  BY DEF Grouped
<1>2. c \in Nat /\ d \in Nat
  BY DEF Grouped
<1>3. ~(c < d)
  <2>1. c < d => ~Fits(at, j, clusters[c])
    BY <1>1 DEF Grouped
  <2>2. Fits(at, i, clusters[c])
    BY DEF Grouped
  <2> QED BY <2>1, <2>2 DEF Fits
<1>4. ~(d < c)
  <2>1. d < c => ~Fits(at, i, clusters[d])
    BY <1>1 DEF Grouped
  <2>2. Fits(at, j, clusters[d])
    BY <1>1 DEF Grouped
  <2> QED BY <2>1, <2>2 DEF Fits
<1> QED BY <1>1, <1>2, <1>3, <1>4

\* What a row of a quantity has heard: what each view was read as, and the judge
\* after them, who names one of their figures.
FiguresOf(h) == [i \in Observing(h) |-> Figure(h, i)]
FigureInv(h) ==
  /\ IsSequence(h.replies) /\ Len(h.replies) <= 5
  /\ \A i \in Observing(h) :
       h.replies[i].values = <<Figure(h, i)>> /\ Figure(h, i) \in Nat \ {0}
  /\ Valid(h, 5) => h.clusters # <<>> /\ \E v \in Figures(h) : h.replies[5].values = <<v>>
  /\ Grouped(h.clusters, FiguresOf(h), Observing(h))

LEMMA NothingHeard == FigureInv(NoneHeard)
<1>1. NoneHeard.replies = <<>> /\ NoneHeard.clusters = <<>>
  BY DEF NoneHeard
<1>2. Len(<<>>) = 0 /\ DOMAIN <<>> = {} /\ <<>> \in Seq(SUBSET {})
  OBVIOUS
<1>3. \A i : ~Valid(NoneHeard, i)
  BY <1>1, <1>2 DEF Valid
<1>4. Observing(NoneHeard) = {}
  BY <1>3 DEF Observing
<1> HIDE DEF NoneHeard
<1>5. Grouped(<<>>, FiguresOf(NoneHeard), {})
  BY <1>2 DEF Grouped
<1> QED BY <1>1, <1>2, <1>3, <1>4, <1>5, EmptyIsSequence DEF FigureInv

LEMMA GroupedSame ==
  ASSUME NEW clusters, NEW V, NEW at, NEW bt, Grouped(clusters, at, V),
         \A i \in V : at[i] = bt[i]
  PROVE  Grouped(clusters, bt, V)
<1>1. \A c \in DOMAIN clusters : clusters[c] \subseteq V
  <2>1. clusters \in Seq(SUBSET V)
    BY DEF Grouped
  <2> QED BY <2>1
<1>2. \A i \in V : \A c \in DOMAIN clusters : Fits(at, i, clusters[c]) <=> Fits(bt, i, clusters[c])
  BY <1>1 DEF Fits
<1> QED BY <1>1, <1>2 DEF Grouped

\* g is h and one more reply.
Extends(h, g, reply) ==
  /\ IsSequence(g.replies)
  /\ Len(h.replies) \in Nat /\ Len(g.replies) = Len(h.replies) + 1
  /\ DOMAIN g.replies = 1..(Len(h.replies) + 1) /\ DOMAIN h.replies = 1..Len(h.replies)
  /\ \A i \in 1..Len(h.replies) : /\ g.replies[i] = h.replies[i]
                                  /\ Valid(g, i) <=> Valid(h, i)
                                  /\ Figure(g, i) = Figure(h, i)
  /\ g.replies[Len(h.replies) + 1] = reply

LEMMA OneMoreReply ==
  ASSUME NEW h, IsSequence(h.replies), NEW reply, NEW kind
  PROVE  Extends(h, Hear(h, kind, reply), reply)
<1> DEFINE g == Hear(h, kind, reply)
           n == Len(h.replies)
<1>1. PICK T : h.replies \in Seq(T)
  BY DEF IsSequence
<1>2. g.replies = Append(h.replies, reply)
  BY DEF Hear
<1>3. h.replies \in Seq(T \cup {reply}) /\ reply \in T \cup {reply}
  BY <1>1, SeqMonotonic
<1>4. /\ g.replies \in Seq(T \cup {reply}) /\ n \in Nat
      /\ Len(g.replies) = n + 1 /\ DOMAIN g.replies = 1..(n + 1) /\ DOMAIN h.replies = 1..n
      /\ \A i \in 1..n : g.replies[i] = h.replies[i]
      /\ g.replies[n + 1] = reply
  BY <1>2, <1>3
<1> HIDE DEF g
<1>5. \A i \in 1..n : (Valid(g, i) <=> Valid(h, i)) /\ Figure(g, i) = Figure(h, i)
  BY <1>4 DEF Valid, Figure
<1>6. IsSequence(g.replies)
  BY <1>4 DEF IsSequence
<1>7. Extends(h, g, reply)
  BY <1>4, <1>5, <1>6 DEF Extends
<1> QED BY <1>7 DEF g

\* One more view.
LEMMA FigureHeard ==
  ASSUME NEW h, FigureInv(h), Len(h.replies) < 4, NEW reply,
         reply.status = "VALID" =>
           reply.values = <<reply.values[1]>> /\ reply.values[1] \in Nat \ {0}
  PROVE  FigureInv(Hear(h, "figure", reply))
<1> DEFINE g == Hear(h, "figure", reply)
           n == Len(h.replies)
           i == n + 1
           V == Observing(h)
           at == FiguresOf(g)
<1>1. /\ IsSequence(g.replies) /\ n \in Nat /\ Len(g.replies) = i
      /\ DOMAIN g.replies = 1..i /\ DOMAIN h.replies = 1..n
      /\ \A j \in 1..n : /\ g.replies[j] = h.replies[j]
                         /\ Valid(g, j) <=> Valid(h, j)
                         /\ Figure(g, j) = Figure(h, j)
      /\ g.replies[i] = reply
  BY OneMoreReply DEF FigureInv, Extends
<1>2. n < 4 /\ i \in 1..4
  BY <1>1
<1>3. V = {j \in 1..n : Valid(h, j)}
  <2>1. \A j : Valid(h, j) => j \in 1..n
    BY <1>1 DEF Valid
  <2> QED BY <1>1, <1>2, <2>1, ViewNumbers DEF Observing
<1>4. Observing(g) = {j \in 1..i : Valid(g, j)}
  <2>1. \A j : Valid(g, j) => j \in 1..i
    BY <1>1 DEF Valid
  <2> QED BY <1>1, <1>2, <2>1, ViewNumbers DEF Observing
<1>5. \A j \in V : /\ g.replies[j].values = <<Figure(g, j)>> /\ Figure(g, j) \in Nat \ {0}
                   /\ Figure(g, j) = Figure(h, j) /\ FiguresOf(h)[j] = Figure(g, j)
  BY <1>1, <1>3 DEF FigureInv, FiguresOf
<1>6. Valid(g, i) <=> reply.status = "VALID"
  BY <1>1, <1>2 DEF Valid
<1>7. ~Valid(g, 5)
  BY <1>1, <1>2 DEF Valid
<1>8. Grouped(h.clusters, FiguresOf(h), V)
  BY DEF FigureInv
<1>9. g.clusters = IF reply.status = "VALID" THEN JoinedBy(h, i, reply.values[1]) ELSE h.clusters
  BY DEF Hear
<1> HIDE DEF g, V
<1>10. CASE reply.status # "VALID"
  <2>1. Observing(g) = V
    BY <1>1, <1>3, <1>4, <1>6, <1>10
  <2>2. \A j \in V : FiguresOf(h)[j] = at[j]
    BY <1>5, <2>1 DEF FiguresOf
  <2>3. Grouped(g.clusters, at, Observing(g))
    BY <1>8, <1>9, <1>10, <2>1, <2>2, GroupedSame
  <2> QED BY <1>1, <1>2, <1>5, <1>7, <2>1, <2>3 DEF FigureInv, g
<1>11. CASE reply.status = "VALID"
  <2>1. Observing(g) = V \cup {i} /\ i \notin V
    BY <1>1, <1>3, <1>4, <1>6, <1>11
  <2>2. Figure(g, i) = reply.values[1]
    BY <1>1 DEF Figure
  <2>3. g.replies[i].values = <<Figure(g, i)>> /\ Figure(g, i) \in Nat \ {0}
    BY <1>1, <1>11, <2>2
  <2>4. \A j \in Observing(g) :
          g.replies[j].values = <<Figure(g, j)>> /\ Figure(g, j) \in Nat \ {0}
    BY <1>5, <2>1, <2>3
  <2>5. at \in [V \cup {i} -> Nat \ {0}] /\ \A j \in V \cup {i} : at[j] = Figure(g, j)
    BY <2>1, <2>4 DEF FiguresOf
  <2>6. \A j \in V : FiguresOf(h)[j] = at[j]
    BY <1>5, <2>5
  <2>7. Grouped(h.clusters, at, V)
    BY <1>8, <2>6, GroupedSame
  <2> HIDE DEF at, i
  <2>8. Grouped(GroupsWith(h.clusters, at, i), at, V \cup {i})
    BY <2>1, <2>5, <2>7, GroupedOneMore
  <2>9. GroupsWith(h.clusters, at, i) = JoinedBy(h, i, reply.values[1])
    <3>1. \A c \in DOMAIN h.clusters : h.clusters[c] \subseteq V
      <4>1. h.clusters \in Seq(SUBSET V)
        BY <1>8 DEF Grouped
      <4> QED BY <4>1
    <3>2. \A j \in V : at[j] = Figure(h, j)
      BY <1>5, <2>5
    <3>3. at[i] = reply.values[1]
      BY <2>2, <2>5
    <3>4. \A c \in DOMAIN h.clusters :
            Fits(at, i, h.clusters[c])
            <=> \A j \in h.clusters[c] : Compatible(reply.values[1], Figure(h, j))
      BY <3>1, <3>2, <3>3 DEF Fits
    <3>5. {c \in DOMAIN h.clusters : Fits(at, i, h.clusters[c])}
          = {c \in DOMAIN h.clusters :
               \A j \in h.clusters[c] : Compatible(reply.values[1], Figure(h, j))}
      BY <3>4
    <3> QED BY <3>5 DEF GroupsWith, JoinedBy
  <2>10. Grouped(g.clusters, at, Observing(g))
    BY <1>9, <1>11, <2>1, <2>8, <2>9
  <2> QED BY <1>1, <1>2, <1>7, <2>4, <2>10 DEF FigureInv, at, g, i
<1> QED BY <1>10, <1>11

\* The word of the judge.
LEMMA JudgeHeard ==
  ASSUME NEW h, FigureInv(h), Len(h.replies) = 4, h.clusters # <<>>, NEW reply,
         reply.status = "VALID" => \E v \in Figures(h) : reply.values = <<v>>
  PROVE  FigureInv(Hear(h, "judge", reply))
<1> DEFINE g == Hear(h, "judge", reply)
<1>1. /\ IsSequence(g.replies) /\ Len(g.replies) = 5
      /\ DOMAIN g.replies = 1..5 /\ DOMAIN h.replies = 1..4
      /\ \A j \in 1..4 : /\ g.replies[j] = h.replies[j]
                         /\ Valid(g, j) <=> Valid(h, j)
                         /\ Figure(g, j) = Figure(h, j)
      /\ g.replies[5] = reply
  <2>1. IsSequence(h.replies) /\ Len(h.replies) + 1 = 5
    BY DEF FigureInv
  <2>2. Extends(h, g, reply)
    BY <2>1, OneMoreReply
  <2> HIDE DEF g
  <2> QED BY <2>1, <2>2 DEF Extends
<1>2. g.clusters = h.clusters
  BY DEF Hear
<1> HIDE DEF g
<1>3. Observing(g) = Observing(h) /\ Observing(h) \subseteq 1..4
  BY <1>1, ViewNumbers DEF Observing
<1>4. FiguresOf(g) = FiguresOf(h) /\ Figures(g) = Figures(h)
  BY <1>1, <1>3 DEF FiguresOf, Figures
<1>5. \A j \in Observing(g) :
        g.replies[j].values = <<Figure(g, j)>> /\ Figure(g, j) \in Nat \ {0}
  BY <1>1, <1>3 DEF FigureInv
<1>6. Valid(g, 5) => g.clusters # <<>> /\ \E v \in Figures(g) : g.replies[5].values = <<v>>
  BY <1>1, <1>2, <1>4 DEF Valid
<1>7. Grouped(g.clusters, FiguresOf(g), Observing(g))
  BY <1>2, <1>3, <1>4 DEF FigureInv
<1>8. FigureInv(g)
  BY <1>1, <1>5, <1>6, <1>7 DEF FigureInv
<1> QED BY <1>8 DEF g

\* What is written of a quantity is a figure of its views, and the one that
\* three of them give.
FigureDecided(h, after) ==
  /\ IF Figures(h) = {} THEN after = <<>> ELSE \E v \in Figures(h) : after = <<v>>
  /\ \A v \in Figures(h) :
       Cardinality({i \in Observing(h) : Figure(h, i) = v}) >= 3 => after = <<v>>

\* A sequence without places is empty.
LEMMA NoPlaces ==
  ASSUME NEW T, NEW s \in Seq(T), DOMAIN s = {}
  PROVE  s = <<>>
<1>1. Len(s) \in Nat /\ DOMAIN s = 1..Len(s)
  OBVIOUS
<1>2. Len(s) = 0
  <2>1. Len(s) >= 1 => 1 \in 1..Len(s)
    BY <1>1
  <2> QED BY <1>1, <2>1
<1> QED BY <1>2

LEMMA ResolvedFacts ==
  ASSUME NEW h, FigureInv(h)
  PROVE  FigureDecided(h, ResolvedFigure(h))
<1> DEFINE V == Observing(h)
           C == h.clusters
           D == DOMAIN C
           at == FiguresOf(h)
<1>1. Grouped(C, at, V) /\ V \subseteq 1..4
  BY ViewNumbers DEF FigureInv, Observing
<1>2. /\ C \in Seq(SUBSET V) /\ \A c \in D : C[c] \subseteq V /\ C[c] # {} /\ c \in Nat
      /\ \A i \in V : \E c \in D : i \in C[c]
      /\ \A c, d \in D : c < d => C[c] \cap C[d] = {}
  BY <1>1 DEF Grouped
<1>3. at \in [V -> Nat \ {0}] /\ \A i \in V : at[i] = Figure(h, i)
  BY DEF FigureInv, FiguresOf
<1>4. Valid(h, 1) => 1 \in V /\ Figure(h, 1) \in Figures(h) /\ h.replies[1].values = <<Figure(h, 1)>>
  <2>1. Valid(h, 1) => 1 \in V
    BY ViewNumbers DEF Observing
  <2> QED BY <2>1 DEF FigureInv, Figures
<1>5. CASE V = {}
  <2>1. D = {}
    BY <1>2, <1>5
  <2>2. C = <<>>
    <3>1. C \in Seq(SUBSET V) /\ DOMAIN C = {}
      BY <1>2, <2>1
    <3> HIDE DEF C, V
    <3> QED BY <3>1, NoPlaces
  <2>3. ~Strong(h) /\ ~Valid(h, 5) /\ ~Valid(h, 1)
    BY <1>4, <1>5, <2>1, <2>2 DEF Strong, FigureInv
  <2>4. ResolvedFigure(h) = <<>>
    BY <2>2, <2>3 DEF ResolvedFigure
  <2>5. Figures(h) = {}
    BY <1>5 DEF Figures
  <2> QED BY <2>4, <2>5 DEF FigureDecided
<1>6. CASE V # {}
  <2>1. C # <<>>
    <3>1. D # {}
      BY <1>2, <1>6
    <3> QED BY <3>1
  <2>2. PICK t \in D : TopCluster(h) = C[t] /\ \A d \in D : Cardinality(C[d]) <= Cardinality(C[t])
    BY <1>1, <2>1, TopIsLargest
  <2>3. /\ C[t] \subseteq V /\ C[t] # {} /\ C[t] \subseteq 1..4
        /\ \A i \in C[t] : Figure(h, i) \in Nat \ {0}
    BY <1>1, <1>2, <2>2 DEF FigureInv
  <2>4. /\ \E i \in C[t] : Representative(h) = Figure(h, i)
        /\ \A v : Cardinality({i \in C[t] : Figure(h, i) = v}) >= 3 => Representative(h) = v
    <3> DEFINE c == C[t]
    <3>1. c \subseteq 1..4 /\ c # {} /\ (\A i \in c : Figure(h, i) \in Nat \ {0})
          /\ TopCluster(h) = c /\ c \subseteq Observing(h)
      BY <2>2, <2>3
    <3> HIDE DEF c
    <3>2. Represents(h, c)
      BY <3>1, RepresentativeFacts
    <3> QED BY <3>2 DEF c, Represents
  <2>5. Representative(h) \in Figures(h)
    BY <2>3, <2>4 DEF Figures
  <2>6. Figures(h) # {} /\ \E v \in Figures(h) : ResolvedFigure(h) = <<v>>
    <3>1. CASE Strong(h)
      BY <2>5, <3>1 DEF ResolvedFigure
    <3>2. CASE ~Strong(h) /\ Valid(h, 5)
      BY <3>2 DEF ResolvedFigure, FigureInv
    <3>3. CASE ~Strong(h) /\ ~Valid(h, 5) /\ Valid(h, 1)
      BY <1>4, <3>3 DEF ResolvedFigure
    <3>4. CASE ~Strong(h) /\ ~Valid(h, 5) /\ ~Valid(h, 1)
      BY <2>1, <2>5, <3>4 DEF ResolvedFigure
    <3> QED BY <3>1, <3>2, <3>3, <3>4
  <2>7. ASSUME NEW v \in Figures(h), Cardinality({i \in V : Figure(h, i) = v}) >= 3
        PROVE  ResolvedFigure(h) = <<v>>
    <3> DEFINE S == {i \in V : Figure(h, i) = v}
    <3>1. PICK i \in V : Figure(h, i) = v
      BY DEF Figures
    <3>2. PICK c \in D : i \in C[c]
      BY <1>2, <3>1
    <3>3. \A j \in S : j \in C[c]
      <4> SUFFICES ASSUME NEW j \in S PROVE j \in C[c]
        OBVIOUS
      <4>1. j \in V /\ at[i] = at[j]
        BY <1>3, <3>1
      <4> HIDE DEF at, V
      <4> QED BY <1>1, <1>3, <3>1, <3>2, <4>1, AgreeingTogether
    <3>4. \A d \in D : IsFiniteSet(C[d]) /\ Cardinality(C[d]) \in Nat
      BY <1>1, <1>2, ViewsAreFinite
    <3>5. Cardinality(C[c]) >= 3
      <4>1. IsFiniteSet(S) /\ Cardinality(S) \in Nat /\ S \subseteq C[c]
        BY <1>1, <3>3, ViewsAreFinite
      <4>2. Cardinality(S) <= Cardinality(C[c])
        <5> HIDE DEF S
        <5> QED BY <3>4, <4>1, FS_Subset
      <4> QED BY <2>7, <3>4, <4>1, <4>2
    <3>6. t = c
      <4> SUFFICES ASSUME t # c PROVE FALSE
        OBVIOUS
      <4> DEFINE A == C[t]
                 B == C[c]
      <4>1. A \cap B = {}
        <5>1. t < c \/ c < t
          BY <1>2
        <5>2. (t < c => A \cap B = {}) /\ (c < t => B \cap A = {})
          BY <1>2
        <5> QED BY <5>1, <5>2
      <4>2. IsFiniteSet(A) /\ IsFiniteSet(B) /\ Cardinality(A) \in Nat /\ Cardinality(B) \in Nat
            /\ Cardinality(B) >= 3 /\ Cardinality(A) >= 3
        BY <2>2, <3>4, <3>5
      <4>3. A \cup B \subseteq 1..4
        BY <1>1, <1>2
      <4> HIDE DEF A, B
      <4>4. Cardinality(A \cup B) = Cardinality(A) + Cardinality(B) - Cardinality(A \cap B)
        BY <4>2, FS_Union
      <4>5. Cardinality(A \cap B) = 0
        BY <4>1, FS_EmptySet
      <4>6. 1 \in Int /\ 4 \in Int
        OBVIOUS
      <4>7. IsFiniteSet(1..4) /\ Cardinality(1..4) = IF 1 > 4 THEN 0 ELSE 4 - 1 + 1
        BY <4>6, FS_Interval
      <4>8. Cardinality(A \cup B) <= Cardinality(1..4)
        BY <4>3, <4>7, FS_Subset
      <4> QED BY <4>2, <4>4, <4>5, <4>7, <4>8
    <3>7. {j \in C[c] : Figure(h, j) = v} = S
      BY <1>2, <3>3
    <3>8. Representative(h) = v
      BY <2>4, <2>7, <3>6, <3>7
    <3>9. Strong(h)
      BY <3>5 DEF Strong
    <3> QED BY <3>8, <3>9 DEF ResolvedFigure
  <2> QED BY <2>6, <2>7 DEF FigureDecided
<1> QED BY <1>5, <1>6

-----------------------------------------------------------------------------
(* What the views of an exchange say *)

IsListed(s) == \E n \in Nat : DOMAIN s = 1..n
ExchangeInv(h) ==
  /\ IsSequence(h.replies)
  /\ \A i \in DOMAIN h.replies : Valid(h, i) => IsListed(h.replies[i].values)

LEMMA NoExchangeHeard == ExchangeInv(NoneHeard)
<1>1. NoneHeard.replies = <<>> /\ DOMAIN <<>> = {}
  BY DEF NoneHeard
<1> QED BY <1>1, EmptyIsSequence DEF ExchangeInv

LEMMA ExchangeHeard ==
  ASSUME NEW h, ExchangeInv(h), NEW reply, NEW kind,
         reply.status = "VALID" => IsListed(reply.values)
  PROVE  ExchangeInv(Hear(h, kind, reply))
<1> DEFINE g == Hear(h, kind, reply)
           n == Len(h.replies)
<1>1. Extends(h, g, reply)
  BY OneMoreReply DEF ExchangeInv
<1> HIDE DEF g
<1>2. ASSUME NEW i \in DOMAIN g.replies, Valid(g, i) PROVE IsListed(g.replies[i].values)
  <2>1. i \in 1..n \/ i = n + 1
    BY <1>1 DEF Extends
  <2>2. CASE i \in 1..n
    BY <1>1, <1>2, <2>2 DEF Extends, ExchangeInv
  <2>3. CASE i = n + 1
    BY <1>1, <1>2, <2>3 DEF Extends, Valid
  <2> QED BY <2>1, <2>2, <2>3
<1>3. ExchangeInv(g)
  BY <1>1, <1>2 DEF Extends, ExchangeInv
<1> QED BY <1>3 DEF g

\* The surface that stands for an exchange is one of those it was named by.
LEMMA SurfaceIsOfTheKey ==
  ASSUME NEW h, ExchangeInv(h), NEW key, Naming(h, key) # {}
  PROVE  Canonical[SurfaceOf(h, key)] = key
<1> DEFINE N == Naming(h, key)
           surface == [i \in N |-> SurfaceIn(h, i, key)]
           Used(i) == Cardinality({j \in N : SurfaceIn(h, j, key) = SurfaceIn(h, i, key)})
           less == [i \in N |-> 0 - Used(i)]
           place == [i \in N |-> i]
           Most(i) == \A j \in N : Used(i) > Used(j) \/ (Used(i) = Used(j) /\ i <= j)
<1>1. PICK n \in Nat : DOMAIN h.replies = 1..n
  BY DEF ExchangeInv, IsSequence
<1>2. N \subseteq 1..n /\ IsFiniteSet(N)
  <2>1. IsFiniteSet(1..n) /\ N \subseteq 1..n
    <3>1. 1 \in Int /\ n \in Int
      OBVIOUS
    <3> QED BY <1>1, <3>1, FS_Interval DEF Naming
  <2> QED BY <2>1, FS_Subset
<1>3. \A i \in N : Used(i) \in Nat /\ i \in Int
  <2> SUFFICES ASSUME NEW i \in N PROVE Used(i) \in Nat /\ i \in Int
    OBVIOUS
  <2>1. IsFiniteSet({j \in N : SurfaceIn(h, j, key) = SurfaceIn(h, i, key)})
    <3> HIDE DEF N
    <3> QED BY <1>2, FS_Subset
  <2> QED BY <1>2, <2>1, FS_CardinalityType
<1>4. less \in [N -> Int] /\ place \in [N -> Int]
  <2> HIDE DEF Used, N
  <2> QED BY <1>3
<1>5. PICK i \in N : \A j \in N : AheadByTwo(less, place, i, j)
  <2> HIDE DEF less, place, N
  <2> QED BY <1>2, <1>4, FirstOfTwo, Zenon DEF N
<1>6. Most(i)
  <2> SUFFICES ASSUME NEW j \in N PROVE Used(i) > Used(j) \/ (Used(i) = Used(j) /\ i <= j)
    OBVIOUS
  <2>1. AheadByTwo(less, place, i, j)
    BY <1>5
  <2>2. less[i] = 0 - Used(i) /\ less[j] = 0 - Used(j) /\ place[i] = i /\ place[j] = j
    <3> HIDE DEF Used, N
    <3> QED OBVIOUS
  <2>3. Used(i) \in Nat /\ Used(j) \in Nat
    BY <1>3
  <2> HIDE DEF less, place, Used, N
  <2> QED BY <2>1, <2>2, <2>3 DEF AheadByTwo
<1> DEFINE m == CHOOSE k \in N : Most(k)
<1>7. m \in N
  <2> HIDE DEF Most, N
  <2> QED BY <1>6
<1>8. SurfaceOf(h, key) = SurfaceIn(h, m, key)
  BY DEF SurfaceOf
<1> HIDE DEF m
<1>9. key \in NamedBy(h, m)
  BY <1>7 DEF Naming
<1>10. \E s \in ToSet(h.replies[m].values) : Canonical[s] = key
  BY <1>9 DEF NamedBy
<1>11. Canonical[SurfaceIn(h, m, key)] = key
  BY <1>10 DEF SurfaceIn
<1> QED BY <1>8, <1>11

\* Of the exchanges that were named one is ahead of all others.
LEMMA OneIsAhead ==
  ASSUME NEW h, ExchangeInv(h), Named(h) # {}
  PROVE  \E best \in Named(h) : \A key \in Named(h) : AheadOf(h, best, key)
<1> DEFINE K == Named(h)
           less == [k \in K |-> 0 - SupportOf(h, k)]
           view == [k \in K |-> FirstNamed(h, k)[1]]
           place == [k \in K |-> FirstNamed(h, k)[2]]
<1>1. PICK n \in Nat : DOMAIN h.replies = 1..n
  BY DEF ExchangeInv, IsSequence
<1>2. IsFiniteSet(1..n)
  <2>1. 1 \in Int /\ n \in Int
    OBVIOUS
  <2> QED BY <2>1, FS_Interval
<1>3. ASSUME NEW i \in 1..n, Valid(h, i)
      PROVE  /\ IsFiniteSet(DOMAIN h.replies[i].values) /\ DOMAIN h.replies[i].values \subseteq Int
             /\ NamedBy(h, i) = {Canonical[h.replies[i].values[p]] : p \in DOMAIN h.replies[i].values}
  <2>1. PICK m \in Nat : DOMAIN h.replies[i].values = 1..m
    BY <1>1, <1>3 DEF ExchangeInv, IsListed
  <2>2. 1 \in Int /\ m \in Int
    OBVIOUS
  <2>3. IsFiniteSet(1..m)
    BY <2>2, FS_Interval
  <2>4. NamedBy(h, i) = {Canonical[h.replies[i].values[p]] : p \in DOMAIN h.replies[i].values}
    BY <1>3 DEF NamedBy, ToSet
  <2> QED BY <2>1, <2>3, <2>4
<1>4. \A i \in 1..n : IsFiniteSet(NamedBy(h, i))
  <2> SUFFICES ASSUME NEW i \in 1..n PROVE IsFiniteSet(NamedBy(h, i))
    OBVIOUS
  <2>1. CASE ~Valid(h, i)
    <3>1. NamedBy(h, i) = {}
      BY <2>1 DEF NamedBy
    <3> QED BY <3>1, FS_EmptySet
  <2>2. CASE Valid(h, i)
    <3> DEFINE P == DOMAIN h.replies[i].values
               f == [p \in P |-> Canonical[h.replies[i].values[p]]]
    <3>1. IsFiniteSet(P) /\ DOMAIN f = P /\ NamedBy(h, i) = {f[p] : p \in P}
      BY <1>3, <2>2
    <3> HIDE DEF f, P
    <3> QED BY <3>1, FiniteImage
  <2> QED BY <2>1, <2>2
<1>5. IsFiniteSet(K)
  <2> DEFINE f == [i \in 1..n |-> NamedBy(h, i)]
             G == {f[i] : i \in 1..n}
  <2>1. DOMAIN f = 1..n /\ K = UNION G /\ \A T \in G : IsFiniteSet(T)
    BY <1>1, <1>4 DEF Named
  <2> HIDE DEF f
  <2>2. IsFiniteSet(G)
    BY <1>2, <2>1, FiniteImage
  <2> HIDE DEF G, K
  <2> QED BY <2>1, <2>2, FS_UNION
<1>6. ASSUME NEW k \in K
      PROVE  SupportOf(h, k) \in Nat /\ FirstNamed(h, k)[1] \in Int /\ FirstNamed(h, k)[2] \in Int
  <2> DEFINE N == Naming(h, k)
             i == Min(N)
             P == {p \in DOMAIN h.replies[i].values : Canonical[h.replies[i].values[p]] = k}
  <2>1. N \subseteq 1..n /\ N # {}
    BY <1>1 DEF Naming, Named
  <2>2. IsFiniteSet(N) /\ Cardinality(N) \in Nat
    BY <1>2, <2>1, FS_Subset, FS_CardinalityType
  <2>3. i \in N
    <3>1. N \subseteq Int
      BY <2>1
    <3> HIDE DEF N
    <3> QED BY <2>1, <2>2, <3>1, MaxMinFacts
  <2> HIDE DEF i
  <2>4. i \in 1..n /\ k \in NamedBy(h, i) /\ Valid(h, i)
    BY <2>1, <2>3 DEF Naming, NamedBy
  <2>5. P # {} /\ P \subseteq DOMAIN h.replies[i].values
    BY <1>3, <2>4
  <2>6. IsFiniteSet(P) /\ P \subseteq Int
    <3> HIDE DEF P
    <3> QED BY <1>3, <2>4, <2>5, FS_Subset
  <2>7. Min(P) \in Int
    <3> HIDE DEF P
    <3> QED BY <2>5, <2>6, MaxMinFacts
  <2>8. FirstNamed(h, k) = <<i, Min(P)>>
    BY DEF FirstNamed, i
  <2> HIDE DEF P, N
  <2> QED BY <2>2, <2>4, <2>7, <2>8 DEF SupportOf, N
<1>7. less \in [K -> Int] /\ view \in [K -> Int] /\ place \in [K -> Int]
  <2> HIDE DEF K
  <2> QED BY <1>6
<1>8. PICK best \in K : \A key \in K : AheadByThree(less, view, place, best, key)
  <2> HIDE DEF less, view, place, K
  <2> QED BY <1>5, <1>7, FirstOfThree, Zenon DEF K
<1>9. ASSUME NEW key \in K PROVE AheadOf(h, best, key)
  <2>1. AheadByThree(less, view, place, best, key)
    BY <1>8
  <2>2. /\ less[best] = 0 - SupportOf(h, best) /\ less[key] = 0 - SupportOf(h, key)
        /\ view[best] = FirstNamed(h, best)[1] /\ view[key] = FirstNamed(h, key)[1]
        /\ place[best] = FirstNamed(h, best)[2] /\ place[key] = FirstNamed(h, key)[2]
    <3> HIDE DEF K
    <3> QED OBVIOUS
  <2>3. SupportOf(h, best) \in Nat /\ SupportOf(h, key) \in Nat
    BY <1>6
  <2> HIDE DEF less, view, place, K
  <2> QED BY <2>1, <2>2, <2>3 DEF AheadByThree, AheadOf
<1> QED BY <1>9

\* What is written of an exchange enough views have named.
Rescues(h, support, after) ==
  /\ Len(after) <= 1
  /\ after # <<>> =>
       Cardinality({i \in DOMAIN h.replies : Canonical[after[1]] \in NamedBy(h, i)}) >= support

LEMMA RescueFacts ==
  ASSUME NEW h, ExchangeInv(h), NEW support \in Int
  PROVE  Rescues(h, support, RescuedExchange(h, support))
<1>1. CASE Convincing(h, support) = {}
  BY <1>1 DEF RescuedExchange, Rescues
<1>2. CASE Convincing(h, support) # {}
  <2> DEFINE C == Convincing(h, support)
             K == Named(h)
  <2>1. C = {key \in K : SupportOf(h, key) >= support}
    BY DEF Convincing
  <2>2. \A key \in K : Naming(h, key) # {} /\ SupportOf(h, key) \in Int
    <3> SUFFICES ASSUME NEW key \in K PROVE Naming(h, key) # {} /\ SupportOf(h, key) \in Int
      OBVIOUS
    <3>1. PICK n \in Nat : DOMAIN h.replies = 1..n
      BY DEF ExchangeInv, IsSequence
    <3>2. 1 \in Int /\ n \in Int
      OBVIOUS
    <3>3. IsFiniteSet(1..n) /\ Naming(h, key) \subseteq 1..n
      BY <3>1, <3>2, FS_Interval DEF Naming
    <3>4. IsFiniteSet(Naming(h, key))
      BY <3>3, FS_Subset
    <3>5. SupportOf(h, key) \in Nat
      BY <3>4, FS_CardinalityType DEF SupportOf
    <3>6. Naming(h, key) # {}
      BY DEF Named, Naming
    <3> QED BY <3>5, <3>6
  <2>3. \E best \in C : \A key \in K : AheadOf(h, best, key)
    <3>1. PICK some \in C : TRUE
      BY <1>2
    <3>2. some \in K /\ SupportOf(h, some) >= support
      BY <2>1
    <3>3. PICK best \in K : \A key \in K : AheadOf(h, best, key)
      BY <3>2, OneIsAhead
    <3>4. SupportOf(h, best) >= SupportOf(h, some)
      <4>1. AheadOf(h, best, some)
        BY <3>2, <3>3
      <4> QED BY <2>2, <3>2, <4>1 DEF AheadOf
    <3>5. best \in C
      BY <2>1, <2>2, <3>2, <3>4
    <3> QED BY <3>3, <3>5
  <2> DEFINE b == CHOOSE best \in C : \A key \in K : AheadOf(h, best, key)
  <2>4. b \in C
    BY <2>3
  <2>5. RescuedExchange(h, support) = <<SurfaceOf(h, b)>>
    BY <1>2 DEF RescuedExchange
  <2> HIDE DEF b
  <2>6. b \in K /\ SupportOf(h, b) >= support
    BY <2>1, <2>4
  <2>7. Canonical[SurfaceOf(h, b)] = b
    BY <2>2, <2>6, SurfaceIsOfTheKey
  <2> DEFINE s == SurfaceOf(h, b)
  <2>8. Cardinality({i \in DOMAIN h.replies : Canonical[s] \in NamedBy(h, i)}) >= support
    BY <2>6, <2>7 DEF SupportOf, Naming
  <2> HIDE DEF s
  <2>9. RescuedExchange(h, support) = <<s>>
    BY <2>5 DEF s
  <2>10. Len(<<s>>) = 1 /\ <<s>>[1] = s
    OBVIOUS
  <2> QED BY <2>8, <2>9, <2>10 DEF Rescues
<1> QED BY <1>1, <1>2

-----------------------------------------------------------------------------
(* What the parsers make of a text *)

LEMMA ParsedFigure ==
  ASSUME NEW text \in Texts["figure"], ParseFigure(text).status = "VALID"
  PROVE  /\ ParseFigure(text).values = <<ParseFigure(text).values[1]>>
         /\ ParseFigure(text).values[1] \in Nat \ {0}
<1> DEFINE v == text[1].value
           unknown == Len(text) = 1 /\ text[1].word = "UNKNOWN"
           figure == Len(text) = 1 /\ text[1].word = "VALUE" /\ text[1].value > 0
<1>1. ~(unknown /\ figure)
  OBVIOUS
<1>2. figure
  <2>1. CASE unknown
    <3>1. ParseFigure(text) = Reply("UNKNOWN", <<>>)
      BY <1>1, <2>1 DEF ParseFigure
    <3> QED BY <3>1 DEF Reply
  <2>2. CASE ~unknown /\ ~figure
    <3>1. ParseFigure(text) = Unread
      BY <2>2 DEF ParseFigure
    <3> QED BY <3>1 DEF Reply, Unread
  <2> QED BY <2>1, <2>2
<1>3. ParseFigure(text) = Reply("VALID", <<v>>)
  BY <1>1, <1>2 DEF ParseFigure
<1>4. v \in Int
  <2>1. text \in Seq(ToSet(text))
    BY TextsAreRead
  <2>2. 1 \in DOMAIN text
    BY <1>2, <2>1
  <2> QED BY <2>2, TextsAreRead
<1>5. v \in Nat \ {0}
  BY <1>2, <1>4
<1> HIDE DEF v
<1> QED BY <1>3, <1>5 DEF Reply

\* The n-th of a finite set of numbers is one of them.
LEMMA NthIsOne ==
  ASSUME NEW S, IsFiniteSet(S), S \subseteq Int, NEW n \in 1..Cardinality(S)
  PROVE  NthOf(S, n) \in S
<1> DEFINE R == {p \in S \X S : p[1] < p[2]}
<1>1. \A x, y \in S : <<x, y>> \in R <=> x < y
  OBVIOUS
<1>2. Orders(R, S)
  <2> HIDE DEF R
  <2>1. \A x \in S : x \in Int
    OBVIOUS
  <2> QED BY <1>1, <2>1 DEF Orders
<1> HIDE DEF R
<1>3. \A i \in 1..Cardinality(S) : \E x \in S : Rank(x, R, S) = i - 1
  BY <1>2, Ranking
<1>4. \A x \in S : {y \in S : y < x} = {y \in S : <<y, x>> \in R}
  BY <1>1
<1>5. \E x \in S : Cardinality({y \in S : y < x}) = n - 1
  BY <1>3, <1>4 DEF Rank
<1> QED BY <1>5 DEF NthOf

LEMMA ParsedJudge ==
  ASSUME NEW h, FigureInv(h), NEW text, ParseJudge(text, Figures(h)).status = "VALID"
  PROVE  \E v \in Figures(h) : ParseJudge(text, Figures(h)).values = <<v>>
<1> DEFINE F == Figures(h)
           parsed == ParseJudge(text, F)
           n == text[1].value
<1>1. IsFiniteSet(F) /\ F \subseteq Int /\ Cardinality(F) \in Nat
  <2> DEFINE V == Observing(h)
             f == [i \in V |-> Figure(h, i)]
  <2>1. V \subseteq 1..4
    BY ViewNumbers DEF Observing
  <2>2. IsFiniteSet(V) /\ DOMAIN f = V /\ F = {f[i] : i \in V}
    BY <2>1, ViewsAreFinite DEF Figures
  <2>3. F \subseteq Int
    BY DEF FigureInv, Figures
  <2>4. IsFiniteSet(F)
    <3> HIDE DEF f, V, F
    <3> QED BY <2>2, FiniteImage
  <2> QED BY <2>3, <2>4, FS_CardinalityType
<1> HIDE DEF F
<1>2. n \in 1..Cardinality(F) /\ ~(Len(text) # 1 \/ text[1].word # "LABEL")
  <2>1. CASE Len(text) # 1 \/ text[1].word # "LABEL"
    <3>1. parsed = Unread
      BY <2>1 DEF ParseJudge
    <3> QED BY <3>1 DEF Unread, Reply, F
  <2>2. CASE ~(Len(text) # 1 \/ text[1].word # "LABEL") /\ n \notin 1..Cardinality(F)
    <3>1. parsed = Reply("UNKNOWN", <<>>) \/ parsed = Unread
      BY <2>2 DEF ParseJudge
    <3> QED BY <3>1 DEF Unread, Reply, F
  <2> QED BY <2>1, <2>2
<1>3. n # Cardinality(F) + 1
  BY <1>1, <1>2
<1>4. parsed = Reply("VALID", <<NthOf(F, n)>>)
  BY <1>2, <1>3 DEF ParseJudge
<1>5. NthOf(F, n) \in F
  <2> HIDE DEF n
  <2> QED BY <1>1, <1>2, NthIsOne
<1> QED BY <1>4, <1>5 DEF Reply, F

LEMMA ParsedExchanges ==
  ASSUME NEW text \in Texts["exchanges"], ParseExchanges(text).status = "VALID"
  PROVE  IsListed(ParseExchanges(text).values)
<1> DEFINE unknown == Len(text) = 1 /\ text[1].word = "UNKNOWN"
           names == Len(text) \in 1..3 /\ \A i \in DOMAIN text : text[i].word = "VALUE"
           surfaces == [i \in DOMAIN text |-> text[i].value]
           firsts == {i \in DOMAIN surfaces :
                        /\ Canonical[surfaces[i]] # 0
                        /\ \A j \in 1..(i - 1) : Canonical[surfaces[j]] # Canonical[surfaces[i]]}
<1>1. text \in Seq(ToSet(text))
  BY TextsAreRead
<1>2. ~unknown
  <2> SUFFICES ASSUME unknown PROVE FALSE
    OBVIOUS
  <2>1. 1 \in DOMAIN text
    BY <1>1
  <2>2. ~names
    BY <2>1
  <2>3. ParseExchanges(text) = Reply("UNKNOWN", <<>>)
    BY <2>2 DEF ParseExchanges
  <2> QED BY <2>3 DEF Reply
<1>3. names
  <2> SUFFICES ASSUME ~names PROVE FALSE
    OBVIOUS
  <2>1. ParseExchanges(text) = Unread
    BY <1>2 DEF ParseExchanges
  <2> QED BY <2>1 DEF Unread, Reply
<1>4. ParseExchanges(text) = Reply("VALID", FirstPerKey(surfaces, Canonical))
  BY <1>2, <1>3 DEF ParseExchanges
<1>5. Cardinality(firsts) \in Nat
  <2>1. Len(text) \in Nat /\ DOMAIN surfaces = 1..Len(text) /\ 1 \in Int /\ Len(text) \in Int
    BY <1>1
  <2>2. IsFiniteSet(1..Len(text)) /\ firsts \subseteq 1..Len(text)
    BY <2>1, FS_Interval
  <2> HIDE DEF firsts
  <2> QED BY <2>2, FS_Subset, FS_CardinalityType
<1>6. DOMAIN FirstPerKey(surfaces, Canonical) = 1..Cardinality(firsts)
  BY DEF FirstPerKey
<1> HIDE DEF firsts, surfaces
<1> QED BY <1>4, <1>5, <1>6 DEF Reply, IsListed

-----------------------------------------------------------------------------
(* What a row has heard *)

\* Replies are kept only of the row in refinement, and are what its resolver
\* asked for.
HeardInv ==
  /\ refined \in Nat
  /\ step = "pipeline" => profile \in Profiles
  /\ step = "refine" => profile \in Profiles /\ profile.enabled
  /\ \/ heard = NoneHeard
     \/ /\ Refining
        /\ Multiview(Relation) => FigureInv(heard)
        /\ Relation = Stock => ExchangeInv(heard)

\* What is heard of a row already, also before its first reply.
LEMMA HeardSoFar ==
  ASSUME HeardInv
  PROVE  /\ Multiview(Relation) => FigureInv(heard)
         /\ Relation = Stock => ExchangeInv(heard)
BY NothingHeard, NoExchangeHeard DEF HeardInv

\* A reply, or none, to what the resolver asks.
LEMMA ReplyKeepsHeard ==
  ASSUME HeardInv, Refining, Kind # "none", NEW reply,
         \/ reply = Unread
         \/ \E text \in Texts[Kind] : reply = Parse(Kind, text, heard)
  PROVE  /\ Multiview(Relation) => FigureInv(Hear(heard, Kind, reply))
         /\ Relation = Stock => ExchangeInv(Hear(heard, Kind, reply))
<1>1. Kind = Asks(profile, Relation, Before, heard)
  BY DEF Kind
<1>2. Unread.status # "VALID"
  BY DEF Unread, Reply
<1>3. ASSUME Multiview(Relation) PROVE FigureInv(Hear(heard, Kind, reply))
  <2>1. FigureInv(heard)
    BY <1>3, HeardSoFar
  <2>2. Len(heard.replies) \in Nat
    <3>1. PICK T : heard.replies \in Seq(T)
      BY <2>1 DEF FigureInv, IsSequence
    <3> QED BY <3>1
  <2>3. \/ Kind = "figure" /\ Len(heard.replies) < 4
        \/ Kind = "judge" /\ Len(heard.replies) = 4 /\ NeedsJudge(heard)
    <3>1. Len(Views) = 4
      BY DEF Views
    <3>2. Kind = CASE Len(heard.replies) < Len(Views) -> "figure"
                   [] Len(heard.replies) = Len(Views) /\ NeedsJudge(heard) -> "judge"
                   [] OTHER -> "none"
      BY <1>1, <1>3 DEF Multiview, Asks, Area, Capacity, Death, Stock
    <3> QED BY <2>2, <3>1, <3>2
  <2>4. CASE Kind = "figure" /\ Len(heard.replies) < 4
    <3>1. reply.status = "VALID" =>
            reply.values = <<reply.values[1]>> /\ reply.values[1] \in Nat \ {0}
      BY <1>2, <2>4, ParsedFigure DEF Parse
    <3> QED BY <2>1, <2>4, <3>1, FigureHeard
  <2>5. CASE Kind = "judge" /\ Len(heard.replies) = 4 /\ NeedsJudge(heard)
    <3>1. reply.status = "VALID" => \E v \in Figures(heard) : reply.values = <<v>>
      BY <1>2, <2>1, <2>5, ParsedJudge DEF Parse
    <3> QED BY <2>1, <2>5, <3>1, JudgeHeard DEF NeedsJudge
  <2> QED BY <2>3, <2>4, <2>5
<1>4. ASSUME Relation = Stock PROVE ExchangeInv(Hear(heard, Kind, reply))
  <2>1. ExchangeInv(heard)
    BY <1>4, HeardSoFar
  <2>2. Kind = "exchanges"
    BY <1>1, <1>4 DEF Asks, Area, Capacity, Death, Stock
  <2>3. reply.status = "VALID" => IsListed(reply.values)
    BY <1>2, <2>2, ParsedExchanges DEF Parse
  <2> QED BY <2>1, <2>3, ExchangeHeard
<1> QED BY <1>3, <1>4

LEMMA HeardInit == Init => HeardInv
BY DEF Init, HeardInv

LEMMA HeardStep == HeardInv /\ [Next]_vars => HeardInv'
<1> SUFFICES ASSUME HeardInv, [Next]_vars PROVE HeardInv'
  OBVIOUS
<1>1. \A code : Return(code) => HeardInv'
  BY DEF Return, HeardInv
<1>2. ASSUME UNCHANGED vars PROVE HeardInv'
  BY <1>2 DEF vars, locals, refinement, HeardInv, Refining, Multiview, Relation, Row
<1>3. CASE Start
  <2>1. heard = NoneHeard /\ refined' = refined /\ heard' = heard /\ step' = "pipeline" /\ profile' \in Profiles
    BY <1>3 DEF Start, refinement, HeardInv, Refining
  <2> QED BY <2>1 DEF HeardInv
<1>4. CASE Decided \/ Failed \/ FinishPipeline
  <2>1. step = "pipeline" /\ heard = NoneHeard /\ refined' = refined /\ heard' = heard /\ profile' = profile
    BY <1>4 DEF Decided, Failed, FinishPipeline, Answering, refinement, locals, HeardInv, Refining
  <2>2. step' = "pipeline" \/ (step' = "refine" /\ profile.enabled) \/ step' = "write"
    BY <1>4 DEF Decided, Failed, FinishPipeline, Answering
  <2> QED BY <2>1, <2>2 DEF HeardInv
<1>5. CASE Ask \/ Forgo
  <2>1. PICK reply : /\ heard' = Hear(heard, Kind, reply)
                     /\ \/ reply = Unread
                        \/ \E text \in Texts[Kind] : reply = Parse(Kind, text, heard)
    BY <1>5 DEF Ask, Forgo
  <2>2. /\ Refining /\ Kind # "none"
        /\ UNCHANGED <<step, split, queries, profile, predictions, refined>>
    BY <1>5 DEF Ask, Forgo, locals
  <2>3. /\ Multiview(Relation) => FigureInv(heard')
        /\ Relation = Stock => ExchangeInv(heard')
    BY <2>1, <2>2, ReplyKeepsHeard
  <2>4. Refining' /\ Relation' = Relation /\ (Multiview(Relation))' = Multiview(Relation)
    BY <2>2 DEF Refining, Relation, Row, Multiview
  <2>5. Multiview(Relation)' => FigureInv(heard)'
    BY <2>3, <2>4
  <2>6. (Relation = Stock)' => ExchangeInv(heard)'
    BY <2>3, <2>4
  <2> QED BY <2>2, <2>4, <2>5, <2>6 DEF HeardInv
<1>6. CASE RefineRow
  BY <1>6 DEF RefineRow, HeardInv
<1>7. CASE FinishRefinement \/ OpenPredictions \/ WriteLine \/ Write
  <2>1. heard = NoneHeard /\ refined' = refined /\ heard' = heard /\ step' = "write"
    BY <1>7 DEF FinishRefinement, OpenPredictions, WriteLine, AtPredictions, Write, refinement,
                HeardInv, Refining
  <2> QED BY <2>1 DEF HeardInv
<1>8. CASE Validate \/ WriteArchive
  <2>1. UNCHANGED <<step, split, queries, profile, predictions, errors, refined, heard>>
    BY <1>8 DEF Validate, WriteArchive, locals, refinement
  <2> QED BY <2>1 DEF HeardInv, Refining, Multiview, Relation, Row
<1>9. Aborted \/ Misconfigure \/ Finish \/ Escape => \E code : Return(code)
  BY DEF Aborted, Misconfigure, Finish, Escape
<1> QED BY <1>1, <1>2, <1>3, <1>4, <1>5, <1>6, <1>7, <1>8, <1>9 DEF Next, Progress

ViewsHold == NoFigureIsLost /\ ThreeViewsOutvoteTheJudge /\ RescueNeedsItsViews

\* Only RefineRow resolves a row, and writes what its resolver decided.
LEMMA ResolvingWrites ==
  ASSUME HeardInv, HoleInv, [Next]_vars, Resolves
  PROVE  /\ Refining
         /\ After = Refined(profile, Relation, Before, heard)
<1>1. refined \in Nat /\ refined' = refined + 1 /\ Cap > 0
  BY DEF HeardInv, Resolves
<1>2. refined' # refined /\ refined' # 0
  BY <1>1
<1>3. RefineRow
  <2>1. ~(UNCHANGED refinement) /\ \A code : ~Return(code)
    BY <1>2 DEF refinement, Return
  <2>2. ~Start /\ ~Decided /\ ~Failed /\ ~FinishPipeline /\ ~FinishRefinement
    BY <2>1 DEF Start, Decided, Failed, FinishPipeline, FinishRefinement
  <2>5. ~OpenPredictions /\ ~WriteLine /\ ~Write /\ ~Validate /\ ~WriteArchive
    BY <2>1 DEF OpenPredictions, WriteLine, Write, Validate, WriteArchive
  <2>3. ~Aborted /\ ~Misconfigure /\ ~Finish /\ ~Escape
    BY <2>1 DEF Aborted, Misconfigure, Finish, Escape
  <2>4. ~Ask /\ ~Forgo /\ ~(UNCHANGED vars)
    BY <1>2 DEF Ask, Forgo, vars, refinement
  <2> QED BY <2>2, <2>3, <2>4, <2>5 DEF Next, Progress
<1> DEFINE after == Refined(profile, Relation, Before, heard)
<1>4. Refining /\ predictions' = [predictions EXCEPT ![Row].objects = after]
  BY <1>1, <1>3 DEF RefineRow
<1>5. Row \in DOMAIN predictions
  <2>1. PICK S : predictions \in Seq(S)
    BY DEF HoleInv, IsSequence
  <2>2. refined < Len(predictions)
    BY <1>4 DEF Refining
  <2> QED BY <1>1, <2>1, <2>2 DEF Row
<1>6. predictions[Row] = [objects |-> predictions[Row].objects, failed |-> predictions[Row].failed]
  BY <1>5 DEF HoleInv, IsPrediction
<1> HIDE DEF after
<1>7. predictions'[Row].objects = after
  BY <1>4, <1>5, <1>6
<1> QED BY <1>4, <1>7 DEF after, After

LEMMA ViewsStep == HeardInv /\ HoleInv /\ [Next]_vars => [Resolves => ViewsHold]_vars
<1> SUFFICES ASSUME HeardInv, HoleInv, [Next]_vars, Resolves PROVE ViewsHold
  OBVIOUS
<1>1. Refining /\ After = Refined(profile, Relation, Before, heard)
  BY ResolvingWrites
<1>2. profile \in Profiles /\ profile.enabled /\ profile.support \in Int
  BY <1>1, SupportIsANumber DEF HeardInv, Refining
<1>3. ASSUME Multiview(Relation) PROVE FigureDecided(heard, After)
  <2>1. Refined(profile, Relation, Before, heard) = ResolvedFigure(heard)
    BY <1>3 DEF Multiview, Refined, Area, Capacity, Death, Stock, Award
  <2> QED BY <1>1, <1>3, <2>1, HeardSoFar, ResolvedFacts
<1>4. NoFigureIsLost /\ ThreeViewsOutvoteTheJudge
  BY <1>3 DEF FigureDecided, NoFigureIsLost, ThreeViewsOutvoteTheJudge
<1>5. RescueNeedsItsViews
  <2> SUFFICES ASSUME Relation = Stock, profile.stock = "EMPTY_ONLY"
               PROVE  IF Before # <<>> THEN After = Before
                      ELSE Rescues(heard, profile.support, After)
    BY DEF RescueNeedsItsViews, Rescues
  <2>1. Refined(profile, Relation, Before, heard)
        = IF Before # <<>> THEN Before ELSE RescuedExchange(heard, profile.support)
    BY DEF Refined, Area, Capacity, Death, Stock, Award
  <2> QED BY <1>1, <1>2, <2>1, HeardSoFar, RescueFacts
<1> QED BY <1>4, <1>5 DEF ViewsHold

\* Whenever a row is resolved, its views decide: no order in which they came,
\* no word of the judge and no row that ran out of calls loses a figure,
\* outvotes three views, or fills a row that too few views could name
\* (RelationRefinementStack.apply, decide_area_multiview, refine_capacity,
\* decide_stock_empty_rescue).
THEOREM ViewsAlwaysDecide == Spec => ViewsDecide
<1>1. HeardInv /\ HoleInv /\ [Next]_vars => [Resolves => ViewsHold]_vars
  BY ViewsStep
<1>2. [Resolves => ViewsHold]_vars
      <=> [Resolves => NoFigureIsLost /\ ThreeViewsOutvoteTheJudge /\ RescueNeedsItsViews]_vars
  BY DEF ViewsHold
<1> QED BY <1>1, <1>2, HeardInit, HeardStep, HoleInit, HoleStep, PTL DEF Spec, ViewsDecide

=============================================================================
