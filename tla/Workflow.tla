------------------------------ MODULE Workflow ------------------------------
(***************************************************************************)
(* The commands of cli/app.py one after the other over the same artifact   *)
(* files: generate and generate-baseline write a batch and its record,     *)
(* compose appends enhancement packs, run-suite and cases run execute what *)
(* is on disk, report compare summarises. Every file write may fail, and a *)
(* command may be killed between any two.                                  *)
(*                                                                         *)
(* Every artifact has one path, so that a command with --overwrite, or one *)
(* of the other generator, meets what an earlier one left. A command that  *)
(* exits before its first write changes nothing and is no step.            *)
(***************************************************************************)
EXTENDS SuiteComposition

CONSTANTS
  Replies,       \* what the model provider may reply
  Adaptations,   \* outcomes of the baseline generator: a record and a batch
  Packs,         \* sequences of enhancement packs the user may compose with
  MaxCommands    \* bound: commands that start to write

ASSUME CommandsAssumption == MaxCommands \in Nat

\* The model may say anything; what decodes as a batch is an array of cases.
ASSUME RepliesAssumption == \A reply \in Replies : AreCases(ProviderGenerate(reply).text.cases)

\* What the adapter yields: cases that were validated one by one, counted.
ASSUME AdaptationsAssumption ==
  \A adaptation \in Adaptations :
    /\ adaptation.record.kind = "AdaptationRecord"
    /\ AreCases(adaptation.batch)
    /\ adaptation.batch # <<>> => LoadsAsBatch(adaptation.batch)
    /\ \A i \in DOMAIN adaptation.batch : adaptation.batch[i].valid
    /\ adaptation.record.admission.admitted = Len(adaptation.batch)

\* Packs are read from files the user wrote: any arrays of cases.
ASSUME PacksAssumption ==
  \A packs \in Packs :
    /\ packs \in Seq({packs[p] : p \in DOMAIN packs})
    /\ \A p \in DOMAIN packs : AreCases(packs[p].cases)

VARIABLES
  files,     \* path -> the command that wrote the file, the generation attempt it goes
             \* back to, whether it is whole, and what it holds
  started,   \* commands that started to write
  forced,    \* the latest of them that was given --overwrite, or 0
  pending,   \* <<path, content>> still to be written by the command under way
  command,   \* the latest command: its name, the attempt it works on, how it will exit
  exit       \* "running", or how it did exit

vars == <<files, started, forced, pending, command, exit>>

Paths == {"raw", "record", "cases", "composedCases", "composition",
          "evaluation", "comparison", "markdown", "result"}

Nothing == [nothing |-> TRUE]
Absent == [by |-> 0, attempt |-> 0, whole |-> FALSE, content |-> Nothing]
Exists(path) == files[path].by # 0
Reads(path) == files[path].whole
Content(path) == files[path].content

TypeOK ==
  /\ DOMAIN files = Paths
  /\ \A path \in Paths : files[path].by \in 0..started /\ files[path].whole \in BOOLEAN
  /\ started \in 0..MaxCommands
  /\ forced \in 0..started
  /\ \A i \in DOMAIN pending : pending[i][1] \in Paths
  /\ command.exits \in {"none", "ok", "failed"} /\ exit \in {"none", "running", "ok", "failed"}

Init ==
  /\ files = [path \in Paths |-> Absent]
  /\ started = 0 /\ forced = 0 /\ pending = <<>>
  /\ command = [name |-> "none", attempt |-> 0, exits |-> "none"] /\ exit = "none"

----------------------------------------------------------------------------
(* Preflights and loading *)

\* Mutant: the outputs are refused only when all of them are there.
MayWrite_SomeMissing(outputs, overwrite) == overwrite \/ \E path \in outputs : ~Exists(path)

\* Artifacts that exist are refused; each command looks for all of its own.
MayWrite(outputs, overwrite) == overwrite \/ \A path \in outputs : ~Exists(path)

PrepareGenerationOutputs(overwrite) == MayWrite({"cases", "record", "raw"}, overwrite)
PrepareBaselineOutputs(overwrite) == MayWrite({"cases", "record"}, overwrite)
PrepareCompositionOutputs(overwrite) == MayWrite({"composedCases", "composition"}, overwrite)
PrepareBenchmarkOutput(overwrite) == MayWrite({"evaluation"}, overwrite)
PrepareComparisonOutputs(overwrite) == MayWrite({"comparison", "markdown"}, overwrite)

\* load_test_case_batch
LoadsBatch(path) == Reads(path) /\ LoadsAsBatch(Content(path))

\* _load_validated_case_inputs
LoadsValidBatch(path) ==
  LoadsBatch(path) /\ \A i \in DOMAIN Content(path) : Content(path)[i].valid

\* _source_metrics
SourceIsUsable(record) ==
  /\ record.kind = "GenerationRecord" => record.status = "succeeded" /\ record.admission # NoAdmission
  /\ record.admission.admitted > 0

\* validate_source_record_case_count and validate_composed_suite_case_counts:
\* the source record is held against numbers of cases, it has no digest of them.
CountsAgree(record, cases, compositions) ==
  /\ compositions = {} => record.admission.admitted = Len(cases)
  /\ \A composition \in compositions :
       /\ record.admission.admitted = composition.base.count
       /\ Len(cases) = composition.composed.count

\* run_evaluated_suite: a composed suite runs only the batch that was composed.
DigestAgrees(cases, composition) == BatchMetadata(cases).sha256 = composition.composed.sha256

(***************************************************************************)
(* What run-suite checks of its files before its first request, for the    *)
(* batch at path, with a composition record or without.                    *)
(***************************************************************************)
SuiteAccepts(path, composed) ==
  LET compositions == IF composed THEN {Content("composition")} ELSE {}
  IN /\ LoadsValidBatch(path)
     /\ Reads("record") /\ SourceIsUsable(Content("record"))
     /\ composed => Reads("composition") /\ CompositionRecordIsValid(Content("composition"))
     /\ CountsAgree(Content("record"), Content(path), compositions)
     /\ \A composition \in compositions : DigestAgrees(Content(path), composition)

----------------------------------------------------------------------------
(* Commands up to their first write *)

Start(name, overwrite, attempt, writes, exits) ==
  /\ pending = <<>> /\ started < MaxCommands
  /\ started' = started + 1
  /\ forced' = IF overwrite THEN started' ELSE forced
  /\ pending' = writes
  /\ command' = [name |-> name, attempt |-> attempt, exits |-> exits] /\ exit' = "running"
  /\ UNCHANGED files

\* Mutant: the record is written before the provider's text.
GenerationWrites_RecordFirst(attempt) ==
  LET record == <<"record", GenerationRecord(attempt)>>
  IN IF ~attempt.answered THEN <<record>>
     ELSE IF attempt.batch = <<>> THEN <<record, <<"raw", Nothing>>>>
     ELSE <<record, <<"raw", Nothing>>, <<"cases", attempt.batch>>>>

\* The text (which no command reads) if there is one, the record, the batch if there is one.
GenerationWrites(attempt) ==
  LET record == <<"record", GenerationRecord(attempt)>>
  IN IF ~attempt.answered THEN <<record>>
     ELSE IF attempt.batch = <<>> THEN <<<<"raw", Nothing>>, record>>
     ELSE <<<<"raw", Nothing>>, record, <<"cases", attempt.batch>>>>

Generate(overwrite) ==
  \E reply \in Replies :
    LET attempt == GenerateCases(reply)
    IN /\ PrepareGenerationOutputs(overwrite)
       /\ Start("generate", overwrite, started + 1, GenerationWrites(attempt),
                IF attempt.batch # <<>> THEN "ok" ELSE "failed")

GenerateBaseline(overwrite) ==
  \E adaptation \in Adaptations :
    /\ PrepareBaselineOutputs(overwrite)
    /\ Start("generate-baseline", overwrite, started + 1,
             IF adaptation.batch = <<>> THEN <<<<"record", adaptation.record>>>>
             ELSE <<<<"record", adaptation.record>>, <<"cases", adaptation.batch>>>>,
             IF adaptation.batch # <<>> THEN "ok" ELSE "failed")

\* Mutant: only the record is looked for.
Compose_RecordOnly(overwrite) ==
  \E packs \in Packs :
    /\ MayWrite({"composition"}, overwrite)
    /\ LoadsBatch("cases") /\ \A p \in DOMAIN packs : LoadsAsBatch(packs[p].cases)
    /\ ~CompositionFails(Content("cases"), packs)
    /\ Start("compose", overwrite, files["cases"].attempt,
             <<<<"composedCases", ComposedCases(Content("cases"), packs)>>,
               <<"composition", CompositionRecord(Content("cases"), packs)>>>>, "ok")

Compose(overwrite) ==
  \E packs \in Packs :
    /\ PrepareCompositionOutputs(overwrite)
    /\ LoadsBatch("cases") /\ \A p \in DOMAIN packs : LoadsAsBatch(packs[p].cases)
    /\ ~CompositionFails(Content("cases"), packs)
    /\ Start("compose", overwrite, files["cases"].attempt,
             <<<<"composedCases", ComposedCases(Content("cases"), packs)>>,
               <<"composition", CompositionRecord(Content("cases"), packs)>>>>, "ok")

\* The evaluation remembers which commands made what it was computed from.
RunSuite(overwrite) ==
  \E path \in {"cases", "composedCases"}, composed \in BOOLEAN :
    /\ SuiteAccepts(path, composed)
    /\ PrepareBenchmarkOutput(overwrite)
    /\ LET inputs == {"record", path} \cup IF composed THEN {"composition"} ELSE {}
       IN Start("run-suite", overwrite, files["record"].attempt,
                <<<<"evaluation", [attempts |-> {files[input].attempt : input \in inputs},
                                   batches |-> {files[input].by : input \in inputs \ {"record"}}]>>>>, "ok")

\* cases run: its output is never looked for. The outcome of the run decides
\* its exit after the write, and no other command depends on it.
RunCases ==
  \E path \in {"cases", "composedCases"} :
    /\ LoadsValidBatch(path)
    /\ Start("cases-run", FALSE, files[path].attempt, <<<<"result", Nothing>>>>, "ok")

\* report compare, of this evaluation and one of another suite.
ReportCompare(overwrite) ==
  /\ Reads("evaluation")
  /\ PrepareComparisonOutputs(overwrite)
  /\ Start("report-compare", overwrite, 0, <<<<"comparison", Nothing>>, <<"markdown", Nothing>>>>, "ok")

----------------------------------------------------------------------------
(* Writing *)

\* Path.write_text of the next artifact.
WriteNext ==
  /\ pending # <<>>
  /\ files' = [files EXCEPT ![pending[1][1]] =
                 [by |-> started, attempt |-> command.attempt, whole |-> TRUE, content |-> pending[1][2]]]
  /\ pending' = Tail(pending)
  /\ exit' = IF Len(pending) = 1 THEN command.exits ELSE exit
  /\ UNCHANGED <<started, forced, command>>

\* OSError, or a kill: before the file is opened or after it was truncated.
WriteFails ==
  /\ pending # <<>>
  /\ \/ UNCHANGED files
     \/ files' = [files EXCEPT ![pending[1][1]] =
                     [by |-> started, attempt |-> command.attempt, whole |-> FALSE, content |-> Nothing]]
  /\ pending' = <<>>
  /\ exit' = "failed"
  /\ UNCHANGED <<started, forced, command>>

Next ==
  \/ \E overwrite \in BOOLEAN :
       \/ Generate(overwrite) \/ GenerateBaseline(overwrite) \/ Compose(overwrite)
       \/ RunSuite(overwrite) \/ ReportCompare(overwrite)
  \/ RunCases
  \/ WriteNext
  \/ WriteFails

Spec == Init /\ [][Next]_vars

----------------------------------------------------------------------------
(* Properties *)

(***************************************************************************)
(* SuccessIsRunnable: what generate, generate-baseline or compose wrote    *)
(* when it exited with success passes every check of these files that      *)
(* run-suite makes before its first request: loading, semantics, a usable  *)
(* source record, the case counts and, for a composed suite, the           *)
(* composition record and the digest of the batch. For compose: with packs *)
(* that are valid, and while the record on disk is that of the native      *)
(* batch. Relates the checks of admission, of the Schemathesis adapter and *)
(* of the composer to those of the loader, the validator and run-suite.    *)
(***************************************************************************)
SuccessIsRunnable ==
  exit = "ok" =>
    /\ command.name \in {"generate", "generate-baseline"} => SuiteAccepts("cases", FALSE)
    /\ /\ command.name = "compose"
       /\ files["record"].by = files["cases"].by
       /\ \A i \in DOMAIN Content("composedCases") : Content("composedCases")[i].valid
       => SuiteAccepts("composedCases", TRUE)

(***************************************************************************)
(* LineageWithoutOverwrite: an evaluation joins a record and a batch of    *)
(* the same attempt (through the composition made of that batch), unless   *)
(* an --overwrite command came in after the oldest of the attempts that    *)
(* went into it. run-suite has a digest for the composed batch alone: the  *)
(* source record and the native batch are compared by numbers of cases. So *)
(* this rests on the commands' refusal to write over what is there and on  *)
(* the order of their writes.                                              *)
(***************************************************************************)
SameLineage(evaluation) ==
  Cardinality(evaluation.attempts) = 1 /\ Cardinality(evaluation.batches) = 1

LineageWithoutOverwrite ==
  Reads("evaluation") =>
    LET evaluation == Content("evaluation")
    IN forced <= Min(evaluation.attempts) => SameLineage(evaluation)

(***************************************************************************)
(* AnswersAreKept: a record that reports an answer has the text of its own *)
(* attempt beside it, a batch its record, a composition record its batch,  *)
(* each whole, unless a later command wrote over it: whatever write failed *)
(* and wherever a command was killed, nothing on disk lacks what it was    *)
(* made from.                                                              *)
(***************************************************************************)
KeptBeside(path, source) ==
  Reads(path) =>
    \/ files[source].by > files[path].by
    \/ files[source].by = files[path].by /\ files[source].whole

AnswersAreKept ==
  /\ (Reads("record") /\ Content("record").kind = "GenerationRecord" /\ Content("record").answered)
       => KeptBeside("record", "raw")
  /\ KeptBeside("cases", "record")
  /\ KeptBeside("composition", "composedCases")

(***************************************************************************)
(* OutputsPreserved: without --overwrite a command changes no file of an   *)
(* earlier one, except the result of cases run.                            *)
(***************************************************************************)
OutputsPreserved ==
  [][\A path \in Paths \ {"result"} :
       files'[path] # files[path] =>
         files[path].by \in {0, started} \/ forced = started]_vars
=============================================================================
