------------------------- MODULE BenchmarkPipeline -------------------------
(***************************************************************************)
(* evaluation/benchmark_pipeline.py and suite_pipeline.py: one `oate       *)
(* benchmark run --config` after the other over the same directories. An   *)
(* invocation validates its configuration and every frozen input, looks    *)
(* for existing artifacts, runs and evaluates each suite repetition,       *)
(* writes its artifacts file by file, and at the end compares everything   *)
(* and writes the report. It may fail at every step and be killed between  *)
(* any two; the files stay.                                                *)
(*                                                                         *)
(* Running a suite is one action here; FaultSuite models what happens      *)
(* inside it. Measured values are left out: a file is known by the         *)
(* invocation that wrote it.                                               *)
(***************************************************************************)
EXTENDS Integers, Sequences, FiniteSets, Functions

CONSTANTS
  Config,          \* the configurations a user may give
  Suite, Repetition, Fault,
  MaxInvocations   \* bound on the invocations

(***************************************************************************)
(* A configuration: suite ids, repetitions and fault ids in their order,   *)
(* the arm and the frozen input of each suite and repetition, and whether  *)
(* its output paths are distinct and apart from its inputs. All            *)
(* configurations write below the same output directory and to the same    *)
(* report. The last conjunct keeps fault ids apart from the names this     *)
(* module gives the two other artifacts; in the code they have a directory *)
(* of their own.                                                           *)
(***************************************************************************)
ASSUME ConfigAssumption ==
  /\ \A c \in Config : /\ c.suites \in Seq(Suite)
                       /\ c.repetitions \in Seq(Repetition)
                       /\ c.faults \in Seq(Fault)
                       /\ \A s \in Suite : /\ DOMAIN c.inputs[s] \subseteq Repetition
                                            /\ \A n \in DOMAIN c.inputs[s] :
                                                 c.inputs[s][n].admitted \in Nat
  /\ Repetition \subseteq Nat \ {0}
  /\ MaxInvocations \in Nat
  /\ Fault \cap {"clean", "evaluation"} = {}

\* What a frozen input has for a composition record when it has none.
NoComposition == [base |-> 0, extra |-> 0, pack |-> "none", matches |-> TRUE]

VARIABLES
  invocations,   \* the invocations so far, the running one last
  stage,         \* where the running invocation is; "idle": none runs
  run,           \* the suite repetition being run
  next,          \* the next file to write
  done,          \* suite repetitions evaluated by this invocation
  files,         \* the artifacts on disk
  directories,   \* suite repetitions whose output directory exists
  outcome        \* how the last invocation ended, or "running"

vars == <<invocations, stage, run, next, done, files, directories, outcome>>
disk == <<files, directories>>

Report == <<"report", 0>>
Run == Suite \X Repetition
Path == (Run \X (Fault \cup {"clean", "evaluation"}))
        \cup ({Report} \X {"json", "markdown"})

Absent == [by |-> 0, whole |-> FALSE]
Content == [by : 0..MaxInvocations, whole : BOOLEAN]

Me == Len(invocations)
Conf == invocations[Me].config
Overwrite == invocations[Me].overwrite

----------------------------------------------------------------------------
(* Configuration and frozen inputs. *)

RunsOf(c) == {r \in Run : r[1] \in Range(c.suites) /\ r[2] \in DOMAIN c.inputs[r[1]]}
Input(c, r) == c.inputs[r[1]][r[2]]
Composed(input) == input.composition # NoComposition

Unique(s) == \A i, j \in DOMAIN s : s[i] = s[j] => i = j

\* BenchmarkSuiteConfig.validate_inputs
ValidArm(arm, inputs) ==
  \A n \in DOMAIN inputs : (arm = "enhanced") = Composed(inputs[n])

\* Mutant: the suites' repetitions are not held against the matrix.
ValidConfig_NoMatrix(c) ==
  /\ Len(c.suites) >= 2 /\ Unique(c.suites)
  /\ c.repetitions # <<>>
  /\ \A i, j \in DOMAIN c.repetitions : i < j => c.repetitions[i] < c.repetitions[j]
  /\ c.faults # <<>> /\ Unique(c.faults)
  /\ \A s \in Range(c.suites) : ValidArm(c.arm[s], c.inputs[s])

\* BenchmarkConfig.validate_matrix
ValidConfig(c) ==
  /\ Len(c.suites) >= 2 /\ Unique(c.suites)
  /\ c.repetitions # <<>>
  /\ \A i, j \in DOMAIN c.repetitions : i < j => c.repetitions[i] < c.repetitions[j]
  /\ c.faults # <<>> /\ Unique(c.faults)
  /\ \A s \in Range(c.suites) : /\ DOMAIN c.inputs[s] = Range(c.repetitions)
                                /\ ValidArm(c.arm[s], c.inputs[s])

\* Mutant: the composed batch is not counted.
CountsMatch_BaseOnly(input) ==
  IF Composed(input) THEN input.admitted = input.composition.base
  ELSE input.admitted = input.cases

\* validate_source_record_case_count, validate_composed_suite_case_counts
CountsMatch(input) ==
  IF Composed(input)
  THEN /\ input.admitted = input.composition.base
       /\ input.cases = input.composition.base + input.composition.extra
  ELSE input.admitted = input.cases

\* What _prepare_runs asks of one input: it loads and its cases are valid, the
\* records describe it, and its price applies to the model.
InputOk(input) ==
  /\ input.loads
  /\ input.admitted > 0
  /\ CountsMatch(input)
  /\ input.composition.matches
  /\ input.priced # "other_model"

\* The counts evaluate_suite_execution and EvaluationResult ask of a suite whose
\* clean run has a result for each case.
EvaluationAccepts(input) ==
  /\ input.admitted > 0
  /\ Composed(input) => input.composition.base = input.admitted
  /\ input.cases = input.admitted + input.composition.extra

\* compare_evaluations: suites paired over the same repetitions ...
Paired(runs) ==
  LET suites == {r[1] : r \in runs}
      RepetitionsOf(s) == {r[2] : r \in {q \in runs : q[1] = s}}
  IN  /\ Cardinality(suites) >= 2
      /\ \A s, t \in suites : RepetitionsOf(s) = RepetitionsOf(t)

\* ... and one generator and enhancement per suite.
SameIdentity(c, runs) ==
  \A q, r \in runs : q[1] = r[1] =>
    /\ Input(c, q).generator = Input(c, r).generator
    /\ Input(c, q).composition.pack = Input(c, r).composition.pack
    /\ Input(c, q).composition.extra = Input(c, r).composition.extra

----------------------------------------------------------------------------
(* Artifacts of one invocation, in the order they are written. *)

\* Mutant: the evaluation first, the clean run last.
Document_EvaluationFirst(c, n) ==
  IF n = 1 THEN "evaluation" ELSE IF n = Len(c.faults) + 2 THEN "clean" ELSE c.faults[n - 1]

Document(c, n) ==
  IF n = 1 THEN "clean" ELSE IF n = Len(c.faults) + 2 THEN "evaluation" ELSE c.faults[n - 1]

ReportDocument(n) == IF n = 1 THEN "json" ELSE "markdown"

Target == IF stage \in {"open", "fill"} THEN <<run, Document(Conf, next)>>
          ELSE <<Report, ReportDocument(next)>>

SuitePaths(c, r) == {<<r, Document(c, n)>> : n \in 1..(Len(c.faults) + 2)}
ReportPaths == {Report} \X {"json", "markdown"}
PathsOf(c) == (UNION {SuitePaths(c, r) : r \in RunsOf(c)}) \cup ReportPaths

Exists(p) == files[p].by # 0

\* Suites in their order, the repetitions of a suite in ascending order.
Earlier(c, q, r) ==
  \/ q[1] = r[1] /\ q[2] < r[2]
  \/ \E i, j \in DOMAIN c.suites : i < j /\ c.suites[i] = q[1] /\ c.suites[j] = r[1]

Pending == RunsOf(Conf) \ done

----------------------------------------------------------------------------
Init ==
  /\ invocations = <<>>
  /\ stage = "idle"
  /\ run = Report
  /\ next = 1
  /\ done = {}
  /\ files = [p \in Path |-> Absent]
  /\ directories = {}
  /\ outcome = "completed"

\* The invocation ends. Nothing it wrote is taken back.
End(result) ==
  /\ stage' = "idle"
  /\ outcome' = result
  /\ run' = Report /\ next' = 1 /\ done' = {}
  /\ UNCHANGED invocations

Proceed(to) ==
  /\ stage' = to
  /\ UNCHANGED <<invocations, run, next, done, outcome>>

\* oate benchmark run --config c [--overwrite]
Start(c, overwrite) ==
  /\ stage = "idle"
  /\ Me < MaxInvocations
  /\ invocations' = Append(invocations, [config |-> c, overwrite |-> overwrite])
  /\ stage' = "load"
  /\ outcome' = "running"
  /\ UNCHANGED <<run, next, done, disk>>

\* load_benchmark_config
LoadConfig ==
  /\ stage = "load"
  /\ IF ValidConfig(Conf) THEN Proceed("inputs") ELSE End("config")
  /\ UNCHANGED disk

\* _prepare_runs: every input, before any traffic.
PrepareRuns ==
  /\ stage = "inputs"
  /\ IF \A r \in RunsOf(Conf) : InputOk(Input(Conf, r))
     THEN Proceed("outputs") ELSE End("suite-input")
  /\ UNCHANGED disk

\* Mutant: only the output directories are looked for.
PrepareOutputs_DirectoriesOnly ==
  /\ stage = "outputs"
  /\ IF Conf.disjoint /\ (RunsOf(Conf) \cap directories = {} \/ Overwrite)
     THEN Proceed("run") ELSE End("artifacts")
  /\ UNCHANGED disk

\* _prepare_outputs
PrepareOutputs ==
  /\ stage = "outputs"
  /\ IF /\ Conf.disjoint
        /\ \/ RunsOf(Conf) \cap directories = {} /\ \A p \in ReportPaths : ~Exists(p)
           \/ Overwrite
     THEN Proceed("run") ELSE End("artifacts")
  /\ UNCHANGED disk

\* Mutant: a suite repetition that is done comes again.
RunSuite_Again(r) ==
  /\ stage = "run"
  /\ r \in RunsOf(Conf) /\ \A q \in Pending : ~Earlier(Conf, q, r)
  /\ UNCHANGED disk
  /\ run' = r
  /\ stage' = "check"
  /\ UNCHANGED <<invocations, next, done, outcome>>

\* run_evaluated_suite for the next suite repetition. It raises when the
\* runner does (services, evidence) or the evaluation refuses the counts.
RunSuite(r) ==
  /\ stage = "run"
  /\ r \in Pending /\ \A q \in Pending : ~Earlier(Conf, q, r)
  /\ UNCHANGED disk
  /\ \/ IF EvaluationAccepts(Input(Conf, r))
        THEN /\ run' = r
             /\ stage' = "check"
             /\ UNCHANGED <<invocations, next, done, outcome>>
        ELSE End("counts")
     \/ End("suite-execution")

\* write_evaluated_suite_artifacts looks for existing files again.
CheckArtifacts ==
  /\ stage = "check"
  /\ IF (\A p \in SuitePaths(Conf, run) : ~Exists(p)) \/ Overwrite
     THEN Proceed("mkdir") ELSE End("suite-execution")
  /\ UNCHANGED disk

\* All parent directories come first.
MakeDirectories ==
  /\ stage = "mkdir"
  /\ directories' = directories \cup {run}
  /\ Proceed("open")
  /\ UNCHANGED files

\* write_text truncates the file ...
OpenFile ==
  /\ stage \in {"open", "open_report"}
  /\ files' = [files EXCEPT ![Target] = [by |-> Me, whole |-> FALSE]]
  /\ Proceed(IF stage = "open" THEN "fill" ELSE "fill_report")
  /\ UNCHANGED directories

\* ... and writes it. After the last file the suite is done.
FillFile ==
  /\ stage = "fill"
  /\ files' = [files EXCEPT ![Target] = [by |-> Me, whole |-> TRUE]]
  /\ IF next = Len(Conf.faults) + 2
     THEN /\ stage' = "run"
          /\ done' = done \cup {run}
          /\ run' = Report /\ next' = 1
     ELSE /\ stage' = "open"
          /\ next' = next + 1
          /\ UNCHANGED <<run, done>>
  /\ UNCHANGED <<invocations, outcome, directories>>

\* compare_evaluations, once every suite repetition is evaluated.
Compare ==
  /\ stage = "run" /\ Pending = {}
  /\ IF ~Paired(done) THEN End("pairing")
     ELSE IF SameIdentity(Conf, done) THEN Proceed("open_report") ELSE End("identity")
  /\ UNCHANGED disk

\* Mutant: the invocation is complete once the JSON is written.
FillReport_JsonOnly ==
  /\ stage = "fill_report"
  /\ files' = [files EXCEPT ![Target] = [by |-> Me, whole |-> TRUE]]
  /\ End("completed")
  /\ UNCHANGED directories

\* _write_report: the JSON, then the Markdown.
FillReport ==
  /\ stage = "fill_report"
  /\ files' = [files EXCEPT ![Target] = [by |-> Me, whole |-> TRUE]]
  /\ IF next = 2 THEN End("completed")
     ELSE /\ stage' = "open_report"
          /\ next' = next + 1
          /\ UNCHANGED <<invocations, run, done, outcome>>
  /\ UNCHANGED directories

\* An OSError before a file is opened or while it is written.
WriteFails ==
  /\ stage \in {"mkdir", "open", "fill", "open_report", "fill_report"}
  /\ End(IF stage \in {"open_report", "fill_report"} THEN "comparison" ELSE "suite-execution")
  /\ UNCHANGED disk

\* The process is killed.
Crash ==
  /\ stage # "idle"
  /\ End("crashed")
  /\ UNCHANGED disk

Next ==
  \/ \E c \in Config, overwrite \in BOOLEAN : Start(c, overwrite)
  \/ LoadConfig \/ PrepareRuns \/ PrepareOutputs
  \/ \E r \in Run : RunSuite(r)
  \/ CheckArtifacts \/ MakeDirectories \/ OpenFile \/ FillFile
  \/ Compare \/ FillReport \/ WriteFails \/ Crash

Spec == Init /\ [][Next]_vars

----------------------------------------------------------------------------
(* Properties *)

Results == {"completed", "running", "config", "suite-input", "artifacts", "suite-execution",
            "counts", "pairing", "identity", "comparison", "crashed"}

TypeOK ==
  /\ invocations \in Seq([config : Config, overwrite : BOOLEAN])
  /\ Me <= MaxInvocations
  /\ stage \in {"idle", "load", "inputs", "outputs", "run", "check", "mkdir", "open", "fill",
                "open_report", "fill_report"}
  /\ run \in Run \cup {Report}
  /\ stage \in {"check", "mkdir", "open", "fill"} => run \in Pending
  /\ next \in Nat
  /\ done \subseteq Run
  /\ files \in [Path -> Content]
  /\ directories \subseteq Run
  /\ outcome \in Results
  /\ (outcome = "running") = (stage # "idle")

\* Without --overwrite no artifact of an earlier invocation is touched, whatever
\* directories and files failed or killed invocations left (_prepare_outputs).
DefaultPreserves ==
  [][\A p \in Path : Exists(p) /\ files'[p] # files[p] => Overwrite \/ files[p].by = Me]_vars

\* File q is no older than p, and whole if it is as old.
AtLeast(p, q) == /\ files[q].by >= files[p].by
                 /\ files[q].by = files[p].by => files[q].whole

\* Each source was whole when p was written and has at most been replaced since.
Follows(p, sources) == Exists(p) => \A q \in sources : AtLeast(p, q)

RawRuns(r) == SuitePaths(invocations[files[<<r, "evaluation">>].by].config, r)
              \ {<<r, "evaluation">>}

Compared == {<<r, "evaluation">> : r \in RunsOf(invocations[files[<<Report, "json">>].by].config)}

\* Wherever an invocation stops, with or without --overwrite, no derived file is
\* ahead of what it is derived from: an evaluation has its raw runs, a
\* comparison its evaluations, the Markdown its JSON.
DerivedIsNeverAhead ==
  /\ \A r \in Run : Exists(<<r, "evaluation">>) => Follows(<<r, "evaluation">>, RawRuns(r))
  /\ Exists(<<Report, "json">>) => Follows(<<Report, "json">>, Compared)
  /\ Follows(<<Report, "markdown">>, {<<Report, "json">>})

\* A completed invocation has left every artifact of its matrix, whole and its
\* own, also where it replaced what broken invocations left.
CompletedIsConsistent ==
  stage = "idle" /\ outcome = "completed" /\ Me > 0 =>
    \A p \in PathsOf(Conf) : files[p] = [by |-> Me, whole |-> TRUE]

\* What validation of the configuration and the inputs let through is neither
\* refused by the evaluation for its case counts nor by the comparison for its
\* pairing, after all the traffic.
PreflightSuffices == outcome \notin {"counts", "pairing"}

\* Not so (violated): between invocations a comparison on disk was computed from
\* the evaluations on disk whose ids it lists.
ComparisonIsOfItsSources ==
  stage = "idle" /\ files[<<Report, "json">>].whole =>
    \A p \in Compared : files[p].whole => files[p].by = files[<<Report, "json">>].by
============================================================================
