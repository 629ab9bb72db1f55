---------------------- MODULE BenchmarkPipelineProofs ----------------------
(***************************************************************************)
(* What is on disk after any number of benchmark invocations, for every    *)
(* set of configurations.                                                  *)
(***************************************************************************)
EXTENDS BenchmarkPipeline, FiniteSetTheorems, SequenceTheorems, TLAPS

Docs == Fault \cup {"clean", "evaluation"}
LastDocument == Len(Conf.faults) + 2
Mine == [by |-> Me, whole |-> TRUE]
Torn == [by |-> Me, whole |-> FALSE]

Writing == {"open", "fill"}
Reporting == {"open_report", "fill_report"}
AfterLoad == {"inputs", "outputs", "run", "check", "mkdir"} \cup Writing \cup Reporting
AfterInputs == AfterLoad \ {"inputs"}
AfterOutputs == AfterInputs \ {"outputs"}

----------------------------------------------------------------------------
(* The inductive invariant, in named parts. *)

\* What the running invocation has validated, and how far it is.
StageInv ==
  /\ stage # "idle" => Me > 0 /\ done \subseteq RunsOf(Conf)
  /\ stage \in AfterLoad => ValidConfig(Conf)
  /\ stage \in AfterInputs => \A r \in RunsOf(Conf) : InputOk(Input(Conf, r))
  /\ stage \in {"idle", "load", "inputs", "outputs"} => done = {}
  /\ stage \in Writing => next \in 1..LastDocument
  /\ stage \in Reporting => done = RunsOf(Conf) /\ next \in 1..2
  /\ stage \notin Writing \cup Reporting => next = 1

\* No file is of an invocation to come, and the files of the running one are
\* those it has gone through: whole up to the one being written.
OwnInv ==
  /\ \A p \in Path : files[p].by <= Me
  /\ stage # "idle" =>
       /\ \A r \in Run, d \in Docs :
            files[<<r, d>>].by = Me => r \in done \/ (r = run /\ stage \in Writing)
       /\ \A r \in done : \A p \in SuitePaths(Conf, r) : files[p] = Mine
       /\ stage \in Writing =>
            /\ \A n \in 1..(next - 1) : files[<<run, Document(Conf, n)>>] = Mine
            /\ files[<<run, "evaluation">>].by = Me => stage = "fill" /\ next = LastDocument
       /\ files[<<Report, "json">>].by = Me => stage \in Reporting
       /\ stage = "open_report" /\ next = 1 => files[<<Report, "json">>].by < Me
       /\ stage \in Reporting /\ next = 2 => files[<<Report, "json">>] = Mine
       /\ files[<<Report, "markdown">>].by = Me => stage = "fill_report" /\ next = 2

\* Files lie in directories that exist, so that without --overwrite the
\* invocation finds nothing of an earlier one where it writes.
FreshInv ==
  /\ \A r \in Run : r \notin directories => \A d \in Docs : ~Exists(<<r, d>>)
  /\ stage \in AfterOutputs /\ ~Overwrite =>
       /\ \A r \in RunsOf(Conf), d \in Docs : files[<<r, d>>].by \in {0, Me}
       /\ \A p \in ReportPaths : files[p].by \in {0, Me}
  /\ stage \in Writing => run \in directories

PipelineInv ==
  /\ TypeOK
  /\ StageInv
  /\ OwnInv
  /\ FreshInv
  /\ DerivedIsNeverAhead
  /\ CompletedIsConsistent
  /\ PreflightSuffices

----------------------------------------------------------------------------
(* Configurations, documents and paths. *)

LEMMA DocumentFacts ==
  ASSUME NEW c \in Config
  PROVE  /\ Len(c.faults) \in Nat
         /\ \A n \in 1..(Len(c.faults) + 2) :
              /\ Document(c, n) \in Docs
              /\ Document(c, n) = "evaluation" <=> n = Len(c.faults) + 2
         /\ Unique(c.faults) =>
              \A m, n \in 1..(Len(c.faults) + 2) : Document(c, m) = Document(c, n) => m = n
<1>1. c.faults \in Seq(Fault) /\ Fault \cap {"clean", "evaluation"} = {}
  BY ConfigAssumption
<1>2. Len(c.faults) \in Nat /\ DOMAIN c.faults = 1..Len(c.faults)
  BY <1>1
<1>3. \A n \in 2..(Len(c.faults) + 1) : c.faults[n - 1] \in Fault
  BY <1>1, <1>2
<1>4. \A n \in 2..(Len(c.faults) + 1) :
        c.faults[n - 1] # "clean" /\ c.faults[n - 1] # "evaluation"
  BY <1>1, <1>3
<1>5. \A n \in 1..(Len(c.faults) + 2) :
        /\ Document(c, n) \in Docs
        /\ Document(c, n) = "evaluation" <=> n = Len(c.faults) + 2
  BY <1>2, <1>3, <1>4 DEF Document, Docs
<1>6. ASSUME Unique(c.faults),
             NEW m \in 1..(Len(c.faults) + 2), NEW n \in 1..(Len(c.faults) + 2),
             Document(c, m) = Document(c, n)
      PROVE  m = n
  <2>1. CASE m \in 2..(Len(c.faults) + 1) /\ n \in 2..(Len(c.faults) + 1)
    <3>1. c.faults[m - 1] = c.faults[n - 1]
      BY <1>2, <1>6, <2>1 DEF Document
    <3>2. m - 1 \in DOMAIN c.faults /\ n - 1 \in DOMAIN c.faults
      BY <1>2, <2>1
    <3> QED  BY <1>2, <1>6, <2>1, <3>1, <3>2 DEF Unique
  <2>2. CASE ~(m \in 2..(Len(c.faults) + 1) /\ n \in 2..(Len(c.faults) + 1))
    BY <1>2, <1>4, <1>6, <2>2 DEF Document
  <2> QED  BY <2>1, <2>2
<1> QED  BY <1>2, <1>5, <1>6

LEMMA PathFacts ==
  /\ Report \notin Run
  /\ \A r \in Run, d \in Docs : <<r, d>> \in Path
  /\ <<Report, "json">> \in Path /\ <<Report, "markdown">> \in Path
  /\ \A r \in Run, d \in Docs : <<r, d>> \notin ReportPaths
  /\ ReportPaths = {<<Report, "json">>, <<Report, "markdown">>}
<1>1. 0 \notin Repetition
  BY ConfigAssumption
<1>2. Report \notin Run
  BY <1>1 DEF Report, Run
<1>3. \A r \in Run : \A d : <<r, d>> \notin ReportPaths
  BY <1>2 DEF ReportPaths
<1> QED  BY <1>2, <1>3 DEF Path, Docs, ReportPaths

\* The running invocation has a configuration.
LEMMA ConfFacts ==
  ASSUME TypeOK, Me > 0
  PROVE  /\ Me \in 1..MaxInvocations
         /\ Conf \in Config
         /\ Overwrite \in BOOLEAN
         /\ LastDocument \in Nat /\ LastDocument >= 2
         /\ RunsOf(Conf) \subseteq Run
<1> DEFINE Invocation == [config : Config, overwrite : BOOLEAN]
<1>0. invocations \in Seq(Invocation) /\ Me \in 1..Len(invocations)
  BY DEF TypeOK, Me
<1>1. Me \in Nat /\ invocations[Me] \in Invocation
  <2> HIDE DEF Invocation
  <2> QED  BY <1>0
<1>2. Conf \in Config /\ Overwrite \in BOOLEAN
  BY <1>1 DEF Conf, Overwrite
<1>3. Len(Conf.faults) \in Nat
  BY <1>2, DocumentFacts
<1> QED  BY <1>1, <1>2, <1>3, ConfigAssumption DEF TypeOK, LastDocument, RunsOf

\* What is written where.
LEMMA TargetFacts ==
  ASSUME TypeOK, StageInv, stage \in Writing \cup Reporting
  PROVE  /\ Target \in Path
         /\ Me > 0
         /\ stage \in Writing =>
              /\ Target = <<run, Document(Conf, next)>>
              /\ Target \in SuitePaths(Conf, run)
              /\ run \in Run /\ run \in RunsOf(Conf) /\ run \notin done
              /\ Document(Conf, next) \in Docs
         /\ stage \in Reporting =>
              Target = <<Report, IF next = 1 THEN "json" ELSE "markdown">>
<1>1. Me > 0 /\ Conf \in Config /\ RunsOf(Conf) \subseteq Run
  BY ConfFacts DEF StageInv, Writing, Reporting
<1>2. CASE stage \in Writing
  <2>1. run \in RunsOf(Conf) /\ run \notin done /\ next \in 1..(Len(Conf.faults) + 2)
    BY <1>2 DEF TypeOK, Pending, StageInv, LastDocument, Writing
  <2>2. Target = <<run, Document(Conf, next)>>
    BY <1>2 DEF Target, Writing
  <2>3. Document(Conf, next) \in Docs
    BY <1>1, <2>1, DocumentFacts
  <2>4. <<run, Document(Conf, next)>> \in Path
    BY <1>1, <2>1, <2>3, PathFacts
  <2> QED  BY <1>1, <1>2, <2>1, <2>2, <2>3, <2>4 DEF SuitePaths, Writing, Reporting
<1>3. CASE stage \in Reporting
  <2>1. Target = <<Report, IF next = 1 THEN "json" ELSE "markdown">>
    BY <1>3 DEF Target, Reporting, ReportDocument
  <2> QED  BY <1>1, <1>3, <2>1, PathFacts DEF Writing, Reporting
<1> QED  BY <1>2, <1>3

----------------------------------------------------------------------------
(* Types. *)

LEMMA InitInv == Init => PipelineInv
<1> SUFFICES ASSUME Init PROVE PipelineInv
  OBVIOUS
<1>0. Me = 0 /\ MaxInvocations \in Nat
  BY ConfigAssumption DEF Init, Me
<1>1. \A p \in Path : files[p] = Absent
  BY DEF Init
<1>2. TypeOK
  <2>1. Absent \in Content
    BY <1>0 DEF Absent, Content
  <2>2. files \in [Path -> Content]
    BY <2>1 DEF Init
  <2> QED  BY <1>0, <2>2 DEF Init, TypeOK, Results, Report
<1>3. StageInv
  BY DEF Init, StageInv, AfterLoad, AfterInputs, Writing, Reporting
<1>4. OwnInv
  BY <1>0, <1>1 DEF Init, OwnInv, Absent
<1>5. FreshInv
  BY <1>1, PathFacts DEF Init, FreshInv, AfterOutputs, AfterInputs, AfterLoad, Writing, Reporting,
     Exists, Absent
<1>6. DerivedIsNeverAhead
  <2>1. \A r \in Run : <<r, "evaluation">> \in Path
    BY PathFacts DEF Docs
  <2>2. <<Report, "json">> \in Path /\ <<Report, "markdown">> \in Path
    BY PathFacts
  <2> QED  BY <1>1, <2>1, <2>2 DEF DerivedIsNeverAhead, Follows, Exists, Absent
<1>7. CompletedIsConsistent
  BY <1>0 DEF CompletedIsConsistent
<1>8. PreflightSuffices
  BY DEF Init, PreflightSuffices
<1> QED  BY <1>2, <1>3, <1>4, <1>5, <1>6, <1>7, <1>8 DEF PipelineInv

\* The end of an invocation, for whatever reason.
LEMMA EndType ==
  ASSUME TypeOK, NEW result \in Results \ {"running"}, End(result),
         files' \in [Path -> Content], UNCHANGED directories
  PROVE  TypeOK'
BY DEF TypeOK, End, Me, Report, Run

LEMMA ProceedType ==
  ASSUME TypeOK, NEW to, Proceed(to), stage # "idle",
         to \in {"inputs", "outputs", "run", "mkdir", "open", "fill", "open_report", "fill_report"},
         to \in {"mkdir", "open", "fill"} => run \in Pending,
         files' \in [Path -> Content], directories' \subseteq Run
  PROVE  TypeOK'
<1>1. Pending' = Pending
  BY DEF Proceed, Pending, RunsOf, Conf, Me
<1> QED  BY <1>1 DEF TypeOK, Proceed, Me

LEMMA WriteType ==
  ASSUME TypeOK, StageInv, stage \in Writing \cup Reporting, NEW b \in BOOLEAN,
         files' = [files EXCEPT ![Target] = [by |-> Me, whole |-> b]]
  PROVE  files' \in [Path -> Content]
<1>1. Me \in 0..MaxInvocations
  BY DEF TypeOK, Me
<1>2. [by |-> Me, whole |-> b] \in Content
  BY <1>1 DEF Content
<1>3. files \in [Path -> Content]
  BY DEF TypeOK
<1> QED  BY <1>2, <1>3

LEMMA TypeStep == TypeOK /\ StageInv /\ [Next]_vars => TypeOK'
<1> SUFFICES ASSUME TypeOK, StageInv, [Next]_vars PROVE TypeOK'
  OBVIOUS
<1>0. files \in [Path -> Content] /\ directories \subseteq Run
  BY DEF TypeOK
<1>1. ASSUME NEW c \in Config, NEW overwrite \in BOOLEAN, Start(c, overwrite) PROVE TypeOK'
  <2> DEFINE Invocation == [config : Config, overwrite : BOOLEAN]
  <2>1. [config |-> c, overwrite |-> overwrite] \in Invocation
    OBVIOUS
  <2>2. invocations' \in Seq(Invocation) /\ Len(invocations') = Len(invocations) + 1
    <3>1. invocations \in Seq(Invocation)
      BY DEF TypeOK
    <3> HIDE DEF Invocation
    <3> QED  BY <1>1, <2>1, <3>1 DEF Start
  <2>3. Me' <= MaxInvocations
    BY <1>1, <2>2, ConfigAssumption DEF Start, Me, TypeOK
  <2> QED  BY <1>1, <2>2, <2>3 DEF Start, TypeOK, disk, Results
<1>2. CASE LoadConfig
  BY <1>0, <1>2, EndType, ProceedType DEF LoadConfig, disk, Results
<1>3. CASE PrepareRuns
  BY <1>0, <1>3, EndType, ProceedType DEF PrepareRuns, disk, Results
<1>4. CASE PrepareOutputs
  BY <1>0, <1>4, EndType, ProceedType DEF PrepareOutputs, disk, Results
<1>5. ASSUME NEW r \in Run, RunSuite(r) PROVE TypeOK'
  <2>1. CASE End("counts") \/ End("suite-execution")
    BY <1>0, <1>5, <2>1, EndType DEF RunSuite, disk, Results
  <2>2. CASE /\ run' = r /\ stage' = "check"
             /\ UNCHANGED <<invocations, next, done, outcome>>
    <3>1. Pending' = Pending
      BY <2>2 DEF Pending, RunsOf, Conf, Me
    <3> QED  BY <1>5, <2>2, <3>1 DEF RunSuite, TypeOK, Me, disk
  <2> QED  BY <1>5, <2>1, <2>2 DEF RunSuite
<1>6. CASE CheckArtifacts
  <2>1. run \in Pending
    BY <1>6 DEF CheckArtifacts, TypeOK
  <2> QED  BY <1>0, <1>6, <2>1, EndType, ProceedType DEF CheckArtifacts, disk, Results
<1>7. CASE MakeDirectories
  <2>1. run \in Pending
    BY <1>7 DEF MakeDirectories, TypeOK
  <2>2. directories' \subseteq Run
    BY <1>0, <1>7, <2>1 DEF MakeDirectories, Pending, RunsOf
  <2> QED  BY <1>0, <1>7, <2>1, <2>2, ProceedType DEF MakeDirectories
<1>8. CASE OpenFile
  <2>1. stage \in Writing \cup Reporting
    BY <1>8 DEF OpenFile, Writing, Reporting
  <2>2. files' \in [Path -> Content]
    BY <1>8, <2>1, WriteType DEF OpenFile
  <2>3. stage = "open" => run \in Pending
    BY DEF TypeOK
  <2> QED  BY <1>0, <1>8, <2>2, <2>3, ProceedType DEF OpenFile
<1>9. CASE FillFile
  <2>1. files' \in [Path -> Content]
    BY <1>9, WriteType DEF FillFile, Writing
  <2>2. run \in Pending /\ next \in Nat
    BY <1>9 DEF FillFile, TypeOK
  <2>3. CASE next = Len(Conf.faults) + 2
    BY <1>9, <2>1, <2>2, <2>3 DEF FillFile, TypeOK, Me, Pending, RunsOf
  <2>4. CASE next # Len(Conf.faults) + 2
    <3>1. Pending' = Pending
      BY <1>9, <2>4 DEF FillFile, Pending, RunsOf, Conf, Me
    <3> QED  BY <1>9, <2>1, <2>2, <2>4, <3>1 DEF FillFile, TypeOK, Me
  <2> QED  BY <2>3, <2>4
<1>10. CASE Compare
  BY <1>0, <1>10, EndType, ProceedType DEF Compare, disk, Results
<1>11. CASE FillReport
  <2>1. files' \in [Path -> Content]
    BY <1>11, WriteType DEF FillReport, Reporting
  <2>2. CASE next = 2
    BY <1>11, <2>1, <2>2, EndType DEF FillReport, Results
  <2>3. CASE next # 2
    <3>1. next' \in Nat
      BY <1>11, <2>3 DEF FillReport, TypeOK
    <3> QED  BY <1>11, <2>1, <2>3, <3>1 DEF FillReport, TypeOK, Me
  <2> QED  BY <2>2, <2>3
<1>12. CASE WriteFails
  BY <1>0, <1>12, EndType DEF WriteFails, disk, Results
<1>13. CASE Crash
  BY <1>0, <1>13, EndType DEF Crash, disk, Results
<1>14. CASE UNCHANGED vars
  BY <1>14 DEF vars, disk, TypeOK, Me, Pending, RunsOf, Conf
<1> QED
  BY <1>1, <1>2, <1>3, <1>4, <1>5, <1>6, <1>7, <1>8, <1>9, <1>10, <1>11, <1>12, <1>13, <1>14
  DEF Next

----------------------------------------------------------------------------
(* Progress of the running invocation. *)

LEMMA SameConf ==
  ASSUME UNCHANGED invocations
  PROVE  Me' = Me /\ Conf' = Conf /\ Overwrite' = Overwrite /\ LastDocument' = LastDocument
BY DEF Me, Conf, Overwrite, LastDocument

LEMMA StageStep == TypeOK /\ StageInv /\ [Next]_vars => StageInv'
<1> SUFFICES ASSUME TypeOK, StageInv, [Next]_vars PROVE StageInv'
  OBVIOUS
<1> USE DEF StageInv, AfterLoad, AfterInputs, Writing, Reporting
<1>e. ASSUME NEW result, End(result) PROVE StageInv'
  BY <1>e DEF End
<1>1. ASSUME NEW c \in Config, NEW overwrite \in BOOLEAN, Start(c, overwrite) PROVE StageInv'
  <2>1. Me' > 0
    BY <1>1 DEF Start, Me, TypeOK
  <2> QED  BY <1>1, <2>1 DEF Start
<1>2. CASE LoadConfig
  BY <1>2, <1>e, SameConf DEF LoadConfig, Proceed
<1>3. CASE PrepareRuns
  BY <1>3, <1>e, SameConf DEF PrepareRuns, Proceed
<1>4. CASE PrepareOutputs
  BY <1>4, <1>e, SameConf DEF PrepareOutputs, Proceed
<1>5. ASSUME NEW r \in Run, RunSuite(r) PROVE StageInv'
  BY <1>5, <1>e, SameConf DEF RunSuite
<1>6. CASE CheckArtifacts
  BY <1>6, <1>e, SameConf DEF CheckArtifacts, Proceed
<1>7. CASE MakeDirectories
  <2>1. LastDocument \in Nat /\ LastDocument >= 2
    BY <1>7, ConfFacts DEF MakeDirectories
  <2> QED  BY <1>7, <2>1, SameConf DEF MakeDirectories, Proceed
<1>8. CASE OpenFile
  BY <1>8, SameConf DEF OpenFile, Proceed
<1>9. CASE FillFile
  <2>1. Me > 0 /\ run \in RunsOf(Conf) /\ next \in 1..LastDocument
    BY <1>9 DEF FillFile, TypeOK, Pending
  <2>2. LastDocument \in Nat
    BY <2>1, ConfFacts
  <2> QED  BY <1>9, <2>1, <2>2, SameConf DEF FillFile, LastDocument
<1>10. CASE Compare
  BY <1>10, <1>e, SameConf DEF Compare, Proceed, Pending
<1>11. CASE FillReport
  BY <1>11, <1>e, SameConf DEF FillReport
<1>12. CASE WriteFails
  BY <1>12, <1>e DEF WriteFails
<1>13. CASE Crash
  BY <1>13, <1>e DEF Crash
<1>14. CASE UNCHANGED vars
  BY <1>14, SameConf DEF vars, disk
<1> QED
  BY <1>1, <1>2, <1>3, <1>4, <1>5, <1>6, <1>7, <1>8, <1>9, <1>10, <1>11, <1>12, <1>13, <1>14
  DEF Next

----------------------------------------------------------------------------
(* Which files are the running invocation's own. *)

LEMMA SuitePathFacts ==
  ASSUME TypeOK, Me > 0, NEW r \in RunsOf(Conf)
  PROVE  /\ r \in Run
         /\ \A p \in SuitePaths(Conf, r) :
              \E n \in 1..LastDocument :
                p = <<r, Document(Conf, n)>> /\ Document(Conf, n) \in Docs /\ p \in Path
         /\ \A n \in 1..LastDocument : <<r, Document(Conf, n)>> \in SuitePaths(Conf, r)
<1>1. Conf \in Config /\ r \in Run
  BY ConfFacts
<1>2. \A n \in 1..LastDocument : Document(Conf, n) \in Docs
  BY <1>1, DocumentFacts DEF LastDocument
<1> QED  BY <1>1, <1>2, PathFacts DEF SuitePaths, LastDocument

LEMMA OwnQuiet ==
  ASSUME TypeOK, StageInv, OwnInv, stage # "idle", UNCHANGED <<invocations, files, done, next>>,
         \/ stage' \in {"inputs", "outputs", "run", "check", "mkdir"}
         \/ stage = "mkdir" /\ stage' = "open" /\ run' = run
         \/ stage = "run" /\ stage' = "open_report"
         , stage \notin Writing \cup Reporting
  PROVE  OwnInv'
<1> USE DEF OwnInv, Writing, Reporting
<1>1. Me' = Me /\ Conf' = Conf /\ Mine' = Mine /\ LastDocument' = LastDocument
  BY SameConf DEF Mine
<1>2. next = 1
  BY DEF StageInv
<1>3. \A p \in Path : files'[p].by <= Me'
  BY <1>1
<1>4. \A r \in Run, d \in Docs : files[<<r, d>>].by = Me => r \in done
  OBVIOUS
<1>5. \A r \in done : \A p \in SuitePaths(Conf, r) : files[p] = Mine
  OBVIOUS
<1>6. /\ files[<<Report, "json">>].by # Me /\ files[<<Report, "json">>].by <= Me
      /\ files[<<Report, "markdown">>].by # Me
  BY PathFacts
<1>7. files[<<Report, "json">>].by < Me
  <2>1. files[<<Report, "json">>].by \in Int /\ Me \in Int
    BY PathFacts DEF TypeOK, Content, Me
  <2> QED  BY <1>6, <2>1
<1>8. stage = "mkdir" => run \notin done /\ run \in Run
  BY DEF TypeOK, Pending, RunsOf
<1>9. stage = "mkdir" => files[<<run, "evaluation">>].by # Me
  BY <1>4, <1>8 DEF Docs
<1> QED  BY <1>1, <1>2, <1>3, <1>4, <1>5, <1>6, <1>7, <1>9

LEMMA OwnEnd ==
  ASSUME NEW result, End(result), \A p \in Path : files'[p].by <= Me
  PROVE  OwnInv'
BY SameConf DEF End, OwnInv

LEMMA WrittenBy ==
  ASSUME TypeOK, StageInv, OwnInv, stage \in Writing \cup Reporting,
         \/ files' = [files EXCEPT ![Target] = Torn]
         \/ files' = [files EXCEPT ![Target] = Mine]
  PROVE  \A p \in Path :
           /\ files'[p].by <= Me
           /\ p = Target => files'[p].by = Me
           /\ p # Target => files'[p] = files[p]
<1>1. Target \in Path /\ files \in [Path -> Content]
  BY TargetFacts DEF TypeOK
<1>2. Me \in Int /\ Torn.by = Me /\ Mine.by = Me
  BY DEF TypeOK, Me, Torn, Mine
<1> QED  BY <1>1, <1>2 DEF OwnInv

LEMMA OwnSuite ==
  ASSUME TypeOK, StageInv, OwnInv, OpenFile \/ FillFile, stage \in Writing
  PROVE  OwnInv'
<1> USE DEF Writing, Reporting
<1>1. /\ Target = <<run, Document(Conf, next)>> /\ Target \in Path
      /\ run \in Run /\ run \in RunsOf(Conf) /\ run \notin done /\ Me > 0
      /\ Document(Conf, next) \in Docs
  BY TargetFacts
<1>2. /\ Me' = Me /\ Conf' = Conf /\ Mine' = Mine /\ LastDocument' = LastDocument
      /\ invocations' = invocations
  BY SameConf DEF OpenFile, FillFile, Proceed, Mine
<1>3. Conf \in Config /\ LastDocument \in Nat /\ next \in 1..LastDocument
  BY <1>1, ConfFacts DEF StageInv
<1>4. /\ stage = "open" => files' = [files EXCEPT ![Target] = Torn]
      /\ stage = "fill" => files' = [files EXCEPT ![Target] = Mine]
  BY DEF OpenFile, FillFile, Torn, Mine
<1>5. \A p \in Path : /\ files'[p].by <= Me
                      /\ p = Target => files'[p].by = Me
                      /\ p # Target => files'[p] = files[p]
  BY <1>4, WrittenBy
<1>a. stage = "fill" => files'[Target] = Mine
  BY <1>1, <1>4 DEF TypeOK
<1>6. Unique(Conf.faults)
  BY DEF StageInv, AfterLoad, ValidConfig
<1>7. \A n \in 1..LastDocument :
        /\ Document(Conf, n) \in Docs
        /\ Document(Conf, n) = "evaluation" <=> n = LastDocument
        /\ n # next => Document(Conf, n) # Document(Conf, next)
  BY <1>3, <1>6, DocumentFacts DEF LastDocument
<1>8. \A n \in 1..(next - 1) : files'[<<run, Document(Conf, n)>>] = Mine
  <2> SUFFICES ASSUME NEW n \in 1..(next - 1)
               PROVE  files'[<<run, Document(Conf, n)>>] = Mine
    OBVIOUS
  <2>1. n \in 1..LastDocument /\ n # next
    BY <1>3
  <2>2. <<run, Document(Conf, n)>> \in Path /\ <<run, Document(Conf, n)>> # Target
    BY <1>1, <1>7, <2>1, PathFacts
  <2>3. files[<<run, Document(Conf, n)>>] = Mine
    BY DEF OwnInv
  <2> QED  BY <1>5, <2>2, <2>3
<1>9. \A r \in done : \A p \in SuitePaths(Conf, r) : files'[p] = Mine
  <2> SUFFICES ASSUME NEW r \in done, NEW p \in SuitePaths(Conf, r) PROVE files'[p] = Mine
    OBVIOUS
  <2>1. r \in RunsOf(Conf)
    BY DEF StageInv
  <2>2. p \in Path /\ p[1] = r
    BY <1>1, <2>1, SuitePathFacts
  <2>3. p # Target
    BY <1>1, <2>2
  <2>4. files[p] = Mine
    BY DEF OwnInv
  <2> QED  BY <1>5, <2>2, <2>3, <2>4
<1>10. \A r \in Run, d \in Docs : files'[<<r, d>>].by = Me => r \in done \/ r = run
  <2> SUFFICES ASSUME NEW r \in Run, NEW d \in Docs, files'[<<r, d>>].by = Me, r # run
               PROVE  r \in done
    OBVIOUS
  <2>1. <<r, d>> \in Path /\ <<r, d>> # Target
    BY <1>1, PathFacts
  <2>2. files[<<r, d>>].by = Me
    BY <1>5, <2>1
  <2> QED  BY <2>2 DEF OwnInv
<1>11. /\ <<Report, "json">> \in Path /\ <<Report, "json">> # Target
       /\ <<Report, "markdown">> \in Path /\ <<Report, "markdown">> # Target
  BY <1>1, PathFacts
<1>12. files'[<<Report, "json">>].by # Me /\ files'[<<Report, "markdown">>].by # Me
  BY <1>5, <1>11 DEF OwnInv
<1>13. /\ <<run, "evaluation">> \in Path
       /\ <<run, "evaluation">> = Target <=> next = LastDocument
  BY <1>1, <1>3, <1>7, PathFacts DEF Docs
<1>14. stage = "open" /\ next # LastDocument => files'[<<run, "evaluation">>].by # Me
  BY <1>5, <1>13 DEF OwnInv
<1>15. stage = "fill" /\ next # LastDocument => files'[<<run, "evaluation">>].by # Me
  BY <1>5, <1>13 DEF OwnInv
<1>16. CASE stage = "open"
  <2>1. stage' = "fill" /\ UNCHANGED <<run, next, done>>
    BY <1>16 DEF OpenFile, FillFile, Proceed
  <2> QED  BY <1>2, <1>5, <1>8, <1>9, <1>10, <1>12, <1>14, <1>16, <2>1 DEF OwnInv
<1>17. CASE stage = "fill" /\ next = LastDocument
  <2>1. stage' = "run" /\ done' = done \cup {run}
    BY <1>17 DEF OpenFile, FillFile, LastDocument
  <2>2. \A n \in 1..LastDocument : files'[<<run, Document(Conf, n)>>] = Mine
    <3>1. \A n \in 1..LastDocument : n \in 1..(next - 1) \/ n = next
      BY <1>3, <1>17
    <3> QED  BY <1>1, <1>a, <1>8, <1>17, <3>1
  <2>3. \A p \in SuitePaths(Conf, run) : files'[p] = Mine
    BY <1>1, <2>2, SuitePathFacts
  <2> QED  BY <1>2, <1>5, <1>9, <1>10, <1>12, <2>1, <2>3 DEF OwnInv
<1>18. CASE stage = "fill" /\ next # LastDocument
  <2>1. stage' = "open" /\ next' = next + 1 /\ UNCHANGED <<run, done>>
    BY <1>18 DEF OpenFile, FillFile, LastDocument
  <2>2. \A n \in 1..(next' - 1) : files'[<<run, Document(Conf, n)>>] = Mine
    <3>1. \A n \in 1..(next' - 1) : n \in 1..(next - 1) \/ n = next
      BY <1>3, <2>1
    <3> QED  BY <1>1, <1>a, <1>8, <1>18, <3>1
  <2> QED  BY <1>2, <1>5, <1>9, <1>10, <1>12, <1>15, <1>18, <2>1, <2>2 DEF OwnInv
<1> QED  BY <1>16, <1>17, <1>18

LEMMA OwnReport ==
  ASSUME TypeOK, StageInv, OwnInv, OpenFile \/ FillReport, stage \in Reporting
  PROVE  OwnInv'
<1> USE DEF Writing, Reporting
<1>1. /\ Target = <<Report, IF next = 1 THEN "json" ELSE "markdown">> /\ Target \in Path
      /\ Target \in ReportPaths /\ Me > 0 /\ next \in 1..2 /\ done \subseteq RunsOf(Conf)
  BY TargetFacts, PathFacts DEF StageInv
<1>2. /\ Me' = Me /\ Conf' = Conf /\ Mine' = Mine /\ LastDocument' = LastDocument
      /\ invocations' = invocations
  BY SameConf DEF OpenFile, FillReport, End, Proceed, Mine
<1>3. /\ stage = "open_report" => files' = [files EXCEPT ![Target] = Torn]
      /\ stage = "fill_report" => files' = [files EXCEPT ![Target] = Mine]
  BY DEF OpenFile, FillReport, Torn, Mine
<1>4. \A p \in Path : /\ files'[p].by <= Me
                      /\ p = Target => files'[p].by = Me
                      /\ p # Target => files'[p] = files[p]
  BY <1>3, WrittenBy
<1>5. \A r \in Run, d \in Docs : files'[<<r, d>>] = files[<<r, d>>]
  BY <1>1, <1>4, PathFacts
<1>6. \A r \in done : \A p \in SuitePaths(Conf, r) : files'[p] = Mine
  <2> SUFFICES ASSUME NEW r \in done, NEW p \in SuitePaths(Conf, r) PROVE files'[p] = Mine
    OBVIOUS
  <2>1. PICK n \in 1..LastDocument :
          r \in Run /\ p = <<r, Document(Conf, n)>> /\ Document(Conf, n) \in Docs
    BY <1>1, SuitePathFacts
  <2>2. files[p] = Mine
    BY DEF OwnInv
  <2> QED  BY <1>5, <2>1, <2>2
<1>7. \A r \in Run, d \in Docs : files'[<<r, d>>].by = Me => r \in done
  BY <1>5 DEF OwnInv
<1>8. /\ <<Report, "json">> \in Path /\ <<Report, "markdown">> \in Path
      /\ next = 1 => Target = <<Report, "json">> /\ <<Report, "markdown">> # Target
      /\ next = 2 => Target = <<Report, "markdown">> /\ <<Report, "json">> # Target
  BY <1>1, PathFacts
<1>9. CASE End("completed")
  BY <1>4, <1>9, OwnEnd
<1>10. CASE stage = "open_report"
  <2>1. stage' = "fill_report" /\ UNCHANGED <<run, next, done>>
    BY <1>10 DEF OpenFile, FillReport, Proceed
  <2>2. files'[<<Report, "markdown">>].by = Me => next = 2
    BY <1>1, <1>4, <1>8, <1>10 DEF OwnInv
  <2>3. next = 2 => files'[<<Report, "json">>] = Mine
    BY <1>4, <1>8, <1>10 DEF OwnInv
  <2> QED  BY <1>2, <1>4, <1>6, <1>7, <2>1, <2>2, <2>3 DEF OwnInv
<1>11. CASE stage = "fill_report" /\ ~End("completed")
  <2>1. stage' = "open_report" /\ next = 1 /\ next' = 2 /\ UNCHANGED <<run, done>>
    BY <1>1, <1>11 DEF OpenFile, FillReport
  <2>2. files'[<<Report, "json">>] = Mine
    BY <1>3, <1>8, <1>11, <2>1 DEF TypeOK
  <2>3. files'[<<Report, "markdown">>].by # Me
    BY <1>4, <1>8, <1>11, <2>1 DEF OwnInv
  <2> QED  BY <1>2, <1>4, <1>6, <1>7, <2>1, <2>2, <2>3 DEF OwnInv
<1> QED  BY <1>9, <1>10, <1>11

LEMMA OwnStep == TypeOK /\ StageInv /\ OwnInv /\ [Next]_vars => OwnInv'
<1> SUFFICES ASSUME TypeOK, StageInv, OwnInv, [Next]_vars PROVE OwnInv'
  OBVIOUS
<1> USE DEF Writing, Reporting
<1>0. /\ \A p \in Path : files[p].by <= Me
      /\ \A p \in Path : files[p].by \in Int
  BY DEF OwnInv, TypeOK, Content
<1>e. ASSUME NEW result, End(result), UNCHANGED files PROVE OwnInv'
  BY <1>0, <1>e, OwnEnd
<1>1. ASSUME NEW c \in Config, NEW overwrite \in BOOLEAN, Start(c, overwrite) PROVE OwnInv'
  <2>1. Me' = Me + 1 /\ Me \in Nat
    BY <1>1 DEF Start, Me, TypeOK
  <2>2. \A p \in Path : files'[p].by < Me'
    BY <1>0, <1>1, <2>1 DEF Start, disk
  <2>3. \A p \in Path : files'[p].by <= Me' /\ files'[p].by # Me'
    BY <1>0, <1>1, <2>1 DEF Start, disk
  <2>4. stage' = "load" /\ done' = {} /\ next' = 1
    BY <1>1 DEF Start, StageInv
  <2> QED  BY <2>3, <2>4, PathFacts DEF OwnInv
<1>2. CASE LoadConfig
  BY <1>2, <1>e, OwnQuiet DEF LoadConfig, Proceed, disk
<1>3. CASE PrepareRuns
  BY <1>3, <1>e, OwnQuiet DEF PrepareRuns, Proceed, disk
<1>4. CASE PrepareOutputs
  BY <1>4, <1>e, OwnQuiet DEF PrepareOutputs, Proceed, disk
<1>5. ASSUME NEW r \in Run, RunSuite(r) PROVE OwnInv'
  BY <1>5, <1>e, OwnQuiet DEF RunSuite, disk
<1>6. CASE CheckArtifacts
  BY <1>6, <1>e, OwnQuiet DEF CheckArtifacts, Proceed, disk
<1>7. CASE MakeDirectories
  BY <1>7, OwnQuiet DEF MakeDirectories, Proceed
<1>8. CASE OpenFile
  BY <1>8, OwnSuite, OwnReport DEF OpenFile
<1>9. CASE FillFile
  BY <1>9, OwnSuite DEF FillFile
<1>10. CASE Compare
  BY <1>10, <1>e, OwnQuiet DEF Compare, Proceed, disk
<1>11. CASE FillReport
  BY <1>11, OwnReport DEF FillReport
<1>12. CASE WriteFails
  BY <1>12, <1>e DEF WriteFails, disk
<1>13. CASE Crash
  BY <1>13, <1>e DEF Crash, disk
<1>14. CASE UNCHANGED vars
  <2>1. UNCHANGED <<stage, run, next, done, files, invocations>>
    BY <1>14 DEF vars, disk
  <2>2. Mine' = Mine /\ Me' = Me /\ Conf' = Conf /\ LastDocument' = LastDocument
    BY <2>1, SameConf DEF Mine
  <2> QED  BY <2>1, <2>2 DEF OwnInv
<1> QED
  BY <1>1, <1>2, <1>3, <1>4, <1>5, <1>6, <1>7, <1>8, <1>9, <1>10, <1>11, <1>12, <1>13, <1>14
  DEF Next

----------------------------------------------------------------------------
(* Writing a file, whichever. *)

IsWrite == OpenFile \/ FillFile \/ FillReport

LEMMA WriteEffect ==
  ASSUME TypeOK, StageInv, OwnInv, IsWrite
  PROVE  /\ stage \in Writing \cup Reporting
         /\ UNCHANGED <<invocations, directories>>
         /\ \A p \in Path : /\ p = Target => files'[p].by = Me
                            /\ p # Target => files'[p] = files[p]
<1>1. stage \in Writing \cup Reporting
  BY DEF IsWrite, OpenFile, FillFile, FillReport, Writing, Reporting
<1>2. \/ files' = [files EXCEPT ![Target] = Torn]
      \/ files' = [files EXCEPT ![Target] = Mine]
  BY DEF IsWrite, OpenFile, FillFile, FillReport, Torn, Mine
<1>3. UNCHANGED <<invocations, directories>>
  BY DEF IsWrite, OpenFile, FillFile, FillReport, Proceed, End
<1> QED  BY <1>1, <1>2, <1>3, WrittenBy

\* Every other step leaves the files alone.
LEMMA OtherStep ==
  ASSUME [Next]_vars, ~IsWrite
  PROVE  UNCHANGED files
BY DEF Next, IsWrite, vars, disk, Start, LoadConfig, PrepareRuns, PrepareOutputs, RunSuite,
   CheckArtifacts, MakeDirectories, Compare, WriteFails, Crash

----------------------------------------------------------------------------
(* Directories, and what is there before the invocation writes. *)

LEMMA FreshStep == TypeOK /\ StageInv /\ OwnInv /\ FreshInv /\ [Next]_vars => FreshInv'
<1> SUFFICES ASSUME TypeOK, StageInv, OwnInv, FreshInv, [Next]_vars PROVE FreshInv'
  OBVIOUS
<1> USE DEF Writing, Reporting, AfterOutputs, AfterInputs, AfterLoad
<1>e. ASSUME NEW result, End(result), UNCHANGED disk PROVE FreshInv'
  BY <1>e DEF End, disk, FreshInv, Exists
<1>q. ASSUME UNCHANGED <<invocations, files, directories>>, stage' \notin Writing,
             stage' \in AfterOutputs => stage \in AfterOutputs
      PROVE  FreshInv'
  BY <1>q, SameConf DEF FreshInv, Exists
<1>1. ASSUME NEW c \in Config, NEW overwrite \in BOOLEAN, Start(c, overwrite) PROVE FreshInv'
  BY <1>1 DEF Start, disk, FreshInv, Exists
<1>2. CASE LoadConfig
  BY <1>2, <1>e, <1>q DEF LoadConfig, Proceed, disk
<1>3. CASE PrepareRuns
  BY <1>3, <1>e, <1>q DEF PrepareRuns, Proceed, disk
<1>4. CASE PrepareOutputs
  <2>1. CASE End("artifacts")
    BY <1>4, <1>e, <2>1 DEF PrepareOutputs
  <2>2. CASE Proceed("run") /\ (~Overwrite => /\ RunsOf(Conf) \cap directories = {}
                                             /\ \A p \in ReportPaths : ~Exists(p))
    <3>1. UNCHANGED <<invocations, files, directories>> /\ stage' = "run"
      BY <1>4, <2>2 DEF PrepareOutputs, Proceed, disk
    <3>2. RunsOf(Conf) \subseteq Run
      BY DEF RunsOf
    <3>3. ~Overwrite => \A r \in RunsOf(Conf), d \in Docs : files[<<r, d>>].by = 0
      BY <2>2, <3>2 DEF FreshInv, Exists
    <3>4. ~Overwrite => \A p \in ReportPaths : files[p].by = 0
      BY <2>2 DEF Exists
    <3> QED  BY <3>1, <3>3, <3>4, SameConf DEF FreshInv, Exists
  <2> QED  BY <1>4, <2>1, <2>2 DEF PrepareOutputs
<1>5. ASSUME NEW r \in Run, RunSuite(r) PROVE FreshInv'
  BY <1>5, <1>e, <1>q DEF RunSuite, disk
<1>6. CASE CheckArtifacts
  BY <1>6, <1>e, <1>q DEF CheckArtifacts, Proceed, disk
<1>7. CASE MakeDirectories
  BY <1>7, SameConf DEF MakeDirectories, Proceed, FreshInv, Exists
<1>8. CASE IsWrite
  <2>1. /\ UNCHANGED <<invocations, directories>>
        /\ stage \in AfterOutputs
        /\ \A p \in Path : /\ p = Target => files'[p].by = Me
                           /\ p # Target => files'[p] = files[p]
    BY <1>8, WriteEffect
  <2>2. \A r \in Run : r \notin directories' => \A d \in Docs : ~Exists(<<r, d>>)'
    <3> SUFFICES ASSUME NEW r \in Run, r \notin directories, NEW d \in Docs
                 PROVE  ~Exists(<<r, d>>)'
      BY <2>1
    <3>1. <<r, d>> \in Path /\ <<r, d>> # Target
      <4>1. stage \in Writing => Target = <<run, Document(Conf, next)>> /\ run \in directories
        BY TargetFacts DEF FreshInv
      <4>2. stage \in Reporting => Target \in ReportPaths
        BY TargetFacts, PathFacts
      <4> QED  BY <1>8, <4>1, <4>2, PathFacts, WriteEffect
    <3> QED  BY <2>1, <3>1 DEF FreshInv, Exists
  <2>3. ~Overwrite =>
          /\ \A r \in RunsOf(Conf), d \in Docs : files'[<<r, d>>].by \in {0, Me}
          /\ \A p \in ReportPaths : files'[p].by \in {0, Me}
    <3>1. \A r \in RunsOf(Conf), d \in Docs : <<r, d>> \in Path
      BY PathFacts DEF RunsOf
    <3>2. \A p \in ReportPaths : p \in Path
      BY PathFacts
    <3> QED  BY <2>1, <3>1, <3>2 DEF FreshInv
  <2>4. stage' \in Writing => run' \in directories'
    BY <1>8, <2>1 DEF IsWrite, OpenFile, FillFile, FillReport, Proceed, End, FreshInv
  <2> QED  BY <2>1, <2>2, <2>3, <2>4, SameConf DEF FreshInv
<1>9. CASE Compare
  BY <1>9, <1>e, <1>q DEF Compare, Proceed, disk
<1>10. CASE WriteFails
  BY <1>10, <1>e DEF WriteFails
<1>11. CASE Crash
  BY <1>11, <1>e DEF Crash
<1>12. CASE UNCHANGED vars
  <2>1. UNCHANGED <<stage, run, files, directories, invocations>>
    BY <1>12 DEF vars, disk
  <2> QED  BY <2>1, SameConf DEF FreshInv, Exists
<1> QED
  BY <1>1, <1>2, <1>3, <1>4, <1>5, <1>6, <1>7, <1>8, <1>9, <1>10, <1>11, <1>12 DEF Next, IsWrite

LEMMA PreserveStep ==
  ASSUME TypeOK, StageInv, OwnInv, FreshInv, [Next]_vars
  PROVE  \A p \in Path : Exists(p) /\ files'[p] # files[p] => Overwrite \/ files[p].by = Me
<1>1. CASE IsWrite
  <2> SUFFICES ASSUME NEW p \in Path, Exists(p), files'[p] # files[p], ~Overwrite
               PROVE  files[p].by = Me
    OBVIOUS
  <2>1. p = Target /\ stage \in Writing \cup Reporting
    BY <1>1, WriteEffect
  <2>2. stage \in AfterOutputs
    BY <2>1 DEF AfterOutputs, AfterInputs, AfterLoad, Writing, Reporting
  <2>3. CASE stage \in Writing
    BY <2>1, <2>2, <2>3, TargetFacts DEF FreshInv, Exists
  <2>4. CASE stage \in Reporting
    <3>1. p \in ReportPaths
      BY <2>1, <2>4, TargetFacts, PathFacts
    <3> QED  BY <2>2, <3>1 DEF FreshInv, Exists
  <2> QED  BY <2>1, <2>3, <2>4
<1>2. CASE ~IsWrite
  BY <1>2, OtherStep
<1> QED  BY <1>1, <1>2

----------------------------------------------------------------------------
(* Derived files and their sources. *)

\* A file that was written keeps the configuration it was written under.
LEMMA WrittenUnder ==
  ASSUME TypeOK, OwnInv, NEW p \in Path, Exists(p)
  PROVE  /\ files[p].by \in 1..Me
         /\ invocations[files[p].by].config \in Config
         /\ \A e \in [config : Config, overwrite : BOOLEAN] :
              Append(invocations, e)[files[p].by] = invocations[files[p].by]
<1> DEFINE Invocation == [config : Config, overwrite : BOOLEAN]
<1>1. invocations \in Seq(Invocation) /\ Me = Len(invocations)
  BY DEF TypeOK, Me
<1>2. files[p].by \in 1..Me
  <2>1. files[p].by \in 0..MaxInvocations /\ files[p].by # 0 /\ files[p].by <= Me
    BY DEF TypeOK, Content, Exists, OwnInv
  <2> QED  BY <1>1, <2>1, ConfigAssumption
<1>3. /\ invocations[files[p].by] \in Invocation
      /\ \A e \in Invocation : Append(invocations, e)[files[p].by] = invocations[files[p].by]
  <2> HIDE DEF Invocation
  <2> QED  BY <1>1, <1>2
<1> QED  BY <1>2, <1>3

LEMMA SourceFacts ==
  ASSUME TypeOK, OwnInv
  PROVE  /\ \A r \in Run : Exists(<<r, "evaluation">>) =>
              /\ <<r, "evaluation">> \in Path
              /\ \A q \in RawRuns(r) : /\ q \in Path /\ q[1] = r /\ q # <<r, "evaluation">>
         /\ Exists(<<Report, "json">>) =>
              \A q \in Compared : q \in Path /\ \E r \in Run : q = <<r, "evaluation">>
<1>1. ASSUME NEW r \in Run, Exists(<<r, "evaluation">>), NEW q \in RawRuns(r)
      PROVE  q \in Path /\ q[1] = r /\ q # <<r, "evaluation">>
  <2> DEFINE c == invocations[files[<<r, "evaluation">>].by].config
  <2>1. <<r, "evaluation">> \in Path
    BY PathFacts DEF Docs
  <2>2. c \in Config
    BY <1>1, <2>1, WrittenUnder
  <2>3. PICK n \in 1..(Len(c.faults) + 2) : q = <<r, Document(c, n)>>
    BY <1>1 DEF RawRuns, SuitePaths
  <2>4. Document(c, n) \in Docs
    BY <2>2, <2>3, DocumentFacts
  <2> QED  BY <1>1, <2>3, <2>4, PathFacts DEF RawRuns
<1>2. ASSUME Exists(<<Report, "json">>), NEW q \in Compared
      PROVE  q \in Path /\ \E r \in Run : q = <<r, "evaluation">>
  BY PathFacts DEF Compared, RunsOf, Docs
<1> QED  BY <1>1, <1>2, PathFacts DEF Docs

\* Replacing q does no harm unless p is the running invocation's own.
LEMMA AtLeastKept ==
  ASSUME TypeOK, StageInv, OwnInv, IsWrite, NEW p \in Path, NEW q \in Path,
         p # Target, files[p].by # Me \/ q # Target, AtLeast(p, q)
  PROVE  AtLeast(p, q)'
<1>1. /\ files'[p] = files[p]
      /\ q = Target => files'[q].by = Me
      /\ q # Target => files'[q] = files[q]
  BY WriteEffect
<1>2. files[p].by \in Int /\ files[p].by <= Me /\ Me \in Int
  BY DEF TypeOK, Content, OwnInv, Me
<1> QED  BY <1>1, <1>2 DEF AtLeast

\* The evaluation is written when all raw runs are there.
LEMMA EvaluationStep ==
  ASSUME TypeOK, StageInv, OwnInv, DerivedIsNeverAhead, IsWrite,
         NEW r \in Run, Exists(<<r, "evaluation">>)'
  PROVE  \A q \in RawRuns(r)' : AtLeast(<<r, "evaluation">>, q)'
<1> DEFINE e == <<r, "evaluation">>
<1>0. /\ e \in Path /\ invocations' = invocations
      /\ stage \in Writing \cup Reporting
      /\ \A p \in Path : /\ p = Target => files'[p].by = Me
                         /\ p # Target => files'[p] = files[p]
  BY PathFacts, WriteEffect DEF Docs
<1>1. CASE e = Target
  <2>1. stage \in Writing /\ run = r /\ Document(Conf, next) = "evaluation"
    BY <1>0, <1>1, TargetFacts, PathFacts DEF ReportPaths, Docs
  <2>2. Me > 0 /\ Conf \in Config /\ next = LastDocument /\ LastDocument \in Nat
    <3>1. Me > 0 /\ next \in 1..LastDocument
      BY <2>1, TargetFacts DEF StageInv
    <3>2. Conf \in Config /\ LastDocument \in Nat
      BY <3>1, ConfFacts
    <3> QED  BY <2>1, <3>1, <3>2, DocumentFacts DEF LastDocument
  <2>3. RawRuns(r)' = SuitePaths(Conf, r) \ {e}
    BY <1>0, <1>1 DEF RawRuns, Conf, Me
  <2> SUFFICES ASSUME NEW q \in SuitePaths(Conf, r) \ {e} PROVE AtLeast(e, q)'
    BY <2>3
  <2>4. PICK n \in 1..LastDocument : q = <<r, Document(Conf, n)>>
    BY DEF SuitePaths, LastDocument
  <2>5. n # LastDocument /\ Document(Conf, n) \in Docs
    BY <2>2, <2>4, DocumentFacts DEF LastDocument
  <2>6. n \in 1..(next - 1)
    BY <2>2, <2>4, <2>5
  <2>7. files[q] = Mine
    BY <2>1, <2>4, <2>6 DEF OwnInv, Writing
  <2>8. q \in Path /\ q # Target
    BY <1>1, <2>4, <2>5, PathFacts
  <2> QED  BY <1>0, <1>1, <2>7, <2>8 DEF AtLeast, Mine, TypeOK, Me
<1>2. CASE e # Target
  <2>1. files'[e] = files[e] /\ Exists(e)
    BY <1>0, <1>2 DEF Exists
  <2>2. RawRuns(r)' = RawRuns(r)
    BY <1>0, <2>1 DEF RawRuns
  <2> SUFFICES ASSUME NEW q \in RawRuns(r) PROVE AtLeast(e, q)'
    BY <2>2
  <2>3. q \in Path /\ q[1] = r /\ q # e
    BY <2>1, SourceFacts
  <2>4. AtLeast(e, q)
    <3>1. Follows(e, RawRuns(r))
      BY <2>1 DEF DerivedIsNeverAhead
    <3> QED  BY <2>1, <3>1 DEF Follows
  <2>5. files[e].by # Me \/ q # Target
    <3> SUFFICES ASSUME q = Target PROVE files[e].by # Me
      OBVIOUS
    <3>1. stage \in Writing /\ run = r
      BY <1>0, <2>3, TargetFacts, PathFacts
    <3>2. files[e].by = Me => next = LastDocument
      BY <3>1 DEF OwnInv, Writing
    <3>3. Document(Conf, LastDocument) = "evaluation"
      BY <3>1 DEF Document, LastDocument, Writing
    <3>4. Document(Conf, next) # "evaluation"
      BY <1>2, <3>1, TargetFacts
    <3> QED  BY <3>2, <3>3, <3>4
  <2> QED  BY <1>0, <1>2, <2>3, <2>4, <2>5, AtLeastKept
<1> QED  BY <1>1, <1>2

\* The comparison is written when all evaluations are there.
LEMMA JsonStep ==
  ASSUME TypeOK, StageInv, OwnInv, DerivedIsNeverAhead, IsWrite, Exists(<<Report, "json">>)'
  PROVE  \A q \in Compared' : AtLeast(<<Report, "json">>, q)'
<1> DEFINE j == <<Report, "json">>
<1>0. /\ j \in Path /\ invocations' = invocations
      /\ stage \in Writing \cup Reporting
      /\ \A p \in Path : /\ p = Target => files'[p].by = Me
                         /\ p # Target => files'[p] = files[p]
  BY PathFacts, WriteEffect
<1>1. CASE j = Target
  <2>1. stage \in Reporting /\ Me > 0 /\ done = RunsOf(Conf)
    BY <1>0, <1>1, TargetFacts, PathFacts DEF StageInv
  <2>2. Compared' = {<<r, "evaluation">> : r \in RunsOf(Conf)}
    BY <1>0, <1>1 DEF Compared, Conf, Me
  <2> SUFFICES ASSUME NEW r \in RunsOf(Conf) PROVE AtLeast(j, <<r, "evaluation">>)'
    BY <2>2
  <2> DEFINE q == <<r, "evaluation">>
  <2>3. LastDocument \in 1..LastDocument /\ Document(Conf, LastDocument) = "evaluation"
    <3>1. LastDocument \in Nat /\ LastDocument >= 2
      BY <2>1, ConfFacts
    <3> QED  BY <3>1 DEF Document, LastDocument
  <2>4. q \in SuitePaths(Conf, r) /\ q \in Path /\ r \in Run
    BY <2>1, <2>3, SuitePathFacts
  <2>5. files[q] = Mine
    BY <2>1, <2>4 DEF OwnInv, Reporting
  <2>6. q # Target
    BY <1>1, <2>4, PathFacts
  <2> QED  BY <1>0, <1>1, <2>4, <2>5, <2>6 DEF AtLeast, Mine, TypeOK, Me
<1>2. CASE j # Target
  <2>1. files'[j] = files[j] /\ Exists(j)
    BY <1>0, <1>2 DEF Exists
  <2>2. Compared' = Compared
    BY <1>0, <2>1 DEF Compared, RunsOf
  <2> SUFFICES ASSUME NEW q \in Compared PROVE AtLeast(j, q)'
    BY <2>2
  <2>3. PICK r \in Run : q \in Path /\ q = <<r, "evaluation">>
    BY <2>1, SourceFacts
  <2>4. AtLeast(j, q)
    <3>1. Follows(j, Compared)
      BY <2>1 DEF DerivedIsNeverAhead
    <3> QED  BY <2>1, <3>1 DEF Follows
  <2>5. files[j].by # Me \/ q # Target
    <3> SUFFICES ASSUME q = Target PROVE files[j].by # Me
      OBVIOUS
    <3>1. stage \notin Reporting
      BY <2>3, TargetFacts, PathFacts
    <3> QED  BY <1>0, <3>1 DEF OwnInv, Writing, Reporting
  <2> QED  BY <1>0, <1>2, <2>3, <2>4, <2>5, AtLeastKept
<1> QED  BY <1>1, <1>2

\* The Markdown is written when the JSON is there.
LEMMA MarkdownStep ==
  ASSUME TypeOK, StageInv, OwnInv, DerivedIsNeverAhead, IsWrite, Exists(<<Report, "markdown">>)'
  PROVE  AtLeast(<<Report, "markdown">>, <<Report, "json">>)'
<1> DEFINE m == <<Report, "markdown">>
           j == <<Report, "json">>
<1>0. /\ m \in Path /\ j \in Path /\ m # j
      /\ stage \in Writing \cup Reporting
      /\ \A p \in Path : /\ p = Target => files'[p].by = Me
                         /\ p # Target => files'[p] = files[p]
      /\ invocations' = invocations
  BY PathFacts, WriteEffect
<1>1. CASE m = Target
  <2>1. stage \in Reporting /\ next = 2
    BY <1>0, <1>1, TargetFacts, PathFacts DEF StageInv
  <2>2. files[j] = Mine
    BY <2>1 DEF OwnInv, Reporting
  <2> QED  BY <1>0, <1>1, <2>2 DEF AtLeast, Mine, TypeOK, Me
<1>2. CASE m # Target
  <2>1. files'[m] = files[m] /\ Exists(m)
    BY <1>0, <1>2 DEF Exists
  <2>2. AtLeast(m, j)
    BY <2>1 DEF DerivedIsNeverAhead, Follows
  <2>3. files[m].by # Me \/ j # Target
    <3> SUFFICES ASSUME files[m].by = Me PROVE j # Target
      OBVIOUS
    <3>1. stage = "fill_report" /\ next = 2
      BY <1>0 DEF OwnInv, Writing, Reporting
    <3> QED  BY <1>2, <3>1, TargetFacts DEF Reporting
  <2> QED  BY <1>0, <1>2, <2>2, <2>3, AtLeastKept
<1> QED  BY <1>1, <1>2

LEMMA DerivedStep ==
  ASSUME TypeOK, StageInv, OwnInv, DerivedIsNeverAhead, [Next]_vars
  PROVE  DerivedIsNeverAhead'
<1>1. CASE IsWrite
  <2>1. \A r \in Run :
          Exists(<<r, "evaluation">>)' => Follows(<<r, "evaluation">>, RawRuns(r))'
    BY <1>1, EvaluationStep DEF Follows
  <2>2. Exists(<<Report, "json">>)' => Follows(<<Report, "json">>, Compared)'
    BY <1>1, JsonStep DEF Follows
  <2>3. Follows(<<Report, "markdown">>, {<<Report, "json">>})'
    BY <1>1, MarkdownStep DEF Follows
  <2> QED  BY <2>1, <2>2, <2>3 DEF DerivedIsNeverAhead
<1>2. CASE ~IsWrite
  <2>1. UNCHANGED files
    BY <1>2, OtherStep
  <2>2. \A p \in Path : Exists(p) => invocations'[files[p].by] = invocations[files[p].by]
    <3>1. CASE invocations' = invocations
      BY <3>1
    <3>2. ASSUME NEW c \in Config, NEW overwrite \in BOOLEAN, Start(c, overwrite)
          PROVE  \A p \in Path : Exists(p) => invocations'[files[p].by] = invocations[files[p].by]
      BY <3>2, WrittenUnder DEF Start
    <3>3. invocations' = invocations \/ \E c \in Config, overwrite \in BOOLEAN : Start(c, overwrite)
      BY DEF Next, vars, LoadConfig, PrepareRuns, PrepareOutputs, RunSuite, CheckArtifacts,
         MakeDirectories, OpenFile, FillFile, Compare, FillReport, WriteFails, Crash, Proceed, End
    <3> QED  BY <3>1, <3>2, <3>3
  <2>3. \A r \in Run : Exists(<<r, "evaluation">>) => RawRuns(r)' = RawRuns(r)
    <3>1. \A r \in Run : <<r, "evaluation">> \in Path
      BY PathFacts DEF Docs
    <3> QED  BY <2>1, <2>2, <3>1 DEF RawRuns
  <2>4. Exists(<<Report, "json">>) => Compared' = Compared
    <3>1. <<Report, "json">> \in Path
      BY PathFacts
    <3> QED  BY <2>1, <2>2, <3>1 DEF Compared, RunsOf
  <2> QED  BY <2>1, <2>3, <2>4 DEF DerivedIsNeverAhead, Follows, Exists, AtLeast
<1> QED  BY <1>1, <1>2

----------------------------------------------------------------------------
(* The end of an invocation. *)

LEMMA CompletedStep ==
  ASSUME TypeOK, StageInv, OwnInv, CompletedIsConsistent, [Next]_vars
  PROVE  CompletedIsConsistent'
<1>1. CASE FillReport /\ End("completed")
  <2>1. stage = "fill_report" /\ stage \in Reporting /\ IsWrite /\ next = 2
    BY <1>1 DEF FillReport, Reporting, IsWrite, End
  <2>2. Me > 0 /\ done = RunsOf(Conf) /\ Target = <<Report, "markdown">> /\ Target \in Path
    BY <2>1, TargetFacts DEF StageInv
  <2>3. /\ Me' = Me /\ Conf' = Conf
        /\ files' = [files EXCEPT ![Target] = Mine]
    BY <1>1, SameConf DEF FillReport, End, Mine
  <2>4. files'[<<Report, "markdown">>] = Mine
    BY <2>2, <2>3 DEF TypeOK
  <2>5. \A p \in Path : p # Target => files'[p] = files[p]
    BY <2>1, WriteEffect
  <2>6. files'[<<Report, "json">>] = Mine
    BY <2>1, <2>2, <2>5, PathFacts DEF OwnInv
  <2>7. \A r \in RunsOf(Conf) : \A p \in SuitePaths(Conf, r) : files'[p] = Mine
    <3> SUFFICES ASSUME NEW r \in RunsOf(Conf), NEW p \in SuitePaths(Conf, r)
                 PROVE  files'[p] = Mine
      OBVIOUS
    <3>1. PICK n \in 1..LastDocument :
            r \in Run /\ p = <<r, Document(Conf, n)>> /\ Document(Conf, n) \in Docs /\ p \in Path
      BY <2>2, SuitePathFacts
    <3>2. p # Target
      BY <2>2, <3>1, PathFacts
    <3>3. files[p] = Mine
      BY <2>1, <2>2 DEF OwnInv
    <3> QED  BY <2>5, <3>1, <3>2, <3>3
  <2>8. \A p \in PathsOf(Conf) : files'[p] = Mine
    <3> SUFFICES ASSUME NEW p \in PathsOf(Conf) PROVE files'[p] = Mine
      OBVIOUS
    <3>1. CASE p \in ReportPaths
      BY <2>4, <2>6, <3>1, PathFacts
    <3>2. CASE p \notin ReportPaths
      <4>1. p \in UNION {SuitePaths(Conf, r) : r \in RunsOf(Conf)}
        BY <3>2 DEF PathsOf
      <4>2. \E r \in RunsOf(Conf) : p \in SuitePaths(Conf, r)
        BY <4>1
      <4> QED  BY <2>7, <4>2
    <3> QED  BY <3>1, <3>2
  <2>9. PathsOf(Conf)' = PathsOf(Conf) /\ Mine' = Mine
    BY <2>3 DEF PathsOf, RunsOf, SuitePaths, ReportPaths, Mine
  <2> QED  BY <2>3, <2>8, <2>9 DEF CompletedIsConsistent, Mine
<1>2. CASE UNCHANGED vars
  <2>1. UNCHANGED <<invocations, files, stage, outcome>>
    BY <1>2 DEF vars, disk
  <2>2. Me' = Me /\ PathsOf(Conf)' = PathsOf(Conf)
    BY <2>1 DEF PathsOf, RunsOf, SuitePaths, ReportPaths, Conf, Me
  <2> QED  BY <2>1, <2>2 DEF CompletedIsConsistent
<1>3. CASE Next /\ ~(FillReport /\ End("completed"))
  <2>1. ~(stage' = "idle" /\ outcome' = "completed")
    BY <1>3 DEF Next, Start, LoadConfig, PrepareRuns, PrepareOutputs, RunSuite, CheckArtifacts,
       MakeDirectories, OpenFile, FillFile, Compare, FillReport, WriteFails, Crash, Proceed, End,
       TypeOK
  <2> QED  BY <2>1 DEF CompletedIsConsistent
<1> QED  BY <1>1, <1>2, <1>3

LEMMA InputSuffices ==
  ASSUME TypeOK, StageInv, stage = "run", NEW r \in RunsOf(Conf)
  PROVE  EvaluationAccepts(Input(Conf, r))
<1>1. InputOk(Input(Conf, r)) /\ Conf \in Config
  BY ConfFacts DEF StageInv, AfterInputs, AfterLoad
<1>2. Input(Conf, r).admitted \in Nat
  BY <1>1, ConfigAssumption DEF Input, RunsOf, Run
<1>3. CASE Composed(Input(Conf, r))
  BY <1>1, <1>3 DEF InputOk, CountsMatch, EvaluationAccepts
<1>4. CASE ~Composed(Input(Conf, r))
  BY <1>1, <1>2, <1>4 DEF InputOk, CountsMatch, EvaluationAccepts, Composed, NoComposition
<1> QED  BY <1>3, <1>4

LEMMA AtLeastTwo ==
  ASSUME NEW S, IsFiniteSet(S), NEW a \in S, NEW b \in S, a # b
  PROVE  Cardinality(S) >= 2
<1>1. IsFiniteSet({a}) /\ Cardinality({a}) = 1
  BY FS_Singleton
<1>2. Cardinality({a} \cup {b}) = 2
  BY <1>1, FS_AddElement
<1>3. Cardinality({a} \cup {b}) <= Cardinality(S)
  BY FS_Subset
<1> QED  BY <1>2, <1>3, FS_CardinalityType

LEMMA MatrixPaired ==
  ASSUME NEW c \in Config, ValidConfig(c)
  PROVE  Paired(RunsOf(c))
<1> DEFINE suites == {r[1] : r \in RunsOf(c)}
           RepetitionsOf(s) == {r[2] : r \in {q \in RunsOf(c) : q[1] = s}}
<1>1. /\ c.suites \in Seq(Suite) /\ c.repetitions \in Seq(Repetition)
      /\ Len(c.suites) \in Nat /\ Len(c.suites) >= 2
      /\ DOMAIN c.suites = 1..Len(c.suites)
  BY ConfigAssumption DEF ValidConfig
<1>2. Range(c.suites) \subseteq Suite
  BY <1>1 DEF Range
<1>3. PICK n \in Repetition : n \in Range(c.repetitions)
  <2>1. Len(c.repetitions) \in Nat /\ Len(c.repetitions) # 0
    BY <1>1, EmptySeq DEF ValidConfig
  <2>2. 1 \in DOMAIN c.repetitions /\ c.repetitions[1] \in Repetition
    BY <1>1, <2>1
  <2> QED  BY <2>2 DEF Range
<1>4. \A s \in Range(c.suites) : <<s, n>> \in RunsOf(c)
  BY <1>2, <1>3 DEF RunsOf, Run, ValidConfig
<1>5. suites = Range(c.suites)
  <2>1. \A r \in RunsOf(c) : r[1] \in Range(c.suites)
    BY DEF RunsOf
  <2>2. \A s \in Range(c.suites) : <<s, n>> \in RunsOf(c) /\ <<s, n>>[1] = s
    BY <1>4
  <2>3. \A s \in Range(c.suites) : \E r \in RunsOf(c) : s = r[1]
    BY <2>2
  <2> QED  BY <2>1, <2>3
<1>6. Cardinality(suites) >= 2
  <2>0. 1 \in DOMAIN c.suites /\ 2 \in DOMAIN c.suites
    BY <1>1
  <2>1. c.suites[1] \in suites /\ c.suites[2] \in suites /\ c.suites[1] # c.suites[2]
    <3>1. c.suites[1] # c.suites[2]
      BY <2>0 DEF ValidConfig, Unique
    <3>2. c.suites[1] \in Range(c.suites) /\ c.suites[2] \in Range(c.suites)
      BY <2>0 DEF Range
    <3> HIDE DEF suites
    <3> QED  BY <1>5, <3>1, <3>2
  <2>2. IsFiniteSet(Range(c.suites))
    <3>1. c.suites \in Surjection(1..Len(c.suites), Range(c.suites))
      BY <1>1 DEF Surjection, Range
    <3>2. IsFiniteSet(1..Len(c.suites))
      BY <1>1, FS_Interval
    <3> QED  BY <3>1, <3>2, FS_Surjection
  <2> HIDE DEF suites
  <2> QED  BY <1>5, <2>1, <2>2, AtLeastTwo
<1>7. \A s \in suites : RepetitionsOf(s) = Range(c.repetitions)
  <2> SUFFICES ASSUME NEW s \in Range(c.suites) PROVE RepetitionsOf(s) = Range(c.repetitions)
    BY <1>5
  <2>1. DOMAIN c.inputs[s] = Range(c.repetitions) /\ Range(c.repetitions) \subseteq Repetition
    BY <1>1 DEF ValidConfig, Range
  <2>2. \A m \in Range(c.repetitions) : <<s, m>> \in RunsOf(c)
    BY <1>2, <2>1 DEF RunsOf, Run
  <2>3. \A r \in {q \in RunsOf(c) : q[1] = s} : r[2] \in Range(c.repetitions)
    BY <2>1 DEF RunsOf
  <2>4. \A m \in Range(c.repetitions) : \E r \in {q \in RunsOf(c) : q[1] = s} : m = r[2]
    <3> SUFFICES ASSUME NEW m \in Range(c.repetitions)
                 PROVE  \E r \in {q \in RunsOf(c) : q[1] = s} : m = r[2]
      OBVIOUS
    <3>1. <<s, m>> \in {q \in RunsOf(c) : q[1] = s} /\ <<s, m>>[2] = m
      BY <2>2
    <3> QED  BY <3>1
  <2> QED  BY <2>3, <2>4
<1> QED  BY <1>6, <1>7 DEF Paired

LEMMA PreflightStep ==
  ASSUME TypeOK, StageInv, PreflightSuffices, [Next]_vars
  PROVE  PreflightSuffices'
<1>1. ASSUME NEW r \in Run, RunSuite(r) PROVE PreflightSuffices'
  <2>1. EvaluationAccepts(Input(Conf, r))
    BY <1>1, InputSuffices DEF RunSuite, Pending
  <2> QED  BY <1>1, <2>1 DEF RunSuite, End, PreflightSuffices
<1>2. CASE Compare
  <2>1. Conf \in Config /\ ValidConfig(Conf) /\ done = RunsOf(Conf)
    BY <1>2, ConfFacts DEF Compare, StageInv, AfterLoad, Pending
  <2>2. Paired(done)
    BY <2>1, MatrixPaired
  <2> QED  BY <1>2, <2>2 DEF Compare, End, Proceed, PreflightSuffices
<1>3. CASE UNCHANGED vars
  BY <1>3 DEF vars, PreflightSuffices
<1>4. CASE Next /\ ~Compare /\ \A r \in Run : ~RunSuite(r)
  BY <1>4 DEF Next, Start, LoadConfig, PrepareRuns, PrepareOutputs, CheckArtifacts,
     MakeDirectories, OpenFile, FillFile, FillReport, WriteFails, Crash, Proceed, End,
     PreflightSuffices
<1> QED  BY <1>1, <1>2, <1>3, <1>4

----------------------------------------------------------------------------
(* The theorems. *)

THEOREM PipelineInductive == Spec => []PipelineInv
<1>1. Init => PipelineInv
  BY InitInv
<1>2. PipelineInv /\ [Next]_vars => PipelineInv'
  <2> SUFFICES ASSUME PipelineInv, [Next]_vars PROVE PipelineInv'
    OBVIOUS
  <2>1. TypeOK' /\ StageInv' /\ OwnInv' /\ FreshInv'
    BY TypeStep, StageStep, OwnStep, FreshStep DEF PipelineInv
  <2>2. DerivedIsNeverAhead' /\ CompletedIsConsistent' /\ PreflightSuffices'
    BY DerivedStep, CompletedStep, PreflightStep DEF PipelineInv
  <2> QED  BY <2>1, <2>2 DEF PipelineInv
<1> QED  BY <1>1, <1>2, PTL DEF Spec

\* The types of the pipeline's state, and that only a suite repetition still to
\* be done is ever being run (run_benchmark_config).
THEOREM PipelineTypeCorrect == Spec => []TypeOK
<1>1. PipelineInv => TypeOK
  BY DEF PipelineInv
<1> QED  BY <1>1, PipelineInductive, PTL

\* Wherever invocations stop, with or without --overwrite, an evaluation has its
\* raw runs, a comparison its evaluations and the Markdown its JSON
\* (write_evaluated_suite_artifacts, run_benchmark_config).
THEOREM DerivedSafe == Spec => []DerivedIsNeverAhead
<1>1. PipelineInv => DerivedIsNeverAhead
  BY DEF PipelineInv
<1> QED  BY <1>1, PipelineInductive, PTL

\* A completed invocation has left all artifacts of its matrix, whole and its
\* own (run_benchmark_config).
THEOREM CompletedSafe == Spec => []CompletedIsConsistent
<1>1. PipelineInv => CompletedIsConsistent
  BY DEF PipelineInv
<1> QED  BY <1>1, PipelineInductive, PTL

\* What _prepare_runs and BenchmarkConfig let through fails neither on case
\* counts nor on pairing afterwards (evaluate_suite_execution,
\* compare_evaluations).
THEOREM PreflightSafe == Spec => []PreflightSuffices
<1>1. PipelineInv => PreflightSuffices
  BY DEF PipelineInv
<1> QED  BY <1>1, PipelineInductive, PTL

\* Without --overwrite nothing an earlier invocation left is touched
\* (_prepare_outputs, write_evaluated_suite_artifacts).
THEOREM PreserveSafe == Spec => DefaultPreserves
<1>1. PipelineInv /\ [Next]_vars =>
        [\A p \in Path : Exists(p) /\ files'[p] # files[p] => Overwrite \/ files[p].by = Me]_vars
  BY PreserveStep DEF PipelineInv
<1> QED  BY <1>1, PipelineInductive, PTL DEF Spec, DefaultPreserves
============================================================================
