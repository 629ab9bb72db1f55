--------------------------- MODULE WorkflowProofs ---------------------------
(***************************************************************************)
(* The commands keep what they are given: no artifact of an earlier        *)
(* command is lost without --overwrite, and no artifact stands without     *)
(* what it was made from. The artifacts fit each other: what a command     *)
(* left when it succeeded is accepted by run-suite, and an evaluation      *)
(* joins files of one attempt. Proved for any replies, adaptations and     *)
(* packs, any number of commands, and any failure or kill among their      *)
(* writes. Inv says which files are there, LineageInv what they hold.      *)
(***************************************************************************)
EXTENDS Workflow, SequenceTheorems, FiniteSetTheorems, WellFoundedInduction, TLAPS

\* An artifact with this content was made from the artifact at source.
Needs(path, content, source) ==
  \/ path = "record" /\ source = "raw" /\ content.kind = "GenerationRecord" /\ content.answered
  \/ path = "cases" /\ source = "record"
  \/ path = "composition" /\ source = "composedCases"

----------------------------------------------------------------------------
(* The inductive invariant *)

\* Files are stamped by commands that started; so is the latest --overwrite.
StampsInv ==
  /\ files = [path \in Paths |-> files[path]]
  /\ started \in Nat
  /\ forced \in Nat /\ forced <= started
  /\ \A path \in Paths : files[path].by \in Nat /\ files[path].by <= started

\* The command under way has not written its pending files, and writes each once.
PendingInv ==
  /\ \E S : pending \in Seq(S)
  /\ \A i \in 1..Len(pending) : pending[i][1] \in Paths /\ files[pending[i][1]].by < started
  /\ \A i, j \in 1..Len(pending) : pending[i][1] = pending[j][1] => i = j

\* Without --overwrite its outputs were found missing.
MissingInv ==
  \/ forced = started
  \/ \A i \in 1..Len(pending) : pending[i][1] = "result" \/ files[pending[i][1]].by = 0

\* What is on disk has its source beside it.
KeptInv ==
  \A path, source \in Paths : Needs(path, Content(path), source) => KeptBeside(path, source)

\* What is still to be written has its source written by now, or before it.
OrderInv ==
  \A i \in 1..Len(pending), source \in Paths :
    Needs(pending[i][1], pending[i][2], source) =>
      \/ files[source].by = started /\ files[source].whole
      \/ \E j \in 1..(i - 1) : pending[j][1] = source

Inv == StampsInv /\ PendingInv /\ MissingInv /\ KeptInv /\ OrderInv

----------------------------------------------------------------------------
(* Sequences of writes *)

\* What a command may plan to write: known paths, each once, each artifact
\* after its source.
IsPlan(writes) ==
  /\ \E S : writes \in Seq(S)
  /\ \A i \in 1..Len(writes) : writes[i][1] \in Paths
  /\ \A i, j \in 1..Len(writes) : writes[i][1] = writes[j][1] => i = j
  /\ \A i \in 1..Len(writes), source \in Paths :
       Needs(writes[i][1], writes[i][2], source) => \E j \in 1..(i - 1) : writes[j][1] = source

\* The paths it names.
PathsOf(writes) == {writes[i][1] : i \in 1..Len(writes)}

\* A command with one output that needs no source.
LEMMA OneWrite ==
  ASSUME NEW path \in Paths, NEW content, \A source \in Paths : ~Needs(path, content, source)
  PROVE  /\ IsPlan(<<<<path, content>>>>)
         /\ PathsOf(<<<<path, content>>>>) \subseteq {path}
<1> DEFINE a == <<path, content>>
<1> HIDE DEF a
<1>1. <<a>> \in Seq({a}) /\ Len(<<a>>) = 1 /\ <<a>>[1] = a
  OBVIOUS
<1>2. a[1] = path /\ a[2] = content
  BY DEF a
<1>3. IsPlan(<<a>>) /\ PathsOf(<<a>>) \subseteq {path}
  <2> DEFINE w == <<a>>
  <2>1. w \in Seq({a}) /\ Len(w) = 1 /\ w[1] = a
    BY <1>1
  <2> HIDE DEF w
  <2>2. \E S : w \in Seq(S)
    BY <2>1
  <2>3. \A i \in 1..Len(w) : i = 1
    BY <2>1
  <2>4. \A i \in 1..Len(w) : w[i][1] \in Paths
    BY <1>2, <2>1, <2>3
  <2>5. \A i, j \in 1..Len(w) : w[i][1] = w[j][1] => i = j
    BY <1>2, <2>1, <2>3
  <2>6. ASSUME NEW i \in 1..Len(w), NEW source \in Paths, Needs(w[i][1], w[i][2], source)
        PROVE  \E j \in 1..(i - 1) : w[j][1] = source
    BY <1>2, <2>1, <2>3, <2>6
  <2>7. IsPlan(w)
    BY <2>2, <2>4, <2>5, <2>6 DEF IsPlan
  <2>8. PathsOf(w) \subseteq {path}
    BY <1>2, <2>1, <2>3 DEF PathsOf
  <2> QED
    BY <2>7, <2>8 DEF w
<1> QED
  BY <1>3 DEF a

\* Two outputs, of which only the second may need the first.
LEMMA TwoWrites ==
  ASSUME NEW p \in Paths, NEW q \in Paths, NEW c, NEW d, p # q,
         \A source \in Paths : ~Needs(p, c, source),
         \A source \in Paths : Needs(q, d, source) => source = p
  PROVE  /\ IsPlan(<<<<p, c>>, <<q, d>>>>)
         /\ PathsOf(<<<<p, c>>, <<q, d>>>>) \subseteq {p, q}
<1> DEFINE a == <<p, c>>
           b == <<q, d>>
<1> HIDE DEF a, b
<1>1. /\ <<a, b>> \in Seq({a, b}) /\ Len(<<a, b>>) = 2
      /\ <<a, b>>[1] = a /\ <<a, b>>[2] = b
  OBVIOUS
<1>2. a[1] = p /\ a[2] = c /\ b[1] = q /\ b[2] = d
  BY DEF a, b
<1>3. IsPlan(<<a, b>>) /\ PathsOf(<<a, b>>) \subseteq {p, q}
  <2> DEFINE w == <<a, b>>
  <2>1. w \in Seq({a, b}) /\ Len(w) = 2 /\ w[1] = a /\ w[2] = b
    BY <1>1
  <2> HIDE DEF w
  <2>2. \E S : w \in Seq(S)
    BY <2>1
  <2>3. \A i \in 1..Len(w) : i = 1 \/ i = 2
    BY <2>1
  <2>4. \A i \in 1..Len(w) : w[i][1] \in Paths
    BY <1>2, <2>1, <2>3
  <2>5. \A i, j \in 1..Len(w) : w[i][1] = w[j][1] => i = j
    BY <1>2, <2>1, <2>3
  <2>6. ASSUME NEW i \in 1..Len(w), NEW source \in Paths, Needs(w[i][1], w[i][2], source)
        PROVE  \E j \in 1..(i - 1) : w[j][1] = source
    BY <1>2, <2>1, <2>3, <2>6
  <2>7. IsPlan(w)
    BY <2>2, <2>4, <2>5, <2>6 DEF IsPlan
  <2>8. PathsOf(w) \subseteq {p, q}
    BY <1>2, <2>1, <2>3 DEF PathsOf
  <2> QED
    BY <2>7, <2>8 DEF w
<1> QED
  BY <1>3 DEF a, b

\* Three outputs, each of which may need the one before it.
LEMMA ThreeWrites ==
  ASSUME NEW p \in Paths, NEW q \in Paths, NEW r \in Paths, NEW c, NEW d, NEW e,
         p # q, p # r, q # r,
         \A source \in Paths : ~Needs(p, c, source),
         \A source \in Paths : Needs(q, d, source) => source = p,
         \A source \in Paths : Needs(r, e, source) => source = q
  PROVE  /\ IsPlan(<<<<p, c>>, <<q, d>>, <<r, e>>>>)
         /\ PathsOf(<<<<p, c>>, <<q, d>>, <<r, e>>>>) \subseteq {p, q, r}
<1> DEFINE a == <<p, c>>
           b == <<q, d>>
           f == <<r, e>>
<1> HIDE DEF a, b, f
<1>1. /\ <<a, b, f>> \in Seq({a, b, f}) /\ Len(<<a, b, f>>) = 3
      /\ <<a, b, f>>[1] = a /\ <<a, b, f>>[2] = b /\ <<a, b, f>>[3] = f
  OBVIOUS
<1>2. a[1] = p /\ a[2] = c /\ b[1] = q /\ b[2] = d /\ f[1] = r /\ f[2] = e
  BY DEF a, b, f
<1>3. IsPlan(<<a, b, f>>) /\ PathsOf(<<a, b, f>>) \subseteq {p, q, r}
  <2> DEFINE w == <<a, b, f>>
  <2>1. w \in Seq({a, b, f}) /\ Len(w) = 3 /\ w[1] = a /\ w[2] = b /\ w[3] = f
    BY <1>1
  <2> HIDE DEF w
  <2>2. \E S : w \in Seq(S)
    BY <2>1
  <2>3. \A i \in 1..Len(w) : i = 1 \/ i = 2 \/ i = 3
    BY <2>1
  <2>4. \A i \in 1..Len(w) : w[i][1] \in Paths
    BY <1>2, <2>1, <2>3
  <2>5. \A i, j \in 1..Len(w) : w[i][1] = w[j][1] => i = j
    BY <1>2, <2>1, <2>3
  <2>6. ASSUME NEW i \in 1..Len(w), NEW source \in Paths, Needs(w[i][1], w[i][2], source)
        PROVE  \E j \in 1..(i - 1) : w[j][1] = source
    BY <1>2, <2>1, <2>3, <2>6
  <2>7. IsPlan(w)
    BY <2>2, <2>4, <2>5, <2>6 DEF IsPlan
  <2>8. PathsOf(w) \subseteq {p, q, r}
    BY <1>2, <2>1, <2>3 DEF PathsOf
  <2> QED
    BY <2>7, <2>8 DEF w
<1> QED
  BY <1>3 DEF a, b, f

\* What is left to write after the next artifact.
LEMMA RestOfPending ==
  ASSUME PendingInv, pending # <<>>
  PROVE  /\ Len(pending) \in Nat \ {0}
         /\ \E S : Tail(pending) \in Seq(S)
         /\ Len(Tail(pending)) = Len(pending) - 1
         /\ \A i \in 1..Len(Tail(pending)) : Tail(pending)[i] = pending[i + 1]
<1>1. PICK S : pending \in Seq(S)
  BY DEF PendingInv
<1>2. /\ Tail(pending) \in Seq(S)
      /\ Len(Tail(pending)) = Len(pending) - 1
      /\ \A i \in 1..Len(Tail(pending)) : Tail(pending)[i] = pending[i + 1]
  BY <1>1, HeadTailProperties
<1>3. Len(pending) \in Nat \ {0}
  BY <1>1, EmptySeq
<1> QED
  BY <1>2, <1>3

----------------------------------------------------------------------------
(* Commands *)

\* A command that starts with a plan, over outputs that are missing or that
\* it may write over, keeps the invariant.
LEMMA StartKeeps ==
  ASSUME Inv, NEW name, NEW overwrite \in BOOLEAN, NEW attempt, NEW writes, NEW exits,
         Start(name, overwrite, attempt, writes, exits),
         IsPlan(writes),
         overwrite \/ \A path \in PathsOf(writes) : path = "result" \/ files[path].by = 0
  PROVE  Inv'
<1> USE DEF Inv
<1>1. /\ files' = files /\ started' = started + 1 /\ pending' = writes
      /\ forced' = IF overwrite THEN started' ELSE forced
  BY DEF Start
<1>2. StampsInv'
  BY <1>1 DEF StampsInv
<1>3. PendingInv'
  BY <1>1 DEF PendingInv, IsPlan, StampsInv
<1>4. MissingInv'
  BY <1>1 DEF MissingInv, PathsOf
<1>5. KeptInv'
  BY <1>1 DEF KeptInv, KeptBeside, Reads, Content
<1>6. OrderInv'
  BY <1>1 DEF OrderInv, IsPlan
<1> QED
  BY <1>2, <1>3, <1>4, <1>5, <1>6


\* Which artifacts are made from which.
LEMMA Sources ==
  /\ {"raw", "record", "cases", "composedCases", "composition", "evaluation",
      "comparison", "markdown", "result"} \subseteq Paths
  /\ \A path \in Paths \ {"record", "cases", "composition"} : \A content : \A source \in Paths :
       ~Needs(path, content, source)
  /\ \A content : \A source \in Paths :
       /\ Needs("record", content, source) =>
            source = "raw" /\ content.kind = "GenerationRecord" /\ content.answered
       /\ Needs("cases", content, source) => source = "record"
       /\ Needs("composition", content, source) => source = "composedCases"
BY DEF Paths, Needs

\* generate: text, record, batch, as far as there are any.
LEMMA GenerationPlan ==
  ASSUME NEW attempt
  PROVE  /\ IsPlan(GenerationWrites(attempt))
         /\ PathsOf(GenerationWrites(attempt)) \subseteq {"cases", "record", "raw"}
<1> DEFINE record == GenerationRecord(attempt)
<1>1. record.answered = attempt.answered
  BY DEF GenerationRecord
<1> HIDE DEF record
<1>2. CASE ~attempt.answered
  <2>1. GenerationWrites(attempt) = <<<<"record", record>>>>
    BY <1>2 DEF GenerationWrites, record
  <2>2. \A source \in Paths : ~Needs("record", record, source)
    BY <1>1, <1>2, Sources
  <2> QED
    BY <2>1, <2>2, Sources, OneWrite
<1>3. CASE attempt.answered /\ attempt.batch = <<>>
  <2>1. GenerationWrites(attempt) = <<<<"raw", Nothing>>, <<"record", record>>>>
    BY <1>3 DEF GenerationWrites, record
  <2>2. /\ "raw" \in Paths /\ "record" \in Paths /\ "raw" # "record"
        /\ \A source \in Paths : ~Needs("raw", Nothing, source)
        /\ \A source \in Paths : Needs("record", record, source) => source = "raw"
    BY Sources
  <2>3. /\ IsPlan(<<<<"raw", Nothing>>, <<"record", record>>>>)
        /\ PathsOf(<<<<"raw", Nothing>>, <<"record", record>>>>) \subseteq {"raw", "record"}
    BY <2>2, TwoWrites
  <2> QED
    BY <2>1, <2>3
<1>4. CASE attempt.answered /\ attempt.batch # <<>>
  <2>1. GenerationWrites(attempt) =
          <<<<"raw", Nothing>>, <<"record", record>>, <<"cases", attempt.batch>>>>
    BY <1>4 DEF GenerationWrites, record
  <2>2. /\ "raw" \in Paths /\ "record" \in Paths /\ "cases" \in Paths
        /\ "raw" # "record" /\ "raw" # "cases" /\ "record" # "cases"
        /\ \A source \in Paths : ~Needs("raw", Nothing, source)
        /\ \A source \in Paths : Needs("record", record, source) => source = "raw"
        /\ \A source \in Paths : Needs("cases", attempt.batch, source) => source = "record"
    BY Sources
  <2> DEFINE writes == <<<<"raw", Nothing>>, <<"record", record>>, <<"cases", attempt.batch>>>>
  <2>3. IsPlan(writes) /\ PathsOf(writes) \subseteq {"raw", "record", "cases"}
    BY <2>2, ThreeWrites
  <2> QED
    BY <2>1, <2>3
<1> QED
  BY <1>2, <1>3, <1>4

\* Each command keeps the invariant when it starts to write.
LEMMA GenerateKeeps ==
  ASSUME Inv, NEW overwrite \in BOOLEAN, Generate(overwrite)
  PROVE  Inv'
<1>1. PICK reply \in Replies :
        /\ MayWrite({"cases", "record", "raw"}, overwrite)
        /\ Start("generate", overwrite, started + 1, GenerationWrites(GenerateCases(reply)),
                 IF GenerateCases(reply).batch # <<>> THEN "ok" ELSE "failed")
  BY DEF Generate, PrepareGenerationOutputs
<1>2. /\ IsPlan(GenerationWrites(GenerateCases(reply)))
      /\ PathsOf(GenerationWrites(GenerateCases(reply))) \subseteq {"cases", "record", "raw"}
  BY GenerationPlan
<1>3. overwrite \/ \A path \in PathsOf(GenerationWrites(GenerateCases(reply))) : files[path].by = 0
  BY <1>1, <1>2 DEF MayWrite, Exists
<1> QED
  BY <1>1, <1>2, <1>3, StartKeeps

LEMMA BaselineKeeps ==
  ASSUME Inv, NEW overwrite \in BOOLEAN, GenerateBaseline(overwrite)
  PROVE  Inv'
<1>1. PICK adaptation \in Adaptations :
        /\ MayWrite({"cases", "record"}, overwrite)
        /\ Start("generate-baseline", overwrite, started + 1,
                 IF adaptation.batch = <<>> THEN <<<<"record", adaptation.record>>>>
                 ELSE <<<<"record", adaptation.record>>, <<"cases", adaptation.batch>>>>,
                 IF adaptation.batch # <<>> THEN "ok" ELSE "failed")
  BY DEF GenerateBaseline, PrepareBaselineOutputs
<1> DEFINE record == adaptation.record
           writes == IF adaptation.batch = <<>> THEN <<<<"record", record>>>>
                     ELSE <<<<"record", record>>, <<"cases", adaptation.batch>>>>
<1>2. record.kind = "AdaptationRecord"
  BY AdaptationsAssumption
<1>3. IsPlan(writes) /\ PathsOf(writes) \subseteq {"cases", "record"}
  <2> HIDE DEF record
  <2>1. CASE adaptation.batch = <<>>
    BY <1>2, <2>1, Sources, OneWrite
  <2>2. CASE adaptation.batch # <<>>
    <3>1. \A source \in Paths : ~Needs("record", record, source)
      BY <1>2, Sources
    <3>2. \A source \in Paths : Needs("cases", adaptation.batch, source) => source = "record"
      BY Sources
    <3>3. "record" \in Paths /\ "cases" \in Paths /\ "record" # "cases"
      BY Sources
    <3>4. writes = <<<<"record", record>>, <<"cases", adaptation.batch>>>>
      BY <2>2
    <3> HIDE DEF writes
    <3> QED
      BY <3>1, <3>2, <3>3, <3>4, TwoWrites
  <2> QED
    BY <2>1, <2>2
<1>4. overwrite \/ \A path \in PathsOf(writes) : files[path].by = 0
  BY <1>1, <1>3 DEF MayWrite, Exists
<1> QED
  BY <1>1, <1>3, <1>4, StartKeeps

LEMMA ComposeKeeps ==
  ASSUME Inv, NEW overwrite \in BOOLEAN, Compose(overwrite)
  PROVE  Inv'
<1>1. PICK packs \in Packs :
        /\ MayWrite({"composedCases", "composition"}, overwrite)
        /\ Start("compose", overwrite, files["cases"].attempt,
                 <<<<"composedCases", ComposedCases(Content("cases"), packs)>>,
                   <<"composition", CompositionRecord(Content("cases"), packs)>>>>, "ok")
  BY DEF Compose, PrepareCompositionOutputs
<1> DEFINE writes == <<<<"composedCases", ComposedCases(Content("cases"), packs)>>,
                       <<"composition", CompositionRecord(Content("cases"), packs)>>>>
<1>2. IsPlan(writes) /\ PathsOf(writes) \subseteq {"composedCases", "composition"}
  <2>1. /\ "composedCases" \in Paths /\ "composition" \in Paths /\ "composedCases" # "composition"
        /\ \A content : \A source \in Paths : ~Needs("composedCases", content, source)
        /\ \A content : \A source \in Paths :
             Needs("composition", content, source) => source = "composedCases"
    BY Sources
  <2> QED
    BY <2>1, TwoWrites
<1>3. overwrite \/ \A path \in PathsOf(writes) : files[path].by = 0
  BY <1>1, <1>2 DEF MayWrite, Exists
<1> QED
  BY <1>1, <1>2, <1>3, StartKeeps

LEMMA RunSuiteKeeps ==
  ASSUME Inv, NEW overwrite \in BOOLEAN, RunSuite(overwrite)
  PROVE  Inv'
<1>1. PICK attempt, content :
        /\ MayWrite({"evaluation"}, overwrite)
        /\ Start("run-suite", overwrite, attempt, <<<<"evaluation", content>>>>, "ok")
  BY DEF RunSuite, PrepareBenchmarkOutput
<1>2. IsPlan(<<<<"evaluation", content>>>>) /\ PathsOf(<<<<"evaluation", content>>>>) \subseteq {"evaluation"}
  BY OneWrite, Sources
<1>3. overwrite \/ \A path \in PathsOf(<<<<"evaluation", content>>>>) : files[path].by = 0
  BY <1>1, <1>2 DEF MayWrite, Exists
<1> QED
  BY <1>1, <1>2, <1>3, StartKeeps

LEMMA ReportCompareKeeps ==
  ASSUME Inv, NEW overwrite \in BOOLEAN, ReportCompare(overwrite)
  PROVE  Inv'
<1> DEFINE writes == <<<<"comparison", Nothing>>, <<"markdown", Nothing>>>>
<1>1. /\ MayWrite({"comparison", "markdown"}, overwrite)
      /\ Start("report-compare", overwrite, 0, writes, "ok")
  BY DEF ReportCompare, PrepareComparisonOutputs
<1>2. IsPlan(writes) /\ PathsOf(writes) \subseteq {"comparison", "markdown"}
  <2>1. /\ "comparison" \in Paths /\ "markdown" \in Paths /\ "comparison" # "markdown"
        /\ \A source \in Paths : ~Needs("comparison", Nothing, source)
        /\ \A source \in Paths : ~Needs("markdown", Nothing, source)
    BY Sources
  <2> QED
    BY <2>1, TwoWrites
<1>3. overwrite \/ \A path \in PathsOf(writes) : files[path].by = 0
  BY <1>1, <1>2 DEF MayWrite, Exists
<1> QED
  BY <1>1, <1>2, <1>3, StartKeeps

LEMMA RunCasesKeeps ==
  ASSUME Inv, RunCases
  PROVE  Inv'
<1>1. PICK attempt : Start("cases-run", FALSE, attempt, <<<<"result", Nothing>>>>, "ok")
  BY DEF RunCases
<1>2. IsPlan(<<<<"result", Nothing>>>>) /\ PathsOf(<<<<"result", Nothing>>>>) \subseteq {"result"}
  BY OneWrite, Sources
<1> QED
  BY <1>1, <1>2, StartKeeps

----------------------------------------------------------------------------
(* Writing *)

\* The file under way is not written yet, and not written again.
LEMMA FileUnderWay ==
  ASSUME Inv, pending # <<>>
  PROVE  /\ pending[1][1] \in Paths /\ files[pending[1][1]].by < started
         /\ \A i \in 1..Len(Tail(pending)) :
              i + 1 \in 1..Len(pending) /\ Tail(pending)[i] = pending[i + 1]
              /\ Tail(pending)[i][1] # pending[1][1]
<1>1. /\ Len(pending) \in Nat \ {0} /\ Len(Tail(pending)) = Len(pending) - 1
      /\ \A i \in 1..Len(Tail(pending)) : Tail(pending)[i] = pending[i + 1]
  BY RestOfPending DEF Inv
<1>2. 1 \in 1..Len(pending) /\ \A i \in 1..Len(Tail(pending)) : i + 1 \in 1..Len(pending) /\ i + 1 # 1
  BY <1>1
<1> QED
  BY <1>1, <1>2 DEF Inv, PendingInv

\* A write, whole or not, keeps the invariant.
LEMMA WriteNextKeeps ==
  ASSUME Inv, WriteNext
  PROVE  Inv'
<1> DEFINE next == pending[1][1]
<1>1. /\ pending # <<>> /\ pending' = Tail(pending) /\ started' = started /\ forced' = forced
      /\ files' = [files EXCEPT ![next] =
                     [by |-> started, attempt |-> command.attempt, whole |-> TRUE,
                      content |-> pending[1][2]]]
  BY DEF WriteNext
<1>2. /\ next \in Paths /\ files[next].by < started
      /\ \A i \in 1..Len(Tail(pending)) :
           i + 1 \in 1..Len(pending) /\ Tail(pending)[i] = pending[i + 1] /\ Tail(pending)[i][1] # next
  BY <1>1, FileUnderWay
<1>3. /\ files' = [path \in Paths |-> files'[path]]
      /\ files'[next].by = started /\ files'[next].whole /\ files'[next].content = pending[1][2]
      /\ \A path \in Paths \ {next} : files'[path] = files[path]
  BY <1>1, <1>2 DEF Inv, StampsInv
<1> HIDE DEF next
<1>4. StampsInv'
  BY <1>1, <1>2, <1>3 DEF Inv, StampsInv
<1>5. PendingInv'
  <2>1. (\E S : pending \in Seq(S))' /\ Len(Tail(pending)) \in Nat
    BY <1>1, RestOfPending DEF Inv
  <2>2. \A i \in 1..Len(Tail(pending)) :
          Tail(pending)[i][1] \in Paths /\ files'[Tail(pending)[i][1]].by < started
    BY <1>2, <1>3 DEF Inv, PendingInv
  <2>3. \A i, j \in 1..Len(Tail(pending)) : Tail(pending)[i][1] = Tail(pending)[j][1] => i = j
    <3> SUFFICES ASSUME NEW i \in 1..Len(Tail(pending)), NEW j \in 1..Len(Tail(pending)),
                        Tail(pending)[i][1] = Tail(pending)[j][1]
                 PROVE  i = j
      OBVIOUS
    <3>1. i + 1 = j + 1
      BY <1>2 DEF Inv, PendingInv
    <3> QED
      BY <2>1, <3>1
  <2> QED
    BY <1>1, <2>1, <2>2, <2>3 DEF PendingInv
<1>6. MissingInv'
  BY <1>1, <1>2, <1>3 DEF Inv, PendingInv, MissingInv
<1>7. KeptInv'
  <2> SUFFICES ASSUME NEW path \in Paths, NEW source \in Paths,
                      Needs(path, Content(path), source)', Reads(path)'
               PROVE  \/ files'[source].by > files'[path].by
                      \/ files'[source].by = files'[path].by /\ files'[source].whole
    BY DEF KeptInv, KeptBeside, Reads
  <2>1. CASE path = next
    <3>1. Needs(path, pending[1][2], source) /\ source # path
      BY <1>3, <2>1 DEF Needs, Content
    <3>2. 1 \in 1..Len(pending) /\ 1..(1 - 1) = {}
      BY <1>1, RestOfPending DEF Inv
    <3>3. files[source].by = started /\ files[source].whole
      BY <2>1, <3>1, <3>2 DEF Inv, OrderInv, next
    <3> QED
      BY <1>3, <2>1, <3>1, <3>3
  <2>2. CASE path # next
    <3>1. Needs(path, Content(path), source) /\ Reads(path) /\ files'[path] = files[path]
      BY <1>3, <2>2 DEF Needs, Content, Reads
    <3>2. CASE source = next
      BY <1>3, <3>1, <3>2 DEF Inv, StampsInv
    <3>3. CASE source # next
      BY <1>3, <3>1, <3>3 DEF Inv, KeptInv, KeptBeside
    <3> QED
      BY <3>2, <3>3
  <2> QED
    BY <2>1, <2>2
<1>8. OrderInv'
  <2> SUFFICES ASSUME NEW i \in 1..Len(Tail(pending)), NEW source \in Paths,
                      Needs(Tail(pending)[i][1], Tail(pending)[i][2], source)
               PROVE  \/ files'[source].by = started /\ files'[source].whole
                      \/ \E j \in 1..(i - 1) : Tail(pending)[j][1] = source
    BY <1>1 DEF OrderInv, Needs
  <2>1. i + 1 \in 1..Len(pending) /\ Needs(pending[i + 1][1], pending[i + 1][2], source)
    BY <1>2
  <2>2. CASE source = next
    BY <1>3, <2>2
  <2>3. CASE source # next /\ files[source].by = started /\ files[source].whole
    BY <1>3, <2>3
  <2>4. CASE source # next /\ \E j \in 1..((i + 1) - 1) : pending[j][1] = source
    <3>1. PICK j \in 1..((i + 1) - 1) : pending[j][1] = source
      BY <2>4
    <3>2. j # 1 /\ i \in Nat /\ Len(Tail(pending)) \in Nat
      BY <1>1, <2>4, <3>1, RestOfPending DEF Inv, next
    <3>3. j - 1 \in 1..(i - 1) /\ j - 1 \in 1..Len(Tail(pending)) /\ (j - 1) + 1 = j
      BY <3>1, <3>2
    <3>4. Tail(pending)[j - 1] = pending[j]
      BY <1>2, <3>3
    <3> QED
      BY <3>1, <3>3, <3>4
  <2> QED
    BY <2>1, <2>2, <2>3, <2>4 DEF Inv, OrderInv
<1> QED
  BY <1>4, <1>5, <1>6, <1>7, <1>8 DEF Inv

LEMMA WriteFailsKeeps ==
  ASSUME Inv, WriteFails
  PROVE  Inv'
<1> DEFINE next == pending[1][1]
<1>1. /\ pending # <<>> /\ pending' = <<>> /\ started' = started /\ forced' = forced
      /\ \/ files' = files
         \/ files' = [files EXCEPT ![next] =
                        [by |-> started, attempt |-> command.attempt, whole |-> FALSE,
                         content |-> Nothing]]
  BY DEF WriteFails
<1>2. next \in Paths /\ files[next].by < started
  BY <1>1, FileUnderWay
<1>3. /\ files' = [path \in Paths |-> files'[path]]
      /\ \/ files' = files
         \/ files'[next].by = started /\ ~files'[next].whole
      /\ \A path \in Paths \ {next} : files'[path] = files[path]
  <2>1. files = [path \in Paths |-> files[path]]
    BY DEF Inv, StampsInv
  <2>2. CASE files' = files
    <3>1. files' = [path \in Paths |-> files'[path]]
      BY <2>1, <2>2, Zenon
    <3> QED
      BY <2>2, <3>1, Zenon
  <2>3. CASE files' = [files EXCEPT ![next] =
                         [by |-> started, attempt |-> command.attempt, whole |-> FALSE,
                          content |-> Nothing]]
    <3> HIDE DEF next
    <3> QED
      BY <1>2, <2>1, <2>3
  <2> QED
    BY <1>1, <2>2, <2>3
<1> HIDE DEF next
<1>4. StampsInv'
  BY <1>1, <1>2, <1>3 DEF Inv, StampsInv
<1>5. PendingInv' /\ MissingInv' /\ OrderInv'
  <2>1. pending' \in Seq({}) /\ 1..Len(pending') = {}
    BY <1>1, EmptySeq
  <2> QED
    BY <2>1 DEF PendingInv, MissingInv, OrderInv
<1>6. KeptInv'
  <2>1. CASE files' = files
    BY <2>1 DEF Inv, KeptInv, KeptBeside, Reads, Content
  <2>2. CASE files'[next].by = started /\ ~files'[next].whole
    <3> SUFFICES ASSUME NEW path \in Paths, NEW source \in Paths,
                        Needs(path, Content(path), source)', Reads(path)'
                 PROVE  \/ files'[source].by > files'[path].by
                        \/ files'[source].by = files'[path].by /\ files'[source].whole
      BY DEF KeptInv, KeptBeside, Reads
    <3>1. path # next
      BY <2>2 DEF Reads
    <3>2. Needs(path, Content(path), source) /\ Reads(path) /\ files'[path] = files[path]
      BY <1>3, <3>1 DEF Needs, Content, Reads
    <3>3. \/ files[source].by > files[path].by
          \/ files[source].by = files[path].by /\ files[source].whole
      BY <3>2 DEF Inv, KeptInv, KeptBeside
    <3>4. CASE source = next
      BY <1>2, <2>2, <3>2, <3>3, <3>4 DEF Inv, StampsInv
    <3>5. CASE source # next
      BY <1>3, <3>2, <3>3, <3>5
    <3> QED
      BY <3>4, <3>5
  <2> QED
    BY <1>3, <2>1, <2>2
<1> QED
  BY <1>4, <1>5, <1>6 DEF Inv

----------------------------------------------------------------------------
(* Theorems *)

LEMMA InvHolds == Spec => []Inv
<1>1. Init => Inv
  <2> SUFFICES ASSUME Init PROVE Inv
    OBVIOUS
  <2>1. /\ files = [path \in Paths |-> Absent] /\ started = 0 /\ forced = 0 /\ pending = <<>>
        /\ Absent.by = 0 /\ Absent.whole = FALSE
    BY DEF Init, Absent
  <2>2. pending \in Seq({}) /\ 1..Len(pending) = {}
    BY <2>1, EmptySeq
  <2>3. StampsInv
    BY <2>1 DEF StampsInv
  <2>4. PendingInv /\ MissingInv /\ OrderInv
    BY <2>2 DEF PendingInv, MissingInv, OrderInv
  <2>5. KeptInv
    BY <2>1 DEF KeptInv, KeptBeside, Reads
  <2> QED
    BY <2>3, <2>4, <2>5 DEF Inv
<1>2. Inv /\ [Next]_vars => Inv'
  <2> SUFFICES ASSUME Inv, [Next]_vars PROVE Inv'
    OBVIOUS
  <2>1. ASSUME NEW overwrite \in BOOLEAN, Generate(overwrite) PROVE Inv'
    BY <2>1, GenerateKeeps
  <2>2. ASSUME NEW overwrite \in BOOLEAN, GenerateBaseline(overwrite) PROVE Inv'
    BY <2>2, BaselineKeeps
  <2>3. ASSUME NEW overwrite \in BOOLEAN, Compose(overwrite) PROVE Inv'
    BY <2>3, ComposeKeeps
  <2>4. ASSUME NEW overwrite \in BOOLEAN, RunSuite(overwrite) PROVE Inv'
    BY <2>4, RunSuiteKeeps
  <2>5. ASSUME NEW overwrite \in BOOLEAN, ReportCompare(overwrite) PROVE Inv'
    BY <2>5, ReportCompareKeeps
  <2>6. CASE RunCases
    BY <2>6, RunCasesKeeps
  <2>7. CASE WriteNext
    BY <2>7, WriteNextKeeps
  <2>8. CASE WriteFails
    BY <2>8, WriteFailsKeeps
  <2>9. CASE UNCHANGED vars
    BY <2>9 DEF vars, Inv, StampsInv, PendingInv, MissingInv, KeptInv, OrderInv, KeptBeside, Reads, Content
  <2> QED
    BY <2>1, <2>2, <2>3, <2>4, <2>5, <2>6, <2>7, <2>8, <2>9 DEF Next
<1> QED
  BY <1>1, <1>2, PTL DEF Spec

(***************************************************************************)
(* Whatever write of cli/app.py fails and wherever a command is killed,    *)
(* no record, batch or composition on disk lacks what it was made from.    *)
(***************************************************************************)
THEOREM AnswersKept == Spec => []AnswersAreKept
<1>1. Inv => AnswersAreKept
  BY Sources DEF Inv, KeptInv, AnswersAreKept, Needs, KeptBeside
<1> QED
  BY <1>1, InvHolds, PTL

(***************************************************************************)
(* Without --overwrite a command changes no file that an earlier one       *)
(* wrote, the result of cases run excepted (_prepare_*_outputs refuse      *)
(* before the first write, and nothing else of the command writes).        *)
(***************************************************************************)
THEOREM Preservation == Spec => OutputsPreserved
<1>1. Inv /\ [Next]_vars =>
        [\A path \in Paths \ {"result"} :
           files'[path] # files[path] => files[path].by \in {0, started} \/ forced = started]_vars
  <2> SUFFICES ASSUME Inv, Next, NEW path \in Paths \ {"result"}, files'[path] # files[path]
               PROVE  files[path].by \in {0, started} \/ forced = started
    BY DEF vars
  <2>1. WriteNext \/ WriteFails
    BY DEF Next, Generate, GenerateBaseline, Compose, RunSuite, ReportCompare, RunCases, Start
  <2>2. pending # <<>> /\ path = pending[1][1]
    BY <2>1 DEF WriteNext, WriteFails, Inv, StampsInv
  <2>3. 1 \in 1..Len(pending)
    BY <2>2, RestOfPending DEF Inv
  <2> QED
    BY <2>2, <2>3 DEF Inv, MissingInv
<1> QED
  BY <1>1, InvHolds, PTL DEF Spec, OutputsPreserved

----------------------------------------------------------------------------
(* Lineage: which attempt the files on disk go back to *)

\* What the command under way still has to write at path.
WritesOf(writes, path) == {writes[i][2] : i \in {j \in 1..Len(writes) : writes[j][1] = path}}
ToWrite(path) == WritesOf(pending, path)

\* Files and plans go back to attempts that were made.
AttemptInv ==
  /\ command.attempt \in Nat
  /\ \A path \in Paths :
       /\ files[path].attempt \in Nat
       /\ files[path].by = started => files[path].attempt = command.attempt
       /\ files[path].whole => files[path].by # 0
  /\ \A path \in {"record", "cases"} :
       /\ files[path].attempt = files[path].by
       /\ ToWrite(path) # {} => command.attempt = started

\* A record is as old as its batch, unless --overwrite came between them.
NativeInv ==
  /\ files["cases"].by <= files["record"].by
  /\ files["cases"].by # 0 /\ files["cases"].by < files["record"].by => files["record"].by <= forced
  /\ ToWrite("record") # {} \/ ToWrite("cases") # {} => forced = started \/ files["cases"].by = 0

\* A composed suite goes back to the batch on disk, unless --overwrite came
\* after it; its two files are of one command, on the same condition.
ComposedInv ==
  /\ \A path \in {"composedCases", "composition"} :
       /\ files[path].by # 0 =>
            /\ 0 < files[path].attempt /\ files[path].attempt < files[path].by
            /\ files[path].attempt <= files["cases"].by
       /\ files[path].by # 0 /\ files[path].attempt < files["cases"].by => files["cases"].by <= forced
       /\ ToWrite(path) # {} =>
            /\ command.attempt = files["cases"].by /\ 0 < command.attempt /\ command.attempt < started
            /\ forced = started \/ files["composition"].by = 0
  /\ files["composition"].by <= files["composedCases"].by
  /\ files["composition"].by # 0 /\ files["composition"].by < files["composedCases"].by =>
       files["composedCases"].by <= forced
  /\ files["composition"].by = files["composedCases"].by =>
       files["composition"].attempt = files["composedCases"].attempt

\* Batches on disk load and are valid, and their records count them.
IsBatch(cases) == AreCases(cases) /\ LoadsAsBatch(cases) /\ \A i \in DOMAIN cases : cases[i].valid
Counts(record, cases) == SourceIsUsable(record) /\ record.admission.admitted = Len(cases)

BatchInv ==
  /\ Reads("cases") => IsBatch(Content("cases"))
  /\ Reads("record") /\ Reads("cases") /\ files["record"].by = files["cases"].by =>
       Counts(Content("record"), Content("cases"))
  /\ \A cases \in ToWrite("cases") :
       /\ IsBatch(cases)
       /\ \A record \in ToWrite("record") : Counts(record, cases)
       /\ files["record"].by = started => Counts(Content("record"), cases)

\* A composition record counts the batch it was made from, and adds to it.
Extends(composition, cases) ==
  composition.base.count = Len(cases) /\ composition.base.count < composition.composed.count

ExtensionInv ==
  /\ Reads("composition") /\ Reads("cases") /\ files["composition"].attempt = files["cases"].by =>
       Extends(Content("composition"), Content("cases"))
  /\ ToWrite("composition") # {} => Reads("cases")
  /\ \A composition \in ToWrite("composition") : Extends(composition, Content("cases"))

\* A composition record is valid, and has the number and digest of the composed batch.
Describes(composition, cases) ==
  /\ CompositionRecordIsValid(composition) /\ LoadsAsBatch(cases)
  /\ Len(cases) = composition.composed.count /\ DigestAgrees(cases, composition)

DescriptionInv ==
  /\ Reads("composition") /\ Reads("composedCases")
       /\ files["composition"].by = files["composedCases"].by =>
       Describes(Content("composition"), Content("composedCases"))
  /\ \A composition \in ToWrite("composition") :
       /\ \A cases \in ToWrite("composedCases") : Describes(composition, cases)
       /\ files["composedCases"].by = started => Describes(composition, Content("composedCases"))

\* What a command that is going to succeed has to leave is there, or to be written.
Underway(path) == (files[path].by = started /\ files[path].whole) \/ ToWrite(path) # {}

ExitInv ==
  /\ exit # "running" => pending = <<>>
  /\ exit = "ok" => command.exits = "ok"
  /\ exit \in {"running", "ok"} /\ command.exits = "ok" =>
       /\ command.name \in {"generate", "generate-baseline"} => Underway("record") /\ Underway("cases")
       /\ command.name = "compose" =>
            /\ Underway("composedCases") /\ Underway("composition")
            /\ Reads("cases") /\ files["cases"].by = command.attempt

\* What an evaluation joins.
Joins(evaluation) ==
  /\ evaluation.attempts \subseteq Nat /\ evaluation.attempts # {}
  /\ (\A attempt \in evaluation.attempts : forced <= attempt) => SameLineage(evaluation)

EvaluationInv ==
  /\ Reads("evaluation") => Joins(Content("evaluation"))
  /\ \A evaluation \in ToWrite("evaluation") : Joins(evaluation)

LineageInv ==
  AttemptInv /\ NativeInv /\ ComposedInv /\ BatchInv /\ ExtensionInv /\ DescriptionInv
  /\ ExitInv /\ EvaluationInv

----------------------------------------------------------------------------
(* Recursive functions over an initial segment of the naturals *)

\* What holds at 0 and passes from each number to the next holds throughout.
LEMMA UpwardInduction ==
  ASSUME NEW N \in Nat, NEW P, 0 \in P, \A n \in 1..N : n - 1 \in P => n \in P
  PROVE  \A n \in 0..N : n \in P
<1> DEFINE Bad == (0..N) \ P
           R == OpToRel(<, Nat)
<1>1. IsWellFoundedOn(R, Nat)
  BY NatLessThanWellFounded
<1>2. Bad \subseteq Nat
  OBVIOUS
<1> SUFFICES ASSUME Bad # {} PROVE FALSE
  OBVIOUS
<1>3. PICK k \in Bad : \A j \in Bad : ~(<<j, k>> \in R)
  <2> HIDE DEF Bad, R
  <2> QED
    BY <1>1, <1>2, WFMin
<1>4. \A j \in Bad : ~(j < k)
  BY <1>2, <1>3 DEF OpToRel
<1>5. k \in 1..N
  <2>1. k \in 0..N /\ k \notin P /\ k # 0
    BY <1>3
  <2> HIDE DEF Bad, R
  <2> QED
    BY <2>1
<1>6. k - 1 \in P
  BY <1>4, <1>5
<1> QED
  BY <1>3, <1>5, <1>6

\* h starts with base and goes on by step, up to N.
Runs(h, N, S, base, step) ==
  h \in [0..N -> S] /\ h[0] = base /\ \A n \in 1..N : h[n] = step[n][h[n - 1]]

\* Such a function exists for any base and steps.
LEMMA Recursion ==
  ASSUME NEW N \in Nat, NEW S, NEW base \in S, NEW step \in [1..N -> [S -> S]]
  PROVE  \E h : Runs(h, N, S, base, step)
<1> DEFINE P == {n \in 0..N : \E h : Runs(h, n, S, base, step)}
<1>1. Runs([i \in 0..0 |-> base], 0, S, base, step)
  BY DEF Runs
<1>2. 0 \in P
  BY <1>1
<1>3. ASSUME NEW n \in 1..N, n - 1 \in P PROVE n \in P
  <2>1. PICK h : Runs(h, n - 1, S, base, step)
    BY <1>3
  <2> DEFINE longer == [i \in 0..n |-> IF i = n THEN step[n][h[n - 1]] ELSE h[i]]
  <2>2. longer \in [0..n -> S] /\ longer[0] = base
    BY <2>1 DEF Runs
  <2>3. \A i \in 1..n : longer[i] = step[i][longer[i - 1]]
    BY <2>1 DEF Runs
  <2>4. Runs(longer, n, S, base, step)
    BY <2>2, <2>3 DEF Runs
  <2> HIDE DEF longer
  <2> QED
    BY <2>4
<1>4. \A n \in 1..N : n - 1 \in P => n \in P
  BY <1>3
<1>5. \A n \in 0..N : n \in P
  <2> HIDE DEF P
  <2> QED
    BY <1>2, <1>4, UpwardInduction
<1>6. N \in P
  <2> HIDE DEF P
  <2> QED
    BY <1>5
<1> QED
  BY <1>6

----------------------------------------------------------------------------
(* The batches that generate and compose make *)

LEMMA ArrayOfCases ==
  ASSUME NEW cases, AreCases(cases)
  PROVE  /\ Len(cases) \in Nat /\ DOMAIN cases = 1..Len(cases)
         /\ cases \in Seq({cases[i] : i \in DOMAIN cases})
         /\ cases = <<>> <=> Len(cases) = 0
BY LenProperties, EmptySeq DEF AreCases

\* The batch after the first n cases: each admitted one is appended to it.
LEMMA AdmissionSteps ==
  ASSUME NEW cases, AreCases(cases)
  PROVE  \E upTo \in [0..Len(cases) -> Seq({cases[i] : i \in DOMAIN cases})] :
           /\ AdmittedBatch(cases) = upTo[Len(cases)]
           /\ upTo[0] = <<>>
           /\ \A n \in 1..Len(cases) :
                upTo[n] = IF n \in Admitted(cases) THEN Append(upTo[n - 1], cases[n]) ELSE upTo[n - 1]
<1> DEFINE N == Len(cases)
           T == {cases[i] : i \in DOMAIN cases}
           A == Admitted(cases)
           step == [n \in 1..N |-> [s \in Seq(T) |-> IF n \in A THEN Append(s, cases[n]) ELSE s]]
           Fun(h) == [n \in 0..N |-> IF n = 0 THEN <<>>
                                     ELSE IF n \in A THEN Append(h[n - 1], cases[n]) ELSE h[n - 1]]
           it == CHOOSE h : h = Fun(h)
<1>1. N \in Nat /\ DOMAIN cases = 1..N
  BY ArrayOfCases
<1>2. AdmittedBatch(cases) = it[N]
  BY DEF AdmittedBatch
<1>3. \A n \in 1..N : cases[n] \in T
  BY <1>1
<1> HIDE DEF N, T, A
<1>4. step \in [1..N -> [Seq(T) -> Seq(T)]]
  <2>1. ASSUME NEW n \in 1..N, NEW s \in Seq(T) PROVE (IF n \in A THEN Append(s, cases[n]) ELSE s) \in Seq(T)
    BY <1>3, AppendProperties
  <2> QED
    BY <2>1
<1>5. \A n \in 1..N, s \in Seq(T) : step[n][s] = IF n \in A THEN Append(s, cases[n]) ELSE s
  OBVIOUS
<1> HIDE DEF step
<1>6. PICK h \in [0..N -> Seq(T)] : h[0] = <<>> /\ \A n \in 1..N : h[n] = step[n][h[n - 1]]
  <2> DEFINE none == <<>>
             batches == Seq(T)
  <2>1. none \in batches /\ N \in Nat /\ step \in [1..N -> [batches -> batches]]
    BY <1>1, <1>4
  <2> HIDE DEF none, batches
  <2>2. \E h : Runs(h, N, batches, none, step)
    BY <2>1, Recursion
  <2> QED
    BY <2>2 DEF none, batches, Runs
<1>7. \A n \in 1..N : n - 1 \in 0..N /\ n \in 0..N /\ n # 0
  BY <1>1
<1>8. \A g : /\ Fun(g)[0] = <<>>
           /\ \A n \in 1..N : Fun(g)[n] = IF n \in A THEN Append(g[n - 1], cases[n]) ELSE g[n - 1]
  BY <1>1, <1>7
<1>9. h = Fun(h)
  <2>1. \A n \in 1..N : h[n] = Fun(h)[n]
    <3> HIDE DEF Fun
    <3> SUFFICES ASSUME NEW n \in 1..N PROVE h[n] = Fun(h)[n]
      OBVIOUS
    <3>1. h[n - 1] \in Seq(T)
      BY <1>7
    <3>2. step[n][h[n - 1]] = IF n \in A THEN Append(h[n - 1], cases[n]) ELSE h[n - 1]
      BY <1>5, <3>1
    <3> QED
      BY <1>6, <1>8, <3>2
  <2>2. \A n \in 0..N : h[n] = Fun(h)[n]
    <3> HIDE DEF Fun
    <3> QED
      BY <1>1, <1>6, <1>8, <2>1
  <2> QED
    BY <1>6, <2>2
<1>10. it = Fun(it)
  <2> HIDE DEF Fun
  <2> QED
    BY <1>9
<1> HIDE DEF it
<1>11. it[0] = <<>> /\ \A n \in 1..N : it[n] = IF n \in A THEN Append(it[n - 1], cases[n]) ELSE it[n - 1]
  <2> HIDE DEF Fun
  <2> QED
    BY <1>8, <1>10
<1>12. it \in [0..N -> Seq(T)]
  <2> DEFINE P == {n \in 0..N : it[n] \in Seq(T)}
  <2>0. <<>> \in Seq(T) /\ 0 \in 0..N
    BY <1>1
  <2>1. 0 \in P
    BY <1>11, <2>0
  <2>2. \A n \in 1..N : n - 1 \in P => n \in P
    <3> HIDE DEF Fun
    <3> SUFFICES ASSUME NEW n \in 1..N, it[n - 1] \in Seq(T) PROVE it[n] \in Seq(T)
      BY <1>7
    <3>1. cases[n] \in T
      BY <1>3
    <3>2. Append(it[n - 1], cases[n]) \in Seq(T)
      BY <3>1, AppendProperties
    <3> QED
      BY <1>11, <3>2
  <2>3. \A n \in 0..N : n \in P
    <3> HIDE DEF P
    <3> QED
      BY <1>1, <2>1, <2>2, UpwardInduction
  <2> QED
    BY <1>10, <2>3
<1> QED
  BY <1>2, <1>11, <1>12 DEF N, T, A

\* A sequence is one of its own elements.
LEMMA OwnElements ==
  ASSUME NEW T, NEW s \in Seq(T)
  PROVE  s \in Seq({s[i] : i \in DOMAIN s})
<1> DEFINE range == {s[i] : i \in DOMAIN s}
<1>1. Len(s) \in Nat /\ DOMAIN s = 1..Len(s) /\ s \in [1..Len(s) -> T]
  BY LenProperties
<1>2. s \in [1..Len(s) -> range]
  BY <1>1
<1> HIDE DEF range
<1> QED
  BY <1>1, <1>2, SeqDef

\* Why a case is admitted.
LEMMA AdmittedCases ==
  ASSUME NEW cases, AreCases(cases), NEW n \in Admitted(cases)
  PROVE  /\ n \in 1..Len(cases) /\ cases[n].wellFormed /\ cases[n].valid
         /\ \A m \in 1..(n - 1) : cases[m].wellFormed => cases[m].id # cases[n].id
<1>1. n \in 1..Len(cases)
  BY ArrayOfCases DEF Admitted
<1>2. RejectionCode(cases, n) = "none"
  BY DEF Admitted
<1> QED
  BY <1>1, <1>2 DEF RejectionCode

(***************************************************************************)
(* The admitted batch, if it has a case, is one that loads and whose cases *)
(* are valid, and it has as many cases as the record counts                *)
(* (admit_generated_cases of generation/case_admission.py).                *)
(***************************************************************************)
LEMMA AdmittedBatchLoads ==
  ASSUME NEW cases, AreCases(cases)
  PROVE  LET batch == AdmittedBatch(cases)
         IN /\ AreCases(batch)
            /\ Len(batch) = Cardinality(Admitted(cases))
            /\ \A i \in DOMAIN batch : batch[i].wellFormed /\ batch[i].valid
            /\ DistinctIds(batch)
<1> DEFINE N == Len(cases)
           T == {cases[i] : i \in DOMAIN cases}
           A == Admitted(cases)
           upToN(n) == A \cap (1..n)
<1>1. N \in Nat /\ DOMAIN cases = 1..N
  BY ArrayOfCases
<1>2. PICK upTo \in [0..N -> Seq(T)] :
        /\ AdmittedBatch(cases) = upTo[N]
        /\ upTo[0] = <<>>
        /\ \A n \in 1..N :
             upTo[n] = IF n \in A THEN Append(upTo[n - 1], cases[n]) ELSE upTo[n - 1]
  BY AdmissionSteps
<1>3. \A n \in A : /\ n \in 1..N /\ cases[n].wellFormed /\ cases[n].valid
                   /\ \A m \in 1..(n - 1) : cases[m].wellFormed => cases[m].id # cases[n].id
  BY AdmittedCases
<1> DEFINE Counted(n) == Len(upTo[n]) = Cardinality(upToN(n))
           FromCases(n) == \A i \in 1..Len(upTo[n]) : \E j \in upToN(n) : upTo[n][i] = cases[j]
           Distinct(n) == \A i, k \in 1..Len(upTo[n]) : upTo[n][i].id = upTo[n][k].id => i = k
           P == {n \in 0..N : Counted(n) /\ FromCases(n) /\ Distinct(n)}
<1>4. \A n \in 1..N : n - 1 \in 0..N /\ upTo[n - 1] \in Seq(T) /\ cases[n] \in T
  BY <1>1
<1> HIDE DEF N, T, A
<1>5. 0 \in P
  <2>1. upToN(0) = {} /\ Cardinality({}) = 0
    BY FS_EmptySet
  <2>2. Len(upTo[0]) = 0 /\ 1..0 = {}
    BY <1>2
  <2> QED
    BY <1>1, <2>1, <2>2
<1>6. \A n \in 1..N : n - 1 \in P => n \in P
  <2> SUFFICES ASSUME NEW n \in 1..N, n - 1 \in P PROVE Counted(n) /\ FromCases(n) /\ Distinct(n)
    <3> HIDE DEF Counted, FromCases, Distinct
    <3> QED
      BY <1>1
  <2> DEFINE before == upTo[n - 1]
             after == upTo[n]
  <2>1. Counted(n - 1) /\ FromCases(n - 1) /\ Distinct(n - 1)
    OBVIOUS
  <2>2. before \in Seq(T) /\ cases[n] \in T
    BY <1>4
  <2>3. CASE n \notin A
    <3>1. after = before /\ upToN(n) = upToN(n - 1)
      BY <1>1, <1>2, <1>3, <2>3
    <3> HIDE DEF before, after, upToN, P
    <3> QED
      BY <2>1, <3>1 DEF before, after
  <2>4. CASE n \in A
    <3>1. after = Append(before, cases[n])
      BY <1>2, <2>4
    <3>2. /\ Len(before) \in Nat /\ Len(after) = Len(before) + 1
          /\ \A i \in 1..Len(before) : after[i] = before[i]
          /\ after[Len(before) + 1] = cases[n]
      <4> HIDE DEF before, after
      <4> QED
        BY <2>2, <3>1, AppendProperties, LenProperties
    <3>3. upToN(n) = upToN(n - 1) \cup {n} /\ n \notin upToN(n - 1) /\ IsFiniteSet(upToN(n - 1))
      <4>1. IsFiniteSet(1..(n - 1))
        BY FS_Interval
      <4>2. IsFiniteSet(upToN(n - 1))
        BY <4>1, FS_Subset
      <4> QED
        BY <1>1, <1>3, <2>4, <4>2
    <3>4. Counted(n)
      <4>1. Cardinality(upToN(n)) = Cardinality(upToN(n - 1)) + 1
        <5> DEFINE few == upToN(n - 1)
        <5>1. upToN(n) = few \cup {n} /\ n \notin few /\ IsFiniteSet(few)
          BY <3>3
        <5> HIDE DEF few, upToN
        <5>2. Cardinality(few \cup {n}) = Cardinality(few) + 1
          BY <5>1, FS_AddElement
        <5> QED
          BY <5>1, <5>2 DEF few
      <4>2. Len(after) = Cardinality(upToN(n - 1)) + 1
        BY <2>1, <3>2
      <4> QED
        BY <4>1, <4>2
    <3>5. \A i \in 1..Len(after) : i \in 1..Len(before) \/ i = Len(before) + 1
      BY <3>2
    <3>6. FromCases(n)
      <4> SUFFICES ASSUME NEW i \in 1..Len(after) PROVE \E j \in upToN(n) : after[i] = cases[j]
        OBVIOUS
      <4>1. CASE i = Len(before) + 1
        BY <3>2, <3>3, <4>1
      <4>2. CASE i \in 1..Len(before)
        <5>1. PICK j \in upToN(n - 1) : before[i] = cases[j]
          BY <2>1, <4>2
        <5> HIDE DEF before, after, upToN, P
        <5> QED
          BY <3>2, <3>3, <4>2, <5>1
      <4> QED
        BY <3>5, <4>1, <4>2
    <3>7. \A i \in 1..Len(before) : before[i].id # cases[n].id
      <4> SUFFICES ASSUME NEW i \in 1..Len(before) PROVE before[i].id # cases[n].id
        OBVIOUS
      <4>1. PICK j \in upToN(n - 1) : before[i] = cases[j]
        BY <2>1
      <4>2. j \in 1..(n - 1) /\ cases[j].wellFormed
        BY <1>3
      <4> QED
        BY <1>3, <2>4, <4>1, <4>2
    <3>8. Distinct(n)
      <4> SUFFICES ASSUME NEW i \in 1..Len(after), NEW k \in 1..Len(after), after[i].id = after[k].id
                   PROVE  i = k
        OBVIOUS
      <4>1. \A x, y \in 1..Len(before) : before[x].id = before[y].id => x = y
        BY <2>1
      <4> HIDE DEF before, after, upToN, P
      <4> QED
        BY <3>2, <3>5, <3>7, <4>1
    <3> QED
      BY <3>4, <3>6, <3>8
  <2> QED
    BY <2>3, <2>4
<1>7. N \in P
  <2>1. \A n \in 0..N : n \in P
    <3> HIDE DEF P
    <3> QED
      BY <1>1, <1>5, <1>6, UpwardInduction
  <2> HIDE DEF P
  <2> QED
    BY <1>1, <2>1
<1> DEFINE batch == upTo[N]
<1>8. batch \in Seq(T) /\ DOMAIN batch = 1..Len(batch)
  <2>1. batch \in Seq(T)
    BY <1>1
  <2> QED
    BY <2>1, LenProperties
<1>9. upToN(N) = A
  BY <1>1, <1>3
<1>10. \A i \in DOMAIN batch : \E j \in A : batch[i] = cases[j]
  BY <1>7, <1>8, <1>9
<1>11. Len(batch) = Cardinality(A) /\ DistinctIds(batch)
  BY <1>7, <1>8, <1>9 DEF DistinctIds
<1>12. AreCases(batch)
  <2>1. batch \in Seq({batch[i] : i \in DOMAIN batch})
    BY <1>8, OwnElements
  <2>2. \A i \in DOMAIN batch : DOMAIN batch[i] = {"id", "wellFormed", "valid", "steps"}
    BY <1>1, <1>3, <1>10 DEF AreCases
  <2> QED
    BY <2>1, <2>2 DEF AreCases
<1> HIDE DEF batch
<1>13. \A i \in DOMAIN batch : batch[i].wellFormed /\ batch[i].valid
  BY <1>3, <1>10
<1> QED
  BY <1>2, <1>11, <1>12, <1>13 DEF batch, A

\* Concatenation, one sequence after the other.
LEMMA FlatteningSteps ==
  ASSUME NEW T, NEW seqs \in Seq(Seq(T)), seqs # <<>>
  PROVE  \E f \in [0..Len(seqs) -> Seq(T)] :
           /\ FlattenSeq(seqs) = f[Len(seqs)]
           /\ f[0] = <<>>
           /\ \A n \in 1..Len(seqs) : f[n] = f[n - 1] \o seqs[n]
<1> DEFINE N == Len(seqs)
           S == Seq(T)
           none == <<>>
           step == [n \in 1..N |-> [s \in S |-> s \o seqs[n]]]
           Fun(g) == [n \in 1..N |-> IF n = 1 THEN seqs[n] ELSE g[n - 1] \o seqs[n]]
           it == CHOOSE g : g = Fun(g)
<1>1. N \in Nat \ {0} /\ \A n \in 1..N : seqs[n] \in S
  BY EmptySeq, ElementOfSeq
<1>2. FlattenSeq(seqs) = it[N]
  BY <1>1 DEF FlattenSeq
<1>3. \A s, t \in S : s \o t \in S
  BY ConcatProperties
<1>4. \A t \in S : none \o t = t
  BY ConcatEmptySeq
<1>5. none \in S
  OBVIOUS
<1> HIDE DEF N, S, none
<1>6. step \in [1..N -> [S -> S]] /\ \A n \in 1..N, s \in S : step[n][s] = s \o seqs[n]
  BY <1>1, <1>3
<1> HIDE DEF step
<1>7. PICK h : Runs(h, N, S, none, step)
  BY <1>1, <1>5, <1>6, Recursion
<1>8. \A n \in 1..N : n - 1 \in 0..N /\ h[n - 1] \in S /\ h[n] = h[n - 1] \o seqs[n]
  <2>1. \A n \in 1..N : n - 1 \in 0..N
    BY <1>1
  <2> QED
    BY <1>6, <1>7, <2>1 DEF Runs
<1>first. h[1] = seqs[1]
  <2>1. 1 \in 1..N /\ 1 - 1 = 0 /\ h[0] = none
    BY <1>1, <1>7 DEF Runs
  <2>2. h[1] = h[0] \o seqs[1]
    BY <1>8, <2>1
  <2> QED
    BY <1>1, <1>4, <2>1, <2>2
<1> DEFINE g0 == [n \in 1..N |-> h[n]]
<1>9. g0 = Fun(g0)
  <2>1. \A n \in 1..N : n # 1 => n - 1 \in 1..N
    BY <1>1
  <2> QED
    BY <1>8, <1>first, <2>1
<1>10. it = Fun(it)
  <2> HIDE DEF Fun, g0
  <2> QED
    BY <1>9
<1>11. \A n \in 1..N : it[n] = IF n = 1 THEN seqs[n] ELSE it[n - 1] \o seqs[n]
  <2>1. \A g : \A n \in 1..N : Fun(g)[n] = IF n = 1 THEN seqs[n] ELSE g[n - 1] \o seqs[n]
    OBVIOUS
  <2> HIDE DEF it, Fun
  <2> QED
    BY <1>10, <2>1
<1> HIDE DEF it, g0
<1>12. \A n \in 0..N : n = 0 \/ it[n] = h[n]
  <2> DEFINE P == {n \in 0..N : n = 0 \/ it[n] = h[n]}
  <2>1. 0 \in P
    BY <1>1
  <2>2. \A n \in 1..N : n - 1 \in P => n \in P
    <3> SUFFICES ASSUME NEW n \in 1..N, n = 1 \/ it[n - 1] = h[n - 1] PROVE it[n] = h[n]
      BY <1>1
    <3>1. CASE n = 1
      BY <1>11, <1>first, <3>1
    <3>2. CASE n # 1
      BY <1>8, <1>11, <3>2
    <3> QED
      BY <3>1, <3>2
  <2>3. \A n \in 0..N : n \in P
    <3> HIDE DEF P
    <3> QED
      BY <1>1, <2>1, <2>2, UpwardInduction
  <2> QED
    BY <2>3
<1>13. it[N] = h[N]
  BY <1>1, <1>12
<1> QED
  BY <1>2, <1>7, <1>8, <1>13 DEF N, S, none, Runs

\* f is the running count of SuiteCompositionRecord.validate_composition.
RunningCount(f, record, count, N) ==
  /\ f \in [0..N -> Nat]
  /\ CompositionRecordIsValid(record) <=>
       PackIdsAreUnique(record.enhancements) /\ record.composed.count = f[N]
  /\ f[0] = record.base.count
  /\ \A n \in 1..N : f[n] = f[n - 1] + count[n]

LEMMA CountSteps ==
  ASSUME NEW record, NEW N \in Nat, NEW count \in [1..N -> Nat],
         Len(record.enhancements) = N, record.base.count \in Nat,
         \A n \in 1..N : record.enhancements[n].batch.count = count[n]
  PROVE  \E f : RunningCount(f, record, count, N)
<1> DEFINE base == record.base.count
           C(n) == record.enhancements[n].batch.count
           step == [n \in 1..N |-> [s \in Nat |-> s + count[n]]]
           Fun(g) == [n \in 0..N |-> IF n = 0 THEN base ELSE g[n - 1] + C(n)]
           it == CHOOSE g : g = Fun(g)
<1>1. CompositionRecordIsValid(record) <=>
        PackIdsAreUnique(record.enhancements) /\ record.composed.count = it[N]
  <2> DEFINE M == Len(record.enhancements)
             Sum(g) == [n \in 0..M |-> IF n = 0 THEN base ELSE g[n - 1] + C(n)]
  <2>1. CompositionRecordIsValid(record) <=>
          PackIdsAreUnique(record.enhancements) /\ record.composed.count = (CHOOSE g : g = Sum(g))[M]
    BY Zenon DEF CompositionRecordIsValid
  <2>2. M = N
    OBVIOUS
  <2> HIDE DEF M
  <2> QED
    BY <2>1, <2>2
<1>2. N \in Nat /\ base \in Nat /\ \A n \in 1..N : C(n) = count[n] /\ count[n] \in Nat
  OBVIOUS
<1> HIDE DEF base, C
<1>3. step \in [1..N -> [Nat -> Nat]] /\ \A n \in 1..N, s \in Nat : step[n][s] = s + count[n]
  BY <1>2
<1> HIDE DEF step
<1>4. PICK h : Runs(h, N, Nat, base, step)
  BY <1>2, <1>3, Recursion
<1>5. \A n \in 1..N : n \in 0..N /\ n # 0 /\ n - 1 \in 0..N /\ h[n - 1] \in Nat /\ h[n] = h[n - 1] + count[n]
  <2>1. \A n \in 1..N : n \in 0..N /\ n # 0 /\ n - 1 \in 0..N
    BY <1>2
  <2> QED
    BY <1>3, <1>4, <2>1 DEF Runs
<1>6. h = Fun(h)
  <2>1. \A g : Fun(g)[0] = base /\ \A n \in 1..N : Fun(g)[n] = g[n - 1] + count[n]
    BY <1>2, <1>5
  <2>2. \A n \in 0..N : h[n] = Fun(h)[n]
    <3>1. \A n \in 0..N : n = 0 \/ n \in 1..N
      BY <1>2
    <3> HIDE DEF Fun
    <3> QED
      BY <1>4, <1>5, <2>1, <3>1 DEF Runs
  <2> QED
    BY <1>4, <2>2 DEF Runs
<1>7. it = Fun(it)
  <2> HIDE DEF Fun
  <2> QED
    BY <1>6
<1>8. /\ it[0] = base
      /\ \A n \in 1..N : it[n] = it[n - 1] + count[n]
  <2>1. \A g : Fun(g)[0] = base /\ \A n \in 1..N : Fun(g)[n] = g[n - 1] + count[n]
    BY <1>2, <1>5
  <2> HIDE DEF it, Fun
  <2> QED
    BY <1>7, <2>1
<1> HIDE DEF it
<1>9. \A n \in 0..N : it[n] = h[n]
  <2> DEFINE P == {n \in 0..N : it[n] = h[n]}
  <2>1. 0 \in P
    BY <1>2, <1>4, <1>8 DEF Runs
  <2>2. \A n \in 1..N : n - 1 \in P => n \in P
    BY <1>2, <1>5, <1>8
  <2>3. \A n \in 0..N : n \in P
    <3> HIDE DEF P
    <3> QED
      BY <1>2, <2>1, <2>2, UpwardInduction
  <2> QED
    BY <2>3
<1>10. it[N] = h[N]
  BY <1>2, <1>9
<1> QED
  BY <1>1, <1>4, <1>5, <1>10 DEF base, Runs, RunningCount

\* What the arguments of compose are like once it starts to write.
Composable(base, packs) ==
  /\ AreCases(base) /\ LoadsAsBatch(base)
  /\ packs \in Seq({packs[p] : p \in DOMAIN packs})
  /\ \A p \in DOMAIN packs : AreCases(packs[p].cases) /\ LoadsAsBatch(packs[p].cases)
  /\ ~CompositionFails(base, packs)

\* The cases of a pack, renamed.
LEMMA RenamedCases ==
  ASSUME NEW pack, AreCases(pack.cases), LoadsAsBatch(pack.cases)
  PROVE  /\ Namespaced(pack) \in
              Seq({case \in {Namespaced(pack)[i] : i \in DOMAIN Namespaced(pack)} : case.wellFormed})
         /\ Len(Namespaced(pack)) = Len(pack.cases) /\ Len(pack.cases) > 0
<1> DEFINE N == Len(pack.cases)
           renamed == Namespaced(pack)
           good == {case \in {renamed[i] : i \in DOMAIN renamed} : case.wellFormed}
<1>1. N \in Nat \ {0} /\ DOMAIN pack.cases = 1..N
  BY ArrayOfCases DEF LoadsAsBatch
<1>2. renamed = [i \in 1..N |-> [pack.cases[i] EXCEPT !.id = pack.packId \o @]]
  BY <1>1 DEF Namespaced
<1>3. \A i \in 1..N : renamed[i].wellFormed
  <2> SUFFICES ASSUME NEW i \in 1..N PROVE renamed[i].wellFormed
    OBVIOUS
  <2>1. DOMAIN pack.cases[i] = {"id", "wellFormed", "valid", "steps"} /\ pack.cases[i].wellFormed
    BY <1>1 DEF AreCases, LoadsAsBatch
  <2>2. renamed[i].wellFormed = pack.cases[i].wellFormed
    BY <1>2, <2>1
  <2> QED
    BY <2>1, <2>2
<1>4. renamed \in [1..N -> good] /\ DOMAIN renamed = 1..N
  <2>1. DOMAIN renamed = 1..N
    BY <1>2
  <2>2. \A i \in 1..N : renamed[i] \in good
    BY <1>3, <2>1
  <2>3. renamed = [i \in 1..N |-> renamed[i]]
    BY <1>2
  <2> HIDE DEF renamed, good
  <2> QED
    BY <2>1, <2>2, <2>3
<1> HIDE DEF good, renamed
<1>5. renamed \in Seq(good) /\ Len(renamed) = N
  BY <1>1, <1>4, SeqDef
<1> QED
  BY <1>1, <1>5 DEF good, renamed

(***************************************************************************)
(* What compose writes: a batch that loads and is longer than the native   *)
(* one, and a record that passes its own check, has the numbers of cases   *)
(* of both and the digest of what was written                              *)
(* (generation/batch_composer.py, domain/composition.py).                  *)
(***************************************************************************)
LEMMA ComposedIsDescribed ==
  ASSUME NEW base, NEW packs, Composable(base, packs)
  PROVE  LET cases == ComposedCases(base, packs)
             record == CompositionRecord(base, packs)
         IN /\ Extends(record, base)
            /\ Describes(record, cases)
<1> DEFINE cases == ComposedCases(base, packs)
           record == CompositionRecord(base, packs)
           N == Len(packs)
           seqs == [p \in DOMAIN packs |-> Namespaced(packs[p])]
           of(p) == {seqs[p][i] : i \in DOMAIN seqs[p]}
           native == {base[i] : i \in DOMAIN base}
           good == {case \in native \cup UNION {of(p) : p \in 1..N} : case.wellFormed}
           count == [p \in 1..N |-> Len(packs[p].cases)]
<1>1. N \in Nat \ {0} /\ DOMAIN packs = 1..N
  BY LenProperties, EmptySeq DEF Composable, CompositionFails
<1>2. \A p \in 1..N : /\ AreCases(packs[p].cases) /\ LoadsAsBatch(packs[p].cases)
                      /\ seqs[p] = Namespaced(packs[p])
  BY <1>1 DEF Composable
<1>3. \A p \in 1..N : /\ seqs[p] \in Seq(good)
                      /\ Len(seqs[p]) = count[p] /\ count[p] \in Nat \ {0}
  <2> SUFFICES ASSUME NEW p \in 1..N
               PROVE  seqs[p] \in Seq(good) /\ Len(seqs[p]) = count[p] /\ count[p] \in Nat \ {0}
    OBVIOUS
  <2> DEFINE own == Namespaced(packs[p])
             mine == {case \in {own[i] : i \in DOMAIN own} : case.wellFormed}
  <2>0. seqs[p] = own
    BY <1>2
  <2> HIDE DEF seqs
  <2>1. mine \subseteq good
    <3> HIDE DEF own
    <3>1. \A case \in mine : case \in of(p) /\ case.wellFormed
      BY <2>0
    <3> HIDE DEF of, mine, native
    <3> QED
      BY <3>1
  <2>2. seqs[p] \in Seq(mine) /\ Len(seqs[p]) = Len(packs[p].cases) /\ Len(packs[p].cases) > 0
    <3>1. own \in Seq(mine) /\ Len(own) = Len(packs[p].cases) /\ Len(packs[p].cases) > 0
      BY <1>2, RenamedCases
    <3> HIDE DEF own, mine
    <3> QED
      BY <2>0, <3>1
  <2>3. Len(packs[p].cases) \in Nat
    BY <1>2, ArrayOfCases
  <2>4. seqs[p] \in Seq(good)
    <3> HIDE DEF mine, good, seqs
    <3> QED
      BY <2>1, <2>2, SeqMonotonic
  <2> QED
    BY <2>2, <2>3, <2>4
<1>4. seqs \in Seq(Seq(good)) /\ Len(seqs) = N /\ seqs # <<>>
  <2>1. seqs \in [1..N -> Seq(good)]
    <3>1. seqs = [p \in 1..N |-> seqs[p]]
      BY <1>1
    <3> HIDE DEF seqs, good
    <3> QED
      BY <1>3, <3>1
  <2> HIDE DEF seqs, good
  <2>2. seqs \in Seq(Seq(good)) /\ Len(seqs) = N
    BY <1>1, <2>1, SeqDef
  <2> QED
    BY <1>1, <2>2, EmptySeq
<1>5. base \in Seq(good) /\ Len(base) \in Nat
  <2>1. Len(base) \in Nat /\ DOMAIN base = 1..Len(base)
    BY ArrayOfCases DEF Composable
  <2>2. base = [i \in 1..Len(base) |-> base[i]]
    BY LenProperties DEF Composable, AreCases
  <2>3. \A i \in 1..Len(base) : base[i] \in good
    <3>1. \A i \in 1..Len(base) : base[i].wellFormed /\ base[i] \in native
      BY <2>1 DEF Composable, LoadsAsBatch
    <3> HIDE DEF of, native
    <3> QED
      BY <3>1
  <2>4. base \in [1..Len(base) -> good]
    <3> HIDE DEF good
    <3> QED
      BY <2>2, <2>3
  <2> HIDE DEF good
  <2> QED
    BY <2>1, <2>4, SeqDef
<1>6. \A case \in good : case.wellFormed
  OBVIOUS
<1>7. cases = base \o FlattenSeq(seqs)
  BY DEF ComposedCases
<1>8. /\ record.base.count = Len(base)
      /\ record.composed.count = Len(cases)
      /\ record.enhancements =
           [p \in DOMAIN packs |-> [packId |-> packs[p].packId, batch |-> BatchMetadata(packs[p].cases)]]
  BY DEF CompositionRecord, BatchMetadata
<1>9. \A p \in 1..N : /\ record.enhancements[p].batch.count = count[p]
                      /\ record.enhancements[p].packId = packs[p].packId
  BY <1>1, <1>8 DEF BatchMetadata
<1>10. Len(record.enhancements) = N /\ DOMAIN record.enhancements = 1..N
  <2>1. DOMAIN record.enhancements = 1..N
    BY <1>1, <1>8
  <2>2. record.enhancements \in [1..N -> {record.enhancements[p] : p \in 1..N}]
    BY <1>1, <1>8
  <2> HIDE DEF record
  <2> QED
    BY <1>1, <2>1, <2>2, SeqDef
<1>11. count \in [1..N -> Nat]
  <2> SUFFICES \A p \in 1..N : count[p] \in Nat
    OBVIOUS
  <2> QED
    BY <1>3
<1>12. PackIdsAreUnique(record.enhancements) /\ DistinctIds(cases)
  BY <1>1, <1>9, <1>10 DEF Composable, CompositionFails, PackIdsAreUnique
<1> HIDE DEF cases, record, N, seqs, of, native, good, count
<1>13. PICK f \in [0..N -> Seq(good)] :
         /\ FlattenSeq(seqs) = f[N]
         /\ f[0] = <<>>
         /\ \A n \in 1..N : f[n] = f[n - 1] \o seqs[n]
  BY <1>4, FlatteningSteps
<1>14. PICK g : RunningCount(g, record, count, N)
  <2>1. record.base.count \in Nat
    BY <1>5, <1>8
  <2> QED
    BY <1>1, <1>9, <1>10, <1>11, <2>1, CountSteps
<1>15. \A n \in 1..N : /\ n - 1 \in 0..N /\ f[n - 1] \in Seq(good) /\ f[n] \in Seq(good)
                       /\ Len(f[n]) = Len(f[n - 1]) + count[n]
                       /\ Len(f[n - 1]) \in Nat
  <2> SUFFICES ASSUME NEW n \in 1..N
               PROVE  /\ n - 1 \in 0..N /\ f[n - 1] \in Seq(good) /\ f[n] \in Seq(good)
                      /\ Len(f[n]) = Len(f[n - 1]) + count[n]
                      /\ Len(f[n - 1]) \in Nat
    OBVIOUS
  <2>1. n - 1 \in 0..N /\ n \in 0..N
    BY <1>1
  <2>2. f[n - 1] \in Seq(good) /\ f[n] \in Seq(good)
    BY <2>1
  <2>3. seqs[n] \in Seq(good)
    BY <1>3
  <2>4. Len(f[n - 1] \o seqs[n]) = Len(f[n - 1]) + Len(seqs[n])
    BY <2>2, <2>3, ConcatProperties
  <2> QED
    BY <1>3, <1>13, <2>1, <2>2, <2>4, LenProperties
<1>16. \A n \in 0..N : Len(base) + Len(f[n]) = g[n] /\ Len(f[n]) >= n
  <2> DEFINE P == {n \in 0..N : Len(base) + Len(f[n]) = g[n] /\ Len(f[n]) >= n}
  <2>1. 0 \in P
    <3>1. Len(<<>>) = 0
      BY EmptySeq
    <3>2. Len(base) + Len(f[0]) = g[0] /\ Len(f[0]) >= 0
      BY <1>5, <1>8, <1>13, <1>14, <3>1 DEF RunningCount
    <3> QED
      BY <1>1, <3>2
  <2>2. \A n \in 1..N : n - 1 \in P => n \in P
    <3> SUFFICES ASSUME NEW n \in 1..N, Len(base) + Len(f[n - 1]) = g[n - 1], Len(f[n - 1]) >= n - 1
                 PROVE  Len(base) + Len(f[n]) = g[n] /\ Len(f[n]) >= n
      BY <1>1
    <3>1. /\ Len(f[n]) = Len(f[n - 1]) + count[n] /\ Len(f[n - 1]) \in Nat /\ g[n - 1] \in Nat
          /\ count[n] \in Nat \ {0} /\ g[n] = g[n - 1] + count[n]
      BY <1>3, <1>14, <1>15 DEF RunningCount
    <3>2. Len(base) \in Nat /\ n \in Nat
      BY <1>1, <1>5
    <3> DEFINE a == Len(f[n - 1])
               b == g[n - 1]
               c == count[n]
               d == Len(base)
    <3>3. d + a = b /\ a >= n - 1 /\ a \in Nat /\ b \in Nat /\ c \in Nat \ {0} /\ d \in Nat
      BY <3>1, <3>2
    <3> HIDE DEF a, b, c, d
    <3>4. d + (a + c) = b + c /\ a + c >= n
      BY <3>2, <3>3
    <3> QED
      BY <3>1, <3>4 DEF a, b, c, d
  <2>3. \A n \in 0..N : n \in P
    <3> HIDE DEF P
    <3> QED
      BY <1>1, <2>1, <2>2, UpwardInduction
  <2> QED
    BY <2>3
<1>17. Len(base) + Len(f[N]) = g[N] /\ Len(f[N]) >= N /\ f[N] \in Seq(good) /\ Len(f[N]) \in Nat
  <2>1. N \in 0..N
    BY <1>1
  <2>2. f[N] \in Seq(good)
    BY <2>1
  <2> QED
    BY <1>16, <2>1, <2>2, LenProperties
<1>18. cases \in Seq(good) /\ Len(cases) = Len(base) + Len(f[N])
  <2>1. base \o f[N] \in Seq(good) /\ Len(base \o f[N]) = Len(base) + Len(f[N])
    BY <1>5, <1>17, ConcatProperties
  <2> QED
    BY <1>7, <1>13, <2>1
<1>19. Extends(record, base)
  BY <1>1, <1>5, <1>8, <1>17, <1>18 DEF Extends
<1>20. CompositionRecordIsValid(record)
  BY <1>8, <1>12, <1>14, <1>17, <1>18 DEF RunningCount
<1>21. LoadsAsBatch(cases)
  <2>1. DOMAIN cases = 1..Len(cases) /\ \A i \in 1..Len(cases) : cases[i] \in good
    BY <1>18, LenProperties, ElementOfSeq
  <2>2. cases # <<>>
    <3>1. Len(cases) > 0
      BY <1>1, <1>5, <1>17, <1>18
    <3>2. Len(<<>>) = 0
      BY EmptySeq
    <3> QED
      BY <3>1, <3>2
  <2> QED
    BY <1>6, <1>12, <2>1, <2>2 DEF LoadsAsBatch
<1>22. DigestAgrees(cases, record)
  BY DEF DigestAgrees, BatchMetadata, CompositionRecord, record, cases
<1> QED
  BY <1>8, <1>19, <1>20, <1>21, <1>22 DEF Describes, cases, record

----------------------------------------------------------------------------
(* Commands keep the lineage *)

\* What is to be written under each of the paths of a plan.
LEMMA WritesOfOne ==
  ASSUME NEW p, NEW c
  PROVE  \A path : WritesOf(<<<<p, c>>>>, path) = IF path = p THEN {c} ELSE {}
<1> DEFINE a == <<p, c>>
           w == <<a>>
<1>1. a[1] = p /\ a[2] = c
  OBVIOUS
<1> HIDE DEF a
<1>2. Len(w) = 1 /\ w[1] = a
  OBVIOUS
<1> HIDE DEF w
<1>3. \A i \in 1..Len(w) : i = 1
  BY <1>2
<1>4. \A path : WritesOf(w, path) = IF path = p THEN {c} ELSE {}
  BY <1>1, <1>2, <1>3 DEF WritesOf
<1> QED
  BY <1>4 DEF a, w

LEMMA WritesOfTwo ==
  ASSUME NEW p, NEW c, NEW q, NEW d, p # q
  PROVE  \A path : WritesOf(<<<<p, c>>, <<q, d>>>>, path) =
                     IF path = p THEN {c} ELSE IF path = q THEN {d} ELSE {}
<1> DEFINE a == <<p, c>>
           b == <<q, d>>
           w == <<a, b>>
<1>1. a[1] = p /\ a[2] = c /\ b[1] = q /\ b[2] = d
  OBVIOUS
<1> HIDE DEF a, b
<1>2. Len(w) = 2 /\ w[1] = a /\ w[2] = b
  OBVIOUS
<1> HIDE DEF w
<1>3. \A i \in 1..Len(w) : i = 1 \/ i = 2
  BY <1>2
<1>4. 1 \in 1..Len(w) /\ 2 \in 1..Len(w)
  BY <1>2
<1>5. \A path : WritesOf(w, path) = IF path = p THEN {c} ELSE IF path = q THEN {d} ELSE {}
  BY <1>1, <1>2, <1>3, <1>4 DEF WritesOf
<1> QED
  BY <1>5 DEF a, b, w

LEMMA WritesOfThree ==
  ASSUME NEW p, NEW c, NEW q, NEW d, NEW r, NEW e, p # q, p # r, q # r
  PROVE  \A path : WritesOf(<<<<p, c>>, <<q, d>>, <<r, e>>>>, path) =
                     IF path = p THEN {c} ELSE IF path = q THEN {d} ELSE IF path = r THEN {e} ELSE {}
<1> DEFINE a == <<p, c>>
           b == <<q, d>>
           f == <<r, e>>
           w == <<a, b, f>>
<1>1. a[1] = p /\ a[2] = c /\ b[1] = q /\ b[2] = d /\ f[1] = r /\ f[2] = e
  OBVIOUS
<1> HIDE DEF a, b, f
<1>2. Len(w) = 3 /\ w[1] = a /\ w[2] = b /\ w[3] = f
  OBVIOUS
<1> HIDE DEF w
<1>3. \A i \in 1..Len(w) : i = 1 \/ i = 2 \/ i = 3
  BY <1>2
<1>4. 1 \in 1..Len(w) /\ 2 \in 1..Len(w) /\ 3 \in 1..Len(w)
  BY <1>2
<1>5. \A path : WritesOf(w, path) =
                  IF path = p THEN {c} ELSE IF path = q THEN {d} ELSE IF path = r THEN {e} ELSE {}
  BY <1>1, <1>2, <1>3, <1>4 DEF WritesOf
<1> QED
  BY <1>5 DEF a, b, f, w

\* What a command has to see to before its first write.
Prepared(name, overwrite, attempt, writes, exits) ==
  /\ attempt \in Nat
  /\ WritesOf(writes, "record") # {} \/ WritesOf(writes, "cases") # {} =>
       attempt = started + 1 /\ (overwrite \/ files["cases"].by = 0)
  /\ \A path \in {"composedCases", "composition"} : WritesOf(writes, path) # {} =>
       /\ attempt = files["cases"].by /\ 0 < attempt
       /\ overwrite \/ files["composition"].by = 0
  /\ \A cases \in WritesOf(writes, "cases") :
       IsBatch(cases) /\ \A record \in WritesOf(writes, "record") : Counts(record, cases)
  /\ WritesOf(writes, "composition") # {} => Reads("cases")
  /\ \A composition \in WritesOf(writes, "composition") :
       /\ Extends(composition, Content("cases"))
       /\ \A cases \in WritesOf(writes, "composedCases") : Describes(composition, cases)
  /\ exits = "ok" =>
       /\ name \in {"generate", "generate-baseline"} =>
            WritesOf(writes, "record") # {} /\ WritesOf(writes, "cases") # {}
       /\ name = "compose" =>
            /\ WritesOf(writes, "composedCases") # {} /\ WritesOf(writes, "composition") # {}
            /\ Reads("cases") /\ files["cases"].by = attempt
  /\ \A evaluation \in WritesOf(writes, "evaluation") : Joins(evaluation)

\* A command that has seen to that keeps the lineage when it starts.
LEMMA StartKeepsLineage ==
  ASSUME Inv, LineageInv, NEW name, NEW overwrite \in BOOLEAN, NEW attempt, NEW writes, NEW exits,
         Start(name, overwrite, attempt, writes, exits),
         Prepared(name, overwrite, attempt, writes, exits)
  PROVE  LineageInv'
<1> DEFINE W(path) == WritesOf(writes, path)
<1>1. /\ files' = files /\ started' = started + 1 /\ pending' = writes
      /\ forced' = IF overwrite THEN started' ELSE forced
      /\ command' = [name |-> name, attempt |-> attempt, exits |-> exits] /\ exit' = "running"
  BY DEF Start
<1>2. /\ started \in Nat /\ forced \in Nat /\ forced <= started
      /\ \A path \in Paths : files[path].by \in Nat /\ files[path].by <= started
  BY DEF Inv, StampsInv
<1>3. {"record", "cases", "composedCases", "composition", "evaluation"} \subseteq Paths
  BY Sources
<1>4. \A path : ToWrite(path)' = W(path)
  BY <1>1 DEF ToWrite
<1>5. \A path : Reads(path)' = Reads(path) /\ Content(path)' = Content(path)
  BY <1>1 DEF Reads, Content
<1>6. command'.name = name /\ command'.attempt = attempt /\ command'.exits = exits
  BY <1>1
<1>7. forced <= forced' /\ forced' \in Nat
  BY <1>1, <1>2
<1> HIDE DEF W
<1>8. \A path \in Paths : files'[path] = files[path] /\ files[path].by < started'
  BY <1>1, <1>2
<1>9. /\ W("record") # {} \/ W("cases") # {} =>
           attempt = started' /\ (forced' = started' \/ files["cases"].by = 0)
      /\ \A path \in {"composedCases", "composition"} : W(path) # {} =>
           /\ attempt = files["cases"].by /\ 0 < attempt
           /\ forced' = started' \/ files["composition"].by = 0
  BY <1>1 DEF Prepared, W
<1>10. AttemptInv'
  BY <1>2, <1>3, <1>4, <1>6, <1>8, <1>9 DEF LineageInv, AttemptInv, Prepared
<1>11. NativeInv'
  BY <1>2, <1>3, <1>4, <1>7, <1>8, <1>9 DEF LineageInv, NativeInv
<1>12. ComposedInv'
  BY <1>2, <1>3, <1>4, <1>6, <1>7, <1>8, <1>9 DEF LineageInv, ComposedInv
<1>13. BatchInv'
  <2>1. files'["record"].by # started' /\ files'["record"] = files["record"] /\ files'["cases"] = files["cases"]
    BY <1>1, <1>2, <1>3, <1>8
  <2>2. \A cases \in W("cases") : IsBatch(cases) /\ \A record \in W("record") : Counts(record, cases)
    BY DEF Prepared, W
  <2>3. /\ Reads("cases") => IsBatch(Content("cases"))
        /\ Reads("record") /\ Reads("cases") /\ files["record"].by = files["cases"].by =>
             Counts(Content("record"), Content("cases"))
    BY DEF LineageInv, BatchInv
  <2> QED
    BY <1>4, <1>5, <2>1, <2>2, <2>3 DEF BatchInv
<1>14. ExtensionInv'
  BY <1>3, <1>4, <1>5, <1>8 DEF LineageInv, ExtensionInv, Prepared, W
<1>15. DescriptionInv'
  <2>1. /\ files'["composedCases"].by # started' /\ files'["composedCases"] = files["composedCases"]
        /\ files'["composition"] = files["composition"]
    BY <1>1, <1>2, <1>3, <1>8
  <2>2. \A composition \in W("composition") : \A cases \in W("composedCases") : Describes(composition, cases)
    BY DEF Prepared, W
  <2>3. Reads("composition") /\ Reads("composedCases")
          /\ files["composition"].by = files["composedCases"].by =>
          Describes(Content("composition"), Content("composedCases"))
    BY DEF LineageInv, DescriptionInv
  <2> QED
    BY <1>4, <1>5, <2>1, <2>2, <2>3 DEF DescriptionInv
<1>16. ExitInv'
  BY <1>1, <1>3, <1>4, <1>5, <1>6, <1>8 DEF ExitInv, Underway, Prepared, W
<1>17. \A evaluation : Joins(evaluation) => Joins(evaluation)'
  BY <1>2, <1>7 DEF Joins
<1>18. EvaluationInv'
  BY <1>4, <1>5, <1>17 DEF LineageInv, EvaluationInv, Prepared, W
<1> QED
  BY <1>10, <1>11, <1>12, <1>13, <1>14, <1>15, <1>16, <1>18 DEF LineageInv

\* What a generation attempt yields when it yields a batch.
LEMMA AttemptYields ==
  ASSUME NEW reply \in Replies, GenerateCases(reply).batch # <<>>
  PROVE  LET attempt == GenerateCases(reply)
         IN attempt.answered /\ IsBatch(attempt.batch) /\ Counts(GenerationRecord(attempt), attempt.batch)
<1> DEFINE answer == ProviderGenerate(reply)
           cases == answer.text.cases
           attempt == GenerateCases(reply)
           batch == AdmittedBatch(cases)
<1>1. AreCases(cases)
  BY RepliesAssumption
<1>2. answer.text.shape # "batch" => GenerateCases(reply) = GenerateTestCaseBatch(answer)
  BY DEF GenerateCases
<1>3. answer.text.shape # "batch" => GenerateTestCaseBatch(answer).batch = <<>>
  <2> HIDE DEF answer
  <2> QED
    BY DEF GenerateTestCaseBatch, Attempt
<1>4. answer.text.shape = "batch"
  BY <1>2, <1>3
<1>5. attempt = Attempt(IF Admitted(cases) = {} THEN "invalid_output" ELSE "succeeded",
                        answer, Summary(cases), batch)
  BY <1>4 DEF GenerateCases
<1>6. answer.error = "none"
  <2>1. answer = ProviderError(answer.error) \/ \E text : answer = Answer(text)
    BY DEF ProviderGenerate, ParseResponse, ProviderError, Answer
  <2>2. answer # ProviderError(answer.error)
    <3> HIDE DEF answer
    <3> QED
      BY <1>4 DEF ProviderError, NoText
  <2> QED
    BY <2>1, <2>2 DEF Answer
<1> HIDE DEF answer, cases, batch, attempt
<1>7. /\ AreCases(batch) /\ Len(batch) = Cardinality(Admitted(cases))
      /\ \A i \in DOMAIN batch : batch[i].wellFormed /\ batch[i].valid
      /\ DistinctIds(batch)
  BY <1>1, AdmittedBatchLoads DEF batch
<1>8. attempt.batch = batch /\ batch # <<>>
  BY <1>5 DEF Attempt, attempt
<1>9. IsBatch(batch)
  BY <1>7, <1>8 DEF IsBatch, LoadsAsBatch
<1>10. Len(batch) \in Nat \ {0}
  BY <1>7, <1>8, ArrayOfCases
<1>11. attempt.status = "succeeded" /\ attempt.answered /\ attempt.admission = Summary(cases)
  <2>1. Admitted(cases) # {}
    BY <1>7, <1>10, FS_EmptySet
  <2> QED
    BY <1>5, <1>6, <2>1 DEF Attempt
<1>12. Summary(cases).admitted = Len(batch) /\ Summary(cases) # NoAdmission
  BY <1>7, <1>10 DEF Summary, NoAdmission
<1>13. Counts(GenerationRecord(attempt), batch)
  <2> DEFINE record == GenerationRecord(attempt)
  <2>1. record.kind = "GenerationRecord" /\ record.status = "succeeded" /\ record.admission = Summary(cases)
    BY <1>11 DEF GenerationRecord
  <2> HIDE DEF record
  <2>2. Counts(record, batch)
    BY <1>10, <1>12, <2>1 DEF Counts, SourceIsUsable
  <2> QED
    BY <2>2 DEF record
<1> QED
  BY <1>8, <1>9, <1>11, <1>13 DEF attempt

\* Each command sees to what it has to see to before it writes.
LEMMA GenerateKeepsLineage ==
  ASSUME Inv, LineageInv, NEW overwrite \in BOOLEAN, Generate(overwrite)
  PROVE  LineageInv'
<1>1. PICK reply \in Replies :
        /\ MayWrite({"cases", "record", "raw"}, overwrite)
        /\ Start("generate", overwrite, started + 1, GenerationWrites(GenerateCases(reply)),
                 IF GenerateCases(reply).batch # <<>> THEN "ok" ELSE "failed")
  BY DEF Generate, PrepareGenerationOutputs
<1> DEFINE attempt == GenerateCases(reply)
           record == GenerationRecord(attempt)
           writes == GenerationWrites(attempt)
           exits == IF attempt.batch # <<>> THEN "ok" ELSE "failed"
<1>2. attempt.batch # <<>> => attempt.answered /\ IsBatch(attempt.batch) /\ Counts(record, attempt.batch)
  BY AttemptYields
<1>3. started + 1 \in Nat /\ (overwrite \/ files["cases"].by = 0)
  BY <1>1 DEF Inv, StampsInv, MayWrite, Exists
<1> HIDE DEF attempt, record
<1>4. /\ WritesOf(writes, "record") = {record}
      /\ WritesOf(writes, "cases") = IF attempt.batch # <<>> THEN {attempt.batch} ELSE {}
      /\ \A path \in {"composedCases", "composition", "evaluation"} : WritesOf(writes, path) = {}
  <2>1. CASE ~attempt.answered
    <3>1. writes = <<<<"record", record>>>>
      BY <2>1 DEF GenerationWrites, record
    <3> HIDE DEF writes
    <3> QED
      BY <1>2, <2>1, <3>1, WritesOfOne
  <2>2. CASE attempt.answered /\ attempt.batch = <<>>
    <3>1. writes = <<<<"raw", Nothing>>, <<"record", record>>>>
      BY <2>2 DEF GenerationWrites, record
    <3>2. \A path : WritesOf(<<<<"raw", Nothing>>, <<"record", record>>>>, path) =
                       IF path = "raw" THEN {Nothing} ELSE IF path = "record" THEN {record} ELSE {}
      BY WritesOfTwo
    <3>3. \A path : WritesOf(writes, path) =
                       IF path = "raw" THEN {Nothing} ELSE IF path = "record" THEN {record} ELSE {}
      BY <3>1, <3>2
    <3> HIDE DEF writes
    <3> QED
      BY <2>2, <3>3
  <2>3. CASE attempt.answered /\ attempt.batch # <<>>
    <3>1. writes = <<<<"raw", Nothing>>, <<"record", record>>, <<"cases", attempt.batch>>>>
      BY <2>3 DEF GenerationWrites, record
    <3>2. \A path : WritesOf(<<<<"raw", Nothing>>, <<"record", record>>, <<"cases", attempt.batch>>>>, path) =
                       IF path = "raw" THEN {Nothing} ELSE IF path = "record" THEN {record}
                       ELSE IF path = "cases" THEN {attempt.batch} ELSE {}
      BY WritesOfThree
    <3>3. \A path : WritesOf(writes, path) =
                       IF path = "raw" THEN {Nothing} ELSE IF path = "record" THEN {record}
                       ELSE IF path = "cases" THEN {attempt.batch} ELSE {}
      BY <3>1, <3>2
    <3> HIDE DEF writes
    <3> QED
      BY <2>3, <3>3
  <2> QED
    BY <2>1, <2>2, <2>3
<1> HIDE DEF writes
<1>5. Prepared("generate", overwrite, started + 1, writes, exits)
  BY <1>2, <1>3, <1>4 DEF Prepared
<1>6. Start("generate", overwrite, started + 1, writes, exits)
  BY <1>1 DEF attempt, writes
<1> QED
  BY <1>5, <1>6, StartKeepsLineage

LEMMA BaselineKeepsLineage ==
  ASSUME Inv, LineageInv, NEW overwrite \in BOOLEAN, GenerateBaseline(overwrite)
  PROVE  LineageInv'
<1>1. PICK adaptation \in Adaptations :
        /\ MayWrite({"cases", "record"}, overwrite)
        /\ Start("generate-baseline", overwrite, started + 1,
                 IF adaptation.batch = <<>> THEN <<<<"record", adaptation.record>>>>
                 ELSE <<<<"record", adaptation.record>>, <<"cases", adaptation.batch>>>>,
                 IF adaptation.batch # <<>> THEN "ok" ELSE "failed")
  BY DEF GenerateBaseline, PrepareBaselineOutputs
<1> DEFINE record == adaptation.record
           batch == adaptation.batch
           writes == IF batch = <<>> THEN <<<<"record", record>>>>
                     ELSE <<<<"record", record>>, <<"cases", batch>>>>
           exits == IF batch # <<>> THEN "ok" ELSE "failed"
<1>2. batch # <<>> => IsBatch(batch) /\ Counts(record, batch)
  <2>1. /\ record.kind = "AdaptationRecord" /\ AreCases(batch)
        /\ batch # <<>> => LoadsAsBatch(batch)
        /\ \A i \in DOMAIN batch : batch[i].valid
        /\ record.admission.admitted = Len(batch)
    BY AdaptationsAssumption
  <2> HIDE DEF record, batch
  <2>2. batch # <<>> => Len(batch) > 0
    BY <2>1, ArrayOfCases
  <2> QED
    BY <2>1, <2>2 DEF IsBatch, Counts, SourceIsUsable
<1>3. started + 1 \in Nat /\ (overwrite \/ files["cases"].by = 0)
  BY <1>1 DEF Inv, StampsInv, MayWrite, Exists
<1> HIDE DEF record, batch
<1>4. /\ WritesOf(writes, "record") = {record}
      /\ WritesOf(writes, "cases") = IF batch # <<>> THEN {batch} ELSE {}
      /\ \A path \in {"composedCases", "composition", "evaluation"} : WritesOf(writes, path) = {}
  <2>1. CASE batch = <<>>
    <3>1. writes = <<<<"record", record>>>>
      BY <2>1
    <3> HIDE DEF writes
    <3> QED
      BY <2>1, <3>1, WritesOfOne
  <2>2. CASE batch # <<>>
    <3>1. writes = <<<<"record", record>>, <<"cases", batch>>>>
      BY <2>2
    <3>2. \A path : WritesOf(<<<<"record", record>>, <<"cases", batch>>>>, path) =
                       IF path = "record" THEN {record} ELSE IF path = "cases" THEN {batch} ELSE {}
      BY WritesOfTwo
    <3>3. \A path : WritesOf(writes, path) =
                       IF path = "record" THEN {record} ELSE IF path = "cases" THEN {batch} ELSE {}
      BY <3>1, <3>2
    <3> HIDE DEF writes
    <3> QED
      BY <2>2, <3>3
  <2> QED
    BY <2>1, <2>2
<1> HIDE DEF writes
<1>5. Prepared("generate-baseline", overwrite, started + 1, writes, exits)
  BY <1>2, <1>3, <1>4 DEF Prepared
<1>6. Start("generate-baseline", overwrite, started + 1, writes, exits)
  BY <1>1 DEF record, batch, writes
<1> QED
  BY <1>5, <1>6, StartKeepsLineage

LEMMA ComposeKeepsLineage ==
  ASSUME Inv, LineageInv, NEW overwrite \in BOOLEAN, Compose(overwrite)
  PROVE  LineageInv'
<1> DEFINE base == Content("cases")
<1>1. PICK packs \in Packs :
        /\ MayWrite({"composedCases", "composition"}, overwrite)
        /\ LoadsBatch("cases") /\ \A p \in DOMAIN packs : LoadsAsBatch(packs[p].cases)
        /\ ~CompositionFails(base, packs)
        /\ Start("compose", overwrite, files["cases"].attempt,
                 <<<<"composedCases", ComposedCases(base, packs)>>,
                   <<"composition", CompositionRecord(base, packs)>>>>, "ok")
  BY DEF Compose, PrepareCompositionOutputs
<1> DEFINE cases == ComposedCases(base, packs)
           record == CompositionRecord(base, packs)
           writes == <<<<"composedCases", cases>>, <<"composition", record>>>>
<1>2. Reads("cases") /\ IsBatch(base)
  BY <1>1 DEF LoadsBatch, LineageInv, BatchInv
<1>3. Composable(base, packs)
  <2>1. packs \in Seq({packs[p] : p \in DOMAIN packs}) /\ \A p \in DOMAIN packs : AreCases(packs[p].cases)
    BY PacksAssumption
  <2> QED
    BY <1>1, <1>2, <2>1 DEF Composable, IsBatch
<1>4. Extends(record, base) /\ Describes(record, cases)
  BY <1>3, ComposedIsDescribed
<1> HIDE DEF base, cases, record
<1>5. /\ WritesOf(writes, "composedCases") = {cases} /\ WritesOf(writes, "composition") = {record}
      /\ WritesOf(writes, "record") = {} /\ WritesOf(writes, "cases") = {}
      /\ WritesOf(writes, "evaluation") = {}
  <2>1. \A path : WritesOf(writes, path) =
                     IF path = "composedCases" THEN {cases} ELSE IF path = "composition" THEN {record} ELSE {}
    BY WritesOfTwo
  <2> HIDE DEF writes
  <2> QED
    BY <2>1
<1>6. /\ files["cases"].attempt = files["cases"].by /\ files["cases"].by \in Nat /\ files["cases"].by # 0
      /\ overwrite \/ files["composition"].by = 0
  BY <1>1, <1>2, Sources DEF Inv, StampsInv, LineageInv, AttemptInv, Reads, MayWrite, Exists
<1> HIDE DEF writes
<1>7. Prepared("compose", overwrite, files["cases"].attempt, writes, "ok")
  BY <1>2, <1>4, <1>5, <1>6 DEF Prepared, base
<1>8. Start("compose", overwrite, files["cases"].attempt, writes, "ok")
  BY <1>1 DEF base, cases, record, writes
<1> QED
  BY <1>7, <1>8, StartKeepsLineage

LEMMA ReportCompareKeepsLineage ==
  ASSUME Inv, LineageInv, NEW overwrite \in BOOLEAN, ReportCompare(overwrite)
  PROVE  LineageInv'
<1> DEFINE writes == <<<<"comparison", Nothing>>, <<"markdown", Nothing>>>>
<1>1. Start("report-compare", overwrite, 0, writes, "ok")
  BY DEF ReportCompare
<1>2. \A path \in {"record", "cases", "composedCases", "composition", "evaluation"} : WritesOf(writes, path) = {}
  BY WritesOfTwo
<1> HIDE DEF writes
<1>3. Prepared("report-compare", overwrite, 0, writes, "ok")
  BY <1>2 DEF Prepared
<1> QED
  BY <1>1, <1>3, StartKeepsLineage

LEMMA RunCasesKeepsLineage ==
  ASSUME Inv, LineageInv, RunCases
  PROVE  LineageInv'
<1> DEFINE writes == <<<<"result", Nothing>>>>
<1>1. PICK path \in {"cases", "composedCases"} : Start("cases-run", FALSE, files[path].attempt, writes, "ok")
  BY DEF RunCases
<1>2. \A p \in {"record", "cases", "composedCases", "composition", "evaluation"} : WritesOf(writes, p) = {}
  BY WritesOfOne
<1>3. files[path].attempt \in Nat
  BY Sources DEF LineageInv, AttemptInv
<1> HIDE DEF writes
<1>4. Prepared("cases-run", FALSE, files[path].attempt, writes, "ok")
  BY <1>2, <1>3 DEF Prepared
<1> QED
  BY <1>1, <1>4, StartKeepsLineage

\* The files an evaluation is computed from.
Inputs(path, composed) == {"record", path} \cup IF composed THEN {"composition"} ELSE {}

(***************************************************************************)
(* What run-suite accepts while no --overwrite came after the oldest of    *)
(* its inputs goes back to one attempt, and to one batch on disk.          *)
(***************************************************************************)
LEMMA InputsAgree ==
  ASSUME Inv, LineageInv, NEW path \in {"cases", "composedCases"}, NEW composed \in BOOLEAN,
         SuiteAccepts(path, composed),
         \A input \in Inputs(path, composed) : forced <= files[input].attempt
  PROVE  /\ \A input \in Inputs(path, composed) : files[input].attempt = files["cases"].by
         /\ \A input \in Inputs(path, composed) \ {"record"} : files[input].by = files[path].by
<1> DEFINE native == files["cases"].by
<1>1. /\ Reads(path) /\ Reads("record")
      /\ composed => Reads("composition")
      /\ CountsAgree(Content("record"), Content(path), IF composed THEN {Content("composition")} ELSE {})
  BY DEF SuiteAccepts, LoadsValidBatch, LoadsBatch
<1>2. /\ \A p \in Paths : files[p].by \in Nat /\ files[p].attempt \in Nat
      /\ \A p \in Paths : files[p].whole => files[p].by # 0
      /\ forced \in Nat
  BY DEF Inv, StampsInv, LineageInv, AttemptInv
<1>3. {"record", "cases", "composedCases", "composition"} \subseteq Paths
  BY Sources
<1> DEFINE inputs == Inputs(path, composed)
<1>4. path \in inputs /\ "record" \in inputs /\ (composed => "composition" \in inputs)
  BY DEF Inputs
<1>5. /\ files["record"].attempt = files["record"].by
      /\ files["cases"].attempt = native /\ native \in Nat
      /\ native <= files["record"].by
      /\ native # 0 /\ native < files["record"].by => files["record"].by <= forced
  BY <1>2, <1>3 DEF LineageInv, AttemptInv, NativeInv
<1>6. \A p \in {"composedCases", "composition"} : files[p].by # 0 =>
        /\ 0 < files[p].attempt /\ files[p].attempt < files[p].by /\ files[p].attempt <= native
        /\ files[p].attempt < native => native <= forced
  BY DEF LineageInv, ComposedInv
<1>7. files[path].attempt = native /\ native # 0
  <2>1. CASE path = "cases"
    BY <1>1, <1>2, <1>3, <1>5, <2>1 DEF Reads
  <2>2. CASE path = "composedCases"
    <3>1. files["composedCases"].by # 0
      BY <1>1, <1>2, <1>3, <2>2 DEF Reads
    <3>2. forced <= files["composedCases"].attempt
      BY <1>4, <2>2
    <3>3. files["composedCases"].attempt \in Nat
      BY <1>2, <1>3
    <3> QED
      BY <1>2, <1>5, <1>6, <2>2, <3>1, <3>2, <3>3
  <2> QED
    BY <2>1, <2>2
<1>8. files["record"].attempt = native
  <2>1. forced <= files[path].attempt /\ files["record"].by \in Nat
    BY <1>2, <1>3, <1>4
  <2> QED
    BY <1>2, <1>5, <1>7, <2>1
<1>9. CASE ~composed
  BY <1>7, <1>8, <1>9 DEF Inputs
<1>10. CASE composed
  <2>1. files["composition"].attempt = native
    <3>1. files["composition"].by # 0 /\ files["composition"].attempt \in Nat
      BY <1>1, <1>2, <1>3, <1>10 DEF Reads
    <3>2. forced <= files["composition"].attempt
      BY <1>4, <1>10
    <3> QED
      BY <1>2, <1>5, <1>6, <3>1, <3>2
  <2>2. path = "composedCases"
    <3> SUFFICES ASSUME path = "cases" PROVE FALSE
      OBVIOUS
    <3>1. Extends(Content("composition"), Content("cases"))
      BY <1>1, <1>10, <2>1 DEF LineageInv, ExtensionInv
    <3>2. Len(Content("cases")) = Content("composition").composed.count
      BY <1>1, <1>10 DEF CountsAgree
    <3>3. Len(Content("cases")) \in Nat
      BY <1>1, ArrayOfCases DEF LineageInv, BatchInv, IsBatch
    <3> QED
      BY <3>1, <3>2, <3>3 DEF Extends
  <2>3. files["composition"].by = files["composedCases"].by
    <3>1. /\ files["composition"].by <= files["composedCases"].by
          /\ files["composition"].by # 0 /\ files["composition"].by < files["composedCases"].by =>
               files["composedCases"].by <= forced
      BY DEF LineageInv, ComposedInv
    <3>2. files["composition"].by # 0 /\ files["composedCases"].by # 0
      BY <1>1, <1>2, <1>3, <1>10, <2>2 DEF Reads
    <3>3. files["composedCases"].attempt < files["composedCases"].by
      BY <1>6, <3>2
    <3>4. forced <= files["composedCases"].attempt
      BY <1>4, <2>2
    <3>5. /\ files["composition"].by \in Nat /\ files["composedCases"].by \in Nat
          /\ files["composedCases"].attempt \in Nat
      BY <1>2, <1>3
    <3> QED
      BY <1>2, <3>1, <3>2, <3>3, <3>4, <3>5
  <2> QED
    BY <1>7, <1>8, <2>1, <2>2, <2>3 DEF Inputs
<1> QED
  BY <1>9, <1>10

LEMMA RunSuiteKeepsLineage ==
  ASSUME Inv, LineageInv, NEW overwrite \in BOOLEAN, RunSuite(overwrite)
  PROVE  LineageInv'
<1>1. PICK path \in {"cases", "composedCases"}, composed \in BOOLEAN :
        /\ SuiteAccepts(path, composed)
        /\ LET inputs == {"record", path} \cup IF composed THEN {"composition"} ELSE {}
           IN Start("run-suite", overwrite, files["record"].attempt,
                <<<<"evaluation", [attempts |-> {files[input].attempt : input \in inputs},
                                   batches |-> {files[input].by : input \in inputs \ {"record"}}]>>>>, "ok")
  BY DEF RunSuite
<1> DEFINE inputs == {"record", path} \cup IF composed THEN {"composition"} ELSE {}
           attempts == {files[input].attempt : input \in inputs}
           batches == {files[input].by : input \in inputs \ {"record"}}
           evaluation == [attempts |-> attempts, batches |-> batches]
           writes == <<<<"evaluation", evaluation>>>>
<1>2. inputs \subseteq Paths /\ "record" \in inputs /\ path \in inputs \ {"record"}
  BY Sources
<1>3. \A input \in inputs : files[input].attempt \in Nat
  BY <1>2 DEF LineageInv, AttemptInv
<1>4. (\A input \in inputs : forced <= files[input].attempt) =>
        /\ \A input \in inputs : files[input].attempt = files["cases"].by
        /\ \A input \in inputs \ {"record"} : files[input].by = files[path].by
  <2> SUFFICES ASSUME \A input \in inputs : forced <= files[input].attempt
               PROVE  /\ \A input \in inputs : files[input].attempt = files["cases"].by
                      /\ \A input \in inputs \ {"record"} : files[input].by = files[path].by
    OBVIOUS
  <2>1. inputs = Inputs(path, composed) /\ SuiteAccepts(path, composed)
    BY <1>1 DEF Inputs
  <2> HIDE DEF inputs
  <2> QED
    BY <2>1, InputsAgree
<1> HIDE DEF inputs
<1>5. Joins(evaluation)
  <2>1. attempts \subseteq Nat /\ attempts # {}
    BY <1>2, <1>3
  <2>2. ASSUME \A attempt \in attempts : forced <= attempt
        PROVE  Cardinality(attempts) = 1 /\ Cardinality(batches) = 1
    <3>1. \A input \in inputs : forced <= files[input].attempt
      BY <2>2
    <3>2. attempts = {files["cases"].by}
      BY <1>2, <1>4, <3>1
    <3>3. batches = {files[path].by}
      BY <1>2, <1>4, <3>1
    <3> QED
      BY <3>2, <3>3, FS_Singleton
  <2> HIDE DEF attempts, batches
  <2>3. evaluation.attempts = attempts /\ evaluation.batches = batches
    OBVIOUS
  <2> HIDE DEF evaluation
  <2> QED
    BY <2>1, <2>2, <2>3 DEF Joins, SameLineage
<1>6. Start("run-suite", overwrite, files["record"].attempt, writes, "ok")
  BY <1>1 DEF inputs
<1> HIDE DEF evaluation
<1>7. /\ WritesOf(writes, "evaluation") = {evaluation}
      /\ \A p \in {"record", "cases", "composedCases", "composition"} : WritesOf(writes, p) = {}
  BY WritesOfOne
<1> HIDE DEF writes
<1>8. Prepared("run-suite", overwrite, files["record"].attempt, writes, "ok")
  BY <1>2, <1>3, <1>5, <1>7 DEF Prepared
<1> QED
  BY <1>6, <1>8, StartKeepsLineage

----------------------------------------------------------------------------
(* Writing keeps the lineage *)

\* What the next write changes.
LEMMA NextWrite ==
  ASSUME Inv, pending # <<>>
  PROVE  /\ pending[1][1] \in Paths /\ pending[1][2] \in ToWrite(pending[1][1])
         /\ files[pending[1][1]].by < started
         /\ \A path : WritesOf(Tail(pending), path) =
                        IF path = pending[1][1] THEN {} ELSE ToWrite(path)
         /\ \A path : ToWrite(path) # {} => files[path].by < started
         /\ pending[1][1] = "cases" =>
              files["record"].by = started /\ files["record"].whole /\ ToWrite("record") = {}
         /\ pending[1][1] = "composition" =>
              files["composedCases"].by = started /\ files["composedCases"].whole
              /\ ToWrite("composedCases") = {}
         /\ Len(pending) = 1 => Tail(pending) = <<>>
<1> DEFINE next == pending[1][1]
<1>1. /\ next \in Paths /\ files[next].by < started
      /\ \A i \in 1..Len(Tail(pending)) :
           i + 1 \in 1..Len(pending) /\ Tail(pending)[i] = pending[i + 1] /\ Tail(pending)[i][1] # next
  BY FileUnderWay
<1>2. /\ Len(pending) \in Nat \ {0} /\ Len(Tail(pending)) = Len(pending) - 1
      /\ \A i \in 1..Len(Tail(pending)) : Tail(pending)[i] = pending[i + 1]
      /\ \E S : Tail(pending) \in Seq(S)
  BY RestOfPending DEF Inv
<1>3. \A i \in 1..Len(pending) : i = 1 \/ (i - 1 \in 1..Len(Tail(pending)) /\ (i - 1) + 1 = i)
  BY <1>2
<1>4. 1 \in 1..Len(pending)
  BY <1>2
<1>5. pending[1][2] \in ToWrite(next)
  BY <1>4 DEF ToWrite, WritesOf
<1>6. ASSUME NEW path PROVE WritesOf(Tail(pending), path) = IF path = next THEN {} ELSE ToWrite(path)
  <2>1. CASE path = next
    BY <1>1, <2>1 DEF WritesOf
  <2>2. CASE path # next
    <3>1. ASSUME NEW c \in WritesOf(Tail(pending), path) PROVE c \in ToWrite(path)
      <4>1. PICK i \in 1..Len(Tail(pending)) : Tail(pending)[i][1] = path /\ Tail(pending)[i][2] = c
        BY <3>1 DEF WritesOf
      <4> QED
        BY <1>1, <4>1 DEF ToWrite, WritesOf
    <3>2. ASSUME NEW c \in ToWrite(path) PROVE c \in WritesOf(Tail(pending), path)
      <4>1. PICK i \in 1..Len(pending) : pending[i][1] = path /\ pending[i][2] = c
        BY <3>2 DEF ToWrite, WritesOf
      <4>2. i - 1 \in 1..Len(Tail(pending)) /\ Tail(pending)[i - 1] = pending[i]
        BY <1>2, <1>3, <2>2, <4>1
      <4> QED
        BY <4>1, <4>2 DEF WritesOf
    <3> QED
      BY <2>2, <3>1, <3>2
  <2> QED
    BY <2>1, <2>2
<1>7. ASSUME NEW path, ToWrite(path) # {} PROVE files[path].by < started
  <2>1. PICK i \in 1..Len(pending) : pending[i][1] = path
    BY <1>7 DEF ToWrite, WritesOf
  <2> QED
    BY <2>1 DEF Inv, PendingInv
<1>8. \A source \in Paths : Needs(next, pending[1][2], source) => files[source].by = started /\ files[source].whole
  BY <1>4 DEF Inv, OrderInv
<1>9. started \in Nat
  BY DEF Inv, StampsInv
<1>10. next = "cases" => files["record"].by = started /\ files["record"].whole
  BY <1>8, Sources DEF Needs
<1>11. next = "composition" => files["composedCases"].by = started /\ files["composedCases"].whole
  BY <1>8, Sources DEF Needs
<1>12. \A path : files[path].by = started => ToWrite(path) = {}
  BY <1>7, <1>9
<1>13. Len(pending) = 1 => Tail(pending) = <<>>
  <2>1. PICK S : Tail(pending) \in Seq(S)
    BY <1>2
  <2>2. Len(pending) = 1 => Len(Tail(pending)) = 0
    BY <1>2
  <2>3. Tail(pending) # <<>> => Len(Tail(pending)) \in Nat \ {0}
    BY <2>1, EmptySeq
  <2> QED
    BY <2>2, <2>3
<1> HIDE DEF next
<1> QED
  BY <1>1, <1>5, <1>6, <1>7, <1>10, <1>11, <1>12, <1>13 DEF next

\* A write adds to the files what was planned, and was checked when it was planned.
LEMMA WriteNextKeepsLineage ==
  ASSUME Inv, LineageInv, WriteNext
  PROVE  LineageInv'
<1>0. PICK next, content : next = pending[1][1] /\ content = pending[1][2]
  OBVIOUS
<1>1. /\ pending # <<>> /\ pending' = Tail(pending) /\ started' = started /\ forced' = forced
      /\ command' = command
      /\ exit' = IF Len(pending) = 1 THEN command.exits ELSE exit
      /\ files' = [files EXCEPT ![next] = [by |-> started, attempt |-> command.attempt, whole |-> TRUE,
                                           content |-> content]]
  BY <1>0 DEF WriteNext
<1>2. /\ next \in Paths /\ content \in ToWrite(next) /\ files[next].by < started
      /\ \A path : ToWrite(path) # {} => files[path].by < started
      /\ next = "cases" => files["record"].by = started /\ files["record"].whole /\ ToWrite("record") = {}
      /\ next = "composition" => files["composedCases"].by = started /\ files["composedCases"].whole
                                 /\ ToWrite("composedCases") = {}
      /\ Len(pending) = 1 => Tail(pending) = <<>>
  BY <1>0, <1>1, NextWrite
<1>3. \A path : ToWrite(path)' = IF path = next THEN {} ELSE ToWrite(path)
  BY <1>0, <1>1, NextWrite DEF ToWrite
<1>4. /\ files'[next].by = started /\ files'[next].attempt = command.attempt /\ files'[next].whole
      /\ files'[next].content = content
      /\ \A path \in Paths \ {next} : files'[path] = files[path]
  BY <1>1, <1>2 DEF Inv, StampsInv
<1>5. /\ started \in Nat /\ forced \in Nat /\ forced <= started
      /\ \A path \in Paths : files[path].by \in Nat /\ files[path].by <= started
  BY DEF Inv, StampsInv
<1>6. {"record", "cases", "composedCases", "composition", "evaluation"} \subseteq Paths
  BY Sources
<1>7. started # 0
  BY <1>2, <1>5
<1>8. exit = "running"
  BY <1>1 DEF LineageInv, ExitInv
<1>9. /\ Reads(next)' /\ Content(next)' = content
      /\ \A path \in Paths \ {next} : Reads(path)' = Reads(path) /\ Content(path)' = Content(path)
  BY <1>4 DEF Reads, Content
<1>10. AttemptInv'
  BY <1>1, <1>2, <1>3, <1>4, <1>5, <1>6, <1>7 DEF LineageInv, AttemptInv
<1>11. NativeInv'
  <2>1. /\ files["record"].attempt = files["record"].by /\ files["cases"].attempt = files["cases"].by
        /\ files["cases"].by <= files["record"].by
        /\ files["cases"].by # 0 /\ files["cases"].by < files["record"].by => files["record"].by <= forced
        /\ ToWrite("record") # {} \/ ToWrite("cases") # {} => forced = started \/ files["cases"].by = 0
    BY DEF LineageInv, AttemptInv, NativeInv
  <2>2. CASE next = "record"
    BY <1>1, <1>2, <1>3, <1>4, <1>5, <1>6, <2>1, <2>2 DEF NativeInv
  <2>3. CASE next = "cases"
    BY <1>1, <1>2, <1>3, <1>4, <1>5, <1>6, <2>1, <2>3 DEF NativeInv
  <2>4. CASE next \notin {"record", "cases"}
    BY <1>1, <1>3, <1>4, <1>6, <2>1, <2>4 DEF NativeInv
  <2> QED
    BY <2>2, <2>3, <2>4
<1>12. ComposedInv'
  <2> DEFINE native == files["cases"].by
             old == files["composition"].by
             new == files["composedCases"].by
  <2>1. \A path \in {"composedCases", "composition"} :
          /\ files[path].by # 0 =>
               0 < files[path].attempt /\ files[path].attempt < files[path].by /\ files[path].attempt <= native
          /\ files[path].by # 0 /\ files[path].attempt < native => native <= forced
          /\ ToWrite(path) # {} =>
               /\ command.attempt = native /\ 0 < command.attempt /\ command.attempt < started
               /\ forced = started \/ old = 0
          /\ files[path].attempt \in Nat
    BY <1>6 DEF LineageInv, AttemptInv, ComposedInv
  <2>2. /\ old <= new
        /\ old # 0 /\ old < new => new <= forced
        /\ old = new => files["composition"].attempt = files["composedCases"].attempt
    BY DEF LineageInv, ComposedInv
  <2>3. native \in Nat /\ old \in Nat /\ new \in Nat /\ native <= started /\ old <= started /\ new <= started
    BY <1>5, <1>6
  <2>4. CASE next = "cases"
    <3>1. files'["cases"].by = started
      BY <1>4, <2>4
    <3>2. forced = started \/ native = 0
      BY <1>2, <2>4 DEF LineageInv, NativeInv
    <3>3. files'["composition"] = files["composition"] /\ files'["composedCases"] = files["composedCases"]
      BY <1>4, <1>6, <2>4
    <3>4. command.attempt = started
      BY <1>2, <2>4 DEF LineageInv, AttemptInv
    <3>5. ToWrite("composition") = {} /\ ToWrite("composedCases") = {}
      BY <1>5, <2>1, <3>4
    <3>6. ToWrite("composition")' = {} /\ ToWrite("composedCases")' = {}
      BY <1>3, <3>5
    <3> QED
      BY <1>1, <1>5, <2>1, <2>2, <2>3, <3>1, <3>2, <3>3, <3>6 DEF ComposedInv
  <2>5. CASE next = "composedCases"
    <3>1. /\ files'["cases"] = files["cases"] /\ files'["composition"] = files["composition"]
          /\ files'["composedCases"].by = started /\ files'["composedCases"].attempt = command.attempt
      BY <1>4, <1>6, <2>5
    <3>2. ToWrite("composedCases") # {} /\ new < started
      BY <1>2, <2>5
    <3>3. ToWrite("composition")' = ToWrite("composition") /\ ToWrite("composedCases")' = {}
      BY <1>3, <2>5
    <3> QED
      BY <1>1, <1>5, <1>7, <2>1, <2>2, <2>3, <3>1, <3>2, <3>3 DEF ComposedInv
  <2>6. CASE next = "composition"
    <3>1. /\ files'["cases"] = files["cases"] /\ files'["composedCases"] = files["composedCases"]
          /\ files'["composition"].by = started /\ files'["composition"].attempt = command.attempt
      BY <1>4, <1>6, <2>6
    <3>2. ToWrite("composition") # {} /\ new = started
      BY <1>2, <2>6
    <3>3. ToWrite("composition")' = {} /\ ToWrite("composedCases")' = {}
      BY <1>2, <1>3, <2>6
    <3>4. files["composedCases"].attempt = command.attempt
      BY <1>6, <3>2 DEF LineageInv, AttemptInv
    <3> QED
      BY <1>1, <1>5, <1>7, <2>1, <2>2, <2>3, <3>1, <3>2, <3>3, <3>4 DEF ComposedInv
  <2>7. CASE next \notin {"cases", "composedCases", "composition"}
    <3>1. /\ files'["cases"] = files["cases"] /\ files'["composedCases"] = files["composedCases"]
          /\ files'["composition"] = files["composition"]
      BY <1>4, <1>6, <2>7
    <3>2. ToWrite("composition")' = ToWrite("composition") /\ ToWrite("composedCases")' = ToWrite("composedCases")
      BY <1>3, <2>7
    <3> QED
      BY <1>1, <2>1, <2>2, <3>1, <3>2 DEF ComposedInv
  <2> QED
    BY <2>4, <2>5, <2>6, <2>7
<1>13. BatchInv'
  <2>1. /\ Reads("cases") => IsBatch(Content("cases"))
        /\ Reads("record") /\ Reads("cases") /\ files["record"].by = files["cases"].by =>
             Counts(Content("record"), Content("cases"))
        /\ \A cases \in ToWrite("cases") :
             /\ IsBatch(cases)
             /\ \A record \in ToWrite("record") : Counts(record, cases)
             /\ files["record"].by = started => Counts(Content("record"), cases)
    BY DEF LineageInv, BatchInv
  <2>2. files["cases"].by <= files["record"].by
    BY DEF LineageInv, NativeInv
  <2>3. CASE next = "cases"
    <3>1. /\ files'["record"] = files["record"] /\ Reads("record")' = Reads("record")
          /\ Content("record")' = Content("record") /\ Reads("cases")' /\ Content("cases")' = content
      BY <1>6, <1>4, <1>9, <2>3
    <3>2. IsBatch(content) /\ Counts(Content("record"), content)
      BY <1>2, <2>1, <2>3
    <3>3. ToWrite("cases")' = {}
      BY <1>3, <2>3
    <3> QED
      BY <3>1, <3>2, <3>3 DEF BatchInv
  <2>4. CASE next = "record"
    <3>1. /\ files'["cases"] = files["cases"] /\ Reads("cases")' = Reads("cases")
          /\ Content("cases")' = Content("cases") /\ Content("record")' = content
          /\ files'["record"].by = started
      BY <1>6, <1>4, <1>9, <2>4
    <3>2. files["cases"].by # started
      BY <1>2, <1>5, <1>6, <2>2, <2>4
    <3>3. ToWrite("cases")' = ToWrite("cases") /\ ToWrite("record")' = {}
      BY <1>3, <2>4
    <3>4. content \in ToWrite("record")
      BY <1>2, <2>4
    <3> QED
      BY <2>1, <3>1, <3>2, <3>3, <3>4 DEF BatchInv
  <2>5. CASE next \notin {"cases", "record"}
    <3>1. /\ files'["cases"] = files["cases"] /\ files'["record"] = files["record"]
          /\ \A path \in {"cases", "record"} :
               Reads(path)' = Reads(path) /\ Content(path)' = Content(path) /\ ToWrite(path)' = ToWrite(path)
      BY <1>3, <1>4, <1>6, <1>9, <2>5
    <3> QED
      BY <1>1, <2>1, <3>1 DEF BatchInv
  <2> QED
    BY <2>3, <2>4, <2>5
<1>14. ExtensionInv'
  <2>1. /\ Reads("composition") /\ Reads("cases") /\ files["composition"].attempt = files["cases"].by =>
             Extends(Content("composition"), Content("cases"))
        /\ ToWrite("composition") # {} => Reads("cases")
        /\ \A composition \in ToWrite("composition") : Extends(composition, Content("cases"))
    BY DEF LineageInv, ExtensionInv
  <2>2. CASE next = "cases"
    <3>1. /\ files'["composition"] = files["composition"] /\ Reads("composition")' = Reads("composition")
          /\ files'["cases"].by = started
      BY <1>4, <1>6, <1>9, <2>2
    <3>2. Reads("composition") => files["composition"].attempt < files["composition"].by
      BY <1>6 DEF LineageInv, AttemptInv, ComposedInv, Reads
    <3>3. Reads("composition") => files["composition"].attempt # started
      BY <1>5, <1>6, <3>2 DEF LineageInv, AttemptInv
    <3>4. ToWrite("composition")' = {}
      <4>1. command.attempt = started
        BY <1>2, <2>2 DEF LineageInv, AttemptInv
      <4>2. ToWrite("composition") = {}
        BY <1>5, <4>1 DEF LineageInv, ComposedInv
      <4> QED
        BY <1>3, <4>2
    <3> QED
      BY <3>1, <3>3, <3>4 DEF ExtensionInv
  <2>3. CASE next = "composition"
    <3>1. /\ files'["cases"] = files["cases"] /\ Reads("cases")' = Reads("cases")
          /\ Content("cases")' = Content("cases") /\ Content("composition")' = content
      BY <1>4, <1>6, <1>9, <2>3
    <3>2. content \in ToWrite("composition") /\ ToWrite("composition")' = {}
      BY <1>2, <1>3, <2>3
    <3> QED
      BY <2>1, <3>1, <3>2 DEF ExtensionInv
  <2>4. CASE next \notin {"cases", "composition"}
    <3>1. /\ files'["cases"] = files["cases"] /\ files'["composition"] = files["composition"]
          /\ \A path \in {"cases", "composition"} :
               Reads(path)' = Reads(path) /\ Content(path)' = Content(path) /\ ToWrite(path)' = ToWrite(path)
      BY <1>3, <1>4, <1>6, <1>9, <2>4
    <3> QED
      BY <2>1, <3>1 DEF ExtensionInv
  <2> QED
    BY <2>2, <2>3, <2>4
<1>15. DescriptionInv'
  <2>1. /\ Reads("composition") /\ Reads("composedCases")
             /\ files["composition"].by = files["composedCases"].by =>
             Describes(Content("composition"), Content("composedCases"))
        /\ \A composition \in ToWrite("composition") :
             /\ \A cases \in ToWrite("composedCases") : Describes(composition, cases)
             /\ files["composedCases"].by = started => Describes(composition, Content("composedCases"))
    BY DEF LineageInv, DescriptionInv
  <2>2. CASE next = "composedCases"
    <3>1. /\ files'["composition"] = files["composition"] /\ files'["composedCases"].by = started
          /\ Content("composedCases")' = content
      BY <1>4, <1>6, <1>9, <2>2
    <3>2. files["composition"].by # started
      BY <1>2, <1>5, <1>6, <2>2 DEF LineageInv, ComposedInv
    <3>3. ToWrite("composition")' = ToWrite("composition") /\ ToWrite("composedCases")' = {}
      BY <1>3, <2>2
    <3>4. content \in ToWrite("composedCases")
      BY <1>2, <2>2
    <3> QED
      BY <2>1, <3>1, <3>2, <3>3, <3>4 DEF DescriptionInv
  <2>3. CASE next = "composition"
    <3>1. /\ files'["composedCases"] = files["composedCases"]
          /\ Content("composedCases")' = Content("composedCases") /\ Content("composition")' = content
      BY <1>4, <1>6, <1>9, <2>3
    <3>2. ToWrite("composition")' = {} /\ content \in ToWrite("composition")
          /\ files["composedCases"].by = started
      BY <1>2, <1>3, <2>3
    <3> QED
      BY <2>1, <3>1, <3>2 DEF DescriptionInv
  <2>4. CASE next \notin {"composedCases", "composition"}
    <3>1. /\ files'["composedCases"] = files["composedCases"] /\ files'["composition"] = files["composition"]
          /\ \A path \in {"composedCases", "composition"} :
               Reads(path)' = Reads(path) /\ Content(path)' = Content(path) /\ ToWrite(path)' = ToWrite(path)
      BY <1>3, <1>4, <1>6, <1>9, <2>4
    <3> QED
      BY <1>1, <2>1, <3>1 DEF DescriptionInv
  <2> QED
    BY <2>2, <2>3, <2>4
<1>16. ExitInv'
  <2>1. exit' # "running" => pending' = <<>>
    BY <1>1, <1>2, <1>8
  <2>2. exit' = "ok" => command'.exits = "ok"
    BY <1>1, <1>8
  <2>3. \A path \in Paths : Underway(path) => Underway(path)'
    BY <1>1, <1>3, <1>4 DEF Underway
  <2>4. exit' \in {"running", "ok"} /\ command.exits = "ok" /\ command.name = "compose" =>
          Reads("cases")' /\ files'["cases"].by = command.attempt
    <3> SUFFICES ASSUME command.exits = "ok", command.name = "compose"
                 PROVE  Reads("cases")' /\ files'["cases"].by = command.attempt
      OBVIOUS
    <3>1. /\ Reads("cases") /\ files["cases"].by = command.attempt
          /\ Underway("composition")
      BY <1>8 DEF LineageInv, ExitInv
    <3>2. next # "cases"
      BY <1>2, <1>5, <3>1 DEF LineageInv, AttemptInv
    <3> QED
      BY <1>4, <1>6, <1>9, <3>1, <3>2
  <2> QED
    BY <1>1, <1>6, <1>8, <2>1, <2>2, <2>3, <2>4 DEF LineageInv, ExitInv
<1>17. EvaluationInv'
  <2>1. \A evaluation : Joins(evaluation)' = Joins(evaluation)
    BY <1>1 DEF Joins
  <2>2. CASE next = "evaluation"
    BY <1>2, <1>3, <1>9, <2>1, <2>2 DEF LineageInv, EvaluationInv
  <2>3. CASE next # "evaluation"
    BY <1>3, <1>6, <1>9, <2>1, <2>3 DEF LineageInv, EvaluationInv
  <2> QED
    BY <2>2, <2>3
<1> QED
  BY <1>10, <1>11, <1>12, <1>13, <1>14, <1>15, <1>16, <1>17 DEF LineageInv

\* A write that fails leaves the file as it was, or unreadable.
LEMMA WriteFailsKeepsLineage ==
  ASSUME Inv, LineageInv, WriteFails
  PROVE  LineageInv'
<1>0. PICK next, content : next = pending[1][1] /\ content = pending[1][2]
  OBVIOUS
<1>1. /\ pending # <<>> /\ pending' = <<>> /\ started' = started /\ forced' = forced
      /\ command' = command /\ exit' = "failed"
      /\ \/ files' = files
         \/ files' = [files EXCEPT ![next] = [by |-> started, attempt |-> command.attempt, whole |-> FALSE,
                                              content |-> Nothing]]
  BY <1>0 DEF WriteFails
<1>2. /\ next \in Paths /\ files[next].by < started /\ ToWrite(next) # {}
      /\ next = "composition" => files["composedCases"].by = started
  BY <1>0, <1>1, NextWrite
<1>3. \A path : ToWrite(path)' = {}
  <2>1. 1..Len(pending') = {}
    BY <1>1
  <2> QED
    BY <2>1 DEF ToWrite, WritesOf
<1>4. /\ \A path \in Paths \ {next} : files'[path] = files[path]
      /\ \/ files'[next] = files[next]
         \/ files'[next].by = started /\ files'[next].attempt = command.attempt /\ ~files'[next].whole
  BY <1>1, <1>2 DEF Inv, StampsInv
<1>5. /\ started \in Nat /\ forced \in Nat /\ forced <= started
      /\ \A path \in Paths : files[path].by \in Nat /\ files[path].by <= started
  BY DEF Inv, StampsInv
<1>6. {"record", "cases", "composedCases", "composition", "evaluation"} \subseteq Paths
  BY Sources
<1>7. started # 0
  BY <1>2, <1>5
<1>8. \A path \in Paths : Reads(path)' =>
        files'[path] = files[path] /\ Reads(path) /\ Content(path)' = Content(path)
  BY <1>4 DEF Reads, Content
<1>9. AttemptInv'
  <2>1. command'.attempt \in Nat
    BY <1>1 DEF LineageInv, AttemptInv
  <2>2. ASSUME NEW path \in Paths
        PROVE  /\ files'[path].attempt \in Nat
               /\ files'[path].by = started => files'[path].attempt = command.attempt
               /\ files'[path].whole => files'[path].by # 0
    <3>1. /\ files[path].attempt \in Nat /\ command.attempt \in Nat
          /\ files[path].by = started => files[path].attempt = command.attempt
          /\ files[path].whole => files[path].by # 0
      BY DEF LineageInv, AttemptInv
    <3> QED
      BY <1>4, <1>7, <3>1
  <2>3. ASSUME NEW path \in {"record", "cases"} PROVE files'[path].attempt = files'[path].by
    <3>1. /\ files[path].attempt = files[path].by
          /\ ToWrite(path) # {} => command.attempt = started
      BY DEF LineageInv, AttemptInv
    <3> QED
      BY <1>2, <1>4, <1>6, <3>1
  <2> QED
    BY <1>1, <1>3, <2>1, <2>2, <2>3 DEF AttemptInv
<1>10. NativeInv'
  <2>1. /\ files["cases"].by <= files["record"].by
        /\ files["cases"].by # 0 /\ files["cases"].by < files["record"].by => files["record"].by <= forced
        /\ ToWrite("record") # {} \/ ToWrite("cases") # {} => forced = started \/ files["cases"].by = 0
    BY DEF LineageInv, NativeInv
  <2>2. next = "cases" => files["record"].by = started
    BY <1>0, <1>1, NextWrite
  <2>3. CASE next = "record"
    BY <1>1, <1>2, <1>3, <1>4, <1>5, <1>6, <2>1, <2>3 DEF NativeInv
  <2>4. CASE next = "cases"
    BY <1>1, <1>2, <1>3, <1>4, <1>5, <1>6, <2>1, <2>2, <2>4 DEF NativeInv
  <2>5. CASE next \notin {"record", "cases"}
    BY <1>1, <1>3, <1>4, <1>6, <2>1, <2>5 DEF NativeInv
  <2> QED
    BY <2>3, <2>4, <2>5
<1>11. ComposedInv'
  <2> DEFINE native == files["cases"].by
             old == files["composition"].by
             new == files["composedCases"].by
  <2>1. \A path \in {"composedCases", "composition"} :
          /\ files[path].by # 0 =>
               0 < files[path].attempt /\ files[path].attempt < files[path].by /\ files[path].attempt <= native
          /\ files[path].by # 0 /\ files[path].attempt < native => native <= forced
          /\ ToWrite(path) # {} =>
               /\ command.attempt = native /\ 0 < command.attempt /\ command.attempt < started
               /\ forced = started \/ old = 0
          /\ files[path].attempt \in Nat
    BY <1>6 DEF LineageInv, AttemptInv, ComposedInv
  <2>2. /\ old <= new
        /\ old # 0 /\ old < new => new <= forced
        /\ old = new => files["composition"].attempt = files["composedCases"].attempt
    BY DEF LineageInv, ComposedInv
  <2>3. native \in Nat /\ old \in Nat /\ new \in Nat /\ native <= started /\ old <= started /\ new <= started
    BY <1>5, <1>6
  <2>4. ToWrite("composition")' = {} /\ ToWrite("composedCases")' = {}
    BY <1>3
  <2>5. CASE files'[next] = files[next]
    <3>1. /\ files'["cases"] = files["cases"] /\ files'["composedCases"] = files["composedCases"]
          /\ files'["composition"] = files["composition"]
      BY <1>4, <1>6, <2>5
    <3> QED
      BY <1>1, <2>1, <2>2, <2>4, <3>1 DEF ComposedInv
  <2>6. CASE next = "cases" /\ files'[next].by = started
    <3>1. files'["composition"] = files["composition"] /\ files'["composedCases"] = files["composedCases"]
      BY <1>4, <1>6, <2>6
    <3>2. forced = started \/ native = 0
      BY <1>2, <2>6 DEF LineageInv, NativeInv
    <3> QED
      BY <1>1, <1>5, <2>1, <2>2, <2>3, <2>4, <2>6, <3>1, <3>2 DEF ComposedInv
  <2>7. CASE next = "composedCases" /\ files'[next].by = started /\ files'[next].attempt = command.attempt
    <3>1. files'["cases"] = files["cases"] /\ files'["composition"] = files["composition"]
      BY <1>4, <1>6, <2>7
    <3>2. new < started
      BY <1>2, <2>7
    <3> QED
      BY <1>1, <1>2, <1>5, <1>7, <2>1, <2>2, <2>3, <2>4, <2>7, <3>1, <3>2 DEF ComposedInv
  <2>8. CASE next = "composition" /\ files'[next].by = started /\ files'[next].attempt = command.attempt
    <3>1. files'["cases"] = files["cases"] /\ files'["composedCases"] = files["composedCases"]
      BY <1>4, <1>6, <2>8
    <3>2. new = started
      BY <1>2, <2>8
    <3>3. files["composedCases"].attempt = command.attempt
      BY <1>6, <3>2 DEF LineageInv, AttemptInv
    <3> QED
      BY <1>1, <1>2, <1>5, <1>7, <2>1, <2>2, <2>3, <2>4, <2>8, <3>1, <3>2, <3>3 DEF ComposedInv
  <2>9. CASE next \notin {"cases", "composedCases", "composition"}
    <3>1. /\ files'["cases"] = files["cases"] /\ files'["composedCases"] = files["composedCases"]
          /\ files'["composition"] = files["composition"]
      BY <1>4, <1>6, <2>9
    <3> QED
      BY <1>1, <2>1, <2>2, <2>4, <3>1 DEF ComposedInv
  <2> QED
    BY <1>4, <2>5, <2>6, <2>7, <2>8, <2>9
<1>12. BatchInv'
  BY <1>3, <1>6, <1>8 DEF LineageInv, BatchInv
<1>13. ExtensionInv'
  BY <1>3, <1>6, <1>8 DEF LineageInv, ExtensionInv
<1>14. DescriptionInv'
  BY <1>3, <1>6, <1>8 DEF LineageInv, DescriptionInv
<1>15. ExitInv'
  BY <1>1 DEF ExitInv
<1>16. EvaluationInv'
  <2>1. \A evaluation : Joins(evaluation)' = Joins(evaluation)
    BY <1>1 DEF Joins
  <2> QED
    BY <1>3, <1>6, <1>8, <2>1 DEF LineageInv, EvaluationInv
<1> QED
  BY <1>9, <1>10, <1>11, <1>12, <1>13, <1>14, <1>15, <1>16 DEF LineageInv

\* The second one does, given the first.
LEMMA LineageHolds == Spec => []LineageInv
<1>1. Init => LineageInv
  <2> SUFFICES ASSUME Init PROVE LineageInv
    OBVIOUS
  <2>1. /\ files = [path \in Paths |-> Absent] /\ started = 0 /\ forced = 0 /\ pending = <<>>
        /\ command.name = "none" /\ command.attempt = 0 /\ command.exits = "none" /\ exit = "none"
    BY DEF Init
  <2>2. Absent.by = 0 /\ Absent.attempt = 0 /\ ~Absent.whole
    BY DEF Absent
  <2>3. \A path \in Paths : files[path].by = 0 /\ files[path].attempt = 0 /\ ~files[path].whole
    BY <2>1, <2>2
  <2>4. \A path : ToWrite(path) = {}
    <3>1. 1..Len(pending) = {}
      BY <2>1
    <3> QED
      BY <3>1 DEF ToWrite, WritesOf
  <2>5. {"record", "cases", "composedCases", "composition", "evaluation"} \subseteq Paths
    BY Sources
  <2>6. AttemptInv /\ NativeInv /\ ComposedInv
    BY <2>1, <2>3, <2>4, <2>5 DEF AttemptInv, NativeInv, ComposedInv
  <2>7. BatchInv /\ ExtensionInv /\ DescriptionInv /\ EvaluationInv
    BY <2>3, <2>4, <2>5 DEF BatchInv, ExtensionInv, DescriptionInv, EvaluationInv, Reads
  <2>8. ExitInv
    BY <2>1 DEF ExitInv
  <2> QED
    BY <2>6, <2>7, <2>8 DEF LineageInv
<1>2. Inv /\ LineageInv /\ [Next]_vars => LineageInv'
  <2> SUFFICES ASSUME Inv, LineageInv, [Next]_vars PROVE LineageInv'
    OBVIOUS
  <2>1. ASSUME NEW overwrite \in BOOLEAN, Generate(overwrite) PROVE LineageInv'
    BY <2>1, GenerateKeepsLineage
  <2>2. ASSUME NEW overwrite \in BOOLEAN, GenerateBaseline(overwrite) PROVE LineageInv'
    BY <2>2, BaselineKeepsLineage
  <2>3. ASSUME NEW overwrite \in BOOLEAN, Compose(overwrite) PROVE LineageInv'
    BY <2>3, ComposeKeepsLineage
  <2>4. ASSUME NEW overwrite \in BOOLEAN, RunSuite(overwrite) PROVE LineageInv'
    BY <2>4, RunSuiteKeepsLineage
  <2>5. ASSUME NEW overwrite \in BOOLEAN, ReportCompare(overwrite) PROVE LineageInv'
    BY <2>5, ReportCompareKeepsLineage
  <2>6. CASE RunCases
    BY <2>6, RunCasesKeepsLineage
  <2>7. CASE WriteNext
    BY <2>7, WriteNextKeepsLineage
  <2>8. CASE WriteFails
    BY <2>8, WriteFailsKeepsLineage
  <2>9. CASE UNCHANGED vars
    <3>1. /\ files' = files /\ started' = started /\ forced' = forced /\ pending' = pending
          /\ command' = command /\ exit' = exit
      BY <2>9 DEF vars
    <3>2. /\ AttemptInv' /\ NativeInv' /\ ComposedInv'
      BY <3>1 DEF LineageInv, AttemptInv, NativeInv, ComposedInv, ToWrite
    <3>3. /\ BatchInv' /\ ExtensionInv' /\ DescriptionInv'
      BY <3>1 DEF LineageInv, BatchInv, ExtensionInv, DescriptionInv, ToWrite, Reads, Content
    <3>4. ExitInv' /\ EvaluationInv'
      BY <3>1 DEF LineageInv, ExitInv, EvaluationInv, ToWrite, Reads, Content, Underway, Joins
    <3> QED
      BY <3>2, <3>3, <3>4 DEF LineageInv
  <2> QED
    BY <2>1, <2>2, <2>3, <2>4, <2>5, <2>6, <2>7, <2>8, <2>9 DEF Next
<1> QED
  BY <1>1, <1>2, InvHolds, PTL DEF Spec

\* The least of a nonempty set of numbers is a lower bound of it.
LEMMA LeastElement ==
  ASSUME NEW S, S \subseteq Nat, S # {}
  PROVE  Min(S) \in S /\ \A x \in S : Min(S) <= x
<1> DEFINE R == OpToRel(<, Nat)
<1>1. IsWellFoundedOn(R, Nat)
  BY NatLessThanWellFounded
<1>2. PICK x \in S : \A y \in S : ~(<<y, x>> \in R)
  <2> HIDE DEF R
  <2> QED
    BY <1>1, WFMin
<1>3. \A y \in S : ~(y < x)
  BY <1>2 DEF OpToRel
<1>4. \A y \in S : x <= y
  BY <1>3
<1> QED
  BY <1>4 DEF Min

(***************************************************************************)
(* run-suite holds the source record against numbers of cases and only a   *)
(* composed batch against a digest (evaluation/suite_pipeline.py); still,  *)
(* whatever the provider replied, whatever the packs hold and whichever    *)
(* writes failed, an evaluation joins a record and a batch of one attempt, *)
(* unless an --overwrite came after the oldest of its inputs.              *)
(***************************************************************************)
THEOREM LineageSafe == Spec => []LineageWithoutOverwrite
<1>1. Inv /\ LineageInv => LineageWithoutOverwrite
  <2> SUFFICES ASSUME Inv, LineageInv, Reads("evaluation"),
                      forced <= Min(Content("evaluation").attempts)
               PROVE  SameLineage(Content("evaluation"))
    BY DEF LineageWithoutOverwrite
  <2> DEFINE evaluation == Content("evaluation")
             attempts == evaluation.attempts
  <2>1. Joins(evaluation)
    BY DEF LineageInv, EvaluationInv
  <2> HIDE DEF evaluation
  <2>2. attempts \subseteq Nat /\ attempts # {}
    BY <2>1 DEF Joins
  <2>3. Min(attempts) \in attempts /\ \A attempt \in attempts : Min(attempts) <= attempt
    BY <2>2, LeastElement
  <2>4. Min(attempts) \in Nat /\ forced \in Nat /\ forced <= Min(attempts)
    BY <2>2, <2>3 DEF Inv, StampsInv, evaluation
  <2>5. \A attempt \in attempts : forced <= attempt
    BY <2>2, <2>3, <2>4
  <2> QED
    BY <2>1, <2>5 DEF Joins, evaluation
<1> QED
  BY <1>1, InvHolds, LineageHolds, PTL

(***************************************************************************)
(* What generate, generate-baseline or compose left when it exited with    *)
(* success passes every check of these files that run-suite makes before   *)
(* its first request: load_test_case_batch, the semantic validator,        *)
(* _source_metrics, the case counts and, for a composed suite, the         *)
(* composition record and the digest of the batch (cli/app.py,             *)
(* evaluation/suite_pipeline.py).                                          *)
(***************************************************************************)
THEOREM SuccessSafe == Spec => []SuccessIsRunnable
<1>1. Inv /\ LineageInv => SuccessIsRunnable
  <2> SUFFICES ASSUME Inv, LineageInv, exit = "ok" PROVE SuccessIsRunnable
    BY DEF SuccessIsRunnable
  <2>1. pending = <<>> /\ command.exits = "ok"
    BY DEF LineageInv, ExitInv
  <2>2. \A path : ToWrite(path) = {}
    <3>1. 1..Len(pending) = {}
      BY <2>1
    <3> QED
      BY <3>1 DEF ToWrite, WritesOf
  <2>3. \A path : Underway(path) => files[path].by = started /\ Reads(path)
    BY <2>2 DEF Underway, Reads
  <2>4. CASE command.name \in {"generate", "generate-baseline"}
    <3>1. /\ files["record"].by = files["cases"].by
          /\ Reads("record") /\ Reads("cases")
      BY <2>1, <2>3, <2>4 DEF LineageInv, ExitInv
    <3>2. IsBatch(Content("cases")) /\ Counts(Content("record"), Content("cases"))
      BY <3>1 DEF LineageInv, BatchInv
    <3>3. LoadsValidBatch("cases")
      BY <3>1, <3>2 DEF IsBatch, LoadsValidBatch, LoadsBatch
    <3>4. SuiteAccepts("cases", FALSE)
      BY <3>1, <3>2, <3>3 DEF SuiteAccepts, Counts, CountsAgree
    <3> QED
      BY <2>4, <3>4 DEF SuccessIsRunnable
  <2>5. CASE command.name = "compose"
    <3> SUFFICES ASSUME files["record"].by = files["cases"].by,
                        \A i \in DOMAIN Content("composedCases") : Content("composedCases")[i].valid
                 PROVE  SuiteAccepts("composedCases", TRUE)
      BY <2>5 DEF SuccessIsRunnable
    <3>1. /\ files["composedCases"].by = started /\ files["composition"].by = started
          /\ Reads("composedCases") /\ Reads("composition")
          /\ Reads("cases") /\ files["cases"].by = command.attempt
      BY <2>1, <2>3, <2>5 DEF LineageInv, ExitInv
    <3>2. "record" \in Paths /\ "cases" \in Paths /\ "composition" \in Paths
      BY Sources
    <3>3. Reads("record")
      <4>1. Needs("cases", Content("cases"), "record")
        BY DEF Needs
      <4>2. KeptBeside("cases", "record")
        BY <3>2, <4>1 DEF Inv, KeptInv
      <4> QED
        BY <3>1, <3>2, <4>2 DEF KeptBeside, Reads, Inv, StampsInv
    <3>4. Counts(Content("record"), Content("cases"))
      BY <3>1, <3>3 DEF LineageInv, BatchInv
    <3>5. Describes(Content("composition"), Content("composedCases"))
      BY <3>1 DEF LineageInv, DescriptionInv
    <3>6. Extends(Content("composition"), Content("cases"))
      <4>1. files["composition"].attempt = command.attempt
        BY <3>1, <3>2 DEF LineageInv, AttemptInv
      <4> QED
        BY <3>1, <4>1 DEF LineageInv, ExtensionInv
    <3>7. LoadsValidBatch("composedCases")
      BY <3>1, <3>5 DEF Describes, LoadsValidBatch, LoadsBatch
    <3>8. CountsAgree(Content("record"), Content("composedCases"), {Content("composition")})
      BY <3>4, <3>5, <3>6 DEF Counts, Describes, Extends, CountsAgree
    <3>9. DigestAgrees(Content("composedCases"), Content("composition"))
      BY <3>5 DEF Describes
    <3> QED
      BY <3>1, <3>3, <3>4, <3>5, <3>7, <3>8, <3>9 DEF SuiteAccepts, Counts, Describes
  <2>6. CASE command.name \notin {"generate", "generate-baseline", "compose"}
    BY <2>6 DEF SuccessIsRunnable
  <2> QED
    BY <2>4, <2>5, <2>6
<1> QED
  BY <1>1, InvHolds, LineageHolds, PTL
=============================================================================
