----------------------- MODULE FaultEvaluationProofs -----------------------
(***************************************************************************)
(* The verdict on a fault, for any number of cases of any shape.           *)
(***************************************************************************)
EXTENDS FaultEvaluation, CaseExecutionProofs, FiniteSetTheorems, WellFoundedInduction

----------------------------------------------------------------------------
(* The inductive invariant, in named parts. *)

\* A step fails only by a check that came out false, and only the response to a
\* request carries a fault's id.
StepsInv ==
  \A k \in 1..Last :
    /\ results[k].outcome = "failed" => results[k].failed
    /\ results[k].marked => results[k].request

CaseRecords == [
  outcome       : {"passed", "failed", "error"},
  deterministic : BOOLEAN,
  requests      : Nat,
  marks         : SUBSET (Nat \ {0}),
  oracleFailed  : BOOLEAN]

\* What the verdict relies on in a finished case.
Sound(case) ==
  /\ case.outcome = "failed" => case.deterministic
  /\ case.deterministic => case.oracleFailed
  /\ \A o \in case.marks : o <= case.requests

CasesInv ==
  /\ cases \in Seq(CaseRecords)
  /\ Len(cases) <= CaseCount
  /\ \A c \in 1..Len(cases) : Sound(cases[c])

CountsInv ==
  /\ clean \in [1..CaseCount -> {"passed", "failed", "error"}]
  /\ triggerCount \in Nat

\* What an evaluation e has to be, given the runs it is made of.
Justified(e) ==
  /\ e.outcome \in
       {"rejected", "not_triggered", "detected", "no_eligible_case",
        "not_detected", "inconclusive"}
  /\ e.outcome # "rejected" => ValidFaultEvaluation(e)
  /\ e.outcome = "detected" =>
       \E c \in 1..CaseCount :
         clean[c] = "passed" /\ cases[c].marks # {} /\ cases[c].oracleFailed
  /\ LET judged == {c \in 1..CaseCount : clean[c] = "passed" /\ cases[c].marks # {}}
     IN /\ e.outcome = "not_detected" =>
             /\ \E c \in judged : cases[c].outcome = "passed"
             /\ \A c \in judged : cases[c].outcome # "failed"
        /\ e.outcome = "inconclusive" =>
             judged # {} /\ \A c \in judged : cases[c].outcome = "error"

VerdictInv ==
  verdict.outcome # "pending" => Len(cases) = CaseCount /\ Justified(verdict)

EvalInv == CaseInv /\ StepsInv /\ CasesInv /\ CountsInv /\ VerdictInv

----------------------------------------------------------------------------
(* Natural numbers: a least element, and with it what the recursive count  *)
(* of requests amounts to.                                                 *)

LEMMA LeastElement ==
  ASSUME NEW T \in SUBSET Nat, T # {}
  PROVE  \E x \in T : \A y \in T : x <= y
<1> DEFINE R == OpToRel(<, Nat)
<1>1. IsWellFoundedOn(R, Nat)
  BY NatLessThanWellFounded
<1>2. T \subseteq Nat
  OBVIOUS
<1> HIDE DEF R
<1>3. PICK x \in T : \A y \in T : ~(<<y, x>> \in R)
  BY <1>1, <1>2, WFMin
<1>4. \A y \in T : ~(y < x)
  BY <1>3 DEF R, OpToRel
<1> QED BY <1>4

\* Running sums exist: a shortest length without one is one step too long.
LEMMA RunningSum ==
  ASSUME NEW N \in Nat, NEW g \in [1..N -> Nat]
  PROVE  \E h \in [0..N -> Nat] : h[0] = 0 /\ \A i \in 1..N : h[i] = h[i - 1] + g[i]
<1> DEFINE Sums(k, h) ==
             h \in [0..k -> Nat] /\ h[0] = 0 /\ \A i \in 1..k : h[i] = h[i - 1] + g[i]
           Bad == {k \in 0..N : ~\E h : Sums(k, h)}
<1>1. Bad \subseteq Nat
  OBVIOUS
<1>2. \A k \in 0..N : k \notin Bad <=> \E h : Sums(k, h)
  OBVIOUS
<1>3. Bad \subseteq 0..N
  OBVIOUS
<1>4. Bad = {}
  <2> SUFFICES ASSUME Bad # {} PROVE FALSE
    OBVIOUS
  <2> HIDE DEF Bad
  <2>1. PICK k \in Bad : \A j \in Bad : k <= j
    BY <1>1, LeastElement
  <2>2. k \in 0..N
    BY <1>3
  <2>3. k # 0
    <3>1. Sums(0, [i \in 0..0 |-> 0])
      OBVIOUS
    <3> HIDE DEF Sums
    <3> QED BY <1>2, <2>2, <3>1
  <2>4. k - 1 \in 0..N /\ k - 1 \notin Bad
    BY <2>1, <2>2, <2>3
  <2>5. PICK h : Sums(k - 1, h)
    <3> HIDE DEF Sums
    <3> QED BY <1>2, <2>4
  <2> DEFINE longer == [i \in 0..k |-> IF i = k THEN h[k - 1] + g[k] ELSE h[i]]
  <2>6. Sums(k, longer)
    BY <2>2, <2>3, <2>5
  <2> HIDE DEF Sums, longer
  <2> QED BY <1>2, <2>2, <2>6
<1>5. N \in 0..N
  OBVIOUS
<1>6. PICK h : Sums(N, h)
  <2> HIDE DEF Sums, Bad
  <2> QED BY <1>2, <1>4, <1>5
<1> QED BY <1>6

\* Running sums do not decrease.
LEMMA SumsGrow ==
  ASSUME NEW N \in Nat, NEW h \in [0..N -> Nat],
         \A i \in 1..N : h[i - 1] <= h[i],
         NEW a \in 0..N, NEW b \in a..N
  PROVE  h[a] <= h[b]
<1> DEFINE Bad == {j \in a..N : ~(h[a] <= h[j])}
<1>1. Bad \subseteq Nat
  OBVIOUS
<1>2. Bad = {}
  <2> SUFFICES ASSUME Bad # {} PROVE FALSE
    OBVIOUS
  <2> HIDE DEF Bad
  <2>1. PICK k \in Bad : \A j \in Bad : k <= j
    BY <1>1, LeastElement
  <2>2. k \in a..N /\ ~(h[a] <= h[k])
    BY DEF Bad
  <2>3. k # a
    BY <2>2
  <2>4. k - 1 \in a..N /\ k - 1 \notin Bad
    BY <2>1, <2>2, <2>3
  <2>5. h[a] <= h[k - 1]
    BY <2>4 DEF Bad
  <2>6. k \in 1..N /\ h[k - 1] <= h[k]
    BY <2>2, <2>4
  <2> QED BY <2>2, <2>4, <2>5, <2>6
<1> QED BY <1>2

\* RequestsBefore adds up the requests of the earlier cases.
LEMMA RequestsAddUp ==
  ASSUME EvalInv, Len(cases) = CaseCount
  PROVE  /\ \A c \in 1..(CaseCount + 1) : RequestsBefore(c) \in Nat
         /\ \A c \in 1..CaseCount :
              RequestsBefore(c) + cases[c].requests <= RequestsBefore(CaseCount + 1)
<1>1. CaseCount \in Nat
  BY CaseCountAssumption
<1>2. \A i \in 1..CaseCount : cases[i].requests \in Nat
  <2>1. cases \in Seq(CaseRecords)
    BY DEF EvalInv, CasesInv
  <2>2. \A i \in 1..CaseCount : cases[i] \in CaseRecords
    BY <2>1, ElementOfSeq
  <2> QED BY <2>2 DEF CaseRecords
<1> DEFINE g == [i \in 1..CaseCount |-> cases[i].requests]
           n == CHOOSE f : f = [i \in 0..CaseCount |->
                                  IF i = 0 THEN 0 ELSE f[i - 1] + cases[i].requests]
<1>3. g \in [1..CaseCount -> Nat]
  BY <1>2
<1>4. PICK h \in [0..CaseCount -> Nat] :
        h[0] = 0 /\ \A i \in 1..CaseCount : h[i] = h[i - 1] + g[i]
  <2> HIDE DEF g
  <2> QED BY <1>1, <1>3, RunningSum
<1>5. h = [i \in 0..CaseCount |-> IF i = 0 THEN 0 ELSE h[i - 1] + cases[i].requests]
  BY <1>1, <1>4
<1>6. n = [i \in 0..CaseCount |-> IF i = 0 THEN 0 ELSE n[i - 1] + cases[i].requests]
  BY <1>5
<1>7. \A c : RequestsBefore(c) = n[c - 1]
  BY DEF RequestsBefore
<1> HIDE DEF n
<1>8. n[0] = 0 /\ \A i \in 1..CaseCount : n[i] = n[i - 1] + cases[i].requests
  BY <1>1, <1>6
<1>9. n \in [0..CaseCount -> Nat]
  <2> DEFINE Bad == {i \in 0..CaseCount : n[i] \notin Nat}
  <2>1. Bad \subseteq Nat
    BY <1>1
  <2>2. Bad = {}
    <3> SUFFICES ASSUME Bad # {} PROVE FALSE
      OBVIOUS
    <3> HIDE DEF Bad
    <3>1. PICK k \in Bad : \A j \in Bad : k <= j
      BY <2>1, LeastElement
    <3>2. k \in 0..CaseCount /\ n[k] \notin Nat
      BY DEF Bad
    <3>3. k \in 1..CaseCount
      BY <1>1, <1>8, <3>2
    <3>4. k - 1 \in 0..CaseCount /\ k - 1 \notin Bad
      BY <1>1, <3>1, <3>3
    <3>5. n[k - 1] \in Nat
      BY <3>4 DEF Bad
    <3> QED BY <1>2, <1>8, <3>2, <3>3, <3>5
  <2> QED BY <1>6, <2>2
<1>10. \A i \in 1..CaseCount : n[i - 1] <= n[i]
  <2> SUFFICES ASSUME NEW i \in 1..CaseCount PROVE n[i - 1] <= n[i]
    OBVIOUS
  <2>1. n[i] = n[i - 1] + cases[i].requests /\ cases[i].requests \in Nat
    BY <1>2, <1>8
  <2>2. i - 1 \in 0..CaseCount
    BY <1>1
  <2>3. n[i - 1] \in Nat
    BY <1>9, <2>2
  <2> QED BY <2>1, <2>3
<1>11. \A c \in 1..(CaseCount + 1) : RequestsBefore(c) \in Nat
  <2> SUFFICES ASSUME NEW c \in 1..(CaseCount + 1) PROVE RequestsBefore(c) \in Nat
    OBVIOUS
  <2>1. c - 1 \in 0..CaseCount
    BY <1>1
  <2> QED BY <1>7, <1>9, <2>1
<1>12. ASSUME NEW c \in 1..CaseCount
       PROVE  RequestsBefore(c) + cases[c].requests <= RequestsBefore(CaseCount + 1)
  <2>1. RequestsBefore(c) + cases[c].requests = n[c]
    BY <1>7, <1>8
  <2>2. RequestsBefore(CaseCount + 1) = n[CaseCount]
    BY <1>1, <1>7
  <2>3. c \in 0..CaseCount /\ CaseCount \in c..CaseCount
    BY <1>1
  <2> QED BY <1>1, <1>9, <1>10, <2>1, <2>2, <2>3, SumsGrow
<1> QED BY <1>11, <1>12

----------------------------------------------------------------------------
(* The evaluation of complete runs. *)

LEMMA CompleteRuns ==
  ASSUME EvalInv, Len(cases) = CaseCount
  PROVE  /\ CaseCount \in Nat
         /\ DOMAIN cases = 1..CaseCount
         /\ \A c \in 1..CaseCount : cases[c] \in CaseRecords /\ Sound(cases[c])
<1>1. CaseCount \in Nat
  BY CaseCountAssumption
<1>2. cases \in Seq(CaseRecords)
  BY DEF EvalInv, CasesInv
<1>3. DOMAIN cases = 1..CaseCount
  BY <1>2, LenProperties
<1>4. \A c \in 1..CaseCount : cases[c] \in CaseRecords
  BY <1>2, ElementOfSeq
<1> QED BY <1>1, <1>3, <1>4 DEF EvalInv, CasesInv

\* The marked responses, by their position in the run.
LEMMA Marks ==
  ASSUME EvalInv, Len(cases) = CaseCount
  PROVE  /\ IsFiniteSet(MarkedSteps)
         /\ \A m \in MarkedSteps : m[1] \in 1..CaseCount /\ m[2] \in 1..RequestsBefore(CaseCount + 1)
         /\ \A c \in 1..CaseCount : cases[c].marks # {} => \E m \in MarkedSteps : m[1] = c
         /\ \A m \in MarkedSteps : cases[m[1]].marks # {}
<1>1. /\ CaseCount \in Nat
      /\ DOMAIN cases = 1..CaseCount
      /\ \A c \in 1..CaseCount : cases[c] \in CaseRecords /\ Sound(cases[c])
  BY CompleteRuns
<1> DEFINE total == RequestsBefore(CaseCount + 1)
<1>2. /\ total \in Nat
      /\ \A c \in 1..CaseCount :
           RequestsBefore(c) \in Nat /\ RequestsBefore(c) + cases[c].requests <= total
  BY <1>1, RequestsAddUp
<1> HIDE DEF total
<1>3. \A m : m \in MarkedSteps <=>
        \E c \in 1..CaseCount : \E o \in cases[c].marks : m = <<c, RequestsBefore(c) + o>>
  BY <1>1 DEF MarkedSteps
<1>4. \A c \in 1..CaseCount : \A o \in cases[c].marks : RequestsBefore(c) + o \in 1..total
  <2> SUFFICES ASSUME NEW c \in 1..CaseCount, NEW o \in cases[c].marks
               PROVE  RequestsBefore(c) + o \in 1..total
    OBVIOUS
  <2>1. o \in Nat /\ o # 0 /\ cases[c].requests \in Nat
    BY <1>1 DEF CaseRecords
  <2>2. o <= cases[c].requests
    BY <1>1 DEF Sound
  <2> QED BY <1>2, <2>1, <2>2
<1>5. \A m \in MarkedSteps :
        m[1] \in 1..CaseCount /\ m[2] \in 1..total /\ cases[m[1]].marks # {}
        /\ m \in (1..CaseCount) \X (1..total)
  BY <1>3, <1>4
<1>6. IsFiniteSet((1..CaseCount) \X (1..total))
  <2>1. IsFiniteSet(1..CaseCount) /\ IsFiniteSet(1..total)
    BY <1>1, <1>2, FS_Interval
  <2> QED BY <2>1, FS_Product
<1>7. MarkedSteps \in SUBSET ((1..CaseCount) \X (1..total))
  BY <1>5
<1>8. IsFiniteSet(MarkedSteps)
  BY <1>6, <1>7, FS_Subset
<1>9. ASSUME NEW c \in 1..CaseCount, cases[c].marks # {}
      PROVE  \E m \in MarkedSteps : m[1] = c
  <2>1. PICK o \in cases[c].marks : TRUE
    BY <1>9
  <2>2. <<c, RequestsBefore(c) + o>> \in MarkedSteps
    BY <1>3, <2>1
  <2> QED BY <2>2
<1> QED BY <1>5, <1>8, <1>9 DEF total

LEMMA FirstIsCounted ==
  ASSUME EvalInv, Len(cases) = CaseCount
  PROVE  IF Detected = {} THEN FirstDetection = 0
         ELSE FirstDetection \in 1..RequestsBefore(CaseCount + 1)
<1>1. CASE Detected = {}
  BY <1>1 DEF FirstDetection
<1>2. CASE Detected # {}
  <2> DEFINE ordinals == {m[2] : m \in {n \in MarkedSteps : n[1] \in Detected}}
             total == RequestsBefore(CaseCount + 1)
  <2>1. PICK c \in Detected : TRUE
    BY <1>2
  <2>2. c \in 1..CaseCount /\ cases[c].marks # {}
    BY CompleteRuns, <2>1 DEF Detected, Eligible, Triggered
  <2>3. ordinals # {}
    <3>1. PICK m \in MarkedSteps : m[1] = c
      BY Marks, <2>2
    <3>2. m[2] \in ordinals
      BY <2>1, <3>1
    <3> QED BY <3>2
  <2>4. ordinals \subseteq 1..total /\ ordinals \subseteq Nat
    BY Marks
  <2>5. FirstDetection = CHOOSE o \in ordinals : \A p \in ordinals : o <= p
    BY <1>2 DEF FirstDetection
  <2> HIDE DEF ordinals, total
  <2>6. \E o \in ordinals : \A p \in ordinals : o <= p
    BY <2>3, <2>4, LeastElement
  <2>7. FirstDetection \in ordinals
    BY <2>5, <2>6
  <2> QED BY <1>2, <2>4, <2>7 DEF total
<1> QED BY <1>1, <1>2

\* The evaluation is what its model demands and what the runs bear out.
LEMMA EvaluationJustified ==
  ASSUME EvalInv, Len(cases) = CaseCount
  PROVE  Justified(EvaluateFault)
<1>1. /\ CaseCount \in Nat
      /\ DOMAIN cases = 1..CaseCount
      /\ \A c \in 1..CaseCount : cases[c] \in CaseRecords /\ Sound(cases[c])
  BY CompleteRuns
<1>2. \A c \in 1..CaseCount :
        /\ cases[c].outcome \in {"passed", "failed", "error"}
        /\ cases[c].outcome = "failed" => cases[c].deterministic
        /\ cases[c].deterministic => cases[c].oracleFailed
  BY <1>1 DEF CaseRecords, Sound
<1> DEFINE judged == {c \in 1..CaseCount : clean[c] = "passed" /\ cases[c].marks # {}}
<1>3. /\ Triggered = {c \in 1..CaseCount : cases[c].marks # {}}
      /\ Eligible = judged
      /\ Detected = {c \in judged : cases[c].deterministic}
      /\ Errored = {c \in judged : cases[c].outcome = "error"}
      /\ judged \subseteq Triggered /\ judged \subseteq 1..CaseCount
  BY <1>1 DEF Triggered, Eligible, Detected, Errored
<1>4. CASE Cardinality(MarkedSteps) # triggerCount
  <2>1. EvaluateFault.outcome = "rejected"
    BY <1>4 DEF EvaluateFault, NoVerdict
  <2> QED BY <2>1 DEF Justified
<1>5. CASE Cardinality(MarkedSteps) = triggerCount
  <2> DEFINE e == EvaluateFault
  <2>1. /\ e.outcome = FaultOutcome /\ e.triggerCount = triggerCount
        /\ e.requestCount = RequestsBefore(CaseCount + 1)
        /\ e.triggered = Triggered /\ e.eligible = Eligible
        /\ e.detected = Detected /\ e.errored = Errored /\ e.first = FirstDetection
    BY <1>5 DEF EvaluateFault
  <2> HIDE DEF e
  <2>2. triggerCount = 0 <=> Triggered = {}
    <3>1. triggerCount = 0 <=> MarkedSteps = {}
      BY <1>5, Marks, FS_EmptySet
    <3>2. MarkedSteps = {} <=> Triggered = {}
      BY Marks, <1>3
    <3> QED BY <3>1, <3>2
  <2>3. Detected # {} => Triggered # {}
    BY <1>3
  <2>4. FaultOutcome = IF triggerCount = 0 THEN "not_triggered"
                       ELSE IF Detected # {} THEN "detected"
                       ELSE IF judged = {} THEN "no_eligible_case"
                       ELSE IF \E c \in judged : cases[c].outcome = "passed" THEN "not_detected"
                       ELSE "inconclusive"
    BY <1>3 DEF FaultOutcome
  <2>5. Detected = {} => \A c \in judged : cases[c].outcome # "failed"
    BY <1>2, <1>3
  <2>6. FaultOutcome = "inconclusive" => judged # {} /\ \A c \in judged : cases[c].outcome = "error"
    BY <1>2, <1>3, <2>4, <2>5
  <2>7. FaultOutcome = "not_detected" =>
          /\ \E c \in judged : cases[c].outcome = "passed"
          /\ \A c \in judged : cases[c].outcome # "failed"
    BY <2>4, <2>5
  <2>8. FaultOutcome = "detected" =>
          \E c \in 1..CaseCount :
            clean[c] = "passed" /\ cases[c].marks # {} /\ cases[c].oracleFailed
    BY <1>2, <1>3, <2>4
  <2>9. ValidFaultEvaluation(e)
    <3>1. e.eligible \subseteq e.triggered /\ e.detected \subseteq e.eligible
          /\ e.errored \subseteq e.eligible
      BY <1>3, <2>1
    <3>2. IF e.outcome = "not_triggered"
          THEN e.triggerCount = 0 /\ e.triggered = {}
          ELSE e.triggerCount # 0 /\ e.triggered # {}
      BY <2>1, <2>2, <2>4
    <3>3. IF e.outcome = "detected"
          THEN e.detected # {} /\ e.first \in 1..e.requestCount
          ELSE e.detected = {} /\ e.first = 0
      BY <2>1, <2>2, <2>3, <2>4, FirstIsCounted
    <3>4. e.outcome = "no_eligible_case" => e.eligible = {}
      BY <1>3, <2>1, <2>4
    <3>5. e.outcome \in {"not_detected", "inconclusive"} => e.eligible # {}
      BY <1>3, <2>1, <2>4
    <3>6. e.outcome = "inconclusive" => e.errored # {}
      BY <1>3, <2>1, <2>6
    <3> QED BY <3>1, <3>2, <3>3, <3>4, <3>5, <3>6 DEF ValidFaultEvaluation
  <2>10. e.outcome \in {"not_triggered", "detected", "no_eligible_case",
                        "not_detected", "inconclusive"}
    BY <2>1, <2>4
  <2> HIDE DEF judged
  <2>11. Justified(e)
    BY <2>1, <2>6, <2>7, <2>8, <2>9, <2>10 DEF Justified, judged
  <2> QED BY <2>11 DEF e
<1> QED BY <1>4, <1>5

----------------------------------------------------------------------------
(* Every step preserves the invariant. *)

\* What a step comes to, as far as the evaluation asks.
LEMMA StepBearsOut ==
  ASSUME NEW k \in 1..Last, results \in [1..Last -> StepResults], StepsInv, ExecuteStep(k)
  PROVE  StepsInv'
<1>1. PICK res : /\ Store(k, res)
                 /\ res.outcome = "failed" => res.failed
                 /\ res.marked => res.request
  <2>0. \A request : /\ Unanswered(k, request).outcome # "failed"
                     /\ ~Unanswered(k, request).marked
    BY DEF Unanswered, Skipped
  <2>1. CASE BuildFails(k)
    BY <2>0, <2>1 DEF BuildFails
  <2>2. CASE NoResponse(k)
    BY <2>0, <2>2 DEF NoResponse
  <2>3. CASE Responds(k)
    <3>1. PICK extracted \in SUBSET Steps[k].extracts, failed \in BOOLEAN, errored \in BOOLEAN,
               marked \in {FALSE, FaultActive} :
            Store(k,
              [required |-> Required(k), outcome |-> EvaluationOutcome(failed, errored),
               request |-> TRUE, response |-> TRUE, marked |-> marked,
               failed |-> failed, extracted |-> extracted])
      BY <2>3 DEF Responds
    <3>2. EvaluationOutcome(failed, errored) = "failed" => failed
      BY DEF EvaluationOutcome
    <3> QED BY <3>1, <3>2
  <2> QED BY <2>1, <2>2, <2>3 DEF ExecuteStep
<1>2. results' = [results EXCEPT ![k] = res]
  BY <1>1 DEF Store
<1> QED BY <1>1, <1>2 DEF StepsInv

LEMMA ExecutionBearsOut ==
  ASSUME CaseInv, StepsInv, Next
  PROVE  StepsInv'
<1>1. results \in [1..Last -> StepResults]
  BY DEF CaseInv, TypeOK
<1>2. CASE ExecuteMain
  <2>1. next \in 1..Last /\ ExecuteStep(next)
    BY <1>2, Positions DEF ExecuteMain, CaseInv, TypeOK, MainInv
  <2> QED BY <1>1, <2>1, StepBearsOut
<1>3. CASE EvaluateRelations
  BY <1>3 DEF EvaluateRelations, StepsInv
<1>4. CASE RunCleanup
  <2>1. next \in 1..Last
    BY <1>4, Positions DEF RunCleanup, CaseInv, TypeOK, CleanupInv
  <2>2. CASE ExecuteStep(next)
    BY <1>1, <2>1, <2>2, StepBearsOut
  <2>3. CASE results' = results
    BY <2>3 DEF StepsInv
  <2> QED BY <1>4, <2>2, <2>3 DEF RunCleanup
<1> QED BY <1>2, <1>3, <1>4 DEF Next

\* A finished case is recorded with what the verdict relies on.
LEMMA ResultIsSound ==
  ASSUME CaseInv, StepsInv, stage = "done"
  PROVE  /\ CaseResult(results, relationResults) \in CaseRecords
         /\ Sound(CaseResult(results, relationResults))
<1> DEFINE result == CaseResult(results, relationResults)
<1>1. /\ results \in [1..Last -> StepResults] /\ DOMAIN results = 1..Last
      /\ relationResults \in [Relations -> RelationOutcomes \cup {"pending"}]
      /\ Last \in Nat
  BY Positions DEF CaseInv, TypeOK
<1>2. CaseOutcome(results, relationResults) \in {"passed", "failed", "error"}
  <2>1. CaseOutcome(results, relationResults) \in Outcomes
    BY DEF CaseOutcome, Aggregate, Outcomes
  <2>2. CaseOutcome(results, relationResults) # "skipped"
    BY BestEffortFollows DEF BestEffortNeverDecides
  <2> QED BY <2>1, <2>2 DEF Outcomes
<1>3. /\ Requested(results) \in SUBSET (1..Last)
      /\ IsFiniteSet(1..Last)
  BY <1>1, FS_Interval DEF Requested
<1>4. IsFiniteSet(Requested(results)) /\ Cardinality(Requested(results)) \in Nat
  BY <1>3, FS_Subset, FS_CardinalityType
<1>5. ASSUME NEW k \in Requested(results)
      PROVE  Ordinal(results, k) \in Nat \ {0} /\ Ordinal(results, k) <= Cardinality(Requested(results))
  <2> DEFINE earlier == {j \in Requested(results) : j <= k}
  <2>1. earlier \in SUBSET Requested(results)
    OBVIOUS
  <2>2. k \in earlier
    BY <1>1, <1>3
  <2> HIDE DEF earlier
  <2>3. IsFiniteSet(earlier) /\ Cardinality(earlier) <= Cardinality(Requested(results))
    BY <1>4, <2>1, FS_Subset
  <2>4. Cardinality(earlier) \in Nat /\ Cardinality(earlier) # 0
    BY <2>2, <2>3, FS_CardinalityType, FS_EmptySet
  <2>5. Ordinal(results, k) = Cardinality(earlier)
    BY DEF Ordinal, earlier
  <2> QED BY <2>3, <2>4, <2>5
<1>6. /\ result.outcome = CaseOutcome(results, relationResults)
      /\ result.deterministic = HasDeterministicFailure(results, relationResults)
      /\ result.requests = Cardinality(Requested(results))
      /\ result.marks = {Ordinal(results, k) : k \in {j \in DOMAIN results : results[j].marked}}
      /\ result.oracleFailed = OracleFailed(results, relationResults)
  BY DEF CaseResult
<1>7. \A k \in 1..Last : results[k].marked => k \in Requested(results)
  BY <1>1 DEF StepsInv, Requested
<1>8. result.marks \in SUBSET (Nat \ {0}) /\ \A o \in result.marks : o <= result.requests
  BY <1>1, <1>5, <1>6, <1>7
<1>9. HasDeterministicFailure(results, relationResults) \in BOOLEAN
      /\ OracleFailed(results, relationResults) \in BOOLEAN
  BY DEF HasDeterministicFailure, OracleFailed
<1>10. result \in CaseRecords
  BY <1>2, <1>4, <1>6, <1>8, <1>9 DEF CaseResult, CaseRecords
<1>11. result.outcome = "failed" => result.deterministic
  BY <1>6 DEF HasDeterministicFailure
<1>12. HasDeterministicFailure(results, relationResults) => OracleFailed(results, relationResults)
  <2>1. \A k \in 1..Last : results[k].outcome = "failed" => results[k].failed
    BY DEF StepsInv
  <2>2. ASSUME CaseOutcome(results, relationResults) = "failed"
        PROVE  \/ \E k \in DOMAIN results : results[k].required /\ results[k].outcome = "failed"
               \/ \E r \in DOMAIN relationResults : relationResults[r] = "failed"
    <3>1. "failed" \in {results[k].outcome : k \in Counting(results)}
             \cup {RelationExecutionOutcome(relationResults[r]) : r \in DOMAIN relationResults}
      BY <2>2 DEF CaseOutcome, Aggregate
    <3> QED BY <3>1 DEF Counting, RelationExecutionOutcome
  <2> QED BY <1>1, <2>1, <2>2 DEF HasDeterministicFailure, OracleFailed
<1> QED BY <1>6, <1>8, <1>10, <1>11, <1>12 DEF Sound

\* A new case starts as execution does.
LEMMA NewCase == Init' => CaseInv'
BY InitCaseInv, PTL

LEMMA InitEvalInv == EvalInit => EvalInv
<1> SUFFICES ASSUME EvalInit PROVE EvalInv
  OBVIOUS
<1>1. CaseInv
  BY InitCaseInv DEF EvalInit
<1>2. StepsInv
  BY DEF EvalInit, Init, StepsInv, Skipped
<1>3. CasesInv
  BY CaseCountAssumption, EmptySeq DEF EvalInit, CasesInv
<1>4. CountsInv /\ VerdictInv
  BY DEF EvalInit, CountsInv, VerdictInv, NoVerdict
<1> QED BY <1>1, <1>2, <1>3, <1>4 DEF EvalInv

LEMMA ExecuteCaseKeeps ==
  ASSUME EvalInv, Len(cases) < CaseCount, ExecuteCase
  PROVE  EvalInv'
<1>1. CaseInv /\ StepsInv /\ CasesInv /\ CountsInv /\ VerdictInv /\ Next
      /\ UNCHANGED <<clean, cases, verdict>>
  BY DEF EvalInv, ExecuteCase
<1>2. CaseInv'
  BY <1>1, NextCaseInv
<1>3. StepsInv'
  BY <1>1, ExecutionBearsOut
<1>4. triggerCount' \in Nat
  <2> DEFINE changed == {k \in 1..Last : results'[k] # results[k]}
             marked == {k \in changed : results'[k].marked}
             lost == {k \in changed : results'[k].request /\ ~results'[k].response}
  <2>1. PICK seen \in SUBSET lost :
          triggerCount' = triggerCount + Cardinality(marked) + Cardinality(seen)
    BY DEF ExecuteCase
  <2>2. marked \in SUBSET (1..Last) /\ seen \in SUBSET (1..Last)
    OBVIOUS
  <2>3. IsFiniteSet(1..Last)
    BY Positions, FS_Interval
  <2> HIDE DEF marked
  <2>4. Cardinality(marked) \in Nat /\ Cardinality(seen) \in Nat
    BY <2>2, <2>3, FS_Subset, FS_CardinalityType
  <2> QED BY <1>1, <2>1, <2>4 DEF CountsInv, marked
<1>5. CasesInv' /\ CountsInv'
  BY <1>1, <1>4 DEF CasesInv, CountsInv
<1>6. VerdictInv'
  BY <1>1, CaseCountAssumption DEF VerdictInv, CasesInv
<1> QED BY <1>2, <1>3, <1>5, <1>6 DEF EvalInv

LEMMA FinishCaseKeeps ==
  ASSUME EvalInv, FinishCase
  PROVE  EvalInv'
<1>1. CaseInv /\ StepsInv /\ CasesInv /\ CountsInv /\ VerdictInv
      /\ stage = "done" /\ Len(cases) < CaseCount /\ UNCHANGED <<clean, triggerCount, verdict>>
  BY DEF EvalInv, FinishCase
<1>2. Init'
  BY DEF FinishCase, Init
<1>3. CaseInv'
  BY <1>2, NewCase
<1>4. StepsInv'
  BY <1>2 DEF Init, StepsInv, Skipped
<1> DEFINE result == CaseResult(results, relationResults)
<1>5. result \in CaseRecords /\ Sound(result)
  BY <1>1, ResultIsSound
<1> HIDE DEF result
<1>6. cases' = Append(cases, result) /\ cases \in Seq(CaseRecords)
  BY <1>1 DEF FinishCase, CasesInv, result
<1>7. /\ cases' \in Seq(CaseRecords)
      /\ Len(cases') = Len(cases) + 1
      /\ \A c \in 1..Len(cases) : cases'[c] = cases[c]
      /\ cases'[Len(cases) + 1] = result
  BY <1>5, <1>6, AppendProperties
<1>8. CasesInv'
  <2>1. Len(cases) \in Nat
    BY <1>6, LenProperties
  <2>2. \A c \in 1..Len(cases') : Sound(cases'[c])
    BY <1>1, <1>5, <1>7, <2>1 DEF CasesInv
  <2>3. Len(cases') <= CaseCount
    BY <1>1, <1>7, <2>1, CaseCountAssumption
  <2> QED BY <1>7, <2>2, <2>3 DEF CasesInv, Sound
<1>9. CountsInv'
  BY <1>1 DEF CountsInv
<1>10. VerdictInv'
  BY <1>1, CaseCountAssumption DEF VerdictInv
<1> QED BY <1>3, <1>4, <1>8, <1>9, <1>10 DEF EvalInv

LEMMA EvaluateKeeps ==
  ASSUME EvalInv, Evaluate
  PROVE  EvalInv'
<1>1. Justified(EvaluateFault)
  BY EvaluationJustified DEF Evaluate
<1>2. verdict' = EvaluateFault /\ Len(cases) = CaseCount
      /\ UNCHANGED <<vars, clean, cases, triggerCount>>
  BY DEF Evaluate
<1>3. CaseInv'
  BY <1>2, NextCaseInv DEF EvalInv
<1>4. StepsInv' /\ CasesInv' /\ CountsInv'
  BY <1>2 DEF EvalInv, vars, StepsInv, CasesInv, CountsInv
<1>5. VerdictInv'
  <2> HIDE DEF EvaluateFault
  <2> QED BY <1>1, <1>2 DEF VerdictInv, Justified
<1> QED BY <1>3, <1>4, <1>5 DEF EvalInv

LEMMA NextEvalInv ==
  EvalInv /\ [EvalNext]_evalVars => EvalInv'
<1>1. CASE EvalInv /\ UNCHANGED evalVars
  <2>1. CaseInv'
    BY <1>1, NextCaseInv DEF EvalInv, evalVars
  <2> QED BY <1>1, <2>1 DEF EvalInv, evalVars, vars, StepsInv, CasesInv, CountsInv, VerdictInv, Justified
<1> QED BY <1>1, ExecuteCaseKeeps, FinishCaseKeeps, EvaluateKeeps DEF EvalNext

----------------------------------------------------------------------------
(* The theorems. *)

(***************************************************************************)
(* For every case and any number of cases: the run, the counts and the     *)
(* verdict keep their types.                                               *)
(***************************************************************************)
THEOREM EvaluationTypeCorrect == EvalSpec => []EvaluationTypeOK
<1>1. EvalInv => EvaluationTypeOK
  <2> SUFFICES ASSUME EvalInv PROVE EvaluationTypeOK
    OBVIOUS
  <2>1. Len(cases) \in 0..CaseCount
    BY LenProperties, CaseCountAssumption DEF EvalInv, CasesInv
  <2> QED BY <2>1 DEF EvaluationTypeOK, EvalInv, CaseInv, CountsInv, VerdictInv, Justified
<1> QED BY <1>1, InitEvalInv, NextEvalInv, PTL DEF EvalSpec

(***************************************************************************)
(* For every case and any number of cases: the evaluation satisfies every  *)
(* condition of the model it is stored in, the ordinal of the first        *)
(* detection included.                                                     *)
(***************************************************************************)
THEOREM EvaluationSafe == EvalSpec => []EvaluationIsValid
<1>1. EvalInv => EvaluationIsValid
  BY DEF EvalInv, VerdictInv, Justified, EvaluationIsValid, Evaluated
<1> QED BY <1>1, InitEvalInv, NextEvalInv, PTL DEF EvalSpec

(***************************************************************************)
(* For every case and any number of cases: a detection rests on a case     *)
(* that passed cleanly, was reached by the fault, and in which a check or  *)
(* relation that counts came out false.                                    *)
(***************************************************************************)
THEOREM DetectionSafe == EvalSpec => []DetectionIsDeserved
<1>1. EvalInv => DetectionIsDeserved
  <2> SUFFICES ASSUME EvalInv, verdict.outcome = "detected"
               PROVE  \E c \in DOMAIN cases :
                        clean[c] = "passed" /\ cases[c].marks # {} /\ cases[c].oracleFailed
    BY DEF DetectionIsDeserved
  <2>1. Len(cases) = CaseCount /\ Justified(verdict)
    BY DEF EvalInv, VerdictInv
  <2>2. DOMAIN cases = 1..CaseCount
    BY <2>1, CompleteRuns
  <2> QED BY <2>1, <2>2 DEF Justified
<1> QED BY <1>1, InitEvalInv, NextEvalInv, PTL DEF EvalSpec

(***************************************************************************)
(* For every case and any number of cases: a fault is missed only if a     *)
(* case it reached passed in both runs and none failed, and left undecided *)
(* only if every case it can be judged by ended in an error.               *)
(***************************************************************************)
THEOREM NoDetectionSafe == EvalSpec => []NoDetectionIsJustified
<1>1. EvalInv => NoDetectionIsJustified
  <2> SUFFICES ASSUME EvalInv, verdict.outcome \in {"not_detected", "inconclusive"}
               PROVE  NoDetectionIsJustified
    BY DEF NoDetectionIsJustified
  <2>1. Len(cases) = CaseCount /\ Justified(verdict)
    BY DEF EvalInv, VerdictInv
  <2>2. DOMAIN cases = 1..CaseCount
    BY <2>1, CompleteRuns
  <2> QED BY <2>1, <2>2 DEF Justified, NoDetectionIsJustified
<1> QED BY <1>1, InitEvalInv, NextEvalInv, PTL DEF EvalSpec
=============================================================================
