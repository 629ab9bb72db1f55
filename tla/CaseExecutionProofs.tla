------------------------ MODULE CaseExecutionProofs ------------------------
(***************************************************************************)
(* Safety of the case executor for every case that passed validation.      *)
(***************************************************************************)
EXTENDS CaseExecution, SequenceTheorems, TLAPS

----------------------------------------------------------------------------
(* The inductive invariant, in named parts. *)

\* The steps before the next one passed and the others were not touched, until
\* a step halts the main flow.
MainInv ==
  /\ stage = "main" =>
       /\ halted = 0
       /\ next <= MainEnd
       /\ \A k \in 1..(next - 1) : results[k].outcome = "passed"
       /\ \A k \in next..Last : results[k].outcome = "skipped"
  /\ stage # "main" =>
       /\ next > MainEnd
       /\ halted = 0 => MainPassed
       /\ halted # 0 => results[halted].outcome \in {"failed", "error"}

\* The cleanup steps gone through were executed exactly if they were eligible.
CleanupInv ==
  /\ stage = "relations" => next = MainEnd + 1
  /\ stage = "cleanup" => next <= Last
  /\ stage = "done" => next = Last + 1
  /\ stage \in {"relations", "cleanup"} =>
       \A k \in next..Last : results[k].outcome = "skipped"
  /\ stage # "main" =>
       \A k \in (MainEnd + 1)..(next - 1) : Executed(k) <=> CleanupShouldRun(k)

\* Relations are decided once, between main flow and cleanup.
RelationsInv ==
  \A r \in Relations : relationResults[r] = "pending" <=> stage \in {"main", "relations"}

\* Nothing was extracted by steps still to come, and policies are as declared.
ResultsInv ==
  \A k \in 1..Last :
    /\ results[k].required = Required(k)
    /\ k >= next => results[k].extracted = {}

CaseInv ==
  /\ TypeOK
  /\ MainInv
  /\ CleanupInv
  /\ RelationsInv
  /\ ResultsInv
  /\ ScopeIsLatest

----------------------------------------------------------------------------
LEMMA Positions ==
  /\ Last \in Nat /\ MainEnd \in Nat
  /\ 1 <= MainEnd /\ MainEnd <= Last
<1>1. PICK S, M, C : Setup \in Seq(S) /\ Main \in Seq(M) /\ Cleanup \in Seq(C)
  BY StepsAssumption DEF StepsAreLists
<1>2. /\ Setup \in Seq(S \cup M \cup C)
      /\ Main \in Seq(S \cup M \cup C)
      /\ Cleanup \in Seq(S \cup M \cup C)
  BY <1>1, SeqMonotonic
<1>3. /\ Setup \o Main \in Seq(S \cup M \cup C)
      /\ Len(Setup \o Main) = Len(Setup) + Len(Main)
  BY <1>2, ConcatProperties
<1>4. Last = Len(Setup) + Len(Main) + Len(Cleanup)
  BY <1>2, <1>3, ConcatProperties DEF Last, Steps
<1>5. Len(Setup) \in Nat /\ Len(Main) \in Nat \ {0} /\ Len(Cleanup) \in Nat
  BY <1>2, StepsAssumption, EmptySeq, LenProperties DEF StepsAreLists
<1> QED BY <1>4, <1>5 DEF MainEnd

\* What executing a step comes to: a result that is not "skipped" is stored.
LEMMA StepEffect ==
  ASSUME NEW k \in 1..Last, ExecuteStep(k)
  PROVE  \E res \in StepResults :
           /\ res.required = Required(k)
           /\ res.outcome # "skipped"
           /\ res.extracted \subseteq Steps[k].extracts
           /\ Store(k, res)
<1>1. Required(k) \in BOOLEAN
  BY DEF Required
<1>2. Steps[k].extracts \subseteq Names
  BY DEF Names
<1>3. ASSUME NEW request \in BOOLEAN
      PROVE  /\ Unanswered(k, request) \in StepResults
             /\ Unanswered(k, request).required = Required(k)
             /\ Unanswered(k, request).outcome = "error"
             /\ Unanswered(k, request).extracted = {}
  BY <1>1 DEF Unanswered, Skipped, StepResults, Outcomes
<1>4. CASE BuildFails(k)
  BY <1>3, <1>4 DEF BuildFails
<1>5. CASE NoResponse(k)
  BY <1>3, <1>5 DEF NoResponse
<1>6. CASE Responds(k)
  <2>1. PICK extracted \in SUBSET Steps[k].extracts, failed \in BOOLEAN, errored \in BOOLEAN,
             marked \in {FALSE, FaultActive} :
          Store(k,
            [required |-> Required(k), outcome |-> EvaluationOutcome(failed, errored),
             request |-> TRUE, response |-> TRUE, marked |-> marked,
             failed |-> failed, extracted |-> extracted])
    BY <1>6 DEF Responds
  <2>2. EvaluationOutcome(failed, errored) \in Outcomes \ {"skipped"}
    BY DEF EvaluationOutcome, Outcomes
  <2>3. marked \in BOOLEAN /\ extracted \subseteq Names
    BY <1>2, FaultActiveAssumption
  <2> QED BY <1>1, <2>1, <2>2, <2>3 DEF StepResults
<1> QED BY <1>4, <1>5, <1>6 DEF ExecuteStep

\* Storing the result of a step keeps types and the scope up to date.
LEMMA StoreEffect ==
  ASSUME CaseInv, NEW k \in 1..Last, k = next, NEW res \in StepResults,
         res.required = Required(k), Store(k, res)
  PROVE  /\ results' \in [1..Last -> StepResults]
         /\ results'[k] = res
         /\ \A j \in 1..Last : j # k => results'[j] = results[j]
         /\ DOMAIN scope' \subseteq Names
         /\ \A v \in DOMAIN scope' : scope'[v] \in 0..Last
         /\ ScopeIsLatest'
<1>1. /\ results' = [results EXCEPT ![k] = res]
      /\ scope' = [v \in DOMAIN scope \cup res.extracted |->
                     IF v \in res.extracted THEN k ELSE scope[v]]
  BY DEF Store
<1>2. res.extracted \subseteq Names
  BY DEF StepResults
<1>3. results \in [1..Last -> StepResults] /\ DOMAIN scope \subseteq Names
      /\ \A v \in DOMAIN scope : scope[v] \in 0..Last
  BY DEF CaseInv, TypeOK
<1>4. /\ results' \in [1..Last -> StepResults]
      /\ results'[k] = res
      /\ \A j \in 1..Last : j # k => results'[j] = results[j]
  BY <1>1, <1>3
<1>5. DOMAIN scope' = DOMAIN scope \cup res.extracted
      /\ \A v \in DOMAIN scope' : scope'[v] = IF v \in res.extracted THEN k ELSE scope[v]
  BY <1>1
<1>6. DOMAIN scope' \subseteq Names /\ \A v \in DOMAIN scope' : scope'[v] \in 0..Last
  BY <1>2, <1>3, <1>5, Positions
<1>7. ScopeIsLatest'
  <2> SUFFICES ASSUME NEW v \in Names
               PROVE  LET setters == {j \in 1..Last : v \in results'[j].extracted}
                      IN IF setters = {}
                         THEN IF v \in Initial THEN v \in DOMAIN scope' /\ scope'[v] = 0
                                               ELSE v \notin DOMAIN scope'
                         ELSE /\ v \in DOMAIN scope'
                              /\ scope'[v] \in setters
                              /\ \A j \in setters : j <= scope'[v]
    BY DEF ScopeIsLatest
  <2> DEFINE before == {j \in 1..Last : v \in results[j].extracted}
             after == {j \in 1..Last : v \in results'[j].extracted}
  <2>1. IF before = {}
        THEN IF v \in Initial THEN v \in DOMAIN scope /\ scope[v] = 0
                              ELSE v \notin DOMAIN scope
        ELSE /\ v \in DOMAIN scope
             /\ scope[v] \in before
             /\ \A j \in before : j <= scope[v]
    BY DEF CaseInv, ScopeIsLatest
  <2>2. \A j \in before : j < k
    BY Positions DEF CaseInv, ResultsInv, TypeOK
  <2>3. CASE v \in res.extracted
    <3>1. after = before \cup {k}
      BY <1>4, <2>3
    <3>2. v \in DOMAIN scope' /\ scope'[v] = k
      BY <1>5, <2>3
    <3> QED BY <2>2, <3>1, <3>2
  <2>4. CASE v \notin res.extracted
    <3>1. after = before
      BY <1>4, <2>2, <2>4
    <3>2. v \in DOMAIN scope' <=> v \in DOMAIN scope
      BY <1>5, <2>4
    <3>3. v \in DOMAIN scope => scope'[v] = scope[v]
      BY <1>5, <2>4
    <3> QED BY <2>1, <3>1, <3>2, <3>3
  <2> QED BY <2>3, <2>4
<1> QED BY <1>4, <1>6, <1>7

----------------------------------------------------------------------------
(* Every step preserves the invariant. *)

LEMMA MainStep ==
  ASSUME CaseInv, ExecuteMain
  PROVE  CaseInv'
<1> USE Positions DEF CaseInv, TypeOK, MainInv, CleanupInv, RelationsInv, ResultsInv,
    Executed, IsCleanup, MainPassed
<1>1. next \in 1..Last /\ next <= MainEnd /\ stage = "main" /\ ExecuteStep(next)
      /\ halted = 0 /\ UNCHANGED relationResults
  BY DEF ExecuteMain
<1>2. PICK res \in StepResults :
        res.required = Required(next) /\ res.outcome # "skipped" /\ Store(next, res)
  BY <1>1, StepEffect
<1>3. /\ results' \in [1..Last -> StepResults]
      /\ results'[next] = res
      /\ \A j \in 1..Last : j # next => results'[j] = results[j]
      /\ DOMAIN scope' \subseteq Names
      /\ \A v \in DOMAIN scope' : scope'[v] \in 0..Last
      /\ ScopeIsLatest'
  BY <1>1, <1>2, StoreEffect
<1>4. res.outcome \in {"passed", "failed", "error"}
  BY <1>2 DEF StepResults, Outcomes
<1>5. \/ /\ res.outcome = "passed" /\ next < MainEnd
         /\ halted' = 0 /\ stage' = "main" /\ next' = next + 1
      \/ /\ res.outcome = "passed" /\ next = MainEnd
         /\ halted' = 0 /\ stage' = "relations" /\ next' = MainEnd + 1
      \/ /\ res.outcome # "passed"
         /\ halted' = next /\ stage' = "relations" /\ next' = MainEnd + 1
  BY <1>1, <1>3 DEF ExecuteMain
<1>6. TypeOK'
  BY <1>1, <1>3, <1>5
<1>7. MainInv'
  BY <1>1, <1>3, <1>4, <1>5
<1>8. CleanupInv' /\ RelationsInv'
  BY <1>1, <1>3, <1>5
<1>9. ResultsInv'
  BY <1>1, <1>2, <1>3, <1>5
<1> QED BY <1>3, <1>6, <1>7, <1>8, <1>9

\* Eligibility depends on the fate of the main flow only.
LEMMA EligibilityFixed ==
  ASSUME halted' = halted, NEW k \in 1..Last
  PROVE  CleanupShouldRun(k)' = CleanupShouldRun(k)
BY DEF CleanupShouldRun

LEMMA RelationsStep ==
  ASSUME CaseInv, EvaluateRelations
  PROVE  CaseInv'
<1> USE Positions DEF CaseInv, TypeOK, MainInv, CleanupInv, RelationsInv, ResultsInv,
    Executed, MainPassed, EvaluateRelations
<1>1. TypeOK'
  OBVIOUS
<1>2. MainInv' /\ ResultsInv'
  OBVIOUS
<1>3. RelationsInv'
  BY DEF RelationOutcomes
<1>4. CleanupInv'
  OBVIOUS
<1>5. ScopeIsLatest'
  BY DEF ScopeIsLatest
<1> QED BY <1>1, <1>2, <1>3, <1>4, <1>5

LEMMA CleanupStep ==
  ASSUME CaseInv, RunCleanup
  PROVE  CaseInv'
<1> USE Positions DEF CaseInv, TypeOK, MainInv, CleanupInv, RelationsInv, ResultsInv,
    Executed, MainPassed
<1>1. next \in 1..Last /\ next > MainEnd /\ stage = "cleanup" /\ next' = next + 1
      /\ stage' = (IF next = Last THEN "done" ELSE "cleanup")
      /\ UNCHANGED <<halted, relationResults>>
      /\ results[next].outcome = "skipped"
  BY DEF RunCleanup
<1>2. CASE ~CleanupShouldRun(next)
  <2>1. UNCHANGED <<scope, results>>
    BY <1>2 DEF RunCleanup
  <2>2. TypeOK' /\ MainInv' /\ RelationsInv' /\ ResultsInv'
    BY <1>1, <2>1
  <2>3. CleanupInv'
    <3> SUFFICES ASSUME NEW k \in (MainEnd + 1)..next
                 PROVE  Executed(k)' <=> CleanupShouldRun(k)'
      BY <1>1, <2>1
    <3>1. CleanupShouldRun(k)' = CleanupShouldRun(k)
      BY <1>1, EligibilityFixed
    <3> QED BY <1>1, <1>2, <2>1, <3>1
  <2>4. ScopeIsLatest'
    BY <2>1 DEF ScopeIsLatest
  <2> QED BY <2>2, <2>3, <2>4
<1>3. CASE CleanupShouldRun(next)
  <2>1. PICK res \in StepResults :
          res.required = Required(next) /\ res.outcome # "skipped" /\ Store(next, res)
    BY <1>1, <1>3, StepEffect DEF RunCleanup
  <2>2. /\ results' \in [1..Last -> StepResults]
        /\ results'[next] = res
        /\ \A j \in 1..Last : j # next => results'[j] = results[j]
        /\ DOMAIN scope' \subseteq Names
        /\ \A v \in DOMAIN scope' : scope'[v] \in 0..Last
        /\ ScopeIsLatest'
    BY <1>1, <2>1, StoreEffect
  <2>3. TypeOK' /\ MainInv' /\ RelationsInv'
    BY <1>1, <2>2
  <2>4. ResultsInv'
    BY <1>1, <2>1, <2>2
  <2>5. CleanupInv'
    <3> SUFFICES ASSUME NEW k \in (MainEnd + 1)..next
                 PROVE  Executed(k)' <=> CleanupShouldRun(k)'
      BY <1>1, <2>2
    <3>1. CleanupShouldRun(k)' = CleanupShouldRun(k)
      BY <1>1, EligibilityFixed
    <3> QED BY <1>1, <1>3, <2>1, <2>2, <3>1
  <2> QED BY <2>2, <2>3, <2>4, <2>5
<1> QED BY <1>2, <1>3

LEMMA InitCaseInv ==
  Init => CaseInv
<1> SUFFICES ASSUME Init
             PROVE  CaseInv
  OBVIOUS
<1> USE Positions DEF Init
<1>1. \A k \in 1..Last : Skipped(k) \in StepResults
  BY DEF Skipped, StepResults, Outcomes, Required
<1>2. TypeOK
  BY <1>1 DEF TypeOK, Names
<1>3. MainInv /\ CleanupInv /\ RelationsInv
  BY DEF MainInv, CleanupInv, RelationsInv, Skipped
<1>4. ResultsInv /\ ScopeIsLatest
  BY DEF ResultsInv, ScopeIsLatest, Skipped
<1> QED BY <1>2, <1>3, <1>4 DEF CaseInv

LEMMA NextCaseInv ==
  CaseInv /\ [Next]_vars => CaseInv'
<1>1. CASE UNCHANGED vars
  BY <1>1 DEF vars, CaseInv, TypeOK, MainInv, CleanupInv, RelationsInv, ResultsInv,
     ScopeIsLatest, Executed, CleanupShouldRun, MainPassed
<1> QED BY <1>1, MainStep, RelationsStep, CleanupStep DEF Next

\* A finished case has a verdict, and best-effort cleanup does not decide it.
LEMMA BestEffortFollows ==
  CaseInv => BestEffortNeverDecides
<1> SUFFICES ASSUME CaseInv, stage = "done"
             PROVE  /\ CaseOutcome(results, relationResults) # "skipped"
                    /\ (/\ halted = 0
                        /\ \A r \in Relations : relationResults[r] \in {"passed", "not_applicable"}
                        /\ \A k \in 1..Last : results[k].outcome \in {"failed", "error"}
                                             => ~results[k].required)
                       => CaseOutcome(results, relationResults) = "passed"
  BY DEF BestEffortNeverDecides
<1> DEFINE steps == {results[k].outcome : k \in Counting(results)}
           relations == {RelationExecutionOutcome(relationResults[r]) : r \in DOMAIN relationResults}
<1>1. /\ results \in [1..Last -> StepResults]
      /\ relationResults \in [Relations -> RelationOutcomes \cup {"pending"}]
      /\ \A k \in 1..Last : results[k].required = Required(k)
  BY DEF CaseInv, TypeOK, ResultsInv
<1>2. \A k \in 1..MainEnd : k \in 1..Last /\ Required(k)
  BY Positions DEF Required, IsCleanup
<1>3. halted = 0 => "passed" \in steps
  <2> SUFFICES ASSUME halted = 0 PROVE "passed" \in steps
    OBVIOUS
  <2>1. 1 \in 1..MainEnd /\ results[1].outcome = "passed"
    BY Positions DEF CaseInv, MainInv, MainPassed
  <2>2. 1 \in Counting(results)
    BY <1>1, <1>2, <2>1 DEF Counting
  <2> QED BY <2>1, <2>2
<1>4. halted # 0 => steps \cap {"failed", "error"} # {}
  <2> SUFFICES ASSUME halted # 0 PROVE steps \cap {"failed", "error"} # {}
    OBVIOUS
  <2>1. halted \in 1..MainEnd /\ results[halted].outcome \in {"failed", "error"}
    BY Positions DEF CaseInv, TypeOK, MainInv
  <2>2. halted \in Counting(results)
    BY <1>1, <1>2, <2>1 DEF Counting
  <2> QED BY <2>1, <2>2
<1>5. CaseOutcome(results, relationResults) = Aggregate(steps \cup relations)
  BY DEF CaseOutcome
<1>6. CaseOutcome(results, relationResults) # "skipped"
  <2> HIDE DEF steps, relations
  <2> QED BY <1>3, <1>4, <1>5 DEF Aggregate
<1>7. ASSUME halted = 0,
             \A r \in Relations : relationResults[r] \in {"passed", "not_applicable"},
             \A k \in 1..Last : results[k].outcome \in {"failed", "error"} => ~results[k].required
      PROVE  CaseOutcome(results, relationResults) = "passed"
  <2>1. steps \cap {"failed", "error"} = {}
    BY <1>1, <1>7 DEF Counting
  <2>2. relations \cap {"failed", "error"} = {}
    BY <1>1, <1>7 DEF RelationExecutionOutcome
  <2> HIDE DEF steps, relations
  <2> QED BY <1>3, <1>5, <1>7, <2>1, <2>2 DEF Aggregate
<1> QED BY <1>6, <1>7

----------------------------------------------------------------------------
(* The theorems. *)

(***************************************************************************)
(* For every case that passed validation: positions, scope, step results   *)
(* and relation results keep their types.                                  *)
(***************************************************************************)
THEOREM CaseTypeCorrect == Spec => []TypeOK
<1>1. CaseInv => TypeOK
  BY DEF CaseInv
<1> QED BY <1>1, InitCaseInv, NextCaseInv, PTL DEF Spec

(***************************************************************************)
(* For every case: a variable holds what the last executed step with a     *)
(* successful extraction of it found, whether or not that step passed.     *)
(***************************************************************************)
THEOREM ScopeSafe == Spec => []ScopeIsLatest
<1>1. CaseInv => ScopeIsLatest
  BY DEF CaseInv
<1> QED BY <1>1, InitCaseInv, NextCaseInv, PTL DEF Spec

(***************************************************************************)
(* For every case: the cleanup steps executed are those the fate of the    *)
(* main flow made eligible, whatever became of other cleanup steps.        *)
(***************************************************************************)
THEOREM CleanupSafe == Spec => []EligibleCleanupRan
<1>1. CaseInv => EligibleCleanupRan
  <2> SUFFICES ASSUME CaseInv, stage = "done", NEW k \in (MainEnd + 1)..Last
               PROVE  Executed(k) <=> \/ Steps[k].when = "always"
                                      \/ Steps[k].when = "on_success" /\ MainPassed
                                      \/ Steps[k].when = "on_failure" /\ ~MainPassed
    BY DEF EligibleCleanupRan
  <2>1. Executed(k) <=> CleanupShouldRun(k)
    BY Positions DEF CaseInv, CleanupInv
  <2>2. halted = 0 <=> MainPassed
    BY Positions DEF CaseInv, TypeOK, MainInv, MainPassed
  <2>3. Steps[k].when \in {"always", "on_success", "on_failure"}
    BY ValidatedAssumption, Positions DEF StepsAreValidated, IsCleanup
  <2> QED BY <2>1, <2>2, <2>3 DEF CleanupShouldRun
<1> QED BY <1>1, InitCaseInv, NextCaseInv, PTL DEF Spec

(***************************************************************************)
(* For every case: it passes only if every setup and main step was         *)
(* executed and passed, every relation that applied held, and no cleanup   *)
(* step whose errors count went wrong.                                     *)
(***************************************************************************)
THEOREM PassedSafe == Spec => []PassedMeansClean
<1>1. CaseInv => PassedMeansClean
  <2> SUFFICES ASSUME CaseInv, stage = "done",
                      CaseOutcome(results, relationResults) = "passed"
               PROVE  /\ \A k \in 1..MainEnd : results[k].outcome = "passed"
                      /\ \A r \in Relations : relationResults[r] \in {"passed", "not_applicable"}
                      /\ \A k \in (MainEnd + 1)..Last :
                           Required(k) => results[k].outcome \in {"passed", "skipped"}
    BY DEF PassedMeansClean
  <2>1. /\ results \in [1..Last -> StepResults]
        /\ relationResults \in [Relations -> RelationOutcomes \cup {"pending"}]
        /\ \A r \in Relations : relationResults[r] # "pending"
        /\ \A k \in 1..Last : results[k].required = Required(k)
    BY DEF CaseInv, TypeOK, RelationsInv, ResultsInv
  <2>2. \A k \in 1..Last : Required(k) => results[k].outcome \in {"passed", "skipped"}
    <3> SUFFICES ASSUME NEW k \in 1..Last, Required(k), results[k].outcome \in {"failed", "error"}
                 PROVE  FALSE
      BY <2>1 DEF StepResults, Outcomes
    <3>1. k \in Counting(results)
      BY <2>1 DEF Counting
    <3> QED BY <3>1 DEF CaseOutcome, Aggregate
  <2>3. \A r \in Relations : relationResults[r] \in {"passed", "not_applicable"}
    <3> SUFFICES ASSUME NEW r \in Relations, relationResults[r] \in {"failed", "error"}
                 PROVE  FALSE
      BY <2>1 DEF RelationOutcomes
    <3>1. r \in DOMAIN relationResults
      BY <2>1
    <3> QED BY <3>1 DEF CaseOutcome, Aggregate, RelationExecutionOutcome
  <2>4. \A k \in 1..MainEnd : results[k].outcome = "passed"
    <3>1. \A k \in 1..MainEnd : Required(k)
      BY Positions DEF Required, IsCleanup
    <3>2. CASE halted = 0
      BY <3>2 DEF CaseInv, MainInv, MainPassed
    <3>3. CASE halted # 0
      <4>1. halted \in 1..MainEnd /\ results[halted].outcome \in {"failed", "error"}
        BY <3>3, Positions DEF CaseInv, TypeOK, MainInv
      <4> QED BY <2>2, <3>1, <4>1, Positions
    <3> QED BY <3>2, <3>3
  <2> QED BY <2>2, <2>3, <2>4, Positions
<1> QED BY <1>1, InitCaseInv, NextCaseInv, PTL DEF Spec

(***************************************************************************)
(* For every case: a finished case has a verdict, and best-effort cleanup  *)
(* alone never makes it other than passed.                                 *)
(***************************************************************************)
THEOREM BestEffortSafe == Spec => []BestEffortNeverDecides
BY BestEffortFollows, InitCaseInv, NextCaseInv, PTL DEF Spec

(***************************************************************************)
(* For every case: no cleanup step runs before the relations are decided,  *)
(* and then neither a verdict nor a main result changes any more.          *)
(***************************************************************************)
THEOREM OrderSafe == Spec => RelationsBeforeCleanup
<1>1. CaseInv /\ [Next]_vars => [VerdictsSettled]_vars
  <2> SUFFICES ASSUME CaseInv, Next
               PROVE  VerdictsSettled
    OBVIOUS
  <2>1. CASE ExecuteMain
    <3>1. /\ next \in 1..MainEnd /\ next \in 1..Last /\ ExecuteStep(next)
          /\ \A r \in Relations : relationResults[r] = "pending"
      BY <2>1, Positions DEF ExecuteMain, CaseInv, TypeOK, MainInv, RelationsInv
    <3>2. PICK res \in StepResults : Store(next, res)
      BY <3>1, StepEffect
    <3>3. \A k \in (MainEnd + 1)..Last : results'[k] = results[k]
      BY <3>1, <3>2, Positions DEF Store, CaseInv, TypeOK
    <3> QED BY <3>1, <3>3 DEF VerdictsSettled
  <2>2. CASE EvaluateRelations
    BY <2>2 DEF EvaluateRelations, VerdictsSettled, CaseInv, RelationsInv
  <2>3. CASE RunCleanup
    <3>1. /\ next \in (MainEnd + 1)..Last /\ next \in 1..Last
          /\ UNCHANGED relationResults
          /\ \A r \in Relations : relationResults[r] # "pending"
      BY <2>3, Positions DEF RunCleanup, CaseInv, TypeOK, MainInv, CleanupInv, RelationsInv
    <3>2. \A k \in 1..MainEnd : results'[k] = results[k]
      <4>1. CASE ExecuteStep(next)
        <5>1. PICK res \in StepResults : Store(next, res)
          BY <3>1, <4>1, StepEffect
        <5> QED BY <3>1, <5>1, Positions DEF Store, CaseInv, TypeOK
      <4>2. CASE results' = results
        BY <4>2
      <4> QED BY <2>3, <4>1, <4>2 DEF RunCleanup
    <3> QED BY <3>1, <3>2 DEF VerdictsSettled
  <2> QED BY <2>1, <2>2, <2>3 DEF Next
<1> QED BY <1>1, InitCaseInv, NextCaseInv, PTL DEF Spec, RelationsBeforeCleanup
=============================================================================
