--------------------------- MODULE CaseExecution ---------------------------
(***************************************************************************)
(* One test case as execution/scenario_executor.py runs it: setup and main *)
(* steps until one does not pass, then the relations over what was         *)
(* observed, then the cleanup steps the outcome makes eligible. Every step *)
(* may fail in each way step_executor.py distinguishes. Steps are named by *)
(* their position in setup, main, cleanup.                                 *)
(***************************************************************************)
EXTENDS Naturals, Sequences, CaseResults

CONSTANTS
  Setup, Main, Cleanup,  \* the declared steps of the case
  Relations,             \* the declared relations of the case
  Initial,               \* names of the configured variables
  FaultActive            \* a fault is in force: responses may be marked

Steps == Setup \o Main \o Cleanup
Last == Len(Steps)
MainEnd == Len(Setup) + Len(Main)
IsCleanup(k) == k > MainEnd

\* A cleanup step with ignore_errors is best-effort.
Required(k) == IsCleanup(k) => ~Steps[k].ignoreErrors

Names == Initial \cup UNION {Steps[k].extracts : k \in 1..Last}

\* Names some step before k extracts, whether or not it will have run by then.
DeclaredBefore(k) == Initial \cup UNION {Steps[j].extracts : j \in 1..(k - 1)}

(***************************************************************************)
(* What semantic validation lets through: a step refers only to variables  *)
(* that an earlier declared step extracts, and a relation compares an      *)
(* earlier with a later setup or main step.                                *)
(***************************************************************************)
StepsAreLists ==
  /\ \A s \in {Setup, Main, Cleanup} : s \in Seq({s[i] : i \in DOMAIN s})
  /\ Main # <<>>
StepsAreValidated ==
  \A k \in 1..Last :
    /\ Steps[k].uses \cup Steps[k].checks \subseteq DeclaredBefore(k)
    /\ Steps[k].required \subseteq Steps[k].extracts
    /\ Steps[k].lacksPath \in BOOLEAN   \* the declared violation: a path parameter is missing
    /\ IsCleanup(k) => /\ Steps[k].when \in {"always", "on_success", "on_failure"}
                       /\ Steps[k].ignoreErrors \in BOOLEAN
RelationsAreValidated ==
  \A r \in Relations :
    /\ r.source \in 1..MainEnd /\ r.followUp \in 1..MainEnd /\ r.source < r.followUp
    /\ r.baseline \in 0..(r.source - 1)    \* 0: no baseline step
    /\ r.requestOnly \in BOOLEAN           \* of the later step it reads the request alone

ASSUME StepsAssumption == StepsAreLists
ASSUME ValidatedAssumption == StepsAreValidated
ASSUME RelationsAssumption == RelationsAreValidated
ASSUME FaultActiveAssumption == FaultActive \in BOOLEAN

VARIABLES
  stage,            \* the loop or call execution is in
  next,             \* position of the next step
  halted,           \* halted_after_step, or 0
  scope,            \* variables: name -> step that set it (0: configured)
  results,          \* step results so far; steps not executed are skipped
  relationResults   \* outcome of each relation, once evaluated

vars == <<stage, next, halted, scope, results, relationResults>>

\* What a StepResult tells the aggregation and the evaluation apart.
StepResults == [
  required  : BOOLEAN,       \* outcome_policy is REQUIRED, not BEST_EFFORT
  outcome   : Outcomes,
  request   : BOOLEAN,       \* a request snapshot is kept
  response  : BOOLEAN,       \* a response snapshot is kept
  marked    : BOOLEAN,       \* the response carries the fault's id
  failed    : BOOLEAN,       \* some check came out false
  extracted : SUBSET Names]  \* variables with status EXTRACTED

\* skip_step, and a step nobody has executed yet.
Skipped(k) == [
  required |-> Required(k), outcome |-> "skipped", request |-> FALSE,
  response |-> FALSE, marked |-> FALSE, failed |-> FALSE, extracted |-> {}]

\* A step that ended without a response.
Unanswered(k, request) ==
  [Skipped(k) EXCEPT !.outcome = "error", !.request = request]

TypeOK ==
  /\ stage \in {"main", "relations", "cleanup", "done"}
  /\ next \in 1..(Last + 1)
  /\ halted \in 0..MainEnd
  /\ DOMAIN scope \subseteq Names
  /\ \A v \in DOMAIN scope : scope[v] \in 0..Last
  /\ results \in [1..Last -> StepResults]
  /\ relationResults \in [Relations -> RelationOutcomes \cup {"pending"}]

Init ==
  /\ stage = "main"
  /\ next = 1
  /\ halted = 0
  /\ scope = [v \in Initial |-> 0]
  /\ results = [k \in 1..Last |-> Skipped(k)]
  /\ relationResults = [r \in Relations |-> "pending"]

----------------------------------------------------------------------------
(* execute_step: the result it stores and the values it extracts. *)

\* Mutant: only a step that passed hands on what it extracted.
Store_PassedOnly(k, result) ==
  /\ results' = [results EXCEPT ![k] = result]
  /\ LET kept == IF result.outcome = "passed" THEN result.extracted ELSE {}
     IN scope' = [v \in DOMAIN scope \cup kept |-> IF v \in kept THEN k ELSE scope[v]]

\* Append the result; extracted values replace earlier ones of the same name.
Store(k, result) ==
  /\ results' = [results EXCEPT ![k] = result]
  /\ scope' = [v \in DOMAIN scope \cup result.extracted |->
                 IF v \in result.extracted THEN k ELSE scope[v]]

\* A variable of the request is unknown or its value cannot be serialized, or
\* the route has a placeholder without a value.
BuildFails(k) ==
  /\ Steps[k].uses # {} \/ Steps[k].lacksPath
  /\ Store(k, Unanswered(k, FALSE))

Buildable(k) == ~Steps[k].lacksPath /\ Steps[k].uses \subseteq DOMAIN scope

\* Blocked by the runtime request contract, or sent and lost: either way the
\* result keeps the request and no response.
NoResponse(k) ==
  /\ Buildable(k)
  /\ Store(k, Unanswered(k, TRUE))

\* An assertion that refers to an unknown variable has no verdict, nor has one
\* whose selector cannot be applied to the response.
Responds(k) ==
  /\ Buildable(k)
  /\ \E extracted \in SUBSET Steps[k].extracts, failed, errored \in BOOLEAN,
        marked \in {FALSE, FaultActive} :
       /\ ~(Steps[k].checks \subseteq DOMAIN scope) => errored
       /\ ~(Steps[k].required \subseteq extracted) => failed \/ errored
       /\ Store(k,
            [required |-> Required(k), outcome |-> EvaluationOutcome(failed, errored),
             request |-> TRUE, response |-> TRUE, marked |-> marked,
             failed |-> failed, extracted |-> extracted])

ExecuteStep(k) == BuildFails(k) \/ NoResponse(k) \/ Responds(k)

----------------------------------------------------------------------------
(* execute_scenario_main *)

\* Mutant: the main flow runs on into the first cleanup step.
ExecuteMain_PastEnd ==
  /\ stage = "main"
  /\ ExecuteStep(next)
  /\ LET passed == results'[next].outcome = "passed"
     IN /\ halted' = IF passed THEN halted ELSE next
        /\ IF passed /\ next <= MainEnd
           THEN stage' = "main" /\ next' = next + 1
           ELSE stage' = "relations" /\ next' = MainEnd + 1
  /\ UNCHANGED relationResults

\* Mutant: a halted main flow goes straight to cleanup.
ExecuteMain_SkipsRelations ==
  /\ stage = "main"
  /\ ExecuteStep(next)
  /\ LET passed == results'[next].outcome = "passed"
     IN /\ halted' = IF passed THEN halted ELSE next
        /\ IF passed /\ next < MainEnd
           THEN stage' = "main" /\ next' = next + 1
           ELSE /\ stage' = IF passed THEN "relations" ELSE "cleanup"
                /\ next' = MainEnd + 1
  /\ UNCHANGED relationResults

ExecuteMain ==
  /\ stage = "main"
  /\ ExecuteStep(next)
  /\ LET passed == results'[next].outcome = "passed"
     IN /\ halted' = IF passed THEN halted ELSE next
        /\ IF passed /\ next < MainEnd
           THEN stage' = "main" /\ next' = next + 1
           ELSE stage' = "relations" /\ next' = MainEnd + 1
  /\ UNCHANGED relationResults

----------------------------------------------------------------------------
(* execute_scenario_relations, over the setup and main executions *)

Executed(k) == results[k].outcome # "skipped"

\* What a relation may come to: its precondition is checked again on the
\* requests that were sent, and only then what they brought is compared. A
\* response that is missing cannot be; the request that was sent can.
RelationChoices(r) ==
  IF ~(Executed(r.source) /\ Executed(r.followUp)) THEN {"not_applicable"}
  ELSE IF ~(results[r.source].request /\ results[r.followUp].request) THEN {"error"}
  ELSE IF r.baseline # 0 /\ ~Executed(r.baseline) THEN {"not_applicable"}
  ELSE IF ~(results[r.source].response /\ (results[r.followUp].response \/ r.requestOnly))
       THEN {"not_applicable", "error"}
  ELSE RelationOutcomes

EvaluateRelations ==
  /\ stage = "relations"
  /\ relationResults' \in [Relations -> RelationOutcomes]
  /\ \A r \in Relations : relationResults'[r] \in RelationChoices(r)
  /\ stage' = IF next > Last THEN "done" ELSE "cleanup"
  /\ UNCHANGED <<next, halted, scope, results>>

----------------------------------------------------------------------------
(* The cleanup loop of execute_scenario_flow *)

CleanupShouldRun(k) ==
  CASE Steps[k].when = "always" -> TRUE
    [] Steps[k].when = "on_success" -> halted = 0
    [] Steps[k].when = "on_failure" -> halted # 0

\* Mutant: cleanup ends with the first cleanup step that does not pass.
RunCleanup_StopsAtFailure ==
  /\ stage = "cleanup"
  /\ IF CleanupShouldRun(next) THEN ExecuteStep(next) ELSE UNCHANGED <<scope, results>>
  /\ next' = next + 1
  /\ stage' = IF next = Last \/ results'[next].outcome \in {"failed", "error"}
              THEN "done" ELSE "cleanup"
  /\ UNCHANGED <<halted, relationResults>>

\* Mutant: the loop does not get past a step that is not eligible.
RunCleanup_NoSkip ==
  /\ stage = "cleanup"
  /\ CleanupShouldRun(next)
  /\ ExecuteStep(next)
  /\ next' = next + 1
  /\ stage' = IF next = Last THEN "done" ELSE "cleanup"
  /\ UNCHANGED <<halted, relationResults>>

\* Every eligible step runs, whatever became of the cleanup steps before it.
RunCleanup ==
  /\ stage = "cleanup"
  /\ IF CleanupShouldRun(next) THEN ExecuteStep(next) ELSE UNCHANGED <<scope, results>>
  /\ next' = next + 1
  /\ stage' = IF next = Last THEN "done" ELSE "cleanup"
  /\ UNCHANGED <<halted, relationResults>>

Next == ExecuteMain \/ EvaluateRelations \/ RunCleanup

\* The executor is one sequential loop; a step ends because sending a request
\* has a deadline and everything else is computation.
Fairness == WF_vars(Next)

Spec == Init /\ [][Next]_vars /\ Fairness

----------------------------------------------------------------------------
(* Properties. *)

(***************************************************************************)
(* A case passes only if every setup and main step was executed and        *)
(* passed, no relation failed or had no verdict, and no cleanup step whose *)
(* errors count went wrong.                                                *)
(***************************************************************************)
PassedMeansClean ==
  stage = "done" /\ CaseOutcome(results, relationResults) = "passed" =>
    /\ \A k \in 1..MainEnd : results[k].outcome = "passed"
    /\ \A r \in Relations : relationResults[r] \in {"passed", "not_applicable"}
    /\ \A k \in (MainEnd + 1)..Last :
         Required(k) => results[k].outcome \in {"passed", "skipped"}

(***************************************************************************)
(* Best-effort cleanup never decides: if setup, main and relations went    *)
(* well and every cleanup step that went wrong was best-effort, the case   *)
(* passes. With PassedMeansClean this pins the aggregation down. It also   *)
(* says that no finished case counts as skipped, on which the evaluation   *)
(* relies when it tells not_detected from inconclusive.                    *)
(***************************************************************************)
BestEffortNeverDecides ==
  stage = "done" =>
    /\ CaseOutcome(results, relationResults) # "skipped"
    /\ /\ halted = 0
       /\ \A r \in Relations : relationResults[r] \in {"passed", "not_applicable"}
       /\ \A k \in 1..Last : results[k].outcome \in {"failed", "error"} => ~results[k].required
       => CaseOutcome(results, relationResults) = "passed"

(***************************************************************************)
(* design.md:906-912: when the case is over, the cleanup steps executed    *)
(* are those that the fate of the main flow made eligible, whatever became *)
(* of earlier cleanup steps.                                               *)
(***************************************************************************)
MainPassed == \A k \in 1..MainEnd : results[k].outcome = "passed"

EligibleCleanupRan ==
  stage = "done" =>
    \A k \in (MainEnd + 1)..Last :
      Executed(k) <=> \/ Steps[k].when = "always"
                      \/ Steps[k].when = "on_success" /\ MainPassed
                      \/ Steps[k].when = "on_failure" /\ ~MainPassed

(***************************************************************************)
(* design.md:886-891: a variable holds what the last executed step with a  *)
(* successful extraction of it found, even if that step failed, so cleanup *)
(* can use every identifier that was obtained.                             *)
(***************************************************************************)
ScopeIsLatest ==
  \A v \in Names :
    LET setters == {k \in 1..Last : v \in results[k].extracted}
    IN IF setters = {}
       THEN IF v \in Initial THEN v \in DOMAIN scope /\ scope[v] = 0
                             ELSE v \notin DOMAIN scope
       ELSE /\ v \in DOMAIN scope
            /\ scope[v] \in setters
            /\ \A k \in setters : k <= scope[v]

(***************************************************************************)
(* design.md:902-904: relations are decided on what setup and main steps   *)
(* observed, before any cleanup step touches the resources, and neither a  *)
(* verdict nor a main step's result changes afterwards.                    *)
(***************************************************************************)
VerdictsSettled ==
  /\ (\E k \in (MainEnd + 1)..Last : results'[k] # results[k]) =>
        \A r \in Relations : relationResults[r] # "pending"
  /\ (\E r \in Relations : relationResults[r] # "pending") =>
        /\ relationResults' = relationResults
        /\ \A k \in 1..MainEnd : results'[k] = results[k]

RelationsBeforeCleanup == [][VerdictsSettled]_vars

(***************************************************************************)
(* The case is executed to its end whatever its steps come to.             *)
(***************************************************************************)
CaseEnds == <>(stage = "done")
============================================================================
