-------------------------- MODULE FaultEvaluation --------------------------
(***************************************************************************)
(* How evaluation/suite_evaluator.py turns one fault run into a verdict on *)
(* the fault. The run is produced by CaseExecution, case after case, while *)
(* the proxy may mutate any response; the clean run enters through its     *)
(* case outcomes only, which is all the evaluation reads of it here.       *)
(***************************************************************************)
EXTENDS CaseExecution, FiniteSets

CONSTANT CaseCount   \* cases of the batch

ASSUME CaseCountAssumption == CaseCount \in Nat \ {0}

VARIABLES
  clean,         \* outcome of each case in the clean run
  cases,         \* the finished cases of the fault run, in order
  triggerCount,  \* responses the proxy mutated: the recorded trigger_count
  verdict        \* the FaultEvaluation

evalVars == <<vars, clean, cases, triggerCount, verdict>>

----------------------------------------------------------------------------
(* What the evaluation reads off one finished case. *)

\* Mutant: any failed step counts, best-effort cleanup included.
HasDeterministicFailure_AnyStep(rs, rels) ==
  \/ CaseOutcome(rs, rels) = "failed"
  \/ \E k \in DOMAIN rs : rs[k].outcome = "failed"
  \/ \E r \in DOMAIN rels : rels[r] = "failed"

HasDeterministicFailure(rs, rels) ==
  \/ CaseOutcome(rs, rels) = "failed"
  \/ \E k \in DOMAIN rs : rs[k].required /\ rs[k].outcome = "failed"
  \/ \E r \in DOMAIN rels : rels[r] = "failed"

Requested(rs) == {k \in DOMAIN rs : rs[k].request}

\* request_ordinal of step k within its case.
Ordinal(rs, k) == Cardinality({j \in Requested(rs) : j <= k})

\* Some check whose outcome counts came out false: no part of the result, kept
\* to judge the verdict by.
OracleFailed(rs, rels) ==
  \/ \E k \in DOMAIN rs : rs[k].required /\ rs[k].failed
  \/ \E r \in DOMAIN rels : rels[r] = "failed"

CaseResult(rs, rels) == [
  outcome       |-> CaseOutcome(rs, rels),
  deterministic |-> HasDeterministicFailure(rs, rels),
  requests      |-> Cardinality(Requested(rs)),
  marks         |-> {Ordinal(rs, k) : k \in {j \in DOMAIN rs : rs[j].marked}},
  oracleFailed  |-> OracleFailed(rs, rels)]

----------------------------------------------------------------------------
(* _evaluate_fault *)

RequestsBefore(c) == LET n[i \in 0..CaseCount] ==
                           IF i = 0 THEN 0 ELSE n[i - 1] + cases[i].requests
                     IN n[c - 1]

MarkedSteps == UNION {{<<c, RequestsBefore(c) + o>> : o \in cases[c].marks} : c \in DOMAIN cases}

Triggered == {c \in DOMAIN cases : cases[c].marks # {}}

Eligible == {c \in Triggered : clean[c] = "passed"}

Detected == {c \in Eligible : cases[c].deterministic}
Errored == {c \in Eligible : cases[c].outcome = "error"}

\* Mutant: an error among the eligible cases outranks a pass.
FaultOutcome_ErrorFirst ==
  IF triggerCount = 0 THEN "not_triggered"
  ELSE IF Detected # {} THEN "detected"
  ELSE IF Eligible = {} THEN "no_eligible_case"
  ELSE IF Errored # {} THEN "inconclusive" ELSE "not_detected"

\* Mutant: without an eligible case the fault counts as missed.
FaultOutcome_NoEligibleIsMiss ==
  IF triggerCount = 0 THEN "not_triggered"
  ELSE IF Detected # {} THEN "detected"
  ELSE IF Eligible = {} \/ \E c \in Eligible : cases[c].outcome = "passed" THEN "not_detected"
  ELSE "inconclusive"

\* TRIGGERED was recorded if and only if the trigger count was not zero.
FaultOutcome ==
  IF triggerCount = 0 THEN "not_triggered"
  ELSE IF Detected # {} THEN "detected"
  ELSE IF Eligible = {} THEN "no_eligible_case"
  ELSE IF \E c \in Eligible : cases[c].outcome = "passed" THEN "not_detected"
  ELSE "inconclusive"

FirstDetection ==
  LET ordinals == {m[2] : m \in {n \in MarkedSteps : n[1] \in Detected}}
  IN IF Detected = {} THEN 0 ELSE CHOOSE o \in ordinals : \A p \in ordinals : o <= p

NoVerdict(outcome) == [
  outcome |-> outcome, triggerCount |-> 0, requestCount |-> 0,
  triggered |-> {}, eligible |-> {}, detected |-> {}, errored |-> {}, first |-> 0]

\* EvaluationInputError if the recorded count is not the evidence's.
EvaluateFault ==
  IF Cardinality(MarkedSteps) # triggerCount
  THEN NoVerdict("rejected")
  ELSE [outcome |-> FaultOutcome, triggerCount |-> triggerCount,
        requestCount |-> RequestsBefore(CaseCount + 1),
        triggered |-> Triggered, eligible |-> Eligible,
        detected |-> Detected, errored |-> Errored, first |-> FirstDetection]

\* The conditions of the FaultEvaluation model: building it raises unless they
\* hold.
ValidFaultEvaluation(e) ==
  /\ e.eligible \subseteq e.triggered
  /\ e.detected \subseteq e.eligible
  /\ e.errored \subseteq e.eligible
  /\ IF e.outcome = "not_triggered"
     THEN e.triggerCount = 0 /\ e.triggered = {}
     ELSE e.triggerCount # 0 /\ e.triggered # {}
  /\ IF e.outcome = "detected"
     THEN e.detected # {} /\ e.first \in 1..e.requestCount
     ELSE e.detected = {} /\ e.first = 0
  /\ e.outcome = "no_eligible_case" => e.eligible = {}
  /\ e.outcome \in {"not_detected", "inconclusive"} => e.eligible # {}
  /\ e.outcome = "inconclusive" => e.errored # {}

----------------------------------------------------------------------------
EvalInit ==
  /\ Init
  /\ clean \in [1..CaseCount -> {"passed", "failed", "error"}]
  /\ cases = <<>>
  /\ triggerCount = 0
  /\ verdict = NoVerdict("pending")

\* A mutated response counts whether or not it reaches the runner.
ExecuteCase ==
  /\ Next
  /\ LET changed == {k \in 1..Last : results'[k] # results[k]}
         marked == {k \in changed : results'[k].marked}
         lost == {k \in changed : results'[k].request /\ ~results'[k].response}
     IN \E seen \in SUBSET lost :
          triggerCount' = triggerCount + Cardinality(marked) + Cardinality(seen)
  /\ UNCHANGED <<clean, cases, verdict>>

\* aggregate_test_case_result, then the next case from the initial variables.
FinishCase ==
  /\ stage = "done"
  /\ Len(cases) < CaseCount
  /\ cases' = Append(cases, CaseResult(results, relationResults))
  /\ stage' = "main"
  /\ next' = 1
  /\ halted' = 0
  /\ scope' = [v \in Initial |-> 0]
  /\ results' = [k \in 1..Last |-> Skipped(k)]
  /\ relationResults' = [r \in Relations |-> "pending"]
  /\ UNCHANGED <<clean, triggerCount, verdict>>

Evaluate ==
  /\ Len(cases) = CaseCount
  /\ verdict.outcome = "pending"
  /\ verdict' = EvaluateFault
  /\ UNCHANGED <<vars, clean, cases, triggerCount>>

EvalNext == (Len(cases) < CaseCount /\ ExecuteCase) \/ FinishCase \/ Evaluate

EvalSpec == EvalInit /\ [][EvalNext]_evalVars

----------------------------------------------------------------------------
(* Properties. *)

EvaluationTypeOK ==
  /\ TypeOK
  /\ clean \in [1..CaseCount -> {"passed", "failed", "error"}]
  /\ Len(cases) \in 0..CaseCount
  /\ triggerCount \in Nat
  /\ verdict.outcome \in
       {"pending", "rejected", "not_triggered", "detected", "no_eligible_case",
        "not_detected", "inconclusive"}

Evaluated == verdict.outcome \notin {"pending", "rejected"}

(***************************************************************************)
(* Whatever a fault run contains, the verdict satisfies every condition of *)
(* the model it is stored in (domain/evaluation.py), so that a finished    *)
(* benchmark run is never thrown away by the evaluation's own validators.  *)
(***************************************************************************)
EvaluationIsValid == Evaluated => ValidFaultEvaluation(verdict)

(***************************************************************************)
(* design.md:1104-1114: a fault counts as detected only on a case that     *)
(* passed cleanly, that the mutation reached and in which a check or       *)
(* relation that counts came out false; an error, or a failing best-effort *)
(* cleanup, is no detection.                                               *)
(***************************************************************************)
DetectionIsDeserved ==
  verdict.outcome = "detected" =>
    \E c \in DOMAIN cases :
      clean[c] = "passed" /\ cases[c].marks # {} /\ cases[c].oracleFailed

(***************************************************************************)
(* design.md:645-653: a fault is missed only if a case it reached passed   *)
(* in both runs, and left undecided only if every case it could be judged  *)
(* by ended in an error.                                                   *)
(***************************************************************************)
NoDetectionIsJustified ==
  LET judged == {c \in DOMAIN cases : clean[c] = "passed" /\ cases[c].marks # {}}
  IN /\ verdict.outcome = "not_detected" =>
          /\ \E c \in judged : cases[c].outcome = "passed"
          /\ \A c \in judged : cases[c].outcome # "failed"
     /\ verdict.outcome = "inconclusive" =>
          judged # {} /\ \A c \in judged : cases[c].outcome = "error"

(***************************************************************************)
(* The docstring of _has_deterministic_failure ("Recognize a failed oracle *)
(* even when another check makes the case error") and design.md:651-653:   *)
(* whenever a check came out false in a case the fault can be judged by,   *)
(* the fault counts as detected. Broken when the check that errs belongs   *)
(* to the same step as the one that came out false.                        *)
(***************************************************************************)
FailedOracleIsDetection ==
  Evaluated /\ (\E c \in DOMAIN cases : /\ clean[c] = "passed"
                                        /\ cases[c].marks # {}
                                        /\ cases[c].oracleFailed)
    => verdict.outcome = "detected"
============================================================================
