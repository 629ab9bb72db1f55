---------------------------- MODULE CaseResults ----------------------------
(***************************************************************************)
(* The verdicts of the runner and how execution/step_executor.py and       *)
(* result_aggregator.py combine them: checks into a step outcome, step and *)
(* relation outcomes into a case outcome.                                  *)
(***************************************************************************)
Outcomes == {"passed", "failed", "error", "skipped"}
RelationOutcomes == {"passed", "failed", "error", "not_applicable"}

\* A check without a verdict outranks one that came out false.
EvaluationOutcome(failed, errored) ==
  IF errored THEN "error" ELSE IF failed THEN "failed" ELSE "passed"

\* error, then failed, then passed.
Aggregate(outcomes) ==
  IF "error" \in outcomes THEN "error"
  ELSE IF "failed" \in outcomes THEN "failed"
  ELSE IF "passed" \in outcomes THEN "passed" ELSE "skipped"

RelationExecutionOutcome(outcome) ==
  IF outcome = "not_applicable" THEN "skipped" ELSE outcome

\* Mutant: cleanup failures that were to be ignored count.
CaseOutcome_AllSteps(results, relationResults) ==
  Aggregate(
    {results[k].outcome : k \in DOMAIN results}
    \cup {RelationExecutionOutcome(relationResults[r]) : r \in DOMAIN relationResults})

\* Mutant: the relations are left out.
CaseOutcome_NoRelations(results, relationResults) ==
  Aggregate({results[k].outcome : k \in
    {j \in DOMAIN results : results[j].required /\ results[j].outcome # "skipped"}})

\* Skipped steps and best-effort steps do not count.
Counting(results) ==
  {k \in DOMAIN results : results[k].required /\ results[k].outcome # "skipped"}

CaseOutcome(results, relationResults) ==
  Aggregate(
    {results[k].outcome : k \in Counting(results)}
    \cup {RelationExecutionOutcome(relationResults[r]) : r \in DOMAIN relationResults})
============================================================================
