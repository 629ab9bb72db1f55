------------------------- MODULE SchemathesisBatch -------------------------
(***************************************************************************)
(* The baseline: cases generated by Schemathesis, captured                 *)
(* (generation/schemathesis_capture.py), adapted to runner-ready cases     *)
(* (schemathesis_adapter.py) and counted (schemathesis_batch.py). The      *)
(* generator itself is a library; a generated case is any record of        *)
(*   operation   the operationId it resolves to, or "unresolved"           *)
(*   mode, phase, readable (its components, method and path are of the     *)
(*   types the capture takes), method, route, cookies, media,              *)
(*   path, query, body                                                     *)
(* where a value may be NotJson. Headers are left out.                     *)
(***************************************************************************)
EXTENDS SemanticValidation

NotJson == [notJson |-> TRUE]

----------------------------------------------------------------------------
(* capture_schemathesis_case: the code of its rejection, or "none" *)

CaptureRejection(generated) ==
  IF generated.operation = "unresolved" THEN "capture_operation_unresolved"
  ELSE IF generated.mode \notin {"positive", "negative"} THEN "capture_mode_unsupported"
  ELSE IF generated.phase \notin {"examples", "coverage", "fuzzing"} THEN "capture_phase_unsupported"
  ELSE IF ~generated.readable THEN "capture_component_unsupported"
  ELSE "none"

----------------------------------------------------------------------------
(* adapt_schemathesis_case *)

\* _preflight_rejections; only the first is counted.
Preflight(generated) ==
  LET op == Operations[generated.operation]
  IN IF generated.method # op.method THEN "method_mismatch"
     ELSE IF generated.route # op.route THEN "path_mismatch"
     ELSE IF generated.cookies THEN "cookies_unsupported"
     ELSE IF generated.body # Missing /\ generated.media # "application/json" THEN "media_type_unsupported"
     ELSE "none"

\* _validated_json_value, for the values of one component
ValueRejection(values) ==
  IF \E value \in values : VariableReferences(value) # {} THEN "reserved_runtime_reference"
  ELSE IF NotJson \in values THEN "value_not_json"
  ELSE "none"

\* _request_definition: path, query and body in this order, then the contract.
DefinitionRejection(generated) ==
  LET components == <<PathValues(generated), QueryValues(generated), {generated.body}>>
      rejecting == {k \in 1..3 : ValueRejection(components[k]) # "none"}
  IN IF rejecting # {} THEN ValueRejection(components[Min(rejecting)])
     ELSE IF \E i \in DOMAIN generated.query : generated.query[i][1] = ""
     THEN "case_contract_invalid" ELSE "none"

NoInitial == <<>>   \* ExecutionConfig() has no variables

RequestStep(generated) == [
  op |-> generated.operation, mode |-> "conformant", violations |-> {}, path |-> generated.path,
  query |-> generated.query, body |-> generated.body, extract |-> <<>>, assertions |-> <<>>]

\* detect_request_violations
RequestIssues(step) == ParameterIssues(step, NoInitial) \cup BodyIssues(step)

ExpectedFor(generated) ==
  DOMAIN Operations[generated.operation].responses
  \cap IF generated.mode = "positive" THEN 200..299 \cup {401, 403, 404, 409}
       ELSE {400, 401, 403, 404, 405, 406, 409, 422, 428}

SemanticRejection(generated) ==
  LET step == RequestStep(generated)
      violations == DetectedViolations(step, NoInitial)
  IN IF RequestIssues(step) # {} THEN "request_semantics_unsupported"
     ELSE IF generated.mode = "positive" /\ violations # {} THEN "positive_request_invalid"
     ELSE IF generated.mode = "negative" /\ violations = {} THEN "negative_request_valid"
     ELSE IF ExpectedFor(generated) = {} THEN "status_oracle_unavailable"
     ELSE "none"

\* The first rejection on the way from a generated case to an adapted one.
Rejection(generated) ==
  IF CaptureRejection(generated) # "none" THEN CaptureRejection(generated)
  ELSE IF generated.operation \notin OperationIds THEN "unknown_operation"
  ELSE IF Preflight(generated) # "none" THEN Preflight(generated)
  ELSE IF DefinitionRejection(generated) # "none" THEN DefinitionRejection(generated)
  ELSE SemanticRejection(generated)

\* _response_assertions
ResponseAssertions(generated) ==
  LET statuses == ExpectedFor(generated)
      responses == Operations[generated.operation].responses
      Check(operator, expected) ==
        [operator |-> operator, source |-> "none", pointer |-> <<>>, expected |-> expected]
  IN <<IF Cardinality(statuses) = 1 THEN Check("status_is", CHOOSE status \in statuses : TRUE)
       ELSE Check("status_in", statuses)>>
     \o IF \E status \in statuses : responses[status] # NoSchema
        THEN <<Check("schema_matches", Missing)>> ELSE <<>>

\* The adapted case: one step, declared invalid in what it violates.
AdaptedCase(generated) ==
  LET step == [RequestStep(generated) EXCEPT !.assertions = ResponseAssertions(generated)]
      main == IF generated.mode = "positive" THEN step
              ELSE [step EXCEPT !.mode = "intentionally_invalid",
                                !.violations = DetectedViolations(step, NoInitial)]
  IN [setup |-> <<>>, main |-> <<main>>, cleanup |-> <<>>, relations |-> {}]

----------------------------------------------------------------------------
(* generate_schemathesis_batch and SchemathesisBatchCollector *)

\* SchemathesisGenerationConfig.require_a_generation_source
ConfigIsValid(config) ==
  config.examples \/ config.coverage \/ config.positive # 0 \/ config.negative # 0

\* At most count of what fuzzing yields for one operation.
Fuzzed(perOperation, count) ==
  FlattenSeq([k \in DOMAIN perOperation |->
                SubSeq(perOperation[k], 1, IF count < Len(perOperation[k]) THEN count ELSE Len(perOperation[k]))])

Collected(config, pool) ==
  (IF config.examples THEN pool.examples ELSE <<>>)
  \o (IF config.coverage THEN pool.coverage ELSE <<>>)
  \o Fuzzed(pool.positive, config.positive)
  \o Fuzzed(pool.negative, config.negative)

\* The adapted cases are numbered by their place among the received ones.
AdaptedBatch(received) ==
  LET Adapts(k) == Rejection(received[k]) = "none"
      numbers == SelectSeq([k \in DOMAIN received |-> k], Adapts)
  IN [i \in DOMAIN numbers |->
        [number |-> numbers[i], case |-> AdaptedCase(received[numbers[i]])]]

\* finish: AdaptationRecord, with a count for every code.
AdaptationRecord(received) ==
  LET Count(code) == Cardinality({k \in DOMAIN received : Rejection(received[k]) = code})
      codes == {Rejection(received[k]) : k \in DOMAIN received} \ {"none"}
  IN [kind |-> "AdaptationRecord",
      admission |-> [received |-> Len(received), admitted |-> Count("none"),
                     rejected |-> Len(received) - Count("none")],
      skipReasons |-> [code \in codes |-> Count(code)]]
=============================================================================
