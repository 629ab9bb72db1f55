------------------------- MODULE SemanticValidation -------------------------
(***************************************************************************)
(* What a case must satisfy before it is executed: the structural          *)
(* validators of domain/test_case.py and the semantic ones of              *)
(* validation/semantic_validator.py, as the set of issue codes they report *)
(* for a case. Steps are named by their position in setup, main, cleanup,  *)
(* so step identifiers are unique by construction.                         *)
(***************************************************************************)
EXTENDS ScenarioRelations

StepsOf(case) == case.setup \o case.main \o case.cleanup
MainEndOf(case) == Len(case.setup) + Len(case.main)

----------------------------------------------------------------------------
(* domain/test_case.py *)

SelectorOperators == {"equals", "not_equals", "exists", "contains", "length_is",
                      "items_unique_by", "greater_than", "matches_pattern"}

\* Assertion.validate_operator_arguments
AssertionIsWellFormed(assertion) ==
  CASE assertion.operator = "status_is"      -> assertion.source = "none" /\ assertion.expected \in 100..599
    [] assertion.operator = "status_in"      -> assertion.source = "none" /\ assertion.expected # {}
    [] assertion.operator = "schema_matches" -> assertion.source = "none"
    [] assertion.operator = "items_unique_by" ->
         assertion.source = "response.body" /\ IsKind(assertion.expected, "pointer")
    [] OTHER ->
         /\ assertion.operator \in SelectorOperators /\ assertion.source # "none"
         /\ (assertion.operator = "exists") <=> (assertion.expected = Missing)
         /\ ~IsReference(assertion.expected) =>
              /\ assertion.operator \in {"length_is", "greater_than"} => IsKind(assertion.expected, "num")
              /\ assertion.operator = "matches_pattern" => IsKind(assertion.expected, "matches")

\* RequestDefinition.validate_negative_intent and RequestStep's distinct variables
StepIsWellFormed(step) ==
  /\ (step.mode = "conformant") <=> (step.violations = {})
  /\ \A i \in DOMAIN step.assertions : AssertionIsWellFormed(step.assertions[i])
  /\ \A i, j \in DOMAIN step.extract :
       step.extract[i].variable = step.extract[j].variable => i = j

\* ScenarioRelation.validate_relation_arguments. An argument that is None is a
\* field the relation does not have; <<>> is the root pointer, which may be given.
HasArguments(relation, arguments) == arguments \subseteq DOMAIN relation

RelationIsWellFormed(relation) ==
  CASE relation.type = "repeated_read_consistency" -> relation.compare # {}
    [] relation.type = "query_parameter_order_invariance" -> HasArguments(relation, {"collection", "key"})
    [] relation.type = "pagination_monotonicity" ->
         HasArguments(relation, {"collection", "key", "mode", "sizeParameter"})
    [] relation.type = "create_read_consistency" -> relation.fieldPairs # {}
    [] relation.type = "update_read_consistency" ->
         relation.fieldPairs # {} /\ (relation.stable # {} => relation.baseline # 0)
    [] relation.type = "delete_read_consistency" -> relation.accepted # {}

\* TestCase: one main step at least; relations refer to setup and main steps.
CaseIsWellFormed(case) ==
  /\ case.main # <<>>
  /\ \A i \in DOMAIN StepsOf(case) : StepIsWellFormed(StepsOf(case)[i])
  /\ \A relation \in case.relations :
       /\ {relation.source, relation.followUp} \subseteq 1..MainEndOf(case)
       /\ relation.baseline \in 0..MainEndOf(case)
       /\ RelationIsWellFormed(relation)

----------------------------------------------------------------------------
(* Requests: _validate_parameter_collection and _validate_request_body *)

Issue(code, holds) == IF holds THEN {code} ELSE {}

\* Parameters as <<location, name, value>>.
Provided(step) ==
  {<<"path", name, step.path[name]>> : name \in DOMAIN step.path}
  \cup {<<"query", step.query[i][1], step.query[i][2]>> : i \in DOMAIN step.query}

Declared(op, given) == {p \in Parameters(op, given[1]) : p.name = given[2]}

\* Known when the case is validated: the configured variables' values.
Static(value, initial) ==
  IF IsReference(value) THEN IF value.var \in DOMAIN initial THEN initial[value.var] ELSE Null
  ELSE value

ParameterIssues(step, initial) ==
  Issue("unknown_parameter", \E given \in Provided(step) : Declared(step.op, given) = {})
  \cup Issue("unsupported_parameter_serialization",
             \E given \in Provided(step) :
               Declared(step.op, given) # {} /\ ~IsScalar(Static(given[3], initial)))

ParameterViolations(step, initial) ==
  UNION {{<<code[1], given[1], given[2]>> :
            code \in UNION {SchemaViolations(given[3], p.schema, given[2]) : p \in Declared(step.op, given)}} :
           given \in {g \in Provided(step) : IsScalar(Static(g[3], initial))}}
  \cup {<<"missing_required", p.location, p.name>> :
          p \in {q \in Operations[step.op].parameters :
                   q.required /\ ~\E given \in Provided(step) :
                                    given[1] = q.location /\ given[2] = q.name}}

BodyIssues(step) ==
  Issue("unexpected_request_body", step.body # Missing /\ Operations[step.op].bodySchema = NoSchema)

BodyViolations(step) ==
  LET op == Operations[step.op]
  IN IF op.bodySchema = NoSchema THEN {}
     ELSE IF step.body = Missing
     THEN IF op.bodyRequired THEN {<<"missing_required", "body", "$body">>} ELSE {}
     ELSE {<<violation[1], "body", violation[2]>> :
             violation \in SchemaViolations(step.body, op.bodySchema, "$body")}

\* _analyze_request_contract: what the request violates.
DetectedViolations(step, initial) == ParameterViolations(step, initial) \cup BodyViolations(step)

\* Mutant: a violation nobody declared is no issue.
CompareDeclared_Lenient(step, detected) ==
  IF step.mode = "conformant" THEN {}
  ELSE Issue("false_expected_violation", ~(step.violations \subseteq detected))

\* _compare_declared_violations
CompareDeclared(step, detected) ==
  IF step.mode = "conformant" THEN Issue("request_schema_violation", detected # {})
  ELSE Issue("false_expected_violation", ~(step.violations \subseteq detected))
       \cup Issue("undeclared_request_violation", ~(detected \subseteq step.violations))

----------------------------------------------------------------------------
(* Responses: _validate_response_contract *)

ExpectedStatuses(step) ==
  UNION {CASE step.assertions[i].operator = "status_is" -> {step.assertions[i].expected}
           [] step.assertions[i].operator = "status_in" -> step.assertions[i].expected
           [] OTHER -> {} : i \in DOMAIN step.assertions}

\* The schemas of the expected statuses or, without any, of success.
CandidateSchemas(step) ==
  LET responses == Operations[step.op].responses
      statuses == IF ExpectedStatuses(step) # {} THEN ExpectedStatuses(step) ELSE 200..299
  IN {responses[status] : status \in statuses \cap DOMAIN responses} \ {NoSchema}

PointerExists(schemas, pointer) ==
  \E schema \in schemas : SchemaAtPointer(schema, pointer) # NoSchema

ResponseIssues(step) ==
  LET schemas == CandidateSchemas(step)
      Asserted == {step.assertions[i] : i \in DOMAIN step.assertions}
      OnBody == {a \in Asserted : a.source = "response.body"}
  IN Issue("undeclared_response_status",
           ~(ExpectedStatuses(step) \subseteq DOMAIN Operations[step.op].responses))
     \cup Issue("missing_response_schema",
                schemas = {} /\ \E a \in Asserted : a.operator = "schema_matches")
     \cup Issue("unknown_response_pointer",
                \/ \E a \in OnBody : ~PointerExists(schemas, a.pointer)
                \/ \E i \in DOMAIN step.extract : ~PointerExists(schemas, step.extract[i].pointer))
     \cup Issue("unknown_collection_item_pointer",
                \E a \in OnBody :
                  /\ a.operator = "items_unique_by" /\ PointerExists(schemas, a.pointer)
                  /\ ~PointerExists(schemas, a.pointer \o <<"0">> \o a.expected.pointer))

----------------------------------------------------------------------------
(* _validate_step *)

AssertionReferences(step) ==
  {step.assertions[i].expected.var :
     i \in {j \in DOMAIN step.assertions :
              step.assertions[j].operator \in SelectorOperators
              /\ IsReference(step.assertions[j].expected)}}

References(step) == RequestReferences(step) \cup AssertionReferences(step)

StepIssues(step, available, initial) ==
  Issue("unknown_variable", ~(References(step) \subseteq available))
  \cup IF step.op \notin OperationIds THEN {"unknown_operation"}
       ELSE ParameterIssues(step, initial) \cup BodyIssues(step)
            \cup CompareDeclared(step, DetectedViolations(step, initial))
            \cup ResponseIssues(step)

----------------------------------------------------------------------------
(* _validate_scenario_relation *)

Method(step) == Operations[step.op].method

MethodsFit(type, source, followUp) ==
  /\ Method(followUp) = "GET"
  /\ Method(source) \in
       CASE type = "create_read_consistency" -> {"POST", "PUT"}
         [] type = "update_read_consistency" -> {"PUT", "PATCH"}
         [] type = "delete_read_consistency" -> {"DELETE"}
         [] OTHER                            -> {"GET"}

PathReferences(step) == UNION {VariableReferences(value) : value \in PathValues(step)}

PathsShareResource(source, followUp) ==
  \/ PathReferences(source) \cap PathReferences(followUp) # {}
  \/ \E name \in DOMAIN source.path \cap DOMAIN followUp.path :
       source.path[name] = followUp.path[name]

RequestOf(step) == <<step.mode, step.violations, step.path, step.query, step.body>>

\* Mutant: a repeated read may have a write between its reads.
RepeatedReadIssues_Intervening(case, relation, source, followUp) ==
  Issue("relation_request_mismatch", RequestOf(source) # RequestOf(followUp))
  \cup Issue("unknown_relation_pointer",
             \E pointer \in relation.compare : \E step \in {source, followUp} :
               ~PointerExists(CandidateSchemas(step), pointer))

RepeatedReadIssues(case, relation, source, followUp) ==
  Issue("relation_request_mismatch", RequestOf(source) # RequestOf(followUp))
  \cup Issue("relation_intervening_mutation",
             \E i \in (relation.source + 1)..(relation.followUp - 1) : ~ReadOnly(StepsOf(case)[i].op))
  \cup Issue("unknown_relation_pointer",
             \E pointer \in relation.compare : \E step \in {source, followUp} :
               ~PointerExists(CandidateSchemas(step), pointer))

CollectionIssues(relation, source, followUp) ==
  Issue("unknown_relation_pointer",
        \E step \in {source, followUp} :
          \/ ~PointerExists(CandidateSchemas(step), relation.collection)
          \/ ~PointerExists(CandidateSchemas(step), relation.collection \o <<"0">> \o relation.key))

QueryOrderIssues(source, followUp) ==
  Issue("relation_query_mismatch", QueryBag(source.query) # QueryBag(followUp.query))
  \cup Issue("relation_query_order_unchanged", source.query = followUp.query)

PaginationIssues(relation, source, followUp) ==
  LET Size(step) == Sizes(step.query, relation.sizeParameter)
  IN Issue("relation_pagination_context_mismatch",
           Context(source.query, relation.sizeParameter) # Context(followUp.query, relation.sizeParameter))
     \cup Issue("relation_pagination_size_invalid",
                \/ Len(Size(source)) # 1 \/ Len(Size(followUp)) # 1
                \/ ~IsKind(Size(source)[1][2], "num") \/ ~IsKind(Size(followUp)[1][2], "num")
                \/ Size(followUp)[1][2].num <= Size(source)[1][2].num)

\* The schemas a field pair's side may have.
LocationSchemas(step, location) ==
  CASE location = "request.body" -> {Operations[step.op].bodySchema} \ {NoSchema}
    [] location = "response.body" -> CandidateSchemas(step)
    [] OTHER -> {}

\* A status is named without a pointer; with one, no schema would have it.
FieldExists(schemas, location, pointer) ==
  location = "response.status" \/ PointerExists(schemas, pointer)

TypesAt(schemas, pointer) ==
  {SchemaAtPointer(schema, pointer).type :
     schema \in {s \in schemas : SchemaAtPointer(s, pointer) # NoSchema}}

\* Integers and numbers are compatible.
TypesCompatible(left, right) ==
  left = {} \/ right = {} \/ left \cap right # {}
  \/ \E l \in left, r \in right : {l, r} = {"integer", "number"}

FieldPairIssues(relation, source, followUp) ==
  UNION {LET left == LocationSchemas(source, pair[1])
             right == LocationSchemas(followUp, pair[3])
         IN Issue("unknown_relation_pointer",
                  \/ ~FieldExists(left, pair[1], pair[2])
                  \/ ~FieldExists(right, pair[3], pair[4]))
            \cup Issue("relation_field_type_mismatch",
                       ~TypesCompatible(TypesAt(left, pair[2]), TypesAt(right, pair[4]))) :
           pair \in relation.fieldPairs}

BaselineIssues(case, relation, followUp) ==
  LET baseline == IF relation.baseline = 0 THEN {}
                  ELSE CandidateSchemas(StepsOf(case)[relation.baseline])
      follow == CandidateSchemas(followUp)
  IN Issue("relation_baseline_order_invalid", relation.baseline >= relation.source)
     \cup UNION {Issue("unknown_relation_pointer",
                       ~PointerExists(baseline, pointer) \/ ~PointerExists(follow, pointer))
                 \cup Issue("relation_field_type_mismatch",
                            ~TypesCompatible(TypesAt(baseline, pointer), TypesAt(follow, pointer))) :
                   pointer \in relation.stable}

DeleteIssues(relation, source, followUp) ==
  Issue("relation_delete_success_unasserted", ExpectedStatuses(source) \cap 200..299 = {})
  \cup Issue("undeclared_relation_status",
             ~(relation.accepted \subseteq DOMAIN Operations[followUp.op].responses))

LinkIssues(relation, source, followUp) ==
  LET extracted == {source.extract[i].variable : i \in DOMAIN source.extract}
  IN Issue("relation_resource_not_linked",
           IF relation.type = "create_read_consistency"
           THEN extracted \cap PathReferences(followUp) = {}
           ELSE ~PathsShareResource(source, followUp))

TypeIssues(case, relation, source, followUp) ==
  CASE relation.type = "repeated_read_consistency" -> RepeatedReadIssues(case, relation, source, followUp)
    [] relation.type = "query_parameter_order_invariance" ->
         QueryOrderIssues(source, followUp) \cup CollectionIssues(relation, source, followUp)
    [] relation.type = "pagination_monotonicity" ->
         PaginationIssues(relation, source, followUp) \cup CollectionIssues(relation, source, followUp)
    [] relation.type = "create_read_consistency" ->
         FieldPairIssues(relation, source, followUp) \cup LinkIssues(relation, source, followUp)
    [] relation.type = "update_read_consistency" ->
         FieldPairIssues(relation, source, followUp) \cup LinkIssues(relation, source, followUp)
         \cup BaselineIssues(case, relation, followUp)
    [] relation.type = "delete_read_consistency" ->
         DeleteIssues(relation, source, followUp) \cup LinkIssues(relation, source, followUp)

RelationIssues(case, relation) ==
  LET source == StepsOf(case)[relation.source]
      followUp == StepsOf(case)[relation.followUp]
  IN Issue("relation_step_order_invalid", relation.source >= relation.followUp)
     \cup Issue("relation_method_mismatch", ~MethodsFit(relation.type, source, followUp))
     \cup Issue("relation_operation_mismatch", IsMetamorphic(relation) /\ source.op # followUp.op)
     \cup TypeIssues(case, relation, source, followUp)

----------------------------------------------------------------------------
(* _validate_scenario: a variable is available from the step after the one *)
(* that extracts it, whether or not that step comes to run.                *)

AvailableAt(case, k, initial) ==
  DOMAIN initial
  \cup UNION {{StepsOf(case)[j].extract[i].variable : i \in DOMAIN StepsOf(case)[j].extract} : j \in 1..(k - 1)}

StepsIssues(case, initial) ==
  UNION {StepIssues(StepsOf(case)[k], AvailableAt(case, k, initial), initial) : k \in DOMAIN StepsOf(case)}

\* A relation of a step with an unknown operation is passed over; the case has
\* an issue in any event.
CaseIssues(case, initial) ==
  LET fromSteps == StepsIssues(case, initial)
  IN IF "unknown_operation" \in fromSteps THEN fromSteps
     ELSE fromSteps \cup UNION {RelationIssues(case, relation) : relation \in case.relations}

Admissible(case, initial) == CaseIsWellFormed(case) /\ CaseIssues(case, initial) = {}
=============================================================================
