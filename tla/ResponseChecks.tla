--------------------------- MODULE ResponseChecks ---------------------------
(***************************************************************************)
(* What the runner makes of one response: how the body is read             *)
(* (execution/response_parser.py, response_processor.py), values selected  *)
(* from it (response_selection.py), assertions and extractions             *)
(* (assertions.py, extractions.py). A check that cannot be applied has no  *)
(* verdict and is an error, never a failure.                               *)
(***************************************************************************)
EXTENDS SchemaValues

Garbled == [garbled |-> TRUE]          \* declared JSON that does not parse
Unselectable == [unselectable |-> TRUE]  \* ResponseSelectionError

BodyKind(response) ==
  IF response.body = Missing THEN "empty"
  ELSE IF response.media = "json" THEN "json"
  ELSE "binary"

ParseFails(response) == BodyKind(response) = "json" /\ response.body = Garbled

\* select_response_value: a value, Missing or Unselectable.
SelectResponse(response, source, pointer) ==
  IF source = "response.status" THEN Num(response.status)
  ELSE IF ParseFails(response) \/ BodyKind(response) = "binary" THEN Unselectable
  ELSE IF BodyKind(response) = "empty" THEN Missing
  ELSE Select(response.body, pointer)

----------------------------------------------------------------------------
(* _evaluate_predicate and what it rests on: "passed", "failed", "error" *)

Verdict(holds) == IF holds THEN "passed" ELSE "failed"

JsonLength(value) ==
  CASE IsKind(value, "arr") -> Len(value.arr)
    [] IsKind(value, "obj") -> Cardinality(DOMAIN value.obj)
    [] IsKind(value, "str") -> Len(value.str)

\* _json_contains: an object contains every partial object of it.
JsonContains(actual, expected) ==
  LET contains[a \in Parts(actual), e \in Parts(expected)] ==
        IF IsKind(e, "obj")
        THEN /\ IsKind(a, "obj")
             /\ \A name \in DOMAIN e.obj : name \in DOMAIN a.obj /\ contains[a.obj[name], e.obj[name]]
        ELSE a = e
  IN contains[actual, expected]

\* Strings are names here: one contains another only if they are equal.
ContainsValue(actual, expected) ==
  CASE IsKind(actual, "str") ->
         IF IsKind(expected, "str") THEN Verdict(actual = expected) ELSE "error"
    [] IsKind(actual, "arr") ->
         Verdict(\E i \in DOMAIN actual.arr : JsonContains(actual.arr[i], expected))
    [] IsKind(actual, "obj") ->
         IF IsKind(expected, "str") THEN Verdict(expected.str \in DOMAIN actual.obj)
         ELSE IF IsKind(expected, "obj") THEN Verdict(JsonContains(actual, expected))
         ELSE "error"
    [] OTHER -> "error"

\* Items are looked at in order: a repeated key decides unless an item
\* before it lacks the key.
ItemsUniqueBy(actual, pointer) ==
  IF ~IsKind(actual, "arr") THEN "error"
  ELSE LET Key(i) == Select(actual.arr[i], pointer)
           decisive == {i \in DOMAIN actual.arr :
                          Key(i) = Missing \/ \E j \in 1..(i - 1) : Key(j) = Key(i)}
       IN IF decisive = {} THEN "passed"
          ELSE LET first == CHOOSE i \in decisive : \A j \in decisive : i <= j
               IN IF Key(first) = Missing THEN "error" ELSE "failed"

\* A pattern is given by the strings it matches, a pointer by its tokens.
Predicate(operator, actual, expected) ==
  CASE operator = "exists"          -> "passed"
    [] operator = "equals"          -> Verdict(actual = expected)
    [] operator = "not_equals"      -> Verdict(actual # expected)
    [] operator = "contains"        -> ContainsValue(actual, expected)
    [] operator = "length_is"       ->
         IF IsKind(expected, "num") /\ (\E kind \in {"arr", "obj", "str"} : IsKind(actual, kind))
         THEN Verdict(JsonLength(actual) = expected.num) ELSE "error"
    [] operator = "items_unique_by" -> ItemsUniqueBy(actual, expected.pointer)
    [] operator = "greater_than"    ->
         IF IsKind(expected, "num") /\ IsKind(actual, "num")
         THEN Verdict(actual.num > expected.num) ELSE "error"
    [] operator = "matches_pattern" ->
         IF IsKind(actual, "str") THEN Verdict(actual.str \in expected.matches) ELSE "error"

----------------------------------------------------------------------------
(* execute_assertions *)

\* _contract_assertion_issues: contract issues, or else a body that cannot
\* be parsed.
ContractFails(response, hasIssues) == hasIssues \/ ParseFails(response)

\* Only an expected value may refer to a variable here.
ExpectedValue(assertion, scope) ==
  IF IsReference(assertion.expected)
  THEN IF assertion.expected.var \in DOMAIN scope THEN scope[assertion.expected.var]
       ELSE Unselectable
  ELSE assertion.expected

ExecuteAssertion(assertion, response, hasIssues, scope) ==
  CASE assertion.operator = "status_is" -> Verdict(response.status = assertion.expected)
    [] assertion.operator = "status_in" -> Verdict(response.status \in assertion.expected)
    [] assertion.operator = "schema_matches" -> Verdict(~ContractFails(response, hasIssues))
    [] OTHER ->
         LET expected == ExpectedValue(assertion, scope)
             actual == SelectResponse(response, assertion.source, assertion.pointer)
         IN IF Unselectable \in {expected, actual} THEN "error"
            ELSE IF actual = Missing THEN "failed"
            ELSE Predicate(assertion.operator, actual, expected)

Verdicts(assertions, response, hasIssues, scope) ==
  {ExecuteAssertion(assertions[i], response, hasIssues, scope) : i \in DOMAIN assertions}

----------------------------------------------------------------------------
(* execute_extractions *)

Selected(extraction, response) == SelectResponse(response, "response.body", extraction.pointer)

ExtractionStatus(extraction, response) ==
  CASE Selected(extraction, response) = Unselectable -> "error"
    [] Selected(extraction, response) = Missing      -> "missing"
    [] OTHER                                         -> "extracted"

\* The values that enter the scope: variable -> value. A step's variables
\* are distinct.
Extracted(extract, response) ==
  LET found == {i \in DOMAIN extract : ExtractionStatus(extract[i], response) = "extracted"}
  IN [v \in {extract[i].variable : i \in found} |->
        Selected(extract[CHOOSE i \in found : extract[i].variable = v], response)]

StepFails(step, response, hasIssues, scope) ==
  \/ "failed" \in Verdicts(step.assertions, response, hasIssues, scope)
  \/ \E i \in DOMAIN step.extract :
       step.extract[i].required /\ ExtractionStatus(step.extract[i], response) = "missing"

StepErrs(step, response, hasIssues, scope) ==
  \/ "error" \in Verdicts(step.assertions, response, hasIssues, scope)
  \/ \E i \in DOMAIN step.extract : ExtractionStatus(step.extract[i], response) = "error"
=============================================================================
