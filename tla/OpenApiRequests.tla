--------------------------- MODULE OpenApiRequests ---------------------------
(***************************************************************************)
(* A declared step turned into a request (execution/request_builder.py)    *)
(* and an exchange held against the OpenAPI contract                       *)
(* (execution/openapi_validation.py, which leaves the work to              *)
(* openapi-core). No header is a parameter of the demo document, so        *)
(* headers are left out.                                                   *)
(***************************************************************************)
EXTENDS SchemaValues

(***************************************************************************)
(* The operations load_openapi normalises, by operationId: method, route   *)
(* (template with the placeholder last, if any), parameters, body and      *)
(* responses. Responses without a body have NoSchema.                      *)
(***************************************************************************)
CONSTANT Operations

OperationIds == DOMAIN Operations
Parameters(op, location) == {p \in Operations[op].parameters : p.location = location}
Placeholders(op) == {p.name : p \in Parameters(op, "path")}
ReadOnly(op) == Operations[op].method = "GET"

----------------------------------------------------------------------------
(* build_request *)

BuildError == [buildError |-> TRUE]
IsBuilt(request) == "buildError" \notin DOMAIN request

\* A value that may be a variable, once its variables are known.
Lookup(value, scope) == IF IsReference(value) THEN scope[value.var] ELSE value

\* _resolve_runtime_value: the value with every variable in it looked up.
Resolve(value, scope) ==
  LET resolved[part \in Parts(value)] ==
        IF IsKind(part, "obj") THEN Obj([name \in DOMAIN part.obj |-> resolved[part.obj[name]]])
        ELSE IF IsKind(part, "arr") THEN Arr([i \in DOMAIN part.arr |-> resolved[part.arr[i]]])
        ELSE Lookup(part, scope)
  IN resolved[value]

PathValues(step) == {step.path[name] : name \in DOMAIN step.path}
QueryValues(step) == {step.query[i][2] : i \in DOMAIN step.query}
RequestReferences(step) ==
  UNION {VariableReferences(value) : value \in PathValues(step) \cup QueryValues(step) \cup {step.body}}

\* Parameters are scalars, once looked up.
Serializable(step, scope) ==
  \A value \in PathValues(step) \cup QueryValues(step) : IsScalar(Lookup(value, scope))

\* Unknown variables, then the placeholders of the route, then serialization.
Build(step, scope) ==
  IF ~(RequestReferences(step) \subseteq DOMAIN scope) THEN BuildError
  ELSE IF DOMAIN step.path # Placeholders(step.op) THEN BuildError
  ELSE IF ~Serializable(step, scope) THEN BuildError
  ELSE LET texts == [name \in DOMAIN step.path |-> Text(Lookup(step.path[name], scope))]
           route == Operations[step.op].route
       IN [op |-> step.op, method |-> Operations[step.op].method,
           path |-> [i \in DOMAIN route |-> IF route[i] \in DOMAIN texts THEN texts[route[i]] ELSE route[i]],
           pathTexts |-> texts,
           query |-> [i \in DOMAIN step.query |->
                        <<step.query[i][1], Text(Lookup(step.query[i][2], scope))>>],
           body |-> Resolve(step.body, scope)]

----------------------------------------------------------------------------
(* OpenAPIContractValidator *)

\* openapi-core casts the text of a parameter to the type of its schema.
Cast(text, schemaOrRef) ==
  LET schema == ResolveSchema(schemaOrRef)
  IN IF "type" \in DOMAIN schema /\ schema.type = "integer" /\ IsNumeral(text)
     THEN Num(Numeral(text)) ELSE Str(text)

TextViolates(text, schema) == SchemaViolations(Cast(text, schema), schema, "") # {}

ParameterViolated(request, p) ==
  IF p.location = "path" THEN TextViolates(request.pathTexts[p.name], p.schema)
  ELSE LET given == {i \in DOMAIN request.query : request.query[i][1] = p.name}
       IN \/ p.required /\ given = {}
          \/ \E i \in given : TextViolates(request.query[i][2], p.schema)

BodyViolated(request) ==
  LET op == Operations[request.op]
  IN IF request.body = Missing THEN op.bodyRequired
     ELSE op.bodySchema # NoSchema /\ SchemaViolations(request.body, op.bodySchema, "$body") # {}

RequestHasIssues(request) ==
  \/ \E p \in Operations[request.op].parameters : ParameterViolated(request, p)
  \/ BodyViolated(request)

\* Mutant: the body of a declared response is not looked at.
ResponseHasIssues_StatusOnly(request, response) ==
  response.status \notin DOMAIN Operations[request.op].responses

\* The declared responses are exact statuses: no ranges, no default.
ResponseHasIssues(request, response) ==
  LET responses == Operations[request.op].responses
  IN \/ response.status \notin DOMAIN responses
     \/ /\ responses[response.status] # NoSchema
        /\ \/ response.media # "json"
           \/ response.body \in {Missing, [garbled |-> TRUE]}
           \/ SchemaViolations(response.body, responses[response.status], "$body") # {}
==============================================================================
