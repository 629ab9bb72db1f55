---------------------------- MODULE SchemaValues ----------------------------
(***************************************************************************)
(* Values held against the schemas of an OpenAPI document                  *)
(* (validation/schema_values.py), for the keywords the demo document uses. *)
(* A schema is a record of its keywords; $ref names a component.           *)
(***************************************************************************)
EXTENDS JsonValues, FiniteSets

CONSTANT Components   \* components.schemas of the document: name -> schema

NoSchema == [absent |-> TRUE]

IsReference(value) == IsKind(value, "var")

VariableReferences(value) == {part.var : part \in {p \in Parts(value) : IsReference(p)}}

\* _resolve_schema; the references of the demo document do not form cycles.
ResolveSchema(schema) ==
  IF "ref" \in DOMAIN schema THEN Components[schema.ref] ELSE schema

JsonType(value) ==
  CASE IsKind(value, "null") -> "null"
    [] IsKind(value, "num")  -> "integer"
    [] IsString(value)       -> "string"
    [] IsKind(value, "arr")  -> "array"
    [] OTHER                 -> "object"

TypeMatches(value, schema) ==
  \/ "type" \notin DOMAIN schema
  \/ JsonType(value) = schema.type
  \/ JsonType(value) = "integer" /\ schema.type = "number"
  \/ value = Null /\ "nullable" \in DOMAIN schema

\* What a keyword other than type has to say of a scalar.
ScalarViolations(value, schema) ==
  {code \in {"invalid_enum", "out_of_range", "invalid_format"} :
     \/ code = "invalid_enum" /\ "enum" \in DOMAIN schema /\ value \notin schema.enum
     \/ /\ code = "out_of_range"
        /\ \/ IsKind(value, "num") /\ "minimum" \in DOMAIN schema /\ value.num < schema.minimum
           \/ IsKind(value, "num") /\ "maximum" \in DOMAIN schema /\ value.num > schema.maximum
           \/ IsKind(value, "str") /\ "minLength" \in DOMAIN schema /\ Len(value.str) < schema.minLength
     \/ code = "invalid_format" /\ IsKind(value, "str") /\ "format" \in DOMAIN schema}

\* A value and the schema it is held against, under the name it has there.
At(value, schemaOrRef, field) ==
  [value |-> value, schema |-> ResolveSchema(schemaOrRef), field |-> field]

Properties(schema) == IF "properties" \in DOMAIN schema THEN schema.properties ELSE <<>>

InnerPlaces(place) ==
  LET value == place.value
      properties == Properties(place.schema)
  IN IF IsKind(value, "obj")
     THEN {At(value.obj[name], properties[name], name) : name \in DOMAIN value.obj \cap DOMAIN properties}
     ELSE IF IsKind(value, "arr") /\ "items" \in DOMAIN place.schema
     THEN {At(value.arr[i], place.schema.items, ToString(i - 1)) : i \in DOMAIN value.arr}
     ELSE {}

FieldViolations(value, schema, field) ==
  LET names == DOMAIN value.obj
      properties == Properties(schema)
  IN IF ~IsKind(value, "obj") \/ DOMAIN properties = {} THEN {}
     ELSE {<<"missing_required", name>> : name \in schema.required \ names}
          \cup {<<"additional_property", name>> : name \in names \ DOMAIN properties}
          \cup (IF "minProperties" \in DOMAIN schema /\ Cardinality(names) < schema.minProperties
                THEN {<<"out_of_range", field>>} ELSE {})

PlaceViolations(place) ==
  IF IsReference(place.value) THEN {}
  ELSE (IF TypeMatches(place.value, place.schema) THEN {} ELSE {<<"type_mismatch", place.field>>})
       \cup {<<code, place.field>> : code \in ScalarViolations(place.value, place.schema)}
       \cup FieldViolations(place.value, place.schema, place.field)

(***************************************************************************)
(* validate_schema_value: the violations as <<code, field>>. A variable    *)
(* reference is not decided before it is resolved: an error at its place   *)
(* is ignored.                                                             *)
(***************************************************************************)
SchemaViolations(value, schemaOrRef, field) ==
  UNION {PlaceViolations(place) : place \in Nested(At(value, schemaOrRef, field), InnerPlaces)}

\* _schema_at_tokens for a schema without allOf, oneOf and anyOf.
SchemaChild(schemaOrRef, token) ==
  LET schema == ResolveSchema(schemaOrRef)
  IN IF "properties" \in DOMAIN schema /\ token \in DOMAIN schema.properties
     THEN ResolveSchema(schema.properties[token])
     ELSE IF "items" \in DOMAIN schema /\ IsNumeral(token) THEN ResolveSchema(schema.items)
     ELSE NoSchema

SchemaAtPointer(schema, pointer) ==
  ResolveSchema(FoldLeft(SchemaChild, schema, pointer))
=============================================================================
