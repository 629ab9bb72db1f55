-------------------------- MODULE ScenarioRelations --------------------------
(***************************************************************************)
(* The relations of a case over the steps that were executed               *)
(* (execution/scenario_relations.py, metamorphic_relations.py,             *)
(* lifecycle_relations.py, relation_values.py): is the relation applicable *)
(* to the requests as they were sent, can its values be selected, and do   *)
(* they agree. An execution is a record with                               *)
(*   executed   the step was run and not skipped                           *)
(*   request    the prepared request, or BuildError                        *)
(*   response   what was received, or NoResponse                           *)
(*   extracted  the values it put into the scope                           *)
(***************************************************************************)
EXTENDS OpenApiRequests, ResponseChecks

NoResponse == [noResponse |-> TRUE]

IsMetamorphic(relation) ==
  relation.type \in {"repeated_read_consistency", "query_parameter_order_invariance",
                     "pagination_monotonicity"}

----------------------------------------------------------------------------
(* select_relation_value: a value, or Unselectable where it is missing, the *)
(* response is unavailable or the selection fails.                          *)

SelectRelationValue(execution, location, pointer) ==
  LET value ==
        IF location = "request.body"
        THEN IF IsBuilt(execution.request) /\ execution.request.body \notin {Missing, Null}
             THEN Select(execution.request.body, pointer) ELSE Missing
        ELSE IF execution.response = NoResponse THEN Missing
        ELSE SelectResponse(execution.response, location, pointer)
  IN IF value = Missing THEN Unselectable ELSE value

BodyValue(execution, pointer) == SelectRelationValue(execution, "response.body", pointer)

\* A comparison is without verdict, false or true.
Compare(left, right) ==
  IF Unselectable \in {left, right} THEN "error" ELSE Verdict(left = right)

\* The first error ends the evaluation; without one, any failure counts.
RelationVerdict(comparisons) ==
  IF "error" \in comparisons THEN "error"
  ELSE IF "failed" \in comparisons THEN "failed" ELSE "passed"

----------------------------------------------------------------------------
(* Metamorphic relations *)

QueryBag(query) == ToBag(query)
Context(query, size) == ToBag(SelectSeq(query, LAMBDA parameter : parameter[1] # size))
Sizes(query, size) == SelectSeq(query, LAMBDA parameter : parameter[1] = size)

EqualExceptQuery(source, followUp) ==
  /\ source.op = followUp.op /\ source.method = followUp.method
  /\ source.path = followUp.path /\ source.pathTexts = followUp.pathTexts
  /\ source.body = followUp.body

PaginationApplies(source, followUp, size) ==
  /\ Context(source.query, size) = Context(followUp.query, size)
  /\ \A query \in {source.query, followUp.query} :
       Len(Sizes(query, size)) = 1 /\ IsNumeral(Sizes(query, size)[1][2])
  /\ Numeral(Sizes(followUp.query, size)[1][2]) > Numeral(Sizes(source.query, size)[1][2])

MetamorphicApplies(relation, source, followUp) ==
  CASE relation.type = "repeated_read_consistency" -> source = followUp
    [] relation.type = "query_parameter_order_invariance" ->
         /\ EqualExceptQuery(source, followUp)
         /\ QueryBag(source.query) = QueryBag(followUp.query)
         /\ source.query # followUp.query
    [] relation.type = "pagination_monotonicity" ->
         EqualExceptQuery(source, followUp) /\ PaginationApplies(source, followUp, relation.sizeParameter)

\* _normalized_repeated_value: what is compared at pointer, without what is
\* to be ignored below it. An ignored array item keeps its place.
Ignored == [ignored |-> TRUE]
Below(pointer, ignore) == SubSeq(ignore, Len(pointer) + 1, Len(ignore))

RemoveIgnored(value, relative) ==
  IF relative = <<>> \/ Select(value, relative) = Missing THEN value
  ELSE WithSelected(value, relative,
                    IF IsKind(Select(value, Front(relative)), "arr") THEN Ignored ELSE Missing)

Normalized(value, pointer, ignores) ==
  FoldLeft(LAMBDA left, ignore :
             IF IsPrefix(pointer, ignore) THEN RemoveIgnored(left, Below(pointer, ignore)) ELSE left,
           value, ignores)

IsIgnored(pointer, ignores) == \E i \in DOMAIN ignores : IsPrefix(ignores[i], pointer)

RepeatedRead(relation, source, followUp) ==
  LET Value(execution, pointer) ==
        LET value == BodyValue(execution, pointer)
        IN IF value = Unselectable THEN value ELSE Normalized(value, pointer, relation.ignore)
      Comparison(pointer) ==
        IF Unselectable \in {BodyValue(source, pointer), BodyValue(followUp, pointer)} THEN "error"
        ELSE IF IsIgnored(pointer, relation.ignore) THEN "none"
        ELSE Compare(Value(source, pointer), Value(followUp, pointer))
      comparisons == {Comparison(pointer) : pointer \in relation.compare}
  IN IF comparisons \subseteq {"none"} THEN "error" ELSE RelationVerdict(comparisons)

\* _collection_value and _collection_keys: the sequence of item keys.
CollectionKeys(execution, relation) ==
  LET collection == BodyValue(execution, relation.collection)
  IN IF ~IsKind(collection, "arr") THEN Unselectable
     ELSE LET keys == [i \in DOMAIN collection.arr |-> Select(collection.arr[i], relation.key)]
          IN IF Missing \in ToSet(keys) THEN Unselectable ELSE Arr(keys)

SameKeys(left, right) ==
  IF Unselectable \in {left, right} THEN "error" ELSE Verdict(ToSet(left.arr) = ToSet(right.arr))

\* Mutant: the smaller page is held to contain the larger.
PageKeys_Swapped(left, right, mode) ==
  IF Unselectable \in {left, right} THEN "error"
  ELSE Verdict(IF mode = "subset" THEN ToSet(right.arr) \subseteq ToSet(left.arr)
               ELSE IsPrefix(right.arr, left.arr))

PageKeys(left, right, mode) ==
  IF Unselectable \in {left, right} THEN "error"
  ELSE Verdict(IF mode = "subset" THEN ToSet(left.arr) \subseteq ToSet(right.arr)
               ELSE IsPrefix(left.arr, right.arr))

Metamorphic(relation, source, followUp) ==
  IF ~MetamorphicApplies(relation, source.request, followUp.request) THEN "not_applicable"
  ELSE IF relation.type = "repeated_read_consistency" THEN RepeatedRead(relation, source, followUp)
  ELSE LET left == CollectionKeys(source, relation)
           right == CollectionKeys(followUp, relation)
       IN IF relation.type = "pagination_monotonicity"
          THEN PageKeys(left, right, relation.mode) ELSE SameKeys(left, right)

----------------------------------------------------------------------------
(* Lifecycle relations *)

\* The create step's values are compared as the texts paths are made of.
LifecycleApplies(relation, source, followUp) ==
  IF relation.type = "create_read_consistency"
  THEN LET values == {source.extracted[v] : v \in DOMAIN source.extracted}
           texts == {followUp.request.pathTexts[p] : p \in DOMAIN followUp.request.pathTexts}
       IN \E value \in values : IsScalar(value) /\ Text(value) \in texts
  ELSE source.request.path = followUp.request.path

FieldPairs(relation, source, followUp) ==
  {Compare(SelectRelationValue(source, pair[1], pair[2]),
           SelectRelationValue(followUp, pair[3], pair[4])) : pair \in relation.fieldPairs}

Stable(relation, baseline, followUp) ==
  {Compare(BodyValue(baseline, pointer), BodyValue(followUp, pointer)) : pointer \in relation.stable}

DeleteRead(relation, source, followUp) ==
  IF source.response = NoResponse \/ followUp.response = NoResponse THEN "error"
  ELSE IF source.response.status \notin 200..299 THEN "not_applicable"
  ELSE Verdict(followUp.response.status \in relation.accepted)

Lifecycle(relation, source, followUp, executions) ==
  IF ~LifecycleApplies(relation, source, followUp) THEN "not_applicable"
  ELSE CASE relation.type = "delete_read_consistency" -> DeleteRead(relation, source, followUp)
         [] relation.type = "create_read_consistency" ->
              RelationVerdict(FieldPairs(relation, source, followUp))
         [] relation.type = "update_read_consistency" ->
              IF relation.stable = {} THEN RelationVerdict(FieldPairs(relation, source, followUp))
              ELSE IF relation.baseline = 0 \/ ~executions[relation.baseline].executed
              THEN "not_applicable"
              ELSE RelationVerdict(Stable(relation, executions[relation.baseline], followUp)
                                   \cup FieldPairs(relation, source, followUp))

----------------------------------------------------------------------------
\* execute_scenario_relation
EvaluateRelation(relation, executions) ==
  LET source == executions[relation.source]
      followUp == executions[relation.followUp]
  IN IF ~source.executed \/ ~followUp.executed THEN "not_applicable"
     ELSE IF ~IsBuilt(source.request) \/ ~IsBuilt(followUp.request) THEN "error"
     ELSE IF IsMetamorphic(relation) THEN Metamorphic(relation, source, followUp)
     ELSE Lifecycle(relation, source, followUp, executions)
==============================================================================
