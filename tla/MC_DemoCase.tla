---------------------------- MODULE MC_DemoCase ----------------------------
(***************************************************************************)
(* The catalogue of faults with further ones for the outcomes the          *)
(* catalogue never meets, and a menu of cases over the demo document: for  *)
(* every relation its steps with any one step between them, and every      *)
(* step on its own.                                                        *)
(***************************************************************************)
EXTENDS DemoCase, MC_DemoDocument

----------------------------------------------------------------------------
(* Steps *)

StatusIs(status) == [operator |-> "status_is", source |-> "none", pointer |-> <<>>, expected |-> status]
StatusIn(statuses) == [operator |-> "status_in", source |-> "none", pointer |-> <<>>, expected |-> statuses]
SchemaMatches == [operator |-> "schema_matches", source |-> "none", pointer |-> <<>>, expected |-> Missing]
UniqueIds == [operator |-> "items_unique_by", source |-> "response.body", pointer |-> <<"items">>,
              expected |-> [pointer |-> <<"id">>]]
Body(operator, pointer, expected) ==
  [operator |-> operator, source |-> "response.body", pointer |-> pointer, expected |-> expected]

Extract(variable, pointer, required) == [variable |-> variable, pointer |-> pointer, required |-> required]

NoPath == <<>>
OwnItem == [itemId |-> Var("id")]
Step(op, path, query, body, assertions) == [
  op |-> op, mode |-> "conformant", violations |-> {}, path |-> path, query |-> query,
  body |-> body, extract |-> <<>>, assertions |-> assertions]
Invalid(step, violation) == [step EXCEPT !.mode = "intentionally_invalid", !.violations = {violation}]

Fields(name, status) == Obj([name |-> Str(name), status |-> Str(status)])

Create == [Step("createItem", NoPath, <<>>, Fields("a", "active"), <<StatusIs(201), SchemaMatches>>)
             EXCEPT !.extract = <<Extract("id", <<"id">>, TRUE)>>]
CreateMore == Step("createItem", NoPath, <<>>, Obj([name |-> Str("b"), status |-> Str("active"), category |-> Str("c")]),
                   <<StatusIs(201), SchemaMatches, Body("equals", <<"category">>, Str("c"))>>)
Get == Step("getItem", OwnItem, <<>>, Missing,
            <<StatusIs(200), SchemaMatches, Body("equals", <<"id">>, Var("id"))>>)
GetWeakly == Step("getItem", OwnItem, <<>>, Missing, <<StatusIs(200)>>)
GetMaybe == Step("getItem", OwnItem, <<>>, Missing, <<StatusIn({200, 404}), SchemaMatches>>)
GetFirst == [Step("getItem", [itemId |-> Num(1)], <<>>, Missing, <<StatusIn({200, 404})>>)
               EXCEPT !.extract = <<Extract("seen", <<"id">>, FALSE)>>]
GetSeen == Step("getItem", [itemId |-> Var("seen")], <<>>, Missing, <<StatusIs(200)>>)
Replace == Step("replaceItem", OwnItem, <<>>, Fields("b", "inactive"), <<StatusIs(200), SchemaMatches>>)
Update == Step("updateItem", OwnItem, <<>>, Obj([status |-> Str("inactive")]), <<StatusIs(200), SchemaMatches>>)
Delete == Step("deleteItem", OwnItem, <<>>, Missing, <<StatusIs(204)>>)
DeleteMaybe == Step("deleteItem", OwnItem, <<>>, Missing, <<StatusIn({204, 404})>>)
List(query) == Step("listItems", NoPath, query, Missing, <<StatusIs(200), SchemaMatches, UniqueIds>>)
ListWeakly == Step("listItems", NoPath, <<>>, Missing, <<StatusIs(200), SchemaMatches>>)
Limit(n) == <<"limit", Num(n)>>
Active == <<"status", Str("active")>>
Inactive == <<"status", Str("inactive")>>

NoSuchType == Invalid(Step("getItem", [itemId |-> Str("x")], <<>>, Missing, <<StatusIs(400)>>),
                      <<"type_mismatch", "path", "itemId">>)
LimitZero == Invalid(Step("listItems", NoPath, <<Limit(0)>>, Missing, <<StatusIs(400)>>),
                     <<"out_of_range", "query", "limit">>)
LimitText == Invalid(Step("listItems", NoPath, <<<<"limit", Str("2")>>>>, Missing, <<StatusIs(400)>>),
                     <<"type_mismatch", "query", "limit">>)
NoName == Invalid(Step("createItem", NoPath, <<>>, Obj([status |-> Str("active")]), <<StatusIs(400)>>),
                  <<"missing_required", "body", "name">>)
NoItemId == Invalid(Step("getItem", NoPath, <<>>, Missing, <<StatusIs(400)>>),
                    <<"missing_required", "path", "itemId">>)
NotDeclared == Step("getItem", NoPath, <<>>, Missing, <<StatusIs(400)>>)

Menu == [
  get |-> Get, getWeakly |-> GetWeakly, getMaybe |-> GetMaybe, getFirst |-> GetFirst,
  replace |-> Replace, update |-> Update, delete |-> DeleteMaybe, create |-> CreateMore,
  list |-> ListWeakly, noSuchType |-> NoSuchType, limitZero |-> LimitZero, limitText |-> LimitText,
  noName |-> NoName, noItemId |-> NoItemId, notDeclared |-> NotDeclared]

\* Cleanup that cannot fail the case around cleanup that can.
CleanupStep(step, when, ignoreErrors) == [when |-> when, ignoreErrors |-> ignoreErrors] @@ step
TheCleanup == <<CleanupStep(Delete, "always", TRUE),
                CleanupStep(GetMaybe, "on_success", FALSE),
                CleanupStep(DeleteMaybe, "on_failure", TRUE)>>

----------------------------------------------------------------------------
(* Relations, by the position of their steps *)

Relation(type, source, followUp) == [
  type |-> type, source |-> source, followUp |-> followUp, baseline |-> 0, compare |-> {},
  ignore |-> <<>>, collection |-> <<"items">>, key |-> <<"id">>, mode |-> "subset",
  sizeParameter |-> "limit", fieldPairs |-> {}, stable |-> {}, accepted |-> {}]

\* A relation that leaves an argument out.
LeavingOut(argument, relation) == [field \in DOMAIN relation \ {argument} |-> relation[field]]

Pair(location, pointer) == <<location, pointer, "response.body", pointer>>

\* A relation whose last step has position n + 1, and the main steps it starts
\* from and ends with.
Template(relation, first, last) == [relation |-> relation, first |-> first, last |-> last]

Templates(n) == [
  repeatedFields |->
    Template([Relation("repeated_read_consistency", 2, n + 1) EXCEPT !.compare = {<<"name">>, <<"status">>}],
             <<Get>>, Get),
  repeatedWhole |->
    Template([Relation("repeated_read_consistency", 2, n + 1)
                EXCEPT !.compare = {<<>>}, !.ignore = <<<<"updatedAt">>, <<"status">>>>],
             <<Get>>, Get),
  repeatedList |->
    Template([Relation("repeated_read_consistency", 2, n + 1)
                EXCEPT !.compare = {<<"items">>}, !.ignore = <<<<"items", "0">>>>],
             <<List(<<>>)>>, List(<<>>)),
  queryOrder |->
    Template(Relation("query_parameter_order_invariance", 2, n + 1),
             <<List(<<Active, Limit(2)>>)>>, List(<<Limit(2), Active>>)),
  queryTwice |->
    Template(Relation("query_parameter_order_invariance", 2, n + 1),
             <<List(<<Active, Inactive>>)>>, List(<<Inactive, Active>>)),
  \* Whole items as keys.
  queryItems |->
    Template([Relation("query_parameter_order_invariance", 2, n + 1) EXCEPT !.key = <<>>],
             <<List(<<Active, Limit(2)>>)>>, List(<<Limit(2), Active>>)),
  pageSubset |->
    Template(Relation("pagination_monotonicity", 2, n + 1), <<List(<<Limit(1)>>)>>, List(<<Limit(2)>>)),
  pagePrefix |->
    Template([Relation("pagination_monotonicity", 2, n + 1) EXCEPT !.mode = "prefix"],
             <<List(<<Active, Limit(1)>>)>>, List(<<Active, Limit(2)>>)),
  createRead |->
    Template([Relation("create_read_consistency", 1, n + 1)
                EXCEPT !.fieldPairs = {Pair("request.body", <<"name">>), Pair("response.body", <<"createdAt">>)}],
             <<>>, Get),
  updateRead |->
    Template([Relation("update_read_consistency", 3, n + 1)
                EXCEPT !.baseline = 2, !.stable = {<<"name">>, <<"createdAt">>},
                       !.fieldPairs = {Pair("request.body", <<"status">>)}],
             <<GetMaybe, Update>>, Get),
  deleteRead |->
    Template([Relation("delete_read_consistency", 2, n + 1) EXCEPT !.accepted = {404}],
             <<Delete>>, GetMaybe),
  deleteGone |->
    Template([Relation("delete_read_consistency", 2, n + 1) EXCEPT !.accepted = {200}],
             <<Delete>>, GetMaybe)]

Case(main, relations) ==
  [setup |-> <<Create>>, main |-> main, cleanup |-> TheCleanup, relations |-> relations]

Related == DOMAIN Templates(0)

\* The template with the given steps before its last.
WithSteps(name, steps) ==
  LET before == 1 + Len(Templates(0)[name].first) + Len(steps)
      template == Templates(before)[name]
  IN Case(template.first \o steps \o <<template.last>>, {template.relation})

Single == {Menu[name] : name \in DOMAIN Menu}

TheCases ==
  {Case(<<step>>, {}) : step \in Single}
  \cup {Case(<<GetFirst, GetSeen>>, {})}
  \cup {WithSteps(name, <<>>) : name \in Related}
  \cup {[WithSteps(name, <<>>) EXCEPT !.relations = {LeavingOut(argument, relation) : relation \in @}] :
          <<name, argument>> \in {<<"queryOrder", "collection">>, <<"queryItems", "key">>,
                                 <<"pageSubset", "mode">>, <<"pagePrefix", "sizeParameter">>}}
  \cup {WithSteps(name, <<step>>) : name \in Related, step \in Single}

----------------------------------------------------------------------------
(* Earlier requests and faults *)

Earlier(method, path, body) == [method |-> method, path |-> path, query |-> <<>>, body |-> body]
Post == Earlier("POST", <<"items">>, Fields("b", "active"))
ThePreludes == {<<>>, <<Post>>, <<Post, Earlier("DELETE", <<"items", "1">>, Missing)>>}

ItemPaths == {<<"items", Digits[n]>> : n \in 0..9}
Definition(method, paths, statuses, mutation) ==
  [method |-> method, paths |-> paths, statuses |-> statuses, media |-> "json", mutation |-> mutation]
OnGet(mutation) == Definition("GET", ItemPaths, {200}, mutation)
OnList(mutation) == Definition("GET", {<<"items">>}, {200}, mutation)
ReplaceValue(pointer, value) == [type |-> "replace_json_value", pointer |-> pointer, value |-> value]
RemoveValue(pointer) == [type |-> "remove_json_value", pointer |-> pointer]
Duplicate(pointer, index) == [type |-> "duplicate_json_array_item", pointer |-> pointer, index |-> index]

CatalogFaults ==
  "get-id-as-string" :> OnGet(ReplaceValue(<<"id">>, Str("invalid-id")))
  @@ "get-missing-name" :> OnGet(RemoveValue(<<"name">>))
  @@ "get-status-error" :> OnGet([type |-> "replace_status", status |-> 500])
  @@ "list-duplicate-first-item" :> OnList(Duplicate(<<"items">>, 0))

OtherFaults ==
  "create-id" :> Definition("POST", {<<"items">>}, {201}, ReplaceValue(<<"id">>, Str("x")))
  @@ "status-active" :> OnGet(ReplaceValue(<<"status">>, Str("active")))
  @@ "list-remove-first" :> OnList(RemoveValue(<<"items", "0">>))
  @@ "list-duplicate-total" :> OnList(Duplicate(<<"total">>, 0))
  @@ "list-duplicate-third" :> OnList(Duplicate(<<"items">>, 2))
  @@ "get-null" :> OnGet(ReplaceValue(<<>>, Null))
  @@ "delete-body" :> [Definition("DELETE", ItemPaths, {}, RemoveValue(<<"id">>)) EXCEPT !.media = "any"]

TheCatalog == DOMAIN CatalogFaults
TheFaults == CatalogFaults @@ OtherFaults
=============================================================================
