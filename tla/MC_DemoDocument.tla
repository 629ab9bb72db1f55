-------------------------- MODULE MC_DemoDocument --------------------------
(***************************************************************************)
(* The demo document (examples/demo-items/openapi.yaml) as load_openapi    *)
(* normalises it.                                                          *)
(***************************************************************************)
EXTENDS SemanticValidation

Ref(name) == [ref |-> name]
StatusSchema == [type |-> "string", enum |-> {Str("active"), Str("inactive")}]
NameSchema == [type |-> "string", minLength |-> 1]
CategorySchema == [type |-> "string", minLength |-> 1, nullable |-> TRUE]
IntegerFrom(n) == [type |-> "integer", minimum |-> n]
DateTime == [type |-> "string", format |-> "date-time"]
Editable == [name |-> NameSchema, status |-> Ref("ItemStatus"), category |-> CategorySchema]

TheComponents == [
  ItemStatus |-> StatusSchema,
  ItemCreate |-> [type |-> "object", required |-> {"name", "status"}, properties |-> Editable],
  ItemUpdate |-> [type |-> "object", required |-> {}, properties |-> Editable, minProperties |-> 1],
  Item |-> [type |-> "object",
            required |-> {"id", "name", "status", "createdAt", "updatedAt"},
            properties |-> [id |-> IntegerFrom(1), createdAt |-> DateTime, updatedAt |-> DateTime]
                           @@ Editable],
  ItemList |-> [type |-> "object", required |-> {"items", "offset", "limit", "total"},
                properties |-> [items |-> [type |-> "array", items |-> Ref("Item")],
                                offset |-> IntegerFrom(0), limit |-> IntegerFrom(1),
                                total |-> IntegerFrom(0)]],
  Error |-> [type |-> "object", required |-> {"code", "message"},
             properties |-> [code |-> [type |-> "string"], message |-> [type |-> "string"]]]]

Query(name, schema) == [name |-> name, location |-> "query", required |-> FALSE, schema |-> schema]
ItemId == [name |-> "itemId", location |-> "path", required |-> TRUE, schema |-> IntegerFrom(1)]
OnItem(method, bodySchema, status, response) == [
  method |-> method, route |-> <<"items", "itemId">>, parameters |-> {ItemId},
  bodySchema |-> bodySchema, bodyRequired |-> bodySchema # NoSchema,
  responses |-> status :> response @@ 400 :> Ref("Error") @@ 404 :> Ref("Error")]

TheOperations == [
  listItems |-> [method |-> "GET", route |-> <<"items">>,
                 parameters |-> {Query("status", Ref("ItemStatus")), Query("category", NameSchema),
                                 Query("offset", IntegerFrom(0)), Query("limit", IntegerFrom(1))},
                 bodySchema |-> NoSchema, bodyRequired |-> FALSE,
                 responses |-> 200 :> Ref("ItemList") @@ 400 :> Ref("Error")],
  createItem |-> [method |-> "POST", route |-> <<"items">>, parameters |-> {},
                  bodySchema |-> Ref("ItemCreate"), bodyRequired |-> TRUE,
                  responses |-> 201 :> Ref("Item") @@ 400 :> Ref("Error")],
  getItem |-> OnItem("GET", NoSchema, 200, Ref("Item")),
  replaceItem |-> OnItem("PUT", Ref("ItemCreate"), 200, Ref("Item")),
  updateItem |-> OnItem("PATCH", Ref("ItemUpdate"), 200, Ref("Item")),
  deleteItem |-> OnItem("DELETE", NoSchema, 204, NoSchema)]
=============================================================================
