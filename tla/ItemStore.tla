------------------------------ MODULE ItemStore ------------------------------
(***************************************************************************)
(* The demo items service (services/demo_items/app.py), the system under   *)
(* test of the benchmark: a locked in-memory store with a logical clock    *)
(* behind six operations. Requests are what arrives over HTTP, so every    *)
(* operation starts by validating its parameters and its body. The price   *)
(* of an item is left out: it is stored and returned as the name is.       *)
(***************************************************************************)
EXTENDS JsonValues

CONSTANT Requests   \* the requests clients may send

VARIABLES
  items,      \* _items: id -> stored item
  nextId,     \* _next_id
  clockTick,  \* _clock_tick
  answer      \* the response to the last request

storeVars == <<items, nextId, clockTick, answer>>

JsonResponse(status, body) == [status |-> status, media |-> "json", body |-> body]
NoContent(status) == [status |-> status, media |-> "none", body |-> Missing]

ErrorBody(code) == Obj([code |-> Str(code), message |-> Str("message")])
NotFound == JsonResponse(404, ErrorBody("not_found"))
BadRequest == JsonResponse(400, ErrorBody("bad_request"))

----------------------------------------------------------------------------
(* Request models *)

Statuses == {"active", "inactive"}
NonEmpty(value) == IsString(value) /\ value # Str("")
IsItemStatus(value) == IsKind(value, "str") /\ value.str \in Statuses

\* A field that is present holds what its model admits.
FieldIsValid(fields, name) ==
  CASE name = "name"     -> NonEmpty(fields[name])
    [] name = "status"   -> IsItemStatus(fields[name])
    [] name = "category" -> NonEmpty(fields[name]) \/ fields[name] = Null
    [] OTHER             -> FALSE

FieldsAreValid(body) ==
  IsKind(body, "obj") /\ \A name \in DOMAIN body.obj : FieldIsValid(body.obj, name)

IsItemCreate(body) == FieldsAreValid(body) /\ {"name", "status"} \subseteq DOMAIN body.obj
IsItemUpdate(body) == FieldsAreValid(body) /\ DOMAIN body.obj # {}

Category(fields) == IF "category" \in DOMAIN fields THEN fields["category"] ELSE Null

\* A query parameter given twice counts with its last value.
Given(query, name) == \E i \in DOMAIN query : query[i][1] = name
Parameter(query, name, default) ==
  IF Given(query, name)
  THEN query[CHOOSE i \in DOMAIN query :
               /\ query[i][1] = name
               /\ \A j \in DOMAIN query : query[j][1] = name => j <= i][2]
  ELSE default

Between(text, low, high) == IsNumeral(text) /\ Numeral(text) >= low /\ Numeral(text) <= high

\* 9 stands for the largest limit and, unlike there, for the default.
QueryIsValid(query) ==
  /\ Given(query, "status") => Parameter(query, "status", "") \in Statuses
  /\ Given(query, "category") => Parameter(query, "category", "") # ""
  /\ Between(Parameter(query, "offset", "0"), 0, 9)
  /\ Between(Parameter(query, "limit", "9"), 1, 9)

IsItemId(text) == Between(text, 1, 9)

----------------------------------------------------------------------------
(* _ItemStore *)

Item(fields, created, updated) ==
  [name |-> fields["name"], status |-> fields["status"], category |-> Category(fields),
   createdAt |-> created, updatedAt |-> updated]

ItemBody(id, item) ==
  Obj([id |-> Num(id), name |-> item.name, status |-> item.status,
       category |-> item.category, createdAt |-> Time(item.createdAt),
       updatedAt |-> Time(item.updatedAt)])

\* The ids of the items that pass the filters of the query.
Wanted(query) ==
  {id \in DOMAIN items :
     /\ Given(query, "status") => items[id].status = Str(Parameter(query, "status", ""))
     /\ Given(query, "category") => items[id].category = Str(Parameter(query, "category", ""))}

\* _ItemStore.list sorts the items by id before it filters them.
Listed(query) ==
  SelectSeq([i \in 1..(nextId - 1) |-> i], LAMBDA id : id \in Wanted(query))

Page(query) ==
  LET offset == Numeral(Parameter(query, "offset", "0"))
      limit == Numeral(Parameter(query, "limit", "9"))
      listed == Listed(query)
      last == IF offset + limit < Len(listed) THEN offset + limit ELSE Len(listed)
      page == SubSeq(listed, offset + 1, last)
  IN Obj([items |-> Arr([i \in DOMAIN page |-> ItemBody(page[i], items[page[i]])]),
          offset |-> Num(offset), limit |-> Num(limit), total |-> Num(Len(listed))])

Init ==
  /\ items = <<>>
  /\ nextId = 1
  /\ clockTick = 0
  /\ answer = NoContent(204)

----------------------------------------------------------------------------
(* One action per operation: route, validation, locked store operation. *)

Collection(request) == request.path = <<"items">>
Single(request) == Len(request.path) = 2 /\ request.path[1] = "items"

\* The addressed item, for the operations on one item.
Id(request) == Numeral(request.path[2])
Valid(request) == IsItemId(request.path[2])
Found(request) == Id(request) \in DOMAIN items

Refuse(response) == answer' = response /\ UNCHANGED <<items, nextId, clockTick>>

ListItems(request) ==
  /\ request.method = "GET" /\ Collection(request)
  /\ Refuse(IF QueryIsValid(request.query) THEN JsonResponse(200, Page(request.query))
                                           ELSE BadRequest)

WithItem(id, item) ==
  [i \in DOMAIN items \cup {id} |-> IF i = id THEN item ELSE items[i]]

\* Mutant: a new item takes the lowest free id.
CreateItem_CountId(request) ==
  /\ request.method = "POST" /\ Collection(request)
  /\ IF IsItemCreate(request.body)
     THEN LET item == Item(request.body.obj, clockTick, clockTick)
              id == CHOOSE n \in 1..9 : n \notin DOMAIN items /\ \A m \in 1..(n - 1) : m \in DOMAIN items
          IN /\ items' = WithItem(id, item)
             /\ nextId' = IF id = nextId THEN nextId + 1 ELSE nextId
             /\ clockTick' = clockTick + 1
             /\ answer' = JsonResponse(201, ItemBody(id, item))
     ELSE Refuse(BadRequest)

CreateItem(request) ==
  /\ request.method = "POST" /\ Collection(request)
  /\ IF IsItemCreate(request.body)
     THEN LET item == Item(request.body.obj, clockTick, clockTick)
          IN /\ items' = WithItem(nextId, item)
             /\ nextId' = nextId + 1
             /\ clockTick' = clockTick + 1
             /\ answer' = JsonResponse(201, ItemBody(nextId, item))
     ELSE Refuse(BadRequest)

GetItem(request) ==
  /\ request.method = "GET" /\ Single(request)
  /\ Refuse(IF ~Valid(request) THEN BadRequest
            ELSE IF ~Found(request) THEN NotFound
            ELSE JsonResponse(200, ItemBody(Id(request), items[Id(request)])))

\* The item is stored under its id, the clock ticks and the item is returned.
Put(id, item) ==
  /\ items' = [items EXCEPT ![id] = item]
  /\ clockTick' = clockTick + 1
  /\ answer' = JsonResponse(200, ItemBody(id, item))
  /\ UNCHANGED nextId

ReplaceItem(request) ==
  /\ request.method = "PUT" /\ Single(request)
  /\ IF ~Valid(request) \/ ~IsItemCreate(request.body) THEN Refuse(BadRequest)
     ELSE IF ~Found(request) THEN Refuse(NotFound)
     ELSE Put(Id(request),
              Item(request.body.obj, items[Id(request)].createdAt, clockTick))

UpdateItem(request) ==
  /\ request.method = "PATCH" /\ Single(request)
  /\ IF ~Valid(request) \/ ~IsItemUpdate(request.body) THEN Refuse(BadRequest)
     ELSE IF ~Found(request) THEN Refuse(NotFound)
     ELSE LET item == items[Id(request)]
              changes == request.body.obj
          IN Put(Id(request),
                 [field \in DOMAIN item |->
                    IF field = "updatedAt" THEN clockTick
                    ELSE IF field \in DOMAIN changes THEN changes[field] ELSE item[field]])

DeleteItem(request) ==
  /\ request.method = "DELETE" /\ Single(request)
  /\ IF ~Valid(request) THEN Refuse(BadRequest)
     ELSE IF ~Found(request) THEN Refuse(NotFound)
     ELSE /\ items' = [id \in DOMAIN items \ {Id(request)} |-> items[id]]
          /\ answer' = NoContent(204)
          /\ UNCHANGED <<nextId, clockTick>>

Handle(request) ==
  \/ ListItems(request) \/ CreateItem(request) \/ GetItem(request)
  \/ ReplaceItem(request) \/ UpdateItem(request) \/ DeleteItem(request)

\* Mutant: the logical clock goes on.
Reset_KeepsClock ==
  /\ items' = <<>>
  /\ nextId' = 1
  /\ answer' = NoContent(204)
  /\ UNCHANGED clockTick

\* POST /__test__/reset
Reset ==
  /\ items' = <<>>
  /\ nextId' = 1
  /\ clockTick' = 0
  /\ answer' = NoContent(204)

Next == Reset \/ \E request \in Requests : Handle(request)

Spec == Init /\ [][Next]_storeVars

----------------------------------------------------------------------------
(***************************************************************************)
(* Until the next reset an identifier is given to one item only and, once  *)
(* the item is deleted, is never heard of again: a read after a delete, in *)
(* this case or a later one, finds nothing rather than another case's      *)
(* item. delete_read_consistency blames the service on that ground.        *)
(***************************************************************************)
IdentifiersRetire ==
  /\ nextId' >= nextId
  /\ \A id \in 1..(nextId - 1) : id \notin DOMAIN items => id \notin DOMAIN items'

NoIdentifierReused == [][Reset \/ IdentifiersRetire]_storeVars
==============================================================================
