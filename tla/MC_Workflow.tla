---------------------------- MODULE MC_Workflow ----------------------------
(***************************************************************************)
(* Replies of the model provider and cases of Schemathesis over the demo   *)
(* document, one at least for every way they can be turned down, and       *)
(* enhancement packs whose namespaced identifiers may collide.             *)
(***************************************************************************)
EXTENDS Workflow, SchemathesisBatch, MC_DemoDocument

\* The demo document with one more operation, whose only status is a success.
TheOperations_Ping == TheOperations @@
  [ping |-> [method |-> "GET", route |-> <<"ping">>, parameters |-> {Query("limit", IntegerFrom(1))},
             bodySchema |-> NoSchema, bodyRequired |-> FALSE, responses |-> 200 :> NoSchema]]

\* A case as the workflow sees it.
Known(id, case) ==
  [id |-> id, wellFormed |-> CaseIsWellFormed(case), steps |-> Len(StepsOf(case)),
   valid |-> CaseIsWellFormed(case) /\ CaseIssues(case, NoInitial) = {}]

----------------------------------------------------------------------------
(* Cases of the provider and of packs *)

StatusIs(status) == [operator |-> "status_is", source |-> "none", pointer |-> <<>>, expected |-> status]
Get(status) == [op |-> "getItem", mode |-> "conformant", violations |-> {}, path |-> [itemId |-> Num(1)],
                query |-> <<>>, body |-> Missing, extract |-> <<>>, assertions |-> <<StatusIs(status)>>]
Main(steps) == [setup |-> <<>>, main |-> steps, cleanup |-> <<>>, relations |-> {}]

Good == Main(<<Get(200)>>)
Undeclared == Main(<<Get(599)>>)
Long == Main(<<Get(200), Get(404), Get(200)>>)
Malformed == Main(<<>>)

A == <<"a">>
B == <<"b">>
AB == <<"a", "b">>

TextOf(shape, cases) == [shape |-> shape, cases |-> cases]
Texts == {
  TextOf("blank", <<>>), TextOf("not_json", <<>>), TextOf("other_keys", <<>>), TextOf("batch", <<>>),
  TextOf("batch", <<Known(A, Good)>>),
  TextOf("batch", <<Known(A, Good), Known(AB, Good)>>),
  TextOf("batch", <<Known(A, Good), Known(A, Good)>>),
  TextOf("batch", <<Known(A, Undeclared), Known(A, Good)>>),
  TextOf("batch", <<Known(A, Malformed), Known(A, Good)>>),
  TextOf("batch", <<Known(A, Long), Known(B, Good)>>),
  TextOf("batch", <<Known(A, Undeclared), Known(B, Malformed), Known(AB, Good)>>)}

Whole(text) == [envelope |-> TRUE, status |-> "completed", output |-> TRUE, text |-> text,
                details |-> TRUE, usage |-> TRUE]
Http(status, payload) == [kind |-> "http", status |-> status, payload |-> payload]
Sample == Whole(TextOf("batch", <<Known(A, Good)>>))

TheReplies ==
  {[kind |-> "timeout"], [kind |-> "network-error"], Http(429, Sample), Http(418, Sample)}
  \cup {Http(200, Whole(text)) : text \in Texts}
  \cup {Http(200, payload) : payload \in {
          [Sample EXCEPT !.envelope = FALSE], [Sample EXCEPT !.status = "failed"],
          [Sample EXCEPT !.output = FALSE], [Sample EXCEPT !.status = "incomplete"],
          [Sample EXCEPT !.status = "incomplete", !.details = FALSE], [Sample EXCEPT !.usage = FALSE]}}

Pack(id, cases) == [packId |-> id, cases |-> cases]
ThePacks == {
  <<>>,
  <<Pack(A, <<Known(B, Good)>>)>>,
  <<Pack(B, <<Known(A, Undeclared)>>)>>,
  <<Pack(B, <<Known(A, Good)>>), Pack(B, <<Known(B, Good)>>)>>,
  <<Pack(A, <<Known(AB, Good)>>), Pack(AB, <<Known(B, Good)>>)>>,
  <<Pack(AB, <<Known(A, Malformed)>>)>>}

----------------------------------------------------------------------------
(* Cases of Schemathesis *)

On(op) == [operation |-> op, mode |-> "positive", phase |-> "fuzzing", readable |-> TRUE,
           method |-> TheOperations_Ping[op].method, route |-> TheOperations_Ping[op].route,
           cookies |-> FALSE, media |-> "application/json", path |-> <<>>, query |-> <<>>, body |-> Missing]
Negative(generated) == [generated EXCEPT !.mode = "negative"]
GetOne == [On("getItem") EXCEPT !.path = [itemId |-> Num(1)]]
Listing(name, value) == [On("listItems") EXCEPT !.query = <<<<name, value>>>>]
Creating(body) == [On("createItem") EXCEPT !.body = body]
Fields == [name |-> Str("a"), status |-> Str("active")]

Adaptable == <<
  GetOne,
  [On("deleteItem") EXCEPT !.path = [itemId |-> Num(1)]],
  Creating(Obj(Fields)),
  Negative([GetOne EXCEPT !.path.itemId = Str("x")]),
  Negative([GetOne EXCEPT !.path = <<>>]),
  Negative(Creating(Obj([name |-> Str(""), status |-> Str("other")]))),
  Negative(Creating(Null)),
  Negative(Listing("limit", Num(0))),
  On("ping")>>

Unadaptable == <<
  [GetOne EXCEPT !.operation = "unresolved"], [GetOne EXCEPT !.mode = "other"],
  [GetOne EXCEPT !.phase = "stateful"], [GetOne EXCEPT !.readable = FALSE],
  [GetOne EXCEPT !.method = "PATCH"], [GetOne EXCEPT !.route = <<"items">>],
  [GetOne EXCEPT !.cookies = TRUE], [Creating(Obj(Fields)) EXCEPT !.media = "text/plain"],
  Listing("limit", Var("x")), Listing("limit", NotJson), Listing("", Num(1)),
  Listing("page", Num(1)), Listing("limit", Arr(<<Num(1)>>)), Listing("limit", Num(0)),
  Negative(GetOne), Negative([On("ping") EXCEPT !.query = <<<<"limit", Num(0)>>>>])>>

Config(examples, coverage, positive, negative) ==
  [examples |-> examples, coverage |-> coverage, positive |-> positive, negative |-> negative]
Configs == {Config(TRUE, TRUE, 1, 3), Config(FALSE, FALSE, 2, 0), Config(FALSE, FALSE, 0, 0)}

Pool(examples, coverage, positive, negative) ==
  [examples |-> examples, coverage |-> coverage, positive |-> positive, negative |-> negative]
Pools == {
  Pool(<<>>, Unadaptable, <<>>, <<>>),
  Pool(<<GetOne>>, <<>>, <<>>, <<>>),
  Pool(SubSeq(Adaptable, 1, 2), SubSeq(Adaptable, 3, 5) \o Unadaptable,
       <<SubSeq(Adaptable, 1, 3), <<Negative(GetOne)>>>>, <<SubSeq(Adaptable, 6, 8), <<>>, <<Adaptable[9]>>>>)}

Adaptation(received) ==
  LET adapted == AdaptedBatch(received)
  IN [record |-> AdaptationRecord(received),
      batch |-> [i \in DOMAIN adapted |->
                   Known(<<"schemathesis", ToString(adapted[i].number)>>, adapted[i].case)]]

TheAdaptations ==
  {Adaptation(Collected(config, pool)) : config \in {c \in Configs : ConfigIsValid(c)}, pool \in Pools}
=============================================================================
