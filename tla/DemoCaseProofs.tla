--------------------------- MODULE DemoCaseProofs ---------------------------
(***************************************************************************)
(* A validated case against the demo service through the fault proxy, for  *)
(* every document, every case, every fault and every sequence of earlier   *)
(* requests: the mark on a response tells whether it was changed,          *)
(* identifiers are not reused, a run of the case is an execution           *)
(* CaseExecution specifies, relations over reads accuse nobody, and the    *)
(* two runs are alike up to the first changed response.                    *)
(***************************************************************************)
EXTENDS DemoCase, SequenceTheorems, WellFoundedInduction, TLAPS

----------------------------------------------------------------------------
(* The proxy's rewriting, for every fault definition, request and response: *)
(* the trigger decision and the response agree.                            *)

LEMMA MutateBodyOutcome ==
  ASSUME NEW response, NEW mutation
  PROVE  \/ \E reason : Proxy!MutateBody(response, mutation) = Proxy!NotTriggered(response, reason)
         \/ \E body : /\ body # response.body
                      /\ Proxy!MutateBody(response, mutation) = Proxy!Applied(Proxy!WithBody(response, body))
<1> DEFINE failure == Proxy!MutationFailure(response.body, mutation)
           body == Proxy!Mutated(response.body, mutation)
<1>1. CASE response.media # "json"
  BY <1>1 DEF Proxy!MutateBody
<1>2. CASE response.media = "json" /\ Proxy!Undecodable(response.body)
  BY <1>2 DEF Proxy!MutateBody
<1>3. CASE response.media = "json" /\ ~Proxy!Undecodable(response.body)
  <2>1. Proxy!MutateBody(response, mutation) =
          IF failure # "none" THEN Proxy!NotTriggered(response, failure)
          ELSE IF body = response.body THEN Proxy!NotTriggered(response, "no_change")
          ELSE Proxy!Applied(Proxy!WithBody(response, body))
    BY <1>3 DEF Proxy!MutateBody
  <2> HIDE DEF failure, body
  <2> QED
    BY <2>1
<1> QED
  BY <1>1, <1>2, <1>3

LEMMA ApplyOutcome ==
  ASSUME NEW definition, NEW request, NEW response
  PROVE  LET application == Proxy!ApplyResponseFault(definition, request, response)
         IN \/ \E reason : application = Proxy!NotTriggered(response, reason)
            \/ \E body : /\ body # response.body
                         /\ application = Proxy!Applied(Proxy!WithBody(response, body))
            \/ \E status : /\ status # response.status
                           /\ application = Proxy!Applied(Proxy!WithStatus(response, status))
<1> DEFINE mismatch == Proxy!MatchFailure(definition, request, response)
<1>1. CASE mismatch # "none"
  BY <1>1 DEF Proxy!ApplyResponseFault
<1>2. CASE mismatch = "none" /\ definition.mutation.type = "replace_status"
  BY <1>2 DEF Proxy!ApplyResponseFault, Proxy!ReplaceStatus
<1>3. CASE mismatch = "none" /\ definition.mutation.type # "replace_status"
  BY <1>3, MutateBodyOutcome DEF Proxy!ApplyResponseFault
<1> QED
  BY <1>1, <1>2, <1>3

(***************************************************************************)
(* A response is changed exactly if the fault counts as triggered, and     *)
(* then in its status or in its body, not in both and in nothing else      *)
(* (apply_response_fault of services/fault_proxy/mutations.py).            *)
(***************************************************************************)
THEOREM TriggeredMeansChanged ==
  ASSUME NEW definition, NEW request,
         NEW status, NEW media, NEW content,
         NEW response, response = [status |-> status, media |-> media, body |-> content]
  PROVE  LET application == Proxy!ApplyResponseFault(definition, request, response)
         IN /\ application.triggered <=> application.response # response
            /\ application.response.media = media
            /\ application.response.status = status \/ application.response.body = content
<1> DEFINE application == Proxy!ApplyResponseFault(definition, request, response)
<1>1. CASE \E reason : application = Proxy!NotTriggered(response, reason)
  BY <1>1 DEF Proxy!NotTriggered
<1>2. CASE \E body : body # response.body /\ application = Proxy!Applied(Proxy!WithBody(response, body))
  BY <1>2 DEF Proxy!Applied, Proxy!WithBody
<1>3. CASE \E new : new # response.status /\ application = Proxy!Applied(Proxy!WithStatus(response, new))
  BY <1>3 DEF Proxy!Applied, Proxy!WithStatus
<1>4. \/ \E reason : application = Proxy!NotTriggered(response, reason)
      \/ \E body : body # response.body /\ application = Proxy!Applied(Proxy!WithBody(response, body))
      \/ \E new : new # response.status /\ application = Proxy!Applied(Proxy!WithStatus(response, new))
  BY ApplyOutcome
<1> HIDE DEF application
<1> QED
  BY <1>1, <1>2, <1>3, <1>4

(***************************************************************************)
(* A fault never touches a response its matcher does not name: another     *)
(* method, another path, another status or another media type.             *)
(***************************************************************************)
THEOREM MatcherBounds ==
  ASSUME NEW definition, NEW request, NEW response,
         Proxy!ApplyResponseFault(definition, request, response).triggered
  PROVE  /\ request.method = definition.method
         /\ request.path \in definition.paths
         /\ definition.statuses = {} \/ response.status \in definition.statuses
         /\ definition.media = "any" \/ definition.media = response.media
<1>1. Proxy!MatchFailure(definition, request, response) = "none"
  BY DEF Proxy!ApplyResponseFault, Proxy!NotTriggered
<1> QED
  BY <1>1 DEF Proxy!MatchFailure
----------------------------------------------------------------------------
(* The marks of a run. *)

IsResponse(response) ==
  response = [status |-> response.status, media |-> response.media, body |-> response.body]

LEMMA ResponsesAreResponses ==
  ASSUME NEW status, NEW body
  PROVE  /\ IsResponse(Service!JsonResponse(status, body))
         /\ IsResponse(Service!NoContent(status))
BY DEF IsResponse, Service!JsonResponse, Service!NoContent

\* Whatever the service is asked, it answers with a response.
LEMMA HandleAnswers ==
  ASSUME NEW request, Service!Handle(request)
  PROVE  IsResponse(answer')
<1> USE ResponsesAreResponses DEF Service!Refuse, Service!BadRequest, Service!NotFound
<1>1. CASE Service!ListItems(request)
  BY <1>1 DEF Service!ListItems
<1>2. CASE Service!CreateItem(request)
  BY <1>2 DEF Service!CreateItem
<1>3. CASE Service!GetItem(request)
  BY <1>3 DEF Service!GetItem
<1>4. CASE Service!ReplaceItem(request)
  BY <1>4 DEF Service!ReplaceItem, Service!Put
<1>5. CASE Service!UpdateItem(request)
  BY <1>5 DEF Service!UpdateItem, Service!Put
<1>6. CASE Service!DeleteItem(request)
  BY <1>6 DEF Service!DeleteItem
<1> QED
  BY <1>1, <1>2, <1>3, <1>4, <1>5, <1>6 DEF Service!Handle

\* A delivered response is marked exactly if it is not what the service gave.
LEMMA DeliveredMark ==
  ASSUME NEW request, NEW upstream, IsResponse(upstream)
  PROVE  LET application == Delivered(request, upstream)
         IN /\ application.triggered <=> application.response # upstream
            /\ fault = "none" => ~application.triggered
<1>1. CASE fault = "none"
  BY <1>1 DEF Delivered, Proxy!NotTriggered
<1>2. CASE fault # "none"
  BY <1>2, TriggeredMeansChanged DEF Delivered, IsResponse
<1> QED
  BY <1>1, <1>2

TraceTyped == trace = [k \in 1..LastStep |-> trace[k]]

MarksInv == TraceTyped /\ MarkedMeansChanged

\* What the execution of a step leaves is marked exactly if it was changed.
LEMMA ExecutedMark ==
  ASSUME MarksInv, UNCHANGED case, NEW k, ExecuteStep(k)
  PROVE  MarksInv'
<1>1. PICK execution :
        /\ trace' = [trace EXCEPT ![k] = execution]
        /\ execution.marked <=> execution.response # execution.upstream
  <2> DEFINE request == Build(Steps[k], scope)
  <2>1. CASE Keep(k, Unsent(k, request))
    <3>1. Unsent(k, request).marked = FALSE
          /\ Unsent(k, request).response = NoResponse /\ Unsent(k, request).upstream = NoResponse
      BY DEF Unsent, Skipped
    <3> QED
      BY <2>1, <3>1 DEF Keep
  <2>2. CASE Service!Handle(request) /\ Keep(k, Answered(k, request, answer'))
    <3>1. IsResponse(answer')
      BY <2>2, HandleAnswers
    <3>2. /\ Answered(k, request, answer').marked = Delivered(request, answer').triggered
          /\ Answered(k, request, answer').response = Delivered(request, answer').response
          /\ Answered(k, request, answer').upstream = answer'
      BY DEF Answered
    <3> QED
      BY <2>2, <3>1, <3>2, DeliveredMark DEF Keep
  <2> QED
    BY <2>1, <2>2 DEF ExecuteStep
<1>2. LastStep' = LastStep
  BY DEF LastStep, Steps
<1> QED
  BY <1>1, <1>2 DEF MarksInv, TraceTyped, MarkedMeansChanged

LEMMA NothingMarked ==
  trace = NothingExecuted => MarksInv
BY DEF NothingExecuted, Skipped, MarksInv, TraceTyped, MarkedMeansChanged

LEMMA MarksStep ==
  ASSUME MarksInv, [Next]_vars
  PROVE  MarksInv'
<1> DEFINE Kept == UNCHANGED <<case, trace>>
<1>1. ASSUME Kept PROVE MarksInv'
  BY <1>1 DEF MarksInv, TraceTyped, MarkedMeansChanged, LastStep, Steps
<1>2. CASE EarlierRequest
  BY <1>1, <1>2 DEF EarlierRequest
<1>3. CASE StartCase
  BY <1>1, <1>3 DEF StartCase
<1>4. CASE ExecuteMain
  BY <1>4, ExecutedMark DEF ExecuteMain
<1>5. CASE EvaluateRelations
  BY <1>1, <1>5 DEF EvaluateRelations
<1>6. CASE RunCleanup
  BY <1>1, <1>6, ExecutedMark DEF RunCleanup
<1>7. CASE StartFaultRun
  <2>1. trace' = NothingExecuted /\ NothingExecuted' = NothingExecuted
    BY <1>7 DEF StartFaultRun, NothingExecuted, LastStep, Steps, Skipped, Required, IsCleanup, MainEnd
  <2> QED
    BY <2>1, NothingMarked DEF MarksInv, TraceTyped, MarkedMeansChanged, NothingExecuted, Skipped
<1>8. CASE UNCHANGED vars
  BY <1>1, <1>8 DEF vars, executor
<1> QED
  BY <1>2, <1>3, <1>4, <1>5, <1>6, <1>7, <1>8 DEF Next

(***************************************************************************)
(* MarkedMeansChanged: over both runs of any case, with any fault, a       *)
(* response carries the mark exactly if the service gave another one       *)
(* (services/fault_proxy/app.py marks what apply_response_fault applied).  *)
(***************************************************************************)
THEOREM MarksAreTrue == Spec => []MarkedMeansChanged
<1>1. Init => MarksInv
  BY NothingMarked DEF Init
<1>2. MarksInv /\ [Next]_vars => MarksInv'
  BY MarksStep
<1>3. MarksInv => MarkedMeansChanged
  BY DEF MarksInv
<1> QED
  BY <1>1, <1>2, <1>3, PTL DEF Spec

----------------------------------------------------------------------------
(* The identifiers of the demo service: it is the service of ItemStore,     *)
(* only that its requests come from the cases.                             *)

StoreProofs == INSTANCE ItemStoreProofs WITH Requests <- {}

LEMMA ServiceIsItemStore ==
  ASSUME NEW request
  PROVE  Service!Handle(request) <=> StoreProofs!Handle(request)
BY DEF Service!JsonResponse, Service!NoContent, Service!ErrorBody,
      Service!NotFound, Service!BadRequest, Service!Statuses,
      Service!NonEmpty, Service!IsItemStatus, Service!FieldIsValid,
      Service!FieldsAreValid, Service!IsItemCreate, Service!IsItemUpdate,
      Service!Category, Service!Given, Service!Parameter, Service!Between,
      Service!QueryIsValid, Service!IsItemId, Service!Item, Service!ItemBody,
      Service!Wanted, Service!Listed, Service!Page, Service!Collection, Service!Single,
      Service!Id, Service!Valid, Service!Found, Service!Refuse,
      Service!ListItems, Service!WithItem, Service!CreateItem,
      Service!GetItem, Service!Put, Service!ReplaceItem, Service!UpdateItem,
      Service!DeleteItem, Service!Handle, Service!Null, Service!Num,
      Service!Str, Service!Time, Service!Arr, Service!Obj, Service!Missing,
      Service!IsKind, Service!IsString, Service!Digits, Service!IsNumeral,
      Service!Numeral, StoreProofs!JsonResponse, StoreProofs!NoContent,
      StoreProofs!ErrorBody, StoreProofs!NotFound, StoreProofs!BadRequest,
      StoreProofs!Statuses, StoreProofs!NonEmpty, StoreProofs!IsItemStatus,
      StoreProofs!FieldIsValid, StoreProofs!FieldsAreValid,
      StoreProofs!IsItemCreate, StoreProofs!IsItemUpdate,
      StoreProofs!Category, StoreProofs!Given, StoreProofs!Parameter,
      StoreProofs!Between, StoreProofs!QueryIsValid, StoreProofs!IsItemId,
      StoreProofs!Item, StoreProofs!ItemBody, StoreProofs!Wanted, StoreProofs!Listed,
      StoreProofs!Page, StoreProofs!Collection, StoreProofs!Single,
      StoreProofs!Id, StoreProofs!Valid, StoreProofs!Found,
      StoreProofs!Refuse, StoreProofs!ListItems, StoreProofs!WithItem,
      StoreProofs!CreateItem, StoreProofs!GetItem, StoreProofs!Put,
      StoreProofs!ReplaceItem, StoreProofs!UpdateItem, StoreProofs!DeleteItem,
      StoreProofs!Handle, StoreProofs!Null, StoreProofs!Num, StoreProofs!Str,
      StoreProofs!Time, StoreProofs!Arr, StoreProofs!Obj, StoreProofs!Missing,
      StoreProofs!IsKind, StoreProofs!IsString, StoreProofs!Digits,
      StoreProofs!IsNumeral, StoreProofs!Numeral

\* What one request does to the identifiers.
LEMMA HandleRetires ==
  ASSUME StoreProofs!IdsInv, NEW request, Service!Handle(request)
  PROVE  StoreProofs!IdsInv' /\ Service!IdentifiersRetire
BY ServiceIsItemStore, StoreProofs!HandleStep
   DEF StoreProofs!IdentifiersRetire, Service!IdentifiersRetire

LEMMA ExecutionRetires ==
  ASSUME StoreProofs!IdsInv, NEW k, ExecuteStep(k)
  PROVE  StoreProofs!IdsInv' /\ (Service!IdentifiersRetire \/ UNCHANGED store)
<1> DEFINE request == Build(Steps[k], scope)
<1>1. CASE UNCHANGED store
  BY <1>1 DEF store, StoreProofs!IdsInv
<1>2. CASE Service!Handle(request)
  BY <1>2, HandleRetires
<1> QED
  BY <1>1, <1>2 DEF ExecuteStep

LEMMA IdsStep ==
  ASSUME StoreProofs!IdsInv, [Next]_vars
  PROVE  /\ StoreProofs!IdsInv'
         /\ Service!Reset \/ Service!IdentifiersRetire \/ UNCHANGED store
<1>1. ASSUME UNCHANGED store PROVE StoreProofs!IdsInv'
  BY <1>1 DEF store, StoreProofs!IdsInv
<1>2. CASE EarlierRequest
  BY <1>2, HandleRetires DEF EarlierRequest
<1>3. CASE StartCase \/ EvaluateRelations \/ UNCHANGED vars
  BY <1>1, <1>3 DEF StartCase, EvaluateRelations, vars
<1>4. CASE ExecuteMain
  BY <1>4, ExecutionRetires DEF ExecuteMain
<1>5. CASE RunCleanup
  <2>1. ExecuteStep(next) \/ UNCHANGED store
    BY <1>5 DEF RunCleanup
  <2> QED
    BY <1>1, <2>1, ExecutionRetires
<1>6. CASE StartFaultRun
  BY <1>6 DEF StartFaultRun, Service!Reset, StoreProofs!IdsInv
<1> QED
  BY <1>2, <1>3, <1>4, <1>5, <1>6 DEF Next

(***************************************************************************)
(* NoIdentifierReused: whatever the case, the fault and the earlier cases  *)
(* send, between resets no identifier is given to a second item            *)
(* (services/demo_items/app.py, _ItemStore.create and delete).             *)
(***************************************************************************)
THEOREM IdentifiersStayTheirs == Spec => NoIdentifierReused
<1>1. Init => StoreProofs!IdsInv
  BY DEF Init, Service!Init, StoreProofs!IdsInv
<1>2. StoreProofs!IdsInv /\ [Next]_vars =>
        StoreProofs!IdsInv' /\ [Service!Reset \/ Service!IdentifiersRetire]_store
  BY IdsStep
<1> QED
  BY <1>1, <1>2, PTL DEF Spec, NoIdentifierReused

----------------------------------------------------------------------------
(* The declared case. *)

\* A list with something made of each of its elements.
LEMMA MappedList ==
  ASSUME NEW list, IsList(list), NEW made, made = [i \in DOMAIN list |-> made[i]]
  PROVE  /\ made \in Seq({made[i] : i \in DOMAIN list})
         /\ Len(made) = Len(list)
         /\ DOMAIN list = 1..Len(list)
<1>1. Len(list) \in Nat /\ DOMAIN list = 1..Len(list)
  BY LenProperties DEF IsList
<1>2. made \in [1..Len(list) -> {made[i] : i \in DOMAIN list}]
  BY <1>1
<1>3. made \in Seq({made[i] : i \in DOMAIN list})
  BY <1>1, <1>2
<1> QED
  BY <1>1, <1>2, <1>3, LenProperties

\* Three lists joined, and three others of the same lengths: an element of the
\* one has its counterpart, in the counterpart of the list it is from.
Counterparts(a, b, c, all, a2, b2, c2, all2) ==
  /\ Len(all) \in Nat /\ Len(all2) = Len(all)
  /\ Len(a) + Len(b) \in Nat /\ Len(a2) + Len(b2) = Len(a) + Len(b)
  /\ Len(a) + Len(b) <= Len(all)
  /\ b # <<>> => 1 <= Len(a) + Len(b)
  /\ \A k \in 1..Len(all) :
       IF k <= Len(a) + Len(b)
       THEN \/ \E i \in DOMAIN a : all[k] = a[i] /\ all2[k] = a2[i]
            \/ \E i \in DOMAIN b : all[k] = b[i] /\ all2[k] = b2[i]
       ELSE \E i \in DOMAIN c : all[k] = c[i] /\ all2[k] = c2[i]

LEMMA ParallelLists ==
  ASSUME NEW a, NEW b, NEW c, IsList(a), IsList(b), IsList(c),
         NEW a2, NEW b2, NEW c2,
         a2 = [i \in DOMAIN a |-> a2[i]],
         b2 = [i \in DOMAIN b |-> b2[i]],
         c2 = [i \in DOMAIN c |-> c2[i]],
         NEW all, all = a \o b \o c, NEW all2, all2 = a2 \o b2 \o c2
  PROVE  Counterparts(a, b, c, all, a2, b2, c2, all2)
<1>1. PICK S : a \in Seq(S) /\ b \in Seq(S) /\ c \in Seq(S) /\ a2 \in Seq(S) /\ b2 \in Seq(S) /\ c2 \in Seq(S)
  <2>1. PICK A, B, C, A2, B2, C2 :
          /\ a \in Seq(A) /\ b \in Seq(B) /\ c \in Seq(C)
          /\ a2 \in Seq(A2) /\ b2 \in Seq(B2) /\ c2 \in Seq(C2)
    <3>1. \E A, B, C : a \in Seq(A) /\ b \in Seq(B) /\ c \in Seq(C)
      BY DEF IsList
    <3>2. (\E A2 : a2 \in Seq(A2)) /\ (\E B2 : b2 \in Seq(B2)) /\ (\E C2 : c2 \in Seq(C2))
      BY MappedList
    <3> QED
      BY <3>1, <3>2
  <2> DEFINE S == A \cup B \cup C \cup A2 \cup B2 \cup C2
  <2>2. a \in Seq(S) /\ b \in Seq(S) /\ c \in Seq(S) /\ a2 \in Seq(S) /\ b2 \in Seq(S) /\ c2 \in Seq(S)
    BY <2>1, SeqMonotonic
  <2> QED
    BY <2>2
<1>2. /\ Len(a2) = Len(a) /\ DOMAIN a = 1..Len(a)
      /\ Len(b2) = Len(b) /\ DOMAIN b = 1..Len(b)
      /\ Len(c2) = Len(c) /\ DOMAIN c = 1..Len(c)
  BY MappedList
<1>3. /\ Len(a) \in Nat /\ Len(b) \in Nat /\ Len(c) \in Nat
      /\ Len(all) = Len(a) + Len(b) + Len(c)
      /\ \A k \in 1..(Len(a) + Len(b) + Len(c)) :
           all[k] = IF k <= Len(a) THEN a[k]
                    ELSE IF k <= Len(a) + Len(b) THEN b[k - Len(a)]
                    ELSE c[k - (Len(a) + Len(b))]
  BY <1>1
<1>4. /\ Len(all2) = Len(a2) + Len(b2) + Len(c2)
      /\ \A k \in 1..(Len(a2) + Len(b2) + Len(c2)) :
           all2[k] = IF k <= Len(a2) THEN a2[k]
                     ELSE IF k <= Len(a2) + Len(b2) THEN b2[k - Len(a2)]
                     ELSE c2[k - (Len(a2) + Len(b2))]
  BY <1>1, SMTT(30)
<1>5. b # <<>> => Len(b) # 0
  BY <1>1, EmptySeq
<1> HIDE DEF IsList
<1>6. ASSUME NEW k \in 1..Len(all)
      PROVE  IF k <= Len(a) + Len(b)
             THEN \/ \E i \in DOMAIN a : all[k] = a[i] /\ all2[k] = a2[i]
                  \/ \E i \in DOMAIN b : all[k] = b[i] /\ all2[k] = b2[i]
             ELSE \E i \in DOMAIN c : all[k] = c[i] /\ all2[k] = c2[i]
  <2>1. CASE k <= Len(a)
    <3>1. k \in DOMAIN a /\ all[k] = a[k] /\ all2[k] = a2[k]
      BY <1>2, <1>3, <1>4, <2>1
    <3> QED
      BY <1>2, <1>3, <2>1, <3>1
  <2>2. CASE ~(k <= Len(a)) /\ k <= Len(a) + Len(b)
    <3>1. /\ k - Len(a) \in DOMAIN b
          /\ all[k] = b[k - Len(a)] /\ all2[k] = b2[k - Len(a)]
      BY <1>2, <1>3, <1>4, <2>2
    <3> QED
      BY <2>2, <3>1
  <2>3. CASE ~(k <= Len(a) + Len(b))
    <3>1. /\ k - (Len(a) + Len(b)) \in DOMAIN c
          /\ all[k] = c[k - (Len(a) + Len(b))] /\ all2[k] = c2[k - (Len(a) + Len(b))]
      BY <1>2, <1>3, <1>4, <2>3
    <3> QED
      BY <2>3, <3>1
  <2> QED
    BY <2>1, <2>2, <2>3
<1>7. /\ Len(all) \in Nat /\ Len(all2) = Len(all)
      /\ Len(a) + Len(b) \in Nat /\ Len(a2) + Len(b2) = Len(a) + Len(b)
      /\ Len(a) + Len(b) <= Len(all)
      /\ b # <<>> => 1 <= Len(a) + Len(b)
  BY <1>2, <1>3, <1>4, <1>5
<1> QED
  BY <1>6, <1>7, Zenon DEF Counterparts

LEMMA CaseLists ==
  ASSUME case \in AdmissibleCases
  PROVE  /\ IsList(case.setup) /\ IsList(case.main) /\ IsList(case.cleanup)
         /\ case.main # <<>>
         /\ \A i \in DOMAIN case.cleanup :
              /\ case.cleanup[i].when \in {"always", "on_success", "on_failure"}
              /\ case.cleanup[i].ignoreErrors \in BOOLEAN
         /\ \A r \in Relations : r.type \in RelationTypes
BY CasesAssumption DEF AdmissibleCases, Admissible, CaseIsWellFormed, Relations

\* What CaseExecution is told of a step.
DeclaredAt(k) == IF IsCleanup(k) THEN DeclaredCleanup(Steps[k]) ELSE DeclaredStep(Steps[k])

LEMMA DeclaredSteps ==
  ASSUME case \in AdmissibleCases, NEW c, c = DeclaredCase
  PROVE  /\ LastStep \in Nat /\ MainEnd \in Nat
         /\ 1 <= MainEnd /\ MainEnd <= LastStep
         /\ Executor(c)!Last = LastStep
         /\ Executor(c)!MainEnd = MainEnd
         /\ \A k \in 1..LastStep :
              /\ Executor(c)!Steps[k] = DeclaredAt(k)
              /\ IsCleanup(k) => \E i \in DOMAIN case.cleanup : Steps[k] = case.cleanup[i]
<1>1. PICK s, m, u : s = case.setup /\ m = case.main /\ u = case.cleanup
  OBVIOUS
<1>2. PICK s2, m2, u2 : s2 = c.setup /\ m2 = c.main /\ u2 = c.cleanup
  OBVIOUS
<1>3. PICK all, all2 : all = s \o m \o u /\ all2 = s2 \o m2 \o u2
  OBVIOUS
<1>4. IsList(s) /\ IsList(m) /\ IsList(u) /\ m # <<>>
  BY <1>1, CaseLists
<1>5. /\ s2 = [i \in DOMAIN s |-> DeclaredStep(s[i])]
      /\ m2 = [i \in DOMAIN m |-> DeclaredStep(m[i])]
      /\ u2 = [i \in DOMAIN u |-> DeclaredCleanup(u[i])]
  BY <1>1, <1>2 DEF DeclaredCase
<1>6. /\ s2 = [i \in DOMAIN s |-> s2[i]] /\ \A i \in DOMAIN s : s2[i] = DeclaredStep(s[i])
      /\ m2 = [i \in DOMAIN m |-> m2[i]] /\ \A i \in DOMAIN m : m2[i] = DeclaredStep(m[i])
      /\ u2 = [i \in DOMAIN u |-> u2[i]] /\ \A i \in DOMAIN u : u2[i] = DeclaredCleanup(u[i])
  BY <1>5
<1>7. /\ Steps = all /\ LastStep = Len(all) /\ MainEnd = Len(s) + Len(m)
      /\ Executor(c)!Steps = all2 /\ Executor(c)!Last = Len(all2)
      /\ Executor(c)!MainEnd = Len(s2) + Len(m2)
  BY <1>1, <1>2, <1>3
     DEF Steps, StepsOf, LastStep, MainEnd, MainEndOf, Executor!Steps, Executor!Last, Executor!MainEnd
<1>8. Counterparts(s, m, u, all, s2, m2, u2, all2)
  BY <1>3, <1>4, <1>6, ParallelLists
<1>9. /\ Len(all) \in Nat /\ Len(all2) = Len(all)
      /\ Len(s) + Len(m) \in Nat /\ Len(s2) + Len(m2) = Len(s) + Len(m)
      /\ Len(s) + Len(m) <= Len(all)
      /\ m # <<>> => 1 <= Len(s) + Len(m)
      /\ \A k \in 1..Len(all) :
           IF k <= Len(s) + Len(m)
           THEN \/ \E i \in DOMAIN s : all[k] = s[i] /\ all2[k] = s2[i]
                \/ \E i \in DOMAIN m : all[k] = m[i] /\ all2[k] = m2[i]
           ELSE \E i \in DOMAIN u : all[k] = u[i] /\ all2[k] = u2[i]
  BY <1>8 DEF Counterparts
<1>10. ASSUME NEW k \in 1..LastStep
      PROVE  /\ Executor(c)!Steps[k] = DeclaredAt(k)
             /\ IsCleanup(k) => \E i \in DOMAIN case.cleanup : Steps[k] = case.cleanup[i]
  <2>1. IsCleanup(k) <=> ~(k <= MainEnd)
    BY <1>7, <1>9 DEF IsCleanup
  <2>2. CASE k <= MainEnd
    <3>1. \/ \E i \in DOMAIN s : all[k] = s[i] /\ all2[k] = s2[i]
          \/ \E i \in DOMAIN m : all[k] = m[i] /\ all2[k] = m2[i]
      BY <1>7, <1>9, <2>2
    <3> QED
      BY <1>6, <1>7, <2>1, <2>2, <3>1 DEF DeclaredAt
  <2>3. CASE ~(k <= MainEnd)
    <3>1. \E i \in DOMAIN u : all[k] = u[i] /\ all2[k] = u2[i]
      BY <1>7, <1>9, <2>3
    <3> QED
      BY <1>1, <1>6, <1>7, <2>1, <2>3, <3>1 DEF DeclaredAt
  <2> QED
    BY <2>2, <2>3
<1> QED
  BY <1>4, <1>7, <1>9, <1>10

LEMMA StepsAreSequence ==
  ASSUME case \in AdmissibleCases
  PROVE  \E S : Steps \in Seq(S)
<1>1. PICK A, B, C : case.setup \in Seq(A) /\ case.main \in Seq(B) /\ case.cleanup \in Seq(C)
  BY CaseLists DEF IsList
<1> DEFINE S == A \cup B \cup C
<1>2. case.setup \in Seq(S) /\ case.main \in Seq(S) /\ case.cleanup \in Seq(S)
  BY <1>1, SeqMonotonic
<1> HIDE DEF S
<1>3. case.setup \o case.main \in Seq(S)
  BY <1>2, ConcatProperties
<1>4. case.setup \o case.main \o case.cleanup \in Seq(S)
  BY <1>2, <1>3, ConcatProperties
<1> QED
  BY <1>4 DEF Steps, StepsOf

LEMMA DeclaredFields ==
  ASSUME case \in AdmissibleCases, NEW k \in 1..LastStep
  PROVE  /\ DeclaredAt(k).uses = RequestReferences(Steps[k])
         /\ DeclaredAt(k).lacksPath = LacksPath(Steps[k])
         /\ DeclaredAt(k).checks = AssertionReferences(Steps[k])
         /\ DeclaredAt(k).extracts = Variables(Steps[k].extract)
         /\ DeclaredAt(k).required =
              {extraction.variable : extraction \in {e \in ToSet(Steps[k].extract) : e.required}}
         /\ IsCleanup(k) => /\ DeclaredAt(k).when = Steps[k].when
                            /\ DeclaredAt(k).ignoreErrors = Steps[k].ignoreErrors
                            /\ Steps[k].when \in {"always", "on_success", "on_failure"}
                            /\ Steps[k].ignoreErrors \in BOOLEAN
<1>1. CASE ~IsCleanup(k)
  BY <1>1 DEF DeclaredAt, DeclaredStep
<1>2. CASE IsCleanup(k)
  <2>1. PICK i \in DOMAIN case.cleanup : Steps[k] = case.cleanup[i]
    BY <1>2, DeclaredSteps
  <2>2. DeclaredAt(k) = DeclaredCleanup(Steps[k])
    BY <1>2 DEF DeclaredAt
  <2> QED
    BY <2>1, <2>2, CaseLists DEF DeclaredCleanup, DeclaredStep
<1> QED
  BY <1>1, <1>2

----------------------------------------------------------------------------
(* The invariant of a run, in named parts. *)

PositionInv ==
  /\ stage \in {"earlier", "main", "relations", "cleanup", "done"}
  /\ stage = "main" => next \in 1..MainEnd
  /\ stage = "relations" => next = MainEnd + 1
  /\ stage = "cleanup" => next \in (MainEnd + 1)..LastStep

\* Until the case starts, nothing is left of a run before.
EarlierInv ==
  stage = "earlier" =>
    /\ halted = 0 /\ scope = <<>>
    /\ trace = NothingExecuted
    /\ relationResults = NothingEvaluated

\* A step that passed had a response; nothing is known of steps still to come.
ExecutionsInv ==
  \A k \in 1..LastStep :
    /\ trace[k].executed <=> trace[k].outcome # "skipped"
    /\ trace[k].outcome = "passed" => trace[k].response # NoResponse
    /\ stage \in {"main", "relations", "cleanup"} /\ k >= next =>
         ~trace[k].executed /\ trace[k].extracted = <<>>

\* A main step was executed only if those before it passed.
MainFlowInv ==
  /\ stage = "main" => \A k \in 1..(next - 1) : trace[k].outcome = "passed"
  /\ \A j, k \in 1..MainEnd : j < k /\ trace[k].executed => trace[j].outcome = "passed"

RunInv ==
  /\ case \in AdmissibleCases
  /\ TraceTyped
  /\ PositionInv
  /\ EarlierInv
  /\ ExecutionsInv
  /\ MainFlowInv

LEMMA Positions ==
  ASSUME case \in AdmissibleCases
  PROVE  LastStep \in Nat /\ MainEnd \in Nat /\ 1 <= MainEnd /\ MainEnd <= LastStep
BY DeclaredSteps

LEMMA DeliveredIsResponse ==
  ASSUME NEW request, NEW upstream, IsResponse(upstream)
  PROVE  Delivered(request, upstream).response # NoResponse
<1>1. PICK status, media, body :
        Delivered(request, upstream).response = [status |-> status, media |-> media, body |-> body]
  <2>1. CASE fault = "none"
    BY <2>1 DEF Delivered, Proxy!NotTriggered, IsResponse
  <2>2. CASE fault # "none"
    <3> DEFINE application == Proxy!ApplyResponseFault(Faults[fault], request, upstream)
    <3>1. \/ \E reason : application = Proxy!NotTriggered(upstream, reason)
          \/ \E body : application = Proxy!Applied(Proxy!WithBody(upstream, body))
          \/ \E status : application = Proxy!Applied(Proxy!WithStatus(upstream, status))
      BY ApplyOutcome
    <3>2. Delivered(request, upstream) = application
      BY <2>2 DEF Delivered
    <3> HIDE DEF application
    <3>3. CASE \E reason : application = Proxy!NotTriggered(upstream, reason)
      BY <3>2, <3>3 DEF IsResponse, Proxy!NotTriggered
    <3>4. CASE \E body : application = Proxy!Applied(Proxy!WithBody(upstream, body))
      <4>1. PICK body : application = Proxy!Applied(Proxy!WithBody(upstream, body))
        BY <3>4
      <4>2. [upstream EXCEPT !.body = body] =
              [status |-> upstream.status, media |-> upstream.media, body |-> body]
        BY DEF IsResponse
      <4>3. application.response = [upstream EXCEPT !.body = body]
        BY <4>1 DEF Proxy!Applied, Proxy!WithBody
      <4> QED
        BY <3>2, <4>2, <4>3
    <3>5. CASE \E status : application = Proxy!Applied(Proxy!WithStatus(upstream, status))
      <4>1. PICK status : application = Proxy!Applied(Proxy!WithStatus(upstream, status))
        BY <3>5
      <4>2. [upstream EXCEPT !.status = status] =
              [status |-> status, media |-> upstream.media, body |-> upstream.body]
        BY DEF IsResponse
      <4>3. application.response = [upstream EXCEPT !.status = status]
        BY <4>1 DEF Proxy!Applied, Proxy!WithStatus
      <4> QED
        BY <3>2, <4>2, <4>3
    <3> QED
      BY <3>1, <3>3, <3>4, <3>5
  <2> QED
    BY <2>1, <2>2
<1> HIDE DEF IsResponse
<1>2. [status |-> status, media |-> media, body |-> body] # NoResponse
  BY DEF NoResponse
<1> QED
  BY <1>1, <1>2

\* What executing a step keeps.
LEMMA KeptExecution ==
  ASSUME NEW k, ExecuteStep(k)
  PROVE  \E execution : /\ Keep(k, execution)
                        /\ execution.executed = TRUE
                        /\ execution.outcome # "skipped"
                        /\ execution.outcome = "passed" => execution.response # NoResponse
<1> DEFINE request == Build(Steps[k], scope)
<1>1. CASE Keep(k, Unsent(k, request))
  <2>1. Unsent(k, request).executed = TRUE /\ Unsent(k, request).outcome = "error"
    BY DEF Unsent, Skipped
  <2> QED
    BY <1>1, <2>1
<1>2. CASE Service!Handle(request) /\ Keep(k, Answered(k, request, answer'))
  <2>1. Delivered(request, answer').response # NoResponse
    BY <1>2, HandleAnswers, DeliveredIsResponse
  <2>2. /\ Answered(k, request, answer').executed = TRUE
        /\ Answered(k, request, answer').outcome # "skipped"
        /\ Answered(k, request, answer').response = Delivered(request, answer').response
    BY DEF Answered, EvaluationOutcome
  <2> QED
    BY <1>2, <2>1, <2>2
<1> QED
  BY <1>1, <1>2 DEF ExecuteStep

\* What is left of a run once the execution of its next step is kept.
LEMMA KeepEffect ==
  ASSUME RunInv, stage \in {"main", "cleanup"}, UNCHANGED case,
         NEW execution, Keep(next, execution)
  PROVE  /\ next \in 1..LastStep /\ LastStep' = LastStep /\ MainEnd' = MainEnd
         /\ TraceTyped'
         /\ trace'[next] = execution
         /\ \A k \in 1..LastStep : k # next => trace'[k] = trace[k]
<1>1. next \in 1..LastStep
  BY Positions DEF RunInv, PositionInv
<1>2. LastStep' = LastStep /\ MainEnd' = MainEnd
  BY DEF LastStep, MainEnd, Steps
<1> QED
  BY <1>1, <1>2 DEF Keep, RunInv, TraceTyped

LEMMA MainStep ==
  ASSUME RunInv, ExecuteMain
  PROVE  RunInv'
<1>1. UNCHANGED case /\ stage = "main"
  BY DEF ExecuteMain
<1>2. PICK execution :
        /\ Keep(next, execution)
        /\ execution.executed = TRUE
        /\ execution.outcome # "skipped"
        /\ execution.outcome = "passed" => execution.response # NoResponse
  BY KeptExecution DEF ExecuteMain
<1>3. /\ next \in 1..LastStep /\ LastStep' = LastStep /\ MainEnd' = MainEnd
      /\ TraceTyped'
      /\ trace'[next] = execution
      /\ \A k \in 1..LastStep : k # next => trace'[k] = trace[k]
  BY <1>1, <1>2, KeepEffect
<1>4. /\ next \in 1..MainEnd
      /\ LastStep \in Nat /\ MainEnd \in Nat /\ MainEnd <= LastStep
  BY <1>1, Positions DEF RunInv, PositionInv
<1>5. IF execution.outcome = "passed" /\ next < MainEnd
      THEN stage' = "main" /\ next' = next + 1
      ELSE stage' = "relations" /\ next' = MainEnd + 1
  BY <1>3 DEF ExecuteMain
<1>6. case' \in AdmissibleCases'
  BY <1>1 DEF RunInv, AdmissibleCases
<1>7. PositionInv' /\ EarlierInv'
  BY <1>3, <1>4, <1>5 DEF PositionInv, EarlierInv
<1>8. ExecutionsInv'
  <2> SUFFICES ASSUME NEW k \in 1..LastStep
               PROVE  /\ trace'[k].executed <=> trace'[k].outcome # "skipped"
                      /\ trace'[k].outcome = "passed" => trace'[k].response # NoResponse
                      /\ k >= next' => ~trace'[k].executed /\ trace'[k].extracted = <<>>
    BY <1>3 DEF ExecutionsInv
  <2>1. CASE k = next
    BY <1>2, <1>3, <1>4, <1>5, <2>1
  <2>2. CASE k # next
    <3>1. trace'[k] = trace[k]
      BY <1>3, <2>2
    <3>2. k >= next' => k >= next
      BY <1>4, <1>5
    <3> QED
      BY <1>1, <3>1, <3>2 DEF RunInv, ExecutionsInv
  <2> QED
    BY <2>1, <2>2
<1>9. MainFlowInv'
  <2>1. \A k \in 1..(next - 1) : trace'[k].outcome = "passed"
    BY <1>1, <1>3, <1>4 DEF RunInv, MainFlowInv
  <2>2. stage' = "main" => \A k \in 1..(next' - 1) : trace'[k].outcome = "passed"
    BY <1>2, <1>3, <1>4, <1>5, <2>1
  <2>3. ASSUME NEW j \in 1..MainEnd, NEW k \in 1..MainEnd, j < k, trace'[k].executed
        PROVE  trace'[j].outcome = "passed"
    <3>1. k <= next
      BY <1>1, <1>3, <1>4, <2>3 DEF RunInv, ExecutionsInv
    <3> QED
      BY <1>4, <2>1, <2>3, <3>1
  <2> QED
    BY <1>3, <2>2, <2>3 DEF MainFlowInv
<1> QED
  BY <1>3, <1>6, <1>7, <1>8, <1>9 DEF RunInv

LEMMA CleanupStep ==
  ASSUME RunInv, RunCleanup
  PROVE  RunInv'
<1>1. UNCHANGED case /\ stage = "cleanup" /\ next' = next + 1
      /\ stage' = IF next = LastStep THEN "done" ELSE "cleanup"
  BY DEF RunCleanup
<1>2. /\ next \in (MainEnd + 1)..LastStep
      /\ LastStep \in Nat /\ MainEnd \in Nat /\ MainEnd <= LastStep
      /\ LastStep' = LastStep /\ MainEnd' = MainEnd
  BY <1>1, Positions DEF RunInv, PositionInv, LastStep, MainEnd, Steps
<1>3. /\ TraceTyped'
      /\ \A k \in 1..LastStep : k # next => trace'[k] = trace[k]
      /\ trace'[next].executed <=> trace'[next].outcome # "skipped"
      /\ trace'[next].outcome = "passed" => trace'[next].response # NoResponse
  <2>1. CASE ExecuteStep(next)
    <3>1. PICK execution :
            /\ Keep(next, execution)
            /\ execution.executed = TRUE
            /\ execution.outcome # "skipped"
            /\ execution.outcome = "passed" => execution.response # NoResponse
      BY <2>1, KeptExecution
    <3> QED
      BY <1>1, <3>1, KeepEffect
  <2>2. CASE UNCHANGED trace
    BY <1>2, <2>2 DEF RunInv, TraceTyped, ExecutionsInv
  <2> QED
    BY <2>1, <2>2 DEF RunCleanup
<1>4. case' \in AdmissibleCases'
  BY <1>1 DEF RunInv, AdmissibleCases
<1>5. PositionInv' /\ EarlierInv'
  BY <1>1, <1>2 DEF PositionInv, EarlierInv
<1>6. ExecutionsInv'
  <2> SUFFICES ASSUME NEW k \in 1..LastStep
               PROVE  /\ trace'[k].executed <=> trace'[k].outcome # "skipped"
                      /\ trace'[k].outcome = "passed" => trace'[k].response # NoResponse
                      /\ k >= next' => ~trace'[k].executed /\ trace'[k].extracted = <<>>
    BY <1>2 DEF ExecutionsInv
  <2>1. CASE k = next
    BY <1>1, <1>2, <1>3, <2>1
  <2>2. CASE k # next
    <3>1. trace'[k] = trace[k]
      BY <1>3, <2>2
    <3>2. k >= next' => k >= next
      BY <1>1, <1>2
    <3> QED
      BY <1>1, <3>1, <3>2 DEF RunInv, ExecutionsInv
  <2> QED
    BY <2>1, <2>2
<1>7. MainFlowInv'
  <2>1. \A k \in 1..MainEnd : trace'[k] = trace[k]
    BY <1>2, <1>3
  <2> QED
    BY <1>1, <1>2, <2>1 DEF RunInv, MainFlowInv
<1> QED
  BY <1>3, <1>4, <1>5, <1>6, <1>7 DEF RunInv

FreshRun ==
  /\ case \in AdmissibleCases /\ stage = "earlier"
  /\ halted = 0 /\ scope = <<>>
  /\ trace = NothingExecuted /\ relationResults = NothingEvaluated

LEMMA SkippedFields ==
  ASSUME NEW k
  PROVE  /\ Skipped(k).executed = FALSE /\ Skipped(k).outcome = "skipped"
         /\ Skipped(k).extracted = <<>>
BY DEF Skipped

LEMMA FreshRunInv == FreshRun => RunInv
<1> SUFFICES ASSUME FreshRun PROVE RunInv
  OBVIOUS
<1>1. TraceTyped /\ \A k \in 1..LastStep : trace[k] = Skipped(k)
  BY DEF FreshRun, TraceTyped, NothingExecuted
<1>2. \A k \in 1..LastStep : trace[k].executed = FALSE /\ trace[k].outcome = "skipped"
  BY <1>1, SkippedFields
<1>3. stage = "earlier"
  BY DEF FreshRun
<1>4. PositionInv /\ EarlierInv
  BY <1>3 DEF FreshRun, PositionInv, EarlierInv
<1>5. ExecutionsInv
  BY <1>2, <1>3 DEF ExecutionsInv
<1>6. MainFlowInv
  BY <1>2, <1>3, Positions DEF FreshRun, MainFlowInv
<1> QED
  BY <1>1, <1>4, <1>5, <1>6 DEF FreshRun, RunInv

LEMMA RunStep ==
  ASSUME RunInv, [Next]_vars
  PROVE  RunInv'
<1>1. CASE EarlierRequest
  <2>1. FreshRun'
    BY <1>1 DEF EarlierRequest, RunInv, EarlierInv, FreshRun, AdmissibleCases,
                NothingExecuted, NothingEvaluated, Skipped, Required, IsCleanup, MainEnd, LastStep, Steps, Relations
  <2> QED
    BY <2>1, FreshRunInv, PTL
<1>2. CASE StartCase
  <2>1. /\ stage = "earlier" /\ stage' = "main" /\ next' = 1
        /\ UNCHANGED <<case, trace>> /\ trace = NothingExecuted
    BY <1>2 DEF StartCase, RunInv, EarlierInv
  <2>2. LastStep' = LastStep /\ MainEnd' = MainEnd /\ AdmissibleCases' = AdmissibleCases
    BY <2>1 DEF LastStep, MainEnd, Steps, AdmissibleCases
  <2>3. ASSUME NEW k \in 1..LastStep PROVE trace[k] = Skipped(k)
    BY <2>1 DEF NothingExecuted
  <2>4. \A k \in 1..LastStep : /\ trace[k].executed = FALSE
                               /\ trace[k].outcome = "skipped"
                               /\ trace[k].extracted = <<>>
    BY <2>3, SkippedFields
  <2>5. PositionInv' /\ EarlierInv'
    BY <2>1, <2>2, Positions DEF RunInv, PositionInv, EarlierInv
  <2>6. ExecutionsInv'
    BY <2>1, <2>2, <2>4 DEF ExecutionsInv
  <2>7. MainFlowInv'
    BY <2>1, <2>2, <2>4, Positions DEF RunInv, MainFlowInv
  <2> QED
    BY <2>1, <2>2, <2>5, <2>6, <2>7 DEF RunInv, TraceTyped
<1>3. CASE ExecuteMain
  BY <1>3, MainStep
<1>4. CASE EvaluateRelations
  <2>1. /\ stage = "relations" /\ UNCHANGED <<case, trace, next>>
        /\ stage' = IF next > LastStep THEN "done" ELSE "cleanup"
    BY <1>4 DEF EvaluateRelations
  <2>2. LastStep' = LastStep /\ MainEnd' = MainEnd /\ AdmissibleCases' = AdmissibleCases
    BY <2>1 DEF LastStep, MainEnd, Steps, AdmissibleCases
  <2>3. PositionInv' /\ EarlierInv'
    BY <2>1, <2>2, Positions DEF RunInv, PositionInv, EarlierInv
  <2>4. ExecutionsInv' /\ MainFlowInv'
    BY <2>1, <2>2 DEF RunInv, ExecutionsInv, MainFlowInv
  <2> QED
    BY <2>1, <2>2, <2>3, <2>4 DEF RunInv, TraceTyped
<1>5. CASE RunCleanup
  BY <1>5, CleanupStep
<1>6. CASE StartFaultRun
  <2>1. FreshRun'
    BY <1>6 DEF StartFaultRun, RunInv, FreshRun, AdmissibleCases,
                NothingExecuted, NothingEvaluated, Skipped, Required, IsCleanup, MainEnd, LastStep, Steps, Relations
  <2> QED
    BY <2>1, FreshRunInv, PTL
<1>7. CASE UNCHANGED vars
  <2>1. UNCHANGED <<case, stage, next, halted, scope, trace, relationResults>>
    BY <1>7 DEF vars, executor
  <2> QED
    BY <2>1 DEF RunInv, TraceTyped, PositionInv, EarlierInv, ExecutionsInv, MainFlowInv,
                AdmissibleCases, NothingExecuted, NothingEvaluated, Skipped, Required, IsCleanup,
                MainEnd, LastStep, Steps, Relations
<1> QED
  BY <1>1, <1>2, <1>3, <1>4, <1>5, <1>6, <1>7 DEF Next

LEMMA RunInvHolds == Spec => []RunInv
<1>1. Init => RunInv
  BY FreshRunInv DEF Init, FreshRun
<1>2. RunInv /\ [Next]_vars => RunInv'
  BY RunStep
<1> QED
  BY <1>1, <1>2, PTL DEF Spec

----------------------------------------------------------------------------
(* What validation says of a step. *)

LEMMA StepHasNoIssues ==
  ASSUME case \in AdmissibleCases, NEW k \in 1..LastStep
  PROVE  StepIssues(Steps[k], AvailableAt(case, k, <<>>), <<>>) = {}
<1>1. CaseIssues(case, <<>>) = {}
  BY DEF AdmissibleCases, Admissible
<1>2. StepsIssues(case, <<>>) = {}
  BY <1>1 DEF CaseIssues
<1>3. k \in DOMAIN Steps
  <2>1. PICK all : all = Steps
    OBVIOUS
  <2>2. \E S : all \in Seq(S)
    BY <2>1, StepsAreSequence
  <2> QED
    BY <2>1, <2>2 DEF LastStep
<1> QED
  BY <1>2, <1>3 DEF StepsIssues, Steps

LEMMA StepReferences ==
  ASSUME case \in AdmissibleCases, NEW k \in 1..LastStep
  PROVE  /\ References(Steps[k]) \subseteq AvailableAt(case, k, <<>>)
         /\ ParameterIssues(Steps[k], <<>>) = {}
BY StepHasNoIssues DEF StepIssues, Issue

\* A parameter is a variable the step refers to, or a scalar.
LEMMA ParametersAreScalars ==
  ASSUME case \in AdmissibleCases, NEW k \in 1..LastStep,
         NEW value \in PathValues(Steps[k]) \cup QueryValues(Steps[k])
  PROVE  IF IsReference(value) THEN RequestReferences(Steps[k]) # {} ELSE IsScalar(value)
<1>1. CASE IsReference(value)
  <2>1. value \in Parts(value)
    BY DEF Parts, Nested
  <2>2. value.var \in VariableReferences(value)
    BY <1>1, <2>1 DEF VariableReferences
  <2> QED
    BY <1>1, <2>2 DEF RequestReferences
<1>2. CASE ~IsReference(value)
  <2>1. PICK given \in Provided(Steps[k]) : given[3] = value
    <3>1. CASE value \in PathValues(Steps[k])
      <4>1. PICK name \in DOMAIN Steps[k].path : value = Steps[k].path[name]
        BY <3>1 DEF PathValues
      <4>2. <<"path", name, value>> \in Provided(Steps[k])
        BY <4>1 DEF Provided
      <4> QED
        BY <4>2
    <3>2. CASE value \in QueryValues(Steps[k])
      <4>1. PICK i \in DOMAIN Steps[k].query : value = Steps[k].query[i][2]
        BY <3>2 DEF QueryValues
      <4>2. <<"query", Steps[k].query[i][1], value>> \in Provided(Steps[k])
        BY <4>1 DEF Provided
      <4> QED
        BY <4>2
    <3> QED
      BY <3>1, <3>2
  <2>2. ~(Declared(Steps[k].op, given) = {})
    BY StepReferences DEF ParameterIssues, Issue
  <2>3. IsScalar(Static(given[3], <<>>))
    BY <2>2, StepReferences DEF ParameterIssues, Issue
  <2> QED
    BY <1>2, <2>1, <2>3 DEF Static
<1> QED
  BY <1>1, <1>2

\* When the request of a step is built.
LEMMA BuildOutcome ==
  ASSUME case \in AdmissibleCases, NEW k \in 1..LastStep
  PROVE  IF IsBuilt(Build(Steps[k], scope))
         THEN RequestReferences(Steps[k]) \subseteq DOMAIN scope /\ ~LacksPath(Steps[k])
         ELSE RequestReferences(Steps[k]) # {} \/ LacksPath(Steps[k])
<1> DEFINE step == Steps[k]
<1>1. ~IsBuilt(BuildError)
  BY DEF IsBuilt, BuildError
<1>2. CASE ~(RequestReferences(step) \subseteq DOMAIN scope)
  BY <1>1, <1>2 DEF Build
<1>3. CASE LacksPath(step)
  BY <1>1, <1>3 DEF Build, LacksPath
<1>4. CASE /\ RequestReferences(step) \subseteq DOMAIN scope
           /\ ~LacksPath(step) /\ ~Serializable(step, scope)
  <2>1. ~IsBuilt(Build(step, scope))
    BY <1>1, <1>4 DEF Build, LacksPath
  <2>2. PICK value \in PathValues(step) \cup QueryValues(step) : ~IsScalar(Lookup(value, scope))
    BY <1>4 DEF Serializable
  <2> QED
    BY <2>1, <2>2, ParametersAreScalars DEF Lookup
<1>5. CASE /\ RequestReferences(step) \subseteq DOMAIN scope
           /\ ~LacksPath(step) /\ Serializable(step, scope)
  BY <1>5 DEF Build, LacksPath, IsBuilt
<1> QED
  BY <1>2, <1>3, <1>4, <1>5

----------------------------------------------------------------------------
(* The execution of a step, as CaseExecution sees it. *)

LEMMA MaxIs ==
  ASSUME NEW S \in SUBSET Nat, NEW m \in S, \A n \in S : n <= m
  PROVE  Max(S) = m
<1> DEFINE found == CHOOSE x \in S : \A y \in S : x >= y
<1>1. \A y \in S : m >= y
  OBVIOUS
<1>2. found \in S /\ \A y \in S : found >= y
  BY <1>1
<1> HIDE DEF found
<1>3. found = m
  BY <1>2
<1> QED
  BY <1>3 DEF Max, found

\* Keeping an execution stores its result and makes the step the setter of what
\* it extracted.
LEMMA KeepStores ==
  ASSUME RunInv, stage \in {"main", "cleanup"}, UNCHANGED case,
         NEW c, NEW execution, Keep(next, execution)
  PROVE  Executor(c)!Store(next, Result(execution))
<1>1. /\ next \in 1..LastStep /\ LastStep' = LastStep
      /\ trace'[next] = execution
      /\ \A k \in 1..LastStep : k # next => trace'[k] = trace[k]
  BY KeepEffect
<1>2. LastStep \in Nat
  BY Positions DEF RunInv
<1>3. /\ \A k \in 1..LastStep : k > next => DOMAIN trace'[k].extracted = {}
      /\ DOMAIN trace[next].extracted = {}
  BY <1>1, <1>2 DEF RunInv, ExecutionsInv
<1>4. ASSUME NEW v \in DOMAIN execution.extracted
      PROVE  Setter(v)' = next
  <2> DEFINE setters == {k \in 1..LastStep : v \in DOMAIN trace'[k].extracted}
  <2>1. setters \in SUBSET Nat /\ next \in setters
    BY <1>1
  <2>2. \A k \in setters : k <= next
    BY <1>1, <1>2, <1>3
  <2>3. Max(setters) = next
    BY <2>1, <2>2, MaxIs
  <2> QED
    BY <1>1, <2>3 DEF Setter
<1>5. ASSUME NEW v, v \notin DOMAIN execution.extracted
      PROVE  Setter(v)' = Setter(v)
  <2>1. {k \in 1..LastStep : v \in DOMAIN trace'[k].extracted} =
          {k \in 1..LastStep : v \in DOMAIN trace[k].extracted}
    BY <1>1, <1>3, <1>5
  <2> QED
    BY <1>1, <2>1 DEF Setter
<1>6. DOMAIN scope' = DOMAIN scope \cup DOMAIN execution.extracted
  BY DEF Keep
<1>7. Result(execution).extracted = DOMAIN execution.extracted
  BY DEF Result
<1>8. [v \in DOMAIN scope' |-> Setter(v)'] =
        [v \in DOMAIN scope \cup Result(execution).extracted |->
           IF v \in Result(execution).extracted THEN next ELSE Setter(v)]
  BY <1>4, <1>5, <1>6, <1>7
<1>9. [k \in 1..LastStep |-> Result(trace'[k])] =
        [[k \in 1..LastStep |-> Result(trace[k])] EXCEPT ![next] = Result(execution)]
  BY <1>1
<1> QED
  BY <1>1, <1>8, <1>9 DEF Executor!Store

LEMMA DeclaredRequired ==
  ASSUME case \in AdmissibleCases, NEW c, c = DeclaredCase, NEW k \in 1..LastStep
  PROVE  Executor(c)!Required(k) = Required(k) /\ Required(k) \in BOOLEAN
<1>1. Executor(c)!IsCleanup(k) = IsCleanup(k)
  BY DeclaredSteps DEF Executor!IsCleanup, IsCleanup
<1>2. IsCleanup(k) => Executor(c)!Steps[k].ignoreErrors = Steps[k].ignoreErrors
  BY DeclaredSteps, DeclaredFields
<1> QED
  BY <1>1, <1>2 DEF Executor!Required, Required

LEMMA UnsentFields ==
  ASSUME NEW k, NEW request
  PROVE  /\ Unsent(k, request).required = Required(k)
         /\ Unsent(k, request).outcome = "error"
         /\ Unsent(k, request).request = request
         /\ Unsent(k, request).response = NoResponse
         /\ Unsent(k, request).marked = FALSE
         /\ Unsent(k, request).failed = FALSE
         /\ Unsent(k, request).extracted = <<>>
BY DEF Unsent, Skipped

LEMMA UnsentResult ==
  ASSUME case \in AdmissibleCases, NEW c, c = DeclaredCase, NEW k \in 1..LastStep,
         NEW request, NEW built \in BOOLEAN, IsBuilt(request) = built
  PROVE  Result(Unsent(k, request)) = Executor(c)!Unanswered(k, built)
<1> DEFINE unsent == Unsent(k, request)
<1>1. /\ unsent.required = Required(k) /\ unsent.outcome = "error"
      /\ unsent.request = request /\ unsent.response = NoResponse
      /\ unsent.marked = FALSE /\ unsent.failed = FALSE /\ unsent.extracted = <<>>
  BY UnsentFields
<1> HIDE DEF unsent
<1>2. DOMAIN unsent.extracted = {}
  BY <1>1
<1>3. (unsent.response # NoResponse) = FALSE
  BY <1>1
<1>4. Result(unsent) =
        [required |-> Required(k), outcome |-> "error", request |-> built,
         response |-> FALSE, marked |-> FALSE, failed |-> FALSE, extracted |-> {}]
  BY <1>1, <1>2, <1>3 DEF Result
<1>5. Executor(c)!Unanswered(k, built) =
        [required |-> Required(k), outcome |-> "error", request |-> built,
         response |-> FALSE, marked |-> FALSE, failed |-> FALSE, extracted |-> {}]
  <2>1. PICK required \in BOOLEAN : required = Required(k)
    BY DeclaredRequired
  <2>2. Executor(c)!Required(k) = required
    BY <2>1, DeclaredRequired
  <2>3. Executor(c)!Skipped(k) =
          [required |-> required, outcome |-> "skipped", request |-> FALSE,
           response |-> FALSE, marked |-> FALSE, failed |-> FALSE, extracted |-> {}]
    BY <2>2 DEF Executor!Skipped
  <2> DEFINE fields == {"required", "outcome", "request", "response", "marked", "failed", "extracted"}
             unanswered == Executor(c)!Unanswered(k, built)
  <2>4. unanswered = [field \in fields |-> IF field = "request" THEN built
                                           ELSE IF field = "outcome" THEN "error"
                                           ELSE Executor(c)!Skipped(k)[field]]
    BY <2>3 DEF Executor!Unanswered
  <2>5. /\ unanswered = [field \in fields |-> unanswered[field]]
        /\ unanswered["required"] = required /\ unanswered["outcome"] = "error"
        /\ unanswered["request"] = built /\ unanswered["response"] = FALSE
        /\ unanswered["marked"] = FALSE /\ unanswered["failed"] = FALSE
        /\ unanswered["extracted"] = {}
    BY <2>3, <2>4
  <2> HIDE DEF unanswered
  <2>6. unanswered = [required |-> required, outcome |-> "error", request |-> built,
                      response |-> FALSE, marked |-> FALSE, failed |-> FALSE, extracted |-> {}]
    BY <2>5
  <2> QED
    BY <2>1, <2>6 DEF unanswered
<1> QED
  BY <1>4, <1>5 DEF unsent

\* A request that cannot be built.
LEMMA UnbuiltIsBuildFails ==
  ASSUME RunInv, stage \in {"main", "cleanup"}, UNCHANGED case, NEW c, c = DeclaredCase,
         ~IsBuilt(Build(Steps[next], scope)), Keep(next, Unsent(next, Build(Steps[next], scope)))
  PROVE  Executor(c)!BuildFails(next)
<1>1. next \in 1..LastStep
  BY KeepEffect
<1>2. RequestReferences(Steps[next]) # {} \/ LacksPath(Steps[next])
  BY <1>1, BuildOutcome DEF RunInv
<1>3. Executor(c)!Steps[next].uses # {} \/ Executor(c)!Steps[next].lacksPath
  BY <1>1, <1>2, DeclaredSteps, DeclaredFields DEF RunInv
<1>4. PICK request : request = Build(Steps[next], scope)
  OBVIOUS
<1>5. IsBuilt(request) = FALSE
  BY <1>4 DEF IsBuilt
<1>6. Executor(c)!Store(next, Executor(c)!Unanswered(next, FALSE))
  BY <1>1, <1>4, <1>5, KeepStores, UnsentResult DEF RunInv
<1> QED
  BY <1>3, <1>6 DEF Executor!BuildFails

LEMMA BuiltIsBuildable ==
  ASSUME RunInv, NEW c, c = DeclaredCase, NEW k \in 1..LastStep, IsBuilt(Build(Steps[k], scope))
  PROVE  Executor(c)!Buildable(k)
<1>1. RequestReferences(Steps[k]) \subseteq DOMAIN scope /\ ~LacksPath(Steps[k])
  BY BuildOutcome DEF RunInv
<1>2. /\ Executor(c)!Steps[k].uses = RequestReferences(Steps[k])
      /\ Executor(c)!Steps[k].lacksPath = LacksPath(Steps[k])
  BY DeclaredSteps, DeclaredFields DEF RunInv
<1> QED
  BY <1>1, <1>2 DEF Executor!Buildable

\* A request that does not keep what its mode says of the contract.
LEMMA BlockedIsNoResponse ==
  ASSUME RunInv, stage \in {"main", "cleanup"}, UNCHANGED case, NEW c, c = DeclaredCase,
         IsBuilt(Build(Steps[next], scope)), Keep(next, Unsent(next, Build(Steps[next], scope)))
  PROVE  Executor(c)!NoResponse(next)
<1>1. next \in 1..LastStep
  BY KeepEffect
<1>2. PICK request : request = Build(Steps[next], scope)
  OBVIOUS
<1>3. IsBuilt(request) = TRUE
  BY <1>2 DEF IsBuilt
<1>4. Executor(c)!Store(next, Executor(c)!Unanswered(next, TRUE))
  BY <1>1, <1>2, <1>3, KeepStores, UnsentResult DEF RunInv
<1> QED
  BY <1>1, <1>4, BuiltIsBuildable DEF Executor!NoResponse


LEMMA DeliveredMarking ==
  ASSUME NEW request, NEW upstream, IsResponse(upstream)
  PROVE  Delivered(request, upstream).triggered \in {FALSE, (fault # "none")}
<1>1. Delivered(request, upstream).triggered \in BOOLEAN
  <2>1. CASE fault = "none"
    BY <2>1 DEF Delivered, Proxy!NotTriggered
  <2>2. CASE fault # "none"
    <3> DEFINE application == Proxy!ApplyResponseFault(Faults[fault], request, upstream)
    <3>1. \/ \E reason : application = Proxy!NotTriggered(upstream, reason)
          \/ \E body : application = Proxy!Applied(Proxy!WithBody(upstream, body))
          \/ \E status : application = Proxy!Applied(Proxy!WithStatus(upstream, status))
      BY ApplyOutcome
    <3> HIDE DEF application
    <3>2. ASSUME NEW reason PROVE Proxy!NotTriggered(upstream, reason).triggered = FALSE
      BY DEF Proxy!NotTriggered
    <3>3. ASSUME NEW response PROVE Proxy!Applied(response).triggered = TRUE
      BY DEF Proxy!Applied
    <3>4. application.triggered \in BOOLEAN
      BY <3>1, <3>2, <3>3
    <3> QED
      BY <2>2, <3>4 DEF Delivered, application
  <2> QED
    BY <2>1, <2>2
<1>2. fault = "none" => Delivered(request, upstream).triggered = FALSE
  BY DEF Delivered, Proxy!NotTriggered
<1> QED
  BY <1>1, <1>2

\* A check whose expected value is unknown has no verdict.
LEMMA UncheckedErrs ==
  ASSUME NEW step, NEW response, NEW hasIssues,
         ~(AssertionReferences(step) \subseteq DOMAIN scope)
  PROVE  StepErrs(step, response, hasIssues, scope)
<1>1. PICK i \in DOMAIN step.assertions :
        /\ step.assertions[i].operator \in SelectorOperators
        /\ IsReference(step.assertions[i].expected)
        /\ step.assertions[i].expected.var \notin DOMAIN scope
  BY DEF AssertionReferences
<1>2. step.assertions[i].operator \notin {"status_is", "status_in", "schema_matches"}
  BY <1>1 DEF SelectorOperators
<1>3. ExpectedValue(step.assertions[i], scope) = Unselectable
  BY <1>1 DEF ExpectedValue
<1>4. ExecuteAssertion(step.assertions[i], response, hasIssues, scope) = "error"
  BY <1>2, <1>3 DEF ExecuteAssertion
<1> QED
  BY <1>1, <1>4 DEF StepErrs, Verdicts

\* An extraction that found nothing counts against the step if it is required.
LEMMA ExtractionsCount ==
  ASSUME NEW step, NEW response, NEW hasIssues,
         NEW extracted, extracted = DOMAIN Extracted(step.extract, response)
  PROVE  /\ extracted \subseteq Variables(step.extract)
         /\ {extraction.variable : extraction \in {e \in ToSet(step.extract) : e.required}} \subseteq extracted
            \/ StepFails(step, response, hasIssues, scope) \/ StepErrs(step, response, hasIssues, scope)
<1> DEFINE found == {i \in DOMAIN step.extract : ExtractionStatus(step.extract[i], response) = "extracted"}
<1>1. extracted = {step.extract[i].variable : i \in found}
  BY DEF Extracted
<1>2. ToSet(step.extract) = {step.extract[i] : i \in DOMAIN step.extract}
  BY DEF ToSet
<1>3. extracted \subseteq Variables(step.extract)
  BY <1>1, <1>2 DEF Variables
<1>4. ASSUME NEW i \in DOMAIN step.extract, step.extract[i].required, i \notin found
      PROVE  StepFails(step, response, hasIssues, scope) \/ StepErrs(step, response, hasIssues, scope)
  <2>1. ExtractionStatus(step.extract[i], response) \in {"error", "missing", "extracted"}
    BY DEF ExtractionStatus
  <2> QED
    BY <1>4, <2>1 DEF StepFails, StepErrs
<1>5. ASSUME NEW v \in {extraction.variable : extraction \in {e \in ToSet(step.extract) : e.required}},
             v \notin extracted
      PROVE  StepFails(step, response, hasIssues, scope) \/ StepErrs(step, response, hasIssues, scope)
  <2>1. PICK i \in DOMAIN step.extract : step.extract[i].required /\ step.extract[i].variable = v
    BY <1>2, <1>5
  <2>2. i \notin found
    BY <1>1, <1>5, <2>1
  <2> QED
    BY <1>4, <2>1, <2>2
<1> QED
  BY <1>3, <1>5

\* What CaseExecution sees of a step that was answered.
AnsweredAs(k, execution, failed, errored, marked, extracted) ==
  /\ {failed, errored} \subseteq BOOLEAN /\ marked \in {FALSE, (fault # "none")}
  /\ extracted \subseteq Variables(Steps[k].extract)
  /\ ~(AssertionReferences(Steps[k]) \subseteq DOMAIN scope) => errored
  /\ ~(DeclaredAt(k).required \subseteq extracted) => failed \/ errored
  /\ Result(execution) =
       [required |-> Required(k), outcome |-> EvaluationOutcome(failed, errored),
        request |-> TRUE, response |-> TRUE, marked |-> marked,
        failed |-> failed, extracted |-> extracted]

LEMMA AnsweredResult ==
  ASSUME case \in AdmissibleCases, NEW k \in 1..LastStep, NEW request, IsBuilt(request),
         NEW upstream, IsResponse(upstream)
  PROVE  \E failed, errored, marked, extracted :
           AnsweredAs(k, Answered(k, request, upstream), failed, errored, marked, extracted)
<1> DEFINE application == Delivered(request, upstream)
           response == application.response
           hasIssues == ResponseHasIssues(request, response)
           fails == StepFails(Steps[k], response, hasIssues, scope)
           errs == StepErrs(Steps[k], response, hasIssues, scope)
           extracted == DOMAIN Extracted(Steps[k].extract, response)
<1>1. PICK failed \in BOOLEAN : failed = fails
  BY DEF StepFails
<1>2. PICK errored \in BOOLEAN : errored = errs
  BY DEF StepErrs
<1>3. PICK marked \in {FALSE, (fault # "none")} : marked = application.triggered
  BY DeliveredMarking
<1>4. /\ extracted \subseteq Variables(Steps[k].extract)
      /\ DeclaredAt(k).required \subseteq extracted \/ fails \/ errs
  <2>1. DeclaredAt(k).required =
          {extraction.variable : extraction \in {e \in ToSet(Steps[k].extract) : e.required}}
    BY DeclaredFields
  <2>2. PICK found : found = extracted
    OBVIOUS
  <2> QED
    BY <2>1, <2>2, ExtractionsCount
<1>5. ~(AssertionReferences(Steps[k]) \subseteq DOMAIN scope) => errs
  BY UncheckedErrs
<1>6. PICK execution : execution = Answered(k, request, upstream)
  OBVIOUS
<1>7. /\ execution.required = Required(k) /\ execution.outcome = EvaluationOutcome(failed, errored)
      /\ execution.request = request /\ execution.response = response
      /\ execution.marked = marked /\ execution.failed = failed
      /\ DOMAIN execution.extracted = extracted
  BY <1>1, <1>2, <1>3, <1>6 DEF Answered
<1>8. (response # NoResponse) = TRUE
  BY DeliveredIsResponse
<1>9. IsBuilt(request) = TRUE
  BY DEF IsBuilt
<1> HIDE DEF response, extracted
<1>10. Result(execution) =
         [required |-> Required(k), outcome |-> EvaluationOutcome(failed, errored),
          request |-> TRUE, response |-> TRUE, marked |-> marked,
          failed |-> failed, extracted |-> extracted]
  BY <1>7, <1>8, <1>9 DEF Result
<1> HIDE DEF fails, errs
<1>11. AnsweredAs(k, execution, failed, errored, marked, extracted)
  BY <1>1, <1>2, <1>4, <1>5, <1>10 DEF AnsweredAs
<1> QED
  BY <1>6, <1>11

LEMMA AnsweredIsResponds ==
  ASSUME RunInv, stage \in {"main", "cleanup"}, UNCHANGED case, NEW c, c = DeclaredCase,
         NEW request, request = Build(Steps[next], scope), IsBuilt(request),
         NEW upstream, IsResponse(upstream), Keep(next, Answered(next, request, upstream))
  PROVE  Executor(c)!Responds(next)
<1>1. next \in 1..LastStep
  BY KeepEffect
<1>2. PICK failed, errored, marked, extracted :
        AnsweredAs(next, Answered(next, request, upstream), failed, errored, marked, extracted)
  BY <1>1, AnsweredResult DEF RunInv
<1>3. Executor(c)!Store(next, Result(Answered(next, request, upstream)))
  BY KeepStores
<1>4. /\ Executor(c)!Steps[next].extracts = Variables(Steps[next].extract)
      /\ Executor(c)!Steps[next].checks = AssertionReferences(Steps[next])
      /\ Executor(c)!Steps[next].required = DeclaredAt(next).required
      /\ Executor(c)!Required(next) = Required(next)
  BY <1>1, DeclaredSteps, DeclaredFields, DeclaredRequired DEF RunInv
<1>5. c.faultActive = (fault # "none")
  BY DEF DeclaredCase
<1>6. Executor(c)!Buildable(next)
  BY <1>1, BuiltIsBuildable
<1>7. DOMAIN scope = DOMAIN [v \in DOMAIN scope |-> Setter(v)]
  OBVIOUS
<1>8. /\ extracted \in SUBSET Executor(c)!Steps[next].extracts
      /\ failed \in BOOLEAN /\ errored \in BOOLEAN /\ marked \in {FALSE, c.faultActive}
      /\ ~(Executor(c)!Steps[next].checks \subseteq DOMAIN [v \in DOMAIN scope |-> Setter(v)]) => errored
      /\ ~(Executor(c)!Steps[next].required \subseteq extracted) => failed \/ errored
  BY <1>2, <1>4, <1>5, <1>7 DEF AnsweredAs
<1>9. Executor(c)!EvaluationOutcome(failed, errored) = EvaluationOutcome(failed, errored)
  BY DEF Executor!EvaluationOutcome, EvaluationOutcome
<1>10. Executor(c)!Store(next,
         [required |-> Executor(c)!Required(next), outcome |-> Executor(c)!EvaluationOutcome(failed, errored),
          request |-> TRUE, response |-> TRUE, marked |-> marked,
          failed |-> failed, extracted |-> extracted])
  BY <1>2, <1>3, <1>4, <1>9 DEF AnsweredAs
<1> QED
  BY <1>6, <1>8, <1>10 DEF Executor!Responds

LEMMA ExecutionRefines ==
  ASSUME RunInv, stage \in {"main", "cleanup"}, UNCHANGED case, ExecuteStep(next),
         NEW c, c = DeclaredCase
  PROVE  Executor(c)!ExecuteStep(next)
<1>1. PICK request : request = Build(Steps[next], scope)
  OBVIOUS
<1>2. CASE Keep(next, Unsent(next, request))
  BY <1>1, <1>2, UnbuiltIsBuildFails, BlockedIsNoResponse DEF Executor!ExecuteStep
<1>3. CASE IsBuilt(request) /\ Service!Handle(request) /\ Keep(next, Answered(next, request, answer'))
  BY <1>1, <1>3, HandleAnswers, AnsweredIsResponds DEF Executor!ExecuteStep
<1> QED
  BY <1>1, <1>2, <1>3 DEF ExecuteStep

----------------------------------------------------------------------------
(* The relations of an admissible case, and what they come to. *)

LEMMA AdmissibleRelation ==
  ASSUME case \in AdmissibleCases, NEW r \in Relations
  PROVE  /\ RelationIsWellFormed(r) /\ r.type \in RelationTypes
         /\ r.source \in 1..MainEnd /\ r.followUp \in 1..MainEnd /\ r.source < r.followUp
         /\ r.type = "update_read_consistency" /\ r.stable # {} => r.baseline \in 1..(r.source - 1)
<1> DEFINE source == StepsOf(case)[r.source]
           followUp == StepsOf(case)[r.followUp]
<1>1. CaseIssues(case, <<>>) = {} /\ r \in case.relations
  BY DEF AdmissibleCases, Admissible, Relations
<1>2. RelationIssues(case, r) = {}
  BY <1>1 DEF CaseIssues
<1>3. ~(r.source >= r.followUp) /\ TypeIssues(case, r, source, followUp) = {}
  BY <1>2 DEF RelationIssues, Issue
<1>4. /\ RelationIsWellFormed(r)
      /\ r.source \in 1..MainEnd /\ r.followUp \in 1..MainEnd /\ r.baseline \in 0..MainEnd
  BY <1>1 DEF AdmissibleCases, Admissible, CaseIsWellFormed, MainEnd
<1>5. MainEnd \in Nat
  BY Positions
<1>6. ASSUME r.type = "update_read_consistency", r.stable # {}
      PROVE  r.baseline \in 1..(r.source - 1)
  <2>1. BaselineIssues(case, r, followUp) = {}
    BY <1>3, <1>6 DEF TypeIssues
  <2>2. ~(r.baseline >= r.source)
    BY <2>1 DEF BaselineIssues, Issue
  <2>3. r.baseline # 0
    BY <1>4, <1>6 DEF RelationIsWellFormed
  <2> QED
    BY <1>4, <1>5, <2>2, <2>3
<1> QED
  BY <1>3, <1>4, <1>5, <1>6, CaseLists

LEMMA VerdictValues ==
  /\ \A holds : Verdict(holds) \in {"passed", "failed"}
  /\ \A comparisons :
       /\ RelationVerdict(comparisons) \in {"passed", "failed", "error"}
       /\ "error" \in comparisons => RelationVerdict(comparisons) = "error"
BY DEF Verdict, RelationVerdict

LEMMA RepeatedReadVerdict ==
  ASSUME NEW r, NEW source, NEW followUp
  PROVE  RepeatedRead(r, source, followUp) \in {"passed", "failed", "error"}
BY VerdictValues DEF RepeatedRead

LEMMA RelationHasOutcome ==
  ASSUME NEW r, r.type \in RelationTypes, NEW executions
  PROVE  EvaluateRelation(r, executions) \in RelationOutcomes
<1> DEFINE source == executions[r.source]
           followUp == executions[r.followUp]
<1>1. Metamorphic(r, source, followUp) \in RelationOutcomes
  <2>1. /\ \A left, right, mode : PageKeys(left, right, mode) \in RelationOutcomes
        /\ \A left, right : SameKeys(left, right) \in RelationOutcomes
    BY DEF PageKeys, SameKeys, Verdict, RelationOutcomes
  <2>2. RepeatedRead(r, source, followUp) \in RelationOutcomes
    BY RepeatedReadVerdict DEF RelationOutcomes
  <2> QED
    BY <2>1, <2>2 DEF Metamorphic, RelationOutcomes
<1>2. CASE ~IsMetamorphic(r)
  <2>1. r.type \in {"create_read_consistency", "update_read_consistency", "delete_read_consistency"}
    BY <1>2 DEF IsMetamorphic, RelationTypes
  <2>2. DeleteRead(r, source, followUp) \in RelationOutcomes
    BY DEF DeleteRead, Verdict, RelationOutcomes
  <2>3. \A comparisons : RelationVerdict(comparisons) \in RelationOutcomes
    BY DEF RelationVerdict, RelationOutcomes
  <2>4. Lifecycle(r, source, followUp, executions) \in RelationOutcomes
    BY <2>1, <2>2, <2>3 DEF Lifecycle, RelationOutcomes
  <2> QED
    BY <1>2, <2>4 DEF EvaluateRelation, RelationOutcomes
<1> QED
  BY <1>1, <1>2 DEF EvaluateRelation, RelationOutcomes

LEMMA Unobserved ==
  ASSUME NEW execution, execution.response = NoResponse
  PROVE  /\ \A location, pointer :
              location # "request.body" =>
                SelectRelationValue(execution, location, pointer) = Unselectable
         /\ \A pointer : BodyValue(execution, pointer) = Unselectable
         /\ \A r : CollectionKeys(execution, r) = Unselectable
<1>1. \A location, pointer :
        location # "request.body" => SelectRelationValue(execution, location, pointer) = Unselectable
  BY DEF SelectRelationValue
<1>2. \A pointer : BodyValue(execution, pointer) = Unselectable
  BY <1>1 DEF BodyValue
<1>3. ~IsKind(Unselectable, "arr")
  BY DEF IsKind, Unselectable
<1>4. \A r : CollectionKeys(execution, r) = Unselectable
  BY <1>2, <1>3 DEF CollectionKeys
<1> QED
  BY <1>1, <1>2, <1>4

\* Without the later response only a relation that reads its request alone has
\* a verdict.
LEMMA UnobservedMetamorphic ==
  ASSUME NEW r, RelationIsWellFormed(r), IsMetamorphic(r), NEW source,
         NEW followUp, followUp.response = NoResponse
  PROVE  Metamorphic(r, source, followUp) \in {"not_applicable", "error"}
<1>1. /\ \A pointer : BodyValue(followUp, pointer) = Unselectable
      /\ CollectionKeys(followUp, r) = Unselectable
  BY Unobserved
<1>2. CASE r.type = "repeated_read_consistency"
  <2>1. r.compare # {}
    BY <1>2 DEF RelationIsWellFormed
  <2>2. RepeatedRead(r, source, followUp) = "error"
    BY <1>1, <2>1 DEF RepeatedRead, RelationVerdict
  <2> QED
    BY <1>2, <2>2 DEF Metamorphic
<1>3. CASE r.type # "repeated_read_consistency"
  BY <1>1, <1>3 DEF Metamorphic, PageKeys, SameKeys
<1> QED
  BY <1>2, <1>3

LEMMA UnobservedLifecycle ==
  ASSUME NEW r, RelationIsWellFormed(r), r.type \in RelationTypes, ~IsMetamorphic(r),
         ~DeclaredRelation(r).requestOnly, NEW source, NEW executions,
         NEW followUp, followUp.response = NoResponse
  PROVE  Lifecycle(r, source, followUp, executions) \in {"not_applicable", "error"}
<1>1. r.type \in {"create_read_consistency", "update_read_consistency", "delete_read_consistency"}
  BY DEF IsMetamorphic, RelationTypes
<1>2. CASE r.type = "delete_read_consistency"
  BY <1>2 DEF Lifecycle, DeleteRead
<1>3. ASSUME r.type # "delete_read_consistency", r.type = "update_read_consistency" => r.stable = {}
      PROVE  "error" \in FieldPairs(r, source, followUp)
  <2>1. PICK pair \in r.fieldPairs : pair[3] # "request.body"
    BY <1>1, <1>3 DEF DeclaredRelation
  <2>2. SelectRelationValue(followUp, pair[3], pair[4]) = Unselectable
    BY <2>1, Unobserved
  <2>3. Compare(SelectRelationValue(source, pair[1], pair[2]),
                SelectRelationValue(followUp, pair[3], pair[4])) = "error"
    BY <2>2 DEF Compare
  <2> QED
    BY <2>1, <2>3 DEF FieldPairs
<1>4. CASE r.type = "create_read_consistency"
  BY <1>3, <1>4 DEF Lifecycle, RelationVerdict
<1>5. CASE r.type = "update_read_consistency" /\ r.stable = {}
  BY <1>3, <1>5 DEF Lifecycle, RelationVerdict
<1>6. CASE r.type = "update_read_consistency" /\ r.stable # {}
  <2>1. PICK pointer : pointer \in r.stable
    BY <1>6
  <2>2. ASSUME NEW baseline
        PROVE  "error" \in Stable(r, baseline, followUp)
    <3>1. Compare(BodyValue(baseline, pointer), BodyValue(followUp, pointer)) = "error"
      BY Unobserved DEF Compare
    <3> QED
      BY <2>1, <3>1 DEF Stable
  <2>3. RelationVerdict(Stable(r, executions[r.baseline], followUp)
                        \cup FieldPairs(r, source, followUp)) = "error"
    BY <2>2, VerdictValues
  <2> QED
    BY <1>6, <2>3 DEF Lifecycle
<1> QED
  BY <1>1, <1>2, <1>4, <1>5, <1>6

LEMMA RelationRefines ==
  ASSUME RunInv, stage = "relations", NEW c, c = DeclaredCase, NEW r \in Relations
  PROVE  EvaluateRelation(r, trace) \in Executor(c)!RelationChoices(DeclaredRelation(r))
<1> DEFINE d == DeclaredRelation(r)
           source == trace[r.source]
           followUp == trace[r.followUp]
           outcome == EvaluateRelation(r, trace)
<1>1. /\ RelationIsWellFormed(r) /\ r.type \in RelationTypes
      /\ r.source \in 1..MainEnd /\ r.followUp \in 1..MainEnd /\ r.source < r.followUp
      /\ r.type = "update_read_consistency" /\ r.stable # {} => r.baseline \in 1..(r.source - 1)
  BY AdmissibleRelation DEF RunInv
<1>2. LastStep \in Nat /\ MainEnd \in Nat /\ MainEnd <= LastStep
  BY Positions DEF RunInv
<1>3. /\ d.source = r.source /\ d.followUp = r.followUp
      /\ d.baseline = IF r.type = "update_read_consistency" /\ r.stable # {} THEN r.baseline ELSE 0
  BY DEF DeclaredRelation
<1>4. ASSUME NEW k \in 1..LastStep
      PROVE  /\ Executor(c)!Executed(k) <=> trace[k].executed
             /\ [j \in 1..LastStep |-> Result(trace[j])][k].request = IsBuilt(trace[k].request)
             /\ [j \in 1..LastStep |-> Result(trace[j])][k].response = (trace[k].response # NoResponse)
  <2>1. [j \in 1..LastStep |-> Result(trace[j])][k] = Result(trace[k])
    OBVIOUS
  <2>2. Executor(c)!Executed(k) <=> Result(trace[k]).outcome # "skipped"
    BY <2>1 DEF Executor!Executed
  <2> QED
    BY <2>1, <2>2 DEF Result, RunInv, ExecutionsInv
<1>5. followUp.executed => source.response # NoResponse
  BY <1>1, <1>2 DEF RunInv, MainFlowInv, ExecutionsInv
<1>6. r.source \in 1..LastStep /\ r.followUp \in 1..LastStep
  BY <1>1, <1>2
<1>7. CASE ~(source.executed /\ followUp.executed)
  <2>1. outcome = "not_applicable"
    BY <1>7 DEF EvaluateRelation
  <2>2. Executor(c)!RelationChoices(d) = {"not_applicable"}
    BY <1>3, <1>4, <1>6, <1>7 DEF Executor!RelationChoices
  <2> QED
    BY <2>1, <2>2
<1>8. CASE /\ source.executed /\ followUp.executed
           /\ ~(IsBuilt(source.request) /\ IsBuilt(followUp.request))
  <2>1. outcome = "error"
    BY <1>8 DEF EvaluateRelation
  <2>2. Executor(c)!RelationChoices(d) = {"error"}
    BY <1>3, <1>4, <1>6, <1>8 DEF Executor!RelationChoices
  <2> QED
    BY <2>1, <2>2
<1>9. CASE /\ source.executed /\ followUp.executed
           /\ IsBuilt(source.request) /\ IsBuilt(followUp.request)
           /\ d.baseline # 0 /\ ~trace[d.baseline].executed
  <2>1. r.type = "update_read_consistency" /\ r.stable # {} /\ d.baseline = r.baseline
    BY <1>3, <1>9
  <2>2. d.baseline \in 1..LastStep
    BY <1>1, <1>2, <2>1
  <2>3. Lifecycle(r, source, followUp, trace) = "not_applicable"
    BY <1>9, <2>1 DEF Lifecycle
  <2>4. outcome = "not_applicable"
    BY <1>9, <2>1, <2>3 DEF EvaluateRelation, IsMetamorphic
  <2>5. Executor(c)!RelationChoices(d) = {"not_applicable"}
    BY <1>3, <1>4, <1>6, <1>9, <2>2 DEF Executor!RelationChoices
  <2> QED
    BY <2>4, <2>5
<1>10. CASE /\ source.executed /\ followUp.executed
            /\ IsBuilt(source.request) /\ IsBuilt(followUp.request)
            /\ ~(d.baseline # 0 /\ ~trace[d.baseline].executed)
            /\ followUp.response = NoResponse /\ ~d.requestOnly
  <2>1. IsMetamorphic(r) => Metamorphic(r, source, followUp) \in {"not_applicable", "error"}
    BY <1>1, <1>10, UnobservedMetamorphic
  <2>2. ~IsMetamorphic(r) => Lifecycle(r, source, followUp, trace) \in {"not_applicable", "error"}
    BY <1>1, <1>10, UnobservedLifecycle
  <2>3. outcome \in {"not_applicable", "error"}
    BY <1>10, <2>1, <2>2 DEF EvaluateRelation
  <2>4. d.baseline # 0 => d.baseline \in 1..LastStep
    BY <1>1, <1>2, <1>3
  <2>5. Executor(c)!RelationChoices(d) = {"not_applicable", "error"}
    BY <1>3, <1>4, <1>6, <1>10, <2>4 DEF Executor!RelationChoices
  <2> QED
    BY <2>3, <2>5
<1>11. CASE /\ source.executed /\ followUp.executed
            /\ IsBuilt(source.request) /\ IsBuilt(followUp.request)
            /\ ~(d.baseline # 0 /\ ~trace[d.baseline].executed)
            /\ followUp.response # NoResponse \/ d.requestOnly
  <2>1. outcome \in RelationOutcomes
    BY <1>1, RelationHasOutcome
  <2>2. d.baseline # 0 => d.baseline \in 1..LastStep
    BY <1>1, <1>2, <1>3
  <2>3. Executor(c)!RelationChoices(d) = RelationOutcomes
    BY <1>3, <1>4, <1>5, <1>6, <1>11, <2>2
       DEF Executor!RelationChoices, Executor!RelationOutcomes, RelationOutcomes
  <2> QED
    BY <2>1, <2>3
<1> QED
  BY <1>7, <1>8, <1>9, <1>10, <1>11

----------------------------------------------------------------------------
(* The steps of a run. *)

LEMMA StartRefines ==
  ASSUME RunInv, StartCase, NEW c, c = DeclaredCase
  PROVE  Executor(c)!Init'
<1>1. /\ stage = "earlier" /\ stage' = "main" /\ next' = 1
      /\ UNCHANGED <<case, halted, scope, trace, relationResults>>
  BY DEF StartCase
<1>2. /\ halted = 0 /\ scope = <<>>
      /\ trace = NothingExecuted /\ relationResults = NothingEvaluated
  BY <1>1 DEF RunInv, EarlierInv
<1>3. LastStep' = LastStep /\ Relations' = Relations
  BY <1>1 DEF LastStep, Steps, Relations
<1>4. [v \in DOMAIN scope' |-> Setter(v)'] = [v \in {} |-> 0]
  BY <1>1, <1>2
<1>5. ASSUME NEW k \in 1..LastStep
      PROVE  Result(trace'[k]) = Executor(c)!Skipped(k)
  <2>1. PICK skipped : skipped = Skipped(k)
    OBVIOUS
  <2>2. /\ skipped.required = Required(k) /\ skipped.outcome = "skipped"
        /\ skipped.request = BuildError /\ skipped.response = NoResponse
        /\ skipped.marked = FALSE /\ skipped.failed = FALSE /\ skipped.extracted = <<>>
    BY <2>1 DEF Skipped
  <2>3. trace'[k] = skipped
    BY <1>1, <1>2, <2>1 DEF NothingExecuted
  <2>4. IsBuilt(BuildError) = FALSE
    BY DEF IsBuilt, BuildError
  <2>5. PICK required \in BOOLEAN : required = Required(k) /\ required = Executor(c)!Required(k)
    BY DeclaredRequired DEF RunInv
  <2>6. (skipped.response # NoResponse) = FALSE /\ DOMAIN skipped.extracted = {}
    BY <2>2
  <2>7. Result(skipped) =
          [required |-> required, outcome |-> "skipped", request |-> FALSE,
           response |-> FALSE, marked |-> FALSE, failed |-> FALSE, extracted |-> {}]
    BY <2>2, <2>4, <2>5, <2>6 DEF Result
  <2>8. Executor(c)!Skipped(k) =
          [required |-> required, outcome |-> "skipped", request |-> FALSE,
           response |-> FALSE, marked |-> FALSE, failed |-> FALSE, extracted |-> {}]
    BY <2>5 DEF Executor!Skipped
  <2> QED
    BY <2>3, <2>7, <2>8
<1>6. [k \in 1..LastStep' |-> Result(trace'[k])] = [k \in 1..Executor(c)!Last |-> Executor(c)!Skipped(k)]
  BY <1>3, <1>5, DeclaredSteps DEF RunInv
<1>7. c.relations = {DeclaredRelation(r) : r \in Relations}
  BY DEF DeclaredCase
<1>8. [d \in {DeclaredRelation(r) : r \in Relations'} |->
         relationResults'[CHOOSE r \in Relations' : DeclaredRelation(r) = d]] =
        [d \in c.relations |-> "pending"]
  <2>1. ASSUME NEW d \in c.relations
        PROVE  relationResults'[CHOOSE r \in Relations : DeclaredRelation(r) = d] = "pending"
    <3>1. (CHOOSE r \in Relations : DeclaredRelation(r) = d) \in Relations
      BY <1>7
    <3> QED
      BY <1>1, <1>2, <3>1 DEF NothingEvaluated
  <2>2. [d \in {DeclaredRelation(r) : r \in Relations} |->
           relationResults'[CHOOSE r \in Relations : DeclaredRelation(r) = d]] =
          [d \in c.relations |-> "pending"]
    BY <1>7, <2>1
  <2> QED
    BY <1>3, <2>2
<1> QED
  BY <1>1, <1>2, <1>4, <1>6, <1>8 DEF Executor!Init

\* Of a run, what stays as it is for CaseExecution.
LEMMA RelationResultsStay ==
  ASSUME UNCHANGED <<case, relationResults>>
  PROVE  [d \in {DeclaredRelation(r) : r \in Relations'} |->
            relationResults'[CHOOSE r \in Relations' : DeclaredRelation(r) = d]] =
         [d \in {DeclaredRelation(r) : r \in Relations} |->
            relationResults[CHOOSE r \in Relations : DeclaredRelation(r) = d]]
BY DEF Relations

LEMMA ResultStored ==
  ASSUME UNCHANGED case, NEW k \in 1..LastStep
  PROVE  [j \in 1..LastStep' |-> Result(trace'[j])][k].outcome = trace'[k].outcome
<1>1. LastStep' = LastStep
  BY DEF LastStep, Steps
<1>2. [j \in 1..LastStep' |-> Result(trace'[j])][k] = Result(trace'[k])
  BY <1>1
<1> QED
  BY <1>2 DEF Result

LEMMA MainRefines ==
  ASSUME RunInv, ExecuteMain, NEW c, c = DeclaredCase
  PROVE  Executor(c)!ExecuteMain
<1>1. stage = "main" /\ UNCHANGED <<case, relationResults>>
  BY DEF ExecuteMain
<1>2. Executor(c)!ExecuteStep(next)
  BY <1>1, ExecutionRefines DEF ExecuteMain
<1>3. /\ next \in 1..LastStep /\ Executor(c)!MainEnd = MainEnd
  BY <1>1, Positions, DeclaredSteps DEF RunInv, PositionInv
<1>4. [j \in 1..LastStep' |-> Result(trace'[j])][next].outcome = trace'[next].outcome
  BY <1>1, <1>3, ResultStored
<1>5. LET passed == trace'[next].outcome = "passed"
      IN /\ halted' = IF passed THEN halted ELSE next
         /\ IF passed /\ next < MainEnd
            THEN stage' = "main" /\ next' = next + 1
            ELSE stage' = "relations" /\ next' = MainEnd + 1
  BY DEF ExecuteMain
<1> QED
  BY <1>1, <1>2, <1>3, <1>4, <1>5, RelationResultsStay DEF Executor!ExecuteMain

LEMMA RelationsRefine ==
  ASSUME RunInv, EvaluateRelations, NEW c, c = DeclaredCase
  PROVE  Executor(c)!EvaluateRelations
<1>1. /\ stage = "relations" /\ UNCHANGED <<case, next, halted, scope, trace>>
      /\ stage' = IF next > LastStep THEN "done" ELSE "cleanup"
      /\ relationResults' = [r \in Relations |-> EvaluateRelation(r, trace)]
  BY DEF EvaluateRelations
<1>2. LastStep' = LastStep /\ Relations' = Relations
  BY <1>1 DEF LastStep, Steps, Relations
<1>3. c.relations = {DeclaredRelation(r) : r \in Relations}
  BY DEF DeclaredCase
<1> DEFINE evaluated == [d \in {DeclaredRelation(r) : r \in Relations} |->
                           relationResults'[CHOOSE r \in Relations : DeclaredRelation(r) = d]]
<1>4. ASSUME NEW d \in c.relations
      PROVE  evaluated[d] \in RelationOutcomes /\ evaluated[d] \in Executor(c)!RelationChoices(d)
  <2>1. PICK r \in Relations : r = (CHOOSE s \in Relations : DeclaredRelation(s) = d) /\ DeclaredRelation(r) = d
    BY <1>3
  <2>2. evaluated[d] = EvaluateRelation(r, trace)
    BY <1>1, <1>3, <2>1
  <2>3. r.type \in RelationTypes
    BY CaseLists DEF RunInv
  <2> QED
    BY <1>1, <2>1, <2>2, <2>3, RelationHasOutcome, RelationRefines
<1>5. evaluated \in [c.relations -> Executor(c)!RelationOutcomes]
  BY <1>3, <1>4 DEF Executor!RelationOutcomes, RelationOutcomes
<1>6. [d \in {DeclaredRelation(r) : r \in Relations'} |->
         relationResults'[CHOOSE r \in Relations' : DeclaredRelation(r) = d]] = evaluated
  BY <1>2
<1>7. /\ [v \in DOMAIN scope' |-> Setter(v)'] = [v \in DOMAIN scope |-> Setter(v)]
      /\ [k \in 1..LastStep' |-> Result(trace'[k])] = [k \in 1..LastStep |-> Result(trace[k])]
  BY <1>1, <1>2 DEF Setter
<1>8. Executor(c)!Last = LastStep
  BY DeclaredSteps DEF RunInv
<1> HIDE DEF evaluated
<1> QED
  BY <1>1, <1>4, <1>5, <1>6, <1>7, <1>8 DEF Executor!EvaluateRelations

LEMMA CleanupRefines ==
  ASSUME RunInv, RunCleanup, NEW c, c = DeclaredCase
  PROVE  Executor(c)!RunCleanup
<1>1. /\ stage = "cleanup" /\ next' = next + 1 /\ UNCHANGED <<case, halted, relationResults>>
      /\ stage' = IF next = LastStep THEN "done" ELSE "cleanup"
      /\ IF CleanupShouldRun(next) THEN ExecuteStep(next) ELSE UNCHANGED <<store, scope, trace>>
  BY DEF RunCleanup
<1>2. /\ next \in 1..LastStep /\ IsCleanup(next)
      /\ Executor(c)!Last = LastStep /\ LastStep' = LastStep
  BY <1>1, Positions, DeclaredSteps DEF RunInv, PositionInv, IsCleanup, LastStep, Steps
<1>3. Executor(c)!CleanupShouldRun(next) <=> CleanupShouldRun(next)
  <2>1. /\ Executor(c)!Steps[next].when = Steps[next].when
        /\ Steps[next].when \in {"always", "on_success", "on_failure"}
    BY <1>2, DeclaredSteps, DeclaredFields DEF RunInv
  <2> QED
    BY <2>1 DEF Executor!CleanupShouldRun, CleanupShouldRun
<1>4. CASE CleanupShouldRun(next)
  <2>1. Executor(c)!ExecuteStep(next)
    BY <1>1, <1>4, ExecutionRefines
  <2> QED
    BY <1>1, <1>2, <1>3, <1>4, <2>1, RelationResultsStay DEF Executor!RunCleanup
<1>5. CASE ~CleanupShouldRun(next)
  <2>1. /\ [v \in DOMAIN scope' |-> Setter(v)'] = [v \in DOMAIN scope |-> Setter(v)]
        /\ [k \in 1..LastStep' |-> Result(trace'[k])] = [k \in 1..LastStep |-> Result(trace[k])]
    BY <1>1, <1>2, <1>5 DEF Setter
  <2> QED
    BY <1>1, <1>2, <1>3, <1>5, <2>1, RelationResultsStay DEF Executor!RunCleanup
<1> QED
  BY <1>4, <1>5

RunRefines(c) ==
  /\ stage = "earlier" /\ stage' = "main" => Executor(c)!Init'
  /\ stage # "earlier" /\ stage' # "earlier" => Executor(c)!Next

LEMMA StepRefines ==
  ASSUME RunInv, Next, NEW c, c = DeclaredCase
  PROVE  RunRefines(c)
<1>1. CASE EarlierRequest
  BY <1>1 DEF EarlierRequest, RunRefines
<1>2. CASE StartCase
  <2>1. Executor(c)!Init' /\ stage = "earlier"
    BY <1>2, StartRefines DEF StartCase
  <2> QED
    BY <2>1 DEF RunRefines
<1>3. CASE ExecuteMain
  <2>1. Executor(c)!ExecuteMain /\ stage = "main"
    BY <1>3, MainRefines DEF ExecuteMain
  <2> QED
    BY <2>1 DEF RunRefines, Executor!Next
<1>4. CASE EvaluateRelations
  <2>1. Executor(c)!EvaluateRelations /\ stage = "relations"
    BY <1>4, RelationsRefine DEF EvaluateRelations
  <2> QED
    BY <2>1 DEF RunRefines, Executor!Next
<1>5. CASE RunCleanup
  <2>1. Executor(c)!RunCleanup /\ stage = "cleanup"
    BY <1>5, CleanupRefines DEF RunCleanup
  <2> QED
    BY <2>1 DEF RunRefines, Executor!Next
<1>6. CASE StartFaultRun
  BY <1>6 DEF StartFaultRun, RunRefines
<1> QED
  BY <1>1, <1>2, <1>3, <1>4, <1>5, <1>6 DEF Next

(***************************************************************************)
(* ExecutesAsSpecified: what the builder makes of a step, what the service *)
(* answers, what the proxy makes of the answer and what the checks and     *)
(* relations make of that is, for every admissible case and every fault,   *)
(* an execution that CaseExecution specifies (execution/                   *)
(* scenario_executor.py), so that what is shown there holds here.          *)
(***************************************************************************)
THEOREM RunsAreExecutions == Spec => ExecutesAsSpecified
<1>1. RunInv /\ [Next]_vars =>
        [\A c \in {DeclaredCase} :
           /\ stage = "earlier" /\ stage' = "main" => Executor(c)!Init'
           /\ stage # "earlier" /\ stage' # "earlier" => Executor(c)!Next]_vars
  <2>1. ASSUME RunInv, Next
        PROVE  \A c \in {DeclaredCase} :
                 /\ stage = "earlier" /\ stage' = "main" => Executor(c)!Init'
                 /\ stage # "earlier" /\ stage' # "earlier" => Executor(c)!Next
    BY <2>1, StepRefines DEF RunRefines
  <2> QED
    BY <2>1
<1> QED
  BY <1>1, RunInvHolds, PTL DEF Spec, ExecutesAsSpecified

----------------------------------------------------------------------------
(* What CaseExecution assumes of a case. *)

LEMMA DeclaredLists ==
  ASSUME case \in AdmissibleCases, NEW c, c = DeclaredCase
  PROVE  Executor(c)!StepsAreLists
<1>1. ASSUME NEW list, IsList(list), NEW made, made = [i \in DOMAIN list |-> made[i]]
      PROVE  made \in Seq({made[i] : i \in DOMAIN made})
  <2>1. made \in Seq({made[i] : i \in DOMAIN list})
    BY <1>1, MappedList
  <2>2. DOMAIN made = DOMAIN list
    BY <1>1
  <2> QED
    BY <2>1, <2>2
<1>2. IsList(case.setup) /\ IsList(case.main) /\ IsList(case.cleanup) /\ case.main # <<>>
  BY CaseLists
<1>3. /\ c.setup = [i \in DOMAIN case.setup |-> c.setup[i]]
      /\ c.main = [i \in DOMAIN case.main |-> c.main[i]]
      /\ c.cleanup = [i \in DOMAIN case.cleanup |-> c.cleanup[i]]
  BY DEF DeclaredCase
<1>4. \A s \in {c.setup, c.main, c.cleanup} : s \in Seq({s[i] : i \in DOMAIN s})
  BY <1>1, <1>2, <1>3
<1>5. c.main # <<>>
  <2>1. PICK main, declared : main = case.main /\ declared = c.main
    OBVIOUS
  <2>2. IsList(main) /\ main # <<>> /\ declared = [i \in DOMAIN main |-> declared[i]]
    BY <1>2, <1>3, <2>1
  <2>3. Len(declared) = Len(main)
    BY <2>2, MappedList
  <2>4. Len(main) # 0
    BY <2>2, EmptySeq DEF IsList
  <2> QED
    BY <2>1, <2>3, <2>4
<1> QED
  BY <1>4, <1>5 DEF Executor!StepsAreLists

LEMMA DeclaredStepsAreValidated ==
  ASSUME case \in AdmissibleCases, NEW c, c = DeclaredCase
  PROVE  Executor(c)!StepsAreValidated
<1>1. Executor(c)!Last = LastStep /\ LastStep \in Nat
  BY DeclaredSteps
<1>2. ASSUME NEW k \in 1..LastStep
      PROVE  /\ Executor(c)!Steps[k].uses \cup Executor(c)!Steps[k].checks \subseteq Executor(c)!DeclaredBefore(k)
             /\ Executor(c)!Steps[k].required \subseteq Executor(c)!Steps[k].extracts
             /\ Executor(c)!Steps[k].lacksPath \in BOOLEAN
             /\ Executor(c)!IsCleanup(k) =>
                  /\ Executor(c)!Steps[k].when \in {"always", "on_success", "on_failure"}
                  /\ Executor(c)!Steps[k].ignoreErrors \in BOOLEAN
  <2>1. Executor(c)!Steps[k] = DeclaredAt(k)
    BY DeclaredSteps
  <2>2. ASSUME NEW j \in 1..(k - 1)
        PROVE  Executor(c)!Steps[j].extracts = {Steps[j].extract[i].variable : i \in DOMAIN Steps[j].extract}
    <3>1. j \in 1..LastStep
      BY <1>1
    <3>2. Executor(c)!Steps[j].extracts = Variables(Steps[j].extract)
      BY <3>1, DeclaredSteps, DeclaredFields
    <3> QED
      BY <3>2 DEF Variables, ToSet
  <2>3. AvailableAt(case, k, <<>>) \subseteq Executor(c)!DeclaredBefore(k)
    <3>1. ASSUME NEW v \in AvailableAt(case, k, <<>>)
          PROVE  \E j \in 1..(k - 1) :
                   v \in {Steps[j].extract[i].variable : i \in DOMAIN Steps[j].extract}
      BY <3>1 DEF AvailableAt, Steps
    <3> QED
      BY <2>2, <3>1 DEF Executor!DeclaredBefore
  <2>4. DeclaredAt(k).uses \cup DeclaredAt(k).checks \subseteq AvailableAt(case, k, <<>>)
    BY DeclaredFields, StepReferences DEF References
  <2>5. DeclaredAt(k).required \subseteq DeclaredAt(k).extracts
    <3>1. \A extractions :
            {extraction.variable : extraction \in {e \in ToSet(extractions) : e.required}}
              \subseteq Variables(extractions)
      BY DEF Variables
    <3> QED
      BY <3>1, DeclaredFields
  <2>6. DeclaredAt(k).lacksPath \in BOOLEAN
    BY DeclaredFields DEF LacksPath
  <2>7. Executor(c)!IsCleanup(k) <=> IsCleanup(k)
    BY DeclaredSteps DEF Executor!IsCleanup, IsCleanup
  <2>8. IsCleanup(k) => /\ DeclaredAt(k).when \in {"always", "on_success", "on_failure"}
                        /\ DeclaredAt(k).ignoreErrors \in BOOLEAN
    BY DeclaredFields
  <2> QED
    BY <2>1, <2>3, <2>4, <2>5, <2>6, <2>7, <2>8
<1> QED
  BY <1>1, <1>2 DEF Executor!StepsAreValidated

LEMMA DeclaredRelationsAreValidated ==
  ASSUME case \in AdmissibleCases, NEW c, c = DeclaredCase
  PROVE  Executor(c)!RelationsAreValidated
<1>1. Executor(c)!MainEnd = MainEnd /\ MainEnd \in Nat
  BY DeclaredSteps
<1>2. c.relations = {DeclaredRelation(r) : r \in Relations}
  BY DEF DeclaredCase
<1>3. ASSUME NEW r \in Relations, NEW d, d = DeclaredRelation(r)
      PROVE  /\ d.source \in 1..MainEnd /\ d.followUp \in 1..MainEnd /\ d.source < d.followUp
             /\ d.baseline \in 0..(d.source - 1)
             /\ d.requestOnly \in BOOLEAN
  <2>1. /\ r.source \in 1..MainEnd /\ r.followUp \in 1..MainEnd /\ r.source < r.followUp
        /\ r.type = "update_read_consistency" /\ r.stable # {} => r.baseline \in 1..(r.source - 1)
    BY AdmissibleRelation
  <2>2. /\ d.source = r.source /\ d.followUp = r.followUp
        /\ d.baseline = IF r.type = "update_read_consistency" /\ r.stable # {} THEN r.baseline ELSE 0
        /\ d.requestOnly \in BOOLEAN
    BY <1>3 DEF DeclaredRelation
  <2> QED
    BY <1>1, <2>1, <2>2
<1> QED
  BY <1>1, <1>2, <1>3 DEF Executor!RelationsAreValidated

(***************************************************************************)
(* What CaseExecution assumes of a case holds of every case that semantic  *)
(* validation accepts (validation/semantic_validator.py): variables are    *)
(* extracted before they are used, and relations compare an earlier with a *)
(* later setup or main step. Its theorems are about all these cases.       *)
(***************************************************************************)
ValidatedAsAssumed ==
  \A c \in {DeclaredCase} :
    /\ Executor(c)!StepsAreLists
    /\ Executor(c)!StepsAreValidated
    /\ Executor(c)!RelationsAreValidated
    /\ c.faultActive \in BOOLEAN

THEOREM CasesAreValidated == Spec => []ValidatedAsAssumed
<1>1. RunInv => ValidatedAsAssumed
  <2>1. ASSUME RunInv, NEW c, c = DeclaredCase
        PROVE  /\ Executor(c)!StepsAreLists
               /\ Executor(c)!StepsAreValidated
               /\ Executor(c)!RelationsAreValidated
               /\ c.faultActive \in BOOLEAN
    <3>1. c.faultActive = (fault # "none")
      BY <2>1 DEF DeclaredCase
    <3> QED
      BY <2>1, <3>1, DeclaredLists, DeclaredStepsAreValidated, DeclaredRelationsAreValidated DEF RunInv
  <2> QED
    BY <2>1 DEF ValidatedAsAssumed
<1> QED
  BY <1>1, RunInvHolds, PTL

----------------------------------------------------------------------------
(* The demo service as a function: what state and which answer a request    *)
(* leads to from the state st, a value of store.                           *)

WantedIn(st, query) ==
  {id \in DOMAIN st[1] :
     /\ Service!Given(query, "status") => st[1][id].status = Service!Str(Service!Parameter(query, "status", ""))
     /\ Service!Given(query, "category") =>
          st[1][id].category = Service!Str(Service!Parameter(query, "category", ""))}

InOrder(n, ids) == SelectSeq([i \in 1..(n - 1) |-> i], LAMBDA id : id \in ids)
ListedIn(st, query) == InOrder(st[2], WantedIn(st, query))

PageIn(st, query) ==
  LET offset == Service!Numeral(Service!Parameter(query, "offset", "0"))
      limit == Service!Numeral(Service!Parameter(query, "limit", "9"))
      listed == ListedIn(st, query)
      last == IF offset + limit < Len(listed) THEN offset + limit ELSE Len(listed)
      page == SubSeq(listed, offset + 1, last)
  IN Service!Obj([items |-> Service!Arr([i \in DOMAIN page |-> Service!ItemBody(page[i], st[1][page[i]])]),
                  offset |-> Service!Num(offset), limit |-> Service!Num(limit),
                  total |-> Service!Num(Len(listed))])

\* The answer to a request that reads.
ReadIn(st, request) ==
  LET id == Service!Id(request)
  IN IF Service!Collection(request)
     THEN IF Service!QueryIsValid(request.query)
          THEN Service!JsonResponse(200, PageIn(st, request.query)) ELSE Service!BadRequest
     ELSE IF ~Service!Valid(request) THEN Service!BadRequest
     ELSE IF id \notin DOMAIN st[1] THEN Service!NotFound
     ELSE Service!JsonResponse(200, Service!ItemBody(id, st[1][id]))

CreatedIn(st, request) ==
  LET item == Service!Item(request.body.obj, st[3], st[3])
  IN <<[i \in DOMAIN st[1] \cup {st[2]} |-> IF i = st[2] THEN item ELSE st[1][i]],
       st[2] + 1, st[3] + 1, Service!JsonResponse(201, Service!ItemBody(st[2], item))>>

PutIn(st, id, item) ==
  <<[st[1] EXCEPT ![id] = item], st[2], st[3] + 1, Service!JsonResponse(200, Service!ItemBody(id, item))>>

RefusedIn(st, response) == <<st[1], st[2], st[3], response>>

ReplacedIn(st, request) ==
  LET id == Service!Id(request)
  IN IF ~Service!Valid(request) \/ ~Service!IsItemCreate(request.body) THEN RefusedIn(st, Service!BadRequest)
     ELSE IF id \notin DOMAIN st[1] THEN RefusedIn(st, Service!NotFound)
     ELSE PutIn(st, id, Service!Item(request.body.obj, st[1][id].createdAt, st[3]))

UpdatedIn(st, request) ==
  LET id == Service!Id(request)
  IN IF ~Service!Valid(request) \/ ~Service!IsItemUpdate(request.body) THEN RefusedIn(st, Service!BadRequest)
     ELSE IF id \notin DOMAIN st[1] THEN RefusedIn(st, Service!NotFound)
     ELSE PutIn(st, id, [field \in DOMAIN st[1][id] |->
                           IF field = "updatedAt" THEN st[3]
                           ELSE IF field \in DOMAIN request.body.obj THEN request.body.obj[field]
                           ELSE st[1][id][field]])

DeletedIn(st, request) ==
  LET id == Service!Id(request)
  IN IF ~Service!Valid(request) THEN RefusedIn(st, Service!BadRequest)
     ELSE IF id \notin DOMAIN st[1] THEN RefusedIn(st, Service!NotFound)
     ELSE <<[i \in DOMAIN st[1] \ {id} |-> st[1][i]], st[2], st[3], Service!NoContent(204)>>

After(st, request) ==
  IF request.method = "GET" THEN RefusedIn(st, ReadIn(st, request))
  ELSE IF request.method = "POST"
  THEN IF Service!IsItemCreate(request.body) THEN CreatedIn(st, request)
       ELSE RefusedIn(st, Service!BadRequest)
  ELSE IF request.method = "PUT" THEN ReplacedIn(st, request)
  ELSE IF request.method = "PATCH" THEN UpdatedIn(st, request)
  ELSE DeletedIn(st, request)

LEMMA PageInStore ==
  ASSUME NEW query
  PROVE  PageIn(store, query) = Service!Page(query)
<1>1. WantedIn(store, query) = Service!Wanted(query)
  BY DEF WantedIn, Service!Wanted, store
<1>2. Service!Listed(query) = InOrder(nextId, Service!Wanted(query))
  BY DEF Service!Listed, InOrder
<1>3. ListedIn(store, query) = Service!Listed(query)
  BY <1>1, <1>2 DEF ListedIn, store
<1> QED
  BY <1>3 DEF PageIn, Service!Page, store

LEMMA HandleIsAfter ==
  ASSUME NEW request, Service!Handle(request)
  PROVE  store' = After(store, request)
<1>1. CASE Service!ListItems(request)
  <2>1. /\ request.method = "GET" /\ Service!Collection(request)
        /\ answer' = ReadIn(store, request) /\ UNCHANGED <<items, nextId, clockTick>>
    BY <1>1, PageInStore DEF Service!ListItems, Service!Refuse, ReadIn
  <2> QED
    BY <2>1 DEF After, RefusedIn, store
<1>2. CASE Service!CreateItem(request)
  BY <1>2 DEF Service!CreateItem, Service!Refuse, Service!WithItem, After, CreatedIn, RefusedIn, store
<1>3. CASE Service!GetItem(request)
  <2>1. request.method = "GET" /\ ~Service!Collection(request)
    BY <1>3 DEF Service!GetItem, Service!Single, Service!Collection
  <2>2. answer' = ReadIn(store, request) /\ UNCHANGED <<items, nextId, clockTick>>
    BY <1>3, <2>1 DEF Service!GetItem, Service!Refuse, Service!Found, ReadIn, store
  <2> QED
    BY <2>1, <2>2 DEF After, RefusedIn, store
<1>4. CASE Service!ReplaceItem(request)
  BY <1>4, Zenon DEF Service!ReplaceItem, Service!Refuse, Service!Put, Service!Found, After, ReplacedIn, PutIn, RefusedIn, store
<1>5. CASE Service!UpdateItem(request)
  BY <1>5 DEF Service!UpdateItem, Service!Refuse, Service!Put, Service!Found, After, UpdatedIn, PutIn, RefusedIn, store
<1>6. CASE Service!DeleteItem(request)
  BY <1>6 DEF Service!DeleteItem, Service!Refuse, Service!Found, After, DeletedIn, RefusedIn, store
<1> QED
  BY <1>1, <1>2, <1>3, <1>4, <1>5, <1>6 DEF Service!Handle

----------------------------------------------------------------------------
(* Reads that ask the same. *)

\* A set of positions has a last one.
LEMMA LastPosition ==
  ASSUME NEW n \in Nat, NEW S \in SUBSET (1..n), S # {}
  PROVE  \E last \in S : \A i \in S : i <= last
<1> DEFINE Distances == {n - i : i \in S}
           R == OpToRel(<, Nat)
<1>1. IsWellFoundedOn(R, Nat)
  BY NatLessThanWellFounded
<1>2. Distances \subseteq Nat /\ Distances # {}
  <2>1. \A i \in S : i \in 1..n /\ n - i \in Nat
    OBVIOUS
  <2> QED
    BY <2>1
<1>3. PICK d \in Distances : \A e \in Distances : ~(<<e, d>> \in R)
  <2> HIDE DEF Distances, R
  <2> QED
    BY <1>1, <1>2, WFMin
<1>4. \A e \in Distances : ~(e < d)
  BY <1>2, <1>3 DEF OpToRel
<1>5. PICK last \in S : d = n - last
  BY <1>3
<1>6. ASSUME NEW i \in S PROVE i <= last
  <2>1. ~(n - i < n - last)
    BY <1>4, <1>5
  <2>2. i \in 1..n /\ last \in 1..n
    OBVIOUS
  <2> HIDE DEF Distances, R
  <2> QED
    BY <2>1, <2>2
<1> QED
  BY <1>6

SameQuery(p, q) ==
  \A name :
    /\ Service!Given(p, name) <=> Service!Given(q, name)
    /\ \A default : Service!Parameter(p, name, default) = Service!Parameter(q, name, default)

\* Whatever the order of the parameters, if none comes twice.
LEMMA OrderDoesNotMatter ==
  ASSUME NEW p, NEW q, IsList(p), IsList(q), QueryBag(p) = QueryBag(q), ~GivenTwice(p)
  PROVE  SameQuery(p, q)
<1>1. Range(p) = Range(q)
  <2>1. DOMAIN ToBag(p) = Range(p) /\ DOMAIN ToBag(q) = Range(q)
    BY DEF ToBag
  <2> QED
    BY <2>1 DEF QueryBag
<1>2. /\ \A i \in DOMAIN p : \E j \in DOMAIN q : q[j] = p[i]
      /\ \A j \in DOMAIN q : \E i \in DOMAIN p : p[i] = q[j]
  BY <1>1 DEF Range
<1>3. \A name : Service!Given(p, name) <=> Service!Given(q, name)
  <2> SUFFICES ASSUME NEW name PROVE Service!Given(p, name) <=> Service!Given(q, name)
    OBVIOUS
  <2>1. ASSUME NEW i \in DOMAIN p, p[i][1] = name PROVE \E j \in DOMAIN q : q[j][1] = name
    BY <1>2, <2>1
  <2>2. ASSUME NEW j \in DOMAIN q, q[j][1] = name PROVE \E i \in DOMAIN p : p[i][1] = name
    BY <1>2, <2>2
  <2> QED
    BY <2>1, <2>2 DEF Service!Given
<1>4. ASSUME NEW name, Service!Given(p, name), NEW default
      PROVE  Service!Parameter(p, name, default) = Service!Parameter(q, name, default)
  <2> DEFINE Final(query, i) == /\ query[i][1] = name
                                /\ \A j \in DOMAIN query : query[j][1] = name => j <= i
  <2>1. ASSUME NEW query, IsList(query), Service!Given(query, name)
        PROVE  \E i \in DOMAIN query : Final(query, i)
    <3>1. Len(query) \in Nat /\ DOMAIN query = 1..Len(query)
      BY <2>1, LenProperties DEF IsList
    <3> DEFINE S == {i \in DOMAIN query : query[i][1] = name}
    <3>2. S # {} /\ S \in SUBSET (1..Len(query))
      BY <2>1, <3>1 DEF Service!Given
    <3>3. PICK last \in S : \A i \in S : i <= last
      <4> HIDE DEF S
      <4> QED
        BY <3>1, <3>2, LastPosition
    <3> QED
      BY <3>3
  <2> DEFINE i == CHOOSE n \in DOMAIN p : Final(p, n)
             j == CHOOSE n \in DOMAIN q : Final(q, n)
  <2>2. i \in DOMAIN p /\ p[i][1] = name
    BY <1>4, <2>1
  <2>3. j \in DOMAIN q /\ q[j][1] = name
    BY <1>3, <1>4, <2>1
  <2>4. Service!Parameter(p, name, default) = p[i][2]
    BY <1>4 DEF Service!Parameter
  <2>5. Service!Parameter(q, name, default) = q[j][2]
    BY <1>3, <1>4 DEF Service!Parameter
  <2> HIDE DEF i, j
  <2>6. PICK k \in DOMAIN p : p[k] = q[j]
    BY <1>2, <2>3
  <2>7. k = i
    BY <2>2, <2>3, <2>6 DEF GivenTwice
  <2> QED
    BY <2>4, <2>5, <2>6, <2>7
<1>5. ASSUME NEW name, ~Service!Given(p, name), NEW default
      PROVE  Service!Parameter(p, name, default) = Service!Parameter(q, name, default)
  BY <1>3, <1>5 DEF Service!Parameter
<1> QED
  BY <1>3, <1>4, <1>5 DEF SameQuery

SameQuestion(a, b) ==
  a.method = b.method /\ a.path = b.path /\ SameQuery(a.query, b.query)

\* In one state of the service they have one answer,
LEMMA SameQuestionSameAnswer ==
  ASSUME NEW st, NEW a, NEW b, SameQuestion(a, b)
  PROVE  ReadIn(st, a) = ReadIn(st, b)
<1>1. /\ Service!Collection(a) <=> Service!Collection(b)
      /\ Service!Valid(a) <=> Service!Valid(b)
      /\ Service!Id(a) = Service!Id(b)
  BY DEF SameQuestion, Service!Collection, Service!Valid, Service!Id
<1>2. SameQuery(a.query, b.query)
  BY DEF SameQuestion
<1>3. Service!QueryIsValid(a.query) <=> Service!QueryIsValid(b.query)
  BY <1>2 DEF SameQuery, Service!QueryIsValid
<1>4. WantedIn(st, a.query) = WantedIn(st, b.query)
  BY <1>2 DEF SameQuery, WantedIn
<1>5. PageIn(st, a.query) = PageIn(st, b.query)
  <2>1. ListedIn(st, a.query) = ListedIn(st, b.query)
    BY <1>4 DEF ListedIn
  <2>2. \A name, default : Service!Parameter(a.query, name, default) = Service!Parameter(b.query, name, default)
    BY <1>2 DEF SameQuery
  <2> QED
    BY <2>1, <2>2 DEF PageIn
<1> QED
  BY <1>1, <1>3, <1>5 DEF ReadIn

\* and the proxy delivers that answer alike.
LEMMA SameDelivery ==
  ASSUME NEW a, NEW b, SameQuestion(a, b), NEW upstream
  PROVE  Delivered(a, upstream) = Delivered(b, upstream)
<1>1. ASSUME NEW definition
      PROVE  Proxy!MatchFailure(definition, a, upstream) = Proxy!MatchFailure(definition, b, upstream)
  BY DEF SameQuestion, Proxy!MatchFailure
<1>2. PICK definition : definition = Faults[fault]
  OBVIOUS
<1>3. Proxy!MatchFailure(definition, a, upstream) = Proxy!MatchFailure(definition, b, upstream)
  BY <1>1
<1>4. Proxy!ApplyResponseFault(definition, a, upstream) = Proxy!ApplyResponseFault(definition, b, upstream)
  BY <1>3 DEF Proxy!ApplyResponseFault
<1> QED
  BY <1>2, <1>4 DEF Delivered
----------------------------------------------------------------------------
(* What executing a step comes to. *)

\* The request is one of the step's operation and gives its parameters in order.
AsksFor(step, request) ==
  /\ request.method = Operations[step.op].method
  /\ \E texts : request.query = [i \in DOMAIN step.query |-> <<step.query[i][1], texts[i]>>]

LEMMA BuiltAsks ==
  ASSUME NEW step, NEW values, IsBuilt(Build(step, values))
  PROVE  AsksFor(step, Build(step, values))
<1>1. ~IsBuilt(BuildError)
  BY DEF IsBuilt, BuildError
<1>2. /\ Build(step, values).method = Operations[step.op].method
      /\ Build(step, values).query =
           [i \in DOMAIN step.query |-> <<step.query[i][1], Text(Lookup(step.query[i][2], values))>>]
  BY <1>1 DEF Build
<1> DEFINE texts == [i \in DOMAIN step.query |-> Text(Lookup(step.query[i][2], values))]
<1>3. Build(step, values).query = [i \in DOMAIN step.query |-> <<step.query[i][1], texts[i]>>]
  BY <1>2
<1> QED
  BY <1>2, <1>3 DEF AsksFor

\* What is kept of a step that is sent: the request, the service's answer and
\* what the proxy made of it.
Exchanges(step, execution) ==
  LET application == Delivered(execution.request, execution.upstream)
  IN /\ AsksFor(step, execution.request)
     /\ IsResponse(execution.upstream)
     /\ execution.response = application.response
     /\ execution.marked = application.triggered

LEMMA ExecutionEffect ==
  ASSUME NEW k, ExecuteStep(k)
  PROVE  \E execution :
           /\ Keep(k, execution)
           /\ execution.executed = TRUE
           /\ \/ execution.response = NoResponse /\ UNCHANGED store
              \/ /\ execution.response # NoResponse
                 /\ Exchanges(Steps[k], execution)
                 /\ Service!Handle(execution.request)
                 /\ execution.upstream = answer'
<1> DEFINE request == Build(Steps[k], scope)
<1>1. CASE /\ ~IsBuilt(request) \/ RequestContractFailure(Steps[k], request)
           /\ Keep(k, Unsent(k, request)) /\ UNCHANGED store
  <2>1. Unsent(k, request).executed = TRUE /\ Unsent(k, request).response = NoResponse
    BY DEF Unsent, Skipped
  <2> QED
    BY <1>1, <2>1
<1>2. CASE /\ IsBuilt(request)
           /\ Service!Handle(request) /\ Keep(k, Answered(k, request, answer'))
  <2> DEFINE execution == Answered(k, request, answer')
  <2>1. IsResponse(answer') /\ AsksFor(Steps[k], request)
    BY <1>2, HandleAnswers, BuiltAsks
  <2>2. /\ execution.executed = TRUE
        /\ execution.request = request /\ execution.upstream = answer'
        /\ execution.response = Delivered(request, answer').response
        /\ execution.marked = Delivered(request, answer').triggered
    BY DEF Answered
  <2>3. execution.response # NoResponse
    BY <2>1, <2>2, DeliveredIsResponse
  <2> HIDE DEF execution
  <2>4. Exchanges(Steps[k], execution)
    BY <2>1, <2>2 DEF Exchanges
  <2> QED
    BY <1>2, <2>2, <2>3, <2>4 DEF execution
<1> QED
  BY <1>1, <1>2 DEF ExecuteStep

----------------------------------------------------------------------------
(* The record of a run: a step that was not executed is skipped, relations *)
(* are evaluated over the setup and main steps, before cleanup.            *)

SkippedInv == \A k \in 1..LastStep : ~trace[k].executed => trace[k] = Skipped(k)

MainPart == [k \in 1..LastStep |-> IF IsCleanup(k) THEN Skipped(k) ELSE trace[k]]
EvaluatedInv ==
  relationResults = IF stage \in {"cleanup", "done"}
                    THEN [r \in Relations |-> EvaluateRelation(r, MainPart)]
                    ELSE NothingEvaluated

RecordInv == SkippedInv /\ EvaluatedInv

LEMMA SkippedStays ==
  ASSUME UNCHANGED case
  PROVE  /\ LastStep' = LastStep /\ Steps' = Steps /\ MainEnd' = MainEnd /\ Relations' = Relations
         /\ \A k : Skipped(k)' = Skipped(k) /\ (IsCleanup(k)' <=> IsCleanup(k))
BY DEF LastStep, Steps, MainEnd, Relations, Skipped, Required, IsCleanup

LEMMA SkippedStep ==
  ASSUME RunInv, SkippedInv, [Next]_vars
  PROVE  SkippedInv'
<1>1. ASSUME UNCHANGED <<case, trace>> PROVE SkippedInv'
  BY <1>1, SkippedStays DEF SkippedInv
<1>2. ASSUME UNCHANGED case, trace' = NothingExecuted PROVE SkippedInv'
  BY <1>2, SkippedStays DEF SkippedInv, NothingExecuted
<1>3. ASSUME UNCHANGED case, stage \in {"main", "cleanup"}, ExecuteStep(next) PROVE SkippedInv'
  <2>1. PICK execution : Keep(next, execution) /\ execution.executed = TRUE
    BY <1>3, ExecutionEffect
  <2>2. /\ trace'[next] = execution
        /\ \A k \in 1..LastStep : k # next => trace'[k] = trace[k]
    BY <1>3, <2>1, KeepEffect
  <2> QED
    BY <1>3, <2>1, <2>2, SkippedStays DEF SkippedInv
<1>4. CASE EarlierRequest \/ StartCase \/ EvaluateRelations
  BY <1>1, <1>4 DEF EarlierRequest, StartCase, EvaluateRelations
<1>5. CASE ExecuteMain
  BY <1>3, <1>5 DEF ExecuteMain
<1>6. CASE RunCleanup
  BY <1>1, <1>3, <1>6 DEF RunCleanup
<1>7. CASE StartFaultRun
  BY <1>2, <1>7, SkippedStays DEF StartFaultRun, NothingExecuted
<1>8. CASE UNCHANGED vars
  BY <1>1, <1>8 DEF vars, executor
<1> QED
  BY <1>4, <1>5, <1>6, <1>7, <1>8 DEF Next

LEMMA EvaluatedStep ==
  ASSUME RunInv, SkippedInv, EvaluatedInv, [Next]_vars
  PROVE  EvaluatedInv'
<1>1. ASSUME UNCHANGED <<case, trace, relationResults>>, stage \in {"cleanup", "done"} <=> stage' \in {"cleanup", "done"}
      PROVE  EvaluatedInv'
  BY <1>1 DEF EvaluatedInv, MainPart, Relations, NothingEvaluated, LastStep, Steps, Skipped, Required, IsCleanup, MainEnd
<1>2. CASE EarlierRequest \/ StartCase
  BY <1>1, <1>2 DEF EarlierRequest, StartCase
<1>3. CASE ExecuteMain
  <2>1. stage = "main" /\ stage' \in {"main", "relations"} /\ UNCHANGED <<case, relationResults>>
    BY <1>3 DEF ExecuteMain
  <2> QED
    BY <2>1 DEF EvaluatedInv, NothingEvaluated, Relations
<1>4. CASE EvaluateRelations
  <2>1. /\ stage = "relations" /\ stage' \in {"cleanup", "done"} /\ UNCHANGED <<case, trace>>
        /\ relationResults' = [r \in Relations |-> EvaluateRelation(r, trace)]
    BY <1>4 DEF EvaluateRelations
  <2>2. trace = MainPart
    <3>1. ASSUME NEW k \in 1..LastStep, IsCleanup(k) PROVE trace[k] = Skipped(k)
      <4>1. ~trace[k].executed
        BY <2>1, <3>1, Positions DEF RunInv, PositionInv, ExecutionsInv, IsCleanup
      <4> QED
        BY <4>1 DEF SkippedInv
    <3> QED
      BY <3>1 DEF RunInv, TraceTyped, MainPart
  <2>3. MainPart' = MainPart
    BY <2>1 DEF MainPart, LastStep, Steps, Skipped, Required, IsCleanup, MainEnd
  <2> QED
    BY <2>1, <2>2, <2>3 DEF EvaluatedInv, Relations
<1>5. CASE RunCleanup
  <2>1. stage = "cleanup" /\ stage' \in {"cleanup", "done"} /\ UNCHANGED <<case, relationResults>>
    BY <1>5 DEF RunCleanup
  <2>2. next \in (MainEnd + 1)..LastStep /\ MainEnd \in Nat
    BY <2>1, Positions DEF RunInv, PositionInv
  <2>3. \A k \in 1..LastStep : k # next => trace'[k] = trace[k]
    <3>1. CASE ExecuteStep(next)
      BY <2>1, <3>1, KeptExecution, KeepEffect
    <3>2. CASE UNCHANGED trace
      BY <3>2
    <3> QED
      BY <1>5, <3>1, <3>2 DEF RunCleanup
  <2>4. MainPart' = MainPart
    BY <2>1, <2>2, <2>3 DEF MainPart, LastStep, Steps, Skipped, Required, IsCleanup, MainEnd
  <2> QED
    BY <2>1, <2>4 DEF EvaluatedInv, Relations
<1>6. CASE StartFaultRun
  BY <1>6 DEF StartFaultRun, EvaluatedInv, NothingEvaluated, Relations
<1>7. CASE UNCHANGED vars
  BY <1>1, <1>7 DEF vars, executor
<1> QED
  BY <1>2, <1>3, <1>4, <1>5, <1>6, <1>7 DEF Next

LEMMA RecordInvHolds == Spec => []RecordInv
<1>1. Init => RecordInv
  BY DEF Init, RecordInv, SkippedInv, EvaluatedInv, NothingExecuted
<1>2. RunInv /\ RecordInv /\ [Next]_vars => RecordInv'
  BY SkippedStep, EvaluatedStep DEF RecordInv
<1> QED
  BY <1>1, <1>2, RunInvHolds, PTL DEF Spec

----------------------------------------------------------------------------
(* What the service answered to reads, and would answer still. *)

NoWriteAfter(j, k) == \A i \in 1..LastStep : j < i /\ i < k => ~Writes(i)

Reads(k) == Sent(k) /\ trace[k].request.method = "GET"

\* The step had the service delete an item.
Deletes(k) ==
  Sent(k) /\ trace[k].request.method = "DELETE" /\ trace[k].upstream.status \in 200..299

ExchangesInv ==
  \A k \in 1..LastStep :
    Sent(k) => Exchanges(Steps[k], trace[k])

\* As long as nothing is written a read has the answer it would have again.
StillReads ==
  \A k \in 1..LastStep :
    Reads(k) /\ NoWriteAfter(k, LastStep + 1) => trace[k].upstream = ReadIn(store, trace[k].request)

ReadsAreRepeatable ==
  \A j, k \in 1..LastStep :
    /\ j < k /\ Reads(j) /\ Reads(k) /\ NoWriteAfter(j, k)
    /\ SameQuestion(trace[j].request, trace[k].request)
    => trace[j].upstream = trace[k].upstream

\* A deleted item is not found again.
StillGone ==
  \A k \in 1..LastStep :
    Deletes(k) =>
      /\ ~Service!Collection(trace[k].request) /\ Service!Valid(trace[k].request)
      /\ Service!Id(trace[k].request) \in (1..(nextId - 1)) \ DOMAIN items

DeletedIsNotFound ==
  \A j, k \in 1..LastStep :
    j < k /\ Deletes(j) /\ Reads(k) /\ trace[j].request.path = trace[k].request.path =>
      trace[k].upstream.status = 404

ReadsInv ==
  /\ ExchangesInv
  /\ StillReads
  /\ ReadsAreRepeatable
  /\ StillGone
  /\ DeletedIsNotFound

\* A read leaves everything that may be read as it is.
LEMMA ReadsKeepReads ==
  ASSUME NEW st, NEW request, request.method = "GET"
  PROVE  /\ After(st, request)[4] = ReadIn(st, request)
         /\ \A other : ReadIn(After(st, request), other) = ReadIn(st, other)
<1>1. After(st, request) = <<st[1], st[2], st[3], ReadIn(st, request)>>
  BY DEF After, RefusedIn
<1>2. PICK after : after = After(st, request)
  OBVIOUS
<1>3. after[1] = st[1] /\ after[2] = st[2] /\ after[4] = ReadIn(st, request)
  BY <1>1, <1>2
<1>4. ASSUME NEW other PROVE ReadIn(after, other) = ReadIn(st, other)
  <2>1. \A query : WantedIn(after, query) = WantedIn(st, query)
    BY <1>3 DEF WantedIn
  <2>2. \A query : ListedIn(after, query) = ListedIn(st, query)
    BY <1>3, <2>1 DEF ListedIn
  <2>3. ASSUME NEW query PROVE PageIn(after, query) = PageIn(st, query)
    <3>1. ListedIn(after, query) = ListedIn(st, query)
      BY <2>2
    <3> QED
      BY <1>3, <3>1 DEF PageIn
  <2> QED
    BY <1>3, <2>3 DEF ReadIn
<1> QED
  BY <1>2, <1>3, <1>4

\* A successful deletion removes the item it names.
LEMMA DeletionRemoves ==
  ASSUME StoreProofs!IdsInv, NEW request, Service!Handle(request),
         request.method = "DELETE", answer'.status \in 200..299
  PROVE  /\ ~Service!Collection(request) /\ Service!Valid(request)
         /\ Service!Id(request) \in (1..(nextId' - 1)) \ DOMAIN items'
<1>1. Service!DeleteItem(request)
  BY DEF Service!Handle, Service!ListItems, Service!CreateItem, Service!GetItem,
         Service!ReplaceItem, Service!UpdateItem
<1>2. ~Service!Collection(request)
  BY <1>1 DEF Service!DeleteItem, Service!Single, Service!Collection
<1>3. Service!BadRequest.status = 400 /\ Service!NotFound.status = 404
  BY DEF Service!BadRequest, Service!NotFound, Service!JsonResponse
<1>4. Service!Valid(request) /\ Service!Found(request)
  BY <1>1, <1>3 DEF Service!DeleteItem, Service!Refuse
<1>5. /\ items' = [id \in DOMAIN items \ {Service!Id(request)} |-> items[id]]
      /\ nextId' = nextId
  BY <1>1, <1>4 DEF Service!DeleteItem
<1> QED
  BY <1>2, <1>4, <1>5 DEF Service!Found, StoreProofs!IdsInv

LEMMA ReadsExecution ==
  ASSUME RunInv, SkippedInv, StoreProofs!IdsInv, ReadsInv, stage \in {"main", "cleanup"},
         UNCHANGED <<case, fault>>, NEW n, n = next, ExecuteStep(n)
  PROVE  ReadsInv'
<1>1. PICK execution :
        /\ Keep(n, execution)
        /\ execution.executed = TRUE
        /\ \/ execution.response = NoResponse /\ UNCHANGED store
           \/ /\ execution.response # NoResponse
              /\ Exchanges(Steps[n], execution)
              /\ Service!Handle(execution.request)
              /\ execution.upstream = answer'
  BY ExecutionEffect
<1>2. /\ n \in 1..LastStep /\ LastStep' = LastStep /\ Steps' = Steps
      /\ trace'[n] = execution
      /\ \A k \in 1..LastStep : k # n => trace'[k] = trace[k]
  BY <1>1, KeepEffect DEF Steps
<1>3. LastStep \in Nat
  BY Positions DEF RunInv
<1>4. \A k \in 1..LastStep : k >= n => ~Sent(k)
  <2> SUFFICES ASSUME NEW k \in 1..LastStep, k >= n PROVE ~Sent(k)
    OBVIOUS
  <2>1. ~trace[k].executed
    BY DEF RunInv, ExecutionsInv
  <2>2. trace[k] = Skipped(k) /\ Skipped(k).response = NoResponse
    BY <2>1 DEF SkippedInv, Skipped
  <2> QED
    BY <2>2 DEF Sent
<1>5. ASSUME NEW k \in 1..LastStep, k # n
      PROVE  /\ Sent(k)' <=> Sent(k)
             /\ Writes(k)' <=> Writes(k)
             /\ Reads(k)' <=> Reads(k)
             /\ Deletes(k)' <=> Deletes(k)
  BY <1>2, <1>5 DEF Sent, Writes, Reads, Deletes
<1>6. ASSUME NEW j \in 1..LastStep, NEW k \in 1..LastStep, k <= n
      PROVE  NoWriteAfter(j, k)' => NoWriteAfter(j, k)
  BY <1>2, <1>3, <1>5, <1>6 DEF NoWriteAfter
<1>7. ASSUME NEW j \in 1..LastStep, NoWriteAfter(j, n)
      PROVE  NoWriteAfter(j, LastStep + 1)
  BY <1>2, <1>3, <1>4, <1>7 DEF NoWriteAfter, Writes
<1>8. ASSUME NEW j \in 1..LastStep, j < n, NoWriteAfter(j, LastStep + 1)'
      PROVE  NoWriteAfter(j, LastStep + 1) /\ ~Writes(n)'
  BY <1>2, <1>3, <1>4, <1>5, <1>8 DEF NoWriteAfter, Writes
<1>9. ~Writes(n)' => \A request : ReadIn(store', request) = ReadIn(store, request)
  <2>1. CASE UNCHANGED store
    BY <2>1
  <2>2. CASE /\ execution.response # NoResponse
             /\ Exchanges(Steps[n], execution)
             /\ Service!Handle(execution.request)
    <3>1. store' = After(store, execution.request)
      BY <2>2, HandleIsAfter
    <3>2. ~Writes(n)' => execution.request.method = "GET"
      BY <1>2, <2>2 DEF Writes, Sent, ReadOnly, Exchanges, AsksFor
    <3> QED
      BY <3>1, <3>2, ReadsKeepReads
  <2> QED
    BY <1>1, <2>1, <2>2
<1>10. Reads(n)' =>
         /\ execution.upstream = ReadIn(store, execution.request)
         /\ execution.upstream = ReadIn(store', execution.request)
  <2> SUFFICES ASSUME Reads(n)'
               PROVE  /\ execution.upstream = ReadIn(store, execution.request)
                      /\ execution.upstream = ReadIn(store', execution.request)
    OBVIOUS
  <2>1. /\ execution.request.method = "GET"
        /\ Service!Handle(execution.request) /\ execution.upstream = answer'
    BY <1>1, <1>2 DEF Reads, Sent
  <2>2. store' = After(store, execution.request) /\ answer' = store'[4]
    BY <2>1, HandleIsAfter DEF store
  <2> QED
    BY <2>1, <2>2, ReadsKeepReads
<1>11. ExchangesInv'
  <2> SUFFICES ASSUME NEW k \in 1..LastStep
               PROVE  Sent(k)' => Exchanges(Steps[k], trace[k])'
    BY <1>2 DEF ExchangesInv
  <2>1. CASE k = n
    <3>1. Exchanges(Steps[n], execution) => Exchanges(Steps[n], execution)'
      BY <1>2 DEF Exchanges, AsksFor, Delivered
    <3> QED
      BY <1>1, <1>2, <2>1, <3>1 DEF Sent
  <2>2. CASE k # n
    <3>1. Exchanges(Steps[k], trace[k]) => Exchanges(Steps[k], trace[k])'
      BY <1>2, <2>2 DEF Exchanges, AsksFor, Delivered
    <3> QED
      BY <1>2, <1>5, <2>2, <3>1 DEF ReadsInv, ExchangesInv
  <2> QED
    BY <2>1, <2>2
<1>12. StillReads'
  <2> SUFFICES ASSUME NEW k \in 1..LastStep, Reads(k)', NoWriteAfter(k, LastStep + 1)'
               PROVE  trace'[k].upstream = ReadIn(store', trace'[k].request)
    BY <1>2 DEF StillReads
  <2>1. CASE k = n
    BY <1>2, <1>10, <2>1
  <2>2. CASE k < n
    <3>1. Reads(k) /\ NoWriteAfter(k, LastStep + 1) /\ ~Writes(n)'
      BY <1>2, <1>5, <1>8, <2>2
    <3> QED
      BY <1>2, <1>9, <2>2, <3>1 DEF ReadsInv, StillReads
  <2>3. CASE k > n
    BY <1>2, <1>4, <1>5, <2>3 DEF Reads
  <2> QED
    BY <1>2, <1>3, <2>1, <2>2, <2>3
<1>13. ReadsAreRepeatable'
  <2> SUFFICES ASSUME NEW j \in 1..LastStep, NEW k \in 1..LastStep,
                      j < k, Reads(j)', Reads(k)', NoWriteAfter(j, k)',
                      SameQuestion(trace'[j].request, trace'[k].request)
               PROVE  trace'[j].upstream = trace'[k].upstream
    BY <1>2 DEF ReadsAreRepeatable
  <2>1. k <= n
    BY <1>2, <1>3, <1>4, <1>5 DEF Reads
  <2>2. j < n /\ j # n /\ trace'[j] = trace[j] /\ Reads(j) /\ NoWriteAfter(j, k)
    BY <1>2, <1>3, <1>5, <1>6, <2>1
  <2>3. CASE k = n
    <3>1. trace[j].upstream = ReadIn(store, trace[j].request)
      BY <1>7, <2>2, <2>3 DEF ReadsInv, StillReads
    <3>2. trace'[k].upstream = ReadIn(store, trace'[k].request)
      BY <1>2, <1>10, <2>3
    <3> QED
      BY <2>2, <3>1, <3>2, SameQuestionSameAnswer
  <2>4. CASE k # n
    BY <1>2, <1>5, <2>2, <2>4 DEF ReadsInv, ReadsAreRepeatable
  <2> QED
    BY <2>3, <2>4
<1>14. StillGone'
  <2> SUFFICES ASSUME NEW k \in 1..LastStep, Deletes(k)'
               PROVE  /\ ~Service!Collection(trace'[k].request) /\ Service!Valid(trace'[k].request)
                      /\ Service!Id(trace'[k].request) \in (1..(nextId' - 1)) \ DOMAIN items'
    BY <1>2 DEF StillGone
  <2>1. CASE k = n
    <3>1. /\ Service!Handle(execution.request) /\ execution.request.method = "DELETE"
          /\ answer'.status \in 200..299
      BY <1>1, <1>2, <2>1 DEF Deletes, Sent
    <3> QED
      BY <1>2, <2>1, <3>1, DeletionRemoves
  <2>2. CASE k # n
    <3>1. /\ ~Service!Collection(trace[k].request) /\ Service!Valid(trace[k].request)
          /\ Service!Id(trace[k].request) \in (1..(nextId - 1)) \ DOMAIN items
      BY <1>5, <2>2 DEF ReadsInv, StillGone
    <3>2. StoreProofs!IdsInv' /\ (Service!IdentifiersRetire \/ UNCHANGED store)
      BY ExecutionRetires
    <3>3. nextId \in Nat /\ nextId' \in Nat
      BY <3>2 DEF StoreProofs!IdsInv
    <3>4. nextId' >= nextId /\ \A id \in 1..(nextId - 1) : id \notin DOMAIN items => id \notin DOMAIN items'
      BY <3>2, <3>3 DEF Service!IdentifiersRetire, store
    <3> QED
      BY <1>2, <2>2, <3>1, <3>3, <3>4
  <2> QED
    BY <2>1, <2>2
<1>15. DeletedIsNotFound'
  <2> SUFFICES ASSUME NEW j \in 1..LastStep, NEW k \in 1..LastStep,
                      j < k, Deletes(j)', Reads(k)', trace'[j].request.path = trace'[k].request.path
               PROVE  trace'[k].upstream.status = 404
    BY <1>2 DEF DeletedIsNotFound
  <2>1. k <= n
    BY <1>2, <1>3, <1>4, <1>5 DEF Reads
  <2>2. j # n /\ trace'[j] = trace[j] /\ Deletes(j)
    BY <1>2, <1>3, <1>5, <2>1
  <2>3. CASE k = n
    <3>1. /\ ~Service!Collection(trace[j].request) /\ Service!Valid(trace[j].request)
          /\ Service!Id(trace[j].request) \notin DOMAIN items
      BY <2>2 DEF ReadsInv, StillGone
    <3>2. ~Service!Collection(execution.request) /\ Service!Valid(execution.request)
          /\ Service!Id(execution.request) \notin DOMAIN items
      BY <1>2, <2>2, <2>3, <3>1 DEF Service!Collection, Service!Valid, Service!Id
    <3>3. execution.upstream = Service!NotFound
      BY <1>10, <2>3, <3>2 DEF ReadIn, store
    <3> QED
      BY <1>2, <2>3, <3>3 DEF Service!NotFound, Service!JsonResponse
  <2>4. CASE k # n
    BY <1>2, <1>5, <2>2, <2>4 DEF ReadsInv, DeletedIsNotFound
  <2> QED
    BY <2>3, <2>4
<1> QED
  BY <1>11, <1>12, <1>13, <1>14, <1>15 DEF ReadsInv

LEMMA ReadsStep ==
  ASSUME RunInv, SkippedInv, StoreProofs!IdsInv, ReadsInv, [Next]_vars
  PROVE  ReadsInv'
<1>1. ASSUME UNCHANGED <<store, case, fault, trace>> PROVE ReadsInv'
  <2>1. LastStep' = LastStep /\ Steps' = Steps /\ store' = store /\ items' = items /\ nextId' = nextId
    BY <1>1, SkippedStays DEF store
  <2>2. /\ \A k : (Sent(k)' <=> Sent(k)) /\ (Reads(k)' <=> Reads(k)) /\ (Deletes(k)' <=> Deletes(k))
        /\ \A j, k : NoWriteAfter(j, k)' <=> NoWriteAfter(j, k)
    BY <1>1, <2>1 DEF Sent, Reads, Deletes, NoWriteAfter, Writes
  <2>3. ExchangesInv'
    <3>1. ASSUME NEW k \in 1..LastStep, Exchanges(Steps[k], trace[k])
          PROVE  Exchanges(Steps[k], trace[k])'
      BY <1>1, <2>1, <3>1 DEF Exchanges, AsksFor, Delivered
    <3> QED
      BY <2>1, <2>2, <3>1 DEF ReadsInv, ExchangesInv
  <2>4. StillReads' /\ ReadsAreRepeatable'
    BY <1>1, <2>1, <2>2 DEF ReadsInv, StillReads, ReadsAreRepeatable
  <2>5. StillGone' /\ DeletedIsNotFound'
    BY <1>1, <2>1, <2>2 DEF ReadsInv, StillGone, DeletedIsNotFound
  <2> QED
    BY <2>3, <2>4, <2>5 DEF ReadsInv
<1>2. ASSUME UNCHANGED case, trace' = NothingExecuted PROVE ReadsInv'
  <2>1. LastStep' = LastStep
    BY <1>2, SkippedStays
  <2>2. \A k \in 1..LastStep : ~Sent(k)'
    BY <1>2 DEF NothingExecuted, Sent, Skipped
  <2> QED
    BY <2>1, <2>2 DEF ReadsInv, ExchangesInv, StillReads, ReadsAreRepeatable, StillGone, DeletedIsNotFound,
                      Reads, Deletes
<1>3. CASE EarlierRequest
  BY <1>2, <1>3 DEF EarlierRequest, RunInv, EarlierInv
<1>4. CASE StartCase \/ EvaluateRelations
  BY <1>1, <1>4 DEF StartCase, EvaluateRelations
<1>5. CASE ExecuteMain
  BY <1>5, ReadsExecution DEF ExecuteMain
<1>6. CASE RunCleanup
  BY <1>1, <1>6, ReadsExecution DEF RunCleanup
<1>7. CASE StartFaultRun
  BY <1>2, <1>7 DEF StartFaultRun, NothingExecuted, LastStep, Steps, Skipped, Required, IsCleanup, MainEnd
<1>8. CASE UNCHANGED vars
  BY <1>1, <1>8 DEF vars, executor
<1> QED
  BY <1>3, <1>4, <1>5, <1>6, <1>7, <1>8 DEF Next

LEMMA ReadsInvHolds == Spec => []ReadsInv
<1>1. Init => ReadsInv
  <2> SUFFICES ASSUME Init PROVE ReadsInv
    OBVIOUS
  <2>1. \A k \in 1..LastStep : ~Sent(k)
    BY DEF Init, NothingExecuted, Sent, Skipped
  <2> QED
    BY <2>1 DEF ReadsInv, ExchangesInv, StillReads, ReadsAreRepeatable, StillGone, DeletedIsNotFound,
                Reads, Deletes
<1>2. Init => StoreProofs!IdsInv
  BY DEF Init, Service!Init, StoreProofs!IdsInv
<1>3. StoreProofs!IdsInv /\ [Next]_vars => StoreProofs!IdsInv'
  BY IdsStep
<1>4. RunInv /\ RecordInv /\ StoreProofs!IdsInv /\ ReadsInv /\ [Next]_vars => ReadsInv'
  BY ReadsStep DEF RecordInv
<1> QED
  BY <1>1, <1>2, <1>3, <1>4, RunInvHolds, RecordInvHolds, PTL DEF Spec

----------------------------------------------------------------------------
(* Relations over reads accuse nobody. *)

\* What was delivered to two reads of the same question with no write between.
LEMMA SameReadsSameResponse ==
  ASSUME ReadsInv, NEW j \in 1..LastStep, NEW k \in 1..LastStep, j < k,
         Reads(j), Reads(k), NoWriteAfter(j, k), SameQuestion(trace[j].request, trace[k].request)
  PROVE  trace[j].response = trace[k].response
<1>1. trace[j].upstream = trace[k].upstream
  BY DEF ReadsInv, ReadsAreRepeatable
<1>2. /\ trace[j].response = Delivered(trace[j].request, trace[j].upstream).response
      /\ trace[k].response = Delivered(trace[k].request, trace[k].upstream).response
  BY DEF ReadsInv, ExchangesInv, Exchanges, Reads
<1> QED
  BY <1>1, <1>2, SameDelivery

\* Equal responses have equal values.
LEMMA SameResponseSameValues ==
  ASSUME NEW a, NEW b, a.response = b.response
  PROVE  /\ \A pointer : BodyValue(a, pointer) = BodyValue(b, pointer)
         /\ \A r : CollectionKeys(a, r) = CollectionKeys(b, r)
<1>1. ASSUME NEW pointer PROVE BodyValue(a, pointer) = BodyValue(b, pointer)
  BY DEF BodyValue, SelectRelationValue
<1>2. ASSUME NEW r PROVE CollectionKeys(a, r) = CollectionKeys(b, r)
  BY <1>1 DEF CollectionKeys
<1> QED
  BY <1>1, <1>2

LEMMA EqualReadsPass ==
  ASSUME NEW r, NEW a, NEW b, a.response = b.response
  PROVE  RepeatedRead(r, a, b) # "failed" /\ SameKeys(CollectionKeys(a, r), CollectionKeys(b, r)) # "failed"
<1> DEFINE Value(execution, pointer) ==
             LET value == BodyValue(execution, pointer)
             IN IF value = Unselectable THEN value ELSE Normalized(value, pointer, r.ignore)
           Comparison(pointer) ==
             IF Unselectable \in {BodyValue(a, pointer), BodyValue(b, pointer)} THEN "error"
             ELSE IF IsIgnored(pointer, r.ignore) THEN "none"
             ELSE Compare(Value(a, pointer), Value(b, pointer))
<1>1. ASSUME NEW pointer PROVE Comparison(pointer) # "failed"
  <2>1. BodyValue(a, pointer) = BodyValue(b, pointer)
    BY SameResponseSameValues
  <2>2. Value(a, pointer) = Value(b, pointer)
    BY <2>1
  <2> HIDE DEF Value
  <2>3. Compare(Value(a, pointer), Value(b, pointer)) # "failed"
    BY <2>2 DEF Compare, Verdict
  <2> QED
    BY <2>3
<1>2. RepeatedRead(r, a, b) =
        LET comparisons == {Comparison(pointer) : pointer \in r.compare}
        IN IF comparisons \subseteq {"none"} THEN "error" ELSE RelationVerdict(comparisons)
  BY DEF RepeatedRead
<1> HIDE DEF Comparison
<1>3. RepeatedRead(r, a, b) # "failed"
  BY <1>1, <1>2 DEF RelationVerdict
<1>4. CollectionKeys(a, r) = CollectionKeys(b, r)
  BY SameResponseSameValues
<1> QED
  BY <1>3, <1>4 DEF SameKeys, Verdict

\* A relation of an admissible case connects steps its type fits.
LEMMA AdmissibleMethods ==
  ASSUME case \in AdmissibleCases, NEW r \in Relations
  PROVE  /\ Operations[Steps[r.followUp].op].method = "GET"
         /\ r.type \in {"repeated_read_consistency", "query_parameter_order_invariance"} =>
              Operations[Steps[r.source].op].method = "GET"
         /\ r.type = "delete_read_consistency" => Operations[Steps[r.source].op].method = "DELETE"
         /\ r.type = "repeated_read_consistency" =>
              \A k \in (r.source + 1)..(r.followUp - 1) : ReadOnly(Steps[k].op)
<1> DEFINE source == StepsOf(case)[r.source]
           followUp == StepsOf(case)[r.followUp]
<1>1. CaseIssues(case, <<>>) = {} /\ r \in case.relations
  BY DEF AdmissibleCases, Admissible, Relations
<1>2. RelationIssues(case, r) = {}
  BY <1>1 DEF CaseIssues
<1>3. MethodsFit(r.type, source, followUp) /\ TypeIssues(case, r, source, followUp) = {}
  BY <1>2 DEF RelationIssues, Issue
<1>4. Operations[followUp.op].method = "GET"
  BY <1>3 DEF MethodsFit, Method
<1>5. r.type \in {"repeated_read_consistency", "query_parameter_order_invariance"} =>
        Operations[source.op].method = "GET"
  BY <1>3 DEF MethodsFit, Method
<1>6. r.type = "delete_read_consistency" => Operations[source.op].method = "DELETE"
  BY <1>3 DEF MethodsFit, Method
<1>7. ASSUME r.type = "repeated_read_consistency", NEW k \in (r.source + 1)..(r.followUp - 1)
      PROVE  ReadOnly(Steps[k].op)
  <2>1. RepeatedReadIssues(case, r, source, followUp) = {}
    BY <1>3, <1>7 DEF TypeIssues
  <2> QED
    BY <1>7, <2>1 DEF RepeatedReadIssues, Issue, Steps
<1> QED
  BY <1>4, <1>5, <1>6, <1>7 DEF Steps

\* The query that is sent has the parameters of the step's, in its order.
LEMMA SentQuery ==
  ASSUME case \in AdmissibleCases, NEW k \in 1..LastStep, NEW request, AsksFor(Steps[k], request)
  PROVE  IsList(request.query) /\ (GivenTwice(request.query) => GivenTwice(Steps[k].query))
<1>1. k \in DOMAIN Steps
  <2>1. \E S : Steps \in Seq(S)
    BY StepsAreSequence
  <2> QED
    BY <2>1, LenProperties DEF LastStep
<1>2. IsList(Steps[k].query)
  BY <1>1, CasesAssumption DEF AdmissibleCases, Steps
<1>3. PICK texts : request.query = [i \in DOMAIN Steps[k].query |-> <<Steps[k].query[i][1], texts[i]>>]
  BY DEF AsksFor
<1>4. request.query \in Seq({request.query[i] : i \in DOMAIN Steps[k].query})
  BY <1>2, <1>3, MappedList
<1>5. DOMAIN request.query = DOMAIN Steps[k].query
  BY <1>3
<1>6. IsList(request.query)
  BY <1>4, <1>5 DEF IsList
<1>7. \A i \in DOMAIN Steps[k].query : request.query[i][1] = Steps[k].query[i][1]
  BY <1>3
<1> QED
  BY <1>5, <1>6, <1>7 DEF GivenTwice

LEMMA RecordedReadsAgree ==
  ASSUME RunInv, MarksInv, RecordInv, ReadsInv
  PROVE  ReadsAgree
<1> SUFFICES ASSUME NEW r \in Relations, relationResults[r] = "failed"
             PROVE  /\ r.type # "repeated_read_consistency"
                    /\ r.type = "query_parameter_order_invariance" =>
                         \/ \E k \in (r.source + 1)..(r.followUp - 1) : Writes(k)
                         \/ GivenTwice(Steps[r.source].query)
                    /\ r.type = "delete_read_consistency" =>
                         trace[r.source].marked \/ trace[r.followUp].marked \/ 404 \notin r.accepted
  BY DEF ReadsAgree
<1> DEFINE source == trace[r.source]
           followUp == trace[r.followUp]
<1>1. /\ case \in AdmissibleCases
      /\ r.source \in 1..MainEnd /\ r.followUp \in 1..MainEnd /\ r.source < r.followUp
      /\ LastStep \in Nat /\ MainEnd \in Nat /\ MainEnd <= LastStep
  BY AdmissibleRelation, Positions DEF RunInv
<1>2. r.source \in 1..LastStep /\ r.followUp \in 1..LastStep
  BY <1>1
<1>3. relationResults[r] = EvaluateRelation(r, MainPart)
  BY DEF RecordInv, EvaluatedInv, NothingEvaluated
<1>4. MainPart[r.source] = source /\ MainPart[r.followUp] = followUp
  BY <1>1, <1>2 DEF MainPart, IsCleanup
<1>5. /\ IsMetamorphic(r) => Metamorphic(r, source, followUp) = "failed"
      /\ ~IsMetamorphic(r) => Lifecycle(r, source, followUp, MainPart) = "failed"
  BY <1>3, <1>4 DEF EvaluateRelation
\* Two reads of one question that are compared, with no write between, agree.
<1>6. ASSUME Sent(r.source), Sent(r.followUp), SameQuery(source.request.query, followUp.request.query),
             source.request.path = followUp.request.path,
             r.type \in {"repeated_read_consistency", "query_parameter_order_invariance"},
             \A k \in (r.source + 1)..(r.followUp - 1) : ~Writes(k)
      PROVE  source.response = followUp.response
  <2>1. source.request.method = "GET" /\ followUp.request.method = "GET"
    BY <1>1, <1>2, <1>6, AdmissibleMethods DEF ReadsInv, ExchangesInv, Exchanges, AsksFor
  <2>2. Reads(r.source) /\ Reads(r.followUp) /\ SameQuestion(source.request, followUp.request)
    BY <1>6, <2>1 DEF Reads, SameQuestion
  <2>3. NoWriteAfter(r.source, r.followUp)
    BY <1>1, <1>6 DEF NoWriteAfter
  <2> QED
    BY <1>1, <1>2, <2>2, <2>3, SameReadsSameResponse
<1>7. r.type # "repeated_read_consistency"
  <2> SUFFICES ASSUME r.type = "repeated_read_consistency" PROVE FALSE
    OBVIOUS
  <2>1. source.request = followUp.request /\ RepeatedRead(r, source, followUp) = "failed"
    BY <1>5 DEF IsMetamorphic, Metamorphic, MetamorphicApplies
  <2>2. Sent(r.source) /\ Sent(r.followUp)
    <3>1. ASSUME source.response = NoResponse \/ followUp.response = NoResponse
          PROVE  RepeatedRead(r, source, followUp) # "failed"
      <4>1. \A pointer : Unselectable \in {BodyValue(source, pointer), BodyValue(followUp, pointer)}
        BY <3>1, Unobserved
      <4> QED
        BY <4>1 DEF RepeatedRead, RelationVerdict
    <3> QED
      BY <2>1, <3>1 DEF Sent
  <2>3. \A k \in (r.source + 1)..(r.followUp - 1) : ~Writes(k)
    BY <1>1, AdmissibleMethods DEF Writes
  <2>4. SameQuery(source.request.query, followUp.request.query) /\ source.request.path = followUp.request.path
    BY <2>1 DEF SameQuery
  <2>5. source.response = followUp.response
    BY <1>6, <2>2, <2>3, <2>4
  <2> QED
    BY <2>1, <2>5, EqualReadsPass
<1>8. ASSUME r.type = "query_parameter_order_invariance",
             \A k \in (r.source + 1)..(r.followUp - 1) : ~Writes(k),
             ~GivenTwice(Steps[r.source].query)
      PROVE  FALSE
  <2>1. /\ EqualExceptQuery(source.request, followUp.request)
        /\ QueryBag(source.request.query) = QueryBag(followUp.request.query)
        /\ SameKeys(CollectionKeys(source, r), CollectionKeys(followUp, r)) = "failed"
    BY <1>5, <1>8 DEF IsMetamorphic, Metamorphic, MetamorphicApplies
  <2>2. Sent(r.source) /\ Sent(r.followUp)
    BY <2>1, Unobserved DEF SameKeys, Sent
  <2>3. /\ IsList(source.request.query) /\ ~GivenTwice(source.request.query)
        /\ IsList(followUp.request.query)
    BY <1>1, <1>2, <1>8, <2>2, SentQuery DEF ReadsInv, ExchangesInv, Exchanges
  <2>4. SameQuery(source.request.query, followUp.request.query) /\ source.request.path = followUp.request.path
    BY <2>1, <2>3, OrderDoesNotMatter DEF EqualExceptQuery
  <2>5. source.response = followUp.response
    BY <1>6, <1>8, <2>2, <2>4
  <2> QED
    BY <2>1, <2>5, EqualReadsPass
<1>9. ASSUME r.type = "delete_read_consistency",
             ~source.marked, ~followUp.marked, 404 \in r.accepted
      PROVE  FALSE
  <2>1. source.request.path = followUp.request.path /\ DeleteRead(r, source, followUp) = "failed"
    BY <1>5, <1>9 DEF IsMetamorphic, Lifecycle, LifecycleApplies
  <2>2. /\ Sent(r.source) /\ Sent(r.followUp)
        /\ source.response.status \in 200..299 /\ followUp.response.status \notin r.accepted
    BY <2>1 DEF DeleteRead, Sent, Verdict
  <2>3. source.response = source.upstream /\ followUp.response = followUp.upstream
    BY <1>2, <1>9 DEF MarksInv, MarkedMeansChanged
  <2>4. source.request.method = "DELETE" /\ followUp.request.method = "GET"
    BY <1>1, <1>2, <1>9, <2>2, AdmissibleMethods DEF ReadsInv, ExchangesInv, Exchanges, AsksFor
  <2>5. Deletes(r.source) /\ Reads(r.followUp)
    BY <2>2, <2>3, <2>4 DEF Deletes, Reads
  <2>6. followUp.upstream.status = 404
    BY <1>1, <1>2, <2>1, <2>5 DEF ReadsInv, DeletedIsNotFound
  <2> QED
    BY <1>9, <2>2, <2>3, <2>6
<1> QED
  BY <1>7, <1>8, <1>9

(***************************************************************************)
(* ReadsAgree, of the relations between reads: whatever the document,      *)
(* the case, the earlier requests and the fault, repeated reads are never  *)
(* found inconsistent, a changed order of the query only after a write     *)
(* between or with a parameter given twice, and a read after a delete only *)
(* if one of the two was mutated or 404 is not accepted                    *)
(* (execution/metamorphic_relations.py, lifecycle_relations.py).           *)
(***************************************************************************)
THEOREM ReadsNeverAccuse == Spec => []ReadsAgree
<1>1. Spec => []MarksInv
  <2>1. Init => MarksInv
    BY NothingMarked DEF Init
  <2>2. MarksInv /\ [Next]_vars => MarksInv'
    BY MarksStep
  <2> QED
    BY <2>1, <2>2, PTL DEF Spec
<1>2. RunInv /\ MarksInv /\ RecordInv /\ ReadsInv => ReadsAgree
  BY RecordedReadsAgree
<1> QED
  BY <1>1, <1>2, RunInvHolds, RecordInvHolds, ReadsInvHolds, PTL

----------------------------------------------------------------------------
(* What a run without a mutated response comes to, as a function of where   *)
(* it starts: the state of the service and the variables.                  *)

Here == [store |-> store, scope |-> scope]

\* What a step comes to with these variables, this answer of the service and
\* this response from the proxy; the service and the runner alone.
Exchange(k, values, request, upstream, response, marked) ==
  LET hasIssues == ResponseHasIssues(request, response)
      failed == StepFails(Steps[k], response, hasIssues, values)
      errored == StepErrs(Steps[k], response, hasIssues, values)
  IN [executed |-> TRUE, outcome |-> EvaluationOutcome(failed, errored), required |-> Required(k),
      request |-> request, response |-> response, upstream |-> upstream,
      marked |-> marked, failed |-> failed,
      extracted |-> Extracted(Steps[k].extract, response)]
CleanAnswer(k, values, request, response) == Exchange(k, values, request, response, response, FALSE)

IsSent(k, request) == ~(~IsBuilt(request) \/ RequestContractFailure(Steps[k], request))

CleanExecution(k, here) ==
  LET request == Build(Steps[k], here.scope)
  IN IF IsSent(k, request) THEN CleanAnswer(k, here.scope, request, After(here.store, request)[4])
     ELSE Unsent(k, request)

Moved(k, here, execution) ==
  LET request == Build(Steps[k], here.scope)
      extracted == execution.extracted
  IN [store |-> IF IsSent(k, request) THEN After(here.store, request) ELSE here.store,
      scope |-> [v \in DOMAIN here.scope \cup DOMAIN extracted |->
                   IF v \in DOMAIN extracted THEN extracted[v] ELSE here.scope[v]]]

LEMMA ExecutionIsClean ==
  ASSUME NEW k, ExecuteStep(k)
  PROVE  \E execution :
           /\ Keep(k, execution)
           /\ execution.executed = TRUE
           /\ fault = "none" => ~execution.marked
           /\ ~execution.marked => execution = CleanExecution(k, Here)
           /\ Here' = Moved(k, Here, execution)
<1> DEFINE request == Build(Steps[k], scope)
<1>1. Here.store = store /\ Here.scope = scope
  BY DEF Here
<1>2. CASE ~IsSent(k, request) /\ Keep(k, Unsent(k, request)) /\ UNCHANGED store
  <2>1. /\ Unsent(k, request).executed = TRUE
        /\ Unsent(k, request).marked = FALSE
    BY DEF Unsent, Skipped
  <2>2. CleanExecution(k, Here) = Unsent(k, request)
    BY <1>1, <1>2 DEF CleanExecution
  <2> DEFINE execution == Unsent(k, request)
  <2> HIDE DEF execution
  <2>3. Here' = Moved(k, Here, execution)
    BY <1>1, <1>2 DEF Moved, Here, Keep, execution
  <2> QED
    BY <1>2, <2>1, <2>2, <2>3 DEF execution
<1>3. CASE IsSent(k, request) /\ Service!Handle(request) /\ Keep(k, Answered(k, request, answer'))
  <2> DEFINE execution == Answered(k, request, answer')
             application == Delivered(request, answer')
  <2>1. store' = After(store, request) /\ answer' = store'[4] /\ IsResponse(answer')
    BY <1>3, HandleIsAfter, HandleAnswers DEF store
  <2>2. /\ application.triggered <=> application.response # answer'
        /\ fault = "none" => ~application.triggered
    BY <2>1, DeliveredMark
  <2>3. execution.executed = TRUE /\ execution.marked = application.triggered
    BY DEF Answered
  <2>4. ~application.triggered => execution = CleanAnswer(k, scope, request, answer')
    <3>1. ~application.triggered => application.triggered = FALSE /\ application.response = answer'
      BY <2>1, <2>2, DeliveredMarking
    <3>2. execution = Exchange(k, scope, request, answer', application.response, application.triggered)
      BY DEF Answered, Exchange
    <3> HIDE DEF execution, application
    <3> QED
      BY <3>1, <3>2 DEF CleanAnswer
  <2>5. CleanExecution(k, Here) = CleanAnswer(k, scope, request, answer')
    BY <1>1, <1>3, <2>1 DEF CleanExecution
  <2> HIDE DEF execution, application
  <2>6. Here' = Moved(k, Here, execution)
    <3>1. Keep(k, execution)
      BY <1>3 DEF execution
    <3> QED
      BY <1>1, <1>3, <2>1, <3>1 DEF Moved, Here, Keep
  <2> QED
    BY <1>3, <2>2, <2>3, <2>4, <2>5, <2>6 DEF execution
<1> QED
  BY <1>2, <1>3 DEF ExecuteStep, IsSent

----------------------------------------------------------------------------
(* The run before the reset, retraced, and the run after it beside it. No   *)
(* variable keeps what the service and the scope were at each step, but     *)
(* there are such values: g, along the earlier requests, and h, along the   *)
(* steps.                                                                  *)

Fresh == <<<<>>, 1, 0, Service!NoContent(204)>>

Serves(requests, n, g) ==
  g[0] = Fresh /\ \A i \in 1..n : g[i] = After(g[i - 1], requests[i])

AllPassed(executions) == \A j \in 1..MainEnd : executions[j].outcome = "passed"

\* Whether step k comes to run.
Due(k, executions) ==
  IF IsCleanup(k)
  THEN \/ Steps[k].when = "always"
       \/ Steps[k].when = "on_success" /\ AllPassed(executions)
       \/ Steps[k].when = "on_failure" /\ ~AllPassed(executions)
  ELSE \A j \in 1..(k - 1) : executions[j].outcome = "passed"

\* The first n steps are what they come to from h[0] without a mutation. A main
\* step that does not pass is the last of them.
Replays(executions, n, h) ==
  \A k \in 1..n :
    IF Due(k, executions)
    THEN /\ executions[k] = CleanExecution(k, h[k - 1])
         /\ h[k] = Moved(k, h[k - 1], executions[k])
         /\ k <= MainEnd /\ executions[k].outcome # "passed" => h[MainEnd] = h[k]
    ELSE /\ executions[k] = Skipped(k)
         /\ IsCleanup(k) => h[k] = h[k - 1]

CleanRun(requests, executions, n, g, h) ==
  /\ Serves(requests, Len(requests), g)
  /\ h[0] = [store |-> g[Len(requests)], scope |-> <<>>]
  /\ Replays(executions, n, h)

FlowInv ==
  /\ prelude \in Preludes
  /\ stage = "earlier" => next \in 1..(Len(prelude) + 1)
  /\ stage = "done" => next = LastStep + 1
  /\ stage = "main" => halted = 0
  /\ stage \in {"relations", "cleanup", "done"} => (halted = 0 <=> AllPassed(trace))

RetracedInv ==
  fault = "none" =>
    \E g, h :
      IF stage = "earlier"
      THEN Serves(prelude, next - 1, g) /\ g[next - 1] = store
      ELSE /\ CleanRun(prelude, trace, next - 1, g, h)
           /\ \A k \in (next - 1)..LastStep : h[k] = Here

\* Up to its first mutated response a run repeats the one before: so far its
\* first m steps, which end here.
Alongside(executions, m, here, h) ==
  /\ (\A k \in 1..LastStep : ~executions[k].marked) =>
        here = h[m] /\ \A k \in 1..m : executions[k] = clean.trace[k]
  /\ \A k \in 1..LastStep :
       executions[k].executed /\ (\A j \in 1..k : ~executions[j].marked) => executions[k] = clean.trace[k]

Beside(g, h) ==
  IF stage = "earlier" THEN store = g[next - 1] ELSE Alongside(trace, next - 1, Here, h)

BesideInv ==
  fault # "none" =>
    \E g, h : /\ CleanRun(clean.prelude, clean.trace, LastStep, g, h)
              /\ prelude = clean.prelude => Beside(g, h)

KeptCleanInv ==
  fault # "none" =>
    /\ clean.trace = [k \in 1..LastStep |-> clean.trace[k]]
    /\ clean.relations =
         [r \in Relations |->
            EvaluateRelation(r, [k \in 1..LastStep |-> IF IsCleanup(k) THEN Skipped(k) ELSE clean.trace[k]])]

ReplayInv == FlowInv /\ RetracedInv /\ BesideInv /\ KeptCleanInv

\* All of this is about the case, which stays.
LEMMA ReplayStays ==
  ASSUME UNCHANGED case
  PROVE  /\ \A k, executions : Due(k, executions)' <=> Due(k, executions)
         /\ \A executions, n, h : Replays(executions, n, h)' <=> Replays(executions, n, h)
         /\ \A requests, executions, n, g, h :
              CleanRun(requests, executions, n, g, h)' <=> CleanRun(requests, executions, n, g, h)
         /\ \A executions : AllPassed(executions)' <=> AllPassed(executions)
<1>1. /\ LastStep' = LastStep /\ Steps' = Steps /\ MainEnd' = MainEnd
      /\ \A k : Skipped(k)' = Skipped(k) /\ (IsCleanup(k)' <=> IsCleanup(k))
  BY SkippedStays
<1>2. \A executions : AllPassed(executions)' <=> AllPassed(executions)
  BY <1>1 DEF AllPassed
<1>3. \A k, executions : Due(k, executions)' <=> Due(k, executions)
  BY <1>1, <1>2 DEF Due
<1>4. ASSUME NEW k, NEW here PROVE CleanExecution(k, here)' = CleanExecution(k, here)
  <2>2. \A request : Unsent(k, request)' = Unsent(k, request)
    BY <1>1 DEF Unsent
  <2>3. \A values, request, response : CleanAnswer(k, values, request, response)' = CleanAnswer(k, values, request, response)
    BY <1>1 DEF CleanAnswer, Exchange, Required, IsCleanup, MainEnd, Steps
  <2> QED
    BY <1>1, <2>2, <2>3 DEF CleanExecution, IsSent
<1>5. \A k, here, execution : Moved(k, here, execution)' = Moved(k, here, execution)
  BY <1>1 DEF Moved, IsSent
<1>6. \A executions, n, h : Replays(executions, n, h)' <=> Replays(executions, n, h)
  BY <1>1, <1>3, <1>4, <1>5 DEF Replays
<1> QED
  BY <1>2, <1>3, <1>6 DEF CleanRun

\* A retraced run goes on with step n.
LEMMA ReplayGoesOn ==
  ASSUME MainEnd \in Nat, LastStep \in Nat, MainEnd <= LastStep,
         NEW before, NEW after, NEW n \in 1..LastStep, NEW h, NEW on,
         Replays(before, n - 1, h),
         \A k \in 1..LastStep : k # n => after[k] = before[k],
         ~IsCleanup(n) => \A k \in 1..(n - 1) : before[k].outcome = "passed",
         \A k \in 0..(n - 1) : on[k] = h[k],
         \A k \in n..LastStep : on[k] = on[n],
         Due(n, before) => after[n] = CleanExecution(n, h[n - 1]) /\ on[n] = Moved(n, h[n - 1], after[n]),
         ~Due(n, before) => after[n] = Skipped(n) /\ on[n] = h[n - 1]
  PROVE  Replays(after, n, on)
<1>1. \A k \in 1..LastStep : on[k] = (IF k < n THEN h[k] ELSE on[n]) /\ on[k - 1] = IF k <= n THEN h[k - 1] ELSE on[n]
  OBVIOUS
<1>2. ASSUME NEW k \in 1..n
      PROVE  Due(k, after) <=> Due(k, before)
  <2>1. CASE ~IsCleanup(k)
    <3>1. \A j \in 1..(k - 1) : after[j] = before[j]
      OBVIOUS
    <3> QED
      BY <2>1, <3>1 DEF Due
  <2>2. CASE IsCleanup(k)
    <3>1. \A j \in 1..MainEnd : after[j] = before[j]
      BY <2>2 DEF IsCleanup
    <3> QED
      BY <2>2, <3>1 DEF Due, AllPassed
  <2> QED
    BY <2>1, <2>2
<1> SUFFICES ASSUME NEW k \in 1..n
             PROVE  IF Due(k, after)
                    THEN /\ after[k] = CleanExecution(k, on[k - 1])
                         /\ on[k] = Moved(k, on[k - 1], after[k])
                         /\ k <= MainEnd /\ after[k].outcome # "passed" => on[MainEnd] = on[k]
                    ELSE /\ after[k] = Skipped(k)
                         /\ IsCleanup(k) => on[k] = on[k - 1]
  BY DEF Replays
<1>3. CASE k < n
  <2>1. k \in 1..(n - 1) /\ after[k] = before[k] /\ on[k] = h[k] /\ on[k - 1] = h[k - 1]
    BY <1>1, <1>3
  <2>2. k <= MainEnd /\ after[k].outcome # "passed" => MainEnd < n /\ MainEnd \in 1..LastStep
    BY <2>1 DEF IsCleanup
  <2>3. k <= MainEnd /\ after[k].outcome # "passed" => on[MainEnd] = h[MainEnd]
    BY <1>1, <2>2
  <2> QED
    BY <1>2, <2>1, <2>3 DEF Replays
<1>4. CASE k = n
  <2>1. on[k - 1] = h[n - 1]
    BY <1>1, <1>4
  <2>2. k <= MainEnd => on[MainEnd] = on[n]
    BY <1>1, <1>4
  <2> QED
    BY <1>2, <1>4, <2>1, <2>2
<1> QED
  BY <1>3, <1>4
\* A main step that does not pass settles the main steps after it.
LEMMA ReplayHalts ==
  ASSUME MainEnd \in Nat, NEW executions, NEW n \in 1..MainEnd, NEW h,
         Replays(executions, n, h), executions[n].outcome # "passed",
         \A k \in (n + 1)..MainEnd : executions[k] = Skipped(k)
  PROVE  Replays(executions, MainEnd, h)
<1> SUFFICES ASSUME NEW k \in (n + 1)..MainEnd
             PROVE  ~Due(k, executions) /\ executions[k] = Skipped(k) /\ ~IsCleanup(k)
  BY DEF Replays
<1>1. ~IsCleanup(k) /\ n \in 1..(k - 1)
  BY DEF IsCleanup
<1> QED
  BY <1>1 DEF Due

LEMMA PreludeIsList ==
  ASSUME NEW requests \in Preludes
  PROVE  Len(requests) \in Nat
BY PreludesAssumption, LenProperties DEF IsList

LEMMA FlowStep ==
  ASSUME RunInv, FlowInv, [Next]_vars
  PROVE  FlowInv'
<1>1. /\ LastStep \in Nat /\ MainEnd \in Nat /\ MainEnd <= LastStep
      /\ Len(prelude) \in Nat
  BY Positions, PreludeIsList DEF RunInv, FlowInv
<1>2. CASE EarlierRequest
  BY <1>1, <1>2 DEF EarlierRequest, FlowInv
<1>3. CASE StartCase
  BY <1>3 DEF StartCase, FlowInv, RunInv, EarlierInv
<1>4. CASE ExecuteMain
  <2>1. UNCHANGED <<case, prelude>> /\ stage = "main" /\ next \in 1..MainEnd
    BY <1>4 DEF ExecuteMain, RunInv, PositionInv
  <2>2. PICK n : n = next
    OBVIOUS
  <2>3. PICK execution : Keep(n, execution)
    BY <1>4, <2>2, KeptExecution DEF ExecuteMain
  <2>4. MainEnd' = MainEnd /\ \A k \in 1..LastStep : k # n => trace'[k] = trace[k]
    BY <2>1, <2>2, <2>3, KeepEffect
  <2>5. \A k \in 1..(n - 1) : trace'[k].outcome = "passed"
    BY <1>1, <2>1, <2>2, <2>4 DEF RunInv, MainFlowInv
  <2>6. halted = 0 /\ halted' = IF trace'[n].outcome = "passed" THEN halted ELSE n
    BY <1>4, <2>1, <2>2 DEF ExecuteMain, FlowInv
  <2>7. IF trace'[n].outcome = "passed" /\ n < MainEnd THEN stage' = "main" ELSE stage' = "relations"
    BY <1>4, <2>2 DEF ExecuteMain
  <2>8. trace'[n].outcome = "passed" /\ ~(n < MainEnd) => \A j \in 1..MainEnd : trace'[j].outcome = "passed"
    BY <1>1, <2>1, <2>2, <2>5
  <2>9. stage' = "relations" => (halted' = 0 <=> AllPassed(trace)')
    BY <1>1, <2>1, <2>2, <2>4, <2>6, <2>7, <2>8 DEF AllPassed
  <2> QED
    BY <2>1, <2>6, <2>7, <2>9 DEF FlowInv
<1>5. CASE EvaluateRelations
  <2>1. /\ UNCHANGED <<case, prelude, next, trace, halted>> /\ stage = "relations" /\ next = MainEnd + 1
        /\ stage' = IF next > LastStep THEN "done" ELSE "cleanup"
    BY <1>5 DEF EvaluateRelations, RunInv, PositionInv
  <2>2. LastStep' = LastStep /\ (AllPassed(trace)' <=> AllPassed(trace))
    BY <2>1, SkippedStays DEF AllPassed
  <2> QED
    BY <1>1, <2>1, <2>2 DEF FlowInv
<1>6. CASE RunCleanup
  <2>1. /\ UNCHANGED <<case, prelude, halted>> /\ stage = "cleanup" /\ next' = next + 1
        /\ stage' = IF next = LastStep THEN "done" ELSE "cleanup"
        /\ next \in (MainEnd + 1)..LastStep
    BY <1>6 DEF RunCleanup, RunInv, PositionInv
  <2>2. \A k \in 1..LastStep : k # next => trace'[k] = trace[k]
    <3>1. CASE ExecuteStep(next)
      BY <2>1, <3>1, KeptExecution, KeepEffect
    <3>2. CASE UNCHANGED trace
      BY <3>2
    <3> QED
      BY <1>6, <3>1, <3>2 DEF RunCleanup
  <2>3. LastStep' = LastStep /\ (AllPassed(trace)' <=> AllPassed(trace))
    <3>1. \A k \in 1..MainEnd : trace'[k] = trace[k]
      BY <1>1, <2>1, <2>2
    <3> QED
      BY <2>1, <3>1, SkippedStays DEF AllPassed
  <2> QED
    BY <1>1, <2>1, <2>3 DEF FlowInv
<1>7. CASE StartFaultRun
  <2>1. Len(prelude') \in Nat
    BY <1>7, PreludeIsList DEF StartFaultRun
  <2> QED
    BY <1>7, <2>1 DEF StartFaultRun, FlowInv
<1>8. CASE UNCHANGED vars
  <2>1. UNCHANGED <<case, prelude, stage, next, halted, trace>>
    BY <1>8 DEF vars, executor
  <2>2. LastStep' = LastStep /\ (AllPassed(trace)' <=> AllPassed(trace))
    BY <2>1, SkippedStays DEF AllPassed
  <2> QED
    BY <2>1, <2>2 DEF FlowInv
<1> QED
  BY <1>2, <1>3, <1>4, <1>5, <1>6, <1>7, <1>8 DEF Next

\* What executing or passing over step n does, in either flow.
LEMMA StepEffect ==
  ASSUME RunInv, RecordInv, FlowInv, ExecuteMain \/ RunCleanup, NEW n, n = next
  PROVE  /\ UNCHANGED <<case, prelude, fault, clean>>
         /\ n \in 1..LastStep /\ stage # "earlier" /\ stage' # "earlier"
         /\ \A k \in 1..LastStep : k # n => trace'[k] = trace[k]
         /\ \A k \in n..LastStep : trace[k] = Skipped(k)
         /\ ~IsCleanup(n) => \A k \in 1..(n - 1) : trace[k].outcome = "passed"
         /\ IF Due(n, trace)
            THEN /\ fault = "none" => ~trace'[n].marked
                 /\ ~trace'[n].marked => trace'[n] = CleanExecution(n, Here)
                 /\ Here' = Moved(n, Here, trace'[n])
            ELSE trace'[n] = Skipped(n) /\ Here' = Here
         /\ \/ next' = n + 1
            \/ n \in 1..MainEnd /\ next' = MainEnd + 1 /\ trace'[n].outcome # "passed"
<1>1. LastStep \in Nat /\ MainEnd \in Nat /\ MainEnd <= LastStep
  BY Positions DEF RunInv
<1>2. /\ UNCHANGED <<case, prelude, fault, clean>> /\ stage # "earlier" /\ stage' # "earlier"
      /\ stage \in {"main", "cleanup"} /\ n \in 1..LastStep
      /\ IsCleanup(n) <=> stage = "cleanup"
  BY <1>1 DEF ExecuteMain, RunCleanup, RunInv, PositionInv, IsCleanup
<1>3. \A k \in n..LastStep : trace[k] = Skipped(k)
  BY <1>2 DEF RunInv, ExecutionsInv, RecordInv, SkippedInv
<1>4. ~IsCleanup(n) => \A k \in 1..(n - 1) : trace[k].outcome = "passed"
  BY <1>2 DEF RunInv, MainFlowInv
<1>5. ASSUME ExecuteStep(n)
      PROVE  /\ \A k \in 1..LastStep : k # n => trace'[k] = trace[k]
             /\ fault = "none" => ~trace'[n].marked
             /\ ~trace'[n].marked => trace'[n] = CleanExecution(n, Here)
             /\ Here' = Moved(n, Here, trace'[n])
  <2>1. PICK execution :
          /\ Keep(n, execution)
          /\ fault = "none" => ~execution.marked
          /\ ~execution.marked => execution = CleanExecution(n, Here)
          /\ Here' = Moved(n, Here, execution)
    BY <1>5, ExecutionIsClean
  <2>2. trace'[n] = execution /\ \A k \in 1..LastStep : k # n => trace'[k] = trace[k]
    BY <1>2, <2>1, KeepEffect
  <2> QED
    BY <2>1, <2>2
<1>6. CASE ExecuteMain
  <2>1. ExecuteStep(n) /\ Due(n, trace)
    BY <1>2, <1>4, <1>6 DEF ExecuteMain, Due
  <2>2. IF trace'[n].outcome = "passed" /\ n < MainEnd THEN next' = n + 1 ELSE next' = MainEnd + 1
    BY <1>6 DEF ExecuteMain
  <2>3. n \in 1..MainEnd
    BY <1>6 DEF ExecuteMain, RunInv, PositionInv
  <2>4. \/ next' = n + 1
        \/ n \in 1..MainEnd /\ next' = MainEnd + 1 /\ trace'[n].outcome # "passed"
    BY <1>1, <2>2, <2>3
  <2> QED
    BY <1>2, <1>3, <1>4, <1>5, <2>1, <2>4
<1>7. CASE RunCleanup
  <2>1. next' = n + 1 /\ stage = "cleanup" /\ IsCleanup(n)
    BY <1>2, <1>7 DEF RunCleanup
  <2>2. Due(n, trace) <=> CleanupShouldRun(n)
    BY <2>1 DEF FlowInv, Due, CleanupShouldRun
  <2>3. CASE ExecuteStep(n) /\ CleanupShouldRun(n)
    BY <1>2, <1>3, <1>4, <1>5, <2>1, <2>2, <2>3
  <2>4. CASE ~CleanupShouldRun(n) /\ UNCHANGED <<store, scope, trace>>
    <3>1. trace'[n] = Skipped(n) /\ Here' = Here
      BY <1>2, <1>3, <2>4 DEF Here
    <3> QED
      BY <1>2, <1>3, <1>4, <2>1, <2>2, <2>4, <3>1
  <2> QED
    BY <1>7, <2>3, <2>4 DEF RunCleanup
<1> QED
  BY <1>6, <1>7

LEMMA RetracedExecution ==
  ASSUME RunInv, RecordInv, FlowInv, RetracedInv, ExecuteMain \/ RunCleanup
  PROVE  RetracedInv'
<1>1. PICK n, after, here, m : n = next /\ after = trace' /\ here = Here' /\ m = next' - 1
  OBVIOUS
<1>2. /\ UNCHANGED <<case, prelude, fault>>
      /\ n \in 1..LastStep /\ stage # "earlier" /\ stage' # "earlier"
      /\ \A k \in 1..LastStep : k # n => after[k] = trace[k]
      /\ \A k \in n..LastStep : trace[k] = Skipped(k)
      /\ ~IsCleanup(n) => \A k \in 1..(n - 1) : trace[k].outcome = "passed"
      /\ IF Due(n, trace)
         THEN /\ fault = "none" => ~after[n].marked
              /\ ~after[n].marked => after[n] = CleanExecution(n, Here)
              /\ here = Moved(n, Here, after[n])
         ELSE after[n] = Skipped(n) /\ here = Here
      /\ \/ m = n
         \/ n \in 1..MainEnd /\ m = MainEnd /\ after[n].outcome # "passed"
  <2>1. \/ next' = n + 1
        \/ n \in 1..MainEnd /\ next' = MainEnd + 1 /\ trace'[n].outcome # "passed"
    BY <1>1, StepEffect
  <2>2. n \in Nat /\ MainEnd \in Nat
    BY <1>1, StepEffect, Positions DEF RunInv
  <2>3. \/ m = n
        \/ n \in 1..MainEnd /\ m = MainEnd /\ after[n].outcome # "passed"
    BY <1>1, <2>1, <2>2
  <2> QED
    BY <1>1, <2>3, StepEffect
<1>3. LastStep \in Nat /\ MainEnd \in Nat /\ MainEnd <= LastStep /\ LastStep' = LastStep
  BY <1>2, Positions, SkippedStays DEF RunInv
<1>4. CASE fault # "none"
  BY <1>2, <1>4 DEF RetracedInv
<1>5. CASE fault = "none"
  <2>1. PICK g, h : CleanRun(prelude, trace, n - 1, g, h) /\ \A k \in (n - 1)..LastStep : h[k] = Here
    BY <1>1, <1>2, <1>5 DEF RetracedInv
  <2>2. PICK on : on = [k \in 0..LastStep |-> IF k < n THEN h[k] ELSE here]
    OBVIOUS
  <2>3. h[n - 1] = Here /\ on[0] = h[0] /\ \A k \in n..LastStep : on[k] = here
    BY <1>2, <1>3, <2>1, <2>2
  <2>4. Replays(after, n, on)
    <3>1. Replays(trace, n - 1, h)
      BY <2>1 DEF CleanRun
    <3>2. /\ \A k \in 0..(n - 1) : on[k] = h[k]
          /\ on[n] = here
      BY <1>2, <1>3, <2>2
    <3>3. Due(n, trace) => after[n] = CleanExecution(n, h[n - 1]) /\ on[n] = Moved(n, h[n - 1], after[n])
      BY <1>2, <1>5, <2>3, <3>2
    <3>4. ~Due(n, trace) => after[n] = Skipped(n) /\ on[n] = h[n - 1]
      BY <1>2, <2>3, <3>2
    <3>5. \A k \in 1..LastStep : k # n => after[k] = trace[k]
      BY <1>2
    <3>6. ~IsCleanup(n) => \A k \in 1..(n - 1) : trace[k].outcome = "passed"
      BY <1>2
    <3> QED
      BY <1>2, <1>3, <2>3, <3>1, <3>2, <3>3, <3>4, <3>5, <3>6, ReplayGoesOn
  <2>5. Replays(after, m, on) /\ m \in n..LastStep
    <3>1. CASE m = n
      BY <1>2, <1>3, <2>4, <3>1
    <3>2. CASE n \in 1..MainEnd /\ m = MainEnd /\ after[n].outcome # "passed"
      <4>1. \A k \in (n + 1)..MainEnd : after[k] = Skipped(k)
        BY <1>2, <1>3, <3>2
      <4> QED
        BY <1>3, <2>4, <3>2, <4>1, ReplayHalts
    <3> QED
      BY <1>2, <3>1, <3>2
  <2>6. PICK requests : requests = prelude
    OBVIOUS
  <2>7. CleanRun(requests, after, m, g, on)
    BY <2>1, <2>3, <2>5, <2>6 DEF CleanRun
  <2>8. CleanRun(requests, after, m, g, on)'
    BY <1>2, <2>7, ReplayStays
  <2>9. requests = prelude' /\ after = trace' /\ m = (next - 1)' /\ here = Here'
    BY <1>1, <1>2, <2>6
  <2>10. CleanRun(prelude, trace, next - 1, g, on)'
    BY <2>8, <2>9
  <2>11. (\A k \in (next - 1)..LastStep : on[k] = Here)'
    <3>1. \A k \in m..LastStep : on[k] = here
      BY <1>3, <1>2, <2>3, <2>5
    <3> QED
      BY <1>3, <2>9, <3>1
  <2> QED
    BY <1>2, <2>10, <2>11 DEF RetracedInv
<1> QED
  BY <1>4, <1>5

\* The service after its start and after a reset.
LEMMA StartsFresh ==
  /\ Service!Init => store = Fresh
  /\ Service!Reset => store' = Fresh
BY DEF Service!Init, Service!Reset, store, Fresh

LEMMA RetracedStep ==
  ASSUME RunInv, RecordInv, FlowInv, RetracedInv, [Next]_vars
  PROVE  RetracedInv'
<1>1. LastStep \in Nat /\ Len(prelude) \in Nat
  BY Positions, PreludeIsList DEF RunInv, FlowInv
<1>2. ASSUME UNCHANGED <<case, prelude, fault, next, store, scope, trace>>, stage # "earlier", stage' # "earlier"
      PROVE  RetracedInv'
  <2>1. LastStep' = LastStep /\ Here' = Here
    BY <1>2, SkippedStays DEF Here
  <2> SUFFICES ASSUME fault = "none"
               PROVE  RetracedInv'
    BY <1>2 DEF RetracedInv
  <2>2. PICK g, h : CleanRun(prelude, trace, next - 1, g, h) /\ \A k \in (next - 1)..LastStep : h[k] = Here
    BY <1>2 DEF RetracedInv
  <2>3. PICK requests, executions, m : requests = prelude /\ executions = trace /\ m = next - 1
    OBVIOUS
  <2>4. CleanRun(requests, executions, m, g, h)'
    BY <1>2, <2>2, <2>3, ReplayStays
  <2>5. CleanRun(prelude, trace, next - 1, g, h)'
    BY <1>2, <2>3, <2>4
  <2> QED
    BY <1>2, <2>1, <2>2, <2>5 DEF RetracedInv
<1>3. CASE EarlierRequest
  <2>1. /\ UNCHANGED <<case, prelude, fault>> /\ stage = "earlier" /\ stage' = "earlier" /\ next' = next + 1
        /\ next \in 1..Len(prelude) /\ store' = After(store, prelude[next])
    BY <1>1, <1>3, HandleIsAfter DEF EarlierRequest, FlowInv
  <2> SUFFICES ASSUME fault = "none"
               PROVE  RetracedInv'
    BY <2>1 DEF RetracedInv
  <2>2. PICK g : Serves(prelude, next - 1, g) /\ g[next - 1] = store
    BY <2>1 DEF RetracedInv
  <2>3. PICK n, after, requests : n = next /\ after = store' /\ requests = prelude
    OBVIOUS
  <2>4. PICK on : on = [i \in 0..n |-> IF i < n THEN g[i] ELSE after]
    OBVIOUS
  <2>5. on[n] = after /\ \A i \in 0..(n - 1) : on[i] = g[i]
    BY <2>1, <2>3, <2>4
  <2>6. Serves(requests, n, on)
    BY <2>1, <2>2, <2>3, <2>5 DEF Serves
  <2>7. requests = prelude' /\ n = next' - 1 /\ after = store'
    BY <2>1, <2>3
  <2>8. (Serves(prelude, next - 1, on) /\ on[next - 1] = store)'
    BY <2>5, <2>6, <2>7 DEF Serves
  <2> QED
    BY <2>1, <2>8 DEF RetracedInv
<1>4. CASE StartCase
  <2>1. /\ UNCHANGED <<case, prelude, fault, store, scope, trace>> /\ stage = "earlier" /\ stage' = "main"
        /\ next = Len(prelude) + 1 /\ next' = 1 /\ scope = <<>>
    BY <1>1, <1>4 DEF StartCase, FlowInv, RunInv, EarlierInv
  <2> SUFFICES ASSUME fault = "none"
               PROVE  RetracedInv'
    BY <2>1 DEF RetracedInv
  <2>2. PICK g : Serves(prelude, Len(prelude), g) /\ g[Len(prelude)] = store
    BY <1>1, <2>1 DEF RetracedInv
  <2>3. PICK h : h = [k \in 0..LastStep |-> Here]
    OBVIOUS
  <2>4. \A k \in 0..LastStep : h[k] = Here
    BY <2>3
  <2>5. LastStep' = LastStep /\ Here' = Here /\ Here = [store |-> g[Len(prelude)], scope |-> <<>>]
    BY <2>1, <2>2, SkippedStays DEF Here
  <2>6. PICK requests, executions : requests = prelude /\ executions = trace
    OBVIOUS
  <2>7. CleanRun(requests, executions, 0, g, h)
    BY <1>1, <2>2, <2>4, <2>5, <2>6 DEF CleanRun, Replays
  <2>8. CleanRun(requests, executions, 0, g, h)'
    BY <2>1, <2>7, ReplayStays
  <2>9. CleanRun(prelude, trace, next - 1, g, h)'
    BY <2>1, <2>6, <2>8
  <2> QED
    BY <2>1, <2>4, <2>5, <2>9 DEF RetracedInv
<1>5. CASE ExecuteMain \/ RunCleanup
  BY <1>5, RetracedExecution
<1>6. CASE EvaluateRelations
  BY <1>2, <1>6 DEF EvaluateRelations
<1>7. CASE StartFaultRun
  <2>1. stage' = "earlier" /\ next' = 1 /\ store' = Fresh
    BY <1>7, StartsFresh DEF StartFaultRun
  <2>2. PICK g : g = [i \in 0..0 |-> Fresh]
    OBVIOUS
  <2>3. (Serves(prelude, next - 1, g) /\ g[next - 1] = store)'
    BY <2>1, <2>2 DEF Serves, Fresh
  <2> QED
    BY <2>1, <2>3 DEF RetracedInv
<1>8. CASE UNCHANGED vars
  <2>1. UNCHANGED <<case, prelude, fault, next, store, scope, trace, stage>>
    BY <1>8 DEF vars, executor
  <2>2. CASE stage # "earlier"
    BY <1>2, <2>1, <2>2
  <2>3. CASE stage = "earlier"
    <3>1. \A g : Serves(prelude, next - 1, g)' <=> Serves(prelude, next - 1, g)
      BY <2>1 DEF Serves, Fresh
    <3> QED
      BY <2>1, <2>3, <3>1 DEF RetracedInv
  <2> QED
    BY <2>2, <2>3
<1> QED
  BY <1>3, <1>4, <1>5, <1>6, <1>7, <1>8 DEF Next

LEMMA BesideExecution ==
  ASSUME RunInv, RecordInv, FlowInv, ExecuteMain \/ RunCleanup, NEW h,
         Replays(clean.trace, LastStep, h), Alongside(trace, next - 1, Here, h)
  PROVE  Alongside(trace', next' - 1, Here', h)
<1>1. PICK n, after, here, m : n = next /\ after = trace' /\ here = Here' /\ m = next' - 1
  OBVIOUS
<1>2. LastStep \in Nat /\ MainEnd \in Nat /\ MainEnd <= LastStep
  BY Positions DEF RunInv
<1>3. /\ n \in 1..LastStep
      /\ \A k \in 1..LastStep : k # n => after[k] = trace[k]
      /\ \A k \in n..LastStep : trace[k] = Skipped(k)
      /\ ~IsCleanup(n) => \A k \in 1..(n - 1) : trace[k].outcome = "passed"
      /\ IF Due(n, trace)
         THEN /\ ~after[n].marked => after[n] = CleanExecution(n, Here)
              /\ here = Moved(n, Here, after[n])
         ELSE after[n] = Skipped(n) /\ here = Here
      /\ \/ m = n
         \/ n \in 1..MainEnd /\ m = MainEnd /\ after[n].outcome # "passed"
  <2>1. \/ next' = n + 1
        \/ n \in 1..MainEnd /\ next' = MainEnd + 1 /\ trace'[n].outcome # "passed"
    BY <1>1, StepEffect
  <2>2. n \in 1..LastStep
    BY <1>1, StepEffect
  <2>3. \/ m = n
        \/ n \in 1..MainEnd /\ m = MainEnd /\ after[n].outcome # "passed"
    BY <1>1, <1>2, <2>1, <2>2
  <2> QED
    BY <1>1, <2>3, StepEffect
<1>4. \A k \in n..LastStep : trace[k].executed = FALSE /\ trace[k].marked = FALSE
  <2>1. \A k : Skipped(k).executed = FALSE /\ Skipped(k).marked = FALSE
    BY DEF Skipped
  <2>2. \A k \in n..LastStep : trace[k] = Skipped(k)
    BY <1>3
  <2> QED
    BY <2>1, <2>2
<1>5. CASE \E k \in 1..LastStep : trace[k].marked
  <2>1. PICK k0 \in 1..LastStep : trace[k0].marked
    BY <1>5
  <2>2. k0 \in 1..(n - 1) /\ after[k0].marked
    BY <1>3, <1>4, <2>1
  <2>3. ASSUME NEW k \in 1..LastStep, after[k].executed, \A j \in 1..k : ~after[j].marked
        PROVE  after[k] = clean.trace[k]
    <3>1. k < k0
      BY <2>2, <2>3
    <3>2. \A j \in 1..k : j \in 1..LastStep /\ j # n
      BY <1>2, <2>2, <3>1
    <3>3. \A j \in 1..k : after[j] = trace[j]
      BY <1>3, <3>2
    <3>4. after[k] = trace[k]
      BY <3>3
    <3> QED
      BY <2>3, <3>3, <3>4 DEF Alongside
  <2> QED
    BY <1>1, <2>2, <2>3 DEF Alongside
<1>6. CASE \A k \in 1..LastStep : ~trace[k].marked
  <2>1. Here = h[n - 1] /\ \A k \in 1..(n - 1) : trace[k] = clean.trace[k] /\ after[k] = trace[k]
    <3>1. Here = h[n - 1] /\ \A k \in 1..(n - 1) : trace[k] = clean.trace[k]
      BY <1>1, <1>6 DEF Alongside
    <3>2. \A k \in 1..(n - 1) : k \in 1..LastStep /\ k # n
      BY <1>2, <1>3
    <3> QED
      BY <1>3, <3>1, <3>2
  <2>2. Due(n, trace) <=> Due(n, clean.trace)
    <3>1. CASE IsCleanup(n)
      <4>1. \A k \in 1..MainEnd : trace[k] = clean.trace[k]
        BY <1>2, <1>3, <2>1, <3>1 DEF IsCleanup
      <4> QED
        BY <3>1, <4>1 DEF Due, AllPassed
    <3>2. CASE ~IsCleanup(n)
      BY <2>1, <3>2 DEF Due
    <3> QED
      BY <3>1, <3>2
  <2>3. ~IsCleanup(n) => Due(n, trace)
    BY <1>3 DEF Due
  <2>4. /\ Due(n, clean.trace) =>
             /\ clean.trace[n] = CleanExecution(n, h[n - 1])
             /\ h[n] = Moved(n, h[n - 1], clean.trace[n])
             /\ n <= MainEnd /\ clean.trace[n].outcome # "passed" => h[MainEnd] = h[n]
        /\ ~Due(n, clean.trace) => clean.trace[n] = Skipped(n) /\ (IsCleanup(n) => h[n] = h[n - 1])
    BY <1>3 DEF Replays
  <2>5. ~after[n].marked => after[n] = clean.trace[n] /\ here = h[n]
    BY <1>3, <2>1, <2>2, <2>3, <2>4
  <2>6. ~after[n].marked => here = h[m] /\ \A k \in 1..m : after[k] = clean.trace[k]
    <3>1. CASE m = n
      BY <1>3, <2>1, <2>5, <3>1
    <3>2. CASE n \in 1..MainEnd /\ m = MainEnd /\ after[n].outcome # "passed"
      <4>1. SUFFICES ASSUME ~after[n].marked
                     PROVE  here = h[m] /\ \A k \in 1..m : after[k] = clean.trace[k]
        OBVIOUS
      <4>2. clean.trace[n].outcome # "passed" /\ ~IsCleanup(n)
        BY <1>2, <2>5, <3>2, <4>1 DEF IsCleanup
      <4>3. here = h[m]
        BY <1>2, <2>2, <2>3, <2>4, <2>5, <3>2, <4>1, <4>2
      <4>4. ASSUME NEW k \in (n + 1)..MainEnd
            PROVE  after[k] = clean.trace[k]
        <5>1. k \in 1..LastStep /\ ~IsCleanup(k) /\ n \in 1..(k - 1) /\ k # n /\ k \in n..LastStep
          BY <1>2, <1>3 DEF IsCleanup
        <5>2. ~Due(k, clean.trace)
          BY <4>2, <5>1 DEF Due
        <5>3. clean.trace[k] = Skipped(k)
          BY <5>1, <5>2 DEF Replays
        <5> QED
          BY <1>3, <5>1, <5>3
      <4> QED
        BY <1>2, <1>3, <2>1, <2>5, <3>2, <4>1, <4>3, <4>4
    <3> QED
      BY <1>3, <3>1, <3>2
  <2>7. ASSUME NEW k \in 1..LastStep, after[k].executed, \A j \in 1..k : ~after[j].marked
        PROVE  after[k] = clean.trace[k]
    <3>1. CASE k \in 1..(n - 1)
      BY <2>1, <3>1
    <3>2. CASE k = n
      BY <2>5, <2>7, <3>2
    <3>3. CASE k \in (n + 1)..LastStep
      BY <1>3, <1>4, <2>7, <3>3
    <3> QED
      BY <1>2, <1>3, <3>1, <3>2, <3>3
  <2>8. (\A k \in 1..LastStep : ~after[k].marked) => here = h[m] /\ \A k \in 1..m : after[k] = clean.trace[k]
    BY <1>3, <2>6
  <2> QED
    BY <1>1, <2>7, <2>8 DEF Alongside
<1> QED
  BY <1>5, <1>6

LEMMA BesideStep ==
  ASSUME RunInv, RecordInv, FlowInv, RetracedInv, BesideInv, [Next]_vars
  PROVE  BesideInv'
<1>1. LastStep \in Nat /\ Len(prelude) \in Nat
  BY Positions, PreludeIsList DEF RunInv, FlowInv
<1>2. ASSUME UNCHANGED <<case, prelude, fault, clean>>,
             \A g, h : /\ CleanRun(clean.prelude, clean.trace, LastStep, g, h)
                       /\ prelude = clean.prelude
                       /\ Beside(g, h)
                       => Beside(g, h)'
      PROVE  BesideInv'
  <2> SUFFICES ASSUME fault # "none"
               PROVE  BesideInv'
    BY <1>2 DEF BesideInv
  <2>1. PICK g, h : /\ CleanRun(clean.prelude, clean.trace, LastStep, g, h)
                    /\ prelude = clean.prelude => Beside(g, h)
    BY DEF BesideInv
  <2>2. PICK requests, executions, m : requests = clean.prelude /\ executions = clean.trace /\ m = LastStep
    OBVIOUS
  <2>3. CleanRun(requests, executions, m, g, h)'
    BY <1>2, <2>1, <2>2, ReplayStays
  <2>4. CleanRun(clean.prelude, clean.trace, LastStep, g, h)'
    BY <1>2, <2>2, <2>3, SkippedStays
  <2>5. (prelude = clean.prelude => Beside(g, h))'
    BY <1>2, <2>1
  <2> QED
    BY <2>4, <2>5 DEF BesideInv
<1>3. CASE EarlierRequest
  <2>1. /\ UNCHANGED <<case, prelude, fault, clean>> /\ stage = "earlier" /\ stage' = "earlier" /\ next' = next + 1
        /\ next \in 1..Len(prelude) /\ store' = After(store, prelude[next])
    BY <1>1, <1>3, HandleIsAfter DEF EarlierRequest, FlowInv
  <2>2. ASSUME NEW g, NEW h, CleanRun(clean.prelude, clean.trace, LastStep, g, h),
               prelude = clean.prelude, Beside(g, h)
        PROVE  Beside(g, h)'
    <3>1. g[next] = After(g[next - 1], prelude[next]) /\ store = g[next - 1]
      BY <2>1, <2>2 DEF CleanRun, Serves, Beside
    <3>2. PICK n : n = next
      OBVIOUS
    <3>3. store' = g[n] /\ n = next' - 1
      BY <2>1, <3>1, <3>2
    <3> QED
      BY <2>1, <3>3 DEF Beside
  <2> QED
    BY <1>2, <2>1, <2>2
<1>4. CASE StartCase
  <2>1. /\ UNCHANGED <<case, prelude, fault, clean, store, scope, trace>> /\ stage = "earlier" /\ stage' = "main"
        /\ next = Len(prelude) + 1 /\ next' = 1 /\ scope = <<>> /\ trace = NothingExecuted
    BY <1>1, <1>4 DEF StartCase, FlowInv, RunInv, EarlierInv
  <2>2. LastStep' = LastStep /\ Here' = Here
    BY <2>1, SkippedStays DEF Here
  <2>3. ASSUME NEW g, NEW h, CleanRun(clean.prelude, clean.trace, LastStep, g, h),
               prelude = clean.prelude, Beside(g, h)
        PROVE  Beside(g, h)'
    <3>1. h[0] = [store |-> g[Len(prelude)], scope |-> <<>>] /\ store = g[Len(prelude)]
      BY <1>1, <2>1, <2>3 DEF CleanRun, Beside
    <3>2. Here = h[0]
      BY <2>1, <3>1 DEF Here
    <3>3. \A k \in 1..LastStep : trace[k].executed = FALSE
      BY <2>1 DEF NothingExecuted, Skipped
    <3> QED
      BY <1>1, <2>1, <2>2, <3>2, <3>3 DEF Beside, Alongside
  <2> QED
    BY <1>2, <2>1, <2>3
<1>5. CASE ExecuteMain \/ RunCleanup
  <2>1. UNCHANGED <<case, prelude, fault, clean>> /\ stage # "earlier" /\ stage' # "earlier"
    BY <1>5 DEF ExecuteMain, RunCleanup
  <2>2. ASSUME NEW g, NEW h, CleanRun(clean.prelude, clean.trace, LastStep, g, h),
               prelude = clean.prelude, Beside(g, h)
        PROVE  Beside(g, h)'
    <3>1. Alongside(trace', next' - 1, Here', h)
      BY <1>5, <2>1, <2>2, BesideExecution DEF CleanRun, Beside
    <3>2. LastStep' = LastStep
      BY <2>1, SkippedStays
    <3> QED
      BY <2>1, <3>1, <3>2 DEF Beside, Alongside
  <2> QED
    BY <1>2, <2>1, <2>2
<1>6. CASE EvaluateRelations
  <2>1. /\ UNCHANGED <<case, prelude, fault, clean, store, scope, trace, next>>
        /\ stage # "earlier" /\ stage' # "earlier"
    BY <1>6 DEF EvaluateRelations
  <2>2. LastStep' = LastStep /\ Here' = Here
    BY <2>1, SkippedStays DEF Here
  <2> QED
    BY <1>2, <2>1, <2>2 DEF Beside, Alongside
<1>7. CASE StartFaultRun
  <2>1. /\ fault = "none" /\ stage = "done" /\ UNCHANGED case
        /\ stage' = "earlier" /\ next' = 1 /\ store' = Fresh
        /\ clean' = [prelude |-> prelude, trace |-> trace, relations |-> relationResults]
    BY <1>7, StartsFresh DEF StartFaultRun
  <2>2. next - 1 = LastStep
    BY <1>1, <2>1 DEF FlowInv
  <2>3. PICK g, h : CleanRun(prelude, trace, LastStep, g, h)
    BY <2>1, <2>2 DEF RetracedInv
  <2>4. PICK requests, executions, m : requests = prelude /\ executions = trace /\ m = LastStep
    OBVIOUS
  <2>5. CleanRun(requests, executions, m, g, h)'
    BY <2>1, <2>3, <2>4, ReplayStays
  <2>6. clean'.prelude = requests /\ clean'.trace = executions /\ LastStep' = m
    BY <2>1, <2>4, SkippedStays
  <2>7. CleanRun(clean.prelude, clean.trace, LastStep, g, h)'
    BY <2>5, <2>6
  <2>8. Beside(g, h)'
    <3>1. g[0] = Fresh
      BY <2>3 DEF CleanRun, Serves
    <3> QED
      BY <2>1, <3>1 DEF Beside
  <2> QED
    BY <2>7, <2>8 DEF BesideInv
<1>8. CASE UNCHANGED vars
  <2>1. UNCHANGED <<case, prelude, fault, clean, store, scope, trace, next, stage>>
    BY <1>8 DEF vars, executor
  <2>2. LastStep' = LastStep /\ Here' = Here
    BY <2>1, SkippedStays DEF Here
  <2> QED
    BY <1>2, <2>1, <2>2 DEF Beside, Alongside
<1> QED
  BY <1>3, <1>4, <1>5, <1>6, <1>7, <1>8 DEF Next

LEMMA KeptCleanStep ==
  ASSUME RunInv, RecordInv, KeptCleanInv, [Next]_vars
  PROVE  KeptCleanInv'
<1>1. CASE UNCHANGED <<case, fault, clean>>
  BY <1>1, SkippedStays DEF KeptCleanInv, Relations
<1>2. CASE StartFaultRun
  <2>1. /\ stage = "done" /\ UNCHANGED case
        /\ clean' = [prelude |-> prelude, trace |-> trace, relations |-> relationResults]
    BY <1>2 DEF StartFaultRun
  <2>2. PICK executions, outcomes : executions = trace /\ outcomes = relationResults
    OBVIOUS
  <2>3. /\ executions = [k \in 1..LastStep |-> executions[k]]
        /\ outcomes =
              [r \in Relations |->
                 EvaluateRelation(r, [k \in 1..LastStep |-> IF IsCleanup(k) THEN Skipped(k) ELSE executions[k]])]
    BY <2>1, <2>2 DEF RunInv, TraceTyped, RecordInv, EvaluatedInv, MainPart
  <2>4. clean'.trace = executions /\ clean'.relations = outcomes
    BY <2>1, <2>2
  <2> QED
    BY <2>1, <2>3, <2>4, SkippedStays DEF KeptCleanInv
<1>3. CASE EarlierRequest \/ StartCase \/ ExecuteMain \/ EvaluateRelations \/ RunCleanup \/ UNCHANGED vars
  BY <1>1, <1>3 DEF EarlierRequest, StartCase, ExecuteMain, EvaluateRelations, RunCleanup, vars
<1> QED
  BY <1>2, <1>3 DEF Next

LEMMA ReplayInvHolds == Spec => []ReplayInv
<1>1. Init => ReplayInv
  <2> SUFFICES ASSUME Init
               PROVE  ReplayInv
    OBVIOUS
  <2>1. /\ fault = "none" /\ stage = "earlier" /\ next = 1 /\ store = Fresh /\ prelude \in Preludes
    BY StartsFresh DEF Init
  <2>2. FlowInv
    BY <2>1, PreludeIsList DEF FlowInv
  <2>3. RetracedInv
    <3>1. PICK g : g = [i \in 0..0 |-> Fresh]
      OBVIOUS
    <3>2. Serves(prelude, next - 1, g) /\ g[next - 1] = store
      BY <2>1, <3>1 DEF Serves
    <3> QED
      BY <2>1, <3>2 DEF RetracedInv
  <2> QED
    BY <2>1, <2>2, <2>3 DEF ReplayInv, BesideInv, KeptCleanInv
<1>2. RunInv /\ RecordInv /\ ReplayInv /\ [Next]_vars => ReplayInv'
  BY FlowStep, RetracedStep, BesideStep, KeptCleanStep DEF ReplayInv
<1> QED
  BY <1>1, <1>2, RunInvHolds, RecordInvHolds, PTL DEF Spec

LEMMA ReplaysAlike ==
  ASSUME RunInv, RecordInv, ReplayInv
  PROVE  RunsAlike
<1> SUFFICES ASSUME fault # "none", prelude = clean.prelude, stage # "earlier"
             PROVE  /\ \A k \in 1..LastStep :
                         trace[k].executed /\ (\A j \in 1..k : ~trace[j].marked) => trace[k] = clean.trace[k]
                    /\ (\A k \in 1..LastStep : ~trace[k].marked) /\ stage = "done" =>
                         trace = clean.trace /\ relationResults = clean.relations
  BY DEF RunsAlike
<1>1. PICK h : Alongside(trace, next - 1, Here, h)
  BY DEF ReplayInv, BesideInv, Beside
<1>2. ASSUME \A k \in 1..LastStep : ~trace[k].marked, stage = "done"
      PROVE  trace = clean.trace /\ relationResults = clean.relations
  <2>1. LastStep \in Nat /\ next - 1 = LastStep
    BY <1>2, Positions DEF RunInv, ReplayInv, FlowInv
  <2>2. \A k \in 1..LastStep : trace[k] = clean.trace[k]
    BY <1>1, <1>2, <2>1 DEF Alongside
  <2>3. trace = clean.trace
    BY <2>2 DEF RunInv, TraceTyped, ReplayInv, KeptCleanInv
  <2> QED
    BY <1>2, <2>3 DEF RecordInv, EvaluatedInv, MainPart, ReplayInv, KeptCleanInv
<1> QED
  BY <1>1, <1>2 DEF Alongside

(***************************************************************************)
(* RunsAlike: whatever the case, the requests that came before it and the  *)
(* fault, the run after the reset repeats the run before it, identifiers   *)
(* and times included, up to the first response the fault changed; if it   *)
(* changes none, every execution and every relation comes out the same.    *)
(***************************************************************************)
THEOREM RunsAreAlike == Spec => []RunsAlike
<1>1. RunInv /\ RecordInv /\ ReplayInv => RunsAlike
  BY ReplaysAlike
<1> QED
  BY <1>1, RunInvHolds, RecordInvHolds, ReplayInvHolds, PTL
=============================================================================
