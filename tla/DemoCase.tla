------------------------------ MODULE DemoCase ------------------------------
(***************************************************************************)
(* A validated case executed against the demo service through the fault    *)
(* proxy, twice: with the proxy passing responses through and, after a     *)
(* reset, with one fault in force. Where CaseExecution leaves open what a  *)
(* step comes to, here it follows from the service's state, the mutation   *)
(* and the checks. Transport failures are CaseExecution's subject: here    *)
(* every request that is sent is answered.                                 *)
(***************************************************************************)
EXTENDS SemanticValidation, CaseResults

CONSTANTS
  Cases,     \* candidate cases, admissible or not
  Preludes,  \* requests of the batch's earlier cases, as sequences
  Faults,    \* name -> fault definition
  Catalog    \* the names of the definitions of benchmarks/demo_items/faults

RelationTypes == {"repeated_read_consistency", "query_parameter_order_invariance",
                  "pagination_monotonicity", "create_read_consistency",
                  "update_read_consistency", "delete_read_consistency"}

\* What the fields of a TestCase are declared to be (domain/test_case.py), on
\* which its validators rest.
IsList(list) == list \in Seq({list[i] : i \in DOMAIN list})
ASSUME CasesAssumption ==
  \A c \in Cases :
    /\ IsList(c.setup) /\ IsList(c.main) /\ IsList(c.cleanup)
    /\ \A i \in DOMAIN StepsOf(c) : IsList(StepsOf(c)[i].query)
    /\ \A i \in DOMAIN c.cleanup :
         /\ c.cleanup[i].when \in {"always", "on_success", "on_failure"}
         /\ c.cleanup[i].ignoreErrors \in BOOLEAN
    /\ \A r \in c.relations : r.type \in RelationTypes
ASSUME PreludesAssumption == \A requests \in Preludes : IsList(requests)

VARIABLES
  items, nextId, clockTick, answer,  \* the service
  case,             \* the case
  prelude,          \* the earlier requests of a run
  fault,            \* name of the fault in force, or "none"
  stage,            \* what the run is in
  next,             \* position of the next request of the prelude, or step
  halted,           \* halted_after_step, or 0
  scope,            \* variables: name -> value
  trace,            \* the executions of the run, by position
  relationResults,  \* outcome of each relation, once evaluated
  clean             \* what remains of the first run once it is finished

store == <<items, nextId, clockTick, answer>>
executor == <<next, halted, scope, trace, relationResults>>
vars == <<store, case, prelude, fault, stage, executor, clean>>

Service == INSTANCE ItemStore WITH Requests <- {}
Proxy == INSTANCE FaultMutations

NotYet == [notYet |-> TRUE]

\* validate_test_case_batch_semantics: only admissible cases are executed.
AdmissibleCases == {c \in Cases : Admissible(c, <<>>)}

Relations == case.relations
Steps == StepsOf(case)
LastStep == Len(Steps)
MainEnd == MainEndOf(case)
IsCleanup(k) == k > MainEnd
Required(k) == IsCleanup(k) => ~Steps[k].ignoreErrors

\* skip_step, and a step nobody has executed yet.
Skipped(k) == [
  executed |-> FALSE, outcome |-> "skipped", required |-> Required(k),
  request |-> BuildError, response |-> NoResponse, upstream |-> NoResponse,
  marked |-> FALSE, failed |-> FALSE, extracted |-> <<>>]

NothingExecuted == [k \in 1..LastStep |-> Skipped(k)]
NothingEvaluated == [r \in Relations |-> "pending"]

Init ==
  /\ Service!Init
  /\ case \in AdmissibleCases
  /\ prelude \in Preludes
  /\ fault = "none"
  /\ stage = "earlier"
  /\ next = 1
  /\ halted = 0
  /\ scope = <<>>
  /\ trace = NothingExecuted
  /\ relationResults = NothingEvaluated
  /\ clean = NotYet

----------------------------------------------------------------------------
(* The batch's earlier cases, reduced to the requests they sent. *)

EarlierRequest ==
  /\ stage = "earlier"
  /\ next <= Len(prelude)
  /\ Service!Handle(prelude[next])
  /\ next' = next + 1
  /\ UNCHANGED <<case, prelude, fault, stage, halted, scope, trace, relationResults, clean>>

StartCase ==
  /\ stage = "earlier"
  /\ next > Len(prelude)
  /\ stage' = "main"
  /\ next' = 1
  /\ UNCHANGED <<store, case, prelude, fault, halted, scope, trace, relationResults, clean>>

----------------------------------------------------------------------------
(* execute_step *)

\* The step's request cannot be built, or does not keep what its mode says
\* of the contract: nothing is sent.
Unsent(k, request) ==
  [Skipped(k) EXCEPT !.executed = TRUE, !.outcome = "error", !.request = request]

\* _request_contract_failure
RequestContractFailure(step, request) ==
  (step.mode = "conformant") <=> RequestHasIssues(request)

\* The proxy's handler: forward, then apply the fault in force.
Delivered(request, response) ==
  IF fault = "none" THEN Proxy!NotTriggered(response, "no_active_fault")
  ELSE Proxy!ApplyResponseFault(Faults[fault], request, response)

Answered(k, request, upstream) ==
  LET application == Delivered(request, upstream)
      response == application.response
      hasIssues == ResponseHasIssues(request, response)
      failed == StepFails(Steps[k], response, hasIssues, scope)
      errored == StepErrs(Steps[k], response, hasIssues, scope)
  IN [executed |-> TRUE, outcome |-> EvaluationOutcome(failed, errored), required |-> Required(k),
      request |-> request, response |-> response, upstream |-> upstream,
      marked |-> application.triggered, failed |-> failed,
      extracted |-> Extracted(Steps[k].extract, response)]

\* The execution is kept and its extractions replace earlier ones.
Keep(k, execution) ==
  /\ trace' = [trace EXCEPT ![k] = execution]
  /\ scope' = [v \in DOMAIN scope \cup DOMAIN execution.extracted |->
                 IF v \in DOMAIN execution.extracted THEN execution.extracted[v] ELSE scope[v]]

ExecuteStep(k) ==
  LET request == Build(Steps[k], scope)
  IN IF ~IsBuilt(request) \/ RequestContractFailure(Steps[k], request)
     THEN Keep(k, Unsent(k, request)) /\ UNCHANGED store
     ELSE Service!Handle(request) /\ Keep(k, Answered(k, request, answer'))

----------------------------------------------------------------------------
(* execute_scenario_flow *)

ExecuteMain ==
  /\ stage = "main"
  /\ ExecuteStep(next)
  /\ LET passed == trace'[next].outcome = "passed"
     IN /\ halted' = IF passed THEN halted ELSE next
        /\ IF passed /\ next < MainEnd
           THEN stage' = "main" /\ next' = next + 1
           ELSE stage' = "relations" /\ next' = MainEnd + 1
  /\ UNCHANGED <<case, prelude, fault, relationResults, clean>>

EvaluateRelations ==
  /\ stage = "relations"
  /\ relationResults' = [r \in Relations |-> EvaluateRelation(r, trace)]
  /\ stage' = IF next > LastStep THEN "done" ELSE "cleanup"
  /\ UNCHANGED <<store, case, prelude, fault, next, halted, scope, trace, clean>>

CleanupShouldRun(k) ==
  \/ Steps[k].when = "always"
  \/ Steps[k].when = "on_success" /\ halted = 0
  \/ Steps[k].when = "on_failure" /\ halted # 0

\* Mutant: cleanup ends with the first cleanup step that does not pass.
RunCleanup_StopsAtFailure ==
  /\ stage = "cleanup"
  /\ IF CleanupShouldRun(next) THEN ExecuteStep(next) ELSE UNCHANGED <<store, scope, trace>>
  /\ next' = next + 1
  /\ stage' = IF next = LastStep \/ trace'[next].outcome \in {"failed", "error"}
              THEN "done" ELSE "cleanup"
  /\ UNCHANGED <<case, prelude, fault, halted, relationResults, clean>>

RunCleanup ==
  /\ stage = "cleanup"
  /\ IF CleanupShouldRun(next) THEN ExecuteStep(next) ELSE UNCHANGED <<store, scope, trace>>
  /\ next' = next + 1
  /\ stage' = IF next = LastStep THEN "done" ELSE "cleanup"
  /\ UNCHANGED <<case, prelude, fault, halted, relationResults, clean>>

----------------------------------------------------------------------------
\* The suite runner resets the service, puts a fault in force and has the
\* whole batch executed again. Faults met by the earlier cases may cut those
\* short, so what they send need not be what they sent the first time.
StartFaultRun ==
  /\ stage = "done"
  /\ fault = "none"
  /\ Service!Reset
  /\ fault' \in DOMAIN Faults
  /\ prelude' \in Preludes
  /\ clean' = [prelude |-> prelude, trace |-> trace, relations |-> relationResults]
  /\ stage' = "earlier"
  /\ next' = 1
  /\ halted' = 0
  /\ scope' = <<>>
  /\ trace' = NothingExecuted
  /\ relationResults' = NothingEvaluated
  /\ UNCHANGED case

Next == \/ EarlierRequest \/ StartCase \/ ExecuteMain \/ EvaluateRelations
        \/ RunCleanup \/ StartFaultRun

Spec == Init /\ [][Next]_vars

----------------------------------------------------------------------------
(* The case as CaseExecution sees it: what steps use and extract instead of *)
(* requests and responses, and which step set a variable.                  *)

Variables(extractions) == {extraction.variable : extraction \in ToSet(extractions)}

LacksPath(step) == DOMAIN step.path # Placeholders(step.op)

DeclaredStep(step) == [
  uses |-> RequestReferences(step), lacksPath |-> LacksPath(step),
  checks |-> AssertionReferences(step), extracts |-> Variables(step.extract),
  required |-> {extraction.variable : extraction \in {e \in ToSet(step.extract) : e.required}}]
DeclaredCleanup(step) ==
  LET declared == DeclaredStep(step)
      policy == {"when", "ignoreErrors"}
  IN [field \in DOMAIN declared \cup policy |->
        IF field \in policy THEN step[field] ELSE declared[field]]

DeclaredRelation(r) ==
  [source |-> r.source, followUp |-> r.followUp,
   baseline |-> IF r.type = "update_read_consistency" /\ r.stable # {} THEN r.baseline ELSE 0,
   requestOnly |-> /\ r.type \in {"create_read_consistency", "update_read_consistency"}
                   /\ r.type = "update_read_consistency" => r.stable = {}
                   /\ \A pair \in r.fieldPairs : pair[3] = "request.body"]

DeclaredCase == [
  setup |-> [i \in DOMAIN case.setup |-> DeclaredStep(case.setup[i])],
  main |-> [i \in DOMAIN case.main |-> DeclaredStep(case.main[i])],
  cleanup |-> [i \in DOMAIN case.cleanup |-> DeclaredCleanup(case.cleanup[i])],
  relations |-> {DeclaredRelation(r) : r \in Relations},
  faultActive |-> fault # "none"]

Result(execution) == [
  required |-> execution.required, outcome |-> execution.outcome,
  request |-> IsBuilt(execution.request), response |-> execution.response # NoResponse,
  marked |-> execution.marked, failed |-> execution.failed,
  extracted |-> DOMAIN execution.extracted]

Setter(v) == Max({k \in 1..LastStep : v \in DOMAIN trace[k].extracted})

Executor(c) == INSTANCE CaseExecution WITH
  Setup <- c.setup, Main <- c.main, Cleanup <- c.cleanup, Relations <- c.relations,
  Initial <- {}, FaultActive <- c.faultActive,
  scope <- [v \in DOMAIN scope |-> Setter(v)],
  results <- [k \in 1..LastStep |-> Result(trace[k])],
  relationResults <- [d \in {DeclaredRelation(r) : r \in Relations} |->
                        relationResults[CHOOSE r \in Relations : DeclaredRelation(r) = d]]

----------------------------------------------------------------------------
(* Properties. *)

(***************************************************************************)
(* CaseExecution is the specification of this one: a run of a case starts  *)
(* in its initial state and every step of the run is one of its steps.     *)
(* What it leaves open, and what its properties were shown for, includes   *)
(* everything requests, responses, mutations and checks make of a step.    *)
(***************************************************************************)
ExecutesAsSpecified ==
  [][\A c \in {DeclaredCase} :
       /\ stage = "earlier" /\ stage' = "main" => Executor(c)!Init'
       /\ stage # "earlier" /\ stage' # "earlier" => Executor(c)!Next]_vars

Sent(k) == trace[k].response # NoResponse
Writes(k) == Sent(k) /\ ~ReadOnly(Steps[k].op)
CaseVerdict == CaseOutcome(trace, relationResults)
Failing(operators, k) ==
  Sent(k) /\ \E i \in DOMAIN Steps[k].assertions :
    /\ Steps[k].assertions[i].operator \in operators
    /\ ExecuteAssertion(Steps[k].assertions[i], trace[k].response,
                        ResponseHasIssues(trace[k].request, trace[k].response), scope) = "failed"

\* The steps whose responses a relation compares, in order, end with followUp.
Compared(r) == {r.source, r.followUp} \cup (IF r.stable = {} THEN {} ELSE {r.baseline})
Between(r) == {k \in Min(Compared(r))..r.followUp : k \notin Compared(r)}

(***************************************************************************)
(* What the service answers to reads, no relation over reads calls wrong,  *)
(* not even under a fault: a fault changes equal answers to equal requests *)
(* in the same way. Repeated reads never fail. A changed query order fails *)
(* only if the case writes between the reads or gives a parameter twice,   *)
(* of which the service uses the last: neither is ruled out by validation. *)
(* A read after a delete fails only if one of the two was mutated or the   *)
(* case does not accept that an item is not found.                         *)
(***************************************************************************)
GivenTwice(query) == \E i, j \in DOMAIN query : i # j /\ query[i][1] = query[j][1]

ReadsAgree ==
  \A r \in Relations : relationResults[r] = "failed" =>
    /\ r.type # "repeated_read_consistency"
    /\ r.type = "query_parameter_order_invariance" =>
         \/ \E k \in (r.source + 1)..(r.followUp - 1) : Writes(k)
         \/ GivenTwice(Steps[r.source].query)
    /\ r.type = "delete_read_consistency" =>
         trace[r.source].marked \/ trace[r.followUp].marked \/ 404 \notin r.accepted

(***************************************************************************)
(* Without a mutated response nothing else accuses the service either: no  *)
(* answer of it fails the contract or the uniqueness check, and relations  *)
(* between pages or over the life of an item fail only if the case itself  *)
(* writes between the steps they compare, which validation lets pass.      *)
(***************************************************************************)
NoFalseAlarm ==
  (\A k \in 1..LastStep : ~trace[k].marked) =>
    /\ \A k \in 1..LastStep : ~Failing({"schema_matches", "items_unique_by"}, k)
    /\ \A r \in Relations :
         /\ relationResults[r] = "failed"
         /\ r.type \in {"pagination_monotonicity", "create_read_consistency", "update_read_consistency"}
         => \E k \in Between(r) : Writes(k)

(***************************************************************************)
(* A response carries the fault's mark exactly if it is not the one the    *)
(* service gave: triggers are counted, and detection is credited, for      *)
(* changed responses only.                                                 *)
(***************************************************************************)
MarkedMeansChanged ==
  \A k \in 1..LastStep : trace[k].marked <=> trace[k].response # trace[k].upstream

(***************************************************************************)
(* Every fault of the catalogue is found by a case that meets it in a step *)
(* which counts and asserts its status and schema, except the duplicated   *)
(* item: that page keeps its schema, and only uniqueness tells.            *)
(***************************************************************************)
Asserts(k, operator) == \E i \in DOMAIN Steps[k].assertions : Steps[k].assertions[i].operator = operator

Suspects(k) ==
  /\ trace[k].marked /\ trace[k].required
  /\ Asserts(k, "status_is") /\ Asserts(k, "schema_matches")
  /\ fault = "list-duplicate-first-item" => Asserts(k, "items_unique_by")

CatalogFaultIsCaught ==
  stage = "done" /\ fault \in Catalog /\ (\E k \in 1..LastStep : Suspects(k)) =>
    CaseVerdict # "passed"

(***************************************************************************)
(* What validation accepted can be executed: a step that comes to run is   *)
(* built and sent unless a variable it refers to was not extracted or was  *)
(* extracted from a mutated response, or the violation it declares is lost *)
(* on the way: a path parameter that is missing, which no request can      *)
(* express, or one of the wrong type, which its text no longer has.        *)
(***************************************************************************)
SoundlyExtracted(v, k) ==
  \E j \in 1..(k - 1) : v \in DOMAIN trace[j].extracted /\ ~trace[j].marked

Inexpressible(violation) ==
  \/ violation[1] = "missing_required" /\ violation[2] = "path"
  \/ violation[1] = "type_mismatch" /\ violation[2] \in {"path", "query"}

ValidStepIsSent ==
  \A k \in 1..LastStep :
    trace[k].executed /\ ~Sent(k) =>
      \/ \E v \in RequestReferences(Steps[k]) : ~SoundlyExtracted(v, k)
      \/ \E violation \in Steps[k].violations : Inexpressible(violation)

(***************************************************************************)
(* The two runs of the experiment differ by the fault alone: as long as no *)
(* response was mutated, and if the earlier cases sent the same, the run   *)
(* after the reset is the run before it, identifiers and times included.   *)
(***************************************************************************)
RunsAlike ==
  fault # "none" /\ prelude = clean.prelude /\ stage # "earlier" =>
    /\ \A k \in 1..LastStep :
         trace[k].executed /\ (\A j \in 1..k : ~trace[j].marked) => trace[k] = clean.trace[k]
    /\ (\A k \in 1..LastStep : ~trace[k].marked) /\ stage = "done" =>
         trace = clean.trace /\ relationResults = clean.relations

(***************************************************************************)
(* As in ItemStore: between resets an identifier belongs to one item.      *)
(***************************************************************************)
NoIdentifierReused == [][Service!Reset \/ Service!IdentifiersRetire]_store
=============================================================================
