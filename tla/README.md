# A TLA+ model of the OpenAPI AI test evaluator

The repository evaluates generated API test suites: a batch of test cases is
executed once against a clean system under test (SUT) and once for each
configured fault, which a proxy between runner and SUT injects into responses;
an evaluator then decides which faults the batch detected. A result is worth
something only if the runs are really comparable and if every verdict follows
from what was observed. This directory states what that means and checks it:
TLA+ modules that model the code, TLC configurations that check them on small
instances, and proofs checked by TLAPS for instances of any size.

Paths below are relative to `src/`; `evaluation/`, `execution/` and so on are
packages of `src/openapi_ai_test_evaluator/`, `services/` is at the top.

## The system

| Component | State it keeps | Operations | Talks to |
| --- | --- | --- | --- |
| Fault proxy (`services/fault_proxy/app.py`) | active fault, trigger count, under a lock; in memory only | activate, reset, state, apply; one asyncio task per proxied request | control client (HTTP), runner (HTTP), SUT (HTTP) |
| Fault mutations (`services/fault_proxy/mutations.py`) | none | match a response, rewrite status or JSON body | called by the proxy's apply |
| Suite runner (`evaluation/suite_runner.py`) | the run under way, the fault runs recorded so far | disable fault, reset SUT, activate fault, execute batch, observe state; a finally clause | proxy control endpoints, SUT reset endpoint, batch executor |
| Batch and plan executor (`execution/case_batch_executor.py`, `plan_executor.py`) | case results so far | validate, reject mutations, run the cases in order | scenario executor, transport |
| Scenario executor (`execution/scenario_executor.py`) | variable scope, step executions, `halted_after_step` | setup and main flow, relations, conditional cleanup | step executor, relations |
| Step executor (`execution/step_executor.py`, `extractions.py`, `assertions.py`, `transport.py`, `request_builder.py`) | none beyond the step | build, check contract, send, assert, extract | transport |
| Relations (`execution/metamorphic_relations.py`, `lifecycle_relations.py`) | none | compare two or three executed steps | called by the scenario executor |
| Result aggregation (`execution/result_aggregator.py`) | none | step, relation, case and run outcomes | scenario executor's result |
| Suite evaluator (`evaluation/suite_evaluator.py`, `domain/evaluation.py`) | none | validate an execution, verdict on each fault, metrics | runner's result |
| Pipelines (`evaluation/suite_pipeline.py`, `benchmark_pipeline.py`) | files in an output directory | prepare runs, execute, evaluate, write artifacts | runner, evaluator, file system |
| Generation (`generation/`) | admitted and rejected cases of one attempt | ask a provider, admit, compose | providers, semantic validator |
| Schemathesis baseline (`generation/schemathesis_*.py`) | adapted cases, skip reasons, counts | generate, capture, adapt, collect | a library, semantic validator |
| Commands (`cli/app.py`) | artifact files | preflight, call one of the above, write its artifacts in order | file system |
| Semantic validation (`validation/semantic_validator.py`) | none | check a batch against the OpenAPI document | called before execution and at admission |
| Reporting (`reporting/`) | none | compare evaluations, render | reads results |
| Demo item service (`services/demo_items/app.py`) | items under a lock | CRUD, list, test reset | the SUT of the benchmark |

What is hard about it:

* **Interleaving.** The proxy awaits the upstream and consults the fault only
  afterwards (`app.py:167-182`), so the fault applied to a response is the one
  active then. Runner, proxy and SUT share no clock: a request given up by its
  sender may still be anywhere.
* **Loss.** Any response or control reply may be lost after it took effect.
  The runner does not retry, and the proxy is not told.
* **Crashes.** The proxy keeps its state in memory and restarts into
  pass-through mode. The runner may die before its finally clause.
* **Ordering.** disable, reset, activate, measure, observe; main flow,
  relations, cleanup.
* **Partial failure.** A step ends in one of five ways; later steps, cleanup,
  relations and verdicts each depend on it differently.
* **Precedence.** An error outranks a failure in a step and in a case, while
  the detection rule ranks a failure first.
* **Agreement of parts.** Validation decides statically what building, contract
  check, relations and evaluation meet at run time; each is written by itself,
  and a case passes through all of them.

`PROJECT.json` lists these as hazards, each at the line where it bites, with
the properties that would catch it going wrong.

What would make each component correct:

* proxy: the count belongs to the active fault and to marked responses, and no
  request is forgotten;
* runner: evidence of a run comes from that run, under its fault, against a SUT
  that only it has touched; what is published is complete and the proxy is
  restored;
* scenario executor: the scope holds the latest values, relations come before
  cleanup, every eligible cleanup step runs;
* aggregation: a case passes exactly if everything that counts went well;
* evaluator: a fault is detected, missed or undecided only on evidence that
  justifies it, and no finished execution is thrown away;
* pipelines: an interrupted benchmark leaves nothing that looks complete;
* validation, requests, relations: what is accepted can be executed, and a
  correct service is not accused by it;
* mutations: a fault that counts as triggered changed the response, and a case
  that looks at what was changed notices;
* SUT: after a reset a run can be repeated exactly;
* generation and commands: what a command reports as a success the next one
  accepts, and no artifact stands beside another that it does not belong to.

## The modules

```
FaultExperiment  <---implements---  FaultSuite  ---INSTANCE--->  FaultProxy
                                        |
                              MC_FaultSuite, FaultSuiteProofs       FaultProxyProofs

CaseResults  <--EXTENDS--  CaseExecution  <--EXTENDS--  FaultEvaluation
                                |                            |
             MC_CaseExecution, CaseExecutionProofs    MC_FaultEvaluation,
                                     ^----EXTENDS---- FaultEvaluationProofs

BenchmarkPipeline  <--EXTENDS--  MC_BenchmarkPipeline, BenchmarkPipelineProofs

JsonValues <- SchemaValues <- OpenApiRequests, ResponseChecks
    ^   ^                            ^
    |   |                    ScenarioRelations <- SemanticValidation <- MC_DemoDocument
    |   |                                            ^      ^               ^     ^
    |   FaultMutations, ItemStore <--INSTANCE-- DemoCase    |               |     |
    |        (ItemStoreProofs)                    ^   ^     |               |     |
    |                             DemoCaseProofs--+   MC_DemoCase-----------+     |
    |                                                 SchemathesisBatch           |
    |                                                       ^                     |
CaseGeneration <- SuiteComposition <- Workflow <----------- MC_Workflow ----------+
                                         ^
                                  WorkflowProofs

DemoCase  ---implements--->  CaseExecution
```

An arrow `<-` is EXTENDS. The arms of a CASE are disjoint; where the code asks in
an order and the first answer counts, the model has IF ... ELSE IF. `DemoCaseProofs`
uses `ItemStoreProofs`, and reaches `FaultMutations` through the instance of
`DemoCase`. No module has a RECURSIVE operator: recursion over values and schemas
is written as functions over the finite set of their parts.

### FaultProxy

The controller and its requests. `active` is `_active`, `triggerCount` is
`_trigger_count`, `exchange[r]` is where the handler of request `r` is and
`marker[r]` the `x-oate-fault-id` header of the response it built.
`Activate`, `Reset` and `Apply` each hold the lock for their whole body in the
code and are one action each. `Receive`, `UpstreamAnswers`, `UpstreamFails` are
the points where the handler awaits. `UpstreamFails` is every path on which the
proxy answers 502 itself. Whether a fault matches and changes a response depends on
the response, so it is a choice in `Apply`. `Restart` loses what the process
held. A 404 for an unknown fault is the absence of a step.

### FaultSuite

`execute_fault_suite` over that proxy. `pc` is the runner's next statement:

| `pc` | code (`suite_runner.py`) | action |
| --- | --- | --- |
| `disable` | `control.disable_fault()` 145, 161 | `DisableFault` |
| `reset` | `control.reset_sut()` 146, 162 | `ResetSut` |
| `activate` | `control.activate_fault()` 163 | `ActivateFault` |
| `running`, `await` | `execute_test_case_batch` 147, 164 | `SendRequest`, `StoreResponse`, `LoseResponse`, `FinishBatch`, `BatchRaises` |
| `observe` | `control.state()`, `_record_observed_fault` 179-185 | `ObserveState` |
| `finally`, `unwind` | the finally clause 187, without and with an exception | `DisableFinally` |
| `published`, `raised`, `failed`, `killed` | returned 189; raised with or without the proxy restored; process died | |

Run 0 is the clean run, run `i` the one of `FaultSeq[i]`. A batch is abstracted
to a sequence of at most `MaxRequests` requests: `evidence` is what the run
result keeps of each (a response, or none), which is all the properties and the
evaluator's consistency check tell apart. A failing control call (`SwitchFails`)
never arrived, took effect with its reply lost, or is still under way (`late`)
and takes effect at any later time (`LateSwitch`). `sut` holds the requests
whose effect is in the SUT's store, `pending` those it may still handle although
the proxy has stopped waiting. `bypassed` is a history variable: requests whose
response was built while no fault was active.

### FaultExperiment

What the suite is for, without its protocol: a clean measurement with nothing
armed, then arm, measure, record for each fault in order, publish only when all
were recorded, abandon at any time. `FaultSuite` implements it under the mapping
`stageBar`, with the proxy's active fault as the armed one. The abstract
specification lets a fault vanish while it is armed (`Disarm`, a proxy restart)
and allows `Record` only while it is in force. It states no liveness.

### CaseResults and CaseExecution

`CaseResults` holds the outcome functions of `step_executor.py` and
`result_aggregator.py`. `CaseExecution` runs one case: `ExecuteMain` is one
iteration of `execute_scenario_main`, `EvaluateRelations` the call at line 112,
`RunCleanup` one iteration of the cleanup loop of `execute_scenario_flow`,
eligible or skipped. `ExecuteStep` is `execute_step`: the request cannot be
built, was blocked or lost, or was answered, and then the checks may come out
in any way its variables allow. `scope` maps a variable to the step it was last
extracted by, so that an older value is not confused with a newer one. Steps are
positions in setup, main, cleanup. The assumptions on the declared steps are
what semantic validation (`semantic_validator.py:985-1026, 643-982`) enforces
before a case is executed: variables are declared by an earlier step, relations
compare an earlier with a later setup or main step.

`RelationChoices` gives the outcomes a relation may have, given which of its
steps were executed, sent and answered. It joins the metamorphic and the
lifecycle relations; what they compare is abstracted. A relation whose field pairs
all read the follow-up's request (`requestOnly`; `lifecycle_relations.py`,
`relation_values.py`) can hold or fail although that step got no response.

### FaultEvaluation

`_evaluate_fault` over fault runs that `CaseExecution` produces, case after case,
with any response marked. Each definition is one assignment of the function,
`ValidFaultEvaluation` is the validator of the `FaultEvaluation` model. The clean
run enters as the outcome of each case. `oracleFailed` is kept beside the result,
unknown to the evaluator, to judge its verdict by.

### BenchmarkPipeline

`oate benchmark run --config` invocations, one after the other, over the same
directories. `stage` is where the running one is:

| `stage` | code (`benchmark_pipeline.py`, `suite_pipeline.py`) | action |
| --- | --- | --- |
| `load` | `load_benchmark_config` (`cli/app.py:142`) | `LoadConfig` |
| `inputs` | `_prepare_runs` 111 | `PrepareRuns` |
| `outputs` | `_prepare_outputs` 112 | `PrepareOutputs` |
| `run` | `run_evaluated_suite` 126 for the next suite repetition; when none is left, `compare_evaluations` 166 | `RunSuite`, `Compare` |
| `check`, `mkdir` | `suite_pipeline.py:137-142`, `150-151` | `CheckArtifacts`, `MakeDirectories` |
| `open`, `fill` | `path.write_text` `suite_pipeline.py:153`, truncated and then written | `OpenFile`, `FillFile` |
| `open_report`, `fill_report` | `_write_report` 170, 171 | `OpenFile`, `FillReport` |

`WriteFails` and `Crash` end an invocation between any two of these. A file is
known by the invocation that wrote it and whether it is whole; `files` and
`directories` outlive the invocations, everything else is the process's. A frozen
input is a record of what validation and evaluation read of it: whether it loads
and its cases are valid, case counts of batch, source record and composition,
whether the batch has the composed hash (`matches`), generator, enhancement pack,
pricing. `outcome` keeps apart what the code reports under one stage
(`suite-execution`, `comparison`), so that a refusal for case counts, pairing or
identity can be named.

### Values, requests, checks and relations

These modules are operators, not state machines; `DemoCase` uses all of them.

* `JsonValues`: values by kind, pointers, `Select` and replacement at a pointer,
  and the parts of a value, up to `MaxNesting` levels deep.
* `SchemaValues`: `validate_schema_value` as the set of violation codes of a
  value, and `schema_at_pointer`: the violations of the parts at each place.
* `OpenApiRequests`: `Build` is `build_request` (an error, or a request whose
  parameters have become text), `RequestHasIssues` and `ResponseHasIssues` are
  the contract checks. What openapi-core does is modelled from how the code uses
  it: it casts the text of a parameter back before it looks at the schema.
* `ResponseChecks`: parsing, selection, assertions, extractions. A check ends as
  passed, failed or error, an extraction as extracted, missing or error.
* `ScenarioRelations`: whether each of the six relation types applies to the
  requests as they were sent, can be evaluated, and holds.
* `SemanticValidation`: the issue codes of a case. `CaseIsWellFormed` is the
  validators of `domain/test_case.py`, `CaseIssues` is `_validate_scenario`,
  `Admissible` both.
* `FaultMutations`: `apply_response_fault`, with the reason it gives for leaving
  a response alone.
* `ItemStore`: the demo service. Its handlers run in threads, but each holds the
  store's lock from beginning to end, so `Handle(request)` is one action.

### DemoCase

One validated case against `ItemStore` through `FaultMutations`, in the clean run
and, after the suite runner's reset, in the run of any one fault. It has the
control of `CaseExecution`, and where that module lets a step end in any way,
here the end is computed. It implements `CaseExecution` step by step
(`ExecutesAsSpecified`): what that module's properties were checked and proved
for includes everything this one can do. `prelude` stands for the requests of the
batch's earlier cases; they may differ between the two runs, because faults may
cut those cases short. `trace` keeps for each step its request, the response and
the response before mutation (`upstream`, a history variable).

### CaseGeneration, SuiteComposition, SchemathesisBatch

`GenerateCases(reply)` is one attempt: what the provider makes of a reply
(`_HTTP_ERRORS`, `_parse_response`), of the text as a batch, and of its cases one
by one. Cases are known by what admission reads of them; an identifier is the
sequence of its parts between hyphens, because namespacing joins a pack's and a
case's identifier by one. `SchemathesisBatch` follows a generated case through
`capture_schemathesis_case`, `adapt_schemathesis_case` and the collector;
its cases are real ones, held against `SemanticValidation`.

### Workflow

The commands of `cli/app.py` over one artifact directory. `files[path]` says which
command wrote a file (`by`), which generation attempt it goes back to
(`attempt`), whether it is whole and what it holds. A command that gets as far as
its first write is a `Start` with a list of writes; `WriteNext` takes them one by
one, `WriteFails` ends the command before or in the middle of one (an OSError and
a kill leave the same files). `run-suite` accepts what `SuiteAccepts` says:
`_load_validated_case_inputs`, `_source_metrics`, the two count checks and, for a
composed suite, the digest of the batch (`suite_pipeline.py:94`). The digest is
modelled as the batch it is taken of; the source record has none, so that a native
batch is known to it by its number of cases alone. What `run-suite` checks of its
arguments (identifiers, URLs, fault ids, `--allow-mutations`) is not about files.

## What TLC checks

| Run | Instance | Shows |
| --- | --- | --- |
| `fault_proxy` | 2 faults in the catalog and 1 unknown, 3 requests | The count the proxy reports never exceeds the responses carrying the active fault's header, header and count move together between control calls, every accepted request is finished. |
| `fault_suite_safety` | 2 faults, 3 runs of up to 2 requests, at most 1 given up | No kept response carries another run's fault; recorded counts cover the evidence, and equal it if nothing was lost; only requests given up leave effects behind; a recorded run kept no response its fault was not consulted for. |
| `fault_suite_experiment` | 2 faults, 3 runs of up to 1 request, any number given up | Published means complete and restored; the suite ends; it implements `FaultExperiment`. |
| `evidence` | as above | *violated*: recorded count and evidence differ after a lost response. |
| `contamination` | as above | *violated*: an effect of an earlier run in a later one. |
| `case_execution` | setup 1, main 2, cleanup 3 (one for each condition), 2 relations, an identifier extracted twice and an optional one | Verdict, scope, cleanup and order are right for every combination of step and relation outcomes; the case ends. |
| `fault_evaluation` | 2 cases of 2 related reads and a best-effort cleanup step | The evaluation never violates its own result model; detected, missed and undecided are each justified. |
| `benchmark_pipeline` | 2 invocations, 7 configurations of 2 suites, up to 2 repetitions and 2 faults | No derived file is ahead of its sources wherever an invocation stops; a completed one has left everything; without `--overwrite` nothing older is touched; the preflight leaves nothing for counts and pairing to refuse later. |
| `comparison_sources` | as above | *violated*: a comparison beside evaluations it was not computed from. |
| `demo_case` | 212 candidate cases over the demo document (32 of them refused by validation), 3 preludes, the 4 faults of the catalogue and 7 others | Relations over reads never call the service's own answers wrong, under a fault or not, and nothing else accuses it without one, unless the case writes between the steps it compares (or gives a query parameter twice, or does not accept that a deleted item is not found); a mark means a change; catalogue faults are caught by steps that assert; admitted steps are built and sent unless their violation cannot be expressed; the runs are alike up to the first mutation; identifiers are not reused; it implements `CaseExecution`. |
| `workflow` | 4 commands, 21 replies of the provider, 6 sets of packs, baselines of 25 generated cases, batches of up to 2 native cases | What a command calls a success the next one accepts; an evaluation joins artifacts of one attempt unless `--overwrite` came in between; no artifact without what it was made from; nothing older is changed by default. |
| `failed_oracle` | 1 such case | *violated*: a failed check does not count when another check of its step errs. |

Bounds. `MaxRequests`, `FaultSeq`, the cases and `CaseCount` are constants of the
models; the only further bound is the constraint `OneGivenUp` of
`fault_suite_safety`. Two faults and a clean run are enough for a request of one
run to reach each kind of other run, including another fault's; two requests are
enough for one to be given up while another is measured in the same and the next
run. `fault_suite_experiment` drops the constraint and takes one request instead.
The proofs remove these bounds for all safety properties of proxy, suite, case, workflow,
evaluation and pipeline. In the case, three executable steps suffice for
a variable to be set, set again and used, and the three cleanup steps cover every
condition, one of them best-effort. Two cases suffice for the verdict on a fault
to depend on more than one. In the pipeline, two invocations are enough for one to
meet what another left in any state; the configurations share the output
directory and the report, and include smaller and larger matrices, so that an
invocation overwrites all, some or none of what it finds, one that changes its
generator between repetitions, and one that each of matrix, counts and path
checks must refuse. In `demo_case` the menu of cases takes, for each relation,
its steps with none or any one step between them, and every step alone, so that
each relation type passes, fails and is not applicable even without a fault, and
each kind of negative step is met; one relation changes the order of a query that
gives a parameter twice, one takes whole items as keys (the root pointer), one accepts
anything but 404 after a delete, and four lack an argument their type requires.
Values are taken from small sets on both sides of each bound (limit 0, 1, 2; no
item, one, two). In `workflow` four
commands are one more than it takes to generate, compose and run, so that one
command more can interfere; the replies include every status the attempt can
end with, and the generated cases every reason of capture and adapter for turning
one down, save that of an operation unknown to the document, which the capture
excludes. `MaxCases` and `MaxSteps` are the code's own limits, set low enough to
be exceeded. `MaxNesting` (3) bounds how deep values and schemas nest where the model
walks through them; a page of items, the deepest value of the demo document, has
three levels below the top: its list, an item, a field. A proxy found at the start may hold any fault with
any small count, as after an earlier suite that died.

Fairness. `FaultSuite` assumes weak fairness of the runner as a whole: it is one
sequential program and each of its calls returns or times out
(`timeout_ms` on both HTTP clients), and the loops are finite. Nothing is assumed
of proxy, SUT or network: `SuiteEnds` holds although the proxy may never answer.
`FaultProxy` assumes weak fairness of each handler: asyncio runs a ready task, the
upstream client has a timeout, and the handler does not wait for its client.
`CaseExecution` assumes weak fairness of its loop: `HttpTransport` sets a timeout
on every request. `BenchmarkPipeline`, `DemoCase` and `Workflow` need no fairness: they state
safety only (that a case ends is `CaseEnds`).
Deadlock is checked for `FaultProxy`; the other systems end.

### Findings

* **Lost evidence** (`evidence`). The recorded trigger count is the proxy's own
  (`suite_runner.py:215`). If the runner times out on a mutated response, the
  count exceeds the evidence, and `suite_evaluator.py:290-293` rejects the whole
  execution.
* **Contamination** (`contamination`). `docs/design.md:1343` lets a reset before
  each fault exclude contamination. A request that timed out is not cancelled in
  proxy or SUT and can take effect after the reset. `SutHoldsOwnOrGivenUp` shows
  that this is the only way.
* **Failed oracle not counted** (`failed_oracle`). `docs/design.md:651-653` and
  the docstring of `_has_deterministic_failure` count a failed oracle although
  another check errs; within one step, the error hides the failure.
* **Comparison without its sources** (`comparison_sources`). `README.md:110-111`
  promises traceability through evaluation ids. With `--overwrite`, evaluations
  are replaced under the same ids while the old comparison stays until the end;
  if a later suite fails, the ids it lists belong to evaluations it was not
  computed from. `DerivedIsNeverAhead` shows that this is the only direction: a
  comparison may be older than its evaluations, never newer.

## What is proved

`FaultSuiteProofs` proves, for every catalog, list of faults and number of
requests:

* `TypeCorrect`, `EvidenceSafe`, `ExposureSafe`, `IsolationSafe`,
  `PublicationSafe` from the inductive invariant `IndInv`, `CountSafe` from
  `IndInv /\ CountInv`, and `CountExact` (`CountEqualsEvidenceUnlessLost`) from
  `IndInv /\ ExactInv`;
* `Refinement`: the initial states of the suite map to initial states of
  `FaultExperiment`, and each step maps to one of its steps or to a stutter.

The assumptions are those of the module: the catalog is a set of fault
identifiers, `None` is none of them, the configured faults are distinct, the
number of requests is a natural number.

None of the properties is inductive. That kept responses carry the right fault
depends on which fault can be active while the runner measures (`ActiveInv`),
which depends on no control request being pending then (`late = {}` while the
runner goes on: a failed control call ends the suite), and on which requests can
still be at the proxy (`ProgressInv`: an earlier run's only if its response was
given up, and then it will never be kept). `ExposureInv` uses that a restart
cannot be undone without a new activation, so a run whose fault is still in force
when it is observed was under it from its start. `SutInv` needs `ProgressInv` for
the requests that are still to take effect. `CountInv` compares the running count
with the responses that are or may still be kept, by a cardinality argument
over one step (`RunningCount`, `AtMostOneMore`). `ExactInv` makes this an equality
while nothing is lost: then a request still at the proxy is the awaited one, and
it is not marked yet, so a step that counts adds exactly one (`ExactCount`). There is one lemma for each part
of the invariant with one step for each action.

`CaseExecutionProofs` proves, for every validated case: `CaseTypeCorrect`,
`ScopeSafe`, `CleanupSafe`, `PassedSafe`, `BestEffortSafe`, `OrderSafe`. The invariant says that
the steps before the next one passed while the main flow goes on, that
`halted` names a step that did not pass afterwards, that cleanup steps gone
through were executed exactly if eligible, and that no step still to come has a
result.

`FaultProxyProofs` proves, for any set of requests, finite or not:
`ProxyTypeCorrect`, `CountSafe` and `CountMoves`. The invariant adds that only
returned responses are marked and that the marked ones are finitely many, without
which their cardinality would say nothing.

`FaultEvaluationProofs` proves, for any number of cases of any shape:
`EvaluationTypeCorrect`, `EvaluationSafe`, `DetectionSafe` and `NoDetectionSafe`. The
invariant holds that of the case executor for the case under way, and of each
finished case what the verdict relies on (`Sound`): a failed case has a failure that
counts, such a failure is a check or relation that came out false, and marks lie
within the requests. That a finished case is never "skipped" comes from
`BestEffortFollows`. The ordinal of the first detection is among the counted
requests because running sums exist and do not decrease; both are proved from
the least element of a set of counterexamples (`LeastElement`, from `WFMin`), since
the library's induction rules cannot be instantiated.

`BenchmarkPipelineProofs` proves, for every set of configurations and any number
of invocations: `PipelineTypeCorrect`, `DerivedSafe`, `CompletedSafe`,
`PreflightSafe`, `PreserveSafe`. None follows from itself: that a derived file is
not ahead needs that the running invocation's own files are exactly those it has
gone through, in the order of `Document` (`OwnInv`); that the report is complete
needs that every suite repetition is done by then (`StageInv`); that nothing older
is touched by default needs that a file has a directory, which the preflight
looks for (`FreshInv`). `PreflightSuffices` follows from `StageInv` by arithmetic
on the counts and from `Paired` for matrices that `ValidConfig` accepts. The
assumptions are the types of the configurations, that repetitions are positive,
and that no fault is called as the two other artifacts are in this module.

`WorkflowProofs` proves, for any replies, adaptations and packs and any number of
commands: `AnswersKept`, `Preservation`, `LineageSafe` (`LineageWithoutOverwrite`) and
`SuccessSafe` (`SuccessIsRunnable`). The invariant `Inv` says what a command
under way still owes: its pending files are not yet its own and each is planned
once (`PendingInv`), without `--overwrite` they were missing when it looked
(`MissingInv`), and a file that needs a source has it written already or earlier
in the plan (`OrderInv`). Together they keep `KeptInv`, that what is on disk has
its source, through every write and every interrupted write: a source is only
ever replaced by a later command, which is what `AnswersAreKept` allows.
`LineageInv` adds which attempt each file goes back to (`AttemptInv`, `NativeInv`,
`ComposedInv`) and that the counts in a record are those of the batch of the same
attempt, for what is on disk and for what is still to be written (`BatchInv`,
`ExtensionInv`, `DescriptionInv`, `EvaluationInv`). `ExitInv` ties the command's exit to
what it left. They rest on lemmas about what admission and composition
return, whose loops are recursive functions: that a batch loads again, that the
record counts it, that a composition keeps the native cases in front and its
record has the digest of what was written (`ComposedIsDescribed`). The facts about
those functions are by induction from the least counterexample
(`UpwardInduction`). The assumptions are what the decoder and the adapter guarantee:
that a reply's cases are an array (`RepliesAssumption`), that what an adaptation yields was
validated case by case and counted (`AdaptationsAssumption`), that a pack is a list of
cases (`PacksAssumption`).

`ItemStoreProofs` proves `StoreIds` and, from it, `IdentifiersNotReused`, for any
requests.

`DemoCaseProofs` proves, for any menu of cases, any faults, any catalogue and any document:

* `TriggeredMeansChanged`: a trigger is reported exactly if the response was
  changed; `MatcherBounds`: a fault keeps to its matcher; from the first,
  `MarksAreTrue` (`MarkedMeansChanged`) over both runs of a case;
* `IdentifiersStayTheirs` (`NoIdentifierReused`), from `ItemStoreProofs`;
* `RunsAreExecutions` (`ExecutesAsSpecified`): each step of a run is a step of
  `CaseExecution` or a stutter. So the theorems of `CaseExecutionProofs` hold of
  the concrete executor with its builder, checks, relations, service and proxy;
* `CasesAreValidated`: the assumptions `CaseExecution` makes on its case hold of
  every case that passes semantic validation as modelled, so they are not only
  a reading of it.
* `ReadsNeverAccuse` (`ReadsAgree`): no relation over reads calls the service's own
  answers wrong, whatever the document, the case and the fault;
* `RunsAreAlike` (`RunsAlike`): the run after the reset repeats the run before it up
  to the first changed response.

The refinement needs more than the mapping. `RunInv` says that the case is
admissible, that a step not yet reached was not executed and extracted nothing,
that a passed step has a response, and that a main step was executed only if those
before it passed (`MainFlowInv`). From the last it follows that the source of a relation whose
follow-up was executed has a response, which decides between "not applicable"
and a verdict; from validation, that a step only refers to variables an earlier
step declares, which decides what a failure to build a request may mean. Of the
cases it is assumed that their steps and the queries of these are lists, that the
condition of a cleanup step and a relation's type are among those the domain model
admits (`CasesAssumption`, the typing of `domain/test_case.py`); of the earlier
requests, that they are a list (`PreludesAssumption`).

The other two theorems treat the service as a function: `HandleIsAfter` shows that a
request leads to exactly one state and answer, `After(store, request)`.
`ReadsNeverAccuse` rests on `ReadsInv`: what the service answered to a read it would
answer still, until the case writes (`StillReads`), so equal questions without a
write between them had equal answers (`ReadsAreRepeatable`), and an item that was
deleted stays away under its identifier, which is never given again (`StillGone`, from
`ItemStoreProofs`). A fault makes equal responses of equal answers to equal requests,
so a repeated read never fails, under any fault: this relation cannot detect a fault
that depends on the request and the response alone, as all faults of this proxy do.
Two queries with the same parameters in another order select the same items
(`OrderDoesNotMatter`) only if no parameter comes twice. `RecordInv` adds that the
relations were evaluated over the setup and main steps as they are kept.

`RunsAreAlike` compares two runs, of which the model keeps the first only as its
executions. `ReplayInv` says that there are states of the service and scopes, one for
each earlier request and each step, along which these executions are what each step
comes to without a mutation (`RetracedInv` of the run going on without a fault,
`BesideInv` of the run kept). The second run is at the same state and
scope, from the reset on, as long as it had no changed response, and so its next
step comes to the same. A main step that does not pass settles both runs: the main
steps after it are skipped and cleanup starts from where it left the service.

Attempting these proofs corrected the model in places no run had reached: relations
that read only a request (`domain/test_case.py:307-309` permits them), a
JSON `null` as the request body they read, field pairs on the status, which have no pointer to
validate (`semantic_validator.py:839-880`), and case distinctions whose arms overlapped.
They also showed what the menu of cases had left out: `docs/design.md:974-979` has the
query order changed for distinct parameters, but neither validation
(`semantic_validator.py:736-752`) nor the relation (`metamorphic_relations.py:108-114`)
asks that they be distinct, and of a parameter given twice the service uses the last;
and a read after a delete may be declared to be accepted with other statuses than 404.
Such cases are in the menu now, and `ReadsAgree` names them.

Only model-checked:

* liveness (`SuiteEnds`, `EveryRequestFinishes`, `CaseEnds`), out of the prover's
  reach;
* `NoFalseAlarm`, `CatalogFaultIsCaught` and `ValidStepIsSent`: they are about the
  demo document, the faults of its catalogue and cases whose pointers and parameters
  mean in it what they are used for, and false for others (a case that demands unique
  names, or a page size parameter that is an offset, accuses a correct service, and
  validation accepts it);
* what the functions that walk through values and schemas compute for a given input.

## What is not modelled

* Headers and cookies of requests and responses, and with them header parameters
  and selection from headers: the demo document declares none. Redaction,
  snapshots, the wording of issues and messages.
* The loader's normalisation of an OpenAPI document (`spec/loader.py`): the
  normalised demo document is the input of the models (`MC_DemoDocument`).
  Schema keywords that it does not use, composed schemas and reference cycles;
  operations marked unsupported; the plan entry point (`run`,
  `plan validate`), which shares its executor with batches.
* Comparisons by order (`greater_than` and its like), regular expressions in
  assertions, and the serialisation of numbers that are not finite (the digest of a
  composed batch that holds one may differ once the file is loaded again).
* The price of an item, which the service stores and returns as it does the name.
* The prompt and its OpenAPI context: text for the model. The property-based
  generator of Schemathesis, a library: what it generates is any case.
* `CaseExecution` lets a check or a relation end in any way, because it is about
  any SUT; `DemoCase` computes them for one.
* Summaries, rates, token prices and comparison statistics: arithmetic on counts
  that no later step reads.
* Retries: the code has none (`retry_count` is always 0).
* The runner's own HTTP status handling of the reset endpoint beyond success or
  failure, durations and time stamps.
* A late reset of the SUT by a control request that was given up: the suite has
  stopped then.
* Run identifiers, which are a run's position in `FaultSuite`.
* Commands and benchmark invocations at the same time; a report placed among the
  artifacts of a suite. The code has no guard for any of them.
* That `--overwrite` leaves files of faults that are no longer configured.

## Order of work and what is left

In order of what matters most for the system's promise:

1. *done* `FaultProxy`, `FaultExperiment`, `FaultSuite` and proofs.
2. *done* `CaseResults`, `CaseExecution` and proofs; `FaultEvaluation`.
3. *done* `BenchmarkPipeline` and proofs.
4. *done* `FaultMutations`, `ItemStore` and proofs; values, requests, checks,
   relations and validation; `DemoCase`, which joins them and implements
   `CaseExecution`.
5. *done* `CaseGeneration`, `SuiteComposition`, `SchemathesisBatch`; `Workflow`,
   which joins them, and proofs.
6. *left* summary metrics and comparison statistics beside `FaultEvaluation`.
7. *done* `FaultProxyProofs`, `FaultEvaluationProofs`, `CountExact`.
8. *done* proofs of `LineageWithoutOverwrite` and `SuccessIsRunnable`; `DemoCaseProofs`
   with the refinement of `CaseExecution`, `ReadsAgree` and `RunsAlike`.
9. *left* the conditions on a document, a catalogue and a case under which `NoFalseAlarm`,
   `CatalogFaultIsCaught` and `ValidStepIsSent` hold of any.
