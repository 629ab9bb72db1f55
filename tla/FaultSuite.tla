----------------------------- MODULE FaultSuite -----------------------------
(***************************************************************************)
(* execute_fault_suite of evaluation/suite_runner.py composed with the     *)
(* fault proxy and the system under test (SUT): one batch is executed once *)
(* clean (run 0) and once per configured fault (run i under FaultSeq[i]),  *)
(* all measured and control traffic crossing a network on which a caller   *)
(* may give up before the other side has finished.                         *)
(***************************************************************************)
EXTENDS Naturals, Sequences, FiniteSets

CONSTANTS
  FaultIds,     \* identifiers a suite may be configured with
  Catalog,      \* the faults the proxy has loaded
  FaultSeq,     \* fault_ids: the configured faults, in order
  MaxRequests,  \* bound: measured requests one run sends
  None          \* no fault

ASSUME CatalogAssumption == Catalog \subseteq FaultIds
ASSUME NoneAssumption == None \notin FaultIds
ASSUME FaultSeqAssumption ==
  /\ FaultSeq \in Seq(FaultIds)
  /\ \A i, j \in DOMAIN FaultSeq : FaultSeq[i] = FaultSeq[j] => i = j
ASSUME MaxRequestsAssumption == MaxRequests \in Nat

Faults == 1..Len(FaultSeq)
Runs == 0..Len(FaultSeq)
Positions == 1..MaxRequests
Requests == Runs \X Positions     \* <<run, ordinal of the request in the run>>

VARIABLES
  active, triggerCount, exchange, marker,  \* the proxy
  sut,        \* requests whose effect is in the SUT's store
  pending,    \* requests the SUT has yet to handle, the proxy waiting no more
  pc,         \* the runner's next statement
  run,        \* the run under way
  sent,       \* requests this run has sent
  evidence,   \* what the run result keeps of each request
  recorded,   \* len(fault_runs)
  observed,   \* recorded trigger_count of each fault run
  late,       \* control requests the runner gave up on, yet to take effect
  bypassed    \* history: requests whose response no fault was consulted for

Proxy == INSTANCE FaultProxy

proxyVars == <<active, triggerCount, exchange, marker>>
sutVars == <<sut, pending>>
runVars == <<sent, evidence>>
resultVars == <<recorded, observed>>
vars == <<proxyVars, sutVars, pc, run, runVars, resultVars, late, bypassed>>

----------------------------------------------------------------------------
\* Where the runner is. "await" waits for one measured response; "unwind" is
\* the finally clause with an exception under way, "finally" without one.
Terminal ==
  {"published",  \* SuiteExecution returned
   "raised",     \* error raised, the final disable_fault succeeded
   "failed",     \* error raised, no disable_fault succeeded after it
   "killed"}     \* the process died: no finally clause ran
Working ==
  {"disable", "reset", "activate", "running", "await", "observe", "finally"}
Measuring == {"running", "await", "observe"}

Current == <<run, sent>>

TypeOK ==
  /\ Proxy!TypeOK
  /\ sut \subseteq Requests /\ pending \subseteq Requests
  /\ pc \in Working \cup {"unwind"} \cup Terminal
  /\ run \in Runs
  /\ sent \in 0..MaxRequests
  /\ evidence \in [Requests -> {"none", "stored", "lost"}]
  /\ recorded \in 0..Len(FaultSeq)
  /\ observed \in [Faults -> Nat]
  /\ late \subseteq FaultIds \cup {None}
  /\ bypassed \subseteq Requests

\* A proxy left over from an earlier suite may hold any fault and count.
Init ==
  /\ active \in Catalog \cup {None}
  /\ triggerCount \in IF active = None THEN {0} ELSE 0..1
  /\ exchange = [r \in Requests |-> "unsent"]
  /\ marker = [r \in Requests |-> None]
  /\ sut = {} /\ pending = {}
  /\ pc = "disable"
  /\ run = 0
  /\ sent = 0
  /\ evidence = [r \in Requests |-> "none"]
  /\ recorded = 0
  /\ observed = [i \in Faults |-> 0]
  /\ late = {}
  /\ bypassed = {}

----------------------------------------------------------------------------
(* Control requests. *)

\* An exception leaves execute_fault_suite at once from the clean run, and
\* through the finally clause from the loop over the faults.
Raise == pc' = IF run = 0 THEN "failed" ELSE "unwind"

\* Switch the proxy to a fault, or to None.
Switch(f) == IF f = None THEN Proxy!Reset ELSE Proxy!Activate(f)

\* A control request that ends in BenchmarkControlError for its caller never
\* reached the proxy, took effect with its reply lost, or is still on its way
\* when the caller times out.
SwitchFails(f) ==
  \/ UNCHANGED <<proxyVars, late>>
  \/ Switch(f) /\ UNCHANGED late
  \/ late' = late \cup {f} /\ UNCHANGED proxyVars

\* Mutant: the clean run trusts the proxy to be in pass-through mode already.
DisableFault_LoopOnly ==
  /\ pc = "disable"
  /\ \/ run = 0 /\ UNCHANGED <<proxyVars, late>> /\ pc' = "reset"
     \/ run > 0 /\ Switch(None) /\ UNCHANGED late /\ pc' = "reset"
     \/ SwitchFails(None) /\ Raise
  /\ UNCHANGED <<sutVars, run, runVars, resultVars, bypassed>>

DisableFault ==
  /\ pc = "disable"
  /\ \/ Switch(None) /\ UNCHANGED late /\ pc' = "reset"
     \/ SwitchFails(None) /\ Raise
  /\ UNCHANGED <<sutVars, run, runVars, resultVars, bypassed>>

\* Mutant: the SUT is reset before the clean run only.
ResetSut_Once ==
  /\ pc = "reset"
  /\ \/ IF run = 0 THEN sut' = {} /\ pc' = "running"
                   ELSE sut' = sut /\ pc' = "activate"
     \/ sut' \in {sut, {}} /\ Raise
  /\ UNCHANGED <<proxyVars, pending, run, runVars, resultVars, late, bypassed>>

ResetSut ==
  /\ pc = "reset"
  /\ \/ sut' = {} /\ pc' = IF run = 0 THEN "running" ELSE "activate"
     \/ sut' \in {sut, {}} /\ Raise
  /\ UNCHANGED <<proxyVars, pending, run, runVars, resultVars, late, bypassed>>

\* Mutant: the activation is forgotten.
ActivateFault_Skipped ==
  /\ pc = "activate"
  /\ pc' = "running"
  /\ UNCHANGED <<proxyVars, sutVars, run, runVars, resultVars, late, bypassed>>

\* Only a fault in the catalog can be switched to: any other answers 404.
ActivateFault ==
  /\ pc = "activate"
  /\ \/ Switch(FaultSeq[run]) /\ UNCHANGED late /\ pc' = "running"
     \/ SwitchFails(FaultSeq[run]) /\ Raise
  /\ UNCHANGED <<sutVars, run, runVars, resultVars, bypassed>>

\* Mutant: the loop ends one fault early.
NextRun_OneShort ==
  IF run + 1 >= Len(FaultSeq)
  THEN pc' = "finally" /\ UNCHANGED <<run, sent>>
  ELSE pc' = "disable" /\ run' = run + 1 /\ sent' = 0

\* Mutant: the request counter is carried over into the next run.
NextRun_KeepsCounter ==
  IF run = Len(FaultSeq)
  THEN pc' = "finally" /\ UNCHANGED <<run, sent>>
  ELSE pc' = "disable" /\ run' = run + 1 /\ sent' = sent + 1

\* The next iteration of the loop over the faults, or its end.
NextRun ==
  IF run = Len(FaultSeq)
  THEN pc' = "finally" /\ UNCHANGED <<run, sent>>
  ELSE pc' = "disable" /\ run' = run + 1 /\ sent' = 0

\* Mutant: the observed mode and fault are not compared with the configured.
ObserveState_Unchecked ==
  /\ pc = "observe"
  /\ \/ /\ observed' = [observed EXCEPT ![run] = triggerCount]
        /\ recorded' = recorded + 1
        /\ NextRun
     \/ Raise /\ UNCHANGED <<resultVars, run, sent>>
  /\ UNCHANGED <<proxyVars, sutVars, evidence, late, bypassed>>

\* Mutant: the count is read after the fault was switched off.
ObserveState_AfterReset ==
  /\ pc = "observe"
  /\ \/ /\ active = FaultSeq[run]
        /\ Switch(None)
        /\ observed' = [observed EXCEPT ![run] = triggerCount']
        /\ recorded' = recorded + 1
        /\ NextRun
     \/ Raise /\ UNCHANGED <<proxyVars, resultVars, run, sent>>
  /\ UNCHANGED <<sutVars, evidence, late, bypassed>>

\* The observed state must still be ACTIVE with this fault.
ObserveState ==
  /\ pc = "observe"
  /\ \/ /\ active = FaultSeq[run]
        /\ observed' = [observed EXCEPT ![run] = triggerCount]
        /\ recorded' = recorded + 1
        /\ NextRun
     \/ Raise /\ UNCHANGED <<resultVars, run, sent>>
  /\ UNCHANGED <<proxyVars, sutVars, evidence, late, bypassed>>

\* Mutant: the fault is switched off only when an exception is under way.
DisableFinally_OnErrorOnly ==
  /\ pc \in {"finally", "unwind"}
  /\ \/ pc = "finally" /\ pc' = "published" /\ UNCHANGED <<proxyVars, late>>
     \/ pc = "unwind" /\ Switch(None) /\ UNCHANGED late /\ pc' = "raised"
     \/ SwitchFails(None) /\ pc' = "failed"
  /\ UNCHANGED <<sutVars, run, runVars, resultVars, bypassed>>

\* The finally clause; its own failure replaces the exception under way.
DisableFinally ==
  /\ pc \in {"finally", "unwind"}
  /\ \/ /\ Switch(None) /\ UNCHANGED late
        /\ pc' = IF pc = "finally" THEN "published" ELSE "raised"
     \/ SwitchFails(None) /\ pc' = "failed"
  /\ UNCHANGED <<sutVars, run, runVars, resultVars, bypassed>>

----------------------------------------------------------------------------
(* execute_test_case_batch: one request at a time. *)

SendRequest ==
  /\ pc = "running"
  /\ sent < MaxRequests
  /\ sent' = sent + 1
  /\ Proxy!Receive(<<run, sent + 1>>)
  /\ pc' = "await"
  /\ UNCHANGED <<sutVars, run, evidence, resultVars, late, bypassed>>

StoreResponse ==
  /\ pc = "await"
  /\ exchange[Current] \in {"returned", "refused"}
  /\ evidence' = [evidence EXCEPT ![Current] = "stored"]
  /\ pc' = "running"
  /\ UNCHANGED <<proxyVars, sutVars, run, sent, resultVars, late, bypassed>>

\* Mutant: no timeout, only an answer that arrived can be given up.
LoseResponse_NoTimeout ==
  /\ pc = "await"
  /\ exchange[Current] \in {"returned", "refused"}
  /\ evidence' = [evidence EXCEPT ![Current] = "lost"]
  /\ pc' = "running"
  /\ UNCHANGED <<proxyVars, sutVars, run, sent, resultVars, late, bypassed>>

\* Timeout, broken connection or oversized response: the step result keeps
\* the request and no response. The proxy is not told.
LoseResponse ==
  /\ pc = "await"
  /\ evidence' = [evidence EXCEPT ![Current] = "lost"]
  /\ pc' = "running"
  /\ UNCHANGED <<proxyVars, sutVars, run, sent, resultVars, late, bypassed>>

FinishBatch ==
  /\ pc = "running"
  /\ IF run = 0 THEN NextRun ELSE pc' = "observe" /\ UNCHANGED <<run, sent>>
  /\ UNCHANGED <<proxyVars, sutVars, evidence, resultVars, late, bypassed>>

\* The batch raises: mutations were not allowed, or the user interrupted it.
BatchRaises ==
  /\ pc \in {"running", "await"}
  /\ evidence' = IF pc = "await"
                 THEN [evidence EXCEPT ![Current] = "lost"] ELSE evidence
  /\ Raise
  /\ UNCHANGED <<proxyVars, sutVars, run, sent, resultVars, late, bypassed>>

Kill ==
  /\ pc \notin Terminal
  /\ pc' = "killed"
  /\ UNCHANGED <<proxyVars, sutVars, run, runVars, resultVars, late, bypassed>>

----------------------------------------------------------------------------
(* Steps of the proxy, the SUT and the network, at any time. *)

\* The SUT handles a forwarded request, then its answer is read.
UpstreamAnswers(r) ==
  /\ Proxy!UpstreamAnswers(r)
  /\ sut' \in {sut, sut \cup {r}}
  /\ UNCHANGED pending

\* The SUT may still handle a request whose answer the proxy could not use or
\* did not wait for.
UpstreamFails(r) ==
  /\ Proxy!UpstreamFails(r)
  /\ pending' \in {pending, pending \cup {r}}
  /\ UNCHANGED sut

\* So it may those under way when the proxy stopped.
Restart ==
  /\ Proxy!Restart
  /\ \E S \in SUBSET {r \in Requests : exchange[r] = "forwarding"} :
       pending' = pending \cup S
  /\ UNCHANGED sut

SutHandles(r) ==
  /\ r \in pending
  /\ sut' = sut \cup {r}
  /\ pending' = pending \ {r}
  /\ UNCHANGED proxyVars

Apply(r) ==
  /\ Proxy!Apply(r)
  /\ bypassed' = IF active = None THEN bypassed \cup {r} ELSE bypassed
  /\ UNCHANGED sutVars

ProxyStep ==
  /\ \/ /\ \/ \E r \in Requests : UpstreamAnswers(r) \/ UpstreamFails(r)
           \/ Restart
           \/ \E r \in pending : SutHandles(r)
        /\ UNCHANGED bypassed
     \/ \E r \in Requests : Apply(r)
  /\ UNCHANGED <<pc, run, runVars, resultVars, late>>

LateSwitch ==
  /\ \E f \in late : Switch(f) /\ late' = late \ {f}
  /\ UNCHANGED <<sutVars, pc, run, runVars, resultVars, bypassed>>

----------------------------------------------------------------------------
RunnerStep ==
  \/ DisableFault \/ ResetSut \/ ActivateFault
  \/ SendRequest \/ StoreResponse \/ LoseResponse \/ FinishBatch
  \/ ObserveState \/ DisableFinally

Next == RunnerStep \/ BatchRaises \/ Kill \/ ProxyStep \/ LateSwitch

\* The runner is one sequential program in which every call returns or times
\* out; nobody has to interrupt it.
Fairness == WF_vars(RunnerStep)

Spec == Init /\ [][Next]_vars /\ Fairness

----------------------------------------------------------------------------
(* Properties. *)

Marked(i) == {k \in Positions : marker[<<i, k>>] # None}
Stored(i) == {k \in Positions : evidence[<<i, k>>] = "stored"}
Lost == {r \in Requests : evidence[r] = "lost"}
\* Requests the runner or the proxy stopped waiting for.
GivenUp == Lost \cup {r \in Requests : exchange[r] = "refused"}
FaultOf(i) == IF i = 0 THEN None ELSE FaultSeq[i]

(***************************************************************************)
(* A response kept as evidence of a run is unmarked or carries the fault   *)
(* that run was configured with; the clean run keeps no marked response.   *)
(* The proxy picks the fault after awaiting the upstream, so this rests on *)
(* the order of the control calls and on none being left pending.          *)
(***************************************************************************)
EvidenceIsOfTheRun ==
  \A i \in Runs : \A k \in Stored(i) : marker[<<i, k>>] \in {None, FaultOf(i)}

(***************************************************************************)
(* The trigger count recorded for a fault run covers every marked response *)
(* the run kept, even if the proxy restarted or requests of earlier runs   *)
(* were still in flight.                                                   *)
(***************************************************************************)
CountCoversEvidence ==
  \A i \in 1..recorded : Cardinality(Marked(i) \cap Stored(i)) <= observed[i]

(***************************************************************************)
(* If no response was ever lost, recorded trigger count and kept evidence  *)
(* agree, which is what _evaluate_fault of suite_evaluator.py demands of   *)
(* every fault run before it evaluates anything.                           *)
(***************************************************************************)
CountEqualsEvidenceUnlessLost ==
  Lost = {} =>
    \A i \in 1..recorded : observed[i] = Cardinality(Marked(i) \cap Stored(i))

(***************************************************************************)
(* While a run measures, the SUT holds only effects of that run's own      *)
(* requests and of requests that runner or proxy stopped waiting for: the  *)
(* reset between runs fails to isolate them only through abandoned ones.   *)
(***************************************************************************)
SutHoldsOwnOrGivenUp ==
  pc \in Measuring => \A r \in sut : r[1] = run \/ r \in GivenUp

(***************************************************************************)
(* A suite execution is returned only with a recorded run for every fault, *)
(* and from then on the proxy stays in pass-through mode.                  *)
(***************************************************************************)
PublishedMeansRestored ==
  pc = "published" => recorded = Len(FaultSeq) /\ active = None

(***************************************************************************)
(* In a recorded fault run every kept response that came from the SUT was  *)
(* shown to the fault: a proxy that restarts into pass-through mode in the *)
(* middle of a run cannot turn it into a "not triggered" observation.      *)
(***************************************************************************)
RecordedRunIsUnderFault ==
  \A i \in 1..recorded : \A k \in Stored(i) : <<i, k>> \notin bypassed

(***************************************************************************)
(* Demanded by suite_evaluator.py:290-293 ("trigger count does not match   *)
(* response evidence") of every suite it evaluates, and broken when a      *)
(* response is lost after the proxy mutated it, or when a request of an    *)
(* earlier run reaches the proxy under this run's fault.                   *)
(***************************************************************************)
CountEqualsEvidence ==
  \A i \in 1..recorded : observed[i] = Cardinality(Marked(i) \cap Stored(i))

(***************************************************************************)
(* docs/design.md:1343 promises that resetting the SUT before each fault   *)
(* prevents state contamination between faults: a run would measure a SUT  *)
(* that only its own requests have touched. A request that outlived its    *)
(* run reaches the SUT after the reset.                                    *)
(***************************************************************************)
SutHoldsOwnOnly ==
  pc \in Measuring => \A r \in sut : r[1] = run

(***************************************************************************)
(* The suite ends, although any response or control reply may be lost and  *)
(* the proxy may restart at any time.                                      *)
(***************************************************************************)
SuiteEnds == <>(pc \in Terminal)

(***************************************************************************)
(* The suite is an experiment as FaultExperiment describes it: the proxy's *)
(* active fault is the armed one.                                          *)
(***************************************************************************)
stageBar ==
  CASE pc \in {"unwind", "raised", "failed", "killed"} -> "abandoned"
    [] pc = "published" -> "published"
    [] run = 0 /\ pc = "disable" -> "idle"
    [] run = 0 /\ pc \in {"reset", "running", "await"} -> "clean"
    [] run > 0 /\ pc \in Measuring -> "measuring"
    [] OTHER -> "between"

Experiment == INSTANCE FaultExperiment WITH stage <- stageBar, armed <- active

ImplementsExperiment == Experiment!Spec
=============================================================================
