-------------------------- MODULE FaultSuiteProofs --------------------------
(***************************************************************************)
(* Safety of the suite runner for every list of faults, every catalog and  *)
(* every number of requests.                                               *)
(***************************************************************************)
EXTENDS FaultSuite, FiniteSetTheorems, TLAPS

----------------------------------------------------------------------------
(* The inductive invariant, in named parts. *)

\* Request k of run i: kept as evidence or awaited, and not yet sent.
Kept(i, k) ==
  evidence[<<i, k>>] = "stored" \/ (pc = "await" /\ i = run /\ k = sent)
Unsent(i, k) == i > run \/ (i = run /\ k > sent)

\* Where the runner is determines what it has counted and recorded.
ControlInv ==
  /\ pc \in {"activate", "observe"} => run # 0
  /\ pc \in {"disable", "reset", "activate"} => sent = 0
  /\ pc = "await" => sent # 0
  /\ pc \in Working \ {"finally"} => recorded = IF run = 0 THEN 0 ELSE run - 1
  /\ pc \in {"finally", "published"} => recorded = Len(FaultSeq)

\* No control request is pending while the runner goes on, so the proxy is in
\* the state the last control call left it in, or restarted into pass-through.
ActiveInv ==
  /\ pc \in Working \cup {"published"} => late = {}
  /\ pc \in Measuring => active \in {None, FaultOf(run)}
  /\ pc \in {"reset", "activate", "published"} => active = None

\* A request is untouched until it is sent.
UntouchedInv ==
  \A i \in Runs, k \in Positions :
    Unsent(i, k) =>
      /\ exchange[<<i, k>>] = "unsent"
      /\ evidence[<<i, k>>] = "none"
      /\ marker[<<i, k>>] = None
      /\ <<i, k>> \notin bypassed

\* A stored response was returned by the proxy, which is done with it; while
\* the runner goes on, a request still at the proxy or broken off is awaited or
\* given up; what the SUT handles late, the proxy does not wait for.
ProgressInv ==
  \A i \in Runs, k \in Positions :
    /\ evidence[<<i, k>>] = "stored" => exchange[<<i, k>>] \in {"returned", "refused"}
    /\ pc \in Working /\ exchange[<<i, k>>] \in {"forwarding", "forwarded", "aborted"}
         => evidence[<<i, k>>] = "lost" \/ Kept(i, k)
    /\ <<i, k>> \in pending => exchange[<<i, k>>] \in {"refused", "aborted"}

\* Kept responses carry no fault but the run's own.
MarkInv ==
  \A i \in Runs, k \in Positions :
    Kept(i, k) => marker[<<i, k>>] \in {None, FaultOf(i)}

\* Kept responses of a recorded run, and of the run under way as long as its
\* fault is in force, were shown to the fault.
ExposureInv ==
  /\ RecordedRunIsUnderFault
  /\ pc \in Measuring /\ run # 0 /\ active = FaultSeq[run] =>
       \A k \in Positions : Kept(run, k) => <<run, k>> \notin bypassed

\* From the reset of a run on, the SUT holds nothing of an earlier run that
\* was not given up.
SutInv ==
  pc \in Measuring \cup {"activate"} =>
    \A i \in Runs, k \in Positions :
      <<i, k>> \in sut =>
        i = run \/ evidence[<<i, k>>] = "lost" \/ exchange[<<i, k>>] = "refused"

\* The running count covers the marked responses that are or may be kept.
CountInv ==
  /\ CountCoversEvidence
  /\ pc \in Measuring /\ run # 0 /\ active = FaultSeq[run] =>
       Cardinality({k \in Marked(run) : Kept(run, k)}) <= triggerCount

IndInv ==
  /\ TypeOK
  /\ ControlInv
  /\ ActiveInv
  /\ UntouchedInv
  /\ ProgressInv
  /\ MarkInv
  /\ ExposureInv
  /\ SutInv

----------------------------------------------------------------------------
(* Consequences of the assumptions, and of the control requests. *)

LEMMA Ranges ==
  /\ Len(FaultSeq) \in Nat
  /\ \A i \in Faults : FaultSeq[i] \in FaultIds /\ FaultSeq[i] # None
  /\ \A i \in Runs : i \in Nat /\ (i # 0 => i \in Faults)
BY FaultSeqAssumption, NoneAssumption DEF Faults, Runs

LEMMA Pairs ==
  \A i \in Runs, k \in Positions : <<i, k>> \in Requests
BY DEF Requests

LEMMA SwitchEffect ==
  ASSUME NEW f \in FaultIds \cup {None}, Switch(f)
  PROVE  /\ active' = f
         /\ triggerCount' = 0
         /\ f \in Catalog \cup {None}
         /\ UNCHANGED <<exchange, marker>>
BY NoneAssumption DEF Switch, Proxy!Reset, Proxy!Activate

LEMMA SwitchFailsEffect ==
  ASSUME NEW f \in FaultIds \cup {None}, SwitchFails(f), TypeOK
  PROVE  /\ active' \in Catalog \cup {None}
         /\ triggerCount' \in Nat
         /\ late' \subseteq FaultIds \cup {None}
         /\ UNCHANGED <<exchange, marker>>
BY SwitchEffect DEF SwitchFails, proxyVars, TypeOK, Proxy!TypeOK

\* What a control request to the proxy may do to the runner.
ControlMove ==
  \/ pc = "disable" /\ pc' = "reset" /\ active' = None /\ late' = late
  \/ /\ pc = "activate" /\ pc' = "running"
     /\ active' = FaultSeq[run] /\ triggerCount' = 0 /\ late' = late
  \/ pc = "finally" /\ pc' = "published" /\ active' = None /\ late' = late
  \/ pc = "unwind" /\ pc' = "raised"
  \/ pc \in {"disable", "activate", "finally", "unwind"} /\ pc' \in {"failed", "unwind"}

LEMMA ControlEffect ==
  ASSUME IndInv, DisableFault \/ ActivateFault \/ DisableFinally
  PROVE  /\ ControlMove
         /\ active' \in Catalog \cup {None}
         /\ triggerCount' \in Nat
         /\ late' \subseteq FaultIds \cup {None}
         /\ UNCHANGED <<exchange, marker, sut, pending, run, sent, evidence>>
         /\ UNCHANGED <<recorded, observed, bypassed>>
<1> USE DEF sutVars, runVars, resultVars, Raise, ControlMove
<1>1. TypeOK /\ ControlInv /\ active \in Catalog \cup {None} /\ triggerCount \in Nat
      /\ late \subseteq FaultIds \cup {None}
  BY DEF IndInv, TypeOK, Proxy!TypeOK
<1>2. None \in FaultIds \cup {None}
  OBVIOUS
<1>3. CASE DisableFault
  BY <1>1, <1>2, <1>3, SwitchEffect, SwitchFailsEffect DEF DisableFault
<1>4. CASE ActivateFault
  <2>1. FaultSeq[run] \in FaultIds \cup {None}
    BY <1>1, <1>4, Ranges DEF ActivateFault, TypeOK, ControlInv
  <2> QED BY <1>1, <1>4, <2>1, SwitchEffect, SwitchFailsEffect DEF ActivateFault
<1>5. CASE DisableFinally
  BY <1>1, <1>2, <1>5, SwitchEffect, SwitchFailsEffect DEF DisableFinally
<1> QED BY <1>3, <1>4, <1>5

\* A late control request takes effect only after the runner has stopped.
LEMMA LateEffect ==
  ASSUME IndInv, LateSwitch
  PROVE  /\ pc \in {"unwind", "raised", "failed", "killed"}
         /\ active' \in Catalog \cup {None}
         /\ triggerCount' \in Nat
         /\ late' \subseteq late
         /\ UNCHANGED <<exchange, marker, sut, pending, pc, run, sent, evidence>>
         /\ UNCHANGED <<recorded, observed, bypassed>>
<1>1. PICK f \in late : Switch(f) /\ late' = late \ {f}
  BY DEF LateSwitch
<1>2. f \in FaultIds \cup {None}
  BY DEF IndInv, TypeOK
<1> QED BY <1>1, <1>2, SwitchEffect
        DEF IndInv, TypeOK, ActiveInv, Working, Terminal, LateSwitch, sutVars, runVars, resultVars

\* The SUT's answer moves one request on, and no other.
LEMMA UpstreamEffect ==
  ASSUME TypeOK, NEW r \in Requests, UpstreamAnswers(r) \/ UpstreamFails(r),
         NEW q \in Requests
  PROVE  /\ \/ exchange'[q] = exchange[q]
            \/ exchange[q] = "forwarding" /\ exchange'[q] \in {"forwarded", "refused"}
         /\ q \in pending' => q \in pending \/ exchange'[q] = "refused"
BY DEF TypeOK, Proxy!TypeOK, UpstreamAnswers, UpstreamFails,
       Proxy!UpstreamAnswers, Proxy!UpstreamFails

----------------------------------------------------------------------------
(* Every step preserves each part of the invariant. *)

\* Type correctness and the runner's counters.
LEMMA TypeStep ==
  ASSUME IndInv, [Next]_vars
  PROVE  TypeOK' /\ ControlInv'
<1> USE Ranges DEF IndInv, TypeOK, Proxy!TypeOK, Proxy!Stage,
    Proxy!InProgress, ControlInv, Terminal, proxyVars, sutVars, runVars, resultVars,
    Current, Requests, Runs, Faults, Positions, Working, Measuring
<1>1. CASE DisableFault \/ ActivateFault \/ DisableFinally
  BY <1>1, ControlEffect, MaxRequestsAssumption DEF ControlMove
<1>2. CASE ResetSut
  BY <1>2, MaxRequestsAssumption DEF ResetSut, Raise
<1>3. CASE SendRequest
  BY <1>3, MaxRequestsAssumption DEF SendRequest, Proxy!Receive
<1>4. CASE StoreResponse
  BY <1>4, MaxRequestsAssumption DEF StoreResponse
<1>5. CASE LoseResponse
  BY <1>5, MaxRequestsAssumption DEF LoseResponse
<1>6. CASE FinishBatch
  BY <1>6, MaxRequestsAssumption DEF FinishBatch, NextRun
<1>7. CASE BatchRaises
  BY <1>7, MaxRequestsAssumption DEF BatchRaises, Raise
<1>8. CASE ObserveState
  <2>1. /\ UNCHANGED <<active, triggerCount, exchange, marker, sut, pending,
                       evidence, late, bypassed>>
        /\ pc = "observe" /\ run # 0 /\ recorded = run - 1
    BY <1>8 DEF ObserveState
  <2>2. CASE Raise /\ UNCHANGED <<resultVars, run, sent>>
    BY <2>1, <2>2 DEF Raise
  <2>3. CASE /\ observed' = [observed EXCEPT ![run] = triggerCount]
             /\ recorded' = recorded + 1
             /\ NextRun
    <3>1. observed' \in [Faults -> Nat] /\ recorded' \in 0..Len(FaultSeq)
      BY <2>1, <2>3
    <3> QED BY <2>1, <2>3, <3>1, MaxRequestsAssumption DEF NextRun
  <2> QED BY <1>8, <2>2, <2>3 DEF ObserveState
<1>9. CASE Kill
  BY <1>9, MaxRequestsAssumption DEF Kill
<1>10. ASSUME NEW r \in Requests, UpstreamAnswers(r) \/ UpstreamFails(r),
             UNCHANGED <<pc, run, runVars, resultVars, late, bypassed>>
      PROVE  TypeOK' /\ ControlInv'
  BY <1>10, MaxRequestsAssumption DEF UpstreamAnswers, UpstreamFails, Proxy!UpstreamAnswers, Proxy!UpstreamFails
<1>11. ASSUME NEW r \in Requests, Apply(r),
             UNCHANGED <<pc, run, runVars, resultVars, late>>
      PROVE  TypeOK' /\ ControlInv'
  <2>1. active' \in Catalog \cup {None} /\ triggerCount' \in Nat /\ ControlInv'
    BY <1>11 DEF Apply, Proxy!Apply
  <2>2. exchange' \in [Requests -> Proxy!Stage]
    BY <1>11 DEF Apply, Proxy!Apply
  <2>3. marker' \in [Requests -> Catalog \cup {None}]
    BY <1>11 DEF Apply, Proxy!Apply
  <2>4. bypassed' \subseteq Requests
    BY <1>11 DEF Apply
  <2> QED BY <1>11, <2>1, <2>2, <2>3, <2>4 DEF Apply
<1>12. ASSUME Restart,
             UNCHANGED <<bypassed, pc, run, runVars, resultVars, late>>
      PROVE  TypeOK' /\ ControlInv'
  BY <1>12, MaxRequestsAssumption DEF Restart, Proxy!Restart
<1>13. CASE LateSwitch
  BY <1>13, LateEffect, MaxRequestsAssumption
<1>15. ASSUME NEW r \in pending, SutHandles(r),
             UNCHANGED <<bypassed, pc, run, runVars, resultVars, late>>
      PROVE  TypeOK' /\ ControlInv'
  BY <1>15, MaxRequestsAssumption DEF SutHandles
<1>14. CASE UNCHANGED vars
  BY <1>14, MaxRequestsAssumption DEF vars
<1> QED BY <1>1, <1>2, <1>3, <1>4, <1>5, <1>6, <1>7, <1>8, <1>9, <1>10, <1>11,
         <1>12, <1>13, <1>14, <1>15 DEF Next, RunnerStep, ProxyStep

\* The state of the proxy while the runner measures.
LEMMA ActiveStep ==
  ASSUME IndInv, [Next]_vars,
         TypeOK', ControlInv'
  PROVE  ActiveInv'
<1> USE Ranges DEF IndInv, TypeOK, Proxy!TypeOK, ControlInv, proxyVars, sutVars,
    runVars, resultVars, Current, Requests, Runs, Faults, Positions, Working,
    Measuring, ActiveInv, FaultOf
<1>1. CASE DisableFault \/ ActivateFault \/ DisableFinally
  BY <1>1, ControlEffect DEF ControlMove
<1>2. CASE ResetSut
  BY <1>2 DEF ResetSut, Raise
<1>3. CASE SendRequest
  BY <1>3 DEF SendRequest, Proxy!Receive
<1>4. CASE StoreResponse
  BY <1>4 DEF StoreResponse
<1>5. CASE LoseResponse
  BY <1>5 DEF LoseResponse
<1>6. CASE FinishBatch
  BY <1>6 DEF FinishBatch, NextRun
<1>7. CASE BatchRaises
  BY <1>7 DEF BatchRaises, Raise
<1>8. CASE ObserveState
  BY <1>8 DEF ObserveState, NextRun, Raise
<1>9. CASE Kill
  BY <1>9 DEF Kill
<1>10. ASSUME NEW r \in Requests, UpstreamAnswers(r) \/ UpstreamFails(r),
             UNCHANGED <<pc, run, runVars, resultVars, late, bypassed>>
      PROVE  ActiveInv'
  BY <1>10 DEF UpstreamAnswers, UpstreamFails, Proxy!UpstreamAnswers, Proxy!UpstreamFails
<1>11. ASSUME NEW r \in Requests, Apply(r),
             UNCHANGED <<pc, run, runVars, resultVars, late>>
      PROVE  ActiveInv'
  BY <1>11 DEF Apply, Proxy!Apply
<1>12. ASSUME Restart,
             UNCHANGED <<bypassed, pc, run, runVars, resultVars, late>>
      PROVE  ActiveInv'
  BY <1>12 DEF Restart, Proxy!Restart
<1>13. CASE LateSwitch
  BY <1>13, LateEffect
<1>15. ASSUME NEW r \in pending, SutHandles(r),
             UNCHANGED <<bypassed, pc, run, runVars, resultVars, late>>
      PROVE  ActiveInv'
  BY <1>15 DEF SutHandles
<1>14. CASE UNCHANGED vars
  BY <1>14 DEF vars
<1> QED BY <1>1, <1>2, <1>3, <1>4, <1>5, <1>6, <1>7, <1>8, <1>9, <1>10, <1>11,
         <1>12, <1>13, <1>14, <1>15 DEF Next, RunnerStep, ProxyStep

\* Requests not yet sent.
LEMMA UntouchedStep ==
  ASSUME IndInv, [Next]_vars,
         TypeOK', ControlInv'
  PROVE  UntouchedInv'
<1> USE Ranges DEF IndInv, TypeOK, Proxy!TypeOK, ControlInv, proxyVars, sutVars,
    runVars, resultVars, Current, Requests, Runs, Faults, Positions, Working,
    Measuring, UntouchedInv, Unsent, Proxy!InProgress
<1>1. CASE DisableFault \/ ActivateFault \/ DisableFinally
  <2>1. ControlMove /\ UNCHANGED <<exchange, marker, sut, pending, run, sent, evidence,
                                   recorded, observed, bypassed>>
    BY <1>1, ControlEffect
  <2> QED BY <2>1 DEF ControlMove
<1>2. CASE ResetSut
  BY <1>2 DEF ResetSut, Raise
<1>3. CASE SendRequest
  BY <1>3 DEF SendRequest, Proxy!Receive
<1>4. CASE StoreResponse
  BY <1>4 DEF StoreResponse
<1>5. CASE LoseResponse
  BY <1>5 DEF LoseResponse
<1>6. CASE FinishBatch
  BY <1>6 DEF FinishBatch, NextRun
<1>7. CASE BatchRaises
  BY <1>7 DEF BatchRaises, Raise
<1>8. CASE ObserveState
  BY <1>8 DEF ObserveState, NextRun, Raise
<1>9. CASE Kill
  BY <1>9 DEF Kill
<1>10. ASSUME NEW r \in Requests, UpstreamAnswers(r) \/ UpstreamFails(r),
             UNCHANGED <<pc, run, runVars, resultVars, late, bypassed>>
      PROVE  UntouchedInv'
  BY <1>10 DEF UpstreamAnswers, UpstreamFails, Proxy!UpstreamAnswers, Proxy!UpstreamFails
<1>11. ASSUME NEW r \in Requests, Apply(r),
             UNCHANGED <<pc, run, runVars, resultVars, late>>
      PROVE  UntouchedInv'
  BY <1>11 DEF Apply, Proxy!Apply
<1>12. ASSUME Restart,
             UNCHANGED <<bypassed, pc, run, runVars, resultVars, late>>
      PROVE  UntouchedInv'
  BY <1>12 DEF Restart, Proxy!Restart
<1>13. CASE LateSwitch
  <2>1. /\ pc \in {"unwind", "raised", "failed", "killed"}
        /\ UNCHANGED <<exchange, marker, sut, pending, pc, run, sent, evidence,
                       recorded, observed, bypassed>>
    BY <1>13, LateEffect
  <2> QED BY <2>1
<1>15. ASSUME NEW r \in pending, SutHandles(r),
             UNCHANGED <<bypassed, pc, run, runVars, resultVars, late>>
      PROVE  UntouchedInv'
  BY <1>15 DEF SutHandles
<1>14. CASE UNCHANGED vars
  BY <1>14 DEF vars
<1> QED BY <1>1, <1>2, <1>3, <1>4, <1>5, <1>6, <1>7, <1>8, <1>9, <1>10, <1>11,
         <1>12, <1>13, <1>14, <1>15 DEF Next, RunnerStep, ProxyStep

\* Requests at the proxy.
LEMMA ProgressStep ==
  ASSUME IndInv, [Next]_vars,
         TypeOK', ControlInv'
  PROVE  ProgressInv'
<1>0. ASSUME NEW r \in Requests, UpstreamAnswers(r) \/ UpstreamFails(r),
             NEW i \in Runs, NEW k \in Positions
      PROVE  /\ \/ exchange'[<<i, k>>] = exchange[<<i, k>>]
                \/ /\ exchange[<<i, k>>] = "forwarding"
                   /\ exchange'[<<i, k>>] \in {"forwarded", "refused"}
             /\ <<i, k>> \in pending' =>
                  <<i, k>> \in pending \/ exchange'[<<i, k>>] = "refused"
  BY <1>0, Pairs, UpstreamEffect DEF IndInv
<1> USE Ranges DEF IndInv, TypeOK, Proxy!TypeOK, ControlInv, proxyVars, sutVars,
    runVars, resultVars, Current, Requests, Runs, Faults, Positions, Working,
    Measuring, UntouchedInv, ProgressInv, Kept, Unsent, Proxy!InProgress,
    Proxy!Stage
<1>1. CASE DisableFault \/ ActivateFault \/ DisableFinally
  <2>1. ControlMove /\ UNCHANGED <<exchange, marker, sut, pending, run, sent, evidence,
                                   recorded, observed, bypassed>>
    BY <1>1, ControlEffect
  <2> QED BY <2>1 DEF ControlMove
<1>2. CASE ResetSut
  BY <1>2 DEF ResetSut, Raise
<1>3. CASE SendRequest
  BY <1>3 DEF SendRequest, Proxy!Receive
<1>4. CASE StoreResponse
  BY <1>4 DEF StoreResponse
<1>5. CASE LoseResponse
  BY <1>5 DEF LoseResponse
<1>6. CASE FinishBatch
  BY <1>6 DEF FinishBatch, NextRun
<1>7. CASE BatchRaises
  BY <1>7 DEF BatchRaises, Raise
<1>8. CASE ObserveState
  BY <1>8 DEF ObserveState, NextRun, Raise
<1>9. CASE Kill
  BY <1>9 DEF Kill
<1>10. ASSUME NEW r \in Requests, UpstreamAnswers(r) \/ UpstreamFails(r),
             UNCHANGED <<pc, run, runVars, resultVars, late, bypassed>>
      PROVE  ProgressInv'
  <2> SUFFICES ASSUME NEW i \in Runs, NEW k \in Positions
               PROVE  /\ evidence'[<<i, k>>] = "stored"
                           => exchange'[<<i, k>>] \in {"returned", "refused"}
                      /\ pc' \in Working
                         /\ exchange'[<<i, k>>] \in {"forwarding", "forwarded", "aborted"}
                           => evidence'[<<i, k>>] = "lost" \/ Kept(i, k)'
                      /\ <<i, k>> \in pending' => exchange'[<<i, k>>] \in {"refused", "aborted"}
    OBVIOUS
  <2>1. /\ evidence[<<i, k>>] = "stored" => exchange[<<i, k>>] \in {"returned", "refused"}
        /\ pc \in Working /\ exchange[<<i, k>>] \in {"forwarding", "forwarded", "aborted"}
             => evidence[<<i, k>>] = "lost" \/ Kept(i, k)
        /\ <<i, k>> \in pending => exchange[<<i, k>>] \in {"refused", "aborted"}
    OBVIOUS
  <2>2. /\ \/ exchange'[<<i, k>>] = exchange[<<i, k>>]
           \/ /\ exchange[<<i, k>>] = "forwarding"
              /\ exchange'[<<i, k>>] \in {"forwarded", "refused"}
        /\ <<i, k>> \in pending' =>
             <<i, k>> \in pending \/ exchange'[<<i, k>>] = "refused"
    BY <1>0, <1>10
  <2> QED BY <1>10, <2>1, <2>2
<1>11. ASSUME NEW r \in Requests, Apply(r),
             UNCHANGED <<pc, run, runVars, resultVars, late>>
      PROVE  ProgressInv'
  BY <1>11 DEF Apply, Proxy!Apply
<1>12. ASSUME Restart,
             UNCHANGED <<bypassed, pc, run, runVars, resultVars, late>>
      PROVE  ProgressInv'
  BY <1>12 DEF Restart, Proxy!Restart
<1>13. CASE LateSwitch
  <2>1. /\ pc \in {"unwind", "raised", "failed", "killed"}
        /\ UNCHANGED <<exchange, marker, sut, pending, pc, run, sent, evidence,
                       recorded, observed, bypassed>>
    BY <1>13, LateEffect
  <2> QED BY <2>1
<1>15. ASSUME NEW r \in pending, SutHandles(r),
             UNCHANGED <<bypassed, pc, run, runVars, resultVars, late>>
      PROVE  ProgressInv'
  BY <1>15 DEF SutHandles
<1>14. CASE UNCHANGED vars
  BY <1>14 DEF vars
<1> QED BY <1>1, <1>2, <1>3, <1>4, <1>5, <1>6, <1>7, <1>8, <1>9, <1>10, <1>11,
         <1>12, <1>13, <1>14, <1>15 DEF Next, RunnerStep, ProxyStep

\* The header of kept responses.
LEMMA MarkStep ==
  ASSUME IndInv, [Next]_vars,
         TypeOK', ControlInv'
  PROVE  MarkInv'
<1> USE Ranges DEF IndInv, TypeOK, Proxy!TypeOK, ControlInv, proxyVars, sutVars,
    runVars, resultVars, Current, Requests, Runs, Faults, Positions, Working,
    Measuring, MarkInv, Kept, Unsent, UntouchedInv, ProgressInv, ActiveInv,
    FaultOf
<1>1. CASE DisableFault \/ ActivateFault \/ DisableFinally
  <2>1. ControlMove /\ UNCHANGED <<exchange, marker, sut, pending, run, sent, evidence,
                                   recorded, observed, bypassed>>
    BY <1>1, ControlEffect
  <2> QED BY <2>1 DEF ControlMove
<1>2. CASE ResetSut
  BY <1>2 DEF ResetSut, Raise
<1>3. CASE SendRequest
  BY <1>3 DEF SendRequest, Proxy!Receive
<1>4. CASE StoreResponse
  BY <1>4 DEF StoreResponse
<1>5. CASE LoseResponse
  BY <1>5 DEF LoseResponse
<1>6. CASE FinishBatch
  BY <1>6 DEF FinishBatch, NextRun
<1>7. CASE BatchRaises
  BY <1>7 DEF BatchRaises, Raise
<1>8. CASE ObserveState
  BY <1>8 DEF ObserveState, NextRun, Raise
<1>9. CASE Kill
  BY <1>9 DEF Kill
<1>10. ASSUME NEW r \in Requests, UpstreamAnswers(r) \/ UpstreamFails(r),
             UNCHANGED <<pc, run, runVars, resultVars, late, bypassed>>
      PROVE  MarkInv'
  BY <1>10 DEF UpstreamAnswers, UpstreamFails, Proxy!UpstreamAnswers, Proxy!UpstreamFails
<1>11. ASSUME NEW r \in Requests, Apply(r),
             UNCHANGED <<pc, run, runVars, resultVars, late>>
      PROVE  MarkInv'
  BY <1>11 DEF Apply, Proxy!Apply
<1>12. ASSUME Restart,
             UNCHANGED <<bypassed, pc, run, runVars, resultVars, late>>
      PROVE  MarkInv'
  BY <1>12 DEF Restart, Proxy!Restart
<1>13. CASE LateSwitch
  <2>1. /\ pc \in {"unwind", "raised", "failed", "killed"}
        /\ UNCHANGED <<exchange, marker, sut, pending, pc, run, sent, evidence,
                       recorded, observed, bypassed>>
    BY <1>13, LateEffect
  <2> QED BY <2>1
<1>15. ASSUME NEW r \in pending, SutHandles(r),
             UNCHANGED <<bypassed, pc, run, runVars, resultVars, late>>
      PROVE  MarkInv'
  BY <1>15 DEF SutHandles
<1>14. CASE UNCHANGED vars
  BY <1>14 DEF vars
<1> QED BY <1>1, <1>2, <1>3, <1>4, <1>5, <1>6, <1>7, <1>8, <1>9, <1>10, <1>11,
         <1>12, <1>13, <1>14, <1>15 DEF Next, RunnerStep, ProxyStep

\* Kept responses were shown to the fault.
LEMMA ExposureStep ==
  ASSUME IndInv, [Next]_vars,
         TypeOK', ControlInv'
  PROVE  ExposureInv'
<1> USE Ranges DEF IndInv, TypeOK, Proxy!TypeOK, ControlInv, proxyVars, sutVars,
    runVars, resultVars, Current, Requests, Runs, Faults, Positions, Working,
    Measuring, ExposureInv, RecordedRunIsUnderFault, Stored, Kept, Unsent,
    UntouchedInv, ProgressInv, ActiveInv, FaultOf
<1>1. CASE DisableFault \/ ActivateFault \/ DisableFinally
  <2>1. ControlMove /\ UNCHANGED <<exchange, marker, sut, pending, run, sent, evidence,
                                   recorded, observed, bypassed>>
    BY <1>1, ControlEffect
  <2> QED BY <2>1 DEF ControlMove
<1>2. CASE ResetSut
  BY <1>2 DEF ResetSut, Raise
<1>3. CASE SendRequest
  BY <1>3 DEF SendRequest, Proxy!Receive
<1>4. CASE StoreResponse
  BY <1>4 DEF StoreResponse
<1>5. CASE LoseResponse
  BY <1>5 DEF LoseResponse
<1>6. CASE FinishBatch
  BY <1>6 DEF FinishBatch, NextRun
<1>7. CASE BatchRaises
  BY <1>7 DEF BatchRaises, Raise
<1>8. CASE ObserveState
  <2>1. CASE Raise /\ UNCHANGED <<resultVars, run, sent>>
    BY <1>8, <2>1 DEF ObserveState, Raise
  <2>2. CASE active = FaultSeq[run] /\ recorded' = recorded + 1 /\ NextRun
    <3>1. recorded + 1 = run /\ pc' \in {"finally", "disable"}
      BY <1>8, <2>2 DEF ObserveState, NextRun
    <3>2. \A k \in Stored(run) : <<run, k>> \notin bypassed
      BY <1>8, <2>2, <3>1 DEF ObserveState
    <3> QED BY <1>8, <2>2, <3>1, <3>2 DEF ObserveState
  <2> QED BY <1>8, <2>1, <2>2 DEF ObserveState
<1>9. CASE Kill
  BY <1>9 DEF Kill
<1>10. ASSUME NEW r \in Requests, UpstreamAnswers(r) \/ UpstreamFails(r),
             UNCHANGED <<pc, run, runVars, resultVars, late, bypassed>>
      PROVE  ExposureInv'
  BY <1>10 DEF UpstreamAnswers, UpstreamFails, Proxy!UpstreamAnswers, Proxy!UpstreamFails
<1>11. ASSUME NEW r \in Requests, Apply(r),
             UNCHANGED <<pc, run, runVars, resultVars, late>>
      PROVE  ExposureInv'
  <2>1. /\ pc' = pc /\ run' = run /\ sent' = sent /\ evidence' = evidence
        /\ recorded' = recorded /\ active' = active
        /\ exchange[r] = "forwarded"
        /\ bypassed' = IF active = None THEN bypassed \cup {r} ELSE bypassed
    BY <1>11 DEF Apply, Proxy!Apply
  <2>2. RecordedRunIsUnderFault'
    <3> SUFFICES ASSUME NEW i \in 1..recorded, NEW k \in Stored(i)
                 PROVE  <<i, k>> \notin bypassed'
      BY <2>1
    <3>1. i \in Runs /\ k \in Positions /\ <<i, k>> \notin bypassed
      OBVIOUS
    <3>2. exchange[<<i, k>>] \in {"returned", "refused"}
      BY <3>1
    <3> QED BY <2>1, <3>1, <3>2
  <2>3. pc \in Measuring /\ run # 0 /\ active = FaultSeq[run] => bypassed' = bypassed
    BY <2>1
  <2> QED BY <2>1, <2>2, <2>3
<1>12. ASSUME Restart,
             UNCHANGED <<bypassed, pc, run, runVars, resultVars, late>>
      PROVE  ExposureInv'
  BY <1>12 DEF Restart, Proxy!Restart
<1>13. CASE LateSwitch
  <2>1. /\ pc \in {"unwind", "raised", "failed", "killed"}
        /\ UNCHANGED <<exchange, marker, sut, pending, pc, run, sent, evidence,
                       recorded, observed, bypassed>>
    BY <1>13, LateEffect
  <2> QED BY <2>1
<1>15. ASSUME NEW r \in pending, SutHandles(r),
             UNCHANGED <<bypassed, pc, run, runVars, resultVars, late>>
      PROVE  ExposureInv'
  BY <1>15 DEF SutHandles
<1>14. CASE UNCHANGED vars
  BY <1>14 DEF vars
<1> QED BY <1>1, <1>2, <1>3, <1>4, <1>5, <1>6, <1>7, <1>8, <1>9, <1>10, <1>11,
         <1>12, <1>13, <1>14, <1>15 DEF Next, RunnerStep, ProxyStep

\* What the SUT holds.
LEMMA SutStep ==
  ASSUME IndInv, [Next]_vars,
         TypeOK', ControlInv'
  PROVE  SutInv'
<1> USE Ranges DEF IndInv, TypeOK, Proxy!TypeOK, ControlInv, proxyVars, sutVars,
    runVars, resultVars, Current, Requests, Runs, Faults, Positions, Working,
    Measuring, SutInv, Kept, Unsent, UntouchedInv, ProgressInv
<1>1. CASE DisableFault \/ ActivateFault \/ DisableFinally
  <2>1. ControlMove /\ UNCHANGED <<exchange, marker, sut, pending, run, sent, evidence,
                                   recorded, observed, bypassed>>
    BY <1>1, ControlEffect
  <2> QED BY <2>1 DEF ControlMove
<1>2. CASE ResetSut
  BY <1>2 DEF ResetSut, Raise
<1>3. CASE SendRequest
  BY <1>3 DEF SendRequest, Proxy!Receive
<1>4. CASE StoreResponse
  BY <1>4 DEF StoreResponse
<1>5. CASE LoseResponse
  BY <1>5 DEF LoseResponse
<1>6. CASE FinishBatch
  BY <1>6 DEF FinishBatch, NextRun
<1>7. CASE BatchRaises
  BY <1>7 DEF BatchRaises, Raise
<1>8. CASE ObserveState
  BY <1>8 DEF ObserveState, NextRun, Raise
<1>9. CASE Kill
  BY <1>9 DEF Kill
<1>10. ASSUME NEW r \in Requests, UpstreamAnswers(r) \/ UpstreamFails(r),
             UNCHANGED <<pc, run, runVars, resultVars, late, bypassed>>
      PROVE  SutInv'
  BY <1>10 DEF UpstreamAnswers, UpstreamFails, Proxy!UpstreamAnswers, Proxy!UpstreamFails
<1>11. ASSUME NEW r \in Requests, Apply(r),
             UNCHANGED <<pc, run, runVars, resultVars, late>>
      PROVE  SutInv'
  BY <1>11 DEF Apply, Proxy!Apply
<1>12. ASSUME Restart,
             UNCHANGED <<bypassed, pc, run, runVars, resultVars, late>>
      PROVE  SutInv'
  BY <1>12 DEF Restart, Proxy!Restart, Proxy!InProgress
<1>13. CASE LateSwitch
  <2>1. /\ pc \in {"unwind", "raised", "failed", "killed"}
        /\ UNCHANGED <<exchange, marker, sut, pending, pc, run, sent, evidence,
                       recorded, observed, bypassed>>
    BY <1>13, LateEffect
  <2> QED BY <2>1
<1>15. ASSUME NEW r \in pending, SutHandles(r),
             UNCHANGED <<bypassed, pc, run, runVars, resultVars, late>>
      PROVE  SutInv'
  <2>1. /\ pc' = pc /\ run' = run /\ evidence' = evidence /\ exchange' = exchange
        /\ sut' = sut \cup {r}
    BY <1>15 DEF SutHandles
  <2>2. ASSUME NEW i \in Runs, NEW k \in Positions, r = <<i, k>>,
               pc \in Measuring \cup {"activate"}
        PROVE  i = run \/ evidence[<<i, k>>] = "lost" \/ exchange[<<i, k>>] = "refused"
    <3>1. exchange[<<i, k>>] \in {"refused", "aborted"}
      BY <1>15, <2>2
    <3> QED BY <2>2, <3>1
  <2> QED BY <2>1, <2>2
<1>14. CASE UNCHANGED vars
  BY <1>14 DEF vars
<1> QED BY <1>1, <1>2, <1>3, <1>4, <1>5, <1>6, <1>7, <1>8, <1>9, <1>10, <1>11,
         <1>12, <1>13, <1>14, <1>15 DEF Next, RunnerStep, ProxyStep

----------------------------------------------------------------------------
(* Counting. *)

\* The marked responses of run i that are, or may still be, kept.
Counted(i) == {k \in Marked(i) : Kept(i, k)}

LEMMA CountedFinite ==
  \A S \in SUBSET Positions : IsFiniteSet(S) /\ Cardinality(S) \in Nat
<1>1. IsFiniteSet(Positions)
  BY FS_Interval, MaxRequestsAssumption DEF Positions
<1> QED BY <1>1, FS_Subset, FS_CardinalityType

\* A step that adds at most one element adds at most one to the cardinality.
LEMMA AtMostOneMore ==
  ASSUME NEW S \in SUBSET Positions, NEW T \in SUBSET Positions,
         NEW k \in Positions, T \subseteq S \cup {k}
  PROVE  Cardinality(T) <= Cardinality(S) + 1
<1>1. IsFiniteSet(S) /\ Cardinality(S) \in Nat /\ Cardinality(T) \in Nat
  BY CountedFinite
<1>2. IsFiniteSet(S \cup {k}) /\ Cardinality(S \cup {k}) \in {Cardinality(S), Cardinality(S) + 1}
  BY <1>1, FS_AddElement
<1>3. Cardinality(T) <= Cardinality(S \cup {k})
  BY <1>2, FS_Subset
<1> QED BY <1>1, <1>2, <1>3

\* What a recorded run kept does not change any more.
LEMMA RecordedSettled ==
  ASSUME IndInv, [Next]_vars, TypeOK', ControlInv'
  PROVE  \A i \in 1..recorded :
           (Marked(i) \cap Stored(i))' = Marked(i) \cap Stored(i)
<1> USE Ranges DEF IndInv, TypeOK, Proxy!TypeOK, ControlInv, proxyVars, sutVars,
    runVars, resultVars, Current, Requests, Runs, Faults, Positions, Working,
    Measuring, Marked, Stored, ProgressInv
<1>1. CASE DisableFault \/ ActivateFault \/ DisableFinally
  BY <1>1, ControlEffect
<1>2. CASE ResetSut
  BY <1>2 DEF ResetSut
<1>3. CASE SendRequest
  BY <1>3 DEF SendRequest, Proxy!Receive
<1>4. CASE StoreResponse
  BY <1>4 DEF StoreResponse
<1>5. CASE LoseResponse
  BY <1>5 DEF LoseResponse
<1>6. CASE FinishBatch
  BY <1>6 DEF FinishBatch
<1>7. CASE BatchRaises
  BY <1>7 DEF BatchRaises
<1>8. CASE ObserveState
  BY <1>8 DEF ObserveState
<1>9. CASE Kill
  BY <1>9 DEF Kill
<1>10. ASSUME NEW r \in Requests, UpstreamAnswers(r) \/ UpstreamFails(r),
             UNCHANGED <<pc, run, runVars, resultVars, late, bypassed>>
      PROVE  \A i \in 1..recorded :
               (Marked(i) \cap Stored(i))' = Marked(i) \cap Stored(i)
  BY <1>10 DEF UpstreamAnswers, UpstreamFails, Proxy!UpstreamAnswers, Proxy!UpstreamFails
<1>11. ASSUME NEW r \in Requests, Apply(r),
             UNCHANGED <<pc, run, runVars, resultVars, late>>
      PROVE  \A i \in 1..recorded :
               (Marked(i) \cap Stored(i))' = Marked(i) \cap Stored(i)
  BY <1>11 DEF Apply, Proxy!Apply
<1>12. ASSUME Restart,
             UNCHANGED <<bypassed, pc, run, runVars, resultVars, late>>
      PROVE  \A i \in 1..recorded :
               (Marked(i) \cap Stored(i))' = Marked(i) \cap Stored(i)
  BY <1>12 DEF Restart, Proxy!Restart
<1>13. CASE LateSwitch
  BY <1>13, LateEffect
<1>15. ASSUME NEW r \in pending, SutHandles(r),
             UNCHANGED <<bypassed, pc, run, runVars, resultVars, late>>
      PROVE  \A i \in 1..recorded :
               (Marked(i) \cap Stored(i))' = Marked(i) \cap Stored(i)
  BY <1>15 DEF SutHandles
<1>14. CASE UNCHANGED vars
  BY <1>14 DEF vars
<1> QED BY <1>1, <1>2, <1>3, <1>4, <1>5, <1>6, <1>7, <1>8, <1>9, <1>10, <1>11,
         <1>12, <1>13, <1>14, <1>15 DEF Next, RunnerStep, ProxyStep

\* While a run measures under its fault, a step either leaves its counted
\* responses and the count alone, or drops some, or counts one more.
CountMove ==
  \/ (Counted(run)' \subseteq Counted(run)) /\ triggerCount' = triggerCount
  \/ /\ triggerCount' = triggerCount + 1
     /\ \E k \in Positions : Counted(run)' \subseteq Counted(run) \cup {k}

\* A step after which the run measures under its fault either is the
\* activation of the fault or starts from a run that measures under it.
LEMMA RunningCount ==
  ASSUME IndInv, [Next]_vars, TypeOK', ControlInv',
         pc' \in Measuring, run' # 0, active' = FaultSeq[run']
  PROVE  \/ Counted(run)' = {}
         \/ /\ pc \in Measuring /\ run' = run /\ run # 0 /\ active = FaultSeq[run]
            /\ CountMove
<1> USE Ranges DEF IndInv, TypeOK, Proxy!TypeOK, ControlInv, proxyVars, sutVars,
    runVars, resultVars, Current, Requests, Runs, Faults, Positions, Working,
    Measuring, Marked, Counted, Kept, CountMove, UntouchedInv, Unsent
<1>1. CASE DisableFault \/ ActivateFault \/ DisableFinally
  <2>1. /\ ControlMove
        /\ UNCHANGED <<marker, run, sent, evidence>>
    BY <1>1, ControlEffect
  <2>2. pc' = "running" /\ pc = "activate"
    BY <2>1 DEF ControlMove
  <2>3. sent = 0 /\ run # 0
    BY <2>2
  <2>4. \A k \in Positions : Unsent(run, k)
    BY <2>3
  <2> QED BY <2>1, <2>2, <2>3, <2>4
<1>2. CASE ResetSut
  BY <1>2 DEF ResetSut, Raise
<1>3. CASE SendRequest
  <2>1. pc \in Measuring /\ run' = run /\ active' = active
        /\ marker' = marker /\ evidence' = evidence /\ sent' = sent + 1
        /\ triggerCount' = triggerCount
    BY <1>3 DEF SendRequest, Proxy!Receive
  <2>2. marker[<<run, sent + 1>>] = None
    BY <1>3 DEF SendRequest
  <2>3. Counted(run)' \subseteq Counted(run)
    BY <2>1, <2>2
  <2> QED BY <2>1, <2>3
<1>4. CASE StoreResponse
  BY <1>4 DEF StoreResponse
<1>5. CASE LoseResponse
  BY <1>5 DEF LoseResponse
<1>6. CASE FinishBatch
  BY <1>6 DEF FinishBatch, NextRun
<1>7. CASE BatchRaises
  BY <1>7 DEF BatchRaises, Raise
<1>8. CASE ObserveState
  BY <1>8 DEF ObserveState, NextRun, Raise
<1>9. CASE Kill
  BY <1>9 DEF Kill
<1>10. ASSUME NEW r \in Requests, UpstreamAnswers(r) \/ UpstreamFails(r),
             UNCHANGED <<pc, run, runVars, resultVars, late, bypassed>>
      PROVE  /\ pc \in Measuring /\ run' = run /\ run # 0 /\ active = FaultSeq[run]
             /\ CountMove
  BY <1>10 DEF UpstreamAnswers, UpstreamFails, Proxy!UpstreamAnswers, Proxy!UpstreamFails
<1>11. ASSUME NEW r \in Requests, Apply(r),
             UNCHANGED <<pc, run, runVars, resultVars, late>>
      PROVE  /\ pc \in Measuring /\ run' = run /\ run # 0 /\ active = FaultSeq[run]
             /\ CountMove
  <2>1. /\ pc \in Measuring /\ run' = run /\ run # 0 /\ active = FaultSeq[run]
        /\ pc' = pc /\ sent' = sent /\ evidence' = evidence
    BY <1>11 DEF Apply, Proxy!Apply
  <2>2. CASE UNCHANGED <<triggerCount, marker>>
    BY <2>1, <2>2
  <2>3. CASE triggerCount' = triggerCount + 1 /\ marker' = [marker EXCEPT ![r] = active]
    <3>1. PICK i \in Runs, k \in Positions : r = <<i, k>>
      BY <1>11
    <3>2. Counted(run)' \subseteq Counted(run) \cup {k}
      BY <2>1, <2>3, <3>1
    <3> QED BY <2>1, <2>3, <3>2
  <2> QED BY <1>11, <2>2, <2>3 DEF Apply, Proxy!Apply
<1>12. ASSUME Restart,
             UNCHANGED <<bypassed, pc, run, runVars, resultVars, late>>
      PROVE  FALSE
  BY <1>12 DEF Restart, Proxy!Restart
<1>13. CASE LateSwitch
  BY <1>13, LateEffect
<1>15. ASSUME NEW r \in pending, SutHandles(r),
             UNCHANGED <<bypassed, pc, run, runVars, resultVars, late>>
      PROVE  /\ pc \in Measuring /\ run' = run /\ run # 0 /\ active = FaultSeq[run]
             /\ CountMove
  BY <1>15 DEF SutHandles
<1>14. CASE UNCHANGED vars
  BY <1>14 DEF vars
<1> QED BY <1>1, <1>2, <1>3, <1>4, <1>5, <1>6, <1>7, <1>8, <1>9, <1>10, <1>11,
         <1>12, <1>13, <1>14, <1>15 DEF Next, RunnerStep, ProxyStep

LEMMA CountStep ==
  ASSUME IndInv, CountInv, [Next]_vars, TypeOK', ControlInv'
  PROVE  CountInv'
<1>1. \A i \in Runs : Counted(i) \in SUBSET Positions /\ Counted(i)' \in SUBSET Positions
  BY DEF Counted, Marked
<1>2. run \in Runs /\ run' \in Runs /\ triggerCount \in Nat /\ triggerCount' \in Nat
      /\ observed \in [Faults -> Nat] /\ recorded \in 0..Len(FaultSeq)
  BY DEF IndInv, TypeOK, Proxy!TypeOK
<1>3. CountCoversEvidence'
  <2>1. CASE UNCHANGED <<recorded, observed>>
    <3>1. SUFFICES ASSUME NEW i \in 1..recorded
                   PROVE  Cardinality((Marked(i) \cap Stored(i))') <= observed[i]
      BY <2>1 DEF CountCoversEvidence
    <3>2. Cardinality(Marked(i) \cap Stored(i)) <= observed[i]
      BY DEF CountInv, CountCoversEvidence
    <3> QED BY <3>2, RecordedSettled
  <2>2. ASSUME pc = "observe", active = FaultSeq[run], recorded' = recorded + 1,
               observed' = [observed EXCEPT ![run] = triggerCount],
               UNCHANGED <<marker, evidence>>
        PROVE  CountCoversEvidence'
    <3>1. run # 0 /\ recorded = run - 1
      BY <2>2 DEF IndInv, ControlInv, Working
    <3>2. SUFFICES ASSUME NEW i \in 1..run
                   PROVE  Cardinality(Marked(i) \cap Stored(i)) <= observed'[i]
      BY <1>2, <2>2, <3>1, Ranges DEF CountCoversEvidence, Marked, Stored
    <3>3. CASE i # run
      <4>1. i \in 1..recorded /\ observed'[i] = observed[i]
        BY <1>2, <2>2, <3>1, <3>3, Ranges DEF Faults
      <4> QED BY <4>1 DEF CountInv, CountCoversEvidence
    <3>4. CASE i = run
      <4>1. observed'[i] = triggerCount
        BY <1>2, <2>2, <3>1, <3>4, Ranges DEF Faults
      <4>2. Marked(run) \cap Stored(run) = {k \in Marked(run) : Kept(run, k)}
        BY <2>2 DEF Marked, Stored, Kept
      <4>3. Cardinality({k \in Marked(run) : Kept(run, k)}) <= triggerCount
        BY <2>2, <3>1 DEF CountInv, Measuring
      <4> QED BY <3>4, <4>1, <4>2, <4>3
    <3> QED BY <3>3, <3>4
  <2>3. CASE UNCHANGED vars
    BY <2>1, <2>3 DEF vars, resultVars
  <2>4. CASE ObserveState
    <3>1. CASE UNCHANGED resultVars
      BY <2>1, <3>1 DEF resultVars
    <3> QED BY <2>2, <2>4, <3>1 DEF ObserveState, proxyVars
  <2>5. CASE Next /\ ~ObserveState
    <3>1. UNCHANGED <<recorded, observed>>
      BY <2>5, ControlEffect, LateEffect
         DEF Next, RunnerStep, ProxyStep, ResetSut, SendRequest, StoreResponse,
             LoseResponse, FinishBatch, BatchRaises, Kill, resultVars
    <3> QED BY <2>1, <3>1
  <2> QED BY <2>3, <2>4, <2>5
<1>4. ASSUME pc' \in Measuring, run' # 0, active' = FaultSeq[run']
      PROVE  Cardinality(Counted(run)') <= triggerCount'
  <2>1. CASE Counted(run)' = {}
    BY <1>2, <2>1, FS_EmptySet
  <2>2. CASE /\ pc \in Measuring /\ run' = run /\ run # 0 /\ active = FaultSeq[run]
             /\ CountMove
    <3>1. Cardinality(Counted(run)) <= triggerCount
      BY <2>2 DEF CountInv, Counted
    <3>2. Cardinality(Counted(run)) \in Nat /\ Cardinality(Counted(run)') \in Nat
          /\ IsFiniteSet(Counted(run))
      BY <1>1, <1>2, CountedFinite
    <3>3. CASE Counted(run)' \subseteq Counted(run) /\ triggerCount' = triggerCount
      <4>1. Cardinality(Counted(run)') <= Cardinality(Counted(run))
        BY <3>2, <3>3, FS_Subset
      <4> QED BY <1>2, <2>2, <3>1, <3>2, <3>3, <4>1
    <3>4. CASE triggerCount' = triggerCount + 1
               /\ \E k \in Positions : Counted(run)' \subseteq Counted(run) \cup {k}
      <4>1. Cardinality(Counted(run)') <= Cardinality(Counted(run)) + 1
        BY <1>1, <1>2, <3>4, AtMostOneMore
      <4> QED BY <1>2, <2>2, <3>1, <3>2, <3>4, <4>1
    <3> QED BY <2>2, <3>3, <3>4 DEF CountMove
  <2> QED BY <1>4, <2>1, <2>2, RunningCount
<1> QED BY <1>3, <1>4 DEF CountInv, Counted

----------------------------------------------------------------------------
(* Counting exactly, as long as no response is lost. *)

\* Only responses that were returned are marked.
MarkedInv ==
  \A i \in Runs, k \in Positions : marker[<<i, k>>] # None => exchange[<<i, k>>] = "returned"

\* Nothing is known yet of the response that is awaited.
AwaitInv == pc = "await" => evidence[Current] = "none"

EqualInv ==
  Lost = {} =>
    /\ \A i \in 1..recorded : observed[i] = Cardinality(Marked(i) \cap Stored(i))
    /\ pc \in Measuring /\ run # 0 /\ active = FaultSeq[run] =>
         triggerCount = Cardinality(Counted(run))

ExactInv == MarkedInv /\ AwaitInv /\ EqualInv

\* What is lost stays lost, and the two simple parts are kept.
LEMMA ExactBasics ==
  ASSUME IndInv, MarkedInv, AwaitInv, [Next]_vars, TypeOK', ControlInv'
  PROVE  MarkedInv' /\ AwaitInv' /\ (Lost' = {} => Lost = {})
<1> USE Ranges DEF IndInv, TypeOK, Proxy!TypeOK, ControlInv, proxyVars, sutVars,
    runVars, resultVars, Current, Requests, Runs, Faults, Positions, Working,
    MarkedInv, AwaitInv, Lost
<1>1. CASE DisableFault \/ ActivateFault \/ DisableFinally
  <2>1. ControlMove /\ UNCHANGED <<exchange, marker, evidence>>
    BY <1>1, ControlEffect
  <2> QED BY <2>1 DEF ControlMove
<1>2. CASE ResetSut
  BY <1>2 DEF ResetSut, Raise
<1>3. CASE SendRequest
  <2>1. Unsent(run, sent + 1) /\ sent + 1 \in Positions
    BY <1>3 DEF SendRequest, Unsent
  <2>2. evidence[<<run, sent + 1>>] = "none" /\ exchange[<<run, sent + 1>>] = "unsent"
        /\ marker[<<run, sent + 1>>] = None
    BY <2>1 DEF UntouchedInv
  <2> QED BY <1>3, <2>2 DEF SendRequest, Proxy!Receive
<1>4. CASE StoreResponse
  <2>1. pc = "await" /\ pc' = "running" /\ UNCHANGED <<exchange, marker, run, sent>>
        /\ <<run, sent>> \in Requests
        /\ evidence' = [evidence EXCEPT ![<<run, sent>>] = "stored"]
    BY <1>4 DEF StoreResponse
  <2>2. MarkedInv' /\ AwaitInv'
    BY <2>1
  <2>3. evidence[<<run, sent>>] # "lost"
    BY <2>1
  <2>4. \A r \in Requests : evidence[r] = "lost" => evidence'[r] = "lost"
    BY <2>1, <2>3
  <2> QED BY <2>2, <2>4
<1>5. CASE LoseResponse
  BY <1>5 DEF LoseResponse
<1>6. CASE FinishBatch
  BY <1>6 DEF FinishBatch, NextRun
<1>7. CASE BatchRaises
  BY <1>7 DEF BatchRaises, Raise
<1>8. CASE ObserveState
  BY <1>8 DEF ObserveState, NextRun, Raise
<1>9. CASE Kill
  BY <1>9 DEF Kill
<1>10. ASSUME NEW r \in Requests, UpstreamAnswers(r) \/ UpstreamFails(r),
             UNCHANGED <<pc, run, runVars, resultVars, late, bypassed>>
      PROVE  MarkedInv' /\ AwaitInv' /\ (Lost' = {} => Lost = {})
  BY <1>10 DEF UpstreamAnswers, UpstreamFails, Proxy!UpstreamAnswers, Proxy!UpstreamFails
<1>11. ASSUME NEW r \in Requests, Apply(r),
             UNCHANGED <<pc, run, runVars, resultVars, late>>
      PROVE  MarkedInv' /\ AwaitInv' /\ (Lost' = {} => Lost = {})
  BY <1>11 DEF Apply, Proxy!Apply
<1>12. ASSUME Restart,
             UNCHANGED <<bypassed, pc, run, runVars, resultVars, late>>
      PROVE  MarkedInv' /\ AwaitInv' /\ (Lost' = {} => Lost = {})
  BY <1>12 DEF Restart, Proxy!Restart, Proxy!InProgress
<1>13. CASE LateSwitch
  BY <1>13, LateEffect
<1>15. ASSUME NEW r \in pending, SutHandles(r),
             UNCHANGED <<bypassed, pc, run, runVars, resultVars, late>>
      PROVE  MarkedInv' /\ AwaitInv' /\ (Lost' = {} => Lost = {})
  BY <1>15 DEF SutHandles
<1>14. CASE UNCHANGED vars
  BY <1>14 DEF vars
<1> QED BY <1>1, <1>2, <1>3, <1>4, <1>5, <1>6, <1>7, <1>8, <1>9, <1>10, <1>11,
         <1>12, <1>13, <1>14, <1>15 DEF Next, RunnerStep, ProxyStep

\* While nothing is lost, only the awaited response can be marked, once.
ExactMove ==
  \/ Counted(run)' = Counted(run) /\ triggerCount' = triggerCount
  \/ /\ triggerCount' = triggerCount + 1
     /\ \E k \in Positions \ Counted(run) : Counted(run)' = Counted(run) \cup {k}

LEMMA ExactCount ==
  ASSUME IndInv, MarkedInv, AwaitInv, Lost = {}, Lost' = {},
         [Next]_vars, TypeOK', ControlInv',
         pc' \in Measuring, run' # 0, active' = FaultSeq[run']
  PROVE  \/ Counted(run)' = {} /\ triggerCount' = 0
         \/ /\ pc \in Measuring /\ run' = run /\ run # 0 /\ active = FaultSeq[run]
            /\ ExactMove
<1> USE Ranges DEF IndInv, TypeOK, Proxy!TypeOK, ControlInv, proxyVars, sutVars,
    runVars, resultVars, Current, Requests, Runs, Faults, Positions, Working,
    Measuring, Marked, Counted, Kept, ExactMove, Lost
<1>1. CASE DisableFault \/ ActivateFault \/ DisableFinally
  <2>1. /\ ControlMove
        /\ UNCHANGED <<marker, run, sent, evidence>>
    BY <1>1, ControlEffect
  <2>2. pc' = "running" /\ pc = "activate" /\ triggerCount' = 0
    BY <2>1 DEF ControlMove
  <2>3. sent = 0 /\ run # 0
    BY <2>2
  <2>4. \A k \in Positions : marker[<<run, k>>] = None
    BY <2>3 DEF UntouchedInv, Unsent
  <2> QED BY <2>1, <2>2, <2>4
<1>2. CASE ResetSut
  BY <1>2 DEF ResetSut, Raise
<1>3. CASE SendRequest
  <2>1. pc = "running" /\ pc' = "await" /\ run' = run /\ active' = active
        /\ marker' = marker /\ evidence' = evidence /\ sent' = sent + 1
        /\ triggerCount' = triggerCount
    BY <1>3 DEF SendRequest, Proxy!Receive
  <2>2. marker[<<run, sent + 1>>] = None
    BY <1>3 DEF SendRequest, UntouchedInv, Unsent
  <2>3. Counted(run)' = Counted(run)
    BY <2>1, <2>2
  <2> QED BY <2>1, <2>3
<1>4. CASE StoreResponse
  <2>1. pc = "await" /\ pc' = "running" /\ run' = run /\ active' = active
        /\ marker' = marker /\ sent' = sent /\ triggerCount' = triggerCount
        /\ evidence' = [evidence EXCEPT ![<<run, sent>>] = "stored"]
    BY <1>4 DEF StoreResponse
  <2>2. Counted(run)' = Counted(run)
    BY <2>1
  <2> QED BY <2>1, <2>2
<1>5. CASE LoseResponse
  BY <1>5 DEF LoseResponse
<1>6. CASE FinishBatch
  <2>1. pc = "running" /\ run # 0 /\ pc' = "observe"
        /\ UNCHANGED <<active, triggerCount, marker, run, evidence>>
    BY <1>6 DEF FinishBatch, NextRun
  <2>2. Counted(run)' = Counted(run)
    BY <2>1
  <2> QED BY <2>1, <2>2
<1>7. CASE BatchRaises
  BY <1>7 DEF BatchRaises, Raise
<1>8. CASE ObserveState
  BY <1>8 DEF ObserveState, NextRun, Raise
<1>9. CASE Kill
  BY <1>9 DEF Kill
<1>10. ASSUME NEW r \in Requests, UpstreamAnswers(r) \/ UpstreamFails(r),
             UNCHANGED <<pc, run, runVars, resultVars, late, bypassed>>
      PROVE  /\ pc \in Measuring /\ run' = run /\ run # 0 /\ active = FaultSeq[run]
             /\ ExactMove
  BY <1>10 DEF UpstreamAnswers, UpstreamFails, Proxy!UpstreamAnswers, Proxy!UpstreamFails
<1>11. ASSUME NEW r \in Requests, Apply(r),
             UNCHANGED <<pc, run, runVars, resultVars, late>>
      PROVE  /\ pc \in Measuring /\ run' = run /\ run # 0 /\ active = FaultSeq[run]
             /\ ExactMove
  <2>1. /\ pc \in Measuring /\ run' = run /\ run # 0 /\ active = FaultSeq[run]
        /\ pc' = pc /\ sent' = sent /\ evidence' = evidence
    BY <1>11 DEF Apply, Proxy!Apply
  <2>2. CASE UNCHANGED <<triggerCount, marker>>
    BY <2>1, <2>2
  <2>3. CASE triggerCount' = triggerCount + 1 /\ marker' = [marker EXCEPT ![r] = active]
    <3>1. PICK i \in Runs, k \in Positions : r = <<i, k>>
      BY <1>11
    <3>2. exchange[<<i, k>>] = "forwarded"
      BY <1>11, <3>1 DEF Apply, Proxy!Apply
    <3>3. pc = "await" /\ i = run /\ k = sent
      BY <2>1, <3>2 DEF ProgressInv
    <3>4. k \notin Counted(run)
      BY <3>2, <3>3 DEF MarkedInv
    <3>5. Counted(run)' = Counted(run) \cup {k}
      BY <2>1, <2>3, <3>1, <3>3
    <3> QED BY <2>1, <2>3, <3>4, <3>5
  <2> QED BY <1>11, <2>2, <2>3 DEF Apply, Proxy!Apply
<1>12. ASSUME Restart,
             UNCHANGED <<bypassed, pc, run, runVars, resultVars, late>>
      PROVE  FALSE
  BY <1>12 DEF Restart, Proxy!Restart
<1>13. CASE LateSwitch
  BY <1>13, LateEffect
<1>15. ASSUME NEW r \in pending, SutHandles(r),
             UNCHANGED <<bypassed, pc, run, runVars, resultVars, late>>
      PROVE  /\ pc \in Measuring /\ run' = run /\ run # 0 /\ active = FaultSeq[run]
             /\ ExactMove
  BY <1>15 DEF SutHandles
<1>14. CASE UNCHANGED vars
  BY <1>14 DEF vars
<1> QED BY <1>1, <1>2, <1>3, <1>4, <1>5, <1>6, <1>7, <1>8, <1>9, <1>10, <1>11,
         <1>12, <1>13, <1>14, <1>15 DEF Next, RunnerStep, ProxyStep

LEMMA EqualStep ==
  ASSUME IndInv, ExactInv, [Next]_vars, TypeOK', ControlInv'
  PROVE  EqualInv'
<1> SUFFICES ASSUME Lost' = {} PROVE EqualInv'
  BY DEF EqualInv
<1>1. Lost = {} /\ MarkedInv /\ AwaitInv
  BY ExactBasics DEF ExactInv
<1>2. /\ \A i \in 1..recorded : observed[i] = Cardinality(Marked(i) \cap Stored(i))
      /\ pc \in Measuring /\ run # 0 /\ active = FaultSeq[run] =>
           triggerCount = Cardinality(Counted(run))
  BY <1>1 DEF ExactInv, EqualInv
<1>3. run \in Runs /\ run' \in Runs /\ triggerCount \in Nat
      /\ observed \in [Faults -> Nat] /\ recorded \in 0..Len(FaultSeq)
  BY DEF IndInv, TypeOK, Proxy!TypeOK
<1>4. \A i \in 1..recorded' : observed'[i] = Cardinality((Marked(i) \cap Stored(i))')
  <2>1. CASE UNCHANGED <<recorded, observed>>
    BY <1>2, <2>1, RecordedSettled
  <2>2. ASSUME pc = "observe", active = FaultSeq[run], recorded' = recorded + 1,
               observed' = [observed EXCEPT ![run] = triggerCount],
               UNCHANGED <<marker, evidence>>
        PROVE  \A i \in 1..recorded' : observed'[i] = Cardinality((Marked(i) \cap Stored(i))')
    <3>1. run # 0 /\ recorded = run - 1
      BY <2>2 DEF IndInv, ControlInv, Working
    <3>2. SUFFICES ASSUME NEW i \in 1..run
                   PROVE  observed'[i] = Cardinality(Marked(i) \cap Stored(i))
      BY <1>3, <2>2, <3>1, Ranges DEF Marked, Stored
    <3>3. CASE i # run
      <4>1. i \in 1..recorded /\ observed'[i] = observed[i]
        BY <1>3, <2>2, <3>1, <3>3, Ranges DEF Faults
      <4> QED BY <1>2, <4>1
    <3>4. CASE i = run
      <4>1. observed'[i] = triggerCount
        BY <1>3, <2>2, <3>1, <3>4, Ranges DEF Faults
      <4>2. Marked(run) \cap Stored(run) = Counted(run)
        BY <2>2 DEF Marked, Stored, Kept, Counted
      <4> QED BY <1>2, <2>2, <3>1, <3>4, <4>1, <4>2 DEF Measuring
    <3> QED BY <3>3, <3>4
  <2>3. CASE UNCHANGED vars
    BY <2>1, <2>3 DEF vars, resultVars
  <2>4. CASE ObserveState
    <3>1. CASE UNCHANGED resultVars
      BY <2>1, <3>1 DEF resultVars
    <3> QED BY <2>2, <2>4, <3>1 DEF ObserveState, proxyVars
  <2>5. CASE Next /\ ~ObserveState
    <3>1. UNCHANGED <<recorded, observed>>
      BY <2>5, ControlEffect, LateEffect
         DEF Next, RunnerStep, ProxyStep, ResetSut, SendRequest, StoreResponse,
             LoseResponse, FinishBatch, BatchRaises, Kill, resultVars
    <3> QED BY <2>1, <3>1
  <2> QED BY <2>3, <2>4, <2>5
<1>5. ASSUME pc' \in Measuring, run' # 0, active' = FaultSeq[run']
      PROVE  triggerCount' = Cardinality(Counted(run)')
  <2>1. CASE Counted(run)' = {} /\ triggerCount' = 0
    BY <2>1, FS_EmptySet
  <2>2. CASE /\ pc \in Measuring /\ run' = run /\ run # 0 /\ active = FaultSeq[run]
             /\ ExactMove
    <3>1. triggerCount = Cardinality(Counted(run))
      BY <1>2, <2>2
    <3>2. CASE Counted(run)' = Counted(run) /\ triggerCount' = triggerCount
      BY <3>1, <3>2
    <3>3. CASE triggerCount' = triggerCount + 1
               /\ \E k \in Positions \ Counted(run) : Counted(run)' = Counted(run) \cup {k}
      <4>1. PICK k \in Positions \ Counted(run) : Counted(run)' = Counted(run) \cup {k}
        BY <3>3
      <4>2. Counted(run) \in SUBSET Positions
        BY DEF Counted, Marked
      <4>3. IsFiniteSet(Counted(run))
        BY <4>2, CountedFinite
      <4>4. Cardinality(Counted(run) \cup {k}) = Cardinality(Counted(run)) + 1
        BY <4>1, <4>3, FS_AddElement
      <4> QED BY <3>1, <3>3, <4>1, <4>4
    <3> QED BY <2>2, <3>2, <3>3 DEF ExactMove
  <2> QED BY <1>1, <1>5, <2>1, <2>2, ExactCount
<1> QED BY <1>4, <1>5 DEF EqualInv

----------------------------------------------------------------------------
(* The theorems. *)

LEMMA InitIndInv ==
  Init => IndInv
BY Ranges, MaxRequestsAssumption
   DEF Init, IndInv, TypeOK, Proxy!TypeOK, Proxy!Stage, ControlInv, ActiveInv,
       UntouchedInv, ProgressInv, MarkInv, ExposureInv, SutInv, Kept, Unsent,
       RecordedRunIsUnderFault, Stored, Requests, Runs, Faults, Positions,
       Working, Measuring, Terminal, FaultOf

LEMMA NextIndInv ==
  IndInv /\ [Next]_vars => IndInv'
BY TypeStep, ActiveStep, UntouchedStep, ProgressStep, MarkStep, ExposureStep,
   SutStep DEF IndInv

(***************************************************************************)
(* The inductive invariant holds of every behaviour of the suite: the      *)
(* runner's counters, the proxy's state and the fate of each request stay  *)
(* related however control replies and responses are lost.                 *)
(***************************************************************************)
THEOREM Inductive == Spec => []IndInv
<1>1. Init => IndInv
  BY InitIndInv
<1>2. IndInv /\ [Next]_vars => IndInv'
  BY NextIndInv
<1> QED BY <1>1, <1>2, PTL DEF Spec

(***************************************************************************)
(* Every variable of runner, proxy and SUT keeps its type; in particular   *)
(* the proxy's active fault always comes from its catalog.                 *)
(***************************************************************************)
THEOREM TypeCorrect == Spec => []TypeOK
<1>1. IndInv => TypeOK
  BY DEF IndInv
<1> QED BY <1>1, Inductive, PTL

(***************************************************************************)
(* For every suite: no response kept as evidence of a run carries a fault  *)
(* of another run, and the clean run keeps none that a fault changed.      *)
(***************************************************************************)
THEOREM EvidenceSafe == Spec => []EvidenceIsOfTheRun
<1>1. IndInv => EvidenceIsOfTheRun
  BY DEF IndInv, MarkInv, Kept, EvidenceIsOfTheRun, Stored
<1> QED BY <1>1, Inductive, PTL

(***************************************************************************)
(* For every suite: an execution that is returned has one recorded run for *)
(* each fault and leaves the proxy in pass-through mode.                   *)
(***************************************************************************)
THEOREM PublicationSafe == Spec => []PublishedMeansRestored
<1>1. IndInv => PublishedMeansRestored
  BY DEF IndInv, ControlInv, ActiveInv, PublishedMeansRestored
<1> QED BY <1>1, Inductive, PTL

(***************************************************************************)
(* For every suite: a recorded fault run kept no SUT response that its     *)
(* fault was not consulted for, whenever the proxy restarted.              *)
(***************************************************************************)
THEOREM ExposureSafe == Spec => []RecordedRunIsUnderFault
<1>1. IndInv => RecordedRunIsUnderFault
  BY DEF IndInv, ExposureInv
<1> QED BY <1>1, Inductive, PTL

(***************************************************************************)
(* For every suite: only requests runner or proxy gave up can leave an      *)
(* effect in the SUT that a later run measures.                            *)
(***************************************************************************)
THEOREM IsolationSafe == Spec => []SutHoldsOwnOrGivenUp
<1>1. IndInv => SutHoldsOwnOrGivenUp
  BY DEF IndInv, TypeOK, SutInv, SutHoldsOwnOrGivenUp, GivenUp, Lost, Requests, Measuring
<1> QED BY <1>1, Inductive, PTL

(***************************************************************************)
(* For every suite: the trigger count recorded for a run is never below    *)
(* the number of marked responses the run kept.                            *)
(***************************************************************************)
THEOREM CountSafe == Spec => []CountCoversEvidence
<1>1. Init => IndInv /\ CountInv
  BY InitIndInv DEF Init, CountInv, CountCoversEvidence, Measuring
<1>2. IndInv /\ CountInv /\ [Next]_vars => IndInv' /\ CountInv'
  BY NextIndInv, CountStep, TypeStep
<1>3. IndInv /\ CountInv => CountCoversEvidence
  BY DEF CountInv
<1> QED BY <1>1, <1>2, <1>3, PTL DEF Spec

(***************************************************************************)
(* For every suite: as long as no response was lost, each recorded trigger *)
(* count is the number of marked responses that the run kept.              *)
(***************************************************************************)
THEOREM CountExact == Spec => []CountEqualsEvidenceUnlessLost
<1>1. Init => IndInv /\ ExactInv
  <2> SUFFICES ASSUME Init PROVE ExactInv
    BY InitIndInv
  <2>1. MarkedInv /\ AwaitInv
    BY DEF Init, MarkedInv, AwaitInv, Runs, Positions, Requests
  <2>2. EqualInv
    BY DEF Init, EqualInv, Measuring
  <2> QED BY <2>1, <2>2 DEF ExactInv
<1>2. IndInv /\ ExactInv /\ [Next]_vars => IndInv' /\ ExactInv'
  <2> SUFFICES ASSUME IndInv, ExactInv, [Next]_vars
               PROVE  IndInv' /\ ExactInv'
    OBVIOUS
  <2>1. IndInv' /\ TypeOK' /\ ControlInv'
    BY NextIndInv DEF IndInv
  <2>2. MarkedInv' /\ AwaitInv'
    BY <2>1, ExactBasics DEF ExactInv
  <2>3. EqualInv'
    BY <2>1, EqualStep
  <2> QED BY <2>1, <2>2, <2>3 DEF ExactInv
<1>3. ExactInv => CountEqualsEvidenceUnlessLost
  BY DEF ExactInv, EqualInv, CountEqualsEvidenceUnlessLost
<1> QED BY <1>1, <1>2, <1>3, PTL DEF Spec

----------------------------------------------------------------------------
(* The suite implements the experiment. *)

\* Runner steps that do not call the proxy's control endpoints.
LEMMA RunnerStepRefines ==
  ASSUME IndInv, IndInv',
         \/ ResetSut \/ SendRequest \/ StoreResponse \/ LoseResponse
         \/ FinishBatch \/ BatchRaises \/ ObserveState \/ Kill
  PROVE  [Experiment!Next]_(Experiment!vars)
<1> USE Ranges, CatalogAssumption DEF IndInv, TypeOK, Proxy!TypeOK, ControlInv,
    ActiveInv, FaultOf, Working, Terminal, Measuring, stageBar, Raise, NextRun, proxyVars, sutVars,
    runVars, resultVars, Experiment!Next, Experiment!vars, Experiment!Ended
<1>1. CASE ResetSut
  BY <1>1 DEF ResetSut, Experiment!Abandon
<1>2. CASE SendRequest
  BY <1>2 DEF SendRequest, Proxy!Receive
<1>3. CASE StoreResponse
  BY <1>3 DEF StoreResponse
<1>4. CASE LoseResponse
  BY <1>4 DEF LoseResponse
<1>5. CASE FinishBatch
  BY <1>5 DEF FinishBatch, Experiment!EndClean
<1>6. CASE BatchRaises
  BY <1>6 DEF BatchRaises, Experiment!Abandon
<1>7. CASE ObserveState
  <2>1. run # 0 /\ recorded + 1 = run /\ stageBar = "measuring" /\ active' = active
    BY <1>7 DEF ObserveState
  <2>2. CASE Raise /\ UNCHANGED <<resultVars, run, sent>>
    <3>1. stageBar' = "abandoned" /\ recorded' = recorded
      BY <2>1, <2>2
    <3> QED BY <2>1, <3>1 DEF Experiment!Abandon
  <2>3. CASE active = FaultSeq[run] /\ recorded' = recorded + 1 /\ NextRun
    <3>1. stageBar' = "between"
      BY <2>1, <2>3
    <3> QED BY <2>1, <2>3, <3>1 DEF Experiment!Record
  <2> QED BY <1>7, <2>2, <2>3 DEF ObserveState
<1>8. CASE Kill
  BY <1>8 DEF Kill, Experiment!Abandon
<1> QED BY <1>1, <1>2, <1>3, <1>4, <1>5, <1>6, <1>7, <1>8

\* Control requests, in time or late, and the steps of proxy and SUT.
LEMMA ProxySideRefines ==
  ASSUME IndInv, IndInv',
         \/ DisableFault \/ ActivateFault \/ DisableFinally
         \/ LateSwitch \/ ProxyStep
  PROVE  [Experiment!Next]_(Experiment!vars)
<1>0. ASSUME DisableFault \/ ActivateFault \/ DisableFinally
      PROVE  /\ ControlMove
             /\ active' \in Catalog \cup {None}
             /\ UNCHANGED <<run, recorded>>
  BY <1>0, ControlEffect
<1>00. ASSUME LateSwitch
       PROVE  /\ pc \in {"unwind", "raised", "failed", "killed"}
              /\ active' \in Catalog \cup {None}
              /\ UNCHANGED <<pc, run, recorded>>
  BY <1>00, LateEffect
<1> USE Ranges, CatalogAssumption DEF IndInv, TypeOK, Proxy!TypeOK, ControlInv,
    ActiveInv, FaultOf, Working, Terminal, Measuring, stageBar, Raise, proxyVars, sutVars,
    runVars, resultVars, Experiment!Next, Experiment!vars, Experiment!Ended
<1>1. CASE DisableFault \/ ActivateFault \/ DisableFinally
  <2>1. /\ ControlMove
        /\ active' \in Catalog \cup {None}
        /\ UNCHANGED <<run, recorded>>
    BY <1>0, <1>1
  <2>2. CASE pc = "disable" /\ pc' = "reset" /\ active' = None
    BY <2>1, <2>2 DEF Experiment!BeginClean, Experiment!Disarm
  <2>3. CASE pc = "activate" /\ pc' = "running" /\ active' = FaultSeq[run]
    <3>1. run # 0 /\ recorded + 1 = run /\ recorded < Len(FaultSeq)
      BY <2>1, <2>3 DEF Runs
    <3>2. stageBar = "between" /\ stageBar' = "measuring"
      BY <2>1, <2>3, <3>1
    <3> QED BY <2>1, <2>3, <3>1, <3>2 DEF Experiment!Arm
  <2>4. CASE pc = "finally" /\ pc' = "published" /\ active' = None
    BY <2>1, <2>4 DEF Experiment!Publish
  <2>5. CASE pc = "unwind" /\ pc' = "raised"
    BY <2>1, <2>5 DEF Experiment!Stray
  <2>6. CASE /\ pc \in {"disable", "activate", "finally", "unwind"}
             /\ pc' \in {"failed", "unwind"}
    <3>1. stageBar' = "abandoned" /\ stageBar \in {"idle", "between", "abandoned"}
      BY <2>1, <2>6
    <3> QED BY <2>1, <3>1 DEF Experiment!Abandon, Experiment!Stray
  <2> QED BY <2>1, <2>2, <2>3, <2>4, <2>5, <2>6 DEF ControlMove
<1>2. CASE LateSwitch
  BY <1>00, <1>2 DEF Experiment!Stray
<1>3. CASE ProxyStep
  <2>1. /\ active' = active \/ active' = None
        /\ UNCHANGED <<pc, run, recorded>>
    BY <1>3 DEF ProxyStep, UpstreamAnswers, UpstreamFails, Apply, Proxy!UpstreamAnswers,
       Proxy!UpstreamFails, Proxy!Apply, Restart, Proxy!Restart, SutHandles
  <2> QED BY <2>1 DEF Experiment!Disarm
<1> QED BY <1>1, <1>2, <1>3

(***************************************************************************)
(* For every suite: runner, proxy and network together implement the       *)
(* experiment: a fault is armed, measured and recorded in the configured   *)
(* order, nothing is published unless all were, and a step either is one   *)
(* of the experiment or does not show.                                     *)
(***************************************************************************)
THEOREM Refinement == Spec => ImplementsExperiment
<1>1. Init => Experiment!Init
  BY CatalogAssumption DEF Init, Experiment!Init, stageBar, Measuring
<1>2. IndInv /\ IndInv' /\ [Next]_vars => [Experiment!Next]_(Experiment!vars)
  <2>1. CASE UNCHANGED vars
    BY <2>1 DEF vars, proxyVars, sutVars, runVars, resultVars, Experiment!vars, stageBar
  <2> QED BY <2>1, RunnerStepRefines, ProxySideRefines DEF Next, RunnerStep
<1> QED BY <1>1, <1>2, Inductive, PTL DEF Spec, ImplementsExperiment, Experiment!Spec
=============================================================================
