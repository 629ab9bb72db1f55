---------------------------- MODULE FaultProxy ----------------------------
(***************************************************************************)
(* The fault proxy of services/fault_proxy/app.py: one controller that     *)
(* holds the active fault and its trigger count under a lock, and any      *)
(* number of proxied requests, each an asyncio task that first awaits the  *)
(* upstream and only then asks the controller to apply the fault.          *)
(***************************************************************************)
EXTENDS Naturals, FiniteSets

CONSTANTS
  FaultIds,   \* identifiers a control client may name
  Catalog,    \* the faults loaded when the proxy starts
  Requests,   \* the requests clients ever send through the proxy
  None        \* no fault: pass-through mode, or a response without the header

ASSUME CatalogAssumption == Catalog \subseteq FaultIds
ASSUME NoneAssumption == None \notin FaultIds

VARIABLES
  active,        \* _active: the fault in force, or None
  triggerCount,  \* _trigger_count
  exchange,      \* where each proxied request is
  marker         \* x-oate-fault-id of the response the proxy built

vars == <<active, triggerCount, exchange, marker>>

(***************************************************************************)
(* A request is "forwarding" while the task awaits the upstream,           *)
(* "forwarded" once the upstream response has been read, "returned" when   *)
(* the downstream response is built from it, "refused" when the proxy      *)
(* answers 502 itself and "aborted" when it died with the connection open. *)
(***************************************************************************)
InProgress == {"forwarding", "forwarded"}
Stage == {"unsent", "returned", "refused", "aborted"} \cup InProgress

TypeOK ==
  /\ active \in Catalog \cup {None}
  /\ triggerCount \in Nat
  /\ exchange \in [Requests -> Stage]
  /\ marker \in [Requests -> Catalog \cup {None}]

Init ==
  /\ active = None
  /\ triggerCount = 0
  /\ exchange = [r \in Requests |-> "unsent"]
  /\ marker = [r \in Requests |-> None]

----------------------------------------------------------------------------
(* Control endpoints; each holds the lock for its whole body. *)

\* Mutant: any id a client names is activated.
Activate_AnyId(f) ==
  /\ active' = f
  /\ triggerCount' = 0
  /\ UNCHANGED <<exchange, marker>>

\* Mutant: the count of the previous fault is kept.
Activate_KeepsCount(f) ==
  /\ f \in Catalog
  /\ active' = f
  /\ UNCHANGED <<triggerCount, exchange, marker>>

Activate(f) ==
  /\ f \in Catalog
  /\ active' = f
  /\ triggerCount' = 0
  /\ UNCHANGED <<exchange, marker>>

Reset ==
  /\ active' = None
  /\ triggerCount' = 0
  /\ UNCHANGED <<exchange, marker>>

----------------------------------------------------------------------------
(* The proxy_request handler. *)

Receive(r) ==
  /\ exchange[r] = "unsent"
  /\ exchange' = [exchange EXCEPT ![r] = "forwarding"]
  /\ UNCHANGED <<active, triggerCount, marker>>

UpstreamAnswers(r) ==
  /\ exchange[r] = "forwarding"
  /\ exchange' = [exchange EXCEPT ![r] = "forwarded"]
  /\ UNCHANGED <<active, triggerCount, marker>>

\* The upstream failed, timed out or answered too much: a 502 built by the
\* proxy itself goes downstream and the controller is never consulted.
UpstreamFails(r) ==
  /\ exchange[r] = "forwarding"
  /\ exchange' = [exchange EXCEPT ![r] = "refused"]
  /\ UNCHANGED <<active, triggerCount, marker>>

\* Mutant: a response the fault does not change is counted as well.
Apply_CountsNoChange(r) ==
  /\ exchange[r] = "forwarded"
  /\ exchange' = [exchange EXCEPT ![r] = "returned"]
  /\ triggerCount' = IF active = None THEN triggerCount ELSE triggerCount + 1
  /\ \/ UNCHANGED marker
     \/ active # None /\ marker' = [marker EXCEPT ![r] = active]
  /\ UNCHANGED active

\* Mutant: without an active fault the response is never passed on.
Apply_NeedsFault(r) ==
  /\ exchange[r] = "forwarded"
  /\ active # None
  /\ exchange' = [exchange EXCEPT ![r] = "returned"]
  /\ \/ UNCHANGED <<triggerCount, marker>>
     \/ /\ triggerCount' = triggerCount + 1
        /\ marker' = [marker EXCEPT ![r] = active]
  /\ UNCHANGED active

\* Whether the active fault matches this response and changes it depends on
\* the response, so a match is a choice. The fault consulted is the one active
\* now, not the one active when the request arrived. A header of that name sent
\* by the upstream is dropped, so an unmutated response is never marked.
Apply(r) ==
  /\ exchange[r] = "forwarded"
  /\ exchange' = [exchange EXCEPT ![r] = "returned"]
  /\ \/ UNCHANGED <<triggerCount, marker>>
     \/ /\ active # None
        /\ triggerCount' = triggerCount + 1
        /\ marker' = [marker EXCEPT ![r] = active]
  /\ UNCHANGED active

\* The controller lives in memory only: a restarted proxy is in pass-through
\* mode and the connections it held are gone.
Restart ==
  /\ active' = None
  /\ triggerCount' = 0
  /\ exchange' = [r \in Requests |->
                    IF exchange[r] \in InProgress THEN "aborted" ELSE exchange[r]]
  /\ UNCHANGED marker

Handle(r) == UpstreamAnswers(r) \/ UpstreamFails(r) \/ Apply(r)

Next ==
  \/ \E f \in FaultIds : Activate(f)
  \/ Reset
  \/ \E r \in Requests : Receive(r) \/ Handle(r)
  \/ Restart

\* A handler that was started runs to its end: its client is never awaited and
\* the upstream call has a timeout of its own.
Fairness == \A r \in Requests : WF_vars(Handle(r))

Spec == Init /\ [][Next]_vars /\ Fairness

----------------------------------------------------------------------------
MarkedWith(f) == {r \in Requests : marker[r] = f}

(***************************************************************************)
(* However activations, resets, restarts and overlapping requests          *)
(* interleave, the count the state document reports for the active fault   *)
(* never exceeds the responses that carry that fault's header.             *)
(***************************************************************************)
CountIsBacked ==
  IF active = None
  THEN triggerCount = 0
  ELSE triggerCount <= Cardinality(MarkedWith(active))

(***************************************************************************)
(* While one fault stays in force, each response that becomes marked       *)
(* carries that fault and is counted once: the header and the counter      *)
(* cannot drift apart between two control calls.                           *)
(***************************************************************************)
MarkAndCountTogether ==
  [][active' = active /\ active # None /\ triggerCount' >= triggerCount =>
       MarkedWith(active)' = MarkedWith(active)
         \cup {r \in Requests : marker'[r] # marker[r]}
       /\ triggerCount' - triggerCount
            = Cardinality({r \in Requests : marker'[r] # marker[r]})]_vars

(***************************************************************************)
(* Every request the proxy accepted is finished, whatever the control      *)
(* endpoints do meanwhile and whether or not its client still waits.       *)
(***************************************************************************)
EveryRequestFinishes ==
  \A r \in Requests :
    exchange[r] = "forwarding" ~> exchange[r] \in {"returned", "refused", "aborted"}
============================================================================
