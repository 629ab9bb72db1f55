-------------------------- MODULE FaultExperiment --------------------------
(***************************************************************************)
(* What a clean-versus-fault experiment promises, without its protocol:    *)
(* the clean measurement is taken with no fault armed, then each fault of  *)
(* the list is armed, measured and recorded in turn, and a result is       *)
(* published only when every fault was recorded and none is armed any      *)
(* more. An experiment may be abandoned at any point; then nothing is      *)
(* published and nothing is promised about the fault left behind.          *)
(***************************************************************************)
EXTENDS Naturals, Sequences

CONSTANTS
  FaultIds,   \* every fault that can be armed
  FaultSeq,   \* the faults to measure, in order
  None        \* no fault is armed

VARIABLES
  stage,      \* how far the experiment is
  armed,      \* the fault in force, or None
  recorded    \* how many of the faults have a recorded measurement

vars == <<stage, armed, recorded>>

Stages == {"idle", "clean", "between", "measuring", "published", "abandoned"}
Ended == {"published", "abandoned"}

TypeOK ==
  /\ stage \in Stages
  /\ armed \in FaultIds \cup {None}
  /\ recorded \in 0..Len(FaultSeq)

\* An earlier experiment may have left a fault armed.
Init ==
  /\ stage = "idle"
  /\ armed \in FaultIds \cup {None}
  /\ recorded = 0

BeginClean ==
  /\ stage = "idle"
  /\ stage' = "clean"
  /\ armed' = None
  /\ UNCHANGED recorded

EndClean ==
  /\ stage = "clean"
  /\ armed = None
  /\ stage' = "between"
  /\ UNCHANGED <<armed, recorded>>

Arm ==
  /\ stage = "between"
  /\ recorded < Len(FaultSeq)
  /\ stage' = "measuring"
  /\ armed' = FaultSeq[recorded + 1]
  /\ UNCHANGED recorded

\* A measurement counts only if its fault is still in force at its end.
Record ==
  /\ stage = "measuring"
  /\ armed = FaultSeq[recorded + 1]
  /\ stage' = "between"
  /\ recorded' = recorded + 1
  /\ UNCHANGED armed

\* The armed fault is switched off, on purpose or because the proxy restarted.
Disarm ==
  /\ armed' = None
  /\ UNCHANGED <<stage, recorded>>

Publish ==
  /\ stage = "between"
  /\ recorded = Len(FaultSeq)
  /\ stage' = "published"
  /\ armed' = None
  /\ UNCHANGED recorded

Abandon ==
  /\ stage \notin Ended
  /\ stage' = "abandoned"
  /\ armed' \in FaultIds \cup {None}
  /\ UNCHANGED recorded

\* A control request nobody waits for any more may still take effect.
Stray ==
  /\ stage = "abandoned"
  /\ armed' \in FaultIds \cup {None}
  /\ UNCHANGED <<stage, recorded>>

Next ==
  \/ BeginClean \/ EndClean \/ Arm \/ Record \/ Disarm
  \/ Publish \/ Abandon \/ Stray

Spec == Init /\ [][Next]_vars
============================================================================
