-------------------------- MODULE FaultProxyProofs --------------------------
(***************************************************************************)
(* Count and header of the fault proxy belong together, for any catalogue, *)
(* any set of requests, finite or not, and any interleaving of control     *)
(* calls, handlers and restarts.                                           *)
(***************************************************************************)
EXTENDS FaultProxy, FiniteSetTheorems, TLAPS

Marked == {r \in Requests : marker[r] # None}

----------------------------------------------------------------------------
(* The inductive invariant *)

\* Only a response that was built carries a header, and there are finitely many.
MarkerInv ==
  /\ IsFiniteSet(Marked)
  /\ \A r \in Requests : marker[r] # None => exchange[r] = "returned"

ProxyInv == TypeOK /\ MarkerInv /\ CountIsBacked

\* The responses marked with a fault are among the marked ones.
LEMMA MarkedWithFinite ==
  ASSUME ProxyInv, NEW f \in Catalog
  PROVE  /\ IsFiniteSet(MarkedWith(f))
         /\ Cardinality(MarkedWith(f)) \in Nat
<1>1. MarkedWith(f) \subseteq Marked
  BY CatalogAssumption, NoneAssumption DEF MarkedWith, Marked
<1>2. IsFiniteSet(MarkedWith(f))
  BY <1>1, FS_Subset DEF ProxyInv, MarkerInv
<1> QED
  BY <1>2, FS_CardinalityType

\* What applying the active fault to a response comes to.
LEMMA ApplyEffect ==
  ASSUME ProxyInv, NEW r \in Requests, Apply(r)
  PROVE  /\ active' = active /\ exchange' = [exchange EXCEPT ![r] = "returned"]
         /\ marker[r] = None
         /\ \/ UNCHANGED <<triggerCount, marker>>
            \/ /\ active \in Catalog
               /\ triggerCount' = triggerCount + 1
               /\ marker' = [marker EXCEPT ![r] = active]
<1>1. exchange[r] # "returned"
  BY DEF Apply
<1> QED
  BY <1>1 DEF Apply, ProxyInv, MarkerInv, TypeOK

\* A mark that is added is counted.
LEMMA MarkAdded ==
  ASSUME ProxyInv, NEW r \in Requests, marker[r] = None, active \in Catalog,
         active' = active, marker' = [marker EXCEPT ![r] = active]
  PROVE  /\ MarkedWith(active)' = MarkedWith(active) \cup {r}
         /\ Marked' = Marked \cup {r}
         /\ {q \in Requests : marker'[q] # marker[q]} = {r}
         /\ Cardinality(MarkedWith(active)') = Cardinality(MarkedWith(active)) + 1
<1>1. active # None
  BY CatalogAssumption, NoneAssumption
<1>2. \A q \in Requests : marker'[q] = IF q = r THEN active ELSE marker[q]
  BY DEF ProxyInv, TypeOK
<1>3. MarkedWith(active)' = MarkedWith(active) \cup {r}
  BY <1>2 DEF MarkedWith
<1>4. Marked' = Marked \cup {r} /\ {q \in Requests : marker'[q] # marker[q]} = {r}
  BY <1>1, <1>2 DEF Marked
<1>5. r \notin MarkedWith(active)
  BY <1>1 DEF MarkedWith
<1> QED
  BY <1>3, <1>4, <1>5, MarkedWithFinite, FS_AddElement

----------------------------------------------------------------------------
LEMMA ProxyInit == Init => ProxyInv
<1> SUFFICES ASSUME Init PROVE ProxyInv
  OBVIOUS
<1>1. TypeOK
  BY DEF Init, TypeOK, Stage
<1>2. Marked = {} /\ \A r \in Requests : marker[r] = None
  BY DEF Init, Marked
<1>3. MarkerInv
  BY <1>2, FS_EmptySet DEF MarkerInv
<1>4. CountIsBacked
  BY DEF Init, CountIsBacked
<1> QED
  BY <1>1, <1>3, <1>4 DEF ProxyInv

\* Steps that change no marker, and leave the count or set it to zero.
LEMMA UnmarkedStep ==
  ASSUME ProxyInv, marker' = marker, TypeOK',
         UNCHANGED <<active, triggerCount>> \/ triggerCount' = 0,
         \A r \in Requests : exchange[r] = "returned" => exchange'[r] = "returned"
  PROVE  ProxyInv'
<1>1. Marked' = Marked
  BY DEF Marked
<1>2. MarkerInv'
  BY <1>1 DEF ProxyInv, MarkerInv
<1>3. CASE UNCHANGED <<active, triggerCount>>
  BY <1>2, <1>3 DEF ProxyInv, CountIsBacked, MarkedWith
<1>4. CASE triggerCount' = 0
  <2>1. active' # None =>
          MarkedWith(active)' = {r \in Requests : marker[r] = active'} /\ active' \in Catalog
    BY DEF TypeOK, MarkedWith
  <2>2. active' # None => Cardinality(MarkedWith(active)') \in Nat
    BY <2>1, MarkedWithFinite DEF MarkedWith
  <2>3. CountIsBacked'
    BY <1>4, <2>2 DEF CountIsBacked
  <2> QED
    BY <1>2, <2>3 DEF ProxyInv
<1> QED
  BY <1>3, <1>4

LEMMA ApplyKeeps ==
  ASSUME ProxyInv, NEW r \in Requests, Apply(r)
  PROVE  ProxyInv'
<1>1. TypeOK'
  BY ApplyEffect DEF ProxyInv, TypeOK, Stage
<1>2. CASE UNCHANGED <<triggerCount, marker>>
  BY <1>1, <1>2, ApplyEffect, UnmarkedStep DEF ProxyInv, TypeOK
<1>3. CASE /\ active \in Catalog
           /\ triggerCount' = triggerCount + 1
           /\ marker' = [marker EXCEPT ![r] = active]
  <2>1. /\ Marked' = Marked \cup {r}
        /\ Cardinality(MarkedWith(active)') = Cardinality(MarkedWith(active)) + 1
    BY <1>3, ApplyEffect, MarkAdded
  <2>2. MarkerInv'
    <3>1. IsFiniteSet(Marked')
      BY <2>1, FS_AddElement DEF ProxyInv, MarkerInv
    <3> QED
      BY <3>1, <1>3, ApplyEffect DEF ProxyInv, MarkerInv, TypeOK
  <2>3. active # None
    BY <1>3, CatalogAssumption, NoneAssumption
  <2>4. Cardinality(MarkedWith(active)) \in Nat /\ triggerCount \in Nat
    BY <1>3, MarkedWithFinite DEF ProxyInv, TypeOK
  <2>5. CountIsBacked'
    BY <1>3, <2>1, <2>3, <2>4, ApplyEffect DEF ProxyInv, CountIsBacked
  <2> QED
    BY <1>1, <2>2, <2>5 DEF ProxyInv
<1> QED
  BY <1>2, <1>3, ApplyEffect

LEMMA ProxyNext == ProxyInv /\ [Next]_vars => ProxyInv'
<1> SUFFICES ASSUME ProxyInv, [Next]_vars PROVE ProxyInv'
  OBVIOUS
<1>1. ASSUME NEW f \in FaultIds, Activate(f) PROVE ProxyInv'
  BY <1>1, UnmarkedStep DEF Activate, ProxyInv, TypeOK
<1>2. CASE Reset
  BY <1>2, UnmarkedStep DEF Reset, ProxyInv, TypeOK
<1>3. ASSUME NEW r \in Requests, Receive(r) \/ UpstreamAnswers(r) \/ UpstreamFails(r)
      PROVE  ProxyInv'
  <2>1. /\ exchange[r] # "returned"
        /\ \E to \in Stage : exchange' = [exchange EXCEPT ![r] = to]
        /\ UNCHANGED <<active, triggerCount, marker>>
    BY <1>3 DEF Receive, UpstreamAnswers, UpstreamFails, Stage, InProgress
  <2>2. TypeOK'
    BY <2>1 DEF ProxyInv, TypeOK
  <2> QED
    BY <2>1, <2>2, UnmarkedStep DEF ProxyInv, TypeOK
<1>4. ASSUME NEW r \in Requests, Apply(r) PROVE ProxyInv'
  BY <1>4, ApplyKeeps
<1>5. CASE Restart
  <2>1. TypeOK'
    BY <1>5 DEF Restart, ProxyInv, TypeOK, Stage
  <2> QED
    BY <1>5, <2>1, UnmarkedStep DEF Restart, InProgress
<1>6. CASE UNCHANGED vars
  <2>1. TypeOK'
    BY <1>6 DEF vars, ProxyInv, TypeOK
  <2> QED
    BY <1>6, <2>1, UnmarkedStep DEF vars
<1> QED
  BY <1>1, <1>2, <1>3, <1>4, <1>5, <1>6 DEF Next, Handle

LEMMA ProxyInductive == Spec => []ProxyInv
  BY ProxyInit, ProxyNext, PTL DEF Spec

----------------------------------------------------------------------------
(***************************************************************************)
(* For any number of requests: the controller only ever holds a fault that *)
(* was loaded, and every header names one.                                 *)
(***************************************************************************)
THEOREM ProxyTypeCorrect == Spec => []TypeOK
<1>1. ProxyInv => TypeOK
  BY DEF ProxyInv
<1> QED
  BY <1>1, ProxyInductive, PTL

(***************************************************************************)
(* For any number of requests: the count the state document reports never  *)
(* exceeds the responses that carry the active fault's header.             *)
(***************************************************************************)
THEOREM CountSafe == Spec => []CountIsBacked
<1>1. ProxyInv => CountIsBacked
  BY DEF ProxyInv
<1> QED
  BY <1>1, ProxyInductive, PTL

(***************************************************************************)
(* For any number of requests: while a fault stays in force, header and    *)
(* count move together.                                                    *)
(***************************************************************************)
THEOREM CountMoves == Spec => MarkAndCountTogether
<1> DEFINE changed == {r \in Requests : marker'[r] # marker[r]}
           Together == active' = active /\ active # None /\ triggerCount' >= triggerCount =>
                         /\ MarkedWith(active)' = MarkedWith(active) \cup changed
                         /\ triggerCount' - triggerCount = Cardinality(changed)
<1>1. ProxyInv /\ [Next]_vars => [Together]_vars
  <2> SUFFICES ASSUME ProxyInv, Next,
                      active' = active, active # None, triggerCount' >= triggerCount
               PROVE  /\ MarkedWith(active)' = MarkedWith(active) \cup changed
                      /\ triggerCount' - triggerCount = Cardinality(changed)
    OBVIOUS
  <2>1. triggerCount \in Nat
    BY DEF ProxyInv, TypeOK
  <2>2. ASSUME marker' = marker, triggerCount' = triggerCount \/ triggerCount' = 0
        PROVE  /\ MarkedWith(active)' = MarkedWith(active) \cup changed
               /\ triggerCount' - triggerCount = Cardinality(changed)
    <3>1. changed = {}
      BY <2>2
    <3>2. MarkedWith(active)' = MarkedWith(active)
      BY <2>2 DEF MarkedWith
    <3>3. triggerCount' - triggerCount = 0
      BY <2>1, <2>2
    <3> QED
      BY <3>1, <3>2, <3>3, FS_EmptySet
  <2>3. ASSUME NEW r \in Requests, Apply(r)
        PROVE  /\ MarkedWith(active)' = MarkedWith(active) \cup changed
               /\ triggerCount' - triggerCount = Cardinality(changed)
    <3>1. CASE UNCHANGED <<triggerCount, marker>>
      BY <2>2, <3>1
    <3>2. CASE /\ active \in Catalog
               /\ triggerCount' = triggerCount + 1
               /\ marker' = [marker EXCEPT ![r] = active]
      <4>1. MarkedWith(active)' = MarkedWith(active) \cup {r} /\ changed = {r}
        BY <2>3, <3>2, ApplyEffect, MarkAdded
      <4>2. Cardinality({r}) = 1
        BY FS_Singleton
      <4>3. triggerCount' - triggerCount = 1
        BY <2>1, <3>2
      <4> QED
        BY <4>1, <4>2, <4>3
    <3> QED
      BY <2>3, <3>1, <3>2, ApplyEffect
  <2>4. CASE \E r \in Requests : Apply(r)
    BY <2>3, <2>4
  <2>5. CASE /\ ~\E r \in Requests : Apply(r)
    <3>1. marker' = marker /\ (triggerCount' = triggerCount \/ triggerCount' = 0)
      BY <2>5 DEF Next, Handle, Activate, Reset, Receive, UpstreamAnswers, UpstreamFails, Restart
    <3> QED
      BY <2>2, <3>1
  <2> QED
    BY <2>4, <2>5
<1> QED
  BY <1>1, ProxyInductive, PTL DEF Spec, MarkAndCountTogether
=============================================================================
