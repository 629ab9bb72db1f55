--------------------------- MODULE ItemStoreProofs ---------------------------
(***************************************************************************)
(* Identifiers of the demo service retire with their items, for any        *)
(* requests and any number of items.                                       *)
(***************************************************************************)
EXTENDS ItemStore, TLAPS

(***************************************************************************)
(* The stored identifiers are those given out since the last reset: what   *)
(* keeps a new item from taking the place of a stored one.                 *)
(***************************************************************************)
IdsInv ==
  /\ nextId \in Nat \ {0}
  /\ DOMAIN items \subseteq 1..(nextId - 1)

\* Every operation keeps the items, stores one anew, replaces one or drops one.
LEMMA HandleCases ==
  ASSUME NEW request, Handle(request)
  PROVE  \/ UNCHANGED <<items, nextId>>
         \/ (\E item : items' = WithItem(nextId, item)) /\ nextId' = nextId + 1
         \/ (\E id, item : items' = [items EXCEPT ![id] = item]) /\ nextId' = nextId
         \/ (\E id : items' = [i \in DOMAIN items \ {id} |-> items[i]]) /\ nextId' = nextId
<1>1. CASE ListItems(request)
  BY <1>1 DEF ListItems, Refuse
<1>2. CASE CreateItem(request)
  BY <1>2 DEF CreateItem, Refuse
<1>3. CASE GetItem(request)
  BY <1>3 DEF GetItem, Refuse
<1>4. CASE ReplaceItem(request)
  BY <1>4, Zenon DEF ReplaceItem, Refuse, Put
<1>5. CASE UpdateItem(request)
  BY <1>5, Zenon DEF UpdateItem, Refuse, Put
<1>6. CASE DeleteItem(request)
  BY <1>6, Zenon DEF DeleteItem, Refuse
<1> QED
  BY <1>1, <1>2, <1>3, <1>4, <1>5, <1>6 DEF Handle

\* What one request does to the identifiers.
LEMMA HandleStep ==
  ASSUME IdsInv, NEW request, Handle(request)
  PROVE  IdsInv' /\ IdentifiersRetire
<1> USE DEF IdsInv, IdentifiersRetire
<1>1. CASE UNCHANGED <<items, nextId>>
  BY <1>1
<1>2. CASE (\E item : items' = WithItem(nextId, item)) /\ nextId' = nextId + 1
  <2>1. DOMAIN items' = {nextId} \cup DOMAIN items
    BY <1>2 DEF WithItem
  <2> QED
    BY <1>2, <2>1
<1>3. CASE (\E id, item : items' = [items EXCEPT ![id] = item]) /\ nextId' = nextId
  <2>1. DOMAIN items' = DOMAIN items
    BY <1>3
  <2> QED
    BY <1>3, <2>1
<1>4. CASE (\E id : items' = [i \in DOMAIN items \ {id} |-> items[i]]) /\ nextId' = nextId
  <2>1. DOMAIN items' \subseteq DOMAIN items
    BY <1>4
  <2> QED
    BY <1>4, <2>1
<1> QED
  BY <1>1, <1>2, <1>3, <1>4, HandleCases

(***************************************************************************)
(* Stored identifiers were given out since the last reset                  *)
(* (_ItemStore.create hands out _next_id and counts it up).                *)
(***************************************************************************)
THEOREM StoreIds == Spec => []IdsInv
<1>1. Init => IdsInv
  BY DEF Init, IdsInv
<1>2. IdsInv /\ [Next]_storeVars => IdsInv'
  <2> SUFFICES ASSUME IdsInv, [Next]_storeVars PROVE IdsInv'
    OBVIOUS
  <2>1. CASE Reset
    BY <2>1 DEF Reset, IdsInv
  <2>2. CASE \E request \in Requests : Handle(request)
    BY <2>2, HandleStep
  <2>3. CASE UNCHANGED storeVars
    BY <2>3 DEF storeVars, IdsInv
  <2> QED
    BY <2>1, <2>2, <2>3 DEF Next
<1> QED
  BY <1>1, <1>2, PTL DEF Spec

(***************************************************************************)
(* Between resets no identifier is given to a second item                  *)
(* (services/demo_items/app.py, _ItemStore.create and delete).             *)
(***************************************************************************)
THEOREM IdentifiersNotReused == Spec => NoIdentifierReused
<1>1. IdsInv /\ [Next]_storeVars => [Reset \/ IdentifiersRetire]_storeVars
  BY HandleStep DEF Next
<1> QED
  BY <1>1, StoreIds, PTL DEF Spec, NoIdentifierReused
=============================================================================
