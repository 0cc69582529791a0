----------------------------- MODULE CacheProofs -----------------------------
(***************************************************************************)
(* Proofs about the cache store of Cache.tla, for every value of the      *)
(* constants that satisfies their assumptions.                            *)
(***************************************************************************)
EXTENDS Cache, FiniteSetTheorems, TLAPS

(* New never yields a non-positive ttl or capacity. *)
LEMMA NewPositive == ttl \in Nat \ {0} /\ capacity \in Nat \ {0}
BY ArgAssumption, DefaultAssumption DEF ttl, capacity

(* The int64 conversion of newItem always lands in the int64 range. *)
LEMMA WrapInRange == \A x \in Int : Wrap(x) \in Int64
BY MaxIntAssumption DEF Wrap, Int64

(* newItem builds an item, and an item is never the absent marker. *)
LEMMA NewItemType ==
    ASSUME NEW v \in Vals, now \in Int
    PROVE  newItem(v) \in Item /\ newItem(v) # NoItem
<1>1. Wrap(now + ttl) \in Int64
  BY NewPositive, WrapInRange
<1>2. newItem(v) \in Item
  BY <1>1 DEF newItem, Item
<1>3. Item \subseteq [value : Vals, expiration : Int]
  BY MaxIntAssumption DEF Item, Int64
<1>. QED
  BY <1>2, <1>3, NoItemAssumption

(* The present keys of a store form a finite set of keys. *)
LEMMA PresentFinite ==
    ASSUME NEW m
    PROVE  /\ Present(m) \subseteq Keys
           /\ IsFiniteSet(Present(m))
           /\ Cardinality(Present(m)) \in Nat
<1>1. Present(m) \subseteq Keys
  BY DEF Present
<1>. QED
  BY <1>1, KeysAssumption, FS_Subset, FS_CardinalityType

(* Storing an item at k adds k to the present keys, and nothing else. *)
LEMMA PresentStore ==
    ASSUME NEW m \in [Keys -> Item \cup {NoItem}], NEW k \in Keys,
           NEW it, it # NoItem
    PROVE  Present([m EXCEPT ![k] = it]) = Present(m) \cup {k}
BY DEF Present

(* Removing k removes k from the present keys. *)
LEMMA PresentRemove ==
    ASSUME NEW m \in [Keys -> Item \cup {NoItem}], NEW k \in Keys
    PROVE  Present([m EXCEPT ![k] = NoItem]) = Present(m) \ {k}
BY DEF Present

(* The sweep of Set only removes entries and keeps the store's type. *)
LEMMA SweptShrinks ==
    ASSUME TypeOK
    PROVE  /\ Swept \in [Keys -> Item \cup {NoItem}]
           /\ Present(Swept) \subseteq Present(items)
BY DEF TypeOK, Swept, Full, Present

-----------------------------------------------------------------------------
(***************************************************************************)
(* Type correctness: every reachable state of the cache has its type.     *)
(***************************************************************************)
LEMMA TypeInit == Init => TypeOK
BY TimeAssumption, NoneAssumption DEF Init, TypeOK, NoOut, Out, Ops

LEMMA TypeStep == TypeOK /\ [Next]_vars => TypeOK'
<1> SUFFICES ASSUME TypeOK, [Next]_vars PROVE TypeOK'
  OBVIOUS
<1>1. ASSUME NEW k \in Keys, Get(k) PROVE TypeOK'
  BY <1>1 DEF Get, TypeOK, Out, NoOut, Ops, Item
<1>2. ASSUME NEW k \in Keys, NEW v \in Vals, Set(k, v) PROVE TypeOK'
  <2> DEFINE stored == Cardinality(Present(Swept)) < capacity
             final  == IF stored THEN [Swept EXCEPT ![k] = newItem(v)]
                                 ELSE Swept
  <2>1. Swept \in [Keys -> Item \cup {NoItem}]
    BY SweptShrinks
  <2>2. newItem(v) \in Item
    BY NewItemType DEF TypeOK
  <2>3. final \in [Keys -> Item \cup {NoItem}]
    BY <2>1, <2>2
  <2>4. items' = final /\ now' = now
    BY <1>2 DEF Set
  <2>5. out' = [NoOut EXCEPT !.op = "Set", !.key = k, !.value = v,
                             !.ok = stored,
                             !.setSize = Cardinality(Present(final)),
                             !.cleanup = Full,
                             !.removed = Present(items) \ Present(Swept)]
    BY <1>2 DEF Set
  <2>6. Cardinality(Present(final)) \in Nat
    BY PresentFinite
  <2>7. Present(items) \ Present(Swept) \in SUBSET Keys
    BY PresentFinite
  <2>8. out' \in Out
    <3>1. stored \in BOOLEAN /\ Full \in BOOLEAN
      BY DEF Full
    <3>2. NoOut \in Out
      BY NoneAssumption DEF NoOut, Out, Ops
    <3>. QED
      BY <2>5, <2>6, <2>7, <3>1, <3>2, Zenon DEF Out, Ops
  <2>. QED
    BY <2>3, <2>4, <2>8 DEF TypeOK
<1>3. ASSUME NEW k \in Keys, Delete(k) PROVE TypeOK'
  BY <1>3 DEF Delete, TypeOK, Out, NoOut, Ops
<1>4. CASE Size
  <2>1. Cardinality(Live(items)) \in Nat
    <3>1. Live(items) \subseteq Keys
      BY DEF Live
    <3>. QED
      BY <3>1, KeysAssumption, FS_Subset, FS_CardinalityType
  <2>. QED
    BY <1>4, <2>1 DEF Size, TypeOK, Out, NoOut, Ops
<1>5. CASE Tick
  BY <1>5, TimeAssumption DEF Tick, TypeOK
<1>6. CASE UNCHANGED vars
  BY <1>6 DEF vars, TypeOK
<1>. QED
  BY <1>1, <1>2, <1>3, <1>4, <1>5, <1>6 DEF Next

THEOREM TypeCorrect == Spec => []TypeOK
BY TypeInit, TypeStep, PTL DEF Spec

-----------------------------------------------------------------------------
(***************************************************************************)
(* The capacity bound: c.items never holds more than c.capacity entries.  *)
(* It is inductive together with the type invariant: Set stores only when *)
(* the size after the sweep is below the capacity, so it adds at most one *)
(* key to fewer than capacity; Delete and the sweep only remove keys.     *)
(***************************************************************************)
IInv == TypeOK /\ CapacityBound

THEOREM CapacityBounded == Spec => []CapacityBound
<1>1. Init => IInv
  <2> SUFFICES ASSUME Init PROVE IInv
    OBVIOUS
  <2>1. TypeOK
    BY TypeInit
  <2>2. Present(items) = {}
    BY DEF Init, Present
  <2>. QED
    BY <2>1, <2>2, FS_EmptySet, NewPositive DEF IInv, CapacityBound
<1>2. IInv /\ [Next]_vars => IInv'
  <2> SUFFICES ASSUME IInv, [Next]_vars PROVE IInv'
    OBVIOUS
  <2>0. TypeOK'
    BY TypeStep DEF IInv
  <2>1. ASSUME NEW k \in Keys, Get(k) PROVE CapacityBound'
    BY <2>1 DEF Get, IInv, CapacityBound, Present
  <2>2. ASSUME NEW k \in Keys, NEW v \in Vals, Set(k, v) PROVE CapacityBound'
    <3> DEFINE S == Present(Swept)
               stored == Cardinality(S) < capacity
               final  == IF stored THEN [Swept EXCEPT ![k] = newItem(v)]
                                   ELSE Swept
    <3>1. items' = final
      BY <2>2 DEF Set
    <3>2. S \subseteq Present(items) /\ Swept \in [Keys -> Item \cup {NoItem}]
      BY SweptShrinks DEF IInv
    <3>3. IsFiniteSet(S) /\ Cardinality(S) \in Nat
      BY PresentFinite
    <3>4. CASE stored
      <4>1. final = [Swept EXCEPT ![k] = newItem(v)]
        BY <3>4 DEF final
      <4>2. newItem(v) # NoItem
        BY NewItemType DEF IInv, TypeOK
      <4>3. Present([Swept EXCEPT ![k] = newItem(v)]) = Present(Swept) \cup {k}
        BY <3>2, <4>2, PresentStore
      <4>4. /\ Cardinality(S \cup {k}) \in Nat
            /\ Cardinality(S \cup {k}) <= Cardinality(S) + 1
        <5>1. /\ IsFiniteSet(S \cup {k})
              /\ Cardinality(S \cup {k}) = IF k \in S THEN Cardinality(S)
                                                     ELSE Cardinality(S) + 1
          BY <3>3, FS_AddElement
        <5>2. Cardinality(S \cup {k}) \in Nat
          BY <5>1, FS_CardinalityType
        <5>. QED
          BY <3>3, <5>1, <5>2
      <4>5. Present(final) = S \cup {k}
        BY <4>1, <4>3 DEF S
      <4>6. Cardinality(S) < capacity
        BY <3>4 DEF stored
      <4>7. Cardinality(Present(final)) = Cardinality(S \cup {k})
        BY <4>5, Zenon
      <4>8. Cardinality(Present(final)) <= capacity
        BY <3>3, <4>4, <4>6, <4>7, NewPositive
      <4>. QED
        BY <3>1, <4>8 DEF CapacityBound
    <3>5. CASE ~stored
      <4>1. final = Swept
        BY <3>5 DEF final
      <4>2. Cardinality(S) <= Cardinality(Present(items))
        BY <3>2, PresentFinite, FS_Subset
      <4>3. Cardinality(Present(items)) <= capacity
        BY DEF IInv, CapacityBound
      <4>. QED
        BY <3>1, <3>3, <4>1, <4>2, <4>3, PresentFinite, NewPositive
           DEF CapacityBound, S
    <3>. QED
      BY <3>4, <3>5 DEF stored
  <2>3. ASSUME NEW k \in Keys, Delete(k) PROVE CapacityBound'
    <3>1. Present(items') = Present(items) \ {k}
      BY <2>3, PresentRemove DEF Delete, IInv, TypeOK
    <3>2. Cardinality(Present(items) \ {k}) <= Cardinality(Present(items))
      BY PresentFinite, FS_RemoveElement
    <3>. QED
      BY <3>1, <3>2, PresentFinite, NewPositive DEF CapacityBound, IInv
  <2>4. CASE Size
    <3>1. items' = items
      BY <2>4 DEF Size
    <3>. QED
      BY <2>0, <3>1 DEF IInv, CapacityBound
  <2>5. CASE Tick
    <3>1. items' = items
      BY <2>5 DEF Tick
    <3>. QED
      BY <2>0, <3>1 DEF IInv, CapacityBound
  <2>6. CASE UNCHANGED vars
    <3>1. items' = items
      BY <2>6 DEF vars
    <3>. QED
      BY <2>0, <3>1 DEF IInv, CapacityBound
  <2>. QED
    BY <2>0, <2>1, <2>2, <2>3, <2>4, <2>5, <2>6 DEF Next, IInv
<1>. QED
  BY <1>1, <1>2, PTL DEF Spec, IInv

=============================================================================
