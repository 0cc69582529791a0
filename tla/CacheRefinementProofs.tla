------------------------- MODULE CacheRefinementProofs -------------------------
(***************************************************************************)
(* The lazily expiring cache of cache.go implements the eager contract of *)
(* EagerCache under the refinement mapping of Cache.tla: the store is     *)
(* seen through its live entries (LiveView) and the result through the    *)
(* fields a caller reads.  It holds whenever newItem's now + ttl cannot   *)
(* overflow int64 over the clock's range (NoWrap); the run cache_ttl_wrap *)
(* shows that the refinement fails without it.                            *)
(***************************************************************************)
EXTENDS CacheProofs, TLAPS

(* now + ttl stays an int64 for every clock value. *)
NoWrap == MaxTime + ttl <= MaxInt64

(* What a caller reads of an operation's result. *)
ResultView(o) == [op |-> o.op, key |-> o.key, value |-> o.value,
                  ok |-> o.ok, count |-> o.count]

(* Wrap is the identity on the int64 range. *)
LEMMA WrapIdentity ==
    ASSUME NEW x \in Int64
    PROVE  Wrap(x) = x
BY MaxIntAssumption DEF Wrap, Int64

(* Under NoWrap newItem stores the expiration now + ttl, not yet expired. *)
LEMMA NewItemExact ==
    ASSUME NoWrap, NEW v \in Vals, now \in 0 .. MaxTime
    PROVE  /\ newItem(v) = [value |-> v, expiration |-> now + ttl]
           /\ ~expired(newItem(v))
<1>1. now + ttl \in Int64
  BY NewPositive, MaxIntAssumption, TimeAssumption DEF NoWrap, Int64
<1>2. Wrap(now + ttl) = now + ttl
  BY <1>1, WrapIdentity
<1>3. newItem(v) = [value |-> v, expiration |-> now + ttl]
  BY <1>2 DEF newItem
<1>. QED
  BY <1>3, NewPositive DEF expired

(* The abstract store's live keys are the live keys of c.items. *)
LEMMA LiveKeysView ==
    ASSUME TypeOK
    PROVE  /\ LiveView \in [Keys -> Item \cup {NoItem}]
           /\ Abs!LiveKeys = Live(items)
           /\ \A k \in Keys : LiveView[k] = IF k \in Live(items) THEN items[k]
                                                                 ELSE NoItem
BY DEF LiveView, Abs!LiveKeys, Live, TypeOK

(* The live keys form a finite subset of the present ones. *)
LEMMA LiveFinite ==
    ASSUME NEW m
    PROVE  /\ Live(m) \subseteq Present(m)
           /\ IsFiniteSet(Live(m))
           /\ Cardinality(Live(m)) <= Cardinality(Present(m))
<1>1. Live(m) \subseteq Present(m)
  BY DEF Live, Present
<1>. QED
  BY <1>1, PresentFinite, FS_Subset

(* A step that keeps c.items and the clock keeps the live view. *)
LEMMA ViewKept ==
    ASSUME items' = items, now' = now
    PROVE  LiveView' = LiveView
BY DEF LiveView, Live, expired

-----------------------------------------------------------------------------
(***************************************************************************)
(* One lemma per operation of cache.go: its step, seen through the        *)
(* refinement mapping, is the same operation of EagerCache.               *)
(***************************************************************************)

(* Get hits exactly on the live entries: an expired entry left in          *)
(* c.items is a miss, as if it had been removed when it expired.          *)
LEMMA GetRefines ==
    ASSUME TypeOK, NEW k \in Keys, Get(k)
    PROVE  Abs!Get(k)
<1>1. LiveView' = LiveView
  BY ViewKept DEF Get
<1>2. LiveView[k] = IF k \in Live(items) THEN items[k] ELSE NoItem
  BY LiveKeysView
<1>3. k \in Live(items) <=> ~(items[k] = NoItem \/ expired(items[k]))
  BY DEF Live
<1>4. ResultView(out') =
        IF LiveView[k] = NoItem
          THEN Abs!Reply("Get", k, None, FALSE, 0)
          ELSE Abs!Reply("Get", k, LiveView[k].value, TRUE, 0)
  BY <1>2, <1>3 DEF Get, ResultView, NoOut, Abs!Reply
<1>. QED
  BY <1>1, <1>4 DEF Abs!Get, Get, ResultView

(* Delete removes the key from the live view too. *)
LEMMA DeleteRefines ==
    ASSUME TypeOK, NEW k \in Keys, Delete(k)
    PROVE  Abs!Delete(k)
<1>1. LiveView' = [LiveView EXCEPT ![k] = NoItem]
  BY DEF Delete, LiveView, Live, expired, TypeOK
<1>2. ResultView(out') = Abs!Reply("Delete", k, None, FALSE, 0)
  <2>1. out' = [NoOut EXCEPT !.op = "Delete", !.key = k]
    BY DEF Delete
  <2>2. ResultView(out') = [op |-> "Delete", key |-> k, value |-> None,
                            ok |-> FALSE, count |-> 0]
    BY <2>1 DEF ResultView, NoOut
  <2>. QED
    BY <2>2 DEF Abs!Reply
<1>. QED
  BY <1>1, <1>2 DEF Abs!Delete, Delete, ResultView

(* Size counts the entries that are not expired: the live ones. *)
LEMMA SizeRefines ==
    ASSUME TypeOK, Size
    PROVE  Abs!Size
<1>1. LiveView' = LiveView
  BY ViewKept DEF Size
<1>2. ResultView(out') =
        Abs!Reply("Size", None, None, FALSE, Abs!Cardinality(Abs!LiveKeys))
  <2>1. out' = [NoOut EXCEPT !.op = "Size", !.count = Cardinality(Live(items))]
    BY DEF Size
  <2>2. ResultView(out') = [op |-> "Size", key |-> None, value |-> None,
                            ok |-> FALSE, count |-> Cardinality(Live(items))]
    BY <2>1 DEF ResultView, NoOut
  <2>3. Abs!Cardinality(Abs!LiveKeys) = Cardinality(Live(items))
    BY LiveKeysView DEF Abs!Cardinality, Cardinality
  <2>. QED
    BY <2>2, <2>3 DEF Abs!Reply
<1>. QED
  BY <1>1, <1>2 DEF Abs!Size, Size, ResultView

(* Set decides as the eager store does.  When c.items is full the sweep  *)
(* leaves exactly the live entries, and otherwise c.items, and so its    *)
(* live part, is below the capacity: either way Set stores exactly when  *)
(* fewer than capacity entries are live.  What it stores is live for ttl *)
(* ticks since now + ttl does not wrap, and the sweep hides nothing live. *)
LEMMA SetRefines ==
    ASSUME NoWrap, IInv, NEW k \in Keys, NEW v \in Vals, Set(k, v)
    PROVE  Abs!Set(k, v)
<1> DEFINE stored == Cardinality(Present(Swept)) < capacity
           final  == IF stored THEN [Swept EXCEPT ![k] = newItem(v)] ELSE Swept
           fresh  == [value |-> v, expiration |-> now + ttl]
<1>0. TypeOK /\ CapacityBound
  BY DEF IInv
<1>1. items' = final /\ now' = now
      /\ ResultView(out') = [op |-> "Set", key |-> k, value |-> v, ok |-> stored,
                             count |-> 0]
  BY DEF Set, ResultView, NoOut
<1>2. stored = (Cardinality(Live(items)) < capacity)
  <2>1. CASE Full
    <3>1. Present(Swept) = Live(items)
      BY <2>1 DEF Swept, Present, Live
    <3>. QED
      BY <3>1
  <2>2. CASE ~Full
    <3>1. Swept = items
      BY <2>2 DEF Swept
    <3>2. Cardinality(Present(items)) \in Nat
      BY PresentFinite, FS_CardinalityType
    <3>3. Cardinality(Present(items)) < capacity
      BY <1>0, <2>2, <3>2, NewPositive DEF Full, CapacityBound
    <3>4. Cardinality(Live(items)) < capacity
      BY <3>2, <3>3, LiveFinite, FS_CardinalityType, NewPositive
    <3>. QED
      BY <3>1, <3>3, <3>4
  <2>. QED
    BY <2>1, <2>2
<1>3. Abs!Cardinality(Abs!LiveKeys) = Cardinality(Live(items))
  BY <1>0, LiveKeysView DEF Abs!Cardinality, Cardinality
<1>4. /\ Swept \in [Keys -> Item \cup {NoItem}]
      /\ \A j \in Keys : (j \in Live(Swept)) = (j \in Live(items))
      /\ \A j \in Live(items) : Swept[j] = items[j]
  <2>1. Swept \in [Keys -> Item \cup {NoItem}]
    BY <1>0, SweptShrinks
  <2>. QED
    BY <2>1 DEF Swept, Live, Present
<1>5. newItem(v) = fresh /\ ~expired(fresh) /\ fresh # NoItem
  BY <1>0, NewItemExact, NewItemType DEF TypeOK
<1>6. LiveView' = IF stored THEN [LiveView EXCEPT ![k] = fresh] ELSE LiveView
  <2>1. LiveView \in [Keys -> Item \cup {NoItem}]
    BY <1>0, LiveKeysView
  <2> SUFFICES ASSUME NEW j \in Keys
               PROVE  LiveView'[j] = (IF stored THEN [LiveView EXCEPT ![k] = fresh]
                                                ELSE LiveView)[j]
    BY <2>1 DEF LiveView
  <2>2. LiveView'[j] = IF j \in Live(final) THEN final[j] ELSE NoItem
    BY <1>1 DEF LiveView, Live, expired
  <2>3. LiveView[j] = IF j \in Live(items) THEN items[j] ELSE NoItem
    BY <1>0, LiveKeysView
  <2>4. CASE stored /\ j = k
    <3>1. final[j] = fresh
      BY <1>4, <1>5, <2>4
    <3>2. j \in Live(final)
      BY <3>1, <1>5 DEF Live
    <3>. QED
      BY <2>1, <2>2, <3>1, <3>2, <2>4
  <2>5. CASE ~(stored /\ j = k)
    <3>1. final[j] = Swept[j]
      BY <1>4, <2>5
    <3>2. (j \in Live(final)) = (j \in Live(Swept))
      BY <3>1 DEF Live
    <3>3. LiveView'[j] = LiveView[j]
      BY <1>4, <2>2, <2>3, <3>1, <3>2
    <3>. QED
      BY <2>1, <2>5, <3>3
  <2>. QED
    BY <2>4, <2>5
<1>7. (Abs!Cardinality(Abs!LiveKeys) < capacity) = stored
  BY <1>2, <1>3
<1>. QED
  BY <1>1, <1>6, <1>7 DEF Abs!Set, Abs!Reply, ResultView

(* A tick expires, in the live view, exactly the entries the eager store *)
(* drops, though c.items keeps them until a sweep.                        *)
LEMMA TickRefines ==
    ASSUME TypeOK, Tick
    PROVE  Abs!Tick
<1>1. now' = now + 1 /\ now < MaxTime /\ items' = items /\ out' = out
  BY DEF Tick
<1>2. LiveView' = [j \in Keys |-> IF LiveView[j] # NoItem /\ now' > LiveView[j].expiration
                                   THEN NoItem ELSE LiveView[j]]
  <2> SUFFICES ASSUME NEW j \in Keys
               PROVE  LiveView'[j] = IF LiveView[j] # NoItem /\ now' > LiveView[j].expiration
                                       THEN NoItem ELSE LiveView[j]
    BY DEF LiveView
  <2>1. CASE items[j] = NoItem
    BY <1>1, <2>1 DEF LiveView, Live
  <2>2. CASE items[j] # NoItem
    <3>1. items[j].expiration \in Int /\ now \in Int
      BY <2>2, MaxIntAssumption DEF TypeOK, Item, Int64
    <3>. QED
      BY <1>1, <2>2, <3>1 DEF LiveView, Live, expired
  <2>. QED
    BY <2>1, <2>2
<1>. QED
  BY <1>1, <1>2 DEF Abs!Tick, ResultView


(* New starts with an empty map, seen as an empty eager store. *)
LEMMA InitRefines == Init => Abs!Init
<1> SUFFICES ASSUME Init PROVE Abs!Init
  OBVIOUS
<1>1. LiveView = [k \in Keys |-> NoItem]
  BY DEF Init, LiveView, Live
<1>2. ResultView(out) = Abs!NoResult
  BY DEF Init, NoOut, ResultView, Abs!NoResult, Abs!Reply
<1>. QED
  BY <1>1, <1>2 DEF Init, Abs!Init, ResultView

(* Every step of the cache is a step of the contract or leaves what a    *)
(* caller can observe unchanged.                                          *)
LEMMA StepRefines ==
    ASSUME NoWrap
    PROVE  IInv /\ [Next]_vars => [Abs!Next]_Abs!vars
<1> SUFFICES ASSUME IInv, [Next]_vars PROVE [Abs!Next]_Abs!vars
  OBVIOUS
<1>0. TypeOK
  BY DEF IInv
<1>1. ASSUME NEW k \in Keys, Get(k) PROVE Abs!Next
  BY <1>0, <1>1, GetRefines DEF Abs!Next
<1>2. ASSUME NEW k \in Keys, NEW v \in Vals, Set(k, v) PROVE Abs!Next
  BY <1>2, SetRefines DEF Abs!Next
<1>3. ASSUME NEW k \in Keys, Delete(k) PROVE Abs!Next
  BY <1>0, <1>3, DeleteRefines DEF Abs!Next
<1>4. ASSUME Size PROVE Abs!Next
  BY <1>0, <1>4, SizeRefines DEF Abs!Next
<1>5. ASSUME Tick PROVE Abs!Next
  BY <1>0, <1>5, TickRefines DEF Abs!Next
<1>6. ASSUME UNCHANGED vars PROVE UNCHANGED Abs!vars
  <2>1. LiveView' = LiveView
    BY <1>6, ViewKept DEF vars
  <2>2. out' = out /\ now' = now
    BY <1>6 DEF vars
  <2>. QED
    BY <2>1, <2>2 DEF Abs!vars
<1>. QED
  BY <1>1, <1>2, <1>3, <1>4, <1>5, <1>6 DEF Next

(* CacheRefinesEager: for every ttl, capacity and key set for which now + *)
(* ttl cannot overflow int64, the lazily expiring cache of cache.go is   *)
(* indistinguishable through Get, Set, Delete and Size from one that      *)
(* drops every entry the instant it expires: an expired entry is never    *)
(* returned or counted, and it never takes the place of a live one.       *)
THEOREM CacheRefinesEager ==
    ASSUME NoWrap
    PROVE  Spec => EagerSpec
<1>1. Spec => []IInv
  BY TypeCorrect, CapacityBounded, PTL DEF IInv
<1>2. Init => Abs!Init
  BY InitRefines
<1>3. IInv /\ [Next]_vars => [Abs!Next]_Abs!vars
  BY StepRefines
<1>. QED
  BY <1>1, <1>2, <1>3, PTL DEF Spec, EagerSpec, Abs!Spec

=============================================================================
