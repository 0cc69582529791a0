------------------------------- MODULE Cache -------------------------------
(***************************************************************************)
(* The bounded TTL cache of cache/skanidlistcache/cache/cache.go.          *)
(*                                                                         *)
(* Every exported operation runs its critical section under c.mu (the     *)
(* read lock for Get and Size, the write lock for Set and Delete), so at   *)
(* the level of the store each operation is one atomic step.  This module  *)
(* models those critical sections together with what each operation      *)
(* returns and what it passes to its hooks, recorded in `out`.  The lock, *)
(* the threads and the hook calls themselves are modelled on top of this   *)
(* module in CacheLocking.                                                 *)
(*                                                                         *)
(* time.Now().UnixNano() is the variable `now`; it is read as an int64,   *)
(* and the expiration now + ttl of newItem is an int64 that wraps.  The    *)
(* largest such integer is the constant MaxInt64 (2^63 - 1 in the         *)
(* program, small in the model with the clock and the TTL scaled to it).  *)
(***************************************************************************)
EXTENDS Integers, FiniteSets

CONSTANTS
    Keys,             \* the string keys callers use
    Vals,             \* the opaque values callers store
    TTLArg,           \* the ttl argument of New
    CapacityArg,      \* the capacity argument of New
    DefaultTTL,       \* DefaultTTL, in clock ticks
    DefaultCapacity,  \* DefaultCapacity
    MaxInt64,         \* the largest int64 (math.MaxInt64)
    MaxTime,          \* bound on the clock
    NoItem,           \* marks a key absent from c.items
    None              \* an absent argument or result

ASSUME KeysAssumption == IsFiniteSet(Keys) /\ Keys # {}
ASSUME ArgAssumption == TTLArg \in Int /\ CapacityArg \in Int
ASSUME DefaultAssumption == DefaultTTL \in Nat \ {0} /\ DefaultCapacity \in Nat \ {0}
ASSUME MaxIntAssumption == MaxInt64 \in Nat \ {0}
ASSUME TimeAssumption == MaxTime \in Nat /\ MaxTime <= MaxInt64
ASSUME NoItemAssumption == NoItem \notin [value : Vals, expiration : Int]
ASSUME NoneAssumption == None \notin Keys \cup Vals

(***************************************************************************)
(* New(ttl, capacity): non-positive arguments fall back to the defaults.  *)
(***************************************************************************)
ttl == IF TTLArg <= 0 THEN DefaultTTL ELSE TTLArg
capacity == IF CapacityArg <= 0 THEN DefaultCapacity ELSE CapacityArg

(* The value x as an int64 (two's complement wrap). *)
Wrap(x) == ((x + MaxInt64 + 1) % (2 * (MaxInt64 + 1))) - (MaxInt64 + 1)

Int64 == -(MaxInt64 + 1) .. MaxInt64

Item == [value : Vals, expiration : Int64]

Ops == {"None", "Get", "Set", "Delete", "Size"}

(***************************************************************************)
(* What the last operation returned and handed to its hooks: the found    *)
(* flag and value of Get, whether Set stored (onSet fires), the size      *)
(* passed to onSet and onCleanup, whether a sweep ran (onCleanup fires)   *)
(* and the keys it removed, and the count returned by Size.               *)
(***************************************************************************)
Out == [op : Ops, key : Keys \cup {None}, value : Vals \cup {None},
        ok : BOOLEAN, count : Nat, setSize : Nat,
        cleanup : BOOLEAN, removed : SUBSET Keys]

VARIABLES
    items,   \* c.items: key -> item, NoItem where the key is absent
    now,     \* time.Now().UnixNano()
    out      \* result and hook arguments of the last operation

vars == <<items, now, out>>

NoOut == [op |-> "None", key |-> None, value |-> None, ok |-> FALSE,
          count |-> 0, setSize |-> 0, cleanup |-> FALSE, removed |-> {}]

(* newItem(v, ttl): the expiration is time.Now().Add(ttl).UnixNano(). *)
newItem(v) == [value |-> v, expiration |-> Wrap(now + ttl)]

(* item.expired(): strictly past its expiration. *)
expired(i) == now > i.expiration

(* The keys of c.items, so that len(c.items) = Cardinality(Present(items)). *)
Present(m) == {k \in Keys : m[k] # NoItem}

(* The keys whose entry is present and not expired. *)
Live(m) == {k \in Keys : m[k] # NoItem /\ ~expired(m[k])}

TypeOK ==
    /\ items \in [Keys -> Item \cup {NoItem}]
    /\ now \in 0 .. MaxTime
    /\ out \in Out

Init ==
    /\ items = [k \in Keys |-> NoItem]
    /\ now = 0
    /\ out = NoOut

(***************************************************************************)
(* Mutations of Get used to show that the properties below see its bugs:  *)
(* returning the whole item where item.value is meant (it compiles, the   *)
(* result is an interface{}), and dropping the item.expired() test.       *)
(***************************************************************************)
GetReturningItem(k) ==
    /\ out' = IF items[k] = NoItem \/ expired(items[k])
                THEN [NoOut EXCEPT !.op = "Get", !.key = k]
                ELSE [NoOut EXCEPT !.op = "Get", !.key = k,
                                   !.value = items[k], !.ok = TRUE]
    /\ UNCHANGED <<items, now>>

GetIgnoringExpiry(k) ==
    /\ out' = IF items[k] = NoItem
                THEN [NoOut EXCEPT !.op = "Get", !.key = k]
                ELSE [NoOut EXCEPT !.op = "Get", !.key = k,
                                   !.value = items[k].value, !.ok = TRUE]
    /\ UNCHANGED <<items, now>>

(***************************************************************************)
(* Get(k): a hit only if the key is present and not expired; Get never    *)
(* removes the expired entry it finds.                                    *)
(***************************************************************************)
Get(k) ==
    /\ out' = IF items[k] = NoItem \/ expired(items[k])
                THEN [NoOut EXCEPT !.op = "Get", !.key = k]
                ELSE [NoOut EXCEPT !.op = "Get", !.key = k,
                                   !.value = items[k].value, !.ok = TRUE]
    /\ UNCHANGED <<items, now>>

(***************************************************************************)
(* Set(k, v): when len(c.items) == c.capacity, sweep every expired entry; *)
(* then store only if the size is below the capacity.                     *)
(***************************************************************************)
Full == Cardinality(Present(items)) = capacity

Swept == IF Full
           THEN [j \in Keys |-> IF j \in Present(items) /\ expired(items[j])
                                  THEN NoItem ELSE items[j]]
           ELSE items

(* Mutation of Set: compare the count of live entries with c.capacity  *)
(* instead of sweeping the expired ones out of c.items first.            *)
SetCountingLiveOnly(k, v) ==
    LET stored == Cardinality(Live(items)) < capacity
        final  == IF stored THEN [items EXCEPT ![k] = newItem(v)] ELSE items
    IN  /\ items' = final
        /\ out' = [NoOut EXCEPT !.op = "Set", !.key = k, !.value = v,
                                !.ok = stored,
                                !.setSize = Cardinality(Present(final))]
        /\ UNCHANGED now

Set(k, v) ==
    LET stored == Cardinality(Present(Swept)) < capacity
        final  == IF stored THEN [Swept EXCEPT ![k] = newItem(v)] ELSE Swept
    IN  /\ items' = final
        /\ out' = [NoOut EXCEPT !.op = "Set", !.key = k, !.value = v,
                                !.ok = stored,
                                !.setSize = Cardinality(Present(final)),
                                !.cleanup = Full,
                                !.removed = Present(items) \ Present(Swept)]
        /\ UNCHANGED now

(* Delete(k): remove the key if present. *)
Delete(k) ==
    /\ items' = [items EXCEPT ![k] = NoItem]
    /\ out' = [NoOut EXCEPT !.op = "Delete", !.key = k]
    /\ UNCHANGED now

(* Size(): the number of entries that are not expired. *)
Size ==
    /\ out' = [NoOut EXCEPT !.op = "Size", !.count = Cardinality(Live(items))]
    /\ UNCHANGED <<items, now>>

(* The wall clock advances; nothing in the cache reacts to it. *)
Tick ==
    /\ now < MaxTime
    /\ now' = now + 1
    /\ UNCHANGED <<items, out>>

Next ==
    \/ \E k \in Keys : Get(k)
    \/ \E k \in Keys, v \in Vals : Set(k, v)
    \/ \E k \in Keys : Delete(k)
    \/ Size
    \/ Tick

Spec == Init /\ [][Next]_vars

-----------------------------------------------------------------------------
(***************************************************************************)
(* CapacityBound: c.items never holds more than c.capacity entries,       *)
(* expired ones included.  Set tests len(c.items) == c.capacity rather    *)
(* than >=, so a single step past the capacity would never be swept again *)
(* and the cache would grow without bound.                                *)
(***************************************************************************)
CapacityBound == Cardinality(Present(items)) <= capacity

(***************************************************************************)
(* The contract of the cache stated with eager expiration: an entry is    *)
(* gone the instant it expires, a Set is refused only when every one of   *)
(* the capacity slots holds a live entry, and a stored entry stays        *)
(* visible for ttl ticks.  The lazily expiring cache of cache.go must be  *)
(* indistinguishable from it through Get, Set, Delete and Size.           *)
(***************************************************************************)
LiveView == [k \in Keys |-> IF k \in Live(items) THEN items[k] ELSE NoItem]

Abs == INSTANCE EagerCache WITH
           store <- LiveView,
           result <- [op |-> out.op, key |-> out.key, value |-> out.value,
                      ok |-> out.ok, count |-> out.count],
           TTL <- ttl, Capacity <- capacity

EagerSpec == Abs!Spec

=============================================================================
