----------------------------- MODULE EagerCache -----------------------------
(***************************************************************************)
(* What the TTL cache promises its callers (spec sections 3 and 4), with  *)
(* eager expiration: the store holds only live entries, an entry vanishes *)
(* at the first tick past now + TTL, and the capacity counts live entries *)
(* only.  Expiration times are mathematical integers.  Cache.tla refines  *)
(* this module: its lazily expired store, seen through its live entries,  *)
(* behaves as this one.                                                    *)
(***************************************************************************)
EXTENDS Integers, FiniteSets

CONSTANTS Keys, Vals, TTL, Capacity, MaxTime, NoItem, None

VARIABLES
    store,   \* key -> [value, expiration] of a live entry, or NoItem
    now,     \* the clock
    result   \* what the last operation returned

vars == <<store, now, result>>

(* The result of operation o on key k: the value found or stored, the   *)
(* found or stored flag, and the count of Size.                          *)
Reply(o, k, v, found, n) == [op |-> o, key |-> k, value |-> v, ok |-> found,
                             count |-> n]

NoResult == Reply("None", None, None, FALSE, 0)

LiveKeys == {k \in Keys : store[k] # NoItem}

Init ==
    /\ store = [k \in Keys |-> NoItem]
    /\ now = 0
    /\ result = NoResult

(* A lookup finds exactly the live entries. *)
Get(k) ==
    /\ result' = IF store[k] = NoItem
                   THEN Reply("Get", k, None, FALSE, 0)
                   ELSE Reply("Get", k, store[k].value, TRUE, 0)
    /\ UNCHANGED <<store, now>>

(* A write is refused only when every slot holds a live entry; no live   *)
(* entry is ever evicted to make room.                                    *)
Set(k, v) ==
    LET stored == Cardinality(LiveKeys) < Capacity
    IN  /\ store' = IF stored
                      THEN [store EXCEPT ![k] = [value |-> v,
                                                 expiration |-> now + TTL]]
                      ELSE store
        /\ result' = Reply("Set", k, v, stored, 0)
        /\ UNCHANGED now

Delete(k) ==
    /\ store' = [store EXCEPT ![k] = NoItem]
    /\ result' = Reply("Delete", k, None, FALSE, 0)
    /\ UNCHANGED now

Size ==
    /\ result' = Reply("Size", None, None, FALSE, Cardinality(LiveKeys))
    /\ UNCHANGED <<store, now>>

(* Time passes and every entry past its expiration disappears at once. *)
Tick ==
    /\ now < MaxTime
    /\ now' = now + 1
    /\ store' = [k \in Keys |-> IF store[k] # NoItem /\ now' > store[k].expiration
                                  THEN NoItem ELSE store[k]]
    /\ UNCHANGED result

Next ==
    \/ \E k \in Keys : Get(k)
    \/ \E k \in Keys, v \in Vals : Set(k, v)
    \/ \E k \in Keys : Delete(k)
    \/ Size
    \/ Tick

Spec == Init /\ [][Next]_vars

=============================================================================
