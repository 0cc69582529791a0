-------------------------- MODULE SkanClientProofs --------------------------
(***************************************************************************)
(* Proofs about the read-through client of SkanClient.tla, for every      *)
(* number of goroutines and lists and every bound on the Fetch calls.     *)
(***************************************************************************)
EXTENDS SkanClient, CacheProofs, TLAPS

(* The values of the entries of c.items. *)
StoredValuesIn(S) == \A k \in Keys : items[k] # NoItem => items[k].value \in S

(* Set(k, v) stores v or keeps an entry of the sweep, which only drops    *)
(* entries: the values of the store stay in any set holding v and the    *)
(* old values.                                                            *)
LEMMA SetKeepsValues ==
    ASSUME TypeOK, NEW k \in Keys, NEW v \in Vals, NEW S, v \in S,
           StoredValuesIn(S), Set(k, v)
    PROVE  StoredValuesIn(S)'
<1> DEFINE stored == Cardinality(Present(Swept)) < capacity
           final  == IF stored THEN [Swept EXCEPT ![k] = newItem(v)] ELSE Swept
<1>1. items' = final
  BY DEF Set
<1>2. \A j \in Keys : Swept[j] = items[j] \/ Swept[j] = NoItem
  BY DEF Swept
<1>3. newItem(v).value = v
  BY DEF newItem
<1>4. Swept \in [Keys -> Item \cup {NoItem}]
  BY SweptShrinks
<1> SUFFICES ASSUME NEW j \in Keys, final[j] # NoItem PROVE final[j].value \in S
  BY <1>1 DEF StoredValuesIn
<1>5. CASE stored /\ j = k
  BY <1>3, <1>4, <1>5
<1>6. CASE ~(stored /\ j = k)
  <2>1. final[j] = Swept[j]
    BY <1>4, <1>6
  <2>. QED
    BY <1>2, <2>1 DEF StoredValuesIn
<1>. QED
  BY <1>5, <1>6

-----------------------------------------------------------------------------
(***************************************************************************)
(* OnlyServedLists is not inductive by itself: StoreInCache puts got[p]  *)
(* into the cache and into res[p], so the list a goroutine carries from  *)
(* fetchFromBidder to its Set must be one the server served.  Together   *)
(* with the type invariant, that is the inductive invariant.             *)
(***************************************************************************)
ClientIInv ==
    /\ ClientTypeOK
    /\ OnlyServedLists
    /\ \A p \in Procs : pc[p] = "set" => got[p] \in served

LEMMA ClientInitInv == ClientInit => ClientIInv
<1> SUFFICES ASSUME ClientInit PROVE ClientIInv
  OBVIOUS
<1>1. TypeOK
  BY TypeInit DEF ClientInit
<1>2. NoResult \in Result
  BY ClientAssumption DEF NoResult, Result
<1>3. ClientTypeOK
  BY <1>1, <1>2, ClientAssumption DEF ClientInit, ClientTypeOK
<1>4. OnlyServedLists
  BY DEF ClientInit, Init, OnlyServedLists
<1>. QED
  BY <1>3, <1>4 DEF ClientInit, ClientIInv

(* A step of the cache's store, under the client's variables. *)
LEMMA StoreTypeStep ==
    ASSUME TypeOK, \/ Get(URL) \/ \E v \in Vals : Set(URL, v)
                   \/ Tick \/ UNCHANGED vars
    PROVE  TypeOK'
BY TypeStep, ClientAssumption DEF Next

(* What a hit of fetchFromCache returns is the value of the cached entry. *)
LEMMA GetHit ==
    ASSUME TypeOK, Get(URL), out'.ok
    PROVE  /\ items[URL] # NoItem
           /\ out'.value = items[URL].value
           /\ items' = items
BY ClientAssumption DEF Get, NoOut

LEMMA FetchStep ==
    ASSUME ClientIInv, NEW p \in Procs, Fetch(p)
    PROVE  ClientIInv'
<1>1. fetches'[p] \in 0 .. MaxFetches
  BY ClientAssumption DEF Fetch, ClientIInv, ClientTypeOK
<1>2. TypeOK'
  BY DEF Fetch, ClientIInv, ClientTypeOK, TypeOK
<1>. QED
  BY <1>1, <1>2 DEF Fetch, ClientIInv, ClientTypeOK, OnlyServedLists

LEMMA CacheStep ==
    ASSUME ClientIInv, NEW p \in Procs, fetchFromCache(p)
    PROVE  ClientIInv'
<1>1. TypeOK'
  BY StoreTypeStep DEF fetchFromCache, ClientIInv, ClientTypeOK
<1>2. items' = items
  BY DEF fetchFromCache, Get
<1>3. CASE out'.ok
  <2>1. out'.value \in served
    BY <1>3, GetHit, ClientAssumption
       DEF fetchFromCache, ClientIInv, ClientTypeOK, OnlyServedLists
  <2>2. served \subseteq Vals
    BY ClientAssumption DEF ClientIInv, ClientTypeOK
  <2>3. res' = [res EXCEPT ![p] = [list |-> out'.value, err |-> FALSE]]
        /\ pc' = [pc EXCEPT ![p] = "idle"]
    BY <1>3 DEF fetchFromCache
  <2>. QED
    BY <1>1, <1>2, <2>1, <2>2, <2>3
       DEF fetchFromCache, ClientIInv, ClientTypeOK, OnlyServedLists, Result
<1>4. CASE ~out'.ok
  <2>1. pc' = [pc EXCEPT ![p] = "bidder"] /\ res' = res
    BY <1>4 DEF fetchFromCache
  <2>. QED
    BY <1>1, <1>2, <2>1
       DEF fetchFromCache, ClientIInv, ClientTypeOK, OnlyServedLists
<1>. QED
  BY <1>3, <1>4

LEMMA BidderStep ==
    ASSUME ClientIInv, NEW p \in Procs, fetchFromBidder(p)
    PROVE  ClientIInv'
<1>1. TypeOK' /\ UNCHANGED <<items, current, fetches>>
  BY DEF fetchFromBidder, ClientIInv, ClientTypeOK, TypeOK
<1>2. current \in Lists /\ served \subseteq Lists /\ Lists \subseteq Vals
  BY ClientAssumption DEF ClientIInv, ClientTypeOK
<1>3. CASE /\ got' = [got EXCEPT ![p] = current]
           /\ served' = served \cup {current}
           /\ pc' = [pc EXCEPT ![p] = "set"]
           /\ UNCHANGED res
  BY <1>1, <1>2, <1>3 DEF ClientIInv, ClientTypeOK, OnlyServedLists
<1>4. CASE /\ res' = [res EXCEPT ![p] = [list |-> EmptyList, err |-> TRUE]]
           /\ pc' = [pc EXCEPT ![p] = "idle"]
           /\ UNCHANGED <<got, served>>
  BY <1>1, <1>2, <1>4, ClientAssumption
     DEF ClientIInv, ClientTypeOK, OnlyServedLists, Result
<1>. QED
  BY <1>3, <1>4 DEF fetchFromBidder

LEMMA StoreStep ==
    ASSUME ClientIInv, NEW p \in Procs, StoreInCache(p)
    PROVE  ClientIInv'
<1>1. got[p] \in served /\ got[p] \in Vals
  BY DEF StoreInCache, ClientIInv, ClientTypeOK
<1>2. TypeOK'
  BY <1>1, StoreTypeStep DEF StoreInCache, ClientIInv, ClientTypeOK
<1>3. StoredValuesIn(served)'
  <2>1. StoredValuesIn(served)
    BY DEF ClientIInv, OnlyServedLists, StoredValuesIn
  <2>2. served' = served
    BY DEF StoreInCache
  <2>. QED
    BY <1>1, <2>1, <2>2, SetKeepsValues, ClientAssumption
       DEF StoreInCache, ClientIInv, ClientTypeOK
<1>4. res' = [res EXCEPT ![p] = [list |-> got[p], err |-> FALSE]]
      /\ pc' = [pc EXCEPT ![p] = "idle"]
      /\ UNCHANGED <<got, fetches, current, served>>
  BY DEF StoreInCache
<1>. QED
  BY <1>1, <1>2, <1>3, <1>4
     DEF ClientIInv, ClientTypeOK, OnlyServedLists, StoredValuesIn, Result

LEMMA OtherStep ==
    ASSUME ClientIInv, \/ Publish \/ (Tick /\ UNCHANGED clientVars)
                       \/ Done \/ UNCHANGED allVars
    PROVE  ClientIInv'
<1>1. TypeOK'
  BY StoreTypeStep DEF Publish, Done, ClientIInv, ClientTypeOK, allVars, vars
<1>2. UNCHANGED <<items, pc, got, res, fetches, served>>
  BY DEF Publish, Tick, clientVars, Done, allVars
<1>3. current' \in Lists
  BY DEF Publish, Tick, clientVars, Done, allVars, ClientIInv, ClientTypeOK
<1>. QED
  BY <1>1, <1>2, <1>3 DEF ClientIInv, ClientTypeOK, OnlyServedLists

LEMMA ClientStepInv == ClientIInv /\ [ClientNext]_allVars => ClientIInv'
<1> SUFFICES ASSUME ClientIInv, [ClientNext]_allVars PROVE ClientIInv'
  OBVIOUS
<1>. QED
  BY FetchStep, CacheStep, BidderStep, StoreStep, OtherStep DEF ClientNext

(* ClientTypeCorrect: for any goroutines, lists and bounds, every state   *)
(* of concurrent Fetch calls over the one-slot cache is typed.           *)
THEOREM ClientTypeCorrect == ClientSpec => []ClientTypeOK
BY ClientInitInv, ClientStepInv, PTL DEF ClientSpec, ClientIInv

(* ServedListsOnly: for any interleaving of the goroutines' Fetch calls, *)
(* the bidder's list changes and the clock, the cache never holds, and   *)
(* Fetch never returns without an error, a list the bidder's server did  *)
(* not serve in a 200 response: no error path of fetchFromBidder reaches *)
(* the cache Set.                                                        *)
THEOREM ServedListsOnly == ClientSpec => []OnlyServedLists
BY ClientInitInv, ClientStepInv, PTL DEF ClientSpec, ClientIInv

=============================================================================
