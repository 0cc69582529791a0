----------------------------- MODULE SkanClient -----------------------------
(***************************************************************************)
(* The read-through client of cache/skanidlistcache/client.go: goroutines *)
(* call Fetch concurrently on one client, whose cache is New(1h, 1) keyed *)
(* by the bidder's URL.  Fetch tries the cache, on a miss asks the        *)
(* bidder's server, and on success stores the list in the cache.          *)
(*                                                                         *)
(* The cache is the store of Cache: Get and Set are its atomic critical   *)
(* sections (CacheLocking shows that c.mu makes them so), and the client  *)
(* registers no hooks.  The bidder serves the list `current`, which it    *)
(* may replace at any time; an HTTP exchange either returns the list it   *)
(* serves at that moment or fails.  The steps of a Fetch are separate      *)
(* actions, so that other goroutines, the clock and the bidder move       *)
(* between the cache lookup, the HTTP call and the store.                  *)
(***************************************************************************)
EXTENDS Cache

CONSTANTS
    Procs,       \* goroutines calling Fetch on the client
    URL,         \* c.url, the only key the client uses
    Lists,       \* the lists the bidder's server may serve
    EmptyList,   \* model.SKANIDList{}, returned with every error
    MaxFetches   \* bound on the Fetch calls of each goroutine

(* NewClient calls cache.New(1*time.Hour, 1): one slot, a positive TTL. *)
ASSUME ClientAssumption ==
    /\ URL \in Keys
    /\ Vals = Lists \cup {EmptyList} /\ EmptyList \notin Lists
    /\ CapacityArg = 1 /\ TTLArg > 0
    /\ MaxFetches \in Nat

VARIABLES
    pc,       \* pc[p]: where the Fetch of p is
    got,      \* got[p]: the list fetchFromBidder returned to p
    res,      \* res[p]: what p's last Fetch returned, [list, err]
    fetches,  \* fetches[p]: Fetch calls p has made
    current,  \* the list the bidder's server serves now
    served    \* every list the server has returned in a 200 response

clientVars == <<pc, got, res, fetches, current, served>>
allVars == <<items, now, out, pc, got, res, fetches, current, served>>

Result == [list : Vals, err : BOOLEAN]
NoResult == [list |-> EmptyList, err |-> FALSE]

ClientTypeOK ==
    /\ TypeOK
    /\ pc \in [Procs -> {"idle", "cache", "bidder", "set"}]
    /\ got \in [Procs -> Vals]
    /\ res \in [Procs -> Result]
    /\ fetches \in [Procs -> 0 .. MaxFetches]
    /\ current \in Lists
    /\ served \subseteq Lists

ClientInit ==
    /\ Init
    /\ pc = [p \in Procs |-> "idle"]
    /\ got = [p \in Procs |-> EmptyList]
    /\ res = [p \in Procs |-> NoResult]
    /\ fetches = [p \in Procs |-> 0]
    /\ current \in Lists
    /\ served = {}

(* Fetch is called. *)
Fetch(p) ==
    /\ pc[p] = "idle"
    /\ fetches[p] < MaxFetches
    /\ pc' = [pc EXCEPT ![p] = "cache"]
    /\ fetches' = [fetches EXCEPT ![p] = @ + 1]
    /\ UNCHANGED <<items, now, out, got, res, current, served>>

(* Mutation: the !found test dropped, a miss returning the nil value. *)
fetchFromCacheIgnoringFound(p) ==
    /\ pc[p] = "cache"
    /\ Get(URL)
    /\ res' = [res EXCEPT ![p] = [list |-> out'.value, err |-> FALSE]]
    /\ pc' = [pc EXCEPT ![p] = "idle"]
    /\ UNCHANGED <<got, fetches, current, served>>

(***************************************************************************)
(* fetchFromCache: c.cacheClient.Get(c.url).  A hit returns the list;     *)
(* the v.(model.SKANIDList) assertion cannot fail, since the cache is     *)
(* private to the client and only ever stores a model.SKANIDList.         *)
(***************************************************************************)
fetchFromCache(p) ==
    /\ pc[p] = "cache"
    /\ Get(URL)
    /\ IF out'.ok
         THEN /\ res' = [res EXCEPT ![p] = [list |-> out'.value, err |-> FALSE]]
              /\ pc' = [pc EXCEPT ![p] = "idle"]
         ELSE /\ pc' = [pc EXCEPT ![p] = "bidder"]
              /\ UNCHANGED res
    /\ UNCHANGED <<got, fetches, current, served>>

(* Mutation: Fetch going on to the cache Set when fetchFromBidder fails. *)
fetchFromBidderIgnoringError(p) ==
    /\ pc[p] = "bidder"
    /\ \/ /\ got' = [got EXCEPT ![p] = current]
          /\ served' = served \cup {current}
       \/ /\ got' = [got EXCEPT ![p] = EmptyList]
          /\ UNCHANGED served
    /\ pc' = [pc EXCEPT ![p] = "set"]
    /\ UNCHANGED <<items, now, out, res, fetches, current>>

(***************************************************************************)
(* fetchFromBidder: the HTTP GET.  A 200 with a list that decodes hands   *)
(* the list the server serves now to the Set; every other outcome (no     *)
(* request, transport error, another status, a body that cannot be read  *)
(* or decoded) makes Fetch return SKANIDList{} with the error.            *)
(***************************************************************************)
fetchFromBidder(p) ==
    /\ pc[p] = "bidder"
    /\ \/ /\ got' = [got EXCEPT ![p] = current]
          /\ served' = served \cup {current}
          /\ pc' = [pc EXCEPT ![p] = "set"]
          /\ UNCHANGED res
       \/ /\ res' = [res EXCEPT ![p] = [list |-> EmptyList, err |-> TRUE]]
          /\ pc' = [pc EXCEPT ![p] = "idle"]
          /\ UNCHANGED <<got, served>>
    /\ UNCHANGED <<items, now, out, fetches, current>>

(* c.cacheClient.Set(c.url, skanIDList), then return the list; a Set the  *)
(* full cache drops still returns the list.                                *)
StoreInCache(p) ==
    /\ pc[p] = "set"
    /\ Set(URL, got[p])
    /\ res' = [res EXCEPT ![p] = [list |-> got[p], err |-> FALSE]]
    /\ pc' = [pc EXCEPT ![p] = "idle"]
    /\ UNCHANGED <<got, fetches, current, served>>

(* The bidder's server starts serving another list. *)
Publish ==
    /\ \E l \in Lists \ {current} : current' = l
    /\ UNCHANGED <<items, now, out, pc, got, res, fetches, served>>

(* Every goroutine has made its calls and returned. *)
Done ==
    /\ \A p \in Procs : pc[p] = "idle" /\ fetches[p] = MaxFetches
    /\ UNCHANGED allVars

ClientNext ==
    \/ \E p \in Procs : Fetch(p) \/ fetchFromCache(p)
    \/ \E p \in Procs : fetchFromBidder(p) \/ StoreInCache(p)
    \/ Publish
    \/ Tick /\ UNCHANGED clientVars
    \/ Done

ClientSpec == ClientInit /\ [][ClientNext]_allVars

-----------------------------------------------------------------------------
(***************************************************************************)
(* OnlyServedLists: the cache never holds, and Fetch never returns        *)
(* without an error, a list the bidder's server did not serve in a 200    *)
(* response ("the cache is never populated with a failed fetch's         *)
(* result", spec section 7).  Fetch returns SKANIDList{} on every error   *)
(* path of fetchFromBidder; skipping one of its early returns would cache *)
(* that empty list for a full TTL, and every later Fetch would hit it.    *)
(***************************************************************************)
OnlyServedLists ==
    /\ \A k \in Keys : items[k] # NoItem => items[k].value \in served
    /\ \A p \in Procs : ~res[p].err /\ res[p] # NoResult => res[p].list \in served

=============================================================================
