----------------------------- MODULE MC_TraceMap -----------------------------
(***************************************************************************)
(* Model-checking instances of TraceMap.                                   *)
(***************************************************************************)
EXTENDS TraceMap, TLC

CONSTANTS r1, r2, t1, t2, w1, w2, w3

MCRequests == {r1, r2}
MCTraces == {t1, t2}

(* Two requests with their own trace IDs, each with one joined worker     *)
(* adding two key-values, and a goroutine outside any request.            *)
MCTraceOf == (r1 :> t1) @@ (r2 :> t2)
MCWorkers == {w1, w2, w3}
MCReqOf == (w1 :> r1) @@ (w2 :> r2) @@ (w3 :> NoRequest)
MCJoined == [w \in MCWorkers |-> TRUE]

(* One request whose handler waits for two workers adding concurrently. *)
RaceRequests == {r1}
RaceTraceOf == r1 :> t1
RaceWorkers == {w1, w2}
RaceReqOf == (w1 :> r1) @@ (w2 :> r1)
RaceJoined == [w \in RaceWorkers |-> TRUE]

(* Two requests of one upstream trace (ChildOf the caller's span); only  *)
(* r1 has a worker, so no two adds race and only r2's cleanup can remove  *)
(* r1's data.                                                              *)
SharedTraceOf == (r1 :> t1) @@ (r2 :> t1)
SharedWorkers == {w1}
SharedReqOf == w1 :> r1
SharedJoined == w1 :> TRUE

(* One request with a goroutine it does not wait for. *)
DetachedWorkers == {w1}
DetachedReqOf == w1 :> r1
DetachedJoined == w1 :> FALSE

=============================================================================
