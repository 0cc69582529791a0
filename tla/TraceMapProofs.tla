--------------------------- MODULE TraceMapProofs ---------------------------
(***************************************************************************)
(* Proofs about the trace data map of TraceMap.tla.  The type invariant   *)
(* holds for every instance.  SpanHasJoinedData and NoLeak hold when the  *)
(* code's use of the map is the one it was written for (SoleWriters):     *)
(* every request has its own trace ID, at most one goroutine adds to it,  *)
(* and the handler waits for that goroutine.  Each condition is needed:  *)
(* trace_lost_update breaks SpanHasJoinedData with two writers of a trace, *)
(* trace_leak breaks NoLeak with a goroutine the handler does not wait    *)
(* for, and trace_shared_trace breaks SpanHasJoinedData with two requests *)
(* of one trace, where one's RemoveTraceData drops the other's data.       *)
(***************************************************************************)
EXTENDS TraceMap, FiniteSets, TLAPS

SoleWriters ==
    /\ \A r1, r2 \in Requests : TraceOf[r1] = TraceOf[r2] => r1 = r2
    /\ \A w1, w2 \in Workers :
           ReqOf[w1] = ReqOf[w2] /\ ReqOf[w1] # NoRequest => w1 = w2
    /\ \A w \in Workers : ReqOf[w] # NoRequest => Joined[w]

(* The key-values the workers of r have added so far. *)
AddedBy(r) == {kv \in KV : ReqOf[kv[1]] = r /\ kv[2] <= added[kv[1]]}

(* The progress of a worker's loop matches its pc. *)
WorkerInv(w) ==
    /\ wpc[w] = "idle" => added[w] = 0
    /\ wpc[w] \in {"load", "store"} => added[w] < Adds
    /\ wpc[w] = "done" => added[w] = Adds
    /\ wpc[w] = "store" => ReqOf[w] # NoRequest

(* A traced worker runs while its handler serves, and an add's Load is   *)
(* still current at its Store.                                            *)
TracedInv(w) ==
    LET r == ReqOf[w] IN
    /\ wpc[w] \in {"load", "store"} => hpc[r] = "serve"
    /\ wpc[w] = "idle" => hpc[r] \in {"start", "serve"}
    /\ hpc[r] \notin {"start", "serve"} => wpc[w] = "done"
    /\ wpc[w] = "store" => loaded[w] = traceMap[TraceOf[r]]

(* The entry of r's trace holds exactly what r's workers added, until   *)
(* the deferred RemoveTraceData.                                          *)
MapInv(r) ==
    traceMap[TraceOf[r]] = IF hpc[r] \in {"end", "done"} \/ AddedBy(r) = {}
                             THEN Absent ELSE AddedBy(r)

TraceIInv ==
    /\ TraceTypeOK
    /\ \A w \in Workers : WorkerInv(w)
    /\ \A w \in Workers : ReqOf[w] # NoRequest => TracedInv(w)
    /\ \A r \in Requests : MapInv(r)
    /\ \A t \in Traces : (\A r \in Requests : TraceOf[r] # t) => traceMap[t] = Absent
    /\ SpanHasJoinedData

-----------------------------------------------------------------------------
(***************************************************************************)
(* Type correctness, for every instance.  It needs the loop counter of    *)
(* each worker tied to its pc, so that an add never goes past Adds.      *)
(***************************************************************************)
TypeInv == TraceTypeOK /\ \A w \in Workers : WorkerInv(w)

(* The trace ID a traced worker adds to. *)
LEMMA TraceOfWorker ==
    ASSUME NEW w \in Workers, ReqOf[w] # NoRequest
    PROVE  ReqOf[w] \in Requests /\ TraceOf[ReqOf[w]] \in Traces
BY TraceMapAssumption

(* What GetTraceData returns is a set of key-values. *)
LEMMA GetTraceDataType ==
    ASSUME TraceTypeOK, NEW t \in Traces
    PROVE  GetTraceData(t) \in SUBSET KV
BY DEF TraceTypeOK, GetTraceData

LEMMA TypeInitInv == TraceInit => TypeInv
BY TraceMapAssumption DEF TraceInit, TypeInv, TraceTypeOK, WorkerInv,
   HandlerPCs, WorkerPCs

LEMMA TypeStepInv == TypeInv /\ [TraceNext]_vars => TypeInv'
<1> SUFFICES ASSUME TypeInv, [TraceNext]_vars PROVE TypeInv'
  OBVIOUS
<1>0. Adds \in Nat
  BY TraceMapAssumption
<1>1. ASSUME NEW r \in Requests, Start(r) \/ Serve(r) \/ Remove(r) \/ End(r)
      PROVE  TypeInv'
  <2>1. TraceOf[r] \in Traces
    BY TraceMapAssumption
  <2>. QED
    BY <1>1, <2>1, GetTraceDataType
       DEF Start, Serve, Remove, End, TypeInv, TraceTypeOK, WorkerInv, HandlerPCs
<1>2. ASSUME NEW r \in Requests, GetData(r) PROVE TypeInv'
  <2>1. TraceOf[r] \in Traces
    BY TraceMapAssumption
  <2>. QED
    BY <1>2, <2>1, GetTraceDataType
       DEF GetData, TypeInv, TraceTypeOK, WorkerInv, HandlerPCs
<1>3. ASSUME NEW w \in Workers, Begin(w) PROVE TypeInv'
  BY <1>3, <1>0 DEF Begin, TypeInv, TraceTypeOK, WorkerInv, WorkerPCs
<1>4. ASSUME NEW w \in Workers, AddUntraced(w) PROVE TypeInv'
  BY <1>4, <1>0 DEF AddUntraced, TypeInv, TraceTypeOK, WorkerInv, WorkerPCs
<1>5. ASSUME NEW w \in Workers, Load(w) PROVE TypeInv'
  BY <1>5, TraceOfWorker DEF Load, TypeInv, TraceTypeOK, WorkerInv, WorkerPCs
<1>6. ASSUME NEW w \in Workers, Store(w) PROVE TypeInv'
  <2>1. added[w] \in 0 .. Adds - 1
    BY <1>6, <1>0 DEF Store, TypeInv, TraceTypeOK, WorkerInv
  <2>2. NextKV(w) \in KV
    BY <2>1, <1>0 DEF NextKV, KV
  <2>3. (IF loaded[w] = Absent THEN {NextKV(w)} ELSE loaded[w] \cup {NextKV(w)})
          \in SUBSET KV
    BY <2>2 DEF TypeInv, TraceTypeOK
  <2>4. traceMap' \in [Traces -> (SUBSET KV) \cup {Absent}]
    BY <1>6, <2>3 DEF Store, TypeInv, TraceTypeOK
  <2>5. (\A v \in Workers : WorkerInv(v))'
    BY <1>6, <2>1, <1>0 DEF Store, TypeInv, TraceTypeOK, WorkerInv
  <2>6. wpc' \in [Workers -> WorkerPCs] /\ added' \in [Workers -> 0 .. Adds]
    BY <1>6, <2>1, <1>0 DEF Store, TypeInv, TraceTypeOK, WorkerPCs
  <2>7. UNCHANGED <<hpc, spanData, exported, loaded>>
    BY <1>6 DEF Store
  <2>. QED
    BY <2>4, <2>5, <2>6, <2>7 DEF TypeInv, TraceTypeOK
<1>7. CASE Terminated \/ UNCHANGED vars
  BY <1>7 DEF Terminated, vars, TypeInv, TraceTypeOK, WorkerInv
<1>. QED
  BY <1>1, <1>2, <1>3, <1>4, <1>5, <1>6, <1>7 DEF TraceNext

(* TraceTypeCorrect: whatever requests, trace IDs and goroutines share    *)
(* the map, its entries are sets of added key-values or absent, and every *)
(* worker's loop stops after Adds adds.                                   *)
THEOREM TraceTypeCorrect == TraceSpec => []TraceTypeOK
BY TypeInitInv, TypeStepInv, PTL DEF TraceSpec, TypeInv

-----------------------------------------------------------------------------
(***************************************************************************)
(* SpanHasJoinedData and NoLeak under SoleWriters.  Neither is inductive: *)
(* the span gets what the map holds, so the map must hold exactly what    *)
(* the request's worker added (MapInv), which in turn needs the worker's  *)
(* Load to be current at its Store and the handler to be serving while    *)
(* the worker adds (TracedInv).                                           *)
(***************************************************************************)

(* How AddedBy moves when a worker's counter does. *)
LEMMA AddedByStep ==
    ASSUME TypeInv, NEW w \in Workers, added[w] < Adds,
           added' = [added EXCEPT ![w] = @ + 1]
    PROVE  \A r \in Requests :
               AddedBy(r)' = IF r = ReqOf[w] THEN AddedBy(r) \cup {NextKV(w)}
                                             ELSE AddedBy(r)
<1>1. added[w] \in Nat /\ Adds \in Nat
  BY TraceMapAssumption DEF TypeInv, TraceTypeOK
<1>2. NextKV(w) \in KV
  BY <1>1 DEF NextKV, KV
<1>3. \A v \in Workers : added'[v] = IF v = w THEN added[w] + 1 ELSE added[v]
  BY DEF TypeInv, TraceTypeOK
<1>. QED
  BY <1>1, <1>2, <1>3 DEF AddedBy, NextKV, KV

(* Once every worker of r has finished, AddedBy(r) has all it waits for. *)
LEMMA AddedByDone ==
    ASSUME TypeInv, NEW r \in Requests,
           \A w \in Workers : ReqOf[w] = r => added[w] = Adds
    PROVE  JoinedKVs(r) \subseteq AddedBy(r)
BY DEF JoinedKVs, AddedBy, KV

(* A trace ID belongs to at most one request. *)
LEMMA OwnTrace ==
    ASSUME SoleWriters, NEW r \in Requests, NEW q \in Requests, q # r
    PROVE  TraceOf[q] # TraceOf[r]
BY DEF SoleWriters

(* A step that leaves the map and the workers' counters alone keeps     *)
(* MapInv(q) as long as it does not move q past its RemoveTraceData.      *)
LEMMA MapKeep ==
    ASSUME TraceIInv, NEW q \in Requests, traceMap' = traceMap, added' = added,
           (hpc'[q] \in {"end", "done"}) = (hpc[q] \in {"end", "done"})
    PROVE  MapInv(q)'
<1>1. AddedBy(q)' = AddedBy(q)
  BY DEF AddedBy
<1>. QED
  BY <1>1 DEF TraceIInv, MapInv

(* The effect of moving the handler of r to x. *)
LEMMA HpcUpdate ==
    ASSUME TypeInv, NEW r \in Requests, NEW x, hpc' = [hpc EXCEPT ![r] = x]
    PROVE  \A q \in Requests : hpc'[q] = IF q = r THEN x ELSE hpc[q]
BY DEF TypeInv, TraceTypeOK

(* Start, Serve and End move the handler of r along a part of its code    *)
(* where no worker of r is loading or storing.                            *)
LEMMA HandlerStep ==
    ASSUME SoleWriters, TraceIInv, NEW r \in Requests,
           \A q \in Requests \ {r} : hpc'[q] = hpc[q],
           UNCHANGED <<traceMap, spanData, wpc, added, loaded>>,
           TypeInv',
           (hpc'[r] \in {"end", "done"}) = (hpc[r] \in {"end", "done"}),
           hpc'[r] \in {"remove", "end", "done"} => hpc[r] \in {"remove", "end", "done"},
           \A w \in Workers : ReqOf[w] = r =>
               /\ wpc[w] \in {"load", "store"} => hpc'[r] = "serve"
               /\ wpc[w] = "idle" => hpc'[r] \in {"start", "serve"}
               /\ hpc'[r] \notin {"start", "serve"} => wpc[w] = "done"
    PROVE  TraceIInv'
<1> DEFINE x == hpc'[r]
<1>1. \A q \in Requests : hpc'[q] = IF q = r THEN x ELSE hpc[q]
  OBVIOUS
<1>2. \A w \in Workers : ReqOf[w] # NoRequest => TracedInv(w)'
  <2> SUFFICES ASSUME NEW w \in Workers, ReqOf[w] # NoRequest PROVE TracedInv(w)'
    OBVIOUS
  <2>1. ReqOf[w] \in Requests
    BY TraceOfWorker
  <2>2. CASE ReqOf[w] = r
    BY <1>1, <2>2 DEF TraceIInv, TracedInv
  <2>3. CASE ReqOf[w] # r
    BY <1>1, <2>1, <2>3 DEF TraceIInv, TracedInv
  <2>. QED
    BY <2>2, <2>3
<1>3. \A q \in Requests : MapInv(q)'
  <2> SUFFICES ASSUME NEW q \in Requests PROVE MapInv(q)'
    OBVIOUS
  <2>1. (hpc'[q] \in {"end", "done"}) = (hpc[q] \in {"end", "done"})
    BY <1>1
  <2>. QED
    BY <2>1, MapKeep
<1>4. SpanHasJoinedData'
  <2> SUFFICES ASSUME NEW q \in Requests, hpc'[q] \in {"remove", "end", "done"}
               PROVE  JoinedKVs(q) \subseteq spanData'[q]
    BY DEF SpanHasJoinedData
  <2>1. hpc[q] \in {"remove", "end", "done"}
    BY <1>1
  <2>. QED
    BY <2>1 DEF TraceIInv, SpanHasJoinedData, JoinedKVs
<1>. QED
  BY <1>2, <1>3, <1>4 DEF TraceIInv, TypeInv

LEMMA StartStep ==
    ASSUME SoleWriters, TraceIInv, NEW r \in Requests, Start(r)
    PROVE  TraceIInv'
<1>1. TypeInv'
  BY TypeStepInv DEF TraceIInv, TypeInv, TraceNext
<1>2. /\ hpc'[r] = "serve" /\ \A q \in Requests \ {r} : hpc'[q] = hpc[q]
      /\ UNCHANGED <<traceMap, spanData, wpc, added, loaded>>
      /\ hpc[r] = "start"
  BY DEF Start, TraceIInv, TypeInv, TraceTypeOK
<1>3. \A w \in Workers : ReqOf[w] = r =>
          /\ wpc[w] \in {"load", "store"} => hpc'[r] = "serve"
          /\ wpc[w] = "idle" => hpc'[r] \in {"start", "serve"}
          /\ hpc'[r] \notin {"start", "serve"} => wpc[w] = "done"
  BY <1>2
<1>. QED
  <2>1. (hpc'[r] \in {"end", "done"}) = (hpc[r] \in {"end", "done"})
      /\ (hpc'[r] \in {"remove", "end", "done"} => hpc[r] \in {"remove", "end", "done"})
    BY <1>2
  <2>. QED
    BY <1>1, <1>2, <1>3, <2>1, HandlerStep

LEMMA ServeStep ==
    ASSUME SoleWriters, TraceIInv, NEW r \in Requests, Serve(r)
    PROVE  TraceIInv'
<1>1. TypeInv'
  BY TypeStepInv DEF TraceIInv, TypeInv, TraceNext
<1>2. /\ hpc'[r] = "getData" /\ \A q \in Requests \ {r} : hpc'[q] = hpc[q]
      /\ UNCHANGED <<traceMap, spanData, wpc, added, loaded>>
      /\ hpc[r] = "serve"
  BY DEF Serve, TraceIInv, TypeInv, TraceTypeOK
<1>3. \A w \in Workers : ReqOf[w] = r =>
          /\ wpc[w] \in {"load", "store"} => hpc'[r] = "serve"
          /\ wpc[w] = "idle" => hpc'[r] \in {"start", "serve"}
          /\ hpc'[r] \notin {"start", "serve"} => wpc[w] = "done"
  <2> SUFFICES ASSUME NEW w \in Workers, ReqOf[w] = r PROVE wpc[w] = "done"
    OBVIOUS
  <2>1. Joined[w]
    BY TraceMapAssumption DEF SoleWriters
  <2>. QED
    BY <2>1 DEF Serve
<1>. QED
  <2>1. (hpc'[r] \in {"end", "done"}) = (hpc[r] \in {"end", "done"})
      /\ (hpc'[r] \in {"remove", "end", "done"} => hpc[r] \in {"remove", "end", "done"})
    BY <1>2
  <2>. QED
    BY <1>1, <1>2, <1>3, <2>1, HandlerStep

LEMMA EndStep ==
    ASSUME SoleWriters, TraceIInv, NEW r \in Requests, End(r)
    PROVE  TraceIInv'
<1>1. TypeInv'
  BY TypeStepInv DEF TraceIInv, TypeInv, TraceNext
<1>2. /\ hpc'[r] = "done" /\ \A q \in Requests \ {r} : hpc'[q] = hpc[q]
      /\ UNCHANGED <<traceMap, spanData, wpc, added, loaded>>
      /\ hpc[r] = "end"
  BY DEF End, TraceIInv, TypeInv, TraceTypeOK
<1>3. \A w \in Workers : ReqOf[w] = r =>
          /\ wpc[w] \in {"load", "store"} => hpc'[r] = "serve"
          /\ wpc[w] = "idle" => hpc'[r] \in {"start", "serve"}
          /\ hpc'[r] \notin {"start", "serve"} => wpc[w] = "done"
  <2> SUFFICES ASSUME NEW w \in Workers, ReqOf[w] = r PROVE wpc[w] = "done"
    OBVIOUS
  <2>1. ReqOf[w] # NoRequest
    BY TraceMapAssumption
  <2>. QED
    BY <1>2, <2>1 DEF TraceIInv, TracedInv
<1>. QED
  <2>1. (hpc'[r] \in {"end", "done"}) = (hpc[r] \in {"end", "done"})
      /\ (hpc'[r] \in {"remove", "end", "done"} => hpc[r] \in {"remove", "end", "done"})
    BY <1>2
  <2>. QED
    BY <1>1, <1>2, <1>3, <2>1, HandlerStep

LEMMA GetDataStep ==
    ASSUME SoleWriters, TraceIInv, NEW r \in Requests, GetData(r)
    PROVE  TraceIInv'
<1>1. TypeInv'
  BY TypeStepInv DEF TraceIInv, TypeInv, TraceNext
<1>2. \A w \in Workers : ReqOf[w] = r => added[w] = Adds
  BY TraceMapAssumption DEF GetData, TraceIInv, TracedInv, WorkerInv
<1>3. JoinedKVs(r) \subseteq AddedBy(r)
  BY <1>2, AddedByDone DEF TraceIInv, TypeInv
<1>4. JoinedKVs(r) \subseteq spanData'[r]
  <2>1. AddedBy(r) \in SUBSET KV
    BY DEF AddedBy
  <2>2. AddedBy(r) # Absent
    BY <2>1, AbsentAssumption
  <2>3. GetTraceData(TraceOf[r]) = AddedBy(r)
    BY <2>2 DEF GetData, GetTraceData, TraceIInv, MapInv
  <2>. QED
    BY <1>3, <2>3 DEF GetData, TraceIInv, TraceTypeOK
<1>5. \A w \in Workers : ReqOf[w] # NoRequest => TracedInv(w)'
  BY DEF GetData, TraceIInv, TracedInv
<1>6. \A q \in Requests : MapInv(q)'
  <2> SUFFICES ASSUME NEW q \in Requests PROVE MapInv(q)'
    OBVIOUS
  <2>1. hpc' = [hpc EXCEPT ![r] = "remove"] /\ hpc[r] = "getData"
        /\ traceMap' = traceMap /\ added' = added
    BY DEF GetData
  <2>2. (hpc'[q] \in {"end", "done"}) = (hpc[q] \in {"end", "done"})
    BY <2>1, HpcUpdate DEF TraceIInv, TypeInv
  <2>. QED
    BY <2>1, <2>2, MapKeep
<1>7. SpanHasJoinedData'
  BY <1>4 DEF GetData, TraceIInv, TraceTypeOK, SpanHasJoinedData, JoinedKVs
<1>. QED
  BY <1>1, <1>5, <1>6, <1>7 DEF GetData, TraceIInv, TypeInv

LEMMA RemoveStep ==
    ASSUME SoleWriters, TraceIInv, NEW r \in Requests, Remove(r)
    PROVE  TraceIInv'
<1>1. TypeInv'
  BY TypeStepInv DEF TraceIInv, TypeInv, TraceNext
<1>2. \A q \in Requests \ {r} : traceMap'[TraceOf[q]] = traceMap[TraceOf[q]]
  BY OwnTrace, TraceMapAssumption DEF Remove, TraceIInv, TraceTypeOK
<1>3. \A w \in Workers : ReqOf[w] # NoRequest => TracedInv(w)'
  <2> SUFFICES ASSUME NEW w \in Workers, ReqOf[w] # NoRequest PROVE TracedInv(w)'
    OBVIOUS
  <2>1. CASE ReqOf[w] = r
    BY <2>1 DEF Remove, TraceIInv, TracedInv
  <2>2. CASE ReqOf[w] # r
    BY <1>2, <2>2, TraceMapAssumption DEF Remove, TraceIInv, TracedInv
  <2>. QED
    BY <2>1, <2>2
<1>4. \A q \in Requests : MapInv(q)'
  <2> SUFFICES ASSUME NEW q \in Requests PROVE MapInv(q)'
    OBVIOUS
  <2>1. CASE q = r
    BY <2>1, TraceMapAssumption DEF Remove, TraceIInv, TraceTypeOK, MapInv
  <2>2. CASE q # r
    <3>1. hpc'[q] = hpc[q] /\ added' = added
      BY <2>2 DEF Remove, TraceIInv, TraceTypeOK
    <3>2. AddedBy(q)' = AddedBy(q)
      BY <3>1 DEF AddedBy
    <3>. QED
      BY <1>2, <2>2, <3>1, <3>2 DEF TraceIInv, MapInv
  <2>. QED
    BY <2>1, <2>2
<1>5. \A t \in Traces : (\A q \in Requests : TraceOf[q] # t) => traceMap'[t] = Absent
  BY TraceMapAssumption DEF Remove, TraceIInv, TraceTypeOK
<1>. QED
  BY <1>1, <1>3, <1>4, <1>5 DEF Remove, TraceIInv, TypeInv, SpanHasJoinedData

LEMMA BeginStep ==
    ASSUME SoleWriters, TraceIInv, NEW w \in Workers, Begin(w)
    PROVE  TraceIInv'
<1>1. TypeInv'
  BY TypeStepInv DEF TraceIInv, TypeInv, TraceNext
<1>2. \A v \in Workers : ReqOf[v] # NoRequest => TracedInv(v)'
  BY DEF Begin, TraceIInv, TracedInv
<1>3. \A q \in Requests : MapInv(q)'
  BY DEF Begin, TraceIInv, MapInv, AddedBy
<1>. QED
  BY <1>1, <1>2, <1>3 DEF Begin, TraceIInv, TypeInv, SpanHasJoinedData

LEMMA UntracedStep ==
    ASSUME SoleWriters, TraceIInv, NEW w \in Workers, AddUntraced(w)
    PROVE  TraceIInv'
<1>1. TypeInv'
  BY TypeStepInv DEF TraceIInv, TypeInv, TraceNext
<1>2. \A v \in Workers : ReqOf[v] # NoRequest => TracedInv(v)'
  BY DEF AddUntraced, TraceIInv, TracedInv
<1>3. \A q \in Requests : AddedBy(q)' = AddedBy(q)
  <2>1. added[w] < Adds
    BY DEF AddUntraced, TraceIInv, WorkerInv
  <2>2. \A q \in Requests : q # ReqOf[w]
    BY TraceMapAssumption DEF AddUntraced
  <2>. QED
    BY <2>1, <2>2, AddedByStep DEF AddUntraced, TraceIInv, TypeInv
<1>4. \A q \in Requests : MapInv(q)'
  BY <1>3 DEF AddUntraced, TraceIInv, MapInv
<1>. QED
  BY <1>1, <1>2, <1>4 DEF AddUntraced, TraceIInv, TypeInv, SpanHasJoinedData

LEMMA LoadStep ==
    ASSUME SoleWriters, TraceIInv, NEW w \in Workers, Load(w)
    PROVE  TraceIInv'
<1>1. TypeInv'
  BY TypeStepInv DEF TraceIInv, TypeInv, TraceNext
<1>2. \A v \in Workers : ReqOf[v] # NoRequest => TracedInv(v)'
  BY DEF Load, TraceIInv, TracedInv, TraceTypeOK
<1>3. \A q \in Requests : MapInv(q)'
  BY DEF Load, TraceIInv, MapInv, AddedBy
<1>. QED
  BY <1>1, <1>2, <1>3 DEF Load, TraceIInv, TypeInv, SpanHasJoinedData

LEMMA StoreStep ==
    ASSUME SoleWriters, TraceIInv, NEW w \in Workers, Store(w)
    PROVE  TraceIInv'
<1> DEFINE r == ReqOf[w]
           t == TraceOf[r]
           new == IF loaded[w] = Absent THEN {NextKV(w)}
                                        ELSE loaded[w] \cup {NextKV(w)}
<1>1. TypeInv'
  BY TypeStepInv DEF TraceIInv, TypeInv, TraceNext
<1>2. /\ r # NoRequest /\ r \in Requests /\ t \in Traces
      /\ hpc[r] = "serve" /\ loaded[w] = traceMap[t] /\ added[w] < Adds
  <2>1. r # NoRequest
    BY DEF Store, TraceIInv, WorkerInv
  <2>2. r \in Requests /\ t \in Traces
    BY <2>1, TraceOfWorker
  <2>. QED
    BY <2>1, <2>2 DEF Store, TraceIInv, TracedInv, WorkerInv
<1>3. traceMap' = [traceMap EXCEPT ![t] = new]
      /\ UNCHANGED <<hpc, spanData, exported, loaded>>
  BY DEF Store
<1>4. \A q \in Requests :
          AddedBy(q)' = IF q = r THEN AddedBy(q) \cup {NextKV(w)} ELSE AddedBy(q)
  BY <1>2, AddedByStep DEF Store, TraceIInv, TypeInv
<1>5. \A q \in Requests \ {r} : TraceOf[q] # t
  BY <1>2, OwnTrace
<1>6. MapInv(r)'
  <2>1. AddedBy(r)' = AddedBy(r) \cup {NextKV(w)}
    BY <1>2, <1>4
  <2>2. traceMap'[t] = new
    BY <1>2, <1>3 DEF TraceIInv, TraceTypeOK
  <2>3. new = AddedBy(r) \cup {NextKV(w)}
    <3>1. CASE AddedBy(r) = {}
      <4>1. traceMap[t] = Absent
        BY <1>2, <3>1 DEF TraceIInv, MapInv
      <4>. QED
        BY <1>2, <3>1, <4>1
    <3>2. CASE AddedBy(r) # {}
      <4>1. traceMap[t] = AddedBy(r)
        BY <1>2, <3>2 DEF TraceIInv, MapInv
      <4>2. AddedBy(r) # Absent
        BY AbsentAssumption DEF AddedBy
      <4>. QED
        BY <1>2, <4>1, <4>2
    <3>. QED
      BY <3>1, <3>2
  <2>. QED
    BY <1>2, <1>3, <2>1, <2>2, <2>3 DEF MapInv
<1>7. \A q \in Requests \ {r} : MapInv(q)'
  <2> SUFFICES ASSUME NEW q \in Requests \ {r} PROVE MapInv(q)'
    OBVIOUS
  <2>1. traceMap'[TraceOf[q]] = traceMap[TraceOf[q]]
    BY <1>3, <1>5
  <2>. QED
    BY <1>3, <1>4, <2>1 DEF TraceIInv, MapInv
<1>8. \A v \in Workers : ReqOf[v] # NoRequest => TracedInv(v)'
  <2> SUFFICES ASSUME NEW v \in Workers, ReqOf[v] # NoRequest PROVE TracedInv(v)'
    OBVIOUS
  <2>1. CASE v = w
    <3>1. wpc'[w] \in {"done", "load"}
      BY DEF Store, TraceIInv, TraceTypeOK
    <3>. QED
      BY <1>2, <1>3, <2>1, <3>1 DEF TracedInv
  <2>2. CASE v # w
    <3>1. ReqOf[v] \in Requests \ {r}
      BY <1>2, <2>2, TraceOfWorker DEF SoleWriters
    <3>2. traceMap'[TraceOf[ReqOf[v]]] = traceMap[TraceOf[ReqOf[v]]]
      BY <1>3, <1>5, <3>1
    <3>3. wpc'[v] = wpc[v]
      BY <2>2 DEF Store, TraceIInv, TraceTypeOK
    <3>. QED
      BY <1>3, <3>2, <3>3 DEF TraceIInv, TracedInv
  <2>. QED
    BY <2>1, <2>2
<1>9. \A u \in Traces : (\A q \in Requests : TraceOf[q] # u) => traceMap'[u] = Absent
  <2> SUFFICES ASSUME NEW u \in Traces, \A q \in Requests : TraceOf[q] # u
               PROVE  traceMap'[u] = Absent
    OBVIOUS
  <2>1. u # t
    BY <1>2
  <2>. QED
    BY <1>3, <2>1 DEF TraceIInv, TraceTypeOK
<1>. QED
  BY <1>1, <1>6, <1>7, <1>8, <1>9, <1>3 DEF TraceIInv, TypeInv, SpanHasJoinedData

LEMMA QuietStep ==
    ASSUME TraceIInv, Terminated \/ UNCHANGED vars
    PROVE  TraceIInv'
<1>1. UNCHANGED <<traceMap, hpc, spanData, exported, wpc, added, loaded>>
  BY DEF Terminated, vars
<1>2. TraceTypeOK' /\ \A w \in Workers : WorkerInv(w)'
  BY <1>1 DEF TraceIInv, TraceTypeOK, WorkerInv
<1>3. \A w \in Workers : ReqOf[w] # NoRequest => TracedInv(w)'
  BY <1>1 DEF TraceIInv, TracedInv
<1>4. \A r \in Requests : MapInv(r)'
  BY <1>1 DEF TraceIInv, MapInv, AddedBy
<1>5. SpanHasJoinedData'
  BY <1>1 DEF TraceIInv, SpanHasJoinedData
<1>. QED
  BY <1>1, <1>2, <1>3, <1>4, <1>5 DEF TraceIInv

LEMMA MapInitInv == TraceInit => TraceIInv
<1> SUFFICES ASSUME TraceInit PROVE TraceIInv
  OBVIOUS
<1>1. TypeInv
  BY TypeInitInv
<1>2. \A r \in Requests : AddedBy(r) = {}
  BY DEF TraceInit, AddedBy, KV
<1>. QED
  BY <1>1, <1>2, TraceMapAssumption
     DEF TraceInit, TraceIInv, TypeInv, TracedInv, MapInv, SpanHasJoinedData

LEMMA MapStepInv ==
    ASSUME SoleWriters
    PROVE  TraceIInv /\ [TraceNext]_vars => TraceIInv'
<1> SUFFICES ASSUME TraceIInv, [TraceNext]_vars PROVE TraceIInv'
  OBVIOUS
<1>. QED
  BY StartStep, ServeStep, GetDataStep, RemoveStep, EndStep, BeginStep,
     UntracedStep, LoadStep, StoreStep, QuietStep DEF TraceNext

(* SpanDataComplete: when every request has its own trace ID and one     *)
(* goroutine adding to it that the handler waits for, the span gets, at   *)
(* handler.go:79, every key-value that goroutine added through            *)
(* AddKeyValueToTrace, for any number of requests, goroutines and adds.   *)
THEOREM SpanDataComplete ==
    ASSUME SoleWriters
    PROVE  TraceSpec => []SpanHasJoinedData
<1>1. TraceInit => TraceIInv
  BY MapInitInv
<1>2. TraceIInv /\ [TraceNext]_vars => TraceIInv'
  BY MapStepInv
<1>3. TraceIInv => SpanHasJoinedData
  BY DEF TraceIInv
<1>. QED
  BY <1>1, <1>2, <1>3, PTL DEF TraceSpec

(* MapDrained: under the same use, once every handler has run its         *)
(* deferred RemoveTraceData and every goroutine has finished, traceMap    *)
(* holds no entry: the process-wide map does not grow with the requests.  *)
THEOREM MapDrained ==
    ASSUME SoleWriters
    PROVE  TraceSpec => []NoLeak
<1>1. TraceIInv => NoLeak
  <2> SUFFICES ASSUME TraceIInv, Quiescent, NEW t \in Traces
               PROVE  traceMap[t] = Absent
    BY DEF NoLeak
  <2>1. CASE \E r \in Requests : TraceOf[r] = t
    BY <2>1 DEF TraceIInv, MapInv, Quiescent
  <2>2. CASE \A r \in Requests : TraceOf[r] # t
    BY <2>2 DEF TraceIInv
  <2>. QED
    BY <2>1, <2>2
<1>. QED
  BY <1>1, MapInitInv, MapStepInv, PTL DEF TraceSpec

=============================================================================
