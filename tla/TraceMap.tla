------------------------------ MODULE TraceMap ------------------------------
(***************************************************************************)
(* The trace data map of the vendored go-tracing library                 *)
(* (tracing/context.go), with the request handler that owns an entry      *)
(* (tracing/http/handler.go; tracing/httprouter/router.go is the same     *)
(* code) and the exporter that reads it (tracing/exporter.go).            *)
(*                                                                         *)
(* traceMap is a syncmap.Map: each Load, Store and Delete is atomic, but  *)
(* AddKeyValueToTrace and AddInterfaceToTrace Load the trace's slice,     *)
(* extend it and Store it back as two separate map operations.  A         *)
(* handler serves one request: it starts the span (whose trace ID is      *)
(* inherited from the caller's span context, so two requests may share    *)
(* one), runs the application handler, copies GetTraceData into the span, *)
(* and on return runs its defers in reverse: RemoveTraceData, then        *)
(* span.End, which exports the span through ExportSpan.                   *)
(*                                                                         *)
(* The application's goroutines that add data are the workers.  A worker *)
(* is joined when the application handler waits for it before returning, *)
(* and detached otherwise.  Each worker adds Adds key-values one after    *)
(* the other; the key-value <<w, i>> is the i-th added by worker w.  The  *)
(* order of a trace's slice is not modelled: the properties are about     *)
(* which key-values it holds.                                             *)
(***************************************************************************)
EXTENDS Naturals, FiniteSets

CONSTANTS
    Requests,   \* the requests served by the traced handler
    Traces,     \* the trace IDs
    TraceOf,    \* TraceOf[r]: the trace ID of r's span
    Workers,    \* the goroutines that add data to a trace
    ReqOf,      \* ReqOf[w]: the request whose context w carries, or NoRequest
    Joined,     \* Joined[w]: whether the handler of ReqOf[w] waits for w
    Adds,       \* the key-values each worker adds
    NoRequest,  \* a context without tracing.TraceKey
    Absent      \* traceMap has no entry for the trace

ASSUME TraceMapAssumption ==
    /\ TraceOf \in [Requests -> Traces]
    /\ ReqOf \in [Workers -> Requests \cup {NoRequest}]
    /\ Joined \in [Workers -> BOOLEAN]
    /\ Adds \in Nat
    /\ NoRequest \notin Requests

KV == Workers \X (1 .. Adds)

(* No entry is not a slice of key-values. *)
ASSUME AbsentAssumption == \A s \in SUBSET KV : s # Absent

VARIABLES
    traceMap,  \* traceMap[t]: the key-values stored for t, or Absent
    hpc,       \* hpc[r]: where the handler of r is
    spanData,  \* spanData[r]: the trace data set on r's span (handler.go:79)
    exported,  \* exported[r]: the trace data ExportSpan adds to r's span
    wpc,       \* wpc[w]: where worker w is
    added,     \* added[w]: the key-values w has finished adding
    loaded     \* loaded[w]: what the Load of w's current add returned

vars == <<traceMap, hpc, spanData, exported, wpc, added, loaded>>

HandlerPCs == {"start", "serve", "getData", "remove", "end", "done"}
WorkerPCs == {"idle", "load", "store", "done"}

TraceTypeOK ==
    /\ traceMap \in [Traces -> (SUBSET KV) \cup {Absent}]
    /\ hpc \in [Requests -> HandlerPCs]
    /\ spanData \in [Requests -> SUBSET KV]
    /\ exported \in [Requests -> SUBSET KV]
    /\ wpc \in [Workers -> WorkerPCs]
    /\ added \in [Workers -> 0 .. Adds]
    /\ loaded \in [Workers -> (SUBSET KV) \cup {Absent}]

TraceInit ==
    /\ traceMap = [t \in Traces |-> Absent]
    /\ hpc = [r \in Requests |-> "start"]
    /\ spanData = [r \in Requests |-> {}]
    /\ exported = [r \in Requests |-> {}]
    /\ wpc = [w \in Workers |-> "idle"]
    /\ added = [w \in Workers |-> 0]
    /\ loaded = [w \in Workers |-> Absent]

(* GetTraceData: the stored key-values, nil when there is no entry. *)
GetTraceData(t) == IF traceMap[t] = Absent THEN {} ELSE traceMap[t]

(* The next key-value worker w adds. *)
NextKV(w) == <<w, added[w] + 1>>
-----------------------------------------------------------------------------
(***************************************************************************)
(* The handler.  Start: tracer.Start, the trace ID, the deferred cleanup  *)
(* and the context carrying tracing.TraceKey.                             *)
(***************************************************************************)
Start(r) ==
    /\ hpc[r] = "start"
    /\ hpc' = [hpc EXCEPT ![r] = "serve"]
    /\ UNCHANGED <<traceMap, spanData, exported, wpc, added, loaded>>

(* h.ServeHTTP returns once it has started every worker of the request   *)
(* and every worker it waits for has finished.                             *)
Serve(r) ==
    /\ hpc[r] = "serve"
    /\ \A w \in Workers : ReqOf[w] = r => wpc[w] # "idle"
    /\ \A w \in Workers : ReqOf[w] = r /\ Joined[w] => wpc[w] = "done"
    /\ hpc' = [hpc EXCEPT ![r] = "getData"]
    /\ UNCHANGED <<traceMap, spanData, exported, wpc, added, loaded>>

(* span.SetAttributes(tracing.GetTraceData(traceID)...) *)
GetData(r) ==
    /\ hpc[r] = "getData"
    /\ spanData' = [spanData EXCEPT ![r] = GetTraceData(TraceOf[r])]
    /\ hpc' = [hpc EXCEPT ![r] = "remove"]
    /\ UNCHANGED <<traceMap, exported, wpc, added, loaded>>

(* Mutation: the deferred cleanup missing. *)
RemoveMissing(r) ==
    /\ hpc[r] = "remove"
    /\ hpc' = [hpc EXCEPT ![r] = "end"]
    /\ UNCHANGED <<traceMap, spanData, exported, wpc, added, loaded>>

(* The first deferred call: RemoveTraceData(traceID), a syncmap Delete. *)
Remove(r) ==
    /\ hpc[r] = "remove"
    /\ traceMap' = [traceMap EXCEPT ![TraceOf[r]] = Absent]
    /\ hpc' = [hpc EXCEPT ![r] = "end"]
    /\ UNCHANGED <<spanData, exported, wpc, added, loaded>>

(* The second: span.End, which exports the span; ExportSpan appends       *)
(* GetTraceData of the span's trace ID to its attributes.                 *)
End(r) ==
    /\ hpc[r] = "end"
    /\ exported' = [exported EXCEPT ![r] = GetTraceData(TraceOf[r])]
    /\ hpc' = [hpc EXCEPT ![r] = "done"]
    /\ UNCHANGED <<traceMap, spanData, wpc, added, loaded>>
-----------------------------------------------------------------------------
(***************************************************************************)
(* A worker.  It starts once its request's handler is serving, since it   *)
(* gets the context from the request; a worker of no request starts at   *)
(* any time.  A detached worker may outlive the handler.                 *)
(***************************************************************************)
Begin(w) ==
    /\ wpc[w] = "idle"
    /\ ReqOf[w] # NoRequest => hpc[ReqOf[w]] = "serve"
    /\ wpc' = [wpc EXCEPT ![w] = IF Adds = 0 THEN "done" ELSE "load"]
    /\ UNCHANGED <<traceMap, hpc, spanData, exported, added, loaded>>

(* A nil context, or one without tracing.TraceKey: AddKeyValueToTrace     *)
(* returns at once.                                                        *)
AddUntraced(w) ==
    /\ wpc[w] = "load"
    /\ ReqOf[w] = NoRequest
    /\ added' = [added EXCEPT ![w] = @ + 1]
    /\ wpc' = [wpc EXCEPT ![w] = IF added[w] + 1 = Adds THEN "done" ELSE "load"]
    /\ UNCHANGED <<traceMap, hpc, spanData, exported, loaded>>

(* val, ok := traceMap.Load(traceID) *)
Load(w) ==
    /\ wpc[w] = "load"
    /\ ReqOf[w] # NoRequest
    /\ loaded' = [loaded EXCEPT ![w] = traceMap[TraceOf[ReqOf[w]]]]
    /\ wpc' = [wpc EXCEPT ![w] = "store"]
    /\ UNCHANGED <<traceMap, hpc, spanData, exported, added>>

(* Mutation: storing the new key-value alone, whatever Load returned. *)
StoreOverwriting(w) ==
    /\ wpc[w] = "store"
    /\ traceMap' = [traceMap EXCEPT ![TraceOf[ReqOf[w]]] = {NextKV(w)}]
    /\ added' = [added EXCEPT ![w] = @ + 1]
    /\ wpc' = [wpc EXCEPT ![w] = IF added[w] + 1 = Adds THEN "done" ELSE "load"]
    /\ UNCHANGED <<hpc, spanData, exported, loaded>>

(* traceMap.Store(traceID, result): result is the loaded slice extended   *)
(* by the new key-value, or the new key-value alone if Load found none.   *)
Store(w) ==
    /\ wpc[w] = "store"
    /\ traceMap' = [traceMap EXCEPT ![TraceOf[ReqOf[w]]] =
                      IF loaded[w] = Absent THEN {NextKV(w)}
                                            ELSE loaded[w] \cup {NextKV(w)}]
    /\ added' = [added EXCEPT ![w] = @ + 1]
    /\ wpc' = [wpc EXCEPT ![w] = IF added[w] + 1 = Adds THEN "done" ELSE "load"]
    /\ UNCHANGED <<hpc, spanData, exported, loaded>>

(* Every handler has returned and every worker has finished. *)
Quiescent ==
    /\ \A r \in Requests : hpc[r] = "done"
    /\ \A w \in Workers : wpc[w] = "done"

Terminated == Quiescent /\ UNCHANGED vars

TraceNext ==
    \/ \E r \in Requests : Start(r) \/ Serve(r) \/ GetData(r)
    \/ \E r \in Requests : Remove(r) \/ End(r)
    \/ \E w \in Workers : Begin(w) \/ AddUntraced(w) \/ Load(w) \/ Store(w)
    \/ Terminated

TraceSpec == TraceInit /\ [][TraceNext]_vars
-----------------------------------------------------------------------------
(***************************************************************************)
(* SpanHasJoinedData: once the handler has copied the trace data into its *)
(* span, the span holds every key-value the workers it waited for added   *)
(* ("AddKeyValueToTrace adds a core.KeyValue type to the active Trace").  *)
(* It needs the Load and Store of one add not to be split by another add  *)
(* to the same trace, and no other request's cleanup to remove the entry *)
(* in between.                                                             *)
(***************************************************************************)
JoinedKVs(r) == {kv \in KV : ReqOf[kv[1]] = r /\ Joined[kv[1]]}

SpanHasJoinedData ==
    \A r \in Requests :
        hpc[r] \in {"remove", "end", "done"} => JoinedKVs(r) \subseteq spanData[r]

(***************************************************************************)
(* NoLeak: when every request has been served and every worker has        *)
(* finished, traceMap holds nothing ("cleanup trace data from memory",    *)
(* the deferred RemoveTraceData).  An add that lands after the cleanup    *)
(* recreates the entry, and nothing removes it again.                      *)
(***************************************************************************)
NoLeak == Quiescent => \A t \in Traces : traceMap[t] = Absent

=============================================================================
