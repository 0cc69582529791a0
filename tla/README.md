# Formal models of tpe_prebid_service

TLA+ models of the concurrent and stateful parts of this Prebid Server fork.
Where the code has a TTL cache, a lock and user callbacks, TLC model-checks the
interleavings on small instances, including a liveness property under the
fairness Go's `RWMutex` gives. TLAPS proves the main store invariants and the
locking invariants for every value of the constants.

## The system

| Part | Source | State | Operations | Interacts with |
|---|---|---|---|---|
| TTL cache | `src/cache/skanidlistcache/cache/cache.go` | `c.items` (key → value, int64 expiration), `ttl`, `capacity`, four hook fields, `sync.RWMutex c.mu` | `New`, `Get`, `Set` (sweeps expired entries when full, stores only below capacity), `Delete`, `Size`, `OnCacheHit/OnCacheMiss/OnSet/OnCleanup` | clock (`time.Now`), hooks (user code, may call back) |
| SKAN ID list client | `src/cache/skanidlistcache/client.go` | a capacity-1, one-hour cache keyed by the bidder URL | `Fetch` = `fetchFromCache`, on a miss `fetchFromBidder` (HTTP GET, may fail), then `Set` | the cache; the bidder's server; concurrent request goroutines |
| Trace data map | vendored `go-tracing/tracing/context.go`, `http/handler.go`, `httprouter/router.go`, `exporter.go` | global `syncmap.Map` trace ID → `[]KeyValue` | `AddInterfaceToTrace`, `AddKeyValueToTrace` (Load, append, Store), `GetTraceData`, `RemoveTraceData` (deferred in the handlers) | request goroutines, the span exporter |
| DV360 adapter | `src/adapters/dv360/dv360.go` | none (pure request/response translation) | `MakeRequests` (one request per impression), `MakeBids` (typed bids, zero prices dropped) | Prebid core |
| Monitoring and plumbing | `monitoring/newrelic/*`, `monitoring/tracing/tracer.go`, tracing `http/client.go`, `roundtripper.go`, `config.go`, `util.go`, `server/middleware.go`, `context/client.go`, `adapters/taurusx/usersync.go` | agent handles, configuration | start-up wiring, span and header forwarding | external SDKs |

What is hard to test here, and what a model checker reaches:

- **Cache locking.** Each method must pick the right lock mode. Hooks must run after the unlock, because a hook may call the cache back and `sync.RWMutex` is not reentrant.
- **Cache arithmetic and bounds.** The sweep is gated by `len == capacity`, not `>=`. A store needs `currSize < capacity`. The expiration `now + ttl` is an int64 and can wrap.
- **Lazy expiry.** Expired entries stay in the map, but they must be invisible to `Get` and `Size`.
- **Client check-then-act.** Concurrent `Fetch` calls miss together, and with capacity 1 a later `Set` is dropped.
- **Trace map.** The Load/append/Store updates are not atomic, and a late add after `RemoveTraceData` recreates an entry that nobody removes.
- **DV360 `MakeBids`.** `&b` takes the address of the range variable.

## Modules

| Module | Models | State ↔ code |
|---|---|---|
| `Cache` | the critical sections of `Get`, `Set`, `Delete`, `Size`, and `New`'s defaults | `items` = `c.items` (`NoItem` where absent); `now` = `time.Now().UnixNano()`; `out` = the return value and the hook arguments (`onSet` flag, `currSize`, `onCleanup` flag, `expiredKeys`). `Wrap` is the int64 conversion, with `MaxInt64` a constant. `Tick` advances the wall clock. |
| `EagerCache` | the abstract contract (spec §3, §4) | a store of live entries only; `Tick` expires entries eagerly; `Set` refuses only when every slot is live. Each operation's result is a literal record built by `Reply`. |
| `CacheLocking` | goroutines calling the cache through `c.mu`, and the hooks | each call is a frame `[op, key, val, pc, ok, cleanup]` on its goroutine's stack. `pc` runs `acquire → (drain) → cs → unlock → hooks → return`, in the order of the code. `readers`, `writer` and `wheld` follow Go's `RWMutex`: `Lock` takes `rw.w` and blocks new readers, then waits for the readers to drain. A firing hook may push a nested call. |
| `CacheProofs` | TLAPS proofs about `Cache` | — |
| `CacheLockingProofs` | TLAPS proofs about `CacheLocking` | — |
| `SkanClientProofs` | TLAPS proofs about `SkanClient` | — |
| `TraceMapProofs` | TLAPS proofs about `TraceMap` | — |
| `CacheRefinementProofs` | TLAPS proof that `Cache` implements `EagerCache` | — |
| `DV360BidsProofs` | TLAPS proofs about `DV360Bids` | — |
| `DV360RequestsProofs` | TLAPS proofs about `DV360Requests` | — |
| `SkanClient` | `client.go`: concurrent `Fetch` over the `Cache` store | `pc[p]` is where goroutine `p`'s `Fetch` is (`cache` → `bidder` → `set`). `fetchFromCache` is `Get(c.url)`. `fetchFromBidder` either returns the list the server serves now (`current`) or fails with `SKANIDList{}`. `StoreInCache` is `Set(c.url, list)`. `Publish` changes the served list, and `Tick` moves the clock. `served` records every list a 200 response carried. `NewClient`'s `New(1h, 1)` is the assumption `CapacityArg = 1`. |
| `TraceMap` | `context.go`'s `traceMap`, the traced handler, and `ExportSpan` | `traceMap[t]` is the set of key-values stored for trace `t`, or `Absent`. A handler runs `start → serve → getData → remove → end → done`, which is line 48 to 79 and then its two defers in reverse. A worker (an application goroutine holding the request's context) repeats `Load` then `Store` for each add. A worker without `TraceKey` returns at once (`AddUntraced`). `Joined[w]` says whether the handler waits for `w`. |
| `DV360Requests` | `MakeRequests` | One `Iterate` per loop iteration over `requestImpCopy`. An ext that fails to decode is a `BadInput` error and the loop continues. Otherwise `request.imp` becomes the one rewritten impression (`impCopy`: banner only with MRAID, video `rewarded` iff reward = 1, SKAN data iff supported and an ID survives the filter), and the whole request is marshalled into the body, or yields an error when its raw ext is invalid. |
| `DV360Bids` | `MakeBids` | `CheckResponse` covers the status and decode checks. `LoopBid` / `NextSeat` run the nested range loops. `mem` holds the Go variables that `b` can name (one per seat before Go 1.22, one per iteration after), and `bids` holds `&b` per kept bid. `ReturnBids` dereferences them, as Prebid core does later. |
| `MC_*` | TLC instances | model values, bounds, symmetry |

The critical section of `Cache` is one atomic step, because it runs under `c.mu`. `CacheLocking` shows that this is justified (`NoDataRace`). Within a section the clock does not move. `Set`'s sweep calls `time.Now()` once per item, so it could see a later time for later items. The model reads the clock once, which merges those outcomes into the extremes.

## Runs

| Run | Module / cfg | Checks | Result |
|---|---|---|---|
| `cache_invariants` | `MC_Cache` / `CacheInv.cfg` | `TypeOK`, `CapacityBound`, and `EagerSpec`: `Cache` implements `EagerCache` under `LiveView` (present and unexpired entries) | pass (≈15k states) |
| `cache_ttl_wrap` | `MC_Cache` / `CacheTTLWrap.cfg` | `EagerSpec` with a wrapping TTL | violation: a code bug, see below |
| `cache_locking` | `MC_CacheLocking` / `CacheLocking.cfg` | `LockTypeOK`, `NoDataRace`, `HooksRunUnlocked` | pass (≈2.8M states, about 40 s) |
| `cache_locking_liveness` | `MC_CacheLocking` / `CacheLockingLiveness.cfg` | `CallsReturn` (every call returns, nested hook calls included) under `LockFairSpec` | pass (≈104k states, about 30 s) |
| `client_fetch` | `MC_SkanClient` / `SkanClient.cfg` | `ClientTypeOK`, `OnlyServedLists`: the cache and every error-free `Fetch` only hold lists the bidder served | pass (≈6.6k states) |
| `trace_map` | `MC_TraceMap` / `TraceMap.cfg` | `SpanHasJoinedData` (a span holds every key-value its awaited goroutines added); `NoLeak` (the map is empty once all is done) | pass |
| `trace_lost_update` | `MC_TraceMap` / `TraceLostUpdate.cfg` | `SpanHasJoinedData` with two goroutines adding to one request | violation: a code bug |
| `trace_leak` | `MC_TraceMap` / `TraceLeak.cfg` | `NoLeak` with a goroutine the handler does not wait for | violation: a code bug |
| `trace_shared_trace` | `MC_TraceMap` / `TraceSharedTrace.cfg` | `SpanHasJoinedData` with two requests of one upstream trace | violation: a code bug |
| `dv360_bids` | `MC_DV360Bids` / `DV360Bids.cfg` | `BidsTypeOK`; `BidsAreResponseBids` (the result equals the reference: the non-zero bids of all seats, in order), under Go ≥ 1.22 loop variables | pass (≈2.4k states) |
| `dv360_bids_pre122` | `MC_DV360Bids` / `DV360BidsPre122.cfg` | `BidsAreResponseBids` with one loop variable per range statement | violation: a code bug |
| `dv360_requests` | `MC_DV360Requests` / `DV360Requests.cfg` | `RequestsTypeOK`, `OneRequestPerImp` (one request per decodable impression, in order, each rewritten correctly; an error for every other impression) | pass (≈320k states) |

Bounds:

- **`cache_invariants`.** This uses three keys, capacity 2 and TTL 2, with the clock running 0..5. So the store fills, entries expire, a sweep removes some entries but not all, and a key is set again after it expired. The 8-bit `MaxInt64` = 127 keeps `now + ttl` from wrapping.
- **`cache_ttl_wrap`.** This uses 4-bit integers (`MaxInt64` = 7) with TTL 6. The first `Set` at `now = 2` stores expiration −8.
- **`cache_locking`.**
  - Two goroutines make two top-level calls each, with hooks nested one deep. Every hook is registered.
  - The cache has capacity 1, so `onCleanup` fires. The keys are two model values.
  - Symmetry over goroutines and keys is sound, because no definition names a particular one.
  - Deadlock is checked. The only terminal state is "every goroutine made its calls and returned" (`Finished`), so a hook blocking on `c.mu` would be reported.
- **`cache_locking_liveness`.**
  - Two goroutines make one top-level call each, with hooks nested one deep, and the clock is frozen (`MaxTime = 0`).
  - One call each is enough: a reader and a writer contend, and a hook calls back in. Time only decides hit or miss, and with a frozen clock an entry that was set is a hit and a missing one a miss, so both paths of `Get` occur.
  - There is no symmetry, because TLC's liveness checking is unsound under symmetry.
  - Deadlock is not checked here. The `cache_locking` run checks it on the larger instance, and `CallsReturn` already fails in any state where a goroutine stops with a call pending.

- **`client_fetch`.** Two goroutines make two `Fetch` calls each, with two lists and TTL 2 on a clock of 0..5. So both goroutines miss together, one `Set` is dropped by the full cache, the entry expires and is refetched, and the bidder changes its list between a fetch and its store. Symmetry over goroutines and over lists is sound.
- **`trace_map`.** Two requests with their own trace IDs have one joined goroutine each, adding two key-values, plus one goroutine without a trace. The violation runs change one thing each: two goroutines in one request, a goroutine the handler does not wait for, or two requests under one trace ID with a single worker (so no two adds race, and only the other request's cleanup can remove the data). A single add each is enough to show them.
- **`dv360_bids`.** Up to two seats of up to two bids, priced 0 or 1, under every status and decode outcome. This includes a seat whose last bid is zero, which is the case that exposes `&b`.
- **`dv360_requests`.** Every bid request of up to two impressions, over every decode outcome, two regions and rewards {0, 1, 2}.

Each property of a passing run has a mutant, a plausible bug in the mapped definition, that TLC catches:

| Mutant | Caught by |
|---|---|
| `Get` returning the item rather than its value | `TypeOK` |
| `Set` comparing the count of live entries with the capacity instead of sweeping the expired ones | `CapacityBound` |
| `Get` ignoring `expired()` | `EagerSpec` |
| every method unlocking with `RUnlock` | `LockTypeOK` |
| `Delete` taking the read lock | `NoDataRace` |
| hooks run before the unlock | `HooksRunUnlocked` |
| `Get`'s miss path returning without `c.mu.RUnlock()` | `CallsReturn` |
| `fetchFromCache` ignoring `found` | `ClientTypeOK` |
| `Fetch` going on to `Set` after a bidder error | `OnlyServedLists` |
| `Store` dropping the loaded slice | `SpanHasJoinedData` |
| the deferred `RemoveTraceData` missing | `NoLeak` |
| `&b` taken of the next element (`CellOf`) | `BidsTypeOK` |
| the seat loop left one seat early | `BidsAreResponseBids` |
| the reward passed through unnormalised | `RequestsTypeOK` |
| SKAN marked sent without a surviving ID | `OneRequestPerImp` |

### Fairness

`LockFairSpec` adds fairness to `LockSpec` for each goroutine. Nothing is assumed of `Call` or `Tick`: a goroutine need not call the cache again, and the clock need not move.

- **Strong fairness of `RLock` and `Lock`.** A goroutine blocked on `c.mu` is admitted when the lock is free infinitely often, even if it is not free continuously. Go's `RWMutex` justifies this:
  - `Unlock` releases every reader that queued behind the writer before another writer can take the lock.
  - A pending writer blocks new readers, so readers cannot starve it.
  - The internal `sync.Mutex` switches to starvation mode after a waiter has waited 1 ms, and then hands the lock to waiters in FIFO order.
- **Weak fairness of the other steps of a goroutine** (`Drain`, the critical section, the unlock, a hook, the return). The Go scheduler eventually runs every runnable goroutine, and none of these steps blocks.

### Finding: the expiration overflows

`newItem` computes `time.Now().Add(ttl).UnixNano()`. `New` accepts any positive `time.Duration`. For a TTL within about 292 − 56 years of the int64 limit, the sum wraps to a negative number. Every entry is then expired the moment it is stored, and `Get` always misses. The spec says an entry lives until insertion time + TTL. The fix is to clamp the expiration to `math.MaxInt64`, or to reject such TTLs in `New`.

### Findings in the trace map

- **Lost update** (`context.go:77`, `:85`). `AddKeyValueToTrace` runs `Load`, append and `Store` with nothing held between them. When two goroutines of one request add at once, the second `Store` overwrites the first one's key-value, so the span misses data.
- **Shared trace ID** (`handler.go:51`, `:57`). The span is `ChildOf` the caller's span context, so requests of one upstream trace share a trace ID, and the map is keyed by that ID alone. The first of two concurrent requests to return deletes the other's data before that one reads it at line 79. `trace_shared_trace` shows it with `MC_TraceMap`'s `Shared*` definitions: two requests of one trace, and one worker, in the first request only. The second request returns and its `RemoveTraceData` empties the entry after the worker stored into it, so the first request's span misses the worker's key-value.
- **Leak** (`context.go:85`). An add by a goroutine that outlives the handler comes after the deferred `RemoveTraceData` and recreates the entry. Nothing removes it, so the process-wide map grows.

### Findings in the DV360 adapter

- **`&b` aliasing** (`dv360.go:272`). Before Go 1.22, a range statement has one variable `b`. Every `TypedBid` of a seat then points to the seat's last bid, and that bid is returned once per kept bid, even when its own price is 0. The vendored dependencies date the build to a pre-1.22 toolchain. With per-iteration variables the code is correct (`dv360_bids`).

## Proofs (TLAPS: `CacheProofs`, `CacheLockingProofs`, `SkanClientProofs`, `TraceMapProofs`, `CacheRefinementProofs`, `DV360BidsProofs`, `DV360RequestsProofs`)

The constants are assumed to satisfy these named assumptions of `Cache`:

- `Keys` is a finite non-empty set.
- The arguments of `New` are integers.
- The defaults are positive.
- `MaxTime <= MaxInt64`.
- `NoItem` and `None` are distinct from the data.

| Theorem | Proves | Argument |
|---|---|---|
| `TypeCorrect` | `Spec => []TypeOK` | `TypeOK` is inductive. The only subtle step is `Set`, where the sweep keeps the type (`SweptShrinks`) and `newItem` lands in the int64 range (`WrapInRange`). |
| `CapacityBounded` | `Spec => []CapacityBound` | Proved through the inductive invariant `IInv == TypeOK /\ CapacityBound`. The type is needed so that `Present` is a finite subset of `Keys` and `Cardinality` is a number. `Set` stores only when the size after the sweep is below the capacity, and adding one key raises the size by at most one (`FS_AddElement`). The sweep and `Delete` only remove keys (`FS_Subset`, `FS_RemoveElement`). |

The lemmas `PresentStore`, `PresentRemove` and `PresentFinite` say what storing and removing do to the set of present keys.

`CacheLockingProofs` assumes `LockingAssumption`: `MaxCalls` is a natural, `MaxDepth` is positive, `Hooks` are hook names and `NoProc` is not a goroutine. It proves the following for any number of goroutines, keys and values.

| Theorem | Proves |
|---|---|
| `LockTypeCorrect` | `LockSpec => []LockTypeOK` |
| `NoDataRaceFree` | `LockSpec => []NoDataRace` |
| `HooksUnlocked` | `LockSpec => []HooksRunUnlocked` |

None of the three properties is inductive by itself. All three follow from one inductive invariant, `LockIInv`, which ties the lock state to the call stacks:

- **`readers[p]`.** This is 1 exactly when `p`'s innermost frame holds the read lock (`ReadHeld`: a `Get` or `Size` at `cs` or `unlock`), and 0 otherwise.
- **`writer`.** `writer = p` exactly when `p`'s innermost frame owns the writer mutex (`WriteOwned`: a `Set` or `Delete` at `drain`, `cs` or `unlock`).
- **`wheld`.** This holds exactly when the writer has passed the drain. While it holds, no goroutine has a read lock.
- **Outer frames.** Every frame below the top of a stack is at `onCleanup` or `return`, so it holds nothing. Every frame is consistent with its operation's flow (`Consistent`), and a stack is never deeper than `MaxDepth`.

The argument proceeds as follows:

- `InitInv` shows that the initial states satisfy `LockIInv`.
- There is one lemma per action (`CallStep`, `RLockStep`, `LockStep`, `DrainStep`, `CriticalSectionStep`, `UnlockStep`, `HookStep`, `ReturnStep`, `QuietStep`). Each shows that its step keeps `LockIInv`, and `StepInv` combines them.
- The facts about the control flow of each method (`FlowFacts`, `HookFacts`) are proved once, by cases on the operation. The facts about replacing or pushing a frame (`SetTopShape`, `OthersKeep`) are proved once as well.
- `NoDataRace` follows from `LockIInv`. A writer at `cs` is `writer`, so `wheld` holds and all `readers` are 0. A second goroutine at `cs` would have to hold either a read lock or the writer mutex.
- `HooksRunUnlocked` follows because a frame at a hook pc is neither `ReadHeld` nor `WriteOwned`.

### `SkanClientProofs`

These proofs hold for any goroutines, lists and `MaxFetches`, under `ClientAssumption`: the store's values are the lists plus the distinct `EmptyList`, `CapacityArg = 1` and `TTLArg > 0` as in `NewClient`, and `MaxFetches` is a natural. They reuse the `Cache` lemmas of `CacheProofs`.

| Theorem | Proves |
|---|---|
| `ClientTypeCorrect` | `ClientSpec => []ClientTypeOK` |
| `ServedListsOnly` | `ClientSpec => []OnlyServedLists` |

`OnlyServedLists` is not inductive. `StoreInCache` writes `got[p]` into both the cache and `res[p]`, so the invariant must also say what `got[p]` is. The inductive invariant `ClientIInv` adds that a goroutine at `set` carries a list in `served`. The proof goes step by step:

- `fetchFromBidder` reaches `set` only on a 200 response, and that response adds its list to `served`.
- `served` only grows.
- A cache hit returns the value of a stored entry.
- `Set` keeps every stored value inside any set that holds the new value (`SetKeepsValues`). Its sweep only drops entries.

### `TraceMapProofs`

`TraceTypeCorrect` (`TraceSpec => []TraceTypeOK`) holds for every instance. No run checks `TraceTypeOK`: the code tests `ok` before it uses a loaded entry, so no plausible change to it breaks the type, and the theorem is kept as the base of the two below. It goes through `TypeInv`, which ties each worker's add counter to its pc: a worker at `load` or `store` has `added < Adds`. Without that tie, `Store`'s increment could leave `0 .. Adds`. `AbsentAssumption` says that the `Absent` marker is not a set of key-values, just as `nil` is not a slice.

`SpanDataComplete` (`[]SpanHasJoinedData`) and `MapDrained` (`[]NoLeak`) are proved under the hypothesis `SoleWriters`, which is the use the code was written for:

- every request has its own trace ID;
- at most one worker adds to a request's trace;
- the handler waits for that worker.

Each condition is needed:

- `trace_lost_update` breaks the second one.
- `trace_leak` breaks the third.
- `trace_shared_trace` breaks the first (see the findings).

So these theorems say that the findings are the only ways the properties fail.

The inductive invariant `TraceIInv` holds:

- `TypeInv`.
- `TracedInv`: a traced worker loads and stores only while its handler is at `serve`, and it has finished once the handler has moved past `serve`. Between its `Load` and its `Store`, the value it loaded is still the map's entry. This is the fact that a second writer breaks.
- `MapInv`: the entry of a request's trace is exactly `AddedBy(r)`, the key-values its worker has added, or `Absent` when there are none or once `RemoveTraceData` has run.
- A trace of no request has no entry.
- `SpanHasJoinedData` itself.

The proof has one lemma per action, and `MapStepInv` combines them. `Start`, `Serve` and `End` share `HandlerStep`. At `GetData`, every worker has finished (`AddedByDone`), so `GetTraceData` returns all it added. `Store` extends `AddedBy(r)` by one key-value (`AddedByStep`), and no other request's entry changes (`OwnTrace`).

### `CacheRefinementProofs`

`CacheRefinesEager` proves `Spec => EagerSpec` for every key set, TTL and capacity, under the hypothesis `NoWrap == MaxTime + ttl <= MaxInt64`. The hypothesis is needed: `cache_ttl_wrap` shows the refinement failing when `now + ttl` wraps. The program's int64 nanosecond clock satisfies it for any realistic TTL, and `CacheInv.cfg` does too (5 + 2 ≤ 127). It is a hypothesis of the theorem and not an `ASSUME`, so `cache_ttl_wrap` can still run the module without it.

The proof follows the usual three steps:

- `Spec => []IInv`, from `TypeCorrect` and `CapacityBounded`.
- `Init => Abs!Init` (`InitRefines`).
- `IInv /\ [Next]_vars => [Abs!Next]_Abs!vars` (`StepRefines`), with one lemma per action.

The mapping `LiveView` shows only present, unexpired entries. `LiveKeysView` says that its live keys are `Live(items)`. Under `NoWrap`, `newItem` stores exactly `now + ttl`, which is not yet expired (`WrapIdentity`, `NewItemExact`). The step lemmas are:

- **`GetRefines`.** An expired item reads as absent on both sides.
- **`DeleteRefines`, `SizeRefines`.** `Size` counts `Live(items)`, which is the cardinality of the abstract store.
- **`SetRefines`.** This is the one real argument. When the map is full, the sweep leaves exactly the live entries, so the concrete test `len(c.items) < capacity` after the sweep is the abstract test "fewer live entries than capacity". When the map is not full, both sides store.
- **`TickRefines`.** Time moves on both sides. The entries that expire leave `LiveView`, just as eager expiry removes them.

`EagerCache` states its results as literal records (`Reply`). The provers cannot use a record `EXCEPT` in an equality, so the results are literal records to make them comparable.

### `DV360BidsProofs`

These theorems hold for every bound on seats and bids and every set of prices, under `BidsAssumption`.

| Theorem | Proves |
|---|---|
| `BidsTypeCorrect` | `BidsSpec => []BidsTypeOK`, under either loop-variable semantics |

`BidsTypeOK` is strengthened by `PointersSet`. `ReturnBids` dereferences every `&b`, and its result is typed only if each pointer's cell already holds a bid. The cell is written in the same step that appends the pointer. `SeatBidsShape` bounds a decoded response by `MaxSeats` and `MaxBids`, through `FunctionIsSeq`.

### `DV360RequestsProofs`

These theorems hold for every `MaxImps`, every set of regions and every set of rewards, under `RequestsAssumption`.

| Theorem | Proves |
|---|---|
| `RequestsTypeCorrect` | `RequestsSpec => []RequestsTypeOK` |
| `RequestsAccounted` | `RequestsSpec => []ImpsAccounted` |

`ImpsAccounted` is the part of `OneRequestPerImp` that does not mention `SelectSeq`. When `MakeRequests` returns, there is one request or one error per impression, one impression per request body, and no request at all when the request does not marshal. Both theorems rest on `LoopAccounted`:

- `i <= len(requestImpCopy) <= MaxImps`, which is what keeps `i` in range.
- `Len(requestData) + Len(errs) = i`.
- Every body holds one impression.
- While `extValid` is false, there are no requests.

`IterateIInv` proves the step with one case per branch of the loop: a bad ext, marshalled, and not marshalled.

### What stays model-checked

Some properties are only model-checked, for these reasons:

- **The liveness property `CallsReturn`.** Liveness under fairness and `ENABLED` are out of reach of the provers used here.
- **`OneRequestPerImp` (beyond `ImpsAccounted`) and `BidsAreResponseBids`.** Both compare the loop's output with a reference built by `SelectSeq` and `FlattenSeq`. These are recursive functions over the whole sequence. Relating them to a loop that has reached index `i` needs their unfolding on prefixes, and that takes induction over sequences. The library's induction theorems take an operator parameter, which the installed provers cannot instantiate. `ImpsAccounted` is the part of `OneRequestPerImp` that avoids the reference, and it is proved.
- **The finding runs.** A violation is shown by TLC's counterexample.

## Not modelled, and why

- **Hook registration.** `OnCacheHit` and the other setters write the hook fields without the lock. They are registered before the cache is shared, and `NewClient` registers none.
- **New Relic, the tracer provider, the HTTP client and round-tripper wrappers, `util.go` reflection, middleware, the context client, the TaurusX user sync.** These forward to external SDKs or run once at start-up. They have no shared state to interleave.
  - `newrelic/*` and `server/middleware.go` build handler slices, and the router outside `src/` applies them. Their order of application is not in this repository.
  - `tracer.go` only configures the SDK. Its one consequential setting, `MaxAttributesPerSpan: 100`, is listed as a hazard: the key-values past the hundredth that the handler copies from `GetTraceData` are dropped. The dropping happens inside the OpenTelemetry SDK, which is not part of this repository: only the setting is.
  - `context/client.go` wraps an `http.Client` with no state of its own.

## Plan

Done:

- **First sitting.** `Cache`, `EagerCache`, `CacheLocking`, `SkanClient`, `TraceMap`, `DV360Requests` and `DV360Bids`, with their runs, mutants and findings, and the proofs of `TypeOK` and `CapacityBound`.
- **Second sitting.**
  - The liveness of `CacheLocking` (`CallsReturn` under `LockFairSpec`).
  - The TLAPS proofs of `LockTypeOK`, `NoDataRace` and `HooksRunUnlocked`.
  - The refinement check merged into `cache_invariants`.
- **Third sitting.** The proofs of `SkanClientProofs` (`ClientTypeOK`, `OnlyServedLists`) and `TraceMapProofs` (`TraceTypeOK` for every instance; `SpanHasJoinedData` and `NoLeak` under `SoleWriters`).
- **Fourth sitting.**
  - The refinement proof `CacheRefinesEager`.
  - `BidsTypeOK` proved (`DV360BidsProofs`).
  - `RequestsTypeOK` and `ImpsAccounted` proved (`DV360RequestsProofs`).
- **Fifth sitting.** The shared-trace cleanup race got its own run (`trace_shared_trace`). Checks that held only by the shape of the model were removed: a pointer-stability property of `DV360Bids` that `BidsAreResponseBids` already covers, and a check on the caller's `request.Imp`, which nothing reads after `MakeRequests`.

Left:

1. **The DV360 reference properties.** Proving them needs prefix lemmas for `SelectSeq` and `FlattenSeq`, which in turn need induction over sequences.
2. **Liveness of `SkanClient`.** Under fairness of the goroutines and a bidder that eventually answers, every `Fetch` returns.
3. **The stale `currSize` passed to `onSet`** (`cache.go:149`). This needs the reported size carried in the frame of `CacheLocking` and compared with `len(c.items)` when the hook runs.
