---------------------------- MODULE CacheLocking ----------------------------
(***************************************************************************)
(* Goroutines calling the cache of cache/skanidlistcache/cache/cache.go   *)
(* concurrently, with the sync.RWMutex c.mu and the user hooks.           *)
(*                                                                         *)
(* Each call is a frame on its goroutine's stack.  It acquires c.mu (the  *)
(* read lock for Get and Size, the write lock for Set and Delete), runs   *)
(* its critical section as the atomic step of Cache, releases the lock,   *)
(* and then runs its hooks.  A hook is user code and may itself call the  *)
(* cache (the hooks of such a nested call do nothing, which bounds the    *)
(* nesting).                                                               *)
(*                                                                         *)
(* The RWMutex follows the Go implementation: Lock first takes the writer *)
(* mutex rw.w, then announces itself pending, which blocks every new     *)
(* RLock, and waits for the readers already inside to leave.  Neither    *)
(* lock is reentrant.                                                      *)
(***************************************************************************)
EXTENDS Cache, Sequences

CONSTANTS
    Procs,      \* the goroutines calling the cache
    MaxCalls,   \* bound on the top-level calls of each goroutine
    MaxDepth,   \* bound on the nesting of calls made from hooks
    Hooks,      \* the hooks registered with OnCacheHit, OnCacheMiss, ...
    NoProc      \* no goroutine owns rw.w

ASSUME LockingAssumption ==
    /\ MaxCalls \in Nat /\ MaxDepth \in Nat \ {0}
    /\ Hooks \subseteq {"onCacheHit", "onCacheMiss", "onSet", "onCleanup"}
    /\ NoProc \notin Procs

VARIABLES
    readers,  \* readers[p]: how many read locks goroutine p holds
    writer,   \* the goroutine holding rw.w, or NoProc
    wheld,    \* whether writer has seen the readers drain (holds the lock)
    stack,    \* stack[p]: the calls of goroutine p, innermost last
    calls     \* calls[p]: top-level calls goroutine p has made

lockVars == <<readers, writer, wheld, stack, calls>>
allVars == <<items, now, out, readers, writer, wheld, stack, calls>>

CallOps == {"Get", "Set", "Delete", "Size"}

(* Mutation: Delete taking the read lock. *)
LockModeDeleteRead(op) ==
    IF op \in {"Get", "Size", "Delete"} THEN "read" ELSE "write"

(* Get and Size take c.mu.RLock, Set and Delete c.mu.Lock. *)
LockMode(op) == IF op \in {"Get", "Size"} THEN "read" ELSE "write"

(***************************************************************************)
(* The control flow of each method once it holds the lock: the critical  *)
(* section, the unlock, the hook calls, the return.  Get fires onCacheHit *)
(* or onCacheMiss at "getHook"; Set fires onSet, then onCleanup.          *)
(* Delete and Size unlock by defer and fire no hook.                      *)
(***************************************************************************)
FlowUnlockAfterHooks(op) ==
    CASE op = "Get" -> <<"cs", "getHook", "unlock", "return">>
      [] op = "Set" -> <<"cs", "onSet", "onCleanup", "unlock", "return">>
      [] OTHER      -> <<"cs", "unlock", "return">>

Flow(op) ==
    CASE op = "Get" -> <<"cs", "unlock", "getHook", "return">>
      [] op = "Set" -> <<"cs", "unlock", "onSet", "onCleanup", "return">>
      [] OTHER      -> <<"cs", "unlock", "return">>

HookPCs == {"getHook", "onSet", "onCleanup"}
PCs == {"acquire", "drain", "cs", "unlock", "return"} \cup HookPCs

(* The pc that follows pc in the flow of op. *)
After(op, pc) ==
    LET f == Flow(op)
        i == CHOOSE j \in 1 .. Len(f) : f[j] = pc
    IN  f[i + 1]

Frame == [op : CallOps, key : Keys, val : Vals, pc : PCs,
          ok : BOOLEAN, cleanup : BOOLEAN]

NewFrame(op, k, v) ==
    [op |-> op, key |-> k, val |-> v, pc |-> "acquire", ok |-> FALSE,
     cleanup |-> FALSE]

Top(p) == stack[p][Len(stack[p])]

(* Replace the innermost frame of p. *)
SetTop(p, f) == [stack EXCEPT ![p] = [@ EXCEPT ![Len(@)] = f]]

At(p, pc) == stack[p] # <<>> /\ Top(p).pc = pc

(* Whether the hook at the current pc of frame f is registered and fires. *)
Fires(f) ==
    \/ f.pc = "getHook" /\ f.ok /\ "onCacheHit" \in Hooks
    \/ f.pc = "getHook" /\ ~f.ok /\ "onCacheMiss" \in Hooks
    \/ f.pc = "onSet" /\ f.ok /\ "onSet" \in Hooks
    \/ f.pc = "onCleanup" /\ f.cleanup /\ "onCleanup" \in Hooks

LockTypeOK ==
    /\ TypeOK
    /\ readers \in [Procs -> 0 .. MaxDepth]
    /\ writer \in Procs \cup {NoProc}
    /\ wheld \in BOOLEAN
    /\ stack \in [Procs -> Seq(Frame)]
    /\ \A p \in Procs : Len(stack[p]) <= MaxDepth
    /\ calls \in [Procs -> 0 .. MaxCalls]

LockInit ==
    /\ Init
    /\ readers = [p \in Procs |-> 0]
    /\ writer = NoProc
    /\ wheld = FALSE
    /\ stack = [p \in Procs |-> <<>>]
    /\ calls = [p \in Procs |-> 0]

(* A goroutine with nothing on its stack calls the cache. *)
Call(p, op, k, v) ==
    /\ stack[p] = <<>>
    /\ calls[p] < MaxCalls
    /\ stack' = [stack EXCEPT ![p] = <<NewFrame(op, k, v)>>]
    /\ calls' = [calls EXCEPT ![p] = @ + 1]
    /\ UNCHANGED <<items, now, out, readers, writer, wheld>>

(* RLock: blocks while a writer holds rw.w, pending or holding. *)
RLock(p) ==
    /\ At(p, "acquire")
    /\ LockMode(Top(p).op) = "read"
    /\ writer = NoProc
    /\ readers' = [readers EXCEPT ![p] = @ + 1]
    /\ stack' = SetTop(p, [Top(p) EXCEPT !.pc = Flow(Top(p).op)[1]])
    /\ UNCHANGED <<items, now, out, writer, wheld, calls>>

(* Lock, first half: take rw.w and announce a pending writer. *)
Lock(p) ==
    /\ At(p, "acquire")
    /\ LockMode(Top(p).op) = "write"
    /\ writer = NoProc
    /\ writer' = p
    /\ stack' = SetTop(p, [Top(p) EXCEPT !.pc = "drain"])
    /\ UNCHANGED <<items, now, out, readers, wheld, calls>>

(* Lock, second half: wait until no reader is left inside. *)
Drain(p) ==
    /\ At(p, "drain")
    /\ \A q \in Procs : readers[q] = 0
    /\ wheld' = TRUE
    /\ stack' = SetTop(p, [Top(p) EXCEPT !.pc = Flow(Top(p).op)[1]])
    /\ UNCHANGED <<items, now, out, readers, writer, calls>>

(* The critical section: one step of Cache on the store. *)
CriticalSection(p) ==
    LET f == Top(p) IN
    /\ At(p, "cs")
    /\ \/ f.op = "Get" /\ Get(f.key)
       \/ f.op = "Set" /\ Set(f.key, f.val)
       \/ f.op = "Delete" /\ Delete(f.key)
       \/ f.op = "Size" /\ Size
    /\ stack' = SetTop(p, [f EXCEPT !.pc = After(f.op, "cs"), !.ok = out'.ok,
                                    !.cleanup = out'.cleanup])
    /\ UNCHANGED <<readers, writer, wheld, calls>>

(* Mutation: every method releasing with c.mu.RUnlock. *)
UnlockReadOnly(p) ==
    LET f == Top(p) IN
    /\ At(p, "unlock")
    /\ readers' = [readers EXCEPT ![p] = @ - 1]
    /\ stack' = SetTop(p, [f EXCEPT !.pc = After(f.op, "unlock")])
    /\ UNCHANGED <<items, now, out, writer, wheld, calls>>

(* Mutation: the miss path of Get returning without its c.mu.RUnlock. *)
UnlockMissingOnMiss(p) ==
    LET f == Top(p) IN
    /\ At(p, "unlock")
    /\ IF LockMode(f.op) = "read"
         THEN /\ readers' = [readers EXCEPT ![p] = IF f.op = "Get" /\ ~f.ok
                                                    THEN @ ELSE @ - 1]
              /\ UNCHANGED <<writer, wheld>>
         ELSE /\ writer' = NoProc
              /\ wheld' = FALSE
              /\ UNCHANGED readers
    /\ stack' = SetTop(p, [f EXCEPT !.pc = After(f.op, "unlock")])
    /\ UNCHANGED <<items, now, out, calls>>

(* RUnlock or Unlock, by the mode the method locked in. *)
Unlock(p) ==
    LET f == Top(p) IN
    /\ At(p, "unlock")
    /\ IF LockMode(f.op) = "read"
         THEN /\ readers' = [readers EXCEPT ![p] = @ - 1]
              /\ UNCHANGED <<writer, wheld>>
         ELSE /\ writer' = NoProc
              /\ wheld' = FALSE
              /\ UNCHANGED readers
    /\ stack' = SetTop(p, [f EXCEPT !.pc = After(f.op, "unlock")])
    /\ UNCHANGED <<items, now, out, calls>>

(* A hook that is nil or whose flag is unset is skipped; one that fires   *)
(* either returns at once or calls the cache, if the nesting allows.      *)
Hook(p) ==
    LET f == Top(p)
        g == [f EXCEPT !.pc = After(f.op, f.pc)]
    IN  /\ stack[p] # <<>>
        /\ f.pc \in HookPCs
        /\ \/ stack' = SetTop(p, g)
           \/ /\ Fires(f)
              /\ Len(stack[p]) < MaxDepth
              /\ \E op \in CallOps, k \in Keys, v \in Vals :
                    stack' = [stack EXCEPT ![p] = Append(SetTop(p, g)[p],
                                                          NewFrame(op, k, v))]
        /\ UNCHANGED <<items, now, out, readers, writer, wheld, calls>>

Return(p) ==
    /\ At(p, "return")
    /\ stack' = [stack EXCEPT ![p] = SubSeq(@, 1, Len(@) - 1)]
    /\ UNCHANGED <<items, now, out, readers, writer, wheld, calls>>

(* Every goroutine has made all its calls and returned from them. *)
Finished ==
    /\ \A p \in Procs : stack[p] = <<>> /\ calls[p] = MaxCalls
    /\ UNCHANGED allVars

LockNext ==
    \/ \E p \in Procs, op \in CallOps, k \in Keys, v \in Vals : Call(p, op, k, v)
    \/ \E p \in Procs : RLock(p) \/ Lock(p) \/ Drain(p)
    \/ \E p \in Procs : CriticalSection(p) \/ Unlock(p)
    \/ \E p \in Procs : Hook(p) \/ Return(p)
    \/ Tick /\ UNCHANGED lockVars
    \/ Finished

LockSpec == LockInit /\ [][LockNext]_allVars

(***************************************************************************)
(* The scheduling c.mu and the Go runtime guarantee a goroutine that is   *)
(* ready to run.  Acquiring is strongly fair: Unlock admits every reader  *)
(* blocked in RLock before another writer can take the lock, and a        *)
(* sync.Mutex waiter that has waited over 1ms gets rw.w handed to it      *)
(* (starvation mode), so a goroutine the lock is free for again and again *)
(* gets it.  Every other step of a call is weakly fair: it stays enabled  *)
(* until taken (Drain, since a pending writer keeps new readers out).     *)
(* Calling the cache, and the clock, are not: a goroutine may stop making *)
(* calls at any time.                                                      *)
(***************************************************************************)
LockFairness ==
    \A p \in Procs :
        /\ SF_allVars(RLock(p)) /\ SF_allVars(Lock(p))
        /\ WF_allVars(Drain(p) \/ CriticalSection(p) \/ Unlock(p) \/ Hook(p)
                      \/ Return(p))

LockFairSpec == LockSpec /\ LockFairness

-----------------------------------------------------------------------------
(***************************************************************************)
(* NoDataRace: while a goroutine is inside the critical section of Set or *)
(* Delete, which write c.items, no other goroutine is inside any critical *)
(* section.  A Go map read concurrently with a write is a fatal runtime  *)
(* error, so this is what the choice of RLock or Lock in every method,   *)
(* together with the writer preference of the RWMutex, must ensure.       *)
(***************************************************************************)
WritesItems(op) == op \in {"Set", "Delete"}

NoDataRace ==
    \A p, q \in Procs :
        (p # q /\ At(p, "cs") /\ WritesItems(Top(p).op)) => ~At(q, "cs")

(***************************************************************************)
(* HooksRunUnlocked: a goroutine whose hook is about to run holds neither *)
(* the read lock nor the writer mutex of c.mu (the "never hold the lock   *)
(* for user defined callbacks" rule of Get and Set, spec section 4.5).    *)
(* A hook calling back into the cache would otherwise block forever.      *)
(***************************************************************************)
HooksRunUnlocked ==
    \A p \in Procs :
        (stack[p] # <<>> /\ Top(p).pc \in HookPCs /\ Fires(Top(p)))
            => (readers[p] = 0 /\ writer # p)

(***************************************************************************)
(* CallsReturn: every call of the cache returns, hooks and the calls they *)
(* make included.  It fails if a method leaves c.mu held on one of its    *)
(* paths (Get unlocks on two), if a hook runs under the lock and calls    *)
(* back into the cache (RWMutex is not reentrant), or if a writer waiting *)
(* for readers to drain can be starved.                                   *)
(***************************************************************************)
CallsReturn == \A p \in Procs : stack[p] # <<>> ~> stack[p] = <<>>

=============================================================================
