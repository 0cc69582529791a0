------------------------- MODULE CacheLockingProofs -------------------------
(***************************************************************************)
(* Proofs about the locking of the cache in CacheLocking.tla, for every   *)
(* number of goroutines, keys, calls and nesting depth: no goroutine      *)
(* reads c.items while another writes it, and no hook runs under c.mu.    *)
(***************************************************************************)
EXTENDS CacheLocking, CacheProofs, SequenceTheorems, TLAPS

(* What the control flow of each method does after a given point. *)
LEMMA FlowFacts ==
    ASSUME NEW op \in CallOps
    PROVE  /\ Flow(op)[1] = "cs"
           /\ After(op, "cs") = "unlock"
           /\ After(op, "unlock") \in {"getHook", "onSet", "return"}
           /\ After(op, "unlock") = "getHook" => op = "Get"
           /\ After(op, "unlock") = "onSet" => op = "Set"
<1>1. CASE op = "Get"
  <2>1. Flow(op) = <<"cs", "unlock", "getHook", "return">>
    BY <1>1, Zenon DEF Flow
  <2>2. (CHOOSE j \in 1 .. 4 : Flow(op)[j] = "cs") = 1
    BY <2>1
  <2>3. (CHOOSE j \in 1 .. 4 : Flow(op)[j] = "unlock") = 2
    BY <2>1
  <2>. QED
    BY <1>1, <2>1, <2>2, <2>3 DEF After
<1>2. CASE op = "Set"
  <2>1. Flow(op) = <<"cs", "unlock", "onSet", "onCleanup", "return">>
    BY <1>2, Zenon DEF Flow
  <2>2. (CHOOSE j \in 1 .. 5 : Flow(op)[j] = "cs") = 1
    BY <2>1
  <2>3. (CHOOSE j \in 1 .. 5 : Flow(op)[j] = "unlock") = 2
    BY <2>1
  <2>. QED
    BY <1>2, <2>1, <2>2, <2>3 DEF After
<1>3. CASE op \in {"Delete", "Size"}
  <2>1. Flow(op) = <<"cs", "unlock", "return">>
    BY <1>3, Zenon DEF Flow
  <2>2. (CHOOSE j \in 1 .. 3 : Flow(op)[j] = "cs") = 1
    BY <2>1
  <2>3. (CHOOSE j \in 1 .. 3 : Flow(op)[j] = "unlock") = 2
    BY <2>1
  <2>. QED
    BY <1>3, <2>1, <2>2, <2>3 DEF After
<1>. QED
  BY <1>1, <1>2, <1>3 DEF CallOps

(* After a hook, a method either runs its next hook or returns. *)
LEMMA HookFacts ==
    ASSUME NEW op \in CallOps, NEW pc \in HookPCs,
           pc = "getHook" => op = "Get",
           pc \in {"onSet", "onCleanup"} => op = "Set"
    PROVE  /\ After(op, pc) \in {"onCleanup", "return"}
           /\ After(op, pc) = "onCleanup" => op = "Set"
<1>1. CASE op = "Get"
  <2>1. Flow(op) = <<"cs", "unlock", "getHook", "return">>
    BY <1>1, Zenon DEF Flow
  <2>2. pc = "getHook"
    BY <1>1 DEF HookPCs
  <2>3. (CHOOSE j \in 1 .. 4 : Flow(op)[j] = "getHook") = 3
    BY <2>1
  <2>. QED
    BY <2>1, <2>2, <2>3 DEF After
<1>2. CASE op = "Set"
  <2>1. Flow(op) = <<"cs", "unlock", "onSet", "onCleanup", "return">>
    BY <1>2, Zenon DEF Flow
  <2>2. pc \in {"onSet", "onCleanup"}
    BY <1>2 DEF HookPCs
  <2>3. (CHOOSE j \in 1 .. 5 : Flow(op)[j] = "onSet") = 3
    BY <2>1
  <2>4. (CHOOSE j \in 1 .. 5 : Flow(op)[j] = "onCleanup") = 4
    BY <2>1
  <2>. QED
    BY <1>2, <2>1, <2>2, <2>3, <2>4 DEF After
<1>. QED
  BY <1>1, <1>2 DEF HookPCs

-----------------------------------------------------------------------------
(***************************************************************************)
(* The inductive invariant.  Only the innermost call of a goroutine can   *)
(* hold c.mu: the calls below it are waiting for a hook to return, past   *)
(* their unlock.  A goroutine holds one read lock exactly while its       *)
(* innermost call is a Get or Size between RLock and RUnlock; it owns     *)
(* rw.w exactly while its innermost call is a Set or Delete between Lock  *)
(* and Unlock; the writer holds the lock (wheld) once it is past the      *)
(* drain, and then no goroutine holds a read lock.                        *)
(***************************************************************************)
ReadHeld(p) ==
    stack[p] # <<>> /\ LockMode(Top(p).op) = "read" /\ Top(p).pc \in {"cs", "unlock"}

WriteOwned(p) ==
    stack[p] # <<>> /\ LockMode(Top(p).op) = "write"
    /\ Top(p).pc \in {"drain", "cs", "unlock"}

(* A frame at a hook is a frame of the method that has that hook, and   *)
(* only Set and Delete wait for readers to drain.                          *)
Consistent(f) ==
    /\ f.pc = "drain" => LockMode(f.op) = "write"
    /\ f.pc = "getHook" => f.op = "Get"
    /\ f.pc \in {"onSet", "onCleanup"} => f.op = "Set"

ProcInv(p) ==
    /\ Len(stack[p]) <= MaxDepth
    /\ \A i \in 1 .. Len(stack[p]) : Consistent(stack[p][i])
    /\ \A i \in 1 .. Len(stack[p]) - 1 : stack[p][i].pc \in {"onCleanup", "return"}
    /\ readers[p] = IF ReadHeld(p) THEN 1 ELSE 0
    /\ WriteOwned(p) <=> writer = p

LockIInv ==
    /\ TypeOK
    /\ readers \in [Procs -> Nat]
    /\ writer \in Procs \cup {NoProc}
    /\ wheld \in BOOLEAN
    /\ stack \in [Procs -> Seq(Frame)]
    /\ calls \in [Procs -> 0 .. MaxCalls]
    /\ \A p \in Procs : ProcInv(p)
    /\ wheld <=> \E q \in Procs : writer = q /\ Top(q).pc \in {"cs", "unlock"}
    /\ wheld => \A q \in Procs : readers[q] = 0

LEMMA InitInv == LockInit => LockIInv
<1> SUFFICES ASSUME LockInit PROVE LockIInv
  OBVIOUS
<1>1. TypeOK
  BY TypeInit DEF LockInit
<1>2. \A p \in Procs : ProcInv(p)
  BY LockingAssumption DEF LockInit, ProcInv, ReadHeld, WriteOwned
<1>3. /\ readers \in [Procs -> Nat]
      /\ writer \in Procs \cup {NoProc}
      /\ wheld \in BOOLEAN
      /\ stack \in [Procs -> Seq(Frame)]
      /\ calls \in [Procs -> 0 .. MaxCalls]
  <2>1. <<>> \in Seq(Frame)
    OBVIOUS
  <2>2. stack \in [Procs -> Seq(Frame)]
    BY <2>1, Zenon DEF LockInit
  <2>3. calls \in [Procs -> 0 .. MaxCalls]
    BY LockingAssumption DEF LockInit
  <2>. QED
    BY <2>2, <2>3 DEF LockInit
<1>4. ~wheld /\ writer = NoProc
  BY DEF LockInit
<1>5. ~\E q \in Procs : writer = q
  BY <1>4, LockingAssumption
<1>. QED
  BY <1>1, <1>2, <1>3, <1>4, <1>5 DEF LockIInv

(* Replacing the innermost frame of p keeps the other frames and stacks. *)
LEMMA SetTopFacts ==
    ASSUME NEW p \in Procs, NEW f \in Frame,
           stack \in [Procs -> Seq(Frame)], stack[p] # <<>>
    PROVE  /\ SetTop(p, f) \in [Procs -> Seq(Frame)]
           /\ Len(SetTop(p, f)[p]) = Len(stack[p])
           /\ SetTop(p, f)[p][Len(stack[p])] = f
           /\ \A i \in 1 .. Len(stack[p]) - 1 : SetTop(p, f)[p][i] = stack[p][i]
           /\ \A q \in Procs \ {p} : SetTop(p, f)[q] = stack[q]
BY DEF SetTop

(* The innermost frame of a goroutine with a call in progress. *)
LEMMA TopFacts ==
    ASSUME LockIInv, NEW p \in Procs, stack[p] # <<>>
    PROVE  /\ Top(p) \in Frame
           /\ Consistent(Top(p))
           /\ Len(stack[p]) \in 1 .. MaxDepth
<1>1. stack[p] \in Seq(Frame) /\ ProcInv(p)
  BY DEF LockIInv
<1>2. Len(stack[p]) \in 1 .. MaxDepth
  BY <1>1 DEF ProcInv
<1>. QED
  BY <1>1, <1>2 DEF Top, ProcInv

(***************************************************************************)
(* A step of goroutine p leaves the invariant of every other goroutine q  *)
(* alone, as long as rw.w changes hands only between p and nobody.        *)
(***************************************************************************)
LEMMA OthersKeep ==
    ASSUME LockIInv, NEW p \in Procs,
           \A q \in Procs \ {p} : stack'[q] = stack[q] /\ readers'[q] = readers[q],
           \/ writer' = writer
           \/ writer = NoProc /\ writer' = p
           \/ writer = p /\ writer' = NoProc
    PROVE  \A q \in Procs \ {p} : ProcInv(q)'
<1> SUFFICES ASSUME NEW q \in Procs \ {p} PROVE ProcInv(q)'
  OBVIOUS
<1>1. ProcInv(q)
  BY DEF LockIInv
<1>2. writer' = q <=> writer = q
  BY LockingAssumption
<1>3. ReadHeld(q)' = ReadHeld(q) /\ WriteOwned(q)' = WriteOwned(q)
  BY DEF ReadHeld, WriteOwned, Top
<1>. QED
  BY <1>1, <1>2, <1>3 DEF ProcInv

-----------------------------------------------------------------------------
(* Call: a goroutine with an empty stack pushes a frame at "acquire". *)
LEMMA CallStep ==
    ASSUME LockIInv, NEW p \in Procs, NEW op \in CallOps, NEW k \in Keys,
           NEW v \in Vals, Call(p, op, k, v)
    PROVE  LockIInv'
<1> DEFINE f == NewFrame(op, k, v)
<1>1. f \in Frame /\ f.pc = "acquire" /\ Consistent(f)
  BY DEF NewFrame, Frame, PCs, Consistent
<1>2. stack' = [stack EXCEPT ![p] = <<f>>] /\ stack[p] = <<>>
  BY DEF Call
<1>3. stack' \in [Procs -> Seq(Frame)]
  BY <1>1, <1>2 DEF LockIInv
<1>4. ~ReadHeld(p) /\ ~WriteOwned(p)
  BY <1>2 DEF ReadHeld, WriteOwned
<1>5. readers[p] = 0 /\ writer # p
  BY <1>4 DEF LockIInv, ProcInv
<1>6. ProcInv(p)'
  <2>1. Len(stack'[p]) = 1 /\ stack'[p][1] = f /\ Top(p)' = f
    BY <1>2, <1>3 DEF Top, LockIInv
  <2>2. ~ReadHeld(p)' /\ ~WriteOwned(p)'
    BY <2>1, <1>1 DEF ReadHeld, WriteOwned
  <2>3. UNCHANGED <<readers, writer>>
    BY DEF Call
  <2>. QED
    BY <1>1, <1>5, <2>1, <2>2, <2>3, LockingAssumption DEF ProcInv
<1>7. \A q \in Procs \ {p} : ProcInv(q)'
  BY <1>2, OthersKeep DEF Call
<1>8. \A q \in Procs : writer = q => Top(q)' = Top(q)
  BY <1>2, <1>5 DEF Top
<1>9. /\ TypeOK' /\ readers' \in [Procs -> Nat] /\ writer' \in Procs \cup {NoProc}
      /\ wheld' \in BOOLEAN /\ calls' \in [Procs -> 0 .. MaxCalls]
  BY LockingAssumption DEF Call, LockIInv, TypeOK
<1>. QED
  <2>1. wheld' <=> \E q \in Procs : writer' = q /\ Top(q)'.pc \in {"cs", "unlock"}
    BY <1>8 DEF Call, LockIInv
  <2>. QED
    BY <1>3, <1>6, <1>7, <1>9, <2>1 DEF Call, LockIInv

(* Replacing the innermost frame by a frame of the same method keeps the *)
(* shape of the stacks.                                                    *)
LEMMA SetTopShape ==
    ASSUME LockIInv, NEW p \in Procs, NEW g \in Frame, stack[p] # <<>>,
           Consistent(g), stack' = SetTop(p, g)
    PROVE  /\ stack' \in [Procs -> Seq(Frame)]
           /\ Len(stack'[p]) <= MaxDepth
           /\ \A i \in 1 .. Len(stack'[p]) : Consistent(stack'[p][i])
           /\ \A i \in 1 .. Len(stack'[p]) - 1 : stack'[p][i].pc \in {"onCleanup", "return"}
           /\ stack'[p] # <<>> /\ Top(p)' = g
           /\ \A q \in Procs \ {p} : stack'[q] = stack[q]
<1>1. stack \in [Procs -> Seq(Frame)] /\ ProcInv(p)
  BY DEF LockIInv
<1>2. /\ SetTop(p, g) \in [Procs -> Seq(Frame)]
      /\ Len(SetTop(p, g)[p]) = Len(stack[p])
      /\ SetTop(p, g)[p][Len(stack[p])] = g
      /\ \A i \in 1 .. Len(stack[p]) - 1 : SetTop(p, g)[p][i] = stack[p][i]
      /\ \A q \in Procs \ {p} : SetTop(p, g)[q] = stack[q]
  BY <1>1, SetTopFacts
<1>3. Len(stack[p]) \in Nat \ {0}
  BY <1>1
<1>4. stack'[p] # <<>> /\ Top(p)' = g
  BY <1>2, <1>3 DEF Top
<1>5. Len(stack'[p]) <= MaxDepth
  BY <1>1, <1>2 DEF ProcInv
<1>6. \A i \in 1 .. Len(stack'[p]) : Consistent(stack'[p][i])
  BY <1>1, <1>2, <1>3 DEF ProcInv
<1>7. \A i \in 1 .. Len(stack'[p]) - 1 : stack'[p][i].pc \in {"onCleanup", "return"}
  BY <1>1, <1>2, <1>3 DEF ProcInv
<1>. QED
  BY <1>2, <1>4, <1>5, <1>6, <1>7

(* RLock: a Get or Size gets the read lock when no writer holds rw.w. *)
LEMMA RLockStep ==
    ASSUME LockIInv, NEW p \in Procs, RLock(p)
    PROVE  LockIInv'
<1> DEFINE f == Top(p)
           g == [f EXCEPT !.pc = Flow(f.op)[1]]
<1>1. stack[p] # <<>> /\ f.pc = "acquire" /\ LockMode(f.op) = "read"
      /\ writer = NoProc
  BY DEF RLock, At
<1>2. f \in Frame /\ Consistent(f)
  BY <1>1, TopFacts
<1>3. Flow(f.op)[1] = "cs"
  BY <1>2, FlowFacts DEF Frame
<1>4. g \in Frame /\ g.pc = "cs" /\ g.op = f.op /\ Consistent(g)
  BY <1>2, <1>3, Zenon DEF Frame, PCs, Consistent
<1>5. stack' = SetTop(p, g) /\ readers' = [readers EXCEPT ![p] = @ + 1]
      /\ UNCHANGED <<items, now, out, writer, wheld, calls>>
  BY DEF RLock
<1>6. /\ stack' \in [Procs -> Seq(Frame)]
      /\ Len(stack'[p]) <= MaxDepth
      /\ \A i \in 1 .. Len(stack'[p]) : Consistent(stack'[p][i])
      /\ \A i \in 1 .. Len(stack'[p]) - 1 : stack'[p][i].pc \in {"onCleanup", "return"}
      /\ stack'[p] # <<>> /\ Top(p)' = g
      /\ \A q \in Procs \ {p} : stack'[q] = stack[q]
  BY <1>1, <1>4, <1>5, SetTopShape
<1>7. readers[p] = 0 /\ ~wheld
  <2>1. ~ReadHeld(p)
    BY <1>1 DEF ReadHeld
  <2>2. ~\E q \in Procs : writer = q
    BY <1>1, LockingAssumption
  <2>. QED
    BY <2>1, <2>2 DEF LockIInv, ProcInv
<1>8. readers' \in [Procs -> Nat] /\ readers'[p] = 1
      /\ \A q \in Procs \ {p} : readers'[q] = readers[q]
  BY <1>5, <1>7 DEF LockIInv
<1>9. ProcInv(p)'
  <2>1. ReadHeld(p)' /\ ~WriteOwned(p)'
    BY <1>1, <1>4, <1>6 DEF ReadHeld, WriteOwned
  <2>2. writer' # p
    BY <1>1, <1>5, LockingAssumption
  <2>. QED
    BY <1>6, <1>8, <2>1, <2>2 DEF ProcInv
<1>10. \A q \in Procs \ {p} : ProcInv(q)'
  BY <1>5, <1>6, <1>8, OthersKeep
<1>11. ~wheld' /\ ~\E q \in Procs : writer' = q
  BY <1>1, <1>5, <1>7, LockingAssumption
<1>. QED
  BY <1>5, <1>6, <1>8, <1>9, <1>10, <1>11 DEF LockIInv, TypeOK

(* Lock, first half: a Set or Delete takes rw.w. *)
LEMMA LockStep ==
    ASSUME LockIInv, NEW p \in Procs, Lock(p)
    PROVE  LockIInv'
<1> DEFINE f == Top(p)
           g == [f EXCEPT !.pc = "drain"]
<1>1. stack[p] # <<>> /\ f.pc = "acquire" /\ LockMode(f.op) = "write"
      /\ writer = NoProc
  BY DEF Lock, At
<1>2. f \in Frame /\ Consistent(f)
  BY <1>1, TopFacts
<1>3. g \in Frame /\ g.pc = "drain" /\ g.op = f.op /\ Consistent(g)
  BY <1>1, <1>2, Zenon DEF Frame, PCs, Consistent
<1>4. stack' = SetTop(p, g) /\ writer' = p
      /\ UNCHANGED <<items, now, out, readers, wheld, calls>>
  BY DEF Lock
<1>5. /\ stack' \in [Procs -> Seq(Frame)]
      /\ Len(stack'[p]) <= MaxDepth
      /\ \A i \in 1 .. Len(stack'[p]) : Consistent(stack'[p][i])
      /\ \A i \in 1 .. Len(stack'[p]) - 1 : stack'[p][i].pc \in {"onCleanup", "return"}
      /\ stack'[p] # <<>> /\ Top(p)' = g
      /\ \A q \in Procs \ {p} : stack'[q] = stack[q]
  BY <1>1, <1>3, <1>4, SetTopShape
<1>6. readers[p] = 0 /\ ~wheld
  <2>1. ~ReadHeld(p)
    BY <1>1 DEF ReadHeld
  <2>2. ~\E q \in Procs : writer = q
    BY <1>1, LockingAssumption
  <2>. QED
    BY <2>1, <2>2 DEF LockIInv, ProcInv
<1>7. ProcInv(p)'
  <2>1. ~ReadHeld(p)' /\ WriteOwned(p)'
    BY <1>1, <1>3, <1>5 DEF ReadHeld, WriteOwned
  <2>. QED
    BY <1>4, <1>5, <1>6, <2>1 DEF ProcInv
<1>8. \A q \in Procs \ {p} : ProcInv(q)'
  BY <1>1, <1>4, <1>5, OthersKeep
<1>9. ~wheld' /\ ~\E q \in Procs : writer' = q /\ Top(q)'.pc \in {"cs", "unlock"}
  BY <1>3, <1>4, <1>5, <1>6
<1>. QED
  BY <1>4, <1>5, <1>7, <1>8, <1>9 DEF LockIInv, TypeOK

(* Lock, second half: the pending writer sees the readers drained. *)
LEMMA DrainStep ==
    ASSUME LockIInv, NEW p \in Procs, Drain(p)
    PROVE  LockIInv'
<1> DEFINE f == Top(p)
           g == [f EXCEPT !.pc = Flow(f.op)[1]]
<1>1. stack[p] # <<>> /\ f.pc = "drain" /\ \A q \in Procs : readers[q] = 0
  BY DEF Drain, At
<1>2. f \in Frame /\ Consistent(f)
  BY <1>1, TopFacts
<1>3. Flow(f.op)[1] = "cs"
  BY <1>2, FlowFacts DEF Frame
<1>4. g \in Frame /\ g.pc = "cs" /\ g.op = f.op /\ Consistent(g)
  BY <1>2, <1>3, Zenon DEF Frame, PCs, Consistent
<1>5. stack' = SetTop(p, g) /\ wheld' = TRUE
      /\ UNCHANGED <<items, now, out, readers, writer, calls>>
  BY DEF Drain
<1>6. /\ stack' \in [Procs -> Seq(Frame)]
      /\ Len(stack'[p]) <= MaxDepth
      /\ \A i \in 1 .. Len(stack'[p]) : Consistent(stack'[p][i])
      /\ \A i \in 1 .. Len(stack'[p]) - 1 : stack'[p][i].pc \in {"onCleanup", "return"}
      /\ stack'[p] # <<>> /\ Top(p)' = g
      /\ \A q \in Procs \ {p} : stack'[q] = stack[q]
  BY <1>1, <1>4, <1>5, SetTopShape
<1>7. LockMode(f.op) = "write" /\ writer = p
  <2>1. LockMode(f.op) = "write"
    BY <1>1, <1>2 DEF Consistent
  <2>2. WriteOwned(p)
    BY <1>1, <2>1 DEF WriteOwned
  <2>. QED
    BY <2>1, <2>2 DEF LockIInv, ProcInv
<1>8. ProcInv(p)'
  <2>1. ~ReadHeld(p)' /\ WriteOwned(p)'
    BY <1>4, <1>6, <1>7 DEF ReadHeld, WriteOwned
  <2>. QED
    BY <1>1, <1>5, <1>6, <1>7, <2>1 DEF ProcInv
<1>9. \A q \in Procs \ {p} : ProcInv(q)'
  BY <1>5, <1>6, OthersKeep
<1>10. wheld' <=> \E q \in Procs : writer' = q /\ Top(q)'.pc \in {"cs", "unlock"}
  BY <1>4, <1>5, <1>6, <1>7
<1>. QED
  BY <1>1, <1>5, <1>6, <1>8, <1>9, <1>10 DEF LockIInv, TypeOK

(* The critical section: the step of Cache on c.items, under the lock. *)
LEMMA CriticalSectionStep ==
    ASSUME LockIInv, NEW p \in Procs, CriticalSection(p)
    PROVE  LockIInv'
<1> DEFINE f == Top(p)
           g == [f EXCEPT !.pc = After(f.op, "cs"), !.ok = out'.ok,
                          !.cleanup = out'.cleanup]
<1>1. stack[p] # <<>> /\ f.pc = "cs"
  BY DEF CriticalSection, At
<1>2. f \in Frame /\ Consistent(f)
  BY <1>1, TopFacts
<1>3. TypeOK'
  <2>1. Next
    BY <1>2, Zenon DEF CriticalSection, Next, Frame
  <2>. QED
    BY <2>1, TypeStep DEF LockIInv
<1>4. out'.ok \in BOOLEAN /\ out'.cleanup \in BOOLEAN
  BY <1>3 DEF TypeOK, Out
<1>5. After(f.op, "cs") = "unlock"
  BY <1>2, FlowFacts DEF Frame
<1>6. g \in Frame /\ g.pc = "unlock" /\ g.op = f.op /\ Consistent(g)
  BY <1>2, <1>4, <1>5, Zenon DEF Frame, PCs, Consistent
<1>7. stack' = SetTop(p, g) /\ UNCHANGED <<readers, writer, wheld, calls>>
  BY DEF CriticalSection
<1>8. 
      /\ stack' \in [Procs -> Seq(Frame)]
      /\ Len(stack'[p]) <= MaxDepth
      /\ \A i \in 1 .. Len(stack'[p]) : Consistent(stack'[p][i])
      /\ \A i \in 1 .. Len(stack'[p]) - 1 : stack'[p][i].pc \in {"onCleanup", "return"}
      /\ stack'[p] # <<>> /\ Top(p)' = g
      /\ \A q \in Procs \ {p} : stack'[q] = stack[q]
  BY <1>1, <1>6, <1>7, SetTopShape
<1>9. ReadHeld(p)' = ReadHeld(p) /\ WriteOwned(p)' = WriteOwned(p)
  BY <1>1, <1>6, <1>8 DEF ReadHeld, WriteOwned
<1>10. ProcInv(p)'
  BY <1>7, <1>8, <1>9 DEF LockIInv, ProcInv
<1>11. \A q \in Procs \ {p} : ProcInv(q)'
  BY <1>7, <1>8, OthersKeep
<1>12. \A q \in Procs : Top(q)'.pc \in {"cs", "unlock"} <=> Top(q).pc \in {"cs", "unlock"}
  BY <1>1, <1>6, <1>8 DEF Top
<1>. QED
  BY <1>3, <1>7, <1>8, <1>10, <1>11, <1>12 DEF LockIInv

(* RUnlock or Unlock: the lock is given back before any hook runs. *)
LEMMA UnlockStep ==
    ASSUME LockIInv, NEW p \in Procs, Unlock(p)
    PROVE  LockIInv'
<1> DEFINE f == Top(p)
           g == [f EXCEPT !.pc = After(f.op, "unlock")]
<1>1. stack[p] # <<>> /\ f.pc = "unlock"
  BY DEF Unlock, At
<1>2. f \in Frame /\ Consistent(f)
  BY <1>1, TopFacts
<1>3. /\ After(f.op, "unlock") \in {"getHook", "onSet", "return"}
      /\ After(f.op, "unlock") = "getHook" => f.op = "Get"
      /\ After(f.op, "unlock") = "onSet" => f.op = "Set"
  BY <1>2, FlowFacts DEF Frame
<1>4. g \in Frame /\ g.pc \in {"getHook", "onSet", "return"} /\ g.op = f.op
      /\ Consistent(g)
  <2>1. g \in Frame /\ g.pc = After(f.op, "unlock") /\ g.op = f.op
    BY <1>2, <1>3, Zenon DEF Frame, PCs, HookPCs
  <2>. QED
    BY <1>3, <2>1 DEF Consistent
<1>5. stack' = SetTop(p, g) /\ UNCHANGED <<items, now, out, calls>>
  BY DEF Unlock
<1>6. 
      /\ stack' \in [Procs -> Seq(Frame)]
      /\ Len(stack'[p]) <= MaxDepth
      /\ \A i \in 1 .. Len(stack'[p]) : Consistent(stack'[p][i])
      /\ \A i \in 1 .. Len(stack'[p]) - 1 : stack'[p][i].pc \in {"onCleanup", "return"}
      /\ stack'[p] # <<>> /\ Top(p)' = g
      /\ \A q \in Procs \ {p} : stack'[q] = stack[q]
  BY <1>1, <1>4, <1>5, SetTopShape
<1>7. ~ReadHeld(p)' /\ ~WriteOwned(p)'
  BY <1>4, <1>6 DEF ReadHeld, WriteOwned
<1>8. \A q \in Procs \ {p} : Top(q)' = Top(q)
  BY <1>6 DEF Top
<1>9. CASE LockMode(f.op) = "read"
  <2>1. ReadHeld(p) /\ ~WriteOwned(p)
    BY <1>1, <1>9 DEF ReadHeld, WriteOwned
  <2>2. readers[p] = 1 /\ writer # p /\ ~wheld
    BY <2>1 DEF LockIInv, ProcInv
  <2>3. readers' = [readers EXCEPT ![p] = 0] /\ UNCHANGED <<writer, wheld>>
    BY <1>9, <2>2 DEF Unlock
  <2>4. /\ readers' \in [Procs -> Nat] /\ readers'[p] = 0
        /\ \A q \in Procs \ {p} : readers'[q] = readers[q]
    BY <2>3 DEF LockIInv
  <2>5. ProcInv(p)'
    BY <1>6, <1>7, <2>2, <2>3, <2>4 DEF ProcInv
  <2>6. \A q \in Procs \ {p} : ProcInv(q)'
    BY <1>6, <2>3, <2>4, OthersKeep
  <2>7. ~\E q \in Procs : writer' = q /\ Top(q)'.pc \in {"cs", "unlock"}
    BY <1>8, <2>2, <2>3 DEF LockIInv
  <2>. QED
    BY <1>5, <1>6, <2>2, <2>3, <2>4, <2>5, <2>6, <2>7 DEF LockIInv, TypeOK
<1>10. CASE LockMode(f.op) # "read"
  <2>1. LockMode(f.op) = "write"
    BY <1>10 DEF LockMode
  <2>2. WriteOwned(p) /\ ~ReadHeld(p)
    BY <1>1, <2>1 DEF ReadHeld, WriteOwned
  <2>3. writer = p /\ readers[p] = 0
    BY <2>2 DEF LockIInv, ProcInv
  <2>4. writer' = NoProc /\ wheld' = FALSE /\ UNCHANGED readers
    BY <1>10 DEF Unlock
  <2>5. ProcInv(p)'
    BY <1>6, <1>7, <2>3, <2>4, LockingAssumption DEF ProcInv
  <2>6. \A q \in Procs \ {p} : ProcInv(q)'
    BY <1>6, <2>3, <2>4, OthersKeep
  <2>7. ~\E q \in Procs : writer' = q
    BY <2>4, LockingAssumption
  <2>. QED
    BY <1>5, <1>6, <2>4, <2>5, <2>6, <2>7 DEF LockIInv, TypeOK
<1>. QED
  BY <1>9, <1>10

(* A hook step: the hook is skipped or returns, or it calls the cache. *)
LEMMA HookStep ==
    ASSUME LockIInv, NEW p \in Procs, Hook(p)
    PROVE  LockIInv'
<1> DEFINE f == Top(p)
           g == [f EXCEPT !.pc = After(f.op, f.pc)]
<1>1. stack[p] # <<>> /\ f.pc \in HookPCs
  BY DEF Hook
<1>2. f \in Frame /\ Consistent(f) /\ Len(stack[p]) \in 1 .. MaxDepth
  BY <1>1, TopFacts
<1>3. After(f.op, f.pc) \in {"onCleanup", "return"}
      /\ (After(f.op, f.pc) = "onCleanup" => f.op = "Set")
  BY <1>1, <1>2, HookFacts DEF Frame, Consistent
<1>4. g \in Frame /\ g.pc \in {"onCleanup", "return"} /\ Consistent(g)
  <2>1. g \in Frame /\ g.pc = After(f.op, f.pc) /\ g.op = f.op
    BY <1>2, <1>3, Zenon DEF Frame, PCs, HookPCs
  <2>. QED
    BY <1>3, <2>1 DEF Consistent
<1>5. readers[p] = 0 /\ writer # p
  <2>1. ~ReadHeld(p) /\ ~WriteOwned(p)
    BY <1>1 DEF ReadHeld, WriteOwned, HookPCs
  <2>. QED
    BY <2>1 DEF LockIInv, ProcInv
<1>6. UNCHANGED <<items, now, out, readers, writer, wheld, calls>>
  BY DEF Hook
<1>7. /\ SetTop(p, g) \in [Procs -> Seq(Frame)]
      /\ Len(SetTop(p, g)[p]) = Len(stack[p])
      /\ SetTop(p, g)[p][Len(stack[p])] = g
      /\ \A i \in 1 .. Len(stack[p]) - 1 : SetTop(p, g)[p][i] = stack[p][i]
      /\ \A q \in Procs \ {p} : SetTop(p, g)[q] = stack[q]
  BY <1>1, <1>4, SetTopFacts DEF LockIInv
<1>8. /\ stack' \in [Procs -> Seq(Frame)]
      /\ \A q \in Procs \ {p} : stack'[q] = stack[q]
      /\ ProcInv(p)'
  <2>1. CASE stack' = SetTop(p, g)
    <3>1. 
      /\ stack' \in [Procs -> Seq(Frame)]
      /\ Len(stack'[p]) <= MaxDepth
      /\ \A i \in 1 .. Len(stack'[p]) : Consistent(stack'[p][i])
      /\ \A i \in 1 .. Len(stack'[p]) - 1 : stack'[p][i].pc \in {"onCleanup", "return"}
      /\ stack'[p] # <<>> /\ Top(p)' = g
      /\ \A q \in Procs \ {p} : stack'[q] = stack[q]
      BY <1>1, <1>4, <2>1, SetTopShape
    <3>2. ~ReadHeld(p)' /\ ~WriteOwned(p)'
      BY <1>4, <3>1 DEF ReadHeld, WriteOwned
    <3>. QED
      BY <1>5, <1>6, <3>1, <3>2 DEF ProcInv
  <2>2. CASE /\ Len(stack[p]) < MaxDepth
             /\ \E op \in CallOps, k \in Keys, v \in Vals :
                   stack' = [stack EXCEPT ![p] = Append(SetTop(p, g)[p],
                                                         NewFrame(op, k, v))]
    <3>1. PICK op \in CallOps, k \in Keys, v \in Vals :
                stack' = [stack EXCEPT ![p] = Append(SetTop(p, g)[p],
                                                      NewFrame(op, k, v))]
      BY <2>2
    <3> DEFINE s1 == SetTop(p, g)[p]
               nf == NewFrame(op, k, v)
               n  == Len(stack[p])
    <3>2. nf \in Frame /\ nf.pc = "acquire" /\ Consistent(nf)
      BY DEF NewFrame, Frame, PCs, Consistent
    <3>3. s1 \in Seq(Frame) /\ Len(s1) = n /\ s1[n] = g
          /\ \A i \in 1 .. n - 1 : s1[i] = stack[p][i]
      BY <1>7
    <3>4. stack'[p] = Append(s1, nf) /\ \A q \in Procs \ {p} : stack'[q] = stack[q]
      BY <3>1 DEF LockIInv
    <3>5. stack' \in [Procs -> Seq(Frame)]
      BY <3>1, <3>2, <3>3 DEF LockIInv
    <3>6. Len(stack'[p]) = n + 1 /\ stack'[p][n + 1] = nf
          /\ \A i \in 1 .. n : stack'[p][i] = s1[i]
      BY <3>2, <3>3, <3>4, AppendProperties
    <3>7. ProcInv(p)
      BY DEF LockIInv
    <3>8. Len(stack'[p]) <= MaxDepth
      BY <2>2, <3>6, <1>2, LockingAssumption DEF n
    <3>9. \A i \in 1 .. Len(stack'[p]) : Consistent(stack'[p][i])
      <4> SUFFICES ASSUME NEW i \in 1 .. n + 1 PROVE Consistent(stack'[p][i])
        BY <3>6
      <4>1. CASE i = n + 1
        BY <3>2, <3>6, <4>1
      <4>2. CASE i = n
        BY <1>2, <1>4, <3>3, <3>6, <4>2
      <4>3. CASE i < n
        <5>1. stack'[p][i] = stack[p][i] /\ i \in 1 .. Len(stack[p])
          BY <1>2, <3>3, <3>6, <4>3
        <5>. QED
          BY <3>7, <5>1 DEF ProcInv
      <4>. QED
        BY <1>2, <4>1, <4>2, <4>3
    <3>10. \A i \in 1 .. Len(stack'[p]) - 1 : stack'[p][i].pc \in {"onCleanup", "return"}
      <4> SUFFICES ASSUME NEW i \in 1 .. n PROVE stack'[p][i].pc \in {"onCleanup", "return"}
        BY <1>2, <3>6
      <4>1. CASE i = n
        BY <1>2, <1>4, <3>3, <3>6, <4>1
      <4>2. CASE i < n
        <5>1. stack'[p][i] = stack[p][i] /\ i \in 1 .. Len(stack[p]) - 1
          BY <1>2, <3>3, <3>6, <4>2
        <5>. QED
          BY <3>7, <5>1 DEF ProcInv
      <4>. QED
        BY <1>2, <4>1, <4>2
    <3>11. Top(p)' = nf
      BY <3>6 DEF Top
    <3>12. ~ReadHeld(p)' /\ ~WriteOwned(p)'
      BY <3>2, <3>11 DEF ReadHeld, WriteOwned
    <3>. QED
      BY <1>5, <1>6, <3>4, <3>5, <3>8, <3>9, <3>10, <3>12 DEF ProcInv
  <2>. QED
    BY <1>1, <2>1, <2>2, Zenon DEF Hook
<1>9. \A q \in Procs \ {p} : ProcInv(q)'
  BY <1>6, <1>8, OthersKeep
<1>10. \A q \in Procs \ {p} : Top(q)' = Top(q)
  BY <1>8 DEF Top
<1>. QED
  BY <1>5, <1>6, <1>8, <1>9, <1>10 DEF LockIInv, TypeOK

(* Return: the innermost call is popped; the call below it, if any, is  *)
(* past its unlock.                                                        *)
LEMMA ReturnStep ==
    ASSUME LockIInv, NEW p \in Procs, Return(p)
    PROVE  LockIInv'
<1> DEFINE n == Len(stack[p])
<1>1. stack[p] # <<>> /\ Top(p).pc = "return"
  BY DEF Return, At
<1>2. Top(p) \in Frame /\ n \in 1 .. MaxDepth /\ stack[p] \in Seq(Frame)
  BY <1>1, TopFacts DEF LockIInv
<1>3. readers[p] = 0 /\ writer # p
  <2>1. ~ReadHeld(p) /\ ~WriteOwned(p)
    BY <1>1 DEF ReadHeld, WriteOwned
  <2>. QED
    BY <2>1 DEF LockIInv, ProcInv
<1>4. stack' = [stack EXCEPT ![p] = SubSeq(stack[p], 1, n - 1)]
      /\ UNCHANGED <<items, now, out, readers, writer, wheld, calls>>
  BY DEF Return
<1>5. SubSeq(stack[p], 1, n - 1) \in Seq(Frame) /\ Len(SubSeq(stack[p], 1, n - 1)) = n - 1 /\ \A i \in 1 .. n - 1 : SubSeq(stack[p], 1, n - 1)[i] = stack[p][i]
  <2>1. \A i \in 1 .. n - 1 : stack[p][i] \in Frame
    BY <1>2
  <2>. QED
    BY <1>2, <2>1, SubSeqProperties
<1>6. stack' \in [Procs -> Seq(Frame)] /\ stack'[p] = SubSeq(stack[p], 1, n - 1)
      /\ \A q \in Procs \ {p} : stack'[q] = stack[q]
  BY <1>4, <1>5 DEF LockIInv
<1>7. ProcInv(p)
  BY DEF LockIInv
<1>8. ~ReadHeld(p)' /\ ~WriteOwned(p)'
  <2>1. CASE n = 1
    <3>1. stack'[p] = <<>>
      BY <1>5, <1>6, <2>1
    <3>. QED
      BY <3>1 DEF ReadHeld, WriteOwned
  <2>2. CASE n > 1
    <3>1. Top(p)' = stack[p][n - 1] /\ n - 1 \in 1 .. n - 1
      BY <1>2, <1>5, <1>6, <2>2 DEF Top
    <3>2. Top(p)'.pc \in {"onCleanup", "return"}
      BY <1>7, <3>1 DEF ProcInv
    <3>. QED
      BY <3>2 DEF ReadHeld, WriteOwned
  <2>3. n = 1 \/ n > 1
    <3>1. n \in 1 .. MaxDepth
      BY <1>2
    <3>2. n \in Int /\ n >= 1
      BY <3>1, LockingAssumption
    <3>3. \A k \in Int : k >= 1 => k = 1 \/ k > 1
      OBVIOUS
    <3>. QED
      BY <3>2, <3>3, Zenon
  <2>. QED
    BY <2>1, <2>2, <2>3
<1>9. ProcInv(p)'
  <2>1. Len(stack'[p]) <= MaxDepth
    <3>1. Len(stack'[p]) = n - 1
      BY <1>5, <1>6
    <3>2. n \in 1 .. MaxDepth
      BY <1>2
    <3>. QED
      BY <3>1, <3>2, LockingAssumption DEF n
  <2>2. \A i \in 1 .. Len(stack'[p]) : Consistent(stack'[p][i])
    BY <1>2, <1>5, <1>6, <1>7 DEF ProcInv
  <2>3. \A i \in 1 .. Len(stack'[p]) - 1 : stack'[p][i].pc \in {"onCleanup", "return"}
    BY <1>2, <1>5, <1>6, <1>7 DEF ProcInv
  <2>. QED
    BY <1>3, <1>4, <1>8, <2>1, <2>2, <2>3 DEF ProcInv
<1>10. \A q \in Procs \ {p} : ProcInv(q)'
  BY <1>4, <1>6, OthersKeep
<1>11. \A q \in Procs \ {p} : Top(q)' = Top(q)
  BY <1>6 DEF Top
<1>. QED
  BY <1>3, <1>4, <1>6, <1>9, <1>10, <1>11 DEF LockIInv, TypeOK

(* A tick of the clock, or a stutter, leaves the lock state alone. *)
LEMMA QuietStep ==
    ASSUME LockIInv, (Tick /\ UNCHANGED lockVars) \/ Finished \/ UNCHANGED allVars
    PROVE  LockIInv'
<1>1. TypeOK'
  <2>1. [Next]_vars
    BY DEF Next, Finished, allVars, vars
  <2>. QED
    BY <2>1, TypeStep DEF LockIInv
<1>2. UNCHANGED lockVars
  BY DEF Finished, allVars, lockVars
<1>. QED
  BY <1>1, <1>2 DEF lockVars, LockIInv, ProcInv, ReadHeld, WriteOwned, Top

LEMMA StepInv == LockIInv /\ [LockNext]_allVars => LockIInv'
<1> SUFFICES ASSUME LockIInv, [LockNext]_allVars PROVE LockIInv'
  OBVIOUS
<1>1. CASE \E p \in Procs, op \in CallOps, k \in Keys, v \in Vals : Call(p, op, k, v)
  BY <1>1, CallStep
<1>2. CASE \E p \in Procs : RLock(p) \/ Lock(p) \/ Drain(p)
  BY <1>2, RLockStep, LockStep, DrainStep
<1>3. CASE \E p \in Procs : CriticalSection(p) \/ Unlock(p)
  BY <1>3, CriticalSectionStep, UnlockStep
<1>4. CASE \E p \in Procs : Hook(p) \/ Return(p)
  BY <1>4, HookStep, ReturnStep
<1>5. CASE (Tick /\ UNCHANGED lockVars) \/ Finished \/ UNCHANGED allVars
  BY <1>5, QuietStep
<1>. QED
  BY <1>1, <1>2, <1>3, <1>4, <1>5 DEF LockNext

(* The inductive invariant implies that no two goroutines are in a       *)
(* critical section of c.mu while one of them writes c.items.              *)
LEMMA InvNoDataRace == LockIInv => NoDataRace
<1> SUFFICES ASSUME LockIInv, NEW p \in Procs, NEW q \in Procs, p # q,
                    At(p, "cs"), WritesItems(Top(p).op), At(q, "cs")
             PROVE  FALSE
  BY DEF NoDataRace
<1>1. writer = p
  <2>1. LockMode(Top(p).op) = "write"
    BY DEF WritesItems, LockMode
  <2>. QED
    BY <2>1 DEF At, WriteOwned, LockIInv, ProcInv
<1>2. wheld /\ readers[q] = 0
  BY <1>1 DEF At, LockIInv
<1>3. CASE LockMode(Top(q).op) = "read"
  BY <1>2, <1>3 DEF At, ReadHeld, LockIInv, ProcInv
<1>4. CASE LockMode(Top(q).op) # "read"
  <2>1. LockMode(Top(q).op) = "write"
    BY <1>4 DEF LockMode
  <2>. QED
    BY <1>1, <2>1 DEF At, WriteOwned, LockIInv, ProcInv
<1>. QED
  BY <1>3, <1>4

(* The inductive invariant implies that a hook about to run is called    *)
(* with c.mu released by its goroutine.                                    *)
LEMMA InvHooksRunUnlocked == LockIInv => HooksRunUnlocked
<1> SUFFICES ASSUME LockIInv, NEW p \in Procs, stack[p] # <<>>, Top(p).pc \in HookPCs
             PROVE  readers[p] = 0 /\ writer # p
  BY DEF HooksRunUnlocked
<1>1. ~ReadHeld(p) /\ ~WriteOwned(p)
  BY DEF ReadHeld, WriteOwned, HookPCs
<1>. QED
  BY <1>1 DEF LockIInv, ProcInv

(* The inductive invariant implies the type invariant of the model.       *)
LEMMA InvLockTypeOK == LockIInv => LockTypeOK
<1> SUFFICES ASSUME LockIInv PROVE LockTypeOK
  OBVIOUS
<1>1. \A p \in Procs : readers[p] \in 0 .. MaxDepth
  <2> SUFFICES ASSUME NEW p \in Procs PROVE readers[p] \in 0 .. MaxDepth
    OBVIOUS
  <2>1. readers[p] \in {0, 1}
    BY DEF LockIInv, ProcInv
  <2>. QED
    BY <2>1, LockingAssumption
<1>2. \A p \in Procs : Len(stack[p]) <= MaxDepth
  BY DEF LockIInv, ProcInv
<1>. QED
  BY <1>1, <1>2 DEF LockIInv, LockTypeOK

(***************************************************************************)
(* Main results.  Each follows from InitInv and StepInv: LockIInv holds       *)
(* initially and is preserved by every step of LockNext, hence always;    *)
(* the property is a consequence of LockIInv.                                 *)
(***************************************************************************)

(* LockTypeCorrect: every reachable state of the locking model is typed,  *)
(* with no goroutine holding more than one read lock of c.mu and no call *)
(* stack deeper than MaxDepth, for all values of the constants.           *)
THEOREM LockTypeCorrect == LockSpec => []LockTypeOK
<1>1. LockInit => LockIInv
  BY InitInv
<1>2. LockIInv /\ [LockNext]_allVars => LockIInv'
  BY StepInv
<1>3. LockIInv => LockTypeOK
  BY InvLockTypeOK
<1>. QED
  BY <1>1, <1>2, <1>3, PTL DEF LockSpec

(* NoDataRaceFree: whatever the number of goroutines, keys and values,    *)
(* the RLock/Lock choice of Get, Set, Delete and Size never lets a write  *)
(* of c.items overlap another goroutine's critical section.               *)
THEOREM NoDataRaceFree == LockSpec => []NoDataRace
<1>1. LockInit => LockIInv
  BY InitInv
<1>2. LockIInv /\ [LockNext]_allVars => LockIInv'
  BY StepInv
<1>3. LockIInv => NoDataRace
  BY InvNoDataRace
<1>. QED
  BY <1>1, <1>2, <1>3, PTL DEF LockSpec

(* HooksUnlocked: for all values of the constants, Get and Set release   *)
(* c.mu before they call onCacheHit, onCacheMiss, onSet or onCleanup.     *)
THEOREM HooksUnlocked == LockSpec => []HooksRunUnlocked
<1>1. LockInit => LockIInv
  BY InitInv
<1>2. LockIInv /\ [LockNext]_allVars => LockIInv'
  BY StepInv
<1>3. LockIInv => HooksRunUnlocked
  BY InvHooksRunUnlocked
<1>. QED
  BY <1>1, <1>2, <1>3, PTL DEF LockSpec

=============================================================================
