--------------------------- MODULE MC_CacheLocking ---------------------------
(***************************************************************************)
(* Two goroutines, two calls each, hooks that may call back into the      *)
(* cache once: enough for a writer to be pending while a reader is inside *)
(* and while the other goroutine runs a hook that calls the cache.        *)
(* A capacity of one on two keys makes Set fill the cache, sweep and drop.*)
(***************************************************************************)
EXTENDS CacheLocking, TLC

CONSTANTS k1, k2, v1, p1, p2

MCKeys == {k1, k2}
MCVals == {v1}
MCProcs == {p1, p2}
MCHooks == {"onCacheHit", "onCacheMiss", "onSet", "onCleanup"}

MCMaxInt == 127
MCMaxTime == 2

Symmetry == Permutations(MCProcs) \cup Permutations(MCKeys)

=============================================================================
