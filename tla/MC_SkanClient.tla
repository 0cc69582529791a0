---------------------------- MODULE MC_SkanClient ----------------------------
(***************************************************************************)
(* Model-checking instance of SkanClient: two goroutines making two Fetch *)
(* calls each against the one-slot cache, a bidder switching between two  *)
(* lists, and a clock long enough for the cached list to expire and be    *)
(* fetched again while a slow goroutine still holds an older list.        *)
(***************************************************************************)
EXTENDS SkanClient, TLC

CONSTANTS u, l1, l2, empty, p1, p2

MCKeys == {u}
MCLists == {l1, l2}
MCVals == {l1, l2, empty}
MCProcs == {p1, p2}

(* One hour of TTL scaled to two ticks; 8-bit integers, no wrap. *)
MCMaxInt == 127
MCMaxTime == 5

Symmetry == Permutations(MCProcs) \cup Permutations(MCLists)

=============================================================================
