------------------------------ MODULE MC_Cache ------------------------------
(***************************************************************************)
(* Model-checking instance of Cache: three keys against a capacity of two *)
(* so that the cache fills, entries expire and sweeps remove some but not *)
(* all of them; the clock runs long enough for an entry to outlive its    *)
(* TTL and for a key to be set again afterwards.                          *)
(***************************************************************************)
EXTENDS Cache

CONSTANTS k1, k2, k3, v1, v2

MCKeys == {k1, k2, k3}
MCVals == {v1, v2}

(* New(2, 2) with 8-bit integers: now + ttl stays below 127. *)
MCMaxInt == 127
MCMaxTime == 5

(* New(6, 2) with 4-bit integers: from now = 2 on, now + ttl passes 7    *)
(* and wraps to a negative expiration.                                     *)
WrapMaxInt == 7
WrapMaxTime == 3

=============================================================================
