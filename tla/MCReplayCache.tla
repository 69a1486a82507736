--------------------------- MODULE MCReplayCache ---------------------------
(* ReplayCache on a small instance: four racing calls, more tokens than      *)
(* capacity, the first of them expiring while calls for it are in flight.    *)
EXTENDS ReplayCache, TLC

CONSTANTS t1, t2, t3

MCValidUntil == (t1 :> 1) @@ (t2 :> 2) @@ (t3 :> 2)

(* t2 and t3 expire at the same instant. *)
Symmetry ==
  Permutations(Caller) \cup Permutations(Digest) \cup Permutations({t2, t3})
=============================================================================
