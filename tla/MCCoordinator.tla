--------------------------- MODULE MCCoordinator ---------------------------
(* Coordinator on small instances: one worker, and tokens of which the first *)
(* may expire while its requests are in flight.                              *)
EXTENDS Coordinator, TLC

CONSTANTS t1, t2, d1, d2, s1

MCValidUntil == (t1 :> 1) @@ (t2 :> 2)
OneToken     == t1 :> 1
OneService   == [d \in Deployment |-> s1]
EveryGrant   == Token \X Deployment

Symmetry == Permutations(Caller) \cup Permutations(Digest)
=============================================================================
