----------------------------- MODULE MCVerifier -----------------------------
(* Verifier with two ticks to a second and one second of skew, over three    *)
(* processes: restarts fall anywhere in a second, before, between and after  *)
(* the tokens' issue times.                                                  *)
EXTENDS Verifier, TLC

Symmetry == Permutations(Token)
=============================================================================
