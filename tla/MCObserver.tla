----------------------------- MODULE MCObserver -----------------------------
(* Observer on three specs, of which two differ in something else than the   *)
(* image.                                                                    *)
EXTENDS Observer, TLC

CONSTANTS new, newer, old, x, y

MCImageOf == (new :> x) @@ (newer :> x) @@ (old :> y)
=============================================================================
