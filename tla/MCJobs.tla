------------------------------- MODULE MCJobs -------------------------------
(* Jobs with two images; what else a spec holds never changes.               *)
EXTENDS Jobs, TLC

CONSTANTS x, y, a
=============================================================================
