------------------------------ MODULE Following ------------------------------
(***************************************************************************)
(* What a deployment promises about the execution it observes, over all    *)
(* the retries of one token: which execution it speaks of is settled once, *)
(* by the first observation that can name it, no retry ever turns to       *)
(* another one, and a verdict is final.  Observer and Jobs implement it.   *)
(***************************************************************************)
CONSTANTS
  Identity,   \* what names an execution
  None

VARIABLES
  identity,   \* the execution the recorded outcome names
  verdict     \* the recorded conclusion

Verdict == {"completed", "failed", "rolled_back", "superseded"}

Init == identity = None /\ verdict = "pending"

(* An attempt ends.  One that finds its execution replaced names none.       *)
Report ==
  /\ verdict = "pending"
  /\ verdict' \in Verdict \cup {"pending"}
  /\ \/ identity = None /\ identity' \in Identity
     \/ identity' = identity
     \/ identity' = None /\ verdict' = "superseded"

Spec == Init /\ [][Report]_<<identity, verdict>>
=============================================================================
