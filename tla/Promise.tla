------------------------------ MODULE Promise ------------------------------
(***************************************************************************)
(* What the coordinator promises of a deployment request, whatever queues,  *)
(* workers, contexts and retries it takes: while a request's token is valid *)
(* Docker takes one update at most in its name, to the service and the      *)
(* image that the token stands for and never once the image is known to be  *)
(* selected; and all records of the request that tell how the image came to *)
(* be selected agree, while others may say that an attempt did nothing.     *)
(*                                                                         *)
(* Coordinator implements this specification.                              *)
(***************************************************************************)
EXTENDS TokenBinding

CONSTANT ServiceOf   \* the service of each deployment

VARIABLE taken       \* the updates Docker has taken in a valid token's name

promiseVars == <<bindingVars, taken>>

(* How the image of a token was selected, as far as that is recorded.        *)
Selection(t) == {result.action : result \in recorded[t]} \cap {"updated", "no_change"}

Unpromised == Unbound /\ taken = [t \in Token |-> {}]

(* Docker takes an update in the name of c.                                  *)
Takes(c) ==
  LET t == req[c].token
  IN  /\ t \in valid
      /\ bound[t] = req[c]
      /\ taken[t] = {}
      /\ Selection(t) = {}
      /\ taken' = [taken EXCEPT ![t] =
           {[by |-> c, service |-> ServiceOf[req[c].deployment], image |-> req[c].digest]}]
      /\ UNCHANGED bindingVars

(* Once a selection is recorded, what is recorded later repeats it, or says  *)
(* of an attempt that it did nothing.                                        *)
RecordsOutcome(t, result) ==
  /\ Records(t, result)
  /\ Selection(t) # {} => result.action \in Selection(t) \cup {"not_applied"}
  /\ UNCHANGED taken

ExpiresWithUpdates ==
  /\ Expires
  /\ taken' = [t \in Token |-> IF t \in valid' THEN taken[t] ELSE {}]

Promises ==
  \/ ExpiresWithUpdates
  \/ \E c \in Caller :
       \/ Takes(c)
       \/ (Binds(c) \/ Answers(c, answer'[c])) /\ UNCHANGED taken
  \/ \E t \in Token : \E result \in recorded'[t] : RecordsOutcome(t, result)

PromiseSpec == Unpromised /\ [][Promises]_promiseVars
=============================================================================
