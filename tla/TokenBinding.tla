---------------------------- MODULE TokenBinding ----------------------------
(***************************************************************************)
(* What the replay cache promises of the tokens it has seen, whatever maps, *)
(* mutexes and waiting callers it takes: as long as a token can pass time   *)
(* validation it stands for one request, nothing is recorded of it after a  *)
(* final result, and every call is answered from that request's record.     *)
(*                                                                         *)
(* ReplayCache implements this specification.                              *)
(***************************************************************************)
CONSTANTS
  Caller,      \* calls
  Token,       \* token identifiers
  Result,      \* what is recorded of a request
  Retryable,   \* the results after which the request may be tried again
  None

VARIABLES
  req,         \* the request of each call: a token and what it is to do
  valid,       \* the tokens that can still pass time validation
  bound,       \* the request a valid token stands for, or None
  recorded,    \* the results recorded of a valid token's request
  answer       \* how each call was answered, or None

bindingVars == <<req, valid, bound, recorded, answer>>

(* A call is answered with a result, or is told why there is none.           *)
Answer ==
  [failure : {""}, result : Result] \cup
  [failure : {"invalid", "reused", "capacity", "unknown", "abandoned"}, result : {None}]

Unbound ==
  /\ bound    = [t \in Token |-> None]
  /\ recorded = [t \in Token |-> {}]
  /\ answer   = [c \in Caller |-> None]

(* The first call for a token says what the token stands for.                *)
Binds(c) ==
  LET t == req[c].token
  IN  /\ t \in valid
      /\ bound[t] = None
      /\ bound' = [bound EXCEPT ![t] = req[c]]
      /\ UNCHANGED <<req, valid, recorded, answer>>

(* A result is recorded of a token's request, after a final one no other.    *)
Records(t, result) ==
  /\ t \in valid
  /\ bound[t] # None
  /\ recorded[t] \subseteq Retryable
  /\ result \in Result
  /\ recorded' = [recorded EXCEPT ![t] = @ \cup {result}]
  /\ UNCHANGED <<req, valid, bound, answer>>

(* Tokens pass their time limit, and what was known of them is given up.     *)
Expires ==
  /\ valid' \subseteq valid
  /\ bound'    = [t \in Token |-> IF t \in valid' THEN bound[t] ELSE None]
  /\ recorded' = [t \in Token |-> IF t \in valid' THEN recorded[t] ELSE {}]
  /\ UNCHANGED <<req, answer>>

(* What a call may be told while its token is valid.                         *)
Fitting(c, told) ==
  LET t == req[c].token
  IN  \/ told.failure = ""          /\ bound[t] = req[c] /\ told.result \in recorded[t]
      \/ told.failure = "abandoned" /\ bound[t] = req[c]
      \/ told.failure = "reused"    /\ bound[t] \notin {None, req[c]}
      \/ told.failure = "capacity"  /\ bound[t] = None

Answers(c, told) ==
  /\ answer[c] = None
  /\ told \in Answer
  /\ req[c].token \in valid => Fitting(c, told)
  /\ answer' = [answer EXCEPT ![c] = told]
  /\ UNCHANGED <<req, valid, bound, recorded>>

Bindings ==
  \/ Expires
  \/ \E c \in Caller : Binds(c) \/ Answers(c, answer'[c])
  \/ \E t \in Token : \E result \in recorded'[t] : Records(t, result)

BindingSpec == Unbound /\ [][Bindings]_bindingVars
=============================================================================
