---------------------------- MODULE ReplayCache ----------------------------
(***************************************************************************)
(* The replay cache of src/internal/replay/cache.go, driven by the callers *)
(* that use it: one caller is one call of Coordinator.Deploy, which binds  *)
(* its token, waits, and may replace a completed operation once.           *)
(*                                                                         *)
(* Bind and ReplaceCompleted read the clock BEFORE they take the mutex, so *)
(* each of them is two steps here: one that reads the clock (and refuses a *)
(* binding that is no longer valid) and one that runs under the mutex with *)
(* the clock value it read.                                                *)
(*                                                                         *)
(* A caller creates at most one operation, so an operation is named by the *)
(* caller that created it, and its binding is that caller's request.       *)
(***************************************************************************)
EXTENDS Naturals, FiniteSets

CONSTANTS
  Caller,       \* calls of Coordinator.Deploy
  Token,        \* token identifiers (the jti claim)
  Deployment,   \* deployment names
  Digest,       \* image digests
  Result,       \* what Complete may record: an outcome with its error
  Retryable,    \* the results that Deploy answers with ReplaceCompleted
  None,         \* no operation, no result
  Capacity,     \* the cache's fixed capacity
  ValidUntil,   \* [Token -> Nat]: the instant from which a token is refused
  MaxClock      \* bound on the clock, for model checking

Request == [token : Token, deployment : Deployment, digest : Digest]

(* How a call ends: with the outcome of an operation, or without. *)
Failure == {"invalid", "reused", "capacity", "unknown", "abandoned"}
Returned(result) == [failure |-> "", result |-> result]
Failed(failure)  == [failure |-> failure, result |-> None]
Reply == {Returned(result) : result \in Result} \cup {Failed(failure) : failure \in Failure}

ASSUME CacheAssumption ==
  /\ Capacity \in Nat \ {0}
  /\ ValidUntil \in [Token -> Nat]
  /\ MaxClock \in Nat
  /\ Retryable \subseteq Result
  /\ None \notin Caller \cup Request \cup Result \cup Reply

VARIABLES
  clock,    \* what cache.now() returns
  entries,  \* the map: the current operation of each token, or None
  op,       \* the operation a caller created
  req,      \* the request a caller makes (a Binding without ValidUntil)
  pc,       \* where a caller is in Deploy
  seen,     \* the clock value read before taking the mutex (0: none pending)
  watch,    \* the operation a caller waits for, or None
  reply     \* how the call ended, or None

vars == <<clock, entries, op, req, pc, seen, watch, reply>>

NoOperation == [state |-> "none", result |-> None]
Opened      == [state |-> "open", result |-> None]
Completed(result) == [state |-> "done", result |-> result]
Operation == {NoOperation, Opened} \cup {Completed(result) : result \in Result}

Init ==
  /\ clock   = 0
  /\ entries = [t \in Token |-> None]
  /\ op      = [c \in Caller |-> NoOperation]
  /\ req     \in [Caller -> Request]
  /\ pc      = [c \in Caller |-> "idle"]
  /\ seen    = [c \in Caller |-> 0]
  /\ watch   = [c \in Caller |-> None]
  /\ reply   = [c \in Caller |-> None]

-----------------------------------------------------------------------------

(* validBinding: the token can still pass time validation. *)
ValidBinding(c) == clock < ValidUntil[req[c].token]

(* Mutants of Retained: a record dropped, or kept, one instant too long. *)
RetainedEarly(now) == [t \in Token |-> IF now + 1 < ValidUntil[t] THEN entries[t] ELSE None]
RetainedLate(now)  == [t \in Token |-> IF now <= ValidUntil[t] THEN entries[t] ELSE None]

(* removeExpired, with the clock value the caller read. *)
Retained(now) == [t \in Token |-> IF now < ValidUntil[t] THEN entries[t] ELSE None]

Held(table) == {t \in Token : table[t] # None}

(* Mutant: the digest is not compared. *)
SameDeployment(c, d) == req[c].deployment = req[d].deployment

SameBinding(c, d) ==
  /\ req[c].deployment = req[d].deployment
  /\ req[c].digest = req[d].digest

(* The call of c returns: nothing of it is left but its reply. *)
Leave(c, answer) ==
  /\ pc'    = [pc EXCEPT ![c] = "done"]
  /\ seen'  = [seen EXCEPT ![c] = 0]
  /\ reply' = [reply EXCEPT ![c] = answer]

(* c goes on to wait for operation o. *)
WaitFor(c, o, next) ==
  /\ pc'    = [pc EXCEPT ![c] = next]
  /\ seen'  = [seen EXCEPT ![c] = 0]
  /\ watch' = [watch EXCEPT ![c] = o]

Tick ==
  /\ clock < MaxClock
  /\ clock' = clock + 1
  /\ UNCHANGED <<entries, op, req, pc, seen, watch, reply>>

-----------------------------------------------------------------------------
(* Bind *)

BindReadsClock(c) ==
  /\ pc[c] = "idle"
  /\ ValidBinding(c)
  /\ pc'   = [pc EXCEPT ![c] = "bind"]
  /\ seen' = [seen EXCEPT ![c] = clock]
  /\ UNCHANGED <<clock, entries, op, req, watch, reply>>

BindInvalid(c) ==
  /\ pc[c] = "idle"
  /\ ~ValidBinding(c)
  /\ Leave(c, Failed("invalid"))
  /\ UNCHANGED <<clock, entries, op, req, watch>>

(* Mutant: any record of the token refuses the caller. *)
BindReusedByAny(c) ==
  /\ pc[c] = "bind"
  /\ Retained(seen[c])[req[c].token] # None
  /\ entries' = Retained(seen[c])
  /\ Leave(c, Failed("reused"))
  /\ UNCHANGED <<clock, op, req, watch>>

BindReused(c) ==
  LET kept == Retained(seen[c])
      current == kept[req[c].token]
  IN  /\ pc[c] = "bind"
      /\ current # None
      /\ ~SameBinding(c, current)
      /\ entries' = kept
      /\ Leave(c, Failed("reused"))
      /\ UNCHANGED <<clock, op, req, watch>>

BindShared(c) ==
  LET kept == Retained(seen[c])
      current == kept[req[c].token]
  IN  /\ pc[c] = "bind"
      /\ current # None
      /\ SameBinding(c, current)
      /\ entries' = kept
      /\ WaitFor(c, current, "wait")
      /\ UNCHANGED <<clock, op, req, reply>>

BindFull(c) ==
  LET kept == Retained(seen[c])
  IN  /\ pc[c] = "bind"
      /\ kept[req[c].token] = None
      /\ Cardinality(Held(kept)) >= Capacity
      /\ entries' = kept
      /\ Leave(c, Failed("capacity"))
      /\ UNCHANGED <<clock, op, req, watch>>

BindNew(c) ==
  LET kept == Retained(seen[c])
  IN  /\ pc[c] = "bind"
      /\ kept[req[c].token] = None
      /\ Cardinality(Held(kept)) < Capacity
      /\ entries' = [kept EXCEPT ![req[c].token] = c]
      /\ op' = [op EXCEPT ![c] = Opened]
      /\ WaitFor(c, c, "wait")
      /\ UNCHANGED <<clock, req, reply>>

-----------------------------------------------------------------------------
(* Operation: Complete and Wait *)

(* A second Complete returns ErrCompleted and changes nothing. *)
Complete(o, result) ==
  /\ op[o].state = "open"
  /\ op' = [op EXCEPT ![o] = Completed(result)]
  /\ UNCHANGED <<clock, entries, req, pc, seen, watch, reply>>

IsCompleted(c) == watch[c] # None /\ op[watch[c]].state = "done"

(* Wait prefers a completed operation to an ended context, so it gives up    *)
(* only on an unfinished operation.                                          *)
Abandon(c) ==
  /\ pc[c] \in {"wait", "final"}
  /\ ~IsCompleted(c)
  /\ Leave(c, Failed("abandoned"))
  /\ UNCHANGED <<clock, entries, op, req, watch>>

WaitReturns(c) ==
  /\ pc[c] \in {"wait", "final"}
  /\ IsCompleted(c)
  /\ Leave(c, Returned(op[watch[c]].result))
  /\ UNCHANGED <<clock, entries, op, req, watch>>

(* Deploy may replace a retryable outcome of an operation it did not start,  *)
(* once; it returns such an outcome as it is when its own context has ended. *)
MayReplace(c) ==
  /\ pc[c] = "wait"
  /\ watch[c] # c
  /\ IsCompleted(c)
  /\ op[watch[c]].result \in Retryable

-----------------------------------------------------------------------------
(* ReplaceCompleted *)

ReplaceReadsClock(c) ==
  /\ MayReplace(c)
  /\ ValidBinding(c)
  /\ pc'   = [pc EXCEPT ![c] = "replace"]
  /\ seen' = [seen EXCEPT ![c] = clock]
  /\ UNCHANGED <<clock, entries, op, req, watch, reply>>

ReplaceInvalid(c) ==
  /\ MayReplace(c)
  /\ ~ValidBinding(c)
  /\ Leave(c, Failed("invalid"))
  /\ UNCHANGED <<clock, entries, op, req, watch>>

ReplaceUnknown(c) ==
  LET kept == Retained(seen[c])
  IN  /\ pc[c] = "replace"
      /\ kept[req[c].token] = None
      /\ entries' = kept
      /\ Leave(c, Failed("unknown"))
      /\ UNCHANGED <<clock, op, req, watch>>

ReplaceReused(c) ==
  LET kept == Retained(seen[c])
      current == kept[req[c].token]
  IN  /\ pc[c] = "replace"
      /\ current # None
      /\ ~SameBinding(c, current)
      /\ entries' = kept
      /\ Leave(c, Failed("reused"))
      /\ UNCHANGED <<clock, op, req, watch>>

(* Mutant: previous need not be the token's operation any more. *)
ReplaceableIfDone(c, current) == op[watch[c]].state = "done"

(* previous is still the token's operation, and it is completed. *)
Replaceable(c, current) == current = watch[c] /\ op[watch[c]].state = "done"

ReplaceShared(c) ==
  LET kept == Retained(seen[c])
      current == kept[req[c].token]
  IN  /\ pc[c] = "replace"
      /\ current # None
      /\ SameBinding(c, current)
      /\ ~Replaceable(c, current)
      /\ entries' = kept
      /\ WaitFor(c, current, "final")
      /\ UNCHANGED <<clock, op, req, reply>>

(* Mutant: the new operation is not entered into the map. *)
ReplaceNewUnrecorded(c) ==
  LET kept == Retained(seen[c])
      current == kept[req[c].token]
  IN  /\ pc[c] = "replace"
      /\ current # None
      /\ SameBinding(c, current)
      /\ Replaceable(c, current)
      /\ entries' = kept
      /\ op' = [op EXCEPT ![c] = Opened]
      /\ WaitFor(c, c, "final")
      /\ UNCHANGED <<clock, req, reply>>

ReplaceNew(c) ==
  LET kept == Retained(seen[c])
      current == kept[req[c].token]
  IN  /\ pc[c] = "replace"
      /\ current # None
      /\ SameBinding(c, current)
      /\ Replaceable(c, current)
      /\ entries' = [kept EXCEPT ![req[c].token] = c]
      /\ op' = [op EXCEPT ![c] = Opened]
      /\ WaitFor(c, c, "final")
      /\ UNCHANGED <<clock, req, reply>>

-----------------------------------------------------------------------------

Bind(c) ==
  \/ BindReused(c)
  \/ BindShared(c)
  \/ BindFull(c)
  \/ BindNew(c)

ReplaceCompleted(c) ==
  \/ ReplaceUnknown(c)
  \/ ReplaceReused(c)
  \/ ReplaceShared(c)
  \/ ReplaceNew(c)

CallerStep(c) ==
  \/ BindReadsClock(c)
  \/ BindInvalid(c)
  \/ Bind(c)
  \/ WaitReturns(c)
  \/ ReplaceReadsClock(c)
  \/ ReplaceInvalid(c)
  \/ ReplaceCompleted(c)

Next ==
  \/ Tick
  \/ \E c \in Caller : CallerStep(c) \/ Abandon(c)
  \/ \E o \in Caller, result \in Result : Complete(o, result)

Spec == Init /\ [][Next]_vars

-----------------------------------------------------------------------------
(* Properties *)

TypeOK ==
  /\ clock   \in 0 .. MaxClock
  /\ entries \in [Token -> Caller \cup {None}]
  /\ op      \in [Caller -> Operation]
  /\ req     \in [Caller -> Request]
  /\ pc      \in [Caller -> {"idle", "bind", "wait", "replace", "final", "done"}]
  /\ seen    \in [Caller -> 0 .. MaxClock]
  /\ watch   \in [Caller -> Caller \cup {None}]
  /\ reply   \in [Caller -> Reply \cup {None}]

Exists(o) == op[o].state # "none"

Current(t) == clock < ValidUntil[t]

(* While a token can still pass time validation, all the operations ever     *)
(* created for it are for one deployment and one digest, however many        *)
(* callers race on it with whatever clock values they read.                  *)
OneRequestPerToken ==
  \A c, d \in Caller :
    /\ Exists(c) /\ Exists(d)
    /\ req[c].token = req[d].token
    /\ Current(req[c].token)
    => req[c] = req[d]

(* While a token can still pass time validation, at most one of its          *)
(* operations is unfinished: racing retries never run side by side.          *)
OneOpenOperation ==
  \A c, d \in Caller :
    /\ op[c].state = "open" /\ op[d].state = "open"
    /\ req[c].token = req[d].token
    /\ Current(req[c].token)
    => c = d

(* A caller only ever waits for, and is only ever answered from, an          *)
(* operation for exactly the request it made.                                *)
SharesOwnRequest ==
  \A c \in Caller : watch[c] # None => Exists(watch[c]) /\ req[watch[c]] = req[c]

(* The map never grows past its capacity, replacements included.             *)
CapacityBound == Cardinality(Held(entries)) <= Capacity

(* A record is dropped only when its token can no longer pass time           *)
(* validation, even though the dropping caller read the clock earlier and    *)
(* may have come for another token.                                          *)
KeptUntilExpiry ==
  [][\A t \in Token : entries[t] # None /\ entries'[t] = None => ~Current(t)]_vars

(* A caller refused with ErrReused lost to an operation of the same token    *)
(* for another deployment or digest: an exact retry is never refused so.     *)
ReuseIsReal ==
  \A c \in Caller :
    reply[c] = Failed("reused") =>
      \E d \in Caller : /\ Exists(d)
                        /\ req[d].token = req[c].token
                        /\ req[d] # req[c]

(* Capacity refuses a caller only when the map is full of records that were  *)
(* still valid at the instant the caller read: an expired record never       *)
(* takes the place of a live one.                                            *)
FullOfLiveRecords ==
  [][\A c \in Caller :
       reply[c] = None /\ reply'[c] = Failed("capacity") =>
         Cardinality({t \in Token : entries[t] # None /\ seen[c] < ValidUntil[t]}) = Capacity]_vars

(* The request a current token stands for, and the results recorded of it.   *)
Bound(t) == IF Current(t) /\ entries[t] # None THEN req[entries[t]] ELSE None
Recorded(t) ==
  {op[c].result : c \in {c \in Caller :
     op[c].state = "done" /\ req[c].token = t /\ Current(t)}}

Binding == INSTANCE TokenBinding
  WITH valid    <- {t \in Token : Current(t)},
       bound    <- [t \in Token |-> Bound(t)],
       recorded <- [t \in Token |-> Recorded(t)],
       answer   <- reply

(* The cache keeps what TokenBinding.tla promises: racing callers, a clock   *)
(* read early, records dropped for other tokens and replaced operations      *)
(* never bind a valid token anew, never record anything after a final        *)
(* result, and never answer a call from another request's record.            *)
KeepsBinding == Binding!BindingSpec

-----------------------------------------------------------------------------
(* The inductive invariant behind the safety properties. *)

(* An entry names an operation that exists and was created for its token.    *)
EntriesMatch ==
  \A t \in Token : entries[t] # None => Exists(entries[t]) /\ req[entries[t]].token = t

(* A clock value in use was read in the past.                                *)
ReadInThePast == \A c \in Caller : seen[c] <= clock

(* The token of an operation stays bound to its request until it expires.    *)
StillBound ==
  \A c \in Caller :
    Exists(c) /\ Current(req[c].token) =>
      LET o == entries[req[c].token] IN o # None /\ req[o] = req[c]

(* Until its token expires, an unfinished operation is its token's entry.    *)
OpenIsCurrent ==
  \A c \in Caller :
    op[c].state = "open" /\ Current(req[c].token) => entries[req[c].token] = c

(* A caller that may still create its operation has not created it.          *)
NotYetOwner ==
  \A c \in Caller :
    \/ pc[c] \in {"idle", "bind", "replace"}
    \/ pc[c] = "wait" /\ watch[c] # c
    => ~Exists(c)

Inv ==
  /\ TypeOK
  /\ EntriesMatch
  /\ ReadInThePast
  /\ StillBound
  /\ OpenIsCurrent
  /\ NotYetOwner
  /\ SharesOwnRequest
  /\ ReuseIsReal
  /\ IsFiniteSet(Held(entries))
  /\ CapacityBound
=============================================================================
