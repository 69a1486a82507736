------------------------- MODULE ReplayCacheProofs -------------------------
(***************************************************************************)
(* Proofs about ReplayCache, for every set of callers, tokens, deployments *)
(* and digests, every capacity and every assignment of expiry instants.    *)
(*                                                                         *)
(* The argument: a clock value in use was read in the past, so a step that *)
(* uses it never drops the entry of a token that is still current.  Hence  *)
(* while a token is current its entry, once made, is only ever replaced by *)
(* a completed-for-open swap for the very same request.                    *)
(***************************************************************************)
EXTENDS ReplayCache, FiniteSetTheorems, TLAPS

(* Dropping the expired entries leaves a finite set no larger than before.   *)
LEMMA RetainedIsSmaller ==
  ASSUME NEW now,
         entries \in [Token -> Caller \cup {None}],
         IsFiniteSet(Held(entries))
  PROVE  /\ Retained(now) \in [Token -> Caller \cup {None}]
         /\ Held(Retained(now)) \subseteq Held(entries)
         /\ IsFiniteSet(Held(Retained(now)))
         /\ Cardinality(Held(Retained(now))) \in Nat
         /\ Cardinality(Held(entries)) \in Nat
         /\ Cardinality(Held(Retained(now))) <= Cardinality(Held(entries))
<1>1. /\ Retained(now) \in [Token -> Caller \cup {None}]
      /\ Held(Retained(now)) \subseteq Held(entries)
  BY DEF Retained, Held
<1>2. /\ IsFiniteSet(Held(Retained(now)))
      /\ Cardinality(Held(Retained(now))) <= Cardinality(Held(entries))
  BY <1>1, FS_Subset
<1> QED  BY <1>1, <1>2, FS_CardinalityType

(* An entry that a past clock value drops has expired by now.                *)
LEMMA RetainedKeepsCurrent ==
  ASSUME NEW c \in Caller, NEW t \in Token, Inv, Current(t)
  PROVE  Retained(seen[c])[t] = entries[t]
  BY CacheAssumption DEF Inv, TypeOK, ReadInThePast, Current, Retained

(* Purging with a past clock value keeps every part of Inv about entries.    *)
LEMMA PurgeKeepsInv ==
  ASSUME NEW c \in Caller, Inv, entries' = Retained(seen[c]),
         UNCHANGED <<clock, op, req>>
  PROVE  /\ entries' \in [Token -> Caller \cup {None}]
         /\ EntriesMatch'
         /\ StillBound'
         /\ OpenIsCurrent'
         /\ IsFiniteSet(Held(entries'))
         /\ CapacityBound'
<1>1. /\ entries \in [Token -> Caller \cup {None}]
      /\ req \in [Caller -> Request]
  BY DEF Inv, TypeOK
<1>2. /\ entries' \in [Token -> Caller \cup {None}]
      /\ IsFiniteSet(Held(entries'))
      /\ CapacityBound'
  <2>1. /\ Cardinality(Held(entries')) \in Nat
        /\ Cardinality(Held(entries)) \in Nat
        /\ Cardinality(Held(entries')) <= Cardinality(Held(entries))
        /\ Cardinality(Held(entries)) <= Capacity
    BY RetainedIsSmaller DEF Inv, TypeOK, CapacityBound
  <2> QED  BY <2>1, RetainedIsSmaller, CacheAssumption DEF Inv, TypeOK, CapacityBound, Held
<1>3. \A t \in Token : entries'[t] # None => entries'[t] = entries[t]
  BY <1>1 DEF Retained
<1>4. \A t \in Token : Current(t)' => entries'[t] = entries[t] /\ Current(t)
  BY RetainedKeepsCurrent DEF Current
<1>5. EntriesMatch'
  BY <1>1, <1>3 DEF Inv, EntriesMatch, Exists
<1>6. StillBound'
  BY <1>1, <1>4 DEF Inv, StillBound, Exists, Request
<1>7. OpenIsCurrent'
  BY <1>1, <1>4 DEF Inv, OpenIsCurrent, Request
<1> QED  BY <1>2, <1>5, <1>6, <1>7

(* Making c the operation of its token keeps them too, when the token has no *)
(* entry and there is room, or when its entry is a completed operation for   *)
(* the same request.                                                         *)
LEMMA ClaimKeepsInv ==
  ASSUME NEW c \in Caller, Inv, ~Exists(c),
         \/ /\ Retained(seen[c])[req[c].token] = None
            /\ Cardinality(Held(Retained(seen[c]))) < Capacity
         \/ /\ Retained(seen[c])[req[c].token] \in Caller
            /\ req[Retained(seen[c])[req[c].token]] = req[c]
            /\ op[Retained(seen[c])[req[c].token]].state = "done",
         entries' = [Retained(seen[c]) EXCEPT ![req[c].token] = c],
         op' = [op EXCEPT ![c] = Opened],
         UNCHANGED <<clock, req>>
  PROVE  /\ entries' \in [Token -> Caller \cup {None}]
         /\ op' \in [Caller -> Operation]
         /\ \A o \in Caller : Exists(o)' <=> (Exists(o) \/ o = c)
         /\ EntriesMatch'
         /\ StillBound'
         /\ OpenIsCurrent'
         /\ IsFiniteSet(Held(entries'))
         /\ CapacityBound'
<1> DEFINE t == req[c].token
           kept == Retained(seen[c])
<1>1. /\ entries \in [Token -> Caller \cup {None}]
      /\ req \in [Caller -> Request]
      /\ op \in [Caller -> Operation]
      /\ t \in Token
      /\ c # None
  BY CacheAssumption DEF Inv, TypeOK, Request
<1>2. /\ kept \in [Token -> Caller \cup {None}]
      /\ IsFiniteSet(Held(kept))
      /\ Cardinality(Held(kept)) \in Nat
      /\ Cardinality(Held(entries)) \in Nat
      /\ Cardinality(Held(kept)) <= Cardinality(Held(entries))
      /\ Cardinality(Held(entries)) <= Capacity
  BY <1>1, RetainedIsSmaller DEF Inv, CapacityBound
<1>3. /\ entries' \in [Token -> Caller \cup {None}]
      /\ \A u \in Token : entries'[u] = IF u = t THEN c ELSE kept[u]
  BY <1>1, <1>2
<1>4. /\ op' \in [Caller -> Operation]
      /\ \A o \in Caller : op'[o] = IF o = c THEN Opened ELSE op[o]
  BY <1>1 DEF Opened, Operation
<1>5. \A o \in Caller : Exists(o)' <=> (Exists(o) \/ o = c)
  BY <1>4 DEF Exists, Opened
<1>6. \A u \in Token : kept[u] # None => kept[u] = entries[u]
  BY <1>1 DEF Retained
<1>7. \A u \in Token : Current(u)' => Current(u) /\ kept[u] = entries[u]
  BY RetainedKeepsCurrent DEF Current
<1>8. EntriesMatch'
  <2> SUFFICES ASSUME NEW u \in Token, entries'[u] # None
               PROVE  op'[entries'[u]].state # "none" /\ req[entries'[u]].token = u
    BY DEF EntriesMatch, Exists
  <2>1. CASE u = t
    BY <2>1, <1>3, <1>4 DEF Opened
  <2>2. CASE u # t
    BY <2>2, <1>2, <1>3, <1>4, <1>6 DEF Inv, EntriesMatch, Exists, Opened
  <2> QED  BY <2>1, <2>2
<1>9. StillBound'
  <2> SUFFICES ASSUME NEW d \in Caller, Exists(d)', Current(req[d].token)'
               PROVE  entries'[req[d].token] # None /\ req[entries'[req[d].token]] = req[d]
    BY DEF StillBound
  <2>0. req[d].token \in Token
    BY <1>1 DEF Request
  <2>1. CASE d = c
    BY <2>1, <1>1, <1>3
  <2>2. CASE d # c /\ req[d].token = t
    <3>1. kept[t] # None /\ req[kept[t]] = req[d]
      BY <2>2, <1>1, <1>5, <1>7 DEF Inv, StillBound
    <3> QED  BY <3>1, <2>2, <1>1, <1>3
  <2>3. CASE d # c /\ req[d].token # t
    BY <2>3, <2>0, <1>3, <1>5, <1>7 DEF Inv, StillBound
  <2> QED  BY <2>1, <2>2, <2>3
<1>10. OpenIsCurrent'
  <2> SUFFICES ASSUME NEW d \in Caller, op'[d].state = "open", Current(req[d].token)'
               PROVE  entries'[req[d].token] = d
    BY DEF OpenIsCurrent
  <2>0. req[d].token \in Token
    BY <1>1 DEF Request
  <2>1. CASE d = c
    BY <2>1, <1>1, <1>3
  <2>2. CASE d # c
    <3>1. op[d].state = "open" /\ kept[req[d].token] = d /\ d # None
      BY <2>0, <2>2, <1>4, <1>7, CacheAssumption DEF Inv, OpenIsCurrent
    <3>2. req[d].token # t
      BY <3>1
    <3> QED  BY <3>1, <3>2, <2>0, <1>3
  <2> QED  BY <2>1, <2>2
<1> HIDE DEF t, kept
<1>11. IsFiniteSet(Held(entries')) /\ CapacityBound'
  <2>0. CapacityBound' <=> Cardinality(Held(entries')) <= Capacity
    BY DEF CapacityBound, Held
  <2>1. Held(entries') = Held(kept) \cup {t}
    BY <1>1, <1>3 DEF Held
  <2>2. CASE kept[t] = None /\ Cardinality(Held(kept)) < Capacity
    <3>1. t \notin Held(kept)
      BY <2>2 DEF Held
    <3>2. /\ IsFiniteSet(Held(kept) \cup {t})
          /\ Cardinality(Held(kept) \cup {t}) = Cardinality(Held(kept)) + 1
      BY <1>2, <3>1, FS_AddElement
    <3>3. /\ IsFiniteSet(Held(entries'))
          /\ Cardinality(Held(entries')) = Cardinality(Held(kept)) + 1
      BY <3>2, <2>1
    <3>4. Cardinality(Held(kept)) + 1 <= Capacity
      BY <2>2, <1>2, CacheAssumption
    <3> QED  BY <3>3, <3>4, <2>0
  <2>3. CASE kept[t] \in Caller
    <3>1. Held(kept) \cup {t} = Held(kept)
      BY <2>3, <1>1, CacheAssumption DEF Held
    <3>2. Capacity \in Nat
      BY CacheAssumption
    <3> QED  BY <3>1, <3>2, <2>0, <2>1, <1>2
  <2> QED  BY <2>2, <2>3 DEF kept, t
<1> QED  BY <1>3, <1>4, <1>5, <1>8, <1>9, <1>10, <1>11

(* The initial states satisfy the invariant.                                 *)
LEMMA InvInit == Init => Inv
<1> SUFFICES ASSUME Init PROVE Inv
  OBVIOUS
<1>1. Held(entries) = {}
  BY DEF Init, Held
<1>2. IsFiniteSet(Held(entries)) /\ CapacityBound
  BY <1>1, FS_EmptySet, CacheAssumption DEF CapacityBound
<1>3. TypeOK
  BY CacheAssumption DEF Init, TypeOK, Operation, NoOperation
<1> QED
  BY <1>2, <1>3, CacheAssumption
  DEF Init, Inv, EntriesMatch, ReadInThePast, StillBound, OpenIsCurrent,
      NotYetOwner, SharesOwnRequest, ReuseIsReal, Exists, NoOperation, Reply, Failure

(* Steps that only move one caller, after which it waits for nothing new,    *)
(* keep the invariant whether or not they purge the map.                     *)
LEMMA LeaveKeepsInv ==
  ASSUME Inv, NEW c \in Caller, NEW answer \in Reply,
         Leave(c, answer),
         answer = Failed("reused") =>
           \E d \in Caller : /\ Exists(d)
                             /\ req[d].token = req[c].token
                             /\ req[d] # req[c],
         entries' = Retained(seen[c]) \/ UNCHANGED entries,
         UNCHANGED <<clock, op, req, watch>>
  PROVE  Inv'
<1>1. TypeOK /\ TypeOK'
  <2>1. entries' \in [Token -> Caller \cup {None}]
    BY DEF Inv, TypeOK, Retained
  <2> QED  BY <2>1, CacheAssumption DEF Inv, TypeOK, Leave
<1>2. ReadInThePast' /\ NotYetOwner' /\ SharesOwnRequest'
  BY <1>1 DEF Inv, TypeOK, ReadInThePast, NotYetOwner, SharesOwnRequest, Exists, Leave
<1>3. ReuseIsReal'
  BY <1>1 DEF Inv, TypeOK, ReuseIsReal, Exists, Leave
<1>4. EntriesMatch' /\ StillBound' /\ OpenIsCurrent' /\ IsFiniteSet(Held(entries)') /\ CapacityBound'
  <2>1. CASE entries' = Retained(seen[c])
    BY <2>1, PurgeKeepsInv DEF Held
  <2>2. CASE UNCHANGED entries
    BY <2>2 DEF Inv, EntriesMatch, StillBound, OpenIsCurrent, CapacityBound, Held, Exists, Current
  <2> QED  BY <2>1, <2>2
<1> QED  BY <1>1, <1>2, <1>3, <1>4 DEF Inv

(* So do the steps that share a token's current operation.                   *)
LEMMA ShareKeepsInv ==
  ASSUME Inv, NEW c \in Caller, NEW next \in {"wait", "final"},
         ~Exists(c),
         Retained(seen[c])[req[c].token] # None,
         SameBinding(c, Retained(seen[c])[req[c].token]),
         entries' = Retained(seen[c]),
         WaitFor(c, Retained(seen[c])[req[c].token], next),
         UNCHANGED <<clock, op, req, reply>>
  PROVE  Inv'
<1> DEFINE o == Retained(seen[c])[req[c].token]
<1>1. /\ req[c] \in Request
      /\ o = entries[req[c].token]
      /\ o # None
  BY DEF Inv, TypeOK, Request, Retained
<1>2. o \in Caller /\ Exists(o) /\ req[o] = req[c]
  <2>1. o \in Caller /\ Exists(o) /\ req[o].token = req[c].token /\ req[o] \in Request
    BY <1>1 DEF Inv, TypeOK, EntriesMatch, Request
  <2>2. req[o].deployment = req[c].deployment /\ req[o].digest = req[c].digest
    BY DEF SameBinding
  <2> QED  BY <1>1, <2>1, <2>2 DEF Request
<1>3. /\ entries' \in [Token -> Caller \cup {None}]
      /\ EntriesMatch' /\ StillBound' /\ OpenIsCurrent'
      /\ IsFiniteSet(Held(entries)') /\ CapacityBound'
  BY PurgeKeepsInv DEF Held
<1> HIDE DEF o
<1>4. WaitFor(c, o, next)
  BY DEF o
<1>5. TypeOK'
  BY <1>2, <1>3, <1>4, CacheAssumption DEF Inv, TypeOK, WaitFor
<1>6. ReadInThePast' /\ NotYetOwner' /\ ReuseIsReal'
  BY <1>4, <1>5 DEF Inv, TypeOK, ReadInThePast, NotYetOwner, ReuseIsReal, Exists, WaitFor
<1>7. SharesOwnRequest'
  BY <1>2, <1>4 DEF Inv, TypeOK, SharesOwnRequest, Exists, WaitFor
<1> QED  BY <1>3, <1>5, <1>6, <1>7 DEF Inv

(* So do the steps by which a caller creates its operation.                  *)
LEMMA CreateKeepsInv ==
  ASSUME Inv, NEW c \in Caller, NEW next \in {"wait", "final"},
         ~Exists(c),
         \/ /\ Retained(seen[c])[req[c].token] = None
            /\ Cardinality(Held(Retained(seen[c]))) < Capacity
         \/ /\ Retained(seen[c])[req[c].token] \in Caller
            /\ req[Retained(seen[c])[req[c].token]] = req[c]
            /\ op[Retained(seen[c])[req[c].token]].state = "done",
         entries' = [Retained(seen[c]) EXCEPT ![req[c].token] = c],
         op' = [op EXCEPT ![c] = Opened],
         WaitFor(c, c, next),
         UNCHANGED <<clock, req, reply>>
  PROVE  Inv'
<1>1. /\ entries' \in [Token -> Caller \cup {None}]
      /\ op' \in [Caller -> Operation]
      /\ \A o \in Caller : Exists(o)' <=> (Exists(o) \/ o = c)
      /\ EntriesMatch' /\ StillBound' /\ OpenIsCurrent'
      /\ IsFiniteSet(Held(entries)') /\ CapacityBound'
  BY ClaimKeepsInv DEF Held
<1>2. \A o \in Caller : op'[o] = IF o = c THEN Opened ELSE op[o]
  BY DEF Inv, TypeOK
<1>3. TypeOK'
  BY <1>1, CacheAssumption DEF Inv, TypeOK, WaitFor
<1>4. ReadInThePast' /\ NotYetOwner'
  BY <1>2, <1>3, CacheAssumption DEF Inv, TypeOK, ReadInThePast, NotYetOwner, Exists, WaitFor
<1>5. ReuseIsReal'
  BY <1>2 DEF Inv, TypeOK, ReuseIsReal, Exists, Opened
<1>6. SharesOwnRequest'
  BY <1>2 DEF Inv, TypeOK, SharesOwnRequest, Exists, Opened, WaitFor
<1> QED  BY <1>1, <1>3, <1>4, <1>5, <1>6 DEF Inv

(* Every step keeps the invariant.                                           *)
LEMMA InvNext == Inv /\ [Next]_vars => Inv'
<1> SUFFICES ASSUME Inv, [Next]_vars PROVE Inv'
  OBVIOUS
<1>1. CASE Tick
  <2>1. TypeOK'
    BY <1>1, CacheAssumption DEF Inv, TypeOK, Tick
  <2>2. ReadInThePast'
    BY <1>1, CacheAssumption DEF Inv, TypeOK, Tick, ReadInThePast
  <2>3. \A t \in Token : Current(t)' => Current(t)
    BY <1>1, CacheAssumption DEF Inv, TypeOK, Tick, Current
  <2>4. StillBound' /\ OpenIsCurrent'
    <3>1. \A c \in Caller : req[c].token \in Token
      BY DEF Inv, TypeOK, Request
    <3> QED  BY <1>1, <2>3, <3>1 DEF Inv, StillBound, OpenIsCurrent, Tick, Exists
  <2> QED
    BY <1>1, <2>1, <2>2, <2>4
    DEF Inv, Tick, EntriesMatch, NotYetOwner, SharesOwnRequest, ReuseIsReal,
        CapacityBound, Exists, Held
<1>2. ASSUME NEW c \in Caller,
             BindReadsClock(c) \/ ReplaceReadsClock(c)
      PROVE  Inv'
  <2>1. TypeOK' /\ ReadInThePast'
    BY <1>2 DEF Inv, TypeOK, ReadInThePast, BindReadsClock, ReplaceReadsClock
  <2>2. NotYetOwner'
    BY <1>2 DEF Inv, TypeOK, NotYetOwner, Exists, BindReadsClock, ReplaceReadsClock, MayReplace
  <2>3. UNCHANGED <<clock, entries, op, req, watch, reply>>
    BY <1>2 DEF BindReadsClock, ReplaceReadsClock
  <2>4. EntriesMatch' /\ StillBound' /\ OpenIsCurrent' /\ SharesOwnRequest' /\ ReuseIsReal'
    BY <2>3 DEF Inv, EntriesMatch, StillBound, OpenIsCurrent, SharesOwnRequest, ReuseIsReal,
                Exists, Current
  <2>5. IsFiniteSet(Held(entries)') /\ CapacityBound'
    BY <2>3 DEF Inv, CapacityBound, Held
  <2> QED  BY <2>1, <2>2, <2>4, <2>5 DEF Inv
<1>3. ASSUME NEW c \in Caller,
             BindInvalid(c) \/ BindFull(c) \/ ReplaceInvalid(c) \/ ReplaceUnknown(c) \/ Abandon(c)
      PROVE  Inv'
  <2>1. PICK answer \in Reply \ {Failed("reused")} :
          /\ Leave(c, answer)
          /\ entries' = Retained(seen[c]) \/ UNCHANGED entries
          /\ UNCHANGED <<clock, op, req, watch>>
    BY <1>3 DEF BindInvalid, BindFull, ReplaceInvalid, ReplaceUnknown, Abandon, Reply, Failed, Failure
  <2> QED  BY <2>1, LeaveKeepsInv
<1>4. ASSUME NEW c \in Caller, WaitReturns(c)
      PROVE  Inv'
  <2>1. watch[c] \in Caller /\ op[watch[c]].state = "done"
    BY <1>4 DEF WaitReturns, IsCompleted, Inv, TypeOK
  <2>2. op[watch[c]].result \in Result
    BY <2>1 DEF Inv, TypeOK, Operation, NoOperation, Opened, Completed
  <2>3. Returned(op[watch[c]].result) \in Reply \ {Failed("reused")}
    BY <2>2 DEF Reply, Returned, Failed
  <2> QED  BY <1>4, <2>3, LeaveKeepsInv DEF WaitReturns
<1>5. ASSUME NEW c \in Caller, BindReused(c) \/ ReplaceReused(c)
      PROVE  Inv'
  <2> DEFINE d == Retained(seen[c])[req[c].token]
  <2>1. /\ d # None
        /\ ~SameBinding(c, d)
        /\ Leave(c, Failed("reused"))
        /\ entries' = Retained(seen[c])
        /\ UNCHANGED <<clock, op, req, watch>>
    BY <1>5 DEF BindReused, ReplaceReused
  <2>2. d = entries[req[c].token] /\ req[c].token \in Token
    BY <2>1 DEF Inv, TypeOK, Request, Retained
  <2>3. d \in Caller /\ Exists(d) /\ req[d].token = req[c].token /\ req[d] # req[c]
    BY <2>1, <2>2 DEF Inv, TypeOK, EntriesMatch, SameBinding
  <2> QED  BY <2>1, <2>3, LeaveKeepsInv DEF Reply, Failure
<1>6. ASSUME NEW c \in Caller, BindShared(c)
      PROVE  Inv'
  <2>1. ~Exists(c)
    BY <1>6 DEF Inv, NotYetOwner, BindShared
  <2> QED  BY <1>6, <2>1, ShareKeepsInv DEF BindShared
<1>7. ASSUME NEW c \in Caller, ReplaceShared(c)
      PROVE  Inv'
  <2>1. ~Exists(c)
    BY <1>7 DEF Inv, NotYetOwner, ReplaceShared
  <2> QED  BY <1>7, <2>1, ShareKeepsInv DEF ReplaceShared
<1>8. ASSUME NEW c \in Caller, BindNew(c)
      PROVE  Inv'
  <2>1. ~Exists(c)
    BY <1>8 DEF Inv, NotYetOwner, BindNew
  <2> QED  BY <1>8, <2>1, CreateKeepsInv DEF BindNew
<1>9. ASSUME NEW c \in Caller, ReplaceNew(c)
      PROVE  Inv'
  <2>1. ~Exists(c)
    BY <1>9 DEF Inv, NotYetOwner, ReplaceNew
  <2>2. LET o == Retained(seen[c])[req[c].token]
        IN  o \in Caller /\ req[o] = req[c] /\ op[o].state = "done"
    BY <1>9, CacheAssumption DEF ReplaceNew, Replaceable, Inv, TypeOK, SharesOwnRequest
  <2> QED  BY <1>9, <2>1, <2>2, CreateKeepsInv DEF ReplaceNew
<1>10. ASSUME NEW o \in Caller, NEW result \in Result, Complete(o, result)
       PROVE  Inv'
  <2>1. /\ TypeOK'
        /\ \A c \in Caller : /\ op'[c].state = "open" => op[c].state = "open"
                             /\ Exists(c)' <=> Exists(c)
    BY <1>10 DEF Inv, TypeOK, Complete, Completed, Operation, Exists
  <2>2. EntriesMatch' /\ SharesOwnRequest'
    BY <1>10, <2>1 DEF Inv, TypeOK, EntriesMatch, SharesOwnRequest, Complete, Exists
  <2>3. StillBound' /\ OpenIsCurrent' /\ NotYetOwner' /\ ReuseIsReal' /\ ReadInThePast'
    BY <1>10, <2>1
    DEF Inv, StillBound, OpenIsCurrent, NotYetOwner, ReuseIsReal, ReadInThePast,
        Complete, Current, Exists
  <2> QED  BY <1>10, <2>1, <2>2, <2>3 DEF Inv, Complete, CapacityBound, Held
<1>11. CASE UNCHANGED vars
  BY <1>11
  DEF Inv, vars, TypeOK, EntriesMatch, ReadInThePast, StillBound, OpenIsCurrent, NotYetOwner,
      SharesOwnRequest, ReuseIsReal, CapacityBound, Exists, Current, Held
<1> QED
  BY <1>1, <1>2, <1>3, <1>4, <1>5, <1>6, <1>7, <1>8, <1>9, <1>10, <1>11
  DEF Next, CallerStep, Bind, ReplaceCompleted

(* The invariant holds in every reachable state.                             *)
THEOREM Invariance == Spec => []Inv
<1> QED  BY InvInit, InvNext, PTL DEF Spec

(* Every variable of the cache and of its callers keeps its type.            *)
THEOREM TypeCorrect == Spec => []TypeOK
<1>1. Inv => TypeOK
  BY DEF Inv
<1> QED  BY <1>1, Invariance, PTL

(* However Bind and ReplaceCompleted calls race, a token that can still pass *)
(* time validation is only ever claimed for one deployment and digest        *)
(* (cache.go, Bind).                                                         *)
THEOREM CurrentTokenBoundOnce == Spec => []OneRequestPerToken
<1>1. Inv => OneRequestPerToken
  BY DEF Inv, OneRequestPerToken, StillBound
<1> QED  BY <1>1, Invariance, PTL

(* Two retries of one current token never have two unfinished operations     *)
(* (cache.go, ReplaceCompleted).                                             *)
THEOREM CurrentTokenOpenOnce == Spec => []OneOpenOperation
<1>1. Inv => OneOpenOperation
  BY DEF Inv, OneOpenOperation, OpenIsCurrent
<1> QED  BY <1>1, Invariance, PTL

(* A caller is only ever answered from an operation for its own request.     *)
THEOREM AnsweredFromOwnRequest == Spec => []SharesOwnRequest
<1>1. Inv => SharesOwnRequest
  BY DEF Inv
<1> QED  BY <1>1, Invariance, PTL

(* ErrReused is only returned to a caller whose token another request holds. *)
THEOREM RefusedOnlyForReuse == Spec => []ReuseIsReal
<1>1. Inv => ReuseIsReal
  BY DEF Inv
<1> QED  BY <1>1, Invariance, PTL

(* The map holds at most Capacity records.                                   *)
THEOREM NeverOverCapacity == Spec => []CapacityBound
<1>1. Inv => CapacityBound
  BY DEF Inv
<1> QED  BY <1>1, Invariance, PTL

(* No step drops the record of a current token, whatever stale clock value   *)
(* the step uses and whichever token its caller came for.                    *)
THEOREM RecordsKept == Spec => KeptUntilExpiry
<1> DEFINE Kept == \A t \in Token : entries[t] # None /\ entries'[t] = None => ~Current(t)
<1>1. Inv /\ [Next]_vars => [Kept]_vars
  <2> SUFFICES ASSUME Inv, [Next]_vars, NEW t \in Token,
                      entries[t] # None, entries'[t] = None, Current(t)
               PROVE  FALSE
    OBVIOUS
  <2>1. entries \in [Token -> Caller \cup {None}] /\ req \in [Caller -> Request]
    BY DEF Inv, TypeOK
  <2>2. ~UNCHANGED entries
    OBVIOUS
  <2>3. PICK c \in Caller : Bind(c) \/ ReplaceCompleted(c)
    BY <2>2
    DEF Next, CallerStep, vars, Tick, Abandon, Complete, BindReadsClock, BindInvalid,
        WaitReturns, ReplaceReadsClock, ReplaceInvalid
  <2>4. \/ entries' = Retained(seen[c])
        \/ entries' = [Retained(seen[c]) EXCEPT ![req[c].token] = c]
    BY <2>3
    DEF Bind, BindReused, BindShared, BindFull, BindNew,
        ReplaceCompleted, ReplaceUnknown, ReplaceReused, ReplaceShared, ReplaceNew
  <2>5. Retained(seen[c])[t] = entries[t] /\ c # None
    BY RetainedKeepsCurrent, CacheAssumption
  <2>6. DOMAIN Retained(seen[c]) = Token
    BY DEF Retained
  <2> QED  BY <2>4, <2>5, <2>6
<1> QED  BY <1>1, Invariance, PTL DEF Spec, KeptUntilExpiry

(* ErrCapacity is only returned by the step that finds as many records as    *)
(* the capacity, all of them still valid at the instant its caller read.     *)
THEOREM TurnedAwayWhenFull == Spec => FullOfLiveRecords
<1> DEFINE Live(c) == {t \in Token : entries[t] # None /\ seen[c] < ValidUntil[t]}
           TurnedAway(c) == reply[c] = None /\ reply'[c] = Failed("capacity")
           Full == \A c \in Caller : TurnedAway(c) => Cardinality(Live(c)) = Capacity
<1>1. Inv /\ [Next]_vars => [Full]_vars
  <2> SUFFICES ASSUME Inv, [Next]_vars, NEW c \in Caller, TurnedAway(c)
               PROVE  Cardinality(Live(c)) = Capacity
    OBVIOUS
  <2>1. reply \in [Caller -> Reply \cup {None}]
    BY DEF Inv, TypeOK
  <2>2. None # Failed("capacity")
    BY CacheAssumption DEF Reply, Failure
  <2>3. ~UNCHANGED reply
    BY <2>1, <2>2
  <2>4. PICK d \in Caller :
          \/ BindFull(d)
          \/ \E answer \in Reply \ {Failed("capacity")} : reply' = [reply EXCEPT ![d] = answer]
    <3>1. \A failure \in {"invalid", "reused", "unknown", "abandoned"} :
            Failed(failure) \in Reply \ {Failed("capacity")}
      BY DEF Reply, Failed, Failure
    <3>2. ASSUME NEW d \in Caller, WaitReturns(d)
          PROVE  Returned(op[watch[d]].result) \in Reply \ {Failed("capacity")}
      <4>1. watch[d] \in Caller /\ op[watch[d]] \in Operation /\ op[watch[d]].state = "done"
        BY <3>2 DEF WaitReturns, IsCompleted, Inv, TypeOK
      <4>2. PICK result \in Result : op[watch[d]] = Completed(result)
        BY <4>1 DEF Operation, NoOperation, Opened
      <4>3. op[watch[d]].result = result
        BY <4>2 DEF Completed
      <4> QED  BY <4>3 DEF Reply, Returned, Failed
    <3>3. PICK d \in Caller : CallerStep(d) \/ Abandon(d)
      BY <2>3 DEF Next, vars, Tick, Complete
    <3>4. CASE WaitReturns(d)
      BY <3>2, <3>4 DEF WaitReturns, Leave
    <3>5. CASE Abandon(d) \/ BindInvalid(d) \/ BindReused(d) \/ ReplaceInvalid(d)
               \/ ReplaceUnknown(d) \/ ReplaceReused(d)
      BY <3>1, <3>5
      DEF Abandon, BindInvalid, BindReused, ReplaceInvalid, ReplaceUnknown, ReplaceReused, Leave
    <3>6. CASE BindFull(d)
      BY <3>6
    <3> QED  BY <2>3, <3>3, <3>4, <3>5, <3>6
             DEF CallerStep, Bind, ReplaceCompleted, BindReadsClock, BindShared, BindNew,
                 ReplaceReadsClock, ReplaceShared, ReplaceNew
  <2>5. BindFull(c)
    <3>1. CASE BindFull(d)
      BY <2>1, <2>2, <3>1 DEF BindFull, Leave
    <3>2. ASSUME NEW answer \in Reply \ {Failed("capacity")},
                 reply' = [reply EXCEPT ![d] = answer]
          PROVE  FALSE
      BY <2>1, <2>2, <3>2
    <3> QED  BY <2>4, <3>1, <3>2
  <2>6. Live(c) = Held(Retained(seen[c]))
    BY DEF Retained, Held
  <2>7. /\ Cardinality(Held(Retained(seen[c]))) >= Capacity
        /\ Cardinality(Held(Retained(seen[c]))) <= Cardinality(Held(entries))
        /\ Cardinality(Held(Retained(seen[c]))) \in Nat
        /\ Cardinality(Held(entries)) \in Nat
        /\ Cardinality(Held(entries)) <= Capacity
    BY <2>5, RetainedIsSmaller DEF BindFull, Inv, TypeOK, CapacityBound
  <2> QED  BY <2>6, <2>7, CacheAssumption
<1> QED  BY <1>1, Invariance, PTL DEF Spec, FullOfLiveRecords

-----------------------------------------------------------------------------
(* The cache keeps what TokenBinding promises *)

(* Only a call that has returned has its answer.                             *)
AnsweredAtEnd == \A c \in Caller : pc[c] # "done" => reply[c] = None

(* A call about to replace an operation found it completed and retryable.    *)
ReplacesRetryable ==
  \A c \in Caller :
    /\ pc[c] \in {"wait", "replace", "final"} => watch[c] # None
    /\ pc[c] = "replace" => op[watch[c]].state = "done" /\ op[watch[c]].result \in Retryable

(* An operation with a final result stays its token's last.                  *)
FinalIsLast ==
  \A c \in Caller :
    /\ op[c].state = "done" /\ op[c].result \notin Retryable
    /\ Current(req[c].token)
    => entries[req[c].token] = c

BindingInv == Inv /\ AnsweredAtEnd /\ ReplacesRetryable /\ FinalIsLast

LEMMA BindingInvInit == Init => BindingInv
BY InvInit DEF Init, BindingInv, AnsweredAtEnd, ReplacesRetryable, FinalIsLast, NoOperation

(* What the steps do to the map and to operations.                           *)
LEMMA EntrySteps ==
  ASSUME Inv, [Next]_vars
  PROVE  /\ UNCHANGED req
         /\ \/ Tick
            \/ UNCHANGED <<clock, entries, op>>
            \/ \E c \in Caller : entries' = Retained(seen[c]) /\ UNCHANGED <<clock, op>>
            \/ \E c \in Caller : BindNew(c) \/ ReplaceNew(c)
            \/ \E c \in Caller, result \in Result : Complete(c, result)
BY DEF Next, vars, CallerStep, Bind, ReplaceCompleted, Tick, Abandon, BindReadsClock, BindInvalid,
       BindReused, BindShared, BindFull, BindNew, WaitReturns, ReplaceReadsClock, ReplaceInvalid,
       ReplaceUnknown, ReplaceReused, ReplaceShared, ReplaceNew, Complete

(* A caller that creates its operation has none yet; a token without an      *)
(* entry has had no operation yet, as far as it is current.                  *)
LEMMA CreateFacts ==
  ASSUME Inv, NEW c \in Caller, BindNew(c) \/ ReplaceNew(c)
  PROVE  /\ op[c].state = "none" /\ op'[c] = Opened
         /\ \A o \in Caller : o # c => op'[o] = op[o]
         /\ UNCHANGED <<clock, req, reply>>
         /\ \A t \in Token : Current(t) =>
              entries'[t] = IF t = req[c].token THEN c ELSE entries[t]
<1>1. op[c].state = "none"
  BY DEF Inv, NotYetOwner, BindNew, ReplaceNew, Exists
<1>2. /\ entries' = [Retained(seen[c]) EXCEPT ![req[c].token] = c]
      /\ op' = [op EXCEPT ![c] = Opened]
      /\ UNCHANGED <<clock, req, reply>>
  BY DEF BindNew, ReplaceNew
<1>3. \A t \in Token : Current(t) => entries'[t] = IF t = req[c].token THEN c ELSE entries[t]
  <2>1. DOMAIN Retained(seen[c]) = Token
    BY DEF Retained
  <2> QED  BY <1>2, <2>1, RetainedKeepsCurrent
<1> QED  BY <1>1, <1>2, <1>3 DEF Inv, TypeOK

LEMMA TickFacts ==
  ASSUME Inv, Tick
  PROVE  \A t \in Token : Current(t)' => Current(t)
BY CacheAssumption DEF Inv, TypeOK, Tick, Current

LEMMA BindingInvNext == BindingInv /\ [Next]_vars => BindingInv'
<1> SUFFICES ASSUME BindingInv, [Next]_vars PROVE BindingInv'
  OBVIOUS
<1>0. Inv /\ Inv' /\ TypeOK /\ UNCHANGED req /\ \A c \in Caller : req[c].token \in Token
  BY InvNext, EntrySteps DEF BindingInv, Inv, TypeOK, Request
<1>1. AnsweredAtEnd'
  <2> SUFFICES ASSUME NEW c \in Caller, pc'[c] # "done" PROVE reply'[c] = None
    BY DEF AnsweredAtEnd
  <2>1. ASSUME NEW d \in Caller, CallerStep(d) \/ Abandon(d)
        PROVE  reply'[c] = reply[c] /\ pc[c] # "done"
    <3>1. \/ \E answer : Leave(d, answer)
          \/ /\ pc[d] # "done" /\ UNCHANGED reply
             /\ \E next : pc' = [pc EXCEPT ![d] = next]
      BY <2>1 DEF CallerStep, Bind, ReplaceCompleted, Abandon, BindReadsClock, BindInvalid,
           BindReused, BindShared, BindFull, BindNew, WaitReturns, ReplaceReadsClock, ReplaceInvalid,
           ReplaceUnknown, ReplaceReused, ReplaceShared, ReplaceNew, WaitFor, MayReplace
    <3> QED  BY <1>0, <3>1 DEF Leave, TypeOK
  <2>2. Tick \/ UNCHANGED vars \/ (\E o \in Caller, result \in Result : Complete(o, result))
          => UNCHANGED <<pc, reply>>
    BY DEF Tick, vars, Complete
  <2>3. reply'[c] = reply[c] /\ pc[c] # "done"
    BY <2>1, <2>2 DEF Next
  <2> QED  BY <2>3 DEF BindingInv, AnsweredAtEnd
<1>2. \A o \in Caller : op[o].state = "done" => op'[o] = op[o]
  BY <1>0, EntrySteps, CreateFacts DEF Tick, Complete, TypeOK
<1>3. ReplacesRetryable'
  <2> SUFFICES ASSUME NEW c \in Caller
               PROVE  /\ pc'[c] \in {"wait", "replace", "final"} => watch'[c] # None
                      /\ pc'[c] = "replace" => op'[watch'[c]].state = "done"
                                               /\ op'[watch'[c]].result \in Retryable
    BY DEF ReplacesRetryable
  <2>1. \/ pc'[c] = pc[c] /\ watch'[c] = watch[c]
        \/ pc'[c] \in {"bind", "done"}
        \/ pc'[c] \in {"wait", "final"} /\ watch'[c] # None
        \/ pc'[c] = "replace" /\ MayReplace(c) /\ watch'[c] = watch[c]
    BY <1>0, CacheAssumption
       DEF TypeOK, Next, vars, CallerStep, Bind, ReplaceCompleted, Tick, Abandon, BindReadsClock,
           BindInvalid, BindReused, BindShared, BindFull, BindNew, WaitReturns, ReplaceReadsClock,
           ReplaceInvalid, ReplaceUnknown, ReplaceReused, ReplaceShared, ReplaceNew, Complete,
           Leave, WaitFor
  <2>2. /\ pc[c] \in {"wait", "replace", "final"} => watch[c] # None
        /\ pc[c] = "replace" => op[watch[c]].state = "done" /\ op[watch[c]].result \in Retryable
    BY DEF BindingInv, ReplacesRetryable
  <2> QED  BY <1>0, <1>2, <2>1, <2>2 DEF MayReplace, IsCompleted, TypeOK
<1>4. FinalIsLast'
  <2> SUFFICES ASSUME NEW o \in Caller, op'[o].state = "done", op'[o].result \notin Retryable,
                      Current(req[o].token)'
               PROVE  entries'[req[o].token] = o
    BY <1>0 DEF FinalIsLast
  <2> DEFINE t == req[o].token
  <2>1. t \in Token /\ Current(t)'
    BY <1>0
  <2>2. CASE Tick
    <3>1. Current(t)
      BY <1>0, <2>1, <2>2, TickFacts
    <3>2. UNCHANGED <<entries, op>>
      BY <2>2 DEF Tick
    <3> QED  BY <3>1, <3>2 DEF BindingInv, FinalIsLast
  <2>3. CASE UNCHANGED <<clock, entries, op>>
    BY <1>0, <2>1, <2>3 DEF BindingInv, FinalIsLast, Current
  <2>4. ASSUME NEW c \in Caller, entries' = Retained(seen[c]), UNCHANGED <<clock, op>>
        PROVE  entries'[t] = o
    <3>1. Current(t)
      BY <1>0, <2>1, <2>4 DEF Current
    <3> QED  BY <1>0, <2>1, <2>4, <3>1, RetainedKeepsCurrent DEF BindingInv, FinalIsLast
  <2>5. ASSUME NEW c \in Caller, BindNew(c) \/ ReplaceNew(c)
        PROVE  entries'[t] = o
    <3>1. /\ o # c /\ op'[o] = op[o] /\ Current(t)
          /\ entries'[t] = IF t = req[c].token THEN c ELSE entries[t]
      BY <1>0, <2>1, <2>5, CreateFacts DEF Opened, Current
    <3>2. entries[t] = o
      BY <3>1 DEF BindingInv, FinalIsLast
    <3>3. ASSUME t = req[c].token PROVE FALSE
      <4>1. Retained(seen[c])[t] = o /\ o # None
        BY <1>0, <2>1, <3>1, <3>2, RetainedKeepsCurrent, CacheAssumption
      <4>2. ReplaceNew(c) /\ pc[c] = "replace" /\ o = watch[c]
        BY <2>5, <3>3, <4>1 DEF BindNew, ReplaceNew, Replaceable
      <4>3. op[o].result \in Retryable
        BY <4>2 DEF BindingInv, ReplacesRetryable
      <4> QED  BY <3>1, <4>3
    <3> QED  BY <3>1, <3>2, <3>3
  <2>6. ASSUME NEW c \in Caller, NEW result \in Result, Complete(c, result)
        PROVE  entries'[t] = o
    <3>1. op[c].state = "open" /\ UNCHANGED entries /\ Current(t) /\ (o # c => op'[o] = op[o])
      BY <1>0, <2>1, <2>6 DEF Complete, Current, TypeOK
    <3> QED  BY <1>0, <3>1 DEF BindingInv, FinalIsLast, Inv, OpenIsCurrent
  <2> QED  BY <1>0, <2>2, <2>3, <2>4, <2>5, <2>6, EntrySteps
<1> QED  BY <1>0, <1>1, <1>3, <1>4 DEF BindingInv

(* The kinds of steps, as the records of current tokens see them.            *)
SameBounds  == \A t \in Token : Bound(t)' = Bound(t)
SameRecords == \A t \in Token : Recorded(t)' = Recorded(t)

Rests == SameBounds /\ SameRecords /\ UNCHANGED <<clock, req, reply>>

Passes ==
  /\ \A t \in Token : /\ Current(t)' => Current(t)
                      /\ Bound(t)' = IF Current(t)' THEN Bound(t) ELSE None
                      /\ Recorded(t)' = IF Current(t)' THEN Recorded(t) ELSE {}
  /\ UNCHANGED <<op, req, reply>>

Claims(c) ==
  /\ Current(req[c].token) /\ Bound(req[c].token) = None
  /\ \A t \in Token : Bound(t)' = IF t = req[c].token THEN req[c] ELSE Bound(t)
  /\ SameRecords /\ UNCHANGED <<clock, req, reply>>

Finishes(o, result) ==
  /\ op[o].state = "open" /\ op' = [op EXCEPT ![o] = Completed(result)]
  /\ Current(req[o].token) /\ Bound(req[o].token) # None
  /\ Recorded(req[o].token) \subseteq Retryable
  /\ \A t \in Token :
       Recorded(t)' = IF t = req[o].token THEN Recorded(t) \cup {result} ELSE Recorded(t)
  /\ SameBounds /\ UNCHANGED <<clock, req, reply>>

Replies(c, told) ==
  /\ reply[c] = None /\ told \in Reply /\ reply' = [reply EXCEPT ![c] = told]
  /\ Current(req[c].token) =>
       LET b == Bound(req[c].token) IN
       \/ told.failure = "" /\ b = req[c] /\ told.result \in Recorded(req[c].token)
       \/ told.failure = "abandoned" /\ b = req[c]
       \/ told.failure = "reused" /\ b \notin {None, req[c]}
       \/ told.failure = "capacity" /\ b = None
  /\ SameBounds /\ SameRecords /\ UNCHANGED <<clock, req, op>>

(* What a current token's record says.                                       *)
LEMMA BoundFacts ==
  ASSUME Inv, NEW t \in Token
  PROVE  /\ entries[t] # None => entries[t] \in Caller /\ req[entries[t]] \in Request
                                 /\ req[entries[t]] # None
         /\ Bound(t) # None <=> Current(t) /\ entries[t] # None
         /\ Current(t) => \A c \in Caller : Exists(c) /\ req[c].token = t => Bound(t) = req[c]
BY CacheAssumption DEF Inv, TypeOK, Bound, StillBound

(* Purging leaves the records of current tokens alone.                       *)
LEMMA PurgeRests ==
  ASSUME Inv, NEW c \in Caller, entries' = Retained(seen[c]) \/ UNCHANGED entries,
         UNCHANGED <<clock, op, req>>
  PROVE  SameBounds /\ SameRecords
<1>1. SameRecords
  BY DEF SameRecords, Recorded, Current
<1>2. ASSUME NEW t \in Token
      PROVE  Bound(t)' = Bound(t)
  <2>1. Current(t)' <=> Current(t)
    BY DEF Current
  <2>2. Current(t) => entries'[t] = entries[t]
    BY RetainedKeepsCurrent
  <2> QED  BY <2>1, <2>2 DEF Bound
<1> QED  BY <1>1, <1>2 DEF SameBounds

LEMMA CreateClaims ==
  ASSUME BindingInv, NEW c \in Caller, BindNew(c) \/ ReplaceNew(c)
  PROVE  Rests \/ Claims(c)
<1> DEFINE u == req[c].token
<1>0. /\ Inv /\ u \in Token /\ req[c] \in Request /\ UNCHANGED <<clock, req, reply>>
      /\ \A t \in Token : Current(t)' <=> Current(t)
  BY CreateFacts DEF BindingInv, Inv, TypeOK, Request, Current
<1>1. SameRecords
  <2>1. \A o \in Caller : /\ op'[o].state = "done" <=> op[o].state = "done"
                          /\ op[o].state = "done" => op'[o] = op[o]
    BY <1>0, CreateFacts DEF Opened
  <2> QED  BY <1>0, <2>1 DEF SameRecords, Recorded
<1>2. ASSUME NEW t \in Token, t # u
      PROVE  Bound(t)' = Bound(t)
  BY <1>0, <1>2, CreateFacts DEF Bound
<1>3. CASE ~Current(u)
  <2>1. Bound(u)' = Bound(u)
    BY <1>0, <1>3 DEF Bound
  <2> QED  BY <1>0, <1>1, <1>2, <2>1 DEF Rests, SameBounds
<1>4. CASE Current(u)
  <2>1. Bound(u)' = req[c]
    BY <1>0, <1>4, CreateFacts, CacheAssumption DEF Bound
  <2>2. Retained(seen[c])[u] = entries[u]
    BY <1>0, <1>4, RetainedKeepsCurrent
  <2>3. CASE BindNew(c)
    <3>1. Bound(u) = None
      BY <2>2, <2>3 DEF BindNew, Bound
    <3> QED  BY <1>0, <1>1, <1>2, <1>4, <2>1, <3>1 DEF Claims
  <2>4. CASE ReplaceNew(c)
    <3>1. entries[u] = watch[c] /\ watch[c] # None
      BY <2>2, <2>4 DEF ReplaceNew, Replaceable
    <3>2. req[watch[c]] = req[c]
      BY <1>0, <3>1 DEF Inv, SharesOwnRequest
    <3>3. Bound(u) = req[c]
      BY <1>4, <3>1, <3>2 DEF Bound
    <3> QED  BY <1>0, <1>1, <1>2, <2>1, <3>3 DEF Rests, SameBounds
  <2> QED  BY <2>3, <2>4
<1> QED  BY <1>3, <1>4

LEMMA CompleteFinishes ==
  ASSUME BindingInv, NEW o \in Caller, NEW result \in Result, Complete(o, result)
  PROVE  Rests \/ Finishes(o, result)
<1> DEFINE u == req[o].token
<1>0. /\ Inv /\ u \in Token /\ op[o].state = "open" /\ op' = [op EXCEPT ![o] = Completed(result)]
      /\ UNCHANGED <<clock, entries, req, reply>>
      /\ \A t \in Token : Current(t)' <=> Current(t)
  BY DEF BindingInv, Inv, TypeOK, Request, Complete, Current
<1>1. SameBounds
  BY <1>0 DEF SameBounds, Bound
<1>2. /\ op'[o].state = "done" /\ op'[o].result = result
      /\ \A c \in Caller : c # o => op'[c] = op[c]
  BY <1>0 DEF Inv, TypeOK, Completed
<1>3. \A t \in Token : Recorded(t)' = IF t = u /\ Current(u) THEN Recorded(t) \cup {result} ELSE Recorded(t)
  <2> TAKE t \in Token
  <2>1. CASE t = u /\ Current(u)
    <3>1. Recorded(t)' \subseteq Recorded(t) \cup {result}
      BY <1>0, <1>2 DEF Recorded
    <3>2. Recorded(t) \cup {result} \subseteq Recorded(t)'
      BY <1>0, <1>2, <2>1 DEF Recorded
    <3> QED  BY <2>1, <3>1, <3>2
  <2>2. CASE ~(t = u /\ Current(u))
    <3>1. Recorded(t)' \subseteq Recorded(t)
      BY <1>0, <1>2, <2>2 DEF Recorded
    <3>2. Recorded(t) \subseteq Recorded(t)'
      BY <1>0, <1>2 DEF Recorded
    <3> QED  BY <2>2, <3>1, <3>2
  <2> QED  BY <2>1, <2>2
<1>4. CASE ~Current(u)
  BY <1>0, <1>1, <1>3, <1>4 DEF Rests, SameRecords
<1>5. CASE Current(u)
  <2>1. Bound(u) # None
    BY <1>0, <1>5, BoundFacts DEF Inv, StillBound, Exists
  <2>2. Recorded(u) \subseteq Retryable
    BY <1>0, <1>5 DEF Recorded, BindingInv, FinalIsLast, Inv, OpenIsCurrent
  <2> QED  BY <1>0, <1>1, <1>3, <1>5, <2>1, <2>2 DEF Finishes
<1> QED  BY <1>4, <1>5

(* The steps that answer a call, with what they tell it.                     *)
Tells(c, told) ==
  \/ (BindInvalid(c) \/ ReplaceInvalid(c)) /\ told = Failed("invalid")
  \/ (BindReused(c) \/ ReplaceReused(c)) /\ told = Failed("reused")
  \/ BindFull(c) /\ told = Failed("capacity")
  \/ ReplaceUnknown(c) /\ told = Failed("unknown")
  \/ Abandon(c) /\ told = Failed("abandoned")
  \/ WaitReturns(c) /\ told = Returned(op[watch[c]].result)

LEMMA TellReplies ==
  ASSUME BindingInv, NEW c \in Caller, NEW told, Tells(c, told)
  PROVE  Replies(c, told)
<1> DEFINE u == req[c].token
<1>0. /\ Inv /\ u \in Token /\ req[c] \in Request /\ UNCHANGED <<clock, op, req>>
      /\ entries' = Retained(seen[c]) \/ UNCHANGED entries
      /\ Leave(c, told) /\ pc[c] # "done"
  BY DEF BindingInv, Inv, TypeOK, Request, Tells, BindInvalid, ReplaceInvalid, BindReused,
         ReplaceReused, BindFull, ReplaceUnknown, Abandon, WaitReturns, MayReplace
<1>1. reply[c] = None /\ reply' = [reply EXCEPT ![c] = told]
  BY <1>0 DEF BindingInv, AnsweredAtEnd, Leave
<1>2. SameBounds /\ SameRecords
  BY <1>0, PurgeRests
<1>3. pc[c] \in {"wait", "replace", "final"} =>
        /\ watch[c] \in Caller /\ Exists(watch[c]) /\ req[watch[c]] = req[c]
        /\ Current(u) => Bound(u) = req[c] /\ entries[u] # None
  <2> SUFFICES ASSUME pc[c] \in {"wait", "replace", "final"}
               PROVE  /\ watch[c] \in Caller /\ Exists(watch[c]) /\ req[watch[c]] = req[c]
                      /\ Current(u) => Bound(u) = req[c] /\ entries[u] # None
    OBVIOUS
  <2>1. watch[c] \in Caller /\ Exists(watch[c]) /\ req[watch[c]] = req[c]
    BY <1>0 DEF BindingInv, ReplacesRetryable, Inv, TypeOK, SharesOwnRequest
  <2> QED  BY <1>0, <2>1, BoundFacts DEF Inv, StillBound
<1>4. Current(u) => Retained(seen[c])[u] = entries[u]
  BY <1>0, RetainedKeepsCurrent
<1>5. told \in Reply
  <2>1. CASE WaitReturns(c) /\ told = Returned(op[watch[c]].result)
    <3>1. watch[c] \in Caller /\ op[watch[c]] \in Operation /\ op[watch[c]].state = "done"
      BY <1>0, <2>1 DEF WaitReturns, IsCompleted, Inv, TypeOK
    <3>2. op[watch[c]].result \in Result
      <4>1. PICK result \in Result : op[watch[c]] = Completed(result)
        BY <3>1 DEF Operation, NoOperation, Opened
      <4> QED  BY <4>1 DEF Completed
    <3> DEFINE r == op[watch[c]].result
    <3>3. told = Returned(r) /\ r \in Result
      BY <2>1, <3>2
    <3> HIDE DEF r
    <3> QED  BY <3>3 DEF Reply
  <2>2. ~(WaitReturns(c) /\ told = Returned(op[watch[c]].result)) =>
          \E failure \in Failure : told = Failed(failure)
    BY DEF Tells, Failure
  <2> QED  BY <2>1, <2>2 DEF Reply
<1>6. ASSUME Current(u)
      PROVE  \/ told.failure = "" /\ Bound(u) = req[c] /\ told.result \in Recorded(u)
             \/ told.failure = "abandoned" /\ Bound(u) = req[c]
             \/ told.failure = "reused" /\ Bound(u) \notin {None, req[c]}
             \/ told.failure = "capacity" /\ Bound(u) = None
  <2>1. CASE (BindInvalid(c) \/ ReplaceInvalid(c)) /\ told = Failed("invalid")
    BY <1>6, <2>1 DEF BindInvalid, ReplaceInvalid, ValidBinding, Current
  <2>2. CASE (BindReused(c) \/ ReplaceReused(c)) /\ told = Failed("reused")
    <3>1. entries[u] # None /\ ~SameBinding(c, entries[u])
      BY <1>4, <1>6, <2>2 DEF BindReused, ReplaceReused
    <3>2. Bound(u) = req[entries[u]] /\ Bound(u) # None
      BY <1>0, <1>6, <3>1, BoundFacts DEF Bound
    <3>3. req[entries[u]] # req[c]
      BY <3>1 DEF SameBinding
    <3> QED  BY <2>2, <3>2, <3>3 DEF Failed
  <2>3. CASE BindFull(c) /\ told = Failed("capacity")
    BY <1>4, <1>6, <2>3 DEF BindFull, Failed, Bound
  <2>4. CASE ReplaceUnknown(c) /\ told = Failed("unknown")
    BY <1>3, <1>4, <1>6, <2>4 DEF ReplaceUnknown
  <2>5. CASE Abandon(c) /\ told = Failed("abandoned")
    BY <1>3, <1>6, <2>5 DEF Abandon, Failed
  <2>6. CASE WaitReturns(c) /\ told = Returned(op[watch[c]].result)
    <3>1. /\ watch[c] \in Caller /\ req[watch[c]] = req[c] /\ op[watch[c]].state = "done"
          /\ Bound(u) = req[c]
      BY <1>3, <1>6, <2>6 DEF WaitReturns, IsCompleted
    <3>2. op[watch[c]].result \in Recorded(u)
      BY <1>6, <3>1 DEF Recorded
    <3> QED  BY <2>6, <3>1, <3>2 DEF Returned
  <2> QED  BY <2>1, <2>2, <2>3, <2>4, <2>5, <2>6 DEF Tells
<1> QED  BY <1>0, <1>1, <1>2, <1>5, <1>6 DEF Replies

LEMMA BindingSteps ==
  ASSUME BindingInv, [Next]_vars
  PROVE  \/ Rests \/ Passes
         \/ \E c \in Caller : Claims(c) \/ \E told \in Reply : Replies(c, told)
         \/ \E o \in Caller, result \in Result : Finishes(o, result)
<1>0. Inv
  BY DEF BindingInv
<1>1. CASE Tick
  <2>1. UNCHANGED <<entries, op, req, reply>>
    BY <1>1 DEF Tick
  <2>2. \A t \in Token : Current(t)' => Current(t)
    BY <1>0, <1>1, TickFacts
  <2>3. \A t \in Token : Bound(t)' = IF Current(t)' THEN Bound(t) ELSE None
    BY <2>1, <2>2 DEF Bound
  <2>4. \A t \in Token : Recorded(t)' = IF Current(t)' THEN Recorded(t) ELSE {}
    BY <2>1, <2>2 DEF Recorded
  <2> QED  BY <2>1, <2>2, <2>3, <2>4 DEF Passes
<1>2. ASSUME NEW c \in Caller,
             \/ BindReadsClock(c) \/ ReplaceReadsClock(c) \/ BindShared(c) \/ ReplaceShared(c)
             \/ UNCHANGED vars
      PROVE  Rests
  <2>1. /\ entries' = Retained(seen[c]) \/ UNCHANGED entries
        /\ UNCHANGED <<clock, op, req, reply>>
    BY <1>2 DEF BindReadsClock, ReplaceReadsClock, BindShared, ReplaceShared, vars
  <2> QED  BY <1>0, <2>1, PurgeRests DEF Rests
<1>3. CASE UNCHANGED vars
  BY <1>3 DEF vars, Rests, SameBounds, SameRecords, Bound, Recorded, Current
<1>4. ASSUME NEW c \in Caller, NEW told, Tells(c, told)
      PROVE  told \in Reply /\ Replies(c, told)
  BY <1>4, TellReplies DEF Replies
<1> QED  BY <1>1, <1>2, <1>3, <1>4, CreateClaims, CompleteFinishes
         DEF Next, CallerStep, Bind, ReplaceCompleted, Tells

LEMMA BindingStep == BindingInv /\ [Next]_vars => [Binding!Bindings]_(Binding!bindingVars)
<1> SUFFICES ASSUME BindingInv, [Next]_vars
             PROVE  [Binding!Bindings]_(Binding!bindingVars)
  OBVIOUS
<1> DEFINE valid    == {t \in Token : Current(t)}
           bound    == [t \in Token |-> Bound(t)]
           recorded == [t \in Token |-> Recorded(t)]
<1>0. \A c \in Caller : req[c].token \in Token
  BY DEF BindingInv, Inv, TypeOK, Request
<1>1. UNCHANGED clock => valid' = valid
  BY DEF Current
<1>2. (SameBounds => bound' = bound) /\ (SameRecords => recorded' = recorded)
  BY DEF SameBounds, SameRecords
<1>3. CASE Rests
  BY <1>1, <1>2, <1>3 DEF Rests, Binding!bindingVars
<1>4. CASE Passes
  <2>1. valid' \subseteq valid
    BY <1>4 DEF Passes
  <2>2. bound' = [t \in Token |-> IF t \in valid' THEN bound[t] ELSE None]
    BY <1>4 DEF Passes
  <2>3. recorded' = [t \in Token |-> IF t \in valid' THEN recorded[t] ELSE {}]
    BY <1>4 DEF Passes
  <2>4. UNCHANGED <<req, reply>>
    BY <1>4 DEF Passes
  <2> QED  BY <2>1, <2>2, <2>3, <2>4 DEF Binding!Bindings, Binding!Expires
<1>5. ASSUME NEW c \in Caller, Claims(c)
      PROVE  Binding!Binds(c)
  <2>1. req[c].token \in valid /\ bound[req[c].token] = None
    BY <1>0, <1>5 DEF Claims
  <2>2. bound' = [bound EXCEPT ![req[c].token] = req[c]]
    BY <1>5 DEF Claims
  <2>3. UNCHANGED <<req, valid, recorded, reply>>
    BY <1>1, <1>2, <1>5 DEF Claims
  <2> QED  BY <2>1, <2>2, <2>3 DEF Binding!Binds
<1>6. ASSUME NEW c \in Caller, NEW told \in Reply, Replies(c, told)
      PROVE  Binding!Answers(c, reply'[c])
  <2>1. reply'[c] = told
    BY <1>6 DEF Replies, BindingInv, Inv, TypeOK
  <2>2. told \in Binding!Answer
    <3>1. ASSUME NEW result \in Result, told = Returned(result)
          PROVE  told \in Binding!Answer
      BY <3>1 DEF Binding!Answer, Returned
    <3>2. ASSUME NEW failure \in Failure, told = Failed(failure)
          PROVE  told \in Binding!Answer
      BY <3>2 DEF Binding!Answer, Failed, Failure
    <3> QED  BY <3>1, <3>2 DEF Reply
  <2>3. req[c].token \in valid => Binding!Fitting(c, told)
    BY <1>0, <1>6 DEF Replies, Binding!Fitting
  <2>4. /\ reply[c] = None /\ reply' = [reply EXCEPT ![c] = told]
        /\ UNCHANGED <<req, valid, bound, recorded>>
    BY <1>1, <1>2, <1>6 DEF Replies
  <2> QED  BY <2>1, <2>2, <2>3, <2>4 DEF Binding!Answers
<1>7. ASSUME NEW o \in Caller, NEW result \in Result, Finishes(o, result)
      PROVE  result \in recorded'[req[o].token] /\ Binding!Records(req[o].token, result)
  <2>1. /\ req[o].token \in valid /\ bound[req[o].token] # None
        /\ recorded[req[o].token] \subseteq Retryable
    BY <1>0, <1>7 DEF Finishes
  <2>2. recorded' = [recorded EXCEPT ![req[o].token] = @ \cup {result}]
    BY <1>7 DEF Finishes
  <2>3. UNCHANGED <<req, valid, bound, reply>>
    BY <1>1, <1>2, <1>7 DEF Finishes
  <2> QED  BY <1>0, <2>1, <2>2, <2>3 DEF Binding!Records
<1> QED  BY <1>0, <1>3, <1>4, <1>5, <1>6, <1>7, BindingSteps DEF Binding!Bindings

(* However calls race, fail and repeat, and whatever the map forgets, a      *)
(* token that can pass time validation stands for one request, nothing is    *)
(* recorded after its final result, and every call is answered from its own  *)
(* request's record (cache.go, Bind, ReplaceCompleted, Complete and Wait).   *)
THEOREM CacheKeepsBinding == Spec => KeepsBinding
<1>1. Init => Binding!Unbound
  BY DEF Init, Binding!Unbound, Bound, Recorded, NoOperation
<1>2. Spec => []BindingInv
  BY BindingInvInit, BindingInvNext, PTL DEF Spec
<1> QED  BY <1>1, <1>2, BindingStep, PTL DEF Spec, KeepsBinding, Binding!BindingSpec
=============================================================================
