-------------------------- MODULE CoordinatorProofs --------------------------
(***************************************************************************)
(* What holds of every run of the coordinator, for any callers, tokens,    *)
(* deployments and capacities: types, that it uses the replay cache as     *)
(* ReplayCache describes, that no wakeup is lost, and that each unfinished *)
(* operation is in exactly one pair of hands.                              *)
(***************************************************************************)
EXTENDS CoordinatorSteps

LEMMA BaseInit == Init => Base
<1> SUFFICES ASSUME Init PROVE Base
  OBVIOUS
<1>1. CacheFacts!Inv
  BY SameInit, CacheConsts, CacheFacts!InvInit DEF Init
<1>2. DockerTypes
  <2>1. /\ svc \in [Service -> [version : {1}, image : Image]]
        /\ wire = [c \in Caller |-> Docker!Unsent]
    BY DEF Init, Docker!DockerInit
  <2>2. \A s \in Service : svc[s] \in [version : {1}, image : Image] /\ svc[s].version = 1
    BY <2>1
  <2>3. svc \in [Service -> [version : Nat \ {0}, image : Image]]
    BY <2>1, <2>2
  <2>4. Cardinality(Accepts) \in Nat
    BY Constants, FS_Subset, FS_CardinalityType DEF Accepts
  <2>5. wire \in [Caller -> Wires]
    BY <2>1 DEF Wires
  <2> QED  BY <2>2, <2>3, <2>4, <2>5, Constants DEF DockerTypes
<1>3. CallTypes
  <2>1. << >> \in Seq(Caller)
    BY EmptySeq
  <2>2. queue \in [Deployment -> Seq(Caller)]
    BY <2>1 DEF Init
  <2>3. wake \in [Deployment -> BOOLEAN]
    BY DEF Init
  <2> QED  BY <2>2, <2>3 DEF Init, CallTypes
<1>4. WorkerTypes
  <2>1. run = [d \in Deployment |-> Idle] /\ Idle.at \in Places3
    BY IdleFacts DEF Init, Places3
  <2>2. \A d \in Deployment : run[d] = Idle
    BY <2>1
  <2>3. run \in [Deployment -> Runs]
    BY <2>1, IdleFacts
  <2> QED  BY <2>1, <2>2, <2>3, IdleFacts DEF WorkerTypes
<1>5. Prevs /\ Owners
  BY DEF Init, Prevs, Owners, Cache!Init, Cache!NoOperation
<1> QED  BY <1>1, <1>2, <1>3, <1>4, <1>5 DEF Base, Types

(* Types, the replay cache's own invariant, and what ties prev and stage to  *)
(* the operations: the inductive invariant that the others build on.         *)
THEOREM BaseInvariant == Spec => []Base
BY BaseInit, BaseStep, PTL DEF Spec

(* Every variable keeps its type, and a recorded outcome is one of those the *)
(* coordinator knows.                                                        *)
THEOREM TypeCorrect == Spec => []TypeOK
<1>1. Base => TypeOK
  <2> SUFFICES ASSUME Base PROVE TypeOK
    OBVIOUS
  <2>0. CacheTypes /\ Types
    BY BaseTypes DEF Base
  <2>1. \A c \in Caller : op[c].state = "done" => op[c].result \in Result
    BY <2>0, OpStates
  <2>2. svc \in [Service -> [version : 1 .. MaxVersion + Cardinality(Caller), image : Image]]
    <3>1. \A s \in Service : svc[s] \in [version : Nat \ {0}, image : Image]
                             /\ svc[s].version \in Versions
      BY <2>0, ServiceVersion DEF Types, DockerTypes
    <3>2. \A s \in Service : svc[s] \in [version : 1 .. MaxVersion + Cardinality(Caller), image : Image]
      BY <3>1, Constants DEF Versions
    <3> QED  BY <2>0, <3>2 DEF Types, DockerTypes
  <2>3. \A c \in Caller : wire[c] = Docker!Unsent \/ wire[c].state \in Docker!Fate
    BY <2>0 DEF Types, DockerTypes, Wires
  <2>4. \A d \in Deployment :
          /\ run[d].at \in At /\ run[d].job \in Caller \cup {None}
          /\ run[d].out \in Result /\ run[d].killed \in BOOLEAN
    BY <2>0, RunFields DEF Types, WorkerTypes
  <2> QED  BY <2>0, <2>1, <2>2, <2>3, <2>4 DEF TypeOK, Types, CallTypes, At, Places3
<1> QED  BY <1>1, BaseInvariant, PTL

(* Deploy uses the replay cache the way ReplayCache.tla lets its callers use *)
(* it, so that all that is proved of the cache holds in the coordinator.     *)
THEOREM UsesCacheAsDescribed == Spec => ImplementsReplayCache
<1>1. Init => Cache!Init
  BY DEF Init
<1>2. Base /\ [Next]_vars => [Cache!Next]_(Cache!vars)
  BY CacheMoves DEF cacheVars, Cache!vars
<1> QED  BY <1>1, <1>2, BaseInvariant, PTL DEF Spec, ImplementsReplayCache, Cache!Spec

LEMMA WakeupKept == Base /\ NoLostWakeup /\ [Next]_vars => NoLostWakeup'
<1> SUFFICES ASSUME Base, NoLostWakeup, [Next]_vars, NEW d \in Deployment,
                    run'[d].at = "parked", queue'[d] # <<>>, root' = "live", ~wake'[d]
             PROVE  FALSE
  BY DEF NoLostWakeup
<1>0. /\ CacheTypes /\ Types
      /\ run[d].at = "parked" /\ queue[d] # <<>> => wake[d] \/ root # "live"
  BY BaseTypes DEF Base, NoLostWakeup
<1>1. ASSUME run[d].at = "parked", queue[d] # <<>>, UNCHANGED wake
      PROVE  FALSE
  <2>1. root # "live" => root' # "live"
    BY Steps DEF Aside, DockerMoves, Quiet, Creates, Enqueue, EnqueueRefused, Remove, CompleteDropped,
       Loop, WorkerStops, WorkerTakes, WorkerParks, WorkerWakes, RootKills, Submits, Works, Moves,
       Publish
  <2> QED  BY <1>0, <1>1, <2>1
<1>2. CASE \/ Aside \/ DockerMoves
           \/ \E c \in Caller : Quiet(c) \/ Creates(c) \/ EnqueueRefused(c) \/ CompleteDropped(c)
  BY <1>1, <1>2 DEF Aside, DockerMoves, Quiet, Creates, EnqueueRefused, CompleteDropped, workVars
<1>3. ASSUME NEW c \in Caller, Enqueue(c)
      PROVE  FALSE
  <2> DEFINE e == req[c].deployment
  <2>1. e \in Deployment
    BY <1>0 DEF CacheTypes, CacheFacts!Request
  <2>2. CASE e # d
    <3>1. queue'[d] = queue[d] /\ run' = run /\ wake'[d] = wake[d] /\ root' = root
      BY <1>0, <1>3, <2>1, <2>2 DEF Enqueue, Types, CallTypes
    <3> QED  BY <1>0, <3>1
  <2>3. CASE e = d
    <3>1. CASE Len(Waiting(d)) < QueueCapacity /\ wake' = [wake EXCEPT ![d] = TRUE]
      <4>1. wake'[d]
        BY <1>0, <3>1 DEF Types, CallTypes
      <4> QED  BY <4>1
    <3>2. CASE Len(Waiting(d)) = QueueCapacity /\ UNCHANGED wake
      <4>1. queue[d] # <<>>
        <5>1. Len(queue[d]) # 0
          <6>1. Len(Waiting(d)) <= Len(queue[d]) /\ queue[d] \in Seq(Caller) /\ Waiting(d) \in Seq(Caller)
            BY <1>0, WaitingFacts
          <6>2. Len(Waiting(d)) \in Nat /\ Len(queue[d]) \in Nat
            BY <6>1, LenProperties
          <6> QED  BY <3>2, <6>1, <6>2, Constants
        <5>2. Len(<< >>) = 0
          OBVIOUS
        <5> QED  BY <5>1, <5>2
      <4> QED  BY <1>1, <1>3, <3>2, <4>1 DEF Enqueue
    <3> QED  BY <1>3, <2>3, <3>1, <3>2 DEF Enqueue
  <2> QED  BY <2>2, <2>3
<1>4. ASSUME NEW c \in Caller, Remove(c)
      PROVE  FALSE
  <2> DEFINE e == req[c].deployment
  <2>1. e \in Deployment /\ queue \in [Deployment -> Seq(Caller)]
    BY <1>0 DEF CacheTypes, CacheFacts!Request, Types, CallTypes
  <2>2. run' = run /\ wake' = wake /\ root' = root /\ (e # d => queue'[d] = queue[d])
    BY <1>4, <2>1 DEF Remove
  <2>3. CASE e = d
    <3>1. PICK i \in DOMAIN queue[d] : queue[d][i] = c
      BY <1>4, <2>3 DEF Remove, Cancelled
    <3>2. queue[d] # <<>>
      BY <3>1
    <3> QED  BY <1>1, <2>2, <3>2
  <2> QED  BY <1>1, <2>2, <2>3
<1>5. ASSUME NEW e \in Deployment, RunsTo(e, run'[e].at, run'[e].job, run'[e].out),
             e = d => run'[e].at # "parked" \/ queue'[d] = <<>>,
             \A f \in Deployment : f # e => wake'[f] = wake[f] /\ queue'[f] = queue[f],
             root' = root
      PROVE  FALSE
  BY <1>0, <1>5 DEF RunsTo
<1>6. ASSUME NEW e \in Deployment, WorkerStops(e) \/ WorkerTakes(e) \/ WorkerParks(e) \/ WorkerWakes(e)
      PROVE  FALSE
  <2>1. RunsTo(e, run'[e].at, run'[e].job, run'[e].out)
    BY <1>6, LoopMoves DEF Base, RunsTo
  <2>2. run'[e].at # "parked" \/ (queue[e] = <<>> /\ queue' = queue)
    BY <1>6, LoopMoves DEF Base, RunsTo, WorkerParks
  <2>3. \A f \in Deployment : f # e => wake'[f] = wake[f] /\ queue'[f] = queue[f]
    BY <1>0, <1>6 DEF WorkerStops, WorkerTakes, WorkerParks, WorkerWakes, Types, CallTypes
  <2>4. root' = root
    BY <1>6 DEF WorkerStops, WorkerTakes, WorkerParks, WorkerWakes
  <2> QED  BY <1>5, <2>1, <2>2, <2>3, <2>4
<1>7. ASSUME NEW e \in Deployment, RootKills(e)
      PROVE  FALSE
  <2>1. RunsTo(e, run[e].at, run[e].job, run[e].out)
    BY <1>7, LoopMoves DEF Base
  <2>2. run'[d].at = run[d].at /\ UNCHANGED <<queue, wake, root>>
    BY <1>7, <2>1 DEF RunsTo, RootKills
  <2> QED  BY <1>0, <2>2
<1>8. ASSUME NEW e \in Deployment, Submits(e) \/ Works(e) \/ Publish(e)
      PROVE  FALSE
  <2>1. RunsTo(e, run'[e].at, run'[e].job, run'[e].out) /\ run'[e].at # "parked"
    BY <1>8, LoopMoves DEF Base, RunsTo, Submits, Works, Moves, Places3
  <2>2. UNCHANGED <<queue, wake, root>>
    BY <1>8 DEF Submits, Works, Moves, Publish
  <2> QED  BY <1>5, <2>1, <2>2
<1> QED  BY <1>2, <1>3, <1>4, <1>6, <1>7, <1>8, Steps DEF Loop

(* No enqueue is lost on a sleeping worker (enqueue's and next's use of the  *)
(* wake channel).                                                            *)
THEOREM WakeupNeverLost == Spec => []NoLostWakeup
<1>1. Init => NoLostWakeup
  BY IdleFacts DEF Init, NoLostWakeup
<1> QED  BY <1>1, WakeupKept, BaseInvariant, PTL DEF Spec

-----------------------------------------------------------------------------
(* Who holds an operation *)

Contains(jobs, c) == \E i \in DOMAIN jobs : jobs[i] = c

LEMMA ContainsKeep ==
  ASSUME NEW jobs \in Seq(Caller), NEW wanted \in SUBSET Caller, NEW c \in Caller
  PROVE  Contains(Keep(jobs, wanted), c) <=> Contains(jobs, c) /\ c \in wanted
<1> DEFINE kept == Keep(jobs, wanted)
<1>1. /\ \A n \in DOMAIN kept : kept[n] \in wanted /\ \E i \in DOMAIN jobs : jobs[i] = kept[n]
      /\ \A i \in DOMAIN jobs : jobs[i] \in wanted => \E n \in DOMAIN kept : kept[n] = jobs[i]
  BY KeepFacts
<1> HIDE DEF kept
<1>2. Contains(kept, c) <=> Contains(jobs, c) /\ c \in wanted
  BY <1>1 DEF Contains
<1> QED  BY <1>2 DEF kept

LEMMA ContainsAppend ==
  ASSUME NEW jobs \in Seq(Caller), NEW c \in Caller
  PROVE  /\ Append(jobs, c) \in Seq(Caller) /\ Len(Append(jobs, c)) = Len(jobs) + 1
         /\ \A o \in Caller : Contains(Append(jobs, c), o) <=> Contains(jobs, o) \/ o = c
         /\ Injective(jobs) /\ ~Contains(jobs, c) => Injective(Append(jobs, c))
<1> DEFINE more == Append(jobs, c)
<1>1. /\ more \in Seq(Caller) /\ Len(more) = Len(jobs) + 1 /\ Len(jobs) \in Nat
      /\ \A i \in 1 .. Len(jobs) : more[i] = jobs[i]
      /\ more[Len(jobs) + 1] = c
  BY AppendProperties, LenProperties
<1>2. DOMAIN more = 1 .. Len(jobs) + 1 /\ DOMAIN jobs = 1 .. Len(jobs)
  BY <1>1, LenProperties
<1> HIDE DEF more
<1>3. \A i \in DOMAIN more : i \in DOMAIN jobs \/ i = Len(jobs) + 1
  BY <1>1, <1>2
<1>4. \A o \in Caller : Contains(more, o) <=> Contains(jobs, o) \/ o = c
  <2> SUFFICES ASSUME NEW o \in Caller
               PROVE  Contains(more, o) <=> Contains(jobs, o) \/ o = c
    OBVIOUS
  <2>1. ASSUME NEW i \in DOMAIN more, more[i] = o
        PROVE  Contains(jobs, o) \/ o = c
    BY <1>1, <1>2, <1>3, <2>1 DEF Contains
  <2>2. ASSUME NEW i \in DOMAIN jobs, jobs[i] = o
        PROVE  Contains(more, o)
    <3>1. i \in DOMAIN more /\ more[i] = o
      BY <1>1, <1>2, <2>2
    <3> QED  BY <3>1 DEF Contains
  <2>3. Contains(more, c)
    <3>1. Len(jobs) + 1 \in DOMAIN more
      BY <1>1, <1>2
    <3> QED  BY <1>1, <3>1 DEF Contains
  <2> QED  BY <2>1, <2>2, <2>3 DEF Contains
<1>5. ASSUME Injective(jobs), ~Contains(jobs, c)
      PROVE  Injective(more)
  <2> SUFFICES ASSUME NEW i \in DOMAIN more, NEW j \in DOMAIN more, more[i] = more[j]
               PROVE  i = j
    BY DEF Injective
  <2> QED  BY <1>1, <1>2, <1>3, <1>5 DEF Injective, Contains
<1> QED  BY <1>1, <1>4, <1>5 DEF more

LEMMA ContainsTail ==
  ASSUME NEW jobs \in Seq(Caller), jobs # << >>, Injective(jobs)
  PROVE  /\ Tail(jobs) \in Seq(Caller) /\ Len(Tail(jobs)) = Len(jobs) - 1
         /\ Head(jobs) \in Caller /\ Contains(jobs, Head(jobs))
         /\ \A o \in Caller : Contains(Tail(jobs), o) <=> Contains(jobs, o) /\ o # Head(jobs)
         /\ Injective(Tail(jobs))
<1> DEFINE rest == Tail(jobs)
<1>1. /\ rest \in Seq(Caller) /\ Len(rest) = Len(jobs) - 1
      /\ Len(jobs) \in Nat /\ Len(jobs) # 0
      /\ \A i \in 1 .. Len(rest) : rest[i] = jobs[i + 1]
      /\ Head(jobs) = jobs[1] /\ Head(jobs) \in Caller
  BY HeadTailProperties, LenProperties, EmptySeq
<1>2. DOMAIN rest = 1 .. Len(jobs) - 1 /\ DOMAIN jobs = 1 .. Len(jobs)
  BY <1>1, LenProperties
<1> HIDE DEF rest
<1>3. 1 \in DOMAIN jobs /\ Contains(jobs, Head(jobs))
  BY <1>1, <1>2 DEF Contains
<1>4. ASSUME NEW i \in DOMAIN rest
      PROVE  i + 1 \in DOMAIN jobs /\ rest[i] = jobs[i + 1] /\ i + 1 # 1 /\ i \in Nat
  BY <1>1, <1>2
<1>5. ASSUME NEW i \in DOMAIN jobs, i # 1
      PROVE  i - 1 \in DOMAIN rest /\ rest[i - 1] = jobs[i]
  <2>1. i - 1 \in 1 .. Len(rest) /\ (i - 1) + 1 = i
    BY <1>1, <1>2, <1>5
  <2>2. rest[i - 1] = jobs[(i - 1) + 1]
    BY <1>1, <2>1
  <2> QED  BY <1>1, <1>2, <2>1, <2>2
<1>6. \A o \in Caller : Contains(rest, o) <=> Contains(jobs, o) /\ o # Head(jobs)
  <2> SUFFICES ASSUME NEW o \in Caller
               PROVE  Contains(rest, o) <=> Contains(jobs, o) /\ o # Head(jobs)
    OBVIOUS
  <2>1. ASSUME NEW i \in DOMAIN rest, rest[i] = o
        PROVE  Contains(jobs, o) /\ o # Head(jobs)
    BY <1>1, <1>3, <1>4, <2>1 DEF Contains, Injective
  <2>2. ASSUME NEW i \in DOMAIN jobs, jobs[i] = o, o # Head(jobs)
        PROVE  Contains(rest, o)
    BY <1>1, <1>5, <2>2 DEF Contains
  <2> QED  BY <2>1, <2>2 DEF Contains
<1>7. Injective(rest)
  <2> SUFFICES ASSUME NEW i \in DOMAIN rest, NEW j \in DOMAIN rest, rest[i] = rest[j]
               PROVE  i = j
    BY DEF Injective
  <2>1. i + 1 = j + 1
    BY <1>4 DEF Injective
  <2> QED  BY <1>4, <2>1
<1> QED  BY <1>1, <1>3, <1>6, <1>7 DEF rest

LEMMA ContainsNone == \A c : ~Contains(<< >>, c) /\ Injective(<< >>) /\ Len(<< >>) = 0
BY DEF Contains, Injective

(* The queue an operation would wait in, and the worker that would run it.   *)
Home(c) == req[c].deployment
InQueue(c) == Contains(queue[Home(c)], c)
Working(c) == run[Home(c)].job = c

(* A queue is no longer than its capacity and holds each job once, and jobs  *)
(* wait and run where they belong.                                           *)
Queues ==
  /\ \A d \in Deployment :
       /\ Injective(queue[d]) /\ Len(queue[d]) <= QueueCapacity
       /\ \A i \in DOMAIN queue[d] : Home(queue[d][i]) = d
       /\ run[d].job # None => Home(run[d].job) = d

Hands == {"nobody", "owner", "queue", "removal", "worker"}
HeldBy(c, hand) ==
  /\ stage[c] = "owner" <=> hand = "owner"
  /\ InQueue(c) <=> hand = "queue"
  /\ dropped[c] # "" <=> hand = "removal"
  /\ Working(c) <=> hand = "worker"
  /\ Open(c) <=> hand # "nobody"

Holders == \A c \in Caller : \E hand \in Hands : HeldBy(c, hand)

(* A full queue is never the outcome of a job a worker has taken.            *)
NotFull == \A d \in Deployment : run[d].out.err # "queue_full"

Held == Base /\ Queues /\ Holders /\ NotFull

HeldTypes ==
  /\ CacheTypes /\ CallTypes /\ WorkerTypes
  /\ \A c \in Caller : Home(c) \in Deployment
  /\ \A c \in Caller : op[c].state \in {"none", "open", "done"}

LEMMA HeldHasTypes == Base => HeldTypes
BY BaseTypes, OpStates DEF Base, Types, HeldTypes, CacheTypes, CacheFacts!Request, Home

LEMMA HandKept ==
  ASSUME NEW c \in Caller, \E hand \in Hands : HeldBy(c, hand),
         UNCHANGED req,
         stage'[c] = "owner" <=> stage[c] = "owner",
         InQueue(c)' <=> InQueue(c),
         dropped'[c] # "" <=> dropped[c] # "",
         Working(c)' <=> Working(c),
         op'[c].state = "open" <=> op[c].state = "open"
  PROVE  (\E hand \in Hands : HeldBy(c, hand))'
<1>1. PICK hand \in Hands : HeldBy(c, hand)
  OBVIOUS
<1>2. HeldBy(c, hand)'
  BY <1>1 DEF HeldBy, Open
<1> QED  BY <1>2

LEMMA HandMoved ==
  ASSUME NEW c \in Caller, NEW hand \in Hands,
         (stage[c] = "owner")' <=> hand = "owner",
         InQueue(c)' <=> hand = "queue",
         (dropped[c] # "")' <=> hand = "removal",
         Working(c)' <=> hand = "worker",
         Open(c)' <=> hand # "nobody"
  PROVE  (\E h \in Hands : HeldBy(c, h))'
BY DEF HeldBy

LEMMA HandFacts ==
  ASSUME Holders, NEW c \in Caller
  PROVE  /\ ~Open(c) => ~(stage[c] = "owner") /\ ~InQueue(c) /\ dropped[c] = "" /\ ~Working(c)
         /\ stage[c] = "owner" => Open(c) /\ ~InQueue(c) /\ dropped[c] = "" /\ ~Working(c)
         /\ InQueue(c) => Open(c) /\ ~(stage[c] = "owner") /\ dropped[c] = "" /\ ~Working(c)
         /\ dropped[c] # "" => Open(c) /\ ~(stage[c] = "owner") /\ ~InQueue(c) /\ ~Working(c)
         /\ Working(c) => Open(c) /\ ~(stage[c] = "owner") /\ ~InQueue(c) /\ dropped[c] = ""
BY DEF Holders, HeldBy

(* Steps that leave every operation where it is.                             *)
LEMMA SameHands ==
  ASSUME Held, UNCHANGED <<op, req, queue, dropped>>,
         \A c \in Caller : stage'[c] = "owner" <=> stage[c] = "owner",
         \A d \in Deployment : run'[d].job = run[d].job /\
           (run'[d].out.err = run[d].out.err \/ run'[d].out.err # "queue_full")
  PROVE  Queues' /\ Holders' /\ NotFull'
<1>0. HeldTypes
  BY HeldHasTypes DEF Held
<1>1. Queues'
  BY DEF Held, Queues, Home
<1>2. NotFull'
  BY DEF Held, NotFull
<1>3. Holders'
  <2> SUFFICES ASSUME NEW c \in Caller PROVE (\E hand \in Hands : HeldBy(c, hand))'
    BY DEF Holders
  <2>1. Home(c)' = Home(c) /\ Home(c) \in Deployment
    BY <1>0 DEF Home, HeldTypes
  <2>2. (InQueue(c)' <=> InQueue(c)) /\ (Working(c)' <=> Working(c))
    BY <2>1 DEF InQueue, Contains, Working
  <2>3. \E hand \in Hands : HeldBy(c, hand)
    BY DEF Held, Holders
  <2> QED  BY <2>2, <2>3, HandKept
<1> QED  BY <1>1, <1>2, <1>3

LEMMA RunsKeepJobs ==
  ASSUME NEW d \in Deployment, NEW at, NEW out, RunsTo(d, at, run[d].job, out),
         OwnError(d, out)
  PROVE  \A e \in Deployment : run'[e].job = run[e].job /\
           (run'[e].out.err = run[e].out.err \/ run'[e].out.err # "queue_full")
BY DEF RunsTo, OwnError

LEMMA QuietHands ==
  ASSUME Held,
         \/ Aside \/ DockerMoves
         \/ \E c \in Caller : Quiet(c)
         \/ \E d \in Deployment : \/ WorkerParks(d) \/ WorkerWakes(d) \/ RootKills(d)
                                  \/ Submits(d) \/ Works(d)
  PROVE  Queues' /\ Holders' /\ NotFull'
<1>1. CASE Aside \/ DockerMoves \/ \E c \in Caller : Quiet(c)
  <2>1. UNCHANGED <<op, req, queue, dropped, run>>
    BY <1>1 DEF Aside, DockerMoves, Quiet, cacheVars, callVars, workVars
  <2>2. \A c \in Caller : stage'[c] = "owner" <=> stage[c] = "owner"
    BY <1>1 DEF Aside, DockerMoves, Quiet, callVars
  <2> QED  BY <2>1, <2>2, SameHands
<1>2. ASSUME NEW d \in Deployment, WorkerParks(d) \/ WorkerWakes(d) \/ RootKills(d)
      PROVE  Queues' /\ Holders' /\ NotFull'
  <2>1. PICK at : RunsTo(d, at, run[d].job, run[d].out)
    BY <1>2, LoopMoves DEF Held
  <2>2. UNCHANGED <<op, req, queue, dropped, stage>>
    BY <1>2 DEF WorkerParks, WorkerWakes, RootKills, cacheVars, callVars
  <2> QED  BY <2>1, <2>2, RunsKeepJobs, SameHands DEF OwnError
<1>3. ASSUME NEW d \in Deployment, Submits(d) \/ Works(d)
      PROVE  Queues' /\ Holders' /\ NotFull'
  <2>1. PICK at, out : RunsTo(d, at, run[d].job, out) /\ OwnError(d, out)
    BY <1>3 DEF Submits, Works, Moves, OwnError
  <2>2. UNCHANGED <<op, req, queue, dropped, stage>>
    BY <1>3 DEF Submits, Works, Moves, cacheVars, callVars
  <2> QED  BY <2>1, <2>2, RunsKeepJobs, SameHands
<1> QED  BY <1>1, <1>2, <1>3

LEMMA CreateHands ==
  ASSUME Held, NEW c \in Caller, Creates(c)
  PROVE  Queues' /\ Holders' /\ NotFull'
<1>0. HeldTypes
  BY HeldHasTypes DEF Held
<1>1. UNCHANGED <<req, dropped, queue, run>>
  BY DEF Creates, workVars
<1>2. Queues' /\ NotFull'
  BY <1>1 DEF Held, Queues, Home, NotFull
<1>3. ASSUME NEW o \in Caller
      PROVE  (\E hand \in Hands : HeldBy(o, hand))'
  <2>1. (InQueue(o)' <=> InQueue(o)) /\ (Working(o)' <=> Working(o)) /\ dropped'[o] = dropped[o]
    BY <1>1 DEF InQueue, Contains, Working, Home
  <2>2. CASE o = c
    <3>1. ~Open(c)
      BY DEF Creates, Open
    <3>2. ~InQueue(c) /\ dropped[c] = "" /\ ~Working(c)
      BY <3>1, HandFacts DEF Held
    <3>3. (stage[c] = "owner")' /\ Open(c)'
      BY <1>0 DEF Creates, Open, Cache!Opened, HeldTypes, CallTypes, CacheTypes
    <3> QED  BY <2>1, <2>2, <3>2, <3>3, HandMoved DEF Hands
  <2>3. CASE o # c
    <3>1. stage'[o] = stage[o] /\ op'[o] = op[o]
      BY <1>0, <2>3 DEF Creates, HeldTypes, CallTypes, CacheTypes
    <3>2. \E hand \in Hands : HeldBy(o, hand)
      BY DEF Held, Holders
    <3> QED  BY <1>1, <2>1, <3>1, <3>2, HandKept
  <2> QED  BY <2>2, <2>3
<1> QED  BY <1>2, <1>3 DEF Holders

(* An operation is completed by the one who holds it.                        *)
LEMMA CompleteHands ==
  ASSUME Held, NEW c \in Caller, NEW r, Cache!Complete(c, r),
         \/ /\ stage[c] = "owner" /\ stage' = [stage EXCEPT ![c] = "enqueued"]
            /\ UNCHANGED <<dropped, queue, run>>
         \/ /\ dropped[c] # "" /\ dropped' = [dropped EXCEPT ![c] = ""]
            /\ UNCHANGED <<stage, queue, run>>
         \/ /\ UNCHANGED <<stage, dropped, queue>>
            /\ \E d \in Deployment : run[d].job = c /\ RunsTo(d, "next", None, NotApplied(""))
  PROVE  Queues' /\ Holders' /\ NotFull'
<1>0. HeldTypes
  BY HeldHasTypes DEF Held
<1>1. /\ UNCHANGED <<req, queue>> /\ op[c].state = "open"
      /\ op' = [op EXCEPT ![c] = Cache!Completed(r)]
  BY DEF Cache!Complete
<1>2. ~Open(c)' /\ \A o \in Caller : o # c => op'[o] = op[o]
  BY <1>0, <1>1 DEF Open, Cache!Completed, HeldTypes, CacheTypes
<1>3. \A o \in Caller : (InQueue(o)' <=> InQueue(o)) /\ Home(o)' = Home(o) /\ Home(o) \in Deployment
  BY <1>0, <1>1 DEF InQueue, Contains, Home, HeldTypes
<1>4. /\ \A d \in Deployment : run'[d].job # None => run'[d].job = run[d].job
      /\ \A d \in Deployment : run[d].job # run'[d].job => run[d].job = c /\ run'[d].job = None
      /\ NotFull'
  <2>1. CASE run' = run
    BY <2>1 DEF Held, NotFull
  <2>2. CASE \E d \in Deployment : run[d].job = c /\ RunsTo(d, "next", None, NotApplied(""))
    BY <2>2, IdleFacts DEF RunsTo, Held, NotFull
  <2> QED  BY <2>1, <2>2
<1>5. Queues'
  <2>1. \A d \in Deployment : run'[d].job # None => req'[run'[d].job].deployment = d
    BY <1>1, <1>4 DEF Held, Queues, Home
  <2> QED  BY <1>1, <2>1 DEF Held, Queues, Home
<1>6. /\ stage'[c] # "owner" /\ ~InQueue(c) /\ dropped'[c] = "" /\ ~Working(c)'
  <2>1. c # None /\ Home(c) \in Deployment
    BY <1>0, Constants DEF HeldTypes
  <2>2. CASE stage[c] = "owner" /\ stage' = [stage EXCEPT ![c] = "enqueued"] /\ UNCHANGED <<dropped, queue, run>>
    <3>1. ~InQueue(c) /\ dropped[c] = "" /\ ~Working(c)
      BY <2>2, HandFacts DEF Held
    <3> QED  BY <1>0, <1>3, <2>2, <3>1 DEF Working, HeldTypes, CallTypes
  <2>3. CASE dropped[c] # "" /\ dropped' = [dropped EXCEPT ![c] = ""] /\ UNCHANGED <<stage, queue, run>>
    <3>1. ~InQueue(c) /\ stage[c] # "owner" /\ ~Working(c)
      BY <2>3, HandFacts DEF Held
    <3> QED  BY <1>0, <1>3, <2>3, <3>1 DEF Working, HeldTypes, CallTypes
  <2>4. ASSUME UNCHANGED <<stage, dropped, queue>>, NEW d \in Deployment, run[d].job = c,
               RunsTo(d, "next", None, NotApplied(""))
        PROVE  stage'[c] # "owner" /\ ~InQueue(c) /\ dropped'[c] = "" /\ ~Working(c)'
    <3>1. Home(c) = d
      BY <2>1, <2>4 DEF Held, Queues
    <3>2. Working(c)
      BY <2>4, <3>1 DEF Working
    <3>3. ~InQueue(c) /\ stage[c] # "owner" /\ dropped[c] = ""
      BY <3>2, HandFacts DEF Held
    <3>4. run'[d].job = None
      BY <2>4 DEF RunsTo
    <3> QED  BY <1>3, <2>1, <2>4, <3>1, <3>3, <3>4 DEF Working
  <2> QED  BY <2>2, <2>3, <2>4
<1>7. ASSUME NEW o \in Caller
      PROVE  (\E hand \in Hands : HeldBy(o, hand))'
  <2>1. CASE o = c
    BY <1>2, <1>3, <1>6, <2>1, HandMoved DEF Hands
  <2>2. CASE o # c
    <3>1. stage'[o] = stage[o] /\ dropped'[o] = dropped[o]
      BY <1>0, <2>2 DEF HeldTypes, CallTypes
    <3>2. Working(o)' <=> Working(o)
      <4>1. o # None
        BY Constants
      <4> QED  BY <1>3, <1>4, <2>2, <4>1 DEF Working
    <3>3. \E hand \in Hands : HeldBy(o, hand)
      BY DEF Held, Holders
    <3> QED  BY <1>1, <1>2, <1>3, <2>2, <3>1, <3>2, <3>3, HandKept
  <2> QED  BY <2>1, <2>2
<1> QED  BY <1>4, <1>5, <1>7 DEF Holders

(* A queue is replaced: the jobs in out leave it for a removal, and an owner *)
(* may have enqueued its operation, the one in added, or completed it.       *)
Replaces(d, jobs, out, added) ==
  /\ queue' = [queue EXCEPT ![d] = jobs]
  /\ \A o \in out : Contains(queue[d], o)
  /\ \A o \in Caller : Contains(jobs, o) <=> (Contains(queue[d], o) /\ o \notin out) \/ o \in added
  /\ \A o \in Caller : IF o \in out THEN dropped'[o] # "" ELSE dropped'[o] = dropped[o]
  /\ UNCHANGED req
  /\ \A e \in Deployment : run'[e].job = run[e].job /\ run'[e].out.err = run[e].out.err

Owns(d, added) ==
  \/ UNCHANGED <<stage, op>> /\ added = {}
  \/ \E c \in Caller : /\ stage[c] = "owner" /\ Home(c) = d
                       /\ stage' = [stage EXCEPT ![c] = "enqueued"]
                       /\ \/ added = {c} /\ UNCHANGED op
                          \/ /\ added = {} /\ op[c].state = "open"
                             /\ \E r : op' = [op EXCEPT ![c] = Cache!Completed(r)]

LEMMA ElementsContained ==
  ASSUME NEW jobs \in Seq(Caller), NEW i \in DOMAIN jobs
  PROVE  jobs[i] \in Caller /\ Contains(jobs, jobs[i])
<1>1. jobs[i] \in Caller
  BY LenProperties
<1> QED  BY <1>1 DEF Contains

LEMMA QueuedAtHome ==
  ASSUME Queues, NEW d \in Deployment, NEW o \in Caller, Contains(queue[d], o)
  PROVE  Home(o) = d /\ InQueue(o)
<1>1. Home(o) = d
  BY DEF Queues, Contains
<1> QED  BY <1>1 DEF InQueue

LEMMA OwnerMoves ==
  ASSUME HeldTypes, NEW d \in Deployment, NEW added, Owns(d, added), NEW o \in Caller
  PROVE  /\ o \in added => Home(o) = d /\ stage[o] = "owner"
         /\ \/ stage'[o] = stage[o] /\ op'[o] = op[o] /\ o \notin added
            \/ /\ stage[o] = "owner" /\ stage'[o] = "enqueued"
               /\ \/ o \in added /\ op'[o] = op[o]
                  \/ o \notin added /\ op'[o].state = "done"
<1>0. /\ stage \in [Caller -> {"arrived", "refused", "authorised", "owner", "enqueued"}]
      /\ op \in [Caller -> CacheFacts!Operation]
  BY DEF HeldTypes, CallTypes, CacheTypes
<1>1. CASE UNCHANGED <<stage, op>> /\ added = {}
  BY <1>1
<1>2. ASSUME NEW c \in Caller, stage[c] = "owner", Home(c) = d,
             stage' = [stage EXCEPT ![c] = "enqueued"], added = {c}, UNCHANGED op
      PROVE  /\ o \in added => Home(o) = d /\ stage[o] = "owner"
             /\ \/ stage'[o] = stage[o] /\ op'[o] = op[o] /\ o \notin added
                \/ stage[o] = "owner" /\ stage'[o] = "enqueued" /\ o \in added /\ op'[o] = op[o]
  BY <1>0, <1>2
<1>3. ASSUME NEW c \in Caller, stage[c] = "owner",
             stage' = [stage EXCEPT ![c] = "enqueued"], added = {},
             NEW r, op' = [op EXCEPT ![c] = Cache!Completed(r)]
      PROVE  \/ stage'[o] = stage[o] /\ op'[o] = op[o] /\ o \notin added
             \/ stage[o] = "owner" /\ stage'[o] = "enqueued" /\ o \notin added /\ op'[o].state = "done"
  BY <1>0, <1>3 DEF Cache!Completed
<1>4. added = {} => o \notin added
  OBVIOUS
<1> QED  BY <1>1, <1>2, <1>3, <1>4 DEF Owns

LEMMA ReplaceHands ==
  ASSUME Held, NEW d \in Deployment, NEW jobs \in Seq(Caller),
         Injective(jobs), Len(jobs) <= QueueCapacity,
         NEW out \in SUBSET Caller, NEW added \in SUBSET Caller,
         Replaces(d, jobs, out, added), Owns(d, added)
  PROVE  Queues' /\ Holders' /\ NotFull'
<1>0. HeldTypes /\ Queues /\ Holders
  BY HeldHasTypes DEF Held
<1>1. /\ queue'[d] = jobs
      /\ \A e \in Deployment : e # d => queue'[e] = queue[e]
  BY <1>0 DEF Replaces, HeldTypes, CallTypes
<1>2. NotFull'
  BY DEF Held, NotFull, Replaces
<1>3. /\ UNCHANGED req
      /\ \A o \in Caller : Home(o)' = Home(o) /\ Home(o) \in Deployment /\ (Working(o)' <=> Working(o))
  BY <1>0 DEF Replaces, Home, Working, HeldTypes
<1>4. \A o \in Caller : Contains(queue[d], o) => Home(o) = d /\ InQueue(o)
  BY <1>0, QueuedAtHome
<1>5. \A o \in added : Home(o) = d /\ stage[o] = "owner"
  BY <1>0, OwnerMoves
<1>6. /\ \A o \in out : Contains(queue[d], o)
      /\ \A o \in Caller : Contains(jobs, o) <=> (Contains(queue[d], o) /\ o \notin out) \/ o \in added
      /\ \A o \in Caller : IF o \in out THEN dropped'[o] # "" ELSE dropped'[o] = dropped[o]
  BY DEF Replaces
<1>7. Queues'
  <2>1. \A i \in DOMAIN jobs : Home(jobs[i]) = d
    BY <1>4, <1>5, <1>6, ElementsContained
  <2>2. ASSUME NEW e \in Deployment
        PROVE  /\ \A i \in DOMAIN queue'[e] : req'[queue'[e][i]].deployment = e
               /\ Injective(queue'[e]) /\ Len(queue'[e]) <= QueueCapacity
    <3>1. CASE e = d
      BY <1>1, <1>3, <2>1, <3>1 DEF Home
    <3>2. CASE e # d
      BY <1>0, <1>1, <1>3, <3>2 DEF Queues, Home
    <3> QED  BY <3>1, <3>2
  <2>3. \A e \in Deployment : run'[e].job # None => req'[run'[e].job].deployment = e
    BY <1>0, <1>3 DEF Replaces, Queues, Home
  <2> QED  BY <2>2, <2>3 DEF Queues, Home, Injective
<1>8. ASSUME NEW o \in Caller
      PROVE  (\E hand \in Hands : HeldBy(o, hand))'
  <2>1. InQueue(o)' <=> (InQueue(o) /\ o \notin out) \/ o \in added
    <3>0. InQueue(o)' <=> Contains(queue'[Home(o)], o)
      BY <1>3 DEF InQueue, Contains
    <3>1. CASE Home(o) = d
      BY <1>1, <1>6, <3>0, <3>1 DEF InQueue
    <3>2. CASE Home(o) # d
      <4>1. o \notin out /\ o \notin added
        BY <1>4, <1>5, <1>6, <3>2
      <4>2. queue'[Home(o)] = queue[Home(o)]
        BY <1>1, <1>3, <3>2
      <4> QED  BY <3>0, <4>1, <4>2 DEF InQueue
    <3> QED  BY <3>1, <3>2
  <2>2. (o \in out => InQueue(o) /\ dropped'[o] # "") /\ (o \notin out => dropped'[o] = dropped[o])
    BY <1>4, <1>6
  <2>3. /\ \/ stage'[o] = stage[o] /\ op'[o] = op[o] /\ o \notin added
           \/ /\ stage[o] = "owner" /\ stage'[o] = "enqueued"
              /\ \/ o \in added /\ op'[o] = op[o]
                 \/ o \notin added /\ op'[o].state = "done"
    BY <1>0, OwnerMoves
  <2>4. /\ stage[o] = "owner" => Open(o) /\ ~InQueue(o) /\ dropped[o] = "" /\ ~Working(o)
        /\ InQueue(o) => Open(o) /\ ~(stage[o] = "owner") /\ dropped[o] = "" /\ ~Working(o)
    BY <1>0, HandFacts
  <2>5. Working(o)' <=> Working(o)
    BY <1>3
  <2>6. CASE o \in out
    BY <2>1, <2>2, <2>3, <2>4, <2>5, <2>6, HandMoved DEF Hands, Open
  <2>7. CASE o \notin out /\ stage'[o] = stage[o] /\ op'[o] = op[o] /\ o \notin added
    <3>1. \E hand \in Hands : HeldBy(o, hand)
      BY <1>0 DEF Holders
    <3> QED  BY <1>3, <2>1, <2>2, <2>5, <2>7, <3>1, HandKept
  <2>8. CASE stage[o] = "owner" /\ stage'[o] = "enqueued" /\ o \in added /\ op'[o] = op[o]
    BY <2>1, <2>2, <2>4, <2>5, <2>8, HandMoved DEF Hands, Open
  <2>9. CASE stage[o] = "owner" /\ stage'[o] = "enqueued" /\ o \notin added /\ op'[o].state = "done"
    BY <2>1, <2>2, <2>4, <2>5, <2>9, HandMoved DEF Hands, Open
  <2> QED  BY <2>3, <2>6, <2>7, <2>8, <2>9
<1> QED  BY <1>2, <1>7, <1>8 DEF Holders

LEMMA EnqueueHands ==
  ASSUME Held, NEW c \in Caller, Enqueue(c)
  PROVE  Queues' /\ Holders' /\ NotFull'
<1> DEFINE d == Home(c)
           kept == Waiting(d)
           out == {o \in Caller : Contains(queue[d], o) /\ o \notin LiveCalls}
<1>0. HeldTypes /\ Types /\ d \in Deployment
  BY HeldHasTypes DEF Held, Base, HeldTypes
<1>1. /\ queue[d] \in Seq(Caller) /\ Injective(queue[d]) /\ Len(queue[d]) <= QueueCapacity
      /\ QueueCapacity \in Nat
  BY <1>0, Constants DEF Held, Queues, HeldTypes, CallTypes
<1>2. /\ kept \in Seq(Caller) /\ Injective(kept) /\ Len(kept) <= Len(queue[d])
      /\ \A o \in Caller : Contains(kept, o) <=> Contains(queue[d], o) /\ o \in LiveCalls
  <2>1. LiveCalls \in SUBSET Caller
    BY DEF LiveCalls
  <2>2. Waiting(d) = Keep(queue[d], LiveCalls)
    BY DEF Waiting, LiveCalls
  <2>3. \A o \in Caller : Contains(Keep(queue[d], LiveCalls), o) <=> Contains(queue[d], o) /\ o \in LiveCalls
    BY <1>1, <2>1, ContainsKeep
  <2> HIDE DEF d
  <2> QED  BY <1>0, <1>1, <2>2, <2>3, WaitingFacts
<1>3. Len(kept) \in Nat /\ Len(kept) <= QueueCapacity
  BY <1>1, <1>2, LenProperties
<1>4. \A o \in Caller : IF o \in out THEN dropped'[o] # "" ELSE dropped'[o] = dropped[o]
  <2>1. Drop(Cancelled(d), ctx)
    BY DEF Enqueue, Home
  <2>2. \A o \in Caller : o \in out <=> o \in Cancelled(d)
    BY DEF Cancelled, LiveCalls, Contains
  <2>3. \A o \in Caller : o \in Cancelled(d) => ctx[o] # ""
    BY <1>0, CancelledErrors DEF Cancelled
  <2> QED  BY <2>1, <2>2, <2>3 DEF Drop
<1>5. stage[c] = "owner" /\ stage' = [stage EXCEPT ![c] = "enqueued"] /\ UNCHANGED <<req, run>>
  BY DEF Enqueue, Advance, Cache!Complete, cacheVars
<1>6. \/ /\ Len(kept) < QueueCapacity /\ queue' = [queue EXCEPT ![d] = Append(kept, c)]
         /\ UNCHANGED op
      \/ /\ queue' = [queue EXCEPT ![d] = kept] /\ op[c].state = "open"
         /\ \E r : op' = [op EXCEPT ![c] = Cache!Completed(r)]
  BY DEF Enqueue, Cache!Complete, cacheVars, Home
<1>7. ~Contains(queue[d], c) /\ c \notin out
  <2>1. ~InQueue(c)
    BY <1>5, HandFacts DEF Held
  <2> QED  BY <2>1 DEF InQueue
<1> HIDE DEF kept, out, d
<1>8. out \in SUBSET Caller /\ \A o \in out : Contains(queue[d], o)
  BY DEF out
<1>9. Home(c) = d
  BY DEF d
<1>10. \A o \in Caller : o \in LiveCalls /\ Contains(queue[d], o) <=> Contains(queue[d], o) /\ o \notin out
  BY DEF out
<1>11. CASE Len(kept) < QueueCapacity /\ queue' = [queue EXCEPT ![d] = Append(kept, c)] /\ UNCHANGED op
  <2> DEFINE jobs == Append(kept, c)
             added == {c}
  <2>1. /\ jobs \in Seq(Caller) /\ Len(jobs) = Len(kept) + 1 /\ Injective(jobs)
        /\ \A o \in Caller : Contains(jobs, o) <=> Contains(kept, o) \/ o = c
    BY <1>2, <1>7, ContainsAppend
  <2>2. Len(jobs) <= QueueCapacity
    BY <1>1, <1>3, <1>11, <2>1
  <2>3. /\ queue' = [queue EXCEPT ![d] = jobs] /\ added \in SUBSET Caller
        /\ added = {c}
        /\ \A o \in Caller : Contains(jobs, o) <=> (Contains(queue[d], o) /\ o \notin out) \/ o \in added
    BY <1>2, <1>10, <1>11, <2>1
  <2> HIDE DEF jobs, added
  <2>4. Replaces(d, jobs, out, added)
    BY <1>4, <1>5, <1>8, <2>3 DEF Replaces
  <2>5. Owns(d, added)
    BY <1>5, <1>9, <1>11, <2>3 DEF Owns
  <2> QED  BY <1>0, <1>8, <2>1, <2>2, <2>3, <2>4, <2>5, ReplaceHands
<1>12. ASSUME queue' = [queue EXCEPT ![d] = kept], op[c].state = "open",
              NEW r, op' = [op EXCEPT ![c] = Cache!Completed(r)]
       PROVE  Queues' /\ Holders' /\ NotFull'
  <2> DEFINE added == {}
  <2>1. /\ added \in SUBSET Caller /\ added = {}
        /\ \A o \in Caller : Contains(kept, o) <=> (Contains(queue[d], o) /\ o \notin out) \/ o \in added
    BY <1>2, <1>10
  <2> HIDE DEF added
  <2>2. Replaces(d, kept, out, added)
    BY <1>4, <1>5, <1>8, <1>12, <2>1 DEF Replaces
  <2>3. Owns(d, added)
    BY <1>5, <1>9, <1>12, <2>1 DEF Owns
  <2> QED  BY <1>0, <1>2, <1>3, <1>8, <2>1, <2>2, <2>3, ReplaceHands
<1> QED  BY <1>6, <1>11, <1>12

LEMMA RemoveHands ==
  ASSUME Held, NEW c \in Caller, Remove(c)
  PROVE  Queues' /\ Holders' /\ NotFull'
<1> DEFINE d == Home(c)
           jobs == Keep(queue[d], Caller \ {c})
           out == {c}
           added == {}
<1>0. HeldTypes /\ Types /\ d \in Deployment
  BY HeldHasTypes DEF Held, Base, HeldTypes
<1>1. /\ queue[d] \in Seq(Caller) /\ Injective(queue[d]) /\ Len(queue[d]) <= QueueCapacity
      /\ QueueCapacity \in Nat /\ (Caller \ {c}) \in SUBSET Caller
  BY <1>0, Constants DEF Held, Queues, HeldTypes, CallTypes
<1>2. /\ jobs \in Seq(Caller) /\ Len(jobs) <= Len(queue[d]) /\ Injective(jobs)
  <2> HIDE DEF d
  <2> QED  BY <1>1, KeepFacts
<1>3. \A o \in Caller : Contains(jobs, o) <=> Contains(queue[d], o) /\ o \in Caller \ {c}
  <2> HIDE DEF d
  <2> QED  BY <1>1, ContainsKeep
<1>4. Len(jobs) <= QueueCapacity
  BY <1>1, <1>2, LenProperties
<1>5. /\ queue' = [queue EXCEPT ![d] = jobs] /\ Contains(queue[d], c) /\ ~Live(c)
      /\ Drop({c}, ctx) /\ UNCHANGED <<req, stage, op, run>>
  BY DEF Remove, Home, Cancelled, Contains, cacheVars
<1>6. \A o \in Caller : IF o \in out THEN dropped'[o] # "" ELSE dropped'[o] = dropped[o]
  <2>1. ctx[c] # ""
    BY <1>0, <1>5, CancelledErrors
  <2> QED  BY <1>5, <2>1 DEF Drop
<1>7. /\ out \in SUBSET Caller /\ \A o \in out : Contains(queue[d], o)
      /\ added \in SUBSET Caller /\ added = {}
      /\ \A o \in Caller : Contains(jobs, o) <=> (Contains(queue[d], o) /\ o \notin out) \/ o \in added
  BY <1>3, <1>5
<1> HIDE DEF d, jobs, out, added
<1>8. Replaces(d, jobs, out, added)
  BY <1>5, <1>6, <1>7 DEF Replaces
<1>9. Owns(d, added)
  BY <1>5, <1>7 DEF Owns
<1> QED  BY <1>0, <1>2, <1>4, <1>7, <1>8, <1>9, ReplaceHands

LEMMA StopHands ==
  ASSUME Held, NEW d \in Deployment, WorkerStops(d)
  PROVE  Queues' /\ Holders' /\ NotFull'
<1> DEFINE jobs == << >>
           out == {o \in Caller : Contains(queue[d], o)}
           added == {}
<1>0. HeldTypes /\ Types
  BY HeldHasTypes DEF Held, Base
<1>1. queue[d] \in Seq(Caller) /\ QueueCapacity \in Nat
  BY <1>0, Constants DEF HeldTypes, CallTypes
<1>2. jobs \in Seq(Caller) /\ Injective(jobs) /\ Len(jobs) <= QueueCapacity
      /\ \A o \in Caller : ~Contains(jobs, o)
  BY <1>1, ContainsNone, EmptySeq
<1>3. \A o \in Caller : IF o \in out THEN dropped'[o] # "" ELSE dropped'[o] = dropped[o]
  <2>1. Drop({queue[d][i] : i \in DOMAIN queue[d]}, [c \in Caller |-> root]) /\ root # ""
    BY <1>0 DEF WorkerStops, HeldTypes, CallTypes
  <2>2. \A o \in Caller : o \in out <=> o \in {queue[d][i] : i \in DOMAIN queue[d]}
    BY DEF Contains
  <2> QED  BY <2>1, <2>2 DEF Drop
<1>4. /\ queue' = [queue EXCEPT ![d] = jobs] /\ UNCHANGED <<req, stage, op>>
      /\ RunsTo(d, "stopped", None, run[d].out) /\ run[d].job = None
  BY LoopMoves DEF Held, WorkerStops, cacheVars
<1>5. \A e \in Deployment : run'[e].job = run[e].job /\ run'[e].out.err = run[e].out.err
  BY <1>4 DEF RunsTo
<1>6. /\ out \in SUBSET Caller /\ \A o \in out : Contains(queue[d], o)
      /\ added \in SUBSET Caller /\ added = {}
      /\ \A o \in Caller : Contains(jobs, o) <=> (Contains(queue[d], o) /\ o \notin out) \/ o \in added
  BY <1>2
<1> HIDE DEF jobs, out, added
<1>7. Replaces(d, jobs, out, added)
  BY <1>3, <1>4, <1>5, <1>6 DEF Replaces
<1>8. Owns(d, added)
  BY <1>4, <1>6 DEF Owns
<1> QED  BY <1>2, <1>6, <1>7, <1>8, ReplaceHands

LEMMA TakeHands ==
  ASSUME Held, NEW d \in Deployment, WorkerTakes(d)
  PROVE  Queues' /\ Holders' /\ NotFull'
<1> DEFINE h == Head(queue[d])
<1>0. HeldTypes
  BY HeldHasTypes DEF Held
<1>1. /\ queue[d] \in Seq(Caller) /\ queue[d] # << >> /\ Injective(queue[d])
      /\ Len(queue[d]) <= QueueCapacity /\ QueueCapacity \in Nat
      /\ queue' = [queue EXCEPT ![d] = Tail(queue[d])]
      /\ UNCHANGED <<op, req, stage, dropped>>
  BY <1>0, Constants DEF Held, Queues, HeldTypes, CallTypes, WorkerTakes, cacheVars, callVars
<1>2. /\ Len(Tail(queue[d])) = Len(queue[d]) - 1 /\ Injective(Tail(queue[d]))
      /\ h \in Caller /\ Contains(queue[d], h)
      /\ \A o \in Caller : Contains(Tail(queue[d]), o) <=> Contains(queue[d], o) /\ o # h
      /\ Len(queue[d]) \in Nat
      /\ Tail(queue[d]) \in Seq(Caller)
  BY <1>1, ContainsTail, LenProperties
<1>3. /\ RunsTo(d, "start", h, NotApplied("")) /\ run[d].job = None
  BY LoopMoves DEF Held, WorkerTakes
<1>4. /\ queue'[d] = Tail(queue[d])
      /\ \A e \in Deployment : e # d => queue'[e] = queue[e] /\ run'[e] = run[e]
      /\ run'[d].job = h /\ run'[d].out = NotApplied("")
  BY <1>0, <1>1, <1>3 DEF HeldTypes, CallTypes, RunsTo
<1>5. Home(h) = d /\ InQueue(h)
  BY <1>2, QueuedAtHome DEF Held
<1>6. NotFull'
  BY <1>4, IdleFacts DEF Held, NotFull
<1>7. Queues'
  <2>1. \A i \in DOMAIN Tail(queue[d]) : Home(Tail(queue[d])[i]) = d
    <3> SUFFICES ASSUME NEW i \in DOMAIN Tail(queue[d])
                 PROVE  Home(Tail(queue[d])[i]) = d
      OBVIOUS
    <3> DEFINE o == Tail(queue[d])[i]
    <3>1. o \in Caller /\ Contains(Tail(queue[d]), o)
      BY <1>2, ElementsContained
    <3> HIDE DEF o
    <3>2. Contains(queue[d], o)
      BY <1>2, <3>1
    <3>3. Home(o) = d
      BY <3>1, <3>2, QueuedAtHome DEF Held
    <3> QED  BY <3>3 DEF o
  <2>2. ASSUME NEW e \in Deployment
        PROVE  /\ \A i \in DOMAIN queue'[e] : req'[queue'[e][i]].deployment = e
               /\ run'[e].job # None => req'[run'[e].job].deployment = e
               /\ Injective(queue'[e]) /\ Len(queue'[e]) <= QueueCapacity
    <3>1. CASE e = d
      <4> HIDE DEF h
      <4>1. req' = req /\ queue'[d] = Tail(queue[d]) /\ run'[d].job = h
        BY <1>1, <1>4 DEF h
      <4>2. \A i \in DOMAIN queue'[d] : req'[queue'[d][i]].deployment = d
        BY <2>1, <4>1 DEF Home
      <4>3. req'[run'[d].job].deployment = d
        BY <1>5, <4>1 DEF Home
      <4>4. Injective(queue'[d]) /\ Len(queue'[d]) <= QueueCapacity
        BY <1>1, <1>2, <4>1
      <4> QED  BY <3>1, <4>2, <4>3, <4>4
    <3>2. CASE e # d
      BY <1>1, <1>4, <3>2 DEF Held, Queues, Home
    <3> QED  BY <3>1, <3>2
  <2> QED  BY <2>2 DEF Queues, Home, Injective
<1>8. ASSUME NEW o \in Caller
      PROVE  (\E hand \in Hands : HeldBy(o, hand))'
  <2>1. Home(o)' = Home(o) /\ Home(o) \in Deployment /\ o # None
    BY <1>0, <1>1, Constants DEF Home, HeldTypes
  <2>2. InQueue(o)' <=> InQueue(o) /\ o # h
    <3>0. InQueue(o)' <=> Contains(queue'[Home(o)], o)
      BY <2>1 DEF InQueue, Contains
    <3>1. CASE Home(o) = d
      BY <1>2, <1>4, <3>0, <3>1 DEF InQueue
    <3>2. CASE Home(o) # d
      BY <1>4, <1>5, <2>1, <3>0, <3>2 DEF InQueue
    <3> QED  BY <3>1, <3>2
  <2>3. Working(o)' <=> Working(o) \/ o = h
    BY <1>3, <1>4, <1>5, <2>1 DEF Working
  <2>4. CASE o = h
    <3>1. Open(h) /\ stage[h] # "owner" /\ dropped[h] = ""
      BY <1>2, <1>5, HandFacts DEF Held
    <3> QED  BY <1>1, <2>2, <2>3, <2>4, <3>1, HandMoved DEF Hands, Open
  <2>5. CASE o # h
    <3>1. \E hand \in Hands : HeldBy(o, hand)
      BY DEF Held, Holders
    <3> QED  BY <1>1, <2>2, <2>3, <2>5, <3>1, HandKept
  <2> QED  BY <2>4, <2>5
<1> QED  BY <1>6, <1>7, <1>8 DEF Holders

LEMMA HeldStep == Held /\ [Next]_vars => Held'
<1> SUFFICES ASSUME Held, [Next]_vars PROVE Held'
  OBVIOUS
<1>1. Base'
  BY BaseStep DEF Held
<1>2. ASSUME NEW c \in Caller, EnqueueRefused(c)
      PROVE  Queues' /\ Holders' /\ NotFull'
  <2>1. PICK r : Cache!Complete(c, r)
    BY <1>2 DEF EnqueueRefused
  <2>2. /\ stage[c] = "owner" /\ stage' = [stage EXCEPT ![c] = "enqueued"]
        /\ UNCHANGED <<dropped, queue, run>>
    BY <1>2 DEF EnqueueRefused, Advance, workVars
  <2> QED  BY <2>1, <2>2, CompleteHands
<1>3. ASSUME NEW c \in Caller, CompleteDropped(c)
      PROVE  Queues' /\ Holders' /\ NotFull'
  <2>1. PICK r : Cache!Complete(c, r)
    BY <1>3 DEF CompleteDropped
  <2>2. /\ dropped[c] # "" /\ dropped' = [dropped EXCEPT ![c] = ""]
        /\ UNCHANGED <<stage, queue, run>>
    BY <1>3 DEF CompleteDropped, workVars
  <2> QED  BY <2>1, <2>2, CompleteHands
<1>4. ASSUME NEW d \in Deployment, Publish(d)
      PROVE  Queues' /\ Holders' /\ NotFull'
  <2> DEFINE c == run[d].job
  <2>1. c \in Caller /\ Cache!Complete(c, run[d].out) /\ RunsTo(d, "next", None, NotApplied(""))
    BY <1>4, LoopMoves DEF Held, Publish
  <2>2. UNCHANGED <<stage, dropped, queue>> /\ run[d].job = c
    BY <1>4 DEF Publish, callVars
  <2> HIDE DEF c
  <2> QED  BY <2>1, <2>2, CompleteHands
<1>5. Queues' /\ Holders' /\ NotFull'
  BY <1>2, <1>3, <1>4, QuietHands, CreateHands, EnqueueHands, RemoveHands, StopHands, TakeHands,
     Steps DEF Loop, Held
<1> QED  BY <1>1, <1>5 DEF Held

LEMMA HeldInit == Init => Held
<1> SUFFICES ASSUME Init PROVE Held
  OBVIOUS
<1>1. Base /\ HeldTypes
  BY BaseInit, HeldHasTypes
<1>2. /\ \A d \in Deployment : queue[d] = << >> /\ run[d] = Idle
      /\ \A c \in Caller : stage[c] = "arrived" /\ dropped[c] = "" /\ op[c].state = "none"
  BY DEF Init, Cache!Init, Cache!NoOperation
<1>3. Queues
  <2>0. Injective(<< >>) /\ Len(<< >>) = 0 /\ Idle.job = None
    BY ContainsNone, IdleFacts
  <2>1. \A i : i \notin DOMAIN << >>
    BY ContainsNone DEF Contains
  <2> SUFFICES ASSUME NEW d \in Deployment
               PROVE  /\ Injective(queue[d]) /\ Len(queue[d]) <= QueueCapacity
                      /\ \A i \in DOMAIN queue[d] : Home(queue[d][i]) = d
                      /\ run[d].job # None => Home(run[d].job) = d
    BY DEF Queues
  <2>2. queue[d] = << >> /\ run[d].job = None
    BY <1>2, <2>0
  <2> QED  BY <2>0, <2>1, <2>2, Constants
<1>4. NotFull
  BY <1>2, IdleFacts DEF NotFull
<1>5. Holders
  <2>1. ASSUME NEW c \in Caller
        PROVE  HeldBy(c, "nobody")
    <3>1. queue[Home(c)] = << >> /\ run[Home(c)].job = None /\ c # None
      BY <1>1, <1>2, IdleFacts, Constants DEF HeldTypes
    <3> QED  BY <1>2, <3>1, ContainsNone DEF HeldBy, InQueue, Working, Open
  <2> QED  BY <2>1 DEF Holders, Hands
<1> QED  BY <1>1, <1>3, <1>4, <1>5 DEF Held

(* Each operation is held by its owner, one queue, a removal or a worker     *)
(* while it is open and by nobody after (Enqueue, remove, next, runWorker).  *)
THEOREM HeldInvariant == Spec => []Held
BY HeldInit, HeldStep, PTL DEF Spec

(* An operation waits in at most one place of one queue.                     *)
LEMMA QueuedOnce ==
  ASSUME Held, NEW c \in Caller
  PROVE  Cardinality(Queued(c)) = IF InQueue(c) THEN 1 ELSE 0
<1>0. HeldTypes /\ Queues /\ Home(c) \in Deployment
  BY HeldHasTypes DEF Held, HeldTypes
<1>1. ASSUME NEW p \in Queued(c)
      PROVE  p[1] = Home(c) /\ InQueue(c) /\ p[2] \in DOMAIN queue[p[1]] /\ queue[p[1]][p[2]] = c
             /\ p = <<p[1], p[2]>>
  <2>1. /\ p \in Deployment \X (1 .. QueueCapacity)
        /\ p[2] \in DOMAIN queue[p[1]] /\ queue[p[1]][p[2]] = c
    BY DEF Queued
  <2>2. p[1] \in Deployment /\ p = <<p[1], p[2]>>
    BY <2>1
  <2>3. Contains(queue[p[1]], c)
    BY <2>1 DEF Contains
  <2> QED  BY <1>0, <2>1, <2>2, <2>3, QueuedAtHome
<1>2. CASE ~InQueue(c)
  <2>1. Queued(c) = {}
    BY <1>1, <1>2
  <2> QED  BY <1>2, <2>1, FS_EmptySet
<1>3. CASE InQueue(c)
  <2> DEFINE jobs == queue[Home(c)]
  <2>1. jobs \in Seq(Caller) /\ Injective(jobs) /\ Len(jobs) <= QueueCapacity
    BY <1>0 DEF HeldTypes, CallTypes, Queues
  <2>2. PICK i \in DOMAIN jobs : jobs[i] = c
    BY <1>3 DEF InQueue, Contains
  <2>3. i \in 1 .. QueueCapacity
    <3>1. DOMAIN jobs = 1 .. Len(jobs) /\ Len(jobs) \in Nat
      BY <2>1, LenProperties
    <3> QED  BY <2>1, <2>2, <3>1, Constants
  <2>4. <<Home(c), i>> \in Queued(c)
    BY <1>0, <2>2, <2>3 DEF Queued
  <2>5. \A p \in Queued(c) : p = <<Home(c), i>>
    BY <1>1, <2>1, <2>2 DEF Injective
  <2>6. Queued(c) = {<<Home(c), i>>}
    BY <2>4, <2>5
  <2> QED  BY <1>3, <2>6, FS_Singleton
<1> QED  BY <1>2, <1>3

(* Every unfinished operation is in exactly one pair of hands, and no        *)
(* finished one in any (Enqueue, remove, next and the shutdown together).    *)
THEOREM OneHolder == Spec => []ExactlyOneHolder
<1>1. Held => ExactlyOneHolder
  <2> SUFFICES ASSUME Held, NEW c \in Caller
               PROVE  Cardinality(Queued(c))
                        + Cardinality({d \in Deployment : run[d].job = c})
                        + (IF stage[c] = "owner" THEN 1 ELSE 0)
                        + (IF dropped[c] # "" THEN 1 ELSE 0)
                      = IF Open(c) THEN 1 ELSE 0
    BY DEF ExactlyOneHolder
  <2>0. Home(c) \in Deployment /\ c # None
    BY HeldHasTypes, Constants DEF Held, HeldTypes
  <2>1. Cardinality(Queued(c)) = IF InQueue(c) THEN 1 ELSE 0
    BY QueuedOnce
  <2>2. Cardinality({d \in Deployment : run[d].job = c}) = IF Working(c) THEN 1 ELSE 0
    <3>1. \A d \in Deployment : run[d].job = c => d = Home(c)
      BY <2>0 DEF Held, Queues
    <3>2. CASE Working(c)
      <4>1. {d \in Deployment : run[d].job = c} = {Home(c)}
        BY <2>0, <3>1, <3>2 DEF Working
      <4> QED  BY <3>2, <4>1, FS_Singleton
    <3>3. CASE ~Working(c)
      <4>1. {d \in Deployment : run[d].job = c} = {}
        BY <3>1, <3>3 DEF Working
      <4> QED  BY <3>3, <4>1, FS_EmptySet
    <3> QED  BY <3>2, <3>3
  <2>3. PICK hand \in Hands : HeldBy(c, hand)
    BY DEF Held, Holders
  <2>4. /\ stage[c] = "owner" <=> hand = "owner"
        /\ InQueue(c) <=> hand = "queue"
        /\ dropped[c] # "" <=> hand = "removal"
        /\ Working(c) <=> hand = "worker"
        /\ Open(c) <=> hand # "nobody"
    BY <2>3 DEF HeldBy
  <2> DEFINE bit(b) == IF b THEN 1 ELSE 0
             own == stage[c] = "owner"
             off == dropped[c] # ""
             in  == InQueue(c)
             at  == Working(c)
             open == Open(c)
  <2>5. bit(in) + bit(at) + bit(own) + bit(off) = bit(open)
    <3>1. /\ own \in BOOLEAN /\ off \in BOOLEAN /\ in \in BOOLEAN /\ at \in BOOLEAN /\ open \in BOOLEAN
          /\ own <=> hand = "owner"
          /\ in <=> hand = "queue"
          /\ off <=> hand = "removal"
          /\ at <=> hand = "worker"
          /\ open <=> hand # "nobody"
      BY <2>4 DEF InQueue, Contains, Working, Open
    <3> HIDE DEF own, off, in, at, open
    <3>2. CASE hand = "nobody"
      BY <3>1, <3>2
    <3>3. CASE hand = "owner"
      BY <3>1, <3>3
    <3>4. CASE hand = "queue"
      BY <3>1, <3>4
    <3>5. CASE hand = "removal"
      BY <3>1, <3>5
    <3>6. CASE hand = "worker"
      BY <3>1, <3>6
    <3> QED  BY <3>2, <3>3, <3>4, <3>5, <3>6 DEF Hands
  <2> QED  BY <2>1, <2>2, <2>5
<1> QED  BY <1>1, HeldInvariant, PTL

(* ErrQueueFull is the outcome of an operation only when its queue is full   *)
(* of jobs whose requests are alive (enqueue and removeCancelledLocked).     *)
THEOREM QueueFullOfLiveJobs == Spec => FullOfLiveJobs
<1> DEFINE TurnedAway(c) == Open(c) /\ op'[c].state = "done" /\ op'[c].result.err = "queue_full"
           LiveIn(d) == {i \in DOMAIN queue[d] : Live(queue[d][i])}
           Full == \A c \in Caller : TurnedAway(c) => Cardinality(LiveIn(Home(c))) = QueueCapacity
<1>1. Held /\ [Next]_vars => [Full]_vars
  <2> SUFFICES ASSUME Held, [Next]_vars, NEW c \in Caller, TurnedAway(c)
               PROVE  Cardinality(LiveIn(Home(c))) = QueueCapacity
    OBVIOUS
  <2>0. HeldTypes /\ Types /\ Home(c) \in Deployment /\ op \in [Caller -> CacheFacts!Operation]
    BY HeldHasTypes DEF Held, HeldTypes, Base, CacheTypes
  <2>1. op[c].state = "open" /\ op'[c].state = "done" /\ op'[c].result.err = "queue_full"
    BY DEF Open
  <2> HIDE DEF TurnedAway
  <2>2. ASSUME NEW o \in Caller, NEW r, Cache!Complete(o, r)
        PROVE  o = c /\ r.err = "queue_full"
    BY <2>0, <2>1, <2>2 DEF Cache!Complete, Cache!Completed
  <2>3. op' # op
    BY <2>1
  <2>4. CASE Enqueue(c)
    <3>1. Len(Waiting(Home(c))) = QueueCapacity
      BY <2>3, <2>4 DEF Enqueue, Home, cacheVars
    <3>2. Len(Waiting(Home(c))) = Cardinality({i \in DOMAIN queue[Home(c)] : queue[Home(c)][i] \in LiveCalls})
      BY <2>0, WaitingFacts
    <3>3. {i \in DOMAIN queue[Home(c)] : queue[Home(c)][i] \in LiveCalls} = LiveIn(Home(c))
      <4>1. queue[Home(c)] \in Seq(Caller)
        BY <2>0, WaitingFacts
      <4>2. \A i \in DOMAIN queue[Home(c)] : queue[Home(c)][i] \in Caller
        BY <4>1, ElementsContained
      <4> QED  BY <4>2 DEF LiveCalls
    <3> QED  BY <3>1, <3>2, <3>3
  <2>5. ASSUME NEW o \in Caller, Enqueue(o), o # c
        PROVE  FALSE
    BY <2>2, <2>3, <2>5 DEF Enqueue, cacheVars
  <2>6. ASSUME NEW o \in Caller, EnqueueRefused(o) \/ CompleteDropped(o)
        PROVE  FALSE
    <3>1. PICK e \in Error \ {"queue_full"} : Cache!Complete(o, Unexecuted(o, e))
      BY <2>6, Completions DEF Held
    <3>2. Unexecuted(o, e).err = e
      BY <2>0, UnexecutedIsResult DEF Held, Base, HeldTypes
    <3> QED  BY <2>2, <3>1, <3>2
  <2>7. ASSUME NEW d \in Deployment, Publish(d)
        PROVE  FALSE
    <3>1. run[d].job \in Caller /\ Cache!Complete(run[d].job, run[d].out)
      BY <2>7, LoopMoves DEF Held, Publish
    <3> QED  BY <2>2, <3>1 DEF Held, NotFull
  <2>8. ASSUME NEW o \in Caller, Creates(o)
        PROVE  FALSE
    BY <2>0, <2>1, <2>8 DEF Creates, Cache!Opened
  <2>9. ASSUME \/ Aside \/ DockerMoves \/ \E o \in Caller : Quiet(o) \/ Remove(o)
               \/ \E d \in Deployment : Loop(d) \/ RootKills(d) \/ Submits(d) \/ Works(d)
        PROVE  FALSE
    BY <2>3, <2>9 DEF Aside, DockerMoves, Quiet, Remove, Loop, WorkerStops, WorkerTakes, WorkerParks,
       WorkerWakes, RootKills, Submits, Works, Moves, cacheVars
  <2> QED  BY <2>4, <2>5, <2>6, <2>7, <2>8, <2>9, Steps DEF Held
<1>2. FullOfLiveJobs <=> [][Full]_vars
  BY PTL DEF FullOfLiveJobs, Home
<1> QED  BY <1>1, <1>2, HeldInvariant, PTL DEF Spec
=============================================================================
