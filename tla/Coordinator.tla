---------------------------- MODULE Coordinator ----------------------------
(***************************************************************************)
(* The deployment coordinator of src/internal/deploy/coordinator.go for    *)
(* ordinary services: Deploy calls that share one replay cache, a bounded  *)
(* queue and a worker goroutine per configured service, request contexts   *)
(* that are cancelled or time out at any moment, the root context that     *)
(* shuts the process down, and the image update of                         *)
(* src/internal/swarm/updater.go against a Docker that loses, delays and   *)
(* refuses updates and that others change as well.                         *)
(*                                                                         *)
(* A job is named, like its operation, by the Deploy call that created it: *)
(* its context is that call's, its previous operation is prev.             *)
(* Rollout observation is abstract: it ends, fails, or is cut short.       *)
(***************************************************************************)
EXTENDS Naturals, Sequences, FiniteSets

CONSTANTS
  Caller, Token, Deployment, Digest, None, Capacity, ValidUntil, MaxClock,
  Service,         \* services as Docker knows them
  ServiceOf,       \* [Deployment -> Service]: what a configured target names
  Granted,         \* the <<token, deployment>> pairs the policy authorises
  QueueCapacity,   \* waiting jobs per worker
  RequestEnd,      \* how request contexts may end, out of canceled and deadline
  ProcessEnd,      \* how the process context may end: {} or {"canceled"}
  MaxVersion       \* bound on version changes made by others

ASSUME CoordinatorAssumption ==
  /\ IsFiniteSet(Caller)
  /\ ServiceOf \in [Deployment -> Service]
  /\ Granted \subseteq Token \X Deployment
  /\ QueueCapacity \in Nat \ {0}
  /\ RequestEnd \subseteq {"canceled", "deadline"}
  /\ ProcessEnd \subseteq {"canceled"}
  /\ MaxVersion \in Nat \ {0}

VARIABLES
  clock, entries, op, req, pc, seen, watch, reply,   \* the replay cache
  svc, wire,                                         \* Docker
  ctx,       \* the request context of each Deploy call
  root,      \* the process context
  stage,     \* how far a Deploy call is outside the replay cache
  prev,      \* the completed operation that a call's operation replaced
  dropped,   \* why a job left its queue unexecuted, until it is completed
  queue,     \* worker.queue, per deployment
  wake,      \* worker.wake holds its token
  run        \* the worker goroutine

cacheVars  == <<clock, entries, op, req, pc, seen, watch, reply>>
dockerVars == <<svc, wire>>
callVars   == <<stage, prev, dropped>>
workVars   == <<queue, wake, run>>
vars == <<cacheVars, dockerVars, ctx, root, callVars, workVars>>

Image == Digest   \* the repository is fixed by the deployment

Action == {"", "not_applied", "no_change", "updated", "rejected", "indeterminate"}

(* "settled" stands for the conclusions of a rollout that Deploy treats      *)
(* alike: completed, failed, rolled_back and superseded.                     *)
Conclusion == {"", "in_progress", "settled"}
Error == {"", "canceled", "deadline", "queue_full", "conflict", "rejected", "failed"}

(* Outcome with its error.  InspectedVersion is kept (else 0) only in an     *)
(* indeterminate outcome, the one whose version is read again.               *)
Outcome(action, conclusion, version, err) ==
  [action |-> action, conclusion |-> conclusion, version |-> version, err |-> err]
Result == [action : Action \ {""}, conclusion : Conclusion,
           version : 0 .. MaxVersion + Cardinality(Caller), err : Error]

NotApplied(err) == Outcome("not_applied", "", 0, err)

ObservationFailed(r) ==
  r.err # "" /\ r.conclusion = "" /\ r.action \in {"updated", "no_change"}

Retryable == {r \in Result : \/ r.action = "indeterminate"
                             \/ r.conclusion = "in_progress"
                             \/ ObservationFailed(r)}

Cache  == INSTANCE ReplayCache
Docker == INSTANCE SwarmService

ASSUME CacheConfigured == Cache!CacheAssumption

Idle == [at |-> "next", job |-> None, out |-> NotApplied(""), killed |-> FALSE]

Init ==
  /\ Cache!Init
  /\ Docker!DockerInit
  /\ ctx     = [c \in Caller |-> "live"]
  /\ root    = "live"
  /\ stage   = [c \in Caller |-> "arrived"]
  /\ prev    = [c \in Caller |-> None]
  /\ dropped = [c \in Caller |-> ""]
  /\ queue   = [d \in Deployment |-> <<>>]
  /\ wake    = [d \in Deployment |-> FALSE]
  /\ run     = [d \in Deployment |-> Idle]

-----------------------------------------------------------------------------
(* Contexts *)

Answered(c) == reply[c] # None \/ stage[c] = "refused"

(* The caller disconnects, or the server's request timeout expires.          *)
RequestEnds(c) ==
  /\ ctx[c] = "live"
  /\ ~Answered(c)
  /\ \E err \in RequestEnd : ctx' = [ctx EXCEPT ![c] = err]
  /\ UNCHANGED <<cacheVars, dockerVars, root, callVars, workVars>>

Shutdown ==
  /\ root = "live"
  /\ root' \in ProcessEnd
  /\ UNCHANGED <<cacheVars, dockerVars, ctx, callVars, workVars>>

-----------------------------------------------------------------------------
(* Deploy *)

Advance(c, next) == stage' = [stage EXCEPT ![c] = next]

Enter(c) ==
  /\ stage[c] = "arrived"
  /\ ctx[c] = "live" /\ root = "live"
  /\ <<req[c].token, req[c].deployment>> \in Granted
  /\ Advance(c, "authorised")
  /\ UNCHANGED <<cacheVars, dockerVars, ctx, root, prev, dropped, workVars>>

EnterRefused(c) ==
  /\ stage[c] = "arrived"
  /\ \/ ctx[c] # "live" \/ root # "live"
     \/ <<req[c].token, req[c].deployment>> \notin Granted
  /\ Advance(c, "refused")
  /\ UNCHANGED <<cacheVars, dockerVars, ctx, root, prev, dropped, workVars>>

BindStarts(c) ==
  /\ stage[c] = "authorised"
  /\ Cache!BindReadsClock(c) \/ Cache!BindInvalid(c)
  /\ UNCHANGED <<dockerVars, ctx, root, callVars, workVars>>

BindEnds(c) ==
  /\ \/ /\ Cache!BindNew(c)
        /\ Advance(c, "owner")
     \/ /\ Cache!BindReused(c) \/ Cache!BindShared(c) \/ Cache!BindFull(c)
        /\ UNCHANGED stage
  /\ UNCHANGED <<dockerVars, ctx, root, prev, dropped, workVars>>

(* Mutant: a retryable outcome is only left by replacing it.                 *)
WaitEndsUnlessRetryable(c) ==
  /\ stage[c] # "owner"
  /\ \/ Cache!WaitReturns(c) /\ ~Cache!MayReplace(c)
     \/ Cache!Abandon(c) /\ ctx[c] # "live"
  /\ UNCHANGED <<dockerVars, ctx, root, callVars, workVars>>

(* Wait with the caller's context; an owner waits once it has enqueued.      *)
WaitEnds(c) ==
  /\ stage[c] # "owner"
  /\ \/ Cache!WaitReturns(c) /\ ~(Cache!MayReplace(c) /\ ctx[c] = "live")
     \/ Cache!Abandon(c) /\ ctx[c] # "live"
  /\ UNCHANGED <<dockerVars, ctx, root, callVars, workVars>>

(* Mutant: any completed outcome is replaced, the caller's own included.     *)
ReplaceStartsForAny(c) ==
  /\ ctx[c] = "live"
  /\ pc[c] = "wait" /\ Cache!IsCompleted(c)
  /\ Cache!ValidBinding(c)
  /\ pc'   = [pc EXCEPT ![c] = "replace"]
  /\ seen' = [seen EXCEPT ![c] = clock]
  /\ UNCHANGED <<clock, entries, op, req, watch, reply,
                 dockerVars, ctx, root, callVars, workVars>>

(* The check of ctx.Err and the clock reading that follows it are one step.  *)
ReplaceStarts(c) ==
  /\ ctx[c] = "live"
  /\ Cache!ReplaceReadsClock(c) \/ Cache!ReplaceInvalid(c)
  /\ UNCHANGED <<dockerVars, ctx, root, callVars, workVars>>

ReplaceEnds(c) ==
  /\ \/ /\ Cache!ReplaceNew(c)
        /\ Advance(c, "owner")
        /\ prev' = [prev EXCEPT ![c] = watch[c]]
     \/ /\ Cache!ReplaceUnknown(c) \/ Cache!ReplaceReused(c) \/ Cache!ReplaceShared(c)
        /\ UNCHANGED <<stage, prev>>
  /\ UNCHANGED <<dockerVars, ctx, root, dropped, workVars>>

-----------------------------------------------------------------------------
(* Jobs that end without being executed *)

(* completeWithoutExecution keeps the outcome of the replaced operation.     *)
Unexecuted(c, err) ==
  IF prev[c] = None THEN NotApplied(err) ELSE [op[prev[c]].result EXCEPT !.err = err]

Live(c) == ctx[c] = "live"

(* What is left of a queue when only the wanted jobs stay, in their order:   *)
(* the n-th place of a wanted job moves to place n.                          *)
Places(jobs, wanted) == {i \in DOMAIN jobs : jobs[i] \in wanted}
Nth(places, n) == CHOOSE i \in places : Cardinality({j \in places : j <= i}) = n
Keep(jobs, wanted) ==
  LET places == Places(jobs, wanted)
  IN  [n \in 1 .. Cardinality(places) |-> jobs[Nth(places, n)]]

(* removeCancelledLocked: the queue it leaves, and the jobs it takes out.    *)
(* Their operations are completed one by one (CompleteDropped); as nothing   *)
(* else touches such a job, that this happens under the mutex is not         *)
(* visible.                                                                  *)
WaitingAll(d) == queue[d]   \* mutant: cancelled jobs stay
Waiting(d) == Keep(queue[d], {c \in Caller : Live(c)})
Cancelled(d) == {c \in Caller : (\E i \in DOMAIN queue[d] : queue[d][i] = c) /\ ~Live(c)}
Drop(jobs, err) == dropped' = [c \in Caller |-> IF c \in jobs THEN err[c] ELSE dropped[c]]

(* Mutant: the worker is not woken.                                          *)
EnqueueSilently(c) ==
  LET d == req[c].deployment
  IN  /\ stage[c] = "owner"
      /\ Live(c) /\ root = "live"
      /\ Len(Waiting(d)) < QueueCapacity
      /\ Drop(Cancelled(d), ctx)
      /\ queue' = [queue EXCEPT ![d] = Append(Waiting(d), c)]
      /\ Advance(c, "enqueued")
      /\ UNCHANGED <<cacheVars, dockerVars, ctx, root, prev, wake, run>>

Enqueue(c) ==
  LET d == req[c].deployment
  IN  /\ stage[c] = "owner"
      /\ Live(c) /\ root = "live" /\ run[d].at # "stopped"
      /\ Drop(Cancelled(d), ctx)
      /\ \/ /\ Len(Waiting(d)) < QueueCapacity
            /\ queue' = [queue EXCEPT ![d] = Append(Waiting(d), c)]
            /\ wake' = [wake EXCEPT ![d] = TRUE]
            /\ UNCHANGED cacheVars
         \/ /\ Len(Waiting(d)) = QueueCapacity
            /\ queue' = [queue EXCEPT ![d] = Waiting(d)]
            /\ Cache!Complete(c, Unexecuted(c, "queue_full"))
            /\ UNCHANGED wake
      /\ Advance(c, "enqueued")
      /\ UNCHANGED <<dockerVars, ctx, root, prev, run>>

EnqueueRefused(c) ==
  /\ stage[c] = "owner"
  /\ ~Live(c) \/ root # "live"
  /\ Cache!Complete(c, Unexecuted(c, IF ~Live(c) THEN ctx[c] ELSE root))
  /\ Advance(c, "enqueued")
  /\ UNCHANGED <<dockerVars, ctx, root, prev, dropped, workVars>>

(* Mutant: a removal completes its job without looking for it in the queue.  *)
RemoveAnyway(c) ==
  LET d == req[c].deployment
  IN  /\ ~Live(c) /\ stage[c] = "enqueued" /\ Cache!Exists(c) /\ dropped[c] = ""
      /\ queue' = [queue EXCEPT ![d] = Keep(@, Caller \ {c})]
      /\ Drop({c}, ctx)
      /\ UNCHANGED <<cacheVars, dockerVars, ctx, root, stage, prev, wake, run>>

(* Mutant: a removed job is not completed.                                   *)
RemoveSilently(c) ==
  LET d == req[c].deployment
  IN  /\ c \in Cancelled(d)
      /\ queue' = [queue EXCEPT ![d] = Keep(@, Caller \ {c})]
      /\ UNCHANGED <<cacheVars, dockerVars, ctx, root, callVars, wake, run>>

(* The AfterFunc of a queued job's context: worker.remove.                   *)
Remove(c) ==
  LET d == req[c].deployment
  IN  /\ c \in Cancelled(d)
      /\ queue' = [queue EXCEPT ![d] = Keep(@, Caller \ {c})]
      /\ Drop({c}, ctx)
      /\ UNCHANGED <<cacheVars, dockerVars, ctx, root, stage, prev, wake, run>>

CompleteDropped(c) ==
  /\ dropped[c] # ""
  /\ Cache!Complete(c, Unexecuted(c, dropped[c]))
  /\ dropped' = [dropped EXCEPT ![c] = ""]
  /\ UNCHANGED <<dockerVars, ctx, root, stage, prev, workVars>>

-----------------------------------------------------------------------------
(* The worker: next and runWorker *)

Goto(d, at) == run' = [run EXCEPT ![d].at = at]

(* Mutant: the worker discards its queue without completing the jobs in it.  *)
WorkerStopsSilently(d) ==
  /\ run[d].at = "next"
  /\ root # "live"
  /\ Goto(d, "stopped")
  /\ queue' = [queue EXCEPT ![d] = <<>>]
  /\ UNCHANGED <<cacheVars, dockerVars, ctx, root, callVars, wake>>

WorkerStops(d) ==
  /\ run[d].at = "next"
  /\ root # "live"
  /\ Goto(d, "stopped")
  /\ queue' = [queue EXCEPT ![d] = <<>>]
  /\ Drop({queue[d][i] : i \in DOMAIN queue[d]}, [c \in Caller |-> root])
  /\ UNCHANGED <<cacheVars, dockerVars, ctx, root, stage, prev, wake>>

WorkerTakes(d) ==
  /\ run[d].at = "next"
  /\ root = "live"
  /\ queue[d] # <<>>
  /\ run' = [run EXCEPT ![d] = [Idle EXCEPT !.at = "start", !.job = Head(queue[d])]]
  /\ queue' = [queue EXCEPT ![d] = Tail(@)]
  /\ UNCHANGED <<cacheVars, dockerVars, ctx, root, callVars, wake>>

WorkerParks(d) ==
  /\ run[d].at = "next"
  /\ root = "live"
  /\ queue[d] = <<>>
  /\ Goto(d, "parked")
  /\ UNCHANGED <<cacheVars, dockerVars, ctx, root, callVars, queue, wake>>

WorkerWakes(d) ==
  /\ run[d].at = "parked"
  /\ \/ root # "live" /\ UNCHANGED wake
     \/ wake[d] /\ wake' = [wake EXCEPT ![d] = FALSE]
  /\ Goto(d, "next")
  /\ UNCHANGED <<cacheVars, dockerVars, ctx, root, callVars, queue>>

(* The execution context: ended with the job's, or by the root's AfterFunc.  *)
Ended(d) == run[d].killed \/ ~Live(run[d].job)
EndError(d) == IF run[d].killed THEN "canceled" ELSE ctx[run[d].job]

RootKills(d) ==
  /\ root # "live"
  /\ run[d].job # None
  /\ ~Ended(d)
  /\ run' = [run EXCEPT ![d].killed = TRUE]
  /\ UNCHANGED <<cacheVars, dockerVars, ctx, root, callVars, queue, wake>>

(* The job's outcome is known: what is left is to complete its operation.    *)
Yield(d, out) == run' = [run EXCEPT ![d].at = "publish", ![d].out = out]

Previous(d) == op[prev[run[d].job]].result
Retrying(d) == prev[run[d].job] # None /\ Previous(d).action = "indeterminate"
Resuming(d) == prev[run[d].job] # None /\ Previous(d).action # "indeterminate"

(* Mutant: the outcome to resume from is ignored.                            *)
StartAfresh(d) ==
  /\ run[d].at = "start"
  /\ Live(run[d].job) /\ root = "live"
  /\ Goto(d, "inspect")
  /\ UNCHANGED <<cacheVars, dockerVars, ctx, root, callVars, queue, wake>>

(* runWorker derives the context, and execute branches on it and on the job. *)
Start(d) ==
  LET j == run[d].job
      killed == root # "live" /\ Live(j)
  IN  /\ run[d].at = "start"
      /\ run' = [run EXCEPT ![d] =
           CASE ~Live(j) -> [@ EXCEPT !.at = "publish", !.out = NotApplied(ctx[j])]
             [] killed   -> [@ EXCEPT !.at = "publish", !.out = NotApplied("canceled"), !.killed = TRUE]
             [] Live(j) /\ ~killed /\ Resuming(d) ->
                  [@ EXCEPT !.at = "observe", !.out = [Previous(d) EXCEPT !.err = ""]]
             [] OTHER    -> [@ EXCEPT !.at = "inspect"]]
      /\ UNCHANGED <<cacheVars, dockerVars, ctx, root, callVars, queue, wake>>

Publish(d) ==
  /\ run[d].at = "publish"
  /\ Cache!Complete(run[d].job, run[d].out)
  /\ run' = [run EXCEPT ![d] = Idle]
  /\ UNCHANGED <<dockerVars, ctx, root, callVars, queue, wake>>
-----------------------------------------------------------------------------
(* The worker: execute, with the updater's apply and the rollout observation *)

Job(d)     == run[d].job
Target(d)  == svc[ServiceOf[d]]
Desired(d) == req[Job(d)].digest
Observing(d, out) == run' = [run EXCEPT ![d].at = "observe", ![d].out = out]
InspectedVersion(d) == run[d].out.version

WorkerOnly == UNCHANGED <<cacheVars, dockerVars, ctx, root, callVars, queue, wake>>

(* Mutant: the context's error is reported whether or not it has ended.      *)
InspectFailsWithContext(d) ==
  /\ run[d].at = "inspect"
  /\ Yield(d, NotApplied(ctx[Job(d)]))
  /\ WorkerOnly

(* Apply or Retry inspects the service; a Docker call made with an ended     *)
(* context fails, and it may fail for reasons of its own before that.        *)
InspectFails(d) ==
  /\ run[d].at = "inspect"
  /\ Yield(d, NotApplied(IF Ended(d) THEN EndError(d) ELSE "failed"))
  /\ WorkerOnly

InspectFindsDesired(d) ==
  /\ run[d].at = "inspect" /\ ~Ended(d)
  /\ Target(d).image = Desired(d)
  /\ Observing(d, Outcome("no_change", "", 0, ""))
  /\ WorkerOnly

MayUpdateAlways(d) == TRUE   \* mutant: retries ignore the version

(* A retry submits only on the version inspected before the first attempt.   *)
MayUpdate(d) == Retrying(d) => Target(d).version = Previous(d).version

InspectFindsConflict(d) ==
  /\ run[d].at = "inspect" /\ ~Ended(d)
  /\ Target(d).image # Desired(d)
  /\ ~MayUpdate(d)
  /\ Yield(d, Outcome("not_applied", "settled", 0, "conflict"))
  /\ WorkerOnly

InspectFindsOther(d) ==
  /\ run[d].at = "inspect" /\ ~Ended(d)
  /\ Target(d).image # Desired(d)
  /\ MayUpdate(d)
  /\ run' = [run EXCEPT ![d].at = "update", ![d].out.version = Target(d).version]
  /\ WorkerOnly

Update(d) ==
  /\ run[d].at = "update" /\ ~Ended(d)
  /\ Docker!Submit(Job(d), ServiceOf[d], InspectedVersion(d), Desired(d))
  /\ Goto(d, "reply")
  /\ UNCHANGED <<cacheVars, ctx, root, callVars, queue, wake>>

(* Docker's answer arrives.                                                  *)
UpdateAnswered(d) ==
  /\ run[d].at = "reply"
  /\ \/ /\ wire[Job(d)].state = "accepted"
        /\ Observing(d, Outcome("updated", "", 0, ""))
     \/ /\ wire[Job(d)].state = "conflict"
        /\ Yield(d, Outcome("not_applied", "settled", 0, "conflict"))
     \/ /\ wire[Job(d)].state = "rejected"
        /\ Yield(d, Outcome("rejected", "", 0, "rejected"))
  /\ WorkerOnly

(* Mutant: an update without an answer is reported as not made.              *)
UpdateFailsAsNotApplied(d) ==
  /\ run[d].at \in {"update", "reply"}
  /\ Yield(d, NotApplied(IF Ended(d) THEN EndError(d) ELSE "failed"))
  /\ WorkerOnly

(* No answer: the context ended, before or after the update went out, or the *)
(* transport or Docker failed without saying what became of the update.      *)
UpdateFails(d) ==
  /\ run[d].at \in {"update", "reply"}
  /\ run' = [run EXCEPT
       ![d].at = "reinspect",
       ![d].out = Outcome("indeterminate", "", InspectedVersion(d),
                          IF Ended(d) THEN EndError(d) ELSE "failed")]
  /\ WorkerOnly

(* The coordinator inspects once more to find out about a lost answer.       *)
ReinspectFindsDesired(d) ==
  /\ run[d].at = "reinspect" /\ ~Ended(d)
  /\ Target(d).image = Desired(d)
  /\ Observing(d, Outcome("updated", "", 0, ""))
  /\ WorkerOnly

(* It fails, or finds another image: errors.Join reports an ended context    *)
(* before the transport failure.                                             *)
ReinspectInconclusive(d) ==
  /\ run[d].at = "reinspect"
  /\ \/ /\ ~Ended(d)
        /\ Yield(d, run[d].out)
     \/ /\ Ended(d)
        /\ Yield(d, [run[d].out EXCEPT !.err = EndError(d)])
  /\ WorkerOnly

ObserveSettles(d) ==
  /\ run[d].at = "observe" /\ ~Ended(d)
  /\ Yield(d, [run[d].out EXCEPT !.conclusion = "settled"])
  /\ WorkerOnly

ObserveFails(d) ==
  /\ run[d].at = "observe" /\ ~Ended(d)
  /\ Yield(d, [run[d].out EXCEPT !.err = "failed"])
  /\ WorkerOnly

ObserveEnds(d) ==
  /\ run[d].at = "observe" /\ Ended(d)
  /\ Yield(d, [run[d].out EXCEPT !.conclusion = "in_progress"])
  /\ WorkerOnly

-----------------------------------------------------------------------------

Call(c) ==
  \/ Enter(c) \/ EnterRefused(c)
  \/ BindStarts(c) \/ BindEnds(c)
  \/ Enqueue(c) \/ EnqueueRefused(c)
  \/ WaitEnds(c)
  \/ ReplaceStarts(c) \/ ReplaceEnds(c)

Loop(d) == WorkerStops(d) \/ WorkerTakes(d) \/ WorkerParks(d) \/ WorkerWakes(d)

(* Docker's part of a job, which may take any time while the context lives.  *)
Execute(d) ==
  \/ InspectFails(d) \/ InspectFindsDesired(d) \/ InspectFindsConflict(d) \/ InspectFindsOther(d)
  \/ UpdateAnswered(d) \/ UpdateFails(d)
  \/ ReinspectFindsDesired(d) \/ ReinspectInconclusive(d)
  \/ ObserveSettles(d) \/ ObserveFails(d) \/ ObserveEnds(d)

Tick ==
  /\ Cache!Tick
  /\ UNCHANGED <<dockerVars, ctx, root, callVars, workVars>>

DockerMoves ==
  /\ Docker!DockerNext
  /\ UNCHANGED <<cacheVars, ctx, root, callVars, workVars>>

Next ==
  \/ Tick
  \/ DockerMoves
  \/ Shutdown
  \/ \E c \in Caller : RequestEnds(c) \/ Call(c) \/ Remove(c) \/ CompleteDropped(c)
  \/ \E d \in Deployment :
       Loop(d) \/ Start(d) \/ Update(d) \/ Execute(d) \/ Publish(d) \/ RootKills(d)

Spec == Init /\ [][Next]_vars

(* Goroutines that can run do run: calls, workers and the AfterFuncs of the  *)
(* contexts.  The server's request timeout ends a request that does not get  *)
(* on.  Docker promises nothing, except that a call made for an ended        *)
(* context returns.                                                          *)
Fairness ==
  /\ \A c \in Caller :
       /\ WF_vars(Call(c) \/ RequestEnds(c))
       /\ WF_vars(Remove(c) \/ CompleteDropped(c))
  /\ \A d \in Deployment :
       WF_vars(\/ Loop(d) \/ Start(d) \/ Update(d) \/ Publish(d) \/ RootKills(d)
               \/ run[d].job # None /\ Ended(d) /\ Execute(d))

FairSpec == Spec /\ Fairness

-----------------------------------------------------------------------------
(* Properties *)

TypeOK ==
  /\ \A c \in Caller : op[c].state = "done" => op[c].result \in Result
  /\ svc     \in [Service -> [version : 1 .. MaxVersion + Cardinality(Caller), image : Image]]
  /\ \A c \in Caller : wire[c] = Docker!Unsent \/ wire[c].state \in Docker!Fate
  /\ ctx     \in [Caller -> {"live", "canceled", "deadline"}]
  /\ root    \in {"live", "canceled"}
  /\ stage   \in [Caller -> {"arrived", "refused", "authorised", "owner", "enqueued"}]
  /\ prev    \in [Caller -> Caller \cup {None}]
  /\ dropped \in [Caller -> {"", "canceled", "deadline"}]
  /\ queue   \in [Deployment -> Seq(Caller)]
  /\ wake    \in [Deployment -> BOOLEAN]
  /\ \A d \in Deployment :
       /\ run[d].at \in {"next", "parked", "start", "inspect", "update", "reply",
                         "reinspect", "observe", "publish", "stopped"}
       /\ run[d].job \in Caller \cup {None}
       /\ run[d].out \in Result
       /\ run[d].killed \in BOOLEAN

Open(c) == op[c].state = "open"
Queued(c) == {p \in Deployment \X (1 .. QueueCapacity) :
                p[2] \in DOMAIN queue[p[1]] /\ queue[p[1]][p[2]] = c}

(* Every unfinished operation is in exactly one pair of hands, and nobody    *)
(* holds a finished one: its caller about to enqueue it, one place of one    *)
(* queue, a removal, or a worker.  So no job is lost, executed twice, or     *)
(* completed by two of the paths that may end it, however removal, the       *)
(* worker, a full queue and shutdown race.                                   *)
ExactlyOneHolder ==
  \A c \in Caller :
    Cardinality(Queued(c))
      + Cardinality({d \in Deployment : run[d].job = c})
      + (IF stage[c] = "owner" THEN 1 ELSE 0)
      + (IF dropped[c] # "" THEN 1 ELSE 0)
    = IF Open(c) THEN 1 ELSE 0

(* A worker that waits while jobs are queued has a wake token to find, or    *)
(* the process is ending: no enqueue is ever lost on a sleeping worker.      *)
NoLostWakeup ==
  \A d \in Deployment :
    run[d].at = "parked" /\ queue[d] # <<>> => wake[d] \/ root # "live"

(* ErrQueueFull is returned only when QueueCapacity jobs whose requests are  *)
(* still alive wait in that queue: cancelled jobs never take up a place.     *)
FullOfLiveJobs ==
  [][\A c \in Caller :
       Open(c) /\ op'[c].state = "done" /\ op'[c].result.err = "queue_full" =>
         Cardinality({i \in DOMAIN queue[req[c].deployment] :
                        Live(queue[req[c].deployment][i])}) = QueueCapacity]_vars

Accepted(c) == wire[c].state = "accepted"

(* While a token can still pass time validation Docker takes at most one     *)
(* update made in its name, across retries, lost answers, late deliveries    *)
(* and changes by others.                                                    *)
OneUpdatePerToken ==
  \A c, d \in Caller :
    /\ Accepted(c) /\ Accepted(d)
    /\ req[c].token = req[d].token
    /\ Cache!Current(req[c].token)
    => c = d

(* What an operation's recorded action says of its own update is true, and   *)
(* stays true: whatever is neither updated nor indeterminate was not taken   *)
(* by Docker and never will be, and no change means nothing was sent.        *)
RecordedActionIsTrue ==
  \A c \in Caller :
    op[c].state = "done" =>
      LET action == op[c].result.action
      IN  /\ action \in {"not_applied", "rejected"} => wire[c].state \notin {"sent", "accepted"}
          /\ action = "no_change" => wire[c] = Docker!Unsent

(* An operation that reuses an established update (a retry that resumes      *)
(* observation) never submits another one.                                   *)
ResumeNeverSubmits ==
  \A c \in Caller :
    prev[c] # None /\ op[prev[c]].result.action # "indeterminate" => wire[c] = Docker!Unsent

(* The coordinator uses the replay cache as ReplayCache.tla describes: all   *)
(* that holds of the cache's callers holds of Deploy.                        *)
ImplementsReplayCache == Cache!Spec

(* The updates Docker has taken in the name of a current token.              *)
TakenFor(t) ==
  {[by |-> c, service |-> wire[c].service, image |-> wire[c].image] :
     c \in {c \in Caller : Accepted(c) /\ req[c].token = t /\ Cache!Current(t)}}

Promised == INSTANCE Promise
  WITH valid    <- {t \in Token : Cache!Current(t)},
       bound    <- [t \in Token |-> Cache!Bound(t)],
       recorded <- [t \in Token |-> Cache!Recorded(t)],
       answer   <- reply,
       taken    <- [t \in Token |-> TakenFor(t)]

(* The coordinator keeps what Promise.tla says: across retries, resumed      *)
(* observations, lost and late answers and changes by others, Docker takes   *)
(* the one update of a token before its selection is recorded or never, and  *)
(* a later outcome of the token repeats a recorded selection or says that    *)
(* its attempt did nothing.                                                  *)
KeepsPromise == Promised!PromiseSpec

(* Every operation is completed in the end, so that no exact retry waits for *)
(* an answer nobody will give: by the worker, a removal or the shutdown.     *)
OperationsComplete == \A c \in Caller : Open(c) ~> op[c].state = "done"

(* Every authorised request is answered, however long Docker takes.          *)
RequestsAnswered == \A c \in Caller : (stage[c] = "authorised") ~> Answered(c)

(* Once shutdown begins every worker stops for good, with an empty queue and *)
(* every operation completed.                                                *)
ShutdownDrains ==
  root # "live" ~>
    [](/\ \A d \in Deployment : run[d].at = "stopped" /\ queue[d] = <<>>
       /\ \A c \in Caller : ~Open(c))

-----------------------------------------------------------------------------
(* What the documents say, where the code does otherwise *)

(* The worker has established that Docker selected the image c asked for.    *)
Selected(c) ==
  \E d \in Deployment :
    /\ run[d].job = watch[c]
    /\ run[d].at = "observe" \/ run[d].out.conclusion = "in_progress"
    /\ run[d].out.action \in {"updated", "no_change"}

(* docs/http-api.md:47: if the timeout expires after Swarrow has confirmed   *)
(* that Docker selected the requested image, the response is an outcome (202 *)
(* with an in_progress conclusion), not a bare timeout error.                *)
TimeoutAfterSelection ==
  \A c \in Caller :
    [](pc[c] = "wait" /\ Live(c) /\ Selected(c) =>
         [](ctx[c] = "deadline" => reply[c] # Cache!Failed("abandoned")))

(* docs/http-api.md:108: 408 means that the caller cancelled the request (or *)
(* that the process was stopping), not that another caller did.              *)
CancelledByCaller ==
  \A c \in Caller :
    reply[c] # None /\ reply[c].result # None =>
      (reply[c].result.err = "canceled" => ctx[c] = "canceled" \/ root = "canceled")

(* docs/design.md:70: a retry of an indeterminate submission observes the    *)
(* accepted update or returns indeterminate.  So a retry whose own request   *)
(* is alive never records not_applied when Docker has taken the update.      *)
RetryKeepsAcceptedUpdate ==
  [][\A c \in Caller :
       Open(c) /\ Live(c) /\ op'[c].state = "done" /\ prev[c] # None =>
         (op[prev[c]].result.action = "indeterminate" /\ Accepted(prev[c]) =>
            op'[c].result.action # "not_applied")]_vars
=============================================================================
