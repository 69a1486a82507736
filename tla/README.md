# A TLA+ model of swarrow

swarrow lets a GitHub Actions workflow set one configured Docker Swarm service
to an immutable image digest. It authenticates the workflow's OIDC token, binds
the token to one request, updates the service at most once in its name and
watches the rollout. These modules model the program from the HTTP handler down
to the Docker calls; TLC checks them on small instances, and TLAPS proves every
safety property of the passing runs for every value of the constants.

## The system and what is modelled

| Part (under `src/`) | State | Operations | Interacts with | Module |
| --- | --- | --- | --- | --- |
| Replay cache, `internal/replay/cache.go` | map token → operation, clock | `Bind`, `ReplaceCompleted`, `Complete`, `Wait` | called by every `Deploy` goroutine | `ReplayCache`; its promise `TokenBinding` |
| Coordinator, `internal/deploy/coordinator.go` | per-service queue, wake channel, worker goroutine, jobs and their contexts | `Deploy`, `enqueue`, `remove`, `next`, `runWorker`, `execute`, `executeJob`, `observe` | cache, updater, observer, job runner; `AfterFunc` callbacks of contexts | `Coordinator`; its promise `Promise`; `executeJob` in `Jobs` |
| Updater, `internal/swarm/updater.go` | none of its own; Docker's service version and image | `Apply`, `Retry`, `Inspect` | called by a worker; Docker loses, delays and refuses | `Coordinator`, `SwarmService` |
| Observer, `internal/swarm/observer.go` | identity of the rollout it follows, failures seen | `Observe` and its poll | three Docker calls a poll, for a worker | `Observer`, `SwarmRollout`, `Following` |
| Job runner, `internal/swarm/jobs.go` | job iteration it follows | `Run`, `Retry`, `Observe` | Docker, for a worker | `Jobs`, `SwarmJob`, `Following` |
| Verifier, `internal/githuboidc/verifier.go` | start time of the process | `Verify`, `ConservativeReadyAt` | called by the handler before `Deploy` | `Verifier` |
| Policy and configuration, `internal/policy`, `internal/config` | immutable | `New`, `Authorise`, `Validate` | called by `Deploy` | `Policy` |
| HTTP API, `internal/httpapi/handler.go` | request context, body, status | `deployment` | verifier, coordinator | `Handler`; `Retry-After` in `Verifier` |
| Server, `internal/server/server.go` | process context, two goroutines | `Run`, `serve`, the readiness log | `http.Server`, handlers | `Server` |
| Command line | none | flag wiring | - | not modelled |

What makes the parts correct:

- *Cache*: while a token can pass time validation it is bound to one request and
  has one open operation; records last until expiry; capacity means live records.
- *Coordinator*: every operation is completed exactly once, whichever of
  removal, sweep, drain and execution gets to it; no wakeup is lost; a full
  queue is full of live requests; everybody is answered; shutdown leaves
  nothing behind.
- *Updater*: Docker takes at most one update per token, and what is recorded
  about an update is true.
- *A token as a whole*: it stands for one request; over any chain of attempts
  the image is selected once, by one update or by none, and later outcomes
  repeat that selection or say that an attempt did nothing.
- *Observer and job runner*: over all retries a token speaks of one rollout (or
  one job execution); a success was true; a running job is never interrupted.
- *Verifier*: forgetting the cache in a restart opens no window for replay, and
  the advice given to callers during warm-up holds.
- *Handler, policy, server*: only configured workflows are served; no request is
  blamed for the end of its context; `Run` returns, with nothing left running.

The hard behaviours are listed with their lines under `hazards` in
`PROJECT.json`: clock values read before a mutex is taken, racing retries,
callbacks that race the worker for a job, answers lost between Swarrow and
Docker, three-call snapshots of a service that goes on changing, contexts that
end at any instant, and restarts in the middle of a second.

## Modules

`ReplayCache` — the cache and the calls that use it. One *caller* is one call of
`Coordinator.Deploy`; it creates at most one operation, which bears its name.
`Bind` and `ReplaceCompleted` read `cache.now()` before they lock the mutex, so
each is two steps: `BindReadsClock` (or `BindInvalid`), then one of
`BindReused`, `BindShared`, `BindFull`, `BindNew`, which use the clock value in
`seen[c]`; the same for `Replace...`. Each of the second steps begins with the
purge `Retained(seen[c])`, as the code does. `Wait` is `WaitReturns` or
`Abandon`, which is possible only while the operation is unfinished, because
`Wait` looks at `done` again after `ctx.Done()`.

`TokenBinding` — what the cache promises, without maps, mutexes and waiting
callers: a valid token stands for the first request made with it (`Binds`),
results are recorded of that request until one is final (`Records`), calls are
answered with what fits this record (`Answers`), and expiry gives it all up
(`Expires`). `ReplayCache` implements it under the mapping `Binding`: a token
stands for the request of its entry, and its record is the set of the results of
all operations completed for it. Operations, owners and clock readings have no
counterpart; purges, replacements and waiting are stutters.

`SwarmService` — Docker as the updater uses it (external code): an update names
the version it was computed from, is taken only if that version is current, may
be taken late or never, and others change the service.

`Coordinator` — composes the two by `INSTANCE`. Its own state is the request
contexts `ctx`, the process context `root`, the stage of each call, and per
deployment the worker's `queue`, `wake` and position `run`. The actions follow
the goroutines:

| Code | Actions |
| --- | --- |
| `Deploy` | `Enter`, `EnterRefused`, `BindStarts`, `BindEnds`, `WaitEnds`, `ReplaceStarts`, `ReplaceEnds` |
| `Coordinator.enqueue`, `worker.enqueue`, `removeCancelledLocked` | `Enqueue` (one mutex section, sweep included), `EnqueueRefused` |
| `AfterFunc` → `worker.remove`, `completeWithoutExecution` | `Remove`, `CompleteDropped` |
| `worker.next` | `WorkerTakes`, `WorkerParks`, `WorkerWakes`, `WorkerStops` |
| `runWorker`, `execute` | `Start`, `RootKills`, `Publish` |
| `Updater.apply`, `Retry` | `InspectFails`, `InspectFindsDesired`, `InspectFindsConflict`, `InspectFindsOther`, `Update`, `UpdateAnswered`, `UpdateFails` |
| the second inspection in `execute` | `ReinspectFindsDesired`, `ReinspectInconclusive` |
| `Coordinator.observe` | `ObserveSettles`, `ObserveFails`, `ObserveEnds` |

`dropped[c]` holds the reason of a job that has left its queue and whose
operation is still to be completed: `remove` and the draining worker complete it
after they unlocked. The sweep completes its jobs under the mutex; the model
lets these completions happen later, which nothing can tell apart, as no other
code can reach such a job. In the server the request contexts are children of
the process context; the model lets them end independently, which includes that.
A retry that cannot replace its operation (`unknown`, `invalid`) gives back the
outcome it read with an error; the reply keeps the error only. The policy's
verdict is the constant `Granted`; `Policy` and `Handler` say what it is.

`Promise` — what the coordinator promises of a deployment request. It extends
`TokenBinding` by the updates Docker has taken in a valid token's name (`Takes`:
for the bound request, no second one, and none once the record says how the
image came to be selected) and by what a further result may say
(`RecordsOutcome`: the same selection, or that an attempt did nothing).
`Coordinator` implements it under the mapping `Promised`, in which the record is
the cache's and `TakenFor(t)` are the accepted updates of the token's
operations; queues, workers and contexts have no counterpart.

`SwarmRollout` — the rollout of an ordinary service as `ServiceInspect` and
`TaskList` show it (external): each change of the service advances its version,
an update takes the rollout status away, a new one appears only if a task has to
move, a rollout may pause or be rolled back, and operators do all of this too.
Rollouts are counted; the count is the time that status and tasks carry.

`Observer` — one request and all the retries of its token. `Begin` starts an
observation from the recorded outcome `out`; a poll is `Inspect`, `List` and one
of `PollsAgain` (the version moved), `FindsReplaced`, `Concludes`,
`KeepsPolling`; `Fails` and `Ends` may come at any of its calls. `obs.id` is
`RolloutVersion` or `RolloutStartedAt`, with the kind it is. `Verdict` is
`conclude`.

`SwarmJob` — a replicated job with one completion (external): every update is an
execution with its own iteration; tasks end, are forgotten, or get a second one
in the place of one whose node is lost; others update the job, or remove it and
create it anew under its name.

`Jobs` — `jobs.go` with `executeJob`, again for one token and all its retries.
`work` is the execution by the worker: `InspectFinds...`, `ListTasks` and
`Confirm...` are `Run` and `Retry` up to the update, `Update...` the call with
its answer or none, and `Poll...`, `ListTasks`, `Confirm...`, `PollsOn`,
`Concludes` and `ObserveFails` are `observe` and `snapshot`. `late` holds the
unanswered updates that Docker may take yet.

`Following` — what observer and job runner promise alike: which execution a
token speaks of is settled once, no retry turns to another, and a verdict is
final. Both are shown to implement it under a refinement mapping.

`Verifier` — the time checks and the restart cutoff, over several processes.
Clocks run in ticks, `Second` ticks to a second, because the cutoff is about the
rounding of claims to seconds. GitHub's clock is off by a constant within the
skew. `advice` remembers the earliest moment at which a refused caller was told
to come back.

`Policy` — `Validate`'s rules across deployments, `policy.New` and `Authorise`
as operators on a configuration. `scope` stands for repository and environment,
which are compared alike.

`Handler` — the deployment handler: `Receive` (method, token), `Verify...`,
`Decode...`, `Deploy...`, the status, `Audit`; meanwhile `RequestEnds` and the
`AfterFunc` that closes the body (`BodyCloses`). `fault` records whether the
request was refused for something of its own. Contexts are asked where the code
asks them. `DeployDenied` looks at the context once; between the handler's last
look and the policy's answer the code has no further one.

`Server` — extends `Handler` with `serve`, its shutdown goroutine, the graceful
`Shutdown` with its time limit, the readiness log and the end of `Run`.

`MC...` modules give the constants their values. Operators commented as mutants
are faulty variants of a definition, one for each property, that show that the
property notices the fault; no specification uses them. Proofs are in
`...Proofs`, `CoordinatorSteps` and `CoordinatorUpdates`.

## What TLC checks

| Run | Shows | Bounds |
| --- | --- | --- |
| `replay_cache` | `Inv` (with `SharesOwnRequest` and `CapacityBound` in it), `OneRequestPerToken`, `OneOpenOperation`, `ReuseIsReal`, `KeptUntilExpiry`, `FullOfLiveRecords`; `KeepsBinding`: the cache refines `TokenBinding` | 4 calls, 3 tokens, capacity 2, clock to 2, a final result and a retryable one |
| `coordinator_retries` | `TypeOK`, `RecordedActionIsTrue`, `OneUpdatePerToken`, `ResumeNeverSubmits`; `KeepsPromise`: the coordinator refines `Promise` | 3 calls with 1 token that may expire, 2 images, versions to 3 |
| `coordinator_progress` | `ExactlyOneHolder`, `NoLostWakeup`, `FullOfLiveJobs`; `OperationsComplete`, `RequestsAnswered`, `ShutdownDrains`; `ImplementsReplayCache`: `Deploy` uses the cache as `ReplayCache!Spec` says | 2 calls, 2 tokens, queue of 1, deadlines, shutdown |
| `verifier_restart` | `Inv`, `AcceptedByOneProcess`, `ReadyMeansReady`, `AdviceHolds` | 3 processes, 2 tokens, 2 ticks a second, skew 1 second |
| `observer` | `TypeOK`, `CompletedIsTrue`, `ResumedVerdictIsOfSameRollout`, `SupersededHasCause`, `FailuresAreNotTheSuccessors`, `FollowsOneRollout` (refines `Following`), `EndIsNoticed` | 3 specs with 2 images, versions to 4 by operators, 1 failed task |
| `jobs` | `TypeOK`, `NeverInterrupts`, `JobUpdatedOnce`, `SuccessIsReal`, `AdoptedIsOurs`, `FollowsOneExecution` (refines `Following`) | 2 images, versions to 4 by others |
| `server` | `NotBlamedForContext`, `AuthorisedAsConfigured`, `NothingOutlivesRun`, `RunEnds` | 1 request of 6 kinds, all configurations of 2 deployments |

Why the bounds suffice. Four calls on one token are what it takes for a retry to
read its clock, lose its record to a purge by another token's call, and find the
token bound again by a stale binding (`ReplaceReused`); three tokens of which two
stay valid fill a cache of two. Three calls make a chain of an attempt, its
retry, and a retry that resumes the retry; with versions to 3 others can undo an
accepted update, the case in which only the version check of `Retry` stands
between a retry and a second update. That run leaves request deadlines out: a
Docker call may fail at any point anyway, which is all that a deadline does to
an update; the other coordinator runs have them. For `KeepsPromise` it
means that TLC sees no retry that ends before it is executed; the theorem has
that and longer chains too. A queue of one is full with one job and has one job to sweep; two
calls with a token each are a job in the queue, cancelled or not, and one that
comes to it. A token is granted or not, a service has one worker,
and workers share nothing but the cache, so one deployment is enough. Three
processes are two restarts, and a tick of half a second puts restarts and issue
times into the same and into neighbouring seconds. With versions to 4 an
operator can replace the rollout, by one with the same image or another, and roll
back, before, in and after an observation (the orchestrator's own changes are
not bounded: there are finitely many of them); a job can be updated by others, updated by
Swarrow and updated again. Handlers share nothing, so one request is enough, and
two deployments make a name or a service ambiguous. `MaxClock`, `MaxHost`,
`MaxStarts`, `MaxVersion` and `MaxFailed` bound the clocks, the restarts, the
changes others make and the tasks Docker remembers. A constant number of calls
ends every behaviour, so deadlock is not checked; that nobody is left waiting is
what the liveness properties say.

Fairness. In `Coordinator`, goroutines and context callbacks that can run do
run, and the request timeout of the HTTP handler ends every request that does
not get on; Docker promises nothing: a worker's Docker call is only fair once its
context has ended. `Observer` assumes that polls go on (`WF_vars(Poll)`): Docker
answers and the poll timer fires; `EndIsNoticed` speaks of a service that has
settled. In `Server` its own goroutines run and its timers fire; handlers may
hang for ever. Symmetry is used in safety runs only.

### Where the documents say otherwise

| Run | The code | The document |
| --- | --- | --- |
| `timeout_after_selection` | the owner's `Wait` and its job share the request context; the deadline is answered with a bare 504 although the image is selected | `docs/http-api.md:47` promises 202 with `in_progress` |
| `shared_cancellation` | cancelling the owner before its job runs completes the shared operation with `context.Canceled`; a live exact retry is answered 408 | `docs/http-api.md:108`: the caller cancelled the request |
| `retry_forgets_update` | the retry of an indeterminate update records `not_applied` when its inspection fails, over an update that Docker took | `docs/design.md:70`: it observes the update or returns `indeterminate` |
| `identity_lost` | an observation that named its rollout and then failed returns an empty `Observation`, so the retry starts without an identity | `docs/design.md:70`: the retry continues from any rollout identity already established |
| `rolled_back_found` | `conclude` looks at rollback states before it compares images, and an observation without identity adopts the status the service shows: an update to another image was rolled back and the rollback is complete, then a request finds its image in place and is told `rolled_back`, with no change to the service in between | `docs/design.md:46`: it observes an active rollout for that image, or reports that no change was required |

Three qualifications belong to the properties themselves.

- A binding read before the expiry of its token can be made after it (the clock
  is read before the mutex), so everything said about a token holds while
  `now < ValidUntil`. This is harmless for the server, where the verifier refuses
  the token from that instant on.
- The job runner recognises the execution its update started by the previous
  spec. If, after the update, others bring the earlier spec back and start a new
  execution from it, that one looks the same; `undone` records this history and
  `AdoptedIsOurs` excludes it. Docker gives the code nothing better to compare.
- `KeepsPromise` lets a later outcome say that its attempt did nothing, as the
  code does in two ways: by `retry_forgets_update`, and when a job that was to
  resume an observation leaves the queue and its context ends before `execute`
  looks at it (coordinator.go:378). That job records a final `not_applied`, where
  one ended while queued keeps the earlier outcome. So no property covers the
  hazard at that line.

## What TLAPS proves

Every invariant and every action property of the passing runs is a theorem
(so are `SharesOwnRequest` and `CapacityBound` by themselves),
and so are the refinements (`ImplementsReplayCache`, `KeepsBinding`,
`KeepsPromise`, `FollowsOneRollout`, `FollowsOneExecution`). The bounds on clocks, versions, restarts and failed
tasks remain parameters, with any values. None of the properties is inductive;
the strengthenings are:

`ReplayCacheProofs`, from `CacheAssumption` (a positive capacity, natural expiry
instants, `None` is nobody). Clock values in use were read in the past
(`ReadInThePast`), hence a purge never drops the record of a current token; so a
current token's record still stands for every operation made for it
(`StillBound`), an open operation is that record (`OpenIsCurrent`), and a caller
about to create an operation has not created it yet (`NotYetOwner`). For
`KeepsBinding` (`BindingInv`) three facts are added: an operation with a final
result stays its token's last (`FinalIsLast`), because a call about to replace an
operation found it completed with a retryable result (`ReplacesRetryable`), and
only a call that has returned has its answer (`AnsweredAtEnd`). With `StillBound`
an answer read from any operation of a current token then fits the token's
record. Each of the cache's steps is one action of `TokenBinding` or a stutter.

`CoordinatorSteps`, `CoordinatorProofs` and `CoordinatorUpdates`, from
`CoordinatorAssumption` (finitely many callers, positive bounds) and the cache's
own assumption for the coordinator's values. The invariant is built in four
layers, each using the ones before it:

- `Base`: the replay cache's invariant, taken over by `INSTANCE` as the
  coordinator's steps are shown to be the cache's steps; types; a replaced
  operation is completed and for the same request; a caller that is to enqueue
  owns its operation. It gives `TypeOK`, `ImplementsReplayCache`, `NoLostWakeup`.
- `Held`: queues hold no job twice, no more than their capacity and only their
  own; every operation is with its owner, in a queue, with a removal, with a
  worker, or, when completed, with nobody. It gives `ExactlyOneHolder` and
  `FullOfLiveJobs`; the latter rests on a lemma that counts the places of a queue
  by rank, since the sweep filters it.
- `SentInv`: an update belongs to an operation that a worker got as far as
  submitting, and what a worker carries or has recorded is true of it. It gives
  `RecordedActionIsTrue` and `ResumeNeverSubmits`.
- `VersionInv`: the updates submitted for a current token all name one version
  (`SameVersion`), because a retry submits only on the version its indeterminate
  predecessor kept (`RecordsAgree`, `RetriesAgree`, `WorkersAgree`), and an
  accepted update has left its version behind (`Taken`). It gives
  `OneUpdatePerToken`.
- `SelectionInv`: what is recorded of a token after its image was found
  selected. Only an update or a doubt about one is tried again, and a worker that
  resumes repeats its predecessor's action (`OutcomesAct`). An update names an
  image the service does not have at its version (`UpdatesBehind`,
  `WorkersBehind`); so whoever finds the desired image, or learns that an update
  was taken, finds every version submitted for the token behind, and an update
  still on its way can never be taken after the selection is recorded
  (`EstablishedIsPast`). The newest operation of a current token repeats a
  recorded selection, resumes from a record that repeats it, or has done nothing
  (`LastWord`), which with the cache's `BindingInv` makes `RecordsOutcome` the
  only way to complete an operation. It gives `KeepsPromise`; that an accepted
  update is the first of its token (`AcceptIsFirst`) is `OneUpdatePerToken` in the
  state after it.

`ObserverProofs`, from `ObserverAssumption`: the version advances with every
change, so a snapshot of the present version shows the service as it is, and
what its task list said of moved tasks stays true (`SnapshotTrue`); an
observation goes on with the recorded identity (`Resumes`); without operators
Docker neither takes a status away nor starts a second rollout (`Undisturbed`).

`JobsProofs`, from `JobsAssumption`: a service inspected at the present version
is the service (`SeenOK`), and what its tasks have done is done (`EndedOK`,
`FoundOK`); once an update is taken the version is past all that were ever sent
(`OnceOK`); unless the earlier spec is brought back, an execution with that
previous spec is the update's (`OursOK`).

`VerifierProofs`, from `VerifierAssumption`, for every tick length, skew, token
lifetime and number of restarts. `AcceptedBeforeCutoff`: whatever an earlier
process accepted was issued before the present cutoff, as a process accepts issue
times at most `ClockSkew` ahead of its clock and the next one puts its cutoff more
than `ClockSkew` after its start. `WarmUpInv`: claims are GitHub's clock in whole
seconds (`IssuedOnGitHubsClock`), and at the advised moment that clock has
reached the cutoff (`AdviceReachesCutoff`), itself a whole second, so truncation
takes no later token below it.

`ServerProofs`, from `ConfigurationAssumption` (the shape of a configuration): no
request arrives once `Shutdown` is called or `Serve` has failed, so handlers that
have all ended have ended for good (`ShutdownOK`); a body is closed only after its
context ended (`HandlersOK`); and as names are distinct, the policy's last
deployment of a name is its only one.

Only model-checked: liveness (`OperationsComplete`, `RequestsAnswered`,
`ShutdownDrains`, `EndIsNoticed`, `RunEnds`), as the installed provers handle
neither fairness nor `ENABLED`, and the runs that contradict a document.
`TokenBinding` and `Promise` state safety only; that every call is answered in
the end is `RequestsAnswered`.

## Not modelled

- Signature checks and decoding (go-oidc, `encoding/json`), the form of single
  configuration values, YAML loading, audit wording, the command line: they keep
  no state that the properties depend on. Decoding a body is a step that succeeds
  or fails; `health` and `notFound` answer without state.
- Of the task summary only failures; `running` and `pending` are counts for
  display.
- The parts `Run` builds before it serves: sequential wiring.
- The composition of `Observer` and `Jobs` with `Coordinator` into one module:
  the coordinator's three ways for an observation to end are all that its
  properties see of them, and the retries of a token, which `Observer` and `Jobs`
  take one after the other, are put in that order by `ExactlyOneHolder` and
  `OneOpenOperation`.

## Plan

Done: all modules and proofs above. What is left:

1. The verifier's cutoff and the replay cache in one module: over restarts, in
   which the cache is lost and the cutoff raised, a token stands for one request
   for as long as any process accepts it.
2. A worker that stopped stays stopped (`ShutdownDrains` without its liveness
   part) as an action property with a proof.
3. Job mode in `Coordinator`, with an unanswered job update across the expiry of
   its token, under the same `Promise`.
