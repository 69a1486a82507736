---------------------------- MODULE SwarmRollout ----------------------------
(***************************************************************************)
(* The rollout of an ordinary Swarm service, as far as                     *)
(* src/internal/swarm/observer.go can see it through ServiceInspect and    *)
(* TaskList.  Every change of the service advances its version; task       *)
(* changes do not.  An update takes the rollout status away, the           *)
(* orchestrator publishes a new one when a task has to move, and a rollout *)
(* may be paused or rolled back.  Operators update, pause and roll back    *)
(* the same service.                                                       *)
(***************************************************************************)
EXTENDS Naturals, FiniteSets

CONSTANTS
  ServiceSpec,    \* what a service may be told to run
  ImageOf,        \* [ServiceSpec -> image]: specs may differ in more than that
  None,
  MaxVersion,     \* bound on the versions that operators make
  MaxFailed       \* bound on the failed tasks Docker remembers

VARIABLES
  svc,      \* version, spec, previous spec and rollout status
  active,   \* the specs of the tasks that are meant to run; {}: no replicas
  failed,   \* failed tasks: their image and when they were created
  starts    \* rollouts started so far: the time, as far as it matters

dockerVars == <<svc, active, failed, starts>>

Status(state, start) == [state |-> state, start |-> start]
RolloutState == {"updating", "paused", "completed",
                 "rollback_started", "rollback_paused", "rollback_completed"}
InState(state) == svc.status # None /\ svc.status.state = state
AllMoved == active \subseteq {svc.spec}

Changed(fields) == [fields EXCEPT !.version = svc.version + 1]
MayOperate == svc.version < MaxVersion

DockerInit ==
  /\ svc \in [version : {1}, spec : ServiceSpec, prev : {None}, status : {None}]
  /\ active \in {{}, {svc.spec}}
  /\ failed = {}
  /\ starts = 0

(* ServiceUpdate, and what docker service rollback does.                     *)
SetSpec(spec) ==
  /\ MayOperate
  /\ svc' = Changed([svc EXCEPT !.spec = spec, !.prev = svc.spec, !.status = None])
  /\ UNCHANGED <<active, failed, starts>>

ManualRollback ==
  /\ MayOperate
  /\ svc.prev # None
  /\ starts' = starts + 1
  /\ svc' = Changed([svc EXCEPT !.spec = svc.prev, !.prev = svc.spec,
                                !.status = Status("rollback_started", starts')])
  /\ UNCHANGED <<active, failed>>

(* The orchestrator publishes a status only if a task has to move.           *)
StartRollout ==
  /\ svc.status = None /\ ~AllMoved
  /\ starts' = starts + 1
  /\ svc' = Changed([svc EXCEPT !.status = Status("updating", starts')])
  /\ UNCHANGED <<active, failed>>

(* New tasks always run the current spec, within a rollout or not.           *)
TasksMove ==
  /\ ~AllMoved
  /\ \E gone \in SUBSET (active \ {svc.spec}) : active' = (active \ gone) \cup {svc.spec}
  /\ active' # active
  /\ UNCHANGED <<svc, failed, starts>>

TaskFails ==
  /\ svc.spec \in active
  /\ Cardinality(failed) < MaxFailed
  /\ failed' = failed \cup {[image |-> ImageOf[svc.spec], created |-> starts]}
  /\ failed' # failed
  /\ UNCHANGED <<svc, active, starts>>

Becomes(state) ==
  /\ svc' = Changed([svc EXCEPT !.status.state = state])
  /\ UNCHANGED <<active, failed, starts>>

RolloutCompletes ==
  /\ AllMoved
  /\ \/ InState("updating") /\ Becomes("completed")
     \/ InState("rollback_started") /\ Becomes("rollback_completed")

RolloutPauses ==
  \/ InState("updating") /\ Becomes("paused")
  \/ InState("rollback_started") /\ Becomes("rollback_paused")

(* The rollback that follows a failed update is still the same rollout.      *)
AutomaticRollback ==
  /\ InState("updating") /\ svc.prev # None
  /\ svc' = Changed([svc EXCEPT !.spec = svc.prev, !.prev = None,
                                !.status.state = "rollback_started"])
  /\ UNCHANGED <<active, failed, starts>>

(* What the rollout itself does, and what only an operator does.             *)
Orchestrator ==
  StartRollout \/ TasksMove \/ TaskFails \/ RolloutCompletes \/ RolloutPauses \/ AutomaticRollback

Operator == ManualRollback \/ \E spec \in ServiceSpec : SetSpec(spec)

(* No rollout is due or under way.                                           *)
Settled ==
  \/ svc.status = None /\ AllMoved
  \/ svc.status # None /\ svc.status.state \notin {"updating", "rollback_started"}
=============================================================================
