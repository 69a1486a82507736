------------------------------ MODULE SwarmJob ------------------------------
(***************************************************************************)
(* A replicated job with one completion, as src/internal/swarm/jobs.go     *)
(* uses it.  Every update starts an execution with an iteration number of  *)
(* its own; what else changes the service only advances its version.  The  *)
(* job's task is not restarted when it fails, but a second one may take    *)
(* the place of one whose node is lost.  Docker forgets ended tasks, and a *)
(* service may be removed and created again under the same name.           *)
(***************************************************************************)
EXTENDS Naturals

CONSTANTS
  Image, Settings, None,
  MaxVersion      \* bound on the version index, for changes made by others

VARIABLES
  svc,     \* id, version, iteration, spec and previous spec
  tasks    \* the tasks of the last two executions, with what became of them

ServiceSpec == [image : Image, settings : Settings]

Task(iteration, n, spec) ==
  [iteration |-> iteration, n |-> n, image |-> spec.image, state |-> "live", listed |-> TRUE]

Of(iteration) == {t \in tasks : t.iteration = iteration}
Live == {t \in Of(svc.iteration) : t.state = "live"}
MayChange == svc.version < MaxVersion

DockerInit ==
  /\ svc \in [id : {1}, version : {1}, iteration : {1}, spec : ServiceSpec, prev : {None}]
  /\ tasks \in {{}, {Task(1, 1, svc.spec)}}

(* ServiceUpdate: a new execution, which ends the one under way.             *)
Execute(spec) ==
  /\ svc' = [svc EXCEPT !.version = @ + 1, !.iteration = svc.version + 1,
                        !.spec = spec, !.prev = svc.spec]
  /\ tasks' = {[t EXCEPT !.state = IF @ = "live" THEN "failed" ELSE @] :
                 t \in {u \in Of(svc.iteration) : u.listed}}

Touch == MayChange /\ svc' = [svc EXCEPT !.version = @ + 1] /\ UNCHANGED tasks

Recreate(spec) ==
  /\ MayChange
  /\ svc' = [id |-> svc.version + 1, version |-> svc.version + 1,
             iteration |-> svc.version + 1, spec |-> spec, prev |-> None]
  /\ tasks' = {}

Spawn ==
  /\ \/ Of(svc.iteration) = {}
     \/ {t.n : t \in Of(svc.iteration)} = {1} /\ Live # {}
  /\ \E n \in {1, 2} \ {t.n : t \in Of(svc.iteration)} :
       /\ n = 2 => Of(svc.iteration) # {}
       /\ tasks' = tasks \cup {Task(svc.iteration, n, svc.spec)}
  /\ UNCHANGED svc

TaskEnds ==
  /\ \E t \in Live, state \in {"complete", "failed"} :
       tasks' = (tasks \ {t}) \cup {[t EXCEPT !.state = state]}
  /\ UNCHANGED svc

Forget ==
  /\ \E t \in Of(svc.iteration) :
       /\ t.listed /\ t.state # "live"
       /\ tasks' = (tasks \ {t}) \cup {[t EXCEPT !.listed = FALSE]}
  /\ UNCHANGED svc

(* What operators and other tokens' requests do.                             *)
ChangedByOthers ==
  \E spec \in ServiceSpec : (MayChange /\ Execute(spec)) \/ Recreate(spec)

Orchestrator == Touch \/ Spawn \/ TaskEnds \/ Forget
=============================================================================
