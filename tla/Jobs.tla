-------------------------------- MODULE Jobs --------------------------------
(***************************************************************************)
(* Job deployments: src/internal/swarm/jobs.go and Coordinator.executeJob, *)
(* for one token and all its retries, which the service's worker executes  *)
(* one after the other, against the job of SwarmJob.  What the worker does *)
(* for other tokens is part of what others do to the service.              *)
(***************************************************************************)
EXTENDS Naturals, FiniteSets

CONSTANTS Image, Settings, None, MaxVersion,
  Wanted         \* the requested image

ASSUME JobsAssumption ==
  Wanted \in Image /\ None \notin Nat \cup [image : Image, settings : Settings]

VARIABLES
  svc, tasks,    \* Docker
  out,           \* the outcome recorded for the token
  work,          \* its execution by the worker
  wire,          \* the update this execution has sent
  late,          \* versions of unanswered updates that Docker may still take
  taken,         \* the updates Docker took: their iterations, and the spec before
  undone         \* after one of them others brought the earlier spec back

dockerVars == <<svc, tasks>>
updateVars == <<wire, late, taken, undone>>
vars == <<dockerVars, out, work, updateVars>>

Docker == INSTANCE SwarmJob

(* action is what executeJob will report; seen, the service as last          *)
(* inspected; found, what its tasks then said.  id, iteration, awaiting and  *)
(* prior are observe's id, iteration, awaitingIteration and initial.Spec.    *)
Idle == [at |-> "idle", action |-> "not_applied", id |-> None, iteration |-> None,
         awaiting |-> FALSE, prior |-> None, seen |-> None, found |-> ""]

Init ==
  /\ Docker!DockerInit
  /\ out  = [action |-> "", conclusion |-> "", id |-> None, iteration |-> None, version |-> None]
  /\ work = Idle
  /\ wire = "none" /\ late = {} /\ taken = {} /\ undone = FALSE

WorkOnly == UNCHANGED <<dockerVars, out, updateVars>>

(* Mutant: the inspected version is not kept.                                *)
ReturnUnversioned(action, conclusion, iteration) ==
  /\ out' = [action |-> action, conclusion |-> conclusion, id |-> work.id, iteration |-> iteration,
             version |-> None]
  /\ work' = Idle

(* executeJob's outcome: jobOutcome takes conclusion and iteration over.     *)
Return(action, conclusion, iteration) ==
  /\ out' = [action |-> action, conclusion |-> conclusion, id |-> work.id, iteration |-> iteration,
             version |-> IF action = "indeterminate" THEN work.seen.version ELSE None]
  /\ work' = Idle

(* Run, or Retry while the fate of an update is unknown.                     *)
Begin ==
  /\ work.at = "idle"
  /\ out.action \in {"", "indeterminate"}
  /\ work' = [Idle EXCEPT !.at = "inspect"]
  /\ WorkOnly

(* Observe.                                                                  *)
Resume ==
  /\ work.at = "idle"
  /\ out.conclusion = "in_progress" /\ out.iteration # None
  /\ work' = [Idle EXCEPT !.at = "poll", !.action = out.action,
                          !.id = out.id, !.iteration = out.iteration]
  /\ WorkOnly

ResumeWithoutIteration ==
  /\ work.at = "idle"
  /\ out.conclusion = "in_progress" /\ out.iteration = None
  /\ out' = [out EXCEPT !.conclusion = "superseded"]
  /\ UNCHANGED <<dockerVars, work, updateVars>>

-----------------------------------------------------------------------------
(* Jobs.run *)

MayUpdateAlways == TRUE   \* mutant: a retry ignores the version

MayUpdate == out.action = "indeterminate" => svc.version = out.version

InspectFindsImage ==
  /\ work.at = "inspect"
  /\ svc.spec.image = Wanted
  /\ work' = [work EXCEPT !.at = "poll", !.action = "no_change",
                          !.id = svc.id, !.iteration = svc.iteration]
  /\ WorkOnly

InspectFindsConflict ==
  /\ work.at = "inspect"
  /\ svc.spec.image # Wanted /\ ~MayUpdate
  /\ Return("not_applied", "superseded", None)
  /\ UNCHANGED <<dockerVars, updateVars>>

InspectFindsOther ==
  /\ work.at = "inspect"
  /\ svc.spec.image # Wanted /\ MayUpdate
  /\ work' = [work EXCEPT !.at = "list", !.id = svc.id, !.seen = svc]
  /\ WorkOnly

(* Mutant: one failed task ends the execution.                               *)
VerdictOnFirst(listed) ==
  CASE listed # {} /\ \A t \in listed : t.state = "complete" -> "completed"
    [] \E t \in listed : t.state = "failed" -> "failed"
    [] OTHER -> "in_progress"

(* Mutant: an execution without failures is a success.                       *)
VerdictUnlessFailed(listed) ==
  CASE \A t \in listed : t.state # "failed" -> "completed"
    [] listed # {} /\ \A t \in listed : t.state # "live" -> "failed"
    [] OTHER -> "in_progress"

(* snapshot: success takes exactly one task.                                 *)
Verdict(listed) ==
  CASE Cardinality(listed) = 1 /\ \A t \in listed : t.state = "complete" -> "completed"
    [] /\ listed # {} /\ \A t \in listed : t.state # "live"
       /\ ~(Cardinality(listed) = 1 /\ \A t \in listed : t.state = "complete") -> "failed"
    [] OTHER -> "in_progress"

ListTasks ==
  /\ work.at = "list"
  /\ work' = [work EXCEPT !.at = "confirm",
       !.found = Verdict({t \in Docker!Of(work.seen.iteration) : t.listed})]
  /\ WorkOnly

Stable == svc.id = work.seen.id /\ svc.version = work.seen.version
                                /\ svc.iteration = work.seen.iteration
Confirming(action) == work.at = "confirm" /\ (work.action = "not_applied" <=> action = "run")

ConfirmFindsChange ==
  /\ Confirming("run") /\ svc.id = work.id /\ ~Stable
  /\ Return("not_applied", "superseded", None)
  /\ UNCHANGED <<dockerVars, updateVars>>

ConfirmFindsBusy ==
  /\ Confirming("run") /\ Stable /\ work.found = "in_progress"
  /\ Return("not_applied", "", None)
  /\ UNCHANGED <<dockerVars, updateVars>>

ConfirmFindsEnded ==
  /\ Confirming("run") /\ Stable /\ work.found # "in_progress"
  /\ work' = [work EXCEPT !.at = "update", !.found = ""]
  /\ WorkOnly

(* Any call before the update fails, its context ended or not; the job may   *)
(* be gone.                                                                  *)
RunFails ==
  /\ work.at \in {"inspect", "list", "confirm", "update"} /\ work.action = "not_applied"
  /\ Return("not_applied", "", None)
  /\ UNCHANGED <<dockerVars, updateVars>>

Update ==
  /\ work.at = "update"
  /\ wire' = "sent"
  /\ work' = [work EXCEPT !.at = "reply"]
  /\ UNCHANGED <<dockerVars, out, late, taken, undone>>

UpdateAccepted ==
  /\ work.at = "reply" /\ wire = "accepted"
  /\ wire' = "none"
  /\ work' = [work EXCEPT !.at = "poll", !.action = "updated", !.awaiting = TRUE,
                          !.iteration = work.seen.iteration, !.prior = work.seen.spec, !.seen = None]
  /\ UNCHANGED <<dockerVars, out, late, taken, undone>>

UpdateRefused ==
  /\ work.at = "reply" /\ wire \in {"conflict", "rejected"}
  /\ wire' = "none"
  /\ Return("rejected", IF wire = "conflict" THEN "superseded" ELSE "", None)
  /\ UNCHANGED <<dockerVars, late, taken, undone>>

(* No answer: the update may have been taken, or be taken yet.               *)
UpdateFails ==
  /\ work.at \in {"update", "reply"}
  /\ wire' = "none"
  /\ late' = IF wire = "sent" THEN late \cup {work.seen.version} ELSE late
  /\ Return("indeterminate", "", None)
  /\ UNCHANGED <<dockerVars, taken, undone>>

-----------------------------------------------------------------------------
(* Jobs.observe *)

Selected == svc.id = work.id /\ svc.spec.image = Wanted

(* Mutant: an execution is followed by its image alone.                      *)
FollowedByImage == work.awaiting => svc.iteration > work.iteration /\ svc.prev = work.prior

(* Mutant: any later iteration is taken for the update's own.                *)
FollowedWithoutPrevious ==
  IF work.awaiting THEN svc.iteration > work.iteration ELSE svc.iteration = work.iteration

(* Is this the execution, or the one that was awaited?                       *)
Followed ==
  IF work.awaiting THEN svc.iteration > work.iteration /\ svc.prev = work.prior
                   ELSE svc.iteration = work.iteration

(* Were an iteration older than the update seen, observe would poll on.      *)
PollFindsReplaced ==
  /\ work.at = "poll"
  /\ \/ ~Selected
     \/ Selected /\ ~Followed /\ ~(work.awaiting /\ svc.iteration <= work.iteration)
  /\ Return(work.action, "superseded", None)
  /\ UNCHANGED <<dockerVars, updateVars>>

PollFindsExecution ==
  /\ work.at = "poll"
  /\ Selected /\ Followed
  /\ work' = [work EXCEPT !.at = "list", !.seen = svc, !.iteration = svc.iteration,
                          !.awaiting = FALSE, !.prior = None]
  /\ WorkOnly

ConfirmFindsGone ==
  /\ Confirming("observe") /\ svc.id # work.id
  /\ Return(work.action, "superseded", None)
  /\ UNCHANGED <<dockerVars, updateVars>>

PollsOn ==
  /\ Confirming("observe") /\ svc.id = work.id
  /\ ~Stable \/ work.found = "in_progress"
  /\ work' = [work EXCEPT !.at = "poll", !.seen = None, !.found = ""]
  /\ WorkOnly

Concludes ==
  /\ Confirming("observe") /\ Stable /\ work.found # "in_progress"
  /\ Return(work.action, work.found, work.iteration)
  /\ UNCHANGED <<dockerVars, updateVars>>

(* A call fails, or the context ends.                                        *)
ObserveFails ==
  /\ work.at \in {"poll", "list", "confirm"} /\ work.action # "not_applied"
  /\ Return(work.action, "in_progress", IF work.awaiting THEN None ELSE work.iteration)
  /\ UNCHANGED <<dockerVars, updateVars>>

-----------------------------------------------------------------------------
(* Docker takes or refuses updates, and others change the service *)

Takes ==
  /\ Docker!Execute([svc.spec EXCEPT !.image = Wanted])
  /\ taken' = taken \cup {[iteration |-> svc'.iteration, before |-> svc.spec]}
  /\ UNCHANGED <<out, work, undone>>

Accept ==
  /\ wire = "sent" /\ svc.version = work.seen.version
  /\ wire' = "accepted" /\ UNCHANGED late
  /\ Takes

AcceptLate ==
  /\ svc.version \in late
  /\ late' = late \ {svc.version} /\ UNCHANGED wire
  /\ Takes

Refuse ==
  /\ wire = "sent"
  /\ \/ wire' = "rejected"
     \/ wire' = "conflict" /\ svc.version # work.seen.version
  /\ UNCHANGED <<dockerVars, out, work, late, taken, undone>>

Others ==
  /\ \/ Docker!Orchestrator /\ UNCHANGED undone
     \/ /\ Docker!ChangedByOthers
        /\ undone' = (undone \/ \E t \in taken : svc'.spec = t.before)
  /\ UNCHANGED <<out, work, wire, late, taken>>

Run == \/ InspectFindsImage \/ InspectFindsConflict \/ InspectFindsOther \/ ListTasks
       \/ ConfirmFindsChange \/ ConfirmFindsBusy \/ ConfirmFindsEnded \/ RunFails
       \/ Update \/ UpdateAccepted \/ UpdateRefused \/ UpdateFails

Observe == \/ PollFindsReplaced \/ PollFindsExecution \/ ConfirmFindsGone \/ PollsOn
           \/ Concludes \/ ObserveFails

Next == \/ Begin \/ Resume \/ ResumeWithoutIteration \/ Run \/ Observe
        \/ Accept \/ AcceptLate \/ Refuse \/ Others

Spec == Init /\ [][Next]_vars

-----------------------------------------------------------------------------
(* Properties *)

TypeOK ==
  /\ svc.id \in Nat /\ svc.version \in Nat /\ svc.iteration \in 1 .. svc.version
  /\ out.action \in {"", "not_applied", "no_change", "updated", "rejected", "indeterminate"}
  /\ out.conclusion \in {"", "in_progress", "completed", "failed", "superseded"}
  /\ out.iteration \in Nat \cup {None}
  /\ out.action = "indeterminate" <=> out.version \in Nat
  /\ wire \in {"none", "sent", "accepted", "conflict", "rejected"}
  /\ late \subseteq Nat
  /\ undone \in BOOLEAN

(* Swarrow never updates a job whose current execution has a task that has   *)
(* not ended, although it lists the tasks two calls before it updates, and   *)
(* although the update may be taken any time later.                          *)
NeverInterrupts == [][taken' # taken => Docker!Live = {}]_vars

(* Docker takes at most one update made in the token's name.                 *)
JobUpdatedOnce == Cardinality(taken) <= 1

(* A completed outcome names an execution of the requested image in which a  *)
(* task ended successfully: never the run before it, nor the run after it.   *)
SuccessIsReal ==
  [][out.conclusion # "completed" /\ out'.conclusion = "completed" =>
       \E t \in tasks : t.iteration = out'.iteration /\ t.image = Wanted /\ t.state = "complete"]_vars

(* The execution that an updated outcome speaks of is the one its update     *)
(* started.  The code recognises it by the previous spec, so this is only    *)
(* certain while nobody brings back the earlier spec after the update.       *)
AdoptedIsOurs ==
  out.action = "updated" /\ out.iteration # None /\ ~undone =>
    \E t \in taken : t.iteration = out.iteration

(* Retries speak of one execution, and their verdict is final.               *)
Pending == out.conclusion \in {"", "in_progress"}
Follows == INSTANCE Following WITH
  Identity <- Nat,
  identity <- out.iteration, verdict <- IF Pending THEN "pending" ELSE out.conclusion

FollowsOneExecution == Follows!Spec
=============================================================================
