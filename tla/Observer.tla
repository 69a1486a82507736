------------------------------ MODULE Observer ------------------------------
(***************************************************************************)
(* Rollout observation, src/internal/swarm/observer.go, for one request    *)
(* and all the retries of its token, against the service of SwarmRollout.  *)
(* The coordinator has updated the service, or found the wanted image, and *)
(* observes; an observation that fails or is cut short is resumed by the   *)
(* next retry from the outcome recorded so far.  A poll makes three calls, *)
(* between which Docker and its operators go on.                           *)
(***************************************************************************)
EXTENDS Naturals

CONSTANTS ServiceSpec, ImageOf, None, MaxVersion, MaxFailed,
  Wanted        \* the requested image

VARIABLES
  svc, active, failed, starts,   \* Docker
  out,      \* the outcome recorded for the token
  obs,      \* the observation under way
  meddled   \* an operator changed the service after the request was applied

dockerVars == <<svc, active, failed, starts>>
vars == <<dockerVars, out, obs, meddled>>

Docker == INSTANCE SwarmRollout

ASSUME ObserverAssumption ==
  /\ None \notin ServiceSpec \cup [state : Docker!RolloutState, start : Nat]
  /\ Wanted \in {ImageOf[s] : s \in ServiceSpec}

(* A rollout is known by the service version while it has no status, and by  *)
(* its start time, for good, from then on.                                   *)
Named(by, at) == [by |-> by, at |-> at]
Identity == [by : {"version", "start"}, at : Nat]
NamedBy(id, by) == id # None /\ id.by = by

Pending == {"", "in_progress"}
Idle == [at |-> "idle", id |-> None, failures |-> {}, snap |-> None]

Init ==
  /\ Docker!DockerInit
  /\ out = [action |-> "", conclusion |-> "", id |-> None, failures |-> {}]
  /\ obs = Idle
  /\ meddled = FALSE

(* The updater's part, at the instant Docker takes the update or is found to *)
(* have the image.                                                           *)
Apply ==
  /\ out.action = ""
  /\ \/ /\ ImageOf[svc.spec] = Wanted
        /\ out' = [out EXCEPT !.action = "no_change"]
        /\ UNCHANGED dockerVars
     \/ /\ ImageOf[svc.spec] # Wanted
        /\ \E spec \in ServiceSpec : ImageOf[spec] = Wanted /\ Docker!SetSpec(spec)
        /\ out' = [out EXCEPT !.action = "updated"]
  /\ UNCHANGED <<obs, meddled>>

Begin ==
  /\ obs.at = "idle"
  /\ out.action # "" /\ out.conclusion \in Pending
  /\ obs' = [Idle EXCEPT !.at = "inspect", !.id = out.id]
  /\ UNCHANGED <<dockerVars, out, meddled>>

-----------------------------------------------------------------------------
(* One poll: inspect *)

Inspect ==
  /\ obs.at = "inspect"
  /\ obs' = [obs EXCEPT !.at = "list",
       !.snap = [version |-> svc.version, image |-> ImageOf[svc.spec], status |-> svc.status]]
  /\ UNCHANGED <<dockerVars, out, meddled>>

(* requiresImageRollout, and the failed tasks for summariseTasks.            *)
List ==
  LET required == \E spec \in active : ImageOf[spec] # Wanted
  IN  /\ obs.at = "list"
      /\ obs' = [obs EXCEPT !.at = "reinspect", !.snap =
           [version |-> @.version, image |-> @.image, status |-> @.status,
            required |-> required, failed |-> {t \in failed : t.image = Wanted}]]
      /\ UNCHANGED <<dockerVars, out, meddled>>

UnstableNever(snap) == FALSE   \* mutant: mixed snapshots are used
Unstable(snap) == svc.version # snap.version

(* Mutant: the next poll goes on with the service it inspected first.        *)
PollsAgainWithStaleService ==
  /\ obs.at = "reinspect" /\ Unstable(obs.snap)
  /\ obs' = [obs EXCEPT !.at = "list"]
  /\ UNCHANGED <<dockerVars, out, meddled>>

PollsAgain ==
  /\ obs.at = "reinspect" /\ Unstable(obs.snap)
  /\ obs' = [obs EXCEPT !.at = "inspect", !.snap = None]
  /\ UNCHANGED <<dockerVars, out, meddled>>

-----------------------------------------------------------------------------
(* What a stable snapshot means *)

Resumed == NamedBy(out.id, "version")   \* resumedFromRolloutVersion

(* Mutant: a status that appears is taken for a change by somebody else.     *)
FollowedUnlessVersionMoves(snap) ==
  /\ NamedBy(obs.id, "start") => snap.status # None /\ snap.status.start = obs.id.at
  /\ NamedBy(obs.id, "version") => snap.version = obs.id.at

(* Mutant: whatever rollout the service has is followed.                     *)
FollowedByVersionOnly(snap) ==
  NamedBy(obs.id, "version") =>
    \/ snap.version = obs.id.at /\ (Resumed => snap.status = None)
    \/ ~Resumed /\ snap.status # None

(* Mutant: a status that has disappeared goes unnoticed.                     *)
FollowedWithoutStatus(snap) ==
  /\ NamedBy(obs.id, "start") /\ snap.status # None => snap.status.start = obs.id.at
  /\ NamedBy(obs.id, "version") =>
       \/ snap.version = obs.id.at /\ (Resumed => snap.status = None)
       \/ ~Resumed /\ snap.status # None

(* The rollout named so far is still the service's.  A status may appear,    *)
(* and the version change, within the observation that saw the version; a    *)
(* retry trusts neither.                                                     *)
StillFollowed(snap) ==
  /\ NamedBy(obs.id, "start") => snap.status # None /\ snap.status.start = obs.id.at
  /\ NamedBy(obs.id, "version") =>
       \/ snap.version = obs.id.at /\ (Resumed => snap.status = None)
       \/ ~Resumed /\ snap.status # None

NextIdentity(snap) ==
  CASE snap.status # None                 -> Named("start", snap.status.start)
    [] snap.status = None /\ obs.id = None /\ snap.required -> Named("version", snap.version)
    [] OTHER                              -> obs.id

(* Mutant: the start of the next rollout does not end this one's tasks.      *)
FailuresSince(snap, start, before) == {t \in snap.failed : t.created >= start}

(* summariseTasks: the failures between two start times.                     *)
Failures(snap, start, before) == {t \in snap.failed : t.created >= start /\ t.created < before}
Always == starts + 1   \* later than any task so far

LostFailures(snap) ==
  IF NamedBy(obs.id, "start") /\ snap.status # None
  THEN Failures(snap, obs.id.at, snap.status.start) ELSE {}
FailuresSoFar(snap) ==
  IF snap.status # None THEN Failures(snap, snap.status.start, Always) ELSE {}

(* conclude *)
Verdict(snap) ==
  LET state == IF snap.status = None THEN "none" ELSE snap.status.state
  IN  CASE state = "rollback_started"   -> "in_progress"
        [] state = "rollback_completed" -> "rolled_back"
        [] state = "rollback_paused"    -> "failed"
        [] state \in {"none", "updating", "completed", "paused"} /\ snap.image # Wanted
                                        -> "superseded"
        [] state = "none" /\ snap.image = Wanted
                                        -> IF snap.required THEN "in_progress" ELSE "completed"
        [] state = "updating" /\ snap.image = Wanted  -> "in_progress"
        [] state = "completed" /\ snap.image = Wanted -> "completed"
        [] state = "paused" /\ snap.image = Wanted    -> "failed"

Record(conclusion, id, failures) ==
  /\ out' = [out EXCEPT !.conclusion = conclusion, !.id = id, !.failures = failures]
  /\ obs' = Idle
  /\ UNCHANGED <<dockerVars, meddled>>

Stable == obs.at = "reinspect" /\ ~Unstable(obs.snap)

FindsReplaced ==
  /\ Stable /\ ~StillFollowed(obs.snap)
  /\ Record("superseded", obs.id, LostFailures(obs.snap))

Concludes ==
  /\ Stable /\ StillFollowed(obs.snap)
  /\ Verdict(obs.snap) # "in_progress"
  /\ Record(Verdict(obs.snap), NextIdentity(obs.snap), FailuresSoFar(obs.snap))

KeepsPolling ==
  /\ Stable /\ StillFollowed(obs.snap)
  /\ Verdict(obs.snap) = "in_progress"
  /\ obs' = [Idle EXCEPT !.at = "inspect", !.id = NextIdentity(obs.snap),
                         !.failures = FailuresSoFar(obs.snap)]
  /\ UNCHANGED <<dockerVars, out, meddled>>

(* A call fails: the coordinator keeps the outcome it started from.          *)
Fails ==
  /\ obs.at # "idle"
  /\ obs' = Idle
  /\ UNCHANGED <<dockerVars, out, meddled>>

(* Mutant: an observation that is cut short has no conclusion.               *)
EndsWithoutConclusion ==
  /\ obs.at # "idle"
  /\ Record("", obs.id, obs.failures)

(* The context ends, between two polls or in one.                            *)
Ends ==
  /\ obs.at # "idle"
  /\ Record("in_progress", obs.id, obs.failures)

-----------------------------------------------------------------------------

DockerMoves ==
  /\ \/ Docker!Orchestrator /\ UNCHANGED meddled
     \/ Docker!Operator /\ meddled' = (out.action # "")
  /\ UNCHANGED <<out, obs>>

Poll == Inspect \/ List \/ PollsAgain \/ FindsReplaced \/ Concludes \/ KeepsPolling

Next == DockerMoves \/ Apply \/ Begin \/ Poll \/ Fails \/ Ends

Spec == Init /\ [][Next]_vars

(* Docker answers, and a tick of the poll interval comes.                    *)
FairSpec == Spec /\ WF_vars(Poll)

-----------------------------------------------------------------------------
(* Properties *)

TypeOK ==
  /\ out \in [action : {"", "no_change", "updated"}, id : Identity \cup {None},
              conclusion : Pending \cup {"completed", "failed", "rolled_back", "superseded"},
              failures : SUBSET failed]
  /\ out.conclusion = "" => out.id = None /\ out.failures = {}
  /\ obs.at \in {"idle", "inspect", "list", "reinspect"}
  /\ obs.id \in Identity \cup {None}
  /\ obs.failures \subseteq failed
  /\ meddled \in BOOLEAN

(* Retries speak of one rollout, and their verdict is final.                 *)
Follows == INSTANCE Following WITH
  identity <- out.id, verdict <- IF out.conclusion \in Pending THEN "pending" ELSE out.conclusion

FollowsOneRollout == Follows!Spec

Reported == out.conclusion \in Pending /\ out'.conclusion \notin Pending

(* When completed is reported the service has the wanted image, and no task  *)
(* that is meant to run has another one, although the three calls it was     *)
(* concluded from saw three different instants.                              *)
CompletedIsTrue ==
  [][Reported /\ out'.conclusion = "completed" =>
       /\ ImageOf[svc.spec] = Wanted
       /\ \A spec \in active : ImageOf[spec] = Wanted]_vars

(* A resumed observation reports the end of the rollout that the first one   *)
(* named, which is still the service's last: never that of a successor, not  *)
(* even one with the same image.                                             *)
ResumedVerdictIsOfSameRollout ==
  [][Reported /\ out'.conclusion # "superseded" =>
       /\ NamedBy(out.id, "start") => svc.status # None /\ svc.status.start = out.id.at
       /\ NamedBy(out.id, "version") => svc.version = out.id.at /\ svc.status = None]_vars

(* A rollout is only reported superseded if an operator did change the       *)
(* service after the request was applied, or if all a retry had to go by was *)
(* a version: Docker's own progress is never taken for somebody else's.      *)
SupersededHasCause ==
  [][Reported /\ out'.conclusion = "superseded" => meddled \/ NamedBy(out.id, "version")]_vars

(* Failures reported with a verdict are not those of the rollout that took   *)
(* the place of the one reported on.                                         *)
FailuresAreNotTheSuccessors ==
  [][Reported /\ svc.status # None /\ out'.id # Named("start", svc.status.start) =>
       \A t \in out'.failures : t.created < svc.status.start]_vars

(* Once a rollout has ended and the service is left alone, no observation    *)
(* goes on for ever.                                                         *)
EndIsNoticed == <>[]Docker!Settled => []<>(obs.at = "idle")

-----------------------------------------------------------------------------
(* What the documents say, where the code does otherwise *)

(* docs/design.md:70: if an observation failed before reaching a conclusion, *)
(* the retry continues from any rollout identity already established.        *)
IdentitySurvivesFailure ==
  [][obs.at # "idle" /\ obs'.at = "idle" /\ out'.conclusion \in Pending => out'.id = obs.id]_vars

(* An operator had an update to another image rolled back to the wanted one   *)
(* before the request is applied: the rollback is complete, its tasks run.    *)
RolledBackBefore ==
  /\ out.action = ""
  /\ Docker!InState("rollback_completed") /\ svc.prev # None
  /\ ImageOf[svc.prev] # Wanted /\ ImageOf[svc.spec] = Wanted
  /\ active = {svc.spec}

(* docs/design.md:46: a request that finds its image in place observes an     *)
(* active rollout for that image if there is one, and otherwise reports that  *)
(* no change was required.  So if the update to another image was rolled back *)
(* before, and the service has not changed since (a change would advance its  *)
(* version), the request is not told that its rollout was rolled back.        *)
FoundImageIsNotRolledBack ==
  \A v \in 1 .. MaxVersion + 1 :
    [](RolledBackBefore /\ svc.version = v =>
         [](svc.version = v => out.conclusion # "rolled_back"))
=============================================================================
