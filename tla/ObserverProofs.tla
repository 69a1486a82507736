--------------------------- MODULE ObserverProofs ---------------------------
(***************************************************************************)
(* Proofs about Observer, for any specs and images, any number of changes  *)
(* by operators, failed tasks and retries.                                 *)
(*                                                                         *)
(* The argument: the version advances with every change of the service, so *)
(* a snapshot whose version is still the service's shows the service as it *)
(* is (SnapshotTrue); an observation goes on with the identity that was    *)
(* recorded (Resumes); and as long as no operator interferes, Docker       *)
(* neither takes a status away nor starts another rollout (Undisturbed).   *)
(***************************************************************************)
EXTENDS Observer, TLAPS

StatusType == {None} \cup [state : Docker!RolloutState, start : Nat]

SvcType == [version : Nat, spec : ServiceSpec, prev : ServiceSpec \cup {None}, status : StatusType]
SvcIs(version, spec, prev, status) ==
  [version |-> version, spec |-> spec, prev |-> prev, status |-> status]

DockerOK ==
  /\ svc \in SvcType
  /\ starts \in Nat
  /\ Docker!InState("completed") => Docker!AllMoved

Polling == obs.at \in {"list", "reinspect"}

ObsOK ==
  /\ obs = [at |-> obs.at, id |-> obs.id, failures |-> obs.failures, snap |-> obs.snap]
  /\ obs.at = "idle" => obs.id = None
  /\ obs.at # "idle" => out.action # "" /\ out.conclusion \in Pending
  /\ out.action = "" => out.id = None

SnapshotTrue ==
  /\ Polling => obs.snap.version \in Nat /\ obs.snap.status \in StatusType
  /\ obs.at = "reinspect" => obs.snap.failed \subseteq failed
  /\ Polling => obs.snap.version <= svc.version
  /\ Polling /\ obs.snap.version = svc.version =>
       obs.snap.image = ImageOf[svc.spec] /\ obs.snap.status = svc.status
  /\ obs.at = "reinspect" /\ obs.snap.version = svc.version
     /\ obs.snap.image = Wanted /\ ~obs.snap.required =>
       \A spec \in active : ImageOf[spec] = Wanted

Resumes == obs.at # "idle" /\ out.id # None => obs.id = out.id

RollingBack == {"rollback_started", "rollback_paused", "rollback_completed"}

StillNamed(id) ==
  /\ NamedBy(id, "start") => svc.status # None /\ svc.status.start = id.at
  /\ NamedBy(id, "version") /\ svc.status = None => svc.version = id.at

Undisturbed ==
  ~meddled /\ out.action # "" =>
    /\ ImageOf[svc.spec] = Wanted \/ (svc.status # None /\ svc.status.state \in RollingBack)
    /\ StillNamed(obs.id) /\ StillNamed(out.id)

IInv == TypeOK /\ DockerOK /\ ObsOK /\ SnapshotTrue /\ Resumes /\ Undisturbed

LEMMA InvInit == Init => IInv
<1> SUFFICES ASSUME Init PROVE IInv
  OBVIOUS
<1> USE DEF Init, Docker!DockerInit, Idle
<1>1. TypeOK
  BY DEF TypeOK, Pending
<1>2. DockerOK
  <2>1. svc = SvcIs(1, svc.spec, None, None) /\ svc.spec \in ServiceSpec
    BY DEF SvcIs
  <2>2. None \in StatusType
    BY DEF StatusType
  <2>3. svc \in SvcType
    <3> HIDE DEF Init, Docker!DockerInit
    <3> QED  BY <2>1, <2>2 DEF SvcType, SvcIs
  <2> QED  BY <2>1, <2>3 DEF DockerOK, Docker!InState, SvcIs
<1>3. ObsOK /\ SnapshotTrue /\ Resumes /\ Undisturbed
  BY DEF ObsOK, Polling, SnapshotTrue, Resumes, Undisturbed
<1> QED  BY <1>1, <1>2, <1>3 DEF IInv

-----------------------------------------------------------------------------
(* What Docker and its operators do *)

(* Every change of the service advances its version, by the orchestrator as  *)
(* well as by an operator; task changes leave the service alone.             *)
LEMMA DockerKeepsTypes ==
  ASSUME DockerOK, Docker!Orchestrator \/ Docker!Operator
  PROVE  DockerOK' /\ failed \subseteq failed'
         /\ (svc' = svc \/ svc'.version = svc.version + 1)
<1> USE DEF DockerOK, Docker!InState, Docker!AllMoved
<1> DEFINE Good == DockerOK' /\ failed \subseteq failed'
                   /\ (svc' = svc \/ svc'.version = svc.version + 1)
<1>1. ASSUME NEW spec \in ServiceSpec, NEW prev \in ServiceSpec \cup {None}, NEW status \in StatusType,
             svc' = SvcIs(svc.version + 1, spec, prev, status), starts' \in Nat,
             status = None \/ status.state # "completed" \/ active' \subseteq {spec},
             failed \subseteq failed'
      PROVE  Good
  <2>1. svc.version + 1 \in Nat
    BY DEF SvcType
  <2>2. svc' \in SvcType
    BY <1>1, <2>1 DEF SvcType, SvcIs
  <2> QED  BY <1>1, <2>2 DEF SvcIs
<1>2. svc = SvcIs(svc.version, svc.spec, svc.prev, svc.status)
      /\ svc.version \in Nat /\ svc.spec \in ServiceSpec /\ svc.prev \in ServiceSpec \cup {None}
      /\ svc.status \in StatusType
  BY DEF SvcType, SvcIs
<1>3. ASSUME NEW state \in Docker!RolloutState, NEW start \in Nat
      PROVE  Docker!Status(state, start) \in StatusType
  BY DEF Docker!Status, StatusType
<1>4. ASSUME NEW state \in Docker!RolloutState, NEW spec, NEW prev, svc.status # None,
             svc' = Docker!Changed([svc EXCEPT !.spec = spec, !.prev = prev, !.status.state = state])
      PROVE  /\ svc' = SvcIs(svc.version + 1, spec, prev, Docker!Status(state, svc.status.start))
             /\ svc.status.start \in Nat
  <2>1. svc.status \in [state : Docker!RolloutState, start : Nat]
    BY <1>2, <1>4 DEF StatusType
  <2>2. [svc.status EXCEPT !.state = state] = Docker!Status(state, svc.status.start)
    BY <2>1 DEF Docker!Status
  <2>3. svc' = SvcIs(svc.version + 1, spec, prev, [svc.status EXCEPT !.state = state])
    BY <1>2, <1>4 DEF Docker!Changed, SvcIs, SvcType
  <2> QED  BY <2>1, <2>2, <2>3
<1>5. ASSUME NEW spec \in ServiceSpec, Docker!SetSpec(spec)
      PROVE  Good
  <2>1. svc' = SvcIs(svc.version + 1, spec, svc.spec, None)
    BY <1>2, <1>5 DEF Docker!SetSpec, Docker!Changed, SvcIs, SvcType
  <2> QED  BY <1>1, <1>2, <1>5, <2>1 DEF Docker!SetSpec, StatusType
<1>6. ASSUME Docker!ManualRollback PROVE Good
  <2>1. svc' = SvcIs(svc.version + 1, svc.prev, svc.spec, Docker!Status("rollback_started", starts'))
    BY <1>2, <1>6 DEF Docker!ManualRollback, Docker!Changed, SvcIs, SvcType
  <2>2. Docker!Status("rollback_started", starts').state = "rollback_started"
    BY DEF Docker!Status
  <2> QED  BY <1>1, <1>2, <1>3, <1>6, <2>1, <2>2 DEF Docker!ManualRollback, Docker!RolloutState
<1>7. ASSUME Docker!StartRollout PROVE Good
  <2>1. svc' = SvcIs(svc.version + 1, svc.spec, svc.prev, Docker!Status("updating", starts'))
    BY <1>2, <1>7 DEF Docker!StartRollout, Docker!Changed, SvcIs, SvcType
  <2>2. Docker!Status("updating", starts').state = "updating"
    BY DEF Docker!Status
  <2>3. Docker!Status("updating", starts') \in StatusType
    BY <1>3, <1>7 DEF Docker!StartRollout, Docker!RolloutState
  <2>4. starts' \in Nat /\ failed \subseteq failed'
    BY <1>7 DEF Docker!StartRollout
  <2> HIDE DEF DockerOK, Good
  <2> QED  BY <1>1, <1>2, <2>1, <2>2, <2>3, <2>4
<1>8. ASSUME Docker!TasksMove \/ Docker!TaskFails PROVE Good
  BY <1>8 DEF Docker!TasksMove, Docker!TaskFails
<1>9. ASSUME NEW state \in Docker!RolloutState, Docker!Becomes(state), svc.status # None,
             state = "completed" => Docker!AllMoved
      PROVE  Good
  <2>1. svc' = SvcIs(svc.version + 1, svc.spec, svc.prev, Docker!Status(state, svc.status.start))
        /\ svc.status.start \in Nat
    <3>1. svc' = Docker!Changed([svc EXCEPT !.spec = svc.spec, !.prev = svc.prev, !.status.state = state])
      BY <1>2, <1>9 DEF Docker!Becomes, SvcType, Docker!Changed
    <3> QED  BY <1>4, <1>9, <3>1
  <2>2. Docker!Status(state, svc.status.start).state = state
    BY DEF Docker!Status
  <2> QED  BY <1>1, <1>2, <1>3, <1>9, <2>1, <2>2 DEF Docker!Becomes
<1>10. ASSUME Docker!RolloutCompletes \/ Docker!RolloutPauses PROVE Good
  BY <1>9, <1>10 DEF Docker!RolloutCompletes, Docker!RolloutPauses, Docker!RolloutState
<1>11. ASSUME Docker!AutomaticRollback PROVE Good
  <2>1. svc' = SvcIs(svc.version + 1, svc.prev, None, Docker!Status("rollback_started", svc.status.start))
        /\ svc.status.start \in Nat
    BY <1>4, <1>11 DEF Docker!AutomaticRollback, Docker!RolloutState
  <2>2. Docker!Status("rollback_started", svc.status.start).state = "rollback_started"
    BY DEF Docker!Status
  <2> QED  BY <1>1, <1>2, <1>3, <1>11, <2>1, <2>2 DEF Docker!AutomaticRollback, Docker!RolloutState
<1> QED  BY <1>5, <1>6, <1>7, <1>8, <1>10, <1>11 DEF Docker!Orchestrator, Docker!Operator

(* While the service is left alone, tasks only move to its current spec.     *)
LEMMA TasksOnlyMove ==
  ASSUME DockerOK, Docker!Orchestrator \/ Docker!Operator, svc' = svc
  PROVE  active' \subseteq active \cup {svc.spec}
<1>1. svc'.version # svc.version + 1
  BY DEF DockerOK, SvcType
<1>2. CASE Docker!TasksMove \/ Docker!TaskFails
  BY <1>2 DEF Docker!TasksMove, Docker!TaskFails
<1>3. CASE ~(Docker!TasksMove \/ Docker!TaskFails)
  <2>1. active' = active
    BY <1>3 DEF Docker!Orchestrator, Docker!Operator, Docker!SetSpec, Docker!ManualRollback,
      Docker!StartRollout, Docker!RolloutCompletes, Docker!RolloutPauses, Docker!Becomes,
      Docker!AutomaticRollback
  <2> QED  BY <2>1
<1> QED  BY <1>2, <1>3

(* What Docker does by itself leaves a rollout its status and its start, and *)
(* rolls an image back only within a rollback.                               *)
LEMMA OrchestratorKeepsRollout ==
  ASSUME DockerOK, Docker!Orchestrator
  PROVE  /\ svc.status # None => svc'.status # None /\ svc'.status.start = svc.status.start
         /\ svc'.status = None => svc' = svc
         /\ \/ svc'.spec = svc.spec
            \/ svc'.status # None /\ svc'.status.state = "rollback_started"
         /\ svc.status # None /\ svc.status.state \in RollingBack =>
              svc'.status.state \in RollingBack
<1> USE DEF Docker!InState, RollingBack
<1>1. svc.version \in Nat /\ svc.status \in StatusType
      /\ svc = SvcIs(svc.version, svc.spec, svc.prev, svc.status)
  BY DEF DockerOK, SvcType, SvcIs
<1>2. CASE Docker!StartRollout
  <2>1. svc' = SvcIs(svc.version + 1, svc.spec, svc.prev, Docker!Status("updating", starts'))
    BY <1>1, <1>2 DEF Docker!StartRollout, Docker!Changed, SvcIs
  <2>2. Docker!Status("updating", starts') \in [state : Docker!RolloutState, start : Nat]
    BY <1>2 DEF Docker!StartRollout, Docker!Status, DockerOK, Docker!RolloutState
  <2> QED  BY <1>2, <2>1, <2>2, ObserverAssumption DEF Docker!StartRollout, SvcIs
<1>3. CASE Docker!TasksMove \/ Docker!TaskFails
  BY <1>1, <1>3 DEF Docker!TasksMove, Docker!TaskFails, SvcIs
<1>4. ASSUME svc.status # None, NEW state \in Docker!RolloutState, NEW spec, NEW prev,
             svc' = Docker!Changed([svc EXCEPT !.spec = spec, !.prev = prev, !.status.state = state])
      PROVE  svc'.spec = spec /\ svc'.status.state = state
             /\ svc'.status # None /\ svc'.status.start = svc.status.start
  <2>1. svc.status \in [state : Docker!RolloutState, start : Nat]
    BY <1>1, <1>4 DEF StatusType
  <2>2. svc' = SvcIs(svc.version + 1, spec, prev, [svc.status EXCEPT !.state = state])
    BY <1>1, <1>4 DEF Docker!Changed, SvcIs
  <2>3. [svc.status EXCEPT !.state = state] = Docker!Status(state, svc.status.start)
    BY <2>1 DEF Docker!Status
  <2>4. Docker!Status(state, svc.status.start) \in [state : Docker!RolloutState, start : Nat]
    BY <2>1 DEF Docker!Status, Docker!RolloutState
  <2>5. svc' = SvcIs(svc.version + 1, spec, prev, Docker!Status(state, svc.status.start))
    BY <2>2, <2>3
  <2> QED  BY <2>4, <2>5, ObserverAssumption DEF SvcIs, Docker!Status
<1>5. ASSUME NEW state \in Docker!RolloutState, Docker!Becomes(state), svc.status # None
      PROVE  svc'.spec = svc.spec /\ svc'.status.state = state
             /\ svc'.status # None /\ svc'.status.start = svc.status.start
  <2>1. svc' = Docker!Changed([svc EXCEPT !.spec = svc.spec, !.prev = svc.prev, !.status.state = state])
    BY <1>1, <1>5 DEF Docker!Becomes, Docker!Changed, SvcIs
  <2> QED  BY <1>4, <1>5, <2>1
<1>6. CASE Docker!RolloutCompletes \/ Docker!RolloutPauses
  BY <1>5, <1>6 DEF Docker!RolloutCompletes, Docker!RolloutPauses, Docker!RolloutState
<1>7. CASE Docker!AutomaticRollback
  BY <1>4, <1>7 DEF Docker!AutomaticRollback, Docker!RolloutState
<1> QED  BY <1>2, <1>3, <1>6, <1>7 DEF Docker!Orchestrator

-----------------------------------------------------------------------------
(* The invariant is inductive *)

LEMMA DockerStep == IInv /\ DockerMoves => IInv'
<1> SUFFICES ASSUME IInv, DockerMoves PROVE IInv'
  OBVIOUS
<1>1. UNCHANGED <<out, obs>> /\ (Docker!Orchestrator \/ Docker!Operator)
  BY DEF DockerMoves
<1>2. DockerOK /\ DockerOK' /\ failed \subseteq failed' /\ (svc' = svc \/ svc'.version = svc.version + 1)
  BY <1>1, DockerKeepsTypes DEF IInv
<1>3. svc.version \in Nat
  BY <1>2 DEF DockerOK, SvcType
<1>4. TypeOK'
  BY <1>1, <1>2 DEF IInv, TypeOK, DockerMoves
<1>5. ObsOK' /\ Resumes'
  BY <1>1, <1>2 DEF IInv, ObsOK, Polling, Resumes
<1>6. SnapshotTrue'
  <2>1. CASE svc' = svc
    <3>1. active' \subseteq active \cup {svc.spec}
      BY <1>1, <1>2, <2>1, TasksOnlyMove
    <3> QED  BY <1>1, <1>2, <2>1, <3>1 DEF IInv, SnapshotTrue, Polling
  <2>2. CASE svc'.version = svc.version + 1
    <3>1. ASSUME Polling
          PROVE  obs.snap.version <= svc'.version /\ obs.snap.version # svc'.version
      <4>1. obs.snap.version \in Nat /\ obs.snap.version <= svc.version
        BY <3>1 DEF IInv, SnapshotTrue
      <4> QED  BY <1>3, <2>2, <4>1
    <3> QED  BY <1>1, <1>2, <3>1 DEF IInv, SnapshotTrue, Polling
  <2> QED  BY <1>2, <2>1, <2>2
<1>7. Undisturbed'
  <2> SUFFICES ASSUME ~meddled', out.action # "" PROVE Undisturbed'
    BY <1>1 DEF Undisturbed
  <2>1. Docker!Orchestrator /\ ~meddled
    <3>1. CASE Docker!Operator /\ meddled' = (out.action # "")
      BY <3>1
    <3>2. CASE Docker!Orchestrator /\ UNCHANGED meddled
      BY <3>2
    <3> QED  BY <3>1, <3>2 DEF DockerMoves
  <2>2. /\ svc.status # None => svc'.status # None /\ svc'.status.start = svc.status.start
        /\ svc'.status = None => svc' = svc
        /\ svc'.spec = svc.spec \/ (svc'.status # None /\ svc'.status.state = "rollback_started")
        /\ svc.status # None /\ svc.status.state \in RollingBack => svc'.status.state \in RollingBack
    BY <1>2, <2>1, OrchestratorKeepsRollout
  <2> QED  BY <1>1, <2>1, <2>2 DEF IInv, Undisturbed, StillNamed, RollingBack
<1> QED  BY <1>2, <1>4, <1>5, <1>6, <1>7 DEF IInv

LEMMA ApplyStep == IInv /\ Apply => IInv'
<1> SUFFICES ASSUME IInv, Apply PROVE IInv'
  OBVIOUS
<1>1. out.action = "" /\ out.id = None /\ obs.at = "idle" /\ obs.id = None /\ UNCHANGED <<obs, meddled>>
  BY DEF Apply, IInv, ObsOK
<1>2. out' = [out EXCEPT !.action = "no_change"] \/ out' = [out EXCEPT !.action = "updated"]
  BY DEF Apply
<1>3. ImageOf[svc'.spec] = Wanted /\ DockerOK' /\ failed \subseteq failed'
  <2>1. CASE UNCHANGED dockerVars
    BY <2>1 DEF Apply, dockerVars, IInv, DockerOK, Docker!InState, Docker!AllMoved, Docker!SetSpec,
      Docker!Changed, SvcType
  <2>2. ASSUME NEW spec \in ServiceSpec, ImageOf[spec] = Wanted, Docker!SetSpec(spec)
        PROVE  ImageOf[svc'.spec] = Wanted /\ DockerOK' /\ failed \subseteq failed'
    <3>1. Docker!Operator
      BY <2>2 DEF Docker!Operator
    <3>2. svc'.spec = spec
      BY <2>2 DEF Docker!SetSpec, Docker!Changed, IInv, DockerOK, SvcType
    <3> QED  BY <2>2, <3>1, <3>2, DockerKeepsTypes DEF IInv
  <2> QED  BY <2>1, <2>2 DEF Apply
<1>4. TypeOK'
  BY <1>1, <1>2, <1>3 DEF IInv, TypeOK
<1>5. ObsOK' /\ SnapshotTrue' /\ Resumes'
  BY <1>1, <1>2 DEF IInv, ObsOK, SnapshotTrue, Resumes, Polling, TypeOK
<1>6. Undisturbed'
  BY <1>1, <1>2, <1>3 DEF IInv, Undisturbed, StillNamed, NamedBy, TypeOK
<1> QED  BY <1>3, <1>4, <1>5, <1>6 DEF IInv

(* An observation moves, or ends without a word: nothing else changes.       *)
LEMMA ObservationMoves ==
  ASSUME IInv, UNCHANGED <<dockerVars, out, meddled>>,
         NEW at \in {"idle", "inspect", "list", "reinspect"}, NEW id \in Identity \cup {None},
         NEW failures \in SUBSET failed, NEW snap,
         obs' = [at |-> at, id |-> id, failures |-> failures, snap |-> snap],
         at = "idle" => id = None,
         at # "idle" => out.action # "" /\ out.conclusion \in Pending,
         at # "idle" /\ out.id # None => id = out.id,
         ~meddled /\ out.action # "" => StillNamed(id),
         at \in {"list", "reinspect"} => SnapshotTrue'
  PROVE  IInv'
<1> USE DEF dockerVars
<1>1. obs'.at = at /\ obs'.id = id /\ obs'.failures = failures /\ obs'.snap = snap
  OBVIOUS
<1>2. TypeOK'
  BY <1>1 DEF IInv, TypeOK
<1>3. DockerOK'
  BY DEF IInv, DockerOK, Docker!InState, Docker!AllMoved
<1>4. ObsOK'
  BY <1>1 DEF IInv, ObsOK
<1>5. SnapshotTrue'
  <2>1. CASE at \in {"idle", "inspect"}
    BY <1>1, <2>1 DEF SnapshotTrue, Polling
  <2> QED  BY <2>1
<1>6. Resumes'
  BY <1>1 DEF Resumes
<1>7. Undisturbed'
  BY <1>1 DEF IInv, Undisturbed, StillNamed
<1> QED  BY <1>2, <1>3, <1>4, <1>5, <1>6, <1>7 DEF IInv

LEMMA NoneIsStillNamed == StillNamed(None)
BY DEF StillNamed, NamedBy

LEMMA BeginStep == IInv /\ (Begin \/ Fails) => IInv'
<1> SUFFICES ASSUME IInv, Begin \/ Fails PROVE IInv'
  OBVIOUS
<1>1. CASE Begin
  <2>1. obs' = [at |-> "inspect", id |-> out.id, failures |-> {}, snap |-> None]
    BY <1>1 DEF Begin, Idle
  <2>2. out.id \in Identity \cup {None}
    BY DEF IInv, TypeOK
  <2>3. ~meddled /\ out.action # "" => StillNamed(out.id)
    BY DEF IInv, Undisturbed
  <2>4. UNCHANGED <<dockerVars, out, meddled>> /\ out.action # "" /\ out.conclusion \in Pending
    BY <1>1 DEF Begin
  <2> QED  BY <2>1, <2>2, <2>3, <2>4, ObservationMoves
<1>2. CASE Fails
  <2>1. obs' = [at |-> "idle", id |-> None, failures |-> {}, snap |-> None]
    BY <1>2 DEF Fails, Idle
  <2>2. UNCHANGED <<dockerVars, out, meddled>>
    BY <1>2 DEF Fails
  <2> QED  BY <2>1, <2>2, NoneIsStillNamed, ObservationMoves
<1> QED  BY <1>1, <1>2

LEMMA UnderWay ==
  ASSUME IInv, obs.at # "idle"
  PROVE  /\ obs.id \in Identity \cup {None} /\ obs.failures \in SUBSET failed
         /\ out.action # "" /\ out.conclusion \in Pending
         /\ out.id # None => obs.id = out.id
         /\ ~meddled /\ out.action # "" => StillNamed(obs.id)
         /\ obs = [at |-> obs.at, id |-> obs.id, failures |-> obs.failures, snap |-> obs.snap]
BY DEF IInv, TypeOK, ObsOK, Resumes, Undisturbed

LEMMA InspectStep == IInv /\ Inspect => IInv'
<1> SUFFICES ASSUME IInv, Inspect PROVE IInv'
  OBVIOUS
<1> DEFINE snap == [version |-> svc.version, image |-> ImageOf[svc.spec], status |-> svc.status]
<1>1. obs' = [at |-> "list", id |-> obs.id, failures |-> obs.failures, snap |-> snap]
  BY UnderWay DEF Inspect
<1>2. UNCHANGED <<dockerVars, out, meddled>> /\ obs.at # "idle"
  BY DEF Inspect
<1>3. SnapshotTrue'
  <2>1. svc.version \in Nat /\ svc.status \in StatusType
    BY DEF IInv, DockerOK, SvcType
  <2>2. obs'.at = "list" /\ obs'.snap = snap
    BY <1>1
  <2> QED  BY <1>2, <2>1, <2>2 DEF SnapshotTrue, Polling, dockerVars
<1> HIDE DEF snap
<1> QED  BY <1>1, <1>2, <1>3, UnderWay, ObservationMoves

(* summariseTasks and requiresImageRollout look at the tasks of this instant. *)
LEMMA ListStep == IInv /\ List => IInv'
<1> SUFFICES ASSUME IInv, List PROVE IInv'
  OBVIOUS
<1> DEFINE required == \E spec \in active : ImageOf[spec] # Wanted
           snap == [version |-> obs.snap.version, image |-> obs.snap.image, status |-> obs.snap.status,
                    required |-> required, failed |-> {t \in failed : t.image = Wanted}]
<1>1. obs' = [at |-> "reinspect", id |-> obs.id, failures |-> obs.failures, snap |-> snap]
  BY UnderWay DEF List
<1>2. UNCHANGED <<dockerVars, out, meddled>> /\ obs.at = "list"
  BY DEF List
<1>3. SnapshotTrue'
  <2>1. obs'.at = "reinspect" /\ obs'.snap = snap
    BY <1>1
  <2>2. /\ obs'.snap.version = obs.snap.version /\ obs'.snap.image = obs.snap.image
        /\ obs'.snap.status = obs.snap.status /\ obs'.snap.failed \subseteq failed
        /\ obs'.snap.required = required
    BY <2>1
  <2>3. ~required => \A spec \in active : ImageOf[spec] = Wanted
    OBVIOUS
  <2>4. SnapshotTrue
    BY DEF IInv
  <2> HIDE DEF required, snap
  <2>5. ~obs'.snap.required => \A spec \in active : ImageOf[spec] = Wanted
    BY <2>2, <2>3
  <2> QED  BY <1>2, <2>1, <2>2, <2>4, <2>5 DEF SnapshotTrue, Polling, dockerVars
<1> HIDE DEF snap
<1> QED  BY <1>1, <1>2, <1>3, UnderWay, ObservationMoves

LEMMA PollsAgainStep == IInv /\ PollsAgain => IInv'
<1> SUFFICES ASSUME IInv, PollsAgain PROVE IInv'
  OBVIOUS
<1>1. obs' = [at |-> "inspect", id |-> obs.id, failures |-> obs.failures, snap |-> None]
  BY UnderWay DEF PollsAgain
<1>2. UNCHANGED <<dockerVars, out, meddled>> /\ obs.at # "idle"
  BY DEF PollsAgain
<1> QED  BY <1>1, <1>2, UnderWay, ObservationMoves

-----------------------------------------------------------------------------
(* What a stable snapshot says *)

(* The three calls together: the service has not changed since the first one, *)
(* and no task that is meant to run has started to want another image.       *)
LEMMA StableSnapshot ==
  ASSUME IInv, Stable
  PROVE  /\ obs.at = "reinspect"
         /\ obs.snap.version = svc.version /\ svc.version \in Nat
         /\ obs.snap.status = svc.status /\ svc.status \in StatusType
         /\ obs.snap.image = ImageOf[svc.spec]
         /\ obs.snap.failed \subseteq failed
         /\ obs.snap.image = Wanted /\ ~obs.snap.required =>
              \A spec \in active : ImageOf[spec] = Wanted
BY DEF Stable, Unstable, IInv, SnapshotTrue, Polling, DockerOK, SvcType

LEMMA NamedIsIdentity ==
  ASSUME NEW by \in {"version", "start"}, NEW at \in Nat
  PROVE  /\ Named(by, at) \in Identity /\ Named(by, at).by = by /\ Named(by, at).at = at
         /\ \A id \in Identity : id.by = by /\ id.at = at => id = Named(by, at)
BY DEF Named, Identity

(* An identity is kept, or found where there was none; a version gives way   *)
(* to a start time only in the observation that saw the version.             *)
LEMMA IdentityMovesOn ==
  ASSUME IInv, Stable, StillFollowed(obs.snap)
  PROVE  /\ NextIdentity(obs.snap) \in Identity \cup {None}
         /\ StillNamed(NextIdentity(obs.snap))
         /\ out.id # None => NextIdentity(obs.snap) = out.id
<1>1. /\ obs.at # "idle" /\ obs.id \in Identity \cup {None}
      /\ out.id # None => obs.id = out.id
  BY StableSnapshot, UnderWay
<1>2. /\ obs.snap.version = svc.version /\ svc.version \in Nat
      /\ obs.snap.status = svc.status /\ svc.status \in StatusType
  BY StableSnapshot
<1>3. CASE svc.status # None
  <2>1. svc.status.start \in Nat
    BY <1>2, <1>3 DEF StatusType
  <2>2. NextIdentity(obs.snap) = Named("start", svc.status.start)
    BY <1>2, <1>3 DEF NextIdentity
  <2>3. ASSUME out.id # None PROVE Named("start", svc.status.start) = out.id
    <3>1. obs.id = out.id /\ obs.id \in Identity /\ obs.id.by \in {"version", "start"}
      BY <1>1, <2>3 DEF Identity
    <3>2. CASE obs.id.by = "version"
      BY <1>2, <1>3, <2>3, <3>1, <3>2 DEF StillFollowed, NamedBy, Resumed
    <3>3. CASE obs.id.by = "start"
      <4>1. obs.id.at = svc.status.start
        BY <1>2, <2>3, <3>1, <3>3 DEF StillFollowed, NamedBy
      <4> QED  BY <2>1, <3>1, <3>3, <4>1, NamedIsIdentity
    <3> QED  BY <3>1, <3>2, <3>3
  <2> QED  BY <1>3, <2>1, <2>2, <2>3, NamedIsIdentity DEF StillNamed, NamedBy
<1>4. CASE svc.status = None /\ obs.id = None /\ obs.snap.required
  <2>1. NextIdentity(obs.snap) = Named("version", svc.version)
    BY <1>2, <1>4 DEF NextIdentity
  <2> QED  BY <1>1, <1>2, <1>4, <2>1, NamedIsIdentity DEF StillNamed, NamedBy
<1>5. CASE svc.status = None /\ ~(obs.id = None /\ obs.snap.required)
  <2>1. NextIdentity(obs.snap) = obs.id
    BY <1>2, <1>5 DEF NextIdentity
  <2> QED  BY <1>1, <1>2, <1>5, <2>1 DEF StillFollowed, StillNamed, NamedBy
<1> QED  BY <1>3, <1>4, <1>5

Conclusion == Pending \cup {"completed", "failed", "rolled_back", "superseded"}

LEMMA VerdictIsConclusion ==
  ASSUME IInv, Stable
  PROVE  Verdict(obs.snap) \in Conclusion \ {""}
<1> DEFINE state == IF obs.snap.status = None THEN "none" ELSE obs.snap.status.state
<1>1. state = "none" \/ state \in Docker!RolloutState
  BY StableSnapshot DEF StatusType
<1>2. \A v \in {"in_progress", "rolled_back", "failed", "superseded", "completed"} :
        v \in Conclusion \ {""}
  BY DEF Conclusion, Pending
<1> QED  BY <1>1, <1>2 DEF Verdict, Docker!RolloutState

LEMMA RecordStep ==
  ASSUME IInv, obs.at # "idle", NEW conclusion \in Conclusion \ {""},
         NEW id \in Identity \cup {None}, NEW failures \in SUBSET failed,
         ~meddled => StillNamed(id), Record(conclusion, id, failures)
  PROVE  /\ IInv'
         /\ out'.conclusion = conclusion /\ out'.id = id /\ out'.failures = failures
<1>1. /\ out'.action = out.action /\ out'.conclusion = conclusion
      /\ out'.id = id /\ out'.failures = failures /\ UNCHANGED <<dockerVars, meddled>>
      /\ out' = [action |-> out.action, conclusion |-> conclusion, id |-> id, failures |-> failures]
  BY DEF Record, IInv, TypeOK
<1>2. obs'.at = "idle" /\ obs'.id = None /\ obs'.failures = {}
      /\ obs' = [at |-> "idle", id |-> None, failures |-> {}, snap |-> None] /\ obs'.snap = None
  BY DEF Record, Idle
<1>3. out.action \in {"", "no_change", "updated"} /\ out.action # ""
  BY UnderWay DEF IInv, TypeOK
<1>4. TypeOK'
  <2>1. out' \in [action : {"", "no_change", "updated"}, id : Identity \cup {None},
                 conclusion : Conclusion, failures : SUBSET failed']
    BY <1>1, <1>3 DEF dockerVars
  <2>2. meddled' \in BOOLEAN
    BY <1>1 DEF IInv, TypeOK
  <2>3. out'.conclusion # ""
    BY <1>1
  <2> HIDE DEF Record
  <2> QED  BY <1>2, <2>1, <2>2, <2>3 DEF TypeOK, Conclusion
<1>5. DockerOK'
  BY <1>1 DEF IInv, DockerOK, Docker!InState, Docker!AllMoved, dockerVars
<1>6. ObsOK' /\ SnapshotTrue' /\ Resumes'
  BY <1>1, <1>2, <1>3 DEF ObsOK, SnapshotTrue, Polling, Resumes
<1>7. Undisturbed'
  <2>1. ~meddled => StillNamed(None) /\ StillNamed(id)
    BY NoneIsStillNamed
  <2>2. ~meddled => ImageOf[svc.spec] = Wanted \/ (svc.status # None /\ svc.status.state \in RollingBack)
    BY <1>3 DEF IInv, Undisturbed
  <2> QED  BY <1>1, <1>2, <2>1, <2>2 DEF Undisturbed, StillNamed, dockerVars
<1> QED  BY <1>1, <1>4, <1>5, <1>6, <1>7 DEF IInv

(* What each of the three ways to end an attempt records.                    *)
LEMMA ReplacedStep ==
  ASSUME IInv, FindsReplaced
  PROVE  /\ IInv'
         /\ out'.conclusion = "superseded" /\ out'.id = obs.id
         /\ out'.failures = LostFailures(obs.snap)
<1>1. "superseded" \in Conclusion \ {""}
  BY DEF Conclusion
<1>2. LostFailures(obs.snap) \in SUBSET failed
  BY StableSnapshot DEF FindsReplaced, LostFailures, Failures
<1>3. Record("superseded", obs.id, LostFailures(obs.snap)) /\ obs.at # "idle"
  BY DEF FindsReplaced, Stable
<1> QED  BY <1>1, <1>2, <1>3, UnderWay, RecordStep

LEMMA SoFarIsFailed ==
  ASSUME IInv, Stable
  PROVE  FailuresSoFar(obs.snap) \in SUBSET failed
BY StableSnapshot DEF FailuresSoFar, Failures

LEMMA ConcludesStep ==
  ASSUME IInv, Concludes
  PROVE  /\ IInv'
         /\ out'.conclusion = Verdict(obs.snap) /\ out'.id = NextIdentity(obs.snap)
<1>1. Stable /\ StillFollowed(obs.snap) /\ obs.at # "idle"
      /\ Record(Verdict(obs.snap), NextIdentity(obs.snap), FailuresSoFar(obs.snap))
  BY DEF Concludes, Stable
<1> QED  BY <1>1, VerdictIsConclusion, SoFarIsFailed, IdentityMovesOn, RecordStep

LEMMA KeepsPollingStep ==
  ASSUME IInv, KeepsPolling
  PROVE  IInv'
<1>1. /\ Stable /\ StillFollowed(obs.snap) /\ obs.at # "idle"
      /\ UNCHANGED <<dockerVars, out, meddled>>
      /\ obs' = [at |-> "inspect", id |-> NextIdentity(obs.snap),
                 failures |-> FailuresSoFar(obs.snap), snap |-> None]
  BY DEF KeepsPolling, Stable, Idle
<1> QED  BY <1>1, UnderWay, SoFarIsFailed, IdentityMovesOn, ObservationMoves

LEMMA EndsStep ==
  ASSUME IInv, Ends
  PROVE  IInv' /\ out'.conclusion = "in_progress" /\ out'.id = obs.id
<1>1. "in_progress" \in Conclusion \ {""}
  BY DEF Conclusion, Pending
<1>2. Record("in_progress", obs.id, obs.failures) /\ obs.at # "idle"
  BY DEF Ends
<1> QED  BY <1>1, <1>2, UnderWay, RecordStep

LEMMA InvNext == IInv /\ [Next]_vars => IInv'
<1> SUFFICES ASSUME IInv, [Next]_vars PROVE IInv'
  OBVIOUS
<1>1. CASE UNCHANGED vars
  <2> USE <1>1 DEF vars, dockerVars, IInv
  <2>1. TypeOK' /\ ObsOK' /\ Resumes'
    BY DEF TypeOK, ObsOK, Resumes
  <2>2. DockerOK'
    BY DEF DockerOK, Docker!InState, Docker!AllMoved
  <2>3. SnapshotTrue'
    BY DEF SnapshotTrue, Polling
  <2>4. Undisturbed'
    BY DEF Undisturbed, StillNamed
  <2> QED  BY <2>1, <2>2, <2>3, <2>4
<1>2. CASE Next
  BY <1>2, DockerStep, ApplyStep, BeginStep, InspectStep, ListStep, PollsAgainStep, ReplacedStep,
    ConcludesStep, KeepsPollingStep, EndsStep DEF Next, Poll
<1> QED  BY <1>1, <1>2

(* The invariant holds in every reachable state.                             *)
THEOREM Invariance == Spec => []IInv
BY InvInit, InvNext, PTL DEF Spec

(* The outcome recorded for a token and the observation under way have the   *)
(* types the code gives them, and report only failures Docker knows of.      *)
THEOREM TypeCorrect == Spec => []TypeOK
<1>1. IInv => TypeOK
  BY DEF IInv
<1> QED  BY <1>1, Invariance, PTL

-----------------------------------------------------------------------------
(* What is reported *)

(* An attempt that gets to a verdict saw a stable snapshot.                  *)
LEMMA ReportsFromSnapshot ==
  ASSUME IInv, [Next]_vars, Reported
  PROVE  /\ Stable
         /\ \/ FindsReplaced /\ out'.conclusion = "superseded" /\ out'.id = obs.id
               /\ out'.failures = LostFailures(obs.snap)
            \/ Concludes /\ out'.conclusion = Verdict(obs.snap) /\ out'.id = NextIdentity(obs.snap)
<1>1. out'.conclusion \notin Pending /\ out.conclusion \in Pending
  BY DEF Reported
<1>2. out' # out
  BY <1>1
<1>3. CASE Apply
  <2>1. out'.conclusion = out.conclusion
    BY <1>3 DEF Apply, IInv, TypeOK
  <2> QED  BY <1>1, <2>1
<1>4. CASE Ends
  BY <1>1, <1>4, EndsStep DEF Pending
<1>5. CASE FindsReplaced
  BY <1>5, ReplacedStep DEF FindsReplaced
<1>6. CASE Concludes
  BY <1>6, ConcludesStep DEF Concludes
<1>7. CASE DockerMoves \/ Begin \/ Inspect \/ List \/ PollsAgain \/ KeepsPolling \/ Fails
  BY <1>2, <1>7 DEF DockerMoves, Begin, Inspect, List, PollsAgain, KeepsPolling, Fails
<1> QED  BY <1>2, <1>3, <1>4, <1>5, <1>6, <1>7 DEF Next, Poll, vars

(* completed is true of the service as it is when the last of the three      *)
(* calls of the poll answers.                                                *)
THEOREM CompletedOnlyIfTrue == Spec => CompletedIsTrue
<1>1. ASSUME IInv, [Next]_vars, Reported, out'.conclusion = "completed"
      PROVE  ImageOf[svc.spec] = Wanted /\ \A spec \in active : ImageOf[spec] = Wanted
  <2>1. Stable /\ Verdict(obs.snap) = "completed"
    BY <1>1, ReportsFromSnapshot
  <2>2. /\ obs.snap.image = Wanted /\ obs.snap.image = ImageOf[svc.spec]
        /\ obs.snap.status = svc.status
        /\ \/ svc.status = None /\ ~obs.snap.required
           \/ svc.status # None /\ svc.status.state = "completed"
    BY <1>1, <2>1, StableSnapshot DEF Verdict, StatusType, Docker!RolloutState
  <2>3. CASE svc.status = None /\ ~obs.snap.required
    BY <1>1, <2>1, <2>2, <2>3, StableSnapshot
  <2>4. CASE svc.status # None /\ svc.status.state = "completed"
    <3>1. active \subseteq {svc.spec}
      BY <1>1, <2>4 DEF IInv, DockerOK, Docker!InState, Docker!AllMoved
    <3> QED  BY <2>2, <3>1
  <2> QED  BY <2>2, <2>3, <2>4
<1>2. IInv /\ [Next]_vars =>
        [Reported /\ out'.conclusion = "completed" =>
           ImageOf[svc.spec] = Wanted /\ \A spec \in active : ImageOf[spec] = Wanted]_vars
  BY <1>1
<1> QED  BY <1>2, Invariance, PTL DEF Spec, CompletedIsTrue

(* A verdict other than superseded is about the rollout the record named.    *)
THEOREM VerdictIsOfNamedRollout == Spec => ResumedVerdictIsOfSameRollout
<1>1. ASSUME IInv, [Next]_vars, Reported, out'.conclusion # "superseded"
      PROVE  /\ NamedBy(out.id, "start") => svc.status # None /\ svc.status.start = out.id.at
             /\ NamedBy(out.id, "version") => svc.version = out.id.at /\ svc.status = None
  <2>1. Stable /\ StillFollowed(obs.snap)
    BY <1>1, ReportsFromSnapshot DEF Concludes
  <2>2. obs.snap.version = svc.version /\ obs.snap.status = svc.status
    BY <1>1, <2>1, StableSnapshot
  <2>3. out.id # None => obs.id = out.id
    BY <1>1, <2>1, UnderWay, StableSnapshot
  <2> QED  BY <2>1, <2>2, <2>3 DEF StillFollowed, NamedBy, Resumed
<1>2. IInv /\ [Next]_vars =>
        [Reported /\ out'.conclusion # "superseded" =>
           /\ NamedBy(out.id, "start") => svc.status # None /\ svc.status.start = out.id.at
           /\ NamedBy(out.id, "version") => svc.version = out.id.at /\ svc.status = None]_vars
  BY <1>1
<1> QED  BY <1>2, Invariance, PTL DEF Spec, ResumedVerdictIsOfSameRollout

(* Docker's own progress is never taken for somebody else's change, unless a *)
(* retry has nothing but a version to go by.                                 *)
THEOREM SupersededOnlyWithCause == Spec => SupersededHasCause
<1>1. ASSUME IInv, [Next]_vars, Reported, out'.conclusion = "superseded", ~meddled
      PROVE  NamedBy(out.id, "version")
  <2>1. /\ Stable /\ obs.at # "idle" /\ out.action # ""
        /\ obs.snap.version = svc.version /\ obs.snap.status = svc.status
        /\ obs.snap.image = ImageOf[svc.spec] /\ svc.status \in StatusType
    BY <1>1, ReportsFromSnapshot, StableSnapshot, UnderWay
  <2>2. StillNamed(obs.id)
        /\ (ImageOf[svc.spec] = Wanted \/ (svc.status # None /\ svc.status.state \in RollingBack))
    BY <1>1, <2>1 DEF IInv, Undisturbed
  <2>3. CASE FindsReplaced
    BY <2>1, <2>2, <2>3 DEF FindsReplaced, StillFollowed, StillNamed, NamedBy, Resumed
  <2>4. CASE Concludes /\ Verdict(obs.snap) = "superseded"
    <3>1. svc.status = None \/ svc.status.state \notin RollingBack
      BY <2>1, <2>4 DEF Verdict, RollingBack, StatusType, Docker!RolloutState
    <3>2. ImageOf[svc.spec] # Wanted
      BY <2>1, <2>4 DEF Verdict, StatusType, Docker!RolloutState
    <3> QED  BY <2>2, <3>1, <3>2
  <2> QED  BY <1>1, <2>3, <2>4, ReportsFromSnapshot
<1>2. IInv /\ [Next]_vars =>
        [Reported /\ out'.conclusion = "superseded" => meddled \/ NamedBy(out.id, "version")]_vars
  BY <1>1
<1> QED  BY <1>2, Invariance, PTL DEF Spec, SupersededHasCause

(* The failures of a replaced rollout end where its successor started.       *)
THEOREM FailuresEndWithRollout == Spec => FailuresAreNotTheSuccessors
<1>1. ASSUME IInv, [Next]_vars, Reported, svc.status # None,
             out'.id # Named("start", svc.status.start), NEW t \in out'.failures
      PROVE  t.created < svc.status.start
  <2>1. Stable /\ obs.snap.status = svc.status
    BY <1>1, ReportsFromSnapshot, StableSnapshot
  <2>2. NextIdentity(obs.snap) = Named("start", svc.status.start)
    BY <1>1, <2>1 DEF NextIdentity
  <2>3. out'.failures = LostFailures(obs.snap)
    BY <1>1, <2>2, ReportsFromSnapshot
  <2> QED  BY <1>1, <2>1, <2>3 DEF LostFailures, Failures
<1>2. IInv /\ [Next]_vars =>
        [Reported /\ svc.status # None /\ out'.id # Named("start", svc.status.start) =>
           \A t \in out'.failures : t.created < svc.status.start]_vars
  BY <1>1
<1> QED  BY <1>2, Invariance, PTL DEF Spec, FailuresAreNotTheSuccessors

-----------------------------------------------------------------------------
(* Retries follow one rollout *)

LEMMA FollowsInit == Init => Follows!Init
<1> SUFFICES ASSUME Init PROVE Follows!Init
  OBVIOUS
<1>1. out = [action |-> "", conclusion |-> "", id |-> None, failures |-> {}]
  BY DEF Init
<1>2. out.id = None /\ out.conclusion \in Pending
  BY <1>1 DEF Pending
<1> QED  BY <1>2 DEF Follows!Init

LEMMA FollowsStep ==
  ASSUME IInv, [Next]_vars
  PROVE  [Follows!Report]_<<out.id, IF out.conclusion \in Pending THEN "pending" ELSE out.conclusion>>
<1> DEFINE verdict == IF out.conclusion \in Pending THEN "pending" ELSE out.conclusion
<1>1. ASSUME out.conclusion \in Pending, out'.conclusion \in Conclusion,
             \/ out.id = None /\ out'.id \in Identity
             \/ out'.id = out.id
             \/ out'.id = None /\ out'.conclusion = "superseded"
      PROVE  Follows!Report
  BY <1>1 DEF Follows!Report, Follows!Verdict, Conclusion, Pending
<1>2. CASE out' = out
  BY <1>2
<1>3. CASE Apply
  BY <1>3 DEF Apply, IInv, TypeOK
<1>4. CASE Ends
  <2>1. /\ out'.conclusion = "in_progress" /\ out'.id = obs.id
        /\ obs.id \in Identity \cup {None} /\ (out.id # None => obs.id = out.id)
        /\ out.conclusion \in Pending
    BY <1>4, EndsStep, UnderWay DEF Ends
  <2> QED  BY <1>1, <2>1 DEF Conclusion, Pending
<1>5. CASE FindsReplaced
  <2>1. /\ out'.conclusion = "superseded" /\ out'.id = obs.id
        /\ obs.id \in Identity \cup {None} /\ (out.id # None => obs.id = out.id)
        /\ out.conclusion \in Pending
    BY <1>5, ReplacedStep, UnderWay DEF FindsReplaced, Stable
  <2> QED  BY <1>1, <2>1 DEF Conclusion
<1>6. CASE Concludes
  <2>1. Stable /\ StillFollowed(obs.snap) /\ obs.at # "idle"
    BY <1>6 DEF Concludes, Stable
  <2>2. /\ out'.conclusion \in Conclusion /\ out'.id = NextIdentity(obs.snap)
        /\ out.conclusion \in Pending
    BY <1>6, <2>1, ConcludesStep, VerdictIsConclusion, UnderWay
  <2>3. /\ NextIdentity(obs.snap) \in Identity \cup {None}
        /\ out.id # None => NextIdentity(obs.snap) = out.id
    BY <2>1, IdentityMovesOn
  <2> QED  BY <1>1, <2>2, <2>3
<1>7. CASE DockerMoves \/ Begin \/ Inspect \/ List \/ PollsAgain \/ KeepsPolling \/ Fails
  BY <1>2, <1>7 DEF DockerMoves, Begin, Inspect, List, PollsAgain, KeepsPolling, Fails
<1> QED  BY <1>2, <1>3, <1>4, <1>5, <1>6, <1>7 DEF Next, Poll, vars

(* Observer implements Following: over all its retries a token speaks of one *)
(* rollout, and its verdict is final.                                        *)
THEOREM ImplementsFollowing == Spec => FollowsOneRollout
<1>1. IInv /\ [Next]_vars =>
        [Follows!Report]_<<out.id, IF out.conclusion \in Pending THEN "pending" ELSE out.conclusion>>
  BY FollowsStep
<1> QED  BY <1>1, FollowsInit, Invariance, PTL DEF Spec, FollowsOneRollout, Follows!Spec
=============================================================================
