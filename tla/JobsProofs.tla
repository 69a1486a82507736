----------------------------- MODULE JobsProofs -----------------------------
(***************************************************************************)
(* Proofs about Jobs, for any images and settings, any number of changes   *)
(* by others, tasks and retries.                                           *)
(*                                                                         *)
(* The argument: every change of the service advances its version, so an   *)
(* inspected service of the same version is the service (SeenOK), and what *)
(* its tasks have done is done (EndedOK, FoundOK); an update is only sent, *)
(* and only taken, at a version at which the execution had ended; and once *)
(* one is taken the version is past all that were ever sent (OnceOK).      *)
(***************************************************************************)
EXTENDS Jobs, FiniteSetTheorems, TLAPS

SvcIs(id, version, iteration, spec, prev) ==
  [id |-> id, version |-> version, iteration |-> iteration, spec |-> spec, prev |-> prev]
OutIs(action, conclusion, id, iteration, version) ==
  [action |-> action, conclusion |-> conclusion, id |-> id, iteration |-> iteration,
   version |-> version]
WorkIs(at, action, id, iteration, awaiting, prior, seen, found) ==
  [at |-> at, action |-> action, id |-> id, iteration |-> iteration, awaiting |-> awaiting,
   prior |-> prior, seen |-> seen, found |-> found]

Ended == Docker!Of(svc.iteration) # {} /\ Docker!Live = {}
Succeeded(iteration) ==
  \E t \in tasks : t.iteration = iteration /\ t.image = Wanted /\ t.state = "complete"

DockerOK ==
  /\ svc = SvcIs(svc.id, svc.version, svc.iteration, svc.spec, svc.prev)
  /\ svc.spec \in Docker!ServiceSpec
  /\ \A t \in tasks : /\ t = [iteration |-> t.iteration, n |-> t.n, image |-> t.image,
                              state |-> t.state, listed |-> t.listed]
                      /\ t.iteration \in Nat /\ t.iteration <= svc.iteration
                      /\ t.iteration = svc.iteration => t.image = svc.spec.image
                      /\ t.state = "live" => t.listed

Looking == work.at \in {"list", "confirm", "update", "reply"}
Updating == work.action = "not_applied"
Current == work.seen.version = svc.version

WorkOK ==
  /\ work = WorkIs(work.at, work.action, work.id, work.iteration, work.awaiting,
                   work.prior, work.seen, work.found)
  /\ work.at \in {"idle", "inspect", "list", "confirm", "update", "reply", "poll"}
  /\ work.action \in {"not_applied", "no_change", "updated"}
  /\ work.awaiting \in BOOLEAN
  /\ work.at \in {"inspect", "update", "reply"} => Updating
  /\ work.at = "poll" => ~Updating
  /\ work.awaiting => work.at = "poll" /\ work.action = "updated"
  /\ work.at # "idle" /\ ~Updating => work.iteration \in Nat
  /\ work.at = "confirm" => work.found \in {"in_progress", "completed", "failed"}
  /\ wire # "none" => work.at = "reply"

OutOK ==
  /\ out = OutIs(out.action, out.conclusion, out.id, out.iteration, out.version)
  /\ out.action \in {"", "indeterminate"} => out.conclusion = ""
  /\ out.action \notin {"no_change", "updated"} => out.iteration = None
  /\ work.at # "idle" => Pending
  /\ work.at # "idle" /\ Updating => out.action \in {"", "indeterminate"}
  /\ work.at # "idle" /\ out.iteration # None =>
       /\ ~Updating /\ ~work.awaiting
       /\ work.iteration = out.iteration /\ work.action = out.action
  /\ out.action = "" => late = {}
  /\ out.action = "indeterminate" => out.version <= svc.version

(* An inspected service of the same version is the service.                  *)
SeenOK ==
  Looking =>
    /\ work.seen.version \in Nat /\ work.seen.iteration \in Nat
    /\ work.seen.version <= svc.version
    /\ Current => work.seen = svc
    /\ Updating => work.seen.spec.image # Wanted
    /\ ~Updating => work.seen.spec.image = Wanted /\ work.seen.iteration = work.iteration

(* Whoever updates at the version of the service finds its execution ended.  *)
EndedOK ==
  /\ work.at = "confirm" /\ work.found # "in_progress" /\ Current => Ended
  /\ work.at \in {"update", "reply"} /\ Current => Ended
  /\ \A v \in late : /\ v <= svc.version
                     /\ v = svc.version => Ended /\ svc.spec.image # Wanted

FoundOK ==
  work.at = "confirm" /\ ~Updating /\ work.found = "completed" /\ Current =>
    Succeeded(work.iteration)

(* Once an update is taken, no other one can be.                             *)
OnceOK ==
  /\ taken = {} \/ \E e : taken = {e}
  /\ taken # {} =>
       /\ \A v \in late : v < svc.version
       /\ Looking /\ Updating => work.seen.version < svc.version
       /\ out.action = "indeterminate" => out.version < svc.version
       /\ out.action = "" => work.at \notin {"idle", "inspect"}

(* As long as nobody brings the spec before the update back, the execution   *)
(* with that previous spec is the one of the update.                         *)
OursOK ==
  /\ \A e \in taken : e.before \in Docker!ServiceSpec /\ e.iteration \in Nat
  /\ ~undone => \A e \in taken : /\ svc.spec # e.before
                                 /\ svc.iteration = e.iteration \/ svc.prev # e.before
  /\ wire = "accepted" => \E e \in taken : e.before = work.seen.spec
  /\ work.awaiting => \E e \in taken : e.before = work.prior
  /\ ~undone /\ work.at # "idle" /\ work.action = "updated" /\ ~work.awaiting =>
       \E e \in taken : e.iteration = work.iteration

IInv ==
  /\ TypeOK /\ DockerOK /\ WorkOK /\ OutOK /\ SeenOK /\ EndedOK /\ FoundOK /\ OnceOK
  /\ OursOK /\ AdoptedIsOurs

LEMMA InvInit == Init => IInv
<1> SUFFICES ASSUME Init PROVE IInv
  OBVIOUS
<1>1. PICK spec \in Docker!ServiceSpec : svc = SvcIs(1, 1, 1, spec, None)
  BY DEF Init, Docker!DockerInit, SvcIs
<1>2. tasks = {} \/ tasks = {Docker!Task(1, 1, spec)}
  BY <1>1 DEF Init, Docker!DockerInit, SvcIs
<1>3. /\ out = OutIs("", "", None, None, None)
      /\ work = WorkIs("idle", "not_applied", None, None, FALSE, None, None, "")
      /\ wire = "none" /\ late = {} /\ taken = {} /\ undone = FALSE
  BY DEF Init, OutIs, WorkIs, Idle
<1>4. svc.id = 1 /\ svc.version = 1 /\ svc.iteration = 1 /\ svc.spec = spec /\ svc.prev = None
  BY <1>1 DEF SvcIs
<1>5. TypeOK
  <2>1. 1 \in Nat /\ 1 \in 1 .. 1
    OBVIOUS
  <2>2. None \notin Nat
    BY JobsAssumption
  <2> QED  BY <1>3, <1>4, <2>1, <2>2 DEF TypeOK, OutIs
<1>6. DockerOK
  BY <1>1, <1>2, <1>4 DEF DockerOK, Docker!Task
<1>7. WorkOK /\ OutOK
  BY <1>3 DEF WorkOK, OutOK, WorkIs, OutIs, Updating, Pending
<1>8. SeenOK /\ EndedOK /\ FoundOK /\ OnceOK /\ OursOK
  BY <1>3 DEF SeenOK, EndedOK, FoundOK, OnceOK, OursOK, Looking, WorkIs
<1>9. AdoptedIsOurs
  BY <1>3 DEF AdoptedIsOurs, OutIs
<1> QED  BY <1>5, <1>6, <1>7, <1>8, <1>9 DEF IInv

-----------------------------------------------------------------------------
(* What Docker does *)

Numbers == svc.id \in Nat /\ svc.version \in Nat /\ svc.iteration \in 1 .. svc.version

LEMMA NumbersTyped == TypeOK => Numbers
BY DEF TypeOK, Numbers

(* A new execution has no task yet, and those that are kept have ended.      *)
LEMMA ExecuteStep ==
  ASSUME DockerOK, Numbers, NEW spec \in Docker!ServiceSpec, Docker!Execute(spec)
  PROVE  /\ DockerOK' /\ Numbers'
         /\ svc'.version = svc.version + 1 /\ svc'.iteration = svc.version + 1
         /\ svc'.spec = spec /\ svc'.prev = svc.spec
<1>1. svc' = SvcIs(svc.id, svc.version + 1, svc.version + 1, spec, svc.spec)
  BY DEF DockerOK, Docker!Execute, SvcIs
<1>2. /\ svc'.id = svc.id /\ svc'.version = svc.version + 1 /\ svc'.iteration = svc.version + 1
      /\ svc'.spec = spec /\ svc'.prev = svc.spec
  BY <1>1 DEF SvcIs
<1>3. Numbers'
  BY <1>2 DEF Numbers
<1>4. ASSUME NEW t \in tasks'
      PROVE  /\ t = [iteration |-> t.iteration, n |-> t.n, image |-> t.image,
                     state |-> t.state, listed |-> t.listed]
             /\ t.iteration \in Nat /\ t.iteration < svc'.iteration /\ t.state # "live"
  <2>1. PICK u \in tasks : t = [u EXCEPT !.state = IF @ = "live" THEN "failed" ELSE @]
    BY <1>4 DEF Docker!Execute, Docker!Of
  <2>2. /\ u = [iteration |-> u.iteration, n |-> u.n, image |-> u.image,
                state |-> u.state, listed |-> u.listed]
        /\ u.iteration \in Nat /\ u.iteration <= svc.iteration
    BY DEF DockerOK
  <2>3. t = [iteration |-> u.iteration, n |-> u.n, image |-> u.image,
             state |-> IF u.state = "live" THEN "failed" ELSE u.state, listed |-> u.listed]
    BY <2>1, <2>2
  <2>4. u.iteration < svc'.iteration
    BY <1>2, <2>2 DEF Numbers
  <2> QED  BY <2>2, <2>3, <2>4
<1>5. DockerOK'
  <2>1. svc' = SvcIs(svc'.id, svc'.version, svc'.iteration, svc'.spec, svc'.prev)
        /\ svc'.spec \in Docker!ServiceSpec
    BY <1>1, <1>2
  <2>2. svc'.iteration \in Nat
    BY <1>2 DEF Numbers
  <2>3. ASSUME NEW t \in tasks'
        PROVE  /\ t = [iteration |-> t.iteration, n |-> t.n, image |-> t.image,
                       state |-> t.state, listed |-> t.listed]
               /\ t.iteration \in Nat /\ t.iteration <= svc'.iteration
               /\ t.iteration # svc'.iteration /\ t.state # "live"
    BY <1>4, <2>2, <2>3
  <2> QED  BY <2>1, <2>3 DEF DockerOK
<1> QED  BY <1>2, <1>3, <1>5

LEMMA RecreateStep ==
  ASSUME DockerOK, Numbers, NEW spec \in Docker!ServiceSpec, Docker!Recreate(spec)
  PROVE  /\ DockerOK' /\ Numbers'
         /\ svc'.version = svc.version + 1 /\ svc'.iteration = svc.version + 1
         /\ svc'.spec = spec /\ svc'.prev = None
<1>1. svc' = SvcIs(svc.version + 1, svc.version + 1, svc.version + 1, spec, None) /\ tasks' = {}
  BY DEF Docker!Recreate, SvcIs
<1>2. /\ svc'.id = svc.version + 1 /\ svc'.version = svc.version + 1
      /\ svc'.iteration = svc.version + 1 /\ svc'.spec = spec /\ svc'.prev = None
  BY <1>1 DEF SvcIs
<1> QED  BY <1>1, <1>2 DEF DockerOK, Numbers

(* What Docker does of itself: the service stays what it is, but for its     *)
(* version, and an execution that has ended has ended for good.              *)
LEMMA OrchestratorStep ==
  ASSUME DockerOK, Numbers, Docker!Orchestrator
  PROVE  /\ DockerOK' /\ Numbers'
         /\ svc'.spec = svc.spec /\ svc'.prev = svc.prev /\ svc'.iteration = svc.iteration
         /\ svc'.version # svc.version + 1 => svc' = svc
         /\ svc' = svc => (Ended => Ended') /\ \A i : Succeeded(i) => Succeeded(i)'
<1>1. CASE Docker!Touch
  <2>1. svc' = SvcIs(svc.id, svc.version + 1, svc.iteration, svc.spec, svc.prev) /\ tasks' = tasks
    BY <1>1 DEF Docker!Touch, DockerOK, SvcIs
  <2>2. /\ svc'.id = svc.id /\ svc'.version = svc.version + 1 /\ svc'.iteration = svc.iteration
        /\ svc'.spec = svc.spec /\ svc'.prev = svc.prev
    BY <2>1 DEF SvcIs
  <2>3. DockerOK' /\ Numbers'
    BY <2>1, <2>2 DEF DockerOK, Numbers
  <2>4. svc' # svc
    BY <2>2 DEF Numbers
  <2> QED  BY <2>2, <2>3, <2>4
<1>2. ASSUME svc' = svc, DockerOK', Ended => Ended', \A i : Succeeded(i) => Succeeded(i)'
      PROVE  /\ DockerOK' /\ Numbers'
             /\ svc'.spec = svc.spec /\ svc'.prev = svc.prev /\ svc'.iteration = svc.iteration
             /\ svc'.version # svc.version + 1 => svc' = svc
             /\ svc' = svc => (Ended => Ended') /\ \A i : Succeeded(i) => Succeeded(i)'
  BY <1>2 DEF Numbers
<1>3. CASE Docker!Spawn
  <2>1. PICK n \in {1, 2} : tasks' = tasks \cup {Docker!Task(svc.iteration, n, svc.spec)}
    BY <1>3 DEF Docker!Spawn
  <2>2. svc' = svc /\ ~Ended
    BY <1>3 DEF Docker!Spawn, Ended
  <2>3. DockerOK'
    <3> DEFINE u == Docker!Task(svc.iteration, n, svc.spec)
    <3>1. svc.iteration \in Nat
      BY DEF Numbers
    <3>2. /\ u = [iteration |-> u.iteration, n |-> u.n, image |-> u.image,
                  state |-> u.state, listed |-> u.listed]
          /\ u.iteration = svc.iteration /\ u.image = svc.spec.image /\ u.listed
      BY DEF Docker!Task
    <3>3. tasks' = tasks \cup {u}
      BY <2>1
    <3> HIDE DEF u
    <3> QED  BY <2>2, <3>1, <3>2, <3>3 DEF DockerOK
  <2>4. \A i : Succeeded(i) => Succeeded(i)'
    BY <2>1 DEF Succeeded
  <2> QED  BY <1>2, <2>2, <2>3, <2>4
<1>4. CASE Docker!TaskEnds
  <2>1. PICK t \in Docker!Live, state \in {"complete", "failed"} :
          tasks' = (tasks \ {t}) \cup {[t EXCEPT !.state = state]}
    BY <1>4 DEF Docker!TaskEnds
  <2>2. svc' = svc /\ ~Ended /\ t \in tasks /\ t.state = "live"
    BY <1>4 DEF Docker!TaskEnds, Ended, Docker!Live, Docker!Of
  <2>3. [t EXCEPT !.state = state] =
          [iteration |-> t.iteration, n |-> t.n, image |-> t.image, state |-> state, listed |-> t.listed]
    BY <2>2 DEF DockerOK
  <2>4. DockerOK'
    BY <2>1, <2>2, <2>3 DEF DockerOK
  <2>5. \A i : Succeeded(i) => Succeeded(i)'
    BY <2>1, <2>2 DEF Succeeded
  <2> QED  BY <1>2, <2>2, <2>4, <2>5
<1>5. CASE Docker!Forget
  <2>1. PICK t \in Docker!Of(svc.iteration) :
          t.listed /\ t.state # "live" /\ tasks' = (tasks \ {t}) \cup {[t EXCEPT !.listed = FALSE]}
    BY <1>5 DEF Docker!Forget
  <2>2. svc' = svc /\ t \in tasks /\ t.iteration = svc.iteration
    BY <1>5 DEF Docker!Forget, Docker!Of
  <2> DEFINE u == [t EXCEPT !.listed = FALSE]
  <2>3. u = [iteration |-> t.iteration, n |-> t.n, image |-> t.image, state |-> t.state, listed |-> FALSE]
    <3>1. t = [iteration |-> t.iteration, n |-> t.n, image |-> t.image, state |-> t.state, listed |-> t.listed]
      BY <2>2 DEF DockerOK
    <3>2. ASSUME NEW listed
          PROVE  [t EXCEPT !.listed = listed] =
            [iteration |-> t.iteration, n |-> t.n, image |-> t.image, state |-> t.state, listed |-> listed]
      BY <3>1
    <3> QED  BY <3>2, Zenon
  <2>4. /\ u.iteration = t.iteration /\ u.state = t.state /\ u.image = t.image
        /\ u = [iteration |-> u.iteration, n |-> u.n, image |-> u.image, state |-> u.state, listed |-> u.listed]
    BY <2>3
  <2>5. tasks' = (tasks \ {t}) \cup {u}
    BY <2>1
  <2> HIDE DEF u
  <2>6. DockerOK'
    BY <2>1, <2>2, <2>4, <2>5 DEF DockerOK
  <2>7. \A i : Succeeded(i) => Succeeded(i)'
    BY <2>4, <2>5 DEF Succeeded
  <2>8. Ended => Ended'
    BY <2>1, <2>2, <2>4, <2>5 DEF Ended, Docker!Live, Docker!Of
  <2> QED  BY <1>2, <2>2, <2>6, <2>7, <2>8
<1> QED  BY <1>1, <1>3, <1>4, <1>5 DEF Docker!Orchestrator

-----------------------------------------------------------------------------
(* Docker's steps preserve the invariant *)

(* What the worker knows survives any change of the service, as that         *)
(* advances the version.                                                     *)
LEMMA KnowledgeSurvives ==
  ASSUME IInv, UNCHANGED <<out, work>>, Numbers', svc.version \in Nat,
         \/ svc' = svc /\ (Ended => Ended') /\ \A i : Succeeded(i) => Succeeded(i)'
         \/ svc'.version = svc.version + 1,
         late' \subseteq late, wire' # "none" => wire # "none"
  PROVE  /\ WorkOK' /\ OutOK' /\ SeenOK' /\ EndedOK' /\ FoundOK'
         /\ out.action = "indeterminate" => out.version \in Nat
         /\ late \subseteq Nat
<1>1. late \subseteq Nat /\ (out.action = "indeterminate" => out.version \in Nat)
  BY DEF IInv, TypeOK
<1>2. WorkOK'
  BY DEF IInv, WorkOK, Updating
<1>3. svc'.version \in Nat /\ svc.version <= svc'.version
  BY DEF Numbers
<1>4. OutOK'
  <2>1. ASSUME out.action = "indeterminate" PROVE out.version <= svc'.version
    <3>1. out.version \in Nat /\ out.version <= svc.version
      BY <1>1, <2>1 DEF IInv, OutOK
    <3> QED  BY <1>3, <3>1
  <2>2. out.action = "" => late' = {}
    BY DEF IInv, OutOK
  <2> QED  BY <2>1, <2>2 DEF IInv, OutOK, Updating, Pending
<1>5. CASE svc' = svc /\ (Ended => Ended') /\ \A i : Succeeded(i) => Succeeded(i)'
  <2>1. SeenOK'
    BY <1>5 DEF IInv, SeenOK, Looking, Updating, Current
  <2>2. EndedOK'
    BY <1>5 DEF IInv, EndedOK, Current
  <2>3. FoundOK'
    BY <1>5 DEF IInv, FoundOK, Updating, Current
  <2> QED  BY <1>1, <1>2, <1>4, <2>1, <2>2, <2>3
<1>6. CASE svc'.version = svc.version + 1
  <2>1. SeenOK' /\ (Looking => ~Current')
    <3>1. ASSUME Looking PROVE work.seen.version <= svc'.version /\ work.seen.version # svc'.version
      <4>1. work.seen.version \in Nat /\ work.seen.version <= svc.version
        BY <3>1 DEF IInv, SeenOK
      <4> QED  BY <1>6, <4>1
    <3> QED  BY <3>1 DEF IInv, SeenOK, Looking, Updating, Current
  <2>2. EndedOK'
    <3>1. ASSUME NEW v \in late' PROVE v <= svc'.version /\ v # svc'.version
      <4>1. v \in Nat /\ v <= svc.version
        BY <1>1, <3>1 DEF IInv, EndedOK
      <4> QED  BY <1>6, <4>1
    <3> QED  BY <2>1, <3>1 DEF EndedOK, Looking
  <2>3. FoundOK'
    BY <2>1 DEF FoundOK, Looking
  <2> QED  BY <1>1, <1>2, <1>4, <2>1, <2>2, <2>3
<1> QED  BY <1>5, <1>6

LEMMA OthersStep == IInv /\ Others => IInv'
<1> SUFFICES ASSUME IInv, Others PROVE IInv'
  OBVIOUS
<1>1. UNCHANGED <<out, work, wire, late, taken>> /\ DockerOK /\ Numbers /\ svc.version \in Nat
  BY NumbersTyped DEF Others, IInv, Numbers
<1>2. /\ DockerOK' /\ Numbers' /\ undone' \in BOOLEAN /\ (undone => undone')
      /\ \/ /\ svc'.spec = svc.spec /\ svc'.prev = svc.prev /\ svc'.iteration = svc.iteration
            /\ \/ svc' = svc /\ (Ended => Ended') /\ \A i : Succeeded(i) => Succeeded(i)'
               \/ svc'.version = svc.version + 1
         \/ /\ svc'.version = svc.version + 1 /\ svc'.prev \in {svc.spec, None}
            /\ ~undone' => \A e \in taken : svc'.spec # e.before
  <2>1. CASE Docker!Orchestrator /\ UNCHANGED undone
    <3>1. undone' \in BOOLEAN
      BY <2>1 DEF IInv, TypeOK
    <3> QED  BY <1>1, <2>1, <3>1, OrchestratorStep
  <2>2. CASE Docker!ChangedByOthers /\ undone' = (undone \/ \E t \in taken : svc'.spec = t.before)
    <3>1. undone' \in BOOLEAN /\ (undone => undone') /\ (~undone' => \A e \in taken : svc'.spec # e.before)
      BY <2>2
    <3>2. PICK spec \in Docker!ServiceSpec : Docker!Execute(spec) \/ Docker!Recreate(spec)
      BY <2>2 DEF Docker!ChangedByOthers
    <3> QED  BY <1>1, <3>1, <3>2, ExecuteStep, RecreateStep
  <2> QED  BY <2>1, <2>2 DEF Others
<1>3. TypeOK'
  <2>1. undone' \in BOOLEAN
    BY <1>2
  <2>2. svc'.id \in Nat /\ svc'.version \in Nat /\ svc'.iteration \in 1 .. svc'.version
    BY <1>2 DEF Numbers
  <2> QED  BY <1>1, <2>1, <2>2 DEF IInv, TypeOK
<1>4. /\ WorkOK' /\ OutOK' /\ SeenOK' /\ EndedOK' /\ FoundOK'
      /\ out.action = "indeterminate" => out.version \in Nat
      /\ late \subseteq Nat
  BY <1>1, <1>2, KnowledgeSurvives
<1>5. OnceOK'
  <2>1. svc'.version \in Nat /\ svc.version <= svc'.version
    BY <1>1, <1>2 DEF Numbers
  <2>2. \A v \in Nat : v < svc.version => v < svc'.version
    BY <1>1, <2>1
  <2>3. Looking => work.seen.version \in Nat
    BY DEF IInv, SeenOK
  <2> HIDE DEF IInv
  <2>4. OnceOK
    BY DEF IInv
  <2> QED  BY <1>1, <1>4, <2>2, <2>3, <2>4 DEF OnceOK, Looking, Updating
<1>6. OursOK'
  <2>1. OursOK
    BY DEF IInv
  <2>2. \A e \in taken : e.before # None
    BY <2>1, JobsAssumption DEF OursOK, Docker!ServiceSpec
  <2>3. ~undone' => \A e \in taken : /\ svc'.spec # e.before
                                     /\ svc'.iteration = e.iteration \/ svc'.prev # e.before
    <3>1. CASE svc'.spec = svc.spec /\ svc'.prev = svc.prev /\ svc'.iteration = svc.iteration
      BY <1>2, <2>1, <3>1 DEF OursOK
    <3>2. CASE svc'.prev \in {svc.spec, None} /\ (~undone' => \A e \in taken : svc'.spec # e.before)
      BY <1>2, <2>1, <2>2, <3>2 DEF OursOK
    <3> QED  BY <1>2, <3>1, <3>2
  <2> QED  BY <1>1, <1>2, <2>1, <2>3 DEF OursOK
<1>7. AdoptedIsOurs'
  BY <1>1, <1>2 DEF IInv, AdoptedIsOurs
<1> QED  BY <1>2, <1>3, <1>4, <1>5, <1>6, <1>7 DEF IInv

(* Docker takes an update at the version of the service: then none was taken *)
(* before, and the execution it ends had ended.                              *)
LEMMA TakesAtVersion ==
  ASSUME IInv, (wire = "sent" /\ svc.version = work.seen.version) \/ svc.version \in late
  PROVE  /\ taken = {} /\ Ended /\ svc.spec.image # Wanted
         /\ out.action # "" \/ work.at = "reply"
<1>1. svc.version \in Nat
  BY NumbersTyped DEF IInv, Numbers
<1>2. CASE svc.version \in late
  <2>1. taken = {}
    <3>1. taken # {} => \A v \in late : v < svc.version
      BY DEF IInv, OnceOK
    <3> QED  BY <1>1, <1>2, <3>1
  <2>2. Ended /\ svc.spec.image # Wanted
    <3>1. \A v \in late : v = svc.version => Ended /\ svc.spec.image # Wanted
      BY DEF IInv, EndedOK
    <3> QED  BY <1>2, <3>1, Zenon
  <2>3. out.action # ""
    BY <1>2 DEF IInv, OutOK
  <2> QED  BY <2>1, <2>2, <2>3
<1>3. CASE wire = "sent" /\ svc.version = work.seen.version
  <2>1. work.at = "reply" /\ Updating /\ Looking /\ Current
    BY <1>3 DEF IInv, WorkOK, Looking, Current
  <2> QED  BY <1>1, <1>3, <2>1 DEF IInv, EndedOK, OnceOK, SeenOK
<1> QED  BY <1>2, <1>3

LEMMA TakesStep == IInv /\ (Accept \/ AcceptLate) => IInv'
<1> SUFFICES ASSUME IInv, Accept \/ AcceptLate PROVE IInv'
  OBVIOUS
<1> DEFINE spec == [svc.spec EXCEPT !.image = Wanted]
           e == [iteration |-> svc'.iteration, before |-> svc.spec]
<1>1. /\ DockerOK /\ Numbers /\ svc.version \in Nat /\ UNCHANGED <<out, work, undone>>
      /\ Docker!Execute(spec) /\ taken' = taken \cup {e} /\ late' \subseteq late
      /\ \/ wire = "sent" /\ svc.version = work.seen.version /\ wire' = "accepted"
         \/ svc.version \in late /\ wire' = wire
  BY NumbersTyped DEF Accept, AcceptLate, Takes, IInv, Numbers
<1>2. taken = {} /\ Ended /\ svc.spec.image # Wanted /\ (out.action # "" \/ work.at = "reply")
  BY <1>1, TakesAtVersion
<1>3. spec \in Docker!ServiceSpec /\ spec # svc.spec /\ svc.spec \in Docker!ServiceSpec
  BY <1>1, <1>2, JobsAssumption DEF DockerOK, Docker!ServiceSpec
<1> HIDE DEF spec
<1>4. /\ DockerOK' /\ Numbers' /\ svc'.version = svc.version + 1 /\ svc'.iteration \in Nat
      /\ svc'.spec = spec /\ svc'.prev = svc.spec
  BY <1>1, <1>3, ExecuteStep DEF Numbers
<1>5. taken' = {e} /\ e.before = svc.spec /\ e.iteration = svc'.iteration
  BY <1>1, <1>2
<1> HIDE DEF e
<1>6. wire' \in {"none", "sent", "accepted", "conflict", "rejected"} /\ (wire' # "none" => wire # "none")
  BY <1>1 DEF IInv, TypeOK
<1>7. TypeOK'
  <2>1. svc'.id \in Nat /\ svc'.version \in Nat /\ svc'.iteration \in 1 .. svc'.version
    BY <1>4 DEF Numbers
  <2> QED  BY <1>1, <1>6, <2>1 DEF IInv, TypeOK
<1>8. /\ WorkOK' /\ OutOK' /\ SeenOK' /\ EndedOK' /\ FoundOK'
      /\ out.action = "indeterminate" => out.version \in Nat
      /\ late \subseteq Nat
  BY <1>1, <1>4, <1>6, KnowledgeSurvives
<1>9. OnceOK'
  <2>1. \A v \in Nat : v <= svc.version => v < svc'.version
    BY <1>1, <1>4
  <2>2. Looking => work.seen.version \in Nat /\ work.seen.version <= svc.version
    BY DEF IInv, SeenOK
  <2>3. \A v \in late' : v \in Nat /\ v <= svc.version
    BY <1>1, <1>8 DEF IInv, EndedOK
  <2>4. out.action = "indeterminate" => out.version <= svc.version
    BY DEF IInv, OutOK
  <2>5. out.action = "" => work.at \notin {"idle", "inspect"}
    BY <1>2
  <2> QED  BY <1>1, <1>5, <1>8, <2>1, <2>2, <2>3, <2>4, <2>5 DEF OnceOK, Looking, Updating
<1>10. OursOK'
  <2>1. wire' = "accepted" => svc.spec = work.seen.spec
    <3>1. CASE wire = "sent" /\ svc.version = work.seen.version
      <4>1. Looking /\ Current
        BY <3>1 DEF IInv, WorkOK, Looking, Current
      <4> QED  BY <4>1 DEF IInv, SeenOK
    <3>2. CASE wire' = wire
      BY <1>2, <3>2 DEF IInv, OursOK
    <3> QED  BY <1>1, <3>1, <3>2
  <2>2. ~work.awaiting /\ (~undone /\ work.at # "idle" => work.action # "updated")
    BY <1>2 DEF IInv, OursOK
  <2> QED  BY <1>1, <1>3, <1>4, <1>5, <2>1, <2>2 DEF OursOK
<1>11. AdoptedIsOurs'
  BY <1>1, <1>5 DEF IInv, AdoptedIsOurs
<1> QED  BY <1>4, <1>7, <1>8, <1>9, <1>10, <1>11 DEF IInv

LEMMA RefuseStep == IInv /\ Refuse => IInv'
<1> SUFFICES ASSUME IInv, Refuse PROVE IInv'
  OBVIOUS
<1>1. /\ UNCHANGED <<dockerVars, out, work, late, taken, undone>>
      /\ wire = "sent" /\ wire' \in {"rejected", "conflict"}
  BY DEF Refuse
<1>2. DockerOK' /\ Numbers' /\ (Ended => Ended') /\ (\A i : Succeeded(i) => Succeeded(i)')
      /\ svc.version \in Nat
  BY <1>1, NumbersTyped DEF IInv, DockerOK, Numbers, Ended, Succeeded, Docker!Of, Docker!Live, dockerVars
<1>3. WorkOK' /\ OutOK' /\ SeenOK' /\ EndedOK' /\ FoundOK'
  BY <1>1, <1>2, KnowledgeSurvives DEF dockerVars
<1>4. TypeOK'
  BY <1>1 DEF IInv, TypeOK, dockerVars
<1>5. OnceOK' /\ OursOK' /\ AdoptedIsOurs'
  BY <1>1 DEF IInv, OnceOK, OursOK, AdoptedIsOurs, Looking, Updating, dockerVars
<1> QED  BY <1>2, <1>3, <1>4, <1>5 DEF IInv

-----------------------------------------------------------------------------
(* The worker's steps preserve the invariant *)

(* Docker does nothing in a step of the worker.                              *)
LEMMA DockerRests ==
  ASSUME IInv, UNCHANGED <<dockerVars, taken, undone>>
  PROVE  /\ DockerOK' /\ Numbers /\ svc.version \in Nat /\ svc.iteration \in Nat
         /\ (Ended <=> Ended') /\ (\A i : Succeeded(i) <=> Succeeded(i)')
BY NumbersTyped DEF IInv, DockerOK, Numbers, Ended, Succeeded, Docker!Of, Docker!Live, dockerVars

(* Only the execution by the worker moves on.                                *)
LEMMA WorkMoves ==
  ASSUME IInv, UNCHANGED <<dockerVars, out, late, taken, undone>>,
         wire' \in {"none", "sent", "accepted", "conflict", "rejected"},
         WorkOK', SeenOK', FoundOK',
         work'.at # "idle" => Pending,
         work'.at # "idle" /\ work'.action = "not_applied" => out.action \in {"", "indeterminate"},
         work'.at # "idle" /\ out.iteration # None =>
           /\ work'.action # "not_applied" /\ ~work'.awaiting
           /\ work'.iteration = out.iteration /\ work'.action = out.action,
         work'.at \in {"confirm", "update", "reply"} /\ work'.seen.version = svc.version /\
           (work'.at = "confirm" => work'.found # "in_progress") => Ended,
         taken # {} =>
           /\ work'.at \in {"list", "confirm", "update", "reply"} /\ work'.action = "not_applied" =>
                work'.seen.version < svc.version
           /\ out.action = "" => work'.at \notin {"idle", "inspect"},
         wire' = "accepted" => \E e \in taken : e.before = work'.seen.spec,
         work'.awaiting => \E e \in taken : e.before = work'.prior,
         ~undone /\ work'.at # "idle" /\ work'.action = "updated" /\ ~work'.awaiting =>
           \E e \in taken : e.iteration = work'.iteration
  PROVE  IInv'
<1>1. DockerOK' /\ (Ended <=> Ended')
  BY DockerRests
<1>2. TypeOK'
  BY DEF IInv, TypeOK, dockerVars
<1>3. OutOK'
  BY DEF IInv, OutOK, Updating, Pending, dockerVars
<1>4. EndedOK'
  <2>1. \A v \in late : v <= svc.version /\ (v = svc.version => Ended /\ svc.spec.image # Wanted)
    BY DEF IInv, EndedOK
  <2> QED  BY <1>1, <2>1 DEF EndedOK, Current, dockerVars
<1>5. OnceOK'
  <2>1. OnceOK
    BY DEF IInv
  <2> HIDE DEF IInv
  <2> QED  BY <2>1 DEF OnceOK, Looking, Updating, dockerVars
<1>6. OursOK'
  <2>1. OursOK
    BY DEF IInv
  <2> QED  BY <2>1 DEF OursOK, dockerVars
<1>7. AdoptedIsOurs'
  BY DEF IInv, AdoptedIsOurs
<1> QED  BY <1>1, <1>2, <1>3, <1>4, <1>5, <1>6, <1>7 DEF IInv

LEMMA BeginStep == IInv /\ Begin => IInv'
<1> SUFFICES ASSUME IInv, Begin PROVE IInv'
  OBVIOUS
<1>1. /\ UNCHANGED <<dockerVars, out, late, taken, undone, wire>> /\ work.at = "idle"
      /\ out.action \in {"", "indeterminate"}
  BY DEF Begin, WorkOnly, updateVars
<1>2. work' = WorkIs("inspect", "not_applied", None, None, FALSE, None, None, "")
  BY DEF Begin, Idle, WorkIs
<1>3. /\ work'.at = "inspect" /\ work'.action = "not_applied" /\ ~work'.awaiting
      /\ work' = WorkIs(work'.at, work'.action, work'.id, work'.iteration, work'.awaiting,
                        work'.prior, work'.seen, work'.found)
      /\ work'.awaiting \in BOOLEAN
  BY <1>2 DEF WorkIs
<1>4. out.iteration = None /\ Pending /\ wire = "none"
  BY <1>1 DEF IInv, OutOK, WorkOK, Pending, TypeOK
<1>5. WorkOK' /\ SeenOK' /\ FoundOK'
  BY <1>1, <1>3, <1>4 DEF WorkOK, SeenOK, FoundOK, Looking, Updating
<1>6. taken # {} => out.action # ""
  BY <1>1 DEF IInv, OnceOK
<1> QED  BY <1>1, <1>3, <1>4, <1>5, <1>6, WorkMoves

LEMMA ResumeStep == IInv /\ Resume => IInv'
<1> SUFFICES ASSUME IInv, Resume PROVE IInv'
  OBVIOUS
<1>1. /\ UNCHANGED <<dockerVars, out, late, taken, undone, wire>> /\ work.at = "idle"
      /\ out.conclusion = "in_progress" /\ out.iteration # None
  BY DEF Resume, WorkOnly, updateVars
<1>2. work' = WorkIs("poll", out.action, out.id, out.iteration, FALSE, None, None, "")
  BY DEF Resume, Idle, WorkIs
<1>3. /\ work'.at = "poll" /\ work'.action = out.action /\ ~work'.awaiting
      /\ work'.iteration = out.iteration
      /\ work' = WorkIs(work'.at, work'.action, work'.id, work'.iteration, work'.awaiting,
                        work'.prior, work'.seen, work'.found)
      /\ work'.awaiting \in BOOLEAN
  BY <1>2 DEF WorkIs
<1>4. /\ out.iteration \in Nat /\ Pending /\ wire = "none" /\ out.action \in {"no_change", "updated"}
  BY <1>1 DEF IInv, OutOK, WorkOK, Pending, TypeOK
<1>5. WorkOK' /\ SeenOK' /\ FoundOK'
  BY <1>1, <1>3, <1>4 DEF WorkOK, SeenOK, FoundOK, Looking, Updating
<1>6. out.action = "updated" /\ ~undone => \E e \in taken : e.iteration = out.iteration
  BY <1>1 DEF IInv, AdoptedIsOurs
<1> QED  BY <1>1, <1>3, <1>4, <1>5, <1>6, WorkMoves

LEMMA ResumeWithoutIterationStep == IInv /\ ResumeWithoutIteration => IInv'
<1> SUFFICES ASSUME IInv, ResumeWithoutIteration PROVE IInv'
  OBVIOUS
<1>1. /\ UNCHANGED <<dockerVars, work, late, taken, undone, wire>> /\ work.at = "idle"
      /\ out.conclusion = "in_progress" /\ out.iteration = None
  BY DEF ResumeWithoutIteration, updateVars
<1>2. out' = OutIs(out.action, "superseded", out.id, out.iteration, out.version)
  BY DEF ResumeWithoutIteration, IInv, OutOK, OutIs
<1>3. /\ out'.action = out.action /\ out'.conclusion = "superseded" /\ out'.iteration = None
      /\ out'.version = out.version /\ out'.id = out.id
      /\ out' = OutIs(out'.action, out'.conclusion, out'.id, out'.iteration, out'.version)
  BY <1>1, <1>2 DEF OutIs
<1>4. out.action \notin {"", "indeterminate"}
  BY <1>1 DEF IInv, OutOK
<1>5. DockerOK' /\ (Ended <=> Ended') /\ \A i : Succeeded(i) <=> Succeeded(i)'
  BY <1>1, DockerRests
<1>6. TypeOK'
  BY <1>1, <1>3 DEF IInv, TypeOK, dockerVars
<1>7. WorkOK' /\ OutOK' /\ SeenOK' /\ FoundOK'
  BY <1>1, <1>3, <1>4 DEF IInv, WorkOK, OutOK, SeenOK, FoundOK, Looking, Updating
<1>8. EndedOK'
  BY <1>1, <1>5 DEF IInv, EndedOK, Current, dockerVars
<1>9. OnceOK'
  <2>1. OnceOK
    BY DEF IInv
  <2> HIDE DEF IInv
  <2> QED  BY <1>1, <1>3, <1>4, <2>1 DEF OnceOK, Looking, Updating, dockerVars
<1>10. OursOK' /\ AdoptedIsOurs'
  BY <1>1, <1>3 DEF IInv, OursOK, AdoptedIsOurs, dockerVars
<1> QED  BY <1>5, <1>6, <1>7, <1>8, <1>9, <1>10 DEF IInv

(* What InspectFindsImage to UpdateFails have in common.                     *)
LEMMA Running ==
  ASSUME IInv, work.at # "idle"
  PROVE  /\ Pending
         /\ work = WorkIs(work.at, work.action, work.id, work.iteration, work.awaiting,
                          work.prior, work.seen, work.found)
         /\ Updating => out.action \in {"", "indeterminate"} /\ out.iteration = None /\ ~work.awaiting
         /\ wire # "none" => work.at = "reply"
         /\ wire \in {"none", "sent", "accepted", "conflict", "rejected"}
         /\ work.awaiting \in BOOLEAN
BY DEF IInv, OutOK, WorkOK, TypeOK, Updating

LEMMA InspectFindsImageStep == IInv /\ InspectFindsImage => IInv'
<1> SUFFICES ASSUME IInv, InspectFindsImage PROVE IInv'
  OBVIOUS
<1>1. /\ UNCHANGED <<dockerVars, out, late, taken, undone, wire>> /\ work.at = "inspect"
  BY DEF InspectFindsImage, WorkOnly, updateVars
<1>2. work' = [work EXCEPT !.at = "poll", !.action = "no_change", !.id = svc.id, !.iteration = svc.iteration]
  BY DEF InspectFindsImage
<1>3. Updating /\ work.awaiting = FALSE /\ out.iteration = None /\ Pending /\ wire = "none"
  BY <1>1, Running DEF IInv, WorkOK
<1>4. work' = WorkIs("poll", "no_change", svc.id, svc.iteration, work.awaiting, work.prior, work.seen, work.found)
  BY <1>1, <1>2, Running DEF WorkIs
<1>5. /\ work'.at = "poll" /\ work'.action = "no_change" /\ work'.awaiting = work.awaiting
      /\ work'.iteration = svc.iteration
      /\ work' = WorkIs(work'.at, work'.action, work'.id, work'.iteration, work'.awaiting,
                        work'.prior, work'.seen, work'.found)
  BY <1>4 DEF WorkIs
<1>6. svc.iteration \in Nat
  BY <1>1, DockerRests
<1>7. WorkOK' /\ SeenOK' /\ FoundOK'
  BY <1>1, <1>3, <1>5, <1>6 DEF WorkOK, SeenOK, FoundOK, Looking, Updating
<1> QED  BY <1>1, <1>3, <1>5, <1>7, WorkMoves

LEMMA InspectFindsOtherStep == IInv /\ InspectFindsOther => IInv'
<1> SUFFICES ASSUME IInv, InspectFindsOther PROVE IInv'
  OBVIOUS
<1>1. /\ UNCHANGED <<dockerVars, out, late, taken, undone, wire>> /\ work.at = "inspect"
      /\ svc.spec.image # Wanted /\ MayUpdate
  BY DEF InspectFindsOther, WorkOnly, updateVars
<1>2. work' = [work EXCEPT !.at = "list", !.id = svc.id, !.seen = svc]
  BY DEF InspectFindsOther
<1>3. /\ work.action = "not_applied" /\ work.awaiting = FALSE /\ out.iteration = None /\ Pending /\ wire = "none"
      /\ out.action \in {"", "indeterminate"}
  BY <1>1, Running DEF IInv, WorkOK, Updating
<1>4. work' = WorkIs("list", work.action, svc.id, work.iteration, work.awaiting, work.prior, svc, work.found)
  BY <1>1, <1>2, Running DEF WorkIs
<1>5. /\ work'.at = "list" /\ work'.action = work.action /\ work'.awaiting = work.awaiting
      /\ work'.seen = svc
      /\ work' = WorkIs(work'.at, work'.action, work'.id, work'.iteration, work'.awaiting,
                        work'.prior, work'.seen, work'.found)
  BY <1>4 DEF WorkIs
<1>6. svc.version \in Nat /\ svc.iteration \in Nat
  BY <1>1, DockerRests
<1>7. WorkOK' /\ FoundOK'
  <2>1. work'.at = "list" /\ work'.action = "not_applied" /\ wire' = "none"
    BY <1>1, <1>3, <1>5
  <2>2. work'.awaiting \in BOOLEAN /\ ~work'.awaiting
    BY <1>3, <1>5
  <2>3. FoundOK'
    BY <2>1 DEF FoundOK
  <2>4. WorkOK'
    BY <1>5, <2>1, <2>2 DEF WorkOK, Updating
  <2> QED  BY <2>3, <2>4
<1>8. SeenOK'
  <2>1. work'.seen = svc' /\ work'.action = "not_applied" /\ svc' = svc /\ svc.spec.image # Wanted
    BY <1>1, <1>3, <1>5 DEF dockerVars
  <2> QED  BY <1>6, <2>1 DEF SeenOK, Updating
<1>9. taken = {}   \* the version is the one an unanswered update had, or none was sent
  <2>1. taken # {} => /\ out.action = "indeterminate" => out.version < svc.version
                      /\ out.action # ""
    BY <1>1 DEF IInv, OnceOK
  <2>2. out.action = "indeterminate" => out.version = svc.version
    BY <1>1 DEF MayUpdate
  <2>3. CASE out.action = "indeterminate"
    BY <1>6, <2>1, <2>2, <2>3
  <2>4. CASE out.action = ""
    BY <2>1, <2>4
  <2> QED  BY <1>3, <2>3, <2>4
<1> QED  BY <1>1, <1>3, <1>5, <1>7, <1>8, <1>9, WorkMoves

LEMMA VerdictMeans ==
  ASSUME NEW listed
  PROVE  /\ Verdict(listed) \in {"in_progress", "completed", "failed"}
         /\ Verdict(listed) # "in_progress" => listed # {} /\ \A t \in listed : t.state # "live"
         /\ Verdict(listed) = "completed" => \E t \in listed : t.state = "complete"
<1>1. Cardinality({}) = 0
  BY FS_EmptySet
<1>2. Cardinality(listed) = 1 => listed # {}
  BY <1>1
<1> DEFINE one == Cardinality(listed) = 1 /\ \A t \in listed : t.state = "complete"
           ended == listed # {} /\ (\A t \in listed : t.state # "live") /\ ~one
<1>3. Verdict(listed) = IF one THEN "completed" ELSE IF ended THEN "failed" ELSE "in_progress"
  BY DEF Verdict
<1>4. one => listed # {} /\ \A t \in listed : t.state = "complete"
  BY <1>2
<1> HIDE DEF one
<1> QED  BY <1>3, <1>4

LEMMA ListTasksStep == IInv /\ ListTasks => IInv'
<1> SUFFICES ASSUME IInv, ListTasks PROVE IInv'
  OBVIOUS
<1> DEFINE listed == {t \in Docker!Of(work.seen.iteration) : t.listed}
<1>1. UNCHANGED <<dockerVars, out, late, taken, undone, wire>> /\ work.at = "list" /\ Looking
  BY DEF ListTasks, WorkOnly, updateVars, Looking
<1>2. work' = [work EXCEPT !.at = "confirm", !.found = Verdict(listed)]
  BY DEF ListTasks
<1>3. /\ Verdict(listed) \in {"in_progress", "completed", "failed"}
      /\ Current /\ Verdict(listed) # "in_progress" => Ended
      /\ Current /\ ~Updating /\ Verdict(listed) = "completed" => Succeeded(work.iteration)
  <2>1. Current => work.seen = svc
    BY <1>1 DEF IInv, SeenOK
  <2>2. ASSUME Current, Verdict(listed) # "in_progress" PROVE Ended
    <3>1. listed # {} /\ \A t \in listed : t.state # "live"
      BY <2>2, VerdictMeans
    <3>2. listed = {t \in tasks : t.iteration = svc.iteration /\ t.listed}
      BY <2>1, <2>2 DEF Docker!Of
    <3>3. \A t \in tasks : t.state = "live" => t.listed
      BY DEF IInv, DockerOK
    <3> HIDE DEF listed
    <3> QED  BY <3>1, <3>2, <3>3 DEF Ended, Docker!Live, Docker!Of
  <2>3. ASSUME Current, ~Updating, Verdict(listed) = "completed" PROVE Succeeded(work.iteration)
    <3>1. PICK t \in listed : t.state = "complete"
      BY <2>3, VerdictMeans
    <3>2. work.seen.iteration = work.iteration /\ work.seen.spec.image = Wanted
      BY <1>1, <2>3 DEF IInv, SeenOK
    <3>3. t \in tasks /\ t.iteration = work.iteration /\ t.iteration = svc.iteration
      BY <2>1, <2>3, <3>2 DEF Docker!Of
    <3>4. t.image = Wanted
      BY <2>1, <2>3, <3>2, <3>3 DEF IInv, DockerOK
    <3> QED  BY <3>1, <3>3, <3>4 DEF Succeeded
  <2> QED  BY <2>2, <2>3, VerdictMeans
<1> HIDE DEF listed
<1>4. work' = WorkIs("confirm", work.action, work.id, work.iteration, work.awaiting, work.prior,
                     work.seen, Verdict(listed))
  BY <1>1, <1>2, Running DEF WorkIs
<1>5. /\ work'.at = "confirm" /\ work'.action = work.action /\ work'.awaiting = work.awaiting
      /\ work'.iteration = work.iteration /\ work'.seen = work.seen /\ work'.found = Verdict(listed)
      /\ work' = WorkIs(work'.at, work'.action, work'.id, work'.iteration, work'.awaiting,
                        work'.prior, work'.seen, work'.found)
  BY <1>4 DEF WorkIs
<1>6. ~work.awaiting /\ wire = "none"
  BY <1>1, Running DEF IInv, WorkOK
<1>7. WorkOK'
  BY <1>1, <1>3, <1>5, <1>6 DEF IInv, WorkOK, Updating
<1>8. SeenOK'
  BY <1>1, <1>5 DEF IInv, SeenOK, Looking, Updating, Current, dockerVars
<1>9. FoundOK'
  <2>1. \A i : Succeeded(i) <=> Succeeded(i)'
    BY <1>1, DockerRests
  <2> QED  BY <1>1, <1>3, <1>5, <2>1 DEF FoundOK, Updating, Current, dockerVars
<1>10. /\ Pending /\ (Updating => out.action \in {"", "indeterminate"})
       /\ out.iteration # None => ~Updating /\ work.iteration = out.iteration /\ work.action = out.action
  BY <1>1 DEF IInv, OutOK
<1>11. taken # {} /\ Updating => work.seen.version < svc.version
  BY <1>1 DEF IInv, OnceOK
<1>12. ~undone /\ work.action = "updated" => \E e \in taken : e.iteration = work.iteration
  BY <1>1, <1>6 DEF IInv, OursOK
<1> QED  BY <1>1, <1>3, <1>5, <1>6, <1>7, <1>8, <1>9, <1>10, <1>11, <1>12, WorkMoves DEF Updating, Current

LEMMA ConfirmFindsEndedStep == IInv /\ ConfirmFindsEnded => IInv'
<1> SUFFICES ASSUME IInv, ConfirmFindsEnded PROVE IInv'
  OBVIOUS
<1>1. /\ UNCHANGED <<dockerVars, out, late, taken, undone, wire>> /\ work.at = "confirm" /\ Looking
      /\ work.action = "not_applied" /\ Current /\ work.found # "in_progress"
  BY DEF ConfirmFindsEnded, Confirming, Stable, WorkOnly, updateVars, Looking, Current
<1>2. work' = [work EXCEPT !.at = "update", !.found = ""]
  BY DEF ConfirmFindsEnded
<1>3. work' = WorkIs("update", work.action, work.id, work.iteration, work.awaiting, work.prior, work.seen, "")
  BY <1>1, <1>2, Running DEF WorkIs
<1>4. /\ work'.at = "update" /\ work'.action = work.action /\ work'.awaiting = work.awaiting
      /\ work'.seen = work.seen
      /\ work' = WorkIs(work'.at, work'.action, work'.id, work'.iteration, work'.awaiting,
                        work'.prior, work'.seen, work'.found)
  BY <1>3 DEF WorkIs
<1>5. /\ work.awaiting = FALSE /\ wire = "none" /\ Pending /\ out.iteration = None
      /\ out.action \in {"", "indeterminate"}
  BY <1>1, Running DEF Updating
<1>6. work'.awaiting \in BOOLEAN /\ ~work'.awaiting /\ work'.action = "not_applied"
  BY <1>1, <1>4, <1>5
<1>7. WorkOK' /\ FoundOK'
  BY <1>1, <1>4, <1>5, <1>6 DEF WorkOK, FoundOK, Updating
<1>8. SeenOK'
  BY <1>1, <1>4, <1>6 DEF IInv, SeenOK, Looking, Updating, Current, dockerVars
<1>9. Ended /\ (taken # {} => work.seen.version < svc.version)
  BY <1>1 DEF IInv, EndedOK, OnceOK, Updating
<1> QED  BY <1>1, <1>4, <1>5, <1>6, <1>7, <1>8, <1>9, WorkMoves

LEMMA UpdateStep == IInv /\ Update => IInv'
<1> SUFFICES ASSUME IInv, Update PROVE IInv'
  OBVIOUS
<1>1. UNCHANGED <<dockerVars, out, late, taken, undone>> /\ work.at = "update" /\ wire' = "sent" /\ Looking
  BY DEF Update, Looking
<1>2. work' = [work EXCEPT !.at = "reply"]
  BY DEF Update
<1>3. work' = WorkIs("reply", work.action, work.id, work.iteration, work.awaiting, work.prior, work.seen, work.found)
  BY <1>1, <1>2, Running DEF WorkIs
<1>4. /\ work'.at = "reply" /\ work'.action = work.action /\ work'.awaiting = work.awaiting
      /\ work'.seen = work.seen
      /\ work' = WorkIs(work'.at, work'.action, work'.id, work'.iteration, work'.awaiting,
                        work'.prior, work'.seen, work'.found)
  BY <1>3 DEF WorkIs
<1>5. /\ work.action = "not_applied" /\ work.awaiting = FALSE /\ Pending /\ out.iteration = None
      /\ out.action \in {"", "indeterminate"}
  BY <1>1, Running DEF IInv, WorkOK, Updating
<1>6. work'.awaiting \in BOOLEAN /\ ~work'.awaiting /\ work'.action = "not_applied"
  BY <1>4, <1>5
<1>7. WorkOK' /\ FoundOK'
  BY <1>1, <1>4, <1>6 DEF WorkOK, FoundOK, Updating
<1>8. SeenOK'
  BY <1>1, <1>4, <1>5 DEF IInv, SeenOK, Looking, Updating, Current, dockerVars
<1>9. /\ work.seen.version = svc.version => Ended
      /\ taken # {} => work.seen.version < svc.version
  BY <1>1, <1>5 DEF IInv, EndedOK, OnceOK, Updating, Current
<1> QED  BY <1>1, <1>4, <1>5, <1>6, <1>7, <1>8, <1>9, WorkMoves

LEMMA UpdateAcceptedStep == IInv /\ UpdateAccepted => IInv'
<1> SUFFICES ASSUME IInv, UpdateAccepted PROVE IInv'
  OBVIOUS
<1>1. /\ UNCHANGED <<dockerVars, out, late, taken, undone>> /\ work.at = "reply" /\ Looking
      /\ wire = "accepted" /\ wire' = "none"
  BY DEF UpdateAccepted, Looking
<1>2. work' = [work EXCEPT !.at = "poll", !.action = "updated", !.awaiting = TRUE,
                           !.iteration = work.seen.iteration, !.prior = work.seen.spec, !.seen = None]
  BY DEF UpdateAccepted
<1>3. ASSUME NEW awaiting, work' = [work EXCEPT !.at = "poll", !.action = "updated", !.awaiting = awaiting,
                !.iteration = work.seen.iteration, !.prior = work.seen.spec, !.seen = None]
      PROVE  /\ work'.at = "poll" /\ work'.action = "updated" /\ work'.awaiting = awaiting
             /\ work'.iteration = work.seen.iteration /\ work'.prior = work.seen.spec
             /\ work' = WorkIs(work'.at, work'.action, work'.id, work'.iteration, work'.awaiting,
                               work'.prior, work'.seen, work'.found)
  <2>1. work' = WorkIs("poll", "updated", work.id, work.seen.iteration, awaiting, work.seen.spec,
                       None, work.found)
    BY <1>1, <1>3, Running DEF WorkIs
  <2> QED  BY <2>1 DEF WorkIs
<1>5. /\ work'.at = "poll" /\ work'.action = "updated" /\ work'.awaiting = TRUE
      /\ work'.iteration = work.seen.iteration /\ work'.prior = work.seen.spec
      /\ work' = WorkIs(work'.at, work'.action, work'.id, work'.iteration, work'.awaiting,
                        work'.prior, work'.seen, work'.found)
  BY <1>2, <1>3, Zenon
<1>6. Pending /\ out.iteration = None
  BY <1>1, Running DEF IInv, WorkOK, Updating
<1>7. work.seen.iteration \in Nat
  BY <1>1 DEF IInv, SeenOK
<1>8. WorkOK' /\ SeenOK' /\ FoundOK'
  BY <1>1, <1>5, <1>7 DEF WorkOK, SeenOK, FoundOK, Looking, Updating
<1>9. \E e \in taken : e.before = work.seen.spec
  BY <1>1 DEF IInv, OursOK
<1> QED  BY <1>1, <1>5, <1>6, <1>8, <1>9, WorkMoves

(* The awaited execution is found by its previous spec.                      *)
LEMMA PollFindsExecutionStep == IInv /\ PollFindsExecution => IInv'
<1> SUFFICES ASSUME IInv, PollFindsExecution PROVE IInv'
  OBVIOUS
<1>1. /\ UNCHANGED <<dockerVars, out, late, taken, undone, wire>> /\ work.at = "poll"
      /\ svc.spec.image = Wanted /\ Followed
  BY DEF PollFindsExecution, WorkOnly, updateVars, Selected
<1>2. work' = [work EXCEPT !.at = "list", !.seen = svc, !.iteration = svc.iteration,
                           !.awaiting = FALSE, !.prior = None]
  BY DEF PollFindsExecution
<1>3. ASSUME NEW awaiting, work' = [work EXCEPT !.at = "list", !.seen = svc, !.iteration = svc.iteration,
                                         !.awaiting = awaiting, !.prior = None]
      PROVE  /\ work'.at = "list" /\ work'.action = work.action /\ work'.awaiting = awaiting
             /\ work'.iteration = svc.iteration /\ work'.seen = svc
             /\ work' = WorkIs(work'.at, work'.action, work'.id, work'.iteration, work'.awaiting,
                               work'.prior, work'.seen, work'.found)
  <2>1. work' = WorkIs("list", work.action, work.id, svc.iteration, awaiting, None, svc, work.found)
    BY <1>1, <1>3, Running DEF WorkIs
  <2> QED  BY <2>1 DEF WorkIs
<1>5. /\ work'.at = "list" /\ work'.action = work.action /\ work'.awaiting = FALSE
      /\ work'.iteration = svc.iteration /\ work'.seen = svc
      /\ work' = WorkIs(work'.at, work'.action, work'.id, work'.iteration, work'.awaiting,
                        work'.prior, work'.seen, work'.found)
  BY <1>2, <1>3, Zenon
<1>6. /\ work.action \in {"no_change", "updated"} /\ Pending /\ wire = "none"
      /\ work.awaiting \in BOOLEAN
      /\ out.iteration # None => ~work.awaiting /\ work.iteration = out.iteration /\ work.action = out.action
  BY <1>1, Running DEF IInv, WorkOK, OutOK, Updating
<1>7. svc.version \in Nat /\ svc.iteration \in Nat
  BY <1>1, DockerRests
<1>8. WorkOK' /\ FoundOK'
  BY <1>1, <1>5, <1>6, <1>7 DEF WorkOK, FoundOK, Updating
<1>9. SeenOK'
  <2>1. work'.seen = svc' /\ work'.action # "not_applied" /\ svc' = svc /\ work'.iteration = svc'.iteration
    BY <1>1, <1>5, <1>6 DEF dockerVars
  <2> QED  BY <1>1, <1>7, <2>1 DEF SeenOK, Updating
<1>10. out.iteration # None => svc.iteration = out.iteration
  <2>1. ~work.awaiting => svc.iteration = work.iteration
    BY <1>1 DEF Followed
  <2> QED  BY <1>6, <2>1
<1>11. ASSUME ~undone, work.action = "updated" PROVE \E e \in taken : e.iteration = svc.iteration
  <2>1. CASE work.awaiting
    <3>1. PICK e \in taken : e.before = work.prior
      BY <2>1 DEF IInv, OursOK
    <3>2. svc.iteration = e.iteration \/ svc.prev # e.before
      BY <1>11, <3>1 DEF IInv, OursOK
    <3> QED  BY <1>1, <2>1, <3>1, <3>2 DEF Followed
  <2>2. CASE ~work.awaiting
    BY <1>1, <1>11, <2>2 DEF IInv, OursOK, Followed
  <2> QED  BY <2>1, <2>2
<1>12. wire' # "accepted" /\ ~work'.awaiting
  BY <1>1, <1>5, <1>6
<1> QED  BY <1>1, <1>5, <1>6, <1>8, <1>9, <1>10, <1>11, <1>12, WorkMoves

LEMMA PollsOnStep == IInv /\ PollsOn => IInv'
<1> SUFFICES ASSUME IInv, PollsOn PROVE IInv'
  OBVIOUS
<1>1. /\ UNCHANGED <<dockerVars, out, late, taken, undone, wire>> /\ work.at = "confirm"
      /\ work.action # "not_applied"
  BY DEF PollsOn, Confirming, WorkOnly, updateVars
<1>2. work' = [work EXCEPT !.at = "poll", !.seen = None, !.found = ""]
  BY DEF PollsOn
<1>3. work' = WorkIs("poll", work.action, work.id, work.iteration, work.awaiting, work.prior, None, "")
  BY <1>1, <1>2, Running DEF WorkIs
<1>4. /\ work'.at = "poll" /\ work'.action = work.action /\ work'.awaiting = work.awaiting
      /\ work'.iteration = work.iteration
      /\ work' = WorkIs(work'.at, work'.action, work'.id, work'.iteration, work'.awaiting,
                        work'.prior, work'.seen, work'.found)
  BY <1>3 DEF WorkIs
<1>5. /\ work.action \in {"no_change", "updated"} /\ work.iteration \in Nat /\ wire = "none" /\ Pending
      /\ ~work.awaiting /\ work.awaiting \in BOOLEAN
      /\ out.iteration # None => work.iteration = out.iteration /\ work.action = out.action
  BY <1>1, Running DEF IInv, WorkOK, OutOK, Updating
<1>6. work'.awaiting \in BOOLEAN /\ ~work'.awaiting
  BY <1>4, <1>5
<1>7. WorkOK' /\ SeenOK' /\ FoundOK'
  BY <1>1, <1>4, <1>5, <1>6 DEF WorkOK, SeenOK, FoundOK, Looking, Updating
<1>8. ~undone /\ work.action = "updated" => \E e \in taken : e.iteration = work.iteration
  BY <1>1, <1>5 DEF IInv, OursOK
<1> QED  BY <1>1, <1>4, <1>5, <1>6, <1>7, <1>8, WorkMoves

(* executeJob returns an outcome.                                            *)
LEMMA ReturnStep ==
  ASSUME IInv, work.at # "idle",
         NEW action \in {"not_applied", "no_change", "updated", "rejected", "indeterminate"},
         NEW conclusion \in {"", "in_progress", "completed", "failed", "superseded"},
         NEW iteration \in Nat \cup {None},
         Return(action, conclusion, iteration), UNCHANGED <<dockerVars, taken, undone>>,
         wire' = "none", late' \in SUBSET Nat,
         late' # late => /\ action = "indeterminate" /\ work.at \in {"update", "reply"}
                         /\ late' = late \cup {work.seen.version},
         action = "indeterminate" =>
           conclusion = "" /\ work.action = "not_applied" /\ work.at \in {"update", "reply"},
         action \notin {"no_change", "updated"} => iteration = None,
         iteration # None => action = work.action /\ iteration = work.iteration /\ ~work.awaiting
  PROVE  IInv' /\ out'.action = action /\ out'.conclusion = conclusion /\ out'.iteration = iteration
<1> DEFINE version == IF action = "indeterminate" THEN work.seen.version ELSE None
<1>1. out' = OutIs(action, conclusion, work.id, iteration, version)
  BY DEF Return, OutIs
<1>2. action = "indeterminate" => version = work.seen.version
  OBVIOUS
<1>3. action # "indeterminate" => version = None
  OBVIOUS
<1> HIDE DEF version
<1>4. /\ out'.action = action /\ out'.conclusion = conclusion /\ out'.iteration = iteration
      /\ out'.version = version
      /\ out' = OutIs(out'.action, out'.conclusion, out'.id, out'.iteration, out'.version)
  BY <1>1 DEF OutIs
<1>5. work' = WorkIs("idle", "not_applied", None, None, FALSE, None, None, "")
  BY DEF Return, Idle, WorkIs
<1>6. /\ work'.at = "idle" /\ work'.action = "not_applied" /\ ~work'.awaiting
      /\ work' = WorkIs(work'.at, work'.action, work'.id, work'.iteration, work'.awaiting,
                        work'.prior, work'.seen, work'.found)
      /\ work'.awaiting \in BOOLEAN
  BY <1>5 DEF WorkIs
<1> HIDE DEF Return
<1>7. /\ DockerOK' /\ (Ended <=> Ended') /\ svc.version \in Nat /\ svc' = svc
  BY DockerRests DEF dockerVars
<1>8. ASSUME work.at \in {"update", "reply"}
      PROVE  /\ work.seen.version \in Nat /\ work.seen.version <= svc.version
             /\ work.seen.version = svc.version => Ended /\ svc.spec.image # Wanted
             /\ taken # {} => work.seen.version < svc.version
  <2>1. Looking /\ Updating
    BY <1>8 DEF IInv, WorkOK, Looking
  <2>2. work.seen.version = svc.version => Ended
    BY <1>8 DEF IInv, EndedOK, Current
  <2>3. taken # {} => work.seen.version < svc.version
    BY <2>1 DEF IInv, OnceOK
  <2> QED  BY <2>1, <2>2, <2>3 DEF IInv, SeenOK, Current
<1>9. TypeOK'
  <2>1. out'.iteration \in Nat \cup {None} /\ (out'.action = "indeterminate" <=> out'.version \in Nat)
    BY <1>2, <1>3, <1>4, <1>8, JobsAssumption
  <2> QED  BY <1>4, <2>1 DEF IInv, TypeOK, dockerVars
<1>10. WorkOK' /\ SeenOK' /\ FoundOK'
  BY <1>6 DEF WorkOK, SeenOK, FoundOK, Looking, Updating
<1>11. OutOK'
  <2>1. out'.action = "indeterminate" => out'.version <= svc'.version
    BY <1>2, <1>4, <1>7, <1>8
  <2> QED  BY <1>4, <1>6, <2>1 DEF OutOK
<1>12. EndedOK'
  <2>1. \A v \in late : v <= svc.version /\ (v = svc.version => Ended /\ svc.spec.image # Wanted)
    BY DEF IInv, EndedOK
  <2>2. \A v \in late' : v <= svc.version /\ (v = svc.version => Ended /\ svc.spec.image # Wanted)
    BY <1>8, <2>1
  <2> QED  BY <1>6, <1>7, <2>2 DEF EndedOK
<1>13. OnceOK'
  <2>1. (taken = {} \/ \E e : taken = {e}) /\ (taken # {} => \A v \in late : v < svc.version)
    BY DEF IInv, OnceOK
  <2>2. taken # {} => \A v \in late' : v < svc'.version
    BY <1>7, <1>8, <2>1
  <2>3. taken # {} /\ out'.action = "indeterminate" => out'.version < svc'.version
    BY <1>2, <1>4, <1>7, <1>8
  <2> QED  BY <1>4, <1>6, <2>1, <2>2, <2>3 DEF OnceOK, Looking
<1>14. OursOK'
  <2>1. OursOK
    BY DEF IInv
  <2> QED  BY <1>6, <2>1 DEF OursOK, dockerVars
<1>15. AdoptedIsOurs'
  BY <1>4 DEF IInv, AdoptedIsOurs, OursOK
<1> QED  BY <1>4, <1>7, <1>9, <1>10, <1>11, <1>12, <1>13, <1>14, <1>15 DEF IInv

(* The ways to return, and what they return; an outcome that names no        *)
(* execution either never named one or reports that it was replaced.         *)
Returned ==
  /\ out.conclusion \in {"", "in_progress"} /\ out'.conclusion # "completed"
  /\ \/ out'.iteration = out.iteration
     \/ out'.iteration = None /\ out'.conclusion = "superseded"
     \/ out.iteration = None /\ out'.iteration \in Nat

LEMMA RunReturnsStep ==
  ASSUME IInv, InspectFindsConflict \/ ConfirmFindsChange \/ ConfirmFindsBusy \/ RunFails
               \/ UpdateRefused
  PROVE  IInv' /\ Returned
<1>1. /\ work.at \in {"inspect", "list", "confirm", "update", "reply"} /\ work.action = "not_applied"
      /\ wire' = "none" /\ UNCHANGED <<dockerVars, taken, undone, late>>
      /\ \E action \in {"not_applied", "rejected"}, conclusion \in {"", "superseded"} :
           Return(action, conclusion, None)
  BY DEF InspectFindsConflict, ConfirmFindsChange, ConfirmFindsBusy, RunFails, UpdateRefused,
    Confirming, updateVars, IInv, WorkOK, Updating
<1>2. PICK action \in {"not_applied", "rejected"}, conclusion \in {"", "superseded"} :
        Return(action, conclusion, None)
  BY <1>1
<1>3. late' \in SUBSET Nat
  BY <1>1 DEF IInv, TypeOK
<1>4. IInv' /\ out'.action = action /\ out'.conclusion = conclusion /\ out'.iteration = None
  BY <1>1, <1>2, <1>3, ReturnStep
<1> QED  BY <1>1, <1>4, Running DEF Returned, Pending, Updating

LEMMA UpdateFailsStep ==
  ASSUME IInv, UpdateFails
  PROVE  IInv' /\ Returned
<1>1. /\ work.at \in {"update", "reply"} /\ Looking /\ work.action = "not_applied" /\ work.at # "idle"
      /\ wire' = "none" /\ UNCHANGED <<dockerVars, taken, undone>>
      /\ late' = late \/ late' = late \cup {work.seen.version}
      /\ Return("indeterminate", "", None)
  BY DEF UpdateFails, Looking, IInv, WorkOK, Updating
<1>2. late' \in SUBSET Nat
  BY <1>1 DEF IInv, TypeOK, SeenOK
<1>3. IInv' /\ out'.action = "indeterminate" /\ out'.conclusion = "" /\ out'.iteration = None
  BY <1>1, <1>2, ReturnStep
<1> QED  BY <1>1, <1>3, Running DEF Returned, Pending, Updating

LEMMA ObserveReturnsStep ==
  ASSUME IInv, PollFindsReplaced \/ ConfirmFindsGone \/ ObserveFails
  PROVE  IInv' /\ Returned
<1>1. /\ work.at \in {"poll", "list", "confirm"} /\ work.action \in {"no_change", "updated"}
      /\ work.at # "idle" /\ wire' = "none" /\ UNCHANGED <<dockerVars, taken, undone, late>>
      /\ work.iteration \in Nat /\ work.awaiting \in BOOLEAN
      /\ out.iteration # None => ~work.awaiting /\ work.iteration = out.iteration
      /\ late' \in SUBSET Nat /\ Pending
  BY DEF PollFindsReplaced, ConfirmFindsGone, ObserveFails, Confirming, updateVars, IInv, WorkOK,
    OutOK, TypeOK, Updating
<1>2. CASE Return(work.action, "superseded", None)
  <2>1. IInv' /\ out'.conclusion = "superseded" /\ out'.iteration = None
    BY <1>1, <1>2, ReturnStep
  <2> QED  BY <1>1, <2>1 DEF Returned, Pending
<1>3. CASE Return(work.action, "in_progress", IF work.awaiting THEN None ELSE work.iteration)
  <2>1. CASE work.awaiting
    <3>1. Return(work.action, "in_progress", None)
      BY <1>3, <2>1
    <3>2. IInv' /\ out'.conclusion = "in_progress" /\ out'.iteration = None
      BY <1>1, <3>1, ReturnStep
    <3> QED  BY <1>1, <2>1, <3>2 DEF Returned, Pending
  <2>2. CASE ~work.awaiting
    <3>1. Return(work.action, "in_progress", work.iteration)
      BY <1>3, <2>2
    <3>2. IInv' /\ out'.conclusion = "in_progress" /\ out'.iteration = work.iteration
      BY <1>1, <2>2, <3>1, ReturnStep, JobsAssumption
    <3> QED  BY <1>1, <2>2, <3>2 DEF Returned, Pending
  <2> QED  BY <2>1, <2>2
<1> QED  BY <1>2, <1>3 DEF PollFindsReplaced, ConfirmFindsGone, ObserveFails

LEMMA ConcludesStep ==
  ASSUME IInv, Concludes
  PROVE  /\ IInv' /\ out.conclusion \in {"", "in_progress"}
         /\ out'.conclusion \in {"completed", "failed"} /\ out'.iteration \in Nat
         /\ out.iteration # None => out'.iteration = out.iteration
         /\ out'.conclusion = "completed" => Succeeded(out'.iteration)
<1>1. /\ work.at = "confirm" /\ work.action \in {"no_change", "updated"} /\ work.at # "idle"
      /\ Current /\ work.found \in {"completed", "failed"}
      /\ wire' = "none" /\ UNCHANGED <<dockerVars, taken, undone, late>>
      /\ work.iteration \in Nat /\ ~work.awaiting
      /\ out.iteration # None => work.iteration = out.iteration
      /\ late' \in SUBSET Nat /\ Pending
      /\ Return(work.action, work.found, work.iteration)
  BY DEF Concludes, Confirming, Stable, Current, updateVars, IInv, WorkOK, OutOK, TypeOK, Updating
<1>2. /\ IInv' /\ out'.conclusion = work.found /\ out'.iteration = work.iteration
  BY <1>1, ReturnStep, JobsAssumption
<1>3. work.found = "completed" => Succeeded(work.iteration)
  BY <1>1 DEF IInv, FoundOK, Updating
<1> QED  BY <1>1, <1>2, <1>3 DEF Pending

LEMMA InvNext == IInv /\ [Next]_vars => IInv'
<1> SUFFICES ASSUME IInv, [Next]_vars PROVE IInv'
  OBVIOUS
<1>1. CASE UNCHANGED vars
  <2> USE <1>1 DEF vars, dockerVars, updateVars
  <2>1. DockerOK' /\ (Ended <=> Ended') /\ \A i : Succeeded(i) <=> Succeeded(i)'
    BY DockerRests
  <2>2. TypeOK'
    BY DEF IInv, TypeOK
  <2>3. WorkOK' /\ OutOK' /\ SeenOK' /\ FoundOK'
    BY <2>1 DEF IInv, WorkOK, OutOK, SeenOK, FoundOK, Looking, Updating, Current, Pending
  <2>4. EndedOK'
    BY <2>1 DEF IInv, EndedOK, Current
  <2>5. OnceOK' /\ OursOK' /\ AdoptedIsOurs'
    BY DEF IInv, OnceOK, OursOK, AdoptedIsOurs, Looking, Updating
  <2> QED  BY <2>1, <2>2, <2>3, <2>4, <2>5 DEF IInv
<1>2. CASE Begin \/ Resume \/ ResumeWithoutIteration
  BY <1>2, BeginStep, ResumeStep, ResumeWithoutIterationStep
<1>3. CASE Run
  BY <1>3, InspectFindsImageStep, InspectFindsOtherStep, ListTasksStep, ConfirmFindsEndedStep,
    UpdateStep, UpdateAcceptedStep, RunReturnsStep, UpdateFailsStep DEF Run
<1>4. CASE Observe
  BY <1>4, PollFindsExecutionStep, PollsOnStep, ObserveReturnsStep, ConcludesStep DEF Observe
<1>5. CASE Accept \/ AcceptLate \/ Refuse \/ Others
  BY <1>5, TakesStep, RefuseStep, OthersStep
<1> QED  BY <1>1, <1>2, <1>3, <1>4, <1>5 DEF Next

(* The invariant holds in every reachable state.                             *)
THEOREM Invariance == Spec => []IInv
BY InvInit, InvNext, PTL DEF Spec

(* The job's service, the recorded outcome and the updates on their way have *)
(* the types the code gives them.                                            *)
THEOREM TypeCorrect == Spec => []TypeOK
<1>1. IInv => TypeOK
  BY DEF IInv
<1> QED  BY <1>1, Invariance, PTL

-----------------------------------------------------------------------------
(* Updates *)

(* However often a token is retried, and however late Docker takes an update *)
(* that was not answered, it takes at most one.                              *)
THEOREM UpdatedAtMostOnce == Spec => []JobUpdatedOnce
<1>1. IInv => JobUpdatedOnce
  <2> SUFFICES ASSUME IInv PROVE JobUpdatedOnce
    OBVIOUS
  <2>1. CASE taken = {}
    BY <2>1, FS_EmptySet DEF JobUpdatedOnce
  <2>2. ASSUME NEW e, taken = {e} PROVE JobUpdatedOnce
    BY <2>2, FS_Singleton DEF JobUpdatedOnce
  <2> QED  BY <2>1, <2>2 DEF IInv, OnceOK
<1> QED  BY <1>1, Invariance, PTL

(* Only Docker's taking of an update changes the updates it took.            *)
LEMMA OnlyTakesTakes ==
  ASSUME IInv, [Next]_vars, taken' # taken
  PROVE  Accept \/ AcceptLate
<1>1. CASE Begin \/ Resume \/ ResumeWithoutIteration
  BY <1>1 DEF Begin, Resume, ResumeWithoutIteration, WorkOnly, updateVars
<1>2. CASE Run
  BY <1>2 DEF Run, InspectFindsImage, InspectFindsConflict, InspectFindsOther, ListTasks,
    ConfirmFindsChange, ConfirmFindsBusy, ConfirmFindsEnded, RunFails, Update, UpdateAccepted,
    UpdateRefused, UpdateFails, WorkOnly, updateVars
<1>3. CASE Observe
  BY <1>3 DEF Observe, PollFindsReplaced, PollFindsExecution, ConfirmFindsGone, PollsOn, Concludes,
    ObserveFails, WorkOnly, updateVars
<1> QED  BY <1>1, <1>2, <1>3 DEF Next, Refuse, Others, vars, updateVars

(* Docker never takes an update while a task of the execution it would end   *)
(* is still live.                                                            *)
THEOREM ExecutionsEndFirst == Spec => NeverInterrupts
<1>1. ASSUME IInv, [Next]_vars, taken' # taken
      PROVE  Docker!Live = {}
  <2>1. (wire = "sent" /\ svc.version = work.seen.version) \/ svc.version \in late
    BY <1>1, OnlyTakesTakes DEF Accept, AcceptLate
  <2> QED  BY <1>1, <2>1, TakesAtVersion DEF Ended
<1>2. IInv /\ [Next]_vars => [taken' # taken => Docker!Live = {}]_vars
  BY <1>1
<1> QED  BY <1>2, Invariance, PTL DEF Spec, NeverInterrupts

(* An updated outcome speaks of the execution that its update started.       *)
THEOREM OwnExecutionIsAdopted == Spec => []AdoptedIsOurs
<1>1. IInv => AdoptedIsOurs
  BY DEF IInv
<1> QED  BY <1>1, Invariance, PTL

-----------------------------------------------------------------------------
(* Outcomes *)

LEMMA OutcomeMoves ==
  ASSUME IInv, [Next]_vars, out' # out
  PROVE  \/ Returned
         \/ Concludes
         \/ ResumeWithoutIteration
<1>1. CASE Run
  <2>1. CASE InspectFindsConflict \/ ConfirmFindsChange \/ ConfirmFindsBusy \/ RunFails \/ UpdateRefused
    BY <2>1, RunReturnsStep
  <2>2. CASE UpdateFails
    BY <2>2, UpdateFailsStep
  <2> QED  BY <1>1, <2>1, <2>2 DEF Run, InspectFindsImage, InspectFindsOther, ListTasks,
    ConfirmFindsEnded, Update, UpdateAccepted, WorkOnly
<1>2. CASE Observe
  <2>1. CASE PollFindsReplaced \/ ConfirmFindsGone \/ ObserveFails
    BY <2>1, ObserveReturnsStep
  <2> QED  BY <1>2, <2>1 DEF Observe, PollFindsExecution, PollsOn, WorkOnly
<1>3. CASE Begin \/ Resume \/ Accept \/ AcceptLate \/ Refuse \/ Others
  BY <1>3 DEF Begin, Resume, Accept, AcceptLate, Takes, Refuse, Others, WorkOnly
<1> QED  BY <1>1, <1>2, <1>3 DEF Next, vars

(* completed is reported of an execution in which a task did end well.       *)
THEOREM SuccessHappened == Spec => SuccessIsReal
<1>1. ASSUME IInv, [Next]_vars, out.conclusion # "completed", out'.conclusion = "completed"
      PROVE  \E t \in tasks : t.iteration = out'.iteration /\ t.image = Wanted /\ t.state = "complete"
  <2>1. out' # out
    BY <1>1
  <2>2. CASE Returned
    BY <1>1, <2>2 DEF Returned
  <2>3. CASE Concludes
    BY <1>1, <2>3, ConcludesStep DEF Succeeded
  <2>4. CASE ResumeWithoutIteration
    <3>1. out'.conclusion = "superseded"
      BY <1>1, <2>4 DEF ResumeWithoutIteration, IInv, OutOK, OutIs
    <3> QED  BY <1>1, <3>1
  <2> QED  BY <1>1, <2>1, <2>2, <2>3, <2>4, OutcomeMoves
<1>2. IInv /\ [Next]_vars =>
        [out.conclusion # "completed" /\ out'.conclusion = "completed" =>
           \E t \in tasks : t.iteration = out'.iteration /\ t.image = Wanted /\ t.state = "complete"]_vars
  BY <1>1
<1> QED  BY <1>2, Invariance, PTL DEF Spec, SuccessIsReal

LEMMA FollowsInit == Init => Follows!Init
<1> SUFFICES ASSUME Init PROVE Follows!Init
  OBVIOUS
<1>1. out = [action |-> "", conclusion |-> "", id |-> None, iteration |-> None, version |-> None]
  BY DEF Init
<1>2. out.iteration = None /\ out.conclusion = ""
  BY <1>1
<1> QED  BY <1>2 DEF Follows!Init, Pending

LEMMA FollowsStep ==
  ASSUME IInv, [Next]_vars
  PROVE  [Follows!Report]_<<out.iteration, IF Pending THEN "pending" ELSE out.conclusion>>
<1>1. CASE out' = out
  BY <1>1 DEF Pending
<1>2. ASSUME Pending, out'.conclusion \in {"", "in_progress", "completed", "failed", "superseded"},
             \/ out'.iteration = out.iteration
             \/ out'.iteration = None /\ out'.conclusion = "superseded"
             \/ out.iteration = None /\ out'.iteration \in Nat
      PROVE  Follows!Report
  BY <1>2 DEF Follows!Report, Follows!Verdict, Pending
<1>3. CASE Returned
  <2>1. out'.conclusion \in {"", "in_progress", "completed", "failed", "superseded"}
    BY InvNext DEF IInv, TypeOK
  <2> QED  BY <1>2, <1>3, <2>1 DEF Returned, Pending
<1>4. CASE Concludes
  BY <1>2, <1>4, ConcludesStep DEF Pending
<1>5. CASE ResumeWithoutIteration
  <2>1. Pending /\ out'.conclusion = "superseded" /\ out'.iteration = out.iteration
    BY <1>5 DEF ResumeWithoutIteration, IInv, OutOK, OutIs, Pending
  <2> QED  BY <1>2, <2>1
<1> QED  BY <1>1, <1>3, <1>4, <1>5, OutcomeMoves

(* Jobs implements Following: over all its retries a token speaks of one     *)
(* execution of the job, and its verdict is final.                           *)
THEOREM ImplementsFollowing == Spec => FollowsOneExecution
<1>1. IInv /\ [Next]_vars =>
        [Follows!Report]_<<out.iteration, IF Pending THEN "pending" ELSE out.conclusion>>
  BY FollowsStep
<1> QED  BY <1>1, FollowsInit, Invariance, PTL DEF Spec, FollowsOneExecution, Follows!Spec
=============================================================================
