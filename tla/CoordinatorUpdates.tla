------------------------- MODULE CoordinatorUpdates --------------------------
(***************************************************************************)
(* What holds of the updates that the coordinator's workers submit, for    *)
(* any callers, tokens, deployments and capacities: what is recorded of an *)
(* update is true, a retry that resumes observation submits none, Docker   *)
(* takes at most one update for a token that can still pass time           *)
(* validation, and the coordinator implements Promise.tla.                 *)
(*                                                                         *)
(* The argument for one update: all updates submitted for a current token  *)
(* name the same version of the same service, because a retry submits only *)
(* on the version its indeterminate predecessor kept; Docker takes an      *)
(* update only at its version, and leaves the version behind.              *)
(*                                                                         *)
(* The argument for Promise: once an outcome says how the image came to be *)
(* selected, every version ever submitted for the token is behind, so an   *)
(* update still on its way is never taken (EstablishedIsPast); and the     *)
(* newest record of a token knows of the selection, so that whoever        *)
(* carries on repeats it (LastWord).                                       *)
(***************************************************************************)
EXTENDS CoordinatorProofs

-----------------------------------------------------------------------------
(* What was sent, and what is said of it *)

Submitted(c) == wire[c] # Docker!Unsent

(* The steps, by what they do to operations, updates and workers.            *)
RunsApart ==
  \A d \in Deployment :
    \/ run'[d].at = run[d].at /\ run'[d].job = run[d].job /\ run'[d].out = run[d].out
    \/ run[d].at \in Places3 /\ run'[d].at \in Places3 \cup {"start"}

Apart == UNCHANGED <<op, req, prev, dockerVars>> /\ RunsApart

(* An operation ends without a worker having run it.                         *)
Ends(c) ==
  /\ op[c].state = "open" /\ ~Working(c)
  /\ \E e \in Error : op' = [op EXCEPT ![c] = Cache!Completed(Unexecuted(c, e))]
  /\ UNCHANGED <<req, prev, dockerVars, run>>

Publishes(d) ==
  /\ run[d].at = "publish" /\ run[d].job \in Caller /\ op[run[d].job].state = "open"
  /\ op' = [op EXCEPT ![run[d].job] = Cache!Completed(run[d].out)]
  /\ RunsTo(d, "next", None, NotApplied(""))
  /\ UNCHANGED <<req, prev, dockerVars>>

LEMMA ApartSteps ==
  ASSUME Held,
         \/ Aside
         \/ \E c \in Caller : Quiet(c) \/ Remove(c)
         \/ \E d \in Deployment : Loop(d) \/ RootKills(d)
  PROVE  Apart
<1>1. CASE Aside \/ \E c \in Caller : Quiet(c) \/ Remove(c)
  BY <1>1 DEF Aside, Quiet, Remove, Apart, RunsApart, cacheVars, callVars, workVars
<1>2. ASSUME NEW d \in Deployment, Loop(d) \/ RootKills(d)
      PROVE  Apart
  <2>1. UNCHANGED <<op, req, prev, dockerVars>>
    BY <1>2 DEF Loop, WorkerStops, WorkerTakes, WorkerParks, WorkerWakes, RootKills, cacheVars, callVars
  <2>2. \A e \in Deployment : e # d => run'[e] = run[e]
    BY <1>2, LoopMoves DEF Held, Loop, RunsTo
  <2>3. \/ run'[d].at = run[d].at /\ run'[d].job = run[d].job /\ run'[d].out = run[d].out
        \/ run[d].job = None /\ run'[d].at \in Places3 \cup {"start"}
    BY <1>2, LoopMoves DEF Held, Loop, RunsTo, Places3
  <2>4. run[d].job = None => run[d].at \in Places3
    BY DEF Held, Base, Types, WorkerTypes
  <2> QED  BY <2>1, <2>2, <2>3, <2>4 DEF Apart, RunsApart
<1> QED  BY <1>1, <1>2

LEMMA EndSteps ==
  ASSUME Held, NEW c \in Caller, Enqueue(c) \/ EnqueueRefused(c) \/ CompleteDropped(c)
  PROVE  Apart \/ Ends(c)
<1>1. ~Working(c)
  <2>1. stage[c] = "owner" \/ dropped[c] # ""
    BY DEF Enqueue, EnqueueRefused, CompleteDropped
  <2> QED  BY <2>1, HandFacts DEF Held
<1>2. UNCHANGED <<prev, dockerVars, run>>
  BY DEF Enqueue, EnqueueRefused, CompleteDropped, workVars
<1>3. UNCHANGED cacheVars \/ \E e \in Error : Cache!Complete(c, Unexecuted(c, e))
  <2>1. "queue_full" \in Error
    BY Literals
  <2> QED  BY <2>1, Completions DEF Held
<1> QED  BY <1>1, <1>2, <1>3 DEF Apart, RunsApart, Ends, Cache!Complete, cacheVars

LEMMA SendSteps ==
  ASSUME Held, [Next]_vars
  PROVE  \/ Apart
         \/ DockerMoves
         \/ \E c \in Caller : Creates(c) \/ Ends(c)
         \/ \E d \in Deployment : Submits(d) \/ Works(d) \/ Publishes(d)
<1>1. ASSUME NEW d \in Deployment, Publish(d)
      PROVE  Publishes(d)
  BY <1>1, LoopMoves DEF Held, Publish, Publishes, Cache!Complete, callVars
<1> QED  BY <1>1, Steps, ApartSteps, EndSteps DEF Held

(* An action that is true of the update c submitted, if it did.              *)
TrueOf(c, action) ==
  /\ action \in {"not_applied", "rejected"} => wire[c].state \notin {"sent", "accepted"}
  /\ action = "no_change" => ~Submitted(c)

Submitting == {"reply", "reinspect", "observe", "publish"}

(* An update belongs to an operation, unfinished only while its worker has   *)
(* come as far as that.                                                      *)
SubmittedByWorker ==
  \A c \in Caller : Submitted(c) =>
    /\ op[c].state # "none"
    /\ op[c].state = "open" => Working(c) /\ run[Home(c)].at \in Submitting

ResumesUnsent ==
  \A c \in Caller :
    prev[c] # None /\ op[prev[c]].result.action # "indeterminate" => ~Submitted(c)

RecordsTrue == \A c \in Caller : op[c].state = "done" => TrueOf(c, op[c].result.action)

WorkerTrue(d) ==
  /\ run[d].at \in {"observe", "publish"} => TrueOf(run[d].job, run[d].out.action)
  /\ run[d].at \in {"inspect", "update", "reply", "reinspect"} => ~Resuming(d)
  /\ run[d].at = "reinspect" => run[d].out.action = "indeterminate"
  /\ run[d].at = "observe" => run[d].out.action # "indeterminate"

WorkersTrue == \A d \in Deployment : WorkerTrue(d)

SentInv == Held /\ SubmittedByWorker /\ ResumesUnsent /\ RecordsTrue /\ WorkersTrue

LEMMA UnsentState == ASSUME NEW c, ~Submitted(c) PROVE \A action : TrueOf(c, action)
BY DEF Submitted, TrueOf, Docker!Unsent

(* The job of a worker.                                                      *)
LEMMA JobFacts ==
  ASSUME Held, NEW d \in Deployment, run[d].at \notin Places3
  PROVE  /\ run[d].job \in Caller /\ Home(run[d].job) = d
         /\ Working(run[d].job) /\ op[run[d].job].state = "open"
<1>1. run[d].job \in Caller /\ run[d].job # None
  BY JobAt DEF Held, Base
<1>2. Home(run[d].job) = d
  BY <1>1 DEF Held, Queues
<1>3. Working(run[d].job)
  BY <1>2 DEF Working
<1> QED  BY <1>1, <1>2, <1>3, HandFacts DEF Held, Open

LEMMA NotYetSubmitted ==
  ASSUME Held, SubmittedByWorker, NEW d \in Deployment,
         run[d].at \in {"start", "inspect", "update"}
  PROVE  ~Submitted(run[d].job)
<1>1. run[d].at \notin Places3 /\ run[d].at \notin Submitting
  BY DEF Places3, Submitting
<1> QED  BY <1>1, JobFacts DEF SubmittedByWorker

SentFacts == SubmittedByWorker /\ ResumesUnsent /\ RecordsTrue /\ WorkersTrue

(* The parts of the invariant depend on nothing else.                        *)
LEMMA SentTypes ==
  ASSUME SentInv
  PROVE  /\ HeldTypes /\ CacheTypes /\ Prevs /\ wire \in [Caller -> Wires]
         /\ prev \in [Caller -> Caller \cup {None}]
         /\ op \in [Caller -> CacheFacts!Operation]
         /\ run \in [Deployment -> Runs]
BY HeldHasTypes DEF SentInv, Held, Base, Types, DockerTypes, HeldTypes, CallTypes, CacheTypes, WorkerTypes

LEMMA ApartSent ==
  ASSUME SentInv, Apart
  PROVE  SentFacts'
<1>0. HeldTypes
  BY SentTypes
<1>1. SubmittedByWorker'
  <2> SUFFICES ASSUME NEW c \in Caller, wire[c] # Docker!Unsent
               PROVE  /\ op[c].state # "none"
                      /\ op[c].state = "open" => /\ run'[Home(c)].job = c
                                                 /\ run'[Home(c)].at \in Submitting
    BY DEF SubmittedByWorker, Submitted, Working, Home, Apart, dockerVars
  <2>1. /\ op[c].state # "none"
        /\ op[c].state = "open" => run[Home(c)].job = c /\ run[Home(c)].at \in Submitting
    BY DEF SentInv, SubmittedByWorker, Submitted, Working
  <2>2. \A at \in Submitting : at \notin Places3
    BY DEF Submitting, Places3
  <2> QED  BY <1>0, <2>1, <2>2 DEF Apart, RunsApart, HeldTypes
<1>2. ResumesUnsent' /\ RecordsTrue'
  BY DEF Apart, SentInv, ResumesUnsent, RecordsTrue, TrueOf, Submitted, dockerVars
<1>3. ASSUME NEW d \in Deployment
      PROVE  WorkerTrue(d)'
  <2>1. \A at \in Places3 \cup {"start"} :
          at \notin {"observe", "publish", "inspect", "update", "reply", "reinspect"}
    BY DEF Places3
  <2>2. WorkerTrue(d)
    BY DEF SentInv, WorkersTrue
  <2> QED  BY <2>1, <2>2 DEF Apart, RunsApart, WorkerTrue, TrueOf, Submitted, Resuming, Previous, dockerVars
<1> QED  BY <1>1, <1>2, <1>3 DEF SentFacts, WorkersTrue

(* What Docker makes of an update was open before.                           *)
LEMMA DockerFates ==
  ASSUME Types, DockerMoves, NEW c \in Caller
  PROVE  /\ wire'[c] # Docker!Unsent <=> wire[c] # Docker!Unsent
         /\ wire[c].state \notin {"sent", "accepted"} => wire'[c].state \notin {"sent", "accepted"}
<1>1. ASSUME NEW o \in Caller, NEW fate \in {"accepted", "conflict", "rejected"},
             wire[o].state = "sent", Docker!Settle(o, fate)
      PROVE  /\ wire'[c] # Docker!Unsent <=> wire[c] # Docker!Unsent
             /\ wire[c].state \notin {"sent", "accepted"} => wire'[c].state \notin {"sent", "accepted"}
  <2>1. /\ \A x \in Caller : x # o => wire'[x] = wire[x]
        /\ wire'[o] # Docker!Unsent
    BY <1>1, SettleStep DEF Types
  <2>2. wire[o] # Docker!Unsent
    BY <1>1 DEF Docker!Unsent
  <2> QED  BY <1>1, <2>1, <2>2
<1>2. UNCHANGED wire \/ \E o \in Caller : wire[o].state = "sent" /\
        \E fate \in {"accepted", "conflict", "rejected"} : Docker!Settle(o, fate)
  BY DEF DockerMoves, Docker!DockerNext, Docker!Accept, Docker!Conflict, Docker!Reject,
         Docker!ChangedByOthers
<1> QED  BY <1>1, <1>2

LEMMA DockerSent ==
  ASSUME SentInv, DockerMoves
  PROVE  SentFacts'
<1>0. /\ HeldTypes /\ CacheTypes /\ Types /\ Prevs /\ prev \in [Caller -> Caller \cup {None}]
      /\ UNCHANGED <<op, req, prev, run>>
  BY SentTypes DEF SentInv, Held, Base, DockerMoves, cacheVars, callVars, workVars
<1>1. \A c \in Caller : Submitted(c)' <=> Submitted(c)
  BY <1>0, DockerFates DEF Submitted
<1>2. \A c \in Caller : \A a : TrueOf(c, a) => TrueOf(c, a)'
  BY <1>0, <1>1, DockerFates DEF TrueOf
<1>3. SubmittedByWorker'
  BY <1>0, <1>1 DEF SentInv, SubmittedByWorker, Working, Home
<1>4. ResumesUnsent'
  BY <1>0, <1>1 DEF SentInv, ResumesUnsent
<1>5. RecordsTrue'
  BY <1>0, <1>2 DEF SentInv, RecordsTrue
<1>6. ASSUME NEW d \in Deployment
      PROVE  WorkerTrue(d)'
  <2>1. WorkerTrue(d)
    BY DEF SentInv, WorkersTrue
  <2>2. run[d].at \in {"observe", "publish"} => run[d].job \in Caller
    BY JobFacts DEF SentInv, Places3
  <2>3. run[d].at \in {"observe", "publish"} => TrueOf(run[d].job, run[d].out.action)'
    <3> SUFFICES ASSUME run[d].at \in {"observe", "publish"}
                 PROVE  TrueOf(run[d].job, run[d].out.action)'
      OBVIOUS
    <3> DEFINE j == run[d].job
               a == run[d].out.action
    <3>1. TrueOf(j, a) /\ j \in Caller
      BY <2>1, <2>2 DEF WorkerTrue
    <3> QED  BY <1>0, <1>1, <3>1, DockerFates DEF TrueOf
  <2> QED  BY <1>0, <2>1, <2>3 DEF WorkerTrue, Resuming, Previous
<1> QED  BY <1>3, <1>4, <1>5, <1>6 DEF SentFacts, WorkersTrue

LEMMA CreateSent ==
  ASSUME SentInv, NEW c \in Caller, Creates(c)
  PROVE  SentFacts'
<1>0. /\ HeldTypes /\ CacheTypes /\ Prevs /\ prev \in [Caller -> Caller \cup {None}]
      /\ UNCHANGED <<req, wire, run>>
      /\ op \in [Caller -> CacheFacts!Operation]
  BY SentTypes DEF Creates, dockerVars, workVars
<1>1. /\ op[c].state = "none" /\ op'[c].state = "open"
      /\ \A o \in Caller : o # c => op'[o] = op[o]
      /\ \A o \in Caller : o # c => prev'[o] = prev[o]
  BY <1>0 DEF Creates, Cache!Opened
<1>2. ~Submitted(c)
  BY <1>1 DEF SentInv, SubmittedByWorker
<1>3. SubmittedByWorker'
  BY <1>0, <1>1, <1>2 DEF SentInv, SubmittedByWorker, Submitted, Working, Home
<1>4. ResumesUnsent'
  <2> SUFFICES ASSUME NEW o \in Caller, o # c, prev[o] # None,
                      op'[prev[o]].result.action # "indeterminate"
               PROVE  ~Submitted(o)
    BY <1>0, <1>1, <1>2 DEF ResumesUnsent, Submitted
  <2>1. prev[o] # c /\ prev[o] \in Caller
    BY <1>0, <1>1 DEF Prevs
  <2> QED  BY <1>1, <2>1 DEF SentInv, ResumesUnsent
<1>5. RecordsTrue'
  BY <1>0, <1>1 DEF SentInv, RecordsTrue, TrueOf, Submitted
<1>6. ASSUME NEW d \in Deployment
      PROVE  WorkerTrue(d)'
  <2>1. WorkerTrue(d)
    BY DEF SentInv, WorkersTrue
  <2>2. ASSUME run[d].at \in {"inspect", "update", "reply", "reinspect"}
        PROVE  ~Resuming(d)'
    <3> DEFINE j == run[d].job
    <3>1. j \in Caller /\ op[j].state = "open"
      BY <2>2, JobFacts DEF SentInv, Places3
    <3>2. j # c
      BY <1>1, <3>1
    <3>3. prev'[j] = prev[j] /\ (prev[j] # None => op'[prev[j]] = op[prev[j]])
      BY <1>0, <1>1, <3>1, <3>2 DEF Prevs
    <3>4. prev[j] # None => op[prev[j]].result.action = "indeterminate"
      BY <2>1, <2>2 DEF WorkerTrue, Resuming, Previous
    <3> QED  BY <1>0, <3>3, <3>4 DEF Resuming, Previous
  <2> QED  BY <1>0, <2>1, <2>2 DEF WorkerTrue, TrueOf, Submitted
<1> QED  BY <1>3, <1>4, <1>5, <1>6 DEF SentFacts, WorkersTrue

(* The operation c is completed with result r; no update and no other        *)
(* operation changes.                                                        *)
LEMMA CompletedFacts ==
  ASSUME SentInv, NEW c \in Caller, NEW r, op[c].state = "open",
         op' = [op EXCEPT ![c] = Cache!Completed(r)], UNCHANGED <<req, prev, wire>>
  PROVE  /\ op'[c].state = "done" /\ op'[c].result = r
         /\ \A o \in Caller : o # c => op'[o] = op[o]
         /\ \A o \in Caller : prev[o] # None => /\ prev[o] \in Caller /\ prev'[o] = prev[o]
                                                /\ op'[prev[o]] = op[prev[o]]
         /\ ResumesUnsent'
         /\ TrueOf(c, r.action) => RecordsTrue'
<1>0. /\ HeldTypes /\ CacheTypes /\ Prevs /\ prev \in [Caller -> Caller \cup {None}]
      /\ op \in [Caller -> CacheFacts!Operation]
  BY SentTypes
<1>1. /\ op'[c].state = "done" /\ op'[c].result = r
      /\ \A o \in Caller : o # c => op'[o] = op[o]
  BY <1>0 DEF Cache!Completed
<1>2. \A o \in Caller : prev[o] # None => /\ prev[o] \in Caller /\ prev'[o] = prev[o]
                                          /\ op'[prev[o]] = op[prev[o]]
  BY <1>0, <1>1 DEF Prevs
<1>3. ResumesUnsent'
  BY <1>2 DEF SentInv, ResumesUnsent, Submitted
<1>4. TrueOf(c, r.action) => RecordsTrue'
  BY <1>1 DEF SentInv, RecordsTrue, TrueOf, Submitted
<1> QED  BY <1>1, <1>2, <1>3, <1>4

LEMMA EndSent ==
  ASSUME SentInv, NEW c \in Caller, Ends(c)
  PROVE  SentFacts'
<1>0. HeldTypes /\ CacheTypes /\ Types /\ Prevs /\ UNCHANGED <<req, prev, wire, run>> /\ op[c].state = "open"
  BY SentTypes DEF SentInv, Held, Base, Ends, dockerVars
<1>1. PICK e \in Error : op' = [op EXCEPT ![c] = Cache!Completed(Unexecuted(c, e))]
  BY DEF Ends
<1> DEFINE r == Unexecuted(c, e)
<1>2. ~Submitted(c)
  BY <1>0 DEF Ends, SentInv, SubmittedByWorker
<1> HIDE DEF r
<1>3. op' = [op EXCEPT ![c] = Cache!Completed(r)]
  BY <1>1 DEF r
<1>4. /\ op'[c].state = "done" /\ op'[c].result = r
      /\ \A o \in Caller : o # c => op'[o] = op[o]
      /\ \A o \in Caller : prev[o] # None => /\ prev[o] \in Caller /\ prev'[o] = prev[o]
                                             /\ op'[prev[o]] = op[prev[o]]
      /\ ResumesUnsent' /\ RecordsTrue'
  BY <1>0, <1>2, <1>3, CompletedFacts, UnsentState
<1>5. SubmittedByWorker'
  BY <1>0, <1>2, <1>4 DEF SentInv, SubmittedByWorker, Submitted, Working, Home
<1>6. ASSUME NEW d \in Deployment
      PROVE  WorkerTrue(d)'
  <2>1. WorkerTrue(d)
    BY DEF SentInv, WorkersTrue
  <2>2. run[d].at \in {"inspect", "update", "reply", "reinspect"} => run[d].job \in Caller
    BY JobFacts DEF SentInv, Places3
  <2>3. run[d].at \in {"inspect", "update", "reply", "reinspect"} => ~Resuming(d)'
    BY <1>0, <1>4, <2>1, <2>2 DEF WorkerTrue, Resuming, Previous
  <2> QED  BY <1>0, <2>1, <2>3 DEF WorkerTrue, TrueOf, Submitted
<1> QED  BY <1>4, <1>5, <1>6 DEF SentFacts, WorkersTrue

(* A worker other than d goes on as before.                                  *)
LEMMA OtherWorkers ==
  ASSUME SentInv, NEW d \in Deployment, NEW e \in Deployment, e # d,
         run'[e] = run[e], UNCHANGED <<req, prev>>,
         \A o \in Caller : o # run[d].job => wire'[o] = wire[o],
         \A o \in Caller : prev[o] # None => op'[prev[o]] = op[prev[o]],
         run[d].job \in Caller
  PROVE  WorkerTrue(e)'
<1>1. WorkerTrue(e)
  BY DEF SentInv, WorkersTrue
<1>2. run[e].at \notin Places3 =>
        /\ run[e].job \in Caller /\ run[e].job # run[d].job
  <2>1. run[d].job # None => Home(run[d].job) = d
    BY DEF SentInv, Held, Queues
  <2>2. run[d].job # None
    BY Constants
  <2> QED  BY <2>1, <2>2, JobFacts DEF SentInv
<1> DEFINE j == run[e].job
<1>3. run[e].at \notin Places3 =>
        /\ wire'[j] = wire[j]
        /\ prev'[j] = prev[j] /\ (prev[j] # None => op'[prev[j]] = op[prev[j]])
  BY <1>2
<1> QED  BY <1>1, <1>3 DEF WorkerTrue, TrueOf, Submitted, Resuming, Previous, Places3

LEMMA PublishSent ==
  ASSUME SentInv, NEW d \in Deployment, Publishes(d)
  PROVE  SentFacts'
<1> DEFINE j == run[d].job
           r == run[d].out
<1>0. /\ HeldTypes /\ CacheTypes /\ Types /\ Prevs /\ UNCHANGED <<req, prev, wire>>
      /\ run[d].at = "publish" /\ j \in Caller /\ op[j].state = "open" /\ RunsTo(d, "next", None, NotApplied(""))
      /\ op' = [op EXCEPT ![j] = Cache!Completed(r)]
  BY SentTypes DEF SentInv, Held, Base, Publishes, dockerVars
<1>1. TrueOf(j, r.action)
  BY <1>0 DEF SentInv, WorkersTrue, WorkerTrue
<1>2. /\ op'[j].state = "done" /\ op'[j].result = r
      /\ \A o \in Caller : o # j => op'[o] = op[o]
      /\ \A o \in Caller : prev[o] # None => /\ prev[o] \in Caller /\ prev'[o] = prev[o]
                                             /\ op'[prev[o]] = op[prev[o]]
      /\ ResumesUnsent' /\ RecordsTrue'
  <2> HIDE DEF j, r
  <2> QED  BY <1>0, <1>1, CompletedFacts
<1>3. SubmittedByWorker'
  <2> SUFFICES ASSUME NEW c \in Caller, wire[c] # Docker!Unsent
               PROVE  /\ op'[c].state # "none"
                      /\ op'[c].state = "open" => /\ run'[Home(c)].job = c
                                                  /\ run'[Home(c)].at \in Submitting
    BY <1>0 DEF SubmittedByWorker, Submitted, Working, Home
  <2>1. /\ op[c].state # "none"
        /\ op[c].state = "open" => run[Home(c)].job = c /\ run[Home(c)].at \in Submitting
    BY DEF SentInv, SubmittedByWorker, Submitted, Working
  <2>2. CASE c = j
    BY <1>2, <2>2
  <2>3. CASE c # j
    <3>1. op'[c] = op[c] /\ Home(c) \in Deployment
      BY <1>0, <1>2, <2>3 DEF HeldTypes
    <3>2. op[c].state = "open" => Home(c) # d
      BY <2>1, <2>3
    <3> QED  BY <1>0, <2>1, <3>1, <3>2 DEF RunsTo
  <2> QED  BY <2>2, <2>3
<1>4. ASSUME NEW e \in Deployment
      PROVE  WorkerTrue(e)'
  <2>1. CASE e = d
    BY <1>0, <2>1 DEF RunsTo, WorkerTrue
  <2>2. CASE e # d
    <3>1. run'[e] = run[e]
      BY <1>0, <2>2 DEF RunsTo
    <3> QED  BY <1>0, <1>2, <2>2, <3>1, OtherWorkers
  <2> QED  BY <2>1, <2>2
<1> QED  BY <1>2, <1>3, <1>4 DEF SentFacts, WorkersTrue

(* A worker's step with its job, which leaves every operation as it is.      *)
LEMMA JobStep ==
  ASSUME SentInv, NEW d \in Deployment, NEW at \in At \ Places3, NEW out, NEW j \in Caller,
         run[d].at \notin Places3, j = run[d].job, RunsTo(d, at, j, out),
         UNCHANGED <<op, req, prev>>,
         \A o \in Caller : o # j => wire'[o] = wire[o],
         Submitted(j)' => at \in Submitting /\ ~Resuming(d),
         at \in {"observe", "publish"} => TrueOf(j, out.action)',
         at \in {"inspect", "update", "reply", "reinspect"} => ~Resuming(d),
         at = "reinspect" => out.action = "indeterminate",
         at = "observe" => out.action # "indeterminate"
  PROVE  SentFacts'
<1>0. /\ HeldTypes /\ Prevs
      /\ Home(j) = d /\ op[j].state = "open" /\ Working(j)
      /\ run'[d].at = at /\ run'[d].job = j /\ run'[d].out = out
      /\ \A e \in Deployment : e # d => run'[e] = run[e]
  BY SentTypes, JobFacts DEF SentInv, RunsTo
<1>2. SubmittedByWorker'
  <2> SUFFICES ASSUME NEW c \in Caller, wire'[c] # Docker!Unsent
               PROVE  /\ op[c].state # "none"
                      /\ op[c].state = "open" => /\ run'[Home(c)].job = c
                                                 /\ run'[Home(c)].at \in Submitting
    BY DEF SubmittedByWorker, Submitted, Working, Home
  <2>1. CASE c = j
    BY <1>0, <2>1 DEF Submitted
  <2>2. CASE c # j
    <3>1. wire[c] # Docker!Unsent
      BY <2>2
    <3>2. /\ op[c].state # "none"
          /\ op[c].state = "open" => run[Home(c)].job = c /\ run[Home(c)].at \in Submitting
      BY <3>1 DEF SentInv, SubmittedByWorker, Submitted, Working
    <3> QED  BY <1>0, <2>2, <3>2 DEF HeldTypes
  <2> QED  BY <2>1, <2>2
<1>3. ResumesUnsent'
  <2> SUFFICES ASSUME NEW c \in Caller, prev[c] # None, op[prev[c]].result.action # "indeterminate",
                      wire'[c] # Docker!Unsent
               PROVE  FALSE
    BY DEF ResumesUnsent, Submitted
  <2>1. c = j
    BY DEF SentInv, ResumesUnsent, Submitted
  <2> QED  BY <2>1 DEF Submitted, Resuming, Previous
<1>4. RecordsTrue'
  <2> SUFFICES ASSUME NEW c \in Caller, op[c].state = "done"
               PROVE  TrueOf(c, op[c].result.action)'
    BY DEF RecordsTrue
  <2>1. c # j /\ wire'[c] = wire[c]
    BY <1>0
  <2> QED  BY <2>1 DEF SentInv, RecordsTrue, TrueOf, Submitted
<1>5. ASSUME NEW e \in Deployment
      PROVE  WorkerTrue(e)'
  <2>1. CASE e = d
    <3>1. Resuming(d)' <=> Resuming(d)
      BY <1>0 DEF Resuming, Previous
    <3> QED  BY <1>0, <2>1, <3>1 DEF WorkerTrue, TrueOf, Submitted
  <2>2. CASE e # d
    BY <1>0, <2>2, OtherWorkers
  <2> QED  BY <2>1, <2>2
<1> QED  BY <1>2, <1>3, <1>4, <1>5 DEF SentFacts, WorkersTrue

LEMMA SubmitSent ==
  ASSUME SentInv, NEW d \in Deployment, Submits(d)
  PROVE  SentFacts'
<1>1. PICK j \in Caller :
        /\ j = run[d].job /\ run[d].at = "update" /\ RunsTo(d, "reply", j, run[d].out)
        /\ UNCHANGED <<op, req, prev>>
        /\ \A o \in Caller : o # j => wire'[o] = wire[o]
  BY DEF Submits, cacheVars, callVars
<1>2. ~Resuming(d)
  BY <1>1 DEF SentInv, WorkersTrue, WorkerTrue
<1>3. "reply" \in At \ Places3 /\ "update" \notin Places3 /\ "reply" \in Submitting
  BY DEF At, Places3, Submitting
<1> QED  BY <1>1, <1>2, <1>3, JobStep

LEMMA WorkSent ==
  ASSUME SentInv, NEW d \in Deployment, Works(d)
  PROVE  SentFacts'
<1>1. PICK at \in At \ Places3, out \in Result :
        /\ Moves(d, at, out)
        /\ (run[d].at = "start" /\ Starts(d, at, out)) \/ Executes(d, at, out)
        /\ UNCHANGED dockerVars
  BY DEF Works
<1>2. /\ run[d].at \notin Places3 /\ RunsTo(d, at, run[d].job, out)
      /\ UNCHANGED <<op, req, prev, wire>>
  BY <1>1 DEF Moves, SentInv, Held, Base, Types, WorkerTypes, cacheVars, callVars, dockerVars
<1>3. PICK j \in Caller : j = run[d].job /\ op[j].state = "open" /\ WorkerTrue(d)
  BY <1>2, JobFacts DEF SentInv, WorkersTrue
<1>4. /\ run[d].at \in {"start", "inspect", "update"} => ~Submitted(j)
      /\ Resuming(d) => ~Submitted(j)
      /\ Submitted(j) => run[d].at \in Submitting
  <2>1. Resuming(d) => ~Submitted(j)
    BY <1>3 DEF SentInv, ResumesUnsent, Resuming, Previous
  <2>2. Submitted(j) => run[d].at \in Submitting
    BY <1>2, <1>3, JobFacts DEF SentInv, SubmittedByWorker
  <2> QED  BY <1>3, <2>1, <2>2, NotYetSubmitted DEF SentInv
<1>5. \A a : TrueOf(j, a)' <=> TrueOf(j, a)
  BY <1>2 DEF TrueOf, Submitted
<1>6. Submitted(j)' <=> Submitted(j)
  BY <1>2 DEF Submitted
<1>7. ASSUME run[d].at = "start", Starts(d, at, out)
      PROVE  /\ at \in {"publish", "observe", "inspect"} /\ TrueOf(j, out.action)
             /\ at = "observe" => out.action # "indeterminate"
             /\ at = "inspect" => ~Resuming(d)
             /\ ~Submitted(j)
  BY <1>4, <1>7, UnsentState DEF Starts, Resuming
<1>8. ASSUME Executes(d, at, out)
      PROVE  /\ Submitted(j) => at \in Submitting
             /\ at \in {"observe", "publish"} => TrueOf(j, out.action)
             /\ at \in {"inspect", "update", "reply", "reinspect"} => ~Resuming(d)
             /\ at = "reinspect" => out.action = "indeterminate"
             /\ at = "observe" => out.action # "indeterminate"
  <2>1. CASE run[d].at = "inspect"
    BY <1>3, <1>4, <1>8, <2>1, UnsentState DEF Executes, WorkerTrue
  <2>2. CASE run[d].at \in {"update", "reply"}
    <3>1. TrueOf(j, "updated")
      BY DEF TrueOf
    <3>2. wire[j].state \in {"conflict", "rejected"} => Submitted(j) /\ TrueOf(j, "not_applied") /\ TrueOf(j, "rejected")
      BY DEF TrueOf, Submitted, Docker!Unsent
    <3> QED  BY <1>3, <1>8, <2>2, <3>1, <3>2 DEF Executes, WorkerTrue, Submitting
  <2>3. CASE run[d].at = "reinspect"
    BY <1>3, <1>8, <2>3 DEF Executes, WorkerTrue, TrueOf, Submitting
  <2>4. CASE run[d].at = "observe"
    BY <1>3, <1>8, <2>4 DEF Executes, WorkerTrue, Submitting
  <2> QED  BY <1>8, <2>1, <2>2, <2>3, <2>4 DEF Executes
<1>9. /\ Submitted(j) => at \in Submitting
      /\ at \in {"observe", "publish"} => TrueOf(j, out.action)
      /\ at \in {"inspect", "update", "reply", "reinspect"} => ~Resuming(d)
      /\ at = "reinspect" => out.action = "indeterminate"
      /\ at = "observe" => out.action # "indeterminate"
  BY <1>1, <1>7, <1>8
<1>10. at \in {"observe", "publish"} => TrueOf(j, out.action)'
  BY <1>5, <1>9
<1> QED  BY <1>2, <1>3, <1>4, <1>6, <1>9, <1>10, JobStep

LEMMA SentStep == SentInv /\ [Next]_vars => SentInv'
<1> SUFFICES ASSUME SentInv, [Next]_vars PROVE SentInv'
  OBVIOUS
<1>1. Held /\ Held'
  BY HeldStep DEF SentInv
<1>2. SentFacts'
  BY <1>1, SendSteps, ApartSent, DockerSent, CreateSent, EndSent, PublishSent, SubmitSent, WorkSent
<1> QED  BY <1>1, <1>2 DEF SentInv, SentFacts

LEMMA SentInit == Init => SentInv
<1> SUFFICES ASSUME Init PROVE SentInv
  OBVIOUS
<1>1. Held
  BY HeldInit
<1>2. \A d \in Deployment : run[d].at = "next"
  BY IdleFacts DEF Init
<1>3. \A c \in Caller : ~Submitted(c) /\ op[c].state = "none"
  BY DEF Init, Submitted, Docker!DockerInit, Cache!Init, Cache!NoOperation
<1> QED  BY <1>1, <1>2, <1>3
         DEF SentInv, SubmittedByWorker, ResumesUnsent, RecordsTrue, WorkersTrue, WorkerTrue

(* Updates belong to operations that got as far as a worker's submission,    *)
(* and every outcome a worker carries or records is true of them (execute).  *)
THEOREM SentInvariant == Spec => []SentInv
BY SentInit, SentStep, PTL DEF Spec

(* What an operation's recorded action says of its own update is true and    *)
(* stays true (execute, finishIndeterminate and completeWithoutExecution).   *)
THEOREM RecordsAreTrue == Spec => []RecordedActionIsTrue
<1>1. SentInv => RecordedActionIsTrue
  BY DEF SentInv, RecordsTrue, TrueOf, Submitted, RecordedActionIsTrue
<1> QED  BY <1>1, SentInvariant, PTL

(* A retry that resumes the observation of an established update submits     *)
(* nothing (execute with a previous outcome).                                *)
THEOREM ResumeIsObservation == Spec => []ResumeNeverSubmits
<1>1. SentInv => ResumeNeverSubmits
  BY DEF SentInv, ResumesUnsent, Submitted, ResumeNeverSubmits
<1> QED  BY <1>1, SentInvariant, PTL

-----------------------------------------------------------------------------
(* The versions of the updates of a token *)

Agreed(t, v) == \A o \in Caller : req[o].token = t /\ Submitted(o) => wire[o].version = v

(* The worker's outcome carries the version of the job's update.             *)
Keeps(d) ==
  \/ run[d].at \in {"update", "reply", "reinspect"}
  \/ run[d].at = "publish" /\ run[d].out.action = "indeterminate"

WorkersAgree ==
  \A d \in Deployment :
    Keeps(d) /\ Cache!Current(req[run[d].job].token) =>
      Agreed(req[run[d].job].token, run[d].out.version)

RecordsAgree ==
  \A c \in Caller :
    /\ op[c].state = "done" /\ op[c].result.action = "indeterminate"
    /\ Cache!Current(req[c].token) /\ entries[req[c].token] = c
    => Agreed(req[c].token, op[c].result.version)

(* What was submitted for the token before its current operation.            *)
RetriesAgree ==
  \A c, o \in Caller :
    /\ Cache!Current(req[c].token) /\ entries[req[c].token] = c
    /\ o # c /\ Submitted(o) /\ req[o].token = req[c].token
    => /\ prev[c] # None
       /\ op[prev[c]].result.action = "indeterminate" =>
            wire[o].version = op[prev[c]].result.version

SameVersion ==
  \A c, o \in Caller :
    /\ Submitted(c) /\ Submitted(o)
    /\ req[c].token = req[o].token /\ Cache!Current(req[c].token)
    => wire[c].version = wire[o].version

(* An accepted update left its version behind.                               *)
Taken ==
  \A c \in Caller : Submitted(c) =>
    /\ wire[c].service = ServiceOf[Home(c)]
    /\ Accepted(c) => wire[c].version < svc[wire[c].service].version

Agreement == WorkersAgree /\ RecordsAgree /\ RetriesAgree /\ SameVersion
VersionInv == SentInv /\ Agreement /\ Taken /\ OneUpdatePerToken

LEMMA SameCurrent == \A t : Cache!Current(t) <=> CacheFacts!Current(t)
BY DEF Cache!Current, CacheFacts!Current

LEMMA CurrentBefore ==
  ASSUME SentInv, [Next]_vars, NEW t \in Token, Cache!Current(t)'
  PROVE  Cache!Current(t)
<1>1. [Cache!Next]_cacheVars
  BY CacheMoves DEF SentInv, Held
<1>2. clock' = clock \/ clock' = clock + 1
  BY <1>1 DEF cacheVars, Cache!Next, Cache!Tick, Cache!CallerStep, Cache!Bind, Cache!ReplaceCompleted,
     Cache!BindReadsClock, Cache!BindInvalid, Cache!BindReused, Cache!BindShared, Cache!BindFull,
     Cache!BindNew, Cache!WaitReturns, Cache!ReplaceReadsClock, Cache!ReplaceInvalid,
     Cache!ReplaceUnknown, Cache!ReplaceReused, Cache!ReplaceShared, Cache!ReplaceNew,
     Cache!Abandon, Cache!Complete
<1>3. clock \in Nat /\ ValidUntil[t] \in Nat
  BY CacheConfigured DEF SentInv, Held, Base, CacheFacts!Inv, CacheFacts!TypeOK, Cache!CacheAssumption
<1> QED  BY <1>2, <1>3 DEF Cache!Current

LEMMA EntryKept ==
  ASSUME SentInv, NEW c \in Caller, NEW t \in Token, Cache!Current(t)
  PROVE  Cache!Retained(seen[c])[t] = entries[t]
<1>1. CacheFacts!Inv /\ CacheFacts!Current(t)
  BY SameCurrent DEF SentInv, Held, Base
<1>2. CacheFacts!Retained(seen[c])[t] = entries[t]
  BY <1>1, CacheConsts, CacheFacts!RetainedKeepsCurrent
<1> QED  BY <1>2, SameHelpers

(* The entry of a token changes only as an operation is created for it.      *)
LEMMA EntryMoves ==
  ASSUME SentInv, [Next]_vars, NEW t \in Token, Cache!Current(t), entries'[t] # entries[t]
  PROVE  \E c \in Caller : entries'[t] = c /\ op[c] # op'[c] /\ op'[c] = Cache!Opened
<1>0. [Cache!Next]_cacheVars /\ CacheTypes /\ CacheFacts!Inv
  BY CacheMoves, SentTypes DEF SentInv, Held, Base
<1>1. \/ entries' = entries
      \/ \E c \in Caller : entries' = Cache!Retained(seen[c])
      \/ \E c \in Caller : Cache!BindNew(c) \/ Cache!ReplaceNew(c)
  BY <1>0 DEF cacheVars, Cache!Next, Cache!Tick, Cache!CallerStep, Cache!Bind, Cache!ReplaceCompleted,
     Cache!BindReadsClock, Cache!BindInvalid, Cache!BindReused, Cache!BindShared, Cache!BindFull,
     Cache!WaitReturns, Cache!ReplaceReadsClock, Cache!ReplaceInvalid,
     Cache!ReplaceUnknown, Cache!ReplaceReused, Cache!ReplaceShared, Cache!Abandon, Cache!Complete
<1>2. PICK c \in Caller : Cache!BindNew(c) \/ Cache!ReplaceNew(c)
  BY <1>1, EntryKept
<1>3. /\ entries' = [Cache!Retained(seen[c]) EXCEPT ![req[c].token] = c]
      /\ op' = [op EXCEPT ![c] = Cache!Opened] /\ pc[c] \in {"bind", "replace"}
  BY <1>2 DEF Cache!BindNew, Cache!ReplaceNew
<1>4. op[c].state = "none"
  BY <1>0, <1>3 DEF CacheFacts!Inv, CacheFacts!NotYetOwner, CacheFacts!Exists
<1>5. op'[c] = Cache!Opened /\ op[c] # op'[c]
  BY <1>0, <1>3, <1>4 DEF CacheTypes, Cache!Opened
<1>6. entries'[t] # Cache!Retained(seen[c])[t]
  BY EntryKept
<1>7. entries'[t] = c
  BY <1>3, <1>6 DEF Cache!Retained
<1> QED  BY <1>5, <1>7

LEMMA EntrySame ==
  ASSUME SentInv, [Next]_vars, NEW t \in Token, Cache!Current(t),
         \A c \in Caller : op'[c].state = "open" => op'[c] = op[c]
  PROVE  entries'[t] = entries[t]
BY EntryMoves DEF Cache!Opened

LEMMA TokenOf == ASSUME SentInv, NEW c \in Caller PROVE req[c].token \in Token
BY SentTypes DEF CacheTypes, CacheFacts!Request

(* An unfinished operation of a current token is its entry.                  *)
LEMMA OpenIsEntry ==
  ASSUME SentInv, NEW c \in Caller, op[c].state = "open", Cache!Current(req[c].token)
  PROVE  entries[req[c].token] = c
BY SameCurrent DEF SentInv, Held, Base, CacheFacts!Inv, CacheFacts!OpenIsCurrent

(* The updates a step leaves as they were submitted.                         *)
SameUpdates ==
  \A o \in Caller : /\ Submitted(o)' <=> Submitted(o)
                    /\ Submitted(o) => wire'[o].version = wire[o].version
                                       /\ wire'[o].service = wire[o].service

(* The token of a request that is current after a step was so before it.     *)
LEMMA TokenCurrentBefore ==
  ASSUME SentInv, [Next]_vars, UNCHANGED req, NEW c \in Caller, Cache!Current(req[c].token)'
  PROVE  Cache!Current(req[c].token)
<1>1. PICK u \in Token : u = req[c].token
  BY TokenOf
<1>2. Cache!Current(u)'
  BY <1>1 DEF Cache!Current
<1> QED  BY <1>1, <1>2, CurrentBefore

(* Steps that leave operations and entries alone.                            *)
LEMMA CallsAlone ==
  ASSUME VersionInv, [Next]_vars, UNCHANGED <<op, req, prev>>, SameUpdates
  PROVE  RecordsAgree' /\ RetriesAgree' /\ SameVersion'
<1>0. /\ SentInv /\ RecordsAgree /\ RetriesAgree /\ SameVersion
      /\ \A c \in Caller : req[c].token \in Token
  BY TokenOf DEF VersionInv, Agreement
<1>1. ASSUME NEW c \in Caller, Cache!Current(req[c].token)'
      PROVE  Cache!Current(req[c].token) /\ entries'[req[c].token] = entries[req[c].token]
  <2>1. Cache!Current(req[c].token)
    BY <1>0, <1>1, TokenCurrentBefore
  <2> QED  BY <1>0, <2>1, EntrySame
<1>2. RecordsAgree'
  <2> SUFFICES ASSUME NEW c \in Caller, op[c].state = "done", op[c].result.action = "indeterminate",
                      Cache!Current(req[c].token)', entries'[req[c].token] = c,
                      NEW o \in Caller, req[o].token = req[c].token, Submitted(o)'
               PROVE  wire'[o].version = op[c].result.version
    BY DEF RecordsAgree, Agreed
  <2> QED  BY <1>0, <1>1 DEF RecordsAgree, Agreed, SameUpdates
<1>3. RetriesAgree'
  <2> SUFFICES ASSUME NEW c \in Caller, NEW o \in Caller,
                      Cache!Current(req[c].token)', entries'[req[c].token] = c,
                      o # c, Submitted(o)', req[o].token = req[c].token
               PROVE  /\ prev[c] # None
                      /\ op[prev[c]].result.action = "indeterminate" =>
                           wire'[o].version = op[prev[c]].result.version
    BY DEF RetriesAgree
  <2> QED  BY <1>0, <1>1 DEF RetriesAgree, SameUpdates
<1>4. SameVersion'
  <2> SUFFICES ASSUME NEW c \in Caller, NEW o \in Caller, Submitted(c)', Submitted(o)',
                      req[c].token = req[o].token, Cache!Current(req[c].token)'
               PROVE  wire'[c].version = wire'[o].version
    BY DEF SameVersion
  <2> QED  BY <1>0, <1>1 DEF SameVersion, SameUpdates
<1> QED  BY <1>2, <1>3, <1>4

(* A worker that goes on as before, whose job is not another's.              *)
LEMMA WorkerAlone ==
  ASSUME VersionInv, [Next]_vars, UNCHANGED req, NEW d \in Deployment,
         run'[d].at = run[d].at, run'[d].job = run[d].job, run'[d].out = run[d].out,
         \A o \in Caller : Submitted(o)' /\ req[o].token = req[run[d].job].token =>
                             Submitted(o) /\ wire'[o].version = wire[o].version,
         Keeps(d)', Cache!Current(req[run[d].job].token)'
  PROVE  Agreed(req[run[d].job].token, run[d].out.version)'
<1>1. Keeps(d) /\ run[d].at \notin Places3
  BY DEF Keeps, Places3
<1>2. run[d].job \in Caller
  BY <1>1, JobFacts DEF VersionInv, SentInv
<1>3. PICK j \in Caller : j = run[d].job
  BY <1>2
<1>4. Cache!Current(req[j].token)
  BY <1>3, TokenCurrentBefore DEF VersionInv, Cache!Current
<1>5. Agreed(req[j].token, run[d].out.version)
  BY <1>1, <1>3, <1>4 DEF VersionInv, Agreement, WorkersAgree
<1> QED  BY <1>3, <1>5 DEF Agreed

(* Workers that hold no outcome yet, or go on with the one they hold.        *)
LEMMA WorkersAlone ==
  ASSUME VersionInv, [Next]_vars, UNCHANGED req, SameUpdates,
         \A d \in Deployment : Keeps(d)' =>
           run'[d].at = run[d].at /\ run'[d].job = run[d].job /\ run'[d].out = run[d].out
  PROVE  WorkersAgree'
<1> SUFFICES ASSUME NEW d \in Deployment, Keeps(d)', Cache!Current(req[run[d].job].token)'
             PROVE  Agreed(req[run[d].job].token, run[d].out.version)'
  BY DEF WorkersAgree
<1> QED  BY WorkerAlone DEF SameUpdates

LEMMA ApartVersions ==
  ASSUME VersionInv, [Next]_vars, Apart
  PROVE  Agreement'
<1>1. UNCHANGED <<op, req, prev>> /\ SameUpdates
  BY DEF Apart, SameUpdates, Submitted, dockerVars
<1>2. \A d \in Deployment : Keeps(d)' =>
        run'[d].at = run[d].at /\ run'[d].job = run[d].job /\ run'[d].out = run[d].out
  BY DEF Apart, RunsApart, Keeps, Places3
<1> QED  BY <1>1, <1>2, CallsAlone, WorkersAlone DEF Agreement

LEMMA DockerVersions ==
  ASSUME VersionInv, [Next]_vars, DockerMoves
  PROVE  Agreement' /\ SameUpdates
<1>1. UNCHANGED <<op, req, prev, run>> /\ Types
  BY DEF DockerMoves, cacheVars, callVars, workVars, VersionInv, SentInv, Held, Base
<1>2. ASSUME NEW o \in Caller, NEW fate \in {"accepted", "conflict", "rejected"},
             wire[o].state = "sent", Docker!Settle(o, fate), NEW c \in Caller
      PROVE  wire'[c].version = wire[c].version /\ wire'[c].service = wire[c].service
  BY <1>1, <1>2, SettleStep DEF Types
<1>3. UNCHANGED wire \/ \E o \in Caller : wire[o].state = "sent" /\
        \E fate \in {"accepted", "conflict", "rejected"} : Docker!Settle(o, fate)
  BY DEF DockerMoves, Docker!DockerNext, Docker!Accept, Docker!Conflict, Docker!Reject,
         Docker!ChangedByOthers
<1>4. SameUpdates
  BY <1>1, <1>2, <1>3, DockerFates DEF SameUpdates, Submitted
<1> QED  BY <1>1, <1>4, CallsAlone, WorkersAlone DEF Agreement

LEMMA CreateVersions ==
  ASSUME VersionInv, [Next]_vars, NEW c \in Caller, Creates(c)
  PROVE  Agreement'
<1>0. /\ SentInv /\ RecordsAgree /\ RetriesAgree /\ SameVersion
      /\ \A o \in Caller : req[o].token \in Token
      /\ UNCHANGED <<req, wire, run>> /\ SameUpdates
      /\ CacheTypes /\ Prevs /\ prev \in [Caller -> Caller \cup {None}]
  BY TokenOf, SentTypes DEF VersionInv, Agreement, Creates, dockerVars, workVars, SameUpdates, Submitted
<1>1. /\ op[c].state = "none" /\ op'[c].state = "open"
      /\ \A o \in Caller : o # c => op'[o] = op[o] /\ prev'[o] = prev[o]
  BY <1>0 DEF Creates, Cache!Opened, CacheTypes
<1>2. ASSUME NEW o \in Caller, Cache!Current(req[o].token)', entries'[req[o].token] # c
      PROVE  Cache!Current(req[o].token) /\ entries'[req[o].token] = entries[req[o].token]
  BY <1>0, <1>1, <1>2, TokenCurrentBefore, EntryMoves
<1>3. WorkersAgree'
  BY <1>0, WorkersAlone
<1>4. RecordsAgree'
  <2> SUFFICES ASSUME NEW o \in Caller, op'[o].state = "done", op'[o].result.action = "indeterminate",
                      Cache!Current(req[o].token)', entries'[req[o].token] = o
               PROVE  Agreed(req[o].token, op'[o].result.version)
    BY <1>0 DEF RecordsAgree, Agreed, Submitted
  <2> QED  BY <1>0, <1>1, <1>2 DEF RecordsAgree
<1>5. ASSUME Cache!Current(req[c].token), NEW o \in Caller, o # c, Submitted(o),
             req[o].token = req[c].token
      PROVE  /\ prev'[c] # None /\ prev'[c] \in Caller /\ prev'[c] # c
             /\ op[prev'[c]].result.action = "indeterminate" =>
                  wire[o].version = op[prev'[c]].result.version
  <2>1. Cache!Retained(seen[c])[req[c].token] = entries[req[c].token]
    BY <1>0, <1>5, EntryKept
  <2>2. entries[req[c].token] # None
    <3>1. op[o].state # "none"
      BY <1>5 DEF SentInv, VersionInv, SubmittedByWorker
    <3> QED  BY <1>0, <1>5, <3>1, SameCurrent DEF SentInv, Held, Base, CacheFacts!Inv,
                CacheFacts!StillBound, CacheFacts!Exists
  <2>3. /\ prev' = [prev EXCEPT ![c] = watch[c]] /\ watch[c] \in Caller /\ watch[c] # c
        /\ op[watch[c]].state = "done" /\ req[watch[c]] = req[c]
        /\ entries[req[c].token] = watch[c]
    BY <2>1, <2>2 DEF Creates
  <2>4. prev'[c] = watch[c] /\ watch[c] # None
    BY <1>0, <2>3, Constants
  <2>5. op[watch[c]].result.action = "indeterminate" => Agreed(req[c].token, op[watch[c]].result.version)
    BY <1>0, <1>5, <2>3 DEF RecordsAgree
  <2> QED  BY <1>5, <2>3, <2>4, <2>5 DEF Agreed
<1>6. RetriesAgree'
  <2> SUFFICES ASSUME NEW x \in Caller, NEW o \in Caller,
                      Cache!Current(req[x].token)', entries'[req[x].token] = x,
                      o # x, Submitted(o), req[o].token = req[x].token
               PROVE  /\ prev'[x] # None
                      /\ op'[prev'[x]].result.action = "indeterminate" =>
                           wire[o].version = op'[prev'[x]].result.version
    BY <1>0 DEF RetriesAgree, Submitted
  <2>1. CASE x = c
    BY <1>0, <1>1, <1>5, <2>1, TokenCurrentBefore
  <2>2. CASE x # c
    <3>1. /\ prev[x] # None
          /\ op[prev[x]].result.action = "indeterminate" =>
               wire[o].version = op[prev[x]].result.version
      BY <1>0, <1>2, <2>2 DEF RetriesAgree
    <3>2. prev'[x] = prev[x] /\ op'[prev[x]] = op[prev[x]]
      BY <1>0, <1>1, <2>2, <3>1 DEF Prevs
    <3> QED  BY <3>1, <3>2
  <2> QED  BY <2>1, <2>2
<1>7. SameVersion'
  <2> SUFFICES ASSUME NEW x \in Caller, NEW o \in Caller, Submitted(x), Submitted(o),
                      req[x].token = req[o].token, Cache!Current(req[x].token)'
               PROVE  wire[x].version = wire[o].version
    BY <1>0 DEF SameVersion, Submitted
  <2> QED  BY <1>0, TokenCurrentBefore DEF SameVersion
<1> QED  BY <1>3, <1>4, <1>6, <1>7 DEF Agreement

(* An operation is completed with the version its token's updates were for,  *)
(* if it is indeterminate.                                                   *)
LEMMA CompleteVersions ==
  ASSUME VersionInv, [Next]_vars, NEW c \in Caller, NEW r, op[c].state = "open",
         op' = [op EXCEPT ![c] = Cache!Completed(r)], UNCHANGED <<req, prev, wire>>,
         r.action = "indeterminate" /\ Cache!Current(req[c].token) => Agreed(req[c].token, r.version)
  PROVE  RecordsAgree' /\ RetriesAgree' /\ SameVersion'
<1>0. /\ SentInv /\ RecordsAgree /\ RetriesAgree /\ SameVersion
      /\ \A o \in Caller : req[o].token \in Token
  BY TokenOf DEF VersionInv, Agreement
<1>1. /\ op'[c].state = "done" /\ op'[c].result = r
      /\ \A o \in Caller : o # c => op'[o] = op[o]
      /\ \A o \in Caller : prev[o] # None => /\ prev[o] \in Caller /\ prev'[o] = prev[o]
                                             /\ op'[prev[o]] = op[prev[o]]
  BY <1>0, CompletedFacts
<1>2. ASSUME NEW o \in Caller, Cache!Current(req[o].token)'
      PROVE  Cache!Current(req[o].token) /\ entries'[req[o].token] = entries[req[o].token]
  BY <1>0, <1>1, <1>2, TokenCurrentBefore, EntrySame
<1>3. RecordsAgree'
  <2> SUFFICES ASSUME NEW o \in Caller, op'[o].state = "done", op'[o].result.action = "indeterminate",
                      Cache!Current(req[o].token)', entries'[req[o].token] = o
               PROVE  Agreed(req[o].token, op'[o].result.version)
    BY DEF RecordsAgree, Agreed, Submitted
  <2> QED  BY <1>0, <1>1, <1>2 DEF RecordsAgree
<1>4. RetriesAgree'
  <2> SUFFICES ASSUME NEW x \in Caller, NEW o \in Caller,
                      Cache!Current(req[x].token)', entries'[req[x].token] = x,
                      o # x, Submitted(o), req[o].token = req[x].token
               PROVE  /\ prev[x] # None
                      /\ op'[prev[x]].result.action = "indeterminate" =>
                           wire[o].version = op'[prev[x]].result.version
    BY DEF RetriesAgree, Submitted
  <2> QED  BY <1>0, <1>1, <1>2 DEF RetriesAgree
<1>5. SameVersion'
  <2> SUFFICES ASSUME NEW x \in Caller, NEW o \in Caller, Submitted(x), Submitted(o),
                      req[x].token = req[o].token, Cache!Current(req[x].token)'
               PROVE  wire[x].version = wire[o].version
    BY DEF SameVersion, Submitted
  <2> QED  BY <1>0, <1>2 DEF SameVersion
<1> QED  BY <1>3, <1>4, <1>5

LEMMA EndVersions ==
  ASSUME VersionInv, [Next]_vars, NEW c \in Caller, Ends(c)
  PROVE  Agreement'
<1>0. /\ SentInv /\ UNCHANGED <<req, prev, wire, run>> /\ op[c].state = "open" /\ SameUpdates
      /\ CacheTypes /\ Types /\ Prevs
  BY SentTypes DEF VersionInv, SentInv, Held, Base, Ends, dockerVars, SameUpdates, Submitted
<1>1. PICK e \in Error : op' = [op EXCEPT ![c] = Cache!Completed(Unexecuted(c, e))]
  BY DEF Ends
<1> DEFINE r == Unexecuted(c, e)
<1>2. ~Submitted(c)
  BY <1>0 DEF Ends, SentInv, SubmittedByWorker
<1>3. r.action = "indeterminate" =>
        prev[c] # None /\ op[prev[c]].result.action = "indeterminate" /\ r.version = op[prev[c]].result.version
  BY <1>0, UnexecutedIsResult
<1>4. op' = [op EXCEPT ![c] = Cache!Completed(r)]
  BY <1>1
<1> HIDE DEF r
<1>5. ASSUME r.action = "indeterminate", Cache!Current(req[c].token)
      PROVE  Agreed(req[c].token, r.version)
  <2>1. entries[req[c].token] = c
    BY <1>0, <1>5, OpenIsEntry
  <2> QED  BY <1>2, <1>3, <1>5, <2>1 DEF VersionInv, Agreement, RetriesAgree, Agreed
<1>6. WorkersAgree'
  BY <1>0, WorkersAlone
<1> QED  BY <1>0, <1>4, <1>5, <1>6, CompleteVersions DEF Agreement

LEMMA PublishVersions ==
  ASSUME VersionInv, [Next]_vars, NEW d \in Deployment, Publishes(d)
  PROVE  Agreement'
<1>1. PICK j \in Caller :
        /\ j = run[d].job /\ run[d].at = "publish" /\ op[j].state = "open"
        /\ op' = [op EXCEPT ![j] = Cache!Completed(run[d].out)]
        /\ RunsTo(d, "next", None, NotApplied(""))
        /\ UNCHANGED <<req, prev, wire>> /\ SameUpdates
  BY DEF Publishes, dockerVars, SameUpdates, Submitted
<1>2. ASSUME run[d].out.action = "indeterminate", Cache!Current(req[j].token)
      PROVE  Agreed(req[j].token, run[d].out.version)
  BY <1>1, <1>2 DEF VersionInv, Agreement, WorkersAgree, Keeps
<1>3. WorkersAgree'
  <2>1. \A e \in Deployment : Keeps(e)' =>
          run'[e].at = run[e].at /\ run'[e].job = run[e].job /\ run'[e].out = run[e].out
    BY <1>1 DEF RunsTo, Keeps
  <2> QED  BY <1>1, <2>1, WorkersAlone
<1> DEFINE out == run[d].out
<1> HIDE DEF out
<1>4. /\ op' = [op EXCEPT ![j] = Cache!Completed(out)]
      /\ out.action = "indeterminate" /\ Cache!Current(req[j].token) => Agreed(req[j].token, out.version)
  BY <1>1, <1>2 DEF out
<1> QED  BY <1>1, <1>3, <1>4, CompleteVersions DEF Agreement

(* Jobs in the hands of workers whose tokens are current have tokens of      *)
(* their own.                                                                *)
LEMMA OneJobPerToken ==
  ASSUME VersionInv, NEW d \in Deployment, run[d].at \notin Places3,
         Cache!Current(req[run[d].job].token),
         NEW c \in Caller, op[c].state = "open", req[c].token = req[run[d].job].token
  PROVE  c = run[d].job
<1>1. run[d].job \in Caller /\ op[run[d].job].state = "open" /\ SentInv
  BY JobFacts DEF VersionInv, SentInv
<1> QED  BY <1>1, OpenIsEntry

LEMMA SubmitVersions ==
  ASSUME VersionInv, [Next]_vars, NEW d \in Deployment, Submits(d)
  PROVE  Agreement'
<1>1. PICK j \in Caller : j = run[d].job
  BY DEF Submits
<1>2. /\ SentInv /\ RecordsAgree /\ RetriesAgree /\ SameVersion /\ WorkersAgree
      /\ run[d].at = "update" /\ RunsTo(d, "reply", j, run[d].out)
      /\ UNCHANGED <<op, req, prev>> /\ op[j].state = "open"
      /\ \A o \in Caller : o # j => wire'[o] = wire[o]
      /\ wire'[j] # Docker!Unsent /\ wire'[j].version = run[d].out.version
  BY <1>1, JobFacts DEF VersionInv, Agreement, SentInv, Submits, cacheVars, callVars, Places3
<1>3. ASSUME NEW c \in Caller, Cache!Current(req[c].token)'
      PROVE  Cache!Current(req[c].token) /\ entries'[req[c].token] = entries[req[c].token]
  BY <1>2, <1>3, TokenCurrentBefore, EntrySame, TokenOf
<1>4. ASSUME NEW o \in Caller, o # j, Submitted(o), req[o].token = req[j].token,
             Cache!Current(req[j].token)
      PROVE  wire[o].version = run[d].out.version
  BY <1>1, <1>2, <1>4 DEF WorkersAgree, Keeps, Agreed
<1>5. WorkersAgree'
  <2> SUFFICES ASSUME NEW e \in Deployment, Keeps(e)', Cache!Current(req[run[e].job].token)'
               PROVE  Agreed(req[run[e].job].token, run[e].out.version)'
    BY DEF WorkersAgree
  <2>1. CASE e = d
    <3>1. run'[d].job = j /\ run'[d].out = run[d].out
      BY <1>2 DEF RunsTo
    <3>2. Cache!Current(req[j].token)'
      BY <2>1, <3>1 DEF Cache!Current
    <3>3. Cache!Current(req[j].token)
      BY <1>3, <3>2
    <3> QED  BY <1>2, <1>4, <2>1, <3>1, <3>3 DEF Agreed, Submitted
  <2>2. CASE e # d
    <3>1. run'[e] = run[e]
      BY <1>2, <2>2 DEF RunsTo
    <3>2. run[e].at \notin Places3
      BY <3>1 DEF Keeps, Places3
    <3>3. PICK k \in Caller : k = run[e].job /\ Home(k) = e
      BY <3>2, JobFacts DEF VersionInv, SentInv
    <3>4. Cache!Current(req[k].token)'
      BY <3>1, <3>3 DEF Cache!Current
    <3>5. Cache!Current(req[k].token)
      BY <1>3, <3>4
    <3>6. Home(j) = d
      BY <1>1, <1>2, JobFacts DEF SentInv, Places3
    <3>7. req[j].token # req[k].token
      BY <1>2, <2>2, <3>2, <3>3, <3>5, <3>6, OneJobPerToken
    <3>8. \A o \in Caller : Submitted(o)' /\ req[o].token = req[run[e].job].token =>
                              Submitted(o) /\ wire'[o].version = wire[o].version
      BY <1>2, <3>3, <3>7 DEF Submitted
    <3> QED  BY <1>2, <3>1, <3>8, WorkerAlone
  <2> QED  BY <2>1, <2>2
<1>6. ASSUME NEW c \in Caller, c # j, req[c].token = req[j].token, Cache!Current(req[c].token)
      PROVE  entries[req[c].token] # c
  BY <1>2, <1>6, OpenIsEntry
<1>7. RecordsAgree'
  <2> SUFFICES ASSUME NEW c \in Caller, op[c].state = "done", op[c].result.action = "indeterminate",
                      Cache!Current(req[c].token)', entries'[req[c].token] = c,
                      NEW o \in Caller, req[o].token = req[c].token, Submitted(o)'
               PROVE  wire'[o].version = op[c].result.version
    BY <1>2 DEF RecordsAgree, Agreed
  <2>1. Cache!Current(req[c].token) /\ entries[req[c].token] = c
    BY <1>3
  <2>2. o # j
    BY <1>2, <1>6, <2>1
  <2> QED  BY <1>2, <2>1, <2>2 DEF RecordsAgree, Agreed, Submitted
<1>8. RetriesAgree'
  <2> SUFFICES ASSUME NEW c \in Caller, NEW o \in Caller,
                      Cache!Current(req[c].token)', entries'[req[c].token] = c,
                      o # c, Submitted(o)', req[o].token = req[c].token
               PROVE  /\ prev[c] # None
                      /\ op[prev[c]].result.action = "indeterminate" =>
                           wire'[o].version = op[prev[c]].result.version
    BY <1>2 DEF RetriesAgree
  <2>1. Cache!Current(req[c].token) /\ entries[req[c].token] = c
    BY <1>3
  <2>2. o # j
    BY <1>6, <2>1
  <2> QED  BY <1>2, <2>1, <2>2 DEF RetriesAgree, Submitted
<1>9. SameVersion'
  <2> SUFFICES ASSUME NEW c \in Caller, NEW o \in Caller, Submitted(c)', Submitted(o)',
                      req[c].token = req[o].token, Cache!Current(req[c].token)'
               PROVE  wire'[c].version = wire'[o].version
    BY <1>2 DEF SameVersion
  <2>1. Cache!Current(req[c].token)
    BY <1>3
  <2>2. CASE c # j /\ o # j
    BY <1>2, <2>1, <2>2 DEF SameVersion, Submitted
  <2>3. CASE c = j \/ o = j
    BY <1>2, <1>4, <2>1, <2>3 DEF Submitted
  <2> QED  BY <2>2, <2>3
<1> QED  BY <1>5, <1>7, <1>8, <1>9 DEF Agreement

LEMMA WorkVersions ==
  ASSUME VersionInv, [Next]_vars, NEW d \in Deployment, Works(d)
  PROVE  Agreement'
<1>1. PICK at \in At \ Places3, out \in Result :
        /\ Moves(d, at, out)
        /\ (run[d].at = "start" /\ Starts(d, at, out)) \/ Executes(d, at, out)
        /\ UNCHANGED dockerVars
  BY DEF Works
<1>2. /\ SentInv /\ run[d].at \notin Places3 /\ RunsTo(d, at, run[d].job, out)
      /\ UNCHANGED <<op, req, prev, wire>> /\ SameUpdates /\ WorkerTrue(d)
      /\ RetriesAgree /\ WorkersAgree
  BY <1>1 DEF Moves, VersionInv, Agreement, SentInv, WorkersTrue, Held, Base, Types, WorkerTypes,
     cacheVars, callVars, dockerVars, SameUpdates, Submitted
<1>3. PICK j \in Caller : j = run[d].job /\ op[j].state = "open"
  BY <1>2, JobFacts DEF SentInv
<1>4. ASSUME at \in {"update", "reply", "reinspect"} \/ (at = "publish" /\ out.action = "indeterminate"),
             Cache!Current(req[j].token)
      PROVE  Agreed(req[j].token, out.version)
  <2>1. CASE Keeps(d) /\ out.version = run[d].out.version
    BY <1>2, <1>3, <1>4, <2>1 DEF WorkersAgree
  <2>2. CASE run[d].at = "inspect" /\ at = "update" /\ MayUpdate(d) /\ out.version = svc[ServiceOf[d]].version
    <3>1. ~Submitted(j) /\ ~Resuming(d)
      BY <1>2, <1>3, <2>2, NotYetSubmitted DEF SentInv, WorkerTrue
    <3>2. entries[req[j].token] = j
      BY <1>2, <1>3, <1>4, OpenIsEntry
    <3> SUFFICES ASSUME NEW o \in Caller, req[o].token = req[j].token, Submitted(o)
                 PROVE  wire[o].version = out.version
      BY DEF Agreed
    <3>3. /\ prev[j] # None
          /\ op[prev[j]].result.action = "indeterminate" => wire[o].version = op[prev[j]].result.version
      BY <1>2, <1>4, <3>1, <3>2 DEF RetriesAgree
    <3>4. Retrying(d) /\ wire[o].version = Previous(d).version
      BY <1>3, <3>1, <3>3 DEF Resuming, Retrying, Previous
    <3> QED  BY <2>2, <3>4 DEF MayUpdate, Target
  <2>3. ~(run[d].at = "start" /\ Starts(d, at, out))
    BY <1>4 DEF Starts
  <2>4. Executes(d, at, out)
    BY <1>1, <2>3
  <2> QED  BY <1>2, <1>4, <2>1, <2>2, <2>4 DEF Executes, Keeps, WorkerTrue
<1>5. WorkersAgree'
  <2> SUFFICES ASSUME NEW e \in Deployment, Keeps(e)', Cache!Current(req[run[e].job].token)'
               PROVE  Agreed(req[run[e].job].token, run[e].out.version)'
    BY DEF WorkersAgree
  <2>1. CASE e = d
    <3>1. run'[d].at = at /\ run'[d].job = j /\ run'[d].out = out
      BY <1>2, <1>3 DEF RunsTo
    <3>2. Cache!Current(req[j].token)'
      BY <2>1, <3>1 DEF Cache!Current
    <3>3. Cache!Current(req[j].token)
      BY <1>2, <3>2, TokenCurrentBefore
    <3>4. Agreed(req[j].token, out.version)
      BY <1>4, <2>1, <3>1, <3>3 DEF Keeps
    <3> QED  BY <1>2, <2>1, <3>1, <3>4 DEF Agreed, Submitted
  <2>2. CASE e # d
    <3>1. run'[e] = run[e]
      BY <1>2, <2>2 DEF RunsTo
    <3> QED  BY <1>2, <3>1, WorkerAlone DEF Submitted
  <2> QED  BY <2>1, <2>2
<1> QED  BY <1>2, <1>5, CallsAlone DEF Agreement

Docking == Taken /\ OneUpdatePerToken

LEMMA SameTaken ==
  ASSUME VersionInv, [Next]_vars, UNCHANGED <<req, svc, wire>>
  PROVE  Docking'
<1>0. SentInv /\ Taken /\ OneUpdatePerToken
  BY DEF VersionInv
<1>1. Taken'
  BY <1>0 DEF Taken, Submitted, Accepted, Home
<1>2. OneUpdatePerToken'
  <2> SUFFICES ASSUME NEW c \in Caller, NEW d \in Caller, Accepted(c), Accepted(d),
                      req[c].token = req[d].token, Cache!Current(req[c].token)'
               PROVE  c = d
    BY DEF OneUpdatePerToken, Accepted
  <2> QED  BY <1>0, TokenCurrentBefore DEF OneUpdatePerToken
<1> QED  BY <1>1, <1>2 DEF Docking

LEMMA SubmitTaken ==
  ASSUME VersionInv, [Next]_vars, NEW d \in Deployment, Submits(d)
  PROVE  Docking'
<1>1. PICK j \in Caller : j = run[d].job
  BY DEF Submits
<1>2. /\ SentInv /\ Taken /\ OneUpdatePerToken /\ UNCHANGED <<req, svc>> /\ Home(j) = d
      /\ \A o \in Caller : o # j => wire'[o] = wire[o]
      /\ wire'[j].service = ServiceOf[d] /\ wire'[j].state = "sent"
  BY <1>1, JobFacts DEF VersionInv, SentInv, Submits, cacheVars, Places3
<1>3. \A c \in Caller : Accepted(c)' => c # j /\ Accepted(c)
  BY <1>2 DEF Accepted
<1>4. Taken'
  <2> SUFFICES ASSUME NEW c \in Caller, Submitted(c)'
               PROVE  /\ wire'[c].service = ServiceOf[req[c].deployment]
                      /\ wire'[c].state = "accepted" => wire'[c].version < svc[wire'[c].service].version
    BY <1>2 DEF Taken, Accepted, Home
  <2> QED  BY <1>2 DEF Taken, Submitted, Accepted, Home
<1>5. OneUpdatePerToken'
  <2> SUFFICES ASSUME NEW c \in Caller, NEW o \in Caller, Accepted(c)', Accepted(o)',
                      req[c].token = req[o].token, Cache!Current(req[c].token)'
               PROVE  c = o
    BY <1>2 DEF OneUpdatePerToken
  <2> QED  BY <1>2, <1>3, TokenCurrentBefore DEF OneUpdatePerToken
<1> QED  BY <1>4, <1>5 DEF Docking

(* Docker takes an update only at its version, which it leaves behind.       *)
LEMMA AcceptTaken ==
  ASSUME VersionInv, [Next]_vars, DockerMoves, NEW c \in Caller, Docker!Accept(c)
  PROVE  Docking'
<1>0. /\ SentInv /\ Taken /\ OneUpdatePerToken /\ SameVersion /\ DockerTypes /\ UNCHANGED req
      /\ SameUpdates
  BY DockerVersions DEF VersionInv, Agreement, SentInv, Held, Base, Types, DockerMoves, cacheVars
<1> DEFINE s == wire[c].service
           v == svc[s].version
<1>1. /\ wire[c].state = "sent" /\ wire[c].version = v
      /\ svc' = [svc EXCEPT ![s] = [version |-> v + 1, image |-> wire[c].image]]
      /\ Docker!Settle(c, "accepted")
  BY DEF Docker!Accept
<1>2. /\ \A o \in Caller : o # c => wire'[o] = wire[o]
      /\ wire'[c].state = "accepted" /\ wire'[c].service = s /\ wire'[c].version = v
      /\ s \in Service
  BY <1>0, <1>1, SettleStep
<1>3. Submitted(c) /\ ~Accepted(c)
  BY <1>1 DEF Submitted, Accepted, Docker!Unsent
<1>4. v \in Nat /\ svc'[s].version = v + 1 /\ \A t \in Service : t # s => svc'[t] = svc[t]
  BY <1>0, <1>1, <1>2 DEF DockerTypes
<1> HIDE DEF s, v
<1>5. \A o \in Caller : o # c => (Submitted(o)' <=> Submitted(o)) /\ (Accepted(o)' <=> Accepted(o))
  BY <1>2 DEF Submitted, Accepted
<1>6. ASSUME NEW o \in Caller, Submitted(o), o # c
      PROVE  /\ wire'[o].service = ServiceOf[req[o].deployment]
             /\ Accepted(o)' => wire'[o].version < svc'[wire'[o].service].version
  <2>1. /\ wire[o].service = ServiceOf[req[o].deployment]
        /\ Accepted(o) => wire[o].version < svc[wire[o].service].version
    BY <1>0, <1>6 DEF Taken, Home
  <2>2. wire'[o] = wire[o] /\ (Accepted(o)' <=> Accepted(o))
    BY <1>2, <1>5, <1>6
  <2>3. wire[o].service \in Service /\ wire[o].version \in Nat
    <3>1. wire[o] \in [state : Docker!Fate, service : Service, version : Versions, image : Image]
      BY <1>0, <1>6 DEF DockerTypes, Wires, Submitted
    <3> QED  BY <3>1, Constants DEF Versions
  <2>4. CASE wire[o].service = s
    <3>1. Accepted(o) => wire[o].version < v
      BY <2>1, <2>4 DEF v
    <3> QED  BY <1>4, <2>1, <2>2, <2>3, <2>4, <3>1
  <2>5. CASE wire[o].service # s
    BY <1>4, <2>1, <2>2, <2>3, <2>5
  <2> QED  BY <2>4, <2>5
<1>7. Taken'
  <2> SUFFICES ASSUME NEW o \in Caller, Submitted(o)'
               PROVE  /\ wire'[o].service = ServiceOf[req[o].deployment]
                      /\ Accepted(o)' => wire'[o].version < svc'[wire'[o].service].version
    BY <1>0 DEF Taken, Home
  <2>1. CASE o = c
    <3>1. s = ServiceOf[req[c].deployment]
      BY <1>0, <1>3 DEF Taken, Home, s
    <3>2. v < v + 1
      BY <1>4
    <3> QED  BY <1>2, <1>4, <2>1, <3>1, <3>2
  <2>2. CASE o # c
    BY <1>5, <1>6, <2>2
  <2> QED  BY <2>1, <2>2
<1>8. ASSUME NEW o \in Caller, Accepted(o), req[o].token = req[c].token, Cache!Current(req[c].token)
      PROVE  FALSE
  <2>1. Submitted(o)
    BY <1>8 DEF Accepted, Submitted, Docker!Unsent
  <2>2. wire[o].version = v
    BY <1>0, <1>1, <1>3, <1>8, <2>1 DEF SameVersion, v
  <2>3. wire[o].version < svc[wire[o].service].version /\ wire[o].service = ServiceOf[Home(o)]
    BY <1>0, <1>8, <2>1 DEF Taken
  <2>4. req[o] = req[c]
    <3>1. CacheFacts!Inv /\ CacheFacts!Current(req[c].token)
      BY <1>8, SameCurrent DEF VersionInv, SentInv, Held, Base
    <3>2. CacheFacts!Exists(o) /\ CacheFacts!Exists(c)
      BY <1>3, <2>1 DEF VersionInv, SentInv, SubmittedByWorker, CacheFacts!Exists
    <3> QED  BY <1>8, <3>1, <3>2 DEF CacheFacts!Inv, CacheFacts!StillBound
  <2>5. wire[o].service = s
    BY <1>0, <1>3, <2>3, <2>4 DEF Taken, Home, s
  <2>6. v < v /\ v \in Nat
    BY <1>4, <2>2, <2>3, <2>5 DEF v
  <2> QED  BY <2>6
<1>9. OneUpdatePerToken'
  <2> SUFFICES ASSUME NEW x \in Caller, NEW o \in Caller, Accepted(x)', Accepted(o)',
                      req[x].token = req[o].token, Cache!Current(req[x].token)'
               PROVE  x = o
    BY <1>0 DEF OneUpdatePerToken
  <2>1. Cache!Current(req[x].token)
    BY <1>0, TokenCurrentBefore
  <2>2. CASE x # c /\ o # c
    BY <1>0, <1>5, <2>1, <2>2 DEF OneUpdatePerToken
  <2>3. CASE x = c \/ o = c
    BY <1>5, <1>8, <2>1, <2>3
  <2> QED  BY <2>2, <2>3
<1> QED  BY <1>7, <1>9 DEF Docking

LEMMA DockerTaken ==
  ASSUME VersionInv, [Next]_vars, DockerMoves
  PROVE  Docking'
<1>0. /\ SentInv /\ Taken /\ OneUpdatePerToken /\ DockerTypes /\ UNCHANGED req /\ SameUpdates
  BY DockerVersions DEF VersionInv, SentInv, Held, Base, Types, DockerMoves, cacheVars
<1>1. ASSUME \A c \in Caller : Accepted(c)' => Accepted(c),
             \A s \in Service : svc'[s].version = svc[s].version \/ svc'[s].version = svc[s].version + 1
      PROVE  Docking'
  <2>1. Taken'
    <3> SUFFICES ASSUME NEW c \in Caller, Submitted(c)'
                 PROVE  /\ wire'[c].service = ServiceOf[req[c].deployment]
                        /\ Accepted(c)' => wire'[c].version < svc'[wire'[c].service].version
      BY <1>0 DEF Taken, Home
    <3>1. /\ Submitted(c) /\ wire'[c].version = wire[c].version /\ wire'[c].service = wire[c].service
          /\ wire[c].service = ServiceOf[req[c].deployment]
          /\ Accepted(c) => wire[c].version < svc[wire[c].service].version
      BY <1>0 DEF SameUpdates, Taken, Home
    <3>2. wire[c].service \in Service /\ wire[c].version \in Nat
      <4>1. wire[c] \in [state : Docker!Fate, service : Service, version : Versions, image : Image]
        BY <1>0, <3>1 DEF DockerTypes, Wires, Submitted
      <4> QED  BY <4>1, Constants DEF Versions
    <3>3. svc[wire[c].service].version \in Nat
      BY <1>0, <3>2 DEF DockerTypes
    <3>4. \/ svc'[wire[c].service].version = svc[wire[c].service].version
          \/ svc'[wire[c].service].version = svc[wire[c].service].version + 1
      BY <1>1, <3>2
    <3>5. Accepted(c)' => Accepted(c)
      BY <1>1
    <3> QED  BY <3>1, <3>2, <3>3, <3>4, <3>5
  <2>2. OneUpdatePerToken'
    <3> SUFFICES ASSUME NEW c \in Caller, NEW o \in Caller, Accepted(c)', Accepted(o)',
                        req[c].token = req[o].token, Cache!Current(req[c].token)'
                 PROVE  c = o
      BY <1>0 DEF OneUpdatePerToken
    <3> QED  BY <1>0, <1>1, TokenCurrentBefore DEF OneUpdatePerToken
  <2> QED  BY <2>1, <2>2 DEF Docking
<1>2. ASSUME NEW c \in Caller, Docker!Conflict(c) \/ Docker!Reject(c)
      PROVE  Docking'
  <2>1. PICK fate \in {"conflict", "rejected"} : wire[c].state = "sent" /\ Docker!Settle(c, fate)
    BY <1>2 DEF Docker!Conflict, Docker!Reject
  <2>2. /\ \A o \in Caller : o # c => wire'[o] = wire[o]
        /\ wire'[c].state = fate /\ fate # "accepted"
    BY <1>0, <2>1, SettleStep
  <2>3. svc' = svc
    BY <1>2 DEF Docker!Conflict, Docker!Reject
  <2> QED  BY <1>1, <2>2, <2>3 DEF Accepted
<1>3. ASSUME NEW s \in Service, Docker!ChangedByOthers(s)
      PROVE  Docking'
  <2>1. wire' = wire
    BY <1>3 DEF Docker!ChangedByOthers
  <2>2. PICK image \in Image :
          svc' = [svc EXCEPT ![s] = [version |-> svc[s].version + 1, image |-> image]]
    BY <1>3 DEF Docker!ChangedByOthers
  <2>3. \A t \in Service : svc'[t].version = svc[t].version \/ svc'[t].version = svc[t].version + 1
    BY <1>0, <2>2 DEF DockerTypes
  <2> QED  BY <1>1, <2>1, <2>3 DEF Accepted
<1> QED  BY <1>2, <1>3, AcceptTaken DEF DockerMoves, Docker!DockerNext

LEMMA VersionInvStep == VersionInv /\ [Next]_vars => VersionInv'
<1> SUFFICES ASSUME VersionInv, [Next]_vars PROVE VersionInv'
  OBVIOUS
<1>1. SentInv /\ Held /\ SentInv'
  BY SentStep DEF VersionInv, SentInv
<1>2. Agreement'
  BY <1>1, SendSteps, ApartVersions, DockerVersions, CreateVersions, EndVersions, SubmitVersions,
     WorkVersions, PublishVersions
<1>3. Docking'
  <2>1. ASSUME \/ Apart
               \/ \E c \in Caller : Creates(c) \/ Ends(c)
               \/ \E d \in Deployment : Works(d) \/ Publishes(d)
        PROVE  UNCHANGED <<req, svc, wire>>
    BY <2>1 DEF Apart, Creates, Ends, Works, Moves, Publishes, dockerVars, cacheVars
  <2> QED  BY <1>1, <2>1, SameTaken, SubmitTaken, DockerTaken, SendSteps
<1> QED  BY <1>1, <1>2, <1>3 DEF VersionInv, Docking

LEMMA VersionInvInit == Init => VersionInv
<1> SUFFICES ASSUME Init PROVE VersionInv
  OBVIOUS
<1>1. SentInv
  BY SentInit
<1>2. \A d \in Deployment : ~Keeps(d)
  BY IdleFacts DEF Init, Keeps
<1>3. \A c \in Caller : ~Submitted(c) /\ op[c].state = "none" /\ ~Accepted(c)
  BY DEF Init, Submitted, Accepted, Docker!DockerInit, Docker!Unsent, Cache!Init, Cache!NoOperation
<1> QED  BY <1>1, <1>2, <1>3
         DEF VersionInv, Agreement, WorkersAgree, RecordsAgree, RetriesAgree, SameVersion, Taken,
             OneUpdatePerToken

(* While a token can still pass time validation Docker takes at most one     *)
(* update made in its name: the version an indeterminate outcome keeps, and  *)
(* Docker's check of it, hold across any chain of retries.                   *)
THEOREM OneUpdateForEachToken == Spec => []OneUpdatePerToken
<1>1. VersionInv => OneUpdatePerToken
  BY DEF VersionInv
<1> QED  BY <1>1, VersionInvInit, VersionInvStep, PTL DEF Spec

-----------------------------------------------------------------------------
(* What is recorded of a token after its image was found selected *)

Selecting == {"updated", "no_change"}
Acting == Selecting \cup {"indeterminate"}

Selects(c) == op[c].state = "done" /\ op[c].result.action \in Selecting

(* An operation is tried again only after an update, or a doubt about one.   *)
RetryableActs ==
  \A c \in Caller :
    op[c].state = "done" /\ op[c].result \in Retryable => op[c].result.action \in Acting

PrevsAct == \A c \in Caller : prev[c] # None => op[prev[c]].result.action \in Acting

WorkerActs(d) ==
  /\ run[d].at = "publish" /\ ~Concluded(run[d].out) => run[d].out.action \in Selecting
  /\ run[d].at = "observe" => run[d].out.action \in Selecting
  /\ run[d].at = "reinspect" => Concluded(run[d].out)
  /\ run[d].at = "observe" /\ Resuming(d) => run[d].out.action = Previous(d).action
  /\ run[d].at = "publish" /\ Resuming(d) =>
       run[d].out.action \in {Previous(d).action, "not_applied"}

WorkersAct == \A d \in Deployment : WorkerActs(d)

(* The service has moved past a version, or still has it with another image. *)
Behind(s, version, image) ==
  /\ version <= svc[s].version
  /\ version = svc[s].version => svc[s].image # image

UpdatesBehind ==
  \A c \in Caller : Submitted(c) =>
    /\ wire[c].image = req[c].digest
    /\ Behind(wire[c].service, wire[c].version, wire[c].image)

WorkersBehind ==
  \A d \in Deployment :
    run[d].at = "update" => Behind(ServiceOf[d], run[d].out.version, req[run[d].job].digest)

(* A worker or a record says that the image of token t is selected.          *)
Established(t) ==
  \/ \E c \in Caller : Selects(c) /\ req[c].token = t
  \/ \E d \in Deployment :
       /\ run[d].at \in {"observe", "publish"}
       /\ run[d].out.action \in Selecting /\ req[run[d].job].token = t

(* No update of token t can be taken any more.                               *)
Past(t) ==
  \A o \in Caller :
    req[o].token = t /\ Submitted(o) => wire[o].version < svc[wire[o].service].version

EstablishedIsPast == \A t \in Token : Cache!Current(t) /\ Established(t) => Past(t)

(* The current operation of a token repeats a recorded selection, resumes    *)
(* from one that repeats it, or has done nothing.                            *)
Repeats(e, action) ==
  \/ op[e].state = "done" /\ op[e].result.action \in {action, "not_applied"}
  \/ op[e].state = "open" /\ prev[e] # None /\ op[prev[e]].result.action = action

LastWord ==
  \A c \in Caller :
    Selects(c) /\ Cache!Current(req[c].token) =>
      Repeats(entries[req[c].token], op[c].result.action)

OutcomesAct == RetryableActs /\ PrevsAct /\ WorkersAct
AllBehind == UpdatesBehind /\ WorkersBehind

SelectionInv ==
  /\ VersionInv /\ CacheFacts!BindingInv
  /\ OutcomesAct /\ AllBehind /\ LastWord /\ EstablishedIsPast

(* An operation that exists keeps the one it replaced.                       *)
LEMMA PrevKept ==
  ASSUME SentInv, [Next]_vars, NEW c \in Caller, op[c].state # "none"
  PROVE  /\ prev'[c] = prev[c]
         /\ prev[c] # None => /\ prev[c] \in Caller /\ op[prev[c]].state = "done"
                              /\ op'[prev[c]] = op[prev[c]]
<1>0. Prevs /\ prev \in [Caller -> Caller \cup {None}] /\ Base /\ Held
  BY SentTypes DEF SentInv, Held
<1>1. prev' = prev \/ \E o \in Caller : Creates(o)
  BY <1>0, SendSteps DEF Apart, DockerMoves, Ends, Submits, Works, Moves, Publishes, callVars
<1>2. prev'[c] = prev[c]
  BY <1>0, <1>1 DEF Creates
<1>3. prev[c] # None => prev[c] \in Caller /\ op[prev[c]].state = "done"
  BY <1>0 DEF Prevs
<1> QED  BY <1>0, <1>2, <1>3, OpKept

(* What a step does to the worker of d.                                      *)
LEMMA RunSteps ==
  ASSUME SentInv, [Next]_vars, NEW d \in Deployment
  PROVE  \/ run'[d].at = run[d].at /\ run'[d].job = run[d].job /\ run'[d].out = run[d].out
         \/ run'[d].at \in Places3 \cup {"start"}
         \/ Submits(d) \/ Works(d)
<1>0. Held
  BY DEF SentInv
<1>1. CASE Apart
  BY <1>1 DEF Apart, RunsApart
<1>2. CASE DockerMoves \/ \E c \in Caller : Creates(c) \/ Ends(c)
  BY <1>2 DEF DockerMoves, Creates, Ends, workVars
<1>3. ASSUME NEW e \in Deployment, Submits(e) \/ Works(e) \/ Publishes(e), e # d
      PROVE  run'[d] = run[d]
  BY <1>3 DEF Submits, Works, Moves, Publishes, RunsTo
<1>4. CASE Publishes(d)
  BY <1>4 DEF Publishes, RunsTo, Places3
<1> QED  BY <1>0, <1>1, <1>2, <1>3, <1>4, SendSteps

(* The steps of a worker that goes on with its job.                          *)
LEMMA WorkFacts ==
  ASSUME SentInv, NEW d \in Deployment, Works(d)
  PROVE  \E at \in At \ Places3, out \in Result, j \in Caller :
           /\ (run[d].at = "start" /\ Starts(d, at, out)) \/ Executes(d, at, out)
           /\ j = run[d].job /\ Home(j) = d /\ op[j].state = "open" /\ run[d].at \notin Places3
           /\ run'[d].at = at /\ run'[d].job = j /\ run'[d].out = out
           /\ \A e \in Deployment : e # d => run'[e] = run[e]
           /\ UNCHANGED <<cacheVars, prev, dockerVars>>
<1>1. PICK at \in At \ Places3, out \in Result :
        /\ Moves(d, at, out)
        /\ (run[d].at = "start" /\ Starts(d, at, out)) \/ Executes(d, at, out)
        /\ UNCHANGED dockerVars
  BY DEF Works
<1>2. run[d].at \notin Places3
  BY <1>1 DEF Moves, SentInv, Held, Base, Types, WorkerTypes
<1>3. PICK j \in Caller : j = run[d].job /\ Home(j) = d /\ op[j].state = "open"
  BY <1>2, JobFacts DEF SentInv
<1> QED  BY <1>1, <1>2, <1>3 DEF Moves, RunsTo, callVars

(* A job in hand is resumed after a step if it was resumed before it.        *)
LEMMA ResumeKept ==
  ASSUME SentInv, [Next]_vars, NEW d \in Deployment, run[d].at \notin Places3,
         run'[d].job = run[d].job
  PROVE  /\ Resuming(d)' <=> Resuming(d)
         /\ Resuming(d) => Previous(d)' = Previous(d)
<1>1. PICK j \in Caller : j = run[d].job /\ op[j].state = "open"
  BY JobFacts DEF SentInv
<1>2. prev'[j] = prev[j] /\ (prev[j] # None => op'[prev[j]] = op[prev[j]])
  BY <1>1, PrevKept
<1> QED  BY <1>1, <1>2 DEF Resuming, Previous

LEMMA WorkersActStep ==
  ASSUME SelectionInv, [Next]_vars, NEW d \in Deployment
  PROVE  WorkerActs(d)'
<1>0. SentInv /\ WorkerActs(d) /\ PrevsAct /\ WorkerTrue(d)
  BY DEF SelectionInv, OutcomesAct, WorkersAct, VersionInv, SentInv, WorkersTrue
<1>1. CASE run'[d].at = run[d].at /\ run'[d].job = run[d].job /\ run'[d].out = run[d].out
  <2>1. CASE run[d].at \in Places3
    BY <1>1, <2>1 DEF WorkerActs, Places3
  <2>2. CASE run[d].at \notin Places3
    BY <1>0, <1>1, <2>2, ResumeKept DEF WorkerActs, Concluded
  <2> QED  BY <2>1, <2>2
<1>2. CASE run'[d].at \in Places3 \cup {"start"}
  BY <1>2 DEF WorkerActs, Places3
<1>3. CASE Submits(d)
  BY <1>3 DEF Submits, RunsTo, WorkerActs
<1>4. CASE Works(d)
  <2>1. PICK at \in At \ Places3, out \in Result, j \in Caller :
          /\ (run[d].at = "start" /\ Starts(d, at, out)) \/ Executes(d, at, out)
          /\ j = run[d].job /\ op[j].state = "open" /\ run[d].at \notin Places3
          /\ run'[d].at = at /\ run'[d].job = j /\ run'[d].out = out
    BY <1>0, <1>4, WorkFacts
  <2>2. /\ Resuming(d)' <=> Resuming(d)
        /\ Resuming(d) => Previous(d)' = Previous(d)
    BY <1>0, <2>1, ResumeKept
  <2>3. Resuming(d) => Previous(d).action \in Selecting
    BY <1>0, <2>1 DEF PrevsAct, Resuming, Previous, Acting
  <2>4. /\ at = "publish" /\ ~Concluded(out) => out.action \in Selecting
        /\ at = "observe" => out.action \in Selecting
        /\ at = "reinspect" => Concluded(out)
        /\ at = "observe" /\ Resuming(d) => out.action = Previous(d).action
        /\ at = "publish" /\ Resuming(d) => out.action \in {Previous(d).action, "not_applied"}
    <3>1. CASE run[d].at = "start" /\ Starts(d, at, out)
      BY <2>3, <3>1 DEF Starts
    <3>2. CASE Executes(d, at, out) /\ run[d].at # "observe"
      BY <1>0, <3>2 DEF Executes, WorkerTrue, WorkerActs, Selecting, Concluded
    <3>3. CASE Executes(d, at, out) /\ run[d].at = "observe"
      BY <1>0, <3>3 DEF Executes, WorkerActs
    <3> QED  BY <2>1, <3>1, <3>2, <3>3
  <2> QED  BY <2>1, <2>2, <2>4 DEF WorkerActs, Concluded
<1> QED  BY <1>0, <1>1, <1>2, <1>3, <1>4, RunSteps

LEMMA OutcomesStep == SelectionInv /\ [Next]_vars => OutcomesAct'
<1> SUFFICES ASSUME SelectionInv, [Next]_vars PROVE OutcomesAct'
  OBVIOUS
<1>0. /\ SentInv /\ Held /\ RetryableActs /\ PrevsAct /\ WorkersAct /\ CacheTypes /\ Types /\ Prevs
      /\ op \in [Caller -> CacheFacts!Operation] /\ prev \in [Caller -> Caller \cup {None}]
  BY SentTypes DEF SelectionInv, OutcomesAct, VersionInv, SentInv, Held, Base
<1>1. ASSUME NEW c \in Caller, NEW r, op' = [op EXCEPT ![c] = Cache!Completed(r)],
             r \in Retryable => r.action \in Acting
      PROVE  RetryableActs'
  <2>1. op'[c].result = r /\ \A o \in Caller : o # c => op'[o] = op[o]
    BY <1>0, <1>1 DEF Cache!Completed
  <2> QED  BY <1>0, <1>1, <2>1 DEF RetryableActs
<1>2. ASSUME op' = op
      PROVE  RetryableActs'
  BY <1>0, <1>2 DEF RetryableActs
<1>3. ASSUME NEW c \in Caller, Creates(c)
      PROVE  RetryableActs'
  <2>1. op'[c].state = "open" /\ \A o \in Caller : o # c => op'[o] = op[o]
    BY <1>0, <1>3 DEF Creates, Cache!Opened
  <2> QED  BY <1>0, <2>1 DEF RetryableActs
<1>4. ASSUME NEW c \in Caller, Ends(c)
      PROVE  RetryableActs'
  <2>1. PICK e \in Error : op' = [op EXCEPT ![c] = Cache!Completed(Unexecuted(c, e))]
    BY <1>4 DEF Ends
  <2>2. CASE prev[c] # None
    BY <1>0, <1>1, <2>1, <2>2, UnexecutedIsResult DEF PrevsAct
  <2>3. CASE prev[c] = None
    <3>1. Unexecuted(c, e) = NotApplied(e)
      BY <2>3 DEF Unexecuted
    <3>2. NotApplied(e) \notin Retryable
      BY DEF Retryable, NotApplied, Outcome, ObservationFailed
    <3> QED  BY <1>1, <2>1, <3>1, <3>2
  <2> QED  BY <2>2, <2>3
<1>5. ASSUME NEW d \in Deployment, Publishes(d)
      PROVE  RetryableActs'
  <2>1. WorkerActs(d) /\ run[d].at = "publish"
    BY <1>0, <1>5 DEF WorkersAct, Publishes
  <2>2. run[d].out \in Retryable => run[d].out.action \in Acting
    BY <2>1 DEF WorkerActs, Concluded, Retryable, ObservationFailed, Acting, Selecting
  <2> QED  BY <1>1, <1>5, <2>2 DEF Publishes
<1>6. RetryableActs'
  <2>1. ASSUME \/ Apart \/ DockerMoves \/ \E d \in Deployment : Submits(d) \/ Works(d)
        PROVE  op' = op
    BY <2>1 DEF Apart, DockerMoves, Submits, Works, Moves, cacheVars
  <2> QED  BY <1>0, <1>2, <1>3, <1>4, <1>5, <2>1, SendSteps
<1>7. PrevsAct'
  <2> SUFFICES ASSUME NEW c \in Caller, prev'[c] # None
               PROVE  op'[prev'[c]].result.action \in Acting
    BY DEF PrevsAct
  <2>1. CASE op[c].state # "none"
    BY <1>0, <2>1, PrevKept DEF PrevsAct
  <2>2. CASE op[c].state = "none"
    <3>1. prev[c] = None
      BY <1>0, <2>2 DEF Prevs
    <3>2. PICK o \in Caller : Creates(o)
      <4>1. prev' = prev \/ \E o \in Caller : Creates(o)
        BY <1>0, SendSteps DEF Apart, DockerMoves, Ends, Submits, Works, Moves, Publishes, callVars
      <4> QED  BY <3>1, <4>1
    <3>3. /\ o = c /\ prev'[c] = watch[c] /\ pc[c] = "replace" /\ watch[c] \in Caller
          /\ op[watch[c]].state = "done"
      BY <1>0, <3>1, <3>2 DEF Creates
    <3>4. op[watch[c]].result \in Retryable
      BY <3>3 DEF SelectionInv, CacheFacts!BindingInv, CacheFacts!ReplacesRetryable
    <3>5. op'[watch[c]] = op[watch[c]]
      BY <1>0, <3>3, OpKept DEF Held
    <3> QED  BY <1>0, <3>3, <3>4, <3>5 DEF RetryableActs
  <2> QED  BY <2>1, <2>2
<1>8. WorkersAct'
  BY WorkersActStep DEF WorkersAct
<1> QED  BY <1>6, <1>7, <1>8 DEF OutcomesAct

(* What becomes of a service and of an update in a step.                     *)
LEMMA ServiceSteps ==
  ASSUME SentInv, [Next]_vars, NEW s \in Service
  PROVE  /\ svc[s].version \in Nat
         /\ svc'[s] = svc[s] \/ svc'[s].version = svc[s].version + 1
<1>0. Held /\ DockerTypes
  BY DEF SentInv, Held, Base, Types
<1>1. ASSUME NEW c \in Caller, Docker!Accept(c)
      PROVE  svc'[s] = svc[s] \/ svc'[s].version = svc[s].version + 1
  BY <1>0, <1>1 DEF Docker!Accept, DockerTypes
<1>2. ASSUME NEW t \in Service, Docker!ChangedByOthers(t)
      PROVE  svc'[s] = svc[s] \/ svc'[s].version = svc[s].version + 1
  BY <1>0, <1>2 DEF Docker!ChangedByOthers, DockerTypes
<1>3. UNCHANGED svc \/ DockerMoves
  BY <1>0, SendSteps DEF Apart, Creates, Ends, Submits, Works, Publishes, dockerVars
<1>4. svc[s].version \in Nat
  BY <1>0 DEF DockerTypes
<1> QED  BY <1>1, <1>2, <1>3, <1>4 DEF DockerMoves, Docker!DockerNext, Docker!Conflict, Docker!Reject

LEMMA UpdateSteps ==
  ASSUME SentInv, [Next]_vars, NEW c \in Caller
  PROVE  /\ Submitted(c) =>
              /\ Submitted(c)'
              /\ wire'[c].version = wire[c].version /\ wire'[c].service = wire[c].service
              /\ wire'[c].image = wire[c].image
              /\ wire[c].version \in Nat /\ wire[c].service \in Service
         /\ Submitted(c)' /\ ~Submitted(c) => \E d \in Deployment : Submits(d) /\ run[d].job = c
<1>0. Held /\ DockerTypes
  BY DEF SentInv, Held, Base, Types
<1>1. UNCHANGED wire \/ DockerMoves \/ \E d \in Deployment : Submits(d)
  BY <1>0, SendSteps DEF Apart, Creates, Ends, Works, Publishes, dockerVars
<1>2. Submitted(c) => wire[c].version \in Nat /\ wire[c].service \in Service
  <2>1. wire[c] # Docker!Unsent =>
          wire[c] \in [state : Docker!Fate, service : Service, version : Versions, image : Image]
    BY <1>0 DEF DockerTypes, Wires
  <2> QED  BY <2>1, Constants DEF Submitted, Versions
<1>3. CASE UNCHANGED wire
  BY <1>2, <1>3 DEF Submitted
<1>4. CASE DockerMoves
  <2>1. ASSUME NEW o \in Caller, NEW fate \in {"accepted", "conflict", "rejected"},
               wire[o].state = "sent", Docker!Settle(o, fate)
        PROVE  /\ wire'[c].version = wire[c].version /\ wire'[c].service = wire[c].service
               /\ wire'[c].image = wire[c].image
    BY <1>0, <2>1, SettleStep
  <2>2. UNCHANGED wire \/ \E o \in Caller : wire[o].state = "sent" /\
          \E fate \in {"accepted", "conflict", "rejected"} : Docker!Settle(o, fate)
    BY <1>4 DEF DockerMoves, Docker!DockerNext, Docker!Accept, Docker!Conflict, Docker!Reject,
       Docker!ChangedByOthers
  <2>3. Submitted(c)' <=> Submitted(c)
    BY <1>0, <1>4, DockerFates DEF Submitted, Held, Base
  <2> QED  BY <1>2, <2>1, <2>2, <2>3
<1>5. ASSUME NEW d \in Deployment, Submits(d)
      PROVE  /\ c # run[d].job => wire'[c] = wire[c]
             /\ c = run[d].job => ~Submitted(c)
  BY <1>5 DEF Submits, Submitted
<1> QED  BY <1>1, <1>2, <1>3, <1>4, <1>5 DEF Submitted

LEMMA BehindStep == SelectionInv /\ [Next]_vars => AllBehind'
<1> SUFFICES ASSUME SelectionInv, [Next]_vars PROVE AllBehind'
  OBVIOUS
<1>0. /\ SentInv /\ UpdatesBehind /\ WorkersBehind /\ UNCHANGED req
      /\ run \in [Deployment -> Runs] /\ \A d \in Deployment : ServiceOf[d] \in Service
  BY OpSteps, SentTypes, Constants DEF SelectionInv, AllBehind, VersionInv, SentInv, Held
<1>1. ASSUME NEW d \in Deployment
      PROVE  run[d].out.version \in Nat
  <2>1. run[d].out \in Result
    BY <1>0, RunFields
  <2>2. run[d].out.version \in Versions
    BY <2>1, ResultFields
  <2> QED  BY <2>2, Constants DEF Versions
<1>2. UpdatesBehind'
  <2> SUFFICES ASSUME NEW c \in Caller, Submitted(c)'
               PROVE  /\ wire'[c].image = req[c].digest
                      /\ Behind(wire[c].service, wire[c].version, wire[c].image)'
    BY <1>0 DEF UpdatesBehind
  <2>1. CASE Submitted(c)
    <3> DEFINE s == wire[c].service
               v == wire[c].version
               i == wire[c].image
    <3>1. /\ s' = s /\ v' = v /\ i' = i /\ v \in Nat /\ s \in Service
      BY <1>0, <2>1, UpdateSteps
    <3>2. i = req[c].digest /\ Behind(s, v, i)
      BY <1>0, <2>1 DEF UpdatesBehind
    <3> HIDE DEF s, v, i
    <3>3. /\ v' <= svc'[s'].version
          /\ v' = svc'[s'].version => svc'[s'].image # i'
      <4>1. svc[s].version \in Nat /\ (svc'[s] = svc[s] \/ svc'[s].version = svc[s].version + 1)
        BY <1>0, <3>1, ServiceSteps
      <4> QED  BY <3>1, <3>2, <4>1 DEF Behind
    <3> QED  BY <3>1, <3>2, <3>3 DEF Behind, s, v, i
  <2>2. CASE ~Submitted(c)
    <3>1. PICK d \in Deployment : Submits(d) /\ run[d].job = c
      BY <1>0, <2>2, UpdateSteps
    <3>2. /\ run[d].at = "update" /\ svc' = svc
          /\ wire'[c].service = ServiceOf[d] /\ wire'[c].version = run[d].out.version
          /\ wire'[c].image = req[c].digest
      BY <3>1 DEF Submits
    <3>3. Behind(ServiceOf[d], run[d].out.version, req[c].digest)
      BY <1>0, <3>1, <3>2 DEF WorkersBehind
    <3> DEFINE s == wire[c].service
               v == wire[c].version
               i == wire[c].image
    <3>4. s' = ServiceOf[d] /\ v' = run[d].out.version /\ i' = req[c].digest
      BY <3>2
    <3>5. /\ v' <= svc'[s'].version
          /\ v' = svc'[s'].version => svc'[s'].image # i'
      BY <3>2, <3>3, <3>4 DEF Behind
    <3> QED  BY <3>2, <3>5 DEF Behind
  <2> QED  BY <2>1, <2>2
<1>3. WorkersBehind'
  <2> SUFFICES ASSUME NEW d \in Deployment, run'[d].at = "update"
               PROVE  Behind(ServiceOf[d], run[d].out.version, req[run[d].job].digest)'
    BY DEF WorkersBehind
  <2> DEFINE s == ServiceOf[d]
  <2>1. svc[s].version \in Nat /\ (svc'[s] = svc[s] \/ svc'[s].version = svc[s].version + 1)
    BY <1>0, ServiceSteps
  <2>2. CASE run'[d].at = run[d].at /\ run'[d].job = run[d].job /\ run'[d].out = run[d].out
    <3>1. Behind(s, run[d].out.version, req[run[d].job].digest)
      BY <2>2 DEF SelectionInv, AllBehind, WorkersBehind
    <3> HIDE DEF s
    <3>2. run[d].out.version \in Nat
      BY <1>1
    <3>3. /\ run[d].out.version <= svc'[s].version
          /\ run[d].out.version = svc'[s].version => svc'[s].image # req[run[d].job].digest
      BY <2>1, <3>1, <3>2 DEF Behind
    <3> QED  BY <1>0, <2>2, <3>3 DEF Behind, s
  <2>3. CASE Works(d)
    <3>1. PICK at \in At \ Places3, out \in Result, j \in Caller :
            /\ (run[d].at = "start" /\ Starts(d, at, out)) \/ Executes(d, at, out)
            /\ j = run[d].job
            /\ run'[d].at = at /\ run'[d].job = j /\ run'[d].out = out
            /\ UNCHANGED <<cacheVars, prev, dockerVars>>
      BY <1>0, <2>3, WorkFacts
    <3>2. out.version = svc[s].version /\ svc[s].image # req[j].digest
      BY <2>3, <3>1 DEF Starts, Executes, Target, Desired, Job
    <3> QED  BY <1>0, <2>1, <3>1, <3>2 DEF Behind, dockerVars
  <2>4. ~(run'[d].at \in Places3 \cup {"start"}) /\ ~Submits(d)
    BY DEF Places3, Submits, RunsTo
  <2> QED  BY <1>0, <2>2, <2>3, <2>4, RunSteps
<1> QED  BY <1>2, <1>3 DEF AllBehind

(* Operations of a current token are for the same request.                   *)
LEMMA SameRequest ==
  ASSUME SentInv, NEW c \in Caller, NEW o \in Caller,
         op[c].state # "none", op[o].state # "none",
         req[o].token = req[c].token, Cache!Current(req[c].token)
  PROVE  /\ req[o] = req[c]
         /\ entries[req[c].token] \in Caller
<1>1. CacheFacts!Inv /\ CacheFacts!Current(req[c].token) /\ CacheTypes
  BY SameCurrent, SentTypes DEF SentInv, Held, Base
<1>2. CacheFacts!Exists(o) /\ CacheFacts!Exists(c)
  BY DEF CacheFacts!Exists
<1>3. entries[req[c].token] # None /\ req[c].token \in Token
  BY <1>1, <1>2 DEF CacheFacts!Inv, CacheFacts!StillBound, CacheTypes, CacheFacts!Request
<1>4. entries[req[c].token] \in Caller
  BY <1>1, <1>3 DEF CacheTypes
<1> QED  BY <1>1, <1>2, <1>4 DEF CacheFacts!Inv, CacheFacts!StillBound

(* A service that has the image of a job has moved past the updates of its   *)
(* token, and so it has once one of them was accepted.                       *)
LEMMA FoundIsPast ==
  ASSUME SelectionInv, NEW j \in Caller, op[j].state = "open", Cache!Current(req[j].token),
         \/ svc[ServiceOf[Home(j)]].image = req[j].digest
         \/ wire[j].state = "accepted"
  PROVE  Past(req[j].token)
<1> SUFFICES ASSUME NEW o \in Caller, req[o].token = req[j].token, Submitted(o)
             PROVE  wire[o].version < svc[wire[o].service].version
  BY DEF Past
<1>0. SentInv /\ SubmittedByWorker /\ Taken /\ SameVersion /\ UpdatesBehind
  BY DEF SelectionInv, AllBehind, VersionInv, Agreement, SentInv
<1>1. req[o] = req[j]
  <2>1. op[o].state # "none"
    BY <1>0 DEF SubmittedByWorker
  <2> QED  BY <1>0, <2>1, SameRequest
<1>2. wire[o].service = ServiceOf[Home(j)]
  BY <1>0, <1>1 DEF Taken, Home
<1>3. CASE svc[ServiceOf[Home(j)]].image = req[j].digest
  <2>1. /\ wire[o].image = req[j].digest
        /\ Behind(wire[o].service, wire[o].version, wire[o].image)
    BY <1>0, <1>1 DEF UpdatesBehind
  <2>2. wire[o].version \in Nat /\ svc[wire[o].service].version \in Nat
    <3>1. wire[o] \in [state : Docker!Fate, service : Service, version : Versions, image : Image]
      BY <1>0 DEF SentInv, Held, Base, Types, DockerTypes, Wires, Submitted
    <3>2. wire[o].version \in Nat /\ wire[o].service \in Service
      BY <3>1, Constants DEF Versions
    <3> QED  BY <1>0, <3>2 DEF SentInv, Held, Base, Types, DockerTypes
  <2> QED  BY <1>2, <1>3, <2>1, <2>2 DEF Behind
<1>4. CASE wire[j].state = "accepted"
  <2>1. Submitted(j) /\ Accepted(j)
    BY <1>4 DEF Submitted, Accepted, Docker!Unsent
  <2>2. /\ wire[j].service = ServiceOf[Home(j)]
        /\ wire[j].version < svc[wire[j].service].version
    BY <1>0, <2>1 DEF Taken
  <2>3. wire[o].version = wire[j].version
    BY <1>0, <2>1 DEF SameVersion
  <2> QED  BY <1>2, <2>2, <2>3
<1> QED  BY <1>3, <1>4

(* No worker is about to submit an update for an established selection.      *)
LEMMA NoneSubmits ==
  ASSUME SelectionInv, NEW d \in Deployment, Submits(d),
         Cache!Current(req[run[d].job].token), Established(req[run[d].job].token)
  PROVE  FALSE
<1>0. VersionInv /\ SentInv /\ Held
  BY DEF SelectionInv, VersionInv, SentInv
<1>1. PICK j \in Caller : j = run[d].job /\ op[j].state = "open" /\ Home(j) = d
  BY <1>0, JobFacts DEF Submits, Places3
<1>2. run[d].at = "update" /\ ~Resuming(d)
  BY <1>0 DEF Submits, SentInv, WorkersTrue, WorkerTrue
<1>3. ASSUME NEW c \in Caller, Selects(c), req[c].token = req[j].token
      PROVE  FALSE
  <2>1. entries[req[j].token] = j
    BY <1>0, <1>1, OpenIsEntry
  <2>2. Repeats(j, op[c].result.action)
    BY <1>1, <1>3, <2>1 DEF SelectionInv, LastWord
  <2>3. prev[j] # None /\ op[prev[j]].result.action \in Selecting
    BY <1>1, <1>3, <2>2 DEF Repeats, Selects
  <2> QED  BY <1>1, <1>2, <2>3 DEF Resuming, Previous, Selecting
<1>4. ASSUME NEW e \in Deployment, run[e].at \in {"observe", "publish"},
             req[run[e].job].token = req[j].token
      PROVE  FALSE
  <2>1. run[e].at \notin Places3
    BY <1>4 DEF Places3
  <2>2. run[e].job \in Caller /\ Home(run[e].job) = e /\ op[run[e].job].state = "open"
    BY <1>0, <2>1, JobFacts
  <2>3. run[e].job = j
    BY <1>0, <1>1, <1>4, <2>1, <2>2, OneJobPerToken
  <2> QED  BY <1>1, <1>2, <1>4, <2>2, <2>3
<1> QED  BY <1>1, <1>3, <1>4 DEF Established

LEMMA PastKept ==
  ASSUME SelectionInv, [Next]_vars, NEW t \in Token, Past(t),
         \A d \in Deployment : Submits(d) => req[run[d].job].token # t
  PROVE  Past(t)'
<1>0. SentInv /\ UNCHANGED req
  BY OpSteps DEF SelectionInv, VersionInv, SentInv, Held
<1> SUFFICES ASSUME NEW o \in Caller, req[o].token = t, Submitted(o)'
             PROVE  wire'[o].version < svc'[wire'[o].service].version
  BY <1>0 DEF Past
<1>1. Submitted(o)
  BY <1>0, UpdateSteps
<1>2. /\ wire'[o].version = wire[o].version /\ wire'[o].service = wire[o].service
      /\ wire[o].version \in Nat /\ wire[o].service \in Service
      /\ wire[o].version < svc[wire[o].service].version
  BY <1>0, <1>1, UpdateSteps DEF Past
<1> DEFINE s == wire[o].service
<1>3. /\ svc[s].version \in Nat
      /\ svc'[s] = svc[s] \/ svc'[s].version = svc[s].version + 1
  BY <1>0, <1>2, ServiceSteps
<1> QED  BY <1>2, <1>3

(* The steps that complete an operation, and what they record of it.         *)
LEMMA RecordSteps ==
  ASSUME SelectionInv, [Next]_vars, NEW c \in Caller, op[c].state # "done", op'[c].state = "done"
  PROVE  /\ op[c].state = "open" /\ \A o \in Caller : o # c => op'[o] = op[o]
         /\ \/ Ends(c) /\ \E e \in Error : op'[c].result = Unexecuted(c, e)
            \/ \E d \in Deployment : Publishes(d) /\ c = run[d].job /\ op'[c].result = run[d].out
<1>0. SentInv /\ Held /\ CacheTypes /\ op \in [Caller -> CacheFacts!Operation]
  BY SentTypes DEF SelectionInv, VersionInv, SentInv
<1>1. ASSUME NEW o \in Caller, Creates(o)
      PROVE  FALSE
  BY <1>0, <1>1 DEF Creates, Cache!Opened
<1>2. ASSUME NEW o \in Caller, Ends(o)
      PROVE  /\ o = c /\ op[c].state = "open" /\ \E e \in Error : op'[c].result = Unexecuted(c, e)
             /\ \A x \in Caller : x # c => op'[x] = op[x]
  <2>1. PICK e \in Error : op' = [op EXCEPT ![o] = Cache!Completed(Unexecuted(o, e))]
    BY <1>2 DEF Ends
  <2>2. o = c
    BY <1>0, <2>1
  <2>3. op'[c].result = Unexecuted(c, e)
    BY <1>0, <2>1, <2>2 DEF Cache!Completed
  <2> QED  BY <1>0, <1>2, <2>1, <2>2, <2>3 DEF Ends
<1>3. ASSUME NEW d \in Deployment, Publishes(d)
      PROVE  /\ c = run[d].job /\ op[c].state = "open" /\ op'[c].result = run[d].out
             /\ \A x \in Caller : x # c => op'[x] = op[x]
  BY <1>0, <1>3 DEF Publishes, Cache!Completed
<1>4. \/ op' = op
      \/ \E o \in Caller : Creates(o) \/ Ends(o)
      \/ \E d \in Deployment : Publishes(d)
  BY <1>0, SendSteps DEF Apart, DockerMoves, Submits, Works, Moves, cacheVars
<1> QED  BY <1>1, <1>2, <1>3, <1>4

(* A selection is established as a worker finds it, and spoken of later.     *)
LEMMA EstablishedBefore ==
  ASSUME SelectionInv, [Next]_vars, NEW t \in Token, Established(t)', ~Established(t)
  PROVE  \E d \in Deployment, j \in Caller :
           /\ Works(d) /\ j = run[d].job /\ req[j].token = t
           /\ op[j].state = "open" /\ Home(j) = d
           /\ svc[ServiceOf[d]].image = req[j].digest \/ wire[j].state = "accepted"
<1>0. /\ SentInv /\ UNCHANGED req /\ Prevs /\ PrevsAct /\ Types /\ CacheTypes
      /\ prev \in [Caller -> Caller \cup {None}]
  BY OpSteps, SentTypes DEF SelectionInv, OutcomesAct, VersionInv, SentInv, Held, Base
<1>1. ASSUME NEW c \in Caller, Selects(c)', req[c].token = t
      PROVE  FALSE
  <2>1. op[c].state # "done"
    <3>1. op[c].state = "done" => op'[c] = op[c]
      BY <1>0, OpKept DEF SentInv, Held
    <3> QED  BY <1>1, <3>1 DEF Established, Selects
  <2>2. op'[c].state = "done"
    BY <1>1 DEF Selects
  <2>3. CASE \E e \in Error : op'[c].result = Unexecuted(c, e)
    <3>1. /\ prev[c] # None /\ prev[c] \in Caller /\ req[prev[c]] = req[c]
          /\ op[prev[c]].state = "done" /\ op[prev[c]].result.action \in Selecting
      BY <1>0, <1>1, <2>3, UnexecutedIsResult DEF Prevs, Selects, Selecting
    <3> QED  BY <1>1, <3>1 DEF Established, Selects
  <2>4. CASE \E d \in Deployment : Publishes(d) /\ c = run[d].job /\ op'[c].result = run[d].out
    BY <1>1, <2>4 DEF Established, Selects, Publishes
  <2> QED  BY <2>1, <2>2, <2>3, <2>4, RecordSteps
<1>2. ASSUME NEW d \in Deployment, run'[d].at \in {"observe", "publish"},
             run'[d].out.action \in Selecting, req[run'[d].job].token = t
      PROVE  \E j \in Caller :
               /\ Works(d) /\ j = run[d].job /\ req[j].token = t
               /\ op[j].state = "open" /\ Home(j) = d
               /\ svc[ServiceOf[d]].image = req[j].digest \/ wire[j].state = "accepted"
  <2>1. Works(d)
    BY <1>0, <1>2, RunSteps DEF Established, Places3, Submits, RunsTo
  <2>2. PICK at \in At \ Places3, out \in Result, j \in Caller :
          /\ (run[d].at = "start" /\ Starts(d, at, out)) \/ Executes(d, at, out)
          /\ j = run[d].job /\ Home(j) = d /\ op[j].state = "open" /\ run[d].at \notin Places3
          /\ run'[d].at = at /\ run'[d].job = j /\ run'[d].out = out
    BY <1>0, <2>1, WorkFacts
  <2>3. ~(run[d].at = "start" /\ Starts(d, at, out))
    <3> SUFFICES ASSUME Starts(d, at, out) PROVE FALSE
      OBVIOUS
    <3>1. Resuming(d) /\ Previous(d).action \in Selecting
      BY <1>2, <2>2 DEF Starts, Selecting
    <3>2. /\ prev[j] \in Caller /\ req[prev[j]] = req[j]
          /\ op[prev[j]].state = "done" /\ op[prev[j]].result.action \in Selecting
      BY <1>0, <2>2, <3>1 DEF Resuming, Previous, Prevs
    <3> QED  BY <1>2, <2>2, <3>2 DEF Established, Selects
  <2>4. Executes(d, at, out)
    BY <2>2, <2>3
  <2>5. WorkerTrue(d) /\ run[d].at # "observe"
    <3>1. run[d].at = "observe" => run[d].out.action \in Selecting
      BY DEF SelectionInv, OutcomesAct, WorkersAct, WorkerActs
    <3> QED  BY <1>0, <1>2, <2>2, <3>1 DEF Established, SentInv, WorkersTrue
  <2>6. svc[ServiceOf[d]].image = req[j].digest \/ wire[j].state = "accepted"
    BY <1>2, <2>2, <2>4, <2>5 DEF Executes, WorkerTrue, Selecting, Target, Desired, Job
  <2> QED  BY <1>2, <2>1, <2>2, <2>6
<1> QED  BY <1>0, <1>1, <1>2 DEF Established

LEMMA PastStep == SelectionInv /\ [Next]_vars => EstablishedIsPast'
<1> SUFFICES ASSUME SelectionInv, [Next]_vars, NEW t \in Token, Cache!Current(t)', Established(t)'
             PROVE  Past(t)'
  BY DEF EstablishedIsPast
<1>0. SentInv /\ Cache!Current(t)
  BY CurrentBefore DEF SelectionInv, VersionInv
<1>1. CASE Established(t)
  <2>1. Past(t)
    BY <1>0, <1>1 DEF SelectionInv, EstablishedIsPast
  <2> QED  BY <1>0, <1>1, <2>1, NoneSubmits, PastKept
<1>2. CASE ~Established(t)
  <2>1. PICK d \in Deployment, j \in Caller :
          /\ Works(d) /\ j = run[d].job /\ req[j].token = t
          /\ op[j].state = "open" /\ Home(j) = d
          /\ svc[ServiceOf[d]].image = req[j].digest \/ wire[j].state = "accepted"
    BY <1>2, EstablishedBefore
  <2>2. Past(t)
    BY <1>0, <2>1, FoundIsPast
  <2>3. UNCHANGED wire
    BY <2>1 DEF Works, dockerVars
  <2>4. \A e \in Deployment : ~Submits(e)
    BY <2>3 DEF Submits
  <2> QED  BY <2>2, <2>4, PastKept
<1> QED  BY <1>1, <1>2

(* An entry that gives way is the completed one its successor retries.       *)
LEMMA EntryRetried ==
  ASSUME SelectionInv, [Next]_vars, NEW t \in Token, Cache!Current(t),
         NEW e \in Caller, entries[t] = e, entries'[t] # e
  PROVE  \E x \in Caller :
           /\ entries'[t] = x /\ op'[x].state = "open" /\ prev'[x] = e
           /\ op[e].state = "done" /\ op[e].result.action \in Acting
<1>0. /\ SentInv /\ Held /\ CacheTypes /\ Prevs /\ prev \in [Caller -> Caller \cup {None}]
      /\ op \in [Caller -> CacheFacts!Operation]
  BY SentTypes DEF SelectionInv, VersionInv, SentInv
<1>1. PICK x \in Caller : entries'[t] = x /\ op[x] # op'[x] /\ op'[x] = Cache!Opened
  BY <1>0, EntryMoves
<1>2. Creates(x)
  <2>1. \/ op' = op
        \/ \E o \in Caller : Creates(o) \/ Ends(o)
        \/ \E d \in Deployment : Publishes(d)
    BY <1>0, SendSteps DEF Apart, DockerMoves, Submits, Works, Moves, cacheVars
  <2>2. ASSUME NEW o \in Caller, NEW r, op' = [op EXCEPT ![o] = Cache!Completed(r)]
        PROVE  FALSE
    BY <1>0, <1>1, <2>2 DEF Cache!Opened, Cache!Completed
  <2>3. PICK o \in Caller : Creates(o)
    BY <1>1, <2>1, <2>2 DEF Ends, Publishes
  <2> QED  BY <1>0, <1>1, <2>3 DEF Creates
<1>3. req[x].token = t
  <2>1. CacheFacts!Inv' /\ UNCHANGED req
    BY <1>0, CacheInvStep, OpSteps DEF Held, Base
  <2>2. entries'[t] # None
    BY <1>1, Constants
  <2> QED  BY <1>1, <2>1, <2>2 DEF CacheFacts!Inv, CacheFacts!EntriesMatch
<1>4. Cache!Retained(seen[x])[t] = e
  BY <1>0, EntryKept
<1>5. /\ prev' = [prev EXCEPT ![x] = watch[x]] /\ pc[x] = "replace"
      /\ watch[x] = e /\ op[e].state = "done"
  BY <1>2, <1>3, <1>4, Constants DEF Creates
<1>6. op[e].result \in Retryable
  BY <1>5 DEF SelectionInv, CacheFacts!BindingInv, CacheFacts!ReplacesRetryable
<1>7. op[e].result.action \in Acting
  BY <1>5, <1>6 DEF SelectionInv, OutcomesAct, RetryableActs
<1> QED  BY <1>0, <1>1, <1>5, <1>7 DEF Cache!Opened

LEMMA LastWordStep == SelectionInv /\ [Next]_vars => LastWord'
<1> SUFFICES ASSUME SelectionInv, [Next]_vars,
                    NEW c \in Caller, Selects(c)', Cache!Current(req[c].token)'
             PROVE  Repeats(entries[req[c].token], op[c].result.action)'
  BY DEF LastWord
<1> SUFFICES ASSUME NEW f, f = entries'[req'[c].token], NEW a, a = op'[c].result.action
             PROVE  Repeats(f, a)'
  BY DEF Repeats
<1> DEFINE t == req[c].token
<1>0. /\ SentInv /\ Held /\ CacheTypes /\ Types /\ Prevs /\ WorkersAct
      /\ UNCHANGED req /\ t \in Token
  BY OpSteps, SentTypes, TokenOf DEF SelectionInv, OutcomesAct, VersionInv, SentInv, Held, Base
<1>1. Cache!Current(t) /\ op'[c].state = "done" /\ a \in Selecting
  BY <1>0, TokenCurrentBefore DEF Selects
<1>2. CASE op[c].state = "done"
  <2>1. op'[c] = op[c]
    BY <1>0, <1>2, OpKept DEF Held
  <2>2. PICK e \in Caller : e = entries[t] /\ Repeats(e, a)
    <3>1. entries[t] \in Caller
      BY <1>0, <1>1, <1>2, SameRequest
    <3>2. Selects(c) /\ op[c].result.action = a
      BY <1>1, <1>2, <2>1 DEF Selects
    <3> QED  BY <1>1, <3>1, <3>2 DEF SelectionInv, LastWord
  <2>3. CASE f = e /\ op[e].state = "done"
    <3>1. op'[e] = op[e]
      BY <1>0, <2>3, OpKept DEF Held
    <3>2. op[e].result.action \in {a, "not_applied"}
      BY <2>2, <2>3 DEF Repeats
    <3> QED  BY <2>3, <3>1, <3>2 DEF Repeats
  <2>4. CASE f = e /\ op[e].state # "done"
    <3>1. op[e].state = "open" /\ prev[e] # None /\ op[prev[e]].result.action = a
      BY <2>2, <2>4 DEF Repeats
    <3>2. prev'[e] = prev[e] /\ op'[prev[e]] = op[prev[e]]
      BY <1>0, <3>1, PrevKept
    <3>3. CASE op'[e].state = "done"
      <4>1. CASE \E x \in Error : op'[e].result = Unexecuted(e, x)
        BY <1>0, <2>4, <3>1, <3>3, <4>1, UnexecutedIsResult DEF Repeats
      <4>2. CASE \E d \in Deployment : Publishes(d) /\ e = run[d].job /\ op'[e].result = run[d].out
        <5>1. PICK d \in Deployment : Publishes(d) /\ e = run[d].job /\ op'[e].result = run[d].out
          BY <4>2
        <5>2. Resuming(d) /\ Previous(d).action = a
          BY <1>1, <3>1, <5>1 DEF Resuming, Previous, Selecting
        <5>3. run[d].out.action \in {a, "not_applied"}
          BY <1>0, <5>1, <5>2 DEF WorkersAct, WorkerActs, Publishes
        <5> QED  BY <2>4, <3>3, <5>1, <5>3 DEF Repeats
      <4> QED  BY <2>4, <3>3, <4>1, <4>2, RecordSteps
    <3>4. CASE op'[e].state # "done"
      <4>1. op'[e].state = "open"
        <5>1. op[e].state # "none"
          BY <3>1
        <5>2. op'[e].state # "none"
          BY <1>0, <5>1, OpKept DEF Held
        <5>3. Base'
          BY <1>0, BaseStep DEF Held
        <5>4. HeldTypes'
          BY <5>3, HeldHasTypes, PTL
        <5> QED  BY <3>4, <5>2, <5>4 DEF HeldTypes
      <4> QED  BY <2>4, <3>1, <3>2, <4>1 DEF Repeats
    <3> QED  BY <3>3, <3>4
  <2>5. CASE f # e
    <3>1. PICK x \in Caller :
            /\ f = x /\ op'[x].state = "open" /\ prev'[x] = e
            /\ op[e].state = "done" /\ op[e].result.action \in Acting
      BY <1>0, <1>1, <2>2, <2>5, EntryRetried
    <3>2. op[e].result.action = a
      BY <2>2, <3>1 DEF Repeats, Acting, Selecting
    <3>3. op'[e] = op[e]
      BY <1>0, <3>1, OpKept DEF Held
    <3>4. prev'[x] # None
      BY <3>1, Constants
    <3> QED  BY <3>1, <3>2, <3>3, <3>4 DEF Repeats
  <2> QED  BY <2>3, <2>4, <2>5
<1>3. CASE op[c].state # "done"
  <2>1. op[c].state = "open" /\ \A o \in Caller : o # c => op'[o] = op[o]
    BY <1>1, <1>3, RecordSteps
  <2>2. entries[t] = c
    BY <1>0, <1>1, <2>1, OpenIsEntry
  <2>3. f = entries[t]
    BY <1>0, <1>1, <2>1, EntrySame
  <2> QED  BY <1>1, <2>2, <2>3 DEF Repeats
<1> QED  BY <1>2, <1>3

LEMMA SelectionInvStep == SelectionInv /\ [Next]_vars => SelectionInv'
<1> SUFFICES ASSUME SelectionInv, [Next]_vars PROVE SelectionInv'
  OBVIOUS
<1>1. VersionInv'
  BY VersionInvStep DEF SelectionInv
<1>2. CacheFacts!BindingInv'
  BY CacheMoves, SameNext, CacheConsts, CacheFacts!BindingInvNext
  DEF SelectionInv, VersionInv, SentInv, Held
<1> QED  BY <1>1, <1>2, OutcomesStep, BehindStep, LastWordStep, PastStep DEF SelectionInv

LEMMA SelectionInvInit == Init => SelectionInv
<1> SUFFICES ASSUME Init PROVE SelectionInv
  OBVIOUS
<1>1. VersionInv /\ CacheFacts!BindingInv
  BY VersionInvInit, SameInit, CacheConsts, CacheFacts!BindingInvInit DEF Init
<1>2. \A d \in Deployment : run[d].at = "next"
  BY IdleFacts DEF Init
<1>3. \A c \in Caller : ~Submitted(c) /\ op[c].state = "none" /\ prev[c] = None
  BY DEF Init, Submitted, Docker!DockerInit, Cache!Init, Cache!NoOperation
<1> QED  BY <1>1, <1>2, <1>3
         DEF SelectionInv, OutcomesAct, RetryableActs, PrevsAct, WorkersAct, WorkerActs, AllBehind,
             UpdatesBehind, WorkersBehind, LastWord, Selects, EstablishedIsPast, Established

-----------------------------------------------------------------------------
(* Every step keeps the promise *)

LEMMA SameBindings ==
  \A t : /\ Cache!Bound(t) = CacheFacts!Bound(t)
         /\ Cache!Recorded(t) = CacheFacts!Recorded(t)
         /\ Cache!Current(t) <=> CacheFacts!Current(t)
BY DEF Cache!Bound, CacheFacts!Bound, Cache!Recorded, CacheFacts!Recorded,
   Cache!Current, CacheFacts!Current

LEMMA SameBindingsNext ==
  \A t : /\ Cache!Bound(t)' = CacheFacts!Bound(t)'
         /\ Cache!Recorded(t)' = CacheFacts!Recorded(t)'
         /\ Cache!Current(t)' <=> CacheFacts!Current(t)'
BY DEF Cache!Bound, CacheFacts!Bound, Cache!Recorded, CacheFacts!Recorded,
   Cache!Current, CacheFacts!Current

(* Docker takes an update, or those it has taken stay as they are.           *)
SameAccepted ==
  \A c \in Caller : /\ Accepted(c)' <=> Accepted(c)
                    /\ Accepted(c) => /\ wire'[c].service = wire[c].service
                                      /\ wire'[c].image = wire[c].image

LEMMA AcceptSteps ==
  ASSUME SentInv, [Next]_vars
  PROVE  SameAccepted \/ \E c \in Caller : DockerMoves /\ Docker!Accept(c)
<1>0. Held /\ DockerTypes
  BY DEF SentInv, Held, Base, Types
<1>1. CASE UNCHANGED wire
  BY <1>1 DEF SameAccepted, Accepted
<1>2. ASSUME NEW c \in Caller, Docker!Conflict(c) \/ Docker!Reject(c)
      PROVE  SameAccepted
  <2>1. PICK fate \in {"conflict", "rejected"} : wire[c].state = "sent" /\ Docker!Settle(c, fate)
    BY <1>2 DEF Docker!Conflict, Docker!Reject
  <2>2. /\ \A o \in Caller : o # c => wire'[o] = wire[o]
        /\ wire'[c].state = fate /\ fate # "accepted"
    BY <1>0, <2>1, SettleStep
  <2> QED  BY <2>1, <2>2 DEF SameAccepted, Accepted
<1>3. ASSUME NEW d \in Deployment, Submits(d)
      PROVE  SameAccepted
  <2>1. \A o \in Caller : o # run[d].job => wire'[o] = wire[o]
    BY <1>3 DEF Submits
  <2>2. ~Accepted(run[d].job) /\ wire'[run[d].job].state = "sent"
    BY <1>3 DEF Submits, Accepted, Docker!Unsent
  <2> QED  BY <2>1, <2>2 DEF SameAccepted, Accepted
<1>4. UNCHANGED wire \/ DockerMoves \/ \E d \in Deployment : Submits(d)
  BY <1>0, SendSteps DEF Apart, Creates, Ends, Works, Publishes, dockerVars
<1> QED  BY <1>1, <1>2, <1>3, <1>4 DEF DockerMoves, Docker!DockerNext, Docker!ChangedByOthers

LEMMA TakenStays ==
  ASSUME UNCHANGED req, SameAccepted, NEW t \in Token, Cache!Current(t)' => Cache!Current(t)
  PROVE  TakenFor(t)' = IF Cache!Current(t)' THEN TakenFor(t) ELSE {}
<1>1. CASE Cache!Current(t)'
  <2> DEFINE before == {c \in Caller : Accepted(c) /\ req[c].token = t /\ Cache!Current(t)}
             after  == {c \in Caller : Accepted(c)' /\ req'[c].token = t /\ Cache!Current(t)'}
  <2>1. before = after
    BY <1>1 DEF SameAccepted
  <2>2. TakenFor(t)' = {[by |-> c, service |-> wire'[c].service, image |-> wire'[c].image] : c \in after}
    BY DEF TakenFor
  <2>3. \A c \in before : wire'[c].service = wire[c].service /\ wire'[c].image = wire[c].image
    BY DEF SameAccepted
  <2> QED  BY <1>1, <2>1, <2>2, <2>3 DEF TakenFor
<1>2. CASE ~Cache!Current(t)'
  BY <1>2 DEF TakenFor
<1> QED  BY <1>1, <1>2

(* A token's image is selected only once no update of it can be taken, so    *)
(* that an update which is taken is the first of its token, and comes before *)
(* its selection.                                                            *)
LEMMA AcceptIsFirst ==
  ASSUME SelectionInv, [Next]_vars, DockerMoves, NEW c \in Caller, Docker!Accept(c),
         Cache!Current(req[c].token)
  PROVE  /\ \A o \in Caller : Accepted(o) => req[o].token # req[c].token
         /\ \A o \in Caller : Selects(o) => req[o].token # req[c].token
<1>0. /\ VersionInv /\ SentInv /\ DockerTypes /\ UNCHANGED <<req, clock>> /\ Submitted(c)
      /\ ~Accepted(c) /\ wire[c].version = svc[wire[c].service].version
      /\ wire[c].state = "sent" /\ Docker!Settle(c, "accepted")
  BY DEF SelectionInv, VersionInv, SentInv, Held, Base, Types, DockerMoves, cacheVars, Docker!Accept,
     Submitted, Docker!Unsent, Accepted
<1>1. /\ \A o \in Caller : o # c => wire'[o] = wire[o]
      /\ wire'[c].state = "accepted" /\ wire[c].version \in Nat
  <2>1. wire[c].version \in Versions
    BY <1>0, SettleStep
  <2> QED  BY <1>0, <2>1, SettleStep, Constants DEF Versions
<1>2. ASSUME NEW o \in Caller, Accepted(o), req[o].token = req[c].token
      PROVE  FALSE
  <2>1. OneUpdatePerToken'
    BY <1>0, VersionInvStep DEF VersionInv
  <2>2. Accepted(o)' /\ Accepted(c)' /\ o # c /\ Cache!Current(req[c].token)'
    BY <1>0, <1>1, <1>2 DEF Accepted, Cache!Current
  <2> QED  BY <1>0, <1>2, <2>1, <2>2 DEF OneUpdatePerToken, Accepted
<1>3. ASSUME NEW o \in Caller, Selects(o), req[o].token = req[c].token
      PROVE  FALSE
  <2>1. PICK t \in Token : t = req[c].token
    BY <1>0, TokenOf
  <2>2. Past(t)
    BY <1>3, <2>1 DEF SelectionInv, EstablishedIsPast, Established
  <2> QED  BY <1>0, <1>1, <2>1, <2>2 DEF Past
<1> QED  BY <1>2, <1>3

LEMMA AcceptTakes ==
  ASSUME SelectionInv, [Next]_vars, DockerMoves, NEW c \in Caller, Docker!Accept(c),
         Cache!Current(req[c].token)
  PROVE  Promised!Takes(c)
<1> DEFINE u        == req[c].token
           valid    == {t \in Token : Cache!Current(t)}
           bound    == [t \in Token |-> Cache!Bound(t)]
           recorded == [t \in Token |-> Cache!Recorded(t)]
           taken    == [t \in Token |-> TakenFor(t)]
           update   == [by |-> c, service |-> ServiceOf[req[c].deployment], image |-> req[c].digest]
<1>0. /\ SentInv /\ Taken /\ UpdatesBehind /\ DockerTypes /\ CacheFacts!Inv
      /\ UNCHANGED <<clock, entries, op, req, reply>> /\ Submitted(c) /\ u \in Token
      /\ ~Accepted(c) /\ wire[c].state = "sent" /\ Docker!Settle(c, "accepted")
  BY TokenOf DEF SelectionInv, VersionInv, AllBehind, SentInv, Held, Base, Types, DockerMoves, cacheVars,
     Docker!Accept, Submitted, Docker!Unsent, Accepted
<1>1. /\ \A o \in Caller : o # c => wire'[o] = wire[o]
      /\ wire'[c].state = "accepted" /\ wire'[c].service = wire[c].service
      /\ wire'[c].image = wire[c].image
  BY <1>0, SettleStep
<1>2. wire'[c].service = ServiceOf[req[c].deployment] /\ wire'[c].image = req[c].digest
  BY <1>0, <1>1 DEF Taken, UpdatesBehind, Home
<1>3. u \in valid
  BY <1>0
<1>4. bound[u] = req[c]
  <2>1. CacheFacts!Exists(c) /\ CacheFacts!Current(u)
    BY <1>0, SameCurrent DEF SentInv, SubmittedByWorker, CacheFacts!Exists
  <2>2. CacheFacts!Bound(u) = req[c]
    BY <1>0, <2>1, CacheConsts, CacheFacts!BoundFacts
  <2> QED  BY <1>0, <2>2, SameBindings
<1>5. taken[u] = {}
  BY <1>0, AcceptIsFirst DEF TakenFor
<1>6. Promised!Selection(u) = {}
  <2>1. \A r \in recorded[u] : r.action \notin Selecting
    BY <1>0, AcceptIsFirst DEF Cache!Recorded, Selects
  <2> QED  BY <2>1 DEF Promised!Selection, Selecting
<1>7. UNCHANGED <<req, valid, bound, recorded, reply>>
  BY <1>0 DEF Cache!Current, Cache!Bound, Cache!Recorded
<1>8. ASSUME NEW t \in Token
      PROVE  TakenFor(t)' = IF t = u THEN {update} ELSE TakenFor(t)
  <2> DEFINE after == {o \in Caller : Accepted(o)' /\ req'[o].token = t /\ Cache!Current(t)'}
  <2>1. TakenFor(t)' = {[by |-> o, service |-> wire'[o].service, image |-> wire'[o].image] : o \in after}
    BY DEF TakenFor
  <2>2. CASE t = u
    <3>1. after = {c}
      BY <1>0, <1>1, <2>2, AcceptIsFirst DEF Accepted, Cache!Current
    <3> QED  BY <1>2, <2>1, <2>2, <3>1
  <2>3. CASE t # u
    <3> DEFINE before == {o \in Caller : Accepted(o) /\ req[o].token = t /\ Cache!Current(t)}
    <3>1. before = after
      BY <1>0, <1>1, <2>3 DEF Accepted, Cache!Current
    <3>2. \A o \in before : wire'[o] = wire[o]
      BY <1>1, <2>3
    <3> QED  BY <2>1, <2>3, <3>1, <3>2 DEF TakenFor
  <2> QED  BY <2>2, <2>3
<1>9. taken' = [taken EXCEPT ![u] = {update}]
  BY <1>0, <1>8
<1> QED  BY <1>3, <1>4, <1>5, <1>6, <1>7, <1>9 DEF Promised!Takes, Promised!bindingVars

(* A later outcome of a current token repeats the recorded selection.        *)
LEMMA OutcomeRepeats ==
  ASSUME SelectionInv, [Next]_vars, NEW o \in Caller, NEW result,
         op[o].state = "open", op' = [op EXCEPT ![o] = Cache!Completed(result)],
         UNCHANGED clock, Cache!Current(req[o].token),
         NEW c \in Caller, Selects(c), req[c].token = req[o].token
  PROVE  result.action \in {op[c].result.action, "not_applied"}
<1> DEFINE u == req[o].token
<1>0. SentInv /\ Held /\ CacheTypes /\ UNCHANGED req /\ u \in Token
  BY OpSteps, TokenOf, SentTypes DEF SelectionInv, VersionInv, SentInv, Held
<1>1. op'[c] = op[c] /\ Selects(c)' /\ Cache!Current(req[c].token)'
  BY <1>0 DEF Selects, Cache!Current, CacheTypes
<1>2. op'[o] = [state |-> "done", result |-> result] /\ \A x \in Caller : x # o => op'[x] = op[x]
  BY <1>0 DEF Cache!Completed, CacheTypes
<1>3. entries[u] = o
  BY <1>0, OpenIsEntry
<1>4. entries'[u] = o
  BY <1>0, <1>2, <1>3, EntrySame
<1>5. LastWord'
  BY LastWordStep
<1>6. Repeats(entries[req[c].token], op[c].result.action)'
  BY <1>1, <1>5 DEF LastWord
<1>7. op'[o].result.action \in {op'[c].result.action, "not_applied"}
  BY <1>0, <1>2, <1>4, <1>6 DEF Repeats
<1> QED  BY <1>1, <1>2, <1>7

LEMMA PromiseStep == SelectionInv /\ [Next]_vars => [Promised!Promises]_(Promised!promiseVars)
<1> SUFFICES ASSUME SelectionInv, [Next]_vars
             PROVE  [Promised!Promises]_(Promised!promiseVars)
  OBVIOUS
<1> DEFINE valid    == {t \in Token : Cache!Current(t)}
           bound    == [t \in Token |-> Cache!Bound(t)]
           recorded == [t \in Token |-> Cache!Recorded(t)]
           taken    == [t \in Token |-> TakenFor(t)]
<1>0. /\ VersionInv /\ SentInv /\ CacheFacts!BindingInv /\ CacheFacts!Inv /\ UNCHANGED req
      /\ \A c \in Caller : req[c].token \in Token
      /\ \A t \in Token : Cache!Current(t)' => Cache!Current(t)
  BY OpSteps, TokenOf, CurrentBefore DEF SelectionInv, VersionInv, SentInv, Held, Base
<1>1. ASSUME NEW c \in Caller, DockerMoves, Docker!Accept(c)
      PROVE  [Promised!Promises]_(Promised!promiseVars)
  <2>1. CASE Cache!Current(req[c].token)
    BY <1>1, <2>1, AcceptTakes DEF Promised!Promises
  <2>2. CASE ~Cache!Current(req[c].token)
    <3>1. /\ UNCHANGED <<clock, entries, op, req, reply>>
          /\ \A o \in Caller : o # c => wire'[o] = wire[o]
      <4>1. DockerTypes /\ wire[c].state = "sent" /\ Docker!Settle(c, "accepted")
        BY <1>0, <1>1 DEF SentInv, Held, Base, Types, Docker!Accept
      <4> QED  BY <1>1, <4>1, SettleStep DEF DockerMoves, cacheVars
    <3>2. UNCHANGED <<req, valid, bound, recorded, reply>>
      BY <3>1 DEF Cache!Current, Cache!Bound, Cache!Recorded
    <3>3. ASSUME NEW t \in Token
          PROVE  TakenFor(t)' = TakenFor(t)
      <4> DEFINE before == {o \in Caller : Accepted(o) /\ req[o].token = t /\ Cache!Current(t)}
                 after  == {o \in Caller : Accepted(o)' /\ req'[o].token = t /\ Cache!Current(t)'}
      <4>1. before = after /\ \A o \in before : wire'[o] = wire[o]
        BY <2>2, <3>1 DEF Accepted, Cache!Current
      <4>2. TakenFor(t)' = {[by |-> o, service |-> wire'[o].service, image |-> wire'[o].image] : o \in after}
        BY DEF TakenFor
      <4> QED  BY <4>1, <4>2 DEF TakenFor
    <3> QED  BY <3>2, <3>3 DEF Promised!promiseVars, Promised!bindingVars
  <2> QED  BY <2>1, <2>2
<1>2. CASE SameAccepted
  <2>0. \A t \in Token : TakenFor(t)' = IF Cache!Current(t)' THEN TakenFor(t) ELSE {}
    BY <1>0, <1>2, TakenStays
  <2>1. UNCHANGED clock => UNCHANGED <<valid, taken>>
    <3>1. \A t \in Token : ~Cache!Current(t) => TakenFor(t) = {}
      BY DEF TakenFor
    <3>2. UNCHANGED clock => \A t \in Token : Cache!Current(t)' <=> Cache!Current(t)
      BY DEF Cache!Current
    <3> QED  BY <2>0, <3>1, <3>2
  <2>2. /\ CacheFacts!SameBounds => UNCHANGED bound
        /\ CacheFacts!SameRecords => UNCHANGED recorded
    BY SameBindings, SameBindingsNext DEF CacheFacts!SameBounds, CacheFacts!SameRecords
  <2>3. CASE CacheFacts!Rests
    BY <2>1, <2>2, <2>3 DEF CacheFacts!Rests, Promised!promiseVars, Promised!bindingVars
  <2>4. CASE CacheFacts!Passes
    <3>1. bound' = [t \in Token |-> IF t \in valid' THEN bound[t] ELSE None]
      BY <2>4, SameBindings, SameBindingsNext DEF CacheFacts!Passes
    <3>2. recorded' = [t \in Token |-> IF t \in valid' THEN recorded[t] ELSE {}]
      BY <2>4, SameBindings, SameBindingsNext DEF CacheFacts!Passes
    <3>3. taken' = [t \in Token |-> IF t \in valid' THEN taken[t] ELSE {}]
      BY <2>0
    <3>4. valid' \subseteq valid /\ UNCHANGED <<req, reply>>
      BY <1>0, <2>4 DEF CacheFacts!Passes
    <3> QED  BY <3>1, <3>2, <3>3, <3>4 DEF Promised!Promises, Promised!ExpiresWithUpdates, Promised!Expires
  <2>5. ASSUME NEW c \in Caller, CacheFacts!Claims(c)
        PROVE  Promised!Promises
    <3>1. req[c].token \in valid /\ bound[req[c].token] = None
      BY <1>0, <2>5, SameBindings DEF CacheFacts!Claims
    <3>2. bound' = [bound EXCEPT ![req[c].token] = req[c]]
      BY <2>5, SameBindings, SameBindingsNext DEF CacheFacts!Claims
    <3>3. UNCHANGED <<req, valid, recorded, reply, taken>>
      BY <2>1, <2>2, <2>5 DEF CacheFacts!Claims
    <3> QED  BY <3>1, <3>2, <3>3 DEF Promised!Promises, Promised!Binds
  <2>6. ASSUME NEW c \in Caller, NEW told \in CacheFacts!Reply, CacheFacts!Replies(c, told)
        PROVE  Promised!Promises
    <3>1. reply'[c] = told
      BY <1>0, <2>6 DEF CacheFacts!Replies, CacheFacts!Inv, CacheFacts!TypeOK
    <3>2. told \in Promised!Answer
      <4>1. ASSUME NEW result \in Result, told = CacheFacts!Returned(result)
            PROVE  told \in Promised!Answer
        BY <4>1 DEF Promised!Answer, CacheFacts!Returned
      <4>2. ASSUME NEW failure \in CacheFacts!Failure, told = CacheFacts!Failed(failure)
            PROVE  told \in Promised!Answer
        BY <4>2 DEF Promised!Answer, CacheFacts!Failed, CacheFacts!Failure
      <4> QED  BY <4>1, <4>2 DEF CacheFacts!Reply
    <3>3. req[c].token \in valid => Promised!Fitting(c, told)
      BY <1>0, <2>6, SameBindings DEF CacheFacts!Replies, Promised!Fitting
    <3>4. /\ reply[c] = None /\ reply' = [reply EXCEPT ![c] = told]
          /\ UNCHANGED <<req, valid, bound, recorded, taken>>
      BY <2>1, <2>2, <2>6 DEF CacheFacts!Replies
    <3> QED  BY <3>1, <3>2, <3>3, <3>4 DEF Promised!Promises, Promised!Answers
  <2>7. ASSUME NEW o \in Caller, NEW result \in Result, CacheFacts!Finishes(o, result)
        PROVE  Promised!Promises
    <3> DEFINE u == req[o].token
    <3>1. /\ u \in valid /\ bound[u] # None /\ recorded[u] \subseteq Retryable
      BY <1>0, <2>7, SameBindings DEF CacheFacts!Finishes
    <3>2. recorded' = [recorded EXCEPT ![u] = @ \cup {result}]
      BY <2>7, SameBindings, SameBindingsNext DEF CacheFacts!Finishes
    <3>3. UNCHANGED <<req, valid, bound, reply, taken>>
      BY <2>1, <2>2, <2>7 DEF CacheFacts!Finishes
    <3>4. \A r \in recorded[u] : r.action \in Selecting => result.action \in {r.action, "not_applied"}
      <4> SUFFICES ASSUME NEW r \in recorded[u], r.action \in Selecting
                   PROVE  result.action \in {r.action, "not_applied"}
        OBVIOUS
      <4>1. PICK c \in Caller : op[c].state = "done" /\ req[c].token = u /\ r = op[c].result
        BY <1>0 DEF Cache!Recorded
      <4>2. /\ op[o].state = "open" /\ op' = [op EXCEPT ![o] = Cache!Completed(result)]
            /\ UNCHANGED clock /\ Cache!Current(u)
        BY <2>7, <3>1, SameHelpers DEF CacheFacts!Finishes
      <4> QED  BY <4>1, <4>2, OutcomeRepeats DEF Selects
    <3>5. Promised!Selection(u) # {} => result.action \in Promised!Selection(u) \cup {"not_applied"}
      BY <3>4 DEF Promised!Selection, Selecting
    <3>6. Promised!RecordsOutcome(u, result)
      BY <3>1, <3>2, <3>3, <3>5 DEF Promised!RecordsOutcome, Promised!Records
    <3>7. PICK t \in Token : t = u
      BY <1>0
    <3>8. result \in CacheFacts!Recorded(t)'
      BY <2>7, <3>7 DEF CacheFacts!Finishes
    <3>9. result \in recorded'[t]
      BY <3>8, SameBindingsNext
    <3>10. Promised!RecordsOutcome(t, result)
      BY <3>6, <3>7
    <3> QED  BY <3>9, <3>10 DEF Promised!Promises
  <2> QED  BY <1>0, <2>3, <2>4, <2>5, <2>6, <2>7, CacheMoves, SameNext, CacheConsts,
              CacheFacts!BindingSteps DEF SentInv, Held
<1> QED  BY <1>0, <1>1, <1>2, AcceptSteps

(* The coordinator keeps what Promise.tla promises: however retries, resumed *)
(* observations, lost answers, removals and shutdown interleave, Docker      *)
(* takes one update at most of a token that is valid, for the service and    *)
(* the image the token stands for and never after its selection is recorded, *)
(* and a later outcome repeats that selection or says not_applied            *)
(* (coordinator.go, execute, retry and completeWithoutExecution).            *)
THEOREM CoordinatorKeepsPromise == Spec => KeepsPromise
<1>1. Init => Promised!Unpromised
  <2> SUFFICES ASSUME Init PROVE Promised!Unpromised
    OBVIOUS
  <2>1. \A t \in Token : Cache!Bound(t) = None
    BY DEF Init, Cache!Init, Cache!Bound
  <2>2. \A t \in Token : Cache!Recorded(t) = {}
    BY DEF Init, Cache!Init, Cache!NoOperation, Cache!Recorded
  <2>3. \A t \in Token : TakenFor(t) = {}
    <3>1. \A c \in Caller : ~Accepted(c)
      BY DEF Init, Docker!DockerInit, Docker!Unsent, Accepted
    <3> QED  BY <3>1 DEF TakenFor
  <2>4. reply = [c \in Caller |-> None]
    BY DEF Init, Cache!Init
  <2> QED  BY <2>1, <2>2, <2>3, <2>4 DEF Promised!Unpromised, Promised!Unbound
<1>2. Spec => []SelectionInv
  BY SelectionInvInit, SelectionInvStep, PTL DEF Spec
<1> QED  BY <1>1, <1>2, PromiseStep, PTL DEF Spec, KeepsPromise, Promised!PromiseSpec
=============================================================================
