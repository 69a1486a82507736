------------------------- MODULE CoordinatorSteps ---------------------------
(***************************************************************************)
(* What the steps of Coordinator do: the lemmas its proofs rest on.        *)
(***************************************************************************)
EXTENDS Coordinator, FiniteSetTheorems, SequenceTheorems, TLAPS

CacheFacts == INSTANCE ReplayCacheProofs

-----------------------------------------------------------------------------
(* Queues *)

Injective(s) == \A i, j \in DOMAIN s : s[i] = s[j] => i = j
Rank(places, i) == Cardinality({j \in places : j <= i})

(* The n-th of finitely many places exists, and each place is the n-th for   *)
(* its own rank.                                                             *)
LEMMA NthPlace ==
  ASSUME NEW places \in SUBSET Nat, IsFiniteSet(places)
  PROVE  /\ Cardinality(places) \in Nat
         /\ \A n \in 1 .. Cardinality(places) :
              Nth(places, n) \in places /\ Rank(places, Nth(places, n)) = n
         /\ \A i \in places :
              Rank(places, i) \in 1 .. Cardinality(places) /\ Nth(places, Rank(places, i)) = i
<1> DEFINE rank == [i \in places |-> Rank(places, i)]
           size == Cardinality(places)
<1>1. size \in Nat
  BY FS_CardinalityType
<1>2. \A i \in places :
        /\ IsFiniteSet({j \in places : j <= i})
        /\ Rank(places, i) \in 1 .. size
  <2> SUFFICES ASSUME NEW i \in places
               PROVE  /\ IsFiniteSet({j \in places : j <= i})
                      /\ Rank(places, i) \in 1 .. size
    OBVIOUS
  <2> DEFINE low == {j \in places : j <= i}
  <2>1. low \in SUBSET places
    OBVIOUS
  <2>2. IsFiniteSet(low) /\ Cardinality(low) <= size
    BY <2>1, FS_Subset
  <2>3. i \in low
    OBVIOUS
  <2>4. Cardinality(low) \in Nat /\ Cardinality(low) # 0
    BY <2>2, <2>3, FS_CardinalityType, FS_EmptySet
  <2> QED  BY <1>1, <2>2, <2>4 DEF Rank
<1>3. \A i, j \in places : Rank(places, i) = Rank(places, j) => i = j
  <2>1. ASSUME NEW i \in places, NEW j \in places, i < j
        PROVE  Rank(places, i) # Rank(places, j)
    <3> DEFINE lowI == {k \in places : k <= i}
               lowJ == {k \in places : k <= j}
    <3>1. lowI \in SUBSET lowJ
      <4>1. \A k \in places : k <= i => k <= j
        BY <2>1
      <4> QED  BY <4>1
    <3>2. j \in lowJ /\ j \notin lowI
      BY <2>1
    <3>3. Cardinality(lowJ) = Cardinality(lowI) => lowJ = lowI
      BY <1>2, <3>1, FS_Subset
    <3> QED  BY <3>2, <3>3 DEF Rank
  <2> QED  BY <2>1
<1>4. rank \in Injection(places, 1 .. size)
  BY <1>2, <1>3 DEF Injection, IsInjective
<1>5. IsFiniteSet(1 .. size) /\ Cardinality(1 .. size) = size
  BY <1>1, FS_Interval
<1>6. rank \in Surjection(places, 1 .. size)
  BY <1>4, <1>5, FS_Injection
<1>7. \A n \in 1 .. size : \E i \in places : Rank(places, i) = n
  BY <1>6 DEF Surjection
<1>8. \A n \in 1 .. size : Nth(places, n) \in places /\ Rank(places, Nth(places, n)) = n
  BY <1>7 DEF Nth, Rank
<1> QED  BY <1>1, <1>2, <1>3, <1>8

(* Keep returns the wanted jobs, in a queue that is no longer than before    *)
(* and names none of them twice if the queue did not.                        *)
LEMMA KeepFacts ==
  ASSUME NEW jobs \in Seq(Caller), NEW wanted \in SUBSET Caller
  PROVE  /\ Keep(jobs, wanted) \in Seq(Caller)
         /\ Len(Keep(jobs, wanted)) = Cardinality({i \in DOMAIN jobs : jobs[i] \in wanted})
         /\ Len(Keep(jobs, wanted)) <= Len(jobs)
         /\ \A n \in DOMAIN Keep(jobs, wanted) :
              /\ Keep(jobs, wanted)[n] \in wanted
              /\ \E i \in DOMAIN jobs : jobs[i] = Keep(jobs, wanted)[n]
         /\ \A i \in DOMAIN jobs : jobs[i] \in wanted =>
              \E n \in DOMAIN Keep(jobs, wanted) : Keep(jobs, wanted)[n] = jobs[i]
         /\ Injective(jobs) => Injective(Keep(jobs, wanted))
<1> DEFINE places == Places(jobs, wanted)
           kept   == Keep(jobs, wanted)
           size   == Cardinality(places)
<1>1. /\ Len(jobs) \in Nat
      /\ DOMAIN jobs = 1 .. Len(jobs)
      /\ \A i \in 1 .. Len(jobs) : jobs[i] \in Caller
  BY LenProperties
<1>2. /\ places \in SUBSET (1 .. Len(jobs))
      /\ \A i \in places : jobs[i] \in wanted
  BY <1>1 DEF Places
<1>3. /\ IsFiniteSet(1 .. Len(jobs))
      /\ Cardinality(1 .. Len(jobs)) = Len(jobs)
  <2>1. /\ IsFiniteSet(1 .. Len(jobs))
        /\ Cardinality(1 .. Len(jobs)) = IF 1 > Len(jobs) THEN 0 ELSE Len(jobs) - 1 + 1
    BY <1>1, FS_Interval
  <2> QED  BY <1>1, <2>1
<1>4. IsFiniteSet(places) /\ size <= Len(jobs)
  BY <1>2, <1>3, FS_Subset
<1>5. places \in SUBSET Nat
  BY <1>2
<1>6. /\ size \in Nat
      /\ \A n \in 1 .. size : Nth(places, n) \in places /\ Rank(places, Nth(places, n)) = n
      /\ \A i \in places : Rank(places, i) \in 1 .. size /\ Nth(places, Rank(places, i)) = i
  <2> HIDE DEF places
  <2> QED  BY <1>4, <1>5, NthPlace
<1>7. /\ kept = [n \in 1 .. size |-> jobs[Nth(places, n)]]
      /\ \A n \in 1 .. size : kept[n] = jobs[Nth(places, n)]
  BY DEF Keep
<1> HIDE DEF kept, places, size
<1>8. kept \in Seq(Caller) /\ Len(kept) = size /\ DOMAIN kept = 1 .. size
  <2>1. \A n \in 1 .. size : jobs[Nth(places, n)] \in Caller
    BY <1>1, <1>2, <1>6
  <2>2. kept \in [1 .. size -> Caller]
    BY <1>7, <2>1
  <2>3. kept \in Seq(Caller)
    BY <1>6, <2>2, SeqDef
  <2> QED  BY <1>6, <2>2, <2>3, LenProperties
<1>9. \A n \in DOMAIN kept : kept[n] \in wanted /\ \E i \in DOMAIN jobs : jobs[i] = kept[n]
  BY <1>1, <1>2, <1>6, <1>7, <1>8
<1>10. \A i \in DOMAIN jobs : jobs[i] \in wanted => \E n \in DOMAIN kept : kept[n] = jobs[i]
  <2> SUFFICES ASSUME NEW i \in DOMAIN jobs, jobs[i] \in wanted
               PROVE  \E n \in DOMAIN kept : kept[n] = jobs[i]
    OBVIOUS
  <2>1. i \in places
    BY DEF places, Places
  <2> QED  BY <1>6, <1>7, <1>8, <2>1
<1>11. Injective(jobs) => Injective(kept)
  <2> SUFFICES ASSUME Injective(jobs), NEW n \in 1 .. size, NEW m \in 1 .. size, kept[n] = kept[m]
               PROVE  n = m
    BY <1>8 DEF Injective
  <2>1. Nth(places, n) = Nth(places, m)
    BY <1>1, <1>2, <1>6, <1>7 DEF Injective
  <2> QED  BY <1>6, <2>1
<1>12. size = Cardinality({i \in DOMAIN jobs : jobs[i] \in wanted})
  BY DEF size, places, Places
<1> QED  BY <1>4, <1>8, <1>9, <1>10, <1>11, <1>12 DEF kept

-----------------------------------------------------------------------------
(* Types *)

Places3 == {"next", "parked", "stopped"}
At == Places3 \cup {"start", "inspect", "update", "reply", "reinspect", "observe", "publish"}
Runs == [at : At, job : Caller \cup {None}, out : Result, killed : BOOLEAN]

Versions == 0 .. MaxVersion + Cardinality(Caller)
Wires == {Docker!Unsent} \cup
         [state : Docker!Fate, service : Service, version : Versions, image : Image]
Accepts == {c \in Caller : wire[c].state = "accepted"}

DockerTypes ==
  /\ svc \in [Service -> [version : Nat \ {0}, image : Image]]
  /\ \A s \in Service : svc[s].version <= MaxVersion + Cardinality(Accepts)
  /\ wire \in [Caller -> Wires]

CallTypes ==
  /\ ctx     \in [Caller -> {"live", "canceled", "deadline"}]
  /\ root    \in {"live", "canceled"}
  /\ stage   \in [Caller -> {"arrived", "refused", "authorised", "owner", "enqueued"}]
  /\ prev    \in [Caller -> Caller \cup {None}]
  /\ dropped \in [Caller -> {"", "canceled", "deadline"}]
  /\ queue   \in [Deployment -> Seq(Caller)]
  /\ wake    \in [Deployment -> BOOLEAN]

WorkerTypes ==
  /\ run \in [Deployment -> Runs]
  /\ \A d \in Deployment : run[d].job = None <=> run[d].at \in Places3

Types == DockerTypes /\ CallTypes /\ WorkerTypes

(* The operation a retry replaces is completed and was for the same request. *)
Prevs ==
  \A c \in Caller : prev[c] # None =>
    /\ op[c].state # "none" /\ op[prev[c]].state = "done"
    /\ prev[c] # c /\ req[prev[c]] = req[c]

(* A call has created its operation once it is its owner.                    *)
Owners == \A c \in Caller : op[c].state # "none" <=> stage[c] \in {"owner", "enqueued"}

Base == CacheFacts!Inv /\ Types /\ Prevs /\ Owners

CacheTypes ==
  /\ entries \in [Token -> Caller \cup {None}]
  /\ op \in [Caller -> CacheFacts!Operation]
  /\ req \in [Caller -> CacheFacts!Request]
  /\ pc \in [Caller -> {"idle", "bind", "wait", "replace", "final", "done"}]
  /\ watch \in [Caller -> Caller \cup {None}]

LEMMA Constants ==
  /\ None \notin Caller
  /\ IsFiniteSet(Caller) /\ Cardinality(Caller) \in Nat
  /\ MaxVersion \in Nat \ {0} /\ QueueCapacity \in Nat \ {0}
  /\ ServiceOf \in [Deployment -> Service]
  BY CoordinatorAssumption, CacheConfigured, FS_CardinalityType DEF Cache!CacheAssumption

LEMMA BaseTypes ==
  ASSUME CacheFacts!Inv PROVE CacheTypes
  BY DEF CacheFacts!Inv, CacheFacts!TypeOK, CacheTypes

LEMMA OpStates ==
  ASSUME CacheTypes, NEW c \in Caller
  PROVE  /\ op[c].state \in {"none", "open", "done"}
         /\ op[c].state = "done" => op[c].result \in Result
         /\ op[c].state = "done" => op[c] = Cache!Completed(op[c].result)
         /\ op[c].state = "open" => op[c] = Cache!Opened
  BY DEF CacheTypes, CacheFacts!Operation, CacheFacts!NoOperation, CacheFacts!Opened,
         CacheFacts!Completed, Cache!Completed, Cache!Opened

(* Results *)

LEMMA OutcomeIsResult ==
  ASSUME NEW a \in Action \ {""}, NEW k \in Conclusion, NEW v \in Versions, NEW e \in Error
  PROVE  Outcome(a, k, v, e) \in Result
  BY DEF Outcome, Result, Versions

LEMMA ResultFields ==
  ASSUME NEW r \in Result
  PROVE  /\ r.action \in Action \ {""} /\ r.conclusion \in Conclusion
         /\ r.version \in Versions /\ r.err \in Error
         /\ \A e \in Error : [r EXCEPT !.err = e] = Outcome(r.action, r.conclusion, r.version, e)
         /\ \A k \in Conclusion :
              [r EXCEPT !.conclusion = k] = Outcome(r.action, k, r.version, r.err)
         /\ \A v \in Versions : [r EXCEPT !.version = v] = Outcome(r.action, r.conclusion, v, r.err)
<1>1. /\ r.action \in Action \ {""} /\ r.conclusion \in Conclusion
      /\ r.version \in Versions /\ r.err \in Error
  BY DEF Result, Versions
<1> DEFINE fields == [action |-> r.action, conclusion |-> r.conclusion, version |-> r.version, err |-> r.err]
<1>0. r = fields
  BY DEF Result
<1>2. ASSUME NEW x
      PROVE  [r EXCEPT !.err = x] = Outcome(r.action, r.conclusion, r.version, x)
  BY <1>0 DEF Outcome
<1>3. ASSUME NEW x
      PROVE  [r EXCEPT !.conclusion = x] = Outcome(r.action, x, r.version, r.err)
  BY <1>0 DEF Outcome
<1>4. ASSUME NEW x
      PROVE  [r EXCEPT !.version = x] = Outcome(r.action, r.conclusion, x, r.err)
  BY <1>0 DEF Outcome
<1> QED  BY <1>1, <1>2, <1>3, <1>4, Zenon

LEMMA NotAppliedIsResult ==
  ASSUME NEW e \in Error
  PROVE  NotApplied(e) \in Result
<1>1. 0 \in Versions /\ "not_applied" \in Action \ {""} /\ "" \in Conclusion
  BY Constants DEF Versions, Action, Conclusion
<1> QED  BY <1>1, OutcomeIsResult DEF NotApplied

LEMMA UnexecutedIsResult ==
  ASSUME CacheTypes, Types, Prevs, NEW c \in Caller, NEW e \in Error
  PROVE  /\ Unexecuted(c, e) \in Result
         /\ Unexecuted(c, e).err = e
         /\ prev[c] # None =>
              /\ Unexecuted(c, e).action = op[prev[c]].result.action
              /\ Unexecuted(c, e).version = op[prev[c]].result.version
         /\ prev[c] = None => Unexecuted(c, e).action = "not_applied"
<1>1. CASE prev[c] = None
  BY <1>1, NotAppliedIsResult DEF Unexecuted, NotApplied, Outcome
<1>2. CASE prev[c] # None
  <2> DEFINE r == op[prev[c]].result
  <2>0. prev[c] \in Caller /\ op[prev[c]].state = "done"
    BY <1>2 DEF Prevs, Types, CallTypes
  <2>1. r \in Result
    BY <2>0, OpStates
  <2>2. /\ r.action \in Action \ {""} /\ r.conclusion \in Conclusion /\ r.version \in Versions
        /\ [r EXCEPT !.err = e] = Outcome(r.action, r.conclusion, r.version, e)
    BY <2>1, ResultFields
  <2>3. Outcome(r.action, r.conclusion, r.version, e) \in Result
    BY <2>2, OutcomeIsResult
  <2> QED  BY <1>2, <2>2, <2>3 DEF Unexecuted, Outcome
<1> QED  BY <1>1, <1>2

(* Worker steps *)

RunsTo(d, at, job, out) ==
  /\ WorkerTypes'
  /\ run'[d].at = at /\ run'[d].job = job /\ run'[d].out = out
  /\ \A e \in Deployment : e # d => run'[e] = run[e]

LEMMA RunSet ==
  ASSUME WorkerTypes, NEW d \in Deployment, NEW r \in Runs,
         r.job = None <=> r.at \in Places3,
         run' = [run EXCEPT ![d] = r]
  PROVE  RunsTo(d, r.at, r.job, r.out)
<1>1. run' \in [Deployment -> Runs]
  BY DEF WorkerTypes
<1>2. run'[d] = r /\ \A e \in Deployment : e # d => run'[e] = run[e]
  BY DEF WorkerTypes
<1> QED  BY <1>1, <1>2 DEF WorkerTypes, RunsTo

RunRecord(at, job, out, killed) == [at |-> at, job |-> job, out |-> out, killed |-> killed]

LEMMA RunFields ==
  ASSUME NEW r \in Runs
  PROVE  /\ r = RunRecord(r.at, r.job, r.out, r.killed)
         /\ r.at \in At /\ r.job \in Caller \cup {None} /\ r.out \in Result /\ r.killed \in BOOLEAN
  BY DEF Runs, RunRecord

LEMMA RunBuilt ==
  ASSUME NEW at \in At, NEW job \in Caller \cup {None}, NEW out \in Result, NEW killed \in BOOLEAN
  PROVE  /\ RunRecord(at, job, out, killed) \in Runs
         /\ RunRecord(at, job, out, killed).at = at
         /\ RunRecord(at, job, out, killed).job = job
         /\ RunRecord(at, job, out, killed).out = out
  BY DEF Runs, RunRecord

LEMMA RunChanged ==
  ASSUME NEW r \in Runs, NEW x, NEW y
  PROVE  /\ [r EXCEPT !.at = x] = RunRecord(x, r.job, r.out, r.killed)
         /\ [r EXCEPT !.at = x, !.out = y] = RunRecord(x, r.job, y, r.killed)
         /\ [r EXCEPT !.killed = x] = RunRecord(r.at, r.job, r.out, x)
         /\ [r EXCEPT !.at = x, !.out.version = y] =
              RunRecord(x, r.job, [r.out EXCEPT !.version = y], r.killed)
<1>1. r = [at |-> r.at, job |-> r.job, out |-> r.out, killed |-> r.killed]
  BY DEF Runs
<1>2. [r EXCEPT !.at = x] = RunRecord(x, r.job, r.out, r.killed)
  BY <1>1 DEF RunRecord
<1>3. [r EXCEPT !.killed = x] = RunRecord(r.at, r.job, r.out, x)
  BY <1>1 DEF RunRecord
<1> DEFINE s == [r EXCEPT !.at = x]
<1>4. /\ s = [at |-> s.at, job |-> s.job, out |-> s.out, killed |-> s.killed]
      /\ s.at = x /\ s.job = r.job /\ s.out = r.out /\ s.killed = r.killed
  BY <1>2 DEF RunRecord
<1>5. /\ [r EXCEPT !.at = x, !.out = y] = [s EXCEPT !.out = y]
      /\ [r EXCEPT !.at = x, !.out.version = y] = [s EXCEPT !.out.version = y]
  OBVIOUS
<1> HIDE DEF s
<1>6. ASSUME NEW z
      PROVE  [s EXCEPT !.out = z] = RunRecord(x, r.job, z, r.killed)
  BY <1>4 DEF RunRecord
<1>7. [s EXCEPT !.out.version = y] = [s EXCEPT !.out = [s.out EXCEPT !.version = y]]
  OBVIOUS
<1> QED  BY <1>2, <1>3, <1>4, <1>5, <1>6, <1>7

LEMMA GotoStep ==
  ASSUME WorkerTypes, NEW d \in Deployment, NEW at \in At,
         run[d].job = None <=> at \in Places3,
         Goto(d, at)
  PROVE  RunsTo(d, at, run[d].job, run[d].out)
<1> DEFINE r == RunRecord(at, run[d].job, run[d].out, run[d].killed)
<1>1. run[d] \in Runs
  BY DEF WorkerTypes
<1>2. r \in Runs /\ r.at = at /\ r.job = run[d].job /\ r.out = run[d].out
  BY <1>1, RunFields, RunBuilt
<1>3. run' = [run EXCEPT ![d] = [run[d] EXCEPT !.at = at]]
  BY DEF Goto
<1>4. [run[d] EXCEPT !.at = at] = r
  BY <1>1, RunChanged
<1> HIDE DEF r
<1>5. run' = [run EXCEPT ![d] = r]
  BY <1>3, <1>4
<1>6. RunsTo(d, r.at, r.job, r.out)
  BY <1>2, <1>5, RunSet
<1> QED  BY <1>2, <1>6

(* The worker goes on with another outcome in its hands.                     *)
LEMMA OutStep ==
  ASSUME WorkerTypes, NEW d \in Deployment, NEW at \in At \ Places3, NEW out \in Result,
         run[d].job # None,
         run' = [run EXCEPT ![d].at = at, ![d].out = out]
  PROVE  RunsTo(d, at, run[d].job, out)
<1> DEFINE r == RunRecord(at, run[d].job, out, run[d].killed)
<1>1. run[d] \in Runs
  BY DEF WorkerTypes
<1>2. r \in Runs /\ r.at = at /\ r.job = run[d].job /\ r.out = out
  BY <1>1, RunFields, RunBuilt
<1>3. run' = [run EXCEPT ![d] = [run[d] EXCEPT !.at = at, !.out = out]]
  OBVIOUS
<1>4. [run[d] EXCEPT !.at = at, !.out = out] = r
  BY <1>1, RunChanged
<1> HIDE DEF r
<1>5. run' = [run EXCEPT ![d] = r]
  BY <1>3, <1>4
<1>6. RunsTo(d, r.at, r.job, r.out)
  BY <1>2, <1>5, RunSet
<1> QED  BY <1>2, <1>6

(* The worker inspects the service and notes its version.                    *)
LEMMA VersionStep ==
  ASSUME WorkerTypes, NEW d \in Deployment, NEW at \in At \ Places3, NEW version \in Versions,
         run[d].job # None,
         run' = [run EXCEPT ![d].at = at, ![d].out.version = version]
  PROVE  RunsTo(d, at, run[d].job, [run[d].out EXCEPT !.version = version])
<1> DEFINE out == [run[d].out EXCEPT !.version = version]
           r   == RunRecord(at, run[d].job, out, run[d].killed)
<1>1. run[d] \in Runs /\ run[d].out \in Result
  BY RunFields DEF WorkerTypes
<1>2. out \in Result
  <2>1. out = Outcome(run[d].out.action, run[d].out.conclusion, version, run[d].out.err)
    BY <1>1, ResultFields
  <2>2. /\ run[d].out.action \in Action \ {""} /\ run[d].out.conclusion \in Conclusion
        /\ run[d].out.err \in Error
    BY <1>1, ResultFields
  <2> HIDE DEF out
  <2> QED  BY <2>1, <2>2, OutcomeIsResult
<1>3. run' = [run EXCEPT ![d] = [run[d] EXCEPT !.at = at, !.out.version = version]]
  OBVIOUS
<1>4. [run[d] EXCEPT !.at = at, !.out.version = version] = r
  BY <1>1, RunChanged
<1> HIDE DEF out
<1>5. r \in Runs /\ r.at = at /\ r.job = run[d].job /\ r.out = out
  BY <1>1, <1>2, RunFields, RunBuilt
<1> HIDE DEF r
<1>6. run' = [run EXCEPT ![d] = r]
  BY <1>3, <1>4
<1>7. RunsTo(d, r.at, r.job, r.out)
  BY <1>5, <1>6, RunSet
<1> QED  BY <1>5, <1>7 DEF out

LEMMA KillStep ==
  ASSUME WorkerTypes, NEW d \in Deployment, run' = [run EXCEPT ![d].killed = TRUE]
  PROVE  RunsTo(d, run[d].at, run[d].job, run[d].out)
<1>1. run[d] \in Runs /\ (run[d].job = None <=> run[d].at \in Places3)
  BY DEF WorkerTypes
<1>2. ASSUME NEW killed \in BOOLEAN, run' = [run EXCEPT ![d].killed = killed]
      PROVE  RunsTo(d, run[d].at, run[d].job, run[d].out)
  <2> DEFINE r == RunRecord(run[d].at, run[d].job, run[d].out, killed)
  <2>1. [run[d] EXCEPT !.killed = killed] = r
    BY <1>1, RunChanged
  <2>2. r \in Runs /\ r.at = run[d].at /\ r.job = run[d].job /\ r.out = run[d].out
    BY <1>1, RunFields, RunBuilt
  <2>3. run' = [run EXCEPT ![d] = [run[d] EXCEPT !.killed = killed]]
    BY <1>2
  <2> HIDE DEF r
  <2>4. run' = [run EXCEPT ![d] = r]
    BY <2>1, <2>3
  <2>5. RunsTo(d, r.at, r.job, r.out)
    BY <1>1, <2>2, <2>4, RunSet
  <2> QED  BY <2>2, <2>5
<1>3. TRUE \in BOOLEAN
  OBVIOUS
<1> QED  BY <1>2, <1>3, Zenon

-----------------------------------------------------------------------------
(* What the steps of a job in the hands of a worker do *)

Moves(d, at, out) ==
  /\ RunsTo(d, at, run[d].job, out)
  /\ run[d].job # None
  /\ UNCHANGED <<cacheVars, ctx, root, callVars, queue, wake>>

Concluded(out) == out.conclusion # "in_progress"

(* The outcome a step of Execute ends with, and where it leaves the worker.  *)
Executes(d, at, out) ==
  \/ run[d].at = "inspect" /\ at = "publish" /\ out.action = "not_applied" /\ Concluded(out)
  \/ /\ run[d].at = "inspect" /\ at = "observe" /\ out.action = "no_change"
     /\ Target(d).image = Desired(d)
  \/ /\ run[d].at = "inspect" /\ at = "update"
     /\ MayUpdate(d) /\ out.version = svc[ServiceOf[d]].version
     /\ Target(d).image # Desired(d)
  \/ /\ run[d].at = "reply" /\ at = "observe" /\ out.action = "updated"
     /\ wire[run[d].job].state = "accepted"
  \/ /\ run[d].at = "reply" /\ at = "publish"
     /\ wire[run[d].job].state \in {"conflict", "rejected"}
     /\ out.action \in {"not_applied", "rejected"} /\ Concluded(out)
  \/ /\ run[d].at \in {"update", "reply"} /\ at = "reinspect"
     /\ out.action = "indeterminate" /\ out.version = run[d].out.version /\ Concluded(out)
  \/ /\ run[d].at = "reinspect" /\ at = "observe" /\ out.action = "updated"
     /\ Target(d).image = Desired(d)
  \/ /\ run[d].at \in {"reinspect", "observe"} /\ at = "publish"
     /\ out.action = run[d].out.action /\ out.version = run[d].out.version
     /\ run[d].at = "reinspect" => out.conclusion = run[d].out.conclusion

OwnError(d, out) == out.err = run[d].out.err \/ out.err # "queue_full"

LEMMA Literals ==
  /\ \A a \in {"not_applied", "no_change", "updated", "rejected", "indeterminate"} : a \in Action \ {""}
  /\ \A k \in {"", "in_progress", "settled"} : k \in Conclusion
  /\ \A e \in {"", "canceled", "deadline", "queue_full", "conflict", "rejected", "failed"} : e \in Error
  /\ 0 \in Versions
  BY Constants DEF Action, Conclusion, Error, Versions

LEMMA EndErrors ==
  ASSUME Types, NEW d \in Deployment, run[d].job # None, Ended(d)
  PROVE  EndError(d) \in {"canceled", "deadline"}
<1>1. run[d].job \in Caller /\ ctx[run[d].job] \in {"live", "canceled", "deadline"}
  BY RunFields DEF Types, WorkerTypes, CallTypes
<1> QED  BY <1>1 DEF Ended, EndError, Live

LEMMA ServiceVersion ==
  ASSUME Types, NEW s \in Service
  PROVE  svc[s].version \in Versions /\ svc[s].version # 0
<1>1. Accepts \in SUBSET Caller
  BY DEF Accepts
<1>2. Cardinality(Accepts) <= Cardinality(Caller) /\ Cardinality(Accepts) \in Nat
  BY <1>1, Constants, FS_Subset, FS_CardinalityType
<1> QED  BY <1>2, Constants DEF Types, DockerTypes, Versions

LEMMA JobAt ==
  ASSUME Types, NEW d \in Deployment, run[d].at \notin Places3
  PROVE  run[d].job # None /\ run[d].job \in Caller
BY RunFields DEF Types, WorkerTypes

(* A step to at with out.                                                    *)
LEMMA MovesTo ==
  ASSUME Types, NEW d \in Deployment, run[d].at \notin Places3,
         NEW at \in At \ Places3, NEW out \in Result,
         run' = [run EXCEPT ![d].at = at, ![d].out = out], WorkerOnly
  PROVE  Moves(d, at, out) /\ UNCHANGED dockerVars
BY JobAt, OutStep DEF Types, Moves, WorkerOnly

LEMMA InspectMoves ==
  ASSUME Types, NEW d \in Deployment,
         InspectFails(d) \/ InspectFindsDesired(d) \/ InspectFindsConflict(d)
  PROVE  \E at \in At \ Places3, out \in Result :
           Moves(d, at, out) /\ Executes(d, at, out) /\ OwnError(d, out) /\ UNCHANGED dockerVars
<1>0. "publish" \in At \ Places3 /\ "observe" \in At \ Places3 /\ "inspect" \notin Places3
  BY DEF At, Places3
<1>1. CASE InspectFails(d)
  <2> DEFINE e == IF Ended(d) THEN EndError(d) ELSE "failed"
  <2>1. e \in Error /\ e # "queue_full"
    BY <1>0, <1>1, EndErrors, JobAt, Literals DEF InspectFails
  <2>2. run' = [run EXCEPT ![d].at = "publish", ![d].out = NotApplied(e)]
    BY <1>1 DEF InspectFails, Yield
  <2> HIDE DEF e
  <2>3. /\ NotApplied(e) \in Result /\ NotApplied(e).action = "not_applied"
        /\ NotApplied(e).err = e /\ Concluded(NotApplied(e))
    BY <2>1, NotAppliedIsResult DEF NotApplied, Outcome, Concluded
  <2>4. Moves(d, "publish", NotApplied(e)) /\ UNCHANGED dockerVars
    BY <1>0, <1>1, <2>2, <2>3, MovesTo DEF InspectFails
  <2> QED  BY <1>0, <1>1, <2>1, <2>3, <2>4 DEF InspectFails, Executes, OwnError
<1>2. CASE InspectFindsDesired(d)
  <2> DEFINE out == Outcome("no_change", "", 0, "")
  <2>1. out \in Result
    BY Literals, OutcomeIsResult
  <2>2. out.action = "no_change" /\ out.err = ""
    BY DEF Outcome
  <2>3. run' = [run EXCEPT ![d].at = "observe", ![d].out = out]
    BY <1>2 DEF InspectFindsDesired, Observing
  <2> HIDE DEF out
  <2>4. Moves(d, "observe", out) /\ UNCHANGED dockerVars
    BY <1>0, <1>2, <2>1, <2>3, MovesTo DEF InspectFindsDesired
  <2> QED  BY <1>0, <1>2, <2>1, <2>2, <2>4 DEF InspectFindsDesired, Executes, OwnError
<1>3. CASE InspectFindsConflict(d)
  <2> DEFINE out == Outcome("not_applied", "settled", 0, "conflict")
  <2>1. out \in Result
    BY Literals, OutcomeIsResult
  <2>2. out.action = "not_applied" /\ out.err = "conflict" /\ Concluded(out)
    BY DEF Outcome, Concluded
  <2>3. run' = [run EXCEPT ![d].at = "publish", ![d].out = out]
    BY <1>3 DEF InspectFindsConflict, Yield
  <2> HIDE DEF out
  <2>4. Moves(d, "publish", out) /\ UNCHANGED dockerVars
    BY <1>0, <1>3, <2>1, <2>3, MovesTo DEF InspectFindsConflict
  <2> QED  BY <1>0, <1>3, <2>1, <2>2, <2>4 DEF InspectFindsConflict, Executes, OwnError
<1> QED  BY <1>1, <1>2, <1>3

LEMMA InspectOtherMoves ==
  ASSUME Types, NEW d \in Deployment, InspectFindsOther(d)
  PROVE  \E at \in At \ Places3, out \in Result :
           Moves(d, at, out) /\ Executes(d, at, out) /\ OwnError(d, out) /\ UNCHANGED dockerVars
<1> DEFINE version == svc[ServiceOf[d]].version
           out     == [run[d].out EXCEPT !.version = version]
<1>1. run[d].at = "inspect" /\ run[d].job # None /\ run[d].out \in Result
  BY JobAt, RunFields DEF InspectFindsOther, Types, WorkerTypes, Places3
<1>2. version \in Versions
  BY Constants, ServiceVersion
<1>3. run' = [run EXCEPT ![d].at = "update", ![d].out.version = version]
  BY DEF InspectFindsOther, Target
<1>4. "update" \in At \ Places3
  BY DEF At, Places3
<1> HIDE DEF version
<1>5. RunsTo(d, "update", run[d].job, out)
  BY <1>1, <1>2, <1>3, <1>4, VersionStep DEF Types
<1>6. /\ out = Outcome(run[d].out.action, run[d].out.conclusion, version, run[d].out.err)
      /\ run[d].out.action \in Action \ {""} /\ run[d].out.conclusion \in Conclusion
      /\ run[d].out.err \in Error
  BY <1>1, <1>2, ResultFields
<1> HIDE DEF out
<1>7. out \in Result
  BY <1>2, <1>6, OutcomeIsResult
<1>8. out.version = version /\ out.err = run[d].out.err
  BY <1>6 DEF Outcome
<1>9. Moves(d, "update", out) /\ UNCHANGED dockerVars
  BY <1>1, <1>5 DEF InspectFindsOther, WorkerOnly, Moves
<1>10. Executes(d, "update", out) /\ OwnError(d, out)
  BY <1>1, <1>8 DEF InspectFindsOther, Executes, OwnError, version
<1> QED  BY <1>4, <1>7, <1>9, <1>10

LEMMA UpdateMoves ==
  ASSUME Types, NEW d \in Deployment, UpdateAnswered(d) \/ UpdateFails(d)
  PROVE  \E at \in At \ Places3, out \in Result :
           Moves(d, at, out) /\ Executes(d, at, out) /\ OwnError(d, out) /\ UNCHANGED dockerVars
<1>0. /\ "publish" \in At \ Places3 /\ "observe" \in At \ Places3 /\ "reinspect" \in At \ Places3
      /\ "reply" \notin Places3 /\ "update" \notin Places3
  BY DEF At, Places3
<1>1. ASSUME run[d].at = "reply", wire[run[d].job].state = "accepted", WorkerOnly,
             Observing(d, Outcome("updated", "", 0, ""))
      PROVE  \E at \in At \ Places3, out \in Result :
               Moves(d, at, out) /\ Executes(d, at, out) /\ OwnError(d, out) /\ UNCHANGED dockerVars
  <2> DEFINE out == Outcome("updated", "", 0, "")
  <2>1. out \in Result
    BY Literals, OutcomeIsResult
  <2>2. out.action = "updated" /\ out.err = ""
    BY DEF Outcome
  <2>3. run' = [run EXCEPT ![d].at = "observe", ![d].out = out]
    BY <1>1 DEF Observing
  <2> HIDE DEF out
  <2>4. Moves(d, "observe", out) /\ UNCHANGED dockerVars
    BY <1>0, <1>1, <2>1, <2>3, MovesTo
  <2> QED  BY <1>0, <1>1, <2>1, <2>2, <2>4 DEF Executes, OwnError
<1>2. ASSUME NEW out \in {Outcome("not_applied", "settled", 0, "conflict"),
                          Outcome("rejected", "", 0, "rejected")},
             run[d].at = "reply", wire[run[d].job].state \in {"conflict", "rejected"}, WorkerOnly,
             Yield(d, out)
      PROVE  \E at \in At \ Places3, o \in Result :
               Moves(d, at, o) /\ Executes(d, at, o) /\ OwnError(d, o) /\ UNCHANGED dockerVars
  <2>1. out \in Result
    BY Literals, OutcomeIsResult
  <2>2. /\ out.action \in {"not_applied", "rejected"} /\ out.err \in {"conflict", "rejected"}
        /\ Concluded(out)
    <3>1. /\ Outcome("not_applied", "settled", 0, "conflict").action = "not_applied"
          /\ Outcome("not_applied", "settled", 0, "conflict").err = "conflict"
          /\ Concluded(Outcome("not_applied", "settled", 0, "conflict"))
          /\ Outcome("rejected", "", 0, "rejected").action = "rejected"
          /\ Outcome("rejected", "", 0, "rejected").err = "rejected"
          /\ Concluded(Outcome("rejected", "", 0, "rejected"))
      BY DEF Outcome, Concluded
    <3> QED  BY <3>1
  <2>3. run' = [run EXCEPT ![d].at = "publish", ![d].out = out]
    BY <1>2 DEF Yield
  <2>4. Moves(d, "publish", out) /\ UNCHANGED dockerVars
    BY <1>0, <1>2, <2>1, <2>3, MovesTo
  <2> QED  BY <1>0, <1>2, <2>1, <2>2, <2>4 DEF Executes, OwnError
<1>3. CASE UpdateAnswered(d)
  BY <1>1, <1>2, <1>3 DEF UpdateAnswered, Job
<1>4. CASE UpdateFails(d)
  <2> DEFINE e   == IF Ended(d) THEN EndError(d) ELSE "failed"
             out == Outcome("indeterminate", "", run[d].out.version, e)
  <2>1. run[d].at \in {"update", "reply"} /\ run[d].job # None /\ run[d].out.version \in Versions
    BY <1>0, <1>4, JobAt, RunFields, ResultFields DEF UpdateFails, Types, WorkerTypes
  <2>2. e \in Error /\ e # "queue_full"
    BY <2>1, EndErrors, Literals
  <2>3. run' = [run EXCEPT ![d].at = "reinspect", ![d].out = out]
    BY <1>4 DEF UpdateFails, InspectedVersion
  <2> HIDE DEF e
  <2>4. out \in Result
    BY <2>1, <2>2, Literals, OutcomeIsResult
  <2>5. /\ out.action = "indeterminate" /\ out.err = e /\ out.version = run[d].out.version
        /\ Concluded(out)
    BY DEF Outcome, Concluded
  <2> HIDE DEF out
  <2>6. Moves(d, "reinspect", out) /\ UNCHANGED dockerVars
    BY <1>0, <1>4, <2>1, <2>3, <2>4, MovesTo DEF UpdateFails
  <2> QED  BY <1>0, <2>1, <2>2, <2>4, <2>5, <2>6 DEF Executes, OwnError
<1> QED  BY <1>3, <1>4

LEMMA ReinspectMoves ==
  ASSUME Types, NEW d \in Deployment, ReinspectFindsDesired(d) \/ ReinspectInconclusive(d)
  PROVE  \E at \in At \ Places3, out \in Result :
           Moves(d, at, out) /\ Executes(d, at, out) /\ OwnError(d, out) /\ UNCHANGED dockerVars
<1>0. "publish" \in At \ Places3 /\ "observe" \in At \ Places3 /\ "reinspect" \notin Places3
  BY DEF At, Places3
<1>1. CASE ReinspectFindsDesired(d)
  <2> DEFINE out == Outcome("updated", "", 0, "")
  <2>1. out \in Result
    BY Literals, OutcomeIsResult
  <2>2. out.action = "updated" /\ out.err = ""
    BY DEF Outcome
  <2>3. run' = [run EXCEPT ![d].at = "observe", ![d].out = out]
    BY <1>1 DEF ReinspectFindsDesired, Observing
  <2> HIDE DEF out
  <2>4. Moves(d, "observe", out) /\ UNCHANGED dockerVars
    BY <1>0, <1>1, <2>1, <2>3, MovesTo DEF ReinspectFindsDesired
  <2> QED  BY <1>0, <1>1, <2>1, <2>2, <2>4 DEF ReinspectFindsDesired, Executes, OwnError
<1>2. CASE ReinspectInconclusive(d)
  <2>1. PICK out : /\ Yield(d, out)
                   /\ \/ out = run[d].out
                      \/ Ended(d) /\ out = [run[d].out EXCEPT !.err = EndError(d)]
    BY <1>2 DEF ReinspectInconclusive
  <2>2. run[d].at = "reinspect" /\ run[d].job # None /\ run[d].out \in Result
    BY <1>0, <1>2, JobAt, RunFields DEF ReinspectInconclusive, Types, WorkerTypes
  <2>3. /\ out \in Result /\ out.action = run[d].out.action
        /\ out.version = run[d].out.version /\ out.conclusion = run[d].out.conclusion
        /\ OwnError(d, out)
    <3>1. CASE out = run[d].out
      BY <2>2, <3>1 DEF OwnError
    <3>2. CASE Ended(d) /\ out = [run[d].out EXCEPT !.err = EndError(d)]
      <4>1. EndError(d) \in Error /\ EndError(d) # "queue_full"
        BY <2>2, <3>2, EndErrors, Literals
      <4>2. out = Outcome(run[d].out.action, run[d].out.conclusion, run[d].out.version, EndError(d))
        BY <2>2, <3>2, <4>1, ResultFields
      <4>3. /\ run[d].out.action \in Action \ {""} /\ run[d].out.conclusion \in Conclusion
            /\ run[d].out.version \in Versions
        BY <2>2, ResultFields
      <4>4. out \in Result
        BY <4>1, <4>2, <4>3, OutcomeIsResult
      <4> QED  BY <4>1, <4>2, <4>4 DEF Outcome, OwnError
    <3> QED  BY <2>1, <3>1, <3>2
  <2>4. Moves(d, "publish", out) /\ UNCHANGED dockerVars
    BY <1>0, <1>2, <2>1, <2>2, <2>3, MovesTo DEF ReinspectInconclusive, Yield
  <2> QED  BY <1>0, <2>2, <2>3, <2>4 DEF Executes
<1> QED  BY <1>1, <1>2

LEMMA ObserveMoves ==
  ASSUME Types, NEW d \in Deployment, ObserveSettles(d) \/ ObserveFails(d) \/ ObserveEnds(d)
  PROVE  \E at \in At \ Places3, out \in Result :
           Moves(d, at, out) /\ Executes(d, at, out) /\ OwnError(d, out) /\ UNCHANGED dockerVars
<1>1. "publish" \in At \ Places3 /\ "observe" \notin Places3
  BY DEF At, Places3
<1>2. run[d].at = "observe" /\ run[d].job # None /\ run[d].out \in Result
  BY <1>1, JobAt, RunFields DEF ObserveSettles, ObserveFails, ObserveEnds, Types, WorkerTypes
<1> DEFINE r == run[d].out
<1>3. /\ r.action \in Action \ {""} /\ r.conclusion \in Conclusion
      /\ r.version \in Versions /\ r.err \in Error
      /\ [r EXCEPT !.err = "failed"] = Outcome(r.action, r.conclusion, r.version, "failed")
      /\ [r EXCEPT !.conclusion = "settled"] = Outcome(r.action, "settled", r.version, r.err)
      /\ [r EXCEPT !.conclusion = "in_progress"] = Outcome(r.action, "in_progress", r.version, r.err)
  BY <1>2, ResultFields, Literals
<1>4. PICK out : /\ Yield(d, out) /\ WorkerOnly
                 /\ \/ out = Outcome(r.action, r.conclusion, r.version, "failed")
                    \/ out = Outcome(r.action, "settled", r.version, r.err)
                    \/ out = Outcome(r.action, "in_progress", r.version, r.err)
  BY <1>3 DEF ObserveSettles, ObserveFails, ObserveEnds
<1> HIDE DEF r
<1>5. out \in Result
  <2>1. /\ "failed" \in Error /\ "settled" \in Conclusion /\ "in_progress" \in Conclusion
    BY Literals
  <2>2. /\ Outcome(r.action, r.conclusion, r.version, "failed") \in Result
        /\ Outcome(r.action, "settled", r.version, r.err) \in Result
        /\ Outcome(r.action, "in_progress", r.version, r.err) \in Result
    BY <1>3, <2>1, OutcomeIsResult
  <2> QED  BY <1>4, <2>2
<1> USE DEF r
<1>6. out.action = r.action /\ out.version = r.version /\ OwnError(d, out)
  BY <1>4 DEF Outcome, OwnError
<1>7. Moves(d, "publish", out) /\ UNCHANGED dockerVars
  BY <1>1, <1>2, <1>4, <1>5, MovesTo DEF Yield
<1> QED  BY <1>1, <1>2, <1>5, <1>6, <1>7 DEF Executes

LEMMA ExecuteMoves ==
  ASSUME Types, NEW d \in Deployment, Execute(d)
  PROVE  \E at \in At \ Places3, out \in Result :
           Moves(d, at, out) /\ Executes(d, at, out) /\ OwnError(d, out) /\ UNCHANGED dockerVars
BY InspectMoves, InspectOtherMoves, UpdateMoves, ReinspectMoves, ObserveMoves DEF Execute

(* What a worker does with a job it has taken.                               *)
Starts(d, at, out) ==
  \/ at = "publish" /\ out.action = "not_applied" /\ Concluded(out)
  \/ /\ at = "observe" /\ Resuming(d)
     /\ out.action = Previous(d).action /\ out.version = Previous(d).version
  \/ at = "inspect" /\ ~Resuming(d) /\ out = run[d].out

LEMMA StartMoves ==
  ASSUME CacheTypes, Types, Prevs, NEW d \in Deployment, Start(d)
  PROVE  \E at \in At \ Places3, out \in Result :
           Moves(d, at, out) /\ Starts(d, at, out) /\ OwnError(d, out) /\ UNCHANGED dockerVars
<1> DEFINE j == run[d].job
<1>1. /\ run[d] \in Runs /\ run[d].at = "start" /\ j # None /\ j \in Caller
      /\ UNCHANGED <<cacheVars, dockerVars, ctx, root, callVars, queue, wake>>
  BY JobAt DEF Start, Types, WorkerTypes, Places3
<1>2. "publish" \in At \ Places3 /\ "observe" \in At \ Places3 /\ "inspect" \in At \ Places3
  BY DEF At, Places3
<1>10. /\ run[d].killed \in BOOLEAN /\ j \in Caller \cup {None}
      /\ "publish" \in At /\ "observe" \in At /\ "inspect" \in At
  BY <1>1, <1>2, RunFields
<1>3. ASSUME NEW at \in At \ Places3, NEW out \in Result, NEW r \in Runs,
             Starts(d, at, out), OwnError(d, out), run' = [run EXCEPT ![d] = r],
             r.at = at, r.job = j, r.out = out
      PROVE  \E a \in At \ Places3, o \in Result :
               Moves(d, a, o) /\ Starts(d, a, o) /\ OwnError(d, o) /\ UNCHANGED dockerVars
  <2>1. RunsTo(d, at, j, out)
    BY <1>1, <1>3, RunSet DEF Types
  <2> QED  BY <1>1, <1>3, <2>1 DEF Moves
<1>4. ASSUME NEW err \in {"canceled", "deadline"}, NEW killed \in BOOLEAN,
             run' = [run EXCEPT ![d] = RunRecord("publish", j, NotApplied(err), killed)]
      PROVE  \E a \in At \ Places3, o \in Result :
               Moves(d, a, o) /\ Starts(d, a, o) /\ OwnError(d, o) /\ UNCHANGED dockerVars
  <2>1. NotApplied(err) \in Result
    BY NotAppliedIsResult, Literals
  <2>2. /\ NotApplied(err).action = "not_applied" /\ NotApplied(err).err = err
        /\ Concluded(NotApplied(err))
    BY DEF NotApplied, Outcome, Concluded
  <2>3. OwnError(d, NotApplied(err)) /\ Starts(d, "publish", NotApplied(err))
    BY <2>2 DEF OwnError, Starts
  <2> DEFINE r == RunRecord("publish", j, NotApplied(err), killed)
  <2>4. r \in Runs /\ r.at = "publish" /\ r.job = j /\ r.out = NotApplied(err)
    BY <1>1, <1>2, <2>1, RunBuilt
  <2>5. run' = [run EXCEPT ![d] = r]
    BY <1>4
  <2> HIDE DEF r
  <2> QED  BY <1>2, <1>3, <2>1, <2>3, <2>4, <2>5
<1> DEFINE killed == root # "live" /\ Live(j)
<1>5. CASE ~Live(j)
  <2>1. run' = [run EXCEPT ![d] = [run[d] EXCEPT !.at = "publish", !.out = NotApplied(ctx[j])]]
    BY <1>5 DEF Start
  <2>2. [run[d] EXCEPT !.at = "publish", !.out = NotApplied(ctx[j])] =
          RunRecord("publish", j, NotApplied(ctx[j]), run[d].killed)
    BY <1>1, RunChanged
  <2>3. run[d].killed \in BOOLEAN /\ ctx[j] \in {"canceled", "deadline"}
    BY <1>1, <1>5, RunFields DEF Live, Types, CallTypes
  <2> QED  BY <1>4, <2>1, <2>2, <2>3
<1>6. CASE killed
  <2>1. run' = [run EXCEPT ![d] =
                  [run[d] EXCEPT !.at = "publish", !.out = NotApplied("canceled"), !.killed = TRUE]]
    BY <1>6 DEF Start
  <2>2. ASSUME NEW k
        PROVE  [run[d] EXCEPT !.at = "publish", !.out = NotApplied("canceled"), !.killed = k] =
                 RunRecord("publish", j, NotApplied("canceled"), k)
    <3> DEFINE r == RunRecord("publish", j, NotApplied("canceled"), run[d].killed)
    <3>1. [run[d] EXCEPT !.at = "publish", !.out = NotApplied("canceled")] = r
      BY <1>1, RunChanged
    <3>2. [run[d] EXCEPT !.at = "publish", !.out = NotApplied("canceled"), !.killed = k] =
            [[run[d] EXCEPT !.at = "publish", !.out = NotApplied("canceled")] EXCEPT !.killed = k]
      OBVIOUS
    <3>3. r \in Runs /\ r.at = "publish" /\ r.job = j /\ r.out = NotApplied("canceled")
      <4>1. NotApplied("canceled") \in Result
        BY NotAppliedIsResult, Literals
      <4> QED  BY <1>10, <4>1, RunBuilt
    <3> HIDE DEF r
    <3>4. [r EXCEPT !.killed = k] = RunRecord(r.at, r.job, r.out, k)
      BY <3>3, RunChanged
    <3> QED  BY <3>1, <3>2, <3>3, <3>4
  <2>3. run' = [run EXCEPT ![d] = RunRecord("publish", j, NotApplied("canceled"), TRUE)]
    BY <2>1, <2>2, Zenon
  <2>4. TRUE \in BOOLEAN /\ "canceled" \in {"canceled", "deadline"}
    OBVIOUS
  <2> QED  BY <1>4, <2>3, <2>4, Zenon
<1>7. CASE Live(j) /\ ~killed /\ Resuming(d)
  <2> DEFINE p   == Previous(d)
             out == [p EXCEPT !.err = ""]
             r   == RunRecord("observe", j, out, run[d].killed)
  <2>1. run' = [run EXCEPT ![d] = [run[d] EXCEPT !.at = "observe", !.out = out]]
    BY <1>7 DEF Start
  <2>2. prev[j] \in Caller /\ op[prev[j]].state = "done"
    <3>1. prev[j] # None
      BY <1>7 DEF Resuming
    <3> QED  BY <1>1, <3>1 DEF Prevs, Types, CallTypes
  <2>3. p \in Result
    BY <2>2, OpStates DEF Previous
  <2>4. /\ out = Outcome(p.action, p.conclusion, p.version, "")
        /\ p.action \in Action \ {""} /\ p.conclusion \in Conclusion /\ p.version \in Versions
    <3> HIDE DEF p
    <3> QED  BY <2>3, ResultFields, Literals
  <2>5. [run[d] EXCEPT !.at = "observe", !.out = out] = r
    <3> HIDE DEF out
    <3> QED  BY <1>1, RunChanged
  <2>6. out \in Result /\ out.action = p.action /\ out.version = p.version /\ out.err = ""
    <3>1. Outcome(p.action, p.conclusion, p.version, "") \in Result
      BY <2>4, Literals, OutcomeIsResult
    <3> HIDE DEF p, out
    <3> QED  BY <2>4, <3>1 DEF Outcome
  <2> HIDE DEF out
  <2>7. r \in Runs /\ r.at = "observe" /\ r.job = j /\ r.out = out
    <3>1. out \in Result
      BY <2>6
    <3> HIDE DEF p, j
    <3> QED  BY <1>10, <3>1, RunBuilt
  <2>8. Starts(d, "observe", out) /\ OwnError(d, out)
    BY <1>7, <2>6 DEF Starts, OwnError
  <2> HIDE DEF r
  <2>9. run' = [run EXCEPT ![d] = r]
    BY <2>1, <2>5
  <2> QED  BY <1>2, <1>3, <2>6, <2>7, <2>8, <2>9
<1>8. CASE Live(j) /\ ~killed /\ ~Resuming(d)
  <2> DEFINE r == RunRecord("inspect", j, run[d].out, run[d].killed)
  <2>1. run' = [run EXCEPT ![d] = [run[d] EXCEPT !.at = "inspect"]]
    BY <1>8 DEF Start
  <2>2. [run[d] EXCEPT !.at = "inspect"] = r
    BY <1>1, RunChanged
  <2>3. r \in Runs /\ r.at = "inspect" /\ r.job = j /\ r.out = run[d].out /\ run[d].out \in Result
    BY <1>1, <1>2, RunFields, RunBuilt
  <2>4. Starts(d, "inspect", run[d].out) /\ OwnError(d, run[d].out)
    BY <1>8 DEF Starts, OwnError
  <2> HIDE DEF r
  <2>5. run' = [run EXCEPT ![d] = r]
    BY <2>1, <2>2
  <2> QED  BY <1>2, <1>3, <2>3, <2>4, <2>5
<1> QED  BY <1>5, <1>6, <1>7, <1>8

-----------------------------------------------------------------------------
(* The replay cache as its own proofs know it *)

LEMMA SameHelpers ==
  /\ \A now : Cache!Retained(now) = CacheFacts!Retained(now)
  /\ \A table : Cache!Held(table) = CacheFacts!Held(table)
  /\ \A c, d : Cache!SameBinding(c, d) <=> CacheFacts!SameBinding(c, d)
  /\ \A c : Cache!ValidBinding(c) <=> CacheFacts!ValidBinding(c)
  /\ \A c : Cache!IsCompleted(c) <=> CacheFacts!IsCompleted(c)
  /\ \A c, o : Cache!Replaceable(c, o) <=> CacheFacts!Replaceable(c, o)
  /\ \A c, r : Cache!Leave(c, r) <=> CacheFacts!Leave(c, r)
  /\ \A c, o, n : Cache!WaitFor(c, o, n) <=> CacheFacts!WaitFor(c, o, n)
  /\ \A r : Cache!Returned(r) = CacheFacts!Returned(r)
  /\ \A f : Cache!Failed(f) = CacheFacts!Failed(f)
  /\ \A r : Cache!Completed(r) = CacheFacts!Completed(r)
  /\ Cache!Opened = CacheFacts!Opened
  /\ \A S : Cache!Cardinality(S) = CacheFacts!Cardinality(S)
BY DEF Cache!Retained, CacheFacts!Retained, Cache!Held, CacheFacts!Held,
       Cache!SameBinding, CacheFacts!SameBinding, Cache!ValidBinding, CacheFacts!ValidBinding,
       Cache!IsCompleted, CacheFacts!IsCompleted, Cache!Replaceable, CacheFacts!Replaceable,
       Cache!Leave, CacheFacts!Leave, Cache!WaitFor, CacheFacts!WaitFor,
       Cache!Returned, CacheFacts!Returned, Cache!Failed, CacheFacts!Failed,
       Cache!Completed, CacheFacts!Completed, Cache!Opened, CacheFacts!Opened,
       Cache!Cardinality, CacheFacts!Cardinality

LEMMA SameBind ==
  ASSUME NEW c \in Caller
  PROVE  /\ Cache!BindReadsClock(c) <=> CacheFacts!BindReadsClock(c)
         /\ Cache!BindInvalid(c) <=> CacheFacts!BindInvalid(c)
         /\ Cache!BindReused(c) <=> CacheFacts!BindReused(c)
         /\ Cache!BindShared(c) <=> CacheFacts!BindShared(c)
         /\ Cache!BindFull(c) <=> CacheFacts!BindFull(c)
         /\ Cache!BindNew(c) <=> CacheFacts!BindNew(c)
<1>1. /\ Cache!BindReadsClock(c) <=> CacheFacts!BindReadsClock(c)
      /\ Cache!BindInvalid(c) <=> CacheFacts!BindInvalid(c)
  BY SameHelpers DEF Cache!BindReadsClock, CacheFacts!BindReadsClock,
     Cache!BindInvalid, CacheFacts!BindInvalid
<1>2. Cache!BindReused(c) <=> CacheFacts!BindReused(c)
  BY SameHelpers DEF Cache!BindReused, CacheFacts!BindReused
<1>3. Cache!BindShared(c) <=> CacheFacts!BindShared(c)
  BY SameHelpers DEF Cache!BindShared, CacheFacts!BindShared
<1>4. Cache!BindFull(c) <=> CacheFacts!BindFull(c)
  BY SameHelpers DEF Cache!BindFull, CacheFacts!BindFull
<1>5. Cache!BindNew(c) <=> CacheFacts!BindNew(c)
  BY SameHelpers DEF Cache!BindNew, CacheFacts!BindNew
<1> QED  BY <1>1, <1>2, <1>3, <1>4, <1>5

LEMMA SameReplace ==
  ASSUME NEW c \in Caller
  PROVE  /\ Cache!MayReplace(c) <=> CacheFacts!MayReplace(c)
         /\ Cache!ReplaceReadsClock(c) <=> CacheFacts!ReplaceReadsClock(c)
         /\ Cache!ReplaceInvalid(c) <=> CacheFacts!ReplaceInvalid(c)
         /\ Cache!ReplaceUnknown(c) <=> CacheFacts!ReplaceUnknown(c)
         /\ Cache!ReplaceReused(c) <=> CacheFacts!ReplaceReused(c)
         /\ Cache!ReplaceShared(c) <=> CacheFacts!ReplaceShared(c)
         /\ Cache!ReplaceNew(c) <=> CacheFacts!ReplaceNew(c)
<1>1. Cache!MayReplace(c) <=> CacheFacts!MayReplace(c)
  BY SameHelpers DEF Cache!MayReplace, CacheFacts!MayReplace
<1>2. /\ Cache!ReplaceReadsClock(c) <=> CacheFacts!ReplaceReadsClock(c)
      /\ Cache!ReplaceInvalid(c) <=> CacheFacts!ReplaceInvalid(c)
  BY <1>1, SameHelpers DEF Cache!ReplaceReadsClock, CacheFacts!ReplaceReadsClock,
     Cache!ReplaceInvalid, CacheFacts!ReplaceInvalid
<1>3. Cache!ReplaceUnknown(c) <=> CacheFacts!ReplaceUnknown(c)
  BY SameHelpers DEF Cache!ReplaceUnknown, CacheFacts!ReplaceUnknown
<1>4. Cache!ReplaceReused(c) <=> CacheFacts!ReplaceReused(c)
  BY SameHelpers DEF Cache!ReplaceReused, CacheFacts!ReplaceReused
<1>5. Cache!ReplaceShared(c) <=> CacheFacts!ReplaceShared(c)
  BY SameHelpers DEF Cache!ReplaceShared, CacheFacts!ReplaceShared
<1>6. Cache!ReplaceNew(c) <=> CacheFacts!ReplaceNew(c)
  BY SameHelpers DEF Cache!ReplaceNew, CacheFacts!ReplaceNew
<1> QED  BY <1>1, <1>2, <1>3, <1>4, <1>5, <1>6

LEMMA SameOperation ==
  ASSUME NEW c \in Caller
  PROVE  /\ \A r : Cache!Complete(c, r) <=> CacheFacts!Complete(c, r)
         /\ Cache!Abandon(c) <=> CacheFacts!Abandon(c)
         /\ Cache!WaitReturns(c) <=> CacheFacts!WaitReturns(c)
BY SameHelpers DEF Cache!Complete, CacheFacts!Complete, Cache!Abandon, CacheFacts!Abandon,
   Cache!WaitReturns, CacheFacts!WaitReturns

LEMMA SameNext == [Cache!Next]_cacheVars => [CacheFacts!Next]_(CacheFacts!vars)
<1> SUFFICES ASSUME [Cache!Next]_cacheVars PROVE [CacheFacts!Next]_(CacheFacts!vars)
  OBVIOUS
<1>1. CASE UNCHANGED cacheVars
  BY <1>1 DEF cacheVars, CacheFacts!vars
<1>2. CASE Cache!Tick
  BY <1>2 DEF Cache!Tick, CacheFacts!Tick, CacheFacts!Next
<1>3. ASSUME NEW c \in Caller, Cache!CallerStep(c) \/ Cache!Abandon(c)
      PROVE  CacheFacts!Next
  <2>1. CacheFacts!CallerStep(c) \/ CacheFacts!Abandon(c)
    BY <1>3, SameBind, SameReplace, SameOperation
    DEF Cache!CallerStep, CacheFacts!CallerStep, Cache!Bind, CacheFacts!Bind,
        Cache!ReplaceCompleted, CacheFacts!ReplaceCompleted
  <2> QED  BY <2>1 DEF CacheFacts!Next
<1>4. ASSUME NEW c \in Caller, NEW r \in Result, Cache!Complete(c, r)
      PROVE  CacheFacts!Next
  BY <1>4, SameOperation DEF CacheFacts!Next
<1> QED  BY <1>1, <1>2, <1>3, <1>4 DEF Cache!Next

LEMMA SameInit == Cache!Init => CacheFacts!Init
BY DEF Cache!Init, CacheFacts!Init, Cache!Request, CacheFacts!Request,
       Cache!NoOperation, CacheFacts!NoOperation

-----------------------------------------------------------------------------
(* What the steps of a Deploy call do *)

(* A step of a call that neither creates, moves nor completes an operation.  *)
Quiet(c) ==
  /\ UNCHANGED <<clock, op, req, dockerVars, ctx, root, prev, dropped, workVars>>
  /\ stage' \in [Caller -> {"arrived", "refused", "authorised", "owner", "enqueued"}]
  /\ \A o \in Caller : stage[o] # stage'[o] =>
       stage[o] \notin {"owner", "enqueued"} /\ stage'[o] \notin {"owner", "enqueued"}

(* A call becomes the owner of a new operation, which replaces the completed *)
(* one it waited for, or takes a token that no retained operation holds.     *)
Creates(c) ==
  /\ op[c].state = "none"
  /\ op' = [op EXCEPT ![c] = Cache!Opened]
  /\ stage' = [stage EXCEPT ![c] = "owner"]
  /\ \/ prev' = prev /\ prev[c] = None /\ Cache!Retained(seen[c])[req[c].token] = None
     \/ /\ prev' = [prev EXCEPT ![c] = watch[c]] /\ pc[c] = "replace"
        /\ watch[c] \in Caller /\ watch[c] # c
        /\ op[watch[c]].state = "done" /\ req[watch[c]] = req[c]
        /\ Cache!Retained(seen[c])[req[c].token] = watch[c]
  /\ UNCHANGED <<clock, req, dockerVars, ctx, root, dropped, workVars>>

LEMMA CacheConsts == CacheFacts!CacheAssumption
BY CacheConfigured DEF Cache!CacheAssumption, CacheFacts!CacheAssumption,
   Cache!Request, CacheFacts!Request, Cache!Reply, CacheFacts!Reply, Cache!Returned, CacheFacts!Returned,
   Cache!Failed, CacheFacts!Failed, Cache!Failure, CacheFacts!Failure

LEMMA NotYetCreated ==
  ASSUME CacheFacts!Inv, Types, Prevs, NEW c \in Caller, pc[c] \in {"bind", "replace"}
  PROVE  op[c].state = "none" /\ prev[c] = None
<1>1. op[c].state = "none"
  BY DEF CacheFacts!Inv, CacheFacts!NotYetOwner, CacheFacts!Exists
<1> QED  BY <1>1 DEF Prevs

LEMMA BindNewCreates ==
  ASSUME Base, NEW c \in Caller, BindEnds(c), Cache!BindNew(c)
  PROVE  Creates(c)
<1>1. pc[c] = "bind" /\ Cache!Retained(seen[c])[req[c].token] = None
  BY DEF Cache!BindNew
<1>2. op[c].state = "none" /\ prev[c] = None
  BY <1>1, NotYetCreated DEF Base
<1>3. op' = [op EXCEPT ![c] = Cache!Opened] /\ UNCHANGED <<clock, req>>
  BY DEF Cache!BindNew
<1>4. ~(Cache!BindReused(c) \/ Cache!BindShared(c) \/ Cache!BindFull(c))
  <2>1. op' # op
    BY <1>2, <1>3, BaseTypes DEF Base, CacheTypes, Cache!Opened
  <2> QED  BY <2>1 DEF Cache!BindReused, Cache!BindShared, Cache!BindFull
<1>5. Advance(c, "owner")
  BY <1>4 DEF BindEnds
<1> QED  BY <1>1, <1>2, <1>3, <1>5 DEF BindEnds, Creates, Advance

LEMMA ReplaceNewCreates ==
  ASSUME Base, NEW c \in Caller, ReplaceEnds(c), Cache!ReplaceNew(c)
  PROVE  Creates(c)
<1>1. /\ pc[c] = "replace"
      /\ Cache!Retained(seen[c])[req[c].token] = watch[c] /\ watch[c] # None
      /\ op[watch[c]].state = "done"
  BY DEF Cache!ReplaceNew, Cache!Replaceable
<1>2. op[c].state = "none"
  BY <1>1, NotYetCreated DEF Base
<1>3. op' = [op EXCEPT ![c] = Cache!Opened] /\ UNCHANGED <<clock, req>>
  BY DEF Cache!ReplaceNew
<1>4. ~(Cache!ReplaceUnknown(c) \/ Cache!ReplaceReused(c) \/ Cache!ReplaceShared(c))
  <2>1. op' # op
    BY <1>2, <1>3, BaseTypes DEF Base, CacheTypes, Cache!Opened
  <2> QED  BY <2>1 DEF Cache!ReplaceUnknown, Cache!ReplaceReused, Cache!ReplaceShared
<1>5. Advance(c, "owner") /\ prev' = [prev EXCEPT ![c] = watch[c]]
  BY <1>4 DEF ReplaceEnds
<1>6. watch[c] \in Caller /\ req[watch[c]] = req[c]
  BY <1>1, BaseTypes DEF Base, CacheTypes, CacheFacts!Inv, CacheFacts!SharesOwnRequest
<1> QED  BY <1>1, <1>2, <1>3, <1>5, <1>6 DEF ReplaceEnds, Creates, Advance

LEMMA CallSteps ==
  ASSUME Base, NEW c \in Caller, Call(c)
  PROVE  Quiet(c) \/ Creates(c) \/ Enqueue(c) \/ EnqueueRefused(c)
<1>0. stage \in [Caller -> {"arrived", "refused", "authorised", "owner", "enqueued"}]
  BY DEF Base, Types, CallTypes
<1>1. CASE Enter(c) \/ EnterRefused(c)
  <2>1. stage[c] = "arrived"
    BY <1>1 DEF Enter, EnterRefused
  <2>2. PICK next \in {"authorised", "refused"} : stage' = [stage EXCEPT ![c] = next]
    BY <1>1 DEF Enter, EnterRefused, Advance
  <2>3. UNCHANGED <<clock, op, req, dockerVars, ctx, root, prev, dropped, workVars>>
    BY <1>1 DEF Enter, EnterRefused, cacheVars
  <2> QED  BY <1>0, <2>1, <2>2, <2>3 DEF Quiet
<1>2. CASE BindStarts(c)
  <2>1. UNCHANGED <<clock, op, req, dockerVars, ctx, root, callVars, workVars>>
    BY <1>2 DEF BindStarts, Cache!BindReadsClock, Cache!BindInvalid
  <2> QED  BY <1>0, <2>1 DEF Quiet, callVars
<1>3. CASE BindEnds(c)
  <2>1. CASE Cache!BindNew(c)
    BY <1>3, <2>1, BindNewCreates
  <2>2. CASE ~Cache!BindNew(c)
    <3>1. UNCHANGED <<clock, op, req, dockerVars, ctx, root, stage, prev, dropped, workVars>>
      BY <1>3, <2>2 DEF BindEnds, Cache!BindReused, Cache!BindShared, Cache!BindFull
    <3> QED  BY <1>0, <3>1 DEF Quiet
  <2> QED  BY <2>1, <2>2
<1>4. CASE WaitEnds(c)
  <2>1. UNCHANGED <<clock, op, req, dockerVars, ctx, root, callVars, workVars>>
    BY <1>4 DEF WaitEnds, Cache!WaitReturns, Cache!Abandon
  <2> QED  BY <1>0, <2>1 DEF Quiet, callVars
<1>5. CASE ReplaceStarts(c)
  <2>1. UNCHANGED <<clock, op, req, dockerVars, ctx, root, callVars, workVars>>
    BY <1>5 DEF ReplaceStarts, Cache!ReplaceReadsClock, Cache!ReplaceInvalid
  <2> QED  BY <1>0, <2>1 DEF Quiet, callVars
<1>6. CASE ReplaceEnds(c)
  <2>1. CASE Cache!ReplaceNew(c)
    BY <1>6, <2>1, ReplaceNewCreates
  <2>2. CASE ~Cache!ReplaceNew(c)
    <3>1. UNCHANGED <<clock, op, req, dockerVars, ctx, root, stage, prev, dropped, workVars>>
      BY <1>6, <2>2 DEF ReplaceEnds, Cache!ReplaceUnknown, Cache!ReplaceReused, Cache!ReplaceShared
    <3> QED  BY <1>0, <3>1 DEF Quiet
  <2> QED  BY <2>1, <2>2
<1> QED  BY <1>1, <1>2, <1>3, <1>4, <1>5, <1>6 DEF Call

(* Steps that complete an operation record a result, and an error of their   *)
(* own choice that means a full queue only where the queue is full.          *)
LEMMA Completions ==
  ASSUME Base
  PROVE  /\ \A c \in Caller : Enqueue(c) =>
              \/ UNCHANGED cacheVars
              \/ /\ Unexecuted(c, "queue_full") \in Result
                 /\ Cache!Complete(c, Unexecuted(c, "queue_full"))
         /\ \A c \in Caller : EnqueueRefused(c) =>
              \E e \in Error \ {"queue_full"} :
                Unexecuted(c, e) \in Result /\ Cache!Complete(c, Unexecuted(c, e))
         /\ \A c \in Caller : CompleteDropped(c) =>
              \E e \in Error \ {"queue_full"} :
                Unexecuted(c, e) \in Result /\ Cache!Complete(c, Unexecuted(c, e))
         /\ \A d \in Deployment : Publish(d) =>
              run[d].job \in Caller /\ run[d].out \in Result
<1>0. CacheTypes /\ Types /\ Prevs
  BY BaseTypes DEF Base
<1>1. ASSUME NEW c \in Caller, Enqueue(c)
      PROVE  \/ UNCHANGED cacheVars
             \/ /\ Unexecuted(c, "queue_full") \in Result
                /\ Cache!Complete(c, Unexecuted(c, "queue_full"))
  BY <1>0, <1>1, UnexecutedIsResult, Literals DEF Enqueue
<1>2. ASSUME NEW c \in Caller, EnqueueRefused(c)
      PROVE  \E e \in Error \ {"queue_full"} :
               Unexecuted(c, e) \in Result /\ Cache!Complete(c, Unexecuted(c, e))
  <2> DEFINE e == IF ~Live(c) THEN ctx[c] ELSE root
  <2>1. e \in {"canceled", "deadline"}
    BY <1>0, <1>2 DEF EnqueueRefused, Live, Types, CallTypes
  <2>2. e \in Error \ {"queue_full"}
    BY <2>1, Literals
  <2>3. Cache!Complete(c, Unexecuted(c, e))
    BY <1>2 DEF EnqueueRefused
  <2> HIDE DEF e
  <2> QED  BY <1>0, <2>2, <2>3, UnexecutedIsResult
<1>3. ASSUME NEW c \in Caller, CompleteDropped(c)
      PROVE  \E e \in Error \ {"queue_full"} :
               Unexecuted(c, e) \in Result /\ Cache!Complete(c, Unexecuted(c, e))
  <2>1. dropped[c] \in {"canceled", "deadline"}
    BY <1>0, <1>3 DEF CompleteDropped, Types, CallTypes
  <2>2. dropped[c] \in Error \ {"queue_full"}
    BY <2>1, Literals
  <2>3. Cache!Complete(c, Unexecuted(c, dropped[c]))
    BY <1>3 DEF CompleteDropped
  <2> QED  BY <1>0, <2>2, <2>3, UnexecutedIsResult
<1>4. ASSUME NEW d \in Deployment, Publish(d)
      PROVE  run[d].job \in Caller /\ run[d].out \in Result
  <2>1. run[d].at \notin Places3
    BY <1>4 DEF Publish, Places3
  <2> QED  BY <1>0, <2>1, JobAt, RunFields DEF Types, WorkerTypes
<1> QED  BY <1>1, <1>2, <1>3, <1>4

LEMMA CacheMoves == Base /\ [Next]_vars => [Cache!Next]_cacheVars
<1> SUFFICES ASSUME Base, [Next]_vars PROVE [Cache!Next]_cacheVars
  OBVIOUS
<1>1. CASE Tick
  BY <1>1 DEF Tick, Cache!Next
<1>2. CASE \/ DockerMoves \/ Shutdown \/ UNCHANGED vars
           \/ \E c \in Caller : RequestEnds(c) \/ Remove(c)
           \/ \E d \in Deployment : Loop(d) \/ Start(d) \/ Update(d) \/ Execute(d) \/ RootKills(d)
  <2>1. UNCHANGED cacheVars
    BY <1>2 DEF DockerMoves, Shutdown, vars, RequestEnds, Remove, Loop, WorkerStops, WorkerTakes,
       WorkerParks, WorkerWakes, Start, Update, RootKills, Execute, WorkerOnly,
       InspectFails, InspectFindsDesired, InspectFindsConflict, InspectFindsOther,
       UpdateAnswered, UpdateFails, ReinspectFindsDesired, ReinspectInconclusive,
       ObserveSettles, ObserveFails, ObserveEnds
  <2> QED  BY <2>1
<1>3. ASSUME NEW c \in Caller, Call(c)
      PROVE  [Cache!Next]_cacheVars
  <2>1. CASE Enter(c) \/ EnterRefused(c)
    BY <2>1 DEF Enter, EnterRefused
  <2>2. CASE BindStarts(c) \/ BindEnds(c) \/ WaitEnds(c) \/ ReplaceStarts(c) \/ ReplaceEnds(c)
    BY <2>2 DEF BindStarts, BindEnds, WaitEnds, ReplaceStarts, ReplaceEnds, Cache!Next,
       Cache!CallerStep, Cache!Bind, Cache!ReplaceCompleted
  <2>3. CASE Enqueue(c) \/ EnqueueRefused(c)
    BY <2>3, Completions DEF Cache!Next
  <2> QED  BY <1>3, <2>1, <2>2, <2>3 DEF Call
<1>4. ASSUME NEW c \in Caller, CompleteDropped(c)
      PROVE  [Cache!Next]_cacheVars
  BY <1>4, Completions DEF Cache!Next
<1>5. ASSUME NEW d \in Deployment, Publish(d)
      PROVE  [Cache!Next]_cacheVars
  BY <1>5, Completions DEF Publish, Cache!Next
<1> QED  BY <1>1, <1>2, <1>3, <1>4, <1>5 DEF Next

LEMMA CacheInvStep == Base /\ [Next]_vars => CacheFacts!Inv'
BY CacheMoves, SameNext, CacheConsts, CacheFacts!InvNext DEF Base

-----------------------------------------------------------------------------
(* Types are preserved *)

LEMMA AcceptsGrow ==
  ASSUME NEW c \in Caller, DockerTypes, wire' \in [Caller -> Wires],
         wire[c].state # "accepted", wire'[c].state = "accepted",
         \A o \in Caller : o # c => wire'[o] = wire[o]
  PROVE  Cardinality(Accepts') = Cardinality(Accepts) + 1 /\ Cardinality(Accepts) \in Nat
<1>1. IsFiniteSet(Accepts)
  BY Constants, FS_Subset DEF Accepts
<1>2. Accepts' = Accepts \cup {c} /\ c \notin Accepts
  BY DEF Accepts
<1> QED  BY <1>1, <1>2, FS_AddElement, FS_CardinalityType

LEMMA AcceptsSame ==
  ASSUME NEW c \in Caller, wire[c].state = "accepted" <=> wire'[c].state = "accepted",
         \A o \in Caller : o # c => wire'[o] = wire[o]
  PROVE  Accepts' = Accepts
BY DEF Accepts

(* The updates: what becomes of one, and of the service.                     *)
LEMMA SettleStep ==
  ASSUME DockerTypes, NEW c \in Caller, NEW fate \in {"accepted", "conflict", "rejected"},
         wire[c].state = "sent", Docker!Settle(c, fate)
  PROVE  /\ wire' \in [Caller -> Wires]
         /\ \A o \in Caller : o # c => wire'[o] = wire[o]
         /\ wire'[c].state = fate
         /\ wire'[c].service = wire[c].service /\ wire'[c].version = wire[c].version
         /\ wire'[c].image = wire[c].image
         /\ wire[c].service \in Service /\ wire[c].version \in Versions /\ wire[c].image \in Image
         /\ wire'[c] # Docker!Unsent
<1>1. wire[c] \in [state : Docker!Fate, service : Service, version : Versions, image : Image]
  BY DEF DockerTypes, Wires, Docker!Unsent
<1>2. wire' = [wire EXCEPT ![c] = [wire[c] EXCEPT !.state = fate]]
  BY DEF Docker!Settle
<1>3. fate \in Docker!Fate
  BY DEF Docker!Fate
<1> DEFINE w == [wire[c] EXCEPT !.state = fate]
<1>4. /\ w \in [state : Docker!Fate, service : Service, version : Versions, image : Image]
      /\ w.state = fate /\ w.service = wire[c].service
      /\ w.version = wire[c].version /\ w.image = wire[c].image
  BY <1>1, <1>3
<1> HIDE DEF w
<1>5. w # Docker!Unsent
  BY <1>4 DEF Docker!Unsent
<1>6. wire' = [wire EXCEPT ![c] = w] /\ wire \in [Caller -> Wires] /\ w \in Wires
  BY <1>2, <1>4 DEF w, DockerTypes, Wires
<1> QED  BY <1>1, <1>4, <1>5, <1>6

LEMMA DockerTypesMoves ==
  ASSUME DockerTypes, Docker!DockerNext PROVE DockerTypes'
<1>0. /\ svc \in [Service -> [version : Nat \ {0}, image : Image]]
      /\ \A s \in Service : svc[s].version <= MaxVersion + Cardinality(Accepts)
      /\ wire \in [Caller -> Wires] /\ MaxVersion \in Nat
  BY Constants DEF DockerTypes
<1>1. ASSUME NEW c \in Caller, Docker!Accept(c)
      PROVE  DockerTypes'
  <2> DEFINE s == wire[c].service
             new == [version |-> svc[s].version + 1, image |-> wire[c].image]
  <2>1. wire[c].state = "sent" /\ Docker!Settle(c, "accepted")
    BY <1>1 DEF Docker!Accept
  <2>2. /\ wire' \in [Caller -> Wires] /\ wire'[c].state = "accepted"
        /\ \A o \in Caller : o # c => wire'[o] = wire[o]
        /\ s \in Service /\ wire[c].image \in Image
    BY <2>1, SettleStep
  <2>3. svc' = [svc EXCEPT ![s] = new]
    BY <1>1 DEF Docker!Accept
  <2>4. Cardinality(Accepts') = Cardinality(Accepts) + 1 /\ Cardinality(Accepts) \in Nat
    BY <2>1, <2>2, AcceptsGrow
  <2>5. svc[s].version \in Nat \ {0} /\ new \in [version : Nat \ {0}, image : Image]
        /\ new.version = svc[s].version + 1
    BY <1>0, <2>2
  <2> HIDE DEF new, s
  <2>6. svc' \in [Service -> [version : Nat \ {0}, image : Image]]
    BY <1>0, <2>2, <2>3, <2>5
  <2>7. \A t \in Service : svc'[t] = IF t = s THEN new ELSE svc[t]
    BY <1>0, <2>3
  <2>8. \A t \in Service : svc'[t].version <= MaxVersion + Cardinality(Accepts')
    <3> SUFFICES ASSUME NEW t \in Service
                 PROVE  svc'[t].version <= MaxVersion + Cardinality(Accepts')
      OBVIOUS
    <3>1. svc[t].version \in Nat /\ svc[t].version <= MaxVersion + Cardinality(Accepts)
          /\ svc[s].version <= MaxVersion + Cardinality(Accepts)
      BY <1>0, <2>2
    <3> QED  BY <1>0, <2>4, <2>5, <2>7, <3>1
  <2> QED  BY <2>2, <2>6, <2>8 DEF DockerTypes
<1>2. ASSUME NEW c \in Caller, Docker!Conflict(c) \/ Docker!Reject(c)
      PROVE  DockerTypes'
  <2>1. PICK fate \in {"conflict", "rejected"} : wire[c].state = "sent" /\ Docker!Settle(c, fate)
    BY <1>2 DEF Docker!Conflict, Docker!Reject
  <2>2. UNCHANGED svc
    BY <1>2 DEF Docker!Conflict, Docker!Reject
  <2>3. /\ wire' \in [Caller -> Wires] /\ wire'[c].state = fate
        /\ \A o \in Caller : o # c => wire'[o] = wire[o]
    BY <2>1, SettleStep
  <2>4. Accepts' = Accepts
    BY <2>1, <2>3, AcceptsSame
  <2> QED  BY <1>0, <2>2, <2>3, <2>4 DEF DockerTypes
<1>3. ASSUME NEW s \in Service, Docker!ChangedByOthers(s)
      PROVE  DockerTypes'
  <2>1. PICK image \in Image :
          svc' = [svc EXCEPT ![s] = [version |-> svc[s].version + 1, image |-> image]]
    BY <1>3 DEF Docker!ChangedByOthers
  <2>2. svc[s].version < MaxVersion /\ UNCHANGED wire
    BY <1>3 DEF Docker!ChangedByOthers
  <2>3. Accepts' = Accepts
    BY <2>2 DEF Accepts
  <2>4. Cardinality(Accepts) \in Nat
    BY Constants, FS_Subset, FS_CardinalityType DEF Accepts
  <2> DEFINE new == [version |-> svc[s].version + 1, image |-> image]
  <2>5. svc[s].version \in Nat \ {0} /\ new \in [version : Nat \ {0}, image : Image]
        /\ new.version = svc[s].version + 1
    BY <1>0
  <2>6. svc' = [svc EXCEPT ![s] = new]
    BY <2>1
  <2> HIDE DEF new
  <2>7. svc' \in [Service -> [version : Nat \ {0}, image : Image]]
    BY <1>0, <2>5, <2>6
  <2>8. \A t \in Service : svc'[t].version <= MaxVersion + Cardinality(Accepts)
    BY <1>0, <2>2, <2>4, <2>5, <2>6
  <2> QED  BY <1>0, <2>2, <2>3, <2>7, <2>8 DEF DockerTypes
<1> QED  BY <1>1, <1>2, <1>3 DEF Docker!DockerNext

(* A worker's submission.                                                    *)
Submits(d) ==
  /\ run[d].at = "update" /\ run[d].job \in Caller
  /\ wire[run[d].job] = Docker!Unsent
  /\ wire' \in [Caller -> Wires]
  /\ \A o \in Caller : o # run[d].job => wire'[o] = wire[o]
  /\ LET w == wire'[run[d].job] IN
       /\ w # Docker!Unsent /\ w.state = "sent" /\ w.service = ServiceOf[d]
       /\ w.version = run[d].out.version /\ w.image = req[run[d].job].digest
  /\ RunsTo(d, "reply", run[d].job, run[d].out)
  /\ UNCHANGED <<svc, cacheVars, ctx, root, callVars, queue, wake>>

LEMMA SubmitMoves ==
  ASSUME Base, NEW d \in Deployment, Update(d)
  PROVE  Submits(d) /\ DockerTypes'
<1>0. CacheTypes /\ Types
  BY BaseTypes DEF Base
<1> DEFINE j == run[d].job
           w == Docker!Sent(ServiceOf[d], run[d].out.version, req[j].digest, "sent")
<1>1. run[d].at = "update" /\ j # None /\ j \in Caller /\ run[d].out.version \in Versions
  BY <1>0, JobAt, RunFields, ResultFields DEF Update, Places3, Types, WorkerTypes
<1>2. wire[j] = Docker!Unsent /\ wire' = [wire EXCEPT ![j] = w] /\ UNCHANGED svc
  BY DEF Update, Docker!Submit, Job, InspectedVersion, Desired
<1>3. req[j] \in CacheFacts!Request /\ ServiceOf[d] \in Service
  BY <1>0, <1>1, Constants DEF CacheTypes
<1>4. /\ w \in [state : Docker!Fate, service : Service, version : Versions, image : Image]
      /\ w.state = "sent" /\ w.service = ServiceOf[d] /\ w.version = run[d].out.version
      /\ w.image = req[j].digest
  BY <1>1, <1>3 DEF Docker!Sent, Docker!Fate, Image, CacheFacts!Request
<1> HIDE DEF w
<1>5. w # Docker!Unsent /\ w \in Wires
  BY <1>4 DEF Docker!Unsent, Wires
<1>6. /\ wire' \in [Caller -> Wires] /\ wire'[j] = w
      /\ \A o \in Caller : o # j => wire'[o] = wire[o]
  BY <1>0, <1>1, <1>2, <1>5 DEF Types, DockerTypes
<1>7. Accepts' = Accepts
  <2>1. wire[j].state # "accepted"
    BY <1>2 DEF Docker!Unsent
  <2> QED  BY <1>1, <1>4, <1>6, <2>1, AcceptsSame
<1>8. DockerTypes'
  BY <1>0, <1>2, <1>6, <1>7 DEF Types, DockerTypes
<1>9. RunsTo(d, "reply", j, run[d].out)
  <2>1. "reply" \in At /\ "reply" \notin Places3
    BY DEF At, Places3
  <2> QED  BY <1>0, <1>1, <2>1, GotoStep DEF Update, Types
<1> QED  BY <1>1, <1>2, <1>4, <1>5, <1>6, <1>8, <1>9 DEF Submits, Update

LEMMA IdleFacts ==
  /\ Idle \in Runs /\ Idle.at = "next" /\ Idle.job = None /\ Idle.out = NotApplied("")
  /\ \A c \in Caller : LET r == [Idle EXCEPT !.at = "start", !.job = c]
                       IN  r \in Runs /\ r.at = "start" /\ r.job = c /\ r.out = NotApplied("")
  /\ NotApplied("").action = "not_applied" /\ NotApplied("").err = ""
<1>1. NotApplied("") \in Result
  BY Literals, NotAppliedIsResult
<1>2. NotApplied("").action = "not_applied" /\ NotApplied("").err = ""
  BY DEF NotApplied, Outcome
<1>3. "next" \in At /\ "start" \in At
  BY DEF At, Places3
<1>4. ASSUME NEW b \in BOOLEAN
      PROVE  /\ RunRecord("next", None, NotApplied(""), b) \in Runs
             /\ RunRecord("next", None, NotApplied(""), b).at = "next"
             /\ RunRecord("next", None, NotApplied(""), b).job = None
             /\ RunRecord("next", None, NotApplied(""), b).out = NotApplied("")
  <2>1. RunRecord("next", None, NotApplied(""), b) \in Runs
    BY <1>1, <1>3, RunBuilt
  <2> QED  BY <2>1 DEF RunRecord
<1>5. Idle = RunRecord("next", None, NotApplied(""), FALSE)
  BY DEF Idle, RunRecord
<1>6. FALSE \in BOOLEAN
  OBVIOUS
<1>7. Idle \in Runs /\ Idle.at = "next" /\ Idle.job = None /\ Idle.out = NotApplied("")
  BY <1>4, <1>5, <1>6, Zenon
<1>8. ASSUME NEW c \in Caller, NEW r, r = [Idle EXCEPT !.at = "start", !.job = c]
      PROVE  r \in Runs /\ r.at = "start" /\ r.job = c /\ r.out = NotApplied("")
  <2> DEFINE s == [Idle EXCEPT !.at = "start"]
  <2>1. r = [s EXCEPT !.job = c]
    BY <1>8
  <2>2. s = RunRecord("start", Idle.job, Idle.out, Idle.killed)
    BY <1>7, RunChanged
  <2> HIDE DEF s
  <2>3. /\ s = [at |-> s.at, job |-> s.job, out |-> s.out, killed |-> s.killed]
        /\ s.at = "start" /\ s.out = Idle.out /\ s.killed = Idle.killed
    BY <2>2 DEF RunRecord
  <2>4. [s EXCEPT !.job = c] = [at |-> s.at, job |-> c, out |-> s.out, killed |-> s.killed]
    BY <2>3
  <2>5. r = RunRecord("start", c, Idle.out, Idle.killed)
    BY <1>7, <2>1, <2>3, <2>4 DEF RunRecord
  <2>6. Idle.killed \in BOOLEAN
    BY <1>7, RunFields
  <2>7. Idle.out \in Result /\ c \in Caller \cup {None}
    BY <1>1, <1>7
  <2>8. r \in Runs
    BY <1>3, <2>5, <2>6, <2>7, RunBuilt
  <2> QED  BY <1>7, <2>5, <2>8 DEF RunRecord
<1> QED  BY <1>2, <1>7, <1>8, Zenon

LEMMA LoopMoves ==
  ASSUME Base, NEW d \in Deployment
  PROVE  /\ WorkerStops(d) => RunsTo(d, "stopped", None, run[d].out) /\ run[d].job = None
         /\ WorkerParks(d) => RunsTo(d, "parked", None, run[d].out) /\ run[d].job = None
         /\ WorkerWakes(d) => RunsTo(d, "next", None, run[d].out) /\ run[d].job = None
         /\ RootKills(d) => RunsTo(d, run[d].at, run[d].job, run[d].out)
         /\ WorkerTakes(d) => /\ RunsTo(d, "start", Head(queue[d]), NotApplied(""))
                              /\ run[d].job = None /\ Head(queue[d]) \in Caller
         /\ Publish(d) => /\ RunsTo(d, "next", None, NotApplied(""))
                          /\ run[d].job \in Caller /\ run[d].out \in Result
<1>0. WorkerTypes /\ queue \in [Deployment -> Seq(Caller)]
  BY DEF Base, Types, CallTypes
<1>1. "stopped" \in At /\ "parked" \in At /\ "next" \in At /\ Places3 = {"next", "parked", "stopped"}
  BY DEF At, Places3
<1>2. ASSUME NEW at \in Places3, run[d].at \in Places3, Goto(d, at)
      PROVE  RunsTo(d, at, None, run[d].out) /\ run[d].job = None
  <2>1. run[d].job = None
    BY <1>0, <1>2 DEF WorkerTypes
  <2> QED  BY <1>0, <1>1, <1>2, <2>1, GotoStep
<1>3. WorkerStops(d) => RunsTo(d, "stopped", None, run[d].out) /\ run[d].job = None
  BY <1>1, <1>2 DEF WorkerStops
<1>4. WorkerParks(d) => RunsTo(d, "parked", None, run[d].out) /\ run[d].job = None
  BY <1>1, <1>2 DEF WorkerParks
<1>5. WorkerWakes(d) => RunsTo(d, "next", None, run[d].out) /\ run[d].job = None
  BY <1>1, <1>2 DEF WorkerWakes
<1>6. RootKills(d) => RunsTo(d, run[d].at, run[d].job, run[d].out)
  BY <1>0, KillStep DEF RootKills
<1>7. ASSUME WorkerTakes(d)
      PROVE  /\ RunsTo(d, "start", Head(queue[d]), NotApplied(""))
             /\ run[d].job = None /\ Head(queue[d]) \in Caller
  <2> DEFINE h == Head(queue[d])
             r == [Idle EXCEPT !.at = "start", !.job = h]
  <2>1. h \in Caller
    BY <1>0, <1>7 DEF WorkerTakes
  <2>2. run' = [run EXCEPT ![d] = r]
    BY <1>7 DEF WorkerTakes
  <2>3. "start" \notin Places3 /\ h # None
    BY <2>1, Constants DEF Places3
  <2>4. r \in Runs /\ r.at = "start" /\ r.job = h /\ r.out = NotApplied("")
    <3> HIDE DEF h
    <3> QED  BY <2>1, IdleFacts
  <2>5. run[d].job = None
    BY <1>0, <1>1, <1>7 DEF WorkerTakes, WorkerTypes
  <2> HIDE DEF h, r
  <2>6. RunsTo(d, r.at, r.job, r.out)
    BY <1>0, <2>2, <2>3, <2>4, RunSet
  <2> QED  BY <2>1, <2>4, <2>5, <2>6 DEF h
<1>8. ASSUME Publish(d)
      PROVE  /\ RunsTo(d, "next", None, NotApplied(""))
             /\ run[d].job \in Caller /\ run[d].out \in Result
  <2>1. run' = [run EXCEPT ![d] = Idle]
    BY <1>8 DEF Publish
  <2>2. RunsTo(d, Idle.at, Idle.job, Idle.out)
    BY <1>0, <1>1, <2>1, IdleFacts, RunSet
  <2> QED  BY <1>8, <2>2, IdleFacts, Completions
<1> QED  BY <1>3, <1>4, <1>5, <1>6, <1>7, <1>8

(* Steps that change nothing but the clock and the contexts.                 *)
Aside ==
  /\ UNCHANGED <<op, req, dockerVars, callVars, workVars>>
  /\ ctx' \in [Caller -> {"live", "canceled", "deadline"}]
  /\ root' \in {"live", "canceled"}
  /\ \A c \in Caller : ctx[c] # "live" => ctx'[c] # "live"
  /\ root # "live" => root' = root

LEMMA AsideSteps ==
  ASSUME Base, \/ Tick \/ Shutdown \/ UNCHANGED vars
               \/ \E c \in Caller : RequestEnds(c)
  PROVE  Aside
<1>0. ctx \in [Caller -> {"live", "canceled", "deadline"}] /\ root \in {"live", "canceled"}
  BY DEF Base, Types, CallTypes
<1>1. CASE Tick
  BY <1>0, <1>1 DEF Tick, Cache!Tick, Aside
<1>2. CASE Shutdown
  BY <1>0, <1>2, CoordinatorAssumption DEF Shutdown, Aside, cacheVars
<1>3. CASE UNCHANGED vars
  BY <1>0, <1>3 DEF vars, Aside, cacheVars
<1>4. ASSUME NEW c \in Caller, RequestEnds(c)
      PROVE  Aside
  <2>1. PICK err \in {"canceled", "deadline"} : ctx' = [ctx EXCEPT ![c] = err]
    BY <1>4, CoordinatorAssumption DEF RequestEnds
  <2>2. ctx' \in [Caller -> {"live", "canceled", "deadline"}]
    BY <1>0, <2>1
  <2>3. \A o \in Caller : ctx[o] # "live" => ctx'[o] # "live"
    BY <1>0, <2>1
  <2> QED  BY <1>0, <1>4, <2>2, <2>3 DEF RequestEnds, Aside, cacheVars
<1> QED  BY <1>1, <1>2, <1>3, <1>4

(* A worker's step between taking a job and its outcome.                     *)
Works(d) ==
  \E at \in At \ Places3, out \in Result :
    /\ Moves(d, at, out)
    /\ (run[d].at = "start" /\ Starts(d, at, out)) \/ Executes(d, at, out)
    /\ OwnError(d, out)
    /\ UNCHANGED dockerVars

LEMMA Steps ==
  ASSUME Base, [Next]_vars
  PROVE  \/ Aside
         \/ DockerMoves
         \/ \E c \in Caller : \/ Quiet(c) \/ Creates(c) \/ Enqueue(c) \/ EnqueueRefused(c)
                              \/ Remove(c) \/ CompleteDropped(c)
         \/ \E d \in Deployment : Loop(d) \/ RootKills(d) \/ Submits(d) \/ Works(d) \/ Publish(d)
<1>1. ASSUME NEW d \in Deployment, Start(d)
      PROVE  Works(d)
  <2>1. run[d].at = "start"
    BY <1>1 DEF Start
  <2> QED  BY <1>1, <2>1, BaseTypes, StartMoves DEF Base, Works
<1>2. ASSUME NEW d \in Deployment, Execute(d)
      PROVE  Works(d)
  BY <1>2, ExecuteMoves DEF Base, Works
<1> QED  BY <1>1, <1>2, AsideSteps, CallSteps, SubmitMoves DEF Next

LiveCalls == {c \in Caller : Live(c)}

LEMMA WaitingFacts ==
  ASSUME Types, NEW d \in Deployment
  PROVE  /\ queue[d] \in Seq(Caller) /\ Waiting(d) \in Seq(Caller)
         /\ Len(Waiting(d)) = Cardinality({i \in DOMAIN queue[d] : queue[d][i] \in LiveCalls})
         /\ Len(Waiting(d)) <= Len(queue[d])
         /\ \A n \in DOMAIN Waiting(d) :
              /\ Waiting(d)[n] \in LiveCalls
              /\ \E i \in DOMAIN queue[d] : queue[d][i] = Waiting(d)[n]
         /\ \A i \in DOMAIN queue[d] : queue[d][i] \in LiveCalls =>
              \E n \in DOMAIN Waiting(d) : Waiting(d)[n] = queue[d][i]
         /\ Injective(queue[d]) => Injective(Waiting(d))
<1>1. queue[d] \in Seq(Caller) /\ LiveCalls \in SUBSET Caller
  BY DEF Types, CallTypes, LiveCalls
<1>2. Waiting(d) = Keep(queue[d], LiveCalls)
  BY DEF Waiting, LiveCalls
<1> DEFINE jobs == queue[d]
<1> HIDE DEF jobs
<1>3. /\ Keep(jobs, LiveCalls) \in Seq(Caller)
      /\ Len(Keep(jobs, LiveCalls)) = Cardinality({i \in DOMAIN jobs : jobs[i] \in LiveCalls})
      /\ Len(Keep(jobs, LiveCalls)) <= Len(jobs)
      /\ \A n \in DOMAIN Keep(jobs, LiveCalls) :
           /\ Keep(jobs, LiveCalls)[n] \in LiveCalls
           /\ \E i \in DOMAIN jobs : jobs[i] = Keep(jobs, LiveCalls)[n]
      /\ \A i \in DOMAIN jobs : jobs[i] \in LiveCalls =>
           \E n \in DOMAIN Keep(jobs, LiveCalls) : Keep(jobs, LiveCalls)[n] = jobs[i]
      /\ Injective(jobs) => Injective(Keep(jobs, LiveCalls))
  <2>1. jobs \in Seq(Caller)
    BY <1>1 DEF jobs
  <2> QED  BY <1>1, <2>1, KeepFacts
<1>4. Keep(jobs, LiveCalls) = Waiting(d)
  BY <1>2 DEF jobs
<1> HIDE DEF Waiting
<1> QED  BY <1>1, <1>3, <1>4 DEF jobs

LEMMA DropTypes ==
  ASSUME Types, NEW jobs, NEW err, Drop(jobs, err),
         \A c \in Caller : c \in jobs => err[c] \in {"canceled", "deadline"}
  PROVE  dropped' \in [Caller -> {"", "canceled", "deadline"}]
BY DEF Drop, Types, CallTypes

LEMMA CancelledErrors ==
  ASSUME Types, NEW c \in Caller, ~Live(c)
  PROVE  ctx[c] \in {"canceled", "deadline"}
BY DEF Types, CallTypes, Live

LEMMA EnqueueTypes ==
  ASSUME Base, NEW c \in Caller, Enqueue(c)
  PROVE  Types'
<1> DEFINE d == req[c].deployment
<1>0. CacheTypes /\ Types
  BY BaseTypes DEF Base
<1>1. d \in Deployment
  BY <1>0 DEF CacheTypes, CacheFacts!Request
<1>2. Waiting(d) \in Seq(Caller) /\ Append(Waiting(d), c) \in Seq(Caller)
  <2>1. Waiting(d) \in Seq(Caller)
    BY <1>0, <1>1, WaitingFacts
  <2> QED  BY <2>1, AppendProperties
<1>3. queue' \in [Deployment -> Seq(Caller)] /\ wake' \in [Deployment -> BOOLEAN]
  <2>0. queue \in [Deployment -> Seq(Caller)] /\ wake \in [Deployment -> BOOLEAN]
    BY <1>0 DEF Types, CallTypes
  <2>1. /\ \/ queue' = [queue EXCEPT ![d] = Append(Waiting(d), c)]
           \/ queue' = [queue EXCEPT ![d] = Waiting(d)]
        /\ wake' = wake \/ wake' = [wake EXCEPT ![d] = TRUE]
    BY DEF Enqueue
  <2> HIDE DEF d
  <2> QED  BY <1>1, <1>2, <2>0, <2>1
<1>4. dropped' \in [Caller -> {"", "canceled", "deadline"}]
  <2>1. Drop(Cancelled(d), ctx)
    BY DEF Enqueue
  <2>2. \A o \in Caller : o \in Cancelled(d) => ctx[o] \in {"canceled", "deadline"}
    BY <1>0, CancelledErrors DEF Cancelled
  <2> QED  BY <1>0, <2>1, <2>2, DropTypes
<1>5. stage' \in [Caller -> {"arrived", "refused", "authorised", "owner", "enqueued"}]
  BY <1>0 DEF Enqueue, Advance, Types, CallTypes
<1>6. UNCHANGED <<dockerVars, ctx, root, prev, run>>
  BY DEF Enqueue
<1> QED  BY <1>0, <1>3, <1>4, <1>5, <1>6
         DEF Types, CallTypes, DockerTypes, WorkerTypes, Accepts, dockerVars

LEMMA RemoveTypes ==
  ASSUME Base, NEW c \in Caller, Remove(c)
  PROVE  Types'
<1> DEFINE d == req[c].deployment
<1>0. CacheTypes /\ Types
  BY BaseTypes DEF Base
<1>1. d \in Deployment
  BY <1>0 DEF CacheTypes, CacheFacts!Request
<1>2. queue[d] \in Seq(Caller) /\ Keep(queue[d], Caller \ {c}) \in Seq(Caller)
  <2>1. queue[d] \in Seq(Caller) /\ (Caller \ {c}) \in SUBSET Caller
    BY <1>0, <1>1 DEF Types, CallTypes
  <2> QED  BY <2>1, KeepFacts
<1>3. queue' \in [Deployment -> Seq(Caller)]
  <2>1. queue' = [queue EXCEPT ![d] = Keep(queue[d], Caller \ {c})]
    BY DEF Remove
  <2> HIDE DEF d
  <2> QED  BY <1>0, <1>2, <2>1 DEF Types, CallTypes
<1>4. dropped' \in [Caller -> {"", "canceled", "deadline"}]
  <2>1. Drop({c}, ctx) /\ ~Live(c)
    BY DEF Remove, Cancelled
  <2>2. \A o \in Caller : o \in {c} => ctx[o] \in {"canceled", "deadline"}
    BY <1>0, <2>1, CancelledErrors
  <2> QED  BY <1>0, <2>1, <2>2, DropTypes
<1>5. UNCHANGED <<dockerVars, ctx, root, stage, prev, wake, run>>
  BY DEF Remove
<1> QED  BY <1>0, <1>3, <1>4, <1>5
         DEF Types, CallTypes, DockerTypes, WorkerTypes, Accepts, dockerVars

LEMMA LoopTypes ==
  ASSUME Base, NEW d \in Deployment, Loop(d) \/ RootKills(d) \/ Publish(d)
  PROVE  Types'
<1>0. Types /\ queue \in [Deployment -> Seq(Caller)] /\ wake \in [Deployment -> BOOLEAN]
  BY DEF Base, Types, CallTypes
<1>1. WorkerTypes'
  BY LoopMoves DEF RunsTo, Loop
<1>2. UNCHANGED <<dockerVars, ctx, root, stage, prev>>
  BY DEF Loop, WorkerStops, WorkerTakes, WorkerParks, WorkerWakes, RootKills, Publish, callVars
<1>3. queue' \in [Deployment -> Seq(Caller)]
  <2>1. CASE WorkerTakes(d)
    <3>1. queue[d] \in Seq(Caller) /\ queue[d] # <<>>
      BY <1>0, <2>1 DEF WorkerTakes
    <3>2. Tail(queue[d]) \in Seq(Caller)
      BY <3>1, HeadTailProperties
    <3> QED  BY <1>0, <2>1, <3>2 DEF WorkerTakes
  <2>2. CASE WorkerStops(d)
    BY <1>0, <2>2 DEF WorkerStops
  <2>3. CASE WorkerParks(d) \/ WorkerWakes(d) \/ RootKills(d) \/ Publish(d)
    BY <1>0, <2>3 DEF WorkerParks, WorkerWakes, RootKills, Publish
  <2> QED  BY <2>1, <2>2, <2>3 DEF Loop
<1>4. dropped' \in [Caller -> {"", "canceled", "deadline"}]
  <2>1. CASE WorkerStops(d)
    <3>1. Drop({queue[d][i] : i \in DOMAIN queue[d]}, [c \in Caller |-> root]) /\ root = "canceled"
      BY <1>0, <2>1 DEF WorkerStops, Types, CallTypes
    <3> DEFINE err == [c \in Caller |-> root]
    <3>2. \A c \in Caller : err[c] \in {"canceled", "deadline"}
      BY <3>1
    <3> HIDE DEF err
    <3>3. Drop({queue[d][i] : i \in DOMAIN queue[d]}, err)
      BY <3>1 DEF err
    <3> QED  BY <1>0, <3>2, <3>3, DropTypes
  <2>2. CASE ~WorkerStops(d)
    BY <1>0, <2>2 DEF Loop, WorkerTakes, WorkerParks, WorkerWakes, RootKills, Publish, callVars,
                      Types, CallTypes
  <2> QED  BY <2>1, <2>2
<1>5. wake' \in [Deployment -> BOOLEAN]
  <2>1. wake' = wake \/ wake' = [wake EXCEPT ![d] = FALSE]
    BY DEF Loop, WorkerStops, WorkerTakes, WorkerParks, WorkerWakes, RootKills, Publish
  <2> QED  BY <1>0, <2>1
<1> QED  BY <1>0, <1>1, <1>2, <1>3, <1>4, <1>5 DEF Types, CallTypes, DockerTypes, Accepts, dockerVars

LEMMA TypesStep == Base /\ [Next]_vars => Types'
<1> SUFFICES ASSUME Base, [Next]_vars PROVE Types'
  OBVIOUS
<1>0. CacheTypes /\ Types
  BY BaseTypes DEF Base
<1>1. CASE Aside
  BY <1>0, <1>1 DEF Aside, Types, CallTypes, DockerTypes, WorkerTypes, Accepts,
                    dockerVars, callVars, workVars
<1>2. CASE DockerMoves
  BY <1>0, <1>2, DockerTypesMoves DEF DockerMoves, Types, CallTypes, WorkerTypes, callVars, workVars
<1>3. ASSUME NEW c \in Caller, Quiet(c)
      PROVE  Types'
  BY <1>0, <1>3 DEF Quiet, Types, CallTypes, DockerTypes, WorkerTypes, Accepts, dockerVars, workVars
<1>4. ASSUME NEW c \in Caller, Creates(c)
      PROVE  Types'
  <2>1. /\ stage' \in [Caller -> {"arrived", "refused", "authorised", "owner", "enqueued"}]
        /\ prev' \in [Caller -> Caller \cup {None}]
    BY <1>0, <1>4 DEF Creates, Types, CallTypes
  <2>2. UNCHANGED <<dockerVars, ctx, root, dropped, workVars>>
    BY <1>4 DEF Creates
  <2> QED  BY <1>0, <2>1, <2>2 DEF Types, CallTypes, DockerTypes, WorkerTypes, Accepts, dockerVars, workVars
<1>5. ASSUME NEW c \in Caller, EnqueueRefused(c) \/ CompleteDropped(c)
      PROVE  Types'
  <2>1. /\ stage' \in [Caller -> {"arrived", "refused", "authorised", "owner", "enqueued"}]
        /\ dropped' \in [Caller -> {"", "canceled", "deadline"}]
    BY <1>0, <1>5 DEF EnqueueRefused, CompleteDropped, Advance, Types, CallTypes
  <2>2. UNCHANGED <<dockerVars, ctx, root, prev, workVars>>
    BY <1>5 DEF EnqueueRefused, CompleteDropped
  <2> QED  BY <1>0, <2>1, <2>2 DEF Types, CallTypes, DockerTypes, WorkerTypes, Accepts, dockerVars, workVars
<1>6. ASSUME NEW d \in Deployment, Submits(d)
      PROVE  Types'
  <2>1. DockerTypes'
    <3>1. Accepts' = Accepts
      BY <1>6, AcceptsSame DEF Submits, Docker!Unsent
    <3> QED  BY <1>0, <1>6, <3>1 DEF Submits, Types, DockerTypes
  <2> QED  BY <1>0, <1>6, <2>1 DEF Submits, RunsTo, Types, CallTypes, callVars
<1>7. ASSUME NEW d \in Deployment, Works(d)
      PROVE  Types'
  BY <1>0, <1>7 DEF Works, Moves, RunsTo, Types, CallTypes, DockerTypes, Accepts, dockerVars, callVars
<1> QED  BY <1>1, <1>2, <1>3, <1>4, <1>5, <1>6, <1>7, Steps, EnqueueTypes, RemoveTypes, LoopTypes

-----------------------------------------------------------------------------
(* How operations change *)

LEMMA OpSteps ==
  ASSUME Base, [Next]_vars
  PROVE  /\ UNCHANGED req
         /\ \/ op' = op
            \/ \E c \in Caller : Creates(c)
            \/ \E c \in Caller, r \in Result : /\ op[c].state = "open"
                                               /\ op' = [op EXCEPT ![c] = Cache!Completed(r)]
                                               /\ prev' = prev
<1>1. CASE Aside
  BY <1>1 DEF Aside
<1>2. CASE DockerMoves
  BY <1>2 DEF DockerMoves, cacheVars
<1>3. ASSUME NEW c \in Caller, Quiet(c) \/ Creates(c)
      PROVE  UNCHANGED req /\ (op' = op \/ Creates(c))
  BY <1>3 DEF Quiet, Creates
<1>4. ASSUME NEW c \in Caller, NEW r \in Result, Cache!Complete(c, r), prev' = prev
      PROVE  /\ UNCHANGED req
             /\ op[c].state = "open" /\ op' = [op EXCEPT ![c] = Cache!Completed(r)] /\ prev' = prev
  BY <1>4 DEF Cache!Complete
<1>5. ASSUME NEW c \in Caller, Enqueue(c) \/ EnqueueRefused(c) \/ CompleteDropped(c)
      PROVE  \/ UNCHANGED cacheVars
             \/ \E r \in Result : Cache!Complete(c, r) /\ prev' = prev
  BY <1>5, Completions DEF Enqueue, EnqueueRefused, CompleteDropped
<1>6. ASSUME NEW c \in Caller, Remove(c)
      PROVE  op' = op /\ UNCHANGED req
  BY <1>6 DEF Remove, cacheVars
<1>7. ASSUME NEW d \in Deployment, Loop(d) \/ RootKills(d) \/ Submits(d) \/ Works(d)
      PROVE  op' = op /\ UNCHANGED req
  BY <1>7 DEF Loop, WorkerStops, WorkerTakes, WorkerParks, WorkerWakes, RootKills, Submits, Works,
              Moves, cacheVars
<1>8. ASSUME NEW d \in Deployment, Publish(d)
      PROVE  run[d].job \in Caller /\ run[d].out \in Result /\ prev' = prev
             /\ Cache!Complete(run[d].job, run[d].out)
  BY <1>8, Completions DEF Publish, callVars
<1>9. UNCHANGED cacheVars => op' = op /\ UNCHANGED req
  BY DEF cacheVars
<1> QED  BY <1>1, <1>2, <1>3, <1>4, <1>5, <1>6, <1>7, <1>8, <1>9, Steps

(* A completed operation stays as it is; one that exists stays in existence. *)
LEMMA OpKept ==
  ASSUME Base, [Next]_vars, NEW o \in Caller
  PROVE  /\ op[o].state = "done" => op'[o] = op[o]
         /\ op[o].state # "none" => op'[o].state # "none"
<1>0. CacheTypes
  BY BaseTypes DEF Base
<1> QED  BY <1>0, OpSteps DEF CacheTypes, Creates, Cache!Completed

LEMMA PrevsStep == Base /\ [Next]_vars => Prevs'
<1> SUFFICES ASSUME Base, [Next]_vars, NEW c \in Caller, prev'[c] # None
             PROVE  /\ op'[c].state # "none" /\ op'[prev'[c]].state = "done"
                    /\ prev'[c] # c /\ req'[prev'[c]] = req'[c]
  BY DEF Prevs
<1>0. CacheTypes /\ prev \in [Caller -> Caller \cup {None}] /\ Prevs
  BY BaseTypes DEF Base, Types, CallTypes
<1>1. UNCHANGED req
  BY OpSteps
<1>2. CASE prev'[c] = prev[c]
  <2>1. /\ prev[c] \in Caller /\ op[c].state # "none" /\ op[prev[c]].state = "done"
        /\ prev[c] # c /\ req[prev[c]] = req[c]
    BY <1>0, <1>2 DEF Prevs
  <2> QED  BY <1>1, <1>2, <2>1, OpKept
<1>3. CASE prev'[c] # prev[c]
  <2>1. PICK o \in Caller : Creates(o)
    <3>1. UNCHANGED prev \/ \E o \in Caller : Creates(o)
      BY Steps DEF Aside, DockerMoves, Quiet, Enqueue, EnqueueRefused, Remove, CompleteDropped,
         Loop, WorkerStops, WorkerTakes, WorkerParks, WorkerWakes, RootKills, Submits, Works, Moves,
         Publish, callVars
    <3> QED  BY <1>3, <3>1
  <2>2. /\ o = c /\ prev'[c] = watch[c] /\ watch[c] \in Caller /\ watch[c] # c
        /\ op[watch[c]].state = "done" /\ req[watch[c]] = req[c]
    BY <1>0, <1>3, <2>1 DEF Creates
  <2>3. op'[c].state # "none"
    BY <1>0, <2>1, <2>2 DEF Creates, CacheTypes, Cache!Opened
  <2> QED  BY <1>1, <2>2, <2>3, OpKept
<1> QED  BY <1>2, <1>3

LEMMA OwnersStep == Base /\ [Next]_vars => Owners'
<1> SUFFICES ASSUME Base, [Next]_vars, NEW c \in Caller
             PROVE  op'[c].state # "none" <=> stage'[c] \in {"owner", "enqueued"}
  BY DEF Owners
<1>0. /\ op \in [Caller -> CacheFacts!Operation]
      /\ stage \in [Caller -> {"arrived", "refused", "authorised", "owner", "enqueued"}]
      /\ op[c].state # "none" <=> stage[c] \in {"owner", "enqueued"}
  BY BaseTypes DEF Base, CacheTypes, Types, CallTypes, Owners
<1>1. ASSUME NEW o \in Caller, Quiet(o)
      PROVE  op'[c].state # "none" <=> stage'[c] \in {"owner", "enqueued"}
  BY <1>0, <1>1 DEF Quiet
<1>2. ASSUME NEW o \in Caller, Creates(o)
      PROVE  op'[c].state # "none" <=> stage'[c] \in {"owner", "enqueued"}
  BY <1>0, <1>2 DEF Creates, Cache!Opened
<1>3. ASSUME NEW o \in Caller, Enqueue(o) \/ EnqueueRefused(o)
      PROVE  op'[c].state # "none" <=> stage'[c] \in {"owner", "enqueued"}
  <2>1. stage[o] = "owner" /\ stage' = [stage EXCEPT ![o] = "enqueued"]
    BY <1>3 DEF Enqueue, EnqueueRefused, Advance
  <2>2. op' = op \/ \E r : op[o].state = "open" /\ op' = [op EXCEPT ![o] = Cache!Completed(r)]
    BY <1>3 DEF Enqueue, EnqueueRefused, Cache!Complete, cacheVars
  <2> QED  BY <1>0, <2>1, <2>2 DEF Cache!Completed
<1>4. CASE UNCHANGED stage /\ ~\E o \in Caller : Creates(o)
  <2>1. op' = op \/ \E o \in Caller : \E r : op[o].state = "open" /\ op' = [op EXCEPT ![o] = Cache!Completed(r)]
    BY <1>4, OpSteps
  <2> QED  BY <1>0, <1>4, <2>1 DEF Cache!Completed
<1>5. \/ UNCHANGED stage
      \/ \E o \in Caller : Quiet(o) \/ Creates(o) \/ Enqueue(o) \/ EnqueueRefused(o)
  BY Steps DEF Aside, DockerMoves, Remove, CompleteDropped,
     Loop, WorkerStops, WorkerTakes, WorkerParks, WorkerWakes, RootKills, Submits, Works, Moves,
     Publish, callVars
<1> QED  BY <1>1, <1>2, <1>3, <1>4, <1>5

LEMMA BaseStep == Base /\ [Next]_vars => Base'
BY CacheInvStep, TypesStep, PrevsStep, OwnersStep DEF Base
=============================================================================
