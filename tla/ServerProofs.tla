---------------------------- MODULE ServerProofs ----------------------------
(***************************************************************************)
(* Proofs about Server and the handlers it runs, for any number of         *)
(* requests, whatever they carry.                                          *)
(*                                                                         *)
(* The argument: once Shutdown is called, or Serve has failed, no request  *)
(* arrives, so handlers that have all ended have ended for good; a body is *)
(* only closed when the context has ended; and as names are distinct, the  *)
(* policy's last deployment of a name is its only one.                     *)
(***************************************************************************)
EXTENDS Server, TLAPS

Drained == \A r \in Request : ~Running(r)

Place == {"new", "verify", "decode", "deploy", "deploying", "audit", "done"}

HandlersOK ==
  /\ at \in [Request -> Place]
  /\ ctx \in [Request -> {"live", "deadline", "canceled"}]
  /\ body \in [Request -> {"open", "closed"}]
  /\ answer \in [Request -> Nat]
  /\ fault \in [Request -> BOOLEAN]
  /\ \A r \in Request : body[r] = "closed" => ctx[r] # "live"

Listening == run = "serving" /\ stopper = "select"

ShutdownOK ==
  /\ run \in {"serving", "closed", "stopping", "returned"}
  /\ stopper \in {"select", "shutting", "done"}
  /\ log \in {"waiting", "writing", "done"}
  /\ run = "closed" => stopper # "select"
  /\ stopper # "done" => shutdown = ""
  /\ shutdown = "nil" /\ run \in {"serving", "closed"} => Drained
  /\ result = "nil" /\ run \in {"stopping", "returned"} => Drained
  /\ run = "returned" => log = "done"

IInv == HandlersOK /\ ShutdownOK /\ NotBlamedForContext

LEMMA InvInit == ServerInit => IInv
<1> SUFFICES ASSUME ServerInit PROVE IInv
  OBVIOUS
<1>1. HandlersOK
  BY DEF ServerInit, Init, HandlersOK, Place
<1>2. ShutdownOK
  <2>1. /\ run = "serving" /\ result = "" /\ stopper = "select" /\ shutdown = ""
        /\ log \in {"waiting", "done"}
    BY DEF ServerInit
  <2> QED  BY <2>1 DEF ShutdownOK
<1>3. NotBlamedForContext
  <2>1. answer = [r \in Request |-> 0]
    BY DEF ServerInit, Init
  <2> QED  BY <2>1 DEF NotBlamedForContext
<1> QED  BY <1>1, <1>2, <1>3 DEF IInv

-----------------------------------------------------------------------------
(* Handlers *)

(* A status of its own, or the context's, with what the status is for.       *)
LEMMA RespondStep ==
  ASSUME HandlersOK, NotBlamedForContext, NEW r \in Request, NEW status \in Nat, NEW byItself \in BOOLEAN,
         Respond(r, status, byItself), status \in {400, 401} => byItself
  PROVE  HandlersOK' /\ NotBlamedForContext'
<1>1. /\ answer' = [answer EXCEPT ![r] = status] /\ at' = [at EXCEPT ![r] = "audit"]
      /\ fault' = [fault EXCEPT ![r] = byItself] /\ UNCHANGED <<config, input, ctx, body>>
  BY DEF Respond, Answer, Goto
<1>2. HandlersOK'
  <2>1. "audit" \in Place
    BY DEF Place
  <2> QED  BY <1>1, <2>1 DEF HandlersOK
<1>3. ASSUME NEW q \in Request, answer'[q] \in {400, 401} PROVE fault'[q]
  <2>1. CASE q = r
    <3>1. answer'[q] = status /\ fault'[q] = byItself
      BY <1>1, <2>1 DEF HandlersOK
    <3> QED  BY <1>3, <3>1
  <2>2. CASE q # r
    <3>1. answer'[q] = answer[q] /\ fault'[q] = fault[q]
      BY <1>1, <2>2 DEF HandlersOK
    <3> QED  BY <1>3, <3>1 DEF NotBlamedForContext
  <2> QED  BY <2>1, <2>2
<1>4. NotBlamedForContext'
  BY <1>3 DEF NotBlamedForContext
<1> QED  BY <1>2, <1>4

LEMMA ProceedStep ==
  ASSUME HandlersOK, NotBlamedForContext, NEW r \in Request, NEW from \in Place, NEW next \in Place,
         Proceed(r, from, next)
  PROVE  HandlersOK' /\ NotBlamedForContext'
<1>1. /\ at' = [at EXCEPT ![r] = next] /\ UNCHANGED <<config, input, ctx, body, answer, fault>>
  BY DEF Proceed, Goto
<1>2. HandlersOK'
  BY <1>1 DEF HandlersOK
<1>3. NotBlamedForContext'
  BY <1>1 DEF NotBlamedForContext
<1> QED  BY <1>2, <1>3

LEMMA TimeoutStatus ==
  ASSUME HandlersOK, NEW r \in Request, ctx[r] # "live"
  PROVE  Timeouts[ctx[r]] \in Nat \ {400, 401}
<1>1. ctx[r] \in {"deadline", "canceled"}
  BY DEF HandlersOK
<1>2. Timeouts["deadline"] = 504 /\ Timeouts["canceled"] = 408
  BY DEF Timeouts
<1> QED  BY <1>1, <1>2

LEMMA ContextStatus ==
  ASSUME HandlersOK, NEW r \in Request, NEW status \in Nat
  PROVE  /\ ContextOr(r, status) \in Nat
         /\ ctx[r] # "live" => ContextOr(r, status) \notin {400, 401}
BY TimeoutStatus DEF ContextOr

LEMMA ReceiveStep ==
  ASSUME HandlersOK, NotBlamedForContext, NEW r \in Request, Receive(r)
  PROVE  HandlersOK' /\ NotBlamedForContext'
<1>1. "new" \in Place /\ "verify" \in Place
  BY DEF Place
<1>2. CASE Proceed(r, "new", "verify")
  BY <1>1, <1>2, ProceedStep
<1>3. CASE Respond(r, IF input[r].method # "POST" THEN 405 ELSE 401, TRUE)
  <2>1. (IF input[r].method # "POST" THEN 405 ELSE 401) \in Nat
    OBVIOUS
  <2> QED  BY <1>3, <2>1, RespondStep
<1> QED  BY <1>2, <1>3 DEF Receive

(* Only a running handler moves.                                             *)
LEMMA HandleStep ==
  ASSUME HandlersOK, NotBlamedForContext, NEW r \in Request, Handle(r)
  PROVE  HandlersOK' /\ NotBlamedForContext' /\ ~Drained
<1>1. \A p \in {"verify", "decode", "deploy", "deploying", "audit", "done"} : p \in Place
  BY DEF Place
<1>2. ASSUME at[r] \in {"verify", "decode", "deploy", "deploying", "audit"} PROVE ~Drained
  BY <1>2 DEF Drained, Running
<1>3. CASE VerifySucceeds(r) \/ DecodeSucceeds(r) \/ DeployBegins(r) \/ Audit(r)
  <2>1. PICK from \in {"verify", "decode", "deploy", "audit"}, next \in {"decode", "deploy", "deploying", "done"} :
          Proceed(r, from, next)
    BY <1>3 DEF VerifySucceeds, DecodeSucceeds, DeployBegins, Audit
  <2>2. at[r] = from
    BY <2>1 DEF Proceed
  <2> QED  BY <1>1, <1>2, <2>1, <2>2, ProceedStep
<1>4. CASE VerifyFails(r)
  <2>1. PICK status \in {503, 401}, byItself \in BOOLEAN :
          Respond(r, ContextOr(r, status), byItself) /\ (~byItself => ctx[r] # "live")
    BY <1>4 DEF VerifyFails
  <2>2. ContextOr(r, status) \in Nat /\ (ContextOr(r, status) \in {400, 401} => byItself)
    BY <2>1, ContextStatus
  <2> QED  BY <1>2, <1>4, <2>1, <2>2, RespondStep DEF VerifyFails
<1>5. CASE DecodeFails(r)
  <2>1. PICK byItself \in BOOLEAN :
          Respond(r, ContextOr(r, 400), byItself) /\ (~byItself => ctx[r] # "live")
    BY <1>5 DEF DecodeFails, HandlersOK
  <2>2. ContextOr(r, 400) \in Nat /\ (ContextOr(r, 400) \in {400, 401} => byItself)
    BY <2>1, ContextStatus
  <2> QED  BY <1>2, <1>5, <2>1, <2>2, RespondStep DEF DecodeFails
<1>6. CASE DeployDenied(r)
  <2>1. PICK status \in Nat, byItself \in BOOLEAN : Respond(r, status, byItself) /\ byItself
    <3>1. 403 \in Nat /\ TRUE \in BOOLEAN /\ TRUE
      OBVIOUS
    <3>2. Respond(r, 403, TRUE)
      BY <1>6 DEF DeployDenied
    <3> QED  BY <3>1, <3>2
  <2>2. HandlersOK' /\ NotBlamedForContext'
    BY <2>1, RespondStep
  <2> QED  BY <1>2, <1>6, <2>2 DEF DeployDenied
<1>7. CASE DeployCancelled(r)
  <2>1. Respond(r, Timeouts[ctx[r]], FALSE) /\ at[r] = "deploy" /\ ctx[r] # "live"
    BY <1>7 DEF DeployCancelled
  <2>2. Timeouts[ctx[r]] \in Nat \ {400, 401}
    BY <2>1, TimeoutStatus
  <2>3. HandlersOK' /\ NotBlamedForContext'
    BY <2>1, <2>2, RespondStep
  <2> QED  BY <1>2, <2>1, <2>3
<1>8. CASE DeployReturns(r)
  <2>1. PICK outcome \in DOMAIN Status : Respond(r, Status[outcome], TRUE)
    BY <1>8 DEF DeployReturns
  <2>2. Status[outcome] \in Nat
    BY <2>1 DEF Status
  <2> QED  BY <1>2, <1>8, <2>1, <2>2, RespondStep DEF DeployReturns
<1>9. CASE RequestEnds(r)
  <2>1. PICK err \in {"deadline", "canceled"} : ctx' = [ctx EXCEPT ![r] = err]
    BY <1>9 DEF RequestEnds, Timeouts
  <2>2. UNCHANGED <<config, input, at, body, answer, fault>> /\ ~Drained
    BY <1>9 DEF RequestEnds, Drained
  <2> QED  BY <2>1, <2>2 DEF HandlersOK, NotBlamedForContext
<1>10. CASE BodyCloses(r)
  <2>1. /\ body' = [body EXCEPT ![r] = "closed"] /\ ctx[r] # "live"
        /\ UNCHANGED <<config, input, at, ctx, answer, fault>> /\ ~Drained
    BY <1>10 DEF BodyCloses, Drained
  <2> QED  BY <2>1 DEF HandlersOK, NotBlamedForContext
<1> QED  BY <1>3, <1>4, <1>5, <1>6, <1>7, <1>8, <1>9, <1>10 DEF Handle

-----------------------------------------------------------------------------
(* The server *)

LEMMA HandlersRest ==
  ASSUME HandlersOK, NotBlamedForContext, UNCHANGED handlerVars
  PROVE  HandlersOK' /\ NotBlamedForContext' /\ (Drained <=> Drained')
BY DEF handlerVars, HandlersOK, NotBlamedForContext, Drained, Running

LEMMA InvNext == IInv /\ [ServerNext]_vars => IInv'
<1> SUFFICES ASSUME IInv, [ServerNext]_vars PROVE IInv'
  OBVIOUS
<1> USE DEF IInv
<1>1. ASSUME UNCHANGED handlerVars, ShutdownOK' PROVE IInv'
  BY <1>1, HandlersRest
<1>2. ASSUME UNCHANGED handlerVars PROVE Drained <=> Drained'
  BY <1>2, HandlersRest
<1>3. CASE UNCHANGED vars
  BY <1>1, <1>2, <1>3 DEF vars, serverVars, ShutdownOK
<1>4. ASSUME NEW r \in Request, Arrive(r) PROVE IInv'
  <2>1. HandlersOK' /\ NotBlamedForContext'
    BY <1>4, ReceiveStep DEF Arrive
  <2>2. ShutdownOK'
    BY <1>4 DEF Arrive, serverVars, ShutdownOK
  <2> QED  BY <2>1, <2>2
<1>5. ASSUME NEW r \in Request, HandlerMoves(r) PROVE IInv'
  <2>1. HandlersOK' /\ NotBlamedForContext' /\ ~Drained
    BY <1>5, HandleStep DEF HandlerMoves
  <2>2. ShutdownOK'
    BY <1>5, <2>1 DEF HandlerMoves, serverVars, ShutdownOK
  <2> QED  BY <2>1, <2>2
<1>6. ASSUME NEW r \in Request, RootEndsRequest(r) PROVE IInv'
  <2>1. ctx' = [ctx EXCEPT ![r] = "canceled"] /\ UNCHANGED <<config, input, at, body, answer, fault, serverVars>>
        /\ ~Drained
    BY <1>6 DEF RootEndsRequest, Drained
  <2>2. HandlersOK' /\ NotBlamedForContext'
    BY <2>1 DEF HandlersOK, NotBlamedForContext
  <2>3. ShutdownOK'
    BY <2>1 DEF serverVars, ShutdownOK
  <2> QED  BY <2>2, <2>3
<1>7. CASE RootEnds \/ LogReady \/ LogStops \/ LogStep("writing", "done")
  <2>1. UNCHANGED handlerVars
    BY <1>7 DEF RootEnds, LogReady, LogStops, LogStep
  <2>2. ShutdownOK'
    BY <1>2, <1>7, <2>1 DEF RootEnds, LogReady, LogStops, LogStep, ShutdownOK
  <2> QED  BY <1>1, <2>1, <2>2
<1>8. CASE ServeReturns \/ ServeFails \/ ServeHears \/ RunReturns
  <2>1. UNCHANGED handlerVars
    BY <1>8 DEF ServeReturns, ServeFails, ServeHears, RunReturns, ServeOnly
  <2>2. ShutdownOK'
    BY <1>2, <1>8, <2>1 DEF ServeReturns, ServeFails, ServeHears, RunReturns, ServeOnly, ShutdownOK
  <2> QED  BY <1>1, <2>1, <2>2
<1>9. CASE StopperStarts \/ StopperReleased \/ ShutdownDrains \/ ShutdownTimesOut
  <2>1. UNCHANGED handlerVars
    BY <1>9 DEF StopperStarts, StopperReleased, ShutdownDrains, ShutdownTimesOut, Finish
  <2>2. ShutdownDrains => Drained
    BY DEF ShutdownDrains, Drained
  <2>3. ShutdownOK'
    BY <1>2, <1>9, <2>1, <2>2 DEF StopperStarts, StopperReleased, ShutdownDrains, ShutdownTimesOut,
      Finish, ShutdownOK
  <2> QED  BY <1>1, <2>1, <2>3
<1> QED  BY <1>3, <1>4, <1>5, <1>6, <1>7, <1>8, <1>9 DEF ServerNext, ServerMoves

(* The invariant holds in every reachable state.                             *)
THEOREM Invariance == ServerSpec => []IInv
BY InvInit, InvNext, PTL DEF ServerSpec

(* An ended context is never blamed on the token or the body of a request.   *)
THEOREM ContextIsNotBlamed == ServerSpec => []NotBlamedForContext
<1>1. IInv => NotBlamedForContext
  BY DEF IInv
<1> QED  BY <1>1, Invariance, PTL

(* Run returns after its goroutine, and without error only after the last    *)
(* handler.                                                                  *)
THEOREM RunOutlivesAll == ServerSpec => []NothingOutlivesRun
<1>1. IInv => NothingOutlivesRun
  BY DEF IInv, ShutdownOK, NothingOutlivesRun, Drained
<1> QED  BY <1>1, Invariance, PTL

-----------------------------------------------------------------------------
(* Authorisation *)

Deployment == [name : Setting, service : Setting, workflow : Setting,
               job : Setting \cup {None}, scope : Setting]

(* The deployment that the policy has for a name is the one the operator     *)
(* wrote for it, with the default for job_workflow_ref.                      *)
LEMMA PolicyOfName ==
  ASSUME NEW c \in Configuration, P!Valid(c), NEW i \in DOMAIN c.deployments
  PROVE  LET d == c.deployments[i]
         IN  /\ d \in Deployment
             /\ d.name \in DOMAIN P!Policy(c)
             /\ P!Policy(c)[d.name] = [d EXCEPT !.job = IF @ = None THEN c.job ELSE @]
<1> DEFINE names == P!Names(c)
           last(name) == CHOOSE k \in DOMAIN names :
             names[k] = name /\ \A j \in DOMAIN names : names[j] = name => j <= k
<1>1. /\ c.deployments \in Seq(Deployment)
      /\ DOMAIN c.deployments = 1 .. Len(c.deployments)
  <2>1. c \in [job : Setting \cup {None}, deployments : Seq(Deployment)]
    BY ConfigurationAssumption DEF Deployment
  <2>2. c.deployments \in Seq(Deployment)
    BY <2>1
  <2> QED  BY <2>2
<1>2. c.deployments[i] \in Deployment
  BY <1>1
<1>3. /\ DOMAIN names = DOMAIN c.deployments
      /\ \A k \in DOMAIN names : names[k] = c.deployments[k].name
  BY DEF P!Names
<1>4. \A k \in DOMAIN names : names[k] = names[i] => k = i
  BY <1>3 DEF P!Valid, P!Distinct
<1>5. i \in Nat /\ i <= i
  BY <1>1
<1>6. last(c.deployments[i].name) = i
  <2> DEFINE isLast(k) == names[k] = c.deployments[i].name
                            /\ \A j \in DOMAIN names : names[j] = c.deployments[i].name => j <= k
  <2>1. i \in DOMAIN names /\ names[i] = c.deployments[i].name
    BY <1>3
  <2>2. isLast(i)
    BY <1>4, <1>5, <2>1
  <2>3. \A k \in DOMAIN names : isLast(k) => k = i
    BY <1>4, <2>1
  <2>4. last(c.deployments[i].name) = CHOOSE k \in DOMAIN names : isLast(k)
    OBVIOUS
  <2> HIDE DEF isLast, names, last
  <2> QED  BY <2>1, <2>2, <2>3, <2>4
<1>7. P!Policy(c) = [name \in {names[k] : k \in DOMAIN names} |->
        [c.deployments[last(name)] EXCEPT !.job = IF @ = None THEN c.job ELSE @]]
  BY DEF P!Policy
<1>8. c.deployments[i].name \in {names[k] : k \in DOMAIN names}
  BY <1>3
<1> HIDE DEF names, last
<1> QED  BY <1>2, <1>6, <1>7, <1>8

(* The policy authorises exactly what some deployment of the name asks for.  *)
LEMMA AuthorisedIsIntended ==
  ASSUME config \in Configuration, P!Valid(config), NEW name, NEW claims
  PROVE  P!Authorised(P!Policy(config), name, claims) <=> Intended(name, claims)
<1> DEFINE asks(d) ==
      LET pinned == IF d.job = None THEN config.job ELSE d.job
      IN  /\ d.scope = claims.scope /\ d.workflow = claims.workflow
          /\ claims.job \in IF pinned = None THEN {None, d.workflow} ELSE {pinned}
<1>1. DOMAIN P!Policy(config) = {config.deployments[k].name : k \in DOMAIN config.deployments}
  BY DEF P!Policy, P!Names
<1>2. ASSUME NEW i \in DOMAIN config.deployments
      PROVE  P!Matches(P!Policy(config)[config.deployments[i].name], claims)
               <=> asks(config.deployments[i])
  <2> DEFINE d == config.deployments[i]
  <2>1. /\ d \in Deployment
        /\ P!Policy(config)[d.name] = [d EXCEPT !.job = IF @ = None THEN config.job ELSE @]
    BY PolicyOfName
  <2> HIDE DEF d
  <2>2. LET e == P!Policy(config)[d.name]
        IN  /\ e.job = (IF d.job = None THEN config.job ELSE d.job)
            /\ e.scope = d.scope /\ e.workflow = d.workflow
    BY <2>1 DEF Deployment
  <2>3. P!Matches(P!Policy(config)[d.name], claims) <=> asks(d)
    BY <2>2 DEF P!Matches, P!MatchesJobWorkflow
  <2> QED  BY <2>3 DEF d
<1>3. Intended(name, claims) <=>
        \E i \in DOMAIN config.deployments :
          config.deployments[i].name = name /\ asks(config.deployments[i])
  BY DEF Intended
<1> HIDE DEF asks
<1> QED  BY <1>1, <1>2, <1>3 DEF P!Authorised

ValidConfiguration == {c \in Configuration : P!Valid(c)}
ConfigurationOK == config \in ValidConfiguration

(* The configuration a process runs with is valid and stays the same.        *)
LEMMA ConfigurationStays == ServerSpec => []ConfigurationOK
<1>1. ServerInit => ConfigurationOK
  BY DEF ServerInit, Init, ConfigurationOK, ValidConfiguration
<1>2. [ServerNext]_vars => config' = config
  <2> SUFFICES ASSUME [ServerNext]_vars PROVE config' = config
    OBVIOUS
  <2>1. ASSUME NEW r \in Request, Handle(r) PROVE config' = config
    BY <2>1 DEF Handle, VerifySucceeds, VerifyFails, DecodeSucceeds, DecodeFails, DeployDenied,
      DeployCancelled, DeployBegins, DeployReturns, Audit, RequestEnds, BodyCloses, Respond, Proceed
  <2>2. ASSUME NEW r \in Request, Receive(r) PROVE config' = config
    BY <2>2 DEF Receive, Respond, Proceed
  <2>3. ASSUME UNCHANGED handlerVars PROVE config' = config
    BY <2>3 DEF handlerVars
  <2>4. ASSUME NEW r \in Request, RootEndsRequest(r) PROVE config' = config
    BY <2>4 DEF RootEndsRequest
  <2>5. CASE UNCHANGED vars
    BY <2>5 DEF vars, handlerVars
  <2>6. RootEnds \/ ServeFails \/ LogReady \/ ServerMoves => UNCHANGED handlerVars
    BY DEF RootEnds, ServeFails, LogReady, ServerMoves, ServeReturns, StopperStarts,
      StopperReleased, ShutdownDrains, ShutdownTimesOut, ServeHears, RunReturns, LogStops,
      LogStep, Finish, ServeOnly
  <2> QED  BY <2>1, <2>2, <2>3, <2>4, <2>5, <2>6 DEF ServerNext, Arrive, HandlerMoves
<1>3. ConfigurationOK /\ config' = config => ConfigurationOK'
  BY DEF ConfigurationOK
<1> QED  BY <1>1, <1>2, <1>3, PTL DEF ServerSpec

(* Whatever valid configuration a process runs with, it serves exactly the   *)
(* workflows that its deployments ask for.                                   *)
THEOREM ServedAsConfigured == ServerSpec => []AuthorisedAsConfigured
<1>1. ConfigurationOK => AuthorisedAsConfigured
  <2> SUFFICES ASSUME config \in Configuration, P!Valid(config), NEW r \in Request
               PROVE  P!Authorised(P!Policy(config), input[r].name, input[r].claims)
                        <=> Intended(input[r].name, input[r].claims)
    BY DEF ConfigurationOK, ValidConfiguration, AuthorisedAsConfigured, DeployAuthorised
  <2> QED  BY AuthorisedIsIntended
<1> QED  BY <1>1, ConfigurationStays, PTL
=============================================================================
