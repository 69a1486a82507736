------------------------------ MODULE Handler ------------------------------
(***************************************************************************)
(* POST /v1/deployments/{deployment}, src/internal/httpapi/handler.go: the *)
(* request's context may end while the token is verified, the body is      *)
(* read or Deploy runs, and an AfterFunc then closes the body under the    *)
(* decoder.  What a request carries is drawn from Input.                   *)
(***************************************************************************)
EXTENDS Naturals, Sequences

CONSTANTS
  Request,
  Input,           \* what requests may carry
  Setting,         \* names, services, workflows and scopes
  Configuration,   \* what an operator may have written
  None

ASSUME ConfigurationAssumption ==
  Configuration \subseteq
    [job : Setting \cup {None},
     deployments : Seq([name : Setting, service : Setting, workflow : Setting,
                        job : Setting \cup {None}, scope : Setting])]

VARIABLES
  config,    \* the configuration the process runs with
  input,     \* what each request carries
  at,        \* how far it is handled
  ctx,       \* its context
  body,      \* its body: open, or closed by the AfterFunc
  answer,    \* the status written
  fault      \* what it was refused for failed by itself, context or not

handlerVars == <<config, input, at, ctx, body, answer, fault>>

P == INSTANCE Policy

Init ==
  /\ config \in {c \in Configuration : P!Valid(c)}
  /\ input  \in [Request -> Input]
  /\ at     = [r \in Request |-> "new"]
  /\ ctx    = [r \in Request |-> "live"]
  /\ body   = [r \in Request |-> "open"]
  /\ answer = [r \in Request |-> 0]
  /\ fault  = [r \in Request |-> FALSE]

Running(r) == at[r] \notin {"new", "done"}
Goto(r, next) == at' = [at EXCEPT ![r] = next]

(* The status goes to the response and to the audit record alike.            *)
Answer(r, status) ==
  /\ answer' = [answer EXCEPT ![r] = status]
  /\ Goto(r, "audit")

Proceed(r, from, next) ==
  /\ at[r] = from
  /\ Goto(r, next)
  /\ UNCHANGED <<config, input, ctx, body, answer, fault>>

Respond(r, status, byItself) ==
  /\ Answer(r, status)
  /\ fault' = [fault EXCEPT ![r] = byItself]
  /\ UNCHANGED <<config, input, ctx, body>>

Timeouts == [deadline |-> 504, canceled |-> 408]

ContextOrLive(r, status) == status   \* mutant: nobody asks the context

(* writeContextError comes first, whatever the error was.                    *)
ContextOr(r, status) == IF ctx[r] = "live" THEN status ELSE Timeouts[ctx[r]]

(* Nothing here waits for anything.                                          *)
Receive(r) ==
  \/ /\ input[r].method = "POST" /\ input[r].token # "none"
     /\ Proceed(r, "new", "verify")
  \/ /\ at[r] = "new"
     /\ input[r].method # "POST" \/ input[r].token = "none"
     /\ Respond(r, IF input[r].method # "POST" THEN 405 ELSE 401, TRUE)

VerifySucceeds(r) == input[r].token = "good" /\ Proceed(r, "verify", "decode")

(* The token is bad or too young for this process, GitHub's keys cannot be   *)
(* had, or the context has ended.                                            *)
VerifyFails(r) ==
  /\ at[r] = "verify"
  /\ \/ input[r].token = "young" /\ Respond(r, ContextOr(r, 503), TRUE)
     \/ Respond(r, ContextOr(r, 401), TRUE)
     \/ ctx[r] # "live" /\ Respond(r, ContextOr(r, 401), FALSE)

DecodeSucceeds(r) ==
  input[r].body = "good" /\ body[r] = "open" /\ Proceed(r, "decode", "deploy")

(* The body is malformed, does not arrive in time, or has been closed.       *)
DecodeFails(r) ==
  /\ at[r] = "decode"
  /\ \/ Respond(r, ContextOr(r, 400), TRUE)
     \/ body[r] = "closed" /\ Respond(r, ContextOr(r, 400), FALSE)

(* writeOutcome and writeDeployError.                                        *)
Status == [completed |-> 200, in_progress |-> 202, superseded |-> 409, failed |-> 502,
           rolled_back |-> 502, none |-> 500, reused |-> 403, capacity |-> 429, busy |-> 409,
           conflict |-> 409, deadline |-> 504, canceled |-> 408, expired |-> 401, error |-> 502]

DeployAuthorised(r) == P!Authorised(P!Policy(config), input[r].name, input[r].claims)

DeployDenied(r) ==
  /\ at[r] = "deploy"
  /\ ctx[r] = "live" /\ ~DeployAuthorised(r)
  /\ Respond(r, 403, TRUE)

DeployCancelled(r) ==
  /\ at[r] = "deploy"
  /\ ctx[r] # "live"
  /\ Respond(r, Timeouts[ctx[r]], FALSE)

DeployBegins(r) ==
  /\ ctx[r] = "live" /\ DeployAuthorised(r)
  /\ Proceed(r, "deploy", "deploying")

DeployReturns(r) ==
  /\ at[r] = "deploying"
  /\ \E result \in DOMAIN Status : Respond(r, Status[result], TRUE)

Audit(r) == Proceed(r, "audit", "done")

RequestEnds(r) ==
  /\ Running(r) /\ ctx[r] = "live"
  /\ \E err \in DOMAIN Timeouts : ctx' = [ctx EXCEPT ![r] = err]
  /\ UNCHANGED <<config, input, at, body, answer, fault>>

(* The AfterFunc of the context.                                             *)
BodyCloses(r) ==
  /\ Running(r) /\ ctx[r] # "live" /\ body[r] = "open"
  /\ body' = [body EXCEPT ![r] = "closed"]
  /\ UNCHANGED <<config, input, at, ctx, answer, fault>>

Handle(r) ==
  \/ VerifySucceeds(r) \/ VerifyFails(r) \/ DecodeSucceeds(r) \/ DecodeFails(r)
  \/ DeployDenied(r) \/ DeployCancelled(r) \/ DeployBegins(r) \/ DeployReturns(r) \/ Audit(r)
  \/ RequestEnds(r) \/ BodyCloses(r)

-----------------------------------------------------------------------------
(* Properties *)

(* A well-formed request is never told that its token or its body is invalid *)
(* because it was cancelled or timed out at an awkward moment: ended keys    *)
(* look-ups and closed bodies are answered 408 or 504.                       *)
NotBlamedForContext ==
  \A r \in Request : answer[r] \in {400, 401} => fault[r]

(* Deploy goes on for exactly those requests that some deployment of that    *)
(* name, as the operator wrote it, asks for: neither another entry of the    *)
(* name nor a forgotten default changes who may use it.                      *)
Intended(name, claims) ==
  \E i \in DOMAIN config.deployments :
    LET d == config.deployments[i]
        pinned == IF d.job = None THEN config.job ELSE d.job
    IN  /\ d.name = name /\ d.scope = claims.scope /\ d.workflow = claims.workflow
        /\ claims.job \in IF pinned = None THEN {None, d.workflow} ELSE {pinned}

AuthorisedAsConfigured ==
  \A r \in Request :
    at[r] = "deploy" => (DeployAuthorised(r) <=> Intended(input[r].name, input[r].claims))
=============================================================================
