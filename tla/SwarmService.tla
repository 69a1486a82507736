---------------------------- MODULE SwarmService ----------------------------
(***************************************************************************)
(* The Docker side of an ordinary service, as src/internal/swarm/updater.go *)
(* uses it: ServiceInspect returns the service's version index and image,  *)
(* ServiceUpdate names the version it was computed from, and Docker takes  *)
(* the update only if that version is still the current one.               *)
(*                                                                         *)
(* An update lives on after its sender stopped waiting for the answer: it  *)
(* may be taken late, or never.  Others change the service as well: an  *)
(* operator, an automatic rollback, the progress Docker itself records.    *)
(***************************************************************************)
EXTENDS Naturals

CONSTANTS
  Caller,       \* an operation submits at most one update: named by its creator
  Service,
  Image,
  MaxVersion    \* bound on the version index, for changes made by others

VARIABLES
  svc,    \* the version and the image of each service
  wire    \* the update each operation submitted, and what became of it

Unsent  == [state |-> "unsent"]
Sent(s, version, image, state) ==
  [state |-> state, service |-> s, version |-> version, image |-> image]
Fate == {"sent", "accepted", "conflict", "rejected"}

DockerInit ==
  /\ svc  \in [Service -> [version : {1}, image : Image]]
  /\ wire = [c \in Caller |-> Unsent]

Submit(c, s, version, image) ==
  /\ wire[c] = Unsent
  /\ wire' = [wire EXCEPT ![c] = Sent(s, version, image, "sent")]
  /\ UNCHANGED svc

Settle(c, fate) == wire' = [wire EXCEPT ![c].state = fate]

Accept(c) ==
  LET s == wire[c].service
  IN  /\ wire[c].state = "sent"
      /\ svc[s].version = wire[c].version
      /\ svc' = [svc EXCEPT ![s] = [version |-> @.version + 1, image |-> wire[c].image]]
      /\ Settle(c, "accepted")

Conflict(c) ==
  /\ wire[c].state = "sent"
  /\ svc[wire[c].service].version # wire[c].version
  /\ Settle(c, "conflict")
  /\ UNCHANGED svc

(* Docker refuses the update for good.  One that gets lost stays "sent".     *)
Reject(c) ==
  /\ wire[c].state = "sent"
  /\ Settle(c, "rejected")
  /\ UNCHANGED svc

ChangedByOthers(s) ==
  /\ svc[s].version < MaxVersion
  /\ \E image \in Image : svc' = [svc EXCEPT ![s] = [version |-> @.version + 1, image |-> image]]
  /\ UNCHANGED wire

DockerNext ==
  \/ \E c \in Caller : Accept(c) \/ Conflict(c) \/ Reject(c)
  \/ \E s \in Service : ChangedByOthers(s)
=============================================================================
