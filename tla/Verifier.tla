------------------------------ MODULE Verifier ------------------------------
(***************************************************************************)
(* Time validation and the restart cutoff of                               *)
(* src/internal/githuboidc/verifier.go: since the replay records do not    *)
(* survive the process, a new process refuses the tokens the previous one  *)
(* may have accepted, and tells their holders when to come back.           *)
(*                                                                         *)
(* The host clock advances in ticks, Second of them to a second; the       *)
(* claims of a token are whole seconds of GitHub's clock, which is ahead   *)
(* of the host's by a constant offset within the allowed skew.             *)
(***************************************************************************)
EXTENDS Integers

CONSTANTS
  Token,
  Second,        \* ticks in a second: the claims are coarser than the clock
  SkewSeconds,   \* ClockSkew in seconds
  Lifetime,      \* the values of exp - iat that tokens come with, in ticks
  None,
  MaxHost,       \* bound on the host clock
  MaxStarts      \* bound on the number of processes

ASSUME VerifierAssumption ==
  /\ Second \in Nat \ {0}
  /\ SkewSeconds \in Nat
  /\ Lifetime \subseteq Int
  /\ MaxHost \in Nat
  /\ MaxStarts \in Nat

VARIABLES
  host,      \* the clock of the host that runs Swarrow
  offset,    \* GitHub's clock minus the host's
  token,     \* the claims of the tokens GitHub has issued, or None
  process,   \* the running process: its number and start time
  accepted,  \* the <<token, process number>> pairs of successful validations
  advice     \* since this process started, the earliest instant at which a
             \* caller was told to come back with a new token, or None

vars == <<host, offset, token, process, accepted, advice>>

ClockSkew == SkewSeconds * Second
Truncate(t) == t - (t % Second)

Claims == [iat : Int, nbf : Int, exp : Int, issued : Nat]

Init ==
  /\ host = ClockSkew
  /\ offset \in -ClockSkew .. ClockSkew
  /\ token = [t \in Token |-> None]
  /\ process = [up |-> FALSE, number |-> 0, startedAt |-> 0]
  /\ accepted = {}
  /\ advice = None

Tick ==
  /\ host < MaxHost
  /\ host' = host + 1
  /\ UNCHANGED <<offset, token, process, accepted, advice>>

(* GitHub issues a token; issued is the host time at which it does.          *)
Issue(t) ==
  /\ token[t] = None
  /\ \E life \in Lifetime :
       LET iat == Truncate(host + offset)
       IN  token' = [token EXCEPT ![t] =
                       [iat |-> iat, nbf |-> iat, exp |-> iat + life, issued |-> host]]
  /\ UNCHANGED <<host, offset, process, accepted, advice>>

-----------------------------------------------------------------------------

(* Mutants of RestartCutoff: no allowance for a second that the restart      *)
(* splits, or for a clock ahead of the host's.                               *)
CutoffAtSecond  == Truncate(process.startedAt) + ClockSkew
CutoffNoSkew    == Truncate(process.startedAt) + Second

RestartCutoff == Truncate(process.startedAt) + Second + ClockSkew
(* Mutant: no allowance for a clock behind the host's.                       *)
ReadyAtCutoff == RestartCutoff

ConservativeReadyAt == RestartCutoff + ClockSkew

(* newVerifier, at the start of a process.                                   *)
Start ==
  /\ ~process.up
  /\ process.number < MaxStarts
  /\ process' = [up |-> TRUE, number |-> process.number + 1, startedAt |-> host]
  /\ advice' = None
  /\ UNCHANGED <<host, offset, token, accepted>>

Stop ==
  /\ process.up
  /\ process' = [process EXCEPT !.up = FALSE]
  /\ UNCHANGED <<host, offset, token, accepted, advice>>

(* The claims checks of validate that come before the restart cutoff.        *)
WellFormed(claims) == claims.exp > claims.iat /\ claims.exp > claims.nbf
InTime(claims) ==
  /\ host < claims.exp + ClockSkew
  /\ host + ClockSkew >= claims.nbf
  /\ host + ClockSkew >= claims.iat

Shorter(a, b) == IF a < b THEN a ELSE b
RetryAfter(claims) == Shorter(RestartCutoff - claims.iat, ConservativeReadyAt - host)

(* Mutant: the header is rounded down.                                       *)
RetryAfterFloor(claims) == (RetryAfter(claims) \div Second) * Second

(* retryAfterSeconds: the header carries whole seconds, rounded up.          *)
RetryAfterHeader(claims) == ((RetryAfter(claims) + Second - 1) \div Second) * Second

Presented(t) == process.up /\ token[t] # None /\ WellFormed(token[t]) /\ InTime(token[t])

VerifyAccepts(t) ==
  /\ Presented(t)
  /\ token[t].iat >= RestartCutoff
  /\ accepted' = accepted \cup {<<t, process.number>>}
  /\ UNCHANGED <<host, offset, token, process, advice>>

VerifyWarmsUp(t) ==
  /\ Presented(t)
  /\ token[t].iat < RestartCutoff
  /\ host < ConservativeReadyAt
  /\ LET comeBack == host + RetryAfterHeader(token[t])
     IN  advice' = IF advice = None THEN comeBack ELSE Shorter(advice, comeBack)
  /\ UNCHANGED <<host, offset, token, process, accepted>>

Next ==
  \/ Tick
  \/ Start
  \/ Stop
  \/ \E t \in Token : Issue(t) \/ VerifyAccepts(t) \/ VerifyWarmsUp(t)

Spec == Init /\ [][Next]_vars

-----------------------------------------------------------------------------
(* Properties *)

TypeOK ==
  /\ host \in Nat
  /\ offset \in -ClockSkew .. ClockSkew
  /\ token \in [Token -> Claims \cup {None}]
  /\ process \in [up : BOOLEAN, number : Nat, startedAt : Nat]
  /\ accepted \subseteq Token \X Nat
  /\ advice \in Nat \cup {None}

(* No token passes validation in two processes: forgetting the replay        *)
(* records on a restart opens no replay window, even for a token issued in   *)
(* the second of the restart or by a clock ahead of the host's.              *)
AcceptedByOneProcess ==
  \A first, second \in accepted : first[1] = second[1] => first = second

(* The claims pass every time check of the running process.                  *)
Passes(t) == InTime(token[t]) /\ token[t].iat >= RestartCutoff

Usable(t) ==
  /\ process.up
  /\ token[t] # None
  /\ WellFormed(token[t])
  /\ host < token[t].exp + ClockSkew

(* A token obtained once the conservative ready time has come passes the     *)
(* time checks until it expires.                                             *)
ReadyMeansReady ==
  \A t \in Token : Usable(t) /\ token[t].issued >= ConservativeReadyAt => Passes(t)

(* A caller that obeys Retry-After and then obtains a new token is not sent  *)
(* away again, and the advice is never later than the conservative ready     *)
(* time rounded up to a second.                                              *)
AdviceHolds ==
  advice # None =>
    /\ \A t \in Token : Usable(t) /\ token[t].issued >= advice => Passes(t)
    /\ process.up => advice < ConservativeReadyAt + Second

-----------------------------------------------------------------------------
(* The inductive invariant behind AcceptedByOneProcess. *)

(* What an earlier process accepted lies before this one's cutoff.           *)
AcceptedBeforeCutoff ==
  \A pair \in accepted :
    /\ token[pair[1]] # None
    /\ pair[2] <= process.number
    /\ token[pair[1]].iat <= host + ClockSkew
    /\ pair[2] < process.number => token[pair[1]].iat < RestartCutoff

Inv == TypeOK /\ AcceptedBeforeCutoff /\ AcceptedByOneProcess
=============================================================================
