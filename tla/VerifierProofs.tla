--------------------------- MODULE VerifierProofs ---------------------------
(***************************************************************************)
(* Proofs about Verifier, for every tick length, skew and token lifetime,  *)
(* and any number of restarts at any instants.                             *)
(*                                                                         *)
(* The argument: a process accepts only issue times at most ClockSkew      *)
(* ahead of its clock, and the next process, which starts no earlier, puts *)
(* its cutoff strictly more than ClockSkew after its start.                *)
(*                                                                         *)
(* For the warm-up: claims are GitHub's clock in whole seconds and the     *)
(* cutoff is a whole second, so a token passes as soon as it is issued     *)
(* when GitHub's clock has reached the cutoff, which it has both at the    *)
(* ready time and when a caller comes back as it was told.                 *)
(***************************************************************************)
EXTENDS Verifier, TLAPS

LEMMA SkewIsNat == ClockSkew \in Nat
  BY VerifierAssumption DEF ClockSkew

(* Truncate(t) + Second is the next whole second, strictly after t.          *)
LEMMA TruncateBounds ==
  ASSUME NEW t \in Int
  PROVE  /\ Truncate(t) \in Int
         /\ t < Truncate(t) + Second
         /\ Truncate(t) <= t
<1>1. t % Second \in 0 .. Second - 1
  BY VerifierAssumption
<1> QED  BY <1>1, VerifierAssumption DEF Truncate

LEMMA TypeNext == TypeOK /\ [Next]_vars => TypeOK'
<1> SUFFICES ASSUME TypeOK, [Next]_vars PROVE TypeOK'
  OBVIOUS
<1> USE SkewIsNat DEF TypeOK
<1>1. RestartCutoff \in Int /\ ConservativeReadyAt \in Int
  BY TruncateBounds, VerifierAssumption DEF RestartCutoff, ConservativeReadyAt
<1>2. CASE Tick
  BY <1>2 DEF Tick
<1>3. CASE Start
  BY <1>3 DEF Start
<1>4. CASE Stop
  BY <1>4 DEF Stop
<1>5. ASSUME NEW t \in Token, Issue(t)
      PROVE  TypeOK'
  <2>1. Truncate(host + offset) \in Int
    BY TruncateBounds
  <2>2. PICK life \in Lifetime :
          token' = [token EXCEPT ![t] =
                      [iat |-> Truncate(host + offset), nbf |-> Truncate(host + offset),
                       exp |-> Truncate(host + offset) + life, issued |-> host]]
    BY <1>5 DEF Issue
  <2>3. token' \in [Token -> Claims \cup {None}]
    BY <2>1, <2>2, VerifierAssumption DEF Claims
  <2> QED  BY <1>5, <2>3 DEF Issue
<1>6. ASSUME NEW t \in Token, VerifyAccepts(t)
      PROVE  TypeOK'
  BY <1>6 DEF VerifyAccepts
<1>7. ASSUME NEW t \in Token, VerifyWarmsUp(t)
      PROVE  TypeOK'
  <2>1. token[t] \in Claims
    BY <1>7 DEF VerifyWarmsUp, Presented
  <2>2. RetryAfter(token[t]) \in Int /\ RetryAfter(token[t]) > 0
    BY <1>1, <1>7, <2>1 DEF VerifyWarmsUp, RetryAfter, Shorter, Claims
  <2>3. RetryAfterHeader(token[t]) \in Nat
    <3> DEFINE d == RetryAfter(token[t]) + Second - 1
    <3>1. d \in Nat
      BY <2>2, VerifierAssumption
    <3>2. d \div Second \in Nat
      BY <3>1, VerifierAssumption
    <3> QED  BY <3>2, VerifierAssumption DEF RetryAfterHeader
  <2> QED  BY <1>7, <2>3 DEF VerifyWarmsUp, Shorter
<1>8. CASE UNCHANGED vars
  BY <1>8 DEF vars
<1> QED  BY <1>2, <1>3, <1>4, <1>5, <1>6, <1>7, <1>8 DEF Next

(* The cutoff of a process lies more than ClockSkew after its start.         *)
LEMMA CutoffBeyondSkew ==
  ASSUME TypeOK
  PROVE  /\ RestartCutoff \in Int
         /\ process.startedAt + ClockSkew < RestartCutoff
BY TruncateBounds, SkewIsNat, VerifierAssumption DEF RestartCutoff, TypeOK

LEMMA InvInit == Init => Inv
<1> SUFFICES ASSUME Init PROVE Inv
  OBVIOUS
<1>1. TypeOK
  BY SkewIsNat DEF Init, TypeOK
<1> QED  BY <1>1 DEF Init, Inv, AcceptedBeforeCutoff, AcceptedByOneProcess

(* A new process leaves everything accepted so far behind its cutoff.        *)
LEMMA StartKeepsInv ==
  ASSUME Inv, Start, TypeOK'
  PROVE  Inv'
<1> USE SkewIsNat DEF Inv, TypeOK
<1>1. RestartCutoff' \in Int /\ host + ClockSkew < RestartCutoff'
  <2>1. process'.startedAt = host
    BY DEF Start
  <2>2. /\ Truncate(host) \in Int
        /\ host < Truncate(host) + Second
    BY TruncateBounds
  <2> QED  BY <2>1, <2>2, VerifierAssumption DEF RestartCutoff, Truncate, ClockSkew
<1>2. AcceptedBeforeCutoff'
  <2> SUFFICES ASSUME NEW pair \in accepted
               PROVE  /\ token[pair[1]] # None
                      /\ pair[2] <= process'.number
                      /\ token[pair[1]].iat <= host + ClockSkew
                      /\ pair[2] < process'.number => token[pair[1]].iat < RestartCutoff'
    BY DEF AcceptedBeforeCutoff, Start, ClockSkew
  <2>1. /\ token[pair[1]] # None
        /\ pair[2] <= process.number
        /\ token[pair[1]].iat <= host + ClockSkew
    BY DEF AcceptedBeforeCutoff
  <2>2. token[pair[1]].iat \in Int
    BY <2>1 DEF Claims
  <2>3. pair[2] <= process'.number
    BY <2>1 DEF Start
  <2> QED  BY <1>1, <2>1, <2>2, <2>3
<1> QED  BY <1>2 DEF Start, AcceptedByOneProcess

(* What a process accepts is not before its cutoff, so no earlier process    *)
(* accepted it.                                                              *)
LEMMA AcceptKeepsInv ==
  ASSUME Inv, NEW t \in Token, VerifyAccepts(t), TypeOK'
  PROVE  Inv'
<1> USE SkewIsNat DEF Inv, TypeOK
<1>1. token[t] # None /\ token[t] \in Claims
  BY DEF VerifyAccepts, Presented
<1>2. token[t].iat <= host + ClockSkew
  BY <1>1 DEF VerifyAccepts, Presented, InTime, Claims
<1>3. RestartCutoff \in Int /\ ~(token[t].iat < RestartCutoff)
  BY CutoffBeyondSkew, <1>1 DEF VerifyAccepts, Claims
<1>4. AcceptedBeforeCutoff'
  <2>1. RestartCutoff' = RestartCutoff /\ ClockSkew' = ClockSkew
    BY DEF VerifyAccepts, RestartCutoff, Truncate, ClockSkew
  <2> QED  BY <1>1, <1>2, <2>1 DEF VerifyAccepts, AcceptedBeforeCutoff
<1>5. \A pair \in accepted : pair[1] = t => pair = <<t, process.number>>
  <2> SUFFICES ASSUME NEW pair \in accepted, pair[1] = t
               PROVE  pair = <<t, process.number>>
    OBVIOUS
  <2>1. pair[2] <= process.number /\ ~(pair[2] < process.number)
    BY <1>3 DEF AcceptedBeforeCutoff
  <2> QED  BY <2>1
<1> QED  BY <1>4, <1>5 DEF VerifyAccepts, AcceptedByOneProcess

LEMMA InvNext == Inv /\ [Next]_vars => Inv'
<1> SUFFICES ASSUME Inv, [Next]_vars PROVE Inv'
  OBVIOUS
<1> USE SkewIsNat DEF Inv
<1>1. TypeOK'
  BY TypeNext
<1>2. CASE Start
  BY <1>1, <1>2, StartKeepsInv
<1>3. ASSUME NEW t \in Token, VerifyAccepts(t)
      PROVE  Inv'
  BY <1>1, <1>3, AcceptKeepsInv
<1>4. CASE Tick
  <2> SUFFICES ASSUME NEW pair \in accepted
               PROVE  /\ token[pair[1]] # None
                      /\ pair[2] <= process.number
                      /\ token[pair[1]].iat <= host + 1 + ClockSkew
                      /\ pair[2] < process.number => token[pair[1]].iat < RestartCutoff
    BY <1>1, <1>4
       DEF Tick, AcceptedBeforeCutoff, AcceptedByOneProcess, RestartCutoff, Truncate, ClockSkew
  <2>1. token[pair[1]] \in Claims /\ token[pair[1]].iat <= host + ClockSkew
    BY DEF AcceptedBeforeCutoff, TypeOK
  <2> QED  BY <2>1 DEF AcceptedBeforeCutoff, TypeOK, Claims
<1>5. CASE Stop
  BY <1>1, <1>5
     DEF Stop, TypeOK, AcceptedBeforeCutoff, AcceptedByOneProcess, RestartCutoff, Truncate, ClockSkew
<1>6. ASSUME NEW t \in Token, Issue(t)
      PROVE  Inv'
  <2>1. \A pair \in accepted : token'[pair[1]] = token[pair[1]]
    BY <1>6 DEF Issue, TypeOK, AcceptedBeforeCutoff
  <2> QED  BY <1>1, <1>6, <2>1
           DEF Issue, AcceptedBeforeCutoff, AcceptedByOneProcess, RestartCutoff, Truncate, ClockSkew
<1>7. ASSUME NEW t \in Token, VerifyWarmsUp(t)
      PROVE  Inv'
  BY <1>1, <1>7
     DEF VerifyWarmsUp, AcceptedBeforeCutoff, AcceptedByOneProcess, RestartCutoff, Truncate, ClockSkew
<1>8. CASE UNCHANGED vars
  BY <1>1, <1>8
     DEF vars, AcceptedBeforeCutoff, AcceptedByOneProcess, RestartCutoff, Truncate, ClockSkew
<1> QED  BY <1>2, <1>3, <1>4, <1>5, <1>6, <1>7, <1>8 DEF Next

(* Inv holds in every reachable state.                                       *)
THEOREM Invariance == Spec => []Inv
BY InvInit, InvNext, PTL DEF Spec

(* Clocks, claims, acceptances and advice keep their types; in particular    *)
(* the advice given is never in the past of the clock's origin.              *)
THEOREM TypeCorrect == Spec => []TypeOK
<1>1. Inv => TypeOK
  BY DEF Inv
<1> QED  BY <1>1, Invariance, PTL

(* No token passes validation in two processes, wherever in a second the     *)
(* restarts fall and however far GitHub's clock is off within the skew.      *)
THEOREM NoReplayAcrossRestart == Spec => []AcceptedByOneProcess
<1>1. Inv => AcceptedByOneProcess
  BY DEF Inv
<1> QED  BY <1>1, Invariance, PTL
-----------------------------------------------------------------------------
(* Claims are whole seconds: arithmetic on multiples of Second.              *)

(* Truncate rounds down to a multiple of Second, so it does not fall below   *)
(* one that its argument has reached.                                        *)
LEMMA TruncateReaches ==
  ASSUME NEW k \in Int, NEW t \in Int, k * Second <= t
  PROVE  k * Second <= Truncate(t)
<1> DEFINE q == t \div Second
           r == t % Second
<1> USE VerifierAssumption
<1>1. q \in Int /\ r \in 0 .. Second - 1 /\ t = Second * q + r
  OBVIOUS
<1>2. Truncate(t) = Second * q
  BY <1>1 DEF Truncate
<1> HIDE DEF q, r
<1>3. k <= q
  <2> SUFFICES ASSUME q + 1 <= k PROVE FALSE
    BY <1>1
  <2>1. (q + 1) * Second <= k * Second
    BY <1>1
  <2>2. (q + 1) * Second = Second * q + Second
    BY <1>1
  <2> QED  BY <1>1, <2>1, <2>2
<1>4. k * Second <= q * Second
  BY <1>1, <1>3
<1> QED  BY <1>1, <1>2, <1>4

LEMMA TruncateIsWhole ==
  ASSUME NEW t \in Int
  PROVE  \E q \in Int : Truncate(t) = q * Second
<1> DEFINE q == t \div Second
<1> USE VerifierAssumption
<1>1. q \in Int /\ t - (t % Second) = q * Second
  OBVIOUS
<1> HIDE DEF q
<1> QED  BY <1>1 DEF Truncate

(* The cutoff is a whole second.                                             *)
LEMMA CutoffIsWholeSecond ==
  ASSUME TypeOK
  PROVE  \E k \in Int : RestartCutoff = k * Second
<1> USE VerifierAssumption
<1>1. PICK q \in Int : Truncate(process.startedAt) = q * Second
  <2>1. process.startedAt \in Int
    BY DEF TypeOK
  <2> QED  BY <2>1, TruncateIsWhole
<1>2. q * Second + Second = (q + 1) * Second
  OBVIOUS
<1>3. (q + 1) * Second + SkewSeconds * Second = (q + 1 + SkewSeconds) * Second
  OBVIOUS
<1>4. RestartCutoff = (q + 1 + SkewSeconds) * Second
  BY <1>1, <1>2, <1>3 DEF RestartCutoff, ClockSkew
<1>5. q + 1 + SkewSeconds \in Int
  OBVIOUS
<1> QED  BY <1>4, <1>5

(* The header is RetryAfter rounded up to a whole second.                    *)
LEMMA HeaderBounds ==
  ASSUME NEW claims \in Claims, RetryAfter(claims) \in Int
  PROVE  /\ RetryAfterHeader(claims) \in Int
         /\ RetryAfter(claims) <= RetryAfterHeader(claims)
         /\ RetryAfterHeader(claims) < RetryAfter(claims) + Second
<1> DEFINE d == RetryAfter(claims) + Second - 1
           q == d \div Second
           r == d % Second
<1> USE VerifierAssumption
<1>1. d \in Int
  OBVIOUS
<1> HIDE DEF d
<1>2. q \in Int /\ r \in 0 .. Second - 1 /\ d = q * Second + r
  BY <1>1
<1>3. RetryAfterHeader(claims) = q * Second
  BY DEF RetryAfterHeader, d
<1> HIDE DEF q, r
<1>4. q * Second \in Int
  BY <1>2
<1> QED  BY <1>2, <1>3, <1>4 DEF d

-----------------------------------------------------------------------------
(* What the ready time and the advice rest on *)

(* A token's claims are GitHub's clock at its issue, in whole seconds.       *)
IssuedOnGitHubsClock ==
  \A t \in Token : token[t] # None =>
    /\ token[t].iat = Truncate(token[t].issued + offset)
    /\ token[t].nbf = token[t].iat
    /\ token[t].issued <= host

(* By the time a caller was told to come back, GitHub's clock has reached    *)
(* the cutoff.                                                               *)
AdviceReachesCutoff ==
  advice # None =>
    /\ RestartCutoff <= advice + offset
    /\ advice < ConservativeReadyAt + Second

WarmUpInv == TypeOK /\ IssuedOnGitHubsClock /\ AdviceReachesCutoff

(* A token issued once GitHub's clock has reached the cutoff passes the time *)
(* checks of the running process until it expires.                           *)
LEMMA LateEnoughPasses ==
  ASSUME WarmUpInv, NEW t \in Token, Usable(t), RestartCutoff <= token[t].issued + offset
  PROVE  Passes(t)
<1> USE SkewIsNat, VerifierAssumption
<1>1. /\ token[t] \in Claims
      /\ token[t].iat = Truncate(token[t].issued + offset)
      /\ token[t].nbf = token[t].iat
      /\ token[t].issued <= host
  BY DEF WarmUpInv, TypeOK, IssuedOnGitHubsClock, Usable
<1>2. /\ host \in Nat /\ offset \in Int /\ offset <= ClockSkew
      /\ token[t].issued \in Nat /\ token[t].iat \in Int
  BY <1>1 DEF WarmUpInv, TypeOK, Claims
<1>3. token[t].iat <= token[t].issued + offset
  BY <1>1, <1>2, TruncateBounds
<1>4. RestartCutoff <= token[t].iat
  <2>1. PICK k \in Int : RestartCutoff = k * Second
    BY CutoffIsWholeSecond DEF WarmUpInv
  <2>2. token[t].issued + offset \in Int /\ k * Second <= token[t].issued + offset
    BY <1>2, <2>1
  <2> QED  BY <1>1, <2>1, <2>2, TruncateReaches
<1>5. RestartCutoff \in Int
  BY CutoffBeyondSkew DEF WarmUpInv
<1>6. /\ host + ClockSkew >= token[t].iat
      /\ token[t].iat >= RestartCutoff
      /\ host < token[t].exp + ClockSkew
  BY <1>1, <1>2, <1>3, <1>4, <1>5 DEF Usable
<1> QED  BY <1>1, <1>6 DEF Passes, InTime

LEMMA WarmUpInit == Init => WarmUpInv
BY InvInit DEF Inv, Init, WarmUpInv, IssuedOnGitHubsClock, AdviceReachesCutoff

(* The shorter of the two delays is long enough: the token at hand was       *)
(* issued by now, and GitHub's clock is behind by no more than the skew.     *)
LEMMA AdviceIsLateEnough ==
  ASSUME WarmUpInv, NEW t \in Token, VerifyWarmsUp(t)
  PROVE  LET comeBack == host + RetryAfterHeader(token[t])
         IN  /\ comeBack \in Int
             /\ RestartCutoff <= comeBack + offset
             /\ comeBack < ConservativeReadyAt + Second
<1> USE SkewIsNat, VerifierAssumption
<1>1. /\ token[t] \in Claims
      /\ token[t].iat = Truncate(token[t].issued + offset)
      /\ token[t].issued <= host
  BY DEF WarmUpInv, TypeOK, IssuedOnGitHubsClock, VerifyWarmsUp, Presented
<1>2. /\ host \in Nat /\ offset \in Int /\ -ClockSkew <= offset
      /\ token[t].issued \in Nat /\ token[t].iat \in Int
  BY <1>1 DEF WarmUpInv, TypeOK, Claims
<1>3. token[t].iat <= host + offset
  BY <1>1, <1>2, TruncateBounds
<1>4. RestartCutoff \in Int /\ ConservativeReadyAt = RestartCutoff + ClockSkew
  BY CutoffBeyondSkew DEF WarmUpInv, ConservativeReadyAt
<1>5. /\ RetryAfter(token[t]) \in Int
      /\ RetryAfter(token[t]) <= ConservativeReadyAt - host
      /\ RestartCutoff <= host + RetryAfter(token[t]) + offset
  BY <1>2, <1>3, <1>4 DEF RetryAfter, Shorter
<1>6. /\ RetryAfterHeader(token[t]) \in Int
      /\ RetryAfter(token[t]) <= RetryAfterHeader(token[t])
      /\ RetryAfterHeader(token[t]) < RetryAfter(token[t]) + Second
  BY <1>1, <1>5, HeaderBounds
<1> QED  BY <1>2, <1>4, <1>5, <1>6

LEMMA WarmUpNext == WarmUpInv /\ [Next]_vars => WarmUpInv'
<1> SUFFICES ASSUME WarmUpInv, [Next]_vars PROVE WarmUpInv'
  OBVIOUS
<1> USE SkewIsNat, VerifierAssumption DEF WarmUpInv
<1>1. TypeOK'
  BY TypeNext
<1>2. host \in Nat /\ token \in [Token -> Claims \cup {None}]
  BY DEF TypeOK
<1>3. CASE Tick
  <2>1. IssuedOnGitHubsClock'
    <3> SUFFICES ASSUME NEW t \in Token, token[t] # None
                 PROVE  token[t].issued <= host + 1
      BY <1>3 DEF Tick, IssuedOnGitHubsClock, Truncate
    <3> QED  BY <1>2 DEF IssuedOnGitHubsClock, Claims
  <2> QED  BY <1>1, <1>3, <2>1
           DEF Tick, AdviceReachesCutoff, RestartCutoff, ConservativeReadyAt, Truncate, ClockSkew
<1>4. CASE Start
  BY <1>1, <1>4 DEF Start, IssuedOnGitHubsClock, AdviceReachesCutoff, Truncate
<1>5. CASE Stop
  BY <1>1, <1>5 DEF Stop, TypeOK, IssuedOnGitHubsClock, AdviceReachesCutoff, RestartCutoff,
                    ConservativeReadyAt, Truncate, ClockSkew
<1>6. ASSUME NEW t \in Token, Issue(t)
      PROVE  WarmUpInv'
  <2>1. AdviceReachesCutoff'
    BY <1>6 DEF Issue, AdviceReachesCutoff, RestartCutoff, ConservativeReadyAt, Truncate, ClockSkew
  <2>2. IssuedOnGitHubsClock'
    <3> SUFFICES ASSUME NEW s \in Token, token'[s] # None
                 PROVE  /\ token'[s].iat = Truncate(token'[s].issued + offset)
                        /\ token'[s].nbf = token'[s].iat
                        /\ token'[s].issued <= host
      BY <1>6 DEF Issue, IssuedOnGitHubsClock, Truncate
    <3>1. CASE s = t
      BY <1>2, <1>6, <3>1 DEF Issue
    <3>2. CASE s # t
      BY <1>2, <1>6, <3>2 DEF Issue, IssuedOnGitHubsClock
    <3> QED  BY <3>1, <3>2
  <2> QED  BY <1>1, <2>1, <2>2
<1>7. ASSUME NEW t \in Token, VerifyAccepts(t)
      PROVE  WarmUpInv'
  BY <1>1, <1>7 DEF VerifyAccepts, IssuedOnGitHubsClock, AdviceReachesCutoff, RestartCutoff,
                    ConservativeReadyAt, Truncate, ClockSkew
<1>8. ASSUME NEW t \in Token, VerifyWarmsUp(t)
      PROVE  WarmUpInv'
  <2> DEFINE comeBack == host + RetryAfterHeader(token[t])
  <2>1. /\ RestartCutoff <= comeBack + offset
        /\ comeBack < ConservativeReadyAt + Second
    BY <1>8, AdviceIsLateEnough
  <2>2. advice' = comeBack \/ (advice # None /\ advice' = advice)
    BY <1>8 DEF VerifyWarmsUp, Shorter
  <2>3. /\ RestartCutoff <= advice' + offset
        /\ advice' < ConservativeReadyAt + Second
    BY <2>1, <2>2 DEF AdviceReachesCutoff
  <2>4. AdviceReachesCutoff'
    BY <1>8, <2>3 DEF VerifyWarmsUp, AdviceReachesCutoff, RestartCutoff, ConservativeReadyAt,
                      Truncate, ClockSkew
  <2> QED  BY <1>1, <1>8, <2>4 DEF VerifyWarmsUp, IssuedOnGitHubsClock, Truncate
<1>9. CASE UNCHANGED vars
  BY <1>1, <1>9 DEF vars, IssuedOnGitHubsClock, AdviceReachesCutoff, RestartCutoff,
                    ConservativeReadyAt, Truncate, ClockSkew
<1> QED  BY <1>3, <1>4, <1>5, <1>6, <1>7, <1>8, <1>9 DEF Next

(* A token obtained once the conservative ready time has come passes the     *)
(* time checks until it expires, wherever in a second the process started    *)
(* and however far GitHub's clock is behind within the skew.                 *)
THEOREM ReadyTimeHolds == Spec => []ReadyMeansReady
<1>1. WarmUpInv => ReadyMeansReady
  <2> SUFFICES ASSUME WarmUpInv, NEW t \in Token, Usable(t),
                      token[t].issued >= ConservativeReadyAt
               PROVE  Passes(t)
    BY DEF ReadyMeansReady
  <2>1. token[t] \in Claims /\ offset \in Int /\ -ClockSkew <= offset
    BY SkewIsNat DEF WarmUpInv, TypeOK, Usable
  <2>2. RestartCutoff \in Int
    BY CutoffBeyondSkew DEF WarmUpInv
  <2>3. RestartCutoff <= token[t].issued + offset
    BY <2>1, <2>2, SkewIsNat DEF ConservativeReadyAt, Claims
  <2> QED  BY <2>3, LateEnoughPasses
<1> QED  BY <1>1, WarmUpInit, WarmUpNext, PTL DEF Spec

(* A caller that obeys Retry-After and then obtains a new token is not sent  *)
(* away again, and is not kept waiting beyond the ready time by more than    *)
(* the rounding of the header.                                               *)
THEOREM RetryAfterHolds == Spec => []AdviceHolds
<1>1. WarmUpInv => AdviceHolds
  <2> SUFFICES ASSUME WarmUpInv, advice # None
               PROVE  /\ \A t \in Token : Usable(t) /\ token[t].issued >= advice => Passes(t)
                      /\ process.up => advice < ConservativeReadyAt + Second
    BY DEF AdviceHolds
  <2>1. RestartCutoff <= advice + offset /\ advice < ConservativeReadyAt + Second
    BY DEF WarmUpInv, AdviceReachesCutoff
  <2>2. ASSUME NEW t \in Token, Usable(t), token[t].issued >= advice
        PROVE  Passes(t)
    <3>1. /\ token[t] \in Claims /\ offset \in Int /\ advice \in Nat
          /\ RestartCutoff \in Int
      BY <2>2, CutoffBeyondSkew, SkewIsNat DEF WarmUpInv, TypeOK, Usable
    <3>2. RestartCutoff <= token[t].issued + offset
      BY <2>1, <2>2, <3>1 DEF Claims
    <3> QED  BY <2>2, <3>2, LateEnoughPasses
  <2> QED  BY <2>1, <2>2
<1> QED  BY <1>1, WarmUpInit, WarmUpNext, PTL DEF Spec
=============================================================================
