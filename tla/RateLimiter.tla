----------------------------- MODULE RateLimiter -----------------------------
(***************************************************************************)
(* The gateway's RateLimiter (gateway/internal/metrics/metrics.go:131-188):*)
(* a channel that holds up to Rps tokens, a goroutine that adds one token  *)
(* per tick of a ticker, and requests that take one without waiting.       *)
(*                                                                         *)
(* Time is counted in ticks, Rps of them a second.  The ticker's channel   *)
(* holds one tick and drops those its reader is too slow for; a reader     *)
(* that has received a tick may be slow to send its token, so that two     *)
(* ticks wait.  Paths that bypass Allow() (/api/admin/, /metrics, /health) *)
(* touch nothing here, nor does a refused request.                         *)
(***************************************************************************)
EXTENDS Integers

CONSTANTS Rps,      \* rate-limit: tokens of a full bucket, ticks of a second
          MaxTicks  \* bound: ticks of a behaviour

ASSUME RateLimiterAssumption == Rps \in Nat \ {0} /\ MaxTicks \in Nat

VARIABLES
    tokens,    \* tokens in the channel
    pending,   \* ticks in ticker.C
    held,      \* ticks the goroutine has received and not yet turned into a token
    now,       \* ticks since the start
    admitted,  \* requests that took a token
    at         \* history: for every tick so far, how many requests had been admitted by then

vars == << tokens, pending, held, now, admitted, at >>

\* NewRateLimiter fills the channel.
Init ==
    /\ tokens = Rps
    /\ pending = 0
    /\ held = 0
    /\ now = 0
    /\ admitted = 0
    /\ at = [t \in 0 .. 0 |-> 0]

Tick ==
    /\ now < MaxTicks
    /\ now' = now + 1
    /\ pending' = 1
    /\ at' = [t \in 0 .. now + 1 |-> IF t <= now THEN at[t] ELSE admitted]
    /\ UNCHANGED << tokens, held, admitted >>

\* for range ticker.C.
ReceiveTick ==
    /\ pending = 1 /\ held = 0
    /\ pending' = 0
    /\ held' = 1
    /\ UNCHANGED << tokens, now, admitted, at >>

\* The select with a default: a token for a full channel is dropped.
Refill ==
    /\ held = 1
    /\ held' = 0
    /\ tokens' = IF tokens < Rps THEN tokens + 1 ELSE tokens
    /\ UNCHANGED << pending, now, admitted, at >>

\* Variant: a request looks at the channel without taking a token.
AllowPeeking ==
    /\ tokens > 0
    /\ admitted' = admitted + 1
    /\ UNCHANGED << tokens, pending, held, now, at >>

Allow ==
    /\ tokens > 0
    /\ tokens' = tokens - 1
    /\ admitted' = admitted + 1
    /\ UNCHANGED << pending, held, now, at >>

\* The bound on ticks ends a behaviour; the limiter itself never stops.
TimeIsUp == now = MaxTicks /\ UNCHANGED vars

Next == Tick \/ ReceiveTick \/ Refill \/ Allow \/ TimeIsUp

Spec == Init /\ [][Next]_vars

-----------------------------------------------------------------------------
(* Properties.                                                             *)

\* Type invariant; the channel never holds more than its capacity.
TypeOK ==
    /\ tokens \in 0 .. Rps
    /\ pending \in 0 .. 1 /\ held \in 0 .. 1
    /\ now \in 0 .. MaxTicks
    /\ admitted \in Nat
    /\ at \in [0 .. now -> 0 .. admitted]

\* From any tick on, no more requests are admitted than a full bucket, the ticks
\* since then and two more: one the goroutine has received and not yet turned
\* into a token, and the next, which the ticker's channel keeps for it.
BurstBounded == \A t \in 0 .. now : admitted - at[t] <= Rps + 2 + (now - t)

\* What makes BurstBounded inductive: tokens and ticks on their way are
\* admissions still to come.
BudgetKept ==
    \A t \in 0 .. now : admitted + tokens + pending + held <= at[t] + Rps + 2 + (now - t)
=============================================================================
