---------------------------- MODULE RateLimiter ----------------------------
(***************************************************************************)
(* The token bucket of one logger (core/rate_limit.c).  The bucket counts  *)
(* in thousandths of a token, so that max_per_sec messages a second are    *)
(* exactly max_per_sec thousandths a millisecond.  Every operation but the *)
(* first test of log_rate_limit_allow_for runs under rl_mutex and is one   *)
(* step; who calls them is in SyncLogger.                                  *)
(***************************************************************************)
EXTENDS Integers, Sequences

CONSTANTS
  MaxTime          \* bound on the clock, in milliseconds

VARIABLES
  rl,              \* the rl_* fields of the logger
  now,             \* clog_get_now_ms: the monotonic clock
  passes,          \* history: when the bucket let a call pass, since it was last filled by init
  suppressed       \* history: messages suppressed, those told in a summary, those forgotten

rlVars == <<rl, now, passes, suppressed>>

Token == 1000

EmptyBucket ==
  [enabled |-> FALSE, tokens |-> 0, max |-> 0, rate |-> 0, last |-> 0, count |-> 0, total |-> 0]

RlInit ==
  /\ rl = EmptyBucket
  /\ now = 1
  /\ passes = <<>>
  /\ suppressed = [ever |-> 0, handed |-> 0, forgotten |-> 0]

Tick == now < MaxTime /\ now' = now + 1 /\ UNCHANGED <<rl, passes, suppressed>>

(***************************************************************************)
(* log_rate_limit_init_for: a full bucket, or the limiter switched off     *)
(* with everything else left as it was.  The messages suppressed and not   *)
(* yet told are forgotten.                                                 *)
(***************************************************************************)
InitFor(enable, perSec, burst) ==
  IF enable /\ perSec > 0 /\ burst > 0
    THEN /\ rl' = [rl EXCEPT !.enabled = TRUE, !.max = burst * Token, !.tokens = burst * Token,
                             !.rate = perSec, !.last = now, !.count = 0]
         /\ passes' = <<>>
         /\ suppressed' = [suppressed EXCEPT !.forgotten = @ + rl.count]
    ELSE rl' = [rl EXCEPT !.enabled = FALSE] /\ UNCHANGED <<passes, suppressed>>

ResetFor ==
  /\ rl' = EmptyBucket
  /\ passes' = <<>>
  /\ suppressed' = [suppressed EXCEPT !.forgotten = @ + rl.count]

(***************************************************************************)
(* The refill of log_rate_limit_allow_for.                                 *)
(***************************************************************************)
RefillUncapped ==
  IF now > rl.last THEN [rl EXCEPT !.tokens = @ + (now - rl.last) * rl.rate, !.last = now] ELSE rl

Refilled ==
  LET grown == rl.tokens + (now - rl.last) * rl.rate IN
  IF now > rl.last
    THEN [rl EXCEPT !.tokens = IF grown > rl.max THEN rl.max ELSE grown, !.last = now]
    ELSE rl

Allowed == Refilled.tokens >= Token

KeepCount == rl' = [Refilled EXCEPT !.tokens = @ - Token]

TakeToken == rl' = [Refilled EXCEPT !.tokens = @ - Token, !.count = 0]

\* A call passes; the caller is handed the count of what was suppressed before it.
Pass ==
  /\ Allowed
  /\ TakeToken
  /\ passes' = Append(passes, now)
  /\ suppressed' = [suppressed EXCEPT !.handed = @ + rl.count]

Deny ==
  /\ ~Allowed
  /\ rl' = [Refilled EXCEPT !.count = @ + 1, !.total = @ + 1]
  /\ suppressed' = [suppressed EXCEPT !.ever = @ + 1]
  /\ UNCHANGED passes

(***************************************************************************)
(* Any order of these calls, the clock running between them.               *)
(***************************************************************************)
RlNext ==
  \/ Tick
  \/ /\ \/ \E enable \in BOOLEAN, perSec, burst \in Int : InitFor(enable, perSec, burst)
        \/ ResetFor
        \/ rl.enabled /\ (Pass \/ Deny)
     /\ UNCHANGED now

RlSpec == RlInit /\ [][RlNext]_rlVars

(***************************************************************************)
(* The promise of a token bucket, whatever the interleaving of the callers *)
(* and of re-initialisations: in every window of time the calls let pass   *)
(* are at most the burst and what the rate earns in that window.           *)
(***************************************************************************)
WithinBudget ==
  rl.enabled =>
    \A i, j \in DOMAIN passes :
      i <= j => (j - i + 1) * Token <= rl.max + (passes[j] - passes[i]) * rl.rate

(***************************************************************************)
(* No suppressed message is counted twice or vanishes from the summaries:  *)
(* each is still counted in rl_suppressed_count, or was handed to exactly  *)
(* one later caller for its summary, or was dropped by a re-initialisation *)
(* or reset.                                                               *)
(***************************************************************************)
SuppressedOnce == suppressed.ever = rl.count + suppressed.handed + suppressed.forgotten

(***************************************************************************)
(* Why the promise holds: a pass pays with a token for every later window  *)
(* that begins at or before it, so what the bucket still holds is part of  *)
(* the same budget.                                                        *)
(***************************************************************************)
Bucket ==
  [enabled : BOOLEAN, tokens : Nat, max : Nat, rate : Nat, last : Nat, count : Nat, total : Nat]

RlTypeOK ==
  /\ rl \in Bucket
  /\ now \in Nat
  /\ passes \in Seq(Nat)
  /\ suppressed \in [ever : Nat, handed : Nat, forgotten : Nat]

BudgetInv ==
  /\ rl.tokens <= rl.max
  /\ rl.last <= now
  /\ \A i \in DOMAIN passes :
       /\ passes[i] <= rl.last
       /\ (Len(passes) - i + 1) * Token + rl.tokens <= rl.max + (rl.last - passes[i]) * rl.rate
  /\ \A i, j \in DOMAIN passes :
       i <= j => (j - i + 1) * Token <= rl.max + (passes[j] - passes[i]) * rl.rate

RlInv == RlTypeOK /\ BudgetInv /\ SuppressedOnce
=============================================================================
