------------------------- MODULE RateLimiterProofs -------------------------
(***************************************************************************)
(* The token bucket keeps its promise for every rate, burst and clock, and *)
(* a synchronous logger uses it as it is meant to be used.                 *)
(***************************************************************************)
EXTENDS SyncLogger, TLAPS

\* What a rate earns in two adjacent spans of time is what it earns in both.
LEMMA Earned ==
  ASSUME NEW p \in Nat, NEW l \in Nat, NEW t \in Nat, NEW r \in Nat
  PROVE  /\ (l - p) * r + (t - l) * r = (t - p) * r
         /\ (l - p) * r \in Int /\ (t - l) * r \in Int /\ (t - p) * r \in Int
<1> DEFINE a == l - p
           b == t - l
<1>1. a \in Int /\ b \in Int /\ t - p = a + b
  OBVIOUS
<1> HIDE DEF a, b
<1>2. a * r + b * r = (a + b) * r /\ a * r \in Int /\ b * r \in Int /\ (a + b) * r \in Int
  BY <1>1
<1> QED
  BY <1>1, <1>2 DEF a, b

\* A span of time earns nothing negative, and an empty one nothing.
LEMMA EarnedNat ==
  ASSUME NEW l \in Nat, NEW t \in Nat, NEW r \in Nat, l <= t
  PROVE  (t - l) * r \in Nat /\ (t = l => (t - l) * r = 0)
<1> DEFINE b == t - l
<1>1. b \in Nat /\ (t = l => b = 0)
  OBVIOUS
<1> HIDE DEF b
<1>2. b * r \in Nat /\ (b = 0 => b * r = 0)
  BY <1>1
<1> QED
  BY <1>1, <1>2 DEF b

\* The numbers of the bucket.
LEMMA Fields ==
  ASSUME RlInv
  PROVE  /\ rl.tokens \in Nat /\ rl.max \in Nat /\ rl.rate \in Nat /\ rl.last \in Nat /\ rl.count \in Nat
         /\ now \in Nat /\ rl.last <= now /\ rl.tokens <= rl.max
BY DEF RlInv, RlTypeOK, Bucket, BudgetInv

\* The history of the passes.
LEMMA Passes ==
  ASSUME RlInv
  PROVE  /\ passes \in Seq(Nat) /\ Len(passes) \in Nat /\ DOMAIN passes = 1 .. Len(passes)
         /\ \A i \in 1 .. Len(passes) : passes[i] \in Nat /\ passes[i] <= rl.last /\ passes[i] <= now
<1>1. passes \in Seq(Nat)
  BY DEF RlInv, RlTypeOK
<1>2. Len(passes) \in Nat /\ DOMAIN passes = 1 .. Len(passes) /\ \A i \in 1 .. Len(passes) : passes[i] \in Nat
  BY <1>1
<1>3. \A i \in 1 .. Len(passes) : passes[i] <= rl.last
  BY <1>2 DEF RlInv, BudgetInv
<1>4. ASSUME NEW p \in Nat, p <= rl.last PROVE p <= now
  BY <1>4, Fields
<1> QED
  BY <1>1, <1>2, <1>3, <1>4

\* The budget of a window after a refill.
LEMMA WindowGrows ==
  ASSUME NEW c \in Int, NEW n \in Nat, NEW m \in Nat, NEW max \in Nat,
         NEW p \in Nat, NEW l \in Nat, NEW t \in Nat, NEW r \in Nat,
         c + n <= max + (l - p) * r, m <= n + (t - l) * r
  PROVE  c + m <= max + (t - p) * r
<1> DEFINE a == (l - p) * r
           b == (t - l) * r
           w == (t - p) * r
<1>1. a + b = w /\ a \in Int /\ b \in Int /\ w \in Int /\ c + n <= max + a /\ m <= n + b
  BY Earned
<1> HIDE DEF a, b, w
<1>2. c + m <= max + w
  BY <1>1
<1> QED
  BY <1>2 DEF w

\* The refill earns at most the rate, and does not overfill the bucket.
LEMMA RefillBounded ==
  ASSUME RlInv
  PROVE  /\ Refilled \in Bucket /\ Refilled.tokens \in Nat
         /\ Refilled.max = rl.max /\ Refilled.rate = rl.rate
         /\ Refilled.count = rl.count /\ Refilled.last = now
         /\ Refilled.tokens <= rl.max /\ Refilled.tokens <= rl.tokens + (now - rl.last) * rl.rate
<1> DEFINE grown == rl.tokens + (now - rl.last) * rl.rate
<1>1. grown \in Nat /\ (now = rl.last => grown = rl.tokens)
  <2> DEFINE earned == (now - rl.last) * rl.rate
  <2>1. earned \in Nat /\ (now = rl.last => earned = 0)
    BY Fields, EarnedNat
  <2> HIDE DEF earned
  <2>2. rl.tokens + earned \in Nat /\ (now = rl.last => rl.tokens + earned = rl.tokens)
    BY <2>1, Fields
  <2> QED
    BY <2>2 DEF earned
<1>2. Refilled = IF now > rl.last
                   THEN [rl EXCEPT !.tokens = IF grown > rl.max THEN rl.max ELSE grown, !.last = now]
                   ELSE rl
  BY DEF Refilled
<1> HIDE DEF grown
<1>3. rl \in Bucket
  BY DEF RlInv, RlTypeOK
<1>4. CASE now > rl.last
  <2> DEFINE filled == IF grown > rl.max THEN rl.max ELSE grown
  <2>1. filled \in Nat /\ filled <= rl.max /\ filled <= grown
    BY <1>1, Fields
  <2>2. Refilled = [rl EXCEPT !.tokens = filled, !.last = now]
    BY <1>2, <1>4
  <2> HIDE DEF filled
  <2>3. now \in Nat
    BY Fields
  <2>4. /\ Refilled \in Bucket
        /\ Refilled.max = rl.max /\ Refilled.rate = rl.rate
        /\ Refilled.count = rl.count /\ Refilled.last = now /\ Refilled.tokens = filled
    BY <1>3, <2>1, <2>2, <2>3, Zenon DEF Bucket
  <2> QED
    BY <2>1, <2>4 DEF grown
<1>5. CASE ~(now > rl.last)
  <2>1. now = rl.last
    BY <1>5, Fields
  <2>2. Refilled = rl
    BY <1>2, <1>5
  <2>3. rl.tokens \in Nat /\ rl.tokens <= rl.max /\ rl.tokens <= grown
    BY <1>1, <2>1, Fields
  <2> QED
    BY <1>3, <2>1, <2>2, <2>3 DEF grown
<1> QED
  BY <1>4, <1>5

\* The refill keeps the budget of every window.
LEMMA RefillKeeps ==
  ASSUME RlInv, NEW i \in 1 .. Len(passes)
  PROVE  (Len(passes) - i + 1) * Token + Refilled.tokens <= rl.max + (now - passes[i]) * rl.rate
<1> DEFINE calls == (Len(passes) - i + 1) * Token
<1>1. passes[i] \in Nat /\ i \in DOMAIN passes
  BY Passes
<1>2. calls + rl.tokens <= rl.max + (rl.last - passes[i]) * rl.rate
  BY <1>1, Zenon DEF RlInv, BudgetInv
<1>3. calls \in Int
  BY Passes DEF Token
<1> HIDE DEF calls
<1>4. rl.tokens \in Nat /\ rl.max \in Nat /\ rl.rate \in Nat /\ rl.last \in Nat /\ now \in Nat
  BY Fields
<1>5. Refilled.tokens <= rl.tokens + (now - rl.last) * rl.rate /\ Refilled.tokens \in Nat
  BY RefillBounded
<1>6. calls + Refilled.tokens <= rl.max + (now - passes[i]) * rl.rate
  BY <1>1, <1>2, <1>3, <1>4, <1>5, WindowGrows, Zenon
<1> QED
  BY <1>6 DEF calls

\* A window that ends now, after one more call has passed.
LEMMA WindowPays ==
  ASSUME NEW c \in Int, NEW m \in Nat, NEW k \in Nat, NEW max \in Nat, NEW w \in Int,
         c * Token + m <= max + w, k = m - Token
  PROVE  (c + 1) * Token + k <= max + w /\ (c + 1) * Token <= max + w
BY DEF Token

\* A call that passes: the new window ends now, and every older window is as it was.
LEMMA PassKeeps ==
  ASSUME RlInv, Pass, now' = now
  PROVE  RlInv'
<1> DEFINE n == Len(passes)
<1>1. passes \in Seq(Nat) /\ n \in Nat /\ now \in Nat /\ DOMAIN passes = 1 .. n
  BY Passes, Fields
<1>2. /\ passes' = Append(passes, now) /\ passes' \in Seq(Nat) /\ Len(passes') = n + 1
      /\ DOMAIN passes' = 1 .. n + 1 /\ passes'[n + 1] = now
      /\ \A i \in 1 .. n : passes'[i] = passes[i]
  BY <1>1 DEF Pass
<1>3. rl' = [Refilled EXCEPT !.tokens = Refilled.tokens - Token, !.count = 0]
  BY DEF Pass, TakeToken
<1>4. Refilled.tokens - Token \in Nat
  BY RefillBounded DEF Pass, Allowed, Token
<1>5. Refilled \in Bucket
  BY RefillBounded
<1>6. /\ rl' \in Bucket /\ rl'.tokens = Refilled.tokens - Token /\ rl'.count = 0
      /\ rl'.max = Refilled.max /\ rl'.rate = Refilled.rate /\ rl'.last = Refilled.last
  <2>1. 0 \in Nat
    OBVIOUS
  <2> QED
    BY <1>3, <1>4, <1>5, <2>1, Zenon DEF Bucket
<1>7. rl'.max = rl.max /\ rl'.rate = rl.rate /\ rl'.last = now
  BY <1>6, RefillBounded
<1>8. RlTypeOK' /\ SuppressedOnce'
  <2>1. suppressed' = [suppressed EXCEPT !.handed = suppressed.handed + rl.count]
    BY DEF Pass
  <2>2. suppressed \in [ever : Nat, handed : Nat, forgotten : Nat] /\ rl.count \in Nat
    BY Fields DEF RlInv, RlTypeOK
  <2>3. /\ suppressed' \in [ever : Nat, handed : Nat, forgotten : Nat]
        /\ suppressed'.ever = suppressed.ever /\ suppressed'.forgotten = suppressed.forgotten
        /\ suppressed'.handed = suppressed.handed + rl.count
    BY <2>1, <2>2
  <2> QED
    BY <1>1, <1>2, <1>6, <2>2, <2>3 DEF RlInv, RlTypeOK, SuppressedOnce
<1>9. ASSUME NEW i \in 1 .. n
      PROVE  /\ (n - i + 2) * Token + rl'.tokens <= rl.max + (now - passes[i]) * rl.rate
             /\ (n - i + 2) * Token <= rl.max + (now - passes[i]) * rl.rate
  <2> DEFINE w == (now - passes[i]) * rl.rate
             c == n - i + 1
  <2>1. c * Token + Refilled.tokens <= rl.max + w
    BY RefillKeeps
  <2>2. passes[i] \in Nat /\ rl.rate \in Nat /\ now \in Nat /\ rl.max \in Nat
    BY Passes, Fields
  <2>3. w \in Int
    BY <2>2, Earned
  <2>4. c \in Int /\ n - i + 2 = c + 1
    BY <1>1
  <2> HIDE DEF w, c
  <2>5. Refilled.tokens \in Nat
    BY RefillBounded
  <2>6. (c + 1) * Token + rl'.tokens <= rl.max + w /\ (c + 1) * Token <= rl.max + w
    BY <1>4, <1>6, <2>1, <2>2, <2>3, <2>4, <2>5, WindowPays
  <2> QED
    BY <2>4, <2>6 DEF w
<1>10. Token + rl'.tokens <= rl.max /\ Token <= rl.max /\ rl'.tokens <= rl.max
  BY <1>4, <1>6, RefillBounded, Fields DEF Token
<1>11. (now - now) * rl.rate = 0
  BY Fields, EarnedNat
<1>12. BudgetInv'
  <2>1. ASSUME NEW i \in 1 .. n + 1
        PROVE  /\ passes'[i] <= now
               /\ ((n + 1) - i + 1) * Token + rl'.tokens <= rl.max + (now - passes'[i]) * rl.rate
    <3>1. CASE i = n + 1
      <4>1. ((n + 1) - i + 1) * Token + rl'.tokens <= rl.max + 0
        BY <1>1, <1>4, <1>6, <1>10, <3>1, Fields DEF Token
      <4> QED
        BY <1>1, <1>2, <1>11, <3>1, <4>1
    <3>2. CASE i \in 1 .. n
      <4>1. (n + 1) - i + 1 = n - i + 2 /\ passes'[i] = passes[i] /\ passes[i] <= now
        BY <1>1, <1>2, <3>2, Passes
      <4> QED
        BY <1>9, <3>2, <4>1
    <3> QED
      BY <1>1, <3>1, <3>2
  <2>2. ASSUME NEW i \in 1 .. n + 1, NEW j \in 1 .. n + 1, i <= j
        PROVE  (j - i + 1) * Token <= rl.max + (passes'[j] - passes'[i]) * rl.rate
    <3>1. CASE j = n + 1 /\ i = n + 1
      <4>1. (j - i + 1) * Token <= rl.max + 0
        BY <1>1, <1>10, <3>1, Fields DEF Token
      <4> QED
        BY <1>2, <1>11, <3>1, <4>1
    <3>2. CASE j = n + 1 /\ i \in 1 .. n
      <4>1. j - i + 1 = n - i + 2 /\ passes'[i] = passes[i] /\ passes'[j] = now
        BY <1>1, <1>2, <3>2
      <4> QED
        BY <1>9, <3>2, <4>1
    <3>3. CASE j \in 1 .. n
      <4>1. i \in 1 .. n /\ passes'[i] = passes[i] /\ passes'[j] = passes[j]
        BY <1>1, <1>2, <2>2, <3>3
      <4> QED
        BY <1>1, <2>2, <3>3, <4>1, Zenon DEF RlInv, BudgetInv
    <3> QED
      BY <1>1, <2>2, <3>1, <3>2, <3>3
  <2>3. rl'.tokens <= rl'.max /\ rl'.last <= now'
    BY <1>1, <1>7, <1>10
  <2> QED
    <3>1. ASSUME NEW i \in DOMAIN passes'
          PROVE  /\ passes'[i] <= rl'.last
                 /\ (Len(passes') - i + 1) * Token + rl'.tokens
                      <= rl'.max + (rl'.last - passes'[i]) * rl'.rate
      <4>1. i \in 1 .. n + 1
        BY <1>2
      <4>2. /\ passes'[i] <= now
            /\ ((n + 1) - i + 1) * Token + rl'.tokens <= rl.max + (now - passes'[i]) * rl.rate
        BY <2>1, <4>1
      <4>3. Len(passes') = n + 1 /\ rl'.last = now /\ rl'.max = rl.max /\ rl'.rate = rl.rate
        BY <1>2, <1>7
      <4> HIDE DEF n
      <4> QED
        BY <4>2, <4>3, Zenon
    <3>2. ASSUME NEW i \in DOMAIN passes', NEW j \in DOMAIN passes', i <= j
          PROVE  (j - i + 1) * Token <= rl'.max + (passes'[j] - passes'[i]) * rl'.rate
      BY <1>2, <1>7, <2>2, <3>2, Zenon
    <3> QED
      BY <2>3, <3>1, <3>2, Zenon DEF BudgetInv
<1> QED
  BY <1>8, <1>12 DEF RlInv

\* A call that is suppressed: only the refill.
LEMMA DenyKeeps ==
  ASSUME RlInv, Deny, now' = now
  PROVE  RlInv'
<1>1. rl' = [Refilled EXCEPT !.count = Refilled.count + 1, !.total = Refilled.total + 1]
  BY DEF Deny
<1>2. Refilled \in Bucket
  BY RefillBounded
<1>3. Refilled.count + 1 \in Nat /\ Refilled.total + 1 \in Nat
  BY <1>2 DEF Bucket
<1>4. /\ rl' \in Bucket /\ rl'.tokens = Refilled.tokens /\ rl'.count = Refilled.count + 1
      /\ rl'.max = Refilled.max /\ rl'.rate = Refilled.rate /\ rl'.last = Refilled.last
  BY <1>1, <1>2, <1>3, Zenon DEF Bucket
<1>5. /\ rl'.max = rl.max /\ rl'.rate = rl.rate /\ rl'.last = now /\ rl'.count = rl.count + 1
      /\ rl'.tokens <= rl.max
  BY <1>4, RefillBounded
<1>6. RlTypeOK' /\ SuppressedOnce'
  <2>1. suppressed' = [suppressed EXCEPT !.ever = suppressed.ever + 1] /\ passes' = passes
    BY DEF Deny
  <2>2. suppressed \in [ever : Nat, handed : Nat, forgotten : Nat] /\ rl.count \in Nat
    BY Fields DEF RlInv, RlTypeOK
  <2>3. /\ suppressed' \in [ever : Nat, handed : Nat, forgotten : Nat]
        /\ suppressed'.ever = suppressed.ever + 1
        /\ suppressed'.handed = suppressed.handed /\ suppressed'.forgotten = suppressed.forgotten
    BY <2>1, <2>2
  <2>4. suppressed.ever = rl.count + suppressed.handed + suppressed.forgotten
    BY DEF RlInv, SuppressedOnce
  <2>5. SuppressedOnce'
    BY <1>5, <2>2, <2>3, <2>4 DEF SuppressedOnce
  <2> QED
    BY <1>4, <2>1, <2>3, <2>5 DEF RlInv, RlTypeOK
<1>7. BudgetInv'
  <2>1. passes' = passes /\ DOMAIN passes = 1 .. Len(passes) /\ now \in Nat
    BY Passes, Fields DEF Deny
  <2>2. \A i \in 1 .. Len(passes) :
          /\ passes[i] <= now
          /\ (Len(passes) - i + 1) * Token + rl'.tokens <= rl.max + (now - passes[i]) * rl.rate
    BY <1>4, Passes, RefillKeeps, Zenon
  <2>3. \A i, j \in DOMAIN passes :
          i <= j => (j - i + 1) * Token <= rl.max + (passes[j] - passes[i]) * rl.rate
    BY DEF RlInv, BudgetInv
  <2>4. now' <= now /\ now <= now'
    BY <2>1
  <2> QED
    BY <1>5, <2>1, <2>2, <2>3, <2>4, Zenon DEF BudgetInv
<1> QED
  BY <1>6, <1>7 DEF RlInv

\* A bucket filled or emptied anew: there is no window yet, and the count is forgotten.
LEMMA FreshKeeps ==
  ASSUME RlInv, now' = now, rl' \in Bucket, rl'.tokens <= rl'.max, rl'.last <= now, rl'.count = 0,
         passes' = <<>>, suppressed' = [suppressed EXCEPT !.forgotten = suppressed.forgotten + rl.count]
  PROVE  RlInv'
<1>1. suppressed \in [ever : Nat, handed : Nat, forgotten : Nat] /\ rl.count \in Nat /\ now \in Nat
  BY Fields DEF RlInv, RlTypeOK
<1>2. /\ suppressed' \in [ever : Nat, handed : Nat, forgotten : Nat]
      /\ suppressed'.ever = suppressed.ever /\ suppressed'.handed = suppressed.handed
      /\ suppressed'.forgotten = suppressed.forgotten + rl.count
  BY <1>1
<1>3. suppressed.ever = rl.count + suppressed.handed + suppressed.forgotten
  BY DEF RlInv, SuppressedOnce
<1>4. SuppressedOnce'
  BY <1>1, <1>2, <1>3 DEF SuppressedOnce
<1>5. DOMAIN passes' = {} /\ passes' \in Seq(Nat)
  OBVIOUS
<1>6. RlTypeOK' /\ BudgetInv'
  BY <1>1, <1>2, <1>5 DEF RlTypeOK, BudgetInv
<1> QED
  BY <1>4, <1>6 DEF RlInv

\* log_rate_limit_init_for keeps the invariant.
LEMMA InitForKeeps ==
  ASSUME RlInv, NEW enable \in BOOLEAN, NEW perSec \in Int, NEW burst \in Int,
         InitFor(enable, perSec, burst), now' = now
  PROVE  RlInv'
<1>1. rl \in Bucket /\ now \in Nat
  BY DEF RlInv, RlTypeOK
<1>2. CASE enable /\ perSec > 0 /\ burst > 0
  <2> DEFINE full == burst * Token
  <2>1. full \in Nat /\ perSec \in Nat /\ 0 \in Nat /\ full <= full /\ now <= now
    BY <1>1, <1>2 DEF Token
  <2>2. /\ rl' = [rl EXCEPT !.enabled = TRUE, !.max = full, !.tokens = full,
                            !.rate = perSec, !.last = now, !.count = 0]
        /\ passes' = <<>>
        /\ suppressed' = [suppressed EXCEPT !.forgotten = suppressed.forgotten + rl.count]
    BY <1>2 DEF InitFor
  <2> HIDE DEF full
  <2>3. rl' \in Bucket /\ rl'.tokens = full /\ rl'.max = full /\ rl'.last = now /\ rl'.count = 0
    BY <1>1, <2>1, <2>2, Zenon DEF Bucket
  <2> QED
    BY <2>1, <2>2, <2>3, FreshKeeps, Zenon
<1>3. CASE ~(enable /\ perSec > 0 /\ burst > 0)
  <2>1. rl' = [rl EXCEPT !.enabled = FALSE] /\ passes' = passes /\ suppressed' = suppressed
    BY <1>3 DEF InitFor
  <2>2. /\ rl' \in Bucket /\ rl'.tokens = rl.tokens /\ rl'.max = rl.max /\ rl'.rate = rl.rate
        /\ rl'.last = rl.last /\ rl'.count = rl.count
    BY <1>1, <2>1, Zenon DEF Bucket
  <2>3. RlTypeOK' /\ SuppressedOnce'
    BY <2>1, <2>2, Zenon DEF RlInv, RlTypeOK, SuppressedOnce
  <2>4. BudgetInv'
    BY <2>1, <2>2, Zenon DEF RlInv, BudgetInv
  <2> QED
    BY <2>3, <2>4 DEF RlInv
<1> QED
  BY <1>2, <1>3

\* Every call, and time, keep the invariant.
LEMMA RlStep == RlInv /\ [RlNext]_rlVars => RlInv'
<1> SUFFICES ASSUME RlInv, [RlNext]_rlVars PROVE RlInv'
  OBVIOUS
<1>1. CASE Tick
  <2>1. rl' = rl /\ passes' = passes /\ suppressed' = suppressed /\ now' = now + 1
    BY <1>1 DEF Tick
  <2>2. now' \in Nat /\ rl.last <= now'
    BY <2>1, Fields
  <2> QED
    BY <2>1, <2>2, Zenon DEF RlInv, RlTypeOK, BudgetInv, SuppressedOnce
<1>2. CASE ResetFor /\ now' = now
  <2>1. /\ rl' = EmptyBucket /\ passes' = <<>>
        /\ suppressed' = [suppressed EXCEPT !.forgotten = suppressed.forgotten + rl.count]
    BY <1>2 DEF ResetFor
  <2>2. EmptyBucket \in Bucket /\ EmptyBucket.tokens <= EmptyBucket.max /\ EmptyBucket.count = 0
    BY DEF EmptyBucket, Bucket
  <2>3. EmptyBucket.last <= now
    BY Fields DEF EmptyBucket
  <2> QED
    BY <1>2, <2>1, <2>2, <2>3, FreshKeeps
<1>3. CASE UNCHANGED rlVars
  BY <1>3 DEF rlVars, RlInv, RlTypeOK, BudgetInv, SuppressedOnce
<1> QED
  BY <1>1, <1>2, <1>3, InitForKeeps, PassKeeps, DenyKeeps DEF RlNext

\* A logger without a bucket.
LEMMA RlInitial == RlInit => RlInv
<1> SUFFICES ASSUME RlInit PROVE RlInv
  OBVIOUS
<1>1. rl \in Bucket /\ now \in Nat /\ rl.tokens <= rl.max /\ rl.last <= now
  BY DEF RlInit, EmptyBucket, Bucket
<1>2. passes \in Seq(Nat) /\ DOMAIN passes = {}
  BY DEF RlInit
<1>3. suppressed \in [ever : Nat, handed : Nat, forgotten : Nat] /\ SuppressedOnce
  BY DEF RlInit, EmptyBucket, SuppressedOnce
<1> QED
  BY <1>1, <1>2, <1>3 DEF RlInv, RlTypeOK, BudgetInv

\* The bucket of log_rate_limit_allow_for lets no window of time have more calls than the
\* burst and the rate allow, and counts every suppressed message once, whatever the rate,
\* the burst, the clock and the order of the calls.
THEOREM BucketPromise == RlSpec => [](WithinBudget /\ SuppressedOnce)
<1>1. RlInv => WithinBudget /\ SuppressedOnce
  BY DEF RlInv, BudgetInv, WithinBudget
<1> QED
  BY <1>1, RlInitial, RlStep, PTL DEF RlSpec

-----------------------------------------------------------------------------
\* The configuration in force is one that was read, or the one of a fresh logger.
ConfigRead == config \in Configs \cup {NoConfig}

\* Every step of the logger is a call of the bucket, time, or none of its business.
LEMMA SyncUsesBucket ==
  ASSUME ConfigRead, [SyncNext]_<<syncVars, rlVars, dispatcherVars>>
  PROVE  ConfigRead' /\ [RlNext]_rlVars
<1>1. ASSUME NEW t \in Writers,
             Write(t) \/ LimitEnabled(t) \/ Send(t) \/ SendStep(t)
      PROVE  ConfigRead' /\ UNCHANGED rlVars
  BY <1>1 DEF ConfigRead, Write, LimitEnabled, Send, SendStep, syncVars
<1>2. ASSUME NEW t \in Writers, Limit(t)
      PROVE  ConfigRead' /\ [RlNext]_rlVars
  BY <1>2 DEF ConfigRead, Limit, RlNext, rlVars
<1>3. ASSUME LogInit \/ LogReload
      PROVE  ConfigRead' /\ UNCHANGED rlVars
  BY <1>3 DEF ConfigRead, LogInit, LogReload
<1>4. CASE SetLimit
  <2>1. config.limit \in BOOLEAN /\ config.perSec \in Int /\ config.burst \in Int
    <3>1. CASE config \in Configs
      BY <3>1, ConfigsAssumption
    <3>2. CASE config = NoConfig
      BY <3>2 DEF NoConfig
    <3> QED
      BY <3>1, <3>2 DEF ConfigRead
  <2>2. InitFor(config.limit, config.perSec, config.burst) /\ now' = now /\ config' = config
    BY <1>4 DEF SetLimit
  <2> QED
    BY <2>1, <2>2 DEF ConfigRead, RlNext
<1>5. ASSUME InitSinks \/ ReloadBuild \/ ReloadCommit \/ ReloadDestroy \/ LogDestroy
             \/ LogAddSink \/ LogRemoveSink
      PROVE  ConfigRead' /\ UNCHANGED rlVars
  BY <1>5 DEF ConfigRead, InitSinks, ReloadBuild, ReloadCommit, ReloadDestroy, LogDestroy,
              LogAddSink, LogRemoveSink
<1>6. CASE DestroyRest
  BY <1>6 DEF ConfigRead, DestroyRest, RlNext, rlVars
<1>7. CASE Tick /\ UNCHANGED <<syncVars, dispatcherVars>>
  BY <1>7 DEF ConfigRead, RlNext, syncVars
<1>8. CASE UNCHANGED <<syncVars, rlVars, dispatcherVars>>
  BY <1>8 DEF ConfigRead, syncVars
<1> QED
  BY <1>1, <1>2, <1>3, <1>4, <1>5, <1>6, <1>7, <1>8 DEF SyncNext

\* A synchronous logger implements the token bucket: logging threads, reloads, destroy
\* and the clock do to the rl_* fields only what log_rate_limit_init_for, _reset_for and
\* _allow_for do.
THEOREM LoggerUsesBucket == SyncSpec => RlSpec
<1>1. SyncInit => RlInit /\ ConfigRead
  BY DEF SyncInit, ConfigRead
<1>2. ConfigRead /\ [SyncNext]_<<syncVars, rlVars, dispatcherVars>> => ConfigRead' /\ [RlNext]_rlVars
  BY SyncUsesBucket
<1> QED
  BY <1>1, <1>2, PTL DEF SyncSpec, RlSpec

\* However many threads log while the logger is reloaded and destroyed, the limit holds in
\* every window of time.
THEOREM LoggerWithinBudget == SyncSpec => []WithinBudget
BY LoggerUsesBucket, BucketPromise, PTL

\* And every suppressed message is in exactly one summary, still counted, or forgotten by
\* a re-initialisation.
THEOREM LoggerSuppressedOnce == SyncSpec => []SuppressedOnce
BY LoggerUsesBucket, BucketPromise, PTL
=============================================================================
