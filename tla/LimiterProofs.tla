---------------------------- MODULE LimiterProofs ----------------------------
(***************************************************************************)
(* Proofs about RateLimiter: how close together attempts can be allowed,   *)
(* that a refusal is always deserved and that its hint is as good as the   *)
(* code's seconds allow, for any limits, any window and any lag between a  *)
(* call's clock reading and its critical section.                          *)
(***************************************************************************)
EXTENDS RateLimiter, TLAPS

(* A call is not older than Lag when it is served. *)
CallsFresh == \A d \in calls : d.at <= now /\ now <= d.at + Lag

(* Of the attempts p allowed for a scope, the current bucket, started at u, *)
(* counts the last c: the first of these has this index.                   *)
First(p, c) == Len(p) - c + 1

(* The attempts are in the order they were counted, none is later than t,   *)
(* and those of the current bucket were counted since it was started.      *)
Counted(p, c, u, t) ==
  /\ \A i, j \in 1 .. Len(p) : i <= j => p[i] <= p[j]
  /\ \A i \in 1 .. Len(p) : p[i] <= t
  /\ c <= Len(p)
  /\ c = 0 => Len(p) = 0
  /\ u <= t
  /\ c > 0 => u <= p[First(p, c)] /\ p[First(p, c)] <= u + Lag

(* Whatever was allowed before the previous bucket could fill up is older   *)
(* than the current one by a window.                                       *)
Earlier(p, c, u, L) ==
  \A i \in 1 .. Len(p) : i <= First(p, c) - L => p[i] + Window <= u + Lag

Apart(p, L) ==
  \A i \in 1 .. Len(p) :
    i + 2 * L - 1 <= Len(p) => p[i] + Window <= p[i + 2 * L - 1] + Lag

Paced(p, c, u, L, t) == Counted(p, c, u, t) /\ Earlier(p, c, u, L) /\ Apart(p, L)

ScopeInv(s) == Paced(passed[s], buckets[s].count, buckets[s].started, Limit[s], now)

LimiterInv == CallsFresh /\ \A s \in Scopes : ScopeInv(s)

------------------------------------------------------------------------------
(* Types.                                                                  *)

LEMMA BucketTyped ==
  ASSUME LimiterTypeOK, NEW s \in Scopes, NEW t \in Nat
  PROVE  /\ BucketAt(s, t) \in Bucket
         /\ BucketAt(s, t) = Restarted(t) \/ BucketAt(s, t) = buckets[s]
  BY DEF LimiterTypeOK, BucketAt, Bucket, Restarted

LEMMA RetryTyped ==
  ASSUME NEW b \in Bucket, NEW t \in Nat PROVE RetryAfter(b, t) \in Nat
<1> DEFINE whole == (Window - Elapsed(b, t)) \div Second
<1>1. whole \in Int
  BY LimiterAssumption DEF Elapsed, Bucket
<1>2. QED
  BY <1>1 DEF RetryAfter

LEMMA LimiterTypeInit == LimiterInit => LimiterTypeOK
  BY LimiterAssumption DEF LimiterInit, LimiterTypeOK, Bucket, Allow

LEMMA LimiterTypeStep == LimiterTypeOK /\ [LimiterNext]_limiterVars => LimiterTypeOK'
<1> SUFFICES ASSUME LimiterTypeOK, [LimiterNext]_limiterVars PROVE LimiterTypeOK'
  OBVIOUS
<1> USE LimiterAssumption
<1>1. ASSUME NEW c \in Callers, NEW s \in Scopes, ReadClock(c, s) PROVE LimiterTypeOK'
  BY <1>1 DEF ReadClock, LimiterTypeOK, Call
<1>2. ASSUME NEW d \in calls, Pass(d) PROVE LimiterTypeOK'
  <2>1. d \in Call /\ d.scope \in Scopes /\ d.by \in Callers /\ d.at \in Nat
    BY DEF LimiterTypeOK, Call
  <2> DEFINE b == BucketAt(d.scope, d.at)
  <2>2. b \in Bucket
    BY <2>1, BucketTyped
  <2>3. b.count < Limit[d.scope]
    BY <1>2 DEF Pass, Under
  <2> HIDE DEF b
  <2>4. buckets' = [buckets EXCEPT ![d.scope] = [started |-> b.started, count |-> b.count + 1]]
    BY <1>2 DEF Pass, b
  <2>5. buckets' \in [Scopes -> Bucket] /\ \A s \in Scopes : buckets'[s].count <= Limit[s]
    BY <2>1, <2>2, <2>3, <2>4 DEF LimiterTypeOK, Bucket
  <2>6. passed' \in [Scopes -> Seq(Nat)]
    BY <1>2, <2>1 DEF Pass, LimiterTypeOK
  <2>7. answer' \in [Callers -> [allow : BOOLEAN, retry : Nat]]
    BY <1>2, <2>1 DEF Pass, LimiterTypeOK, Allow
  <2>8. now' \in Nat /\ calls' \subseteq Call
    BY <1>2 DEF Pass, LimiterTypeOK
  <2>9. QED
    BY <2>5, <2>6, <2>7, <2>8 DEF LimiterTypeOK
<1>3. ASSUME NEW d \in calls, Refuse(d) PROVE LimiterTypeOK'
  <2>1. d.by \in Callers /\ d.scope \in Scopes /\ d.at \in Nat
    BY DEF LimiterTypeOK, Call
  <2>2. RetryAfter(BucketAt(d.scope, d.at), d.at) \in Nat
    BY <2>1, BucketTyped, RetryTyped
  <2>3. answer' \in [Callers -> [allow : BOOLEAN, retry : Nat]]
    BY <1>3, <2>1, <2>2 DEF Refuse, LimiterTypeOK, Deny
  <2>4. QED
    BY <1>3, <2>3 DEF Refuse, LimiterTypeOK
<1>4. CASE Tick
  BY <1>4 DEF Tick, LimiterTypeOK
<1>5. CASE UNCHANGED limiterVars
  BY <1>5 DEF limiterVars, LimiterTypeOK
<1>6. QED
  BY <1>1, <1>2, <1>3, <1>4, <1>5 DEF LimiterNext

(* No bucket counts more attempts than its limit.                          *)
THEOREM LimiterTypeCorrect == LimiterSpec => []LimiterTypeOK
  BY LimiterTypeInit, LimiterTypeStep, PTL DEF LimiterSpec

------------------------------------------------------------------------------
(* The step that counts an attempt.                                        *)

(* Counting an attempt at t whose call read the clock at r, in the same     *)
(* bucket or in a fresh one, keeps the attempts paced.                     *)
LEMMA PacedGrows ==
  ASSUME NEW p \in Seq(Nat), NEW L \in Nat \ {0},
         NEW c \in Nat, NEW u \in Nat, NEW d \in Nat, NEW v \in Nat,
         NEW t \in Nat, NEW r \in Nat, r <= t, t <= r + Lag,
         c <= L, d < L, Paced(p, c, u, L, t),
         \/ d = c /\ v = u /\ c > 0
         \/ d = 0 /\ v = r /\ (c = 0 \/ r >= u + Window)
  PROVE  Paced(Append(p, t), d + 1, v, L, t)
<1> DEFINE n == Len(p)
           q == Append(p, t)
<1>0. n \in Nat
  OBVIOUS
<1>1. /\ n \in Nat /\ Window \in Nat \ {0} /\ Lag \in Nat
      /\ \A i \in 1 .. n : p[i] \in Nat
  BY LimiterAssumption
<1>2. /\ Len(q) = n + 1 /\ q[n + 1] = t
      /\ \A i \in 1 .. n : q[i] = p[i]
      /\ \A i \in 1 .. n + 1 : q[i] \in Nat
  BY <1>1
<1>3. /\ \A i, j \in 1 .. n : i <= j => p[i] <= p[j]
      /\ \A i \in 1 .. n : p[i] <= t
      /\ c <= n /\ (c = 0 => n = 0) /\ u <= t
      /\ c > 0 => u <= p[n - c + 1] /\ p[n - c + 1] <= u + Lag
      /\ \A i \in 1 .. n : i <= n - c + 1 - L => p[i] + Window <= u + Lag
      /\ \A i \in 1 .. n : i + 2 * L - 1 <= n => p[i] + Window <= p[i + 2 * L - 1] + Lag
  BY DEF Paced, Counted, Earlier, Apart, First
<1> HIDE DEF n, q
<1>4. First(q, d + 1) = n - d + 1
  BY <1>1, <1>2 DEF First
<1>5. Counted(q, d + 1, v, t)
  <2>1. ASSUME NEW i \in 1 .. n + 1, NEW j \in 1 .. n + 1, i <= j PROVE q[i] <= q[j]
    <3>1. CASE j \in 1 .. n
      <4>1. i \in 1 .. n
        BY <1>0, <2>1, <3>1
      <4>2. QED
        BY <1>2, <1>3, <2>1, <3>1, <4>1
    <3>2. CASE j = n + 1 /\ i \in 1 .. n
      BY <1>2, <1>3, <3>2
    <3>3. CASE j = n + 1 /\ i = n + 1
      BY <1>2, <3>3
    <3>4. j \in 1 .. n \/ (j = n + 1 /\ i \in 1 .. n) \/ (j = n + 1 /\ i = n + 1)
      BY <1>0, <2>1
    <3>5. QED
      BY <3>1, <3>2, <3>3, <3>4
  <2>2. \A i \in 1 .. n + 1 : q[i] <= t
    BY <1>0, <1>2, <2>1
  <2>3. v <= t /\ d <= n
    BY <1>1, <1>3
  <2>4. v <= q[n - d + 1] /\ q[n - d + 1] <= v + Lag
    <3>1. CASE d = c /\ v = u /\ c > 0
      <4>1. n - c + 1 \in 1 .. n
        BY <1>1, <1>3, <3>1
      <4>2. QED
        BY <1>2, <1>3, <3>1, <4>1
    <3>2. CASE d = 0 /\ v = r
      BY <1>1, <1>2, <3>2
    <3>3. QED
      BY <3>1, <3>2
  <2>5. QED
    BY <1>1, <1>2, <1>4, <2>1, <2>2, <2>3, <2>4 DEF Counted
<1>6. \A i \in 1 .. n : i <= n - d + 1 - L => p[i] + Window <= v + Lag
  <2> SUFFICES ASSUME NEW i \in 1 .. n, i <= n - d + 1 - L
               PROVE  p[i] + Window <= v + Lag
    OBVIOUS
  <2>1. CASE d = c /\ v = u /\ c > 0
    BY <1>3, <2>1
  <2>2. CASE d = 0 /\ v = r /\ c > 0 /\ r >= u + Window
    <3>1. n - c + 1 \in 1 .. n /\ i <= n - c + 1
      BY <1>1, <1>3, <2>2
    <3>2. p[i] <= p[n - c + 1] /\ p[n - c + 1] <= u + Lag
      BY <1>3, <2>2, <3>1
    <3>3. p[i] \in Nat /\ p[n - c + 1] \in Nat
      BY <1>1, <3>1
    <3>4. QED
      BY <1>1, <2>2, <3>2, <3>3
  <2>3. CASE c = 0
    BY <1>1, <1>3, <2>3
  <2>4. QED
    BY <2>1, <2>2, <2>3
<1>7. Earlier(q, d + 1, v, L)
  <2>1. ASSUME NEW i \in 1 .. n + 1, i <= n - d + 1 - L
        PROVE  q[i] + Window <= v + Lag
    <3>1. i \in 1 .. n
      BY <1>0, <2>1
    <3>2. QED
      BY <1>2, <1>6, <2>1, <3>1
  <2>2. QED
    BY <1>0, <1>2, <1>4, <2>1 DEF Earlier
<1>8. Apart(q, L)
  <2> SUFFICES ASSUME NEW i \in 1 .. n + 1, i + 2 * L - 1 <= n + 1
               PROVE  q[i] + Window <= q[i + 2 * L - 1] + Lag
    BY <1>2 DEF Apart
  <2>1. i \in 1 .. n /\ p[i] \in Nat /\ q[i] = p[i]
    BY <1>1, <1>2
  <2>2. CASE i + 2 * L - 1 <= n
    <3>1. i + 2 * L - 1 \in 1 .. n
      BY <1>1, <2>1, <2>2
    <3>2. QED
      BY <1>2, <1>3, <2>1, <2>2, <3>1
  <2>3. CASE i + 2 * L - 1 = n + 1
    <3>1. i <= n - d + 1 - L
      BY <1>1, <2>3
    <3>2. p[i] + Window <= v + Lag /\ v <= t
      BY <1>3, <1>6, <2>1, <3>1
    <3>3. q[i + 2 * L - 1] = t
      BY <1>2, <2>3
    <3>4. p[i] + Window <= t + Lag
      BY <1>1, <2>1, <3>2
    <3>5. QED
      BY <2>1, <3>3, <3>4
  <2>4. QED
    BY <1>1, <2>2, <2>3
<1>9. QED
  BY <1>5, <1>7, <1>8 DEF Paced, q

LEMMA PassStep ==
  ASSUME LimiterTypeOK, LimiterInv, NEW d \in calls, Pass(d)
  PROVE  ScopeInv(d.scope)'
<1> DEFINE s == d.scope
           b == BucketAt(s, d.at)
<1>1. /\ s \in Scopes /\ d.at \in Nat /\ d.at <= now /\ now <= d.at + Lag
      /\ now \in Nat /\ passed[s] \in Seq(Nat) /\ Limit[s] \in Nat \ {0}
      /\ buckets[s] \in Bucket /\ buckets[s].count <= Limit[s]
  BY LimiterAssumption DEF LimiterTypeOK, LimiterInv, CallsFresh, Call
<1>2. b \in Bucket /\ b.count < Limit[s]
  BY <1>1, BucketTyped DEF Pass, Under
<1>3. \/ b.count = buckets[s].count /\ b.started = buckets[s].started /\ buckets[s].count > 0
      \/ /\ b.count = 0 /\ b.started = d.at
         /\ buckets[s].count = 0 \/ d.at >= buckets[s].started + Window
  BY <1>1, LimiterAssumption DEF BucketAt, Elapsed, Restarted, Bucket
<1>4. Paced(passed[s], buckets[s].count, buckets[s].started, Limit[s], now)
  BY <1>1 DEF LimiterInv, ScopeInv
<1> HIDE DEF b
<1>5. Paced(Append(passed[s], now), b.count + 1, b.started, Limit[s], now)
  BY <1>1, <1>2, <1>3, <1>4, PacedGrows DEF Bucket
<1>6. /\ passed'[s] = Append(passed[s], now) /\ now' = now
      /\ buckets'[s] = [started |-> b.started, count |-> b.count + 1]
  BY <1>1 DEF Pass, LimiterTypeOK, b
<1>7. QED
  BY <1>5, <1>6 DEF ScopeInv

------------------------------------------------------------------------------
LEMMA LimiterInvInit == LimiterInit => LimiterInv
  BY LimiterAssumption
  DEF LimiterInit, LimiterInv, CallsFresh, ScopeInv, Paced, Counted, Earlier, Apart

(* What the other steps leave alone.                                       *)
LEMMA ScopeKept ==
  ASSUME LimiterTypeOK, LimiterTypeOK', NEW s \in Scopes, ScopeInv(s),
         passed'[s] = passed[s], buckets'[s] = buckets[s], now <= now'
  PROVE  ScopeInv(s)'
<1>1. /\ passed[s] \in Seq(Nat) /\ now \in Nat /\ now' \in Nat
      /\ buckets[s].started \in Nat
  BY DEF LimiterTypeOK, Bucket
<1>2. \A i \in 1 .. Len(passed[s]) : passed[s][i] \in Nat
  BY <1>1
<1>3. QED
  BY <1>1, <1>2 DEF ScopeInv, Paced, Counted

LEMMA LimiterInvStep ==
  LimiterTypeOK /\ LimiterTypeOK' /\ LimiterInv /\ [LimiterNext]_limiterVars => LimiterInv'
<1> SUFFICES ASSUME LimiterTypeOK, LimiterTypeOK', LimiterInv, [LimiterNext]_limiterVars
             PROVE  LimiterInv'
  OBVIOUS
<1>1. ASSUME NEW c \in Callers, NEW s \in Scopes, ReadClock(c, s) PROVE LimiterInv'
  <2>1. CallsFresh'
    BY <1>1, LimiterAssumption DEF ReadClock, LimiterInv, CallsFresh, LimiterTypeOK
  <2>2. \A x \in Scopes : ScopeInv(x)'
    BY <1>1, ScopeKept DEF ReadClock, LimiterInv, LimiterTypeOK
  <2>3. QED
    BY <2>1, <2>2 DEF LimiterInv
<1>2. ASSUME NEW d \in calls, Pass(d) PROVE LimiterInv'
  <2>1. CallsFresh'
    BY <1>2 DEF Pass, LimiterInv, CallsFresh
  <2>2. ScopeInv(d.scope)'
    BY <1>2, PassStep
  <2>3. ASSUME NEW x \in Scopes, x # d.scope PROVE ScopeInv(x)'
    <3>1. passed'[x] = passed[x] /\ buckets'[x] = buckets[x]
      BY <1>2, <2>3 DEF Pass, LimiterTypeOK
    <3>2. now <= now'
      BY <1>2 DEF Pass, LimiterTypeOK
    <3>3. QED
      BY <3>1, <3>2, ScopeKept DEF LimiterInv
  <2>4. QED
    BY <2>1, <2>2, <2>3 DEF LimiterInv
<1>3. ASSUME NEW d \in calls, Refuse(d) PROVE LimiterInv'
  <2>1. CallsFresh'
    BY <1>3 DEF Refuse, LimiterInv, CallsFresh
  <2>2. \A x \in Scopes : ScopeInv(x)'
    BY <1>3, ScopeKept DEF Refuse, LimiterInv, LimiterTypeOK
  <2>3. QED
    BY <2>1, <2>2 DEF LimiterInv
<1>4. CASE Tick
  <2>1. CallsFresh'
    BY <1>4, LimiterAssumption DEF Tick, LimiterInv, CallsFresh, LimiterTypeOK, Call
  <2>2. \A x \in Scopes : ScopeInv(x)'
    BY <1>4, ScopeKept DEF Tick, LimiterInv, LimiterTypeOK
  <2>3. QED
    BY <2>1, <2>2 DEF LimiterInv
<1>5. CASE UNCHANGED limiterVars
  <2>1. CallsFresh'
    BY <1>5 DEF limiterVars, LimiterInv, CallsFresh
  <2>2. \A x \in Scopes : ScopeInv(x)'
    BY <1>5, ScopeKept DEF limiterVars, LimiterInv, LimiterTypeOK
  <2>3. QED
    BY <2>1, <2>2 DEF LimiterInv
<1>6. QED
  BY <1>1, <1>2, <1>3, <1>4, <1>5 DEF LimiterNext

LEMMA LimiterInvHolds == LimiterSpec => [](LimiterTypeOK /\ LimiterInv)
  BY LimiterTypeInit, LimiterTypeStep, LimiterInvInit, LimiterInvStep, PTL DEF LimiterSpec

(* No more than two windows' worth of attempts, less one, are allowed       *)
(* within a window less the lag.                                           *)
THEOREM TwoWindowsApartCorrect == LimiterSpec => []TwoWindowsApart
<1>1. LimiterInv => TwoWindowsApart
  BY DEF LimiterInv, ScopeInv, Paced, Apart, TwoWindowsApart
<1>2. QED
  BY <1>1, LimiterInvHolds, PTL

(* A refusal: the bucket is full, is not run out, and is left as it is.     *)
LEMMA Refusals ==
  ASSUME LimiterTypeOK, [LimiterNext]_limiterVars,
         NEW d \in calls, d \notin calls', ~answer'[d.by].allow
  PROVE  /\ d \in Call /\ Refuse(d)
         /\ BucketAt(d.scope, d.at) = buckets[d.scope]
         /\ d.at < buckets[d.scope].started + Window
         /\ buckets[d.scope].count = Limit[d.scope]
<1>1. d \in Call /\ d.by \in Callers /\ d.scope \in Scopes /\ d.at \in Nat
  BY DEF LimiterTypeOK, Call
<1>2. ~Pass(d)
  BY <1>1 DEF Pass, Allow, LimiterTypeOK
<1>3. Refuse(d)
  BY <1>2 DEF LimiterNext, ReadClock, Pass, Refuse, Tick, limiterVars
<1> DEFINE s == d.scope
           b == BucketAt(s, d.at)
<1>4. b.count >= Limit[s] /\ Limit[s] \in Nat \ {0}
  BY <1>1, <1>3, LimiterAssumption, BucketTyped DEF Refuse, Under, Bucket
<1>5. buckets[s] \in Bucket /\ buckets[s].count <= Limit[s] /\ Window \in Nat \ {0}
  BY <1>1, LimiterAssumption DEF LimiterTypeOK
<1>6. b = buckets[s] /\ d.at < buckets[s].started + Window
  BY <1>1, <1>4, <1>5 DEF BucketAt, Restarted, Elapsed, Bucket
<1>7. buckets[s].count = Limit[s]
  BY <1>4, <1>5, <1>6 DEF Bucket
<1> QED
  BY <1>1, <1>3, <1>6, <1>7

(* A refusal is always due to attempts on the same scope within a window.  *)
THEOREM RefusalDeservedCorrect == LimiterSpec => RefusalDeserved
<1> DEFINE Deserved ==
      \A d \in calls : d \notin calls' /\ ~answer'[d.by].allow =>
        LET n == Len(passed[d.scope])
            L == Limit[d.scope]
        IN n >= L /\ d.at < passed[d.scope][n - L + 1] + Window
<1>1. LimiterTypeOK /\ LimiterInv /\ [LimiterNext]_limiterVars => Deserved
  <2> SUFFICES ASSUME LimiterTypeOK, LimiterInv, [LimiterNext]_limiterVars,
                      NEW d \in calls, d \notin calls', ~answer'[d.by].allow
               PROVE  LET n == Len(passed[d.scope])
                          L == Limit[d.scope]
                      IN n >= L /\ d.at < passed[d.scope][n - L + 1] + Window
    OBVIOUS
  <2> DEFINE s == d.scope
             n == Len(passed[s])
  <2>1. /\ s \in Scopes /\ d.at \in Nat /\ n \in Nat
        /\ buckets[s] \in Bucket /\ Limit[s] \in Nat \ {0} /\ Window \in Nat
    BY LimiterAssumption DEF LimiterTypeOK, Call
  <2>2. buckets[s].count = Limit[s] /\ d.at < buckets[s].started + Window
    BY Refusals
  <2>3. Counted(passed[s], buckets[s].count, buckets[s].started, now)
    BY <2>1 DEF LimiterInv, ScopeInv, Paced
  <2>4. n >= Limit[s] /\ buckets[s].started <= passed[s][n - Limit[s] + 1]
    BY <2>1, <2>2, <2>3 DEF Counted, First
  <2>5. passed[s][n - Limit[s] + 1] \in Nat /\ buckets[s].started \in Nat
    BY <2>1, <2>4 DEF LimiterTypeOK, Bucket
  <2> HIDE DEF s, n
  <2>6. n >= Limit[s] /\ d.at < passed[s][n - Limit[s] + 1] + Window
    BY <2>1, <2>2, <2>4, <2>5
  <2> QED
    BY <2>6 DEF s, n
<1>2. QED
  BY <1>1, LimiterInvHolds, PTL DEF LimiterSpec, RefusalDeserved

(* x is less than the next multiple of k above it.                         *)
LEMMA NextMultiple ==
  ASSUME NEW x \in Nat, NEW k \in Nat \ {0}
  PROVE  x \div k \in Nat /\ x < ((x \div k) + 1) * k
<1>1. x \div k \in Nat
  OBVIOUS
<1>2. x < ((x \div k) + 1) * k
  OBVIOUS
<1> QED
  BY <1>1, <1>2

LEMMA Monotone ==
  ASSUME NEW a \in Nat, NEW b \in Nat, NEW k \in Nat, a <= b PROVE a * k <= b * k
  OBVIOUS

(* One second more than the hint is enough, however seconds and windows     *)
(* divide: the part of a second that the hint drops is less than one.       *)
THEOREM HintSufficesCorrect == LimiterSpec => HintSuffices
<1> DEFINE Suffices ==
      \A d \in calls : d \notin calls' /\ ~answer'[d.by].allow =>
        buckets[d.scope].started + Window < now + (answer'[d.by].retry + 1) * Second
<1>1. LimiterTypeOK /\ LimiterInv /\ [LimiterNext]_limiterVars => Suffices
  <2> SUFFICES ASSUME LimiterTypeOK, LimiterInv, [LimiterNext]_limiterVars,
                      NEW d \in calls, d \notin calls', ~answer'[d.by].allow
               PROVE  buckets[d.scope].started + Window < now + (answer'[d.by].retry + 1) * Second
    OBVIOUS
  <2> DEFINE s == d.scope
             b == buckets[s]
             left == Window - Elapsed(b, d.at)
             whole == left \div Second
             retry == answer'[d.by].retry
  <2>1. /\ s \in Scopes /\ d.at \in Nat /\ d.by \in Callers /\ b \in Bucket
        /\ now \in Nat /\ Window \in Nat /\ Second \in Nat \ {0}
    BY LimiterAssumption DEF LimiterTypeOK, Call
  <2>2. d.at < b.started + Window /\ BucketAt(s, d.at) = b /\ Refuse(d)
    BY Refusals
  <2>3. d.at <= now /\ b.started <= now
    BY <2>1 DEF LimiterInv, CallsFresh, ScopeInv, Paced, Counted
  <2>4. left \in Nat /\ b.started + Window <= now + left
    BY <2>1, <2>2, <2>3 DEF Elapsed, Bucket
  <2>5. retry = IF whole > 1 THEN whole ELSE 1
    BY <2>1, <2>2 DEF Refuse, RetryAfter, Deny, LimiterTypeOK
  <2> HIDE DEF left, retry
  <2>6. whole \in Nat /\ left < (whole + 1) * Second
    BY <2>1, <2>4, NextMultiple
  <2> HIDE DEF whole
  <2>7. retry \in Nat /\ whole + 1 <= retry + 1 /\ whole + 1 \in Nat /\ retry + 1 \in Nat
    BY <2>5, <2>6
  <2>8. (whole + 1) * Second <= (retry + 1) * Second
    BY <2>1, <2>7, Monotone
  <2> DEFINE x == (whole + 1) * Second
             y == (retry + 1) * Second
  <2>9. x \in Nat /\ y \in Nat /\ b.started \in Nat
    BY <2>1, <2>7 DEF Bucket
  <2>10. left < x /\ x <= y
    BY <2>6, <2>8
  <2> HIDE DEF x, y, b
  <2>11. b.started + Window < now + y
    BY <2>1, <2>4, <2>9, <2>10
  <2> QED
    BY <2>11 DEF y, b, s, retry
<1>2. QED
  BY <1>1, LimiterInvHolds, PTL DEF LimiterSpec, HintSuffices

==============================================================================
