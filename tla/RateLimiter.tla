----------------------------- MODULE RateLimiter -----------------------------
(***************************************************************************)
(* The in-memory rate limiter of the server                                *)
(* (crates/meet-server/src/middleware/rate_limit.rs), which join requests   *)
(* and chat messages pass before anything else is done for them.           *)
(*                                                                         *)
(* A call reads the clock and only then enters the critical section, so    *)
(* calls may be served in another order than that of their clock readings. *)
(* Time is counted in ticks, Second of them to a second, because the hint  *)
(* given with a refusal is in whole seconds.                               *)
(***************************************************************************)
EXTENDS Integers, Sequences

CONSTANTS
  Callers,   (* threads that serve requests                                *)
  Scopes,    (* keys of the table: (address, room) and chat:<pid>          *)
  Limit,     (* Limit[s]: JOIN_LIMIT or CHAT_LIMIT, 5 and 20 in the code   *)
  Window,    (* JOIN_WINDOW and CHAT_WINDOW, a minute in the code          *)
  Second,    (* ticks in a second                                          *)
  Lag,       (* bound on the ticks between the clock reading and the lock  *)
  MaxTime    (* bound on the clock, for model checking                     *)

ASSUME LimiterAssumption ==
  /\ Limit \in [Scopes -> Nat \ {0}]
  /\ Window \in Nat \ {0}
  /\ Second \in Nat \ {0}
  /\ Lag \in Nat
  /\ MaxTime \in Nat

VARIABLES
  now,      (* the monotonic clock                                         *)
  calls,    (* calls of check that have read the clock, before the lock    *)
  buckets,  (* buckets[s]: the entry of the table, count 0 if there is none *)
  answer,   (* answer[c]: the last decision handed to c                    *)
  passed    (* history: when the attempts allowed for s were counted       *)

limiterVars == <<now, calls, buckets, answer, passed>>

Call   == [by : Callers, scope : Scopes, at : Nat]
Bucket == [started : Nat, count : Nat]

Allow       == [allow |-> TRUE, retry |-> 0]
Deny(retry) == [allow |-> FALSE, retry |-> retry]

LimiterInit ==
  /\ now = 0
  /\ calls = {}
  /\ buckets = [s \in Scopes |-> [started |-> 0, count |-> 0]]
  /\ answer = [c \in Callers |-> Allow]
  /\ passed = [s \in Scopes |-> <<>>]

------------------------------------------------------------------------------
(* check.                                                                  *)

ReadClock(c, s) ==
  /\ \A d \in calls : d.by # c
  /\ calls' = calls \cup {[by |-> c, scope |-> s, at |-> now]}
  /\ UNCHANGED <<now, buckets, answer, passed>>

(* duration_since saturates when the bucket was started by a later reading. *)
Elapsed(b, t) == IF t > b.started THEN t - b.started ELSE 0

Restarted(t) == [started |-> t, count |-> 0]

(* [Mutant: a full bucket is never restarted by the clock, only an absent   *)
(* one is started.]                                                        *)
BucketForGood(s, t) == IF buckets[s].count = 0 THEN Restarted(t) ELSE buckets[s]

(* [Mutant: the window is taken to be over a tick early.] *)
BucketCutShort(s, t) ==
  IF buckets[s].count = 0 \/ Elapsed(buckets[s], t) >= Window - 1
    THEN Restarted(t) ELSE buckets[s]

BucketAt(s, t) ==
  IF buckets[s].count = 0 \/ Elapsed(buckets[s], t) >= Window
    THEN Restarted(t) ELSE buckets[s]

(* [Mutant: the hint is the whole part of what has elapsed.] *)
RetryOfElapsed(b, t) ==
  LET whole == Elapsed(b, t) \div Second IN IF whole > 1 THEN whole ELSE 1

(* as_secs drops the fraction; max(1).                                      *)
RetryAfter(b, t) ==
  LET whole == (Window - Elapsed(b, t)) \div Second
  IN IF whole > 1 THEN whole ELSE 1

(* [Mutant: one attempt too many.] *)
UnderOrAt(b, s) == b.count <= Limit[s]

Under(b, s) == b.count < Limit[s]

Pass(d) ==
  LET b == BucketAt(d.scope, d.at) IN
  /\ Under(b, d.scope)
  /\ calls' = calls \ {d}
  /\ buckets' = [buckets EXCEPT ![d.scope] = [started |-> b.started, count |-> b.count + 1]]
  /\ answer' = [answer EXCEPT ![d.by] = Allow]
  /\ passed' = [passed EXCEPT ![d.scope] = Append(@, now)]
  /\ UNCHANGED now

Refuse(d) ==
  LET b == BucketAt(d.scope, d.at) IN
  /\ ~Under(b, d.scope)
  /\ calls' = calls \ {d}
  /\ answer' = [answer EXCEPT ![d.by] = Deny(RetryAfter(b, d.at))]
  /\ UNCHANGED <<now, buckets, passed>>

Tick ==
  /\ now < MaxTime
  /\ \A d \in calls : now < d.at + Lag
  /\ now' = now + 1
  /\ UNCHANGED <<calls, buckets, answer, passed>>

LimiterNext ==
  \/ \E c \in Callers, s \in Scopes : ReadClock(c, s)
  \/ \E d \in calls : Pass(d) \/ Refuse(d)
  \/ Tick

LimiterSpec == LimiterInit /\ [][LimiterNext]_limiterVars

------------------------------------------------------------------------------
(* Properties.                                                             *)

(* A bucket never counts more attempts than the limit.                     *)
LimiterTypeOK ==
  /\ now \in Nat
  /\ calls \subseteq Call
  /\ buckets \in [Scopes -> Bucket]
  /\ \A s \in Scopes : buckets[s].count <= Limit[s]
  /\ answer \in [Callers -> [allow : BOOLEAN, retry : Nat]]
  /\ passed \in [Scopes -> Seq(Nat)]

(* The limit is per fixed window, so two windows' worth of attempts may     *)
(* come close together, but no more: among 2L attempts allowed in a row the *)
(* last is counted a window after the first, less the longest time a call   *)
(* may sit between reading the clock and entering the critical section.     *)
TwoWindowsApart ==
  \A s \in Scopes : \A i \in 1 .. Len(passed[s]) :
    LET j == i + 2 * Limit[s] - 1
    IN j <= Len(passed[s]) => passed[s][i] + Window <= passed[s][j] + Lag

(* A call is refused only if as many attempts as the limit have been        *)
(* counted for its own scope within the last window: nobody is locked out   *)
(* by attempts on another room, from another address, or of long ago.       *)
RefusalDeserved ==
  [][\A d \in calls : d \notin calls' /\ ~answer'[d.by].allow =>
       LET n == Len(passed[d.scope])
           L == Limit[d.scope]
       IN n >= L /\ d.at < passed[d.scope][n - L + 1] + Window]_limiterVars

(* One second more than the hint given with a refusal is enough: by then    *)
(* the bucket that refused has run out.                                    *)
HintSuffices ==
  [][\A d \in calls : d \notin calls' /\ ~answer'[d.by].allow =>
       buckets[d.scope].started + Window < now + (answer'[d.by].retry + 1) * Second]_limiterVars

==============================================================================
