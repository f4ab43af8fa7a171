----------------------------- MODULE RoomsProofs -----------------------------
(***************************************************************************)
(* Proofs about Rooms: the handlers use the rate limiter as RateLimiter    *)
(* specifies it, so that what is proved of the limiter holds for joins;    *)
(* deleted rooms stay shut; and who is in a room is on record.             *)
(***************************************************************************)
EXTENDS Rooms, LimiterProofs, FiniteSetTheorems

LEMMA RoomsCases ==
  ASSUME NEW P, RoomsNext,
         ASSUME NEW q \in Callers, JoinStep(q) PROVE P,
         ASSUME NEW a \in Admins, AdminStep(a) PROVE P,
         ASSUME NEW q \in Requests, CommonStep(q) PROVE P,
         ASSUME NEW k \in Sockets, SocketStep(k) PROVE P,
         ASSUME TimePasses PROVE P,
         ASSUME RoomsDone PROVE P
  PROVE  P
  BY DEF RoomsNext

(* What a join request does is a step of the limiter, or none; all else    *)
(* leaves the limiter alone.                                               *)
LEMMA JoinStepMaps ==
  ASSUME NEW q \in Callers, JoinStep(q)
  PROVE  [LimiterNext]_limiterVars
<1>1. CASE \E s \in Scopes, k \in BOOLEAN : Arrive(q, s, k)
  BY <1>1 DEF Arrive, LimiterNext
<1>2. CASE LimitPassed(q) \/ LimitHit(q)
  BY <1>2 DEF LimitPassed, LimitHit, LimiterNext
<1>3. CASE Lookup(q) \/ UnsealFails(q) \/ Vouch(q) \/ WrongPassword(q)
  BY <1>3 DEF Lookup, UnsealFails, Vouch, Expiry, WrongPassword
<1>4. QED
  BY <1>1, <1>2, <1>3 DEF JoinStep

LEMMA StepMaps == [RoomsNext]_roomsVars => [LimiterNext]_limiterVars
<1> SUFFICES ASSUME RoomsNext PROVE [LimiterNext]_limiterVars
  BY DEF roomsVars
<1>1. ASSUME NEW a \in Admins, AdminStep(a) PROVE UNCHANGED limiterVars
  BY <1>1 DEF AdminStep, Reject, Create, Insert, Delete, Remove
<1>2. ASSUME NEW q \in Requests, CommonStep(q) PROVE UNCHANGED limiterVars
  BY <1>2 DEF CommonStep, Record, Respond, Drop
<1>3. ASSUME NEW k \in Sockets, SocketStep(k) PROVE UNCHANGED limiterVars
  BY <1>3 DEF SocketStep, Present, FindRoom, Admit, TurnAway
<1>4. CASE TimePasses
  BY <1>4 DEF TimePasses, LimiterNext
<1>5. CASE RoomsDone
  BY <1>5 DEF RoomsDone, roomsVars
<1>6. QED
  BY JoinStepMaps, <1>1, <1>2, <1>3, <1>4, <1>5 DEF RoomsNext

(* The join endpoint uses the limiter as specified: every behaviour of the *)
(* rooms is one of the limiter.                                            *)
THEOREM RoomsUseLimiter == RoomsSpec => LimiterSpec
<1>1. RoomsInit => LimiterInit
  BY DEF RoomsInit
<1>2. QED
  BY <1>1, StepMaps, PTL DEF RoomsSpec, LimiterSpec

(* So the attempts on a room's password from one address are paced.        *)
THEOREM JoinsArePaced == RoomsSpec => []TwoWindowsApart
  BY RoomsUseLimiter, TwoWindowsApartCorrect, PTL

------------------------------------------------------------------------------
(* Types.                                                                  *)

LEMMA RoomsTypeInit == RoomsInit => RoomsTypeOK
  BY RoomsAssumption, LimiterAssumption
  DEF RoomsInit, LimiterInit, RoomsTypeOK, Request, Socket, RequestPcs

LEMMA GotoTyped ==
  ASSUME RoomsTypeOK, NEW q \in Requests, NEW label \in RequestPcs, Goto(q, label)
  PROVE  req' \in [Requests -> Request] /\ \A x \in Requests : req'[x].exp = req[x].exp
  BY DEF RoomsTypeOK, Request, Goto

LEMMA DecideTyped ==
  ASSUME RoomsTypeOK, NEW q \in Requests, NEW act \in Actions, Decide(q, act)
  PROVE  req' \in [Requests -> Request] /\ \A x \in Requests : req'[x].exp = req[x].exp
  BY DEF RoomsTypeOK, Request, Decide, RequestPcs, Awaiting

LEMMA JoinTyped ==
  ASSUME RoomsTypeOK, LimiterTypeOK, NEW q \in Callers, JoinStep(q)
  PROVE  RoomsTypeOK'
<1> USE DEF RequestPcs, Awaiting, Statuses
<1>0. q \in Requests
  BY DEF Requests
<1>1. ASSUME NEW s \in Scopes, NEW k \in BOOLEAN, Arrive(q, s, k) PROVE RoomsTypeOK'
  <2>1. req' \in [Requests -> Request] /\ \A x \in Requests : req'[x].exp = req[x].exp
    BY <1>0, <1>1 DEF Arrive, RoomsTypeOK, Request
  <2>2. QED
    BY <1>0, <1>1, <2>1 DEF Arrive, ReadClock, Arrivals, RoomsTypeOK
<1>2. CASE LimitPassed(q)
  <2>1. UNCHANGED <<now, table, sock, log, lost, late>>
    BY <1>2 DEF LimitPassed, Pass
  <2>2. req' \in [Requests -> Request] /\ \A x \in Requests : req'[x].exp = req[x].exp
    BY <1>0, <1>2, GotoTyped, DecideTyped DEF LimitPassed, Actions
  <2>3. QED
    BY <2>1, <2>2 DEF RoomsTypeOK
<1>3. CASE LimitHit(q)
  <2>1. UNCHANGED <<now, table, sock, log, lost, late>>
    BY <1>3 DEF LimitHit, Refuse
  <2>2. req' \in [Requests -> Request] /\ \A x \in Requests : req'[x].exp = req[x].exp
    BY <1>0, <1>3, GotoTyped DEF LimitHit
  <2>3. QED
    BY <2>1, <2>2 DEF RoomsTypeOK
<1>4. CASE Lookup(q) \/ UnsealFails(q) \/ WrongPassword(q)
  <2>1. UNCHANGED <<now, table, sock, log, lost, late>>
    BY <1>4 DEF Lookup, UnsealFails, WrongPassword, limiterVars
  <2>2. req' \in [Requests -> Request] /\ \A x \in Requests : req'[x].exp = req[x].exp
    BY <1>0, <1>4, GotoTyped, DecideTyped DEF Lookup, UnsealFails, WrongPassword, Actions
  <2>3. QED
    BY <2>1, <2>2 DEF RoomsTypeOK
<1>5. CASE Vouch(q)
  <2>0. now \in Nat /\ TokenLife \in Nat
    BY RoomsAssumption DEF LimiterTypeOK
  <2>1. UNCHANGED <<now, table, sock, log, lost, late>>
    BY <1>5 DEF Vouch, Expiry, limiterVars
  <2>2. /\ req' \in [Requests -> Request]
        /\ req'[q].exp = now + TokenLife
        /\ \A x \in Requests \ {q} : req'[x].exp = req[x].exp
    <3> DEFINE x == [req[q] EXCEPT !.pc = "auditing", !.action = "join.success", !.exp = now + TokenLife]
    <3>1. req[q] \in Request /\ now + TokenLife \in Nat /\ "join.success" \in Actions
      BY <1>0, <2>0 DEF RoomsTypeOK, Actions
    <3>2. x \in Request /\ x.exp = now + TokenLife
      BY <3>1 DEF Request
    <3>3. req' = [req EXCEPT ![q] = x]
      BY <1>5 DEF Vouch, Expiry
    <3> HIDE DEF x
    <3>4. QED
      BY <1>0, <3>2, <3>3 DEF RoomsTypeOK
  <2>3. QED
    BY <2>0, <2>1, <2>2 DEF RoomsTypeOK
<1>6. QED
  BY <1>1, <1>2, <1>3, <1>4, <1>5 DEF JoinStep

LEMMA AdminTyped ==
  ASSUME RoomsTypeOK, NEW a \in Admins, AdminStep(a)
  PROVE  RoomsTypeOK'
<1> USE DEF RequestPcs, Awaiting, Statuses, limiterVars
<1>0. a \in Requests
  BY DEF Requests
<1>1. CASE Reject(a)
  BY <1>0, <1>1, GotoTyped DEF Reject, RoomsTypeOK
<1>2. ASSUME NEW r \in RoomIds, Create(a, r) PROVE RoomsTypeOK'
  <2>1. req' \in [Requests -> Request] /\ \A x \in Requests : req'[x].exp = req[x].exp
    BY <1>0, <1>2 DEF Create, Insert, RoomsTypeOK, Request, Actions
  <2>2. QED
    BY <1>2, <2>1 DEF Create, Insert, RoomsTypeOK
<1>3. ASSUME NEW r \in RoomIds, Delete(a, r) PROVE RoomsTypeOK'
  <2>1. req' \in [Requests -> Request] /\ \A x \in Requests : req'[x].exp = req[x].exp
    <3>1. CASE Row(r)
      <4>1. req' = [req EXCEPT ![a] = [@ EXCEPT !.pc = "auditing", !.about = r, !.action = "room.delete"]]
        BY <1>3, <3>1 DEF Delete, Remove
      <4>2. QED
        BY <1>0, <4>1 DEF RoomsTypeOK, Request, Actions
    <3>2. CASE ~Row(r)
      BY <1>0, <1>3, <3>2, GotoTyped DEF Delete, Remove
    <3>3. QED
      BY <3>1, <3>2
  <2>2. QED
    BY <1>3, <2>1 DEF Delete, Remove, RoomsTypeOK
<1>4. QED
  BY <1>1, <1>2, <1>3 DEF AdminStep

LEMMA CommonTyped ==
  ASSUME RoomsTypeOK, NEW q \in Requests, CommonStep(q),
         req[q].pc \in {"auditing", "audited"} => req[q].action \in Actions
  PROVE  RoomsTypeOK'
<1> USE DEF RequestPcs, Awaiting, Statuses, limiterVars
<1>1. CASE Record(q)
  <2>1. req' \in [Requests -> Request] /\ \A x \in Requests : req'[x].exp = req[x].exp
    BY <1>1, GotoTyped DEF Record
  <2>2. QED
    BY <1>1, <2>1 DEF Record, RoomsTypeOK
<1>2. CASE Respond(q)
  <2>1. StatusOf[req[q].action] \in RequestPcs
    BY <1>2 DEF Respond, StatusOf, Actions
  <2>2. QED
    BY <1>2, <2>1, GotoTyped DEF Respond, RoomsTypeOK
<1>3. CASE Drop(q)
  BY <1>3, GotoTyped DEF Drop, RoomsTypeOK
<1>4. QED
  BY <1>1, <1>2, <1>3 DEF CommonStep

LEMMA SocketTyped ==
  ASSUME RoomsTypeOK, NEW k \in Sockets, SocketStep(k)
  PROVE  RoomsTypeOK'
<1> USE DEF limiterVars
<1>1. sock' \in [Sockets -> Socket] /\ late' \subseteq late \cup {k}
  BY DEF SocketStep, Present, FindRoom, Admit, TurnAway, Arrivals, RoomsTypeOK, Socket
<1>2. UNCHANGED <<now, table, req, log, lost>>
  BY DEF SocketStep, Present, FindRoom, Admit, TurnAway
<1>3. QED
  BY <1>1, <1>2 DEF RoomsTypeOK

------------------------------------------------------------------------------
(* The invariant: what is true of a request, a socket and the log wherever *)
(* they are in their handlers.                                             *)

JoinPcs  == {"idle", "checking", "dropped", "200", "401", "429", "500"} \cup Awaiting
AdminPcs == {"idle", "auditing", "audited", "dropped", "201", "204", "404", "rejected"}

(* Before a handler has decided, it has no entry to record.                *)
Undecided == {"idle", "checking", "looking", "found"}

(* Handlers that have decided, and those past their entry.                 *)
Decided  == {"auditing", "audited", "200", "401", "201", "204"}
Recorded == {"audited", "200", "401", "201", "204"}

Entry(q) == [by |-> q, action |-> req[q].action]

(* A join request has passed the limiter for its scope, seen the room and  *)
(* known the password, in this order.                                      *)
JoinInv(q) ==
  LET x == req[q] IN
  /\ x.pc \in JoinPcs
  /\ x.action \in {"none", "join.success", "join.failure"}
  /\ x.pc # "idle" => x.about \in Scopes
  /\ x.pc \notin {"idle", "checking", "429"} => passed[x.about] # <<>>
  /\ x.pc = "found" \/ x.action = "join.success" => table[RoomOf[x.about]] # "unused"
  /\ x.pc = "500" \/ x.action = "join.success" => x.knows
  /\ x.pc = "200" => x.action = "join.success"
  /\ q \in late =>
       /\ x.pc \notin {"idle", "found"}
       /\ x.action # "join.success"
       /\ table[RoomOf[x.about]] = "deleted"

AdminInv(a) ==
  LET x == req[a] IN
  /\ x.pc \in AdminPcs
  /\ x.action \in {"none", "room.create", "room.delete"}
  /\ x.action # "none" => x.about \in RoomIds /\ table[x.about] # "unused"
  /\ x.action = "room.delete" => table[x.about] = "deleted"

EveryRequest(q) ==
  /\ req[q].pc \in Undecided => req[q].action = "none"
  /\ req[q].pc \in Decided => req[q].action \in Actions
  /\ req[q].pc \in Recorded => q \in lost \/ Entry(q) \in log

RequestInv ==
  /\ \A q \in Callers : JoinInv(q)
  /\ \A a \in Admins : AdminInv(a)
  /\ \A q \in Requests : EveryRequest(q)
  /\ \A a, b \in Admins :
       req[a].action = "room.delete" /\ req[b].action = "room.delete"
       /\ req[a].about = req[b].about => a = b

CallInv ==
  /\ \A d \in calls : req[d.by].pc = "checking" /\ req[d.by].about = d.scope
  /\ \A d, e \in calls : d.by = e.by => d = e

LogInv == \A e \in log : e = Entry(e.by) /\ req[e.by].pc \in Recorded \cup {"dropped"}

SocketInv ==
  \A k \in Sockets :
    /\ sock[k].pc # "idle" =>
         /\ sock[k].room \in RoomIds
         /\ sock[k].of \in Callers
         /\ req[sock[k].of].pc = "200"
    /\ sock[k].pc = "admitted" => RoomOf[req[sock[k].of].about] = sock[k].room
    /\ k \in late =>
         sock[k].pc \in {"looking", "refused"} /\ table[sock[k].room] = "deleted"

RoomsInv == RequestInv /\ CallInv /\ LogInv /\ SocketInv

LEMMA RoomsInvInit == RoomsInit => RoomsInv
  BY DEF RoomsInit, LimiterInit, RoomsInv, RequestInv, JoinInv, AdminInv, EveryRequest, CallInv,
         LogInv, SocketInv, Requests, JoinPcs, AdminPcs, Undecided, Decided, Recorded

(* What never goes back: rooms, attempts, and what has been recorded.      *)
Grows ==
  /\ \A r \in RoomIds : /\ table[r] # "unused" => table'[r] # "unused"
                        /\ table[r] = "deleted" => table'[r] = "deleted"
  /\ \A s \in Scopes : passed[s] # <<>> => passed'[s] # <<>>
  /\ log \subseteq log' /\ lost \subseteq lost'

(* Nothing happens to a request other than q, or to a socket.              *)
Only(q) ==
  /\ \A x \in Requests \ {q} : req'[x] = req[x] /\ (x \in late' => x \in late)
  /\ UNCHANGED sock
  /\ \A k \in Sockets : k \in late' => k \in late

Moving == Undecided \cup {"auditing", "audited"}

LEMMA OthersKept ==
  ASSUME RoomsTypeOK, RequestInv, Grows, NEW x \in Requests, req'[x] = req[x], x \in late' => x \in late
  PROVE  /\ x \in Callers => JoinInv(x)'
         /\ x \in Admins => AdminInv(x)'
         /\ EveryRequest(x)'
<1>1. ASSUME x \in Callers PROVE JoinInv(x)'
  <2>1. JoinInv(x) /\ (req[x].pc = "idle" => req[x].action = "none")
    BY <1>1 DEF RequestInv, EveryRequest, Undecided
  <2>2. req[x].about \in Scopes => RoomOf[req[x].about] \in RoomIds
    BY RoomsAssumption
  <2>3. QED
    BY <2>1, <2>2 DEF JoinInv, Grows, JoinPcs
<1>2. ASSUME x \in Admins PROVE AdminInv(x)'
  BY <1>2 DEF RequestInv, AdminInv, Grows
<1>3. EveryRequest(x)'
  BY DEF RequestInv, EveryRequest, Grows, Entry
<1>4. QED
  BY <1>1, <1>2, <1>3

(* A step of one request: what is left to show is the invariant of that    *)
(* request and of the calls.                                               *)
LEMMA RequestStep ==
  ASSUME RoomsTypeOK, RoomsInv, Grows, NEW q \in Requests, Only(q), req[q].pc \in Moving,
         q \in Callers => JoinInv(q)', q \in Admins => AdminInv(q)', EveryRequest(q)', CallInv',
         req[q].pc \in {"auditing", "audited"} =>
           /\ req'[q].action = req[q].action /\ req'[q].about = req[q].about
           /\ req'[q].pc \in {"dropped"} \cup Recorded,
         log' = log \/ (req[q].pc = "auditing" /\ log' = log \cup {Entry(q)}),
         req'[q].action = "room.delete" =>
           \/ req[q].action = "room.delete" /\ req'[q].about = req[q].about
           \/ table[req'[q].about] = "stored"
  PROVE  RoomsInv'
<1>1. RequestInv'
  <2>1. \A x \in Callers : JoinInv(x)'
    BY OthersKept DEF Only, RoomsInv, Requests
  <2>2. \A x \in Admins : AdminInv(x)'
    BY OthersKept DEF Only, RoomsInv, Requests
  <2>3. \A x \in Requests : EveryRequest(x)'
    BY OthersKept DEF Only, RoomsInv
  <2>4. ASSUME NEW a \in Admins, NEW b \in Admins,
               req'[a].action = "room.delete", req'[b].action = "room.delete",
               req'[a].about = req'[b].about
        PROVE  a = b
    <3>1. a \in Requests /\ b \in Requests
      BY DEF Requests
    <3>2. \A x \in Admins : req[x].action = "room.delete" => table[req[x].about] = "deleted"
      BY DEF RoomsInv, RequestInv, AdminInv
    <3>3. QED
      BY <2>4, <3>1, <3>2 DEF Only, RoomsInv, RequestInv
  <2>5. QED
    BY <2>1, <2>2, <2>3, <2>4 DEF RequestInv
<1>2. LogInv'
  <2> SUFFICES ASSUME NEW e \in log'
               PROVE  e = Entry(e.by)' /\ req'[e.by].pc \in Recorded \cup {"dropped"}
    BY DEF LogInv
  <2>1. CASE e \in log /\ e.by # q
    BY <2>1 DEF RoomsInv, LogInv, Only, RoomsTypeOK, Entry
  <2>2. CASE e \in log /\ e.by = q
    BY <2>2 DEF RoomsInv, LogInv, Moving, Undecided, Recorded, Entry
  <2>3. CASE e \notin log
    BY <2>3 DEF Entry, Recorded
  <2>4. QED
    BY <2>1, <2>2, <2>3
<1>3. SocketInv'
  <2> SUFFICES ASSUME NEW k \in Sockets
               PROVE  /\ sock[k].pc # "idle" =>
                           /\ sock[k].room \in RoomIds
                           /\ sock[k].of \in Callers
                           /\ req'[sock[k].of].pc = "200"
                      /\ sock[k].pc = "admitted" => RoomOf[req'[sock[k].of].about] = sock[k].room
                      /\ k \in late' =>
                           sock[k].pc \in {"looking", "refused"} /\ table'[sock[k].room] = "deleted"
    BY DEF SocketInv, Only
  <2>1. sock[k].pc # "idle" => sock[k].of \in Requests \ {q}
    BY DEF RoomsInv, SocketInv, Moving, Undecided, Requests
  <2>2. QED
    BY <2>1 DEF RoomsInv, SocketInv, Only, Grows
<1>4. QED
  BY <1>1, <1>2, <1>3 DEF RoomsInv

LEMMA LimiterGrows ==
  ASSUME LimiterTypeOK, [LimiterNext]_limiterVars, NEW s \in Scopes, passed[s] # <<>>
  PROVE  passed'[s] # <<>>
<1>1. CASE \E d \in calls : Pass(d)
  <2>1. PICK d \in calls : Pass(d)
    BY <1>1
  <2>2. CASE s = d.scope
    <3>1. passed[s] \in Seq(Nat) /\ now \in Nat /\ passed'[s] = Append(passed[s], now)
      BY <2>1, <2>2 DEF Pass, LimiterTypeOK
    <3>2. Len(Append(passed[s], now)) = Len(passed[s]) + 1 /\ Len(passed[s]) \in Nat
      BY <3>1
    <3>3. QED
      BY <3>1, <3>2
  <2>3. CASE s # d.scope
    BY <2>1, <2>3 DEF Pass, LimiterTypeOK
  <2>4. QED
    BY <2>2, <2>3
<1>2. CASE ~\E d \in calls : Pass(d)
  BY <1>2 DEF LimiterNext, limiterVars, ReadClock, Refuse, Tick
<1>3. QED
  BY <1>1, <1>2

LEMMA StepGrows == RoomsTypeOK /\ LimiterTypeOK /\ RoomsNext => Grows
<1> SUFFICES ASSUME RoomsTypeOK, LimiterTypeOK, RoomsNext PROVE Grows
  OBVIOUS
<1>1. \A s \in Scopes : passed[s] # <<>> => passed'[s] # <<>>
  BY StepMaps, LimiterGrows
<1> DEFINE Kept == /\ \A r \in RoomIds : /\ table[r] # "unused" => table'[r] # "unused"
                                         /\ table[r] = "deleted" => table'[r] = "deleted"
                   /\ log \subseteq log' /\ lost \subseteq lost'
<1>2. ASSUME NEW q \in Callers, JoinStep(q) PROVE Kept
  BY <1>2 DEF JoinStep, Arrive, LimitPassed, LimitHit, Lookup, UnsealFails, Vouch, Expiry, WrongPassword
<1>3. ASSUME NEW a \in Admins, AdminStep(a) PROVE Kept
  <2>1. CASE Reject(a)
    BY <2>1 DEF Reject
  <2>2. ASSUME NEW r \in RoomIds, Create(a, r) PROVE Kept
    BY <2>2 DEF Create, Insert, RoomsTypeOK
  <2>3. ASSUME NEW r \in RoomIds, Delete(a, r) PROVE Kept
    BY <2>3 DEF Delete, Remove, RoomsTypeOK
  <2>4. QED
    BY <1>3, <2>1, <2>2, <2>3 DEF AdminStep
<1>4. ASSUME NEW q \in Requests, CommonStep(q) PROVE Kept
  BY <1>4 DEF CommonStep, Record, Respond, Drop
<1>5. ASSUME NEW k \in Sockets, SocketStep(k) PROVE Kept
  BY <1>5 DEF SocketStep, Present, FindRoom, Admit, TurnAway
<1>6. ASSUME TimePasses \/ RoomsDone PROVE Kept
  BY <1>6 DEF TimePasses, roomVars, RoomsDone, roomsVars
<1>7. Kept
  BY <1>2, <1>3, <1>4, <1>5, <1>6 DEF RoomsNext
<1>8. QED
  BY <1>1, <1>7 DEF Grows

(* What the two ways to move a request on do to it.                        *)
LEMMA GotoFields ==
  ASSUME RoomsTypeOK, NEW q \in Requests, NEW label, Goto(q, label)
  PROVE  /\ req'[q].pc = label
         /\ req'[q].about = req[q].about /\ req'[q].knows = req[q].knows
         /\ req'[q].action = req[q].action
         /\ \A x \in Requests \ {q} : req'[x] = req[x]
  BY DEF RoomsTypeOK, Request, Goto

LEMMA DecideFields ==
  ASSUME RoomsTypeOK, NEW q \in Requests, NEW act, Decide(q, act)
  PROVE  /\ req'[q].pc = "auditing" /\ req'[q].action = act
         /\ req'[q].about = req[q].about /\ req'[q].knows = req[q].knows
         /\ \A x \in Requests \ {q} : req'[x] = req[x]
  BY DEF RoomsTypeOK, Request, Decide

(* Calls of other requests, while q is not in the limiter.                 *)
LEMMA CallsKept ==
  ASSUME RoomsTypeOK, LimiterTypeOK, RoomsInv, NEW q \in Requests, Only(q), UNCHANGED calls,
         req[q].pc # "checking"
  PROVE  CallInv'
<1>1. \A d \in calls : d.by \in Requests \ {q}
  BY DEF RoomsInv, CallInv, LimiterTypeOK, Call, Requests
<1>2. QED
  BY <1>1 DEF RoomsInv, CallInv, Only

(* RequestStep for a request that has not decided.                         *)
LEMMA UndecidedStep ==
  ASSUME RoomsTypeOK, RoomsInv, Grows, NEW q \in Callers, Only(q), UNCHANGED log,
         req[q].pc \in Undecided, req'[q].action # "room.delete",
         JoinInv(q)', EveryRequest(q)', CallInv'
  PROVE  RoomsInv'
<1>1. /\ q \in Requests /\ q \notin Admins
      /\ req[q].pc \in Moving /\ req[q].pc \notin {"auditing", "audited"}
  BY RoomsAssumption DEF Requests, Moving, Undecided
<1>2. /\ q \in Callers => JoinInv(q)'
      /\ q \in Admins => AdminInv(q)'
      /\ req[q].pc \in {"auditing", "audited"} =>
           /\ req'[q].action = req[q].action /\ req'[q].about = req[q].about
           /\ req'[q].pc \in {"dropped"} \cup Recorded
      /\ log' = log \/ (req[q].pc = "auditing" /\ log' = log \cup {Entry(q)})
      /\ req'[q].action = "room.delete" =>
           \/ req[q].action = "room.delete" /\ req'[q].about = req[q].about
           \/ table[req'[q].about] = "stored"
  BY <1>1
<1>3. QED
  BY <1>1, <1>2, RequestStep

LEMMA JoinInvStep ==
  ASSUME RoomsTypeOK, LimiterTypeOK, RoomsInv, Grows, NEW q \in Callers, JoinStep(q)
  PROVE  RoomsInv'
<1> USE DEF JoinPcs, Awaiting, Undecided, Decided, Recorded, Moving
<1>0. /\ q \in Requests /\ q \notin Admins /\ q \notin Sockets
      /\ JoinInv(q) /\ EveryRequest(q)
  BY RoomsAssumption DEF RoomsInv, RequestInv, Requests
<1>1. ASSUME NEW s \in Scopes, NEW k \in BOOLEAN, Arrive(q, s, k) PROVE RoomsInv'
  <2>1. /\ req[q].pc = "idle" /\ req[q].action = "none"
        /\ req'[q].pc = "checking" /\ req'[q].about = s
        /\ req'[q].action = "none"
        /\ \A x \in Requests \ {q} : req'[x] = req[x]
        /\ UNCHANGED <<table, sock, log, lost>> /\ late' = Arrivals(q, RoomOf[s])
    BY <1>0, <1>1 DEF Arrive, RoomsTypeOK, Request, EveryRequest
  <2>2. Only(q)
    BY <1>0, <2>1 DEF Only, Arrivals
  <2>3. JoinInv(q)'
    BY <1>0, <2>1 DEF JoinInv, Arrivals
  <2>4. EveryRequest(q)'
    BY <2>1 DEF EveryRequest
  <2>5. CallInv'
    <3>1. calls' = calls \cup {[by |-> q, scope |-> s, at |-> now]}
      BY <1>1 DEF Arrive, ReadClock
    <3>2. \A d \in calls : d.by \in Requests \ {q}
      BY <2>1 DEF RoomsInv, CallInv, LimiterTypeOK, Call, Requests
    <3>3. QED
      BY <2>1, <3>1, <3>2 DEF RoomsInv, CallInv
  <2>6. QED
    BY <2>1, <2>2, <2>3, <2>4, <2>5, UndecidedStep
<1>2. CASE LimitPassed(q)
  <2>1. /\ req[q].pc = "checking" /\ req[q].action = "none"
        /\ UNCHANGED <<table, sock, log, lost, late>>
    BY <1>0, <1>2 DEF LimitPassed, EveryRequest
  <2>2. PICK d \in calls : d.by = q /\ Pass(d)
    BY <1>2 DEF LimitPassed
  <2>3. /\ \/ req'[q].pc = "looking" /\ req'[q].action = "none"
           \/ req'[q].pc = "auditing" /\ req'[q].action = "join.failure"
        /\ req'[q].about = req[q].about
        /\ \A x \in Requests \ {q} : req'[x] = req[x]
    <3>1. CASE Goto(q, "looking")
      BY <1>0, <2>1, <3>1, GotoFields
    <3>2. CASE Decide(q, "join.failure")
      BY <1>0, <2>1, <3>2, DecideFields
    <3>3. QED
      BY <1>2, <3>1, <3>2 DEF LimitPassed
  <2>4. Only(q)
    BY <2>1, <2>3 DEF Only
  <2>5. req[q].about = d.scope /\ d.scope \in Scopes /\ passed'[d.scope] # <<>>
    <3>1. req[q].about = d.scope /\ d \in Call
      BY <2>2 DEF RoomsInv, CallInv, LimiterTypeOK
    <3>2. passed[d.scope] \in Seq(Nat) /\ now \in Nat /\ passed'[d.scope] = Append(passed[d.scope], now)
      BY <2>2, <3>1 DEF Pass, LimiterTypeOK, Call
    <3>3. Len(Append(passed[d.scope], now)) = Len(passed[d.scope]) + 1 /\ Len(passed[d.scope]) \in Nat
      BY <3>2
    <3>4. QED
      BY <3>1, <3>2, <3>3 DEF Call
  <2>6. JoinInv(q)'
    BY <1>0, <2>1, <2>3, <2>5 DEF JoinInv
  <2>7. EveryRequest(q)'
    BY <2>3 DEF EveryRequest, Actions
  <2>8. CallInv'
    <3>1. calls' = calls \ {d}
      BY <2>2 DEF Pass
    <3>2. \A e \in calls' : e.by \in Requests \ {q}
      BY <2>2, <3>1 DEF RoomsInv, CallInv, LimiterTypeOK, Call, Requests
    <3>3. QED
      BY <2>3, <3>1, <3>2 DEF RoomsInv, CallInv
  <2>9. QED
    BY <2>1, <2>3, <2>4, <2>6, <2>7, <2>8, UndecidedStep
<1>3. CASE LimitHit(q)
  <2>1. /\ req[q].pc = "checking" /\ req[q].action = "none"
        /\ UNCHANGED <<table, sock, log, lost, late>>
    BY <1>0, <1>3 DEF LimitHit, EveryRequest
  <2>2. PICK d \in calls : d.by = q /\ Refuse(d)
    BY <1>3 DEF LimitHit
  <2>3. /\ req'[q].pc = "429" /\ req'[q].action = "none"
        /\ req'[q].about = req[q].about
        /\ \A x \in Requests \ {q} : req'[x] = req[x]
    BY <1>0, <1>3, <2>1, GotoFields DEF LimitHit
  <2>4. Only(q)
    BY <2>1, <2>3 DEF Only
  <2>5. JoinInv(q)'
    BY <1>0, <2>1, <2>3 DEF JoinInv
  <2>6. EveryRequest(q)'
    BY <2>3 DEF EveryRequest
  <2>7. CallInv'
    <3>1. calls' = calls \ {d}
      BY <2>2 DEF Refuse
    <3>2. \A e \in calls' : e.by \in Requests \ {q}
      BY <2>2, <3>1 DEF RoomsInv, CallInv, LimiterTypeOK, Call, Requests
    <3>3. QED
      BY <2>3, <3>1, <3>2 DEF RoomsInv, CallInv
  <2>8. QED
    BY <2>1, <2>3, <2>4, <2>5, <2>6, <2>7, UndecidedStep
<1>4. CASE Lookup(q) \/ UnsealFails(q) \/ Vouch(q) \/ WrongPassword(q)
  <2>1. /\ req[q].pc \in {"looking", "found"} /\ req[q].action = "none"
        /\ UNCHANGED <<calls, passed, table, sock, log, lost, late>>
    BY <1>0, <1>4 DEF Lookup, UnsealFails, Vouch, Expiry, WrongPassword, EveryRequest, limiterVars
  <2>2. /\ \/ req'[q].pc = "found" /\ req'[q].action = "none" /\ Row(RoomOf[req[q].about])
           \/ req'[q].pc = "500" /\ req'[q].action = "none" /\ req[q].knows
           \/ req'[q].pc = "auditing" /\ req'[q].action = "join.failure"
           \/ /\ req'[q].pc = "auditing" /\ req'[q].action = "join.success"
              /\ req[q].knows /\ req[q].pc = "found"
        /\ req'[q].about = req[q].about /\ req'[q].knows = req[q].knows
        /\ \A x \in Requests \ {q} : req'[x] = req[x]
    <3>1. CASE Lookup(q)
      BY <1>0, <2>1, <3>1, GotoFields, DecideFields DEF Lookup
    <3>2. CASE UnsealFails(q)
      BY <1>0, <2>1, <3>2, GotoFields DEF UnsealFails
    <3>3. CASE Vouch(q)
      BY <1>0, <2>1, <3>3 DEF Vouch, Expiry, RoomsTypeOK, Request
    <3>4. CASE WrongPassword(q)
      BY <1>0, <2>1, <3>4, DecideFields DEF WrongPassword
    <3>5. QED
      BY <1>4, <3>1, <3>2, <3>3, <3>4
  <2>3. Only(q)
    BY <2>1, <2>2 DEF Only
  <2>4. JoinInv(q)'
    BY <1>0, <2>1, <2>2 DEF JoinInv, Row
  <2>5. EveryRequest(q)'
    BY <2>2 DEF EveryRequest, Actions
  <2>6. CallInv'
    BY <1>0, <2>1, <2>3, CallsKept
  <2>7. QED
    BY <2>1, <2>2, <2>3, <2>4, <2>5, <2>6, UndecidedStep
<1>5. QED
  BY <1>1, <1>2, <1>3, <1>4 DEF JoinStep

LEMMA AdminInvStep ==
  ASSUME RoomsTypeOK, LimiterTypeOK, RoomsInv, Grows, NEW a \in Admins, AdminStep(a)
  PROVE  RoomsInv'
<1> USE DEF AdminPcs, Undecided, Decided, Recorded, Moving
<1>0. /\ a \in Requests /\ a \notin Callers /\ a \notin late
      /\ AdminInv(a) /\ EveryRequest(a)
  BY RoomsAssumption DEF RoomsInv, RequestInv, Requests, RoomsTypeOK
<1>1. /\ req[a].pc = "idle" /\ req[a].action = "none"
      /\ UNCHANGED <<calls, passed, sock, log, lost, late>>
  BY <1>0 DEF AdminStep, Reject, Create, Insert, Delete, Remove, limiterVars, EveryRequest
<1>2. /\ \/ req'[a].pc \in {"rejected", "404"} /\ req'[a].action = "none"
         \/ /\ req'[a].pc = "auditing" /\ req'[a].action = "room.create"
            /\ req'[a].about \in RoomIds /\ table'[req'[a].about] = "stored"
         \/ /\ req'[a].pc = "auditing" /\ req'[a].action = "room.delete"
            /\ req'[a].about \in RoomIds
            /\ table[req'[a].about] = "stored" /\ table'[req'[a].about] = "deleted"
      /\ \A x \in Requests \ {a} : req'[x] = req[x]
  <2>1. CASE Reject(a)
    BY <1>0, <1>1, <2>1, GotoFields DEF Reject
  <2>2. ASSUME NEW r \in RoomIds, Create(a, r)
        PROVE  /\ req'[a].pc = "auditing" /\ req'[a].action = "room.create"
               /\ req'[a].about \in RoomIds /\ table'[req'[a].about] = "stored"
               /\ \A x \in Requests \ {a} : req'[x] = req[x]
    BY <1>0, <2>2 DEF Create, Insert, RoomsTypeOK, Request
  <2>3. ASSUME NEW r \in RoomIds, Delete(a, r), Row(r)
        PROVE  /\ req'[a].pc = "auditing" /\ req'[a].action = "room.delete"
               /\ req'[a].about \in RoomIds
               /\ table[req'[a].about] = "stored" /\ table'[req'[a].about] = "deleted"
               /\ \A x \in Requests \ {a} : req'[x] = req[x]
    <3>1. /\ table[r] = "stored" /\ table' = [table EXCEPT ![r] = "deleted"]
          /\ req' = [req EXCEPT ![a] = [@ EXCEPT !.pc = "auditing", !.about = r, !.action = "room.delete"]]
      BY <2>3 DEF Delete, Remove, Row
    <3>2. QED
      BY <1>0, <2>3, <3>1 DEF RoomsTypeOK, Request
  <2>4. ASSUME NEW r \in RoomIds, Delete(a, r), ~Row(r)
        PROVE  /\ req'[a].pc = "404" /\ req'[a].action = "none"
               /\ \A x \in Requests \ {a} : req'[x] = req[x]
    BY <1>0, <1>1, <2>4, GotoFields DEF Delete, Remove
  <2>5. QED
    BY <2>1, <2>2, <2>3, <2>4 DEF AdminStep
<1>3. Only(a)
  BY <1>1, <1>2 DEF Only
<1>4. AdminInv(a)'
  BY <1>0, <1>2 DEF AdminInv
<1>5. EveryRequest(a)'
  BY <1>2 DEF EveryRequest, Actions
<1>6. CallInv'
  BY <1>0, <1>1, <1>3, CallsKept
<1>7. /\ req[a].pc \in Moving /\ req[a].pc \notin {"auditing", "audited"}
      /\ req'[a].action = "room.delete" => table[req'[a].about] = "stored"
  BY <1>1, <1>2
<1>8. QED
  BY <1>0, <1>1, <1>3, <1>4, <1>5, <1>6, <1>7, RequestStep

LEMMA CommonInvStep ==
  ASSUME RoomsTypeOK, LimiterTypeOK, RoomsInv, Grows, NEW q \in Requests, CommonStep(q)
  PROVE  RoomsInv'
<1> USE DEF Awaiting, Undecided, Decided, Recorded, Moving
<1>0. /\ q \in Callers => q \notin Admins /\ JoinInv(q)
      /\ q \in Admins => q \notin Callers /\ q \notin late /\ AdminInv(q)
      /\ EveryRequest(q)
  BY RoomsAssumption DEF RoomsInv, RequestInv, Requests, RoomsTypeOK
<1>1. /\ req[q].pc \in Awaiting
      /\ UNCHANGED <<calls, passed, table, sock, late>>
  BY DEF CommonStep, Record, Respond, Drop, limiterVars
<1>2. /\ \/ /\ req[q].pc = "auditing" /\ req'[q].pc = "audited"
            /\ q \in lost' \/ log' = log \cup {Entry(q)}
            /\ log' = log \/ log' = log \cup {Entry(q)}
         \/ /\ req[q].pc = "audited" /\ req'[q].pc = StatusOf[req[q].action]
            /\ UNCHANGED <<log, lost>>
         \/ /\ req'[q].pc = "dropped"
            /\ UNCHANGED <<log, lost>>
      /\ req'[q].action = req[q].action
      /\ req'[q].about = req[q].about /\ req'[q].knows = req[q].knows
      /\ \A x \in Requests \ {q} : req'[x] = req[x]
  <2>1. CASE Record(q)
    BY <2>1, GotoFields DEF Record, Entry
  <2>2. CASE Respond(q)
    BY <2>2, GotoFields DEF Respond
  <2>3. CASE Drop(q)
    BY <2>3, GotoFields DEF Drop
  <2>4. QED
    BY <2>1, <2>2, <2>3 DEF CommonStep
<1>3. Only(q)
  BY <1>1, <1>2 DEF Only
<1>4. req[q].pc = "audited" =>
        /\ req[q].action = "join.success" => StatusOf[req[q].action] = "200"
        /\ req[q].action = "join.failure" => StatusOf[req[q].action] = "401"
        /\ req[q].action = "room.create"  => StatusOf[req[q].action] = "201"
        /\ req[q].action = "room.delete"  => StatusOf[req[q].action] = "204"
        /\ req[q].action \in Actions
  BY <1>0 DEF EveryRequest, StatusOf, Actions
<1>5. q \in Callers => JoinInv(q)'
  BY <1>0, <1>1, <1>2, <1>4 DEF JoinInv, JoinPcs, Actions
<1>6. q \in Admins => AdminInv(q)'
  BY <1>0, <1>1, <1>2, <1>4 DEF AdminInv, AdminPcs, Actions
<1>7. EveryRequest(q)'
  BY <1>0, <1>1, <1>2, <1>4 DEF EveryRequest, Actions, Entry
<1>8. CallInv'
  BY <1>1, <1>3, CallsKept
<1>9. /\ req[q].pc \in Moving \cup {"found"}
      /\ req[q].pc \in {"auditing", "audited"} => req'[q].pc \in {"dropped"} \cup Recorded
      /\ log' = log \/ (req[q].pc = "auditing" /\ log' = log \cup {Entry(q)})
  BY <1>1, <1>2, <1>4 DEF Actions
<1>10. QED
  BY <1>1, <1>2, <1>3, <1>5, <1>6, <1>7, <1>8, <1>9, RequestStep

LEMMA SocketInvStep ==
  ASSUME RoomsTypeOK, RoomsInv, NEW k \in Sockets, SocketStep(k)
  PROVE  RoomsInv'
<1>1. /\ UNCHANGED <<limiterVars, table, req, log, lost>>
      /\ \A x \in Sockets \ {k} : sock'[x] = sock[x]
      /\ late' \subseteq late \cup {k}
  BY DEF SocketStep, Present, FindRoom, Admit, TurnAway, Arrivals, RoomsTypeOK
<1>2. RequestInv'
  <2>1. \A q \in Callers \cup Admins : q \in late' => q \in late
    BY <1>1, RoomsAssumption
  <2>2. QED
    BY <1>1, <2>1 DEF RoomsInv, RequestInv, JoinInv, AdminInv, EveryRequest, Entry, limiterVars
<1>3. CallInv' /\ LogInv'
  BY <1>1 DEF RoomsInv, CallInv, LogInv, Entry, limiterVars
<1>4. SocketInv'
  <2> DEFINE OK(x) ==
        /\ sock'[x].pc # "idle" =>
             /\ sock'[x].room \in RoomIds
             /\ sock'[x].of \in Callers
             /\ req[sock'[x].of].pc = "200"
        /\ sock'[x].pc = "admitted" => RoomOf[req[sock'[x].of].about] = sock'[x].room
        /\ x \in late' =>
             sock'[x].pc \in {"looking", "refused"} /\ table[sock'[x].room] = "deleted"
  <2>1. \A x \in Sockets \ {k} : OK(x)
    BY <1>1 DEF RoomsInv, SocketInv
  <2>2. ASSUME NEW r \in RoomIds, NEW q \in Callers, Present(k, r, q) PROVE OK(k)
    BY <2>2 DEF Present, Arrivals, RoomsTypeOK, RoomsInv, SocketInv
  <2>3. ASSUME FindRoom(k) PROVE OK(k)
    BY <2>3 DEF FindRoom, Row, RoomsTypeOK, Socket, RoomsInv, SocketInv
  <2>4. ASSUME Admit(k) PROVE OK(k)
    BY <2>4 DEF Admit, RoomsTypeOK, Socket, RoomsInv, SocketInv
  <2>5. ASSUME TurnAway(k) PROVE OK(k)
    BY <2>5 DEF TurnAway, RoomsTypeOK, Socket, RoomsInv, SocketInv
  <2>6. OK(k)
    BY <2>2, <2>3, <2>4, <2>5 DEF SocketStep
  <2>7. QED
    BY <1>1, <2>1, <2>6 DEF SocketInv
<1>5. QED
  BY <1>2, <1>3, <1>4 DEF RoomsInv

AllInv == LimiterTypeOK /\ RoomsTypeOK /\ RoomsInv

LEMMA AllInit == RoomsInit => AllInv
  BY LimiterTypeInit, RoomsTypeInit, RoomsInvInit DEF AllInv, RoomsInit

LEMMA AllStep == AllInv /\ [RoomsNext]_roomsVars => AllInv'
<1> SUFFICES ASSUME AllInv, [RoomsNext]_roomsVars PROVE AllInv'
  OBVIOUS
<1>1. LimiterTypeOK'
  BY StepMaps, LimiterTypeStep DEF AllInv
<1>2. CASE UNCHANGED roomsVars
  BY <1>1, <1>2 DEF roomsVars, roomVars, limiterVars, AllInv, RoomsTypeOK, RoomsInv, RequestInv,
     JoinInv, AdminInv, EveryRequest, CallInv, LogInv, SocketInv, Entry
<1>3. CASE RoomsNext
  <2>1. Grows /\ RoomsTypeOK /\ LimiterTypeOK /\ RoomsInv
    BY <1>3, StepGrows DEF AllInv
  <2>2. ASSUME NEW q \in Callers, JoinStep(q) PROVE RoomsTypeOK' /\ RoomsInv'
    BY <2>1, <2>2, JoinTyped, JoinInvStep
  <2>3. ASSUME NEW a \in Admins, AdminStep(a) PROVE RoomsTypeOK' /\ RoomsInv'
    BY <2>1, <2>3, AdminTyped, AdminInvStep
  <2>4. ASSUME NEW q \in Requests, CommonStep(q) PROVE RoomsTypeOK' /\ RoomsInv'
    <3>1. req[q].pc \in {"auditing", "audited"} => req[q].action \in Actions
      BY <2>1 DEF RoomsInv, RequestInv, EveryRequest, Decided
    <3>2. QED
      BY <2>1, <2>4, <3>1, CommonTyped, CommonInvStep
  <2>5. ASSUME NEW k \in Sockets, SocketStep(k) PROVE RoomsTypeOK' /\ RoomsInv'
    BY <2>1, <2>5, SocketTyped, SocketInvStep
  <2>6. ASSUME TimePasses PROVE RoomsTypeOK' /\ RoomsInv'
    <3>1. /\ UNCHANGED <<calls, passed, table, req, sock, log, lost, late>>
          /\ now \in Nat /\ now' = now + 1
      BY <2>1, <2>6 DEF TimePasses, Tick, roomVars, LimiterTypeOK
    <3>2. RoomsTypeOK'
      <4>1. ASSUME NEW q \in Requests PROVE req[q].exp <= now' + TokenLife
        BY <2>1, <3>1, RoomsAssumption DEF RoomsTypeOK, Request
      <4>2. QED
        BY <2>1, <3>1, <4>1 DEF RoomsTypeOK
    <3>3. RoomsInv'
      BY <2>1, <3>1 DEF RoomsInv, RequestInv, JoinInv, AdminInv, EveryRequest, CallInv, LogInv,
         SocketInv, Entry
    <3>4. QED
      BY <3>2, <3>3
  <2>7. ASSUME RoomsDone PROVE RoomsTypeOK' /\ RoomsInv'
    BY <2>1, <2>7 DEF RoomsDone, roomsVars, roomVars, limiterVars, RoomsTypeOK, RoomsInv, RequestInv,
       JoinInv, AdminInv, EveryRequest, CallInv, LogInv, SocketInv, Entry
  <2>8. RoomsTypeOK' /\ RoomsInv'
    BY <1>3, <2>2, <2>3, <2>4, <2>5, <2>6, <2>7 DEF RoomsNext
  <2>9. QED
    BY <1>1, <2>8 DEF AllInv
<1>4. QED
  BY <1>2, <1>3

LEMMA AllHolds == RoomsSpec => []AllInv
  BY AllInit, AllStep, PTL DEF RoomsSpec

------------------------------------------------------------------------------
(* Every state is well typed, and no token lives longer than its cap.      *)
THEOREM RoomsTypeCorrect == RoomsSpec => []RoomsTypeOK
<1>1. AllInv => RoomsTypeOK
  BY DEF AllInv
<1>2. QED
  BY <1>1, AllHolds, PTL

(* No join request and no socket that arrives after a room's deletion gets *)
(* in.                                                                     *)
THEOREM DeletedStaysShutCorrect == RoomsSpec => []DeletedStaysShut
<1>1. AllInv => DeletedStaysShut
  BY DEF AllInv, RoomsInv, RequestInv, JoinInv, SocketInv, DeletedStaysShut
<1>2. QED
  BY <1>1, AllHolds, PTL

(* Whoever is in a room presented its password, was counted by the limiter, *)
(* and is in the audit log unless the database refused the entry.          *)
THEOREM AdmittedOnRecordCorrect == RoomsSpec => []AdmittedOnRecord
<1>1. AllInv => AdmittedOnRecord
  <2> SUFFICES ASSUME AllInv, NEW k \in Sockets, sock[k].pc = "admitted"
               PROVE  /\ req[sock[k].of].knows
                      /\ RoomOf[req[sock[k].of].about] = sock[k].room
                      /\ passed[req[sock[k].of].about] # <<>>
                      /\ \/ sock[k].of \in lost
                         \/ [by |-> sock[k].of, action |-> "join.success"] \in log
    BY DEF AdmittedOnRecord
  <2> DEFINE q == sock[k].of
  <2>1. q \in Callers /\ q \in Requests /\ req[q].pc = "200" /\ RoomOf[req[q].about] = sock[k].room
    BY DEF AllInv, RoomsInv, SocketInv, Requests
  <2> HIDE DEF q
  <2>2. JoinInv(q) /\ EveryRequest(q)
    BY <2>1 DEF AllInv, RoomsInv, RequestInv
  <2>3. QED
    BY <2>1, <2>2 DEF JoinInv, EveryRequest, Recorded, Entry, q
<1>2. QED
  BY <1>1, AllHolds, PTL

(* The request that deleted r, which knows of it to its end.               *)
Deletes(a, r) ==
  /\ req[a].action = "room.delete" /\ req[a].about = r
  /\ req[a].pc \in Recorded \cup {"auditing", "dropped"}

DeleterInv == \A r \in RoomIds : table[r] = "deleted" => \E a \in Admins : Deletes(a, r)

LEMMA DeletesKept ==
  ASSUME RoomsTypeOK, RoomsInv, RoomsNext, NEW a \in Admins, NEW r \in RoomIds, Deletes(a, r)
  PROVE  Deletes(a, r)'
<1> USE DEF Recorded
<1>0. a \in Requests /\ a \notin Callers
  BY RoomsAssumption DEF Requests
<1>1. ASSUME NEW q \in Callers, JoinStep(q) PROVE Deletes(a, r)'
  <2>1. q \in Requests /\ q # a
    BY <1>0 DEF Requests
  <2>2. req'[a] = req[a]
    BY <1>0, <1>1, <2>1 DEF JoinStep, Arrive, LimitPassed, LimitHit, Lookup, UnsealFails, Vouch,
       WrongPassword, Goto, Decide, RoomsTypeOK
  <2> QED BY <2>2 DEF Deletes
<1>2. ASSUME NEW b \in Admins, AdminStep(b) PROVE Deletes(a, r)'
  <2>1. req[b].pc = "idle" /\ b \in Requests
    BY <1>2 DEF AdminStep, Reject, Create, Insert, Delete, Remove, Requests
  <2>2. req'[a] = req[a]
    BY <1>0, <1>2, <2>1 DEF AdminStep, Reject, Create, Insert, Delete, Remove, Goto, RoomsTypeOK,
       Deletes
  <2> QED BY <2>2 DEF Deletes
<1>3. ASSUME NEW q \in Requests, CommonStep(q) PROVE Deletes(a, r)'
  <2>1. CASE q = a
    BY <1>0, <1>3, <2>1, GotoFields DEF CommonStep, Record, Respond, Drop, StatusOf, Actions, Deletes
  <2>2. CASE q # a
    <3>1. req'[a] = req[a]
      BY <1>0, <1>3, <2>2, GotoFields DEF CommonStep, Record, Respond, Drop
    <3> QED BY <3>1 DEF Deletes
  <2> QED BY <2>1, <2>2
<1>4. ASSUME NEW k \in Sockets, SocketStep(k) PROVE Deletes(a, r)'
  BY <1>4 DEF SocketStep, Present, FindRoom, Admit, TurnAway, Deletes
<1>5. CASE TimePasses \/ RoomsDone
  BY <1>5 DEF TimePasses, roomVars, RoomsDone, roomsVars, Deletes
<1> QED BY <1>1, <1>2, <1>3, <1>4, <1>5, RoomsCases

(* Only Delete deletes, and says so in its request.                        *)
LEMMA DeleterFound ==
  ASSUME RoomsTypeOK, RoomsNext, NEW r \in RoomIds, table[r] # "deleted", table'[r] = "deleted"
  PROVE  \E a \in Admins : Deletes(a, r)'
<1> DEFINE P == \E a \in Admins : Deletes(a, r)'
<1>1. ASSUME NEW q \in Callers, JoinStep(q) PROVE P
  BY <1>1 DEF JoinStep, Arrive, LimitPassed, LimitHit, Lookup, UnsealFails, Vouch, Expiry, WrongPassword
<1>2. ASSUME NEW a \in Admins, AdminStep(a) PROVE P
  <2>1. \E x \in RoomIds : Row(x) /\ Delete(a, x) /\ x = r
    BY <1>2 DEF AdminStep, Reject, Create, Insert, Delete, Remove, RoomsTypeOK
  <2>2. req' = [req EXCEPT ![a] = [@ EXCEPT !.pc = "auditing", !.about = r, !.action = "room.delete"]]
    BY <2>1 DEF Delete
  <2>3. Deletes(a, r)'
    BY <2>2 DEF Deletes, RoomsTypeOK, Request, Requests
  <2> QED BY <2>3
<1>3. ASSUME NEW q \in Requests, CommonStep(q) PROVE P
  BY <1>3 DEF CommonStep, Record, Respond, Drop
<1>4. ASSUME NEW k \in Sockets, SocketStep(k) PROVE P
  BY <1>4 DEF SocketStep, Present, FindRoom, Admit, TurnAway
<1>5. CASE TimePasses \/ RoomsDone
  BY <1>5 DEF TimePasses, roomVars, RoomsDone, roomsVars
<1> QED BY <1>1, <1>2, <1>3, <1>4, <1>5, RoomsCases

LEMMA DeleterHolds == RoomsSpec => []DeleterInv
<1>1. RoomsInit => DeleterInv
  BY DEF RoomsInit, DeleterInv
<1>2. AllInv /\ DeleterInv /\ [RoomsNext]_roomsVars => DeleterInv'
  <2> SUFFICES ASSUME AllInv, DeleterInv, [RoomsNext]_roomsVars,
                      NEW r \in RoomIds, table'[r] = "deleted"
               PROVE  \E a \in Admins : Deletes(a, r)'
    BY DEF DeleterInv
  <2>1. CASE RoomsNext /\ table[r] = "deleted"
    BY <2>1, DeletesKept DEF AllInv, DeleterInv
  <2>2. CASE RoomsNext /\ table[r] # "deleted"
    BY <2>2, DeleterFound DEF AllInv
  <2>3. CASE UNCHANGED roomsVars
    BY <2>3 DEF roomsVars, roomVars, DeleterInv, Deletes
  <2> QED BY <2>1, <2>2, <2>3
<1> QED BY <1>1, <1>2, AllHolds, PTL DEF RoomsSpec

(* The audit log and the rooms agree: what it records happened, a deletion *)
(* is recorded once, and it misses none but for a dropped handler or a     *)
(* database that refused the entry.                                        *)
THEOREM LogFaithfulCorrect == RoomsSpec => []LogFaithful
<1>1. AllInv => EntriesTrue
  <2> SUFFICES ASSUME AllInv, NEW e \in log
               PROVE  /\ req[e.by].action = e.action
                      /\ e.action = "room.delete" =>
                           /\ table[req[e.by].about] = "deleted"
                           /\ \A f \in log :
                                f.action = "room.delete" /\ req[f.by].about = req[e.by].about => f = e
                      /\ e.action = "room.create" => table[req[e.by].about] # "unused"
                      /\ e.action = "join.success" =>
                           req[e.by].knows /\ table[RoomOf[req[e.by].about]] # "unused"
    BY DEF EntriesTrue
  <2>1. \A f \in log : f = Entry(f.by) /\ f.action = req[f.by].action /\ f.by \in Requests
    BY DEF AllInv, RoomsInv, LogInv, RoomsTypeOK, Entry
  <2>2. /\ \A q \in Callers : JoinInv(q)
        /\ \A a \in Admins : AdminInv(a)
        /\ \A a, b \in Admins :
             req[a].action = "room.delete" /\ req[b].action = "room.delete"
             /\ req[a].about = req[b].about => a = b
    BY DEF AllInv, RoomsInv, RequestInv
  <2>3. \A f \in log : f.action \in {"room.create", "room.delete"} => f.by \in Admins
    BY <2>1, <2>2 DEF JoinInv, Requests
  <2>4. \A f \in log : f.action = "join.success" => f.by \in Callers
    BY <2>1, <2>2 DEF AdminInv, Requests
  <2>5. e.action = "room.delete" =>
          \A f \in log : f.action = "room.delete" /\ req[f.by].about = req[e.by].about => f = e
    <3> SUFFICES ASSUME e.action = "room.delete", NEW f \in log, f.action = "room.delete",
                        req[f.by].about = req[e.by].about
                 PROVE  f = e
      OBVIOUS
    <3>1. f.by = e.by
      BY <2>1, <2>2, <2>3
    <3>2. QED
      BY <2>1, <3>1
  <2>6. QED
    BY <2>1, <2>2, <2>3, <2>4, <2>5 DEF JoinInv, AdminInv
<1>2. AllInv /\ DeleterInv => DeletionsLogged
  <2> SUFFICES ASSUME AllInv, DeleterInv, NEW r \in RoomIds, table[r] = "deleted"
               PROVE  \E a \in Admins :
                        /\ req[a].action = "room.delete" /\ req[a].about = r
                        /\ \/ req[a].pc \in {"auditing", "dropped"}
                           \/ a \in lost
                           \/ [by |-> a, action |-> "room.delete"] \in log
    BY DEF DeletionsLogged
  <2>1. PICK a \in Admins : Deletes(a, r)
    BY DEF DeleterInv
  <2>2. EveryRequest(a)
    BY DEF AllInv, RoomsInv, RequestInv, Requests
  <2> QED BY <2>1, <2>2 DEF Deletes, EveryRequest, Entry
<1>3. QED
  BY <1>1, <1>2, AllHolds, DeleterHolds, PTL DEF LogFaithful

(* Without the password the answer is 401 or 429.                          *)
THEOREM UndisclosedCorrect == RoomsSpec => []Undisclosed
<1>1. AllInv => Undisclosed
  BY DEF AllInv, RoomsInv, RequestInv, JoinInv, JoinPcs, Awaiting, Statuses, Undisclosed
<1>2. QED
  BY <1>1, AllHolds, PTL


------------------------------------------------------------------------------
(* The pace of the log.  The callers the limiter has let through for a     *)
(* scope are no more than the attempts it has counted, and each of them has *)
(* one entry at the most.                                                  *)

LetThrough(s) ==
  {q \in Callers : req[q].pc \notin {"idle", "checking", "429"} /\ req[q].about = s}

LogPace ==
  \A s \in Scopes : /\ IsFiniteSet(LetThrough(s))
                    /\ Cardinality(LetThrough(s)) <= Len(passed[s])

LEMMA LogPaceInit == RoomsInit => LogPace
<1> SUFFICES ASSUME RoomsInit, NEW s \in Scopes
             PROVE  IsFiniteSet(LetThrough(s)) /\ Cardinality(LetThrough(s)) <= Len(passed[s])
  BY DEF LogPace
<1>1. LetThrough(s) = {}
  BY DEF RoomsInit, LetThrough, Requests
<1>2. Len(passed[s]) = 0
  BY DEF RoomsInit, LimiterInit
<1>3. QED
  BY <1>1, <1>2, FS_EmptySet

LEMMA PassGrows ==
  ASSUME LimiterTypeOK, NEW d \in calls, Pass(d), NEW s \in Scopes
  PROVE  Len(passed'[s]) = IF s = d.scope THEN Len(passed[s]) + 1 ELSE Len(passed[s])
<1>1. passed \in [Scopes -> Seq(Nat)] /\ now \in Nat
      /\ passed' = [passed EXCEPT ![d.scope] = Append(passed[d.scope], now)]
  BY DEF LimiterTypeOK, Pass
<1>2. CASE s = d.scope
  <2>1. passed[s] \in Seq(Nat) /\ passed'[s] = Append(passed[s], now)
    BY <1>1, <1>2
  <2>2. QED
    BY <1>1, <1>2, <2>1
<1>3. CASE s # d.scope
  BY <1>1, <1>3
<1>4. QED
  BY <1>2, <1>3

LEMMA LogPacePass ==
  ASSUME AllInv, LogPace, NEW q \in Callers, LimitPassed(q)
  PROVE  LogPace'
<1>1. PICK d \in calls : d.by = q /\ Pass(d)
  BY DEF LimitPassed
<1>2. req[q].pc = "checking" /\ req[q].about = d.scope /\ d.scope \in Scopes
  BY <1>1 DEF AllInv, RoomsInv, CallInv, LimiterTypeOK, Call
<1>3. /\ req'[q].pc \in {"looking", "auditing"} /\ req'[q].about = d.scope
      /\ \A x \in Callers \ {q} : req'[x] = req[x]
  BY <1>2, GotoFields, DecideFields DEF LimitPassed, AllInv, Requests
<1>4. ASSUME NEW s \in Scopes
      PROVE  (IsFiniteSet(LetThrough(s)) /\ Cardinality(LetThrough(s)) <= Len(passed[s]))'
  <2>1. LetThrough(s)' = IF s = d.scope THEN LetThrough(s) \cup {q} ELSE LetThrough(s)
    BY <1>2, <1>3 DEF LetThrough
  <2>2. q \notin LetThrough(s)
    BY <1>2 DEF LetThrough
  <2>3. IsFiniteSet(LetThrough(s)) /\ Cardinality(LetThrough(s)) <= Len(passed[s])
    BY DEF LogPace
  <2>4. Cardinality(LetThrough(s)) \in Nat /\ Len(passed[s]) \in Nat
    BY <2>3, FS_CardinalityType DEF AllInv, LimiterTypeOK
  <2>5. Len(passed'[s]) = IF s = d.scope THEN Len(passed[s]) + 1 ELSE Len(passed[s])
    BY <1>1, PassGrows DEF AllInv
  <2>6. CASE s = d.scope
    <3>1. Cardinality(LetThrough(s) \cup {q}) = Cardinality(LetThrough(s)) + 1
          /\ IsFiniteSet(LetThrough(s) \cup {q})
      BY <2>2, <2>3, FS_AddElement
    <3>2. LetThrough(s)' = LetThrough(s) \cup {q} /\ Len(passed'[s]) = Len(passed[s]) + 1
      BY <2>1, <2>5, <2>6
    <3>3. QED
      BY <2>3, <2>4, <3>1, <3>2
  <2>7. CASE s # d.scope
    BY <2>1, <2>3, <2>5, <2>7
  <2>8. QED
    BY <2>6, <2>7
<1>5. QED
  BY <1>4 DEF LogPace

(* Nobody else gets through: a request that is refused never moves again,  *)
(* one that waits for the database has been let through before.            *)
LEMMA NobodyElse ==
  ASSUME AllInv, RoomsNext, ~ \E q \in Callers : LimitPassed(q), NEW s \in Scopes
  PROVE  LetThrough(s)' = LetThrough(s) /\ passed'[s] = passed[s]
<1> DEFINE Still == \A x \in Callers :
                      \/ req'[x] = req[x]
                      \/ /\ req[x].pc \in {"idle", "checking"}
                         /\ req'[x].pc \in {"idle", "checking", "429"}
                      \/ /\ req[x].pc \notin {"idle", "checking", "429"}
                         /\ req'[x].pc \notin {"idle", "checking", "429"}
                         /\ req'[x].about = req[x].about
           OK == Still /\ passed' = passed
<1>0. Callers \subseteq Requests /\ Callers \cap Admins = {} /\ RoomsTypeOK
  BY RoomsAssumption DEF AllInv, Requests
<1>1. ASSUME NEW q \in Callers, JoinStep(q) PROVE OK
  <2>1. ASSUME NEW r \in Scopes, NEW k \in BOOLEAN, Arrive(q, r, k) PROVE OK
    BY <1>0, <2>1 DEF Arrive, ReadClock, RoomsTypeOK, Request
  <2>2. CASE LimitHit(q)
    BY <1>0, <2>2, GotoFields DEF LimitHit, Refuse
  <2>3. CASE Lookup(q)
    BY <1>0, <2>3, GotoFields, DecideFields DEF Lookup, limiterVars
  <2>4. CASE UnsealFails(q)
    BY <1>0, <2>4, GotoFields DEF UnsealFails, limiterVars
  <2>5. CASE Vouch(q)
    BY <1>0, <2>5 DEF Vouch, RoomsTypeOK, Request, limiterVars
  <2>6. CASE WrongPassword(q)
    BY <1>0, <2>6, DecideFields DEF WrongPassword, limiterVars
  <2>7. QED
    BY <1>1, <2>1, <2>2, <2>3, <2>4, <2>5, <2>6 DEF JoinStep
<1>2. ASSUME NEW a \in Admins, AdminStep(a) PROVE OK
  <2>1. UNCHANGED passed
    BY <1>2 DEF AdminStep, Reject, Create, Delete, limiterVars
  <2>2. \A x \in Requests \ {a} : req'[x] = req[x]
    BY <1>0, <1>2 DEF AdminStep, Reject, Create, Delete, Goto, RoomsTypeOK
  <2>3. QED
    BY <1>0, <2>1, <2>2
<1>3. ASSUME NEW q \in Requests, CommonStep(q) PROVE OK
  <2>1. CASE Record(q)
    BY <1>0, <2>1, GotoFields DEF Record, limiterVars
  <2>2. CASE Respond(q)
    <3>1. req[q].action \in Actions
      BY <2>2 DEF Respond, AllInv, RoomsInv, RequestInv, EveryRequest, Decided
    <3>2. StatusOf[req[q].action] \notin {"idle", "checking", "429"}
      BY <3>1 DEF StatusOf, Actions
    <3>3. QED
      BY <1>0, <2>2, <3>2, GotoFields DEF Respond, limiterVars
  <2>3. CASE Drop(q)
    BY <1>0, <2>3, GotoFields DEF Drop, Awaiting, limiterVars
  <2>4. QED
    BY <1>3, <2>1, <2>2, <2>3 DEF CommonStep
<1>4. ASSUME NEW k \in Sockets, SocketStep(k) PROVE OK
  BY <1>4 DEF SocketStep, Present, FindRoom, Admit, TurnAway, limiterVars
<1>5. ASSUME TimePasses \/ RoomsDone PROVE OK
  BY <1>5 DEF TimePasses, Tick, RoomsDone, roomsVars, roomVars, limiterVars
<1>6. OK
  BY <1>1, <1>2, <1>3, <1>4, <1>5 DEF RoomsNext
<1>7. QED
  BY <1>6 DEF LetThrough

LEMMA LogPaceStep == AllInv /\ LogPace /\ [RoomsNext]_roomsVars => LogPace'
<1> SUFFICES ASSUME AllInv, LogPace, [RoomsNext]_roomsVars PROVE LogPace'
  OBVIOUS
<1>1. CASE UNCHANGED roomsVars
  BY <1>1 DEF roomsVars, roomVars, limiterVars, LogPace, LetThrough
<1>2. CASE RoomsNext /\ ~ \E q \in Callers : LimitPassed(q)
  BY <1>2, NobodyElse DEF LogPace
<1>3. QED
  BY <1>1, <1>2, LogPacePass

(* Attempts from one address on one room write no more entries to the audit *)
(* log than the limiter lets through: whoever has an entry has been let    *)
(* through, and nobody has two.                                            *)
THEOREM LogPacedCorrect == RoomsSpec => []LogPaced
<1>1. AllInv /\ LogPace => LogPaced
  <2> SUFFICES ASSUME AllInv, LogPace, NEW s \in Scopes
               PROVE  Cardinality({e \in log : e.by \in Callers /\ req[e.by].about = s}) <= Len(passed[s])
    BY DEF LogPaced
  <2> DEFINE Written == {e \in log : e.by \in Callers /\ req[e.by].about = s}
             f == [e \in Written |-> e.by]
  <2>1. \A e \in Written : e = Entry(e.by) /\ e.by \in LetThrough(s)
    BY DEF AllInv, RoomsInv, LogInv, LetThrough, Recorded
  <2>2. f \in Injection(Written, LetThrough(s))
    BY <2>1 DEF Injection, IsInjective
  <2>3. IsFiniteSet(LetThrough(s)) /\ Cardinality(LetThrough(s)) <= Len(passed[s])
    BY DEF LogPace
  <2> HIDE DEF Written, f
  <2>4. IsFiniteSet(Written) /\ Cardinality(Written) <= Cardinality(LetThrough(s))
    BY <2>2, <2>3, FS_Injection
  <2>5. /\ Cardinality(Written) \in Nat /\ Cardinality(LetThrough(s)) \in Nat
        /\ Len(passed[s]) \in Nat
    BY <2>3, <2>4, FS_CardinalityType DEF AllInv, LimiterTypeOK
  <2>6. Cardinality(Written) <= Len(passed[s])
    BY <2>3, <2>4, <2>5
  <2>7. QED
    BY <2>6 DEF Written
<1>2. RoomsSpec => []LogPace
  BY LogPaceInit, LogPaceStep, AllHolds, PTL DEF RoomsSpec
<1>3. QED
  BY <1>1, <1>2, AllHolds, PTL

==============================================================================
