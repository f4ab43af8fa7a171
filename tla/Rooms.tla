-------------------------------- MODULE Rooms --------------------------------
(***************************************************************************)
(* Rooms and who gets into them: the admin API that creates and deletes    *)
(* rooms (meet-server/src/routes/admin.rs), the join endpoint that trades a *)
(* password for a token (routes/rooms_public.rs), and the check of the     *)
(* token when a socket joins (signaling/conn.rs), over the rooms table, the *)
(* audit log and the rate limiter.                                         *)
(*                                                                         *)
(* Every handler is a sequence of database calls; other requests are       *)
(* served at each of them, and a client that goes away while its handler   *)
(* awaits one takes the handler with it.  req[q].pc is where q is:         *)
(*   idle       not arrived                                                *)
(*   checking   in the rate limiter                                        *)
(*   looking    awaiting the room's row                                    *)
(*   found      the row is there; the password is yet to be compared       *)
(*   auditing   decided (action); awaiting the audit log                   *)
(*   audited    the answer is yet to be written                            *)
(*   dropped    the client went away                                       *)
(* and from then on the status it was answered with.                       *)
(***************************************************************************)
EXTENDS RateLimiter, FiniteSets

CONSTANTS
  RoomIds,   (* ids rooms may be given; never given twice                  *)
  RoomOf,    (* RoomOf[s]: the room of the scope (address, room)           *)
  Admins,    (* requests to the admin API; Callers are the join requests   *)
  Sockets,   (* WebSockets that present a token                            *)
  TokenLife  (* ROOM_TTL_MAX, 12 hours in the code                         *)

ASSUME RoomsAssumption ==
  /\ RoomOf \in [Scopes -> RoomIds]
  /\ Callers \cap Admins = {}
  /\ Sockets \cap (Callers \cup Admins) = {}
  /\ TokenLife \in Nat

VARIABLES
  table,  (* the rooms table: table[r] is "unused", "stored" or "deleted"  *)
  req,    (* the requests                                                  *)
  sock,   (* the sockets                                                   *)
  log,    (* the audit log: which request recorded which action            *)
  lost,   (* history: requests whose entry the database refused            *)
  late    (* history: join requests and sockets that arrived only after    *)
          (* their room had been deleted                                   *)

roomVars  == <<table, req, sock, log, lost, late>>
roomsVars == <<limiterVars, roomVars>>

Requests == Callers \cup Admins

(* Join requests are about a scope, admin requests about a room.           *)
Nothing == "nothing"

Actions == {"join.success", "join.failure", "room.create", "room.delete"}

StatusOf ==
  [a \in Actions |->
     CASE a = "join.success" -> "200"
       [] a = "join.failure" -> "401"
       [] a = "room.create"  -> "201"
       [] a = "room.delete"  -> "204"]

Statuses == {"200", "201", "204", "401", "404", "429", "500", "rejected"}

(* Where a handler waits for the database; at found and at audited the     *)
(* database is done and the handler has yet to be woken.                   *)
Awaiting == {"looking", "found", "auditing", "audited"}

RequestPcs == {"idle", "checking", "dropped"} \cup Awaiting \cup Statuses

Request ==
  [pc     : RequestPcs,
   about  : Scopes \cup RoomIds \cup {Nothing},
   knows  : BOOLEAN,
   action : Actions \cup {"none"},
   exp    : Nat]

Socket ==
  [pc   : {"idle", "looking", "checking", "admitted", "refused"},
   room : RoomIds \cup {Nothing},
   of   : Callers \cup {Nothing}]

Goto(q, label) == req' = [req EXCEPT ![q].pc = label]

Decide(q, act) == req' = [req EXCEPT ![q] = [@ EXCEPT !.pc = "auditing", !.action = act]]

(* Rooms survive a restart of the server, so some may be there already.    *)
RoomsInit ==
  /\ LimiterInit
  /\ table \in [RoomIds -> {"unused", "stored"}]
  /\ req = [q \in Requests |->
              [pc |-> "idle", about |-> Nothing, knows |-> FALSE, action |-> "none", exp |-> 0]]
  /\ sock = [k \in Sockets |-> [pc |-> "idle", room |-> Nothing, of |-> Nothing]]
  /\ log = {}
  /\ lost = {}
  /\ late = {}

------------------------------------------------------------------------------
(* The join endpoint.                                                      *)

Arrivals(x, r) == IF table[r] = "deleted" THEN late \cup {x} ELSE late

(* q is about scope s; k: the password it presents is the room's.          *)
Arrive(q, s, k) ==
  /\ req[q].pc = "idle"
  /\ ReadClock(q, s)
  /\ req' = [req EXCEPT ![q] = [@ EXCEPT !.pc = "checking", !.about = s, !.knows = k]]
  /\ late' = Arrivals(q, RoomOf[s])
  /\ UNCHANGED <<table, sock, log, lost>>

(* A display name or password of a bad shape is a failed join.             *)
LimitPassed(q) ==
  /\ req[q].pc = "checking"
  /\ \E d \in calls : d.by = q /\ Pass(d)
  /\ Goto(q, "looking") \/ Decide(q, "join.failure")
  /\ UNCHANGED <<table, sock, log, lost, late>>

(* [Mutant: an attempt over the limit is a failed join like any other.] *)
LimitHitAudited(q) ==
  /\ req[q].pc = "checking"
  /\ \E d \in calls : d.by = q /\ Refuse(d)
  /\ Decide(q, "join.failure")
  /\ UNCHANGED <<table, sock, log, lost, late>>

LimitHit(q) ==
  /\ req[q].pc = "checking"
  /\ \E d \in calls : d.by = q /\ Refuse(d)
  /\ Goto(q, "429")
  /\ UNCHANGED <<table, sock, log, lost, late>>

Row(r) == table[r] = "stored"

(* An unknown room and a failed query are the same to the client.          *)
Lookup(q) ==
  /\ req[q].pc = "looking"
  /\ \/ Row(RoomOf[req[q].about]) /\ Goto(q, "found")
     \/ Decide(q, "join.failure")
  /\ UNCHANGED <<limiterVars, table, sock, log, lost, late>>

(* [Mutant: the room's secret is opened before the password is compared.] *)
UnsealFailsEarly(q) ==
  /\ req[q].pc = "found"
  /\ Goto(q, "500")
  /\ UNCHANGED <<limiterVars, table, sock, log, lost, late>>

(* The room's secret cannot be opened, or the token cannot be made.        *)
UnsealFails(q) ==
  /\ req[q].pc = "found"
  /\ req[q].knows
  /\ Goto(q, "500")
  /\ UNCHANGED <<limiterVars, table, sock, log, lost, late>>

(* issue_room caps what it is asked for, and the endpoint asks for the cap.  *)
Expiry == now + TokenLife

(* [Mutant: a join that succeeds clears the counter of its scope.] *)
VouchAndClear(q) ==
  /\ req[q].pc = "found"
  /\ req[q].knows
  /\ req' = [req EXCEPT ![q] = [@ EXCEPT !.pc = "auditing", !.action = "join.success", !.exp = Expiry]]
  /\ buckets' = [buckets EXCEPT ![req[q].about].count = 0]
  /\ UNCHANGED <<now, calls, answer, passed, table, sock, log, lost, late>>

(* [Mutant: the answer does not wait for the audit log.] *)
VouchUnrecorded(q) ==
  /\ req[q].pc = "found"
  /\ req[q].knows
  /\ req' = [req EXCEPT ![q] = [@ EXCEPT !.pc = "audited", !.action = "join.success", !.exp = Expiry]]
  /\ UNCHANGED <<limiterVars, table, sock, log, lost, late>>

(* [Mutant: the life of a token is not capped.] *)
VouchTooLong(q) ==
  /\ req[q].pc = "found"
  /\ req[q].knows
  /\ req' = [req EXCEPT ![q] = [@ EXCEPT !.pc = "auditing", !.action = "join.success", !.exp = Expiry + 1]]
  /\ UNCHANGED <<limiterVars, table, sock, log, lost, late>>

(* The token is made now, and handed out with the answer.                  *)
Vouch(q) ==
  /\ req[q].pc = "found"
  /\ req[q].knows
  /\ req' = [req EXCEPT ![q] = [@ EXCEPT !.pc = "auditing", !.action = "join.success", !.exp = Expiry]]
  /\ UNCHANGED <<limiterVars, table, sock, log, lost, late>>

WrongPassword(q) ==
  /\ req[q].pc = "found"
  /\ ~req[q].knows
  /\ Decide(q, "join.failure")
  /\ UNCHANGED <<limiterVars, table, sock, log, lost, late>>

------------------------------------------------------------------------------
(* The admin API.                                                          *)

Insert(r) == table' = [table EXCEPT ![r] = "stored"]

Remove(r) == table' = [table EXCEPT ![r] = "deleted"]

(* A request that is refused for its token or its fields, or fails: 400,   *)
(* 401 or 500.                                                             *)
Reject(a) ==
  /\ req[a].pc = "idle"
  /\ Goto(a, "rejected")
  /\ UNCHANGED <<limiterVars, table, sock, log, lost, late>>

Create(a, r) ==
  /\ req[a].pc = "idle"
  /\ table[r] = "unused"
  /\ Insert(r)
  /\ req' = [req EXCEPT ![a] = [@ EXCEPT !.pc = "auditing", !.about = r, !.action = "room.create"]]
  /\ UNCHANGED <<limiterVars, sock, log, lost, late>>

(* [Mutant: the number of rows removed is not looked at.] *)
DeleteAny(a, r) ==
  /\ req[a].pc = "idle"
  /\ table' = [table EXCEPT ![r] = IF Row(r) THEN "deleted" ELSE @]
  /\ req' = [req EXCEPT ![a] = [@ EXCEPT !.pc = "auditing", !.about = r, !.action = "room.delete"]]
  /\ UNCHANGED <<limiterVars, sock, log, lost, late>>

Delete(a, r) ==
  /\ req[a].pc = "idle"
  /\ \/ /\ Row(r)
        /\ Remove(r)
        /\ req' = [req EXCEPT ![a] = [@ EXCEPT !.pc = "auditing", !.about = r, !.action = "room.delete"]]
     \/ /\ ~Row(r)
        /\ Goto(a, "404")
        /\ UNCHANGED table
  /\ UNCHANGED <<limiterVars, sock, log, lost, late>>

------------------------------------------------------------------------------
(* What all handlers have in common.                                       *)

(* The result of the append is ignored.                                    *)
Record(q) ==
  /\ req[q].pc = "auditing"
  /\ Goto(q, "audited")
  /\ \/ /\ log' = log \cup {[by |-> q, action |-> req[q].action]}
        /\ UNCHANGED lost
     \/ /\ lost' = lost \cup {q}
        /\ UNCHANGED log
  /\ UNCHANGED <<limiterVars, table, sock, late>>

Respond(q) ==
  /\ req[q].pc = "audited"
  /\ Goto(q, StatusOf[req[q].action])
  /\ UNCHANGED <<limiterVars, table, sock, log, lost, late>>

Drop(q) ==
  /\ req[q].pc \in Awaiting
  /\ Goto(q, "dropped")
  /\ UNCHANGED <<limiterVars, table, sock, log, lost, late>>

------------------------------------------------------------------------------
(* Sockets.                                                                *)

(* Anyone may present, for any room, a token that has been handed out.     *)
Present(k, r, q) ==
  /\ sock[k].pc = "idle"
  /\ req[q].pc = "200"
  /\ sock' = [sock EXCEPT ![k] = [pc |-> "looking", room |-> r, of |-> q]]
  /\ late' = Arrivals(k, r)
  /\ UNCHANGED <<limiterVars, table, req, log, lost>>

(* [Mutant: the token is trusted without looking for the room.] *)
FindRoomTrusting(k) ==
  /\ sock[k].pc = "looking"
  /\ sock' = [sock EXCEPT ![k].pc = "checking"]
  /\ UNCHANGED <<limiterVars, table, req, log, lost, late>>

FindRoom(k) ==
  /\ sock[k].pc = "looking"
  /\ Row(sock[k].room)
  /\ sock' = [sock EXCEPT ![k].pc = "checking"]
  /\ UNCHANGED <<limiterVars, table, req, log, lost, late>>

(* The token opens with the secret of its own room only.                   *)
Admit(k) ==
  LET q == sock[k].of IN
  /\ sock[k].pc = "checking"
  /\ RoomOf[req[q].about] = sock[k].room
  /\ now <= req[q].exp
  /\ sock' = [sock EXCEPT ![k].pc = "admitted"]
  /\ UNCHANGED <<limiterVars, table, req, log, lost, late>>

(* No such room, a failed query, a secret that cannot be opened, a token of *)
(* another room or one that has expired.                                   *)
TurnAway(k) ==
  /\ sock[k].pc \in {"looking", "checking"}
  /\ sock' = [sock EXCEPT ![k].pc = "refused"]
  /\ UNCHANGED <<limiterVars, table, req, log, lost, late>>

------------------------------------------------------------------------------

JoinStep(q) ==
  \/ \E s \in Scopes, k \in BOOLEAN : Arrive(q, s, k)
  \/ LimitPassed(q) \/ LimitHit(q)
  \/ Lookup(q) \/ UnsealFails(q) \/ Vouch(q) \/ WrongPassword(q)

AdminStep(a) ==
  \/ Reject(a)
  \/ \E r \in RoomIds : Create(a, r) \/ Delete(a, r)

CommonStep(q) == Record(q) \/ Respond(q) \/ Drop(q)

SocketStep(k) ==
  \/ \E r \in RoomIds, q \in Callers : Present(k, r, q)
  \/ FindRoom(k) \/ Admit(k) \/ TurnAway(k)

TimePasses == Tick /\ UNCHANGED roomVars

RoomsDone ==
  /\ now = MaxTime
  /\ \A q \in Requests : req[q].pc \in Statuses \cup {"dropped"}
  /\ UNCHANGED roomsVars

RoomsNext ==
  \/ \E q \in Callers : JoinStep(q)
  \/ \E a \in Admins : AdminStep(a)
  \/ \E q \in Requests : CommonStep(q)
  \/ \E k \in Sockets : SocketStep(k)
  \/ TimePasses
  \/ RoomsDone

RoomsSpec == RoomsInit /\ [][RoomsNext]_roomsVars

------------------------------------------------------------------------------
(* Properties.                                                             *)

(* Types; no token outlives its cap from now.                              *)
RoomsTypeOK ==
  /\ table \in [RoomIds -> {"unused", "stored", "deleted"}]
  /\ req \in [Requests -> Request]
  /\ \A q \in Requests : req[q].exp <= now + TokenLife
  /\ sock \in [Sockets -> Socket]
  /\ log \subseteq [by : Requests, action : Actions]
  /\ lost \subseteq Requests
  /\ late \subseteq Callers \cup Sockets

(* After a room has been deleted its door is shut: no join request that    *)
(* arrives then is given a token and no socket that arrives then is        *)
(* admitted, whatever tokens are still about and whatever requests were    *)
(* under way when it was deleted.                                          *)
DeletedStaysShut ==
  /\ \A q \in late \cap Callers : req[q].action # "join.success"
  /\ \A k \in late \cap Sockets : sock[k].pc # "admitted"

(* Whoever is in a room got there through a join request for that very room *)
(* with its password, which the limiter counted and which the audit log    *)
(* shows, unless the database refused the entry.                           *)
AdmittedOnRecord ==
  \A k \in Sockets : sock[k].pc = "admitted" =>
    LET q == sock[k].of IN
    /\ req[q].knows
    /\ RoomOf[req[q].about] = sock[k].room
    /\ passed[req[q].about] # <<>>
    /\ q \in lost \/ [by |-> q, action |-> "join.success"] \in log

(* What the audit log says happened: a room recorded as deleted is deleted, *)
(* and by one request only; one recorded as created or joined has existed; *)
(* a recorded success had the password; a request has one entry.           *)
EntriesTrue ==
  \A e \in log :
    LET about == req[e.by].about IN
    /\ req[e.by].action = e.action
    /\ e.action = "room.delete" =>
         /\ table[about] = "deleted"
         /\ \A f \in log : f.action = "room.delete" /\ req[f.by].about = about => f = e
    /\ e.action = "room.create"  => table[about] # "unused"
    /\ e.action = "join.success" => req[e.by].knows /\ table[RoomOf[about]] # "unused"

(* A deletion without an entry is one whose entry is still to be written,  *)
(* or was lost with its handler or to the database.                        *)
DeletionsLogged ==
  \A r \in RoomIds : table[r] = "deleted" =>
    \E a \in Admins :
      /\ req[a].action = "room.delete" /\ req[a].about = r
      /\ \/ req[a].pc \in {"auditing", "dropped"}
         \/ a \in lost
         \/ [by |-> a, action |-> "room.delete"] \in log

(* The audit log and the rooms table agree, in both directions.            *)
LogFaithful == EntriesTrue /\ DeletionsLogged

(* Attempts from one address on one room write no more entries to the audit *)
(* log than the limiter lets through.                                      *)
LogPaced ==
  \A s \in Scopes :
    Cardinality({e \in log : e.by \in Callers /\ req[e.by].about = s}) <= Len(passed[s])

(* A client without the password learns nothing of whether the room exists: *)
(* it is answered 401, or 429 before the room is looked at.                *)
Undisclosed ==
  \A q \in Callers : req[q].pc \in Statuses /\ ~req[q].knows => req[q].pc \in {"401", "429"}

==============================================================================
