---------------------------- MODULE BrowserProofs ----------------------------
(***************************************************************************)
(* The line of a tab, for any number of sockets, visits and attempts.      *)
(***************************************************************************)
EXTENDS Browser, FiniteSetTheorems, WellFoundedInduction, TLAPS

(* A client is a record of these fields.                                   *)
IsClient(cl) ==
  /\ cl = [socket |-> cl.socket, timers |-> cl.timers, handle |-> cl.handle, delay |-> cl.delay,
           attempts |-> cl.attempts, intentional |-> cl.intentional, joined |-> cl.joined]
  /\ cl.socket \in Sockets \cup {NoSocket}
  /\ cl.timers \in Nat /\ cl.handle \in BOOLEAN /\ cl.intentional \in BOOLEAN

LineTyped ==
  /\ page \in {"lobby", "room"}
  /\ visit \in Nat
  /\ socket \in [Sockets -> {"none", "connecting", "open", "closing"}]
  /\ owner \in [Sockets -> Nat]
  /\ IsClient(client)

(* The socket of the client is the one in use, and was made in this visit; *)
(* the timer is known to the client and excludes a socket; a client that is *)
(* closed, as it is whenever the tab is in the lobby, has neither.         *)
Line ==
  /\ \A s \in Live : client.socket = s /\ owner[s] = visit
  /\ client.socket # NoSocket => client.socket \in Live
  /\ client.timers = (IF client.handle THEN 1 ELSE 0)
  /\ client.handle => client.socket = NoSocket
  /\ client.intentional <=> page = "lobby"
  /\ client.intentional => client.socket = NoSocket /\ ~client.handle
  /\ \A s \in Sockets : owner[s] <= visit
  /\ \A s \in Sockets : socket[s] = "closing" /\ owner[s] = visit => page = "lobby"

LineInv == LineTyped /\ Line

LEMMA LineInit == BrowserInit => LineInv
  BY BrowserAssumption DEF BrowserInit, LineInv, LineTyped, IsClient, Line, Live

(* The updates of the client, field by field. *)
LEMMA WithSocket ==
  ASSUME NEW cl, IsClient(cl), NEW x \in Sockets \cup {NoSocket}, NEW n,
         n = [cl EXCEPT !.socket = x]
  PROVE  /\ IsClient(n) /\ n.socket = x
         /\ n.timers = cl.timers /\ n.handle = cl.handle /\ n.intentional = cl.intentional
<1>1. n = [socket |-> x, timers |-> cl.timers, handle |-> cl.handle, delay |-> cl.delay,
           attempts |-> cl.attempts, intentional |-> cl.intentional, joined |-> cl.joined]
  BY DEF IsClient
<1> QED BY <1>1 DEF IsClient

LEMMA Scheduled ==
  ASSUME NEW cl, IsClient(cl), NEW n, n = ScheduleReconnect(cl)
  PROVE  /\ IsClient(n) /\ n.timers = cl.timers + 1 /\ n.handle = TRUE
         /\ n.socket = cl.socket /\ n.intentional = cl.intentional
<1> DEFINE d == Delay(cl.attempts)
           a == OneMore(cl.attempts)
<1>1. n = [cl EXCEPT !.delay = d, !.attempts = a, !.timers = cl.timers + 1, !.handle = TRUE]
  BY DEF ScheduleReconnect, IsClient
<1> HIDE DEF d, a
<1>2. n = [socket |-> cl.socket, timers |-> cl.timers + 1, handle |-> TRUE, delay |-> d,
           attempts |-> a, intentional |-> cl.intentional, joined |-> cl.joined]
  BY <1>1 DEF IsClient
<1> QED BY <1>2 DEF IsClient

LEMMA Reopening ==
  ASSUME NEW cl, IsClient(cl), NEW n,
         \/ n = [cl EXCEPT !.handle = FALSE, !.attempts = 0, !.intentional = FALSE, !.joined = FALSE]
         \/ n = [cl EXCEPT !.timers = @ - 1, !.handle = FALSE] /\ cl.timers = 1
  PROVE  IsClient(n) /\ ~n.handle /\ n.timers <= cl.timers /\ (n.intentional => cl.intentional)
<1>1. CASE n = [cl EXCEPT !.handle = FALSE, !.attempts = 0, !.intentional = FALSE, !.joined = FALSE]
  <2>1. n = [socket |-> cl.socket, timers |-> cl.timers, handle |-> FALSE, delay |-> cl.delay,
             attempts |-> 0, intentional |-> FALSE, joined |-> FALSE]
    BY <1>1 DEF IsClient
  <2> QED BY <2>1 DEF IsClient
<1>2. CASE n = [cl EXCEPT !.timers = @ - 1, !.handle = FALSE] /\ cl.timers = 1
  <2>1. n = [cl EXCEPT !.timers = 0, !.handle = FALSE]
    BY <1>2 DEF IsClient
  <2>2. n = [socket |-> cl.socket, timers |-> 0, handle |-> FALSE, delay |-> cl.delay,
             attempts |-> cl.attempts, intentional |-> cl.intentional, joined |-> cl.joined]
    BY <2>1 DEF IsClient
  <2> QED BY <2>2, <1>2 DEF IsClient
<1> QED BY <1>1, <1>2

(* A step that leaves the page and the line alone.                         *)
LEMMA OffLine ==
  LineInv /\ UNCHANGED <<page, visit, socket, owner, client>> => LineInv'
  BY DEF LineInv, LineTyped, IsClient, Line, Live

(* A client that has neither socket nor timer makes a socket.              *)
LEMMA OpenSocketLine ==
  ASSUME LineInv, NEW cl, IsClient(cl), ~cl.handle, cl.timers = 0, ~cl.intentional,
         NEW v \in Nat, v >= visit, v = visit => page = "room", Live = {},
         OpenSocket(cl, v), visit' = v, page' = "room"
  PROVE  LineInv'
<1>1. PICK s \in Sockets :
        /\ socket[s] = "none"
        /\ socket' = [socket EXCEPT ![s] = "connecting"]
        /\ owner' = [owner EXCEPT ![s] = v]
        /\ client' = [cl EXCEPT !.socket = s]
  BY DEF OpenSocket
<1>0. /\ IsClient(client') /\ client'.socket = s /\ client'.timers = 0
      /\ ~client'.handle /\ ~client'.intentional
  BY <1>1, WithSocket
<1>2. LineTyped'
  BY <1>0, <1>1 DEF LineInv, LineTyped, IsClient
<1>3. Live' = {s}
  BY <1>1 DEF Live, LineInv, LineTyped
<1>4. Line'
  BY <1>0, <1>1, <1>2, <1>3, BrowserAssumption DEF LineInv, LineTyped, Line
<1> QED BY <1>2, <1>4 DEF LineInv

LEMMA CloseClientLine ==
  ASSUME LineInv, CloseClient, UNCHANGED <<visit, owner>>, page' = "lobby"
  PROVE  LineInv'
<1>1. /\ IsClient(client') /\ client'.socket = NoSocket /\ client'.timers = 0
      /\ ~client'.handle /\ client'.intentional
  <2> DEFINE t == IF client.handle THEN client.timers - 1 ELSE client.timers
  <2>1. t = 0
    BY DEF LineInv, LineTyped, IsClient, Line
  <2>2. client' = [client EXCEPT !.intentional = TRUE, !.socket = NoSocket, !.handle = FALSE,
                                 !.timers = t]
    BY DEF CloseClient, LineInv, LineTyped, IsClient
  <2> HIDE DEF t
  <2>3. client' = [socket |-> NoSocket, timers |-> t, handle |-> FALSE, delay |-> client.delay,
                   attempts |-> client.attempts, intentional |-> TRUE, joined |-> client.joined]
    BY <2>2 DEF LineInv, LineTyped, IsClient
  <2> QED BY <2>1, <2>3 DEF IsClient
<1>2. socket' = [s \in Sockets |-> IF s = client.socket THEN "closing" ELSE socket[s]]
  BY DEF CloseClient
<1>3. LineTyped'
  BY <1>1, <1>2 DEF LineInv, LineTyped, IsClient
<1>4. Live' = {}
  BY <1>2 DEF LineInv, LineTyped, Line, Live
<1>5. Line'
  BY <1>1, <1>2, <1>3, <1>4 DEF LineInv, LineTyped, Line
<1> QED BY <1>3, <1>5 DEF LineInv

LEMMA ClosedLine ==
  ASSUME LineInv, NEW s \in Sockets, NEW code, Closed(s, code)
  PROVE  LineInv'
<1>1. socket' = [socket EXCEPT ![s] = "none"] /\ UNCHANGED <<page, visit, owner>>
  BY DEF Closed
<1>2. Live' = Live \ {s}
  BY <1>1 DEF LineInv, LineTyped, Live
<1>3. CASE owner[s] # visit
  <2>1. UNCHANGED client /\ s \notin Live
    BY <1>3 DEF Closed, LineInv, Line
  <2> QED BY <1>1, <1>2, <2>1 DEF LineInv, LineTyped, IsClient, Line
<1>4. CASE owner[s] = visit
  <2> DEFINE cl == [client EXCEPT !.socket = NoSocket]
  <2>1. /\ IsClient(cl) /\ cl.socket = NoSocket /\ cl.timers = client.timers
        /\ cl.handle = client.handle /\ cl.intentional = client.intentional
    BY WithSocket DEF LineInv, LineTyped
  <2>2. client' = cl \/ (client' = ScheduleReconnect(cl) /\ ~cl.intentional)
    BY <1>4 DEF Closed, AfterClose
  <2> HIDE DEF cl
  <2>3. /\ IsClient(client') /\ client'.socket = NoSocket
        /\ client'.intentional = client.intentional
        /\ \/ client'.timers = client.timers /\ client'.handle = client.handle
           \/ ~client.intentional /\ client'.timers = client.timers + 1 /\ client'.handle = TRUE
    <3>1. CASE client' = cl
      BY <2>1, <3>1
    <3>2. CASE client' = ScheduleReconnect(cl) /\ ~cl.intentional
      <4>1. PICK n : n = ScheduleReconnect(cl)
        OBVIOUS
      <4>2. /\ IsClient(n) /\ n.timers = cl.timers + 1 /\ n.handle
            /\ n.socket = cl.socket /\ n.intentional = cl.intentional
        BY <2>1, <4>1, Scheduled
      <4>3. client' = n
        BY <3>2, <4>1
      <4> QED BY <2>1, <3>2, <4>2, <4>3
    <3> QED BY <2>2, <3>1, <3>2
  <2>4. ~client.intentional => client.socket = s /\ ~client.handle /\ client.timers = 0
    BY <1>4, BrowserAssumption DEF Closed, LineInv, LineTyped, Line, Live
  <2>5. Live' = {}
    <3>1. CASE client.intentional
      BY <1>2, <3>1, BrowserAssumption DEF LineInv, Line, Live
    <3>2. CASE ~client.intentional
      BY <1>2, <2>4, <3>2 DEF LineInv, Line
    <3> QED BY <3>1, <3>2
  <2>6. LineTyped'
    BY <1>1, <2>3 DEF LineInv, LineTyped
  <2>7. Line'
    BY <1>1, <2>3, <2>4, <2>5, <2>6 DEF LineInv, LineTyped, Line
  <2> QED BY <2>6, <2>7 DEF LineInv
<1> QED BY <1>3, <1>4

LEMMA OpenedLine ==
  ASSUME LineInv, NEW s \in Sockets, Opened(s)
  PROVE  LineInv'
<1>1. /\ socket' = [socket EXCEPT ![s] = "open"] /\ UNCHANGED <<page, visit, owner>>
      /\ client' = [client EXCEPT !.attempts = 0, !.joined = FALSE]
      /\ socket[s] = "connecting"
  BY DEF Opened
<1>2. client' = [socket |-> client.socket, timers |-> client.timers, handle |-> client.handle,
                 delay |-> client.delay, attempts |-> 0, intentional |-> client.intentional,
                 joined |-> FALSE]
  BY <1>1 DEF LineInv, LineTyped, IsClient
<1>3. LineTyped'
  BY <1>1, <1>2 DEF LineInv, LineTyped, IsClient
<1>4. Live' = Live
  BY <1>1 DEF LineInv, LineTyped, Live
<1>5. Line'
  BY <1>1, <1>2, <1>3, <1>4 DEF LineInv, LineTyped, Line
<1> QED BY <1>3, <1>5 DEF LineInv

LEMMA HeardLine ==
  ASSUME LineInv, NEW s \in Sockets, HearMessage(s)
  PROVE  LineInv'
<1>1. /\ UNCHANGED <<page, visit, socket, owner>>
      /\ client' = client \/ client' = [client EXCEPT !.joined = TRUE]
  BY DEF HearMessage, HearJoined, HearPeerJoined, HearPeerUpdated, HearPeerLeft, HearChat, Heard
<1>2. CASE client' = client
  BY <1>1, <1>2, OffLine
<1>3. CASE client' = [client EXCEPT !.joined = TRUE]
  <2>1. client' = [socket |-> client.socket, timers |-> client.timers, handle |-> client.handle,
                   delay |-> client.delay, attempts |-> client.attempts,
                   intentional |-> client.intentional, joined |-> TRUE]
    BY <1>3 DEF LineInv, LineTyped, IsClient
  <2>2. LineTyped'
    BY <1>1, <2>1 DEF LineInv, LineTyped, IsClient
  <2>3. Line'
    BY <1>1, <2>1, <2>2 DEF LineInv, LineTyped, Line, Live
  <2> QED BY <2>2, <2>3 DEF LineInv
<1> QED BY <1>1, <1>2, <1>3

LEMMA EnterLine == LineInv /\ Enter => LineInv'
<1> SUFFICES ASSUME LineInv, Enter PROVE LineInv'
  OBVIOUS
<1>1. PICK cl :
        /\ cl = [client EXCEPT !.handle = FALSE, !.attempts = 0, !.intentional = FALSE,
                               !.joined = FALSE]
        /\ OpenSocket(cl, visit + 1)
  BY DEF Enter
<1>2. visit' = visit + 1 /\ page' = "room" /\ page = "lobby"
  BY DEF Enter
<1>3. IsClient(client) /\ Live = {} /\ client.timers = 0
  BY <1>2, BrowserAssumption DEF LineInv, LineTyped, Line, Live
<1>4. IsClient(cl) /\ ~cl.handle /\ cl.timers <= client.timers
  BY <1>1, <1>3, Reopening
<1>5. cl.timers = 0 /\ ~cl.intentional
  BY <1>1, <1>3, <1>4 DEF IsClient
<1>6. visit + 1 \in Nat /\ visit + 1 >= visit /\ visit + 1 # visit
  BY DEF LineInv, LineTyped
<1> QED BY <1>1, <1>2, <1>3, <1>4, <1>5, <1>6, OpenSocketLine

LEMMA TimerLine == LineInv /\ TimerFires => LineInv'
<1> SUFFICES ASSUME LineInv, TimerFires PROVE LineInv'
  OBVIOUS
<1>1. PICK cl :
        /\ cl = [client EXCEPT !.timers = @ - 1, !.handle = FALSE]
        /\ OpenSocket(cl, visit)
  BY DEF TimerFires
<1>2. UNCHANGED <<visit, page>> /\ client.timers > 0
  BY DEF TimerFires
<1>3. IsClient(client) /\ Live = {} /\ client.timers = 1 /\ page = "room" /\ ~client.intentional
  BY <1>2, BrowserAssumption DEF LineInv, LineTyped, IsClient, Line, Live
<1>4. IsClient(cl) /\ ~cl.handle /\ ~cl.intentional
  BY <1>1, <1>3, Reopening
<1>5. cl.timers = 0
  BY <1>1, <1>3 DEF IsClient
<1>6. visit \in Nat /\ visit >= visit
  BY DEF LineInv, LineTyped
<1> QED BY <1>1, <1>2, <1>3, <1>4, <1>5, <1>6, OpenSocketLine

LEMMA LineStep == LineInv /\ [BrowserNext]_tabVars => LineInv'
<1> SUFFICES ASSUME LineInv, [BrowserNext]_tabVars PROVE LineInv'
  OBVIOUS
<1>1. CASE Enter
  BY <1>1, EnterLine
<1>2. CASE Leave \/ GoBack
  BY <1>2, CloseClientLine DEF Leave, GoBack
<1>3. CASE OfferMade \/ SodiumReady \/ RunTask \/ Stay \/ UNCHANGED tabVars
  BY <1>3, OffLine DEF OfferMade, SodiumReady, RunTask, Stay, tabVars, lineVars
<1>4. CASE TimerFires
  BY <1>4, TimerLine
<1>5. ASSUME NEW s \in Sockets, Opened(s) PROVE LineInv'
  BY <1>5, OpenedLine
<1>6. ASSUME NEW s \in Sockets, HearMessage(s) PROVE LineInv'
  BY <1>6, HeardLine
<1>7. ASSUME NEW s \in Sockets, NEW code \in Codes(s), Closed(s, code) PROVE LineInv'
  BY <1>7, ClosedLine
<1> QED
  BY <1>1, <1>2, <1>3, <1>4, <1>5, <1>6, <1>7 DEF BrowserNext

LEMMA LineAlways == BrowserSpec => []LineInv
  BY LineInit, LineStep, PTL DEF BrowserSpec

LEMMA LineOne == LineInv => OneLine
<1> SUFFICES ASSUME LineInv PROVE OneLine
  OBVIOUS
<1>1. CASE Live = {}
  BY <1>1, FS_EmptySet DEF OneLine, LineInv, LineTyped, IsClient, Line
<1>2. CASE Live # {}
  <2>1. PICK s \in Live : TRUE
    BY <1>2
  <2>2. Live = {s} /\ client.timers = 0
    BY <2>1, BrowserAssumption DEF LineInv, LineTyped, Line, Live
  <2> QED BY <2>2, FS_Singleton DEF OneLine, LineInv, Line
<1> QED BY <1>1, <1>2

(* At most one socket in use or one timer that will make one, and the      *)
(* client writes to that socket.                                           *)
THEOREM OneLineCorrect == BrowserSpec => []OneLine
  BY LineAlways, LineOne, PTL

(* A tab in the lobby has neither, whatever events are still to come.      *)
THEOREM QuietAfterLeaveCorrect == BrowserSpec => []QuietAfterLeave
<1>1. LineInv => QuietAfterLeave
  BY BrowserAssumption DEF LineInv, Line, QuietAfterLeave, Live
<1> QED BY <1>1, LineAlways, PTL

------------------------------------------------------------------------------
(* The keys.                                                               *)

Task == [kind : {"record", "announce", "ingest", "clear"}, pids : SUBSET Pids, visit : Nat]

KeysTyped ==
  /\ {stay, keypair, drawn} \subseteq Nat
  /\ keypair <= drawn
  /\ tasks \in Seq(Task)
  /\ announced \subseteq Nat \X Nat

(* The key pair in use is about to be dropped.                             *)
Clears(q) == \E j \in DOMAIN q : q[j].kind = "clear"

(* A continuation belongs to this visit or an earlier one, and an          *)
(* announcement that stands before a clear can no longer be sent.          *)
Orderly(q) ==
  /\ \A i \in DOMAIN q : q[i].visit <= visit
  /\ \A i, j \in DOMAIN q :
       i < j /\ q[i].kind = "announce" /\ q[j].kind = "clear" =>
         q[i].visit < visit \/ page = "lobby"

(* What has been told is of this stay, and then the pair in use, or of an  *)
(* earlier one, and then not the pair in use, or one still to be dropped.  *)
Told ==
  /\ \A a \in announced : a[1] <= stay /\ 1 <= a[2] /\ a[2] <= drawn
  /\ \A a \in announced : a[1] = stay => a[2] = keypair /\ ~Clears(tasks)
  /\ \A a \in announced : a[1] < stay => a[2] # keypair \/ Clears(tasks)
  /\ KeyPerStay

KeyInv == KeysTyped /\ Orderly(tasks) /\ Told

LEMMA KeyInit == BrowserInit => KeyInv
  BY DEF BrowserInit, KeyInv, KeysTyped, Orderly, Told, Clears, KeyPerStay

(* Only a tab that shows the room can send.                                *)
LEMMA SendsInRoom == LineInv /\ CanSend => page = "room"
  BY DEF LineInv, LineTyped, Line, CanSend

(* A continuation that is no clear is put at the end.                      *)
LEMMA KeyAppend ==
  ASSUME visit \in Nat, NEW q \in Seq(Task), Orderly(q),
         NEW t \in Task, t.kind # "clear", t.visit = visit
  PROVE  /\ Append(q, t) \in Seq(Task) /\ Orderly(Append(q, t))
         /\ Clears(Append(q, t)) <=> Clears(q)
<1> DEFINE r == Append(q, t)
<1>1. /\ r \in Seq(Task) /\ DOMAIN q = 1 .. Len(q) /\ Len(q) \in Nat
      /\ DOMAIN r = 1 .. (Len(q) + 1)
      /\ \A i \in DOMAIN q : r[i] = q[i]
      /\ r[Len(q) + 1] = t
  OBVIOUS
<1> HIDE DEF r
<1>2. Orderly(r)
  BY <1>1 DEF Orderly
<1>3. Clears(r) <=> Clears(q)
  BY <1>1 DEF Clears
<1> QED BY <1>1, <1>2, <1>3 DEF r

(* A step that appends at most continuations that are no clear and stays in *)
(* the visit.                                                              *)
LEMMA KeyQueued ==
  ASSUME KeyInv, tasks' \in Seq(Task), Orderly(tasks'), Clears(tasks') <=> Clears(tasks),
         UNCHANGED <<page, visit, stay, keypair, drawn, announced>>
  PROVE  KeyInv'
<1>1. KeysTyped' /\ Orderly(tasks)'
  BY DEF KeyInv, KeysTyped, Orderly
<1>2. Clears(tasks)' <=> Clears(tasks)
  BY DEF Clears
<1>3. Told'
  BY <1>2 DEF KeyInv, Told, KeyPerStay
<1> QED BY <1>1, <1>3 DEF KeyInv

LEMMA KeyHeard ==
  ASSUME LineInv, KeyInv, NEW s \in Sockets, HearMessage(s)
  PROVE  KeyInv'
<1>0. /\ UNCHANGED <<page, visit, stay, keypair, drawn, announced>>
      /\ visit \in Nat /\ tasks \in Seq(Task) /\ Orderly(tasks)
  BY DEF HearMessage, HearJoined, HearPeerJoined, HearPeerUpdated, HearPeerLeft, HearChat, Heard,
         LineInv, LineTyped, KeyInv, KeysTyped
<1>1. \/ tasks' = tasks
      \/ \E t \in Task : t.kind # "clear" /\ t.visit = visit /\ tasks' = Append(tasks, t)
      \/ \E t, u \in Task : /\ t.kind # "clear" /\ t.visit = visit
                            /\ u.kind # "clear" /\ u.visit = visit
                            /\ tasks' = Append(Append(tasks, t), u)
  <2>1. CASE HearChat(s)
    <3>1. IngestChat \in Task /\ IngestChat.kind # "clear" /\ IngestChat.visit = visit
      BY <1>0 DEF IngestChat, Task
    <3> QED BY <2>1, <3>1 DEF HearChat
  <2>2. ASSUME NEW p \in Pids, HearPeerUpdated(s, p)
        PROVE  \E t \in Task : t.kind # "clear" /\ t.visit = visit /\ tasks' = Append(tasks, t)
    <3>1. Record({p}) \in Task /\ Record({p}).kind # "clear" /\ Record({p}).visit = visit
      BY <1>0 DEF Record, Task
    <3> QED BY <2>2, <3>1 DEF HearPeerUpdated
  <2>3. ASSUME NEW p \in Pids, HearPeerJoined(s, p) \/ HearPeerLeft(s, p)
        PROVE  tasks' = tasks
    BY <2>3 DEF HearPeerJoined, HearPeerLeft
  <2>4. ASSUME NEW there \in SUBSET (Pids \ {Self}), NEW keyed \in SUBSET there,
               HearJoined(s, there, keyed)
        PROVE  \E t, u \in Task : /\ t.kind # "clear" /\ t.visit = visit
                                 /\ u.kind # "clear" /\ u.visit = visit
                                 /\ tasks' = Append(Append(tasks, t), u)
    <3>1. Record(keyed) \in Task /\ Record(keyed).kind # "clear" /\ Record(keyed).visit = visit
      BY <1>0 DEF Record, Task
    <3>2. AnnounceKey \in Task /\ AnnounceKey.kind # "clear" /\ AnnounceKey.visit = visit
      BY <1>0 DEF AnnounceKey, Task
    <3>3. tasks' = tasks \o <<Record(keyed), AnnounceKey>>
      BY <2>4 DEF HearJoined
    <3>4. \A t, u \in Task : tasks \o <<t, u>> = Append(Append(tasks, t), u)
      BY <1>0
    <3>5. tasks' = Append(Append(tasks, Record(keyed)), AnnounceKey)
      BY <3>1, <3>2, <3>3, <3>4
    <3> QED BY <3>1, <3>2, <3>5
  <2> QED BY <2>1, <2>2, <2>3, <2>4 DEF HearMessage
<1>2. CASE tasks' = tasks
  BY <1>0, <1>2, KeyQueued
<1>3. ASSUME NEW t \in Task, t.kind # "clear", t.visit = visit, tasks' = Append(tasks, t)
      PROVE  KeyInv'
  BY <1>0, <1>3, KeyAppend, KeyQueued
<1>4. ASSUME NEW t \in Task, NEW u \in Task, t.kind # "clear", t.visit = visit,
             u.kind # "clear", u.visit = visit, tasks' = Append(Append(tasks, t), u)
      PROVE  KeyInv'
  <2>1. /\ Append(tasks, t) \in Seq(Task) /\ Orderly(Append(tasks, t))
        /\ Clears(Append(tasks, t)) <=> Clears(tasks)
    BY <1>0, <1>4, KeyAppend
  <2>2. /\ tasks' \in Seq(Task) /\ Orderly(tasks')
        /\ Clears(tasks') <=> Clears(tasks)
    BY <1>0, <1>4, <2>1, KeyAppend
  <2> QED BY <1>0, <2>2, KeyQueued
<1> QED BY <1>1, <1>2, <1>3, <1>4

(* handleLeave: the stay ends, and the clear is put behind everything.     *)
LEMMA KeyLeave ==
  ASSUME LineInv, KeyInv, Leave
  PROVE  KeyInv'
<1>0. /\ visit \in Nat /\ tasks \in Seq(Task) /\ stay \in Nat
      /\ tasks' = Append(tasks, ClearSession) /\ stay' = stay + 1 /\ page' = "lobby"
      /\ UNCHANGED <<visit, keypair, drawn, announced>>
  BY DEF Leave, LineInv, LineTyped, KeyInv, KeysTyped
<1>1. ClearSession \in Task /\ ClearSession.kind = "clear" /\ ClearSession.visit = visit
  BY <1>0 DEF ClearSession, Task
<1> DEFINE r == tasks'
<1>2. /\ r \in Seq(Task) /\ DOMAIN tasks = 1 .. Len(tasks) /\ Len(tasks) \in Nat
      /\ DOMAIN r = 1 .. (Len(tasks) + 1)
      /\ \A i \in DOMAIN tasks : r[i] = tasks[i]
      /\ r[Len(tasks) + 1] = ClearSession
  BY <1>0, <1>1
<1>3. Orderly(tasks)'
  BY <1>0, <1>1, <1>2 DEF KeyInv, Orderly
<1>4. Clears(tasks)'
  BY <1>1, <1>2 DEF Clears
<1>5. KeysTyped'
  BY <1>0, <1>2 DEF KeyInv, KeysTyped
<1>6. Told'
  BY <1>0, <1>4 DEF KeyInv, KeysTyped, Told, KeyPerStay
<1> QED BY <1>3, <1>5, <1>6 DEF KeyInv

LEMMA KeyRun ==
  ASSUME LineInv, KeyInv, RunTask
  PROVE  KeyInv'
<1> DEFINE t == Head(tasks)
           r == Tail(tasks)
<1>0. /\ visit \in Nat /\ tasks \in Seq(Task) /\ tasks # <<>>
      /\ tasks' = r /\ UNCHANGED <<page, visit, stay>>
  BY DEF RunTask, LineInv, LineTyped, KeyInv, KeysTyped
<1>1. /\ r \in Seq(Task) /\ t \in Task /\ DOMAIN tasks = 1 .. Len(tasks) /\ Len(tasks) \in Nat
      /\ Len(tasks) >= 1 /\ DOMAIN r = 1 .. (Len(tasks) - 1) /\ t = tasks[1]
      /\ \A i \in DOMAIN r : r[i] = tasks[i + 1]
  BY <1>0
<1> HIDE DEF t, r
<1>2. Orderly(r) /\ t.visit <= visit
  BY <1>0, <1>1 DEF KeyInv, Orderly
<1>3. Orderly(tasks)'
  BY <1>0, <1>2 DEF Orderly
<1>4. (Clears(r) => Clears(tasks)) /\ (Clears(tasks) => Clears(r) \/ t.kind = "clear")
  <2>1. \A j \in DOMAIN r : j + 1 \in DOMAIN tasks
    BY <1>1
  <2>2. \A j \in DOMAIN tasks : j = 1 \/ (j - 1 \in DOMAIN r /\ r[j - 1] = tasks[j])
    BY <1>1
  <2> QED BY <1>1, <2>1, <2>2 DEF Clears
<1>5. t.kind = "announce" /\ t.visit = visit /\ page = "room" => ~Clears(tasks)
  <2> SUFFICES ASSUME t.kind = "announce", t.visit = visit, page = "room",
                      NEW j \in DOMAIN tasks, tasks[j].kind = "clear"
               PROVE  FALSE
    BY DEF Clears
  <2>1. 1 \in DOMAIN tasks /\ 1 < j
    BY <1>1
  <2> QED BY <1>0, <1>1, <2>1 DEF KeyInv, Orderly
<1>6. Clears(tasks)' <=> Clears(r)
  BY <1>0 DEF Clears
<1>7. KeysTyped /\ Told
  BY DEF KeyInv
<1>8. CASE t.kind = "clear"
  <2>1. keypair' = 0 /\ UNCHANGED <<drawn, announced>>
    BY <1>8 DEF RunTask, t
  <2>2. \A a \in announced : a[1] \in Nat /\ a[2] \in Nat
    BY <1>7 DEF KeysTyped
  <2>3. KeysTyped'
    BY <1>0, <1>1, <1>7, <2>1 DEF KeysTyped
  <2>4. Clears(tasks)
    BY <1>1, <1>8 DEF Clears
  <2>5. Told'
    BY <1>0, <1>7, <2>1, <2>2, <2>4 DEF Told, KeyPerStay
  <2> QED BY <1>3, <2>3, <2>5 DEF KeyInv
<1>9. CASE t.kind = "record"
  <2>1. UNCHANGED <<keypair, drawn, announced>>
    BY <1>9 DEF RunTask, t
  <2> QED BY <1>0, <1>1, <1>3, <1>4, <1>6, <1>7, <1>9, <2>1
          DEF KeyInv, KeysTyped, Told, KeyPerStay
<1>10. ASSUME InitKeys, announced' = announced, t.kind # "clear" PROVE KeyInv'
  <2>1. KeysTyped'
    BY <1>0, <1>1, <1>7, <1>10 DEF InitKeys, KeysTyped
  <2>2. Told'
    BY <1>0, <1>4, <1>6, <1>7, <1>10 DEF InitKeys, KeysTyped, Told, KeyPerStay
  <2> QED BY <1>3, <2>1, <2>2 DEF KeyInv
<1>11. ASSUME InitKeys, announced' = announced \cup {<<stay, keypair'>>}, t.kind = "announce",
              t.visit = visit, CanSend
       PROVE  KeyInv'
  <2>1. ~Clears(tasks) /\ ~Clears(tasks)'
    BY <1>4, <1>5, <1>6, <1>11, SendsInRoom
  <2>2. /\ keypair' \in Nat /\ drawn' \in Nat /\ stay \in Nat /\ drawn \in Nat /\ drawn <= drawn'
        /\ 1 <= keypair' /\ keypair' <= drawn'
    BY <1>7, <1>11 DEF InitKeys, KeysTyped
  <2>3. \A a \in announced : a[1] \in Nat /\ a[2] \in Nat
    BY <1>7 DEF KeysTyped
  <2>4. \A a \in announced : a[1] = stay => a[2] = keypair'
    BY <1>7, <1>11, <2>3 DEF InitKeys, KeysTyped, Told
  <2>5. \A a \in announced : a[1] < stay => a[2] # keypair'
    BY <1>7, <1>11, <2>1, <2>3 DEF InitKeys, KeysTyped, Told
  <2>6. KeysTyped'
    BY <1>0, <1>1, <1>7, <1>11, <2>2 DEF KeysTyped
  <2>7. \A a \in announced : a[1] = stay <=> a[2] = keypair'
    BY <1>7, <2>2, <2>3, <2>4, <2>5 DEF Told
  <2>8. KeyPerStay'
    BY <1>7, <1>11, <2>7 DEF Told, KeyPerStay
  <2>9. Told'
    <3>1. \A a \in announced' : a \in announced \/ (a[1] = stay /\ a[2] = keypair')
      BY <1>11
    <3> QED BY <1>0, <1>7, <2>1, <2>2, <2>3, <2>4, <2>5, <2>8, <3>1 DEF Told
  <2> QED BY <1>3, <2>6, <2>9 DEF KeyInv
<1>12. CASE t.kind = "announce"
  <2>1. InitKeys /\ announced' = IF t.visit = visit /\ CanSend
                                   THEN announced \cup {<<stay, keypair'>>} ELSE announced
    BY <1>12 DEF RunTask, t
  <2> QED BY <1>10, <1>11, <1>12, <2>1
<1>13. CASE t.kind = "ingest"
  <2>1. InitKeys /\ announced' = announced
    BY <1>13 DEF RunTask, t
  <2> QED BY <1>10, <1>13, <2>1
<1> QED BY <1>1, <1>8, <1>9, <1>12, <1>13 DEF Task

(* A step that leaves the keys and what waits for them alone.              *)
LEMMA KeyQuiet ==
  ASSUME LineInv, KeyInv, visit' \in Nat, visit' >= visit,
         visit' = visit => page = "room" \/ page' = page,
         page' = "lobby" \/ page' = page \/ visit' > visit,
         UNCHANGED <<stay, tasks, keypair, drawn, announced>>
  PROVE  KeyInv'
<1>0. visit \in Nat /\ KeysTyped
  BY DEF LineInv, LineTyped, KeyInv
<1>1. Orderly(tasks)'
  <2>1. ASSUME NEW i \in DOMAIN tasks PROVE tasks[i].visit \in Nat
    <3>1. tasks[i] \in Task
      BY <1>0 DEF KeysTyped
    <3> QED BY <3>1 DEF Task
  <2> QED BY <1>0, <2>1 DEF KeyInv, Orderly
<1>2. Clears(tasks)' <=> Clears(tasks)
  BY DEF Clears
<1>3. Told' /\ KeysTyped'
  BY <1>0, <1>2 DEF KeyInv, KeysTyped, Told, KeyPerStay
<1> QED BY <1>1, <1>3 DEF KeyInv

LEMMA KeyStep == LineInv /\ KeyInv /\ [BrowserNext]_tabVars => KeyInv'
<1> SUFFICES ASSUME LineInv, KeyInv, [BrowserNext]_tabVars PROVE KeyInv'
  OBVIOUS
<1>0. visit \in Nat
  BY DEF LineInv, LineTyped
<1>1. CASE Enter
  <2>1. visit' = visit + 1 /\ UNCHANGED <<stay, tasks, keypair, drawn, announced>>
    BY <1>1 DEF Enter
  <2> QED BY <1>0, <2>1, KeyQuiet
<1>2. CASE GoBack
  <2>1. page = "room" /\ page' = "lobby" /\ UNCHANGED <<visit, stay, tasks, keypair, drawn, announced>>
    BY <1>2 DEF GoBack, chatVars
  <2> QED BY <1>0, <2>1, KeyQuiet
<1>3. CASE \/ OfferMade \/ TimerFires \/ SodiumReady \/ Stay \/ UNCHANGED tabVars
           \/ \E s \in Sockets : Opened(s) \/ \E code \in Codes(s) : Closed(s, code)
  <2>1. UNCHANGED <<page, visit, stay, tasks, keypair, drawn, announced>>
    BY <1>3 DEF OfferMade, TimerFires, SodiumReady, Stay, Opened, Closed, tabVars, chatVars
  <2> QED BY <1>0, <2>1, KeyQuiet
<1>4. CASE Leave
  BY <1>4, KeyLeave
<1>5. CASE RunTask
  BY <1>5, KeyRun
<1>6. ASSUME NEW s \in Sockets, HearMessage(s) PROVE KeyInv'
  BY <1>6, KeyHeard
<1> QED BY <1>1, <1>2, <1>3, <1>4, <1>5, <1>6 DEF BrowserNext

(* What initSessionKeys and clearSessionKeys of keys.ts promise: the keys  *)
(* told in one stay are one key, and no other stay tells it, however long  *)
(* libsodium takes to load and however often the line is lost.             *)
THEOREM KeyPerStayCorrect == BrowserSpec => []KeyPerStay
<1>1. KeyInv => KeyPerStay
  BY DEF KeyInv, Told
<1> QED BY <1>1, LineInit, LineStep, KeyInit, KeyStep, PTL DEF BrowserSpec

(* Nobody's key is kept who is not on the list, but for those excused; the *)
(* keys on their way to useChat count already.                             *)
Remembered ==
  /\ tasks \in Seq(Task)
  /\ peerKeys \cup UnderWay \subseteq peers \cup {Self} \cup excused

LEMMA UnderWayAppend ==
  ASSUME tasks \in Seq(Task), NEW t \in Task, tasks' = Append(tasks, t)
  PROVE  tasks' \in Seq(Task) /\ UnderWay' = UnderWay \cup t.pids
<1>1. /\ tasks' \in Seq(Task) /\ DOMAIN tasks = 1 .. Len(tasks) /\ Len(tasks) \in Nat
      /\ DOMAIN tasks' = 1 .. (Len(tasks) + 1)
      /\ \A i \in DOMAIN tasks : tasks'[i] = tasks[i]
      /\ tasks'[Len(tasks) + 1] = t
  OBVIOUS
<1>2. DOMAIN tasks' = DOMAIN tasks \cup {Len(tasks) + 1}
  BY <1>1
<1> QED BY <1>1, <1>2 DEF UnderWay

LEMMA UnderWayTail ==
  ASSUME tasks \in Seq(Task), tasks # <<>>, tasks' = Tail(tasks)
  PROVE  /\ tasks' \in Seq(Task)
         /\ UnderWay' \subseteq UnderWay /\ Head(tasks).pids \subseteq UnderWay
<1>1. /\ tasks' \in Seq(Task) /\ DOMAIN tasks = 1 .. Len(tasks) /\ Len(tasks) \in Nat
      /\ Len(tasks) >= 1 /\ DOMAIN tasks' = 1 .. (Len(tasks) - 1) /\ Head(tasks) = tasks[1]
      /\ \A i \in DOMAIN tasks' : tasks'[i] = tasks[i + 1]
  OBVIOUS
<1>2. 1 \in DOMAIN tasks /\ \A i \in DOMAIN tasks' : i + 1 \in DOMAIN tasks
  BY <1>1
<1> QED BY <1>1, <1>2 DEF UnderWay

LEMMA RememberedHeard ==
  ASSUME Remembered, visit \in Nat, NEW s \in Sockets, HearMessage(s)
  PROVE  Remembered'
<1>1. CASE HearChat(s)
  <2>1. IngestChat \in Task /\ IngestChat.pids = {}
    BY DEF IngestChat, Task
  <2>2. tasks' = Append(tasks, IngestChat) /\ UNCHANGED <<peers, peerKeys, excused>>
    BY <1>1 DEF HearChat
  <2> QED BY <2>1, <2>2, UnderWayAppend DEF Remembered
<1>2. ASSUME NEW p \in Pids, HearPeerUpdated(s, p) PROVE Remembered'
  <2>1. Record({p}) \in Task /\ Record({p}).pids = {p}
    BY DEF Record, Task
  <2>2. /\ tasks' = Append(tasks, Record({p})) /\ excused' = excused \cup ({p} \ (peers \cup {Self}))
        /\ UNCHANGED <<peers, peerKeys>>
    BY <1>2 DEF HearPeerUpdated
  <2> QED BY <2>1, <2>2, UnderWayAppend DEF Remembered
<1>3. ASSUME NEW p \in Pids, HearPeerJoined(s, p) \/ HearPeerLeft(s, p) PROVE Remembered'
  <2>1. UNCHANGED tasks /\ UnderWay' = UnderWay
    BY <1>3 DEF HearPeerJoined, HearPeerLeft, UnderWay
  <2> QED BY <1>3, <2>1 DEF Remembered, HearPeerJoined, HearPeerLeft
<1>4. ASSUME NEW there \in SUBSET (Pids \ {Self}), NEW keyed \in SUBSET there,
             HearJoined(s, there, keyed)
      PROVE  Remembered'
  <2>1. /\ Record(keyed) \in Task /\ Record(keyed).pids = keyed
        /\ AnnounceKey \in Task /\ AnnounceKey.pids = {}
    BY DEF Record, AnnounceKey, Task
  <2>2. /\ tasks' = tasks \o <<Record(keyed), AnnounceKey>> /\ peers' = there
        /\ excused' = (peerKeys \cup UnderWay) \ (there \cup {Self})
        /\ UNCHANGED peerKeys
    BY <1>4 DEF HearJoined
  <2>3. /\ tasks' \in Seq(Task) /\ DOMAIN tasks = 1 .. Len(tasks) /\ Len(tasks) \in Nat
        /\ DOMAIN tasks' = 1 .. (Len(tasks) + 2)
        /\ \A i \in DOMAIN tasks : tasks'[i] = tasks[i]
        /\ tasks'[Len(tasks) + 1] = Record(keyed) /\ tasks'[Len(tasks) + 2] = AnnounceKey
    <3>1. PICK t \in Task, u \in Task : t = Record(keyed) /\ u = AnnounceKey
      BY <2>1
    <3>2. tasks' = tasks \o <<t, u>> /\ tasks \in Seq(Task)
      BY <2>2, <3>1 DEF Remembered
    <3>3. /\ tasks' \in Seq(Task) /\ DOMAIN tasks = 1 .. Len(tasks) /\ Len(tasks) \in Nat
          /\ DOMAIN tasks' = 1 .. (Len(tasks) + 2)
          /\ \A i \in DOMAIN tasks : tasks'[i] = tasks[i]
          /\ tasks'[Len(tasks) + 1] = t /\ tasks'[Len(tasks) + 2] = u
      BY <3>2
    <3> QED BY <3>1, <3>3
  <2>4. UnderWay' \subseteq UnderWay \cup keyed
    <3>1. DOMAIN tasks' = DOMAIN tasks \cup {Len(tasks) + 1, Len(tasks) + 2}
      BY <2>3
    <3> QED BY <2>1, <2>3, <3>1 DEF UnderWay
  <2> QED BY <2>2, <2>3, <2>4 DEF Remembered
<1> QED BY <1>1, <1>2, <1>3, <1>4 DEF HearMessage

LEMMA RememberedStep == LineInv /\ Remembered /\ [BrowserNext]_tabVars => Remembered'
<1> SUFFICES ASSUME LineInv, Remembered, [BrowserNext]_tabVars PROVE Remembered'
  OBVIOUS
<1>0. visit \in Nat
  BY DEF LineInv, LineTyped
<1>1. CASE \/ Enter \/ GoBack \/ OfferMade \/ TimerFires \/ SodiumReady \/ Stay
           \/ UNCHANGED tabVars
           \/ \E s \in Sockets : Opened(s) \/ \E code \in Codes(s) : Closed(s, code)
  <2>1. /\ UNCHANGED <<tasks, peerKeys>>
        /\ peers \cup excused \subseteq peers' \cup excused'
    BY <1>1 DEF Enter, GoBack, OfferMade, TimerFires, SodiumReady, Stay, Opened, Closed, tabVars,
                chatVars
  <2>2. UnderWay' = UnderWay
    BY <2>1 DEF UnderWay
  <2> QED BY <2>1, <2>2 DEF Remembered
<1>2. CASE Leave
  <2>1. ClearSession \in Task /\ ClearSession.pids = {}
    BY <1>0 DEF ClearSession, Task
  <2>2. /\ tasks' = Append(tasks, ClearSession) /\ peerKeys' = {}
        /\ excused' = UnderWay
    BY <1>2 DEF Leave
  <2> QED BY <2>1, <2>2, UnderWayAppend DEF Remembered
<1>3. CASE RunTask
  <2>1. /\ tasks # <<>> /\ tasks' = Tail(tasks) /\ UNCHANGED <<peers, excused>>
        /\ peerKeys' \subseteq peerKeys \cup Head(tasks).pids
    BY <1>3 DEF RunTask
  <2> QED BY <2>1, UnderWayTail DEF Remembered
<1>4. ASSUME NEW s \in Sockets, HearMessage(s) PROVE Remembered'
  BY <1>0, <1>4, RememberedHeard
<1> QED BY <1>1, <1>2, <1>3, <1>4 DEF BrowserNext

(* PeerLeft and Leave take the key out of useChat (store.ts) with the      *)
(* participant: what is kept of somebody not listed came later, or was     *)
(* left behind by a new list, and goes with the next PeerLeft or Leave.    *)
THEOREM KeysForgottenCorrect == BrowserSpec => []KeysForgotten
<1>1. BrowserInit => Remembered
  BY DEF BrowserInit, Remembered, UnderWay
<1>2. Remembered => KeysForgotten
  BY DEF Remembered, KeysForgotten
<1> QED BY <1>1, <1>2, LineInit, LineStep, RememberedStep, PTL DEF BrowserSpec


------------------------------------------------------------------------------
(* Doubling.                                                               *)

LEMMA Least ==
  ASSUME NEW T \in SUBSET Nat, T # {}
  PROVE  \E n \in T : \A k \in T : n <= k
<1> DEFINE R == OpToRel(<, Nat)
<1>1. IsWellFoundedOn(R, Nat)
  BY NatLessThanWellFounded
<1>2. \A k, n \in Nat : k < n => <<k, n>> \in R
  BY DEF OpToRel
<1> HIDE DEF R
<1>3. PICK n \in T : \A k \in T : ~ (<<k, n>> \in R)
  BY <1>1, WFMin
<1>4. \A k \in T : n \in Nat /\ k \in Nat /\ ~(k < n)
  BY <1>2, <1>3
<1> QED BY <1>3, <1>4

(* f[i] is d doubled i times, for every i up to n. *)
Doubles(f, d, n) == f = [i \in 0 .. n |-> IF i = 0 THEN d ELSE 2 * f[i - 1]]

LEMMA DoublesUnique ==
  ASSUME NEW d, NEW n \in Nat, NEW f, Doubles(f, d, n), NEW g, Doubles(g, d, n)
  PROVE  f = g
<1> DEFINE Differ == {i \in 0 .. n : f[i] # g[i]}
<1>1. ASSUME Differ # {} PROVE FALSE
  <2>1. Differ \in SUBSET Nat
    OBVIOUS
  <2>2. PICK i \in Differ : \A k \in Differ : i <= k
    <3> HIDE DEF Differ
    <3> QED BY <1>1, <2>1, Least
  <2>3. i # 0
    BY <2>2 DEF Doubles
  <2>4. i - 1 \in 0 .. n /\ ~(i <= i - 1) /\ i \in 0 .. n
    BY <2>2, <2>3
  <2>5. f[i - 1] = g[i - 1]
    BY <2>2, <2>4
  <2>6. f[i] = 2 * f[i - 1] /\ g[i] = 2 * g[i - 1]
    BY <2>3, <2>4 DEF Doubles
  <2> QED BY <2>2, <2>5, <2>6
<1>2. f = [i \in 0 .. n |-> f[i]] /\ g = [i \in 0 .. n |-> g[i]]
  BY DEF Doubles
<1>3. \A i \in 0 .. n : f[i] = g[i]
  BY <1>1
<1> HIDE DEF Differ
<1> QED BY <1>2, <1>3

LEMMA DoublesExtends ==
  ASSUME NEW d, NEW n \in Nat, NEW f, Doubles(f, d, n)
  PROVE  \E g : Doubles(g, d, n + 1) /\ g[n] = f[n] /\ g[n + 1] = 2 * f[n]
<1> DEFINE g == [i \in 0 .. n + 1 |-> IF i = n + 1 THEN 2 * f[n] ELSE f[i]]
<1>1. \A i \in 0 .. n + 1 : g[i] = IF i = 0 THEN d ELSE 2 * g[i - 1]
  <2>1. SUFFICES ASSUME NEW i \in 0 .. n + 1 PROVE g[i] = IF i = 0 THEN d ELSE 2 * g[i - 1]
    OBVIOUS
  <2>2. CASE i = n + 1
    BY <2>2
  <2>3. CASE i # n + 1
    <3>1. i \in 0 .. n /\ g[i] = f[i]
      BY <2>3
    <3>2. i # 0 => i - 1 \in 0 .. n + 1 /\ i - 1 # n + 1
      BY <3>1
    <3>3. i # 0 => g[i - 1] = f[i - 1]
      BY <3>2
    <3>4. f[i] = IF i = 0 THEN d ELSE 2 * f[i - 1]
      BY <3>1 DEF Doubles
    <3> HIDE DEF g
    <3> QED BY <3>1, <3>3, <3>4
  <2> QED BY <2>2, <2>3
<1>2. g = [i \in 0 .. n + 1 |-> g[i]] /\ g[n] = f[n] /\ g[n + 1] = 2 * f[n]
  OBVIOUS
<1> HIDE DEF g
<1>3. Doubles(g, d, n + 1)
  BY <1>1, <1>2 DEF Doubles
<1> QED BY <1>2, <1>3

LEMMA DoublesExists ==
  ASSUME NEW d, NEW n \in Nat
  PROVE  \E f : Doubles(f, d, n)
<1> DEFINE Stuck == {k \in Nat : ~ \E f : Doubles(f, d, k)}
<1>1. ASSUME Stuck # {} PROVE FALSE
  <2>1. Stuck \in SUBSET Nat
    OBVIOUS
  <2>2. PICK k \in Stuck : \A j \in Stuck : k <= j
    <3> HIDE DEF Stuck
    <3> QED BY <1>1, <2>1, Least
  <2>3. CASE k = 0
    <3>1. Doubles([i \in 0 .. 0 |-> d], d, 0)
      BY DEF Doubles
    <3> QED BY <2>2, <2>3, <3>1
  <2>4. CASE k # 0
    <3>1. k - 1 \in Nat /\ ~(k <= k - 1) /\ (k - 1) + 1 = k
      BY <2>2, <2>4
    <3>2. PICK f : Doubles(f, d, k - 1)
      BY <2>2, <3>1
    <3>3. \E g : Doubles(g, d, (k - 1) + 1)
      BY <3>1, <3>2, DoublesExtends
    <3> QED BY <2>2, <3>1, <3>3
  <2> QED BY <2>3, <2>4
<1> QED BY <1>1

LEMMA DoubledBy ==
  ASSUME NEW d, NEW n \in Nat, NEW f, Doubles(f, d, n)
  PROVE  Doubled(d, n) = f[n]
<1> DEFINE h == CHOOSE h : h = [i \in 0 .. n |-> IF i = 0 THEN d ELSE 2 * h[i - 1]]
<1>1. Doubles(h, d, n)
  BY DoublesExists DEF Doubles
<1>2. h = f
  BY <1>1, DoublesUnique
<1>3. Doubled(d, n) = h[n]
  BY DEF Doubled
<1> QED BY <1>2, <1>3

LEMMA DoubledNever == ASSUME NEW d PROVE Doubled(d, 0) = d
<1>1. Doubles([i \in 0 .. 0 |-> d], d, 0)
  BY DEF Doubles
<1>2. Doubled(d, 0) = [i \in 0 .. 0 |-> d][0]
  BY <1>1, DoubledBy
<1> QED BY <1>2

LEMMA DoubledAgain ==
  ASSUME NEW d, NEW n \in Nat PROVE Doubled(d, n + 1) = 2 * Doubled(d, n)
<1>1. PICK f : Doubles(f, d, n)
  BY DoublesExists
<1>2. PICK g : Doubles(g, d, n + 1) /\ g[n + 1] = 2 * f[n]
  BY <1>1, DoublesExtends
<1>3. n + 1 \in Nat
  OBVIOUS
<1>4. Doubled(d, n) = f[n] /\ Doubled(d, n + 1) = g[n + 1]
  BY <1>1, <1>2, <1>3, DoubledBy
<1> QED BY <1>2, <1>4

LEMMA DoubledNat ==
  ASSUME NEW d \in Nat, NEW n \in Nat PROVE Doubled(d, n) \in Nat
<1> DEFINE Odd == {k \in Nat : Doubled(d, k) \notin Nat}
<1>1. ASSUME Odd # {} PROVE FALSE
  <2>1. Odd \in SUBSET Nat
    OBVIOUS
  <2>2. PICK k \in Odd : \A j \in Odd : k <= j
    <3> HIDE DEF Odd
    <3> QED BY <1>1, <2>1, Least
  <2>3. k # 0
    BY <2>2, DoubledNever
  <2>4. k - 1 \in Nat /\ ~(k <= k - 1) /\ (k - 1) + 1 = k
    BY <2>2, <2>3
  <2>5. Doubled(d, k - 1) \in Nat /\ Doubled(d, (k - 1) + 1) = 2 * Doubled(d, k - 1)
    BY <2>2, <2>4, DoubledAgain
  <2> QED BY <2>2, <2>4, <2>5
<1> QED BY <1>1

(* The documented delays, in seconds.                                      *)
LEMMA Doublings ==
  /\ Doubled(1, 0) = 1 /\ Doubled(1, 1) = 2 /\ Doubled(1, 2) = 4
  /\ Doubled(1, 3) = 8 /\ Doubled(1, 4) = 16
  /\ \A n \in Nat : n >= 5 => Doubled(1, n) >= 32
<1>0. Doubled(1, 0) = 1
  BY DoubledNever
<1>a. \A n \in Nat : Doubled(1, n + 1) = 2 * Doubled(1, n)
  BY DoubledAgain
<1>1. Doubled(1, 1) = 2
  <2>1. Doubled(1, 0 + 1) = 2 * Doubled(1, 0) /\ 0 + 1 = 1
    BY <1>a
  <2> QED BY <1>0, <2>1
<1>2. Doubled(1, 2) = 4
  <2>1. Doubled(1, 1 + 1) = 2 * Doubled(1, 1) /\ 1 + 1 = 2
    BY <1>a
  <2> QED BY <1>1, <2>1
<1>3. Doubled(1, 3) = 8
  <2>1. Doubled(1, 2 + 1) = 2 * Doubled(1, 2) /\ 2 + 1 = 3
    BY <1>a
  <2> QED BY <1>2, <2>1
<1>4. Doubled(1, 4) = 16
  <2>1. Doubled(1, 3 + 1) = 2 * Doubled(1, 3) /\ 3 + 1 = 4
    BY <1>a
  <2> QED BY <1>3, <2>1
<1>5. \A n \in Nat : n >= 5 => Doubled(1, n) >= 32
  <2> DEFINE Low == {k \in Nat : k >= 5 /\ ~(Doubled(1, k) >= 32)}
  <2>1. ASSUME Low # {} PROVE FALSE
    <3>1. Low \in SUBSET Nat
      OBVIOUS
    <3>2. PICK k \in Low : \A j \in Low : k <= j
      <4> HIDE DEF Low
      <4> QED BY <2>1, <3>1, Least
    <3>3. k - 1 \in Nat /\ k - 1 >= 4 /\ ~(k <= k - 1) /\ (k - 1) + 1 = k
      BY <3>2
    <3>4. Doubled(1, k) = 2 * Doubled(1, k - 1) /\ Doubled(1, k - 1) \in Nat
      BY <1>a, <3>3, DoubledNat
    <3>5. CASE k - 1 = 4
      BY <1>4, <3>2, <3>4, <3>5
    <3>6. CASE k - 1 # 4
      <4>1. Doubled(1, k - 1) >= 32
        BY <3>2, <3>3, <3>6
      <4> QED BY <3>2, <3>4, <4>1
    <3> QED BY <3>5, <3>6
  <2> QED BY <2>1
<1> QED BY <1>0, <1>1, <1>2, <1>3, <1>4, <1>5


------------------------------------------------------------------------------
(* The delays.                                                             *)

AtMost(n) == IF n < MaxAttempts THEN n ELSE MaxAttempts

(* As long as the client has a socket or a timer, what it counts is how    *)
(* often a socket has been lost since one opened; a timer runs for what was *)
(* counted before the last loss.                                           *)
Spaced ==
  /\ failed \in Nat
  /\ client.delay \in 0 .. CapDelay /\ client.attempts \in 0 .. MaxAttempts /\ client.joined \in BOOLEAN
  /\ client.socket # NoSocket \/ client.handle => client.attempts = AtMost(failed)
  /\ client.handle => failed > 0 /\ client.delay = Delay(AtMost(failed - 1))

LEMMA Bounds == MaxAttempts \in Nat /\ BaseDelay \in Nat /\ CapDelay \in Nat
  BY BrowserAssumption

LEMMA SpacedInit == BrowserInit => Spaced
  BY Bounds DEF BrowserInit, Spaced

LEMMA DelayCapped == ASSUME NEW n \in Nat PROVE Delay(n) \in 0 .. CapDelay
<1>1. Doubled(BaseDelay, n) \in Nat
  BY Bounds, DoubledNat
<1> QED BY <1>1, Bounds DEF Delay

(* What matters here of a client that is not the one before.               *)
LEMMA SpacedQuiet ==
  ASSUME Spaced, UNCHANGED failed, client'.joined \in BOOLEAN,
         client'.delay = client.delay, client'.attempts = client.attempts,
         client'.socket # NoSocket => client.socket # NoSocket \/ client.handle,
         client'.handle => client.handle
  PROVE  Spaced'
  BY DEF Spaced

LEMMA SpacedReset ==
  ASSUME Spaced, failed' = 0, client'.attempts = 0, client'.joined \in BOOLEAN,
         client'.delay = client.delay, ~client'.handle
  PROVE  Spaced'
  BY Bounds DEF Spaced, AtMost

LEMMA SpacedOpen ==
  ASSUME NEW cl, IsClient(cl), NEW v, OpenSocket(cl, v)
  PROVE  /\ client'.delay = cl.delay /\ client'.attempts = cl.attempts
         /\ client'.joined = cl.joined /\ client'.handle = cl.handle
<1>1. PICK s \in Sockets : client' = [cl EXCEPT !.socket = s]
  BY DEF OpenSocket
<1>2. client' = [socket |-> s, timers |-> cl.timers, handle |-> cl.handle, delay |-> cl.delay,
                 attempts |-> cl.attempts, intentional |-> cl.intentional, joined |-> cl.joined]
  BY <1>1 DEF IsClient
<1> QED BY <1>2

LEMMA SpacedClosed ==
  ASSUME LineInv, Spaced, NEW s \in Sockets, NEW code, Closed(s, code)
  PROVE  Spaced'
<1>1. CASE owner[s] # visit
  BY <1>1 DEF Closed, Spaced
<1>2. CASE owner[s] = visit
  <2> DEFINE cl == [client EXCEPT !.socket = NoSocket]
  <2>0. IsClient(client)
    BY DEF LineInv, LineTyped
  <2>1. cl = [socket |-> NoSocket, timers |-> client.timers, handle |-> client.handle,
              delay |-> client.delay, attempts |-> client.attempts,
              intentional |-> client.intentional, joined |-> client.joined]
    BY <2>0 DEF IsClient
  <2>2. /\ failed' = IF failed <= MaxAttempts THEN failed + 1 ELSE failed
        /\ client' = cl \/ (client' = ScheduleReconnect(cl) /\ ~client.intentional)
        /\ socket[s] # "none"
    <3>1. client' = AfterClose(s, code) /\ cl.intentional = client.intentional
      BY <1>2, <2>1 DEF Closed
    <3>2. client' = cl \/ (client' = ScheduleReconnect(cl) /\ ~cl.intentional)
      BY <3>1 DEF AfterClose
    <3>3. failed' = (IF failed <= MaxAttempts THEN failed + 1 ELSE failed) /\ socket[s] # "none"
      BY <1>2 DEF Closed
    <3> HIDE DEF cl
    <3> QED BY <3>1, <3>2, <3>3
  <2>3. ~client.handle
    <3>1. CASE client.intentional
      BY <3>1 DEF LineInv, Line
    <3>2. CASE ~client.intentional
      <4>1. socket[s] \in {"connecting", "open"}
        BY <1>2, <2>2, <3>2 DEF LineInv, LineTyped, Line
      <4>2. client.socket = s
        BY <4>1 DEF LineInv, Line, Live
      <4> QED BY <4>2, BrowserAssumption DEF LineInv, Line
    <3> QED BY <3>1, <3>2
  <2>4. CASE client' = cl
    BY <2>1, <2>2, <2>3, <2>4, Bounds DEF Spaced
  <2>5. CASE client' = ScheduleReconnect(cl) /\ ~client.intentional
    <3>1. socket[s] \in {"connecting", "open"}
      BY <1>2, <2>2, <2>5 DEF LineInv, LineTyped, Line
    <3>2. client.socket # NoSocket
      BY <3>1, BrowserAssumption DEF LineInv, Line, Live
    <3>3. client.attempts = AtMost(failed) /\ failed \in Nat
      BY <3>2 DEF Spaced
    <3> DEFINE d == Delay(client.attempts)
               a == OneMore(client.attempts)
    <3>4. client' = [cl EXCEPT !.delay = d, !.attempts = a, !.timers = @ + 1, !.handle = TRUE]
      BY <2>1, <2>5 DEF ScheduleReconnect
    <3> HIDE DEF d, a
    <3>5. /\ client'.delay = d /\ client'.attempts = a /\ client'.handle
          /\ client'.joined = client.joined
      BY <2>1, <3>4
    <3>6. d \in 0 .. CapDelay
      BY <3>3, Bounds, DelayCapped DEF d, AtMost
    <3>7. a = AtMost(failed')
      BY <2>2, <3>3, Bounds DEF a, OneMore, AtMost
    <3>8. failed' \in Nat /\ failed' > 0 /\ AtMost(failed' - 1) = AtMost(failed)
      BY <2>2, <3>3, Bounds DEF AtMost
    <3>9. client'.delay = Delay(AtMost(failed' - 1))
      BY <3>3, <3>5, <3>8 DEF d
    <3>10. a \in 0 .. MaxAttempts
      BY <3>7, <3>8, Bounds DEF AtMost
    <3> HIDE DEF cl
    <3> QED BY <3>5, <3>6, <3>7, <3>8, <3>9, <3>10 DEF Spaced
  <2> HIDE DEF cl
  <2> QED BY <2>2, <2>4, <2>5
<1> QED BY <1>1, <1>2

LEMMA SpacedStep == LineInv /\ Spaced /\ [BrowserNext]_tabVars => Spaced'
<1> SUFFICES ASSUME LineInv, Spaced, [BrowserNext]_tabVars PROVE Spaced'
  OBVIOUS
<1>0. IsClient(client)
  BY DEF LineInv, LineTyped
<1>1. CASE Enter
  <2>1. PICK cl :
          /\ cl = [client EXCEPT !.handle = FALSE, !.attempts = 0, !.intentional = FALSE,
                                 !.joined = FALSE]
          /\ OpenSocket(cl, visit + 1)
    BY <1>1 DEF Enter
  <2>2. cl = [socket |-> client.socket, timers |-> client.timers, handle |-> FALSE,
              delay |-> client.delay, attempts |-> 0, intentional |-> FALSE, joined |-> FALSE]
    BY <1>0, <2>1 DEF IsClient
  <2>3. IsClient(cl)
    BY <1>0, <2>2 DEF IsClient
  <2>4. failed' = 0
    BY <1>1 DEF Enter
  <2> QED BY <2>1, <2>2, <2>3, <2>4, SpacedOpen, SpacedReset
<1>2. CASE TimerFires
  <2>1. PICK cl : cl = [client EXCEPT !.timers = @ - 1, !.handle = FALSE] /\ OpenSocket(cl, visit)
    BY <1>2 DEF TimerFires
  <2>2. client.timers = 1 /\ client.handle
    BY <1>0, <1>2 DEF TimerFires, LineInv, Line
  <2>3. cl = [socket |-> client.socket, timers |-> 0, handle |-> FALSE,
              delay |-> client.delay, attempts |-> client.attempts,
              intentional |-> client.intentional, joined |-> client.joined]
    <3>1. cl = [client EXCEPT !.timers = 0, !.handle = FALSE]
      BY <1>0, <2>1, <2>2 DEF IsClient
    <3> QED BY <1>0, <3>1 DEF IsClient
  <2>4. IsClient(cl)
    BY <1>0, <2>3 DEF IsClient
  <2>5. UNCHANGED failed
    BY <1>2 DEF TimerFires
  <2>6. client.joined \in BOOLEAN
    BY DEF Spaced
  <2> QED BY <2>1, <2>2, <2>3, <2>4, <2>5, <2>6, SpacedOpen, SpacedQuiet
<1>3. CASE Leave \/ GoBack
  <2> DEFINE t == IF client.handle THEN client.timers - 1 ELSE client.timers
  <2>1. client' = [client EXCEPT !.intentional = TRUE, !.socket = NoSocket, !.handle = FALSE,
                                 !.timers = t] /\ UNCHANGED failed
    BY <1>3, <1>0 DEF Leave, GoBack, CloseClient, IsClient
  <2> HIDE DEF t
  <2>2. client' = [socket |-> NoSocket, timers |-> t, handle |-> FALSE, delay |-> client.delay,
                   attempts |-> client.attempts, intentional |-> TRUE, joined |-> client.joined]
    BY <1>0, <2>1 DEF IsClient
  <2> QED BY <2>1, <2>2 DEF Spaced
<1>4. ASSUME NEW s \in Sockets, Opened(s) PROVE Spaced'
  <2>1. client' = [client EXCEPT !.attempts = 0, !.joined = FALSE] /\ failed' = 0
        /\ socket[s] = "connecting"
    BY <1>4 DEF Opened
  <2>2. client' = [socket |-> client.socket, timers |-> client.timers, handle |-> client.handle,
                   delay |-> client.delay, attempts |-> 0, intentional |-> client.intentional,
                   joined |-> FALSE]
    BY <1>0, <2>1 DEF IsClient
  <2>3. ~client.handle
    BY <2>1, BrowserAssumption DEF LineInv, Line, Live
  <2> QED BY <2>1, <2>2, <2>3, SpacedReset
<1>5. ASSUME NEW s \in Sockets, HearMessage(s) PROVE Spaced'
  <2>1. /\ UNCHANGED failed
        /\ client' = client \/ client' = [client EXCEPT !.joined = TRUE]
    BY <1>5 DEF HearMessage, HearJoined, HearPeerJoined, HearPeerUpdated, HearPeerLeft, HearChat, Heard
  <2>2. CASE client' = client
    BY <2>1, <2>2 DEF Spaced
  <2>3. CASE client' = [client EXCEPT !.joined = TRUE]
    <3>1. client' = [socket |-> client.socket, timers |-> client.timers, handle |-> client.handle,
                     delay |-> client.delay, attempts |-> client.attempts,
                     intentional |-> client.intentional, joined |-> TRUE]
      BY <1>0, <2>3 DEF IsClient
    <3> QED BY <2>1, <3>1 DEF Spaced
  <2> QED BY <2>1, <2>2, <2>3
<1>6. ASSUME NEW s \in Sockets, NEW code \in Codes(s), Closed(s, code) PROVE Spaced'
  BY <1>6, SpacedClosed
<1>7. CASE OfferMade \/ SodiumReady \/ RunTask \/ Stay \/ UNCHANGED tabVars
  BY <1>7 DEF OfferMade, SodiumReady, RunTask, Stay, tabVars, lineVars, Spaced
<1> QED
  BY <1>1, <1>2, <1>3, <1>4, <1>5, <1>6, <1>7 DEF BrowserNext

LEMMA SpacedAlways == BrowserSpec => []Spaced
  BY LineAlways, SpacedInit, SpacedStep, PTL DEF BrowserSpec

(* With the delays of reconnect.ts, attempts that fail in a row are made   *)
(* 1, 2, 4, 8, 16 and then every 30 seconds, however many there are.       *)
THEOREM DelaysDoubleCorrect ==
  ASSUME BaseDelay = 1, CapDelay = 30
  PROVE  BrowserSpec => []DelaysDouble
<1>1. MaxAttempts >= 5
  <2>1. Doubled(1, MaxAttempts) >= 30 /\ MaxAttempts \in Nat
    BY BrowserAssumption
  <2>2. MaxAttempts \in 0 .. 4 => Doubled(1, MaxAttempts) \in {1, 2, 4, 8, 16}
    BY Doublings
  <2> QED BY <2>1, <2>2
<1>2. ASSUME NEW n \in Nat, n > 0
      PROVE  Delay(AtMost(n - 1)) = Documented[IF n < Len(Documented) THEN n ELSE Len(Documented)]
  <2> DEFINE k == AtMost(n - 1)
  <2>1. k \in Nat /\ (n < 6 => k = n - 1) /\ (n >= 6 => k >= 5)
    BY <1>1, <1>2, Bounds DEF AtMost
  <2>2. Len(Documented) = 6
    BY DEF Documented
  <2> HIDE DEF k
  <2>3. CASE n < 6
    <3>1. /\ n \in 1 .. 5 /\ k = n - 1
          /\ Documented[1] = 1 /\ Documented[2] = 2 /\ Documented[3] = 4
          /\ Documented[4] = 8 /\ Documented[5] = 16
      BY <1>2, <2>1, <2>3 DEF Documented
    <3>2. Doubled(1, k) = Documented[n] /\ Doubled(1, k) < 30
      BY <3>1, Doublings
    <3>3. Delay(k) = Documented[n]
      BY <3>2 DEF Delay
    <3> QED BY <2>2, <2>3, <3>3 DEF k
  <2>4. CASE n >= 6
    <3>1. Doubled(1, k) >= 32 /\ Doubled(1, k) \in Nat
      BY <2>1, <2>4, Doublings, DoubledNat
    <3>2. Delay(k) = 30 /\ Documented[6] = 30
      BY <3>1 DEF Delay, Documented
    <3> QED BY <1>2, <2>2, <2>4, <3>2 DEF k
  <2> QED BY <1>2, <2>3, <2>4
<1>3. ASSUME LineInv, Spaced PROVE DelaysDouble
  <2> SUFFICES ASSUME client.timers > 0
               PROVE  client.delay =
                        Documented[IF failed < Len(Documented) THEN failed ELSE Len(Documented)]
    BY DEF DelaysDouble
  <2>1. client.handle
    BY <1>3 DEF LineInv, Line
  <2>2. failed \in Nat /\ failed > 0 /\ client.delay = Delay(AtMost(failed - 1))
    BY <1>3, <2>1 DEF Spaced
  <2> QED BY <1>2, <2>2
<1> QED BY <1>3, LineAlways, SpacedAlways, PTL

------------------------------------------------------------------------------
(* Types.                                                                  *)

PageTyped ==
  /\ dismissed \in BOOLEAN /\ ready \in BOOLEAN
  /\ offer \in {"none", "creating", "sent", "unsent"}
  /\ media \in Sockets \cup {NoSocket}
  /\ peers \subseteq Pids /\ peerKeys \subseteq Pids /\ excused \subseteq Pids

LEMMA PageInit == BrowserInit => PageTyped
  BY DEF BrowserInit, PageTyped

LEMMA PageHeard ==
  ASSUME PageTyped, UnderWay \subseteq Pids, NEW s \in Sockets, HearMessage(s)
  PROVE  PageTyped'
<1>1. UNCHANGED <<dismissed, offer, media, ready>>
  BY DEF HearMessage, HearJoined, HearPeerJoined, HearPeerUpdated, HearPeerLeft, HearChat, Heard
<1>2. peers' \subseteq Pids /\ peerKeys' \subseteq Pids /\ excused' \subseteq Pids
  BY DEF HearMessage, HearJoined, HearPeerJoined, HearPeerUpdated, HearPeerLeft, HearChat, PageTyped
<1> QED BY <1>1, <1>2 DEF PageTyped

LEMMA PageStep == LineInv /\ KeyInv /\ PageTyped /\ [BrowserNext]_tabVars => PageTyped'
<1> SUFFICES ASSUME LineInv, KeyInv, PageTyped, [BrowserNext]_tabVars PROVE PageTyped'
  OBVIOUS
<1>0. UnderWay \subseteq Pids /\ tasks \in Seq(Task)
  <2>1. tasks \in Seq(Task)
    BY DEF KeyInv, KeysTyped
  <2>2. \A i \in DOMAIN tasks : tasks[i] \in Task
    BY <2>1
  <2>3. \A i \in DOMAIN tasks : tasks[i].pids \subseteq Pids
    BY <2>2 DEF Task
  <2> QED BY <2>1, <2>3 DEF UnderWay
<1>1. CASE Enter \/ Leave \/ GoBack \/ TimerFires \/ SodiumReady \/ Stay \/ UNCHANGED tabVars
  BY <1>0, <1>1 DEF Enter, Leave, GoBack, TimerFires, SodiumReady, Stay, tabVars, chatVars, lineVars,
                    PageTyped
<1>2. CASE OfferMade
  BY <1>2 DEF OfferMade, PageTyped, LineInv, LineTyped, IsClient, lineVars, chatVars
<1>3. CASE RunTask
  <2>1. Head(tasks).pids \subseteq Pids
    BY <1>0, <1>3, UnderWayTail DEF RunTask
  <2> QED BY <1>3, <2>1 DEF RunTask, PageTyped, lineVars
<1>4. ASSUME NEW s \in Sockets, Opened(s) PROVE PageTyped'
  BY <1>4 DEF Opened, PageTyped, chatVars
<1>5. ASSUME NEW s \in Sockets, NEW code \in Codes(s), Closed(s, code) PROVE PageTyped'
  BY <1>5 DEF Closed, PageTyped, chatVars
<1>6. ASSUME NEW s \in Sockets, HearMessage(s) PROVE PageTyped'
  BY <1>0, <1>6, PageHeard
<1> QED BY <1>1, <1>2, <1>3, <1>4, <1>5, <1>6 DEF BrowserNext

(* Every reachable state has the shape the code gives it, for any delays,  *)
(* sockets and participants.                                               *)
THEOREM BrowserTypeCorrect == BrowserSpec => []BrowserTypeOK
<1>1. LineInv /\ KeyInv /\ Spaced /\ PageTyped => BrowserTypeOK
  <2> SUFFICES ASSUME LineInv, KeyInv, Spaced, PageTyped PROVE BrowserTypeOK
    OBVIOUS
  <2>1. /\ page \in {"lobby", "room"}
        /\ {visit, stay, failed, keypair, drawn} \subseteq Nat
        /\ socket \in [Sockets -> {"none", "connecting", "open", "closing"}]
        /\ announced \subseteq Nat \X Nat
    BY DEF LineInv, LineTyped, KeyInv, KeysTyped, Spaced
  <2>2. owner \in [Sockets -> 0 .. visit]
    BY DEF LineInv, LineTyped, Line
  <2>3. client \in [socket : Sockets \cup {NoSocket}, timers : Nat, handle : BOOLEAN,
                    delay : 0 .. CapDelay, attempts : 0 .. MaxAttempts, intentional : BOOLEAN, joined : BOOLEAN]
    BY DEF LineInv, LineTyped, IsClient, Spaced
  <2>4. tasks \in Seq([kind : {"record", "announce", "ingest", "clear"},
                       pids : SUBSET Pids, visit : Nat])
    BY DEF KeyInv, KeysTyped, Task
  <2>5. /\ {dismissed, ready} \subseteq BOOLEAN
        /\ offer \in {"none", "creating", "sent", "unsent"}
        /\ media \in Sockets \cup {NoSocket}
        /\ {peers, peerKeys, excused} \subseteq SUBSET Pids
    BY DEF PageTyped
  <2> QED BY <2>1, <2>2, <2>3, <2>4, <2>5 DEF BrowserTypeOK
<1> QED
  BY <1>1, LineAlways, KeyInit, KeyStep, SpacedAlways, PageInit, PageStep, PTL DEF BrowserSpec

==============================================================================
