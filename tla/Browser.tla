------------------------------- MODULE Browser -------------------------------
(***************************************************************************)
(* One tab of the frontend: the signaling client with its socket and its   *)
(* reconnect timer (frontend/src/rtc/signaling.ts, reconnect.ts), the first *)
(* offer of the peer connection (rtc/pc.ts), the keys of the chat          *)
(* (chat/keys.ts, wire.ts, store.ts), and the room page that drives them   *)
(* (pages/Room.tsx).                                                       *)
(*                                                                         *)
(* The tab has one thread.  An event runs to its end; continuations that   *)
(* wait for libsodium to load are kept in order and run, once it has, before *)
(* the next event.  Entering a room makes a new client; the events of the  *)
(* sockets of an earlier one reach only that one, which has been closed.   *)
(***************************************************************************)
EXTENDS Naturals, Sequences, FiniteSets

CONSTANTS
  Sockets,      (* WebSocket objects; one that is closed may stand for a new one *)
  NoSocket,     (* this.socket = null                                      *)
  Pids, Self,   (* participants; the one this tab is                       *)
  BaseDelay, CapDelay,              (* 1 s and 30 s in the code            *)
  MaxVisits, MaxTasks, MaxAttempts  (* bounds of the exploration           *)

(* d doubled n times. *)
Doubled(d, n) ==
  LET f[i \in 0 .. n] == IF i = 0 THEN d ELSE 2 * f[i - 1]
  IN  f[n]

ASSUME BrowserAssumption ==
  /\ NoSocket \notin Sockets
  /\ Self \in Pids
  /\ {BaseDelay, CapDelay, MaxVisits, MaxTasks, MaxAttempts} \subseteq Nat
  /\ Doubled(BaseDelay, MaxAttempts) >= CapDelay

VARIABLES
  page,      (* "lobby", or "room": the page after the permission wizard   *)
  visit,     (* the number of times the room has been entered              *)
  stay,      (* the number of times Leave has been pressed                 *)
  socket,    (* socket[s]: "none", "connecting", "open" or "closing"       *)
  owner,     (* owner[s]: the visit whose client made s                    *)
  client,    (* the client of this visit                                   *)
  failed,    (* history: sockets lost in a row without one that opened     *)
  dismissed, (* history: the server ended this visit with a terminal code  *)
  offer,     (* "none", "creating", "sent" or "unsent"                     *)
  media,     (* the socket whose connection has the offer at the server    *)
  ready,     (* libsodium is loaded                                        *)
  tasks,     (* continuations waiting for it, oldest first                 *)
  keypair,   (* cached: the session's key pair, or 0                       *)
  drawn,     (* key pairs generated so far                                 *)
  announced, (* history: <<stay, key pair>> as told to the server          *)
  peers,     (* session.peers                                              *)
  peerKeys,  (* whose public key useChat holds                             *)
  excused    (* history: not listed, with a key no event has dropped since  *)

lineVars == <<socket, owner, client, failed, dismissed>>
chatVars == <<ready, tasks, keypair, drawn, announced, peers, peerKeys, excused>>
tabVars  == <<page, visit, stay, lineVars, offer, media, chatVars>>

BrowserInit ==
  /\ page = "lobby" /\ visit = 0 /\ stay = 0
  /\ socket = [s \in Sockets |-> "none"]
  /\ owner = [s \in Sockets |-> 0]
  /\ client = [socket |-> NoSocket, timers |-> 0, handle |-> FALSE, delay |-> 0,
               attempts |-> 0, intentional |-> TRUE, joined |-> FALSE]
  /\ failed = 0 /\ dismissed = FALSE
  /\ offer = "none" /\ media = NoSocket
  /\ ready = FALSE /\ tasks = <<>> /\ keypair = 0 /\ drawn = 0 /\ announced = {}
  /\ peers = {} /\ peerKeys = {} /\ excused = {}

(* An event is handled when no continuation can run.                       *)
Settled == ready => tasks = <<>>

------------------------------------------------------------------------------
(* SignalingClient and Backoff.                                            *)

CanSend == client.socket # NoSocket /\ socket[client.socket] = "open"

(* [Mutant: the cap is forgotten.] *)
DelayUncapped(attempts) == Doubled(BaseDelay, attempts)

Delay(attempts) ==
  LET d == Doubled(BaseDelay, attempts) IN IF d < CapDelay THEN d ELSE CapDelay

(* Past MaxAttempts the delay stays at the cap and the count can stop.     *)
OneMore(attempts) == IF attempts < MaxAttempts THEN attempts + 1 ELSE attempts

(* [Mutant: close() does not reach a timer that is pending.] *)
ScheduleForgotten(cl) ==
  [cl EXCEPT !.delay = Delay(cl.attempts), !.attempts = OneMore(@), !.timers = @ + 1]

ScheduleReconnect(cl) ==
  [cl EXCEPT !.delay = Delay(cl.attempts), !.attempts = OneMore(@),
             !.timers = @ + 1, !.handle = TRUE]

(* The new client, or the one whose timer fires, makes a socket.           *)
OpenSocket(cl, v) ==
  \E s \in Sockets :
    /\ socket[s] = "none"
    /\ socket' = [socket EXCEPT ![s] = "connecting"]
    /\ owner' = [owner EXCEPT ![s] = v]
    /\ client' = [cl EXCEPT !.socket = s]

(* [Mutant: the backoff forgets at every attempt, not at success.] *)
TimerFiresAndResets ==
  /\ Settled /\ client.timers > 0
  /\ OpenSocket([client EXCEPT !.timers = @ - 1, !.handle = FALSE, !.attempts = 0], visit)
  /\ UNCHANGED <<page, visit, stay, failed, dismissed, offer, media, chatVars>>

TimerFires ==
  /\ Settled /\ client.timers > 0
  /\ OpenSocket([client EXCEPT !.timers = @ - 1, !.handle = FALSE], visit)
  /\ UNCHANGED <<page, visit, stay, failed, dismissed, offer, media, chatVars>>

(* The open event: Join goes out first.                                    *)
Opened(s) ==
  /\ Settled /\ socket[s] = "connecting"
  /\ socket' = [socket EXCEPT ![s] = "open"]
  /\ client' = [client EXCEPT !.attempts = 0, !.joined = FALSE]
  /\ failed' = 0
  /\ UNCHANGED <<page, visit, stay, owner, dismissed, offer, media, chatVars>>

(* The server's terminal codes come in a Close frame, after an open event; *)
(* a network failure, a restart or a refused handshake is transient.       *)
Codes(s) == IF socket[s] = "open" THEN {"terminal", "transient"} ELSE {"transient"}

(* [Mutant: only the loss of a socket that had opened is retried.] *)
AfterCloseIfOpen(s, code) ==
  LET cl == [client EXCEPT !.socket = NoSocket] IN
  IF cl.intentional \/ code = "terminal" \/ socket[s] # "open" THEN cl ELSE ScheduleReconnect(cl)

(* [Mutant: the error event before it schedules a reconnect, too.] *)
AfterErrorAndClose(s, code) ==
  LET cl == [client EXCEPT !.socket = NoSocket] IN
  IF cl.intentional \/ code = "terminal" THEN cl ELSE ScheduleReconnect(ScheduleReconnect(cl))

(* What the close event makes of the client that owns the socket.          *)
AfterClose(s, code) ==
  LET cl == [client EXCEPT !.socket = NoSocket] IN
  IF cl.intentional \/ code = "terminal" THEN cl ELSE ScheduleReconnect(cl)

(* The close event.  The server forgets the connection's media with it.    *)
Closed(s, code) ==
  /\ Settled /\ socket[s] # "none" /\ code \in Codes(s)
  /\ socket' = [socket EXCEPT ![s] = "none"]
  /\ IF owner[s] = visit
       THEN /\ client' = AfterClose(s, code)
            /\ failed' = IF failed <= MaxAttempts THEN failed + 1 ELSE failed
            /\ dismissed' = (dismissed \/ code = "terminal")
       ELSE UNCHANGED <<client, failed, dismissed>>
  /\ media' = IF media = s THEN NoSocket ELSE media
  /\ UNCHANGED <<page, visit, stay, owner, offer, chatVars>>

(* close(): the timer is cleared and the socket, if any, starts to close.  *)
CloseClient ==
  /\ client' = [client EXCEPT !.intentional = TRUE, !.socket = NoSocket, !.handle = FALSE,
                              !.timers = IF client.handle THEN @ - 1 ELSE @]
  /\ socket' = [s \in Sockets |-> IF s = client.socket THEN "closing" ELSE socket[s]]

------------------------------------------------------------------------------
(* The room page.                                                          *)

(* sig.connect() and, right behind it, pc.attachLocalAndOffer().  A join     *)
(* starts from an empty list, the browser's forward button from the old one. *)
Enter ==
  /\ Settled /\ page = "lobby" /\ visit < MaxVisits
  /\ page' = "room" /\ visit' = visit + 1
  /\ OpenSocket([client EXCEPT !.handle = FALSE, !.attempts = 0,
                               !.intentional = FALSE, !.joined = FALSE], visit + 1)
  /\ failed' = 0 /\ dismissed' = FALSE
  /\ offer' = "creating"
  /\ peers' \in {peers, {}}
  /\ excused' = excused \cup (peers \ peers')
  /\ UNCHANGED <<stay, media, ready, tasks, keypair, drawn, announced, peerKeys>>

(* createOffer and setLocalDescription are done; send drops what it cannot *)
(* send.                                                                   *)
OfferMade ==
  /\ Settled /\ offer = "creating"
  /\ IF CanSend
       THEN offer' = "sent" /\ media' = client.socket
       ELSE offer' = "unsent" /\ UNCHANGED media
  /\ UNCHANGED <<page, visit, stay, lineVars, chatVars>>

(* recordPeerKey for each of S, announcePubkey, ingestChat, clearSessionKeys *)
Record(S)    == [kind |-> "record", pids |-> S, visit |-> visit]
AnnounceKey  == [kind |-> "announce", pids |-> {}, visit |-> visit]
IngestChat   == [kind |-> "ingest", pids |-> {}, visit |-> visit]
ClearSession == [kind |-> "clear", pids |-> {}, visit |-> visit]

UnderWay == UNION {tasks[i].pids : i \in DOMAIN tasks}

(* [Mutant: the keys of the chat stay where they are.] *)
LeaveKeepsKeys ==
  /\ Settled /\ page = "room"
  /\ page' = "lobby" /\ stay' = stay + 1
  /\ CloseClient
  /\ tasks' = Append(tasks, ClearSession)
  /\ peers' = {} /\ peerKeys' = peerKeys
  /\ excused' = UnderWay
  /\ offer' = "none"
  /\ UNCHANGED <<visit, owner, failed, dismissed, media, ready, keypair, drawn, announced>>

(* [Mutant: the key pair is not dropped.] *)
LeaveKeepsPair ==
  /\ Settled /\ page = "room"
  /\ page' = "lobby" /\ stay' = stay + 1
  /\ CloseClient
  /\ peers' = {} /\ peerKeys' = {}
  /\ excused' = UnderWay
  /\ offer' = "none"
  /\ UNCHANGED <<visit, owner, failed, dismissed, media, ready, tasks, keypair, drawn, announced>>

(* handleLeave: the stores are cleared at once, the key pair when libsodium *)
(* is there.                                                               *)
Leave ==
  /\ Settled /\ page = "room"
  /\ page' = "lobby" /\ stay' = stay + 1
  /\ CloseClient
  /\ tasks' = Append(tasks, ClearSession)
  /\ peers' = {} /\ peerKeys' = {}
  /\ excused' = UnderWay
  /\ offer' = "none"
  /\ UNCHANGED <<visit, owner, failed, dismissed, media, ready, keypair, drawn, announced>>

(* The browser's back button unmounts the page and clears nothing.         *)
GoBack ==
  /\ Settled /\ page = "room"
  /\ page' = "lobby"
  /\ CloseClient
  /\ offer' = "none"
  /\ UNCHANGED <<visit, stay, owner, failed, dismissed, media, chatVars>>

------------------------------------------------------------------------------
(* Messages of the server, and what waits for libsodium.                   *)

Heard(s, kept) ==
  /\ Settled /\ socket[s] = "open" /\ s = client.socket
  /\ client.joined = kept
  /\ ready \/ Len(tasks) < MaxTasks
  /\ UNCHANGED <<page, visit, stay, socket, owner, failed, dismissed, offer, media,
                 ready, keypair, drawn, announced>>

(* The first message: the list is replaced, the keys are added to the old  *)
(* ones, the own key is announced.                                         *)
HearJoined(s, there, keyed) ==
  /\ Heard(s, FALSE)
  /\ client' = [client EXCEPT !.joined = TRUE]
  /\ peers' = there
  /\ excused' = (peerKeys \cup UnderWay) \ (there \cup {Self})
  /\ tasks' = tasks \o <<Record(keyed), AnnounceKey>>
  /\ UNCHANGED peerKeys

HearPeerJoined(s, p) ==
  /\ Heard(s, TRUE)
  /\ peers' = peers \cup {p}
  /\ excused' = excused \ {p}
  /\ UNCHANGED <<client, tasks, peerKeys>>

(* A key is broadcast to everybody, its owner included, and recorded       *)
(* whether its owner is listed or not: the PeerJoined may have been lost to *)
(* a full queue, the PeerLeft may have come first.                         *)
HearPeerUpdated(s, p) ==
  /\ Heard(s, TRUE)
  /\ tasks' = Append(tasks, Record({p}))
  /\ excused' = excused \cup ({p} \ (peers \cup {Self}))
  /\ UNCHANGED <<client, peers, peerKeys>>

(* The lists drop p, be it in them or not; a key under way comes later.    *)
HearPeerLeft(s, p) ==
  /\ Heard(s, TRUE)
  /\ peers' = peers \ {p}
  /\ peerKeys' = peerKeys \ {p}
  /\ excused' = (excused \ {p}) \cup ({p} \cap UnderWay)
  /\ UNCHANGED <<client, tasks>>

(* Whether it can be opened or not, a chat message asks for the key pair.  *)
HearChat(s) ==
  /\ Heard(s, TRUE)
  /\ tasks' = Append(tasks, IngestChat)
  /\ UNCHANGED <<client, peers, peerKeys, excused>>

SodiumReady ==
  /\ ~ready
  /\ ready' = TRUE
  /\ UNCHANGED <<page, visit, stay, lineVars, offer, media, tasks, keypair, drawn, announced,
                 peers, peerKeys, excused>>

(* initSessionKeys: the cached pair, or a new one.                         *)
InitKeys ==
  /\ keypair' = IF keypair = 0 THEN drawn + 1 ELSE keypair
  /\ drawn' = IF keypair = 0 THEN drawn + 1 ELSE drawn

RunTask ==
  /\ ready /\ tasks # <<>>
  /\ tasks' = Tail(tasks)
  /\ LET t == Head(tasks) IN
     \/ /\ t.kind = "record"
        /\ peerKeys' = peerKeys \cup t.pids
        /\ UNCHANGED <<keypair, drawn, announced>>
     \/ /\ t.kind = "announce"
        /\ InitKeys
        /\ announced' = IF t.visit = visit /\ CanSend
                          THEN announced \cup {<<stay, keypair'>>} ELSE announced
        /\ UNCHANGED peerKeys
     \/ /\ t.kind = "ingest"
        /\ InitKeys
        /\ UNCHANGED <<announced, peerKeys>>
     \/ /\ t.kind = "clear"
        /\ keypair' = 0
        /\ UNCHANGED <<drawn, announced, peerKeys>>
  /\ UNCHANGED <<page, visit, stay, lineVars, offer, media, ready, peers, excused>>

HearMessage(s) ==
  \/ \E there \in SUBSET (Pids \ {Self}) : \E keyed \in SUBSET there : HearJoined(s, there, keyed)
  \/ \E p \in Pids \ {Self} : HearPeerJoined(s, p) \/ HearPeerLeft(s, p)
  \/ \E p \in Pids : HearPeerUpdated(s, p)
  \/ HearChat(s)

(* The tab stays in the lobby.                                             *)
Stay ==
  /\ page = "lobby" /\ visit = MaxVisits
  /\ UNCHANGED tabVars

BrowserNext ==
  \/ Enter \/ Leave \/ GoBack \/ OfferMade \/ TimerFires
  \/ \E s \in Sockets : Opened(s) \/ HearMessage(s) \/ \E code \in Codes(s) : Closed(s, code)
  \/ SodiumReady \/ RunTask \/ Stay

BrowserSpec == BrowserInit /\ [][BrowserNext]_tabVars

(* Timers fire, continuations run, a socket being closed is closed.        *)
BrowserFairness ==
  /\ WF_tabVars(TimerFires) /\ WF_tabVars(RunTask)
  /\ \A s \in Sockets : WF_tabVars(socket[s] = "closing" /\ Closed(s, "transient"))

BrowserFairSpec == BrowserSpec /\ BrowserFairness

------------------------------------------------------------------------------
(* Properties.                                                             *)

Live == {s \in Sockets : socket[s] \in {"connecting", "open"}}

(* Everything has the shape the code gives it, and no delay exceeds the cap. *)
BrowserTypeOK ==
  /\ page \in {"lobby", "room"}
  /\ {visit, stay, failed, keypair, drawn} \subseteq Nat
  /\ socket \in [Sockets -> {"none", "connecting", "open", "closing"}]
  /\ owner \in [Sockets -> 0 .. visit]
  /\ client \in [socket : Sockets \cup {NoSocket}, timers : Nat, handle : BOOLEAN, delay : 0 .. CapDelay,
                  attempts : 0 .. MaxAttempts, intentional : BOOLEAN, joined : BOOLEAN]
  /\ {dismissed, ready} \subseteq BOOLEAN
  /\ offer \in {"none", "creating", "sent", "unsent"}
  /\ media \in Sockets \cup {NoSocket}
  /\ tasks \in Seq([kind : {"record", "announce", "ingest", "clear"},
                     pids : SUBSET Pids, visit : Nat])
  /\ announced \subseteq Nat \X Nat
  /\ {peers, peerKeys, excused} \subseteq SUBSET Pids

(* Whatever the order of close events, timers and clicks, there is at most *)
(* one socket in use or one timer that will make one, and the client writes *)
(* to that socket.                                                         *)
OneLine ==
  /\ Cardinality(Live) + client.timers <= 1
  /\ \A s \in Live : client.socket = s

(* A tab that has left the room is off the line, and no late close event or *)
(* timer brings it back.                                                   *)
QuietAfterLeave == page = "lobby" => Live = {} /\ client.timers = 0

(* Seconds, as the comment of reconnect.ts documents them. *)
Documented == <<1, 2, 4, 8, 16, 30>>

(* Attempts that fail in a row are spaced by the documented delays: an open *)
(* socket starts the sequence anew, an attempt that does not open never    *)
(* does.                                                                   *)
DelaysDouble ==
  client.timers > 0 =>
    client.delay = Documented[IF failed < Len(Documented) THEN failed ELSE Len(Documented)]

(* A key pair lives from its first use to the next Leave, through          *)
(* reconnections and also when libsodium loads only after Leave: one stay  *)
(* never announces the key of another, nor two of its own.                 *)
KeyPerStay == \A a, b \in announced : a[1] = b[1] <=> a[2] = b[2]

(* The keys kept are those of participants listed, and the own one: with   *)
(* PeerLeft and with Leave the key goes too, also one that an earlier event *)
(* left behind.  Excused are only those whose key was under way to useChat *)
(* at that moment or is told after it, those told of without being listed, *)
(* and those whom a new list no longer has.                                *)
KeysForgotten == peerKeys \subseteq peers \cup {Self} \cup excused

(* While the room is wanted and the server has not dismissed it, a tab that *)
(* is off the line gets on it again.                                       *)
KeepsCalling ==
  page = "room" /\ ~dismissed /\ Live = {} ~> page = "lobby" \/ Live # {}

(* Once a connection has joined and the offer is ready, the server has it. *)
SfuHasOffer ==
  page = "room" /\ client.joined /\ CanSend /\ offer \notin {"none", "creating"} =>
    media = client.socket

==============================================================================
