-------------------------------- MODULE Roster --------------------------------
(***************************************************************************)
(* The server of Signaling together with what its clients make of the      *)
(* messages: the list of peers each browser shows, and the key it is told  *)
(* for each of them (frontend/src/lib/store.ts and chat/store.ts, driven by *)
(* the listeners of frontend/src/pages/Room.tsx).                          *)
(*                                                                         *)
(* A write of the server and its arrival are one step: the socket is a     *)
(* reliable FIFO and what a client does next does not depend on how far    *)
(* behind it is.                                                           *)
(***************************************************************************)
EXTENDS Signaling, Functions

VARIABLE roster   (* roster[c]: what c's browser shows, a function from    *)
                  (* the pids of session.peers to the key last told        *)

rosterVars == <<vars, roster>>

Listed(peers, d) == [p \in DOMAIN peers \cup {d.pid} |->
                       IF p \in DOMAIN peers THEN peers[p] ELSE d.key]

(* setPeers; addPeer, which ignores a pid it has; recordPeerKey, which is   *)
(* called only if there is a key; removePeer of both stores.                *)
Shown(peers, m) ==
  CASE m.type = "Joined"      -> [p \in {d.pid : d \in m.peers} |->
                                    (CHOOSE d \in m.peers : d.pid = p).key]
    [] m.type = "PeerJoined"  -> Listed(peers, m.peer)
    [] m.type = "PeerUpdated" -> [p \in DOMAIN peers |->
                                    IF p = m.peer.pid THEN m.peer.key ELSE peers[p]]
    [] m.type = "PeerLeft"    -> Restrict(peers, DOMAIN peers \ {m.pid})
    [] OTHER                  -> peers

Receive(c, m) == roster' = [roster EXCEPT ![c] = Shown(@, m)]

(* What WriteStep(c) hands over: the message in hand, or the head of the    *)
(* queue unless the write blocks.                                           *)
Delivery(c) ==
  IF pc[c] \in {"joining", "sending"} THEN Receive(c, held[c])
  ELSE IF link[c] = "stalled" THEN UNCHANGED roster
  ELSE Receive(c, Head(out[c]))

RosterInit == Init /\ roster = [c \in Conns |-> <<>>]

RosterNext ==
  \/ \E c \in Conns : WriteStep(c) /\ Delivery(c)
  \/ \E c \in Conns : (ServeStep(c) \/ ClientStep(c)) /\ UNCHANGED roster
  \/ Idle /\ UNCHANGED roster

RosterSpec == RosterInit /\ [][RosterNext]_rosterVars

RosterFairSpec == RosterSpec /\ Fairness

------------------------------------------------------------------------------
(* Properties.                                                             *)

(* What is on its way to the client of c.                                   *)
Pending(c) ==
  (IF pc[c] \in {"joining", "sending"} THEN <<held[c]>> ELSE <<>>) \o out[c]

(* What a client that shows peers will show when it has read all of q.      *)
Told(peers, q) ==
  LET f[n \in 0 .. Len(q)] == IF n = 0 THEN peers ELSE Shown(f[n - 1], q[n])
  IN  f[Len(q)]

Prospect(c) == Told(roster[c], Pending(c))

(* The connections this speaks of: those whose participant has no other     *)
(* one.  A connection that is replaced misses, with no overflow, what is    *)
(* broadcast after that.                                                    *)
Soles == {c \in Conns : Sole(c)}

(* Once its queue is drained, a client shows exactly the participants that  *)
(* are registered: a participant that has been announced is shown, one      *)
(* whose departure has been broadcast is not, whatever interleaving of the  *)
(* joins' snapshots, their PeerJoined and the PeerLeft of others produced   *)
(* the queue; unless the queue overflowed.                                  *)
RosterAgrees ==
  \A c \in (Soles \cap listening) \ lagged : pc[c] # "connecting" =>
    \A d \in Soles \ {c} :
      /\ pc[d] \in Registered \ {"joining", "announcing"} => PidOf[d] \in DOMAIN Prospect(c)
      /\ pc[d] \in {"connecting", "sfu_leaving", "closed"} => PidOf[d] \notin DOMAIN Prospect(c)

(* Once its queue is drained, a client knows for every participant it shows *)
(* the key that is recorded in the registry, even when it joined between    *)
(* the recording of a key and its broadcast; unless the queue overflowed.   *)
KeysAgree ==
  \A c \in (Soles \cap listening) \ lagged : pc[c] # "connecting" =>
    \A d \in Soles \ {c} :
      /\ PidOf[d] \in DOMAIN Prospect(c)
      /\ pc[d] \in Registered \ {"updating"}
      => Prospect(c)[PidOf[d]] = pubkey[PidOf[d]]

(* A client never lists itself.                                             *)
NotOwnPeer == \A c \in Conns : PidOf[c] \notin DOMAIN roster[c]

(* A client that disconnects disappears from the list of everyone who stays *)
(* connected, keeps up and does not stop reading again and again.           *)
DepartureSeen ==
  \A c, d \in Conns :
    (c # d /\ pc[d] \in Running /\ link[d] = "down")
      ~> \/ PidOf[d] \notin DOMAIN roster[c]
         \/ c \in lagged
         \/ pc[c] \notin Running
         \/ []<>(link[c] = "stalled")

(* What Presence speaks of: where a connection stands, and whom its client  *)
(* will list.                                                               *)
Stage(c) ==
  CASE pc[c] = "connecting"                           -> "outside"
    [] pc[c] \in {"joining", "announcing", "aborted"} -> "inside"
    [] pc[c] = "departing"                            -> "leaving"
    [] pc[c] \in {"sfu_leaving", "closed"}            -> "gone"
    [] OTHER                                          -> "announced"

View(c) == {d \in Soles : c \in listening /\ PidOf[d] \in DOMAIN Prospect(c)}

Promise == INSTANCE Presence
  WITH Clients <- Soles,
       stage <- [c \in Soles |-> Stage(c)], view <- [c \in Soles |-> View(c)],
       hearing <- Soles \cap listening, missed <- Soles \cap lagged

(* The tasks, the registry, the queues and the clients' lists implement the *)
(* room of Presence: everyone in it learns of every arrival and departure,  *)
(* in order, or is known to have been too slow for it.                      *)
KeepsPromise == Promise!PresenceSpec

==============================================================================
