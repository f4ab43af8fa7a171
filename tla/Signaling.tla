------------------------------ MODULE Signaling ------------------------------
(***************************************************************************)
(* The per-connection task of the signaling server                         *)
(* (crates/meet-server/src/signaling/conn.rs) over the registry of         *)
(* RoomHub and the participant table of the SFU.                           *)
(*                                                                         *)
(* pc[c] is where the task of c is suspended or may be preempted:          *)
(*   connecting    nothing registered yet; the first frame, the room       *)
(*                 lookup and the token check are still to come            *)
(*   joining       registered, the Joined frame is being written           *)
(*   announcing    Joined written, PeerJoined not yet broadcast            *)
(*   sfu_joining   about to call SfuPort::on_join                          *)
(*   looping       in the select! of run_loop                              *)
(*   sending       in run_loop, blocked writing held[c]                    *)
(*   updating      pubkey recorded, PeerUpdated not yet broadcast          *)
(*   offering      awaiting the SFU's answer to an offer                   *)
(*   closing       blocked writing a Close frame                           *)
(*   leaving       run_loop returned; about to leave the registry          *)
(*   departing     out of the registry, PeerLeft not yet broadcast         *)
(*   sfu_leaving   about to call SfuPort::on_leave                         *)
(*   closed        the task ended                                          *)
(*   aborted       the task ended because Joined could not be written      *)
(*                                                                         *)
(* A write blocks while the client does not read (link "stalled"), and may *)
(* fail once the connection is gone (link "down").  Frames a client sends  *)
(* are chosen freely from Frames[c]; a connection is one socket, so a client  *)
(* that reconnects is another member of Conns with the same PidOf.         *)
(***************************************************************************)
EXTENDS RoomHub

CONSTANTS
  PidOf,      (* PidOf[c]: the participant id in the token c presents      *)
  SfuCap,     (* max_participants_per_room, 30 in the code                 *)
  IdleTicks,  (* IDLE_TIMEOUT_SECS / HEARTBEAT_INTERVAL_SECS, 3 in the code *)
  Frames,     (* Frames[c]: the kinds of frame the client of c sends       *)
  Faults      (* "stall": clients may stop reading                         *)
              (* "sfu": building a peer connection may fail                *)

FrameKinds == {"WsPing", "Ping", "Announce", "Chat", "Offer", "Media", "Violation"}

ASSUME ConnAssumption ==
  /\ PidOf \in [Conns -> Pids]
  /\ SfuCap \in Nat
  /\ IdleTicks \in Nat
  /\ Frames \in [Conns -> SUBSET FrameKinds]
  /\ Faults \subseteq {"stall", "sfu"}

VARIABLES
  pc,      (* where the task of each connection is                        *)
  link,    (* the client's end: "up", "stalled" or "down"                 *)
  quiet,   (* heartbeat periods since the last frame from the client      *)
  held,    (* the message the task is about to write or to broadcast      *)
  session, (* session[p]: the connection for which on_join made the       *)
           (* PeerSession in the SFU's table under p, or NoConn           *)
  media    (* connections whose RTCPeerConnection in the SFU is open      *)

sfuVars == <<session, media>>
vars    == <<hubVars, pc, link, quiet, held, sfuVars>>

NoMsg == [type |-> "None"]

PcValues ==
  {"connecting", "joining", "announcing", "sfu_joining", "looping", "sending",
   "updating", "offering", "closing", "leaving", "departing", "sfu_leaving",
   "closed", "aborted"}

Running == {"looping", "sending", "updating", "offering", "closing"}
Ended   == {"closed", "aborted"}

Goto(c, label) == pc' = [pc EXCEPT ![c] = label]
Hold(c, m)     == held' = [held EXCEPT ![c] = m]

Init ==
  /\ HubInit
  /\ pc = [c \in Conns |-> "connecting"]
  /\ link = [c \in Conns |-> "up"]
  /\ quiet = [c \in Conns |-> 0]
  /\ held = [c \in Conns |-> NoMsg]
  /\ session = [p \in Pids |-> NoConn]
  /\ media = {}

------------------------------------------------------------------------------
(* Handler::run up to the loop.                                            *)

(* Every return before the registry is touched: no frame within the limit, *)
(* a first frame that is not a Join, an unknown room, a bad token.         *)
Refuse(c) ==
  /\ pc[c] = "connecting"
  /\ Goto(c, "closed")
  /\ DropReceiver(c)
  /\ UNCHANGED <<owner, pubkey, open, lagged, link, quiet, held, sfuVars>>

(* The token names PidOf[c].  The connection registered under that id      *)
(* before, if any, is told so on its queue, and nothing else happens to it. *)
HubJoin(c) ==
  LET p == PidOf[c] IN
  /\ pc[c] = "connecting"
  /\ Register(c, p)
  /\ SendTo(p, ErrorMsg(4409))
  /\ Hold(c, Joined(PeersOf(p)))
  /\ Goto(c, "joining")
  /\ UNCHANGED <<listening, link, quiet, sfuVars>>

SendJoined(c) ==
  /\ pc[c] = "joining"
  /\ link[c] # "stalled"
  /\ Hold(c, NoMsg)
  /\ Goto(c, "announcing")
  /\ UNCHANGED <<hubVars, link, quiet, sfuVars>>

(* `return Err(e)` skips the cleanup at the end of run.                    *)
SendJoinedFails(c) ==
  /\ pc[c] = "joining"
  /\ link[c] = "down"
  /\ Hold(c, NoMsg)
  /\ Goto(c, "aborted")
  /\ DropReceiver(c)
  /\ UNCHANGED <<owner, pubkey, open, lagged, link, quiet, sfuVars>>

AnnounceJoin(c) ==
  LET p == PidOf[c] IN
  /\ pc[c] = "announcing"
  /\ Broadcast(p, PeerJoined([pid |-> p, key |-> NoKey]))
  /\ Goto(c, "sfu_joining")
  /\ UNCHANGED <<owner, pubkey, open, listening, link, quiet, held, sfuVars>>

(* The participants in the SFU's table.                                    *)
Admitted == {p \in Pids : session[p] # NoConn}

(* [Mutant: the cap is compared with <=.] *)
SfuAdmitsOneMore == Cardinality(Admitted) <= SfuCap

(* on_join counts before it inserts, so a full room refuses a participant  *)
(* it already has.  run ignores the result and enters the loop either way. *)
SfuAdmits == Cardinality(Admitted) < SfuCap

(* The new session takes the place of the one an older connection of the   *)
(* participant has in the table, whose peer connection nobody closes.      *)
SfuJoin(c) ==
  /\ pc[c] = "sfu_joining"
  /\ IF SfuAdmits
       THEN session' = [session EXCEPT ![PidOf[c]] = c] /\ media' = media \cup {c}
       ELSE UNCHANGED sfuVars
  /\ quiet' = [quiet EXCEPT ![c] = 0]
  /\ Goto(c, "looping")
  /\ UNCHANGED <<hubVars, link, held>>

SfuJoinFails(c) ==
  /\ "sfu" \in Faults
  /\ pc[c] = "sfu_joining"
  /\ quiet' = [quiet EXCEPT ![c] = 0]
  /\ Goto(c, "looping")
  /\ UNCHANGED <<hubVars, link, held, sfuVars>>

------------------------------------------------------------------------------
(* run_loop.                                                               *)

(* [Mutant: an early return from run instead of from run_loop.] *)
ExitWithoutCleanup(c) ==
  /\ Hold(c, NoMsg)
  /\ Goto(c, "closed")
  /\ DropReceiver(c)
  /\ UNCHANGED <<owner, pubkey, open, lagged, link, quiet, sfuVars>>

(* Returning from run_loop drops both halves of the socket and the queue's *)
(* receiver.                                                               *)
ExitLoop(c) ==
  /\ Hold(c, NoMsg)
  /\ Goto(c, "leaving")
  /\ DropReceiver(c)
  /\ UNCHANGED <<owner, pubkey, open, lagged, link, quiet, sfuVars>>

(* [Mutant: a message that cannot be written at once is dropped.] *)
DrainOrDrop(c) ==
  /\ pc[c] = "looping"
  /\ out[c] # <<>>
  /\ out' = [out EXCEPT ![c] = Tail(@)]
  /\ UNCHANGED <<owner, pubkey, open, listening, lagged, pc, link, quiet, held, sfuVars>>

DrainOut(c) ==
  /\ pc[c] = "looping"
  /\ out[c] # <<>>
  /\ out' = [out EXCEPT ![c] = Tail(@)]
  /\ IF link[c] = "stalled"
       THEN Hold(c, Head(out[c])) /\ Goto(c, "sending")
       ELSE UNCHANGED <<held, pc>>
  /\ UNCHANGED <<owner, pubkey, open, listening, lagged, link, quiet, sfuVars>>

FinishSend(c) ==
  /\ pc[c] = "sending"
  /\ link[c] # "stalled"
  /\ Hold(c, NoMsg)
  /\ Goto(c, "looping")
  /\ UNCHANGED <<hubVars, link, quiet, sfuVars>>

(* A write fails, or the socket yields a Close frame, an error or its end. *)
ConnLost(c) ==
  /\ pc[c] \in {"looping", "sending"}
  /\ link[c] = "down"
  /\ ExitLoop(c)

(* A Close frame is written before the loop returns, and its result is     *)
(* ignored.                                                                *)
Kick(c) ==
  IF link[c] = "stalled"
    THEN Goto(c, "closing") /\ UNCHANGED <<hubVars, link, quiet, held, sfuVars>>
    ELSE ExitLoop(c)

CloseWritten(c) ==
  /\ pc[c] = "closing"
  /\ link[c] # "stalled"
  /\ ExitLoop(c)

(* [Mutant: the loop goes on after the Close frame.] *)
HeartbeatGoesOn(c) ==
  /\ pc[c] = "looping"
  /\ quiet[c] = IdleTicks
  /\ UNCHANGED vars

Heartbeat(c) ==
  /\ pc[c] = "looping"
  /\ quiet[c] = IdleTicks
  /\ Kick(c)

------------------------------------------------------------------------------
(* handle_client_msg, one action per kind of frame.                        *)

Inbound(c, kind) ==
  /\ kind \in Frames[c]
  /\ pc[c] = "looping"
  /\ link[c] # "down"

Heard(c) == quiet' = [quiet EXCEPT ![c] = 0]

(* A WebSocket ping is answered on the socket itself, not through the queue. *)
WsPing(c) ==
  /\ Inbound(c, "WsPing")
  /\ Heard(c)
  /\ IF link[c] = "stalled"
       THEN Hold(c, Pong) /\ Goto(c, "sending")
       ELSE UNCHANGED <<held, pc>>
  /\ UNCHANGED <<hubVars, link, sfuVars>>

Ping(c) ==
  /\ Inbound(c, "Ping")
  /\ Heard(c)
  /\ SendTo(PidOf[c], Pong)
  /\ UNCHANGED <<owner, pubkey, open, listening, pc, link, held, sfuVars>>

(* [Mutant: the participant id is taken from the frame.] *)
AnnounceForAnyone(c, k) ==
  /\ Inbound(c, "Announce")
  /\ Heard(c)
  /\ \E p \in Pids :
       /\ SetPubkey(p, k)
       /\ Hold(c, PeerUpdated([pid |-> p, key |-> k]))
  /\ Goto(c, "updating")
  /\ UNCHANGED <<owner, open, listening, out, lagged, link, sfuVars>>

(* set_pubkey and the broadcast are two critical sections.                 *)
Announce(c, k) ==
  LET p == PidOf[c] IN
  /\ Inbound(c, "Announce")
  /\ Heard(c)
  /\ \/ /\ SetPubkey(p, k)
        /\ Hold(c, PeerUpdated([pid |-> p, key |-> k]))
        /\ Goto(c, "updating")
     \/ /\ owner[p] = NoConn
        /\ UNCHANGED <<pubkey, held, pc>>
  /\ UNCHANGED <<owner, open, listening, out, lagged, link, sfuVars>>

BroadcastUpdate(c) ==
  /\ pc[c] = "updating"
  /\ Broadcast(NoPid, held[c])
  /\ Hold(c, NoMsg)
  /\ Goto(c, "looping")
  /\ UNCHANGED <<owner, pubkey, open, listening, link, quiet, sfuVars>>

(* Whether the rate limiter lets the message through is left open here.    *)
ChatDenied(c) ==
  /\ Inbound(c, "Chat")
  /\ Heard(c)
  /\ SendTo(PidOf[c], ErrorMsg(4429))
  /\ UNCHANGED <<owner, pubkey, open, listening, pc, link, held, sfuVars>>

ChatAll(c) ==
  /\ Inbound(c, "Chat")
  /\ Heard(c)
  /\ Broadcast(PidOf[c], Chat(PidOf[c]))
  /\ UNCHANGED <<owner, pubkey, open, listening, pc, link, held, sfuVars>>

ChatTo(c, to) ==
  /\ Inbound(c, "Chat")
  /\ Heard(c)
  /\ SendTo(to, Chat(PidOf[c]))
  /\ UNCHANGED <<owner, pubkey, open, listening, pc, link, held, sfuVars>>

Offer(c) ==
  /\ Inbound(c, "Offer")
  /\ Heard(c)
  /\ IF PidOf[c] \in Admitted
       THEN Goto(c, "offering") /\ UNCHANGED <<out, lagged>>
       ELSE SendTo(PidOf[c], ErrorMsg(4400)) /\ UNCHANGED pc
  /\ UNCHANGED <<owner, pubkey, open, listening, link, held, sfuVars>>

(* The peer connection accepts the offer or rejects it.                    *)
OfferAnswered(c) ==
  /\ pc[c] = "offering"
  /\ \E m \in {Answer, ErrorMsg(4400)} : SendTo(PidOf[c], m)
  /\ Goto(c, "looping")
  /\ UNCHANGED <<owner, pubkey, open, listening, link, quiet, held, sfuVars>>

(* An Answer or IceCandidate goes to the peer connection, a WebSocket pong *)
(* nowhere; neither changes anything here.                                 *)
Media(c) ==
  /\ Inbound(c, "Media")
  /\ Heard(c)
  /\ UNCHANGED <<hubVars, pc, link, held, sfuVars>>

(* Binary or oversized frame, bad JSON, second Join, bad pubkey or chat.   *)
Violation(c) ==
  /\ Inbound(c, "Violation")
  /\ Kick(c)

ClientFrame(c) ==
  \/ WsPing(c) \/ Ping(c)
  \/ \E k \in Keys : Announce(c, k)
  \/ ChatDenied(c) \/ ChatAll(c)
  \/ \E to \in Pids : ChatTo(c, to)
  \/ Offer(c) \/ Media(c) \/ Violation(c)

------------------------------------------------------------------------------
(* The cleanup at the end of run.                                          *)

Leave(c) ==
  /\ pc[c] = "leaving"
  /\ Unregister(PidOf[c])
  /\ Goto(c, "departing")
  /\ UNCHANGED <<listening, out, lagged, link, quiet, held, sfuVars>>

(* [Mutant: nobody is told.] *)
LeaveUnannounced(c) ==
  /\ pc[c] = "departing"
  /\ Goto(c, "sfu_leaving")
  /\ UNCHANGED <<hubVars, link, quiet, held, sfuVars>>

AnnounceLeft(c) ==
  /\ pc[c] = "departing"
  /\ Broadcast(PidOf[c], PeerLeft(PidOf[c]))
  /\ Goto(c, "sfu_leaving")
  /\ UNCHANGED <<owner, pubkey, open, listening, link, quiet, held, sfuVars>>

(* [Mutant: the session is dropped from the table without being closed.] *)
SfuLeaveUnclosed(c) ==
  /\ pc[c] = "sfu_leaving"
  /\ session' = [session EXCEPT ![PidOf[c]] = NoConn]
  /\ Goto(c, "closed")
  /\ UNCHANGED <<hubVars, link, quiet, held, media>>

(* on_leave goes by the participant id: it closes the session the table    *)
(* holds, whichever connection it was made for.                            *)
SfuLeave(c) ==
  /\ pc[c] = "sfu_leaving"
  /\ session' = [session EXCEPT ![PidOf[c]] = NoConn]
  /\ media' = media \ {session[PidOf[c]]}
  /\ Goto(c, "closed")
  /\ UNCHANGED <<hubVars, link, quiet, held>>

------------------------------------------------------------------------------
(* Clients, their network, and time.                                       *)

Disconnect(c) ==
  /\ pc[c] \notin Ended
  /\ link[c] # "down"
  /\ link' = [link EXCEPT ![c] = "down"]
  /\ UNCHANGED <<hubVars, pc, quiet, held, sfuVars>>

Stall(c) ==
  /\ "stall" \in Faults
  /\ pc[c] \notin Ended
  /\ link[c] = "up"
  /\ link' = [link EXCEPT ![c] = "stalled"]
  /\ UNCHANGED <<hubVars, pc, quiet, held, sfuVars>>

Unstall(c) ==
  /\ pc[c] \notin Ended
  /\ link[c] = "stalled"
  /\ link' = [link EXCEPT ![c] = "up"]
  /\ UNCHANGED <<hubVars, pc, quiet, held, sfuVars>>

(* One heartbeat period without a frame from c.                            *)
Silence(c) ==
  /\ pc[c] \in Running
  /\ quiet[c] < IdleTicks
  /\ quiet' = [quiet EXCEPT ![c] = @ + 1]
  /\ UNCHANGED <<hubVars, pc, link, held, sfuVars>>

------------------------------------------------------------------------------
(* The steps that hand the client a message, and the rest of the task.     *)
WriteStep(c) == SendJoined(c) \/ DrainOut(c) \/ FinishSend(c)

ServeStep(c) ==
  \/ Refuse(c) \/ HubJoin(c) \/ SendJoinedFails(c)
  \/ AnnounceJoin(c) \/ SfuJoin(c) \/ SfuJoinFails(c)
  \/ ConnLost(c) \/ CloseWritten(c) \/ Heartbeat(c)
  \/ ClientFrame(c) \/ BroadcastUpdate(c) \/ OfferAnswered(c)
  \/ Leave(c) \/ AnnounceLeft(c) \/ SfuLeave(c)

TaskStep(c) == WriteStep(c) \/ ServeStep(c)

ClientStep(c) == Disconnect(c) \/ Stall(c) \/ Unstall(c) \/ Silence(c)

(* Every connection is over and nobody new will connect.                   *)
Idle == (\A c \in Conns : pc[c] \in Ended) /\ UNCHANGED vars

Next == (\E c \in Conns : TaskStep(c) \/ ClientStep(c)) \/ Idle

(* A task that can proceed does: the runtime polls it, timers fire, and    *)
(* select! polls its branches in random order, so none is passed over for  *)
(* ever.  Clients owe nothing.  Time does pass (Silence).                  *)
Fairness ==
  \A c \in Conns :
    /\ WF_vars(Refuse(c))
    /\ WF_vars(SendJoined(c) \/ SendJoinedFails(c))
    /\ WF_vars(AnnounceJoin(c))
    /\ WF_vars(SfuJoin(c))
    /\ WF_vars(DrainOut(c))
    /\ WF_vars(FinishSend(c))
    /\ WF_vars(ConnLost(c))
    /\ WF_vars(CloseWritten(c))
    /\ WF_vars(Heartbeat(c))
    /\ WF_vars(BroadcastUpdate(c))
    /\ WF_vars(OfferAnswered(c))
    /\ WF_vars(Leave(c))
    /\ WF_vars(AnnounceLeft(c))
    /\ WF_vars(SfuLeave(c))
    /\ WF_vars(Silence(c))

Spec == Init /\ [][Next]_vars

FairSpec == Spec /\ Fairness

------------------------------------------------------------------------------
(* Properties.                                                             *)

(* The state has the shape the code gives it, and no queue outgrows its    *)
(* capacity however fast the others send.                                  *)
TypeOK ==
  /\ RegistryTyped /\ QueuesTyped
  /\ pc \in [Conns -> PcValues]
  /\ link \in [Conns -> {"up", "stalled", "down"}]
  /\ quiet \in [Conns -> 0 .. IdleTicks]
  /\ held \in [Conns -> ServerMsg \cup {NoMsg}]
  /\ session \in [Pids -> Conns \cup {NoConn}]
  /\ media \subseteq Conns

(* A task about to write or to broadcast has a message in hand.            *)
MessageInHand ==
  \A c \in Conns : pc[c] \in {"joining", "sending", "updating"} => held[c] \in ServerMsg

(* No other connection presents the participant id of c. *)
Sole(c) == \A d \in Conns : PidOf[d] = PidOf[c] => d = c

(* From its registration until its cleanup has run, a task is in one of    *)
(* these places.                                                           *)
Registered ==
  {"joining", "announcing", "sfu_joining", "looping", "sending", "updating",
   "offering", "closing", "leaving"}

(* The registry never points at a connection that is over, except one whose *)
(* Joined frame could not be written: whoever is registered under p is a   *)
(* connection of p that still has its cleanup ahead of it, even when       *)
(* connections of p replace one another and clean up in any order.         *)
HubServed ==
  \A p \in Pids : owner[p] # NoConn =>
    /\ PidOf[owner[p]] = p
    /\ pc[owner[p]] \in Registered \cup {"aborted"}

(* A connection whose participant has no other one is registered from its  *)
(* join to its own cleanup, whatever the others do: what it is sent reaches *)
(* it, and what it announces is recorded as its own.                       *)
LiveRegistered ==
  \A c \in Conns : Sole(c) /\ pc[c] \in Registered => owner[PidOf[c]] = c

(* The map has an entry for the room exactly while somebody is registered, *)
(* so a long-lived process accumulates no empty rooms.                     *)
EmptyRoomDropped == open <=> Members # {}

(* A key is recorded for a participant only by a connection of its own that *)
(* is in the loop, and by the registered one unless the participant has    *)
(* several.                                                                *)
KeyRecordedByItsOwner ==
  [][\A p \in Pids :
       pubkey'[p] \notin {NoKey, pubkey[p]} =>
         \E c \in Conns :
           /\ PidOf[c] = p
           /\ pc[c] = "looping" /\ pc'[c] = "updating"
           /\ Sole(c) => owner[p] = c]_vars

(* A connection is between on_join and the end of on_leave.                *)
MediaPcs == Running \cup {"leaving", "departing", "sfu_leaving"}

(* The SFU's table under p names a session of a connection of p that has   *)
(* its own cleanup ahead of it, and that session is open: none outlives its *)
(* connection there, and none is closed while the table gives it out.  An  *)
(* open peer connection is in the table, unless another connection of the  *)
(* same participant has entered the SFU as well and replaced it; so the    *)
(* media of a participant with one connection ends with that connection.   *)
SfuServed ==
  /\ \A p \in Admitted :
       /\ PidOf[session[p]] = p
       /\ pc[session[p]] \in MediaPcs
       /\ session[p] \in media
  /\ \A c \in media :
       \/ session[PidOf[c]] = c
       \/ \E d \in Conns \ {c} : PidOf[d] = PidOf[c] /\ pc[d] \in MediaPcs \cup {"closed"}

(* The participant cap of the SFU is respected by concurrent joins.        *)
SfuWithinCap == Cardinality(Admitted) <= SfuCap

(* A participant whose socket is gone leaves the registry.                 *)
DisconnectedLeaves ==
  \A c \in Conns :
    owner[PidOf[c]] = c /\ link[c] = "down" ~> owner[PidOf[c]] # c

(* A connection whose queue overflowed is closed: it is not left running   *)
(* with a hole in what it was told.                                        *)
LaggingIsClosed ==
  \A c \in Conns : c \in lagged /\ pc[c] \in Running ~> pc[c] \notin Running

(* A client that is gone is cleaned up after, provided it had reached the  *)
(* loop: its participant leaves the registry and the SFU, and its own peer *)
(* connection is closed unless another connection of the participant can   *)
(* have replaced it.                                                       *)
GoneIsForgotten ==
  \A c \in Conns :
    pc[c] \in Running /\ link[c] = "down"
      ~> /\ pc[c] = "closed"
         /\ owner[PidOf[c]] # c
         /\ PidOf[c] \notin Admitted
         /\ Sole(c) => c \notin media

(* A client from which nothing is heard for the idle limit is closed,      *)
(* unless it stops reading again and again.                                *)
SilentIsClosed ==
  \A c \in Conns :
    pc[c] \in Running /\ quiet[c] = IdleTicks
      ~> quiet[c] < IdleTicks \/ pc[c] \notin Running \/ []<>(link[c] = "stalled")

(* When a participant connects again, its older connection is closed.      *)
ReplacedIsClosed ==
  \A c \in Conns :
    pc[c] \in Running /\ owner[PidOf[c]] \notin {c, NoConn}
      ~> pc[c] \notin Running

==============================================================================
