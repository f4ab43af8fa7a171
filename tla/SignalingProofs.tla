--------------------------- MODULE SignalingProofs ---------------------------
(***************************************************************************)
(* Theorems about Signaling for every set of connections, every assignment *)
(* of participant ids and every bound, proved with TLAPS.                  *)
(***************************************************************************)
EXTENDS Signaling, FiniteSetTheorems, TLAPS

(* The tuple of the SFU's variables is expanded throughout.                *)
USE DEF sfuVars

(* The step relation, one disjunct per action of a connection.             *)
LEMMA NextCases ==
  ASSUME NEW P, Next,
         ASSUME NEW c \in Conns, WriteStep(c) PROVE P,
         ASSUME NEW c \in Conns, ServeStep(c) PROVE P,
         ASSUME NEW c \in Conns, ClientStep(c) PROVE P,
         ASSUME UNCHANGED vars PROVE P
  PROVE  P
  BY DEF Next, Idle, TaskStep

------------------------------------------------------------------------------
(* Type correctness.                                                       *)

LEMMA Messages ==
  /\ NoMsg \notin ServerMsg
  /\ Answer \in ServerMsg
  /\ Pong \in ServerMsg
  /\ \A code \in {4400, 4409, 4429} : ErrorMsg(code) \in ServerMsg
  /\ \A p \in Pids : PeerLeft(p) \in ServerMsg /\ Chat(p) \in ServerMsg
  /\ \A d \in PeerDescriptor : PeerJoined(d) \in ServerMsg /\ PeerUpdated(d) \in ServerMsg
  /\ \A D \in SUBSET PeerDescriptor : Joined(D) \in ServerMsg
  BY DEF NoMsg, ServerMsg, Answer, Pong, ErrorMsg, PeerLeft, Chat, PeerJoined,
         PeerUpdated, Joined

LEMMA TrySendOK ==
  ASSUME QueuesTyped, UNCHANGED listening, NEW S, NEW m \in ServerMsg, TrySend(S, m)
  PROVE  QueuesTyped'
<1>1. ASSUME NEW c \in Conns
      PROVE  out'[c] \in Seq(ServerMsg) /\ Len(out'[c]) <= QueueCap
  <2>1. out[c] \in Seq(ServerMsg) /\ Len(out[c]) \in Nat /\ Len(out[c]) <= QueueCap
    BY DEF QueuesTyped
  <2>2. CASE c \in S /\ HasRoom(c)
    <3>1. out'[c] = Append(out[c], m)
      BY <2>2 DEF TrySend
    <3>2. Append(out[c], m) \in Seq(ServerMsg) /\ Len(Append(out[c], m)) = Len(out[c]) + 1
      BY <2>1
    <3>3. Len(out[c]) < QueueCap
      BY <2>2 DEF HasRoom
    <3>4. QED
      BY <2>1, <3>1, <3>2, <3>3, HubAssumption
  <2>3. CASE ~(c \in S /\ HasRoom(c))
    BY <2>1, <2>3 DEF TrySend
  <2>4. QED
    BY <2>2, <2>3
<1>2. out' = [c \in Conns |-> out'[c]]
  BY DEF TrySend
<1>3. lagged' \subseteq Conns
  BY DEF TrySend, QueuesTyped
<1>4. QED
  BY <1>1, <1>2, <1>3 DEF QueuesTyped

LEMMA DropReceiverOK ==
  ASSUME QueuesTyped, UNCHANGED lagged, NEW c \in Conns, DropReceiver(c)
  PROVE  QueuesTyped'
<1>1. <<>> \in Seq(ServerMsg) /\ Len(<<>>) = 0 /\ 0 <= QueueCap
  BY HubAssumption
<1>2. QED
  BY <1>1 DEF QueuesTyped, DropReceiver

LEMMA TailOK ==
  ASSUME QueuesTyped, NEW c \in Conns, out[c] # <<>>,
         out' = [out EXCEPT ![c] = Tail(@)], UNCHANGED <<listening, lagged>>
  PROVE  QueuesTyped' /\ Head(out[c]) \in ServerMsg
<1>1. out[c] \in Seq(ServerMsg) /\ Len(out[c]) \in Nat /\ Len(out[c]) <= QueueCap
  BY DEF QueuesTyped
<1>2. Tail(out[c]) \in Seq(ServerMsg) /\ Len(Tail(out[c])) = Len(out[c]) - 1
      /\ Head(out[c]) \in ServerMsg
  BY <1>1
<1>3. Len(Tail(out[c])) <= QueueCap
  BY <1>1, <1>2, HubAssumption
<1>4. QED
  BY <1>2, <1>3 DEF QueuesTyped

(* What a task has in hand while it broadcasts or writes. *)
LEMMA DescriptorOK ==
  ASSUME RegistryTyped
  PROVE  /\ \A p \in Pids : Descriptor(p) \in PeerDescriptor
         /\ \A p \in Pids : PeersOf(p) \in SUBSET PeerDescriptor
         /\ \A p \in Pids, k \in Keys \cup {NoKey} : [pid |-> p, key |-> k] \in PeerDescriptor
  BY DEF RegistryTyped, Descriptor, PeersOf, Members, PeerDescriptor

(* The inductive invariant: types alone do not say that a task about to    *)
(* broadcast or write has a message in hand.                               *)
TypeInv == TypeOK /\ MessageInHand

LEMMA ExitLoopTyped ==
  ASSUME TypeInv, NEW c \in Conns, ExitLoop(c)
  PROVE  TypeInv'
<1>1. QueuesTyped'
  BY DropReceiverOK DEF TypeInv, TypeOK, MessageInHand, ExitLoop
<1>2. QED
  BY <1>1 DEF TypeInv, TypeOK, MessageInHand, ExitLoop, RegistryTyped, Hold, Goto, PcValues

LEMMA KickTyped ==
  ASSUME TypeInv, NEW c \in Conns, Kick(c)
  PROVE  TypeInv'
<1>1. CASE link[c] = "stalled"
  BY <1>1 DEF TypeInv, TypeOK, MessageInHand, Kick, RegistryTyped, QueuesTyped, hubVars, Goto, PcValues
<1>2. CASE link[c] # "stalled"
  BY <1>2, ExitLoopTyped DEF Kick
<1>3. QED
  BY <1>1, <1>2

LEMMA WriteTyped ==
  ASSUME TypeInv, NEW c \in Conns, WriteStep(c)
  PROVE  TypeInv'
<1> USE DEF Goto, Hold, PcValues
<1>1. CASE SendJoined(c)
  BY <1>1 DEF SendJoined, TypeInv, TypeOK, MessageInHand, RegistryTyped, QueuesTyped, hubVars
<1>2. CASE DrainOut(c)
  <2>1. QueuesTyped' /\ Head(out[c]) \in ServerMsg
    BY <1>2, TailOK DEF DrainOut, TypeInv, TypeOK, MessageInHand
  <2>2. QED
    BY <1>2, <2>1 DEF DrainOut, TypeInv, TypeOK, MessageInHand, RegistryTyped
<1>3. CASE FinishSend(c)
  BY <1>3 DEF FinishSend, TypeInv, TypeOK, MessageInHand, RegistryTyped, QueuesTyped, hubVars
<1>4. QED
  BY <1>1, <1>2, <1>3 DEF WriteStep

(* Every action of ServeStep leaves the queues alone, drops a receiver or  *)
(* sends one message.                                                      *)
LEMMA ServeTyped ==
  ASSUME TypeInv, NEW c \in Conns, ServeStep(c)
  PROVE  TypeInv'
<1> USE DEF Goto, Hold, PcValues, Heard
<1> DEFINE p == PidOf[c]
<1>0. p \in Pids
  BY ConnAssumption
<1>1. CASE Refuse(c)
  <2>1. QueuesTyped'
    BY <1>1, DropReceiverOK DEF Refuse, TypeInv, TypeOK, MessageInHand
  <2>2. QED
    BY <1>1, <2>1 DEF Refuse, TypeInv, TypeOK, MessageInHand, RegistryTyped
<1>2. CASE HubJoin(c)
  <2>1. QueuesTyped'
    BY <1>2, TrySendOK, Messages DEF HubJoin, SendTo, TypeInv, TypeOK, MessageInHand
  <2>2. RegistryTyped' /\ Joined(PeersOf(p)) \in ServerMsg
    BY <1>0, <1>2, DescriptorOK, Messages DEF HubJoin, Register, TypeInv, TypeOK, MessageInHand, RegistryTyped
  <2>3. QED
    BY <1>2, <2>1, <2>2 DEF HubJoin, TypeInv, TypeOK, MessageInHand
<1>3. CASE SendJoinedFails(c)
  <2>1. QueuesTyped'
    BY <1>3, DropReceiverOK DEF SendJoinedFails, TypeInv, TypeOK, MessageInHand
  <2>2. QED
    BY <1>3, <2>1 DEF SendJoinedFails, TypeInv, TypeOK, MessageInHand, RegistryTyped
<1>4. CASE AnnounceJoin(c)
  <2>1. PeerJoined([pid |-> p, key |-> NoKey]) \in ServerMsg
    BY <1>0, DescriptorOK, Messages DEF TypeInv, TypeOK, MessageInHand
  <2>2. QueuesTyped'
    BY <1>4, <2>1, TrySendOK DEF AnnounceJoin, Broadcast, TypeInv, TypeOK, MessageInHand
  <2>3. QED
    BY <1>4, <2>2 DEF AnnounceJoin, TypeInv, TypeOK, MessageInHand, RegistryTyped
<1>5. CASE SfuJoin(c) \/ SfuJoinFails(c)
  <2>1. 0 \in 0 .. IdleTicks
    BY ConnAssumption
  <2>2. session' \in [Pids -> Conns \cup {NoConn}] /\ media' \subseteq Conns
    BY <1>0, <1>5 DEF SfuJoin, SfuJoinFails, TypeInv, TypeOK
  <2>3. /\ pc' = [pc EXCEPT ![c] = "looping"] /\ quiet' = [quiet EXCEPT ![c] = 0]
        /\ UNCHANGED <<hubVars, link, held>>
    BY <1>5 DEF SfuJoin, SfuJoinFails
  <2>4. RegistryTyped' /\ QueuesTyped' /\ MessageInHand'
    BY <2>3 DEF TypeInv, TypeOK, MessageInHand, RegistryTyped, QueuesTyped, hubVars
  <2>5. QED
    BY <2>1, <2>2, <2>3, <2>4 DEF TypeInv, TypeOK
<1>6. CASE ConnLost(c) \/ CloseWritten(c)
  BY <1>6, ExitLoopTyped DEF ConnLost, CloseWritten
<1>7. CASE Heartbeat(c) \/ Violation(c)
  BY <1>7, KickTyped DEF Heartbeat, Violation
<1>q. Heard(c) => quiet' \in [Conns -> 0 .. IdleTicks]
  <2>1. 0 \in 0 .. IdleTicks
    BY ConnAssumption
  <2>2. QED
    BY <2>1 DEF TypeInv, TypeOK
<1>8. CASE WsPing(c) \/ Media(c)
  <2>1. Pong \in ServerMsg
    BY Messages
  <2>2. RegistryTyped' /\ QueuesTyped' /\ link' = link /\ UNCHANGED sfuVars
    BY <1>8 DEF WsPing, Media, TypeInv, TypeOK, RegistryTyped, QueuesTyped, hubVars
  <2>3. \/ UNCHANGED <<held, pc>>
        \/ /\ held' = [held EXCEPT ![c] = Pong]
           /\ pc' = [pc EXCEPT ![c] = "sending"]
    BY <1>8 DEF WsPing, Media
  <2>4. /\ pc' \in [Conns -> PcValues]
        /\ held' \in [Conns -> ServerMsg \cup {NoMsg}]
        /\ MessageInHand'
    BY <2>1, <2>3 DEF TypeInv, TypeOK, MessageInHand
  <2>5. quiet' \in [Conns -> 0 .. IdleTicks]
    BY <1>8, <1>q DEF WsPing, Media
  <2>6. QED
    BY <2>2, <2>4, <2>5 DEF TypeInv, TypeOK
<1>9. CASE \/ Ping(c) \/ ChatDenied(c) \/ ChatAll(c)
           \/ \E to \in Pids : ChatTo(c, to)
  <2>1. quiet' \in [Conns -> 0 .. IdleTicks]
    BY <1>9, <1>q DEF Ping, ChatDenied, ChatAll, ChatTo
  <2>2. Pong \in ServerMsg /\ ErrorMsg(4429) \in ServerMsg /\ Chat(p) \in ServerMsg
    BY <1>0, Messages
  <2>3. QueuesTyped /\ UNCHANGED listening
    BY <1>9 DEF Ping, ChatDenied, ChatAll, ChatTo, TypeInv, TypeOK
  <2>4. \E m \in ServerMsg : \E S : TrySend(S, m)
    <3>1. CASE Ping(c) \/ ChatDenied(c)
      BY <2>2, <3>1 DEF Ping, ChatDenied, SendTo
    <3>2. CASE ChatAll(c)
      BY <2>2, <3>2 DEF ChatAll, Broadcast
    <3>3. CASE \E to \in Pids : ChatTo(c, to)
      BY <2>2, <3>3 DEF ChatTo, SendTo
    <3>4. QED
      BY <1>9, <3>1, <3>2, <3>3
  <2>5. QueuesTyped'
    BY <2>3, <2>4, TrySendOK
  <2>6. QED
    BY <1>9, <2>1, <2>5
       DEF Ping, ChatDenied, ChatAll, ChatTo, TypeInv, TypeOK, MessageInHand, RegistryTyped
<1>10. ASSUME NEW k \in Keys, Announce(c, k)
       PROVE  TypeInv'
  <2>1. quiet' \in [Conns -> 0 .. IdleTicks]
    BY <1>10, <1>q DEF Announce
  <2>2. PeerUpdated([pid |-> p, key |-> k]) \in ServerMsg
    BY <1>0, DescriptorOK, Messages DEF TypeInv, TypeOK
  <2>3. pubkey' \in [Pids -> Keys \cup {NoKey}]
    BY <1>0, <1>10 DEF Announce, SetPubkey, TypeInv, TypeOK, RegistryTyped
  <2>4. /\ pc' \in [Conns -> PcValues]
        /\ held' \in [Conns -> ServerMsg \cup {NoMsg}]
        /\ MessageInHand'
    <3>1. \/ UNCHANGED <<held, pc>>
          \/ /\ held' = [held EXCEPT ![c] = PeerUpdated([pid |-> p, key |-> k])]
             /\ pc' = [pc EXCEPT ![c] = "updating"]
      BY <1>10 DEF Announce
    <3>2. QED
      BY <2>2, <3>1 DEF TypeInv, TypeOK, MessageInHand
  <2>5. QED
    BY <1>10, <2>1, <2>3, <2>4 DEF Announce, TypeInv, TypeOK, RegistryTyped, QueuesTyped
<1>11. CASE BroadcastUpdate(c)
  <2>1. held[c] \in ServerMsg
    BY <1>11 DEF BroadcastUpdate, TypeInv, MessageInHand
  <2>2. QueuesTyped'
    BY <1>11, <2>1, TrySendOK DEF BroadcastUpdate, Broadcast, TypeInv, TypeOK
  <2>3. QED
    BY <1>11, <2>2 DEF BroadcastUpdate, TypeInv, TypeOK, MessageInHand, RegistryTyped
<1>12. CASE Offer(c)
  <2>1. 0 \in 0 .. IdleTicks
    BY ConnAssumption
  <2>2. QueuesTyped'
    <3>1. CASE p \in Admitted
      BY <1>12, <3>1 DEF Offer, TypeInv, TypeOK, MessageInHand, QueuesTyped
    <3>2. CASE p \notin Admitted
      BY <1>12, <3>2, TrySendOK, Messages DEF Offer, SendTo, TypeInv, TypeOK, MessageInHand
    <3>3. QED
      BY <3>1, <3>2
  <2>3. QED
    BY <1>12, <2>1, <2>2 DEF Offer, TypeInv, TypeOK, MessageInHand, RegistryTyped
<1>13. CASE OfferAnswered(c)
  <2>1. QueuesTyped'
    BY <1>13, TrySendOK, Messages DEF OfferAnswered, SendTo, TypeInv, TypeOK, MessageInHand
  <2>2. QED
    BY <1>13, <2>1 DEF OfferAnswered, TypeInv, TypeOK, MessageInHand, RegistryTyped
<1>14. CASE Leave(c)
  BY <1>0, <1>14 DEF Leave, Unregister, TypeInv, TypeOK, MessageInHand, RegistryTyped, QueuesTyped
<1>15. CASE AnnounceLeft(c)
  <2>1. QueuesTyped'
    BY <1>0, <1>15, TrySendOK, Messages DEF AnnounceLeft, Broadcast, TypeInv, TypeOK, MessageInHand
  <2>2. QED
    BY <1>15, <2>1 DEF AnnounceLeft, TypeInv, TypeOK, MessageInHand, RegistryTyped
<1>16. CASE SfuLeave(c)
  BY <1>16 DEF SfuLeave, TypeInv, TypeOK, MessageInHand, RegistryTyped, QueuesTyped, hubVars
<1>17. QED
  BY <1>1, <1>2, <1>3, <1>4, <1>5, <1>6, <1>7, <1>8, <1>9, <1>10, <1>11, <1>12, <1>13,
     <1>14, <1>15, <1>16 DEF ServeStep, ClientFrame

LEMMA ClientTyped ==
  ASSUME TypeInv, NEW c \in Conns, ClientStep(c)
  PROVE  TypeInv'
<1> USE DEF TypeInv, TypeOK, MessageInHand, RegistryTyped, QueuesTyped, hubVars
<1>1. CASE Disconnect(c) \/ Stall(c) \/ Unstall(c)
  BY <1>1 DEF Disconnect, Stall, Unstall
<1>2. CASE Silence(c)
  <2>1. quiet[c] + 1 \in 0 .. IdleTicks
    BY <1>2, ConnAssumption DEF Silence
  <2>2. QED
    BY <1>2, <2>1 DEF Silence
<1>3. QED
  BY <1>1, <1>2 DEF ClientStep

LEMMA TypeInit == Init => TypeInv
<1>1. <<>> \in Seq(ServerMsg) /\ Len(<<>>) = 0 /\ 0 <= QueueCap /\ 0 \in 0 .. IdleTicks
  BY HubAssumption, ConnAssumption
<1>2. HubInit => RegistryTyped
  BY DEF HubInit, RegistryTyped
<1>3. HubInit => QueuesTyped
  BY <1>1 DEF HubInit, QueuesTyped
<1>4. QED
  BY <1>1, <1>2, <1>3 DEF Init, TypeInv, TypeOK, MessageInHand, PcValues

LEMMA TypeStep == TypeInv /\ [Next]_vars => TypeInv'
<1> SUFFICES ASSUME TypeInv, [Next]_vars PROVE TypeInv'
  OBVIOUS
<1>1. CASE UNCHANGED vars
  BY <1>1 DEF vars, hubVars, TypeInv, TypeOK, MessageInHand, RegistryTyped, QueuesTyped
<1>2. CASE Next
  BY <1>1, <1>2, NextCases, WriteTyped, ServeTyped, ClientTyped
<1>3. QED
  BY <1>1, <1>2

(* Every reachable state is well typed, and no connection's queue ever     *)
(* holds more than OUTBOUND_QUEUE_CAP messages.                            *)
THEOREM TypeCorrect == Spec => []TypeOK
<1>1. TypeInv => TypeOK
  BY DEF TypeInv
<1>2. QED
  BY <1>1, TypeInit, TypeStep, PTL DEF Spec

(* The types of the state, for a leaf that needs nothing else.             *)
LEMMA Typed ==
  TypeInv => /\ owner \in [Pids -> Conns \cup {NoConn}]
             /\ pubkey \in [Pids -> Keys \cup {NoKey}]
             /\ pc \in [Conns -> PcValues]
             /\ held \in [Conns -> ServerMsg \cup {NoMsg}]
             /\ out \in [Conns -> Seq(ServerMsg)]
             /\ listening \subseteq Conns /\ lagged \subseteq Conns
             /\ PidOf \in [Conns -> Pids]
             /\ NoConn \notin Conns
  BY ConnAssumption, HubAssumption DEF TypeInv, TypeOK, RegistryTyped, QueuesTyped

------------------------------------------------------------------------------
(* The registry and the participant table of the SFU, related to where the *)
(* connection tasks are.  Only four actions of a task matter to them: those *)
(* that enter and leave the registry and the SFU.  StepKinds says what     *)
(* every other step may do.                                                *)

(* A step of c that leaves the registry's owners and the SFU alone and     *)
(* takes c neither past nor back before its registration and its cleanup.  *)
Bystander(c) ==
  /\ UNCHANGED <<owner, open, sfuVars>>
  /\ UNCHANGED pubkey \/ \E k \in Keys : Announce(c, k)
  /\ \E l \in PcValues :
       /\ pc' = [pc EXCEPT ![c] = l]
       /\ \/ pc[c] \in Registered /\ l \in Registered
          \/ pc[c] \notin Registered /\ l \notin Registered
          \/ pc[c] = "joining" /\ l = "aborted"
       /\ pc[c] \in Ended => l = pc[c]
       /\ pc[c] \in MediaPcs => l \in MediaPcs

LEMMA StepKinds ==
  ASSUME TypeInv, NEW c \in Conns, WriteStep(c) \/ ServeStep(c) \/ ClientStep(c)
  PROVE  HubJoin(c) \/ Leave(c) \/ SfuJoin(c) \/ SfuLeave(c) \/ Bystander(c)
<1> USE DEF Bystander, PcValues, Registered, MediaPcs, Running, Ended, Goto, hubVars
<1>0. pc \in [Conns -> PcValues]
  BY DEF TypeInv, TypeOK
<1>1. CASE WriteStep(c)
  BY <1>0, <1>1 DEF WriteStep, SendJoined, DrainOut, FinishSend
<1>2. CASE ClientStep(c)
  BY <1>0, <1>2 DEF ClientStep, Disconnect, Stall, Unstall, Silence
<1>3. CASE ServeStep(c)
  <2>1. CASE Refuse(c) \/ SendJoinedFails(c) \/ AnnounceJoin(c) \/ SfuJoinFails(c)
    BY <1>0, <2>1 DEF Refuse, SendJoinedFails, AnnounceJoin, SfuJoinFails
  <2>2. CASE ConnLost(c) \/ CloseWritten(c)
    BY <1>0, <2>2 DEF ConnLost, CloseWritten, ExitLoop
  <2>3. CASE Heartbeat(c) \/ Violation(c)
    BY <1>0, <2>3 DEF Heartbeat, Violation, Inbound, Kick, ExitLoop
  <2>4. CASE WsPing(c) \/ Media(c) \/ Offer(c)
    BY <1>0, <2>4 DEF WsPing, Media, Offer, Inbound
  <2>5. CASE \/ Ping(c) \/ ChatDenied(c) \/ ChatAll(c)
             \/ \E to \in Pids : ChatTo(c, to)
    BY <1>0, <2>5 DEF Ping, ChatDenied, ChatAll, ChatTo
  <2>6. CASE \E k \in Keys : Announce(c, k)
    BY <1>0, <2>6 DEF Announce, Inbound
  <2>7. CASE BroadcastUpdate(c) \/ OfferAnswered(c) \/ AnnounceLeft(c)
    BY <1>0, <2>7 DEF BroadcastUpdate, OfferAnswered, AnnounceLeft
  <2>8. QED
    BY <1>3, <2>1, <2>2, <2>3, <2>4, <2>5, <2>6, <2>7 DEF ServeStep, ClientFrame
<1>4. QED
  BY <1>1, <1>2, <1>3

(* Every step of the system is one of these. *)
LEMMA NextKinds ==
  ASSUME TypeInv, NEW P, [Next]_vars,
         ASSUME NEW c \in Conns, HubJoin(c) PROVE P,
         ASSUME NEW c \in Conns, Leave(c) PROVE P,
         ASSUME NEW c \in Conns, SfuJoin(c) PROVE P,
         ASSUME NEW c \in Conns, SfuLeave(c) PROVE P,
         ASSUME NEW c \in Conns, Bystander(c) PROVE P,
         ASSUME UNCHANGED vars PROVE P
  PROVE  P
<1>1. CASE UNCHANGED vars
  BY <1>1
<1>2. ASSUME NEW c \in Conns, WriteStep(c) \/ ServeStep(c) \/ ClientStep(c)
      PROVE  P
  BY <1>2, StepKinds
<1>3. QED
  BY <1>1, <1>2, NextCases

------------------------------------------------------------------------------
(* The registry names only connections that have their cleanup to come.    *)

LEMMA HubServedStep == TypeInv /\ HubServed /\ [Next]_vars => HubServed'
<1> SUFFICES ASSUME TypeInv, HubServed, [Next]_vars PROVE HubServed'
  OBVIOUS
<1> USE DEF HubServed, Registered
<1>0. /\ owner \in [Pids -> Conns \cup {NoConn}]
      /\ pc \in [Conns -> PcValues]
      /\ PidOf \in [Conns -> Pids]
      /\ NoConn \notin Conns
  BY ConnAssumption, HubAssumption DEF TypeInv, TypeOK, RegistryTyped
<1>1. ASSUME NEW c \in Conns, HubJoin(c) PROVE HubServed'
  BY <1>0, <1>1 DEF HubJoin, Register, Goto
<1>2. ASSUME NEW c \in Conns, Leave(c) PROVE HubServed'
  BY <1>0, <1>2 DEF Leave, Unregister, Goto
<1>3. ASSUME NEW c \in Conns, SfuJoin(c) PROVE HubServed'
  BY <1>0, <1>3 DEF SfuJoin, Goto, hubVars
<1>4. ASSUME NEW c \in Conns, SfuLeave(c) PROVE HubServed'
  BY <1>0, <1>4 DEF SfuLeave, Goto, hubVars
<1>5. ASSUME NEW c \in Conns, Bystander(c) PROVE HubServed'
  BY <1>0, <1>5 DEF Bystander, Ended
<1>6. CASE UNCHANGED vars
  BY <1>6 DEF vars, hubVars
<1>7. QED
  BY <1>1, <1>2, <1>3, <1>4, <1>5, <1>6, NextKinds

(* Whoever the registry names under p is a connection of p that has not    *)
(* run its cleanup, even if connections of p replace one another.          *)
THEOREM HubServedCorrect == Spec => []HubServed
<1>1. Init => HubServed
  BY DEF Init, HubInit, HubServed
<1>2. QED
  BY <1>1, TypeInit, TypeStep, HubServedStep, PTL DEF Spec

------------------------------------------------------------------------------
(* Participants with a single connection.                                  *)

LEMMA LiveRegisteredStep == TypeInv /\ LiveRegistered /\ [Next]_vars => LiveRegistered'
<1> SUFFICES ASSUME TypeInv, LiveRegistered, [Next]_vars PROVE LiveRegistered'
  OBVIOUS
<1> USE DEF LiveRegistered, Registered, Sole
<1>0. /\ owner \in [Pids -> Conns \cup {NoConn}]
      /\ pc \in [Conns -> PcValues]
      /\ PidOf \in [Conns -> Pids]
  BY ConnAssumption DEF TypeInv, TypeOK, RegistryTyped
<1>1. ASSUME NEW c \in Conns, HubJoin(c) PROVE LiveRegistered'
  BY <1>0, <1>1 DEF HubJoin, Register, Goto
<1>2. ASSUME NEW c \in Conns, Leave(c) PROVE LiveRegistered'
  BY <1>0, <1>2 DEF Leave, Unregister, Goto
<1>3. ASSUME NEW c \in Conns, SfuJoin(c) PROVE LiveRegistered'
  BY <1>0, <1>3 DEF SfuJoin, Goto, hubVars
<1>4. ASSUME NEW c \in Conns, SfuLeave(c) PROVE LiveRegistered'
  BY <1>0, <1>4 DEF SfuLeave, Goto, hubVars
<1>5. ASSUME NEW c \in Conns, Bystander(c) PROVE LiveRegistered'
  BY <1>0, <1>5 DEF Bystander, Ended
<1>6. CASE UNCHANGED vars
  BY <1>6 DEF vars, hubVars
<1>7. QED
  BY <1>1, <1>2, <1>3, <1>4, <1>5, <1>6, NextKinds

(* The only connection of a participant stays registered from its join to  *)
(* its own cleanup, whatever the others do.                                *)
THEOREM LiveRegisteredCorrect == Spec => []LiveRegistered
<1>1. Init => LiveRegistered
  BY DEF Init, LiveRegistered, Registered
<1>2. QED
  BY <1>1, TypeInit, TypeStep, LiveRegisteredStep, PTL DEF Spec

(* A key is recorded for a participant only by a connection of its own, and *)
(* by the registered one if it is the only one.                            *)
THEOREM KeyOwnerCorrect == Spec => KeyRecordedByItsOwner
<1> DEFINE ByItsOwner ==
      \A p \in Pids :
        pubkey'[p] \notin {NoKey, pubkey[p]} =>
          \E c \in Conns :
            /\ PidOf[c] = p
            /\ pc[c] = "looping" /\ pc'[c] = "updating"
            /\ Sole(c) => owner[p] = c
<1>1. ASSUME TypeInv, HubServed, [Next]_vars
      PROVE  ByItsOwner
  <2>0. /\ owner \in [Pids -> Conns \cup {NoConn}]
        /\ pubkey \in [Pids -> Keys \cup {NoKey}]
        /\ pc \in [Conns -> PcValues]
        /\ PidOf \in [Conns -> Pids]
    BY <1>1, ConnAssumption DEF TypeInv, TypeOK, RegistryTyped
  <2>1. ASSUME NEW c \in Conns, NEW k \in Keys, Announce(c, k) PROVE ByItsOwner
    <3> SUFFICES ASSUME NEW p \in Pids, pubkey'[p] \notin {NoKey, pubkey[p]}
                 PROVE  /\ PidOf[c] = p
                        /\ pc[c] = "looping" /\ pc'[c] = "updating"
                        /\ Sole(c) => owner[p] = c
      OBVIOUS
    <3>1. SetPubkey(PidOf[c], k) /\ pc' = [pc EXCEPT ![c] = "updating"]
      BY <2>1 DEF Announce, Goto
    <3>2. p = PidOf[c] /\ owner[p] # NoConn
      BY <2>0, <3>1 DEF SetPubkey
    <3>3. PidOf[owner[p]] = p /\ owner[p] \in Conns
      BY <1>1, <2>0, <3>2 DEF HubServed
    <3>4. pc[c] = "looping"
      BY <2>1 DEF Announce, Inbound
    <3>5. QED
      BY <2>0, <3>1, <3>2, <3>3, <3>4 DEF Sole
  <2>2. ASSUME NEW c \in Conns, HubJoin(c) PROVE ByItsOwner
    BY <2>0, <2>2 DEF HubJoin, Register
  <2>3. ASSUME NEW c \in Conns, Leave(c) PROVE ByItsOwner
    BY <2>0, <2>3 DEF Leave, Unregister
  <2>4. CASE UNCHANGED pubkey
    BY <2>4
  <2>5. ASSUME NEW c \in Conns, Bystander(c) PROVE ByItsOwner
    BY <2>1, <2>4, <2>5 DEF Bystander
  <2>6. QED
    BY <1>1, <2>2, <2>3, <2>4, <2>5, NextKinds DEF SfuJoin, SfuLeave, vars, hubVars
<1>2. Init => HubServed
  BY DEF Init, HubInit, HubServed
<1>3. TypeInv /\ HubServed /\ [Next]_vars => [ByItsOwner]_vars
  BY <1>1
<1>4. QED
  BY <1>2, <1>3, TypeInit, TypeStep, HubServedStep, PTL DEF Spec, KeyRecordedByItsOwner

------------------------------------------------------------------------------
(* The room's entry.                                                       *)

LEMMA EmptyRoomStep == TypeInv /\ EmptyRoomDropped /\ [Next]_vars => EmptyRoomDropped'
<1> SUFFICES ASSUME TypeInv, EmptyRoomDropped, [Next]_vars PROVE EmptyRoomDropped'
  OBVIOUS
<1> USE DEF EmptyRoomDropped, Members
<1>0. /\ owner \in [Pids -> Conns \cup {NoConn}]
      /\ open \in BOOLEAN
      /\ PidOf \in [Conns -> Pids]
      /\ NoConn \notin Conns
  BY ConnAssumption, HubAssumption DEF TypeInv, TypeOK, RegistryTyped
<1>1. ASSUME NEW c \in Conns, HubJoin(c) PROVE EmptyRoomDropped'
  BY <1>0, <1>1 DEF HubJoin, Register
<1>2. ASSUME NEW c \in Conns, Leave(c) PROVE EmptyRoomDropped'
  <2>1. Members' = Members \ {PidOf[c]}
    BY <1>0, <1>2 DEF Leave, Unregister
  <2>2. open' = (open /\ Members \ {PidOf[c]} # {})
    BY <1>2 DEF Leave, Unregister
  <2>3. Members \ {PidOf[c]} # {} => open
    BY DEF EmptyRoomDropped
  <2>4. QED
    BY <2>1, <2>2, <2>3
<1>3. CASE UNCHANGED <<owner, open>>
  BY <1>3
<1>4. QED
  BY <1>1, <1>2, <1>3, NextKinds DEF SfuJoin, SfuLeave, Bystander, vars, hubVars

(* The registry never keeps the entry of a room that everybody left, and   *)
(* never drops the entry of a room in which somebody is registered.        *)
THEOREM EmptyRoomCorrect == Spec => []EmptyRoomDropped
<1>1. Init => EmptyRoomDropped
  BY DEF Init, HubInit, EmptyRoomDropped, Members
<1>2. QED
  BY <1>1, TypeInit, TypeStep, EmptyRoomStep, PTL DEF Spec

------------------------------------------------------------------------------
(* The SFU.                                                                *)

(* What a connection did when it entered the SFU is still to be seen in its *)
(* place: it has a cleanup ahead of it, or is over.                        *)
HasJoined == MediaPcs \cup {"closed"}

(* The two halves of SfuServed, for one participant and one connection.    *)
InTable(p) ==
  session[p] # NoConn =>
    PidOf[session[p]] = p /\ pc[session[p]] \in MediaPcs /\ session[p] \in media

Accounted(c) ==
  c \in media =>
    \/ session[PidOf[c]] = c
    \/ \E d \in Conns \ {c} : PidOf[d] = PidOf[c] /\ pc[d] \in HasJoined

SfuInv ==
  /\ \A p \in Pids : InTable(p)
  /\ \A c \in Conns : Accounted(c)
  /\ \A c \in media : pc[c] \in HasJoined

LEMMA SfuStep == TypeInv /\ SfuInv /\ [Next]_vars => SfuInv'
<1> SUFFICES ASSUME TypeInv, SfuInv, [Next]_vars PROVE SfuInv'
  OBVIOUS
<1>0. /\ pc \in [Conns -> PcValues] /\ PidOf \in [Conns -> Pids]
      /\ session \in [Pids -> Conns \cup {NoConn}] /\ media \subseteq Conns
      /\ NoConn \notin Conns
  BY Typed DEF TypeInv, TypeOK
<1> USE DEF SfuInv, InTable, Accounted, HasJoined, MediaPcs, Running, Goto
<1>1. ASSUME NEW c \in Conns, HubJoin(c) PROVE SfuInv'
  BY <1>0, <1>1 DEF HubJoin, sfuVars
<1>2. ASSUME NEW c \in Conns, Leave(c) PROVE SfuInv'
  BY <1>0, <1>2 DEF Leave, sfuVars
<1>3. ASSUME NEW c \in Conns, SfuJoin(c) PROVE SfuInv'
  <2>1. pc[c] = "sfu_joining" /\ pc' = [pc EXCEPT ![c] = "looping"]
    BY <1>3 DEF SfuJoin
  <2>2. CASE UNCHANGED sfuVars
    BY <1>0, <2>1, <2>2 DEF sfuVars
  <2>3. CASE session' = [session EXCEPT ![PidOf[c]] = c] /\ media' = media \cup {c}
    <3>1. \A p \in Pids : InTable(p)'
      BY <1>0, <2>1, <2>3
    <3>2. ASSUME NEW e \in Conns PROVE Accounted(e)'
      BY <1>0, <2>1, <2>3
    <3>3. \A e \in media' : pc'[e] \in HasJoined
      BY <1>0, <2>1, <2>3
    <3>4. QED
      BY <3>1, <3>2, <3>3
  <2>4. QED
    BY <1>3, <2>2, <2>3 DEF SfuJoin
<1>4. ASSUME NEW c \in Conns, SfuLeave(c) PROVE SfuInv'
  <2>1. /\ pc[c] = "sfu_leaving" /\ pc' = [pc EXCEPT ![c] = "closed"]
        /\ session' = [session EXCEPT ![PidOf[c]] = NoConn]
        /\ media' = media \ {session[PidOf[c]]}
    BY <1>4 DEF SfuLeave
  <2>2. \A p \in Pids : InTable(p)'
    BY <1>0, <2>1
  <2>3. ASSUME NEW e \in Conns PROVE Accounted(e)'
    BY <1>0, <2>1
  <2>4. \A e \in media' : pc'[e] \in HasJoined
    BY <1>0, <2>1
  <2>5. QED
    BY <2>2, <2>3, <2>4
<1>5. ASSUME NEW c \in Conns, Bystander(c) PROVE SfuInv'
  BY <1>0, <1>5 DEF Bystander, Ended
<1>6. CASE UNCHANGED vars
  BY <1>6 DEF vars, sfuVars
<1>7. QED
  BY <1>1, <1>2, <1>3, <1>4, <1>5, <1>6, NextKinds

(* However the connections of a participant replace one another and clean  *)
(* up, the SFU's table names only open sessions of connections that will   *)
(* still clean up, and an open session that is not in it has been replaced *)
(* by another connection of its participant.                               *)
THEOREM SfuServedCorrect == Spec => []SfuServed
<1>1. Init => SfuInv
  BY ConnAssumption DEF Init, SfuInv, InTable, Accounted
<1>2. TypeInv /\ SfuInv => SfuServed
  BY DEF TypeInv, TypeOK, SfuInv, InTable, Accounted, HasJoined, SfuServed, Admitted
<1>3. QED
  BY <1>1, <1>2, TypeInit, TypeStep, SfuStep, PTL DEF Spec

CapInv == IsFiniteSet(Admitted) /\ SfuWithinCap

LEMMA CapStep == TypeInv /\ CapInv /\ [Next]_vars => CapInv'
<1> SUFFICES ASSUME TypeInv, CapInv, [Next]_vars PROVE CapInv'
  OBVIOUS
<1> USE DEF CapInv, SfuWithinCap
<1>0. IsFiniteSet(Admitted) /\ Cardinality(Admitted) \in Nat /\ SfuCap \in Nat
  BY ConnAssumption, FS_CardinalityType
<1>t. /\ PidOf \in [Conns -> Pids]
      /\ session \in [Pids -> Conns \cup {NoConn}]
      /\ NoConn \notin Conns
  BY Typed DEF TypeInv, TypeOK
<1>3. CASE UNCHANGED sfuVars
  <2>1. Admitted' = Admitted
    BY <1>3 DEF sfuVars, Admitted
  <2>2. QED
    BY <2>1
<1>1. ASSUME NEW c \in Conns, SfuJoin(c) PROVE CapInv'
  <2>1. CASE Cardinality(Admitted) < SfuCap
    <3>1. Admitted' = Admitted \cup {PidOf[c]}
      BY <1>t, <1>1, <2>1 DEF SfuJoin, SfuAdmits, Admitted
    <3> HIDE DEF CapInv, SfuWithinCap
    <3> DEFINE with == Admitted \cup {PidOf[c]}
    <3>2. /\ IsFiniteSet(with)
          /\ Cardinality(with) =
               IF PidOf[c] \in Admitted THEN Cardinality(Admitted) ELSE Cardinality(Admitted) + 1
      BY ONLY <1>0, FS_AddElement
    <3>3. Cardinality(with) <= SfuCap
      <4> HIDE DEF with
      <4> QED
        BY <1>0, <2>1, <3>2
    <3>4. QED
      BY <3>1, <3>2, <3>3 DEF CapInv, SfuWithinCap
  <2>2. CASE ~(Cardinality(Admitted) < SfuCap)
    BY <1>1, <1>3, <2>2 DEF SfuJoin, SfuAdmits
  <2>3. QED
    BY <2>1, <2>2
<1>2. ASSUME NEW c \in Conns, SfuLeave(c) PROVE CapInv'
  <2>1. IsFiniteSet(Admitted') /\ Cardinality(Admitted') <= Cardinality(Admitted)
    <3>1. Admitted' \subseteq Admitted
      BY <1>t, <1>2 DEF SfuLeave, Admitted
    <3>2. QED
      BY <1>0, <3>1, FS_Subset
  <2>2. Cardinality(Admitted') \in Nat
    BY <2>1, FS_CardinalityType
  <2>3. QED
    BY <1>0, <2>1, <2>2
<1>4. ASSUME NEW c \in Conns, HubJoin(c) PROVE CapInv'
  BY <1>3, <1>4 DEF HubJoin
<1>5. ASSUME NEW c \in Conns, Leave(c) PROVE CapInv'
  BY <1>3, <1>5 DEF Leave
<1>6. ASSUME NEW c \in Conns, Bystander(c) PROVE CapInv'
  BY <1>3, <1>6 DEF Bystander
<1>7. CASE UNCHANGED vars
  BY <1>3, <1>7 DEF vars
<1> HIDE DEF CapInv, SfuWithinCap
<1>8. QED
  BY <1>1, <1>2, <1>4, <1>5, <1>6, <1>7, NextKinds

(* Concurrent joins never take the SFU past its participant cap.           *)
THEOREM SfuCapCorrect == Spec => []SfuWithinCap
<1>1. Init => CapInv
  <2>1. Init => Admitted = {}
    BY DEF Init, Admitted
  <2>2. QED
    BY <2>1, FS_EmptySet, ConnAssumption DEF CapInv, SfuWithinCap
<1>2. CapInv => SfuWithinCap
  BY DEF CapInv
<1>3. QED
  BY <1>1, <1>2, TypeInit, TypeStep, CapStep, PTL DEF Spec

==============================================================================
