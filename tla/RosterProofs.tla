----------------------------- MODULE RosterProofs -----------------------------
(***************************************************************************)
(* The lists of peers of the clients, for every set of connections and     *)
(* participants, every queue capacity and every order of the steps.        *)
(*                                                                         *)
(* Grounds is what relates the registry, the queues and the places of the  *)
(* tasks.  On it rest that the system implements Presence (KeepsPromise),  *)
(* from which follows whom a client shows (RosterAgrees), and from that    *)
(* with which key (KeysAgree).                                             *)
(***************************************************************************)
EXTENDS DeliveryProofs

------------------------------------------------------------------------------
(* The inductive invariant.                                                *)

(* A task that has registered nothing has nothing on its way.              *)
Fresh == \A c \in Conns : pc[c] = "connecting" => out[c] = <<>> /\ roster[c] = <<>>

(* A queue is listened to from the start of a connection to its end.       *)
Hearing == \A c \in Conns : c \in listening <=> pc[c] \notin Deaf

(* A connection whose Joined could not be written stays in the registry.   *)
GhostOwns == \A c \in Conns : Sole(c) /\ pc[c] = "aborted" => owner[PidOf[c]] = c

(* A task between recording a key and broadcasting it has that key in hand. *)
OwnUpdate ==
  \A c \in Conns : pc[c] = "updating" =>
    /\ held[c].type = "PeerUpdated" /\ held[c].peer.pid = PidOf[c]
    /\ Sole(c) => held[c].peer.key = pubkey[PidOf[c]]

(* Nobody has announced a key before its own PeerJoined is broadcast.      *)
Keyless ==
  \A c \in Conns : Sole(c) /\ pc[c] \in {"joining", "announcing"} => pubkey[PidOf[c]] = NoKey

LEMMA FreshStep ==
  ASSUME TypeInv, HubServed, Lists, Fresh, [RosterNext]_rosterVars
  PROVE  Fresh'
<1> USE Typed DEF Fresh, Goto
<1>s. ASSUME NEW S \in SUBSET {owner[p] : p \in Members}, NEW m, TrySend(S, m), UNCHANGED roster,
             \A d \in Conns : pc'[d] = "connecting" => pc[d] = "connecting"
      PROVE  Fresh'
  <2>1. \A d \in Conns : pc[d] = "connecting" => out'[d] = out[d]
    BY <1>s, SentToRegistered DEF Registered
  <2> QED
    BY <1>s, <2>1
<1>1. ASSUME NEW c \in Conns, Calm(c) PROVE Fresh'
  BY <1>1 DEF Calm, CalmMove, Still, Taken, Start, Running
<1>2. ASSUME NEW c \in Conns, Chatter(c) PROVE Fresh'
  <2>1. \A d \in Conns : pc'[d] = "connecting" => pc[d] = "connecting"
    BY <1>2 DEF Chatter
  <2> QED
    BY <1>2, <1>s, <2>1 DEF Chatter
<1>3. ASSUME NEW c \in Conns, Deafening(c) PROVE Fresh'
  BY <1>3 DEF Deafening, DropReceiver
<1>4. ASSUME NEW c \in Conns, Refuse(c), UNCHANGED roster PROVE Fresh'
  BY <1>4 DEF Refuse, DropReceiver
<1>5. ASSUME NEW c \in Conns, HubJoin(c), UNCHANGED roster PROVE Fresh'
  <2>1. \A d \in Conns : pc'[d] = "connecting" => pc[d] = "connecting"
    BY <1>5 DEF HubJoin
  <2>2. PICK S \in SUBSET {owner[q] : q \in Members}, m \in ServerMsg : TrySend(S, m)
    BY <1>5, HubJoinSends
  <2>3. \A d \in Conns : pc[d] = "connecting" => out'[d] = out[d]
    BY <2>2, SentToRegistered DEF Registered
  <2> QED
    BY <1>5, <2>1, <2>3
<1>6. ASSUME NEW c \in Conns,
             AnnounceJoin(c) \/ AnnounceLeft(c) \/ BroadcastUpdate(c), UNCHANGED roster
      PROVE  Fresh'
  <2>1. \A d \in Conns : pc'[d] = "connecting" => pc[d] = "connecting"
    BY <1>6 DEF AnnounceJoin, AnnounceLeft, BroadcastUpdate
  <2>2. PICK S, m : Posts(S, m)
    BY <1>6, AnnounceJoinPosts, AnnounceLeftPosts, UpdatePosts
  <2> QED
    BY <1>6, <1>s, <2>1, <2>2 DEF Posts
<1>7. ASSUME NEW c \in Conns, NEW k \in Keys, Recording(c, k) PROVE Fresh'
  BY <1>7 DEF Recording
<1>8. ASSUME NEW c \in Conns, Leave(c), UNCHANGED roster PROVE Fresh'
  BY <1>8 DEF Leave
<1>9. ASSUME UNCHANGED rosterVars PROVE Fresh'
  BY <1>9 DEF rosterVars, vars, hubVars
<1> HIDE DEF Fresh
<1> QED
  BY <1>1, <1>2, <1>3, <1>4, <1>5, <1>6, <1>7, <1>8, <1>9, RosterKinds

LEMMA ListsStep ==
  ASSUME TypeInv, Lists, [RosterNext]_rosterVars PROVE Lists'
<1>1. ASSUME UNCHANGED roster PROVE Lists'
  BY <1>1 DEF Lists
<1>2. ASSUME NEW c \in Conns, Calm(c) PROVE Lists'
  BY <1>2 DEF Calm
<1>3. ASSUME NEW c \in Conns, Chatter(c) \/ Deafening(c) \/ \E k \in Keys : Recording(c, k)
      PROVE  Lists'
  BY <1>1, <1>3 DEF Chatter, Deafening, Recording
<1>4. ASSUME UNCHANGED rosterVars PROVE Lists'
  BY <1>1, <1>4 DEF rosterVars
<1> QED
  BY <1>1, <1>2, <1>3, <1>4, RosterKinds


LEMMA HearingStep ==
  ASSUME TypeInv, Lists, Hearing, [RosterNext]_rosterVars PROVE Hearing'
<1> USE Typed DEF Hearing, Deaf, Goto, Running
<1>1. ASSUME NEW c \in Conns, Calm(c) PROVE Hearing'
  BY <1>1 DEF Calm, CalmMove
<1>2. ASSUME NEW c \in Conns, Chatter(c) PROVE Hearing'
  BY <1>2 DEF Chatter
<1>3. ASSUME NEW c \in Conns, Deafening(c) PROVE Hearing'
  BY <1>3 DEF Deafening, DropReceiver
<1>4. ASSUME NEW c \in Conns, Refuse(c), UNCHANGED roster PROVE Hearing'
  BY <1>4 DEF Refuse, DropReceiver
<1>5. ASSUME NEW c \in Conns, HubJoin(c), UNCHANGED roster PROVE Hearing'
  BY <1>5 DEF HubJoin
<1>6. ASSUME NEW c \in Conns,
             AnnounceJoin(c) \/ AnnounceLeft(c) \/ BroadcastUpdate(c), UNCHANGED roster
      PROVE  Hearing'
  BY <1>6 DEF AnnounceJoin, AnnounceLeft, BroadcastUpdate
<1>7. ASSUME NEW c \in Conns, NEW k \in Keys, Recording(c, k) PROVE Hearing'
  BY <1>7 DEF Recording
<1>8. ASSUME NEW c \in Conns, Leave(c), UNCHANGED roster PROVE Hearing'
  BY <1>8 DEF Leave
<1>9. ASSUME UNCHANGED rosterVars PROVE Hearing'
  BY <1>9 DEF rosterVars, vars, hubVars
<1> HIDE DEF Hearing
<1> QED
  BY <1>1, <1>2, <1>3, <1>4, <1>5, <1>6, <1>7, <1>8, <1>9, RosterKinds

LEMMA GhostOwnsStep ==
  ASSUME TypeInv, LiveRegistered, Lists, GhostOwns, [RosterNext]_rosterVars PROVE GhostOwns'
<1> USE Typed DEF GhostOwns, LiveRegistered, Sole, Goto, Running
<1>1. ASSUME NEW c \in Conns, Calm(c) PROVE GhostOwns'
  BY <1>1 DEF Calm, CalmMove
<1>2. ASSUME NEW c \in Conns, Chatter(c) PROVE GhostOwns'
  BY <1>2 DEF Chatter
<1>3. ASSUME NEW c \in Conns, Deafening(c) PROVE GhostOwns'
  BY <1>3 DEF Deafening, Registered
<1>4. ASSUME NEW c \in Conns, Refuse(c), UNCHANGED roster PROVE GhostOwns'
  BY <1>4 DEF Refuse
<1>5. ASSUME NEW c \in Conns, HubJoin(c), UNCHANGED roster PROVE GhostOwns'
  BY <1>5 DEF HubJoin, Register
<1>6. ASSUME NEW c \in Conns,
             AnnounceJoin(c) \/ AnnounceLeft(c) \/ BroadcastUpdate(c), UNCHANGED roster
      PROVE  GhostOwns'
  BY <1>6 DEF AnnounceJoin, AnnounceLeft, BroadcastUpdate
<1>7. ASSUME NEW c \in Conns, NEW k \in Keys, Recording(c, k) PROVE GhostOwns'
  BY <1>7 DEF Recording
<1>8. ASSUME NEW c \in Conns, Leave(c), UNCHANGED roster PROVE GhostOwns'
  BY <1>8 DEF Leave, Unregister
<1>9. ASSUME UNCHANGED rosterVars PROVE GhostOwns'
  BY <1>9 DEF rosterVars, vars, hubVars
<1> HIDE DEF GhostOwns
<1> QED
  BY <1>1, <1>2, <1>3, <1>4, <1>5, <1>6, <1>7, <1>8, <1>9, RosterKinds

LEMMA OwnUpdateStep ==
  ASSUME TypeInv, Lists, OwnUpdate, [RosterNext]_rosterVars PROVE OwnUpdate'
<1> USE Typed DEF OwnUpdate, Sole, Goto, Hold, Running
<1>1. ASSUME NEW c \in Conns, Calm(c) PROVE OwnUpdate'
  BY <1>1 DEF Calm, CalmMove
<1>2. ASSUME NEW c \in Conns, Chatter(c) PROVE OwnUpdate'
  BY <1>2 DEF Chatter
<1>3. ASSUME NEW c \in Conns, Deafening(c) PROVE OwnUpdate'
  BY <1>3 DEF Deafening
<1>4. ASSUME NEW c \in Conns, Refuse(c), UNCHANGED roster PROVE OwnUpdate'
  BY <1>4 DEF Refuse
<1>5. ASSUME NEW c \in Conns, HubJoin(c), UNCHANGED roster PROVE OwnUpdate'
  BY <1>5 DEF HubJoin, Register
<1>6. ASSUME NEW c \in Conns,
             AnnounceJoin(c) \/ AnnounceLeft(c) \/ BroadcastUpdate(c), UNCHANGED roster
      PROVE  OwnUpdate'
  BY <1>6 DEF AnnounceJoin, AnnounceLeft, BroadcastUpdate
<1>7. ASSUME NEW c \in Conns, NEW k \in Keys, Recording(c, k) PROVE OwnUpdate'
  BY <1>7 DEF Recording, PeerUpdated
<1>8. ASSUME NEW c \in Conns, Leave(c), UNCHANGED roster PROVE OwnUpdate'
  BY <1>8 DEF Leave, Unregister
<1>9. ASSUME UNCHANGED rosterVars PROVE OwnUpdate'
  BY <1>9 DEF rosterVars, vars, hubVars
<1> HIDE DEF OwnUpdate
<1> QED
  BY <1>1, <1>2, <1>3, <1>4, <1>5, <1>6, <1>7, <1>8, <1>9, RosterKinds

LEMMA KeylessStep ==
  ASSUME TypeInv, Lists, Keyless, [RosterNext]_rosterVars PROVE Keyless'
<1> USE Typed DEF Keyless, Sole, Goto, Running
<1>1. ASSUME NEW c \in Conns, Calm(c) PROVE Keyless'
  BY <1>1 DEF Calm, CalmMove
<1>2. ASSUME NEW c \in Conns, Chatter(c) PROVE Keyless'
  BY <1>2 DEF Chatter
<1>3. ASSUME NEW c \in Conns, Deafening(c) PROVE Keyless'
  BY <1>3 DEF Deafening
<1>4. ASSUME NEW c \in Conns, Refuse(c), UNCHANGED roster PROVE Keyless'
  BY <1>4 DEF Refuse
<1>5. ASSUME NEW c \in Conns, HubJoin(c), UNCHANGED roster PROVE Keyless'
  BY <1>5 DEF HubJoin, Register
<1>6. ASSUME NEW c \in Conns,
             AnnounceJoin(c) \/ AnnounceLeft(c) \/ BroadcastUpdate(c), UNCHANGED roster
      PROVE  Keyless'
  BY <1>6 DEF AnnounceJoin, AnnounceLeft, BroadcastUpdate
<1>7. ASSUME NEW c \in Conns, NEW k \in Keys, Recording(c, k) PROVE Keyless'
  BY <1>7 DEF Recording
<1>8. ASSUME NEW c \in Conns, Leave(c), UNCHANGED roster PROVE Keyless'
  BY <1>8 DEF Leave, Unregister
<1>9. ASSUME UNCHANGED rosterVars PROVE Keyless'
  BY <1>9 DEF rosterVars, vars, hubVars
<1> HIDE DEF Keyless
<1> QED
  BY <1>1, <1>2, <1>3, <1>4, <1>5, <1>6, <1>7, <1>8, <1>9, RosterKinds


Grounds ==
  TypeInv /\ HubServed /\ LiveRegistered /\ Lists /\ Fresh /\ Hearing
  /\ GhostOwns /\ OwnUpdate /\ Keyless

LEMMA GroundsInit == RosterInit => Grounds
<1> SUFFICES ASSUME RosterInit PROVE Grounds
  OBVIOUS
<1>1. TypeInv
  BY TypeInit DEF RosterInit
<1>2. HubServed /\ LiveRegistered
  BY DEF RosterInit, Init, HubInit, HubServed, LiveRegistered, Registered
<1>3. Lists /\ Fresh /\ Hearing /\ GhostOwns /\ OwnUpdate /\ Keyless
  BY DEF RosterInit, Init, HubInit, Lists, Fresh, Hearing, Deaf, GhostOwns, OwnUpdate, Keyless
<1> QED
  BY <1>1, <1>2, <1>3 DEF Grounds

LEMMA GroundsStep == Grounds /\ [RosterNext]_rosterVars => Grounds'
<1> SUFFICES ASSUME Grounds, [RosterNext]_rosterVars PROVE Grounds'
  OBVIOUS
<1> USE DEF Grounds
<1>1. TypeInv' /\ HubServed' /\ LiveRegistered'
  BY RosterSteps, TypeStep, HubServedStep, LiveRegisteredStep
<1>2. Lists' /\ Fresh' /\ Hearing'
  BY ListsStep, FreshStep, HearingStep
<1>3. GhostOwns' /\ OwnUpdate' /\ Keyless'
  BY GhostOwnsStep, OwnUpdateStep, KeylessStep
<1> QED
  BY <1>1, <1>2, <1>3

------------------------------------------------------------------------------
(* No client lists itself.                                                 *)

Mentions(m, p) ==
  \/ m.type = "Joined" /\ \E d \in m.peers : d.pid = p
  \/ m.type = "PeerJoined" /\ m.peer.pid = p

Clean(q, p) == \A n \in 1 .. Len(q) : ~ Mentions(q[n], p)

(* Neither what a client shows nor anything on its way names the client.   *)
Others ==
  \A c \in Conns :
    /\ PidOf[c] \notin DOMAIN roster[c] /\ PidOf[c] \notin DOMAIN Start(c)
    /\ Clean(out[c], PidOf[c])

LEMMA ShownOther ==
  ASSUME NEW peers, NEW p, p \notin DOMAIN peers, NEW m, ~ Mentions(m, p)
  PROVE  p \notin DOMAIN Shown(peers, m)
  BY DEF Shown, Mentions, Listed, Restrict

LEMMA CleanParts ==
  ASSUME NEW q \in Seq(ServerMsg), NEW p, Clean(q, p)
  PROVE  /\ q # <<>> => ~ Mentions(Head(q), p) /\ Clean(Tail(q), p)
         /\ \A m \in ServerMsg : ~ Mentions(m, p) => Clean(Append(q, m), p)
         /\ Clean(<<>>, p)
<1> USE DEF Clean
<1>1. ASSUME q # <<>> PROVE ~ Mentions(Head(q), p) /\ Clean(Tail(q), p)
  <2>1. Len(q) \in Nat /\ Len(q) >= 1 /\ Head(q) = q[1]
    BY <1>1
  <2>2. \A n \in 1 .. Len(Tail(q)) : n + 1 \in 1 .. Len(q) /\ Tail(q)[n] = q[n + 1]
    BY <1>1
  <2> QED
    BY <2>1, <2>2
<1>2. ASSUME NEW m \in ServerMsg, ~ Mentions(m, p) PROVE Clean(Append(q, m), p)
  <2>1. ASSUME NEW n \in 1 .. Len(Append(q, m)) PROVE ~ Mentions(Append(q, m)[n], p)
    <3>1. CASE n = Len(q) + 1
      BY <1>2, <3>1
    <3>2. CASE n # Len(q) + 1
      <4>1. n \in 1 .. Len(q) /\ Append(q, m)[n] = q[n]
        BY <3>2
      <4> QED
        BY <4>1
    <3> QED
      BY <3>1, <3>2
  <2> QED
    BY <2>1
<1>3. Clean(<<>>, p)
  OBVIOUS
<1> QED
  BY <1>1, <1>2, <1>3

LEMMA OthersPosted ==
  ASSUME TypeInv, Others, NEW S, NEW m, Posts(S, m),
         \A d \in S \cap Conns : ~ Mentions(m, PidOf[d])
  PROVE  Others'
<1>1. ASSUME NEW d \in Conns PROVE Clean(out'[d], PidOf[d])
  <2>1. out[d] \in Seq(ServerMsg) /\ Clean(out[d], PidOf[d]) /\ m \in ServerMsg
    BY Typed DEF Others, Posts
  <2>2. CASE d \in S /\ HasRoom(d)
    <3>1. out'[d] = Append(out[d], m)
      BY <2>2 DEF Posts, TrySend
    <3>2. ~ Mentions(m, PidOf[d])
      BY <2>2
    <3> QED
      BY <2>1, <3>1, <3>2, CleanParts
  <2>3. CASE ~(d \in S /\ HasRoom(d))
    <3>1. out'[d] = out[d]
      BY <2>3 DEF Posts, TrySend
    <3> QED
      BY <2>1, <3>1
  <2> QED
    BY <2>2, <2>3
<1>2. \A d \in Conns : PidOf[d] \notin DOMAIN roster'[d] /\ PidOf[d] \notin DOMAIN Start(d)'
  BY DEF Others, Posts
<1> QED
  BY <1>1, <1>2 DEF Others

LEMMA OthersCalm ==
  ASSUME TypeInv, Others, NEW c \in Conns, Calm(c) PROVE Others'
<1>1. ASSUME NEW d \in Conns
      PROVE  PidOf[d] \notin DOMAIN Start(d)' /\ Clean(out'[d], PidOf[d])
  <2>1. out[d] \in Seq(ServerMsg) /\ Clean(out[d], PidOf[d]) /\ PidOf[d] \notin DOMAIN Start(d)
    BY Typed DEF Others
  <2>2. CASE Still(d)
    BY <2>1, <2>2 DEF Still
  <2>3. CASE Taken(d)
    BY <2>1, <2>3, CleanParts, ShownOther DEF Taken
  <2> QED
    BY <2>2, <2>3 DEF Calm
<1>2. \A d \in Conns : PidOf[d] \notin DOMAIN roster'[d]
  BY <1>1 DEF Calm, Others
<1> QED
  BY <1>1, <1>2 DEF Others


(* The snapshot is of everyone but the participant it is for.              *)
LEMMA SnapshotOthers == \A p : ~ Mentions(Joined(PeersOf(p)), p)
  BY DEF Mentions, Joined, PeersOf, Descriptor

LEMMA OwnersDiffer ==
  ASSUME TypeInv, HubServed, NEW p, NEW d \in AllBut(p) \cap Conns
  PROVE  PidOf[d] # p /\ owner[PidOf[d]] = d
<1>1. PICK q \in Members \ {p} : d = owner[q]
  BY DEF AllBut
<1> QED
  BY <1>1 DEF Members, HubServed

LEMMA OthersDropped ==
  ASSUME TypeInv, Others, NEW c \in Conns, DropReceiver(c), UNCHANGED roster,
         \A d \in Conns : Start(d)' \in {Start(d), roster[d]}
  PROVE  Others'
<1>1. \A d \in Conns : out'[d] \in {out[d], <<>>}
  BY Typed DEF DropReceiver
<1>2. \A d \in Conns : Clean(out'[d], PidOf[d])
  BY <1>1 DEF Others, Clean
<1> QED
  BY <1>2 DEF Others

LEMMA OthersStep ==
  ASSUME TypeInv, HubServed, Lists, OwnUpdate, Others, [RosterNext]_rosterVars PROVE Others'
<1> USE Typed
<1>1. ASSUME NEW c \in Conns, Calm(c) PROVE Others'
  BY <1>1, OthersCalm
<1>2. ASSUME NEW c \in Conns, Chatter(c) PROVE Others'
  <2>1. PICK S, m : Plain(m) /\ Posts(S, m)
    BY <1>2, ChatterPosts
  <2>2. \A p : ~ Mentions(m, p)
    BY <2>1 DEF Plain, Mentions
  <2> QED
    BY <2>1, <2>2, OthersPosted
<1>3. ASSUME NEW c \in Conns, Deafening(c) PROVE Others'
  <2>1. \A d \in Conns : Start(d)' \in {Start(d), roster[d]}
    BY <1>3 DEF Deafening, Start, Running
  <2> QED
    BY <1>3, <2>1, OthersDropped DEF Deafening
<1>4. ASSUME NEW c \in Conns, Refuse(c), UNCHANGED roster PROVE Others'
  <2>1. \A d \in Conns : Start(d)' \in {Start(d), roster[d]}
    BY <1>4 DEF Refuse, Goto, Start
  <2> QED
    BY <1>4, <2>1, OthersDropped DEF Refuse
<1>5. ASSUME NEW c \in Conns, HubJoin(c), UNCHANGED roster PROVE Others'
  <2>1. /\ \A d \in Conns \ {c} : Start(d)' = Start(d)
        /\ Start(c)' = Shown(roster[c], Joined(PeersOf(PidOf[c])))
    BY <1>5, HubJoinSends
  <2>2. PICK S \in SUBSET {owner[q] : q \in Members}, m \in ServerMsg : Plain(m) /\ TrySend(S, m)
    BY <1>5, HubJoinSends
  <2>3. \A p : ~ Mentions(m, p)
    BY <2>2 DEF Plain, Mentions
  <2>4. \A d \in Conns : out'[d] \in {out[d], Append(out[d], m)}
    BY <2>2 DEF TrySend
  <2>5. ASSUME NEW d \in Conns PROVE Clean(out'[d], PidOf[d])
    <3>1. out[d] \in Seq(ServerMsg) /\ Clean(out[d], PidOf[d])
      BY DEF Others
    <3>2. Clean(Append(out[d], m), PidOf[d])
      BY <2>3, <3>1, CleanParts
    <3> QED
      BY <2>4, <3>1, <3>2
  <2>6. PidOf[c] \notin DOMAIN Start(c)'
    BY <2>1, SnapshotOthers, ShownOther DEF Others
  <2> QED
    BY <1>5, <2>1, <2>5, <2>6 DEF Others
<1>6. ASSUME NEW c \in Conns, AnnounceJoin(c), UNCHANGED roster PROVE Others'
  <2> DEFINE m == PeerJoined([pid |-> PidOf[c], key |-> NoKey])
  <2>1. Posts(AllBut(PidOf[c]), m)
    BY <1>6, AnnounceJoinPosts
  <2>2. \A d \in AllBut(PidOf[c]) \cap Conns : ~ Mentions(m, PidOf[d])
    BY OwnersDiffer DEF Mentions, PeerJoined
  <2> QED
    BY <2>1, <2>2, OthersPosted
<1>7. ASSUME NEW c \in Conns, AnnounceLeft(c), UNCHANGED roster PROVE Others'
  <2>1. Posts(AllBut(PidOf[c]), PeerLeft(PidOf[c]))
    BY <1>7, AnnounceLeftPosts
  <2>2. \A p : ~ Mentions(PeerLeft(PidOf[c]), p)
    BY DEF Mentions, PeerLeft
  <2> QED
    BY <2>1, <2>2, OthersPosted
<1>8. ASSUME NEW c \in Conns, BroadcastUpdate(c), UNCHANGED roster PROVE Others'
  <2>1. Posts(AllBut(NoPid), held[c])
    BY <1>8, UpdatePosts
  <2>2. \A p : ~ Mentions(held[c], p)
    BY <1>8 DEF Mentions, OwnUpdate, BroadcastUpdate
  <2> QED
    BY <2>1, <2>2, OthersPosted
<1>9. ASSUME NEW c \in Conns, NEW k \in Keys, Recording(c, k) PROVE Others'
  BY <1>9 DEF Recording, Start, Others
<1>10. ASSUME NEW c \in Conns, Leave(c), UNCHANGED roster PROVE Others'
  BY <1>10 DEF Leave, Goto, Start, Others
<1>11. ASSUME UNCHANGED rosterVars PROVE Others'
  BY <1>11 DEF rosterVars, vars, hubVars, Start, Others
<1> QED
  BY <1>1, <1>2, <1>3, <1>4, <1>5, <1>6, <1>7, <1>8, <1>9, <1>10, <1>11, RosterKinds


------------------------------------------------------------------------------
(* The connections that are the only ones of their participant, as the     *)
(* clients of Presence.                                                    *)

P == INSTANCE PresenceProofs
  WITH Clients <- Soles,
       stage <- [c \in Soles |-> Stage(c)], view <- [c \in Soles |-> View(c)],
       hearing <- Soles \cap listening, missed <- Soles \cap lagged

LEMMA SoleFacts ==
  ASSUME Grounds, NEW c \in Soles
  PROVE  /\ c \in Conns
         /\ \A d \in Conns : PidOf[d] = PidOf[c] => d = c
         /\ owner[PidOf[c]] \in {c, NoConn}
         /\ owner[PidOf[c]] = c <=> Stage(c) \in {"inside", "announced"}
<1> USE Typed DEF Grounds, Soles, Sole
<1>1. c \in Conns /\ \A d \in Conns : PidOf[d] = PidOf[c] => d = c
  OBVIOUS
<1>2. owner[PidOf[c]] # NoConn => owner[PidOf[c]] = c /\ pc[c] \in Registered \cup {"aborted"}
  BY <1>1 DEF HubServed
<1>3. pc[c] \in Registered \cup {"aborted"} => owner[PidOf[c]] = c
  BY <1>1 DEF LiveRegistered, GhostOwns
<1>4. Stage(c) \in {"inside", "announced"} <=> pc[c] \in Registered \cup {"aborted"}
  BY <1>1 DEF Stage, Registered, PcValues
<1>5. c # NoConn
  BY <1>1
<1> HIDE DEF Grounds
<1> QED
  BY <1>1, <1>2, <1>3, <1>4, <1>5

LEMMA PresentIs ==
  ASSUME Grounds
  PROVE  /\ Promise!Present = {c \in Soles : Stage(c) \in {"inside", "announced"}}
         /\ Promise!Present = {c \in Soles : owner[PidOf[c]] = c}
<1>1. Promise!Present = {c \in Soles : Stage(c) \in {"inside", "announced"}}
  BY DEF Promise!Present
<1>2. \A c \in Soles : owner[PidOf[c]] = c <=> Stage(c) \in {"inside", "announced"}
  BY SoleFacts
<1> QED
  BY <1>1, <1>2

(* Those a message is lost on.                                             *)
Slow(S) == {c \in S \cap Soles \cap listening : ~ HasRoom(c)}

LEMMA MissedSent ==
  ASSUME TypeInv, NEW S, NEW m, TrySend(S, m)
  PROVE  (Soles \cap lagged)' = (Soles \cap lagged) \cup Slow(S)
<1>1. \A c \in Conns : Len(out[c]) \in Nat /\ QueueCap \in Nat
  BY Typed, HubAssumption
<1>2. lagged' = lagged \cup {c \in S \cap listening : Len(out[c]) >= QueueCap}
  BY DEF TrySend
<1>3. Slow(S) = Soles \cap {c \in S \cap listening : Len(out[c]) >= QueueCap}
  BY <1>1, Typed DEF Slow, HasRoom
<1> QED
  BY <1>2, <1>3 DEF Soles, Sole

LEMMA SlowPresent ==
  ASSUME Grounds, NEW S \in SUBSET {owner[p] : p \in Members}
  PROVE  Slow(S) \in SUBSET (Promise!Present \cap (Soles \cap listening))
<1> SUFFICES ASSUME NEW c \in Slow(S) PROVE c \in Promise!Present /\ c \in Soles \cap listening
  OBVIOUS
<1>1. c \in S /\ c \in Soles /\ c \in listening
  BY DEF Slow
<1>2. PICK p \in Members : c = owner[p]
  BY <1>1
<1>3. owner[PidOf[c]] = c
  BY <1>2 DEF Members, HubServed, Grounds
<1> QED
  BY <1>1, <1>3, PresentIs

LEMMA ViewPosted ==
  ASSUME TypeInv, TypeInv', NEW S, NEW m, Posts(S, m), UNCHANGED listening
  PROVE  \A c \in Soles :
           View(c)' = IF c \in (S \cap Soles \cap listening) \ Slow(S)
                        THEN {d \in Soles : PidOf[d] \in DOMAIN Shown(Prospect(c), m)}
                        ELSE View(c)
<1> SUFFICES ASSUME NEW c \in Soles
             PROVE  View(c)' = IF c \in (S \cap Soles \cap listening) \ Slow(S)
                        THEN {d \in Soles : PidOf[d] \in DOMAIN Shown(Prospect(c), m)}
                        ELSE View(c)
  OBVIOUS
<1>1. c \in Conns
  BY DEF Soles
<1>2. Prospect(c)' = IF c \in S /\ HasRoom(c) THEN Shown(Prospect(c), m) ELSE Prospect(c)
  BY <1>1, ProspectSent DEF Posts
<1>3. View(c)' = {d \in Soles : c \in listening /\ PidOf[d] \in DOMAIN (Prospect(c)')}
  BY DEF View, Soles, Sole
<1>4. (c \in (S \cap Soles \cap listening) \ Slow(S)) <=> (c \in S /\ HasRoom(c))
  BY DEF Slow, HasRoom
<1>5. CASE c \in S /\ HasRoom(c)
  BY <1>2, <1>3, <1>4, <1>5 DEF HasRoom
<1>6. CASE ~(c \in S /\ HasRoom(c))
  BY <1>2, <1>3, <1>4, <1>6 DEF View
<1> QED
  BY <1>5, <1>6

LEMMA ViewSame ==
  ASSUME NEW c, Prospect(c)' = Prospect(c), (c \in listening)' = (c \in listening)
  PROVE  View(c)' = View(c)
  BY DEF View, Soles, Sole

LEMMA StageSame ==
  ASSUME NEW c \in Conns, pc'[c] = pc[c] PROVE Stage(c)' = Stage(c)
  BY DEF Stage


------------------------------------------------------------------------------
(* Every step is one of Presence, or one that Presence does not see.       *)

LEMMA Stutters ==
  ASSUME \A x \in Soles : Stage(x)' = Stage(x) /\ View(x)' = View(x),
         UNCHANGED <<listening, lagged>>
  PROVE  UNCHANGED Promise!presenceVars
  BY DEF Promise!presenceVars, Soles, Sole

LEMMA CalmStutters ==
  ASSUME TypeInv, TypeInv', NEW c \in Conns, Calm(c)
  PROVE  UNCHANGED Promise!presenceVars
<1>1. UNCHANGED <<listening, lagged>>
  BY DEF Calm
<1>2. \A x \in Soles : View(x)' = View(x)
  BY <1>1, ProspectCalm, ViewSame DEF Soles
<1>3. \A x \in Conns : Stage(x)' = Stage(x)
  BY Typed DEF Calm, CalmMove, Running, Stage
<1> QED
  BY <1>1, <1>2, <1>3, Stutters DEF Soles

LEMMA RecordingStutters ==
  ASSUME TypeInv, TypeInv', NEW c \in Conns, NEW k \in Keys, Recording(c, k)
  PROVE  UNCHANGED Promise!presenceVars
<1>1. UNCHANGED <<listening, lagged>>
  BY DEF Recording
<1>2. \A x \in Conns : Still(x)
  BY Typed DEF Recording, Still, Start
<1>3. \A x \in Soles : View(x)' = View(x)
  BY <1>1, <1>2, ProspectStill, ViewSame DEF Soles
<1>4. \A x \in Conns : Stage(x)' = Stage(x)
  BY Typed DEF Recording, Stage
<1> QED
  BY <1>1, <1>3, <1>4, Stutters DEF Soles

(* A message that changes nobody's list is at most lost.                   *)
LEMMA Overflows ==
  ASSUME Grounds, NEW S \in SUBSET {owner[p] : p \in Members}, NEW m, TrySend(S, m),
         UNCHANGED listening,
         \A x \in Soles : Stage(x)' = Stage(x) /\ View(x)' = View(x)
  PROVE  Promise!Overflow
<1>1. Slow(S) \in SUBSET (Promise!Present \cap (Soles \cap listening))
  BY SlowPresent
<1>2. (Soles \cap lagged)' = (Soles \cap lagged) \cup Slow(S)
  BY MissedSent DEF Grounds
<1>3. [x \in Soles |-> Stage(x)]' = [x \in Soles |-> Stage(x)]
  BY DEF Soles, Sole
<1>4. [x \in Soles |-> View(x)]' = [x \in Soles |-> View(x)]
  BY DEF Soles, Sole
<1>5. (Soles \cap listening)' = Soles \cap listening
  BY DEF Soles, Sole
<1> QED
  BY <1>1, <1>2, <1>3, <1>4, <1>5 DEF Promise!Overflow

LEMMA ViewPlain ==
  ASSUME TypeInv, TypeInv', NEW S, NEW m, Posts(S, m), UNCHANGED listening,
         \A c \in Soles : c \in S =>
           \A d \in Soles : (PidOf[d] \in DOMAIN Shown(Prospect(c), m)) = (PidOf[d] \in DOMAIN Prospect(c))
  PROVE  \A c \in Soles : View(c)' = View(c)
<1> SUFFICES ASSUME NEW c \in Soles PROVE View(c)' = View(c)
  OBVIOUS
<1>1. CASE c \in (S \cap Soles \cap listening) \ Slow(S)
  <2>1. View(c)' = {d \in Soles : PidOf[d] \in DOMAIN Shown(Prospect(c), m)}
    BY <1>1, ViewPosted
  <2>2. View(c) = {d \in Soles : PidOf[d] \in DOMAIN Prospect(c)}
    BY <1>1 DEF View
  <2> QED
    BY <1>1, <2>1, <2>2
<1>2. CASE ~(c \in (S \cap Soles \cap listening) \ Slow(S))
  BY <1>2, ViewPosted
<1> QED
  BY <1>1, <1>2

LEMMA ChatterOverflows ==
  ASSUME Grounds, TypeInv', NEW c \in Conns, Chatter(c) PROVE Promise!Overflow
<1>1. PICK S, m : Plain(m) /\ Posts(S, m)
  BY ChatterPosts DEF Grounds
<1>2. UNCHANGED listening
  BY DEF Chatter
<1>3. \A x \in Soles : View(x)' = View(x)
  BY <1>1, <1>2, ViewPlain, ShownPlain DEF Grounds
<1>4. \A x \in Conns : Stage(x)' = Stage(x)
  BY Typed DEF Chatter, Stage, Grounds
<1> QED
  BY <1>1, <1>2, <1>3, <1>4, Overflows DEF Posts, Soles

LEMMA UpdateOverflows ==
  ASSUME Grounds, TypeInv', NEW c \in Conns, BroadcastUpdate(c), UNCHANGED roster
  PROVE  Promise!Overflow
<1>1. Posts(AllBut(NoPid), held[c])
  BY UpdatePosts DEF Grounds
<1>2. UNCHANGED listening
  BY DEF BroadcastUpdate
<1>3. \A peers : DOMAIN Shown(peers, held[c]) = DOMAIN peers
  BY ShownPeerUpdated DEF BroadcastUpdate, Grounds, OwnUpdate
<1>4. \A x \in Soles : View(x)' = View(x)
  BY <1>1, <1>2, <1>3, ViewPlain DEF Grounds
<1>5. \A x \in Conns : Stage(x)' = Stage(x)
  BY Typed DEF BroadcastUpdate, Goto, Stage, Grounds
<1> QED
  BY <1>1, <1>2, <1>4, <1>5, Overflows DEF Posts, Soles

(* A list changes only by the participant that arrives or leaves.          *)
LEMMA StrangerUnseen ==
  ASSUME NEW c \in Conns \ Soles, NEW d \in Soles PROVE PidOf[d] # PidOf[c]
  BY DEF Soles, Sole

LEMMA AudienceIs ==
  ASSUME Grounds, NEW d \in Soles
  PROVE  AllBut(PidOf[d]) \cap Soles \cap listening = Promise!Audience(d)
<1>1. ASSUME NEW c \in Soles
      PROVE  c \in AllBut(PidOf[d]) <=> owner[PidOf[c]] = c /\ c # d
  <2>1. c \in Conns /\ PidOf[c] \in Pids /\ c # NoConn
    BY Typed DEF Grounds, Soles
  <2>2. ASSUME c \in AllBut(PidOf[d]) PROVE owner[PidOf[c]] = c /\ c # d
    BY <2>1, <2>2, OwnersDiffer DEF Grounds
  <2>3. ASSUME owner[PidOf[c]] = c, c # d PROVE c \in AllBut(PidOf[d])
    <3>1. PidOf[c] # PidOf[d]
      BY <2>1, <2>3, SoleFacts
    <3>2. PidOf[c] \in Members \ {PidOf[d]}
      BY <2>1, <2>3, <3>1 DEF Members
    <3> QED
      BY <2>3, <3>2 DEF AllBut
  <2> QED
    BY <2>2, <2>3
<1> QED
  BY <1>1, PresentIs DEF Promise!Audience


LEMMA MovesTo ==
  ASSUME NEW c \in Soles, NEW s, Stage(c)' = s, \A x \in Soles \ {c} : Stage(x)' = Stage(x)
  PROVE  Promise!Move(c, s)
  BY DEF Promise!Move, Soles, Sole

LEMMA JoinAppears ==
  ASSUME Grounds, TypeInv', NEW c \in Soles, AnnounceJoin(c), UNCHANGED roster
  PROVE  Promise!Appear(c)
<1> DEFINE m == PeerJoined([pid |-> PidOf[c], key |-> NoKey])
           S == AllBut(PidOf[c])
<1>0. c \in Conns /\ Posts(S, m) /\ UNCHANGED listening
  BY AnnounceJoinPosts DEF Grounds, Soles, AnnounceJoin
<1>1. Stage(c) = "inside" /\ c \in Soles \cap listening
  BY <1>0 DEF AnnounceJoin, Stage, Grounds, Hearing, Deaf
<1>2. Promise!Move(c, "announced")
  <2>1. Stage(c)' = "announced"
    BY <1>0, Typed DEF AnnounceJoin, Goto, Stage, Grounds
  <2>2. \A x \in Soles \ {c} : Stage(x)' = Stage(x)
    BY <1>0, Typed, StageSame DEF AnnounceJoin, Goto, Grounds, Soles
  <2> QED
    BY <2>1, <2>2, MovesTo
<1>3. \A x \in Soles :
        View(x)' = IF x \in Promise!Audience(c) \ Slow(S) THEN View(x) \cup {c} ELSE View(x)
  <2>1. ASSUME NEW x \in Soles, x \in Promise!Audience(c) \ Slow(S)
        PROVE  View(x)' = View(x) \cup {c}
    <3>1. x \in (S \cap Soles \cap listening) \ Slow(S)
      BY <2>1, AudienceIs
    <3>2. View(x)' = {d \in Soles : PidOf[d] \in DOMAIN Shown(Prospect(x), m)}
      BY <1>0, <3>1, ViewPosted DEF Grounds
    <3>3. DOMAIN Shown(Prospect(x), m) = DOMAIN Prospect(x) \cup {PidOf[c]}
      BY ShownDomains
    <3>4. \A d \in Soles : PidOf[d] = PidOf[c] <=> d = c
      BY DEF Soles, Sole
    <3>5. View(x) = {d \in Soles : PidOf[d] \in DOMAIN Prospect(x)}
      BY <3>1 DEF View
    <3> QED
      BY <3>2, <3>3, <3>4, <3>5
  <2>2. ASSUME NEW x \in Soles, x \notin Promise!Audience(c) \ Slow(S)
        PROVE  View(x)' = View(x)
    BY <1>0, <2>2, AudienceIs, ViewPosted DEF Grounds
  <2> QED
    BY <2>1, <2>2
<1>4. Slow(S) \in SUBSET Promise!Audience(c)
  BY AudienceIs DEF Slow
<1>5. (Soles \cap lagged)' = (Soles \cap lagged) \cup Slow(S)
  BY <1>0, MissedSent DEF Posts, Grounds
<1>6. [x \in Soles |-> View(x)]' =
        [x \in Soles |-> IF x \in Promise!Audience(c) \ Slow(S)
                           THEN [y \in Soles |-> View(y)][x] \cup {c}
                           ELSE [y \in Soles |-> View(y)][x]]
  BY <1>3 DEF Soles, Sole
<1>7. (Soles \cap listening)' = Soles \cap listening
  BY <1>0 DEF Soles, Sole
<1>8. [x \in Soles |-> Stage(x)][c] = "inside"
  BY <1>1
<1> HIDE DEF m, S
<1> QED
  BY <1>1, <1>2, <1>4, <1>5, <1>6, <1>7, <1>8 DEF Promise!Appear, Promise!Tell

LEMMA LeftVanishes ==
  ASSUME Grounds, TypeInv', NEW c \in Soles, AnnounceLeft(c), UNCHANGED roster
  PROVE  Promise!Vanish(c)
<1> DEFINE m == PeerLeft(PidOf[c])
           S == AllBut(PidOf[c])
<1>0. c \in Conns /\ Posts(S, m) /\ UNCHANGED listening
  BY AnnounceLeftPosts DEF Grounds, Soles, AnnounceLeft
<1>1. Stage(c) = "leaving"
  BY <1>0 DEF AnnounceLeft, Stage
<1>2. Promise!Move(c, "gone")
  <2>1. Stage(c)' = "gone"
    BY <1>0, Typed DEF AnnounceLeft, Goto, Stage, Grounds
  <2>2. \A x \in Soles \ {c} : Stage(x)' = Stage(x)
    BY <1>0, Typed, StageSame DEF AnnounceLeft, Goto, Grounds, Soles
  <2> QED
    BY <2>1, <2>2, MovesTo
<1>3. \A x \in Soles :
        View(x)' = IF x \in Promise!Audience(c) \ Slow(S) THEN View(x) \ {c} ELSE View(x)
  <2>1. ASSUME NEW x \in Soles, x \in Promise!Audience(c) \ Slow(S)
        PROVE  View(x)' = View(x) \ {c}
    <3>1. x \in (S \cap Soles \cap listening) \ Slow(S)
      BY <2>1, AudienceIs
    <3>2. View(x)' = {d \in Soles : PidOf[d] \in DOMAIN Shown(Prospect(x), m)}
      BY <1>0, <3>1, ViewPosted DEF Grounds
    <3>3. DOMAIN Shown(Prospect(x), m) = DOMAIN Prospect(x) \ {PidOf[c]}
      BY ShownDomains
    <3>4. \A d \in Soles : PidOf[d] = PidOf[c] <=> d = c
      BY DEF Soles, Sole
    <3>5. View(x) = {d \in Soles : PidOf[d] \in DOMAIN Prospect(x)}
      BY <3>1 DEF View
    <3> QED
      BY <3>2, <3>3, <3>4, <3>5
  <2>2. ASSUME NEW x \in Soles, x \notin Promise!Audience(c) \ Slow(S)
        PROVE  View(x)' = View(x)
    BY <1>0, <2>2, AudienceIs, ViewPosted DEF Grounds
  <2> QED
    BY <2>1, <2>2
<1>4. Slow(S) \in SUBSET Promise!Audience(c)
  BY AudienceIs DEF Slow
<1>5. (Soles \cap lagged)' = (Soles \cap lagged) \cup Slow(S)
  BY <1>0, MissedSent DEF Posts, Grounds
<1>6. [x \in Soles |-> View(x)]' =
        [x \in Soles |-> IF x \in Promise!Audience(c) \ Slow(S)
                           THEN [y \in Soles |-> View(y)][x] \ {c}
                           ELSE [y \in Soles |-> View(y)][x]]
  BY <1>3 DEF Soles, Sole
<1>7. (Soles \cap listening)' = Soles \cap listening
  BY <1>0 DEF Soles, Sole
<1>8. [x \in Soles |-> Stage(x)][c] = "leaving"
  BY <1>1
<1> HIDE DEF m, S
<1> QED
  BY <1>2, <1>4, <1>5, <1>6, <1>7, <1>8 DEF Promise!Vanish, Promise!Tell

(* The arrivals and departures of the others move nothing but queues.      *)
LEMMA StrangerAnnounced ==
  ASSUME Grounds, TypeInv', NEW c \in Conns \ Soles,
         AnnounceJoin(c) \/ AnnounceLeft(c), UNCHANGED roster
  PROVE  Promise!Overflow
<1>1. UNCHANGED listening /\ \A x \in Soles : pc'[x] = pc[x]
  BY Typed DEF AnnounceJoin, AnnounceLeft, Goto, Grounds, Soles
<1>2. PICK S, m :
        /\ Posts(S, m)
        /\ m \in {PeerJoined([pid |-> PidOf[c], key |-> NoKey]), PeerLeft(PidOf[c])}
  BY AnnounceJoinPosts, AnnounceLeftPosts DEF Grounds
<1>3. ASSUME NEW peers, NEW x \in Soles
      PROVE  (PidOf[x] \in DOMAIN Shown(peers, m)) = (PidOf[x] \in DOMAIN peers)
  <2>1. PidOf[x] # PidOf[c]
    BY StrangerUnseen
  <2>2. CASE m = PeerJoined([pid |-> PidOf[c], key |-> NoKey])
    <3>1. DOMAIN Shown(peers, m) = DOMAIN peers \cup {PidOf[c]}
      BY <2>2, ShownDomains
    <3> QED
      BY <2>1, <3>1
  <2>3. CASE m = PeerLeft(PidOf[c])
    <3>1. DOMAIN Shown(peers, m) = DOMAIN peers \ {PidOf[c]}
      BY <2>3, ShownDomains
    <3> QED
      BY <2>1, <3>1
  <2> QED
    BY <1>2, <2>2, <2>3
<1>4. \A x \in Soles : View(x)' = View(x)
  BY <1>1, <1>2, <1>3, ViewPlain DEF Grounds
<1>5. \A x \in Soles : Stage(x)' = Stage(x)
  BY <1>1, StageSame DEF Soles
<1> QED
  BY <1>1, <1>2, <1>4, <1>5, Overflows DEF Posts


LEMMA JoinUnseen ==
  ASSUME Grounds, TypeInv', NEW c \in Conns, HubJoin(c), UNCHANGED roster
  PROVE  /\ \A x \in Soles : out'[x] = out[x]
         /\ \A x \in Soles \ {c} : Stage(x)' = Stage(x) /\ View(x)' = View(x)
         /\ (Soles \cap lagged)' = Soles \cap lagged
         /\ UNCHANGED listening
<1>1. PICK S \in SUBSET {owner[q] : q \in Members}, m \in ServerMsg :
        Plain(m) /\ TrySend(S, m) /\ \A d \in S : d = owner[PidOf[c]]
  BY HubJoinSends DEF Grounds
<1>2. pc[c] = "connecting" /\ UNCHANGED listening
  BY DEF HubJoin
<1>3. \A x \in Soles : x \notin S
  <2>1. SUFFICES ASSUME NEW x \in Soles, x \in S PROVE FALSE
    OBVIOUS
  <2>2. x = owner[PidOf[c]] /\ x \in Conns /\ x # NoConn /\ PidOf[c] \in Pids
    BY <1>1, <2>1, Typed DEF Grounds, Soles
  <2>3. PidOf[x] = PidOf[c] /\ pc[x] \in Registered \cup {"aborted"}
    BY <2>2 DEF Grounds, HubServed
  <2>4. x = c
    BY <2>3, SoleFacts
  <2> QED
    BY <1>2, <2>3, <2>4 DEF Registered
<1>4. \A x \in Soles : out'[x] = out[x]
  <2>1. \A x \in Conns : x \notin S => out'[x] = out[x]
    BY <1>1 DEF TrySend
  <2>2. Soles \subseteq Conns
    BY DEF Soles
  <2> QED
    BY <1>3, <2>1, <2>2
<1>5. (Soles \cap lagged)' = Soles \cap lagged
  <2>1. Slow(S) = {}
    BY <1>3 DEF Slow
  <2> QED
    BY <1>1, <2>1, MissedSent DEF Grounds
<1>6. \A x \in Soles \ {c} : Stage(x)' = Stage(x)
  BY Typed, StageSame DEF HubJoin, Goto, Grounds, Soles
<1>7. \A x \in Soles \ {c} : Still(x) /\ x \in Conns
  BY <1>4, HubJoinSends DEF Grounds, Still, Soles
<1>8. \A x \in Soles \ {c} : View(x)' = View(x)
  BY <1>2, <1>7, ProspectStill, ViewSame DEF Grounds
<1> QED
  BY <1>2, <1>4, <1>5, <1>6, <1>8

LEMMA JoinEnters ==
  ASSUME Grounds, TypeInv', NEW c \in Soles, HubJoin(c), UNCHANGED roster
  PROVE  Promise!Enter(c)
<1>0. c \in Conns /\ pc[c] = "connecting" /\ c \in listening /\ out[c] = <<>> /\ out'[c] = out[c]
  BY JoinUnseen DEF HubJoin, Grounds, Hearing, Deaf, Fresh, Soles
<1>1. Stage(c) = "outside" /\ Stage(c)' = "inside"
  BY <1>0, Typed DEF HubJoin, Goto, Stage, Grounds
<1>2. Promise!Move(c, "inside")
  BY <1>1, JoinUnseen, MovesTo, <1>0
<1>3. View(c)' = Promise!Present
  <2>1. Prospect(c)' = Told(Start(c)', out'[c])
    BY <1>0, ProspectNext
  <2>2. Prospect(c)' = Shown(roster[c], Joined(PeersOf(PidOf[c])))
    BY <1>0, <2>1, ToldNothing, HubJoinSends DEF Grounds
  <2>3. View(c)' = {d \in Soles : PidOf[d] \in Members \ {PidOf[c]}}
    <3>1. View(c)' = {d \in Soles : c \in listening' /\ PidOf[d] \in DOMAIN (Prospect(c)')}
      BY DEF View, Soles, Sole
    <3>2. DOMAIN (Prospect(c)') = Members \ {PidOf[c]}
      BY <2>2, SnapshotDomain
    <3>3. c \in listening'
      BY <1>0, JoinUnseen
    <3> QED
      BY <3>1, <3>2, <3>3
  <2>4. ASSUME NEW d \in Soles
        PROVE  PidOf[d] \in Members \ {PidOf[c]} <=> owner[PidOf[d]] = d
    <3>1. /\ d \in Conns /\ PidOf[d] \in Pids /\ d # NoConn
          /\ owner[PidOf[d]] \in {d, NoConn}
      BY Typed, SoleFacts DEF Grounds
    <3>2. owner[PidOf[c]] # c
      BY <1>1, SoleFacts
    <3>3. PidOf[d] = PidOf[c] => d = c
      BY <3>1, SoleFacts
    <3> QED
      BY <3>1, <3>2, <3>3 DEF Members
  <2> QED
    BY <2>3, <2>4, PresentIs
<1>4. [x \in Soles |-> View(x)]' = [[x \in Soles |-> View(x)] EXCEPT ![c] = Promise!Present]
  BY <1>0, <1>3, JoinUnseen DEF Soles, Sole
<1>5. (Soles \cap lagged)' = Soles \cap lagged /\ (Soles \cap listening)' = Soles \cap listening
  BY <1>0, JoinUnseen DEF Soles, Sole
<1>6. [x \in Soles |-> Stage(x)][c] = "outside"
  BY <1>1
<1> QED
  BY <1>2, <1>4, <1>5, <1>6 DEF Promise!Enter

LEMMA StrangerJoins ==
  ASSUME Grounds, TypeInv', NEW c \in Conns \ Soles, HubJoin(c), UNCHANGED roster
  PROVE  UNCHANGED Promise!presenceVars
<1>1. \A x \in Soles : Stage(x)' = Stage(x) /\ View(x)' = View(x)
  BY JoinUnseen
<1>2. (Soles \cap lagged)' = Soles \cap lagged /\ (Soles \cap listening)' = Soles \cap listening
  BY JoinUnseen DEF Soles, Sole
<1> QED
  BY <1>1, <1>2 DEF Promise!presenceVars, Soles, Sole

(* The end of a connection, as the others see it.                          *)
LEMMA DroppedUnseen ==
  ASSUME Grounds, TypeInv', NEW c \in Conns, DropReceiver(c), UNCHANGED <<lagged, roster>>,
         \A d \in Conns \ {c} : pc'[d] = pc[d] /\ held'[d] = held[d]
  PROVE  /\ \A x \in Soles \ {c} : Stage(x)' = Stage(x) /\ View(x)' = View(x)
         /\ View(c)' = {}
         /\ (Soles \cap lagged)' = Soles \cap lagged
         /\ (Soles \cap listening)' = (Soles \cap listening) \ {c}
<1>1. listening' = listening \ {c} /\ \A d \in Conns \ {c} : out'[d] = out[d]
  BY Typed DEF DropReceiver, Grounds
<1>2. \A x \in Conns \ {c} : Still(x)
  BY <1>1 DEF Still, Start
<1>3. \A x \in Soles \ {c} : View(x)' = View(x)
  BY <1>1, <1>2, ProspectStill, ViewSame DEF Grounds, Soles
<1>4. \A x \in Soles \ {c} : Stage(x)' = Stage(x)
  BY StageSame DEF Soles
<1>5. View(c)' = {}
  BY <1>1 DEF View
<1> QED
  BY <1>1, <1>3, <1>4, <1>5 DEF Soles, Sole

LEMMA Deafens ==
  ASSUME Grounds, TypeInv', NEW c \in Soles, Deafening(c) PROVE Promise!Deafen(c)
<1>0. c \in Conns /\ c \in listening /\ Stage(c) \in {"inside", "announced"} /\ Stage(c)' = Stage(c)
  BY Typed DEF Deafening, Grounds, Hearing, Deaf, Running, Stage, Soles
<1>1. /\ \A x \in Soles \ {c} : Stage(x)' = Stage(x) /\ View(x)' = View(x)
      /\ View(c)' = {}
      /\ (Soles \cap lagged)' = Soles \cap lagged
      /\ (Soles \cap listening)' = (Soles \cap listening) \ {c}
  <2>1. /\ DropReceiver(c) /\ UNCHANGED <<lagged, roster>>
        /\ \A d \in Conns \ {c} : pc'[d] = pc[d] /\ held'[d] = held[d]
    BY <1>0, Typed DEF Deafening, Grounds
  <2> QED
    BY <1>0, <2>1, DroppedUnseen
<1>2. [x \in Soles |-> Stage(x)]' = [x \in Soles |-> Stage(x)]
  BY <1>0, <1>1 DEF Soles, Sole
<1>3. [x \in Soles |-> View(x)]' = [[x \in Soles |-> View(x)] EXCEPT ![c] = {}]
  BY <1>1 DEF Soles, Sole
<1>4. c \in Promise!Present \cap (Soles \cap listening)
  BY <1>0, PresentIs
<1> QED
  BY <1>1, <1>2, <1>3, <1>4 DEF Promise!Deafen

LEMMA StrangerDropped ==
  ASSUME Grounds, TypeInv', NEW c \in Conns \ Soles, DropReceiver(c),
         UNCHANGED <<lagged, roster>>,
         \A d \in Conns \ {c} : pc'[d] = pc[d] /\ held'[d] = held[d]
  PROVE  UNCHANGED Promise!presenceVars
<1>1. /\ \A x \in Soles : Stage(x)' = Stage(x) /\ View(x)' = View(x)
      /\ (Soles \cap lagged)' = Soles \cap lagged
      /\ (Soles \cap listening)' = Soles \cap listening
  BY DroppedUnseen
<1> QED
  BY <1>1 DEF Promise!presenceVars, Soles, Sole

LEMMA Refused ==
  ASSUME Grounds, TypeInv', NEW c \in Conns, Refuse(c), UNCHANGED roster
  PROVE  /\ DropReceiver(c) /\ UNCHANGED <<lagged, roster>>
         /\ \A d \in Conns \ {c} : pc'[d] = pc[d] /\ held'[d] = held[d]
  BY Typed DEF Refuse, Goto, Grounds

LEMMA TurnsAway ==
  ASSUME Grounds, TypeInv', NEW c \in Soles, Refuse(c), UNCHANGED roster
  PROVE  Promise!TurnAway(c)
<1>0. c \in Conns /\ Stage(c) = "outside" /\ Stage(c)' = "gone"
  BY Typed DEF Refuse, Goto, Grounds, Stage, Soles
<1>1. /\ \A x \in Soles \ {c} : Stage(x)' = Stage(x) /\ View(x)' = View(x)
      /\ View(c)' = {}
      /\ (Soles \cap lagged)' = Soles \cap lagged
      /\ (Soles \cap listening)' = (Soles \cap listening) \ {c}
  BY <1>0, Refused, DroppedUnseen
<1>2. View(c) = {}
  <2>1. Prospect(c) = Told(Start(c), out[c])
    BY <1>0, ProspectIs DEF Grounds
  <2>2. Start(c) = <<>> /\ out[c] = <<>>
    BY <1>0 DEF Refuse, Grounds, Fresh, Start
  <2>3. DOMAIN Prospect(c) = {}
    BY <2>1, <2>2, ToldNothing
  <2> QED
    BY <2>3 DEF View
<1>3. Promise!Move(c, "gone")
  BY <1>0, <1>1, MovesTo
<1>4. [x \in Soles |-> View(x)]' = [x \in Soles |-> View(x)]
  BY <1>1, <1>2 DEF Soles, Sole
<1>5. [x \in Soles |-> Stage(x)][c] = "outside"
  BY <1>0
<1> QED
  BY <1>1, <1>3, <1>4, <1>5 DEF Promise!TurnAway

LEMMA Leaves ==
  ASSUME Grounds, TypeInv', NEW c \in Conns, Leave(c), UNCHANGED roster
  PROVE  /\ c \in Soles => Promise!Exit(c)
         /\ c \notin Soles => UNCHANGED Promise!presenceVars
<1>1. /\ UNCHANGED <<listening, lagged>> /\ pc[c] = "leaving" /\ pc'[c] = "departing"
      /\ \A x \in Conns \ {c} : pc'[x] = pc[x]
      /\ c \notin listening
  BY Typed DEF Leave, Goto, Grounds, Hearing, Deaf
<1>2. \A x \in Conns : Still(x)
  BY Typed DEF Leave, Goto, Still, Start, Grounds
<1>3. \A x \in Soles : View(x)' = View(x)
  BY <1>1, <1>2, ProspectStill, ViewSame DEF Grounds, Soles
<1>4. \A x \in Soles \ {c} : Stage(x)' = Stage(x)
  BY <1>1, StageSame DEF Soles
<1>5. ASSUME c \in Soles PROVE Promise!Exit(c)
  <2>1. Stage(c) = "announced" /\ Stage(c)' = "leaving"
    BY <1>1 DEF Stage
  <2>2. Promise!Move(c, "leaving")
    BY <1>4, <1>5, <2>1, MovesTo
  <2>3. [x \in Soles |-> View(x)]' = [x \in Soles |-> View(x)]
    BY <1>3 DEF Soles, Sole
  <2>4. (Soles \cap lagged)' = Soles \cap lagged /\ (Soles \cap listening)' = Soles \cap listening
    BY <1>1 DEF Soles, Sole
  <2>5. [x \in Soles |-> Stage(x)][c] = "announced"
    BY <1>5, <2>1
  <2> QED
    BY <1>1, <2>2, <2>3, <2>4, <2>5 DEF Promise!Exit
<1>6. ASSUME c \notin Soles PROVE UNCHANGED Promise!presenceVars
  BY <1>1, <1>3, <1>4, <1>6, Stutters
<1> QED
  BY <1>5, <1>6


LEMMA PromiseInit == RosterInit => Promise!PresenceInit
<1> SUFFICES ASSUME RosterInit PROVE Promise!PresenceInit
  OBVIOUS
<1>1. Grounds
  BY GroundsInit
<1>2. /\ \A c \in Conns : pc[c] = "connecting" /\ out[c] = <<>> /\ roster[c] = <<>>
      /\ listening = Conns /\ lagged = {}
  BY DEF RosterInit, Init, HubInit
<1>3. \A c \in Soles : Stage(c) = "outside"
  BY <1>2 DEF Stage, Soles
<1>4. ASSUME NEW c \in Soles PROVE View(c) = {}
  <2>1. c \in Conns
    BY DEF Soles
  <2>2. Prospect(c) = Told(Start(c), out[c])
    BY <1>1, <2>1, ProspectIs DEF Grounds
  <2>3. Start(c) = <<>> /\ out[c] = <<>>
    BY <1>2, <2>1 DEF Start
  <2>4. DOMAIN Prospect(c) = {}
    BY <2>2, <2>3, ToldNothing
  <2> QED
    BY <2>4 DEF View
<1>5. Soles \cap listening = Soles /\ Soles \cap lagged = {}
  BY <1>2 DEF Soles
<1> QED
  BY <1>3, <1>4, <1>5 DEF Promise!PresenceInit

LEMMA PromiseStep ==
  Grounds /\ [RosterNext]_rosterVars => [Promise!PresenceNext]_(Promise!presenceVars)
<1> SUFFICES ASSUME Grounds, [RosterNext]_rosterVars
             PROVE  [Promise!PresenceNext]_(Promise!presenceVars)
  OBVIOUS
<1> DEFINE Goal == [Promise!PresenceNext]_(Promise!presenceVars)
<1>0. TypeInv /\ TypeInv' /\ Lists
  BY GroundsStep DEF Grounds
<1>n. /\ \A c \in Soles : Promise!TurnAway(c) \/ Promise!Enter(c) \/ Promise!Deafen(c) => Goal
      /\ \A d \in Soles : Promise!Appear(d) \/ Promise!Exit(d) \/ Promise!Vanish(d) => Goal
      /\ Promise!Overflow => Goal
      /\ UNCHANGED Promise!presenceVars => Goal
  BY DEF Promise!PresenceNext
<1> HIDE DEF Goal
<1>1. ASSUME NEW c \in Conns, Calm(c) PROVE Goal
  BY <1>0, <1>n, <1>1, CalmStutters
<1>2. ASSUME NEW c \in Conns, Chatter(c) PROVE Goal
  BY <1>0, <1>n, <1>2, ChatterOverflows
<1>3. ASSUME NEW c \in Conns, Deafening(c) PROVE Goal
  <2>1. CASE c \in Soles
    BY <1>0, <1>n, <1>3, <2>1, Deafens
  <2>2. CASE c \notin Soles
    <3>1. /\ DropReceiver(c) /\ UNCHANGED <<lagged, roster>>
          /\ \A d \in Conns \ {c} : pc'[d] = pc[d] /\ held'[d] = held[d]
      BY <1>0, <1>3, Typed DEF Deafening
    <3> QED
      BY <1>0, <1>n, <2>2, <3>1, StrangerDropped
  <2> QED
    BY <2>1, <2>2
<1>4. ASSUME NEW c \in Conns, Refuse(c), UNCHANGED roster PROVE Goal
  <2>1. CASE c \in Soles
    BY <1>0, <1>n, <1>4, <2>1, TurnsAway
  <2>2. CASE c \notin Soles
    BY <1>0, <1>n, <1>4, <2>2, Refused, StrangerDropped
  <2> QED
    BY <2>1, <2>2
<1>5. ASSUME NEW c \in Conns, HubJoin(c), UNCHANGED roster PROVE Goal
  <2>1. CASE c \in Soles
    BY <1>0, <1>n, <1>5, <2>1, JoinEnters
  <2>2. CASE c \notin Soles
    BY <1>0, <1>n, <1>5, <2>2, StrangerJoins
  <2> QED
    BY <2>1, <2>2
<1>6. ASSUME NEW c \in Conns, AnnounceJoin(c), UNCHANGED roster PROVE Goal
  <2>1. CASE c \in Soles
    BY <1>0, <1>n, <1>6, <2>1, JoinAppears
  <2>2. CASE c \notin Soles
    BY <1>0, <1>n, <1>6, <2>2, StrangerAnnounced
  <2> QED
    BY <2>1, <2>2
<1>7. ASSUME NEW c \in Conns, AnnounceLeft(c), UNCHANGED roster PROVE Goal
  <2>1. CASE c \in Soles
    BY <1>0, <1>n, <1>7, <2>1, LeftVanishes
  <2>2. CASE c \notin Soles
    BY <1>0, <1>n, <1>7, <2>2, StrangerAnnounced
  <2> QED
    BY <2>1, <2>2
<1>8. ASSUME NEW c \in Conns, NEW k \in Keys, Recording(c, k) PROVE Goal
  BY <1>0, <1>n, <1>8, RecordingStutters
<1>9. ASSUME NEW c \in Conns, BroadcastUpdate(c), UNCHANGED roster PROVE Goal
  BY <1>0, <1>n, <1>9, UpdateOverflows
<1>10. ASSUME NEW c \in Conns, Leave(c), UNCHANGED roster PROVE Goal
  BY <1>0, <1>n, <1>10, Leaves
<1>11. ASSUME UNCHANGED rosterVars PROVE Goal
  BY <1>11, <1>n DEF rosterVars, vars, hubVars, Promise!presenceVars, View, Stage, Prospect,
                     Pending, Soles, Sole
<1>12. Goal
  BY <1>0, <1>1, <1>2, <1>3, <1>4, <1>5, <1>6, <1>7, <1>8, <1>9, <1>10, <1>11, RosterKinds
<1> QED
  BY <1>12 DEF Goal

(* The connection tasks, the registry, the queues and the lists of the     *)
(* clients implement the room of Presence, for any number of connections,  *)
(* participants and messages under way.                                    *)
THEOREM KeepsPromiseCorrect == RosterSpec => KeepsPromise
<1>1. RosterInit => Promise!PresenceInit /\ Grounds
  BY PromiseInit, GroundsInit
<1>2. Grounds /\ [RosterNext]_rosterVars => [Promise!PresenceNext]_(Promise!presenceVars)
  BY PromiseStep
<1> QED
  BY <1>1, <1>2, GroundsStep, PTL DEF RosterSpec, KeepsPromise, Promise!PresenceSpec

(* No client ever shows itself in its list of peers.                       *)
THEOREM NotOwnPeerCorrect == RosterSpec => []NotOwnPeer
<1>1. RosterInit => Grounds /\ Others
  <2>1. RosterInit => Others
    BY DEF RosterInit, Init, HubInit, Others, Start, Clean
  <2> QED
    BY <2>1, GroundsInit
<1>2. Grounds /\ Others /\ [RosterNext]_rosterVars => Others'
  BY OthersStep DEF Grounds
<1>3. Others => NotOwnPeer
  BY DEF Others, NotOwnPeer
<1> QED
  BY <1>1, <1>2, <1>3, GroundsStep, PTL DEF RosterSpec


------------------------------------------------------------------------------
(* What Presence promises, said of the server and its clients.             *)

LEMMA PresenceSame ==
  /\ Promise!PresenceInit => P!PresenceInit
  /\ [Promise!PresenceNext]_(Promise!presenceVars) => [P!PresenceNext]_(P!presenceVars)
<1>1. Promise!PresenceInit => P!PresenceInit
  BY DEF Promise!PresenceInit, P!PresenceInit
<1>2. \A c \in Soles :
        /\ Promise!TurnAway(c) => P!TurnAway(c)
        /\ Promise!Enter(c) => P!Enter(c)
        /\ Promise!Deafen(c) => P!Deafen(c)
        /\ Promise!Exit(c) => P!Exit(c)
  BY DEF Promise!TurnAway, P!TurnAway, Promise!Enter, P!Enter, Promise!Deafen, P!Deafen,
         Promise!Exit, P!Exit, Promise!Move, P!Move, Promise!Present, P!Present
<1>3. \A c \in Soles : Promise!Appear(c) => P!Appear(c)
  BY DEF Promise!Appear, P!Appear, Promise!Tell, P!Tell, Promise!Move, P!Move,
         Promise!Audience, P!Audience, Promise!Present, P!Present
<1>4. \A c \in Soles : Promise!Vanish(c) => P!Vanish(c)
  BY DEF Promise!Vanish, P!Vanish, Promise!Tell, P!Tell, Promise!Move, P!Move,
         Promise!Audience, P!Audience, Promise!Present, P!Present
<1>5. Promise!Overflow => P!Overflow
  BY DEF Promise!Overflow, P!Overflow, Promise!Present, P!Present
<1>6. UNCHANGED Promise!presenceVars => UNCHANGED P!presenceVars
  BY DEF Promise!presenceVars, P!presenceVars
<1> QED
  BY <1>1, <1>2, <1>3, <1>4, <1>5, <1>6 DEF Promise!PresenceNext, P!PresenceNext

LEMMA AgreementMeans == Grounds /\ P!Agreement => RosterAgrees
<1> SUFFICES ASSUME Grounds, P!Agreement,
                    NEW c \in (Soles \cap listening) \ lagged, pc[c] # "connecting",
                    NEW d \in Soles \ {c}
             PROVE  /\ pc[d] \in Registered \ {"joining", "announcing"} => PidOf[d] \in DOMAIN Prospect(c)
                    /\ pc[d] \in {"connecting", "sfu_leaving", "closed"} => PidOf[d] \notin DOMAIN Prospect(c)
  BY DEF RosterAgrees
<1>1. c \in Conns /\ d \in Conns /\ pc[c] \in PcValues /\ pc[d] \in PcValues
  BY Typed DEF Grounds, Soles
<1>2. pc[c] \notin Deaf
  BY <1>1 DEF Grounds, Hearing
<1>3. Stage(c) \in {"inside", "announced"}
  BY <1>1, <1>2 DEF Deaf, Stage
<1>4. c \in (P!Present \cap (Soles \cap listening)) \ (Soles \cap lagged)
  BY <1>3 DEF P!Present
<1>5. /\ Stage(d) = "announced" => d \in View(c)
      /\ Stage(d) \in {"outside", "gone"} => d \notin View(c)
  BY <1>4 DEF P!Agreement
<1>6. d \in View(c) <=> PidOf[d] \in DOMAIN Prospect(c)
  BY DEF View
<1>7. /\ pc[d] \in Registered \ {"joining", "announcing"} => Stage(d) = "announced"
      /\ pc[d] \in {"connecting", "sfu_leaving", "closed"} => Stage(d) \in {"outside", "gone"}
  BY DEF Registered, Stage
<1> QED
  BY <1>5, <1>6, <1>7

RosterInv == Grounds /\ P!Inv

LEMMA RosterInvInit == RosterInit => RosterInv
  BY GroundsInit, PromiseInit, PresenceSame, P!InvInit DEF RosterInv

LEMMA RosterInvStep == RosterInv /\ [RosterNext]_rosterVars => RosterInv'
<1>1. Grounds /\ [RosterNext]_rosterVars => Grounds' /\ [P!PresenceNext]_(P!presenceVars)
  BY GroundsStep, PromiseStep, PresenceSame
<1>2. P!Inv /\ [P!PresenceNext]_(P!presenceVars) => P!Inv'
  BY P!InvStep
<1> QED
  BY <1>1, <1>2 DEF RosterInv

LEMMA RosterInvAgrees == RosterInv => RosterAgrees
  BY AgreementMeans DEF RosterInv, P!Inv

(* A client that has read its queue shows exactly the participants that    *)
(* have been announced and whose departure has not been broadcast.         *)
THEOREM RosterAgreesCorrect == RosterSpec => []RosterAgrees
  BY RosterInvInit, RosterInvStep, RosterInvAgrees, PTL DEF RosterSpec


------------------------------------------------------------------------------
(* The keys.                                                               *)

(* c knows the key of d. *)
Knows(c, d) ==
  PidOf[d] \in DOMAIN Prospect(c) /\ pc[d] \in Registered \ {"updating"}
    => Prospect(c)[PidOf[d]] = pubkey[PidOf[d]]

Attentive == {c \in (Soles \cap listening) \ lagged : pc[c] # "connecting"}

LEMMA KeysKnown == KeysAgree <=> \A c \in Attentive : \A d \in Soles \ {c} : Knows(c, d)
  BY DEF KeysAgree, Attentive, Knows

LEMMA KeysKnownNext ==
  (\A c \in Attentive' : \A d \in Soles \ {c} : Knows(c, d)') => KeysAgree'
<1>1. Soles' = Soles
  BY DEF Soles, Sole
<1>2. Attentive' = {c \in (Soles \cap listening') \ lagged' : pc'[c] # "connecting"}
  BY <1>1 DEF Attentive
<1>3. KeysAgree' <=>
        \A c \in (Soles \cap listening') \ lagged' : pc'[c] # "connecting" =>
          \A d \in Soles \ {c} : Knows(c, d)'
  BY <1>1 DEF KeysAgree, Knows
<1> QED
  BY <1>2, <1>3

(* Nothing arrives at c, and d keeps its key. *)
LEMMA KnowsStill ==
  ASSUME NEW c, NEW d, Knows(c, d), Prospect(c)' = Prospect(c),
         pubkey'[PidOf[d]] = pubkey[PidOf[d]],
         pc'[d] \in Registered \ {"updating"} => pc[d] \in Registered \ {"updating"}
  PROVE  Knows(c, d)'
  BY DEF Knows

(* c is registered, so nothing that is broadcast passes it by. *)
LEMMA AttentiveReached ==
  ASSUME Grounds, NEW c \in Attentive, NEW p, p # PidOf[c]
  PROVE  c \in AllBut(p)
<1>1. c \in Conns /\ c \in Soles /\ pc[c] \notin Deaf /\ pc[c] # "connecting" /\ pc[c] \in PcValues
  BY Typed DEF Attentive, Grounds, Hearing, Soles
<1>2. pc[c] \in Registered
  BY <1>1 DEF Deaf, PcValues, Registered
<1>3. owner[PidOf[c]] = c /\ PidOf[c] \in Pids /\ c # NoConn
  BY <1>1, <1>2, Typed DEF Grounds, LiveRegistered, Soles
<1> QED
  BY <1>3 DEF AllBut, Members


LEMMA KeysCalm ==
  ASSUME Grounds, KeysAgree, TypeInv', NEW e \in Conns, Calm(e) PROVE KeysAgree'
<1> SUFFICES ASSUME NEW c \in Attentive', NEW d \in Soles \ {c} PROVE Knows(c, d)'
  BY KeysKnownNext
<1>1. c \in Soles /\ c \in Conns /\ d \in Soles \ {c} /\ d \in Conns
  BY DEF Attentive, Soles, Sole
<1>2. /\ pc'[c] # "connecting" => pc[c] # "connecting"
      /\ pc'[d] \in Registered \ {"updating"} => pc[d] \in Registered \ {"updating"}
  BY <1>1, Typed DEF Calm, CalmMove, Running, Registered, Grounds
<1>3. c \in Attentive
  BY <1>2 DEF Attentive, Soles, Sole, Calm
<1>4. Knows(c, d)
  BY <1>1, <1>3, KeysKnown
<1>5. Prospect(c)' = Prospect(c) /\ pubkey' = pubkey
  BY <1>1, ProspectCalm DEF Grounds, Calm
<1> QED
  BY <1>2, <1>4, <1>5, KnowsStill

(* Messages that do not name d, or that c has no room for, change nothing. *)
LEMMA KnowsPosted ==
  ASSUME Grounds, TypeInv', NEW c \in Soles, NEW d \in Soles \ {c}, Knows(c, d),
         NEW S, NEW m, Posts(S, m), pubkey' = pubkey,
         pc'[d] \in Registered \ {"updating"} => pc[d] \in Registered \ {"updating"},
         PidOf[d] \in DOMAIN Shown(Prospect(c), m) =>
           /\ PidOf[d] \in DOMAIN Prospect(c)
           /\ Shown(Prospect(c), m)[PidOf[d]] = Prospect(c)[PidOf[d]]
  PROVE  Knows(c, d)'
<1>1. Prospect(c)' = Shown(Prospect(c), m) \/ Prospect(c)' = Prospect(c)
  BY ProspectSent DEF Posts, Grounds, Soles
<1> QED
  BY <1>1 DEF Knows

LEMMA KeysChatter ==
  ASSUME Grounds, KeysAgree, TypeInv', NEW e \in Conns, Chatter(e) PROVE KeysAgree'
<1> SUFFICES ASSUME NEW c \in Attentive', NEW d \in Soles \ {c} PROVE Knows(c, d)'
  BY KeysKnownNext
<1>1. c \in Soles /\ c \in Conns /\ d \in Soles \ {c} /\ d \in Conns
  BY DEF Attentive, Soles, Sole
<1>2. /\ pc'[c] # "connecting" => pc[c] # "connecting"
      /\ pc'[d] \in Registered \ {"updating"} => pc[d] \in Registered \ {"updating"}
  BY <1>1, Typed DEF Chatter, Registered, Grounds
<1>3. PICK S, m : Plain(m) /\ Posts(S, m)
  BY ChatterPosts DEF Grounds
<1>4. c \in Attentive
  BY <1>2, <1>3 DEF Attentive, Soles, Sole, Chatter, Posts, TrySend
<1>5. Knows(c, d)
  BY <1>1, <1>4, KeysKnown
<1>6. Shown(Prospect(c), m) = Prospect(c)
  BY <1>3, ShownPlain
<1>7. pubkey' = pubkey
  BY DEF Chatter
<1> QED
  BY <1>1, <1>2, <1>3, <1>5, <1>6, <1>7, KnowsPosted

LEMMA KeysDropped ==
  ASSUME Grounds, KeysAgree, TypeInv', NEW e \in Conns, DropReceiver(e),
         UNCHANGED <<lagged, roster, pubkey>>,
         \A d \in Conns \ {e} : pc'[d] = pc[d] /\ held'[d] = held[d],
         pc'[e] \in Registered \ {"updating"} => pc[e] \in Registered \ {"updating"}
  PROVE  KeysAgree'
<1> SUFFICES ASSUME NEW c \in Attentive', NEW d \in Soles \ {c} PROVE Knows(c, d)'
  BY KeysKnownNext
<1>1. c \in Soles /\ c \in Conns /\ d \in Soles \ {c} /\ d \in Conns
  BY DEF Attentive, Soles, Sole
<1>2. c # e /\ listening' = listening \ {e} /\ out'[c] = out[c]
  BY <1>1, Typed DEF Attentive, DropReceiver, Grounds
<1>3. c \in Attentive
  BY <1>1, <1>2 DEF Attentive, Soles, Sole
<1>4. Knows(c, d)
  BY <1>1, <1>3, KeysKnown
<1>5. Still(c)
  BY <1>1, <1>2 DEF Still, Start
<1>6. Prospect(c)' = Prospect(c)
  BY <1>1, <1>5, ProspectStill DEF Grounds
<1>7. pc'[d] \in Registered \ {"updating"} => pc[d] \in Registered \ {"updating"}
  BY <1>1
<1> QED
  BY <1>4, <1>6, <1>7, KnowsStill

LEMMA KeysJoin ==
  ASSUME Grounds, RosterAgrees, KeysAgree, TypeInv', NEW e \in Conns, HubJoin(e), UNCHANGED roster
  PROVE  KeysAgree'
<1> SUFFICES ASSUME NEW c \in Attentive', NEW d \in Soles \ {c} PROVE Knows(c, d)'
  BY KeysKnownNext
<1>1. /\ c \in Soles /\ c \in Conns /\ d \in Soles \ {c} /\ d \in Conns
      /\ PidOf[c] # PidOf[d] /\ PidOf[d] \in Pids
  BY Typed DEF Attentive, Soles, Sole, Grounds
<1>2. /\ pc[e] = "connecting" /\ UNCHANGED listening
      /\ pubkey' = [pubkey EXCEPT ![PidOf[e]] = NoKey]
      /\ \A x \in Conns \ {e} : pc'[x] = pc[x]
  BY Typed DEF HubJoin, Register, Goto, Grounds
<1>3. (Soles \cap lagged)' = Soles \cap lagged
  BY JoinUnseen
<1>4. CASE e = c
  <2>1. out[c] = <<>> /\ out'[c] = out[c]
    BY <1>1, <1>2, <1>4, JoinUnseen DEF Grounds, Fresh
  <2>2. Prospect(c)' = Told(Start(c)', out'[c])
    BY <1>1, ProspectNext
  <2>3. Prospect(c)' = Shown(roster[c], Joined(PeersOf(PidOf[c])))
    BY <1>4, <2>1, <2>2, ToldNothing, HubJoinSends DEF Grounds
  <2>4. ASSUME PidOf[d] \in DOMAIN (Prospect(c)')
        PROVE  Prospect(c)'[PidOf[d]] = pubkey[PidOf[d]]
    <3>1. PidOf[d] \in Members \ {PidOf[c]}
      BY <2>3, <2>4, SnapshotDomain
    <3> QED
      BY <2>3, <3>1, SnapshotKey
  <2>5. pubkey'[PidOf[d]] = pubkey[PidOf[d]]
    BY <1>1, <1>2, <1>4, Typed DEF Grounds
  <2> QED
    BY <2>4, <2>5 DEF Knows
<1>5. CASE e # c
  <2>1. Still(c)
    BY <1>1, <1>5, JoinUnseen, HubJoinSends DEF Still, Grounds
  <2>2. Prospect(c)' = Prospect(c)
    BY <1>1, <2>1, ProspectStill DEF Grounds
  <2>3. c \in Attentive
    BY <1>1, <1>2, <1>3, <1>5 DEF Attentive, Soles, Sole
  <2>4. CASE e = d
    <3>1. PidOf[d] \notin DOMAIN Prospect(c)
      BY <1>1, <1>2, <2>3, <2>4 DEF RosterAgrees, Attentive
    <3> QED
      BY <2>2, <3>1 DEF Knows
  <2>5. CASE e # d
    <3>1. PidOf[e] # PidOf[d]
      BY <1>1, <2>5 DEF Soles, Sole
    <3>2. pubkey'[PidOf[d]] = pubkey[PidOf[d]]
      BY <1>1, <1>2, <3>1, Typed DEF Grounds
    <3>3. Knows(c, d) /\ pc'[d] = pc[d]
      BY <1>1, <1>2, <2>3, <2>5, KeysKnown
    <3> QED
      BY <2>2, <3>2, <3>3, KnowsStill
  <2> QED
    BY <2>4, <2>5
<1> QED
  BY <1>4, <1>5

(* Key changes of one participant do not concern the others. *)
LEMMA KeysElsewhere ==
  ASSUME Grounds, KeysAgree, TypeInv', NEW e \in Conns,
         UNCHANGED <<listening, out, lagged, roster>>,
         \A x \in Conns : Start(x)' = Start(x),
         \A x \in Conns \ {e} : pc'[x] = pc[x],
         pc[e] # "connecting", pc'[e] \notin Registered \ {"updating"},
         \A p \in Pids \ {PidOf[e]} : pubkey'[p] = pubkey[p]
  PROVE  KeysAgree'
<1> SUFFICES ASSUME NEW c \in Attentive', NEW d \in Soles \ {c} PROVE Knows(c, d)'
  BY KeysKnownNext
<1>1. /\ c \in Soles /\ c \in Conns /\ d \in Soles \ {c} /\ d \in Conns /\ PidOf[d] \in Pids
  BY Typed DEF Attentive, Soles, Sole, Grounds
<1>2. CASE e = d
  BY <1>2 DEF Knows
<1>3. CASE e # d
  <2>1. PidOf[e] # PidOf[d]
    BY <1>1, <1>3 DEF Soles, Sole
  <2>2. c \in Attentive
    BY <1>1 DEF Attentive, Soles, Sole
  <2>3. Prospect(c)' = Prospect(c)
    BY <1>1, ProspectStill DEF Grounds, Still
  <2>4. Knows(c, d) /\ pc'[d] = pc[d] /\ pubkey'[PidOf[d]] = pubkey[PidOf[d]]
    BY <1>1, <1>3, <2>1, <2>2, KeysKnown
  <2> QED
    BY <2>3, <2>4, KnowsStill
<1> QED
  BY <1>2, <1>3


LEMMA KeysAnnounced ==
  ASSUME Grounds, KeysAgree, TypeInv', NEW e \in Conns, AnnounceJoin(e), UNCHANGED roster
  PROVE  KeysAgree'
<1> SUFFICES ASSUME NEW c \in Attentive', NEW d \in Soles \ {c} PROVE Knows(c, d)'
  BY KeysKnownNext
<1> DEFINE m == PeerJoined([pid |-> PidOf[e], key |-> NoKey])
           S == AllBut(PidOf[e])
<1>1. /\ c \in Soles /\ c \in Conns /\ d \in Conns /\ PidOf[d] \in Pids
      /\ PidOf[e] = PidOf[d] => e = d
  BY Typed DEF Attentive, Soles, Sole, Grounds
<1>2. /\ Posts(S, m) /\ pubkey' = pubkey
      /\ pc[e] = "announcing" /\ pc' = [pc EXCEPT ![e] = "sfu_joining"]
  BY AnnounceJoinPosts DEF AnnounceJoin, Goto, Grounds
<1>3. /\ pc'[c] # "connecting" => pc[c] # "connecting"
      /\ pc'[d] \in Registered \ {"updating"} => pc[d] \in Registered \ {"updating"}
  BY <1>1, <1>2, Typed DEF Registered, Grounds
<1>4. c \in Attentive
  BY <1>2, <1>3 DEF Attentive, Soles, Sole, AnnounceJoin, Posts, TrySend
<1>5. Knows(c, d)
  BY <1>4, KeysKnown
<1>6. CASE PidOf[d] \in DOMAIN Prospect(c)
  <2>1. Shown(Prospect(c), m)[PidOf[d]] = Prospect(c)[PidOf[d]]
    BY <1>6, ShownKey
  <2> HIDE DEF m, S
  <2> QED
    BY <1>1, <1>2, <1>3, <1>5, <1>6, <2>1, KnowsPosted
<1>7. CASE PidOf[d] \notin DOMAIN Prospect(c) /\ e # d
  <2>1. DOMAIN Shown(Prospect(c), m) = DOMAIN Prospect(c) \cup {PidOf[e]}
    BY ShownDomains
  <2>2. PidOf[d] \notin DOMAIN Shown(Prospect(c), m)
    BY <1>1, <1>7, <2>1
  <2> HIDE DEF m, S
  <2> QED
    BY <1>1, <1>2, <1>3, <1>5, <2>2, KnowsPosted
<1>8. CASE PidOf[d] \notin DOMAIN Prospect(c) /\ e = d
  <2>1. Shown(Prospect(c), m)[PidOf[d]] = NoKey
    BY <1>8, ShownKey
  <2>2. pubkey[PidOf[d]] = NoKey
    BY <1>1, <1>2, <1>8 DEF Grounds, Keyless, Soles
  <2> HIDE DEF m, S
  <2>3. Prospect(c)' = Shown(Prospect(c), m) \/ Prospect(c)' = Prospect(c)
    BY <1>1, <1>2, ProspectSent DEF Posts, Grounds
  <2> QED
    BY <1>2, <1>8, <2>1, <2>2, <2>3 DEF Knows
<1> QED
  BY <1>6, <1>7, <1>8

LEMMA KeysLeft ==
  ASSUME Grounds, KeysAgree, TypeInv', NEW e \in Conns, AnnounceLeft(e), UNCHANGED roster
  PROVE  KeysAgree'
<1> SUFFICES ASSUME NEW c \in Attentive', NEW d \in Soles \ {c} PROVE Knows(c, d)'
  BY KeysKnownNext
<1> DEFINE m == PeerLeft(PidOf[e])
           S == AllBut(PidOf[e])
<1>1. c \in Soles /\ c \in Conns /\ d \in Conns
  BY DEF Attentive, Soles, Sole
<1>2. /\ Posts(S, m) /\ pubkey' = pubkey
      /\ pc[e] = "departing" /\ pc' = [pc EXCEPT ![e] = "sfu_leaving"]
  BY AnnounceLeftPosts DEF AnnounceLeft, Goto, Grounds
<1>3. /\ pc'[c] # "connecting" => pc[c] # "connecting"
      /\ pc'[d] \in Registered \ {"updating"} => pc[d] \in Registered \ {"updating"}
  BY <1>1, <1>2, Typed DEF Registered, Grounds
<1>4. c \in Attentive
  BY <1>2, <1>3 DEF Attentive, Soles, Sole, AnnounceLeft, Posts, TrySend
<1>5. Knows(c, d)
  BY <1>4, KeysKnown
<1>6. DOMAIN Shown(Prospect(c), m) = DOMAIN Prospect(c) \ {PidOf[e]}
  BY ShownDomains
<1>7. PidOf[d] \in DOMAIN Prospect(c) \ {PidOf[e]} =>
        Shown(Prospect(c), m)[PidOf[d]] = Prospect(c)[PidOf[d]]
  BY ShownKey
<1> HIDE DEF m, S
<1> QED
  BY <1>1, <1>2, <1>3, <1>5, <1>6, <1>7, KnowsPosted

LEMMA KeysUpdated ==
  ASSUME Grounds, KeysAgree, TypeInv', NEW e \in Conns, BroadcastUpdate(e), UNCHANGED roster
  PROVE  KeysAgree'
<1> SUFFICES ASSUME NEW c \in Attentive', NEW d \in Soles \ {c} PROVE Knows(c, d)'
  BY KeysKnownNext
<1> DEFINE m == held[e]
           S == AllBut(NoPid)
<1>1. /\ c \in Soles /\ c \in Conns /\ d \in Conns
      /\ PidOf[e] = PidOf[d] => e = d
      /\ PidOf[c] \in Pids /\ NoPid \notin Pids
  BY Typed, HubAssumption DEF Attentive, Soles, Sole, Grounds
<1>2. /\ Posts(S, m) /\ pubkey' = pubkey /\ UNCHANGED listening
      /\ pc[e] = "updating" /\ pc' = [pc EXCEPT ![e] = "looping"]
  BY UpdatePosts DEF BroadcastUpdate, Goto, Grounds
<1>3. /\ pc'[c] # "connecting" => pc[c] # "connecting"
      /\ d # e => pc'[d] = pc[d]
  BY <1>1, <1>2, Typed DEF Grounds
<1>4. c \in Attentive
  BY <1>2, <1>3 DEF Attentive, Soles, Sole, BroadcastUpdate, Posts, TrySend
<1>5. Knows(c, d)
  BY <1>4, KeysKnown
<1>6. m.type = "PeerUpdated" /\ m.peer.pid = PidOf[e]
  BY <1>2 DEF Grounds, OwnUpdate
<1>7. DOMAIN Shown(Prospect(c), m) = DOMAIN Prospect(c)
  BY <1>6, ShownPeerUpdated
<1>8. PidOf[d] \in DOMAIN Prospect(c) =>
        Shown(Prospect(c), m)[PidOf[d]] = IF PidOf[d] = PidOf[e] THEN m.peer.key ELSE Prospect(c)[PidOf[d]]
  BY <1>6, ShownKey
<1>9. CASE e # d
  <2>1. PidOf[d] # PidOf[e]
    BY <1>1, <1>9
  <2> HIDE DEF m, S
  <2> QED
    BY <1>1, <1>2, <1>3, <1>5, <1>7, <1>8, <1>9, <2>1, KnowsPosted
<1>10. CASE e = d
  <2>1. m.peer.key = pubkey[PidOf[d]]
    BY <1>2, <1>10 DEF Grounds, OwnUpdate, Soles
  <2>2. c \in S
    BY <1>1, <1>4, AttentiveReached
  <2>3. HasRoom(c)
    <3>1. c \in Soles \cap listening /\ c \notin (Soles \cap lagged)'
      BY <1>2 DEF Attentive, Soles, Sole
    <3>2. (Soles \cap lagged)' = (Soles \cap lagged) \cup Slow(S)
      BY <1>2, MissedSent DEF Posts, Grounds
    <3> QED
      BY <2>2, <3>1, <3>2 DEF Slow
  <2> HIDE DEF m, S
  <2>4. Prospect(c)' = Shown(Prospect(c), m)
    BY <1>1, <1>2, <2>2, <2>3, ProspectSent DEF Posts, Grounds
  <2> QED
    BY <1>2, <1>7, <1>8, <1>10, <2>1, <2>4 DEF Knows
<1> QED
  BY <1>9, <1>10

LEMMA KeysStep ==
  ASSUME Grounds, RosterAgrees, KeysAgree, [RosterNext]_rosterVars PROVE KeysAgree'
<1>0. TypeInv /\ TypeInv' /\ Lists
  BY GroundsStep DEF Grounds
<1>1. ASSUME NEW c \in Conns, Calm(c) PROVE KeysAgree'
  BY <1>0, <1>1, KeysCalm
<1>2. ASSUME NEW c \in Conns, Chatter(c) PROVE KeysAgree'
  BY <1>0, <1>2, KeysChatter
<1>3. ASSUME NEW c \in Conns, Deafening(c) PROVE KeysAgree'
  <2>1. /\ DropReceiver(c) /\ UNCHANGED <<lagged, roster, pubkey>>
        /\ \A d \in Conns \ {c} : pc'[d] = pc[d] /\ held'[d] = held[d]
        /\ pc'[c] \in Registered \ {"updating"} => pc[c] \in Registered \ {"updating"}
    BY <1>0, <1>3, Typed DEF Deafening, Running, Registered
  <2> QED
    BY <1>0, <2>1, KeysDropped
<1>4. ASSUME NEW c \in Conns, Refuse(c), UNCHANGED roster PROVE KeysAgree'
  <2>1. /\ DropReceiver(c) /\ UNCHANGED <<lagged, roster, pubkey>>
        /\ \A d \in Conns \ {c} : pc'[d] = pc[d] /\ held'[d] = held[d]
        /\ pc'[c] \notin Registered
    BY <1>0, <1>4, Typed DEF Refuse, Goto, Registered
  <2> QED
    BY <1>0, <2>1, KeysDropped
<1>5. ASSUME NEW c \in Conns, HubJoin(c), UNCHANGED roster PROVE KeysAgree'
  BY <1>0, <1>5, KeysJoin
<1>6. ASSUME NEW c \in Conns, AnnounceJoin(c), UNCHANGED roster PROVE KeysAgree'
  BY <1>0, <1>6, KeysAnnounced
<1>7. ASSUME NEW c \in Conns, AnnounceLeft(c), UNCHANGED roster PROVE KeysAgree'
  BY <1>0, <1>7, KeysLeft
<1>8. ASSUME NEW c \in Conns, NEW k \in Keys, Recording(c, k) PROVE KeysAgree'
  <2>1. /\ UNCHANGED <<listening, out, lagged, roster>>
        /\ \A x \in Conns : Start(x)' = Start(x)
        /\ \A x \in Conns \ {c} : pc'[x] = pc[x]
        /\ pc[c] # "connecting" /\ pc'[c] \notin Registered \ {"updating"}
        /\ \A p \in Pids \ {PidOf[c]} : pubkey'[p] = pubkey[p]
    BY <1>0, <1>8, Typed DEF Recording, Start
  <2> QED
    BY <1>0, <2>1, KeysElsewhere
<1>9. ASSUME NEW c \in Conns, BroadcastUpdate(c), UNCHANGED roster PROVE KeysAgree'
  BY <1>0, <1>9, KeysUpdated
<1>10. ASSUME NEW c \in Conns, Leave(c), UNCHANGED roster PROVE KeysAgree'
  <2>1. /\ UNCHANGED <<listening, out, lagged, roster>>
        /\ \A x \in Conns : Start(x)' = Start(x)
        /\ \A x \in Conns \ {c} : pc'[x] = pc[x]
        /\ pc[c] # "connecting" /\ pc'[c] \notin Registered \ {"updating"}
        /\ \A p \in Pids \ {PidOf[c]} : pubkey'[p] = pubkey[p]
    BY <1>0, <1>10, Typed DEF Leave, Unregister, Goto, Start, Registered
  <2> QED
    BY <1>0, <2>1, KeysElsewhere
<1>11. ASSUME UNCHANGED rosterVars PROVE KeysAgree'
  BY <1>11 DEF rosterVars, vars, hubVars, KeysAgree, Prospect, Pending, Soles, Sole
<1> QED
  BY <1>0, <1>1, <1>2, <1>3, <1>4, <1>5, <1>6, <1>7, <1>8, <1>9, <1>10, <1>11, RosterKinds

(* A client that has read its queue knows, for everyone it shows, the key  *)
(* recorded in the registry, also when it joined between the recording and *)
(* the broadcast.                                                          *)
THEOREM KeysAgreeCorrect == RosterSpec => []KeysAgree
<1>1. RosterInit => KeysAgree
  BY DEF RosterInit, Init, KeysAgree, Soles
<1>2. RosterInv /\ KeysAgree /\ [RosterNext]_rosterVars => KeysAgree'
  BY RosterInvAgrees, KeysStep DEF RosterInv
<1> QED
  BY <1>1, <1>2, RosterInvInit, RosterInvStep, PTL DEF RosterSpec

==============================================================================
