------------------------------- MODULE RoomHub -------------------------------
(***************************************************************************)
(* The per-room broadcast registry of the signaling server                 *)
(* (crates/meet-server/src/signaling/room_hub.rs): who is registered under  *)
(* which participant id, and the bounded queue of server messages that     *)
(* each connection drains.                                                 *)
(*                                                                         *)
(* Rooms share nothing but the mutex of the registry, so the module models *)
(* one room.  Each operator below is one critical section of that mutex.   *)
(*                                                                         *)
(* A registered participant is a descriptor and the sending half of the    *)
(* queue of one connection; the model names the queue by its connection.   *)
(***************************************************************************)
EXTENDS Naturals, Sequences, FiniteSets

CONSTANTS
  Conns,     (* WebSocket connections, each served by one task             *)
  Pids,      (* participant ids, issued by the join endpoint               *)
  Keys,      (* public keys a participant may announce                     *)
  NoConn,    (* "no entry" in the registry                                 *)
  NoPid,     (* the empty string conn.rs passes to exclude nobody          *)
  NoKey,     (* pubkey = None                                              *)
  QueueCap   (* OUTBOUND_QUEUE_CAP, 64 in the code                         *)

ASSUME HubAssumption ==
  /\ NoConn \notin Conns
  /\ NoPid \notin Pids
  /\ NoKey \notin Keys
  /\ QueueCap \in Nat \ {0}

VARIABLES
  owner,      (* owner[p]: the connection registered under p, or NoConn    *)
  pubkey,     (* pubkey[p]: the announced key of the registered descriptor *)
  open,       (* the room has an entry in the registry's map               *)
  listening,  (* connections whose receiving half has not been dropped     *)
  out,        (* out[c]: messages queued for c, oldest first               *)
  lagged      (* history: connections for which try_send hit a full queue  *)

hubVars == <<owner, pubkey, open, listening, out, lagged>>

------------------------------------------------------------------------------
(* Messages.                                                               *)

PeerDescriptor == [pid : Pids, key : Keys \cup {NoKey}]

ServerMsg ==
       [type : {"Joined"}, peers : SUBSET PeerDescriptor]
  \cup [type : {"PeerJoined", "PeerUpdated"}, peer : PeerDescriptor]
  \cup [type : {"PeerLeft", "Chat"}, pid : Pids]
  \cup [type : {"Answer", "Pong"}]
  \cup [type : {"Error"}, code : {4400, 4409, 4429}]

Joined(peers)     == [type |-> "Joined", peers |-> peers]
PeerJoined(peer)  == [type |-> "PeerJoined", peer |-> peer]
PeerUpdated(peer) == [type |-> "PeerUpdated", peer |-> peer]
PeerLeft(p)       == [type |-> "PeerLeft", pid |-> p]
Chat(from)        == [type |-> "Chat", pid |-> from]
Answer            == [type |-> "Answer"]
Pong              == [type |-> "Pong"]
ErrorMsg(code)    == [type |-> "Error", code |-> code]

------------------------------------------------------------------------------
(* The registry.                                                           *)

HubInit ==
  /\ owner = [p \in Pids |-> NoConn]
  /\ pubkey = [p \in Pids |-> NoKey]
  /\ open = FALSE
  /\ listening = Conns
  /\ out = [c \in Conns |-> <<>>]
  /\ lagged = {}

Members == {p \in Pids : owner[p] # NoConn}

(* [Mutant: the snapshot has the descriptors as they were at the join.] *)
DescriptorAtJoin(p) == [pid |-> p, key |-> NoKey]

Descriptor(p) == [pid |-> p, key |-> pubkey[p]]

(* [Mutant: the filter on the own pid is forgotten.] *)
PeersWithSelf(p) == {Descriptor(q) : q \in Members \ {p}} \cup {[pid |-> p, key |-> NoKey]}

(* What a connection joining as p is told about the others. *)
PeersOf(p) == {Descriptor(q) : q \in Members \ {p}}

(* [Mutant: the queue is unbounded.] *)
HasReceiver(c) == c \in listening

HasRoom(c) == c \in listening /\ Len(out[c]) < QueueCap

(* Sender::try_send of m on the queue of every connection of S.  The result *)
(* is thrown away by every caller: a full or abandoned queue loses m.       *)
TrySend(S, m) ==
  /\ out' = [c \in Conns |-> IF c \in S /\ HasRoom(c) THEN Append(out[c], m) ELSE out[c]]
  /\ lagged' = lagged \cup {c \in S \cap listening : Len(out[c]) >= QueueCap}

Broadcast(except, m) == TrySend({owner[p] : p \in Members \ {except}}, m)

SendTo(p, m) == TrySend({owner[p]} \ {NoConn}, m)

Register(c, p) ==
  /\ owner' = [owner EXCEPT ![p] = c]
  /\ pubkey' = [pubkey EXCEPT ![p] = NoKey]
  /\ open' = TRUE

(* [Mutant: an empty room keeps its entry.] *)
UnregisterKeepingRoom(p) ==
  /\ owner' = [owner EXCEPT ![p] = NoConn]
  /\ pubkey' = [pubkey EXCEPT ![p] = NoKey]
  /\ open' = open

(* [Mutant: the room is dropped with whoever is still in it.] *)
UnregisterWholeRoom(p) ==
  /\ owner' = [x \in Pids |-> NoConn]
  /\ pubkey' = [x \in Pids |-> NoKey]
  /\ open' = FALSE

(* By participant id: whichever connection is registered under p goes, and  *)
(* a room that ends up empty loses its entry.                               *)
Unregister(p) ==
  /\ owner' = [owner EXCEPT ![p] = NoConn]
  /\ pubkey' = [pubkey EXCEPT ![p] = NoKey]
  /\ open' = (open /\ Members \ {p} # {})

SetPubkey(p, k) ==
  /\ owner[p] # NoConn
  /\ pubkey' = [pubkey EXCEPT ![p] = k]

(* The task of c lets go of the receiving half and of what is queued in it. *)
DropReceiver(c) ==
  /\ listening' = listening \ {c}
  /\ out' = [out EXCEPT ![c] = <<>>]

------------------------------------------------------------------------------
(* Types: the registry, and the queues, which never exceed their capacity.  *)

RegistryTyped ==
  /\ owner \in [Pids -> Conns \cup {NoConn}]
  /\ pubkey \in [Pids -> Keys \cup {NoKey}]
  /\ open \in BOOLEAN

QueuesTyped ==
  /\ listening \subseteq Conns
  /\ out \in [Conns -> Seq(ServerMsg)]
  /\ \A c \in Conns : Len(out[c]) <= QueueCap
  /\ lagged \subseteq Conns

==============================================================================
