------------------------------- MODULE Presence -------------------------------
(***************************************************************************)
(* What the signaling server promises its clients about one another, with  *)
(* no queue, message or participant id in it: who is in the room, and whom  *)
(* each client will list once it has read what is under way to it.         *)
(* Roster shows that the connection tasks, the registry, the queues and the *)
(* clients' lists implement it.                                            *)
(***************************************************************************)

CONSTANT Clients   (* connections, each with a participant of its own      *)

VARIABLES
  stage,    (* stage[c]: "outside" the room, "inside" but not announced,   *)
            (* "announced", "leaving": out but not yet reported so, "gone" *)
  view,     (* view[c]: the clients c will list                            *)
  hearing,  (* clients the server still writes to                          *)
  missed    (* clients that were too slow for something they were sent     *)

presenceVars == <<stage, view, hearing, missed>>

Present == {c \in Clients : stage[c] \in {"inside", "announced"}}

Audience(d) == (Present \ {d}) \cap hearing

PresenceInit ==
  /\ stage = [c \in Clients |-> "outside"]
  /\ view = [c \in Clients |-> {}]
  /\ hearing = Clients
  /\ missed = {}

Move(c, s) == stage' = [stage EXCEPT ![c] = s]

(* The audience of d learns what Change makes of its view, all but those    *)
(* who are too slow.                                                        *)
Tell(d, Change(_)) ==
  \E slow \in SUBSET Audience(d) :
    /\ view' = [c \in Clients |-> IF c \in Audience(d) \ slow THEN Change(view[c]) ELSE view[c]]
    /\ missed' = missed \cup slow

TurnAway(c) ==
  /\ stage[c] = "outside"
  /\ Move(c, "gone")
  /\ hearing' = hearing \ {c}
  /\ UNCHANGED <<view, missed>>

(* A client that comes in is told whom it finds.                            *)
Enter(c) ==
  /\ stage[c] = "outside"
  /\ Move(c, "inside")
  /\ view' = [view EXCEPT ![c] = Present]
  /\ UNCHANGED <<hearing, missed>>

Appear(d) ==
  /\ stage[d] = "inside" /\ d \in hearing
  /\ Move(d, "announced")
  /\ Tell(d, LAMBDA v : v \cup {d})
  /\ UNCHANGED hearing

(* Whatever ends a connection, the server stops writing to it first.        *)
Deafen(c) ==
  /\ c \in Present \cap hearing
  /\ hearing' = hearing \ {c}
  /\ view' = [view EXCEPT ![c] = {}]
  /\ UNCHANGED <<stage, missed>>

Exit(d) ==
  /\ stage[d] = "announced" /\ d \notin hearing
  /\ Move(d, "leaving")
  /\ UNCHANGED <<view, hearing, missed>>

Vanish(d) ==
  /\ stage[d] = "leaving"
  /\ Move(d, "gone")
  /\ Tell(d, LAMBDA v : v \ {d})
  /\ UNCHANGED hearing

(* Messages of other kinds are lost on slow clients too.                    *)
Overflow ==
  \E slow \in SUBSET (Present \cap hearing) :
    /\ missed' = missed \cup slow
    /\ UNCHANGED <<stage, view, hearing>>

PresenceNext ==
  \/ \E c \in Clients : TurnAway(c) \/ Enter(c) \/ Deafen(c)
  \/ \E d \in Clients : Appear(d) \/ Exit(d) \/ Vanish(d)
  \/ Overflow

PresenceSpec == PresenceInit /\ [][PresenceNext]_presenceVars

------------------------------------------------------------------------------
(* Properties.                                                             *)

PresenceTyped ==
  /\ stage \in [Clients -> {"outside", "inside", "announced", "leaving", "gone"}]
  /\ view \in [Clients -> SUBSET Clients]
  /\ hearing \subseteq Clients /\ missed \subseteq Clients

(* A client that kept up will list everybody who has been announced and     *)
(* nobody who has been reported gone or was never there, and never itself.  *)
Agreement ==
  \A c \in (Present \cap hearing) \ missed :
    /\ \A d \in Clients \ {c} :
         /\ stage[d] = "announced" => d \in view[c]
         /\ stage[d] \in {"outside", "gone"} => d \notin view[c]
    /\ c \notin view[c]

==============================================================================
