----------------------------- MODULE MCSignaling -----------------------------
(***************************************************************************)
(* Instances of Signaling for TLC: connections c1, c2 and c3, and who is   *)
(* behind them.                                                            *)
(***************************************************************************)
EXTENDS Signaling, TLC

CONSTANTS c1, c2, c3, p1, p2, k1

(* Every connection is a participant of its own. *)
OwnPid == [x \in Conns |-> x]

(* All connections present the same token, one after or beside the other.  *)
SharedPid == [x \in Conns |-> p1]

(* c1 and c2 are connections of one participant, c3 is another. *)
Reconnecting == [x \in Conns |-> IF x = c3 THEN p2 ELSE p1]

(* What the clients send. *)
NoFrames    == [x \in Conns |-> {}]
AllFrames   == [x \in Conns |-> FrameKinds]
Violations  == [x \in Conns |-> {"Violation"}]
Chats       == [x \in Conns |-> {"WsPing", "Chat"}]

(* Sound with OwnPid, under which Conns and Pids are the same values, and   *)
(* with clients that all send the same.                                     *)
Symmetry == Permutations(Conns)

==============================================================================
