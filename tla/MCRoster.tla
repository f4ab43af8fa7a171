------------------------------- MODULE MCRoster -------------------------------
(***************************************************************************)
(* An instance of Roster for TLC: every connection is a participant of its *)
(* own; both may disconnect or stop reading, one announces a key.          *)
(***************************************************************************)
EXTENDS Roster

CONSTANTS c1, c2, k1

OwnPid == [x \in Conns |-> x]

OneAnnounces == [x \in Conns |-> IF x = c1 THEN {"Announce"} ELSE {}]

==============================================================================
