------------------------------ MODULE MCBrowser ------------------------------
(***************************************************************************)
(* An instance of Browser for TLC: a tab that may enter the room three     *)
(* times, one other participant, two sockets.                              *)
(***************************************************************************)
EXTENDS Browser

CONSTANTS t1, t2

==============================================================================
