------------------------------ MODULE MCDataDir ------------------------------
(***************************************************************************)
(* Instances of DataDir for TLC: a service s1, a serve started by hand s2, *)
(* the right passphrase w1 and another.                                    *)
(***************************************************************************)
EXTENDS DataDir

CONSTANTS s1, s2, w1, w2

==============================================================================
