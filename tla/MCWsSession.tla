---------------------------- MODULE MCWsSession ----------------------------
(* Instances of WsSession for TLC.                                         *)
EXTENDS WsSession, TLC

Symmetry == Permutations(Market)
=============================================================================
