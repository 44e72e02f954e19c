----------------------------- MODULE MCNetStream ----------------------------
(***************************************************************************)
(* Instances of NetStream for TLC: chunks that end at and short of the end *)
(* of the resource, seeks backwards, forwards and to its end.              *)
(***************************************************************************)
EXTENDS NetStream

OneToTwo == 1..2
AllFailures == {"start", "transferctl", "write", "io"}
=============================================================================
