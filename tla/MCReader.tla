------------------------------ MODULE MCReader ------------------------------
(***************************************************************************)
(* Instances of Reader for TLC.  The sizes a run gives its chunks and its  *)
(* reads lie on both sides of each other and of BUFFER_LIMIT, so that a    *)
(* read ends inside of a chunk, at its end and in a later one, and chunks  *)
(* are taken and refused.                                                  *)
(***************************************************************************)
EXTENDS Reader

OneToTwo == 1..2
OneToThree == 1..3
=============================================================================
