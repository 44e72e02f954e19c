----------------------------- MODULE MCMatroska -----------------------------
(***************************************************************************)
(* Instances of Matroska for TLC.                                          *)
(***************************************************************************)
EXTENDS Matroska
=============================================================================
