------------------------------ MODULE MCFormat ------------------------------
(***************************************************************************)
(* An instance of Format for TLC: files of every kind, shorter and longer  *)
(* than a probe.                                                           *)
(***************************************************************************)
EXTENDS Format
=============================================================================
