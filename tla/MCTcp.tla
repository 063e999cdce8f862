------------------------------- MODULE MCTcp -------------------------------
(***************************************************************************)
(* A write of two does not fit a buffer of one and is always partial.      *)
(***************************************************************************)
EXTENDS Tcp, TLC
=============================================================================
