---------------------------- MODULE MCGuestTime ----------------------------
(***************************************************************************)
(* Slices of two epochs; execution times shorter than a slice, and of      *)
(* several slices of which the last is shorter.                            *)
(***************************************************************************)
EXTENDS GuestTime

MCExecTimes == {1, 3}
=============================================================================
