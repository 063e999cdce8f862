------------------------------ MODULE MCEngine ------------------------------
(***************************************************************************)
(* Applications whose manifests differ in the permits they take, which are *)
(* two in all.                                                             *)
(***************************************************************************)
EXTENDS Engine, TLC

CONSTANTS a1, a2

\* The second manifest leaves no permit to the invocations of the first.
StarvingServiceCount == a1 :> 0 @@ a2 :> 2
LightServiceCount == a1 :> 0 @@ a2 :> 0
=============================================================================
