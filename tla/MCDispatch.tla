----------------------------- MODULE MCDispatch -----------------------------
(***************************************************************************)
(* A chain of three workloads: the middle one is imported and imports.     *)
(* With two permits one call through the chain takes all of them, and the  *)
(* three pools keep more idle instances than the allocator has slots.      *)
(***************************************************************************)
EXTENDS Dispatch, TLC

CONSTANTS front, middle, back

MCImports == front :> {middle} @@ middle :> {back} @@ back :> {}

MCLimit == front :> 1 @@ middle :> 2 @@ back :> 1
MCPoolSize == front :> 1 @@ middle :> 1 @@ back :> 1
=============================================================================
