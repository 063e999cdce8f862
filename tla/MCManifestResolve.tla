-------------------------- MODULE MCManifestResolve --------------------------
(***************************************************************************)
(* Every manifest of three workloads, each importing any set of the three  *)
(* and of an unknown name, and of one service that does the same.          *)
(***************************************************************************)
EXTENDS ManifestResolve
=============================================================================
