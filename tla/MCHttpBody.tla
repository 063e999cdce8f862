----------------------------- MODULE MCHttpBody -----------------------------
(***************************************************************************)
(* Chunks that fit the window once, twice, or not at all.                  *)
(***************************************************************************)
EXTENDS HttpBody
=============================================================================
