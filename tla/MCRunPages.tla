----------------------------- MODULE MCRunPages -----------------------------
(* Instances of RunPages for TLC. *)
EXTENDS RunPages
=============================================================================
