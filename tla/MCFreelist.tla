----------------------------- MODULE MCFreelist -----------------------------
(* The instance of Freelist for TLC. *)
EXTENDS Freelist
=============================================================================
