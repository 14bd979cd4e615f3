----------------------------- MODULE MCPresence -----------------------------
(* Presence with the values its configurations name. *)
EXTENDS Presence

CONSTANTS a1, a2, c1, c2
=============================================================================
