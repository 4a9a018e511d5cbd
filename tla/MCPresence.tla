----------------------------- MODULE MCPresence -----------------------------
(* Presence with the window and the timeout given by the configuration. *)
EXTENDS Presence
=============================================================================
