----------------------------- MODULE MCUpdates -----------------------------
(* Small instances of Updates for TLC. *)
EXTENDS UpdatesInvariant
=============================================================================
