----------------------------- MODULE MCChannel -----------------------------
(* Small instances of ChannelUpdates for TLC. *)
EXTENDS ChannelUpdates
=============================================================================
