------------------------------ MODULE MCDrafts ------------------------------
(* Drafts for TLC: the constants come from the configurations. *)
EXTENDS Drafts
=============================================================================
