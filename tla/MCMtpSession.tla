---------------------------- MODULE MCMtpSession ----------------------------
(* Two requests and an event, or one request and two events. *)
EXTENDS MtpSession
=============================================================================
