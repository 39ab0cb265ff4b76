---------------------------- MODULE MCDownloads ----------------------------
(* A file and a stream of two parts each. *)
EXTENDS Downloads

MCParts == [file |-> 2, stream |-> 2]
=============================================================================
