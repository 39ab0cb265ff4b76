----------------------------- MODULE MCUploader -----------------------------
(* A photo of two parts, and a video of a thumbnail, two parts and a cover. *)
EXTENDS Uploader

MCParts    == [photo |-> 2, video |-> 1, cover |-> 1]
MCDocParts == [photo |-> 0, video |-> 2, cover |-> 0]
MCCoverOf  == [video |-> "cover"]
=============================================================================
