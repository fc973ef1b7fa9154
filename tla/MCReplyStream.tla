----------------------------- MODULE MCReplyStream -----------------------------
(* Two or three calls and two pieces of each source. *)
EXTENDS ReplyStream
===============================================================================
