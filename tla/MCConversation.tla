--------------------------- MODULE MCConversation ---------------------------
(* Model-checking instances of Conversation. *)
EXTENDS Conversation

MCSchedule == <<2, 0>>
=============================================================================
