--------------------------- MODULE MCConversations ---------------------------
(* Small instances of Conversations. *)
EXTENDS Conversations
=============================================================================
