--------------------------- MODULE MCConversation ---------------------------
(***************************************************************************)
(* A conversation on small instances.                                      *)
(***************************************************************************)
EXTENDS Conversation

=============================================================================
