---------------------------- MODULE MCConversation ----------------------------
(***************************************************************************)
(* TLC's instance of Conversation.                                         *)
(***************************************************************************)
EXTENDS Conversation, TLC

Alike == Permutations(Tools)
=============================================================================
