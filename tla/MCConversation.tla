--------------------------- MODULE MCConversation ---------------------------
(* Conversation on small instances: handlers are interchangeable.          *)
EXTENDS Conversation, TLC

HandlerSymmetry == Permutations(Handlers)
=============================================================================
