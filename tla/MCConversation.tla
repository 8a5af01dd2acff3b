---------------------------- MODULE MCConversation ----------------------------
(* Conversation with two handlers and a request, a confirmation and a stop. *)
EXTENDS Conversation

CONSTANTS h1, h2, ask, confirm, cancel

Keywords == [m \in {ask, confirm, cancel} |->
               CASE m = ask -> "ask" [] m = confirm -> "confirm" [] m = cancel -> "cancel"]
=============================================================================
