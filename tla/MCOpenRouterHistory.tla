------------------------- MODULE MCOpenRouterHistory -------------------------
(* Small instances of OpenRouterHistory: one client whose chats, compactions  *)
(* and restarts follow each other, or two that share the session.             *)
EXTENDS OpenRouterHistory
===============================================================================
