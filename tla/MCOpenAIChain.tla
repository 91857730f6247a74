----------------------------- MODULE MCOpenAIChain -----------------------------
(* A small instance of OpenAIChain: one client whose chats, compactions and    *)
(* restarts follow each other.                                                 *)
EXTENDS OpenAIChain
===============================================================================
