------------------------------ MODULE MCBubbleTea ------------------------------
(* A small instance of BubbleTea: a chat that calls no tools, chats with two     *)
(* calls that succeed or fail, and one of which the input could not be stored.  *)
EXTENDS BubbleTea

Line(word, args, newline) == [word |-> word, args |-> args, newline |-> newline]

MCLines == {
    Blank,
    Line("text", "none", FALSE),
    Line("/", "none", FALSE),
    Line("/c", "number", FALSE),
    Line("/compact", "other", TRUE) }

Call(c) == [type |-> "call", id |-> c]
Result(c) == [type |-> "result", id |-> c]

MCChatScripts == {
    <<Message("reasoning"), Message("delta"), Message("delta"), Message("final")>>,
    <<Call("a"), Call("b"), Result("b"), Result("a"), Message("delta")>>,
    <<Call("a"), Call("b"), Result("a"), Message("error")>>,
    <<Message("error"), Call("a"), Result("a"), Message("delta")>> }
===============================================================================
