--------------------------- MODULE MCStreamPipeline ---------------------------
(* Small instances of StreamPipeline: one stream, a turn of two or three       *)
(* messages.  The /compact of another client meets it in the barrier run;      *)
(* failing writes and readers that give up meet it in the storage run.         *)
EXTENDS StreamPipeline

\* A turn with a tool call after some text; a final followed by token usage.
LongTurn == [s \in Streams |-> <<"delta", "tool", "final">>]
ShortTurn == [s \in Streams |-> <<"final", "usage">>]
===============================================================================
