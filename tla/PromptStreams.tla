---------------------------- MODULE PromptStreams ----------------------------
(***************************************************************************)
(* What every front end shares: the slash commands a user may type         *)
(* (tui/commands/commands.go) and the stream a submitted line opens        *)
(* (tui/stream_consumer.go).                                               *)
(*                                                                         *)
(* A line is its first word, what follows it - nothing, a positive number, *)
(* anything else - and whether it has a line break.  A message of a stream *)
(* is its type and, for tool calls and results, the id of the call.        *)
(***************************************************************************)
EXTENDS Naturals, Sequences, SequencesExt

CONSTANTS
    Lines,          \* the lines a user may have in the input box
    CallIds,        \* ids of tool calls; providers need not make them unique
    ChatScripts     \* the streams a chat may turn out to be

Types == {"delta", "final", "reasoning", "reasoningFinal", "call", "result",
          "usage", "status", "error"}
Message(type) == [type |-> type, id |-> "none"]
Messages == [type : Types, id : CallIds \cup {"none"}]

Words == {"", "text", "/", "/c", "/e", "/x", "/compact", "/exit", "/quit"}
Blank == [word |-> "", args |-> "none", newline |-> FALSE]

ASSUME PromptAssumption ==
    /\ Lines \subseteq [word : Words, args : {"none", "number", "other"},
                        newline : BOOLEAN]
    /\ Blank \in Lines
    /\ ChatScripts \subseteq Seq(Messages)
    /\ "none" \notin CallIds

\* buildToolCalls refuses a call without an id, and the calls of a response are all
\* emitted before their results.  A call whose result is not emitted failed: then the
\* provider ends its stream with an Error, as it does when it is cancelled.
Answers(msg, id) == msg.type = "error" \/ (msg.type = "result" /\ msg.id = id)
CallsAnswered(msgs) ==
    \A i \in DOMAIN msgs : msgs[i].type = "call" =>
        /\ msgs[i].id \in CallIds
        /\ \E j \in DOMAIN msgs : i < j /\ Answers(msgs[j], msgs[i].id)

ASSUME ProviderAssumption == \A script \in ChatScripts : CallsAnswered(script)

-----------------------------------------------------------------------------
(* The slash commands.                                                      *)

KnownSuggestions == <<"/compact", "/exit", "/quit">>

\* Does the command begin with w?
Begins(w, command) ==
    \/ w \in {"/", command}
    \/ w = "/c" /\ command = "/compact"
    \/ w = "/e" /\ command = "/exit"

SuggestionsForPrefix(w) ==
    LET OnlyIf(command) == IF Begins(w, command) THEN <<command>> ELSE <<>>
    IN  (OnlyIf("/compact") \o OnlyIf("/exit")) \o OnlyIf("/quit")

\* SplitSlashCommandInput: only a single line is a command line.
IsSlashInput(line) == ~line.newline /\ line.word \notin {"", "text"}

\* Parse: a command's kind, "usage" for a /compact that cannot be understood.
\* /exit with an argument is no command.
Parse(line) ==
    IF line.word = "/compact"
    THEN IF line.args = "other" THEN "usage" ELSE "compact"
    ELSE IF line.word \in {"/exit", "/quit"} /\ line.args = "none"
    THEN "exit"
    ELSE "none"

IsExit(line) == Parse(line) = "exit"
IsBlankLine(line) == line.word = "" /\ line.args = "none"

-----------------------------------------------------------------------------
(* The stream of a line: singleErrorStream, startCommandStream's goroutine, *)
(* or the provider's chat.                                                  *)

CompactScripts ==
    { <<Message("error")>>,
      <<Message("status"), Message("delta"), Message("final")>>,
      <<Message("status"), Message("usage"), Message("delta"), Message("final")>> }

StreamsOf(line) ==
    CASE Parse(line) = "usage" -> {<<Message("error")>>}
      [] Parse(line) = "compact" -> CompactScripts
      [] OTHER -> ChatScripts
=============================================================================
