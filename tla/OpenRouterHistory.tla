--------------------------- MODULE OpenRouterHistory ---------------------------
(***************************************************************************)
(* The conversation of one OpenRouter session (providers/openrouter.go).   *)
(* The API is stateless: every request carries the whole history, which    *)
(* the provider keeps in memory behind a mutex that is held for a single   *)
(* append, snapshot or replace only.  A chat appends its prompt, then      *)
(* loops: ask, append the assistant's message, run its tool calls, append  *)
(* their results.  A compaction has the history summarized by a chat of    *)
(* its own, replaces it by nothing and seeds it with the summary by a      *)
(* second chat; any failure puts back the snapshot taken at its start.     *)
(* After a final message, and after a compaction, the session-store        *)
(* middleware exports the history and then writes it to the session row,   *)
(* from which a restarted process resumes.                                 *)
(*                                                                         *)
(* Clients is one terminal or Telegram user, or several SSH clients that   *)
(* were given the same -session-id.  What a message says is abstracted to  *)
(* the turn it belongs to; a summary, to the turns it is a summary of.     *)
(***************************************************************************)
EXTENDS Naturals, Sequences, SequencesExt, FiniteSets

CONSTANTS
    Clients,        \* who calls Chat and PerformCompression on the session
    MaxTurns,       \* bound: chats
    MaxRounds,      \* bound: rounds of tool calls in one chat
    MaxCompactions, \* bound: compactions
    MaxRestarts     \* bound: restarts of the process

ASSUME BoundsAssumption ==
    {MaxTurns, MaxRounds, MaxCompactions, MaxRestarts} \subseteq Nat

NoTurn == 0         \* the prompts and answers of a compaction belong to no turn
Roles == {"user", "text", "calls", "results", "seed"}
Messages == [role : Roles, turn : 0 .. MaxTurns, covers : SUBSET (1 .. MaxTurns)]

VARIABLES
    history,        \* openRouterState.messages
    pc,             \* client -> step of its call
    phase,          \* client -> "chat", or "compress", "seed" of a compaction
    turn,           \* client -> turn of the chat it runs
    rounds,         \* client -> rounds of tool calls so far
    asked,          \* client -> history its last request carried
    previous,       \* client -> previousMessages of its compaction
    exported,       \* client -> history exported for a write in progress
    row,            \* the session row's previous_response
    turns,          \* chats started
    compactions,    \* compactions started
    restarts,       \* restarts so far
    answered        \* history: turns whose answer was saved, as far as anyone was told

clientVars == <<phase, turn, rounds, asked, previous, exported>>
counters   == <<turns, compactions, restarts>>
vars == <<history, pc, clientVars, row, counters, answered>>

Steps == {"idle", "request", "waiting", "tools", "emit", "blank", "reseed",
          "export", "update"}

-----------------------------------------------------------------------------
Message(role, t) == [role |-> role, turn |-> t, covers |-> {}]

\* Mutant of SeedMessage: the summary is left out.
SeedOfNothing(covers) == [role |-> "seed", turn |-> NoTurn]

\* compressionSeedPromptPrefix followed by the summary.
SeedMessage(covers) == [role |-> "seed", turn |-> NoTurn, covers |-> covers]

\* The turns whose answers a history holds, verbatim or in a summary.
Covers(h) ==
    {m.turn : m \in {x \in ToSet(h) : x.role = "text" /\ x.turn # NoTurn}}
        \cup UNION {m.covers : m \in ToSet(h)}

\* What the API accepts: tool calls are followed at once by their results, and
\* results follow their calls.
WellFormed(h) ==
    \A i \in DOMAIN h :
        /\ h[i].role = "calls" =>
              i < Len(h) /\ h[i + 1].role = "results" /\ h[i + 1].turn = h[i].turn
        /\ h[i].role = "results" =>
              i > 1 /\ h[i - 1].role = "calls" /\ h[i - 1].turn = h[i].turn

Init ==
    /\ history = <<>>
    /\ pc = [c \in Clients |-> "idle"]
    /\ phase = [c \in Clients |-> "chat"]
    /\ turn = [c \in Clients |-> NoTurn]
    /\ rounds = [c \in Clients |-> 0]
    /\ asked = [c \in Clients |-> <<>>]
    /\ previous = [c \in Clients |-> <<>>]
    /\ exported = [c \in Clients |-> <<>>]
    /\ row = <<>>
    /\ turns = 0 /\ compactions = 0 /\ restarts = 0
    /\ answered = {}

Goto(c, step) == pc' = [pc EXCEPT ![c] = step]

\* The call is over and its locals are gone.
Finish(c) ==
    /\ Goto(c, "idle")
    /\ phase' = [phase EXCEPT ![c] = "chat"]
    /\ turn' = [turn EXCEPT ![c] = NoTurn]
    /\ rounds' = [rounds EXCEPT ![c] = 0]
    /\ asked' = [asked EXCEPT ![c] = <<>>]
    /\ previous' = [previous EXCEPT ![c] = <<>>]
    /\ exported' = [exported EXCEPT ![c] = <<>>]

-----------------------------------------------------------------------------
(* Chat.                                                                    *)

\* Chat appends the prompt before it asks for anything.
StartChat(c) ==
    /\ pc[c] = "idle"
    /\ turns < MaxTurns
    /\ turns' = turns + 1
    /\ turn' = [turn EXCEPT ![c] = turns + 1]
    /\ history' = Append(history, Message("user", turns + 1))
    /\ Goto(c, "request")
    /\ UNCHANGED <<phase, rounds, asked, previous, exported, row, compactions,
                   restarts, answered>>

\* buildParams takes a snapshot; the API answers some time later.
Ask(c) ==
    /\ pc[c] = "request"
    /\ asked' = [asked EXCEPT ![c] = history]
    /\ Goto(c, "waiting")
    /\ UNCHANGED <<history, phase, turn, rounds, previous, exported, row,
                   counters, answered>>

\* Mutant of Restore: the history is cleared, the snapshot is not put back.
RestoreNothing(c) == history' = IF phase[c] = "chat" THEN history ELSE <<>>

\* PerformCompression's error returns put back the history of its start.
Restore(c) == history' = IF phase[c] = "chat" THEN history ELSE previous[c]

\* An error ends the chat.  What it appended stays in the history, unless it is
\* a compaction's.
Fail(c) ==
    /\ Restore(c)
    /\ Finish(c)
    /\ UNCHANGED <<row, counters, answered>>

\* The request fails, is cancelled or, if malformed, rejected.
RequestFails(c) == pc[c] = "waiting" /\ Fail(c)

\* Mutant of AnswerText: a response with text is final even if it calls tools.
AnswerTextDespiteCalls(c) ==
    /\ pc[c] = "waiting"
    /\ WellFormed(asked[c])
    /\ \E role \in {"text", "calls"} :
          history' = Append(history, Message(role, turn[c]))
    /\ Goto(c, "emit")
    /\ UNCHANGED <<clientVars, row, counters, answered>>

\* The response calls no tools: its message, which may be blank, is appended
\* before the final is emitted.
AnswerText(c) ==
    /\ pc[c] = "waiting"
    /\ WellFormed(asked[c])
    /\ history' = Append(history, Message("text", turn[c]))
    /\ Goto(c, "emit") \/ Goto(c, "blank")
    /\ UNCHANGED <<clientVars, row, counters, answered>>

AnswerCalls(c) ==
    /\ pc[c] = "waiting"
    /\ WellFormed(asked[c])
    /\ rounds[c] < MaxRounds
    /\ rounds' = [rounds EXCEPT ![c] = @ + 1]
    /\ history' = Append(history, Message("calls", turn[c]))
    /\ Goto(c, "tools")
    /\ UNCHANGED <<phase, turn, asked, previous, exported, row, counters, answered>>

\* runToolCalls: every call succeeded; the results are appended together.
ToolsSucceed(c) ==
    /\ pc[c] = "tools"
    /\ history' = Append(history, Message("results", turn[c]))
    /\ Goto(c, "request")
    /\ UNCHANGED <<clientVars, row, counters, answered>>

\* An unknown tool, unreadable arguments or a failing tool ends the chat, with
\* its calls left unanswered in the history.
ToolsFail(c) == pc[c] = "tools" /\ Fail(c)

\* The stream ends.  A blank answer has no final message and is not captured; it
\* fails a compaction's first chat, whose summary it should have been.
EndBlank(c) ==
    /\ pc[c] = "blank"
    /\ \/ phase[c] = "chat" /\ Finish(c) /\ UNCHANGED history
       \/ phase[c] = "compress" /\ Restore(c) /\ Finish(c)
       \/ phase[c] = "seed" /\ Goto(c, "export") /\ UNCHANGED <<history, clientVars>>
    /\ UNCHANGED <<row, counters, answered>>

-----------------------------------------------------------------------------
(* PerformCompression.                                                      *)

\* The snapshot for the rollback is taken, then a chat asks for the summary.
StartCompression(c) ==
    /\ pc[c] = "idle"
    /\ compactions < MaxCompactions
    /\ compactions' = compactions + 1
    /\ previous' = [previous EXCEPT ![c] = history]
    /\ phase' = [phase EXCEPT ![c] = "compress"]
    /\ history' = Append(history, Message("user", NoTurn))
    /\ Goto(c, "request")
    /\ UNCHANGED <<turn, rounds, asked, exported, row, turns, restarts, answered>>

\* There is a summary, perhaps from text that came with tool calls, and the
\* history is replaced by nothing...
Summarized(c) ==
    /\ phase[c] = "compress"
    /\ pc[c] = "emit" \/ (pc[c] = "blank" /\ rounds[c] > 0)
    /\ history' = <<>>
    /\ Goto(c, "reseed")
    /\ UNCHANGED <<clientVars, row, counters, answered>>

\* ...to which the second chat appends its prompt.
SeedCompressedContext(c) ==
    /\ pc[c] = "reseed"
    /\ history' = Append(history, SeedMessage(Covers(asked[c])))
    /\ phase' = [phase EXCEPT ![c] = "seed"]
    /\ rounds' = [rounds EXCEPT ![c] = 0]
    /\ Goto(c, "request")
    /\ UNCHANGED <<turn, asked, previous, exported, row, counters, answered>>

\* The context ended while one of the two chats did.
CompressionCancelled(c) ==
    /\ pc[c] \in {"emit", "blank"}
    /\ phase[c] # "chat"
    /\ Fail(c)

-----------------------------------------------------------------------------
(* Saving: after a chat's final (captureMessage) or a finished compaction    *)
(* (syncSessionFromProvider).                                                *)

EmitFinal(c) ==
    /\ pc[c] = "emit" /\ phase[c] # "compress"
    /\ Goto(c, "export")
    /\ UNCHANGED <<history, clientVars, row, counters, answered>>

ExportPreviousResponse(c) ==
    /\ pc[c] = "export"
    /\ exported' = [exported EXCEPT ![c] = history]
    /\ Goto(c, "update")
    /\ UNCHANGED <<history, phase, turn, rounds, asked, previous, row, counters,
                   answered>>

UpdateSession(c) ==
    /\ pc[c] = "update"
    /\ row' = IF exported[c] = <<>> THEN row ELSE exported[c]
    /\ answered' = answered \cup ({turn[c]} \ {NoTurn})
    /\ Finish(c)
    /\ UNCHANGED <<history, counters>>

UpdateSessionFails(c) ==
    /\ pc[c] = "update"
    /\ Finish(c)
    /\ UNCHANGED <<history, row, counters, answered>>

-----------------------------------------------------------------------------
\* Mutant of ImportPreviousResponse: a restarted session starts afresh.
ImportNothing(serialized) == <<>>

ImportPreviousResponse(serialized) == serialized

\* The process stops at any moment and the session is built again from its row.
Restart ==
    /\ restarts < MaxRestarts
    /\ restarts' = restarts + 1
    /\ history' = ImportPreviousResponse(row)
    /\ pc' = [c \in Clients |-> "idle"]
    /\ phase' = [c \in Clients |-> "chat"]
    /\ turn' = [c \in Clients |-> NoTurn]
    /\ rounds' = [c \in Clients |-> 0]
    /\ asked' = [c \in Clients |-> <<>>]
    /\ previous' = [c \in Clients |-> <<>>]
    /\ exported' = [c \in Clients |-> <<>>]
    /\ UNCHANGED <<row, turns, compactions, answered>>

ChatStep(c) ==
    \/ StartChat(c) \/ Ask(c) \/ RequestFails(c) \/ AnswerText(c) \/ AnswerCalls(c)
    \/ ToolsSucceed(c) \/ ToolsFail(c) \/ EndBlank(c)
CompressionStep(c) ==
    \/ StartCompression(c) \/ Summarized(c) \/ SeedCompressedContext(c)
    \/ CompressionCancelled(c)
SaveStep(c) ==
    \/ EmitFinal(c) \/ ExportPreviousResponse(c) \/ UpdateSession(c)
    \/ UpdateSessionFails(c)

Next ==
    \/ \E c \in Clients : ChatStep(c) \/ CompressionStep(c) \/ SaveStep(c)
    \/ Restart

Spec == Init /\ [][Next]_vars

-----------------------------------------------------------------------------
(* Properties                                                               *)

TypeOK ==
    /\ {history, row} \subseteq Seq(Messages)
    /\ pc \in [Clients -> Steps]
    /\ phase \in [Clients -> {"chat", "compress", "seed"}]
    /\ turn \in [Clients -> 0 .. MaxTurns]
    /\ rounds \in [Clients -> 0 .. MaxRounds]
    /\ asked \in [Clients -> Seq(Messages)]
    /\ previous \in [Clients -> Seq(Messages)]
    /\ exported \in [Clients -> Seq(Messages)]
    /\ turns \in 0 .. MaxTurns
    /\ compactions \in 0 .. MaxCompactions
    /\ restarts \in 0 .. MaxRestarts
    /\ answered \subseteq 1 .. MaxTurns

\* openrouter.go 330-331: the assistant turn is appended before any final or
\* tool message "so the persisted cursor is consistent and complete".  What is
\* saved is always a history the API accepts, although the history in memory is
\* not while tools run or after one failed: a restart gets the session going
\* again, and a saved history never makes every later request fail.
PersistedHistoryIsConsistent == WellFormed(row)

\* README.md 126: the row "holds the full conversation history so sessions
\* resume across restarts".  Every turn that was answered and saved stays in the
\* row, verbatim or in a summary, whatever failed or was compacted since.
NothingForgotten == answered \subseteq Covers(row)

\* The stateless API is never asked without the conversation so far: a chat's
\* request carries all turns answered before it, also right after a failed
\* compaction or a restart.
RequestsCarryTheConversation ==
    \A c \in Clients :
        pc[c] = "waiting" /\ phase[c] = "chat" => answered \subseteq Covers(asked[c])
===============================================================================
