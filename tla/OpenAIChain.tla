------------------------------ MODULE OpenAIChain ------------------------------
(***************************************************************************)
(* The conversation of one OpenAI session (providers/openai.go).  The      *)
(* Responses API keeps it: each response extends the one its request       *)
(* names, and all the provider has is the id of the last response, moved   *)
(* on as soon as a response is complete, before its text is emitted and    *)
(* before the tools it calls have run.  A chat takes the id at its start   *)
(* and, for the results of tool calls, the id of the response that called  *)
(* them.  A compaction has the conversation summarized by a chat of its    *)
(* own, forgets the id and opens a new conversation with the summary; any  *)
(* failure puts back the id of its start.                                  *)
(*                                                                         *)
(* After a final message, also one that comes with tool calls, and after a *)
(* compaction the session-store middleware exports the id and writes it to *)
(* the session row.  (The chat's next send waits until that is done.)      *)
(* An id is abstracted to the response's place in the server's list.       *)
(***************************************************************************)
EXTENDS Naturals, Sequences

CONSTANTS
    Clients,        \* who calls Chat and PerformCompression on the session
    MaxTurns,       \* bound: chats
    MaxRounds,      \* bound: rounds of tool calls in one chat
    MaxCompactions, \* bound: compactions
    MaxBrokenOff,   \* bound: streams that end without a completed response
    MaxRestarts     \* bound: restarts of the process

ASSUME BoundsAssumption ==
    {MaxTurns, MaxRounds, MaxCompactions, MaxBrokenOff, MaxRestarts} \subseteq Nat

NoTurn == 0         \* the chats of a compaction belong to no turn
NoResponse == 0     \* the blank id
Turns == 1 .. MaxTurns

VARIABLES
    responses,      \* the server's responses: the turns each one's conversation
                    \* covers, and whether it calls tools
    previousResponseID, \* openAIState
    pc,             \* client -> step of its call
    phase,          \* client -> "chat", or "compress", "seed" of a compaction
    turn,           \* client -> turn of the chat it runs
    carried,        \* client -> turns its prompt itself stands for
    requestPreviousID,  \* client -> response its request extends, or the answer to it
    pending,        \* client -> whether the answer calls tools
    rounds,         \* client -> rounds of tool calls so far
    previousID,     \* client -> id at the start of its compaction
    exported,       \* client -> id exported for a write in progress
    row,            \* the session row's previous_response
    turns,          \* chats started
    compactions,    \* compactions started
    brokenOff,      \* streams that ended without a completed response
    restarts,       \* restarts so far
    \* History, read by the properties only:
    answered,       \* turns whose answer was saved, as far as anyone was told
    seedLost        \* whether a compaction's seeding stream was broken off

callVars  == <<phase, turn, carried, requestPreviousID, pending, rounds, previousID,
               exported>>
counters  == <<turns, compactions, brokenOff, restarts>>
history   == <<answered, seedLost>>
vars == <<responses, previousResponseID, pc, callVars, row, counters, history>>

Steps == {"idle", "waiting", "emit", "blank", "export", "update", "tools", "reseed"}

-----------------------------------------------------------------------------
Covers(id) == IF id = NoResponse THEN {} ELSE responses[id].covers

\* A response whose tool calls are to be answered before anything else is said.
CallsTools(id) == id # NoResponse /\ responses[id].calls

Init ==
    /\ responses = <<>>
    /\ previousResponseID = NoResponse
    /\ pc = [c \in Clients |-> "idle"]
    /\ phase = [c \in Clients |-> "chat"]
    /\ turn = [c \in Clients |-> NoTurn]
    /\ carried = [c \in Clients |-> {}]
    /\ requestPreviousID = [c \in Clients |-> NoResponse]
    /\ pending = [c \in Clients |-> FALSE]
    /\ rounds = [c \in Clients |-> 0]
    /\ previousID = [c \in Clients |-> NoResponse]
    /\ exported = [c \in Clients |-> NoResponse]
    /\ row = NoResponse
    /\ turns = 0 /\ compactions = 0 /\ brokenOff = 0 /\ restarts = 0
    /\ answered = {}
    /\ seedLost = FALSE

Goto(c, step) == pc' = [pc EXCEPT ![c] = step]

\* The call is over and its locals are gone.
Finish(c) ==
    /\ Goto(c, "idle")
    /\ phase' = [phase EXCEPT ![c] = "chat"]
    /\ turn' = [turn EXCEPT ![c] = NoTurn]
    /\ carried' = [carried EXCEPT ![c] = {}]
    /\ requestPreviousID' = [requestPreviousID EXCEPT ![c] = NoResponse]
    /\ pending' = [pending EXCEPT ![c] = FALSE]
    /\ rounds' = [rounds EXCEPT ![c] = 0]
    /\ previousID' = [previousID EXCEPT ![c] = NoResponse]
    /\ exported' = [exported EXCEPT ![c] = NoResponse]

-----------------------------------------------------------------------------
(* Chat.                                                                    *)

\* Mutant of StartChat: the id moves on when the response is created, not when it
\* is complete.
StartChatAtCreatedResponse(c) ==
    /\ pc[c] = "idle"
    /\ turns < MaxTurns
    /\ turns' = turns + 1
    /\ turn' = [turn EXCEPT ![c] = turns + 1]
    /\ carried' = [carried EXCEPT ![c] = {turns + 1}]
    /\ requestPreviousID' = [requestPreviousID EXCEPT ![c] = previousResponseID]
    /\ previousResponseID' = Len(responses) + 1
    /\ Goto(c, "waiting")
    /\ UNCHANGED <<responses, phase, pending, rounds, previousID, exported, row,
                   compactions, brokenOff, restarts, history>>

\* The id is read once, at the start; the API answers some time later.
StartChat(c) ==
    /\ pc[c] = "idle"
    /\ turns < MaxTurns
    /\ turns' = turns + 1
    /\ turn' = [turn EXCEPT ![c] = turns + 1]
    /\ carried' = [carried EXCEPT ![c] = {turns + 1}]
    /\ requestPreviousID' = [requestPreviousID EXCEPT ![c] = previousResponseID]
    /\ Goto(c, "waiting")
    /\ UNCHANGED <<responses, previousResponseID, phase, pending, rounds, previousID,
                   exported, row, compactions, brokenOff, restarts, history>>

\* The API refuses a prompt that leaves tool calls unanswered.
Accepted(c) == rounds[c] = 0 => ~CallsTools(requestPreviousID[c])

\* Mutant of Restore: the id is reset, the one of the start is not put back.
RestoreNothing(c) ==
    previousResponseID' = IF phase[c] = "chat" THEN previousResponseID ELSE NoResponse

\* PerformCompression's error returns put back the id of its start.
Restore(c) ==
    previousResponseID' = IF phase[c] = "chat" THEN previousResponseID ELSE previousID[c]

\* An error ends the chat; the id stays where the chat has brought it, unless
\* it is a compaction's.
Fail(c) ==
    /\ Restore(c)
    /\ Finish(c)
    /\ UNCHANGED <<responses, row, counters, history>>

\* The request fails, is cancelled or refused.
RequestFails(c) == pc[c] = "waiting" /\ Fail(c)

\* The response is complete, with or without text: the id moves on.
Completed(c) ==
    /\ pc[c] = "waiting"
    /\ Accepted(c)
    /\ \E calls \in BOOLEAN :
          /\ calls => rounds[c] < MaxRounds
          /\ pending' = [pending EXCEPT ![c] = calls]
          /\ responses' = Append(responses,
                [covers |-> carried[c] \cup Covers(requestPreviousID[c]), calls |-> calls])
    /\ previousResponseID' = Len(responses) + 1
    /\ requestPreviousID' = [requestPreviousID EXCEPT ![c] = Len(responses) + 1]
    /\ Goto(c, "emit") \/ Goto(c, "blank")
    /\ UNCHANGED <<phase, turn, carried, rounds, previousID, exported, row, counters,
                   history>>

\* The stream ends without an error and without a completed response.  What text
\* there was is emitted; the id stays, and no later request will know the turn.
BrokenOff(c) ==
    /\ pc[c] = "waiting"
    /\ Accepted(c)
    /\ brokenOff < MaxBrokenOff
    /\ brokenOff' = brokenOff + 1
    /\ turn' = [turn EXCEPT ![c] = NoTurn]
    /\ pending' = [pending EXCEPT ![c] = FALSE]
    /\ Goto(c, "emit") \/ Goto(c, "blank")
    /\ UNCHANGED <<responses, previousResponseID, phase, carried, requestPreviousID,
                   rounds, previousID, exported, row, turns, compactions, restarts,
                   history>>

\* The final of a chat is on its way to the reader.  Those of a compaction do
\* not pass the middleware.
EmitFinal(c) ==
    /\ pc[c] = "emit" /\ phase[c] = "chat"
    /\ Goto(c, "export")
    /\ UNCHANGED <<responses, previousResponseID, callVars, row, counters, history>>

\* toolOutputsFromResponse, when nothing had to be saved before.
StartTools(c) ==
    /\ pc[c] = "blank" \/ (pc[c] = "emit" /\ phase[c] # "chat")
    /\ pending[c]
    /\ Goto(c, "tools")
    /\ UNCHANGED <<responses, previousResponseID, callVars, row, counters, history>>

\* Every call succeeded; the results go to the response that made the calls.
ToolsSucceed(c) ==
    /\ pc[c] = "tools"
    /\ rounds' = [rounds EXCEPT ![c] = @ + 1]
    /\ Goto(c, "waiting")
    /\ UNCHANGED <<responses, previousResponseID, phase, turn, carried,
                   requestPreviousID, pending, previousID, exported, row, counters,
                   history>>

\* An unknown tool, unreadable arguments or a failing tool ends the chat.
ToolsFail(c) == pc[c] = "tools" /\ Fail(c)

\* The stream of a chat ends without a final and nothing is saved.
EndBlank(c) ==
    /\ pc[c] = "blank" /\ phase[c] = "chat"
    /\ ~pending[c]
    /\ Finish(c)
    /\ UNCHANGED <<responses, previousResponseID, row, counters, history>>

-----------------------------------------------------------------------------
(* PerformCompression.                                                      *)

\* The id is noted for the rollback, then a chat asks for the summary.
StartCompression(c) ==
    /\ pc[c] = "idle"
    /\ compactions < MaxCompactions
    /\ compactions' = compactions + 1
    /\ previousID' = [previousID EXCEPT ![c] = previousResponseID]
    /\ requestPreviousID' = [requestPreviousID EXCEPT ![c] = previousResponseID]
    /\ phase' = [phase EXCEPT ![c] = "compress"]
    /\ Goto(c, "waiting")
    /\ UNCHANGED <<responses, previousResponseID, turn, carried, pending, rounds,
                   exported, row, turns, brokenOff, restarts, history>>

\* One of the compaction's chats has ended without an error.
ChatEnded(c, p) == phase[c] = p /\ pc[c] \in {"emit", "blank"} /\ ~pending[c]

\* Mutant of SeedPrompt: the summary is left out.
SeedOfNothing(summarized) == {}

\* compressionSeedPromptPrefix followed by the summary.
SeedPrompt(summarized) == summarized

\* There is a summary, perhaps from text that came with tool calls: the id is
\* forgotten...
Summarized(c) ==
    /\ ChatEnded(c, "compress")
    /\ pc[c] = "blank" => rounds[c] > 0
    /\ carried' = [carried EXCEPT ![c] = SeedPrompt(Covers(requestPreviousID[c]))]
    /\ previousResponseID' = NoResponse
    /\ Goto(c, "reseed")
    /\ UNCHANGED <<responses, phase, turn, requestPreviousID, pending, rounds,
                   previousID, exported, row, counters, history>>

\* ...and the second chat is started with the summary.
SeedCompressedContext(c) ==
    /\ pc[c] = "reseed"
    /\ requestPreviousID' = [requestPreviousID EXCEPT ![c] = previousResponseID]
    /\ phase' = [phase EXCEPT ![c] = "seed"]
    /\ rounds' = [rounds EXCEPT ![c] = 0]
    /\ Goto(c, "waiting")
    /\ UNCHANGED <<responses, previousResponseID, turn, carried, pending, previousID,
                   exported, row, counters, history>>

\* The second chat's answer does not matter, nor whether there is one.
Seeded(c) ==
    /\ ChatEnded(c, "seed")
    /\ seedLost' = (\/ seedLost
                    \/ requestPreviousID[c] = NoResponse
                    \/ CallsTools(requestPreviousID[c]))
    /\ Goto(c, "export")
    /\ UNCHANGED <<responses, previousResponseID, callVars, row, counters, answered>>

\* The summary is blank, or the context ended while one of the chats did.
CompressionFails(c) ==
    /\ ChatEnded(c, "compress") \/ ChatEnded(c, "seed")
    /\ Fail(c)

-----------------------------------------------------------------------------
(* Saving: after a chat's final (captureMessage) or a finished compaction    *)
(* (syncSessionFromProvider).                                                *)

ExportPreviousResponse(c) ==
    /\ pc[c] = "export"
    /\ exported' = [exported EXCEPT ![c] = previousResponseID]
    /\ Goto(c, "update")
    /\ UNCHANGED <<responses, previousResponseID, phase, turn, carried,
                   requestPreviousID, pending, rounds, previousID, row, counters,
                   history>>

\* The write is over, and a chat goes on with its tools or ends.
Saved(c) ==
    IF phase[c] = "chat" /\ pending[c]
    THEN /\ Goto(c, "tools")
         /\ exported' = [exported EXCEPT ![c] = NoResponse]
         /\ UNCHANGED <<phase, turn, carried, requestPreviousID, pending, rounds,
                        previousID>>
    ELSE Finish(c)

UpdateSession(c) ==
    /\ pc[c] = "update"
    /\ row' = IF exported[c] = NoResponse THEN row ELSE exported[c]
    /\ answered' = answered \cup ({turn[c]} \ {NoTurn})
    /\ Saved(c)
    /\ UNCHANGED <<responses, previousResponseID, counters, seedLost>>

UpdateSessionFails(c) ==
    /\ pc[c] = "update"
    /\ Saved(c)
    /\ UNCHANGED <<responses, previousResponseID, row, counters, history>>

-----------------------------------------------------------------------------
\* Mutant of ImportPreviousResponse: a restarted session starts afresh.
ImportNothing(serialized) == NoResponse

ImportPreviousResponse(serialized) == serialized

\* The process stops at any moment and the session is built again from its row.
Restart ==
    /\ restarts < MaxRestarts
    /\ restarts' = restarts + 1
    /\ previousResponseID' = ImportPreviousResponse(row)
    /\ pc' = [c \in Clients |-> "idle"]
    /\ phase' = [c \in Clients |-> "chat"]
    /\ turn' = [c \in Clients |-> NoTurn]
    /\ carried' = [c \in Clients |-> {}]
    /\ requestPreviousID' = [c \in Clients |-> NoResponse]
    /\ pending' = [c \in Clients |-> FALSE]
    /\ rounds' = [c \in Clients |-> 0]
    /\ previousID' = [c \in Clients |-> NoResponse]
    /\ exported' = [c \in Clients |-> NoResponse]
    /\ UNCHANGED <<responses, row, turns, compactions, brokenOff, history>>

ChatStep(c) ==
    \/ StartChat(c) \/ RequestFails(c) \/ Completed(c) \/ BrokenOff(c)
    \/ EmitFinal(c) \/ StartTools(c) \/ ToolsSucceed(c) \/ ToolsFail(c) \/ EndBlank(c)
CompressionStep(c) ==
    \/ StartCompression(c) \/ Summarized(c) \/ SeedCompressedContext(c)
    \/ Seeded(c) \/ CompressionFails(c)
SaveStep(c) ==
    \/ ExportPreviousResponse(c) \/ UpdateSession(c) \/ UpdateSessionFails(c)

Next ==
    \/ \E c \in Clients : ChatStep(c) \/ CompressionStep(c) \/ SaveStep(c)
    \/ Restart

Spec == Init /\ [][Next]_vars

-----------------------------------------------------------------------------
(* Properties                                                               *)

ResponseIds == NoResponse .. Len(responses)

TypeOK ==
    /\ responses \in Seq([covers : SUBSET Turns, calls : BOOLEAN])
    /\ {previousResponseID, row} \subseteq ResponseIds
    /\ pc \in [Clients -> Steps]
    /\ phase \in [Clients -> {"chat", "compress", "seed"}]
    /\ turn \in [Clients -> Turns \cup {NoTurn}]
    /\ carried \in [Clients -> SUBSET Turns]
    /\ requestPreviousID \in [Clients -> ResponseIds]
    /\ pending \in [Clients -> BOOLEAN]
    /\ rounds \in [Clients -> 0 .. MaxRounds]
    /\ previousID \in [Clients -> ResponseIds]
    /\ exported \in [Clients -> ResponseIds]
    /\ turns \in 0 .. MaxTurns
    /\ compactions \in 0 .. MaxCompactions
    /\ brokenOff \in 0 .. MaxBrokenOff
    /\ restarts \in 0 .. MaxRestarts
    /\ answered \subseteq Turns
    /\ seedLost \in BOOLEAN

\* README.md 126: the row "holds the Responses API response id", so that sessions
\* "resume across restarts".  A restarted session can go on: the saved response
\* does not wait for the results of tool calls.
PersistedCursorIsUsable == ~CallsTools(row)

\* The conversation the row leads to covers every turn that was answered and
\* saved, verbatim or in a summary, whatever failed, was compacted or cut short
\* since, unless a seeding stream was broken off, which the code takes for a
\* success (seedCompressedContext, streamResponse).
NothingForgotten == seedLost \/ answered \subseteq Covers(row)

\* So does the conversation that a chat's prompt extends, also right after a
\* failed compaction, a failed save or a restart.
RequestsCarryTheConversation ==
    \A c \in Clients :
        pc[c] = "waiting" /\ phase[c] = "chat" =>
            seedLost \/ answered \subseteq Covers(requestPreviousID[c]) \cup carried[c]

\* A compaction that ends, well or not, leaves the session at the response it
\* found, or at one that stands for all of it and awaits a prompt: neither of its
\* two chats, with their tool calls and failures, shows (PerformCompression's
\* reset and set).
CompactionIsAllOrNothing ==
    [][\A c \in Clients :
          phase[c] # "chat" /\ pc'[c] = "idle" /\ restarts' = restarts =>
              \/ seedLost
              \/ previousResponseID' = previousID[c]
              \/ /\ ~CallsTools(previousResponseID')
                 /\ Covers(previousID[c]) \subseteq Covers(previousResponseID')]_vars
===============================================================================
