--------------------------- MODULE OpenAIChain_proofs ---------------------------
(***************************************************************************)
(* Proofs about the conversation of an OpenAI session with one client, for *)
(* any number of turns, rounds of tool calls, compactions, broken off      *)
(* streams and restarts: no saved answer is forgotten, every prompt        *)
(* extends the conversation, and a compaction is all or nothing.  The      *)
(* types hold for any number of clients (ChainTyped).                      *)
(***************************************************************************)
EXTENDS OpenAIChain, TLAPS

\* The session has one client: with two, one may move the id back under the other.
Alone == \A c, d \in Clients : c = d

-----------------------------------------------------------------------------
(* Types, as far as the argument needs them.                                *)

Records == [covers : SUBSET Nat, calls : BOOLEAN]

ChainTypes ==
    /\ responses \in Seq(Records)
    /\ previousResponseID \in ResponseIds /\ row \in ResponseIds
    /\ pc \in [Clients -> Steps]
    /\ phase \in [Clients -> {"chat", "compress", "seed"}]
    /\ turn \in [Clients -> Nat]
    /\ carried \in [Clients -> SUBSET Nat]
    /\ requestPreviousID \in [Clients -> ResponseIds]
    /\ previousID \in [Clients -> ResponseIds]
    /\ exported \in [Clients -> ResponseIds]
    /\ turns \in Nat /\ restarts \in Nat

LEMMA TypesInit == Init => ChainTypes
  BY DEF Init, ChainTypes, ResponseIds, NoResponse, NoTurn, Steps

\* What a response covers are turns.
LEMMA CoversTurns ==
    ASSUME responses \in Seq(Records), NEW id \in ResponseIds
    PROVE  Covers(id) \subseteq Nat
<1>1. CASE id = NoResponse
  BY <1>1 DEF Covers
<1>2. CASE id # NoResponse
  <2>1. id \in 1 .. Len(responses)
    BY <1>2 DEF ResponseIds, NoResponse
  <2>2. responses[id] \in Records
    BY <2>1
  <2> QED
    BY <1>2, <2>2 DEF Covers, Records
<1> QED
  BY <1>1, <1>2

\* One more response leaves the others where they are.
LEMMA OneMoreResponse ==
    ASSUME responses \in Seq(Records), NEW r \in Records,
           responses' = Append(responses, r)
    PROVE  /\ responses' \in Seq(Records)
           /\ Len(responses) + 1 \in ResponseIds'
           /\ ResponseIds \subseteq ResponseIds'
           /\ \A id \in ResponseIds : Covers(id)' = Covers(id)
           /\ responses'[Len(responses) + 1] = r
           /\ Len(responses) + 1 # NoResponse
<1>1. /\ responses' \in Seq(Records) /\ Len(responses) \in Nat
      /\ Len(responses') = Len(responses) + 1
      /\ \A id \in 1 .. Len(responses) : responses'[id] = responses[id]
      /\ responses'[Len(responses) + 1] = r
  OBVIOUS
<1>2. \A id \in ResponseIds : id # NoResponse => id \in 1 .. Len(responses)
  BY <1>1 DEF ResponseIds, NoResponse
<1>3. \A id \in ResponseIds : Covers(id)' = Covers(id)
  BY <1>1, <1>2 DEF Covers
<1> QED
  BY <1>1, <1>3 DEF ResponseIds, NoResponse

\* A step that adds no response keeps the set of ids.
LEMMA TypesFinish ==
    ASSUME ChainTypes, NEW c \in Clients, Finish(c), responses' = responses,
           previousResponseID' \in ResponseIds, row' \in ResponseIds, UNCHANGED <<turns, restarts>>
    PROVE  ChainTypes'
<1>1. ResponseIds' = ResponseIds /\ NoResponse \in ResponseIds
  BY DEF ResponseIds, NoResponse, ChainTypes
<1> HIDE DEF ResponseIds
<1> QED
  BY <1>1 DEF ChainTypes, Finish, Goto, Steps, NoTurn

\* The record that a completed response becomes.
LEMMA CompletedResponse ==
    ASSUME ChainTypes, NEW c \in Clients, Completed(c)
    PROVE  \E r \in Records :
              /\ responses' = Append(responses, r)
              /\ r.covers = carried[c] \cup Covers(requestPreviousID[c])
<1>1. PICK calls \in BOOLEAN : responses' = Append(responses,
                [covers |-> carried[c] \cup Covers(requestPreviousID[c]), calls |-> calls])
  BY DEF Completed
<1>2. Covers(requestPreviousID[c]) \subseteq Nat
  BY CoversTurns DEF ChainTypes
<1> DEFINE r == [covers |-> carried[c] \cup Covers(requestPreviousID[c]), calls |-> calls]
<1>3. r \in Records
  BY <1>2 DEF ChainTypes, Records
<1> QED
  BY <1>1, <1>3

\* The chat's steps.
LEMMA TypesChat ==
    ASSUME ChainTypes, NEW c \in Clients, ChatStep(c)
    PROVE  ChainTypes'
<1>1. CASE StartChat(c)
  <2>1. turns + 1 \in Nat
    BY DEF ChainTypes
  <2> QED
    BY <1>1, <2>1 DEF StartChat, Goto, ChainTypes, ResponseIds, Steps
<1>2. CASE RequestFails(c) \/ ToolsFail(c)
  <2>1. previousResponseID' \in ResponseIds
    BY <1>2 DEF RequestFails, ToolsFail, Fail, Restore, ChainTypes
  <2> QED
    BY <1>2, <2>1, TypesFinish DEF RequestFails, ToolsFail, Fail, ChainTypes, counters
<1>3. CASE Completed(c)
  <2>1. PICK r \in Records : responses' = Append(responses, r)
    BY <1>3, CompletedResponse
  <2>2. /\ responses' \in Seq(Records) /\ Len(responses) + 1 \in ResponseIds'
        /\ ResponseIds \subseteq ResponseIds'
    BY <2>1, OneMoreResponse DEF ChainTypes
  <2>3. pc' \in [Clients -> Steps]
    BY <1>3 DEF Completed, Goto, ChainTypes, Steps
  <2>4. /\ previousResponseID' = Len(responses) + 1
        /\ requestPreviousID' = [requestPreviousID EXCEPT ![c] = Len(responses) + 1]
        /\ UNCHANGED <<phase, turn, carried, previousID, exported, row, turns, restarts>>
    BY <1>3 DEF Completed, counters
  <2> HIDE DEF ResponseIds
  <2> QED
    BY <2>2, <2>3, <2>4 DEF ChainTypes
<1>4. CASE BrokenOff(c)
  BY <1>4 DEF BrokenOff, Goto, ChainTypes, ResponseIds, Steps, NoTurn
<1>5. CASE EmitFinal(c) \/ StartTools(c)
  BY <1>5 DEF EmitFinal, StartTools, Goto, ChainTypes, ResponseIds, Steps, callVars, counters
<1>6. CASE ToolsSucceed(c)
  BY <1>6 DEF ToolsSucceed, Goto, ChainTypes, ResponseIds, Steps, counters
<1>7. CASE EndBlank(c)
  BY <1>7, TypesFinish DEF EndBlank, ChainTypes, counters
<1> QED
  BY <1>1, <1>2, <1>3, <1>4, <1>5, <1>6, <1>7 DEF ChatStep

\* The compaction's steps.
LEMMA TypesCompression ==
    ASSUME ChainTypes, NEW c \in Clients, CompressionStep(c)
    PROVE  ChainTypes'
<1>1. CASE StartCompression(c)
  BY <1>1 DEF StartCompression, Goto, ChainTypes, ResponseIds, Steps
<1>2. CASE Summarized(c)
  <2>1. Covers(requestPreviousID[c]) \subseteq Nat
    BY CoversTurns DEF ChainTypes
  <2> QED
    BY <1>2, <2>1 DEF Summarized, SeedPrompt, Goto, ChainTypes, ResponseIds, NoResponse,
                      Steps, counters
<1>3. CASE SeedCompressedContext(c)
  BY <1>3 DEF SeedCompressedContext, Goto, ChainTypes, ResponseIds, Steps, counters
<1>4. CASE Seeded(c)
  BY <1>4 DEF Seeded, Goto, ChainTypes, ResponseIds, Steps, callVars, counters
<1>5. CASE CompressionFails(c)
  <2>1. previousResponseID' \in ResponseIds
    BY <1>5 DEF CompressionFails, Fail, Restore, ChainTypes
  <2> QED
    BY <1>5, <2>1, TypesFinish DEF CompressionFails, Fail, ChainTypes, counters
<1> QED
  BY <1>1, <1>2, <1>3, <1>4, <1>5 DEF CompressionStep

\* Saving, and what follows it.
LEMMA TypesSave ==
    ASSUME ChainTypes, NEW c \in Clients, SaveStep(c)
    PROVE  ChainTypes'
<1>1. CASE ExportPreviousResponse(c)
  BY <1>1 DEF ExportPreviousResponse, Goto, ChainTypes, ResponseIds, Steps, counters
<1>2. CASE UpdateSession(c) \/ UpdateSessionFails(c)
  <2>1. /\ responses' = responses /\ previousResponseID' \in ResponseIds
        /\ row' \in ResponseIds /\ UNCHANGED <<turns, restarts>> /\ Saved(c)
    BY <1>2 DEF UpdateSession, UpdateSessionFails, ChainTypes, counters
  <2>2. CASE Finish(c)
    BY <2>1, <2>2, TypesFinish
  <2>3. CASE /\ Goto(c, "tools")
             /\ exported' = [exported EXCEPT ![c] = NoResponse]
             /\ UNCHANGED <<phase, turn, carried, requestPreviousID, pending, rounds,
                            previousID>>
    BY <2>1, <2>3 DEF Goto, ChainTypes, ResponseIds, NoResponse, Steps
  <2> QED
    BY <2>1, <2>2, <2>3 DEF Saved
<1> QED
  BY <1>1, <1>2 DEF SaveStep

LEMMA TypesStep ==
    ASSUME ChainTypes, [Next]_vars
    PROVE  ChainTypes'
<1>1. CASE \E c \in Clients : ChatStep(c) \/ CompressionStep(c) \/ SaveStep(c)
  BY <1>1, TypesChat, TypesCompression, TypesSave
<1>2. CASE Restart
  BY <1>2 DEF Restart, ImportPreviousResponse, ChainTypes, ResponseIds, NoResponse, NoTurn,
              Steps
<1>3. CASE UNCHANGED vars
  BY <1>3 DEF vars, callVars, counters, ChainTypes, ResponseIds
<1> QED
  BY <1>1, <1>2, <1>3 DEF Next
-----------------------------------------------------------------------------
(* The inductive invariant.  It says where the conversation is at each step *)
(* of a call: at the id the provider keeps, at the one a compaction has     *)
(* noted, or in the summary that is about to be sent.                       *)

\* A call's request, or the answer to it, is the last response of the session,
\* but for the moment in which a compaction has forgotten the id.
Following(c) == pc[c] \notin {"idle", "reseed"} => requestPreviousID[c] = previousResponseID

\* The id leads to all that was answered, and once it is complete to the answer
\* of the running chat too, unless its stream was broken off.
ChatInv(c) ==
    phase[c] = "chat" =>
        /\ pc[c] # "reseed"
        /\ pc[c] = "idle" => turn[c] = NoTurn
        /\ answered \subseteq Covers(previousResponseID)
        /\ turn[c] # NoTurn => turn[c] \in carried[c]
        /\ turn[c] # NoTurn /\ pc[c] # "waiting" => turn[c] \in Covers(previousResponseID)

\* The id noted for the rollback does, as long as the compaction runs.
CompactionInv(c) ==
    phase[c] # "chat" =>
        /\ pc[c] # "idle"
        /\ turn[c] = NoTurn
        /\ answered \subseteq Covers(previousID[c])

\* The first chat extends the conversation; then the summary stands for it.
CompressInv(c) ==
    phase[c] = "compress" =>
        /\ pc[c] \in {"waiting", "emit", "blank", "tools", "reseed"}
        /\ pc[c] # "reseed" => Covers(previousID[c]) \subseteq Covers(previousResponseID)
        /\ pc[c] = "reseed" => /\ previousResponseID = NoResponse
                               /\ Covers(previousID[c]) \subseteq carried[c]

\* The second chat's prompt carries the summary into every response.
SeedInv(c) ==
    phase[c] = "seed" =>
        /\ pc[c] # "reseed"
        /\ Covers(previousID[c]) \subseteq carried[c]
        /\ \/ previousResponseID = NoResponse
           \/ Covers(previousID[c]) \subseteq Covers(previousResponseID)
        /\ pc[c] \in {"export", "update"} =>
              previousResponseID # NoResponse /\ ~CallsTools(previousResponseID)

\* What is about to be written is the session's id.
SavingInv(c) == pc[c] = "update" => exported[c] = previousResponseID

CallInv(c) == /\ Following(c) /\ ChatInv(c) /\ CompactionInv(c)
              /\ CompressInv(c) /\ SeedInv(c) /\ SavingInv(c)

ChainInv == ~seedLost => /\ answered \subseteq Covers(row)
                         /\ \A c \in Clients : CallInv(c)

LEMMA ChainInit == Init => ChainInv
  BY DEF Init, ChainInv, CallInv, Following, ChatInv, CompactionInv, CompressInv, SeedInv,
         SavingInv

-----------------------------------------------------------------------------
(* The step.                                                                *)

\* When a call is over, the id must lead to all that was answered.
LEMMA FinishInv ==
    ASSUME ChainTypes, NEW c \in Clients, Finish(c),
           answered' \subseteq Covers(previousResponseID)'
    PROVE  CallInv(c)'
<1>1. pc'[c] = "idle" /\ phase'[c] = "chat" /\ turn'[c] = NoTurn
  BY DEF Finish, Goto, ChainTypes
<1> QED
  BY <1>1 DEF CallInv, Following, ChatInv, CompactionInv, CompressInv, SeedInv, SavingInv

\* An error leaves the conversation where the call found it, or has brought it.
LEMMA FailInv ==
    ASSUME ChainTypes, NEW c \in Clients, CallInv(c), Fail(c)
    PROVE  CallInv(c)'
<1>1. answered' \subseteq Covers(previousResponseID)'
  BY DEF Fail, Restore, CallInv, ChatInv, CompactionInv, Covers, history
<1> QED
  BY <1>1, FinishInv DEF Fail

\* A response is complete.
LEMMA CompletedInv ==
    ASSUME ChainTypes, NEW c \in Clients, CallInv(c), Completed(c)
    PROVE  CallInv(c)'
<1>1. PICK r \in Records :
          /\ responses' = Append(responses, r)
          /\ r.covers = carried[c] \cup Covers(requestPreviousID[c])
  BY CompletedResponse
<1>2. /\ pc[c] = "waiting" /\ pc'[c] \in {"emit", "blank"}
      /\ previousResponseID' = Len(responses) + 1
      /\ requestPreviousID'[c] = Len(responses) + 1
      /\ UNCHANGED <<phase, turn, carried, previousID, answered>>
  BY DEF Completed, Goto, ChainTypes, history
<1>3. /\ \A id \in ResponseIds : Covers(id)' = Covers(id)
      /\ Covers(previousResponseID)' = carried[c] \cup Covers(previousResponseID)
  <2>1. /\ \A id \in ResponseIds : Covers(id)' = Covers(id)
        /\ responses'[Len(responses) + 1] = r /\ Len(responses) + 1 # NoResponse
    BY <1>1, OneMoreResponse DEF ChainTypes
  <2>2. requestPreviousID[c] = previousResponseID
    BY <1>2 DEF CallInv, Following
  <2> QED
    BY <2>1, <2>2, <1>1, <1>2 DEF Covers
<1>4. Covers(previousID[c])' = Covers(previousID[c])
  BY <1>2, <1>3 DEF ChainTypes, Covers
<1> QED
  BY <1>2, <1>3, <1>4 DEF CallInv, Following, ChatInv, CompactionInv, CompressInv, SeedInv,
                          SavingInv

\* The other steps of a chat.
LEMMA ChatStepInv ==
    ASSUME ChainTypes, NEW c \in Clients, CallInv(c), ChatStep(c)
    PROVE  CallInv(c)'
<1>1. CASE StartChat(c)
  <2>1. /\ pc[c] = "idle" /\ pc'[c] = "waiting" /\ turn'[c] = turns + 1
        /\ carried'[c] = {turns + 1} /\ requestPreviousID'[c] = previousResponseID
        /\ UNCHANGED <<responses, previousResponseID, phase, answered>>
    BY <1>1 DEF StartChat, Goto, ChainTypes, history
  <2> QED
    BY <2>1 DEF CallInv, Following, ChatInv, CompactionInv, CompressInv, SeedInv, SavingInv,
                Covers
<1>2. CASE RequestFails(c) \/ ToolsFail(c)
  BY <1>2, FailInv DEF RequestFails, ToolsFail
<1>3. CASE Completed(c)
  BY <1>3, CompletedInv
<1>4. CASE BrokenOff(c)
  <2>1. /\ pc[c] = "waiting" /\ pc'[c] \in {"emit", "blank"} /\ turn'[c] = NoTurn
        /\ UNCHANGED <<responses, previousResponseID, phase, carried, requestPreviousID,
                       previousID, answered>>
    BY <1>4 DEF BrokenOff, Goto, ChainTypes, history
  <2> QED
    BY <2>1 DEF CallInv, Following, ChatInv, CompactionInv, CompressInv, SeedInv, SavingInv,
                Covers
<1>5. CASE EmitFinal(c) \/ StartTools(c) \/ ToolsSucceed(c)
  <2>1. /\ \/ pc[c] = "emit" /\ phase[c] = "chat" /\ pc'[c] = "export"
           \/ pc[c] \in {"emit", "blank"} /\ pc'[c] = "tools"
           \/ pc[c] = "tools" /\ pc'[c] = "waiting"
        /\ UNCHANGED <<responses, previousResponseID, phase, turn, carried,
                       requestPreviousID, previousID, answered>>
    BY <1>5 DEF EmitFinal, StartTools, ToolsSucceed, Goto, ChainTypes, callVars, history
  <2> QED
    BY <2>1 DEF CallInv, Following, ChatInv, CompactionInv, CompressInv, SeedInv, SavingInv,
                Covers
<1>6. CASE EndBlank(c)
  <2>1. answered' \subseteq Covers(previousResponseID)'
    BY <1>6 DEF EndBlank, CallInv, ChatInv, Covers, history
  <2> QED
    BY <1>6, <2>1, FinishInv DEF EndBlank
<1> QED
  BY <1>1, <1>2, <1>3, <1>4, <1>5, <1>6 DEF ChatStep

\* The steps of a compaction, unless its seeding stream is broken off.
LEMMA CompressionStepInv ==
    ASSUME ChainTypes, NEW c \in Clients, CallInv(c), CompressionStep(c), ~seedLost'
    PROVE  CallInv(c)'
<1>1. CASE StartCompression(c)
  <2>1. /\ pc[c] = "idle" /\ pc'[c] = "waiting" /\ phase'[c] = "compress"
        /\ previousID'[c] = previousResponseID /\ requestPreviousID'[c] = previousResponseID
        /\ UNCHANGED <<responses, previousResponseID, turn, answered>>
    BY <1>1 DEF StartCompression, Goto, ChainTypes, history
  <2> QED
    BY <2>1 DEF CallInv, Following, ChatInv, CompactionInv, CompressInv, SeedInv, SavingInv,
                Covers
<1>2. CASE Summarized(c)
  <2>1. /\ pc[c] \in {"emit", "blank"} /\ pc'[c] = "reseed" /\ phase[c] = "compress"
        /\ carried'[c] = Covers(requestPreviousID[c]) /\ previousResponseID' = NoResponse
        /\ UNCHANGED <<responses, phase, turn, previousID, answered>>
    BY <1>2 DEF Summarized, ChatEnded, SeedPrompt, Goto, ChainTypes, history
  <2>2. requestPreviousID[c] = previousResponseID
    BY <2>1 DEF CallInv, Following
  <2> QED
    BY <2>1, <2>2 DEF CallInv, Following, ChatInv, CompactionInv, CompressInv, SeedInv,
                      SavingInv, Covers
<1>3. CASE SeedCompressedContext(c)
  <2>1. /\ pc[c] = "reseed" /\ pc'[c] = "waiting" /\ phase'[c] = "seed"
        /\ requestPreviousID'[c] = previousResponseID
        /\ UNCHANGED <<responses, previousResponseID, turn, carried, previousID, answered>>
    BY <1>3 DEF SeedCompressedContext, Goto, ChainTypes, history
  <2>2. phase[c] = "compress"
    BY <2>1 DEF CallInv, ChatInv, SeedInv, ChainTypes
  <2> QED
    BY <2>1, <2>2 DEF CallInv, Following, ChatInv, CompactionInv, CompressInv, SeedInv,
                      SavingInv, Covers
<1>4. CASE Seeded(c)
  <2>1. /\ pc[c] \in {"emit", "blank"} /\ pc'[c] = "export" /\ phase[c] = "seed"
        /\ requestPreviousID[c] # NoResponse /\ ~CallsTools(requestPreviousID[c])
        /\ UNCHANGED <<responses, previousResponseID, phase, turn, carried,
                       requestPreviousID, previousID, answered>>
    BY <1>4 DEF Seeded, ChatEnded, Goto, ChainTypes, callVars
  <2> QED
    BY <2>1 DEF CallInv, Following, ChatInv, CompactionInv, CompressInv, SeedInv, SavingInv,
                Covers, CallsTools
<1>5. CASE CompressionFails(c)
  BY <1>5, FailInv DEF CompressionFails
<1> QED
  BY <1>1, <1>2, <1>3, <1>4, <1>5 DEF CompressionStep

\* Where a call is that has something to save.
LEMMA SavedInv ==
    ASSUME ChainTypes, NEW c \in Clients, CallInv(c), pc[c] = "update", Saved(c),
           UNCHANGED <<responses, previousResponseID>>,
           answered' \subseteq Covers(previousResponseID)
    PROVE  CallInv(c)'
<1>1. CASE Finish(c)
  BY <1>1, FinishInv DEF Covers
<1>2. CASE ~Finish(c)
  <2>1. /\ phase[c] = "chat" /\ pc'[c] = "tools"
        /\ UNCHANGED <<phase, turn, carried, requestPreviousID, previousID>>
    BY <1>2 DEF Saved, Goto, ChainTypes
  <2> QED
    BY <2>1 DEF CallInv, Following, ChatInv, CompactionInv, CompressInv, SeedInv, SavingInv,
                Covers
<1> QED
  BY <1>1, <1>2

\* What a call that saves covers.
LEMMA SavingCovers ==
    ASSUME ChainTypes, NEW c \in Clients, CallInv(c), pc[c] = "update"
    PROVE  /\ exported[c] = previousResponseID
           /\ answered \subseteq Covers(previousResponseID)
           /\ turn[c] # NoTurn => turn[c] \in Covers(previousResponseID)
<1>1. phase[c] \in {"chat", "seed"}
  BY DEF CallInv, CompressInv, ChainTypes
<1>2. CASE phase[c] = "chat"
  BY <1>2 DEF CallInv, ChatInv, SavingInv
<1>3. CASE phase[c] = "seed"
  BY <1>3 DEF CallInv, CompactionInv, SeedInv, SavingInv
<1> QED
  BY <1>1, <1>2, <1>3

LEMMA SaveStepInv ==
    ASSUME ChainTypes, NEW c \in Clients, CallInv(c), SaveStep(c)
    PROVE  CallInv(c)'
<1>1. CASE ExportPreviousResponse(c)
  <2>1. /\ pc[c] = "export" /\ pc'[c] = "update" /\ exported'[c] = previousResponseID
        /\ UNCHANGED <<responses, previousResponseID, phase, turn, carried,
                       requestPreviousID, previousID, answered>>
    BY <1>1 DEF ExportPreviousResponse, Goto, ChainTypes, history
  <2> QED
    BY <2>1 DEF CallInv, Following, ChatInv, CompactionInv, CompressInv, SeedInv, SavingInv,
                Covers, CallsTools
<1>2. CASE UpdateSession(c)
  <2>1. answered' \subseteq Covers(previousResponseID)
    BY <1>2, SavingCovers DEF UpdateSession
  <2> QED
    BY <1>2, <2>1, SavedInv DEF UpdateSession
<1>3. CASE UpdateSessionFails(c)
  <2>1. answered' \subseteq Covers(previousResponseID)
    BY <1>3, SavingCovers DEF UpdateSessionFails, history
  <2> QED
    BY <1>3, <2>1, SavedInv DEF UpdateSessionFails
<1> QED
  BY <1>1, <1>2, <1>3 DEF SaveStep

\* The row leads to all that was answered, in every step.
LEMMA RowStep ==
    ASSUME ChainTypes, NEW c \in Clients, CallInv(c), answered \subseteq Covers(row),
           ChatStep(c) \/ CompressionStep(c) \/ SaveStep(c)
    PROVE  answered' \subseteq Covers(row)'
<1>1. CASE Completed(c)
  <2>1. PICK r \in Records : responses' = Append(responses, r)
    BY <1>1, CompletedResponse
  <2>2. row' = row /\ answered' = answered
    BY <1>1 DEF Completed, history
  <2>3. \A id \in ResponseIds : Covers(id)' = Covers(id)
    BY <2>1, OneMoreResponse DEF ChainTypes
  <2> QED
    BY <2>2, <2>3 DEF ChainTypes, Covers
<1>2. CASE UpdateSession(c)
  <2>1. /\ row' = IF exported[c] = NoResponse THEN row ELSE exported[c]
        /\ responses' = responses /\ pc[c] = "update"
        /\ answered' = answered \cup ({turn[c]} \ {NoTurn})
    BY <1>2 DEF UpdateSession
  <2>2. CASE exported[c] = NoResponse
    <3>1. turn[c] = NoTurn
      BY <2>1, <2>2, SavingCovers DEF Covers
    <3> QED
      BY <2>1, <2>2, <3>1 DEF Covers
  <2>3. CASE exported[c] # NoResponse
    BY <2>1, <2>3, SavingCovers DEF Covers
  <2> QED
    BY <2>2, <2>3
<1>3. CASE ~Completed(c) /\ ~UpdateSession(c)
  <2>1. UNCHANGED <<responses, row, answered>>
    BY <1>3 DEF ChatStep, StartChat, RequestFails, BrokenOff, EmitFinal, StartTools,
                ToolsSucceed, ToolsFail, EndBlank, CompressionStep, StartCompression,
                Summarized, SeedCompressedContext, Seeded, CompressionFails, SaveStep,
                ExportPreviousResponse, UpdateSessionFails, Fail, history
  <2> QED
    BY <2>1 DEF Covers
<1> QED
  BY <1>1, <1>2, <1>3

\* A broken-off seeding stream is never forgotten.
LEMMA SeedLostStays ==
    ASSUME seedLost, [Next]_vars
    PROVE  seedLost'
  BY DEF Next, ChatStep, StartChat, RequestFails, Completed, BrokenOff, EmitFinal,
         StartTools, ToolsSucceed, ToolsFail, EndBlank, CompressionStep, StartCompression,
         Summarized, SeedCompressedContext, Seeded, CompressionFails, SaveStep,
         ExportPreviousResponse, UpdateSession, UpdateSessionFails, Fail, Restart,
         history, vars

LEMMA ChainStep ==
    ASSUME Alone, ChainTypes, ChainInv, [Next]_vars
    PROVE  ChainInv'
<1> SUFFICES ASSUME ~seedLost'
             PROVE  answered' \subseteq Covers(row)' /\ \A c \in Clients : CallInv(c)'
  BY DEF ChainInv
<1>1. ~seedLost
  BY SeedLostStays
<1>2. answered \subseteq Covers(row) /\ \A c \in Clients : CallInv(c)
  BY <1>1 DEF ChainInv
<1>3. ASSUME NEW c \in Clients, ChatStep(c) \/ CompressionStep(c) \/ SaveStep(c)
      PROVE  answered' \subseteq Covers(row)' /\ \A d \in Clients : CallInv(d)'
  <2>1. CallInv(c)'
    BY <1>2, <1>3, ChatStepInv, CompressionStepInv, SaveStepInv
  <2>2. \A d \in Clients : d = c
    BY DEF Alone
  <2>3. answered' \subseteq Covers(row)'
    BY <1>2, <1>3, RowStep
  <2> QED
    BY <2>1, <2>2, <2>3
<1>4. CASE Restart
  <2>1. /\ UNCHANGED <<responses, row, answered>> /\ previousResponseID' = row
        /\ \A c \in Clients :
              pc'[c] = "idle" /\ phase'[c] = "chat" /\ turn'[c] = NoTurn
    BY <1>4 DEF Restart, ImportPreviousResponse, history
  <2> QED
    BY <1>2, <2>1 DEF CallInv, Following, ChatInv, CompactionInv, CompressInv, SeedInv,
                      SavingInv, Covers
<1>5. CASE UNCHANGED vars
  BY <1>2, <1>5 DEF vars, callVars, history, CallInv, Following, ChatInv, CompactionInv,
                    CompressInv, SeedInv, SavingInv, Covers, CallsTools
<1> QED
  BY <1>3, <1>4, <1>5 DEF Next
-----------------------------------------------------------------------------
(* What follows for every behaviour.                                        *)

LEMMA ChainInvariant == ASSUME Alone PROVE Spec => [](ChainTypes /\ ChainInv)
<1>1. Init => ChainTypes /\ ChainInv
  BY TypesInit, ChainInit
<1>2. ChainTypes /\ ChainInv /\ [Next]_vars => (ChainTypes /\ ChainInv)'
  BY TypesStep, ChainStep
<1> QED
  BY <1>1, <1>2, PTL DEF Spec

\* The conversation the row leads to covers every answer that was saved, whatever
\* failed, was compacted or cut short since.
THEOREM SavedAnswersKept == ASSUME Alone PROVE Spec => []NothingForgotten
<1>1. ChainInv => NothingForgotten
  BY DEF ChainInv, NothingForgotten
<1> QED
  BY <1>1, ChainInvariant, PTL

\* So does the conversation that a chat's prompt extends.
THEOREM PromptsExtend == ASSUME Alone PROVE Spec => []RequestsCarryTheConversation
<1>1. ChainInv => RequestsCarryTheConversation
  BY DEF ChainInv, CallInv, Following, ChatInv, RequestsCarryTheConversation
<1> QED
  BY <1>1, ChainInvariant, PTL

\* A compaction's last step.
LEMMA CompactionEnds ==
    ASSUME Alone, ChainTypes, ChainInv, [Next]_vars, NEW c \in Clients, ~seedLost,
           phase[c] # "chat", pc'[c] = "idle", restarts' = restarts
    PROVE  \/ previousResponseID' = previousID[c]
           \/ /\ ~CallsTools(previousResponseID')
              /\ Covers(previousID[c]) \subseteq Covers(previousResponseID')
<1>1. CallInv(c)
  BY DEF ChainInv
<1>2. pc[c] # "idle"
  BY <1>1 DEF CallInv, CompactionInv
<1>3. ~Restart /\ ~UNCHANGED vars
  BY <1>2 DEF Restart, vars, ChainTypes
<1>4. ChatStep(c) \/ CompressionStep(c) \/ SaveStep(c)
  BY <1>3 DEF Next, Alone
<1>5. CASE Fail(c)
  BY <1>5 DEF Fail, Restore
<1>6. CASE UpdateSession(c) \/ UpdateSessionFails(c)
  <2>1. pc[c] = "update" /\ previousResponseID' = previousResponseID
    BY <1>6 DEF UpdateSession, UpdateSessionFails
  <2>2. phase[c] = "seed"
    BY <1>1, <2>1 DEF CallInv, CompressInv, ChainTypes
  <2> QED
    BY <1>1, <2>1, <2>2 DEF CallInv, SeedInv
<1>7. CASE ~Fail(c) /\ ~UpdateSession(c) /\ ~UpdateSessionFails(c)
  <2>1. ~EndBlank(c)
    BY DEF EndBlank
  <2>2. pc'[c] # "idle"
    BY <1>4, <1>7, <2>1 DEF ChatStep, StartChat, RequestFails, Completed, BrokenOff, EmitFinal,
          StartTools, ToolsSucceed, ToolsFail, CompressionStep, StartCompression, Summarized,
          SeedCompressedContext, Seeded, CompressionFails, SaveStep, ExportPreviousResponse,
          Goto, ChainTypes
  <2> QED
    BY <2>2
<1> QED
  BY <1>5, <1>6, <1>7

\* A compaction that ends leaves the session at the response it found, or at one
\* that stands for all of it and awaits a prompt.
THEOREM AllOrNothing == ASSUME Alone PROVE Spec => CompactionIsAllOrNothing
<1> DEFINE Whole ==
        \A c \in Clients :
            phase[c] # "chat" /\ pc'[c] = "idle" /\ restarts' = restarts =>
                \/ seedLost
                \/ previousResponseID' = previousID[c]
                \/ /\ ~CallsTools(previousResponseID')
                   /\ Covers(previousID[c]) \subseteq Covers(previousResponseID')
<1>1. ChainTypes /\ ChainInv /\ [Next]_vars => [Whole]_vars
  BY CompactionEnds
<1>2. Spec => [][Whole]_vars
  <2> HIDE DEF Whole
  <2> QED
    BY <1>1, ChainInvariant, PTL DEF Spec
<1> QED
  BY <1>2 DEF CompactionIsAllOrNothing
-----------------------------------------------------------------------------
(* The bounds of TypeOK, for any number of clients. *)

\* Turns that were started, and nothing else, are covered, carried and answered.
TurnsOK ==
    /\ \A k \in 1 .. Len(responses) : responses[k].covers \subseteq Turns
    /\ turn \in [Clients -> Turns \cup {NoTurn}]
    /\ carried \in [Clients -> SUBSET Turns]
    /\ answered \subseteq Turns
    /\ turns \in 0 .. MaxTurns

\* A chat that is about to run tools has a round left for their results.
RoundsOK ==
    /\ pending \in [Clients -> BOOLEAN]
    /\ rounds \in [Clients -> 0 .. MaxRounds]
    /\ \A c \in Clients :
          /\ pc[c] \in {"emit", "blank", "export", "update", "tools"} /\ pending[c] =>
                rounds[c] < MaxRounds
          /\ pc[c] = "tools" => pending[c]

CountersOK ==
    /\ compactions \in 0 .. MaxCompactions
    /\ brokenOff \in 0 .. MaxBrokenOff
    /\ restarts \in 0 .. MaxRestarts
    /\ seedLost \in BOOLEAN

\* What a response covers are turns that were started.
LEMMA CoversStarted ==
    ASSUME ChainTypes, TurnsOK, NEW id \in ResponseIds
    PROVE  Covers(id) \subseteq Turns
BY DEF ChainTypes, TurnsOK, ResponseIds, NoResponse, Covers

\* A response covers what its prompt carries and what it extends.
LEMMA TurnsStep ==
    ASSUME ChainTypes, TurnsOK, [Next]_vars
    PROVE  TurnsOK'
<1> USE DEF counters, callVars, history
<1>1. ASSUME responses' = responses,
             NEW c \in Clients, Finish(c) \/ UNCHANGED <<turn, carried>>,
             answered' \subseteq Turns, turns' = turns
      PROVE  TurnsOK'
  BY <1>1 DEF TurnsOK, Finish, NoTurn
<1>2. answered \subseteq Turns
  BY DEF TurnsOK
<1>3. ASSUME NEW c \in Clients, StartChat(c)
      PROVE  TurnsOK'
  <2>1. turns < MaxTurns /\ turns' = turns + 1 /\ turns \in Nat /\ MaxTurns \in Nat
    BY <1>3, BoundsAssumption DEF StartChat, TurnsOK
  <2>2. turns + 1 \in Turns /\ turns' \in 0 .. MaxTurns
    BY <2>1 DEF Turns
  <2> QED
    BY <1>3, <2>2 DEF StartChat, TurnsOK
<1>4. ASSUME NEW c \in Clients, Completed(c)
      PROVE  TurnsOK'
  <2>1. PICK r \in Records : /\ responses' = Append(responses, r)
                             /\ r.covers = carried[c] \cup Covers(requestPreviousID[c])
    BY <1>4, CompletedResponse
  <2>2. r.covers \subseteq Turns
    BY <2>1, CoversStarted DEF ChainTypes, TurnsOK
  <2>3. \A k \in 1 .. Len(responses') : responses'[k].covers \subseteq Turns
    BY <2>1, <2>2 DEF ChainTypes, TurnsOK
  <2> QED
    BY <1>4, <2>3 DEF Completed, TurnsOK
<1>5. ASSUME NEW c \in Clients, BrokenOff(c)
      PROVE  TurnsOK'
  BY <1>5 DEF BrokenOff, TurnsOK
<1>6. ASSUME NEW c \in Clients,
             \/ RequestFails(c) \/ ToolsFail(c) \/ CompressionFails(c) \/ EndBlank(c)
      PROVE  TurnsOK'
  BY <1>1, <1>2, <1>6 DEF RequestFails, ToolsFail, CompressionFails, EndBlank, Fail
<1>7. ASSUME NEW c \in Clients,
             \/ EmitFinal(c) \/ StartTools(c) \/ ToolsSucceed(c) \/ StartCompression(c)
             \/ SeedCompressedContext(c) \/ Seeded(c) \/ ExportPreviousResponse(c)
      PROVE  TurnsOK'
  BY <1>1, <1>2, <1>7 DEF EmitFinal, StartTools, ToolsSucceed, StartCompression,
     SeedCompressedContext, Seeded, ExportPreviousResponse
<1>8. ASSUME NEW c \in Clients, Summarized(c)
      PROVE  TurnsOK'
  <2>1. Covers(requestPreviousID[c]) \subseteq Turns
    BY CoversStarted DEF ChainTypes
  <2> QED
    BY <1>8, <2>1 DEF Summarized, SeedPrompt, TurnsOK
<1>9. ASSUME NEW c \in Clients, UpdateSession(c) \/ UpdateSessionFails(c)
      PROVE  TurnsOK'
  <2>1. answered' \subseteq answered \cup ({turn[c]} \ {NoTurn})
    BY <1>9 DEF UpdateSession, UpdateSessionFails
  <2>2. answered' \subseteq Turns
    BY <2>1 DEF TurnsOK
  <2> QED
    BY <1>1, <1>9, <2>2 DEF UpdateSession, UpdateSessionFails, Saved
<1>10. CASE Restart
  BY <1>10 DEF Restart, TurnsOK
<1>11. CASE UNCHANGED vars
  BY <1>11 DEF vars, TurnsOK
<1> QED
  BY <1>3, <1>4, <1>5, <1>6, <1>7, <1>8, <1>9, <1>10, <1>11
     DEF Next, ChatStep, CompressionStep, SaveStep

\* A round is counted when its results go back, and there was one left for it.
LEMMA RoundsStep ==
    ASSUME ChainTypes, RoundsOK, [Next]_vars
    PROVE  RoundsOK'
<1> USE DEF callVars, Goto
<1>0. pc \in [Clients -> Steps] /\ MaxRounds \in Nat
  BY BoundsAssumption DEF ChainTypes
<1>1. ASSUME NEW c \in Clients, Finish(c)
      PROVE  RoundsOK'
  BY <1>0, <1>1 DEF Finish, RoundsOK
<1>2. ASSUME NEW c \in Clients, NEW s \in {"waiting", "reseed"},
             pc' = [pc EXCEPT ![c] = s], UNCHANGED <<pending, rounds>>
      PROVE  RoundsOK'
  BY <1>0, <1>2 DEF RoundsOK
<1>3. ASSUME NEW c \in Clients, pc[c] \in {"emit", "blank", "export", "update"},
             NEW s \in {"emit", "blank", "export", "update", "tools"},
             s = "tools" => pending[c],
             pc' = [pc EXCEPT ![c] = s], UNCHANGED <<pending, rounds>>
      PROVE  RoundsOK'
  BY <1>0, <1>3 DEF RoundsOK
<1>4. ASSUME NEW c \in Clients,
             \/ RequestFails(c) \/ ToolsFail(c) \/ CompressionFails(c) \/ EndBlank(c)
      PROVE  RoundsOK'
  BY <1>1, <1>4 DEF RequestFails, ToolsFail, CompressionFails, EndBlank, Fail
<1>5. ASSUME NEW c \in Clients, StartChat(c) \/ StartCompression(c) \/ Summarized(c)
      PROVE  RoundsOK'
  BY <1>2, <1>5 DEF StartChat, StartCompression, Summarized
<1>6. ASSUME NEW c \in Clients,
             EmitFinal(c) \/ StartTools(c) \/ Seeded(c) \/ ExportPreviousResponse(c)
      PROVE  RoundsOK'
  BY <1>3, <1>6 DEF EmitFinal, StartTools, Seeded, ChatEnded, ExportPreviousResponse
<1>7. ASSUME NEW c \in Clients, Completed(c)
      PROVE  RoundsOK'
  <2>1. PICK calls \in BOOLEAN :
            (calls => rounds[c] < MaxRounds) /\ pending' = [pending EXCEPT ![c] = calls]
    BY <1>7 DEF Completed
  <2>2. rounds' = rounds /\ \E s \in {"emit", "blank"} : pc' = [pc EXCEPT ![c] = s]
    BY <1>7 DEF Completed
  <2> QED
    BY <1>0, <2>1, <2>2 DEF RoundsOK
<1>8. ASSUME NEW c \in Clients, BrokenOff(c)
      PROVE  RoundsOK'
  <2>1. /\ pending' = [pending EXCEPT ![c] = FALSE] /\ rounds' = rounds
        /\ \E s \in {"emit", "blank"} : pc' = [pc EXCEPT ![c] = s]
    BY <1>8 DEF BrokenOff
  <2> QED
    BY <1>0, <2>1 DEF RoundsOK
<1>9. ASSUME NEW c \in Clients, ToolsSucceed(c)
      PROVE  RoundsOK'
  <2>1. /\ pc[c] = "tools" /\ rounds' = [rounds EXCEPT ![c] = @ + 1]
        /\ pc' = [pc EXCEPT ![c] = "waiting"] /\ pending' = pending
    BY <1>9 DEF ToolsSucceed
  <2>2. rounds[c] + 1 \in 0 .. MaxRounds
    BY <1>0, <2>1 DEF RoundsOK
  <2> QED
    BY <1>0, <2>1, <2>2 DEF RoundsOK
<1>10. ASSUME NEW c \in Clients, SeedCompressedContext(c)
       PROVE  RoundsOK'
  <2>1. /\ rounds' = [rounds EXCEPT ![c] = 0] /\ pending' = pending
        /\ pc' = [pc EXCEPT ![c] = "waiting"]
    BY <1>10 DEF SeedCompressedContext
  <2> QED
    BY <1>0, <2>1 DEF RoundsOK
<1>11. ASSUME NEW c \in Clients, UpdateSession(c) \/ UpdateSessionFails(c)
       PROVE  RoundsOK'
  BY <1>1, <1>3, <1>11 DEF UpdateSession, UpdateSessionFails, Saved
<1>12. CASE Restart
  BY <1>0, <1>12 DEF Restart, RoundsOK
<1>13. CASE UNCHANGED vars
  BY <1>13 DEF vars, RoundsOK
<1> QED
  BY <1>4, <1>5, <1>6, <1>7, <1>8, <1>9, <1>10, <1>11, <1>12, <1>13
     DEF Next, ChatStep, CompressionStep, SaveStep

\* The bounds of the model.
LEMMA CountersStep ==
    ASSUME CountersOK, [Next]_vars
    PROVE  CountersOK'
<1> USE DEF counters, history
<1>1. {MaxCompactions, MaxBrokenOff, MaxRestarts} \subseteq Nat
  BY BoundsAssumption
<1>2. UNCHANGED <<compactions, brokenOff, restarts, seedLost>> => CountersOK'
  BY DEF CountersOK
<1>3. ASSUME NEW c \in Clients,
             \/ StartChat(c) \/ RequestFails(c) \/ Completed(c) \/ EmitFinal(c)
             \/ StartTools(c) \/ ToolsSucceed(c) \/ ToolsFail(c) \/ EndBlank(c)
      PROVE  CountersOK'
  BY <1>2, <1>3 DEF StartChat, RequestFails, Completed, EmitFinal, StartTools,
                    ToolsSucceed, ToolsFail, EndBlank, Fail
<1>4. ASSUME NEW c \in Clients,
             Summarized(c) \/ SeedCompressedContext(c) \/ CompressionFails(c) \/ SaveStep(c)
      PROVE  CountersOK'
  BY <1>2, <1>4 DEF Summarized, SeedCompressedContext, CompressionFails, Fail, SaveStep,
                    ExportPreviousResponse, UpdateSession, UpdateSessionFails
<1>5. ASSUME NEW c \in Clients, BrokenOff(c)
      PROVE  CountersOK'
  BY <1>1, <1>5 DEF BrokenOff, CountersOK
<1>6. ASSUME NEW c \in Clients, StartCompression(c)
      PROVE  CountersOK'
  BY <1>1, <1>6 DEF StartCompression, CountersOK
<1>7. ASSUME NEW c \in Clients, Seeded(c)
      PROVE  CountersOK'
  <2>1. seedLost' \in BOOLEAN
    BY <1>7, Zenon DEF Seeded
  <2>2. UNCHANGED <<compactions, brokenOff, restarts>>
    BY <1>7 DEF Seeded
  <2> QED
    BY <2>1, <2>2 DEF CountersOK
<1>8. CASE Restart
  BY <1>1, <1>8 DEF Restart, CountersOK
<1>9. CASE UNCHANGED vars
  BY <1>2, <1>9 DEF vars
<1> QED
  BY <1>3, <1>4, <1>5, <1>6, <1>7, <1>8, <1>9 DEF Next, ChatStep, CompressionStep, SaveStep

\* The variables have their types, however many clients share the session: no chat takes
\* more rounds of tool calls than a response has asked for, and every id is one of the
\* server's responses.
THEOREM ChainTyped == Spec => []TypeOK
<1> DEFINE I == ChainTypes /\ TurnsOK /\ RoundsOK /\ CountersOK
<1>1. Init => I
  <2> SUFFICES ASSUME Init PROVE I
    OBVIOUS
  <2>1. TurnsOK
    BY BoundsAssumption DEF Init, TurnsOK
  <2>2. RoundsOK
    BY BoundsAssumption DEF Init, RoundsOK
  <2>3. CountersOK
    <3>1. 0 \in 0 .. MaxCompactions /\ 0 \in 0 .. MaxBrokenOff /\ 0 \in 0 .. MaxRestarts
      BY BoundsAssumption
    <3> QED
      BY <3>1 DEF Init, CountersOK
  <2> QED
    BY <2>1, <2>2, <2>3, TypesInit
<1>2. I /\ [Next]_vars => I'
  BY TypesStep, TurnsStep, RoundsStep, CountersStep
<1>3. I => TypeOK
  <2> SUFFICES ASSUME I PROVE TypeOK
    OBVIOUS
  <2> DEFINE Rs == [covers : SUBSET Turns, calls : BOOLEAN]
  <2>1. responses \in Seq(Rs)
    <3>1. responses \in Seq(Records) /\ Len(responses) \in Nat
          /\ DOMAIN responses = 1 .. Len(responses)
      BY DEF ChainTypes
    <3>2. ASSUME NEW k \in 1 .. Len(responses)
          PROVE  responses[k] \in Rs
      <4>1. responses[k] \in Records /\ responses[k].covers \in SUBSET Turns
        BY <3>1 DEF TurnsOK
      <4>2. \A r \in Records : r.covers \in SUBSET Turns => r \in Rs
        BY DEF Records
      <4> QED
        BY <4>1, <4>2
    <3> HIDE DEF Rs
    <3> QED
      BY <3>1, <3>2
  <2>2. /\ {previousResponseID, row} \subseteq ResponseIds
        /\ pc \in [Clients -> Steps]
        /\ phase \in [Clients -> {"chat", "compress", "seed"}]
        /\ requestPreviousID \in [Clients -> ResponseIds]
        /\ previousID \in [Clients -> ResponseIds]
        /\ exported \in [Clients -> ResponseIds]
    BY DEF ChainTypes
  <2> QED
    BY <2>1, <2>2 DEF TypeOK, TurnsOK, RoundsOK, CountersOK
<1> QED
  BY <1>1, <1>2, <1>3, PTL DEF Spec
===============================================================================
