------------------------ MODULE OpenRouterHistory_proofs ------------------------
(***************************************************************************)
(* Proofs about the history of an OpenRouter session with one client, for  *)
(* any number of turns, rounds of tool calls, compactions and restarts:    *)
(* what is saved is a history the API accepts and forgets no saved answer, *)
(* and every request carries the conversation.                             *)
(***************************************************************************)
EXTENDS OpenRouterHistory, TLAPS

\* The session has one client: two may append between each other's messages.
Alone == \A c, d \in Clients : c = d

-----------------------------------------------------------------------------
(* What a history covers, and whether the API accepts it.                   *)

\* The message answers turn t, or sums it up.
Tells(m, t) == t \in m.covers \/ (m.role = "text" /\ m.turn # NoTurn /\ t = m.turn)

LEMMA CoversMember ==
    ASSUME NEW h, NEW t
    PROVE  t \in Covers(h) <=> \E m \in ToSet(h) : Tells(m, t)
<1> DEFINE Answers == {x \in ToSet(h) : x.role = "text" /\ x.turn # NoTurn}
<1>1. t \in Covers(h) <=> \/ t \in {x.turn : x \in Answers}
                          \/ t \in UNION {m.covers : m \in ToSet(h)}
  BY DEF Covers
<1>2. t \in {x.turn : x \in Answers} <=>
          \E m \in ToSet(h) : m.role = "text" /\ m.turn # NoTurn /\ t = m.turn
  <2>1. t \in {x.turn : x \in Answers} <=> \E x \in Answers : t = x.turn
    <3> HIDE DEF Answers
    <3> QED
      OBVIOUS
  <2> QED
    BY <2>1, Zenon
<1>3. t \in UNION {m.covers : m \in ToSet(h)} <=> \E m \in ToSet(h) : t \in m.covers
  OBVIOUS
<1> HIDE DEF Answers
<1> QED
  BY <1>1, <1>2, <1>3, Zenon DEF Tells

LEMMA CoversAppend ==
    ASSUME NEW h \in Seq(Messages), NEW m \in Messages
    PROVE  Covers(Append(h, m)) =
              Covers(h) \cup m.covers
                  \cup (IF m.role = "text" /\ m.turn # NoTurn THEN {m.turn} ELSE {})
<1>1. ToSet(Append(h, m)) = ToSet(h) \cup {m}
  <2>1. /\ Len(h) \in Nat /\ DOMAIN h = 1 .. Len(h)
        /\ DOMAIN Append(h, m) = 1 .. Len(h) + 1
        /\ \A i \in 1 .. Len(h) : Append(h, m)[i] = h[i]
        /\ Append(h, m)[Len(h) + 1] = m
    OBVIOUS
  <2>2. 1 .. Len(h) + 1 = (1 .. Len(h)) \cup {Len(h) + 1}
    BY <2>1
  <2> QED
    BY <2>1, <2>2, Zenon DEF ToSet
<1> SUFFICES ASSUME NEW t
             PROVE  t \in Covers(Append(h, m)) <=>
                        \/ t \in Covers(h) \/ t \in m.covers
                        \/ m.role = "text" /\ m.turn # NoTurn /\ t = m.turn
  OBVIOUS
<1>2. t \in Covers(Append(h, m)) <=> \E x \in ToSet(Append(h, m)) : Tells(x, t)
  BY CoversMember, Zenon
<1>3. t \in Covers(h) <=> \E x \in ToSet(h) : Tells(x, t)
  BY CoversMember, Zenon
<1>4. (\E x \in ToSet(Append(h, m)) : Tells(x, t)) <=> (\E x \in ToSet(h) : Tells(x, t)) \/ Tells(m, t)
  BY <1>1, Zenon
<1> QED
  BY <1>2, <1>3, <1>4, Zenon DEF Tells

LEMMA CoversEmpty == Covers(<<>>) = {}
<1>1. ToSet(<<>>) = {}
  BY DEF ToSet
<1> QED
  BY <1>1 DEF Covers

\* What a history covers are turns.
LEMMA CoversTurns ==
    ASSUME NEW h \in Seq(Messages)
    PROVE  Covers(h) \subseteq 1 .. MaxTurns
<1>1. ToSet(h) \subseteq Messages
  BY DEF ToSet
<1>2. \A m \in Messages : /\ m.covers \subseteq 1 .. MaxTurns
                          /\ m.turn # NoTurn => m.turn \in 1 .. MaxTurns
  BY BoundsAssumption DEF Messages, NoTurn
<1> QED
  BY <1>1, <1>2, CoversMember DEF Tells

LEMMA MessageType ==
    ASSUME NEW t \in 0 .. MaxTurns, NEW role \in Roles
    PROVE  Message(role, t) \in Messages
  BY DEF Message, Messages

LEMMA SeedMessageType ==
    ASSUME NEW S \in SUBSET (1 .. MaxTurns)
    PROVE  SeedMessage(S) \in Messages
  BY BoundsAssumption DEF SeedMessage, Messages, Roles, NoTurn

\* An answer that calls no tools may follow whatever is accepted.
LEMMA WellFormedAppend ==
    ASSUME NEW h \in Seq(Messages), NEW m \in Messages, WellFormed(h),
           m.role \notin {"calls", "results"}
    PROVE  WellFormed(Append(h, m))
<1>1. /\ Len(h) \in Nat /\ DOMAIN h = 1 .. Len(h)
      /\ DOMAIN Append(h, m) = 1 .. Len(h) + 1
      /\ Len(Append(h, m)) = Len(h) + 1
      /\ \A i \in 1 .. Len(h) : Append(h, m)[i] = h[i]
      /\ Append(h, m)[Len(h) + 1] = m
  OBVIOUS
<1> SUFFICES ASSUME NEW i \in 1 .. Len(h) + 1
             PROVE  /\ Append(h, m)[i].role = "calls" =>
                          /\ i < Len(h) + 1
                          /\ Append(h, m)[i + 1].role = "results"
                          /\ Append(h, m)[i + 1].turn = Append(h, m)[i].turn
                    /\ Append(h, m)[i].role = "results" =>
                          /\ i > 1
                          /\ Append(h, m)[i - 1].role = "calls"
                          /\ Append(h, m)[i - 1].turn = Append(h, m)[i].turn
  BY <1>1 DEF WellFormed
<1>2. CASE i = Len(h) + 1
  BY <1>1, <1>2
<1>3. CASE i \in 1 .. Len(h)
  <2>1. /\ h[i].role = "calls" =>
              i < Len(h) /\ h[i + 1].role = "results" /\ h[i + 1].turn = h[i].turn
        /\ h[i].role = "results" =>
              i > 1 /\ h[i - 1].role = "calls" /\ h[i - 1].turn = h[i].turn
    BY <1>1, <1>3 DEF WellFormed
  <2>2. i < Len(h) => i + 1 \in 1 .. Len(h)
    BY <1>1, <1>3
  <2>3. i > 1 => i - 1 \in 1 .. Len(h)
    BY <1>1, <1>3
  <2> QED
    BY <1>1, <1>3, <2>1, <2>2, <2>3
<1> QED
  BY <1>1, <1>2, <1>3

LEMMA WellFormedEmpty == WellFormed(<<>>)
  BY DEF WellFormed

-----------------------------------------------------------------------------
(* Types.                                                                   *)

LEMMA TypesInit == Init => TypeOK
  BY BoundsAssumption DEF Init, TypeOK, NoTurn, Steps

LEMMA TypesFinish ==
    ASSUME TypeOK, NEW c \in Clients, Finish(c), history' \in Seq(Messages),
           row' \in Seq(Messages), answered' \subseteq 1 .. MaxTurns, UNCHANGED counters
    PROVE  TypeOK'
<1>1. 0 \in 0 .. MaxRounds /\ 0 \in 0 .. MaxTurns /\ <<>> \in Seq(Messages)
  BY BoundsAssumption
<1> QED
  BY <1>1 DEF TypeOK, Finish, Goto, Steps, NoTurn, counters

LEMMA TypesFail ==
    ASSUME TypeOK, NEW c \in Clients, Fail(c)
    PROVE  TypeOK'
<1>1. history' \in Seq(Messages)
  BY DEF Fail, Restore, TypeOK
<1> QED
  BY <1>1, TypesFinish DEF Fail, TypeOK

\* The chat's steps.
LEMMA TypesChat ==
    ASSUME TypeOK, NEW c \in Clients, ChatStep(c)
    PROVE  TypeOK'
<1>1. turn[c] \in 0 .. MaxTurns /\ history \in Seq(Messages)
  BY DEF TypeOK
<1>2. \A role \in Roles : Append(history, Message(role, turn[c])) \in Seq(Messages)
  BY <1>1, MessageType
<1>3. CASE StartChat(c)
  <2>1. turns + 1 \in 0 .. MaxTurns
    BY <1>3, BoundsAssumption DEF StartChat, TypeOK
  <2>2. Append(history, Message("user", turns + 1)) \in Seq(Messages)
    BY <1>1, <2>1, MessageType DEF Roles
  <2> QED
    BY <1>3, <2>1, <2>2 DEF StartChat, Goto, TypeOK, Steps
<1>4. CASE Ask(c)
  BY <1>4 DEF Ask, Goto, TypeOK, Steps, counters
<1>5. CASE RequestFails(c) \/ ToolsFail(c)
  BY <1>5, TypesFail DEF RequestFails, ToolsFail
<1>6. CASE AnswerText(c)
  BY <1>2, <1>6 DEF AnswerText, Goto, TypeOK, Steps, Roles, clientVars, counters
<1>7. CASE AnswerCalls(c)
  <2>1. rounds[c] + 1 \in 0 .. MaxRounds
    BY <1>7, BoundsAssumption DEF AnswerCalls, TypeOK
  <2> QED
    BY <1>2, <1>7, <2>1 DEF AnswerCalls, Goto, TypeOK, Steps, Roles, counters
<1>8. CASE ToolsSucceed(c)
  BY <1>2, <1>8 DEF ToolsSucceed, Goto, TypeOK, Steps, Roles, clientVars, counters
<1>9. CASE EndBlank(c)
  <2>1. CASE Finish(c) /\ history' \in Seq(Messages)
    BY <1>9, <2>1, TypesFinish DEF EndBlank, TypeOK
  <2>2. CASE Goto(c, "export") /\ UNCHANGED <<history, clientVars>>
    BY <1>9, <2>2 DEF EndBlank, Goto, TypeOK, Steps, clientVars, counters
  <2>3. Restore(c) => history' \in Seq(Messages)
    BY DEF Restore, TypeOK
  <2> QED
    BY <1>1, <1>9, <2>1, <2>2, <2>3 DEF EndBlank
<1> QED
  BY <1>3, <1>4, <1>5, <1>6, <1>7, <1>8, <1>9 DEF ChatStep

\* The compaction's steps.
LEMMA TypesCompression ==
    ASSUME TypeOK, NEW c \in Clients, CompressionStep(c)
    PROVE  TypeOK'
<1>1. history \in Seq(Messages) /\ asked[c] \in Seq(Messages) /\ 0 \in 0 .. MaxTurns
  BY BoundsAssumption DEF TypeOK
<1>2. CASE StartCompression(c)
  <2>1. compactions + 1 \in 0 .. MaxCompactions
    BY <1>2, BoundsAssumption DEF StartCompression, TypeOK
  <2>2. Append(history, Message("user", NoTurn)) \in Seq(Messages)
    BY <1>1, MessageType DEF Roles, NoTurn
  <2> QED
    BY <1>2, <2>1, <2>2 DEF StartCompression, Goto, TypeOK, Steps
<1>3. CASE Summarized(c)
  BY <1>3 DEF Summarized, Goto, TypeOK, Steps, clientVars, counters
<1>4. CASE SeedCompressedContext(c)
  <2>1. Append(history, SeedMessage(Covers(asked[c]))) \in Seq(Messages)
    BY <1>1, CoversTurns, SeedMessageType
  <2>2. 0 \in 0 .. MaxRounds
    BY BoundsAssumption
  <2> QED
    BY <1>4, <2>1, <2>2 DEF SeedCompressedContext, Goto, TypeOK, Steps, counters
<1>5. CASE CompressionCancelled(c)
  BY <1>5, TypesFail DEF CompressionCancelled
<1> QED
  BY <1>2, <1>3, <1>4, <1>5 DEF CompressionStep

LEMMA TypesSave ==
    ASSUME TypeOK, NEW c \in Clients, SaveStep(c)
    PROVE  TypeOK'
<1>1. CASE EmitFinal(c)
  BY <1>1 DEF EmitFinal, Goto, TypeOK, Steps, clientVars, counters
<1>2. CASE ExportPreviousResponse(c)
  BY <1>2 DEF ExportPreviousResponse, Goto, TypeOK, Steps, counters
<1>3. CASE UpdateSession(c)
  <2>1. row' \in Seq(Messages)
    BY <1>3 DEF UpdateSession, TypeOK
  <2>2. {turn[c]} \ {NoTurn} \subseteq 1 .. MaxTurns
    BY BoundsAssumption DEF TypeOK, NoTurn
  <2>3. answered' \subseteq 1 .. MaxTurns
    BY <1>3, <2>2 DEF UpdateSession, TypeOK
  <2> QED
    BY <1>3, <2>1, <2>3, TypesFinish DEF UpdateSession, TypeOK
<1>4. CASE UpdateSessionFails(c)
  BY <1>4, TypesFinish DEF UpdateSessionFails, TypeOK
<1> QED
  BY <1>1, <1>2, <1>3, <1>4 DEF SaveStep

LEMMA TypesStep ==
    ASSUME TypeOK, [Next]_vars
    PROVE  TypeOK'
<1>1. CASE \E c \in Clients : ChatStep(c) \/ CompressionStep(c) \/ SaveStep(c)
  BY <1>1, TypesChat, TypesCompression, TypesSave
<1>2. CASE Restart
  BY <1>2, BoundsAssumption DEF Restart, ImportPreviousResponse, TypeOK, NoTurn, Steps
<1>3. CASE UNCHANGED vars
  BY <1>3 DEF vars, clientVars, counters, TypeOK
<1> QED
  BY <1>1, <1>2, <1>3 DEF Next

\* Every variable keeps its type, with any number of clients.
THEOREM TypeCorrect == Spec => []TypeOK
  BY TypesInit, TypesStep, PTL DEF Spec
-----------------------------------------------------------------------------
(* The inductive invariant: where the conversation is at each step of a     *)
(* call, and when the history is one that the API accepts.                  *)

\* Nothing comes between a request and its answer.
AskedInv(c) == pc[c] = "waiting" => asked[c] = history

\* The history is not well formed while tools run, and stays so if they fail; but
\* only an accepted history is answered, and only after an answer it is saved.
AcceptedInv(c) ==
    /\ pc[c] \in {"emit", "blank", "export"} => WellFormed(history)
    /\ pc[c] = "update" => exported[c] = history /\ WellFormed(history)

\* The history covers all that was answered, and the answer of a chat that is
\* about to be saved.
ChatInv(c) ==
    phase[c] = "chat" =>
        /\ pc[c] # "reseed"
        /\ pc[c] = "idle" => turn[c] = NoTurn
        /\ answered \subseteq Covers(history)
        /\ pc[c] \in {"emit", "export", "update"} /\ turn[c] # NoTurn =>
              turn[c] \in Covers(history)

\* The snapshot does, as long as the compaction runs.
CompactionInv(c) ==
    phase[c] # "chat" =>
        /\ pc[c] # "idle"
        /\ turn[c] = NoTurn
        /\ answered \subseteq Covers(previous[c])

\* The request that the summary is made from carried all of the snapshot.
CompressInv(c) ==
    phase[c] = "compress" =>
        /\ pc[c] \notin {"export", "update"}
        /\ pc[c] # "reseed" => Covers(previous[c]) \subseteq Covers(history)
        /\ pc[c] \in {"emit", "blank", "reseed"} =>
              Covers(previous[c]) \subseteq Covers(asked[c])

\* The seeded history starts with the summary.
SeedInv(c) ==
    phase[c] = "seed" => pc[c] # "reseed" /\ Covers(previous[c]) \subseteq Covers(history)

CallInv(c) == /\ AskedInv(c) /\ AcceptedInv(c) /\ ChatInv(c)
              /\ CompactionInv(c) /\ CompressInv(c) /\ SeedInv(c)

RowInv == WellFormed(row) /\ answered \subseteq Covers(row)

HistoryInv == RowInv /\ \A c \in Clients : CallInv(c)

LEMMA HistoryInit == Init => HistoryInv
  BY WellFormedEmpty DEF Init, HistoryInv, RowInv, CallInv, AskedInv, AcceptedInv, ChatInv,
         CompactionInv, CompressInv, SeedInv

-----------------------------------------------------------------------------
(* The step.                                                                *)

\* When a call is over, the history must cover all that was answered.
LEMMA FinishInv ==
    ASSUME TypeOK, NEW c \in Clients, Finish(c), answered' \subseteq Covers(history)'
    PROVE  CallInv(c)'
<1>1. pc'[c] = "idle" /\ phase'[c] = "chat" /\ turn'[c] = NoTurn
  BY DEF Finish, Goto, TypeOK
<1> QED
  BY <1>1 DEF CallInv, AskedInv, AcceptedInv, ChatInv, CompactionInv, CompressInv, SeedInv

\* An error leaves the history as the call found it, or has brought it.
LEMMA RestoreInv ==
    ASSUME TypeOK, NEW c \in Clients, CallInv(c), Restore(c), Finish(c), answered' = answered
    PROVE  CallInv(c)'
<1>1. answered' \subseteq Covers(history')
  BY DEF Restore, CallInv, ChatInv, CompactionInv
<1> QED
  BY <1>1, FinishInv

\* What a message adds to a history, it does not take away.
LEMMA CoversMore ==
    ASSUME TypeOK, NEW m \in Messages
    PROVE  Covers(history) \subseteq Covers(Append(history, m))
  BY CoversAppend DEF TypeOK

\* A chat starts, and asks.
LEMMA AskInv ==
    ASSUME TypeOK, NEW c \in Clients, CallInv(c), StartChat(c) \/ Ask(c)
    PROVE  CallInv(c)'
<1>1. CASE StartChat(c)
  <2>1. /\ pc[c] = "idle" /\ pc'[c] = "request" /\ phase'[c] = phase[c]
        /\ history' = Append(history, Message("user", turns + 1)) /\ answered' = answered
    BY <1>1 DEF StartChat, Goto, TypeOK
  <2>2. turns + 1 \in 0 .. MaxTurns
    BY <1>1, BoundsAssumption DEF StartChat, TypeOK
  <2>3. Covers(history) \subseteq Covers(history')
    BY <2>1, <2>2, CoversMore, MessageType DEF Roles
  <2> QED
    BY <2>1, <2>3 DEF CallInv, AskedInv, AcceptedInv, ChatInv, CompactionInv, CompressInv,
                      SeedInv
<1>2. CASE Ask(c)
  <2>1. /\ pc[c] = "request" /\ pc'[c] = "waiting" /\ asked'[c] = history
        /\ UNCHANGED <<history, phase, turn, previous, answered>>
    BY <1>2 DEF Ask, Goto, TypeOK
  <2> QED
    BY <2>1 DEF CallInv, AskedInv, AcceptedInv, ChatInv, CompactionInv, CompressInv, SeedInv
<1> QED
  BY <1>1, <1>2

\* The answer, with or without tool calls, and their results.
LEMMA AnswerInv ==
    ASSUME TypeOK, NEW c \in Clients, CallInv(c),
           AnswerText(c) \/ AnswerCalls(c) \/ ToolsSucceed(c)
    PROVE  CallInv(c)'
<1>1. turn[c] \in 0 .. MaxTurns /\ history \in Seq(Messages)
  BY DEF TypeOK
<1>2. CASE AnswerText(c)
  <2> DEFINE m == Message("text", turn[c])
  <2>1. /\ pc[c] = "waiting" /\ pc'[c] \in {"emit", "blank"} /\ WellFormed(asked[c])
        /\ history' = Append(history, m)
        /\ UNCHANGED <<phase, turn, asked, previous, answered>>
    BY <1>2 DEF AnswerText, Goto, TypeOK, clientVars
  <2>2. m \in Messages /\ m.role = "text" /\ m.turn = turn[c]
    BY <1>1, MessageType DEF Roles, Message
  <2>3. asked[c] = history
    BY <2>1 DEF CallInv, AskedInv
  <2>4. WellFormed(history')
    BY <1>1, <2>1, <2>2, <2>3, WellFormedAppend
  <2>5. /\ Covers(history) \subseteq Covers(history')
        /\ turn[c] # NoTurn => turn[c] \in Covers(history')
    BY <1>1, <2>1, <2>2, CoversAppend
  <2> HIDE DEF m
  <2> QED
    BY <2>1, <2>3, <2>4, <2>5 DEF CallInv, AskedInv, AcceptedInv, ChatInv, CompactionInv,
                                  CompressInv, SeedInv
<1>3. CASE AnswerCalls(c) \/ ToolsSucceed(c)
  <2>1. PICK role \in {"calls", "results"} : history' = Append(history, Message(role, turn[c]))
    BY <1>3 DEF AnswerCalls, ToolsSucceed
  <2>2. /\ pc[c] \in {"waiting", "tools"} /\ pc'[c] \in {"tools", "request"}
        /\ UNCHANGED <<phase, turn, previous, answered>>
    BY <1>3 DEF AnswerCalls, ToolsSucceed, Goto, TypeOK, clientVars
  <2>3. Covers(history) \subseteq Covers(history')
    BY <1>1, <2>1, CoversMore, MessageType DEF Roles
  <2> QED
    BY <2>2, <2>3 DEF CallInv, AskedInv, AcceptedInv, ChatInv, CompactionInv, CompressInv,
                      SeedInv
<1> QED
  BY <1>2, <1>3

LEMMA ChatStepInv ==
    ASSUME TypeOK, NEW c \in Clients, CallInv(c), ChatStep(c)
    PROVE  CallInv(c)'
<1>1. CASE StartChat(c) \/ Ask(c)
  BY <1>1, AskInv
<1>2. CASE RequestFails(c) \/ ToolsFail(c)
  BY <1>2, RestoreInv DEF RequestFails, ToolsFail, Fail
<1>3. CASE AnswerText(c) \/ AnswerCalls(c) \/ ToolsSucceed(c)
  BY <1>3, AnswerInv
<1>4. CASE EndBlank(c)
  <2>1. pc[c] = "blank" /\ answered' = answered
    BY <1>4 DEF EndBlank
  <2>2. CASE phase[c] = "chat" /\ Finish(c) /\ UNCHANGED history
    BY <2>1, <2>2, RestoreInv DEF Restore
  <2>3. CASE phase[c] = "compress" /\ Restore(c) /\ Finish(c)
    BY <2>1, <2>3, RestoreInv
  <2>4. CASE phase[c] = "seed" /\ Goto(c, "export") /\ UNCHANGED <<history, clientVars>>
    <3>1. pc'[c] = "export" /\ UNCHANGED <<history, phase, turn, asked, previous, exported>>
      BY <2>4 DEF Goto, TypeOK, clientVars
    <3> QED
      BY <2>1, <2>4, <3>1 DEF CallInv, AskedInv, AcceptedInv, ChatInv, CompactionInv,
                              CompressInv, SeedInv
  <2> QED
    BY <1>4, <2>2, <2>3, <2>4 DEF EndBlank
<1> QED
  BY <1>1, <1>2, <1>3, <1>4 DEF ChatStep

LEMMA CompressionStepInv ==
    ASSUME TypeOK, NEW c \in Clients, CallInv(c), CompressionStep(c)
    PROVE  CallInv(c)'
<1>1. CASE StartCompression(c)
  <2>1. /\ pc[c] = "idle" /\ pc'[c] = "request" /\ phase'[c] = "compress"
        /\ previous'[c] = history /\ history' = Append(history, Message("user", NoTurn))
        /\ UNCHANGED <<turn, answered>>
    BY <1>1 DEF StartCompression, Goto, TypeOK
  <2>2. NoTurn \in 0 .. MaxTurns
    BY BoundsAssumption DEF NoTurn
  <2>3. Covers(history) \subseteq Covers(history')
    BY <2>1, <2>2, CoversMore, MessageType DEF Roles
  <2> QED
    BY <2>1, <2>3 DEF CallInv, AskedInv, AcceptedInv, ChatInv, CompactionInv, CompressInv,
                      SeedInv
<1>2. CASE Summarized(c)
  <2>1. /\ pc[c] \in {"emit", "blank"} /\ pc'[c] = "reseed" /\ phase[c] = "compress"
        /\ UNCHANGED <<phase, turn, asked, previous, answered>>
    BY <1>2 DEF Summarized, Goto, TypeOK, clientVars
  <2> QED
    BY <2>1 DEF CallInv, AskedInv, AcceptedInv, ChatInv, CompactionInv, CompressInv, SeedInv
<1>3. CASE SeedCompressedContext(c)
  <2>1. /\ pc[c] = "reseed" /\ pc'[c] = "request" /\ phase'[c] = "seed"
        /\ history' = Append(history, SeedMessage(Covers(asked[c])))
        /\ UNCHANGED <<turn, previous, answered>>
    BY <1>3 DEF SeedCompressedContext, Goto, TypeOK
  <2>2. phase[c] = "compress"
    BY <2>1 DEF CallInv, ChatInv, SeedInv, TypeOK
  <2>3. Covers(asked[c]) \subseteq 1 .. MaxTurns /\ history \in Seq(Messages)
    BY CoversTurns DEF TypeOK
  <2>4. /\ SeedMessage(Covers(asked[c])) \in Messages
        /\ SeedMessage(Covers(asked[c])).covers = Covers(asked[c])
    BY <2>3, SeedMessageType DEF SeedMessage
  <2>5. Covers(asked[c]) \subseteq Covers(history')
    BY <2>1, <2>3, <2>4, CoversAppend
  <2> QED
    BY <2>1, <2>2, <2>5 DEF CallInv, AskedInv, AcceptedInv, ChatInv, CompactionInv,
                            CompressInv, SeedInv
<1>4. CASE CompressionCancelled(c)
  BY <1>4, RestoreInv DEF CompressionCancelled, Fail
<1> QED
  BY <1>1, <1>2, <1>3, <1>4 DEF CompressionStep

\* What a call that saves is about to write.
LEMMA SavingCovers ==
    ASSUME TypeOK, NEW c \in Clients, CallInv(c), pc[c] = "update"
    PROVE  /\ exported[c] = history /\ WellFormed(history)
           /\ answered \subseteq Covers(history)
           /\ turn[c] # NoTurn => turn[c] \in Covers(history)
<1>1. phase[c] \in {"chat", "seed"}
  BY DEF CallInv, CompressInv, TypeOK
<1>2. CASE phase[c] = "chat"
  BY <1>2 DEF CallInv, ChatInv, AcceptedInv
<1>3. CASE phase[c] = "seed"
  BY <1>3 DEF CallInv, CompactionInv, SeedInv, AcceptedInv
<1> QED
  BY <1>1, <1>2, <1>3

LEMMA SaveStepInv ==
    ASSUME TypeOK, NEW c \in Clients, CallInv(c), SaveStep(c)
    PROVE  CallInv(c)'
<1>1. CASE EmitFinal(c) \/ ExportPreviousResponse(c)
  <2>1. /\ \/ pc[c] = "emit" /\ phase[c] # "compress" /\ pc'[c] = "export"
           \/ pc[c] = "export" /\ pc'[c] = "update" /\ exported'[c] = history
        /\ UNCHANGED <<history, phase, turn, asked, previous, answered>>
    BY <1>1 DEF EmitFinal, ExportPreviousResponse, Goto, TypeOK, clientVars
  <2> QED
    BY <2>1 DEF CallInv, AskedInv, AcceptedInv, ChatInv, CompactionInv, CompressInv, SeedInv
<1>2. CASE UpdateSession(c)
  <2>1. answered' \subseteq Covers(history')
    BY <1>2, SavingCovers DEF UpdateSession
  <2> QED
    BY <1>2, <2>1, FinishInv DEF UpdateSession
<1>3. CASE UpdateSessionFails(c)
  <2>1. answered' \subseteq Covers(history')
    BY <1>3, SavingCovers DEF UpdateSessionFails
  <2> QED
    BY <1>3, <2>1, FinishInv DEF UpdateSessionFails
<1> QED
  BY <1>1, <1>2, <1>3 DEF SaveStep

\* The row is accepted and leads to all that was answered.
LEMMA RowStep ==
    ASSUME TypeOK, NEW c \in Clients, CallInv(c), RowInv,
           ChatStep(c) \/ CompressionStep(c) \/ SaveStep(c)
    PROVE  RowInv'
<1>1. CASE UpdateSession(c)
  <2>1. /\ row' = IF exported[c] = <<>> THEN row ELSE exported[c]
        /\ answered' = answered \cup ({turn[c]} \ {NoTurn})
        /\ exported[c] = history /\ WellFormed(history)
        /\ answered \subseteq Covers(history)
        /\ turn[c] # NoTurn => turn[c] \in Covers(history)
    BY <1>1, SavingCovers DEF UpdateSession
  <2>2. CASE exported[c] = <<>>
    <3>1. answered' = answered
      BY <2>1, <2>2, CoversEmpty
    <3> QED
      BY <2>1, <2>2, <3>1 DEF RowInv
  <2>3. CASE exported[c] # <<>>
    BY <2>1, <2>3 DEF RowInv
  <2> QED
    BY <2>2, <2>3
<1>2. CASE ~UpdateSession(c)
  <2>1. UNCHANGED <<row, answered>>
    BY <1>2 DEF ChatStep, StartChat, Ask, RequestFails, AnswerText, AnswerCalls,
                ToolsSucceed, ToolsFail, EndBlank, CompressionStep, StartCompression,
                Summarized, SeedCompressedContext, CompressionCancelled, SaveStep, EmitFinal,
                ExportPreviousResponse, UpdateSessionFails, Fail
  <2> QED
    BY <2>1 DEF RowInv
<1> QED
  BY <1>1, <1>2

LEMMA HistoryStep ==
    ASSUME Alone, TypeOK, HistoryInv, [Next]_vars
    PROVE  HistoryInv'
<1>1. ASSUME NEW c \in Clients, ChatStep(c) \/ CompressionStep(c) \/ SaveStep(c)
      PROVE  HistoryInv'
  <2>1. CallInv(c) /\ RowInv
    BY DEF HistoryInv
  <2>2. CallInv(c)'
    BY <1>1, <2>1, ChatStepInv, CompressionStepInv, SaveStepInv
  <2>3. RowInv'
    BY <1>1, <2>1, RowStep
  <2>4. \A d \in Clients : d = c
    BY DEF Alone
  <2> QED
    BY <2>2, <2>3, <2>4 DEF HistoryInv
<1>2. CASE Restart
  <2>1. /\ UNCHANGED <<row, answered>> /\ history' = row
        /\ \A c \in Clients :
              pc'[c] = "idle" /\ phase'[c] = "chat" /\ turn'[c] = NoTurn
    BY <1>2 DEF Restart, ImportPreviousResponse
  <2> QED
    BY <2>1 DEF HistoryInv, RowInv, CallInv, AskedInv, AcceptedInv, ChatInv, CompactionInv,
                CompressInv, SeedInv
<1>3. CASE UNCHANGED vars
  BY <1>3 DEF vars, clientVars, HistoryInv, RowInv, CallInv, AskedInv, AcceptedInv, ChatInv,
              CompactionInv, CompressInv, SeedInv
<1> QED
  BY <1>1, <1>2, <1>3 DEF Next

-----------------------------------------------------------------------------
(* What follows for every behaviour.                                        *)

LEMMA HistoryInvariant == ASSUME Alone PROVE Spec => []HistoryInv
<1>1. TypeOK /\ HistoryInv /\ [Next]_vars => HistoryInv'
  BY HistoryStep
<1> QED
  BY <1>1, HistoryInit, TypeCorrect, PTL DEF Spec

\* What is saved is always a history that the API accepts, whatever failed before.
THEOREM RowAccepted == ASSUME Alone PROVE Spec => []PersistedHistoryIsConsistent
<1>1. HistoryInv => PersistedHistoryIsConsistent
  BY DEF HistoryInv, RowInv, PersistedHistoryIsConsistent
<1> QED
  BY <1>1, HistoryInvariant, PTL

\* Every turn that was answered and saved stays in the row.
THEOREM SavedAnswersKept == ASSUME Alone PROVE Spec => []NothingForgotten
<1>1. HistoryInv => NothingForgotten
  BY DEF HistoryInv, RowInv, NothingForgotten
<1> QED
  BY <1>1, HistoryInvariant, PTL

\* A chat's request carries every turn that was answered before it.
THEOREM RequestsCarry == ASSUME Alone PROVE Spec => []RequestsCarryTheConversation
<1>1. HistoryInv => RequestsCarryTheConversation
  BY DEF HistoryInv, CallInv, AskedInv, ChatInv, RequestsCarryTheConversation
<1> QED
  BY <1>1, HistoryInvariant, PTL
===============================================================================
