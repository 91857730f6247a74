----------------------------- MODULE StreamPipeline -----------------------------
(***************************************************************************)
(* One session's provider stack while chats and compactions use it.  A     *)
(* Chat starts a chain of goroutines joined by channels:                   *)
(*                                                                         *)
(*   provider -> session store -> trace store =[buffer]=> barrier -> reader *)
(*                                                                         *)
(* (middleware/persistence.go, persist_trace.go, compression_barrier.go;   *)
(* the order is fixed by main.go's buildSessionMiddleware).  Channels are  *)
(* unbuffered except the trace stage's.  None of the sends gives up when   *)
(* its context ends, so a reader that leaves blocks everything behind it.  *)
(* A /compact runs through the same stack synchronously and closes the     *)
(* barrier, which all the session's streams share, until its status        *)
(* message is on its way (tui/stream_consumer.go, startCommandStream).     *)
(*                                                                         *)
(* The provider is abstracted to the messages of a turn (Script) and a     *)
(* cursor that a finished turn or compaction moves on by one; the rollback *)
(* of a failed compaction inside the provider is not part of this module.  *)
(***************************************************************************)
EXTENDS Naturals, Sequences, FiniteSets

CONSTANTS
    Streams,        \* Chat calls on the session
    Script,         \* stream -> the message types its provider sends
    Readers,        \* kinds of reader: "patient" (streamPrompt), "hasty" (Bubble Tea)
    Compactions,    \* /compact commands on the session
    TraceBuffer,    \* capacity of the trace stage's channel (4 in the code)
    CompactBuffer,  \* capacity of the /compact stream's channel
    MaxStorageErrors \* bound: failing writes of one stream

MsgTypes == {"delta", "final", "tool", "usage", "status", "error", "storage"}

ASSUME ScriptAssumption == Script \in [Streams -> Seq(MsgTypes \ {"storage"})]
ASSUME ReadersAssumption == Readers \subseteq {"patient", "hasty"}
ASSUME NamesAssumption == Streams \cap Compactions = {}
ASSUME CapacityAssumption ==
    TraceBuffer \in Nat \ {0} /\ CompactBuffer \in Nat /\ MaxStorageErrors \in Nat

\* A message and its place in the turn; storage errors have place 0.
Msgs == [type : MsgTypes, n : Nat]
NoMsg == [type |-> "none", n |-> 0]
StorageErrorMsg == [type |-> "storage", n |-> 0]

VARIABLES
    source,     \* stream -> "idle", "running", "closed": the provider goroutine
    sent,       \* stream -> messages of the turn produced so far
    offered,    \* stream -> the message it is blocked sending, or NoMsg
    store,      \* stream -> step of the session-store goroutine
    storeMsg,   \* stream -> the message that goroutine holds
    export,     \* stream or compaction -> cursor exported for its write in progress
    trace,      \* stream -> step of the trace goroutine
    traceMsg,   \* stream -> the message that goroutine holds
    buffer,     \* stream -> the trace stage's channel
    barrier,    \* stream -> step of the barrier goroutine
    barrierMsg, \* stream -> the message that goroutine holds
    reader,     \* stream -> "waiting", "reading", "failing" (a hasty reader after
                \* an Error), "left" (it stopped), "gone" (disconnected), "done"
    delivered,  \* stream -> messages the reader has received
    blocked,    \* CompressionBarrier.blocked
    compact,    \* compaction -> step of its goroutine
    queued,     \* compaction -> messages put into the /compact stream's channel
    cursor,     \* the provider's in-memory cursor
    row,        \* the persisted cursor
    rows,       \* stream -> records the trace store holds
    \* History, read by the properties only:
    failures,   \* stream -> storage writes that failed
    late,       \* streams that exported their turn while an older export was unwritten
    emitted,    \* stream -> messages the provider sent
    turnOf,     \* stream -> cursor its last final stands for
    leaked      \* stream -> finals and deltas delivered since the barrier closed

storeVars   == <<store, storeMsg, export>>
traceVars   == <<trace, traceMsg>>
barrierVars == <<barrier, barrierMsg>>
sourceVars  == <<source, sent, offered, emitted, turnOf>>
readerVars  == <<reader, delivered>>
compactVars == <<compact, queued>>
vars == <<storeVars, traceVars, buffer, barrierVars, sourceVars, readerVars,
          compactVars, blocked, cursor, row, late, rows, failures, leaked>>

-----------------------------------------------------------------------------
\* isFinalOrDeltaMessage
IsFinalOrDelta(msg) == msg.type \in {"delta", "final"}

\* Which messages make captureMessage write the session row, and which of those
\* carry the provider's cursor.
Captured(msg) == msg.type \in {"final", "status", "usage"}

\* Mutant of CarriesCursor: final messages are not exported.
OnlyStatusCarriesCursor(msg) == msg.type = "status"

CarriesCursor(msg) == msg.type \in {"final", "status"}

ScriptLen(s) == Len(Script[s])

Init ==
    /\ source = [s \in Streams |-> "idle"]
    /\ sent = [s \in Streams |-> 0]
    /\ offered = [s \in Streams |-> NoMsg]
    /\ store = [s \in Streams |-> "idle"]
    /\ storeMsg = [s \in Streams |-> NoMsg]
    /\ export = [x \in Streams \cup Compactions |-> 0]
    /\ trace = [s \in Streams |-> "idle"]
    /\ traceMsg = [s \in Streams |-> NoMsg]
    /\ buffer = [s \in Streams |-> <<>>]
    /\ barrier = [s \in Streams |-> "idle"]
    /\ barrierMsg = [s \in Streams |-> NoMsg]
    /\ reader = [s \in Streams |-> "waiting"]
    /\ delivered = [s \in Streams |-> <<>>]
    /\ blocked = FALSE
    /\ compact = [k \in Compactions |-> "idle"]
    /\ queued = [k \in Compactions |-> 0]
    /\ cursor = 0
    /\ row = 0
    /\ rows = [s \in Streams |-> <<>>]
    /\ failures = [s \in Streams |-> 0]
    /\ late = {}
    /\ emitted = [s \in Streams |-> <<>>]
    /\ turnOf = [s \in Streams |-> 0]
    /\ leaked = [s \in Streams |-> 0]

StorageFails(s) ==
    /\ failures[s] < MaxStorageErrors
    /\ failures' = [failures EXCEPT ![s] = @ + 1]

-----------------------------------------------------------------------------
(* Chat: PersistTrace.chat stores the input, queueing an error first if that *)
(* fails, and only then starts the inner stream; the goroutines follow.      *)

StartChat(s) ==
    /\ reader[s] = "waiting"
    /\ \/ buffer' = buffer /\ failures' = failures
       \/ StorageFails(s) /\ buffer' = [buffer EXCEPT ![s] = Append(@, StorageErrorMsg)]
    /\ source' = [source EXCEPT ![s] = "running"]
    /\ store' = [store EXCEPT ![s] = "recv"]
    /\ trace' = [trace EXCEPT ![s] = "recv"]
    /\ barrier' = [barrier EXCEPT ![s] = "recv"]
    /\ reader' = [reader EXCEPT ![s] = "reading"]
    /\ UNCHANGED <<sent, offered, emitted, turnOf, storeMsg, export, traceMsg, barrierMsg,
                   delivered, blocked, compactVars, cursor, row, late, rows, leaked>>

-----------------------------------------------------------------------------
(* The provider goroutine.                                                  *)

Emit(s, msg) ==
    /\ offered' = [offered EXCEPT ![s] = msg]
    /\ emitted' = [emitted EXCEPT ![s] = Append(@, msg)]

\* The next message of the turn.  The cursor moves before the final is sent.
Produce(s) ==
    /\ source[s] = "running" /\ offered[s] = NoMsg
    /\ sent[s] < ScriptLen(s)
    /\ LET msg == [type |-> Script[s][sent[s] + 1], n |-> sent[s] + 1]
       IN  /\ Emit(s, msg)
           /\ IF msg.type = "final"
              THEN cursor' = cursor + 1 /\ turnOf' = [turnOf EXCEPT ![s] = cursor + 1]
              ELSE UNCHANGED <<cursor, turnOf>>
    /\ sent' = [sent EXCEPT ![s] = @ + 1]
    /\ UNCHANGED <<source, storeVars, traceVars, buffer, barrierVars, readerVars,
                   blocked, compactVars, row, late, rows, failures, leaked>>

\* The API call fails or is cancelled: one Error, then the stream ends.
ProduceError(s) ==
    /\ source[s] = "running" /\ offered[s] = NoMsg
    /\ sent[s] < ScriptLen(s)
    /\ Emit(s, [type |-> "error", n |-> sent[s] + 1])
    /\ sent' = [sent EXCEPT ![s] = ScriptLen(s)]
    /\ UNCHANGED <<source, turnOf, storeVars, traceVars, buffer, barrierVars,
                   readerVars, blocked, compactVars, cursor, row, late, rows,
                   failures, leaked>>

CloseSource(s) ==
    /\ source[s] = "running" /\ offered[s] = NoMsg
    /\ sent[s] = ScriptLen(s)
    /\ source' = [source EXCEPT ![s] = "closed"]
    /\ UNCHANGED <<sent, offered, emitted, turnOf, storeVars, traceVars, buffer, barrierVars,
                   readerVars, blocked, compactVars, cursor, row, late, rows,
                   failures, leaked>>

-----------------------------------------------------------------------------
(* The session-store goroutine: pass the message on, then capture it.       *)

StoreRecv(s) ==
    /\ store[s] = "recv"
    /\ \/ /\ offered[s] # NoMsg
          /\ storeMsg' = [storeMsg EXCEPT ![s] = offered[s]]
          /\ offered' = [offered EXCEPT ![s] = NoMsg]
          /\ store' = [store EXCEPT ![s] = "send"]
       \/ /\ source[s] = "closed"
          /\ store' = [store EXCEPT ![s] = "closed"]
          /\ UNCHANGED <<storeMsg, offered>>
    /\ UNCHANGED <<source, sent, emitted, turnOf, export, traceVars, buffer, barrierVars,
                   readerVars, blocked, compactVars, cursor, row, late, rows,
                   failures, leaked>>

\* Somebody else's write of a cursor older than the turn of s is in progress.
OlderExport(s) ==
    \E x \in (Streams \cup Compactions) \ {s} : export[x] # 0 /\ export[x] < turnOf[s]

\* captureMessage, first half: export whatever cursor the provider has by now.
CaptureMessage(s) ==
    /\ store[s] = "capture"
    /\ IF Captured(storeMsg[s])
       THEN /\ store' = [store EXCEPT ![s] = "update"]
            /\ export' = [export EXCEPT ![s] =
                             IF CarriesCursor(storeMsg[s]) THEN cursor ELSE 0]
            /\ UNCHANGED storeMsg
       ELSE /\ store' = [store EXCEPT ![s] = "recv"]
            /\ storeMsg' = [storeMsg EXCEPT ![s] = NoMsg]
            /\ UNCHANGED export
    /\ late' = IF ~CarriesCursor(storeMsg[s]) THEN late
               ELSE IF OlderExport(s) THEN late \cup {s} ELSE late \ {s}
    /\ UNCHANGED <<sourceVars, traceVars, buffer, barrierVars, readerVars, blocked,
                   compactVars, cursor, row, rows, failures, leaked>>

\* An update without a cursor leaves the saved one alone.
WriteRow(c) == row' = IF c = 0 THEN row ELSE c

\* Mutant of UpdateSession: A failed session update is swallowed.
UpdateSessionSilently(s) ==
    /\ store[s] = "update"
    /\ \/ WriteRow(export[s]) /\ UNCHANGED failures
       \/ StorageFails(s) /\ UNCHANGED row
    /\ store' = [store EXCEPT ![s] = "recv"]
    /\ storeMsg' = [storeMsg EXCEPT ![s] = NoMsg]
    /\ export' = [export EXCEPT ![s] = 0]
    /\ UNCHANGED <<sourceVars, traceVars, buffer, barrierVars, readerVars, blocked,
                   compactVars, cursor, late, rows, leaked>>

\* captureMessage, second half: UpdateSession, whose failure is sent as an Error.
UpdateSession(s) ==
    /\ store[s] = "update"
    /\ \/ /\ WriteRow(export[s])
          /\ store' = [store EXCEPT ![s] = "recv"]
          /\ UNCHANGED failures
       \/ /\ StorageFails(s)
          /\ store' = [store EXCEPT ![s] = "senderr"]
          /\ UNCHANGED row
    /\ storeMsg' = [storeMsg EXCEPT ![s] = NoMsg]
    /\ export' = [export EXCEPT ![s] = 0]
    /\ UNCHANGED <<sourceVars, traceVars, buffer, barrierVars, readerVars, blocked,
                   compactVars, cursor, late, rows, leaked>>

-----------------------------------------------------------------------------
(* The trace goroutine: queue the message, then record it.                  *)

TraceRecv(s) ==
    /\ trace[s] = "recv"
    /\ \/ /\ store[s] = "send"
          /\ traceMsg' = [traceMsg EXCEPT ![s] = storeMsg[s]]
          /\ store' = [store EXCEPT ![s] = "capture"]
          /\ trace' = [trace EXCEPT ![s] = "queue"]
       \/ /\ store[s] = "senderr"
          /\ traceMsg' = [traceMsg EXCEPT ![s] = StorageErrorMsg]
          /\ store' = [store EXCEPT ![s] = "recv"]
          /\ trace' = [trace EXCEPT ![s] = "queue"]
       \/ /\ store[s] = "closed"
          /\ trace' = [trace EXCEPT ![s] = "closed"]
          /\ UNCHANGED <<traceMsg, store>>
    /\ UNCHANGED <<sourceVars, storeMsg, export, buffer, barrierVars, readerVars,
                   blocked, compactVars, cursor, row, late, rows, failures, leaked>>

\* Mutant of TraceQueue: The trace stage records only what it could queue at once.
TraceQueueOrSkip(s) ==
    /\ trace[s] \in {"queue", "queueerr"}
    /\ IF Len(buffer[s]) = TraceBuffer
       THEN trace' = [trace EXCEPT ![s] = "recv"] /\ UNCHANGED buffer
       ELSE /\ buffer' = [buffer EXCEPT ![s] =
                             Append(@, IF trace[s] = "queue" THEN traceMsg[s]
                                       ELSE StorageErrorMsg)]
            /\ trace' = [trace EXCEPT ![s] = IF @ = "queue" THEN "record" ELSE "recv"]
    /\ UNCHANGED <<sourceVars, storeVars, traceMsg, barrierVars, readerVars, blocked,
                   compactVars, cursor, row, late, rows, failures, leaked>>

TraceQueue(s) ==
    /\ trace[s] \in {"queue", "queueerr"}
    /\ Len(buffer[s]) < TraceBuffer
    /\ \/ /\ trace[s] = "queue"
          /\ buffer' = [buffer EXCEPT ![s] = Append(@, traceMsg[s])]
          /\ trace' = [trace EXCEPT ![s] = "record"]
       \/ /\ trace[s] = "queueerr"
          /\ buffer' = [buffer EXCEPT ![s] = Append(@, StorageErrorMsg)]
          /\ trace' = [trace EXCEPT ![s] = "recv"]
    /\ UNCHANGED <<sourceVars, storeVars, traceMsg, barrierVars, readerVars, blocked,
                   compactVars, cursor, row, late, rows, failures, leaked>>

\* Mutant of TraceRecord: The trace goroutine gives up at a failed write without closing its channel.
TraceRecordOrStop(s) ==
    /\ trace[s] = "record"
    /\ \/ /\ rows' = [rows EXCEPT ![s] = Append(@, traceMsg[s])]
          /\ trace' = [trace EXCEPT ![s] = "recv"]
          /\ UNCHANGED failures
       \/ /\ StorageFails(s)
          /\ trace' = [trace EXCEPT ![s] = "idle"]
          /\ UNCHANGED rows
    /\ traceMsg' = [traceMsg EXCEPT ![s] = NoMsg]
    /\ UNCHANGED <<sourceVars, storeVars, buffer, barrierVars, readerVars, blocked,
                   compactVars, cursor, row, late, leaked>>

\* storeReceived
TraceRecord(s) ==
    /\ trace[s] = "record"
    /\ \/ /\ rows' = [rows EXCEPT ![s] = Append(@, traceMsg[s])]
          /\ trace' = [trace EXCEPT ![s] = "recv"]
          /\ UNCHANGED failures
       \/ /\ StorageFails(s)
          /\ trace' = [trace EXCEPT ![s] = "queueerr"]
          /\ UNCHANGED rows
    /\ traceMsg' = [traceMsg EXCEPT ![s] = NoMsg]
    /\ UNCHANGED <<sourceVars, storeVars, buffer, barrierVars, readerVars, blocked,
                   compactVars, cursor, row, late, leaked>>

-----------------------------------------------------------------------------
(* The barrier goroutine: look at the flag, then send; the flag may change   *)
(* in between.                                                               *)

\* Mutant of BarrierRecv: a closed channel's zero message is taken for a message.
BarrierRecvZero(s) ==
    /\ barrier[s] = "recv"
    /\ \/ /\ buffer[s] # <<>>
          /\ barrierMsg' = [barrierMsg EXCEPT ![s] = Head(buffer[s])]
          /\ buffer' = [buffer EXCEPT ![s] = Tail(@)]
       \/ /\ buffer[s] = <<>> /\ trace[s] = "closed"
          /\ UNCHANGED <<barrierMsg, buffer>>
    /\ barrier' = [barrier EXCEPT ![s] = "check"]
    /\ UNCHANGED <<sourceVars, storeVars, traceVars, readerVars, blocked, compactVars,
                   cursor, row, late, rows, failures, leaked>>

BarrierRecv(s) ==
    /\ barrier[s] = "recv"
    /\ \/ /\ buffer[s] # <<>>
          /\ barrierMsg' = [barrierMsg EXCEPT ![s] = Head(buffer[s])]
          /\ buffer' = [buffer EXCEPT ![s] = Tail(@)]
          /\ barrier' = [barrier EXCEPT ![s] = "check"]
       \/ /\ buffer[s] = <<>> /\ trace[s] = "closed"
          /\ barrier' = [barrier EXCEPT ![s] = "closed"]
          /\ UNCHANGED <<barrierMsg, buffer>>
    /\ UNCHANGED <<sourceVars, storeVars, traceVars, readerVars, blocked, compactVars,
                   cursor, row, late, rows, failures, leaked>>

\* Mutants of HeldBack: a closed barrier drops everything, or nothing.
HoldsEverythingBack(msg) == blocked
HoldsNothingBack(msg) == FALSE

HeldBack(msg) == blocked /\ IsFinalOrDelta(msg)

BarrierCheck(s) ==
    /\ barrier[s] = "check"
    /\ blocked' = (blocked /\ barrierMsg[s].type # "status")
    /\ IF HeldBack(barrierMsg[s])
       THEN /\ barrier' = [barrier EXCEPT ![s] = "recv"]
            /\ barrierMsg' = [barrierMsg EXCEPT ![s] = NoMsg]
       ELSE /\ barrier' = [barrier EXCEPT ![s] = "send"]
            /\ UNCHANGED barrierMsg
    /\ UNCHANGED <<sourceVars, storeVars, traceVars, buffer, readerVars, compactVars,
                   cursor, row, late, rows, failures, leaked>>

-----------------------------------------------------------------------------
(* The reader.                                                              *)

Reading(s) == reader[s] \in {"reading", "failing"}
IsError(msg) == msg.type \in {"error", "storage"}

\* streamPrompt reads on to the end whatever it receives; Bubble Tea's
\* applyStreamMessages gives the stream up at an Error.
Read(s) ==
    /\ barrier[s] = "send"
    /\ Reading(s)
    /\ delivered' = [delivered EXCEPT ![s] = Append(@, barrierMsg[s])]
    /\ leaked' = IF blocked /\ IsFinalOrDelta(barrierMsg[s])
                 THEN [leaked EXCEPT ![s] = @ + 1] ELSE leaked
    /\ \/ /\ "patient" \in Readers \/ ~IsError(barrierMsg[s])
          /\ UNCHANGED reader
       \/ /\ "hasty" \in Readers /\ IsError(barrierMsg[s])
          /\ reader' = [reader EXCEPT ![s] = "failing"]
    /\ barrier' = [barrier EXCEPT ![s] = "recv"]
    /\ barrierMsg' = [barrierMsg EXCEPT ![s] = NoMsg]
    /\ UNCHANGED <<sourceVars, storeVars, traceVars, buffer, blocked, compactVars,
                   cursor, row, late, rows, failures>>

ReadEnd(s) ==
    /\ barrier[s] = "closed"
    /\ Reading(s)
    /\ reader' = [reader EXCEPT ![s] = "done"]
    /\ UNCHANGED <<sourceVars, storeVars, traceVars, buffer, barrierVars, delivered,
                   blocked, compactVars, cursor, row, late, rows, failures, leaked>>

\* Once the batch of messages with the Error in it is applied, Bubble Tea has
\* forgotten the channel (cancelStreamIfAny) and reads from nil for ever.
LeaveAfterError(s) ==
    /\ reader[s] = "failing"
    /\ reader' = [reader EXCEPT ![s] = "left"]
    /\ UNCHANGED <<sourceVars, storeVars, traceVars, buffer, barrierVars, delivered,
                   blocked, compactVars, cursor, row, late, rows, failures, leaked>>

\* An SSH client disconnects: its program ends and nobody reads the stream.
Disconnect(s) ==
    /\ Reading(s)
    /\ reader' = [reader EXCEPT ![s] = "gone"]
    /\ UNCHANGED <<sourceVars, storeVars, traceVars, buffer, barrierVars, delivered,
                   blocked, compactVars, cursor, row, late, rows, failures, leaked>>

-----------------------------------------------------------------------------
(* /compact: PerformCompression goes down through the barrier and the        *)
(* session store to the provider and comes back up.                          *)

otherThanCompact == <<sourceVars, store, storeMsg, traceVars, buffer, barrierVars,
                      readerVars, rows, failures>>

\* CompressionBarrier.PerformCompression closes the barrier first.
CompactStart(k) ==
    /\ compact[k] = "idle"
    /\ compact' = [compact EXCEPT ![k] = "provider"]
    /\ blocked' = TRUE
    /\ leaked' = [s \in Streams |-> 0]
    /\ UNCHANGED <<otherThanCompact, export, queued, cursor, row, late>>

\* The provider summarizes and re-seeds the conversation, or fails.
CompactProvider(k) ==
    /\ compact[k] = "provider"
    /\ \/ /\ cursor' = cursor + 1
          /\ compact' = [compact EXCEPT ![k] = "export"]
       \/ /\ compact' = [compact EXCEPT ![k] = "reopen"]
          /\ UNCHANGED cursor
    /\ UNCHANGED <<otherThanCompact, export, blocked, leaked, queued, row, late>>

\* syncSessionFromProvider exports the new cursor...
CompactExport(k) ==
    /\ compact[k] = "export"
    /\ export' = [export EXCEPT ![k] = cursor]
    /\ compact' = [compact EXCEPT ![k] = "update"]
    /\ UNCHANGED <<otherThanCompact, blocked, leaked, queued, cursor, row, late>>

\* ...and stores it; if that fails the whole compaction is reported failed.
CompactUpdate(k) ==
    /\ compact[k] = "update"
    /\ \/ WriteRow(export[k]) /\ compact' = [compact EXCEPT ![k] = "status"]
       \/ UNCHANGED row /\ compact' = [compact EXCEPT ![k] = "reopen"]
    /\ export' = [export EXCEPT ![k] = 0]
    /\ UNCHANGED <<otherThanCompact, blocked, leaked, queued, cursor, late>>

\* Mutant of SetUnblocked: The status message is emitted but nobody notifies the barrier.
SetUnblockedOnErrorOnly(k) ==
    /\ compact[k] \in {"reopen", "notify"}
    /\ blocked' = (blocked /\ compact[k] # "reopen")
    /\ compact' = [compact EXCEPT ![k] = IF @ = "reopen" THEN "fail" ELSE "usage"]
    /\ UNCHANGED <<otherThanCompact, export, leaked, queued, cursor, row, late>>

\* The barrier reopens: on the error path at once, otherwise by
\* NotifyCompressionStatusSent after the status message was queued.
SetUnblocked(k) ==
    /\ compact[k] \in {"reopen", "notify"}
    /\ blocked' = FALSE
    /\ compact' = [compact EXCEPT ![k] = IF @ = "reopen" THEN "fail" ELSE "usage"]
    /\ UNCHANGED <<otherThanCompact, export, leaked, queued, cursor, row, late>>

AfterEmitting(step) ==
    CASE step = "status" -> "notify"
      [] step = "usage"  -> "delta"
      [] step = "delta"  -> "final"
      [] step \in {"final", "fail"} -> "closed"

\* The terminal that typed /compact may be gone: its reads, which only free
\* places in the channel, are left out.
CompactEmit(k) ==
    /\ compact[k] \in {"status", "usage", "delta", "final", "fail"}
    /\ queued[k] < CompactBuffer
    /\ queued' = [queued EXCEPT ![k] = @ + 1]
    /\ compact' = [compact EXCEPT ![k] = AfterEmitting(@)]
    /\ UNCHANGED <<otherThanCompact, export, blocked, leaked, cursor, row, late>>

\* The summary carried no token counts: no usage message is sent.
CompactSkipUsage(k) ==
    /\ compact[k] = "usage"
    /\ compact' = [compact EXCEPT ![k] = "delta"]
    /\ UNCHANGED <<otherThanCompact, export, blocked, leaked, queued, cursor, row, late>>

-----------------------------------------------------------------------------
SourceStep(s) == Produce(s) \/ ProduceError(s) \/ CloseSource(s)
StoreStep(s) == StoreRecv(s) \/ CaptureMessage(s) \/ UpdateSession(s)
TraceStep(s) == TraceRecv(s) \/ TraceQueue(s) \/ TraceRecord(s)
BarrierStep(s) == BarrierRecv(s) \/ BarrierCheck(s)
ReaderStep(s) == Read(s) \/ ReadEnd(s)
CompactStep(k) ==
    \/ CompactProvider(k) \/ CompactExport(k) \/ CompactUpdate(k)
    \/ SetUnblocked(k) \/ CompactEmit(k) \/ CompactSkipUsage(k)

Next ==
    \/ \E s \in Streams :
          \/ StartChat(s) \/ SourceStep(s) \/ StoreStep(s) \/ TraceStep(s)
          \/ BarrierStep(s) \/ ReaderStep(s) \/ LeaveAfterError(s) \/ Disconnect(s)
    \/ \E k \in Compactions : CompactStart(k) \/ CompactStep(k)

\* Every goroutine that can run eventually does, a provider call ends (it is
\* under the request timeout) and a present reader reads.  Nobody has to start
\* a chat or a compaction, or to disconnect.
Fairness ==
    /\ \A s \in Streams :
          /\ WF_vars(SourceStep(s)) /\ WF_vars(StoreStep(s)) /\ WF_vars(TraceStep(s))
          /\ WF_vars(BarrierStep(s)) /\ WF_vars(ReaderStep(s))
          /\ WF_vars(LeaveAfterError(s))
    /\ \A k \in Compactions : WF_vars(CompactStep(k))

Spec == Init /\ [][Next]_vars /\ Fairness

-----------------------------------------------------------------------------
(* Properties                                                               *)

StoreSteps == {"idle", "recv", "send", "capture", "update", "senderr", "closed"}
TraceSteps == {"idle", "recv", "queue", "record", "queueerr", "closed"}
BarrierSteps == {"idle", "recv", "check", "send", "closed"}
CompactSteps == {"idle", "provider", "export", "update", "reopen", "status", "notify",
                 "usage", "delta", "final", "fail", "closed"}

TypeOK ==
    /\ source \in [Streams -> {"idle", "running", "closed"}]
    /\ sent \in [Streams -> Nat]
    /\ offered \in [Streams -> Msgs \cup {NoMsg}]
    /\ store \in [Streams -> StoreSteps]
    /\ storeMsg \in [Streams -> Msgs \cup {NoMsg}]
    /\ export \in [Streams \cup Compactions -> Nat]
    /\ trace \in [Streams -> TraceSteps]
    /\ traceMsg \in [Streams -> Msgs \cup {NoMsg}]
    /\ buffer \in [Streams -> Seq(Msgs)]
    /\ barrier \in [Streams -> BarrierSteps]
    /\ barrierMsg \in [Streams -> Msgs \cup {NoMsg}]
    /\ reader \in [Streams -> {"waiting", "reading", "failing", "left", "gone", "done"}]
    /\ delivered \in [Streams -> Seq(Msgs)]
    /\ rows \in [Streams -> Seq(Msgs)]
    /\ blocked \in BOOLEAN
    /\ compact \in [Compactions -> CompactSteps]
    /\ queued \in [Compactions -> 0 .. CompactBuffer]
    /\ {cursor, row} \subseteq Nat
    /\ failures \in [Streams -> 0 .. MaxStorageErrors]
    /\ emitted \in [Streams -> Seq(Msgs)]
    /\ late \subseteq Streams
    /\ turnOf \in [Streams -> Nat]
    /\ leaked \in [Streams -> Nat]

FromProvider(msg) == msg.n > 0

\* The places of a sequence with messages of the provider, and with storage errors.
ProviderPart(msgs) == {i \in DOMAIN msgs : FromProvider(msgs[i])}
StorageErrors(msgs) == {i \in DOMAIN msgs : msgs[i].type = "storage"}

\* A reader receives the provider's messages in their order and misses none
\* before the last one it received, or before the end of the stream, except
\* finals and deltas that the barrier held back because a compaction was
\* started: tool calls, token usage and errors are never dropped or overtaken
\* (wrapStream of the three middlewares).
NothingElseDropped ==
    \A s \in Streams :
        LET got == delivered[s]
            part == ProviderPart(got)
        IN  /\ \A i, j \in part : i < j => got[i].n < got[j].n
            /\ \A n \in 1 .. Len(emitted[s]) :
                  /\ reader[s] = "done" \/ \E i \in part : n < got[i].n
                  /\ \A i \in part : got[i] # emitted[s][n]
                  =>
                      /\ IsFinalOrDelta(emitted[s][n])
                      /\ \E k \in Compactions : compact[k] # "idle"

\* README.md: "Storage errors are surfaced into the chat stream as MsgTypeError
\* events while preserving normal response messages."  A reader that is through
\* with its stream, and did not disconnect, has the whole turn, provided the
\* provider did not fail and no compaction closed the barrier.
ResponsePreserved ==
    \A s \in Streams :
        /\ reader[s] \in {"done", "left"}
        /\ \A i \in DOMAIN emitted[s] : emitted[s][i].type # "error"
        /\ \A k \in Compactions : compact[k] = "idle"
        => Cardinality(ProviderPart(delivered[s])) = ScriptLen(s)

\* Storage failures are not silent: a reader that reached the end of its stream
\* has received one storage error per failed write of the stream.
FailuresSurface ==
    \A s \in Streams : reader[s] = "done" =>
        Cardinality(StorageErrors(delivered[s])) = failures[s]

\* What the barrier hides from the reader is still on record: when the reader
\* saw the stream end and no write failed, the trace store holds exactly the
\* messages the provider sent, in order.
TraceIsComplete ==
    \A s \in Streams :
        reader[s] = "done" /\ failures[s] = 0 => rows[s] = emitted[s]

\* The end of the stream is the reader's guarantee: unless a write failed, the row is
\* then and stays at least as new as the turn it has seen, so a restart resumes after
\* the turn, whatever other streams and compactions write later.  The exception is a
\* write that was in progress with an older cursor when the turn was exported: export
\* and update are two steps without a lock, and the older one may come last.  (Seeing
\* the final is no such guarantee: it is sent on before it is captured.)
ClosedMeansSaved ==
    \A s \in Streams :
        reader[s] = "done" /\ failures[s] = 0 /\ s \notin late => row >= turnOf[s]

\* The flag is looked at before the send, so a message that was already past
\* the check may still arrive, but no more than that one per stream while the
\* barrier is closed.
BarrierLeaksAtMostOne == \A s \in Streams : leaked[s] <= 1

\* Whatever becomes of the compaction and of the terminal that asked for it,
\* the barrier does not stay closed: the /compact stream's buffer holds all it
\* will ever send, so its goroutine never waits for a reader.
BarrierReopens == blocked ~> ~blocked

\* A stream whose reader neither disconnects nor stops at an error ends, and
\* with it every goroutine of its chain (the reader is done only then).
StreamEnds ==
    \A s \in Streams : Reading(s) ~> ~Reading(s)
===============================================================================
