-------------------------- MODULE StreamPipeline_proofs --------------------------
(***************************************************************************)
(* Proofs about the chain of goroutines behind a stream, for any number of *)
(* streams and compactions, any turn, any capacities and any kind of       *)
(* reader: the end of a stream means that its turn is saved and its trace  *)
(* complete, a closed barrier leaks one message at most, nothing but       *)
(* finals and deltas is dropped, and each failed write reaches the reader. *)
(***************************************************************************)
EXTENDS StreamPipeline, FiniteSetTheorems, SequenceTheorems, TLAPS

-----------------------------------------------------------------------------
(* Types, one part for each goroutine.  A goroutine that is about to pass a *)
(* message on holds one.                                                    *)

MaybeMsgs == Msgs \cup {NoMsg}

SourceTypes ==
    /\ source \in [Streams -> {"idle", "running", "closed"}]
    /\ sent \in [Streams -> Nat]
    /\ offered \in [Streams -> MaybeMsgs]
    /\ emitted \in [Streams -> Seq(Msgs)]
    /\ turnOf \in [Streams -> Nat]
    /\ cursor \in Nat

StoreTypes ==
    /\ store \in [Streams -> StoreSteps]
    /\ storeMsg \in [Streams -> MaybeMsgs]
    /\ export \in [Streams \cup Compactions -> Nat]
    /\ \A s \in Streams : store[s] \in {"send", "capture", "update"} => storeMsg[s] \in Msgs

SavedTypes == row \in Nat /\ late \subseteq Streams

TraceTypes ==
    /\ trace \in [Streams -> TraceSteps]
    /\ traceMsg \in [Streams -> MaybeMsgs]
    /\ rows \in [Streams -> Seq(Msgs)]
    /\ \A s \in Streams : trace[s] \in {"queue", "record"} => traceMsg[s] \in Msgs

FailureTypes == failures \in [Streams -> 0 .. MaxStorageErrors]
BufferTypes == buffer \in [Streams -> Seq(Msgs)]

BarrierTypes ==
    /\ barrier \in [Streams -> BarrierSteps]
    /\ barrierMsg \in [Streams -> MaybeMsgs]
    /\ blocked \in BOOLEAN
    /\ \A s \in Streams : barrier[s] \in {"check", "send"} => barrierMsg[s] \in Msgs

ReaderTypes ==
    /\ reader \in [Streams -> {"waiting", "reading", "failing", "left", "gone", "done"}]
    /\ delivered \in [Streams -> Seq(Msgs)]
    /\ leaked \in [Streams -> Nat]

CompactTypes ==
    /\ compact \in [Compactions -> CompactSteps]
    /\ queued \in [Compactions -> 0 .. CompactBuffer]

TypeInv ==
    /\ SourceTypes /\ StoreTypes /\ SavedTypes /\ TraceTypes /\ FailureTypes
    /\ BufferTypes /\ BarrierTypes /\ ReaderTypes /\ CompactTypes

LEMMA TypesInit == Init => TypeInv
<1> SUFFICES ASSUME Init
             PROVE  TypeInv
  OBVIOUS
<1>1. SourceTypes /\ StoreTypes /\ SavedTypes
  BY DEF Init, SourceTypes, StoreTypes, SavedTypes, StoreSteps, MaybeMsgs
<1>2. TraceTypes /\ FailureTypes /\ BufferTypes
  BY CapacityAssumption DEF Init, TraceTypes, FailureTypes, BufferTypes, TraceSteps, MaybeMsgs
<1>3. BarrierTypes /\ ReaderTypes
  <2>1. blocked \in BOOLEAN
    BY DEF Init
  <2>2. BarrierTypes
    BY <2>1 DEF Init, BarrierTypes, BarrierSteps, MaybeMsgs
  <2>3. ReaderTypes
    BY DEF Init, ReaderTypes
  <2> QED
    BY <2>2, <2>3
<1>4. CompactTypes
  BY CapacityAssumption DEF Init, CompactTypes, CompactSteps
<1> QED
  BY <1>1, <1>2, <1>3, <1>4 DEF TypeInv

LEMMA TypesEnough == TypeInv => TypeOK
  BY DEF TypeInv, TypeOK, SourceTypes, StoreTypes, SavedTypes, TraceTypes, FailureTypes,
         BufferTypes, BarrierTypes, ReaderTypes, CompactTypes, MaybeMsgs

\* A step keeps the types of what it leaves alone.
LEMMA TypesKept ==
    ASSUME TypeInv
    PROVE  /\ UNCHANGED <<sourceVars, cursor>> => SourceTypes'
           /\ UNCHANGED storeVars => StoreTypes'
           /\ UNCHANGED <<row, late>> => SavedTypes'
           /\ UNCHANGED <<traceVars, rows>> => TraceTypes'
           /\ UNCHANGED failures => FailureTypes'
           /\ UNCHANGED buffer => BufferTypes'
           /\ UNCHANGED <<barrierVars, blocked>> => BarrierTypes'
           /\ UNCHANGED <<readerVars, leaked>> => ReaderTypes'
           /\ UNCHANGED compactVars => CompactTypes'
<1>1. UNCHANGED <<sourceVars, cursor>> => SourceTypes'
  BY DEF TypeInv, SourceTypes, sourceVars
<1>2. UNCHANGED storeVars => StoreTypes'
  BY DEF TypeInv, StoreTypes, storeVars
<1>3. UNCHANGED <<row, late>> => SavedTypes'
  BY DEF TypeInv, SavedTypes
<1>4. UNCHANGED <<traceVars, rows>> => TraceTypes'
  BY DEF TypeInv, TraceTypes, traceVars
<1>5. UNCHANGED failures => FailureTypes'
  BY DEF TypeInv, FailureTypes
<1>6. UNCHANGED buffer => BufferTypes'
  BY DEF TypeInv, BufferTypes
<1>7. UNCHANGED <<barrierVars, blocked>> => BarrierTypes'
  BY DEF TypeInv, BarrierTypes, barrierVars
<1>8. UNCHANGED <<readerVars, leaked>> => ReaderTypes'
  BY DEF TypeInv, ReaderTypes, readerVars
<1>9. UNCHANGED compactVars => CompactTypes'
  BY DEF TypeInv, CompactTypes, compactVars
<1> QED
  BY <1>1, <1>2, <1>3, <1>4, <1>5, <1>6, <1>7, <1>8, <1>9

LEMMA StorageErrorType == StorageErrorMsg \in Msgs
  BY DEF StorageErrorMsg, Msgs, MsgTypes

\* A failing write is counted.
LEMMA FailureCounted ==
    ASSUME FailureTypes, NEW s \in Streams, StorageFails(s)
    PROVE  FailureTypes' /\ failures'[s] # 0
<1>1. failures[s] + 1 \in 0 .. MaxStorageErrors /\ failures[s] + 1 # 0
  BY CapacityAssumption DEF StorageFails, FailureTypes
<1> QED
  BY <1>1 DEF StorageFails, FailureTypes

\* What is written to the row is a cursor.
LEMMA WriteRowTypes ==
    ASSUME SavedTypes, NEW n \in Nat, WriteRow(n)
    PROVE  row' \in Nat
  BY DEF WriteRow, SavedTypes

\* The turn of a stream.
LEMMA ScriptSeq ==
    ASSUME NEW s \in Streams
    PROVE  /\ Script[s] \in Seq(MsgTypes)
           /\ \A k \in 1..Len(Script[s]) : Script[s][k] # "storage"
<1>1. Script[s] \in Seq(MsgTypes \ {"storage"})
  BY ScriptAssumption
<1>2. Script[s] \in Seq(MsgTypes)
  BY <1>1, SeqMonotonic
<1>3. ASSUME NEW k \in 1..Len(Script[s])
      PROVE  Script[s][k] # "storage"
  BY <1>1, <1>3, ElementOfSeq
<1> QED
  BY <1>2, <1>3

LEMMA TypesStart ==
    ASSUME TypeInv, NEW s \in Streams, StartChat(s)
    PROVE  TypeInv'
<1>1. Append(buffer[s], StorageErrorMsg) \in Seq(Msgs)
  BY StorageErrorType DEF TypeInv, BufferTypes
<1>2. BufferTypes' /\ FailureTypes'
  BY <1>1, FailureCounted DEF StartChat, TypeInv, BufferTypes, FailureTypes
<1>3. SourceTypes'
  BY DEF StartChat, TypeInv, SourceTypes
<1>4. StoreTypes'
  BY DEF StartChat, TypeInv, StoreTypes, StoreSteps
<1>5. TraceTypes'
  BY DEF StartChat, TypeInv, TraceTypes, TraceSteps
<1>6. BarrierTypes'
  BY DEF StartChat, TypeInv, BarrierTypes, BarrierSteps
<1>7. ReaderTypes'
  BY DEF StartChat, TypeInv, ReaderTypes
<1>8. SavedTypes' /\ CompactTypes'
  BY TypesKept DEF StartChat
<1> QED
  BY <1>2, <1>3, <1>4, <1>5, <1>6, <1>7, <1>8 DEF TypeInv

LEMMA TypesSource ==
    ASSUME TypeInv, NEW s \in Streams, SourceStep(s)
    PROVE  TypeInv'
<1>1. ScriptLen(s) \in Nat /\ sent[s] \in Nat /\ cursor \in Nat
  BY ScriptSeq DEF ScriptLen, TypeInv, SourceTypes
<1>2. CASE Produce(s)
  <2> DEFINE msg == [type |-> Script[s][sent[s] + 1], n |-> sent[s] + 1]
  <2>1. /\ Emit(s, msg) /\ sent' = [sent EXCEPT ![s] = sent[s] + 1] /\ sent[s] < ScriptLen(s)
        /\ \/ cursor' = cursor + 1 /\ turnOf' = [turnOf EXCEPT ![s] = cursor + 1]
           \/ UNCHANGED <<cursor, turnOf>>
        /\ source' = source
    BY <1>2 DEF Produce
  <2>2. msg \in Msgs
    <3>1. sent[s] + 1 \in 1 .. Len(Script[s]) /\ Script[s] \in Seq(MsgTypes)
      BY <1>1, <2>1, ScriptSeq DEF ScriptLen
    <3>2. Script[s][sent[s] + 1] \in MsgTypes
      BY <3>1
    <3> QED
      BY <1>1, <3>2 DEF Msgs
  <2>3. sent[s] + 1 \in Nat /\ cursor + 1 \in Nat /\ Append(emitted[s], msg) \in Seq(Msgs)
    BY <1>1, <2>2 DEF TypeInv, SourceTypes
  <2> HIDE DEF msg
  <2>4. SourceTypes'
    BY <2>1, <2>2, <2>3 DEF Emit, TypeInv, SourceTypes, MaybeMsgs
  <2> QED
    BY <1>2, <2>4, TypesKept DEF Produce, TypeInv
<1>3. CASE ProduceError(s)
  <2> DEFINE msg == [type |-> "error", n |-> sent[s] + 1]
  <2>1. msg \in Msgs
    BY <1>1 DEF Msgs, MsgTypes
  <2>2. /\ Emit(s, msg) /\ sent' = [sent EXCEPT ![s] = ScriptLen(s)]
        /\ UNCHANGED <<source, turnOf, cursor>>
    BY <1>3 DEF ProduceError
  <2>3. Append(emitted[s], msg) \in Seq(Msgs)
    BY <2>1 DEF TypeInv, SourceTypes
  <2> HIDE DEF msg
  <2>4. SourceTypes'
    BY <1>1, <2>1, <2>2, <2>3 DEF Emit, TypeInv, SourceTypes, MaybeMsgs
  <2> QED
    BY <1>3, <2>4, TypesKept DEF ProduceError, TypeInv
<1>4. CASE CloseSource(s)
  <2>1. SourceTypes'
    BY <1>4 DEF CloseSource, TypeInv, SourceTypes
  <2> QED
    BY <1>4, <2>1, TypesKept DEF CloseSource, TypeInv
<1> QED
  BY <1>2, <1>3, <1>4 DEF SourceStep

LEMMA TypesStore ==
    ASSUME TypeInv, NEW s \in Streams, StoreStep(s)
    PROVE  TypeInv'
<1>1. CASE StoreRecv(s)
  <2>1. SourceTypes'
    BY <1>1 DEF StoreRecv, TypeInv, SourceTypes, MaybeMsgs
  <2>2. StoreTypes'
    BY <1>1 DEF StoreRecv, TypeInv, SourceTypes, StoreTypes, StoreSteps, MaybeMsgs
  <2> QED
    BY <1>1, <2>1, <2>2, TypesKept DEF StoreRecv, TypeInv
<1>2. CASE CaptureMessage(s)
  <2>1. (IF CarriesCursor(storeMsg[s]) THEN cursor ELSE 0) \in Nat
    BY DEF TypeInv, SourceTypes
  <2>2. StoreTypes'
    BY <1>2, <2>1 DEF CaptureMessage, TypeInv, StoreTypes, StoreSteps, MaybeMsgs
  <2>3. SavedTypes'
    BY <1>2 DEF CaptureMessage, TypeInv, SavedTypes
  <2> QED
    BY <1>2, <2>2, <2>3, TypesKept DEF CaptureMessage, TypeInv
<1>3. CASE UpdateSession(s)
  <2>1. export[s] \in Nat
    BY DEF TypeInv, StoreTypes
  <2>2. SavedTypes' /\ FailureTypes'
    BY <1>3, <2>1, WriteRowTypes, FailureCounted, TypesKept DEF UpdateSession, TypeInv, SavedTypes
  <2>3. StoreTypes'
    BY <1>3 DEF UpdateSession, TypeInv, StoreTypes, StoreSteps, MaybeMsgs
  <2> QED
    BY <1>3, <2>2, <2>3, TypesKept DEF UpdateSession, TypeInv
<1> QED
  BY <1>1, <1>2, <1>3 DEF StoreStep

LEMMA TypesTrace ==
    ASSUME TypeInv, NEW s \in Streams, TraceStep(s)
    PROVE  TypeInv'
<1>1. CASE TraceRecv(s)
  <2>1. StoreTypes'
    BY <1>1 DEF TraceRecv, TypeInv, StoreTypes, StoreSteps
  <2>2. TraceTypes'
    BY <1>1, StorageErrorType DEF TraceRecv, TypeInv, StoreTypes, TraceTypes, TraceSteps,
                                  MaybeMsgs
  <2> QED
    BY <1>1, <2>1, <2>2, TypesKept DEF TraceRecv, TypeInv
<1>2. CASE TraceQueue(s)
  <2>1. trace[s] = "queue" => Append(buffer[s], traceMsg[s]) \in Seq(Msgs)
    BY DEF TypeInv, BufferTypes, TraceTypes
  <2>2. Append(buffer[s], StorageErrorMsg) \in Seq(Msgs)
    BY StorageErrorType DEF TypeInv, BufferTypes
  <2>3. BufferTypes'
    BY <1>2, <2>1, <2>2 DEF TraceQueue, TypeInv, BufferTypes
  <2>4. TraceTypes'
    BY <1>2 DEF TraceQueue, TypeInv, TraceTypes, TraceSteps
  <2> QED
    BY <1>2, <2>3, <2>4, TypesKept DEF TraceQueue, TypeInv
<1>3. CASE TraceRecord(s)
  <2>1. Append(rows[s], traceMsg[s]) \in Seq(Msgs)
    BY <1>3 DEF TraceRecord, TypeInv, TraceTypes
  <2>2. TraceTypes'
    BY <1>3, <2>1 DEF TraceRecord, TypeInv, TraceTypes, TraceSteps, MaybeMsgs
  <2>3. FailureTypes'
    BY <1>3, FailureCounted, TypesKept DEF TraceRecord, TypeInv
  <2> QED
    BY <1>3, <2>2, <2>3, TypesKept DEF TraceRecord, TypeInv
<1> QED
  BY <1>1, <1>2, <1>3 DEF TraceStep

LEMMA TypesBarrier ==
    ASSUME TypeInv, NEW s \in Streams, BarrierStep(s)
    PROVE  TypeInv'
<1>1. CASE BarrierRecv(s)
  <2>1. buffer[s] # <<>> => Head(buffer[s]) \in Msgs /\ Tail(buffer[s]) \in Seq(Msgs)
    BY DEF TypeInv, BufferTypes
  <2>2. BufferTypes'
    BY <1>1, <2>1 DEF BarrierRecv, TypeInv, BufferTypes
  <2>3. BarrierTypes'
    BY <1>1, <2>1 DEF BarrierRecv, TypeInv, BarrierTypes, BarrierSteps, MaybeMsgs
  <2> QED
    BY <1>1, <2>2, <2>3, TypesKept DEF BarrierRecv, TypeInv
<1>2. CASE BarrierCheck(s)
  <2>1. blocked' \in BOOLEAN
    BY <1>2, Zenon DEF BarrierCheck
  <2>2. BarrierTypes'
    BY <1>2, <2>1 DEF BarrierCheck, TypeInv, BarrierTypes, BarrierSteps, MaybeMsgs
  <2> QED
    BY <1>2, <2>2, TypesKept DEF BarrierCheck, TypeInv
<1> QED
  BY <1>1, <1>2 DEF BarrierStep

LEMMA TypesReader ==
    ASSUME TypeInv, NEW s \in Streams, ReaderStep(s) \/ LeaveAfterError(s) \/ Disconnect(s)
    PROVE  TypeInv'
<1>1. CASE Read(s)
  <2>1. Append(delivered[s], barrierMsg[s]) \in Seq(Msgs)
    BY <1>1 DEF Read, TypeInv, BarrierTypes, ReaderTypes
  <2>2. leaked' \in [Streams -> Nat]
    BY <1>1 DEF Read, TypeInv, ReaderTypes
  <2>3. ReaderTypes'
    BY <1>1, <2>1, <2>2 DEF Read, TypeInv, ReaderTypes
  <2>4. BarrierTypes'
    BY <1>1 DEF Read, TypeInv, BarrierTypes, BarrierSteps, MaybeMsgs
  <2> QED
    BY <1>1, <2>3, <2>4, TypesKept DEF Read, TypeInv
<1>2. CASE ReadEnd(s) \/ LeaveAfterError(s) \/ Disconnect(s)
  <2>1. ReaderTypes'
    BY <1>2 DEF ReadEnd, LeaveAfterError, Disconnect, TypeInv, ReaderTypes
  <2> QED
    BY <1>2, <2>1, TypesKept DEF ReadEnd, LeaveAfterError, Disconnect, TypeInv
<1> QED
  BY <1>1, <1>2 DEF ReaderStep

LEMMA TypesCompact ==
    ASSUME TypeInv, NEW k \in Compactions, CompactStart(k) \/ CompactStep(k)
    PROVE  TypeInv'
<1>1. UNCHANGED otherThanCompact =>
          /\ UNCHANGED <<sourceVars, traceVars, rows, barrierVars, readerVars, store,
                         storeMsg>>
          /\ TraceTypes' /\ FailureTypes' /\ BufferTypes'
          /\ (UNCHANGED cursor => SourceTypes') /\ (UNCHANGED blocked => BarrierTypes')
          /\ (UNCHANGED leaked => ReaderTypes') /\ (UNCHANGED export => StoreTypes')
  BY TypesKept DEF otherThanCompact, storeVars
<1>2. CASE CompactStart(k)
  <2>1. CompactTypes'
    BY <1>2 DEF CompactStart, TypeInv, CompactTypes, CompactSteps
  <2>2. BarrierTypes'
    BY <1>1, <1>2 DEF CompactStart, TypeInv, BarrierTypes, barrierVars
  <2>3. ReaderTypes'
    BY <1>1, <1>2 DEF CompactStart, TypeInv, ReaderTypes, readerVars
  <2> QED
    BY <1>1, <1>2, <2>1, <2>2, <2>3, TypesKept DEF CompactStart, TypeInv
<1>3. CASE CompactProvider(k)
  <2>1. CompactTypes'
    BY <1>3 DEF CompactProvider, TypeInv, CompactTypes, CompactSteps
  <2>2. SourceTypes'
    <3>1. cursor' \in Nat
      BY <1>3 DEF CompactProvider, TypeInv, SourceTypes
    <3> QED
      BY <1>1, <1>3, <3>1 DEF CompactProvider, TypeInv, SourceTypes, sourceVars
  <2> QED
    BY <1>1, <1>3, <2>1, <2>2, TypesKept DEF CompactProvider, TypeInv
<1>4. CASE CompactExport(k)
  <2>1. CompactTypes'
    BY <1>4 DEF CompactExport, TypeInv, CompactTypes, CompactSteps
  <2>2. StoreTypes'
    BY <1>1, <1>4 DEF CompactExport, TypeInv, StoreTypes, SourceTypes
  <2> QED
    BY <1>1, <1>4, <2>1, <2>2, TypesKept DEF CompactExport, TypeInv
<1>5. CASE CompactUpdate(k)
  <2>1. CompactTypes'
    BY <1>5 DEF CompactUpdate, TypeInv, CompactTypes, CompactSteps
  <2>2. StoreTypes'
    BY <1>1, <1>5 DEF CompactUpdate, TypeInv, StoreTypes
  <2>3. SavedTypes'
    <3>1. export[k] \in Nat
      BY DEF TypeInv, StoreTypes
    <3> QED
      BY <1>5, <3>1, WriteRowTypes, TypesKept DEF CompactUpdate, TypeInv, SavedTypes
  <2> QED
    BY <1>1, <1>5, <2>1, <2>2, <2>3, TypesKept DEF CompactUpdate, TypeInv
<1>6. CASE SetUnblocked(k)
  <2>1. CompactTypes'
    BY <1>6 DEF SetUnblocked, TypeInv, CompactTypes, CompactSteps
  <2>2. BarrierTypes'
    BY <1>1, <1>6 DEF SetUnblocked, TypeInv, BarrierTypes, barrierVars
  <2> QED
    BY <1>1, <1>6, <2>1, <2>2, TypesKept DEF SetUnblocked, TypeInv
<1>7. CASE CompactEmit(k)
  <2>1. queued[k] + 1 \in 0 .. CompactBuffer
    BY <1>7, CapacityAssumption DEF CompactEmit, TypeInv, CompactTypes
  <2>2. AfterEmitting(compact[k]) \in CompactSteps
    BY <1>7 DEF CompactEmit, AfterEmitting, CompactSteps
  <2>3. CompactTypes'
    BY <1>7, <2>1, <2>2 DEF CompactEmit, TypeInv, CompactTypes
  <2> QED
    BY <1>1, <1>7, <2>3, TypesKept DEF CompactEmit, TypeInv
<1>8. CASE CompactSkipUsage(k)
  <2>1. CompactTypes'
    BY <1>8 DEF CompactSkipUsage, TypeInv, CompactTypes, CompactSteps
  <2> QED
    BY <1>1, <1>8, <2>1, TypesKept DEF CompactSkipUsage, TypeInv
<1> QED
  BY <1>2, <1>3, <1>4, <1>5, <1>6, <1>7, <1>8 DEF CompactStep

LEMMA TypesStep ==
    ASSUME TypeInv, [Next]_vars
    PROVE  TypeInv'
<1>1. CASE UNCHANGED vars
  BY <1>1, TypesKept DEF vars, TypeInv
<1> QED
  BY <1>1, TypesStart, TypesSource, TypesStore, TypesTrace, TypesBarrier, TypesReader,
     TypesCompact DEF Next

LEMMA TypeInvariant == Spec => []TypeInv
  BY TypesInit, TypesStep, PTL DEF Spec

\* Every variable keeps its type, and no channel or counter exceeds its bound.
THEOREM TypeCorrect == Spec => []TypeOK
  BY TypesEnough, TypeInvariant, PTL
-----------------------------------------------------------------------------
(* A stage ends after the one before it, with nothing left on its way.      *)

ClosedInv(s) ==
    /\ reader[s] = "waiting" => /\ source[s] = "idle" /\ store[s] = "idle"
                               /\ trace[s] = "idle" /\ barrier[s] = "idle"
    /\ reader[s] = "done" => barrier[s] = "closed"
    /\ barrier[s] = "closed" => trace[s] = "closed" /\ buffer[s] = <<>>
    /\ trace[s] = "closed" => store[s] = "closed"
    /\ store[s] = "closed" => source[s] = "closed"
    /\ source[s] \in {"idle", "closed"} => offered[s] = NoMsg

LEMMA ClosedInit == Init => \A s \in Streams : ClosedInv(s)
  BY DEF Init, ClosedInv

\* What belongs to stream s.
SameStream(s) ==
    /\ source'[s] = source[s] /\ offered'[s] = offered[s] /\ emitted'[s] = emitted[s]
    /\ turnOf'[s] = turnOf[s]
    /\ store'[s] = store[s] /\ storeMsg'[s] = storeMsg[s] /\ export'[s] = export[s]
    /\ trace'[s] = trace[s] /\ traceMsg'[s] = traceMsg[s] /\ rows'[s] = rows[s]
    /\ buffer'[s] = buffer[s] /\ failures'[s] = failures[s]
    /\ barrier'[s] = barrier[s] /\ barrierMsg'[s] = barrierMsg[s]
    /\ reader'[s] = reader[s] /\ delivered'[s] = delivered[s] /\ sent'[s] = sent[s]

StreamStep(t) ==
    \/ StartChat(t) \/ SourceStep(t) \/ StoreStep(t) \/ TraceStep(t)
    \/ BarrierStep(t) \/ ReaderStep(t) \/ LeaveAfterError(t) \/ Disconnect(t)

\* A step of one stream leaves the stages of the others alone.
LEMMA OtherStream ==
    ASSUME TypeInv, NEW s \in Streams, NEW t \in Streams, StreamStep(t), s # t
    PROVE  SameStream(s)
<1> USE DEF SameStream, sourceVars, storeVars, traceVars, barrierVars, readerVars
<1>1. CASE StartChat(t)
  BY <1>1 DEF StartChat, StorageFails, TypeInv, SourceTypes, StoreTypes, TraceTypes,
              BarrierTypes, ReaderTypes, BufferTypes, FailureTypes
<1>2. CASE SourceStep(t)
  BY <1>2 DEF SourceStep, Produce, ProduceError, CloseSource, Emit, TypeInv, SourceTypes
<1>3. CASE StoreStep(t)
  BY <1>3 DEF StoreStep, StoreRecv, CaptureMessage, UpdateSession, StorageFails, TypeInv,
              SourceTypes, StoreTypes, FailureTypes
<1>4. CASE TraceStep(t)
  BY <1>4 DEF TraceStep, TraceRecv, TraceQueue, TraceRecord, StorageFails, TypeInv,
              StoreTypes, TraceTypes, BufferTypes, FailureTypes
<1>5. CASE BarrierStep(t)
  BY <1>5 DEF BarrierStep, BarrierRecv, BarrierCheck, TypeInv, BufferTypes, BarrierTypes
<1>6. CASE ReaderStep(t) \/ LeaveAfterError(t) \/ Disconnect(t)
  BY <1>6 DEF ReaderStep, Read, ReadEnd, LeaveAfterError, Disconnect, TypeInv,
              BarrierTypes, ReaderTypes
<1> QED
  BY <1>1, <1>2, <1>3, <1>4, <1>5, <1>6 DEF StreamStep

LEMMA ClosedStream ==
    ASSUME TypeInv, NEW s \in Streams, ClosedInv(s), StreamStep(s)
    PROVE  ClosedInv(s)'
<1>1. CASE StartChat(s)
  <2>1. /\ source'[s] = "running" /\ store'[s] = "recv" /\ trace'[s] = "recv"
        /\ barrier'[s] = "recv" /\ reader'[s] = "reading"
    BY <1>1 DEF StartChat, TypeInv, SourceTypes, StoreTypes, TraceTypes, BarrierTypes,
                ReaderTypes
  <2> QED
    BY <2>1 DEF ClosedInv
<1>2. CASE SourceStep(s)
  BY <1>2 DEF ClosedInv, SourceStep, Produce, ProduceError, CloseSource, Emit, TypeInv,
              SourceTypes, storeVars, traceVars, barrierVars, readerVars
<1>3. CASE StoreStep(s)
  BY <1>3 DEF ClosedInv, StoreStep, StoreRecv, CaptureMessage, UpdateSession, TypeInv,
              SourceTypes, StoreTypes, sourceVars, traceVars, barrierVars, readerVars
<1>4. CASE TraceStep(s)
  BY <1>4 DEF ClosedInv, TraceStep, TraceRecv, TraceQueue, TraceRecord, TypeInv, StoreTypes,
              TraceTypes, BufferTypes, sourceVars, storeVars, barrierVars, readerVars
<1>5. CASE BarrierStep(s)
  BY <1>5 DEF ClosedInv, BarrierStep, BarrierRecv, BarrierCheck, TypeInv, BufferTypes,
              BarrierTypes, sourceVars, storeVars, traceVars, readerVars
<1>6. CASE ReaderStep(s) \/ LeaveAfterError(s) \/ Disconnect(s)
  BY <1>6 DEF ClosedInv, ReaderStep, Read, ReadEnd, LeaveAfterError, Disconnect, Reading,
              TypeInv, BarrierTypes, ReaderTypes, sourceVars, storeVars, traceVars,
              barrierVars
<1> QED
  BY <1>1, <1>2, <1>3, <1>4, <1>5, <1>6 DEF StreamStep

\* A compaction leaves the stages of all streams alone.
LEMMA CompactLeaves ==
    ASSUME NEW k \in Compactions, CompactStart(k) \/ CompactStep(k)
    PROVE  UNCHANGED otherThanCompact
  BY DEF CompactStart, CompactStep, CompactProvider, CompactExport, CompactUpdate,
         SetUnblocked, CompactEmit, CompactSkipUsage

LEMMA SameStep ==
    ASSUME NEW s \in Streams, [Next]_vars, ~StreamStep(s), TypeInv
    PROVE  SameStream(s) \/ \E k \in Compactions : CompactStart(k) \/ CompactStep(k)
<1>1. CASE UNCHANGED vars
  BY <1>1 DEF vars, SameStream, sourceVars, storeVars, traceVars, barrierVars, readerVars
<1>2. ASSUME NEW t \in Streams, StreamStep(t)
      PROVE  SameStream(s)
  BY <1>2, OtherStream
<1> QED
  BY <1>1, <1>2 DEF Next, StreamStep

AllClosed == \A s \in Streams : ClosedInv(s)

LEMMA ClosedStep ==
    ASSUME TypeInv, AllClosed, [Next]_vars
    PROVE  AllClosed'
<1> SUFFICES ASSUME NEW s \in Streams
             PROVE  ClosedInv(s)'
  BY DEF AllClosed
<1>1. ClosedInv(s)
  BY DEF AllClosed
<1>2. CASE StreamStep(s)
  BY <1>1, <1>2, ClosedStream
<1>3. CASE SameStream(s)
  BY <1>1, <1>3 DEF ClosedInv, SameStream
<1>4. CASE \E k \in Compactions : CompactStart(k) \/ CompactStep(k)
  <2>1. UNCHANGED otherThanCompact
    BY <1>4, CompactLeaves
  <2> QED
    BY <1>1, <2>1 DEF ClosedInv, otherThanCompact, sourceVars, traceVars, barrierVars,
                      readerVars
<1> QED
  BY <1>2, <1>3, <1>4, SameStep

LEMMA ClosedInvariant == Spec => []AllClosed
<1>1. Init => AllClosed
  BY ClosedInit DEF AllClosed
<1> QED
  BY <1>1, ClosedStep, TypeInvariant, PTL DEF Spec

-----------------------------------------------------------------------------
(* The last final of a turn is saved, or on its way to being saved, and no  *)
(* write of an older cursor is in progress.                                 *)

Writers == Streams \cup Compactions
NoOlderExport(s) == \A x \in Writers : export[x] = 0 \/ turnOf[s] <= export[x]
OnItsWay(s) ==
    \/ offered[s].type = "final"
    \/ store[s] \in {"send", "capture"} /\ storeMsg[s].type = "final"

SavingInv(s) ==
    /\ turnOf[s] <= cursor
    /\ failures[s] = 0 =>
          \/ OnItsWay(s)
          \/ s \in late
          \/ /\ NoOlderExport(s)
             /\ turnOf[s] <= row \/ (store[s] = "update" /\ turnOf[s] <= export[s])

AllSaving == \A s \in Streams : SavingInv(s)

LEMMA SavingInit == Init => AllSaving
  BY DEF Init, AllSaving, SavingInv, NoOlderExport, Writers

LEMMA CursorTypes ==
    ASSUME TypeInv
    PROVE  /\ cursor \in Nat /\ row \in Nat /\ turnOf \in [Streams -> Nat]
           /\ \A x \in Writers : export[x] \in Nat
  BY DEF TypeInv, SourceTypes, SavedTypes, StoreTypes, Writers

\* The session's cursor only grows; what is exported is the cursor, and what is written
\* is what was exported.
LEMMA CursorsMove ==
    ASSUME TypeInv, [Next]_vars
    PROVE  /\ cursor' \in Nat /\ cursor <= cursor'
           /\ \A x \in Writers : export'[x] \in {export[x], 0, cursor}
           /\ row' = row \/ \E x \in Writers : row' = export[x] /\ export[x] # 0
<1>1. cursor \in Nat /\ DOMAIN export = Writers
  BY DEF TypeInv, SourceTypes, StoreTypes, Writers
<1>2. ASSUME NEW s \in Streams, StreamStep(s)
      PROVE  /\ cursor' = cursor \/ cursor' = cursor + 1
             /\ \A x \in Writers : export'[x] \in {export[x], 0, cursor}
             /\ row' = row \/ WriteRow(export[s])
  BY <1>1, <1>2 DEF StreamStep, StartChat, SourceStep, Produce, ProduceError, CloseSource,
        StoreStep, StoreRecv, CaptureMessage, UpdateSession, TraceStep, TraceRecv,
        TraceQueue, TraceRecord, BarrierStep, BarrierRecv, BarrierCheck, ReaderStep, Read,
        ReadEnd, LeaveAfterError, Disconnect, storeVars
<1>3. ASSUME NEW k \in Compactions, CompactStart(k) \/ CompactStep(k)
      PROVE  /\ cursor' = cursor \/ cursor' = cursor + 1
             /\ \A x \in Writers : export'[x] \in {export[x], 0, cursor}
             /\ row' = row \/ WriteRow(export[k])
  BY <1>1, <1>3 DEF CompactStart, CompactStep, CompactProvider, CompactExport, CompactUpdate,
        SetUnblocked, CompactEmit, CompactSkipUsage
<1>4. \A x \in Writers : WriteRow(export[x]) => row' = row \/ (row' = export[x] /\ export[x] # 0)
  BY DEF WriteRow
<1>5. UNCHANGED vars => cursor' = cursor /\ export' = export /\ row' = row
  BY DEF vars, storeVars
<1>6. Streams \subseteq Writers /\ Compactions \subseteq Writers
  BY DEF Writers
<1> QED
  BY <1>1, <1>2, <1>3, <1>4, <1>5, <1>6 DEF Next, StreamStep

\* Only its own export can make a stream late.
LEMMA LateKept ==
    ASSUME TypeInv, [Next]_vars, NEW s \in Streams, ~CaptureMessage(s)
    PROVE  s \in late' <=> s \in late
<1>1. ASSUME NEW t \in Streams, StreamStep(t)
      PROVE  late' = late \/ CaptureMessage(t)
  BY <1>1 DEF StreamStep, StartChat, SourceStep, Produce, ProduceError, CloseSource,
        StoreStep, StoreRecv, UpdateSession, TraceStep, TraceRecv, TraceQueue, TraceRecord,
        BarrierStep, BarrierRecv, BarrierCheck, ReaderStep, Read, ReadEnd,
        LeaveAfterError, Disconnect
<1>2. ASSUME NEW t \in Streams, CaptureMessage(t)
      PROVE  t # s /\ (late' = late \/ late' = late \cup {t} \/ late' = late \ {t})
  BY <1>2 DEF CaptureMessage
<1>3. ASSUME NEW k \in Compactions, CompactStart(k) \/ CompactStep(k)
      PROVE  late' = late
  BY <1>3 DEF CompactStart, CompactStep, CompactProvider, CompactExport, CompactUpdate,
        SetUnblocked, CompactEmit, CompactSkipUsage
<1>4. UNCHANGED vars => late' = late
  BY DEF vars
<1> QED
  BY <1>1, <1>2, <1>3, <1>4 DEF Next, StreamStep

\* Once no older cursor is about to be written, none will be.
LEMMA RowHolds ==
    ASSUME TypeInv, [Next]_vars, NEW s \in Streams, turnOf[s] <= cursor,
           turnOf'[s] = turnOf[s], NoOlderExport(s)
    PROVE  /\ NoOlderExport(s)'
           /\ turnOf[s] <= row => turnOf'[s] <= row'
<1>1. NoOlderExport(s)'
  BY CursorsMove, CursorTypes DEF NoOlderExport, Writers
<1>2. turnOf[s] <= row => turnOf'[s] <= row'
  BY CursorsMove, CursorTypes DEF NoOlderExport
<1> QED
  BY <1>1, <1>2

\* A step that leaves the way of a final alone.
LEMMA SavingKept ==
    ASSUME TypeInv, NEW s \in Streams, SavingInv(s), [Next]_vars, ~CaptureMessage(s),
           failures'[s] = 0 => failures[s] = 0,
           turnOf'[s] = turnOf[s], offered'[s] = offered[s], store'[s] = store[s],
           storeMsg'[s] = storeMsg[s], export'[s] = export[s]
    PROVE  SavingInv(s)'
<1>1. turnOf'[s] <= cursor'
  BY CursorsMove, CursorTypes DEF SavingInv
<1>2. OnItsWay(s) => OnItsWay(s)'
  BY DEF OnItsWay
<1>3. s \in late => s \in late'
  BY LateKept
<1>4. NoOlderExport(s) => NoOlderExport(s)' /\ (turnOf[s] <= row => turnOf'[s] <= row')
  BY RowHolds DEF SavingInv
<1> QED
  BY <1>1, <1>2, <1>3, <1>4 DEF SavingInv

\* The provider and the session store move a final on.
LEMMA SavingMoves ==
    ASSUME TypeInv, NEW s \in Streams, ClosedInv(s), SavingInv(s), [Next]_vars,
           SourceStep(s) \/ StoreStep(s) \/ TraceRecv(s)
    PROVE  SavingInv(s)'
<1>1. /\ cursor' \in Nat /\ cursor <= cursor'
      /\ turnOf[s] \in Nat /\ cursor \in Nat /\ row \in Nat /\ export[s] \in Nat
      /\ turnOf[s] <= cursor /\ NoMsg.type # "final"
  BY CursorsMove, CursorTypes DEF SavingInv, NoMsg, Writers
<1>2. /\ ~CaptureMessage(s) => (s \in late' <=> s \in late)
      /\ turnOf'[s] = turnOf[s] /\ NoOlderExport(s) =>
            NoOlderExport(s)' /\ (turnOf[s] <= row => turnOf'[s] <= row')
  BY <1>1, LateKept, RowHolds
<1>3. CASE Produce(s)
  <2>1. /\ offered[s] = NoMsg /\ ~CaptureMessage(s)
        /\ \/ /\ offered'[s].type = "final" /\ cursor' = cursor + 1
              /\ turnOf'[s] = cursor + 1
           \/ cursor' = cursor /\ turnOf'[s] = turnOf[s]
        /\ UNCHANGED <<store, storeMsg, export, row, failures>>
    BY <1>3 DEF Produce, Emit, CaptureMessage, TypeInv, SourceTypes, storeVars, sourceVars
  <2>2. CASE offered'[s].type = "final" /\ cursor' = cursor + 1 /\ turnOf'[s] = cursor + 1
    BY <1>1, <2>2 DEF SavingInv, OnItsWay
  <2>3. CASE cursor' = cursor /\ turnOf'[s] = turnOf[s]
    <3>1. OnItsWay(s) => OnItsWay(s)'
      BY <1>1, <2>1 DEF OnItsWay
    <3> QED
      BY <1>1, <1>2, <2>1, <2>3, <3>1 DEF SavingInv
  <2> QED
    BY <2>1, <2>2, <2>3
<1>4. CASE ProduceError(s) \/ CloseSource(s)
  <2>1. /\ offered[s] = NoMsg /\ ~CaptureMessage(s)
        /\ UNCHANGED <<cursor, turnOf, store, storeMsg, export, failures>>
    BY <1>4 DEF ProduceError, CloseSource, CaptureMessage, storeVars, TypeInv, StoreTypes
  <2>2. OnItsWay(s) => OnItsWay(s)'
    BY <1>1, <2>1 DEF OnItsWay
  <2> QED
    BY <1>1, <1>2, <2>1, <2>2 DEF SavingInv
<1>5. CASE StoreRecv(s)
  <2>1. /\ store[s] = "recv" /\ ~CaptureMessage(s)
        /\ \/ store'[s] = "send" /\ storeMsg'[s] = offered[s]
           \/ source[s] = "closed" /\ UNCHANGED offered
        /\ UNCHANGED <<cursor, turnOf, failures>>
    BY <1>5 DEF StoreRecv, CaptureMessage, TypeInv, StoreTypes
  <2>2. OnItsWay(s) => OnItsWay(s)'
    BY <1>1, <2>1 DEF OnItsWay, ClosedInv
  <2> QED
    BY <1>1, <1>2, <2>1, <2>2 DEF SavingInv
<1>6. CASE CaptureMessage(s)
  <2>1. /\ store[s] = "capture"
        /\ UNCHANGED <<cursor, turnOf, offered, row, failures>>
    BY <1>6 DEF CaptureMessage, sourceVars
  <2>2. CASE CarriesCursor(storeMsg[s])
    <3>1. /\ store'[s] = "update" /\ export' = [export EXCEPT ![s] = cursor]
          /\ OlderExport(s) => s \in late'
      BY <1>6, <2>2 DEF CaptureMessage, Captured, CarriesCursor, TypeInv, StoreTypes
    <3>2. export'[s] = cursor /\ \A x \in Writers \ {s} : export'[x] = export[x]
      BY <3>1 DEF TypeInv, StoreTypes, Writers
    <3>3. ASSUME ~OlderExport(s)
          PROVE  NoOlderExport(s)'
      <4>1. \A x \in Writers \ {s} : export[x] = 0 \/ turnOf[s] <= export[x]
        BY <1>1, <3>3, CursorTypes DEF OlderExport, Writers
      <4> QED
        BY <1>1, <2>1, <3>2, <4>1 DEF NoOlderExport
    <3> QED
      BY <1>1, <2>1, <3>1, <3>2, <3>3 DEF SavingInv
  <2>3. CASE ~CarriesCursor(storeMsg[s])
    <3>1. storeMsg[s].type # "final" /\ late' = late
      BY <1>6, <2>3 DEF CaptureMessage, CarriesCursor
    <3>2. OnItsWay(s) => OnItsWay(s)'
      BY <2>1, <3>1 DEF OnItsWay
    <3> QED
      BY <1>1, <1>2, <2>1, <3>1, <3>2 DEF SavingInv
  <2> QED
    BY <2>2, <2>3
<1>7. CASE UpdateSession(s)
  <2>1. /\ store[s] = "update" /\ ~CaptureMessage(s)
        /\ \/ WriteRow(export[s]) /\ UNCHANGED failures
           \/ StorageFails(s)
        /\ UNCHANGED <<cursor, turnOf, offered>>
    BY <1>7 DEF UpdateSession, CaptureMessage, sourceVars
  <2>2. OnItsWay(s) => OnItsWay(s)'
    BY <2>1 DEF OnItsWay
  <2>3. turnOf[s] <= export[s] /\ WriteRow(export[s]) => turnOf'[s] <= row'
    BY <1>1, <2>1 DEF WriteRow
  <2>4. failures'[s] = 0 => failures[s] = 0 /\ WriteRow(export[s])
    BY <2>1, FailureCounted DEF TypeInv
  <2> QED
    BY <1>1, <1>2, <2>1, <2>2, <2>3, <2>4 DEF SavingInv
<1>8. CASE TraceRecv(s)
  <2>1. /\ ~CaptureMessage(s)
        /\ \/ store[s] = "send" /\ store'[s] = "capture"
           \/ store[s] = "senderr" /\ UNCHANGED export
           \/ store' = store
        /\ UNCHANGED <<cursor, turnOf, offered, storeMsg, export, failures>>
    BY <1>8 DEF TraceRecv, CaptureMessage, TypeInv, StoreTypes, sourceVars
  <2>2. OnItsWay(s) => OnItsWay(s)'
    BY <2>1 DEF OnItsWay
  <2> QED
    BY <1>1, <1>2, <2>1, <2>2 DEF SavingInv
<1> QED
  BY <1>3, <1>4, <1>5, <1>6, <1>7, <1>8 DEF SourceStep, StoreStep

\* The other steps of a stream may fail to write something else.
LEMMA FailuresGrow ==
    ASSUME TypeInv, NEW s \in Streams, failures' = failures \/ StorageFails(s)
    PROVE  failures'[s] = 0 => failures[s] = 0
  BY FailureCounted DEF TypeInv

LEMMA SavingStream ==
    ASSUME TypeInv, NEW s \in Streams, ClosedInv(s), SavingInv(s), StreamStep(s), [Next]_vars
    PROVE  SavingInv(s)'
<1>1. CASE StartChat(s)
  <2>1. /\ store[s] = "idle" /\ offered[s] = NoMsg /\ NoMsg.type # "final"
        /\ failures'[s] = 0 => failures[s] = 0
        /\ UNCHANGED <<cursor, turnOf, row, late, export>>
    BY <1>1, FailuresGrow DEF StartChat, ClosedInv, NoMsg
  <2> QED
    BY <2>1 DEF SavingInv, OnItsWay, NoOlderExport
<1>2. CASE SourceStep(s) \/ StoreStep(s) \/ TraceRecv(s)
  BY <1>2, SavingMoves
<1>3. CASE TraceQueue(s) \/ TraceRecord(s) \/ BarrierStep(s) \/ ReaderStep(s)
              \/ LeaveAfterError(s) \/ Disconnect(s)
  <2>1. /\ failures' = failures \/ StorageFails(s)
        /\ UNCHANGED <<offered, turnOf, storeVars>>
    BY <1>3 DEF TraceQueue, TraceRecord, BarrierStep, BarrierRecv, BarrierCheck, ReaderStep,
          Read, ReadEnd, LeaveAfterError, Disconnect, sourceVars
  <2>2. ~CaptureMessage(s)
    BY <2>1 DEF CaptureMessage, storeVars, TypeInv, StoreTypes
  <2> QED
    BY <2>1, <2>2, FailuresGrow, SavingKept DEF storeVars
<1> QED
  BY <1>1, <1>2, <1>3 DEF StreamStep, TraceStep

\* A compaction may only move the cursors on.
LEMMA CompactSaves ==
    ASSUME TypeInv, NEW s \in Streams, NEW k \in Compactions, CompactStart(k) \/ CompactStep(k)
    PROVE  SameStream(s)
<1>1. UNCHANGED otherThanCompact
  BY CompactLeaves
<1>2. s # k
  BY NamesAssumption
<1>3. export'[s] = export[s]
  BY <1>2 DEF CompactStart, CompactStep, CompactProvider, CompactExport, CompactUpdate,
        SetUnblocked, CompactEmit, CompactSkipUsage, TypeInv, StoreTypes
<1> QED
  BY <1>1, <1>3 DEF SameStream, otherThanCompact, sourceVars, traceVars, barrierVars,
                    readerVars

LEMMA SavingStep ==
    ASSUME TypeInv, AllClosed, AllSaving, [Next]_vars
    PROVE  AllSaving'
<1> SUFFICES ASSUME NEW s \in Streams
             PROVE  SavingInv(s)'
  BY DEF AllSaving
<1>1. SavingInv(s) /\ ClosedInv(s)
  BY DEF AllSaving, AllClosed
<1>2. CASE StreamStep(s)
  BY <1>1, <1>2, SavingStream
<1>3. CASE ~StreamStep(s)
  <2>1. ~CaptureMessage(s)
    BY <1>3 DEF StreamStep, StoreStep
  <2>2. SameStream(s)
    BY <1>3, SameStep, CompactSaves
  <2> QED
    BY <1>1, <2>1, <2>2, SavingKept DEF SameStream
<1> QED
  BY <1>2, <1>3

\* The end of the stream is a guarantee about the row, whatever else writes it: unless a
\* write of the stream failed, or one of an older cursor was in progress when the turn was
\* exported, the row is and stays at least as new as the turn the reader has seen.
THEOREM EndMeansSaved == Spec => []ClosedMeansSaved
<1>1. Spec => []AllSaving
  BY SavingInit, SavingStep, TypeInvariant, ClosedInvariant, PTL DEF Spec
<1>2. TypeInv /\ AllClosed /\ AllSaving => ClosedMeansSaved
  <2> SUFFICES ASSUME TypeInv, AllClosed, AllSaving, NEW s \in Streams,
                      reader[s] = "done", failures[s] = 0, s \notin late
               PROVE  row >= turnOf[s]
    BY DEF ClosedMeansSaved
  <2>1. store[s] = "closed" /\ offered[s] = NoMsg /\ NoMsg.type # "final"
    BY DEF AllClosed, ClosedInv, NoMsg
  <2>2. turnOf[s] <= row
    BY <2>1 DEF AllSaving, SavingInv, OnItsWay
  <2> QED
    BY <2>2, CursorTypes
<1> QED
  BY <1>1, <1>2, ClosedInvariant, TypeInvariant, PTL

-----------------------------------------------------------------------------
(* The trace: as long as no write fails, what the provider sent is what was *)
(* recorded, followed by what the three goroutines hold.                    *)

InTrace(s) == IF trace[s] \in {"queue", "record"} THEN <<traceMsg[s]>> ELSE <<>>
InStore(s) == IF store[s] = "send" THEN <<storeMsg[s]>> ELSE <<>>
InSource(s) == IF offered[s] = NoMsg THEN <<>> ELSE <<offered[s]>>

TraceInv(s) ==
    failures[s] = 0 =>
        /\ store[s] # "senderr" /\ trace[s] # "queueerr"
        /\ emitted[s] = ((rows[s] \o InTrace(s)) \o InStore(s)) \o InSource(s)

AllTraced == \A s \in Streams : TraceInv(s)

LEMMA TraceInit == Init => AllTraced
  BY DEF Init, AllTraced, TraceInv, InTrace, InStore, InSource

\* Sequences of messages, as far as they matter here.
LEMMA Joining ==
    ASSUME NEW h \in Seq(Msgs)
    PROVE  /\ h \o <<>> = h
           /\ \A m \in Msgs : h \o <<m>> = Append(h, m) /\ Append(h, m) \in Seq(Msgs)
  OBVIOUS

\* What stands in front of the message that a step moves.
LEMMA Parts ==
    ASSUME TypeInv, NEW s \in Streams
    PROVE  /\ rows[s] \in Seq(Msgs) /\ (rows[s] \o InTrace(s)) \in Seq(Msgs)
           /\ ((rows[s] \o InTrace(s)) \o InStore(s)) \in Seq(Msgs)
<1>1. rows[s] \in Seq(Msgs)
  BY DEF TypeInv, TraceTypes
<1>2. InTrace(s) \in Seq(Msgs)
  BY DEF InTrace, TypeInv, TraceTypes
<1>3. InStore(s) \in Seq(Msgs)
  BY DEF InStore, TypeInv, StoreTypes
<1> QED
  BY <1>1, <1>2, <1>3

LEMMA TraceSource ==
    ASSUME TypeInv, NEW s \in Streams, TraceInv(s), SourceStep(s)
    PROVE  TraceInv(s)'
<1>1. CASE Produce(s) \/ ProduceError(s)
  <2>1. PICK m : /\ offered[s] = NoMsg /\ Emit(s, m) /\ m.n = sent[s] + 1
                 /\ UNCHANGED <<storeVars, traceVars, rows, failures>>
    BY <1>1 DEF Produce, ProduceError
  <2>2. m # NoMsg
    BY <2>1 DEF NoMsg, TypeInv, SourceTypes
  <2>3. /\ offered'[s] = m /\ emitted'[s] = Append(emitted[s], m)
        /\ UNCHANGED <<store, storeMsg, trace, traceMsg, rows, failures>>
    BY <2>1 DEF Emit, TypeInv, SourceTypes, storeVars, traceVars
  <2>4. m \in Msgs
    BY <2>3, TypesSource DEF TypeInv, SourceTypes, MaybeMsgs
  <2>5. InTrace(s)' = InTrace(s) /\ InStore(s)' = InStore(s)
    BY <2>3 DEF InTrace, InStore
  <2>6. InSource(s) = <<>> /\ InSource(s)' = <<m>>
    BY <2>1, <2>2, <2>3 DEF InSource
  <2> DEFINE ahead == (rows[s] \o InTrace(s)) \o InStore(s)
  <2>7. ahead \in Seq(Msgs) /\ ahead' = ahead
    BY <2>3, <2>5, Parts
  <2>8. ahead \o <<>> = ahead /\ ahead \o <<m>> = Append(ahead, m)
    <3> HIDE DEF ahead
    <3> QED
      BY <2>4, <2>7, Joining
  <2>9. ASSUME failures[s] = 0
        PROVE  emitted'[s] = ahead' \o InSource(s)'
    <3>1. emitted[s] = ahead \o InSource(s)
      BY <2>9 DEF TraceInv
    <3> HIDE DEF ahead
    <3> QED
      BY <3>1, <2>3, <2>6, <2>7, <2>8
  <2> QED
    BY <2>3, <2>9 DEF TraceInv
<1>2. CASE CloseSource(s)
  <2>1. UNCHANGED <<offered, emitted, store, storeMsg, trace, traceMsg, rows, failures>>
    BY <1>2 DEF CloseSource, storeVars, traceVars
  <2> QED
    BY <2>1 DEF TraceInv, InTrace, InStore, InSource
<1> QED
  BY <1>1, <1>2 DEF SourceStep

LEMMA TraceStore ==
    ASSUME TypeInv, NEW s \in Streams, TraceInv(s), StoreStep(s)
    PROVE  TraceInv(s)'
<1>1. CASE StoreRecv(s)
  <2>1. /\ store[s] = "recv"
        /\ \/ /\ offered[s] # NoMsg /\ store'[s] = "send" /\ storeMsg'[s] = offered[s]
              /\ offered'[s] = NoMsg
           \/ store'[s] = "closed" /\ UNCHANGED offered
        /\ UNCHANGED <<emitted, trace, traceMsg, rows, failures>>
    BY <1>1 DEF StoreRecv, TypeInv, StoreTypes, SourceTypes, traceVars
  <2>2. offered[s] # NoMsg => offered[s] \in Msgs
    BY DEF TypeInv, SourceTypes, MaybeMsgs
  <2> QED
    BY <2>1, <2>2, Parts, Joining DEF TraceInv, InTrace, InStore, InSource
<1>2. CASE CaptureMessage(s) \/ UpdateSession(s)
  <2>1. /\ store[s] \in {"capture", "update"} /\ store'[s] # "send"
        /\ store'[s] = "senderr" => failures'[s] # 0
        /\ failures'[s] = 0 => failures[s] = 0
        /\ UNCHANGED <<offered, emitted, trace, traceMsg, rows>>
    BY <1>2, FailureCounted, FailuresGrow DEF CaptureMessage, UpdateSession, TypeInv,
          StoreTypes, sourceVars, traceVars
  <2> QED
    BY <2>1 DEF TraceInv, InTrace, InStore, InSource
<1> QED
  BY <1>1, <1>2 DEF StoreStep

LEMMA TraceTrace ==
    ASSUME TypeInv, NEW s \in Streams, TraceInv(s), TraceStep(s)
    PROVE  TraceInv(s)'
<1>1. CASE TraceRecv(s)
  <2>1. /\ trace[s] = "recv"
        /\ \/ /\ store[s] = "send" /\ traceMsg'[s] = storeMsg[s] /\ store'[s] = "capture"
              /\ trace'[s] = "queue"
           \/ store[s] = "senderr"
           \/ trace'[s] = "closed" /\ store' = store
        /\ UNCHANGED <<offered, emitted, storeMsg, rows, failures>>
    BY <1>1 DEF TraceRecv, TypeInv, StoreTypes, TraceTypes, sourceVars
  <2>2. store[s] = "send" => storeMsg[s] \in Msgs
    BY DEF TypeInv, StoreTypes
  <2>3. failures[s] = 0 => store[s] # "senderr"
    BY DEF TraceInv
  <2> QED
    BY <2>1, <2>2, <2>3, Parts, Joining DEF TraceInv, InTrace, InStore, InSource
<1>2. CASE TraceQueue(s)
  <2>1. /\ \/ trace[s] = "queue" /\ trace'[s] = "record"
           \/ trace[s] = "queueerr"
        /\ UNCHANGED <<offered, emitted, store, storeMsg, traceMsg, rows, failures>>
    BY <1>2 DEF TraceQueue, TypeInv, TraceTypes, sourceVars, storeVars
  <2> QED
    BY <2>1 DEF TraceInv, InTrace, InStore, InSource
<1>3. CASE TraceRecord(s)
  <2>1. /\ trace[s] = "record"
        /\ \/ /\ rows'[s] = Append(rows[s], traceMsg[s]) /\ trace'[s] = "recv"
              /\ failures' = failures
           \/ failures'[s] # 0
        /\ UNCHANGED <<offered, emitted, store, storeMsg>>
    BY <1>3, FailureCounted DEF TraceRecord, TypeInv, TraceTypes, sourceVars, storeVars
  <2>2. CASE failures'[s] # 0
    BY <2>2 DEF TraceInv
  <2>3. CASE failures'[s] = 0
    <3>1. /\ rows'[s] = Append(rows[s], traceMsg[s]) /\ trace'[s] = "recv"
          /\ failures[s] = 0
      BY <2>1, <2>3
    <3>2. traceMsg[s] \in Msgs
      BY <2>1 DEF TypeInv, TraceTypes
    <3>3. InTrace(s) = <<traceMsg[s]>> /\ InTrace(s)' = <<>>
      BY <2>1, <3>1 DEF InTrace
    <3>4. rows[s] \o InTrace(s) = rows'[s] /\ rows'[s] \in Seq(Msgs)
      BY <3>1, <3>2, <3>3, Parts, Joining
    <3>5. rows'[s] \o InTrace(s)' = rows'[s]
      BY <3>3, <3>4, Joining
    <3>6. InStore(s)' = InStore(s) /\ InSource(s)' = InSource(s)
      BY <2>1 DEF InStore, InSource
    <3>7. /\ store[s] # "senderr"
          /\ emitted[s] = ((rows[s] \o InTrace(s)) \o InStore(s)) \o InSource(s)
      BY <3>1 DEF TraceInv
    <3>8. /\ store'[s] # "senderr" /\ trace'[s] # "queueerr"
          /\ emitted'[s] = ((rows'[s] \o InTrace(s)') \o InStore(s)') \o InSource(s)'
      BY <2>1, <3>1, <3>4, <3>5, <3>6, <3>7, Zenon
    <3> QED
      BY <3>8 DEF TraceInv
  <2> QED
    BY <2>2, <2>3
<1> QED
  BY <1>1, <1>2, <1>3 DEF TraceStep

LEMMA TraceStream ==
    ASSUME TypeInv, NEW s \in Streams, ClosedInv(s), TraceInv(s), StreamStep(s)
    PROVE  TraceInv(s)'
<1>1. CASE StartChat(s)
  <2>1. /\ trace[s] = "idle" /\ store[s] = "idle" /\ trace'[s] = "recv" /\ store'[s] = "recv"
        /\ failures'[s] = 0 => failures[s] = 0
        /\ UNCHANGED <<offered, emitted, rows>>
    BY <1>1, FailuresGrow DEF StartChat, ClosedInv, TypeInv, StoreTypes, TraceTypes
  <2> QED
    BY <2>1 DEF TraceInv, InTrace, InStore, InSource
<1>2. CASE SourceStep(s) \/ StoreStep(s) \/ TraceStep(s)
  BY <1>2, TraceSource, TraceStore, TraceTrace
<1>3. CASE BarrierStep(s) \/ ReaderStep(s) \/ LeaveAfterError(s) \/ Disconnect(s)
  <2>1. UNCHANGED <<offered, emitted, store, storeMsg, trace, traceMsg, rows, failures>>
    BY <1>3 DEF BarrierStep, BarrierRecv, BarrierCheck, ReaderStep, Read, ReadEnd,
          LeaveAfterError, Disconnect, sourceVars, storeVars, traceVars
  <2> QED
    BY <2>1 DEF TraceInv, InTrace, InStore, InSource
<1> QED
  BY <1>1, <1>2, <1>3 DEF StreamStep

LEMMA TraceInvStep ==
    ASSUME TypeInv, AllClosed, AllTraced, [Next]_vars
    PROVE  AllTraced'
<1> SUFFICES ASSUME NEW s \in Streams
             PROVE  TraceInv(s)'
  BY DEF AllTraced
<1>1. TraceInv(s) /\ ClosedInv(s)
  BY DEF AllTraced, AllClosed
<1>2. CASE StreamStep(s)
  BY <1>1, <1>2, TraceStream
<1>3. CASE SameStream(s)
  BY <1>1, <1>3 DEF TraceInv, InTrace, InStore, InSource, SameStream
<1> QED
  BY <1>2, <1>3, SameStep, CompactSaves

\* When the reader saw the stream end and no write failed, the trace store holds
\* exactly the messages the provider sent, in order.
THEOREM TraceComplete == Spec => []TraceIsComplete
<1>1. Spec => []AllTraced
  BY TraceInit, TraceInvStep, TypeInvariant, ClosedInvariant, PTL DEF Spec
<1>2. TypeInv /\ AllClosed /\ AllTraced => TraceIsComplete
  <2> SUFFICES ASSUME TypeInv, AllClosed, AllTraced, NEW s \in Streams,
                      reader[s] = "done", failures[s] = 0
               PROVE  rows[s] = emitted[s]
    BY DEF TraceIsComplete
  <2>1. trace[s] = "closed" /\ store[s] = "closed" /\ offered[s] = NoMsg
    BY DEF AllClosed, ClosedInv
  <2>2. emitted[s] = ((rows[s] \o <<>>) \o <<>>) \o <<>>
    BY <2>1 DEF AllTraced, TraceInv, InTrace, InStore, InSource
  <2>3. rows[s] \in Seq(Msgs)
    BY DEF TypeInv, TraceTypes
  <2> QED
    BY <2>2, <2>3, Joining
<1> QED
  BY <1>1, <1>2, TypeInvariant, ClosedInvariant, PTL

-----------------------------------------------------------------------------
(* The closed barrier: the one message that may pass it was checked before. *)

LeakInv(s) ==
    /\ leaked[s] <= 1
    /\ blocked /\ barrier[s] = "send" /\ IsFinalOrDelta(barrierMsg[s]) => leaked[s] = 0

AllLeaks == \A s \in Streams : LeakInv(s)

LEMMA LeakInit == Init => AllLeaks
  BY DEF Init, AllLeaks, LeakInv

LEMMA LeakStream ==
    ASSUME TypeInv, NEW s \in Streams, LeakInv(s), StreamStep(s)
    PROVE  LeakInv(s)'
<1>1. CASE BarrierRecv(s) \/ StartChat(s)
  <2>1. barrier'[s] # "send" /\ leaked' = leaked
    BY <1>1 DEF BarrierRecv, StartChat, TypeInv, BarrierTypes
  <2> QED
    BY <2>1 DEF LeakInv
<1>2. CASE BarrierCheck(s)
  <2>1. leaked' = leaked
    BY <1>2 DEF BarrierCheck
  <2>2. blocked' => blocked
    BY <1>2 DEF BarrierCheck
  <2>3. HeldBack(barrierMsg[s]) => barrier'[s] = "recv"
    BY <1>2 DEF BarrierCheck, TypeInv, BarrierTypes
  <2>4. ~HeldBack(barrierMsg[s]) => barrierMsg' = barrierMsg
    BY <1>2 DEF BarrierCheck
  <2> QED
    BY <2>1, <2>2, <2>3, <2>4 DEF LeakInv, HeldBack, IsFinalOrDelta
<1>3. CASE Read(s)
  <2>1. /\ barrier[s] = "send" /\ barrier'[s] = "recv"
        /\ IF blocked /\ IsFinalOrDelta(barrierMsg[s])
           THEN leaked'[s] = leaked[s] + 1 ELSE leaked'[s] = leaked[s]
    BY <1>3 DEF Read, TypeInv, BarrierTypes, ReaderTypes
  <2> QED
    BY <2>1 DEF LeakInv
<1>4. CASE \/ SourceStep(s) \/ StoreStep(s) \/ TraceStep(s)
           \/ ReadEnd(s) \/ LeaveAfterError(s) \/ Disconnect(s)
  <2>1. UNCHANGED <<barrier, barrierMsg, blocked, leaked>>
    BY <1>4 DEF SourceStep, Produce, ProduceError, CloseSource, StoreStep, StoreRecv,
          CaptureMessage, UpdateSession, TraceStep, TraceRecv, TraceQueue, TraceRecord,
          ReadEnd, LeaveAfterError, Disconnect, barrierVars
  <2> QED
    BY <2>1 DEF LeakInv, IsFinalOrDelta
<1> QED
  BY <1>1, <1>2, <1>3, <1>4 DEF StreamStep, BarrierStep, ReaderStep

\* Another stream's status may reopen the barrier, and its reader counts its own leaks.
LEMMA LeakOther ==
    ASSUME TypeInv, NEW s \in Streams, NEW t \in Streams, s # t, StreamStep(t)
    PROVE  (blocked' => blocked) /\ leaked'[s] = leaked[s]
<1>1. CASE BarrierCheck(t)
  BY <1>1, Zenon DEF BarrierCheck
<1>2. CASE Read(t)
  BY <1>2 DEF Read, TypeInv, ReaderTypes
<1>3. CASE ~BarrierCheck(t) /\ ~Read(t)
  BY <1>3 DEF StreamStep, StartChat, SourceStep, Produce, ProduceError, CloseSource,
        StoreStep, StoreRecv, CaptureMessage, UpdateSession, TraceStep, TraceRecv,
        TraceQueue, TraceRecord, BarrierStep, BarrierRecv, ReaderStep, ReadEnd,
        LeaveAfterError, Disconnect
<1> QED
  BY <1>1, <1>2, <1>3

LEMMA LeakCompact ==
    ASSUME NEW s \in Streams, NEW k \in Compactions, CompactStart(k) \/ CompactStep(k)
    PROVE  leaked'[s] = 0 \/ (leaked' = leaked /\ (blocked' => blocked))
<1>1. CASE CompactStart(k)
  BY <1>1 DEF CompactStart
<1>2. CASE CompactStep(k)
  BY <1>2 DEF CompactStep, CompactProvider, CompactExport, CompactUpdate, SetUnblocked,
        CompactEmit, CompactSkipUsage
<1> QED
  BY <1>1, <1>2

LEMMA LeakStep ==
    ASSUME TypeInv, AllLeaks, [Next]_vars
    PROVE  AllLeaks'
<1> SUFFICES ASSUME NEW s \in Streams
             PROVE  LeakInv(s)'
  BY DEF AllLeaks
<1>1. LeakInv(s)
  BY DEF AllLeaks
<1>2. CASE StreamStep(s)
  BY <1>1, <1>2, LeakStream
<1>3. ASSUME NEW t \in Streams, t # s, StreamStep(t)
      PROVE  LeakInv(s)'
  BY <1>1, <1>3, LeakOther, OtherStream DEF LeakInv, SameStream, IsFinalOrDelta
<1>4. ASSUME NEW k \in Compactions, CompactStart(k) \/ CompactStep(k)
      PROVE  LeakInv(s)'
  BY <1>1, <1>4, LeakCompact, CompactSaves DEF LeakInv, SameStream, IsFinalOrDelta
<1>5. CASE UNCHANGED vars
  BY <1>1, <1>5 DEF vars, barrierVars, LeakInv, IsFinalOrDelta
<1> QED
  BY <1>2, <1>3, <1>4, <1>5 DEF Next, StreamStep

\* No more than one message of a stream passes the barrier while it is closed.
THEOREM LeaksAtMostOne == Spec => []BarrierLeaksAtMostOne
<1>1. AllLeaks => BarrierLeaksAtMostOne
  BY DEF AllLeaks, LeakInv, BarrierLeaksAtMostOne
<1> QED
  BY <1>1, LeakInit, LeakStep, TypeInvariant, PTL DEF Spec

-----------------------------------------------------------------------------
(* A reader's messages and those on their way to it, as one sequence: what  *)
(* a step of the chain does to the stream is what it does to that sequence. *)

Increasing(f) == \A i, j \in ProviderPart(f) : i < j => f[i].n < f[j].n
Before(f, g) == \A i \in ProviderPart(f), j \in ProviderPart(g) : f[i].n < g[j].n
UpTo(f, n) == \A i \in DOMAIN f : f[i].n <= n
Has(f, m) == \E i \in DOMAIN f : f[i] = m
Errors(f) == Cardinality(StorageErrors(f))

\* The places of a joined sequence.
LEMMA JoinedPlaces ==
    ASSUME NEW f \in Seq(Msgs), NEW g \in Seq(Msgs), NEW fg, fg = f \o g
    PROVE  /\ fg \in Seq(Msgs) /\ Len(f) \in Nat /\ Len(g) \in Nat
           /\ DOMAIN f = 1 .. Len(f) /\ DOMAIN g = 1 .. Len(g)
           /\ \A i \in DOMAIN f : i \in DOMAIN fg /\ fg[i] = f[i]
           /\ \A i \in DOMAIN g : i + Len(f) \in DOMAIN fg /\ fg[i + Len(f)] = g[i]
           /\ \A i \in DOMAIN fg :
                 \/ i \in DOMAIN f /\ fg[i] = f[i]
                 \/ \E j \in DOMAIN g : i = j + Len(f) /\ fg[i] = g[j]
<1>1. /\ fg \in Seq(Msgs) /\ Len(f) \in Nat /\ Len(g) \in Nat
      /\ DOMAIN f = 1 .. Len(f) /\ DOMAIN g = 1 .. Len(g)
      /\ Len(fg) = Len(f) + Len(g)
      /\ \A i \in 1 .. Len(f) + Len(g) :
            fg[i] = IF i <= Len(f) THEN f[i] ELSE g[i - Len(f)]
  BY ConcatProperties, LenProperties
<1>2. DOMAIN fg = 1 .. Len(f) + Len(g)
  BY <1>1, LenProperties
<1>3. \A i \in 1 .. Len(f) : fg[i] = f[i]
  BY <1>1
<1>4. ASSUME NEW i \in 1 .. Len(g)
      PROVE  fg[i + Len(f)] = g[i]
  <2>1. i + Len(f) \in 1 .. Len(f) + Len(g) /\ ~(i + Len(f) <= Len(f))
        /\ (i + Len(f)) - Len(f) = i
    BY <1>1
  <2> QED
    BY <1>1, <2>1
<1>5. ASSUME NEW i \in 1 .. Len(f) + Len(g), i \notin 1 .. Len(f)
      PROVE  \E j \in 1 .. Len(g) : i = j + Len(f)
  <2>1. i - Len(f) \in 1 .. Len(g) /\ i = (i - Len(f)) + Len(f)
    BY <1>1, <1>5
  <2> QED
    BY <2>1
<1>6. /\ \A i \in 1 .. Len(f) : i \in DOMAIN fg
      /\ \A i \in 1 .. Len(g) : i + Len(f) \in DOMAIN fg
  BY <1>1, <1>2
<1>7. ASSUME NEW i \in DOMAIN fg
      PROVE  \/ i \in DOMAIN f /\ fg[i] = f[i]
             \/ \E j \in DOMAIN g : i = j + Len(f) /\ fg[i] = g[j]
  <2>1. i \in 1 .. Len(f) + Len(g)
    BY <1>2
  <2>2. CASE i \in 1 .. Len(f)
    BY <1>1, <1>3, <2>2
  <2>3. CASE i \notin 1 .. Len(f)
    <3>1. PICK j \in 1 .. Len(g) : i = j + Len(f)
      BY <1>5, <2>1, <2>3
    <3> QED
      BY <1>1, <1>4, <3>1
  <2> QED
    BY <2>2, <2>3
<1> QED
  BY <1>1, <1>3, <1>4, <1>6, <1>7

LEMMA Joined ==
    ASSUME NEW f \in Seq(Msgs), NEW g \in Seq(Msgs)
    PROVE  /\ Increasing(f \o g) <=> Increasing(f) /\ Increasing(g) /\ Before(f, g)
           /\ \A n \in Nat : UpTo(f \o g, n) <=> UpTo(f, n) /\ UpTo(g, n)
           /\ \A m : Has(f \o g, m) <=> Has(f, m) \/ Has(g, m)
           /\ \A h : Before(h, f \o g) <=> Before(h, f) /\ Before(h, g)
           /\ \A h : Before(f \o g, h) <=> Before(f, h) /\ Before(g, h)
<1> DEFINE fg == f \o g
<1>1. /\ fg \in Seq(Msgs) /\ Len(f) \in Nat /\ Len(g) \in Nat
      /\ DOMAIN f = 1 .. Len(f) /\ DOMAIN g = 1 .. Len(g)
      /\ \A i \in DOMAIN f : i \in DOMAIN fg /\ fg[i] = f[i]
      /\ \A i \in DOMAIN g : i + Len(f) \in DOMAIN fg /\ fg[i + Len(f)] = g[i]
      /\ \A i \in DOMAIN fg :
            \/ i \in DOMAIN f /\ fg[i] = f[i]
            \/ \E j \in DOMAIN g : i = j + Len(f) /\ fg[i] = g[j]
  BY JoinedPlaces
<1> HIDE DEF fg
<1>2. /\ \A i \in ProviderPart(f) : i \in ProviderPart(fg) /\ fg[i] = f[i] /\ i \in 1 .. Len(f)
      /\ \A i \in ProviderPart(g) : /\ i + Len(f) \in ProviderPart(fg)
                                    /\ fg[i + Len(f)] = g[i] /\ i \in 1 .. Len(g)
      /\ \A i \in ProviderPart(fg) : \/ i \in ProviderPart(f)
                                     \/ \E j \in ProviderPart(g) : i = j + Len(f)
  BY <1>1 DEF ProviderPart, FromProvider
<1>3. Increasing(fg) => Increasing(f) /\ Increasing(g) /\ Before(f, g)
  <2> SUFFICES ASSUME Increasing(fg)
               PROVE  Increasing(f) /\ Increasing(g) /\ Before(f, g)
    OBVIOUS
  <2>1. Increasing(f)
    BY <1>2 DEF Increasing
  <2>2. Increasing(g)
    <3> SUFFICES ASSUME NEW i \in ProviderPart(g), NEW j \in ProviderPart(g), i < j
                 PROVE  g[i].n < g[j].n
      BY DEF Increasing
    <3>1. i + Len(f) < j + Len(f)
      BY <1>1, <1>2
    <3> QED
      BY <1>2, <3>1 DEF Increasing
  <2>3. Before(f, g)
    <3> SUFFICES ASSUME NEW i \in ProviderPart(f), NEW j \in ProviderPart(g)
                 PROVE  f[i].n < g[j].n
      BY DEF Before
    <3>1. i < j + Len(f)
      BY <1>1, <1>2
    <3> QED
      BY <1>2, <3>1 DEF Increasing
  <2> QED
    BY <2>1, <2>2, <2>3
<1>4. ASSUME Increasing(f), Increasing(g), Before(f, g)
      PROVE  Increasing(fg)
  <2> SUFFICES ASSUME NEW i \in ProviderPart(fg), NEW j \in ProviderPart(fg), i < j
               PROVE  fg[i].n < fg[j].n
    BY DEF Increasing
  <2>1. CASE j \in ProviderPart(f)
    <3>1. i \in ProviderPart(f)
      BY <1>1, <1>2, <2>1
    <3> QED
      BY <1>2, <1>4, <2>1, <3>1 DEF Increasing
  <2>2. CASE j \notin ProviderPart(f)
    <3>1. PICK k \in ProviderPart(g) : j = k + Len(f)
      BY <1>2, <2>2
    <3>2. CASE i \in ProviderPart(f)
      BY <1>2, <1>4, <3>1, <3>2 DEF Before
    <3>3. CASE i \notin ProviderPart(f)
      <4>1. PICK l \in ProviderPart(g) : i = l + Len(f)
        BY <1>2, <3>3
      <4>2. l < k
        BY <1>1, <1>2, <3>1, <4>1
      <4> QED
        BY <1>2, <1>4, <3>1, <4>1, <4>2 DEF Increasing
    <3> QED
      BY <3>2, <3>3
  <2> QED
    BY <2>1, <2>2
<1>5. \A n \in Nat : UpTo(fg, n) <=> UpTo(f, n) /\ UpTo(g, n)
  <2> SUFFICES ASSUME NEW n \in Nat
               PROVE  UpTo(fg, n) <=> UpTo(f, n) /\ UpTo(g, n)
    OBVIOUS
  <2>1. ASSUME UpTo(fg, n) PROVE UpTo(f, n) /\ UpTo(g, n)
    BY <1>1, <2>1 DEF UpTo
  <2>2. ASSUME UpTo(f, n), UpTo(g, n) PROVE UpTo(fg, n)
    BY <1>1, <2>2 DEF UpTo
  <2> QED
    BY <2>1, <2>2
<1>6. \A m : Has(fg, m) <=> Has(f, m) \/ Has(g, m)
  <2> SUFFICES ASSUME NEW m
               PROVE  Has(fg, m) <=> Has(f, m) \/ Has(g, m)
    OBVIOUS
  <2>1. ASSUME Has(fg, m) PROVE Has(f, m) \/ Has(g, m)
    BY <1>1, <2>1 DEF Has
  <2>2. ASSUME Has(f, m) \/ Has(g, m) PROVE Has(fg, m)
    BY <1>1, <2>2 DEF Has
  <2> QED
    BY <2>1, <2>2
<1>7. \A h : Before(h, fg) <=> Before(h, f) /\ Before(h, g)
  BY <1>2 DEF Before
<1>8. \A h : Before(fg, h) <=> Before(f, h) /\ Before(g, h)
  BY <1>2 DEF Before
<1> QED
  BY <1>3, <1>4, <1>5, <1>6, <1>7, <1>8 DEF fg

\* Storage errors are counted part by part.
LEMMA ErrorsFinite ==
    ASSUME NEW f \in Seq(Msgs)
    PROVE  IsFiniteSet(StorageErrors(f)) /\ Errors(f) \in Nat
<1>1. Len(f) \in Nat /\ DOMAIN f = 1 .. Len(f)
  BY LenProperties
<1>2. IsFiniteSet(1 .. Len(f)) /\ StorageErrors(f) \in SUBSET (1 .. Len(f))
  BY <1>1, FS_Interval DEF StorageErrors
<1>3. IsFiniteSet(StorageErrors(f))
  BY <1>2, FS_Subset
<1> QED
  BY <1>3, FS_CardinalityType DEF Errors

LEMMA ErrorsJoined ==
    ASSUME NEW f \in Seq(Msgs), NEW g \in Seq(Msgs)
    PROVE  Errors(f \o g) = Errors(f) + Errors(g)
<1> DEFINE fg == f \o g
           S == StorageErrors(f)
           T == StorageErrors(g)
           U == StorageErrors(fg) \ S
           shift == [i \in T |-> i + Len(f)]
<1>1. /\ fg \in Seq(Msgs) /\ Len(f) \in Nat /\ Len(g) \in Nat
      /\ DOMAIN f = 1 .. Len(f) /\ DOMAIN g = 1 .. Len(g)
      /\ \A i \in DOMAIN f : i \in DOMAIN fg /\ fg[i] = f[i]
      /\ \A i \in DOMAIN g : i + Len(f) \in DOMAIN fg /\ fg[i + Len(f)] = g[i]
      /\ \A i \in DOMAIN fg :
            \/ i \in DOMAIN f /\ fg[i] = f[i]
            \/ \E j \in DOMAIN g : i = j + Len(f) /\ fg[i] = g[j]
  BY JoinedPlaces
<1> HIDE DEF fg
<1>3. S \subseteq StorageErrors(fg) /\ T \subseteq 1 .. Len(g)
  BY <1>1 DEF StorageErrors
<1>4. /\ \A i \in T : i + Len(f) \in U
      /\ \A i \in U : \E j \in T : i = j + Len(f)
  <2>1. \A i \in T : i + Len(f) \notin 1 .. Len(f)
    BY <1>1, <1>3
  <2>2. \A i \in T : i + Len(f) \in StorageErrors(fg)
    BY <1>1 DEF StorageErrors
  <2>3. ASSUME NEW i \in U
        PROVE  \E j \in T : i = j + Len(f)
    BY <1>1 DEF StorageErrors
  <2> QED
    BY <1>1, <2>1, <2>2, <2>3 DEF StorageErrors
<1>5. shift \in Bijection(T, U)
  <2>1. shift \in [T -> U] /\ \A u \in U : \E i \in T : shift[i] = u
    BY <1>4
  <2>2. \A i, j \in T : shift[i] = shift[j] => i = j
    BY <1>1, <1>3
  <2> QED
    BY <2>1, <2>2 DEF Bijection, Injection, Surjection, IsInjective
<1>6. IsFiniteSet(S) /\ IsFiniteSet(T)
  BY ErrorsFinite
<1>7. IsFiniteSet(U) /\ Cardinality(U) = Cardinality(T)
  BY <1>5, <1>6, FS_Bijection DEF ExistsBijection
<1>8. StorageErrors(fg) = S \cup U /\ S \cap U = {}
  BY <1>3
<1>9. Cardinality(S \cup U) = Cardinality(S) + Cardinality(U) - Cardinality({})
  <2> HIDE DEF S, U
  <2> QED
    BY <1>6, <1>7, <1>8, FS_Union
<1>10. Cardinality({}) = 0 /\ Cardinality(S) \in Nat /\ Cardinality(T) \in Nat
  BY <1>6, FS_EmptySet, FS_CardinalityType
<1>11. Cardinality(StorageErrors(fg)) = Cardinality(S) + Cardinality(T)
  <2> HIDE DEF S, T, U
  <2> QED
    BY <1>7, <1>8, <1>9, <1>10
<1> QED
  BY <1>11 DEF Errors, fg

\* Sequences of one message.
LEMMA Single ==
    ASSUME NEW m \in Msgs
    PROVE  /\ <<m>> \in Seq(Msgs)
           /\ Increasing(<<m>>) /\ \A n \in Nat : UpTo(<<m>>, n) <=> m.n <= n
           /\ \A x : Has(<<m>>, x) <=> x = m
           /\ m.type # "storage" => Errors(<<m>>) = 0
           /\ m.type = "storage" => Errors(<<m>>) = 1
           /\ ~FromProvider(m) => \A f : Before(f, <<m>>) /\ Before(<<m>>, f)
<1>1. <<m>> \in Seq(Msgs) /\ DOMAIN <<m>> = {1} /\ <<m>>[1] = m
  OBVIOUS
<1>2. Increasing(<<m>>) /\ \A n \in Nat : UpTo(<<m>>, n) <=> m.n <= n
  BY <1>1 DEF Increasing, UpTo, ProviderPart
<1>3. \A x : Has(<<m>>, x) <=> x = m
  BY <1>1 DEF Has
<1>4. m.type # "storage" => Errors(<<m>>) = 0
  <2>1. m.type # "storage" => StorageErrors(<<m>>) = {}
    BY <1>1 DEF StorageErrors
  <2> QED
    BY <2>1, FS_EmptySet DEF Errors
<1>5. m.type = "storage" => Errors(<<m>>) = 1
  <2>1. m.type = "storage" => StorageErrors(<<m>>) = {1}
    BY <1>1 DEF StorageErrors
  <2> QED
    BY <2>1, FS_Singleton DEF Errors
<1>6. ~FromProvider(m) => ProviderPart(<<m>>) = {}
  BY <1>1 DEF ProviderPart
<1>7. ~FromProvider(m) => \A f : Before(f, <<m>>) /\ Before(<<m>>, f)
  BY <1>6 DEF Before
<1> QED
  BY <1>1, <1>2, <1>3, <1>4, <1>5, <1>7

\* The messages that were received and those between the provider and the reader.  A
\* message that has been captured or is being recorded was passed on before.
AtBarrier(s) == IF barrier[s] \in {"check", "send"} THEN <<barrierMsg[s]>> ELSE <<>>
AtTrace(s) == IF trace[s] = "queue" THEN <<traceMsg[s]>> ELSE <<>>
Got(s) == delivered[s] \o AtBarrier(s)
Behind(s) == ((buffer[s] \o AtTrace(s)) \o InStore(s)) \o InSource(s)
Flight(s) == Got(s) \o Behind(s)

\* Storage errors that were counted and are no message yet.
Pending(s) == (IF trace[s] = "queueerr" THEN 1 ELSE 0)
              + (IF store[s] = "senderr" THEN 1 ELSE 0)

LEMMA FlightTypes ==
    ASSUME TypeInv, NEW s \in Streams
    PROVE  /\ delivered[s] \in Seq(Msgs) /\ AtBarrier(s) \in Seq(Msgs)
           /\ buffer[s] \in Seq(Msgs) /\ AtTrace(s) \in Seq(Msgs)
           /\ InStore(s) \in Seq(Msgs) /\ InSource(s) \in Seq(Msgs)
           /\ Got(s) \in Seq(Msgs) /\ Behind(s) \in Seq(Msgs) /\ Flight(s) \in Seq(Msgs)
<1>1. delivered[s] \in Seq(Msgs) /\ buffer[s] \in Seq(Msgs)
  BY DEF TypeInv, ReaderTypes, BufferTypes
<1>2. AtBarrier(s) \in Seq(Msgs)
  BY DEF AtBarrier, TypeInv, BarrierTypes
<1>3. AtTrace(s) \in Seq(Msgs)
  BY DEF AtTrace, TypeInv, TraceTypes
<1>4. InStore(s) \in Seq(Msgs)
  BY DEF InStore, TypeInv, StoreTypes
<1>5. InSource(s) \in Seq(Msgs)
  BY DEF InSource, TypeInv, SourceTypes, MaybeMsgs
<1> QED
  BY <1>1, <1>2, <1>3, <1>4, <1>5 DEF Got, Behind, Flight

\* What a step of its stream does to the sequence.
Moves(s) ==
    /\ Flight(s)' = Flight(s)
    /\ emitted'[s] = emitted[s] /\ sent'[s] = sent[s]
    /\ failures'[s] + Pending(s) = failures[s] + Pending(s)'

ErrorSent(s) ==
    /\ \E f, g \in Seq(Msgs) : /\ Flight(s) = f \o g
                               /\ Flight(s)' = (f \o <<StorageErrorMsg>>) \o g
    /\ emitted'[s] = emitted[s] /\ sent'[s] = sent[s]
    /\ failures'[s] + Pending(s) = failures[s] + Pending(s)' + 1

Dropped(s) ==
    /\ \E f, g \in Seq(Msgs), m \in Msgs :
          /\ Flight(s) = (f \o <<m>>) \o g /\ Flight(s)' = f \o g
          /\ IsFinalOrDelta(m) /\ blocked
    /\ emitted'[s] = emitted[s] /\ sent'[s] = sent[s]
    /\ failures'[s] = failures[s] /\ Pending(s)' = Pending(s)

Sent(s) ==
    /\ sent[s] < ScriptLen(s)
    /\ \E m \in Msgs : /\ Flight(s)' = Flight(s) \o <<m>>
                       /\ emitted'[s] = Append(emitted[s], m)
                       /\ m.n = sent[s] + 1 /\ m.type # "storage"
                       /\ \/ sent'[s] = sent[s] + 1
                          \/ sent'[s] = ScriptLen(s) /\ m.type = "error"
    /\ failures'[s] = failures[s] /\ Pending(s)' = Pending(s)

\* Joining is associative; the provers need its name to see no more of it than that.
Join(f, g) == f \o g

LEMMA Regroup ==
    /\ \A a, b \in Seq(Msgs) : Join(a, b) \in Seq(Msgs)
    /\ \A a, b, c \in Seq(Msgs) : Join(Join(a, b), c) = Join(a, Join(b, c))
<1>1. ASSUME NEW a \in Seq(Msgs), NEW b \in Seq(Msgs)
      PROVE  Join(a, b) \in Seq(Msgs)
  BY DEF Join
<1>2. ASSUME NEW a \in Seq(Msgs), NEW b \in Seq(Msgs), NEW c \in Seq(Msgs)
      PROVE  Join(Join(a, b), c) = Join(a, Join(b, c))
  <2>1. (a \o b) \o c = a \o (b \o c)
    OBVIOUS
  <2> QED
    BY <2>1 DEF Join
<1> QED
  BY <1>1, <1>2

LEMMA Blank ==
    ASSUME NEW a \in Seq(Msgs)
    PROVE  a \o <<>> = a /\ <<>> \o a = a /\ \A m \in Msgs : Append(a, m) = a \o <<m>>
BY ConcatEmptySeq, AppendIsConcat

\* The provider.
LEMMA FlightSource ==
    ASSUME TypeInv, NEW s \in Streams, SourceStep(s)
    PROVE  Moves(s) \/ Sent(s)
<1>1. CASE Produce(s) \/ ProduceError(s)
  <2>1. PICK m : /\ offered[s] = NoMsg /\ Emit(s, m) /\ m.n = sent[s] + 1
                 /\ sent[s] < ScriptLen(s)
                 /\ \/ m.type = Script[s][sent[s] + 1] /\ sent' = [sent EXCEPT ![s] = @ + 1]
                    \/ m.type = "error" /\ sent' = [sent EXCEPT ![s] = ScriptLen(s)]
                 /\ UNCHANGED <<storeVars, traceVars, buffer, barrierVars, delivered, failures>>
    BY <1>1 DEF Produce, ProduceError, readerVars
  <2>2. m # NoMsg
    BY <2>1 DEF NoMsg, TypeInv, SourceTypes
  <2>3. /\ offered'[s] = m /\ emitted'[s] = Append(emitted[s], m)
        /\ \/ sent'[s] = sent[s] + 1
           \/ sent'[s] = ScriptLen(s) /\ m.type = "error"
        /\ UNCHANGED <<store, storeMsg, trace, traceMsg, buffer, barrier, barrierMsg,
                       delivered, failures>>
    BY <2>1 DEF Emit, TypeInv, SourceTypes, storeVars, traceVars, barrierVars
  <2>4. m \in Msgs
    BY <2>3, TypesSource DEF TypeInv, SourceTypes, MaybeMsgs
  <2>5. m.type # "storage"
    <3>1. sent[s] + 1 \in 1 .. Len(Script[s])
      BY <2>1, ScriptSeq DEF ScriptLen, TypeInv, SourceTypes
    <3> QED
      BY <2>1, <3>1, ScriptSeq
  <2>6. /\ Got(s)' = Got(s) /\ AtTrace(s)' = AtTrace(s) /\ InStore(s)' = InStore(s)
        /\ Pending(s)' = Pending(s) /\ InSource(s) = <<>> /\ InSource(s)' = <<m>>
    BY <2>1, <2>2, <2>3 DEF Got, AtBarrier, AtTrace, InStore, InSource, Pending
  <2> DEFINE ahead == (buffer[s] \o AtTrace(s)) \o InStore(s)
  <2>7. Behind(s) = ahead \o <<>> /\ Behind(s)' = ahead \o <<m>>
    BY <2>3, <2>6 DEF Behind
  <2>8. ahead \in Seq(Msgs) /\ Got(s) \in Seq(Msgs)
    BY FlightTypes
  <2> HIDE DEF ahead
  <2>9. Behind(s) = ahead /\ <<m>> \in Seq(Msgs)
    BY <2>4, <2>7, <2>8, Blank
  <2>10. Got(s) \o (ahead \o <<m>>) = (Got(s) \o ahead) \o <<m>>
    BY <2>8, <2>9, ConcatAssociative
  <2>11. Flight(s)' = Flight(s) \o <<m>>
    BY <2>6, <2>7, <2>9, <2>10 DEF Flight
  <2> QED
    BY <2>1, <2>3, <2>4, <2>5, <2>6, <2>11 DEF Sent
<1>2. CASE CloseSource(s)
  <2>1. UNCHANGED <<offered, emitted, sent, store, storeMsg, trace, traceMsg, buffer, barrier,
                    barrierMsg, delivered, failures>>
    BY <1>2 DEF CloseSource, storeVars, traceVars, barrierVars, readerVars
  <2>2. Flight(s)' = Flight(s) /\ Pending(s)' = Pending(s)
    BY <2>1 DEF Flight, Got, Behind, AtBarrier, AtTrace, InStore, InSource, Pending
  <2> QED
    BY <2>1, <2>2 DEF Moves
<1> QED
  BY <1>1, <1>2 DEF SourceStep

\* The session store passes a message on before it is captured.
LEMMA FlightStore ==
    ASSUME TypeInv, NEW s \in Streams, StoreStep(s)
    PROVE  Moves(s)
<1>1. CASE StoreRecv(s)
  <2>1. /\ store[s] = "recv"
        /\ \/ /\ offered[s] # NoMsg /\ store'[s] = "send" /\ storeMsg'[s] = offered[s]
              /\ offered'[s] = NoMsg
           \/ store'[s] = "closed" /\ UNCHANGED offered
        /\ UNCHANGED <<emitted, sent, trace, traceMsg, buffer, barrier, barrierMsg, delivered,
                       failures>>
    BY <1>1 DEF StoreRecv, TypeInv, StoreTypes, SourceTypes, traceVars, barrierVars, readerVars
  <2>2. /\ Got(s)' = Got(s) /\ AtTrace(s)' = AtTrace(s) /\ Pending(s)' = Pending(s)
        /\ InStore(s) = <<>>
        /\ \/ InStore(s)' = InSource(s) /\ InSource(s)' = <<>>
           \/ InStore(s)' = <<>> /\ InSource(s)' = InSource(s)
    BY <2>1 DEF Got, AtBarrier, AtTrace, InStore, InSource, Pending
  <2> DEFINE ahead == buffer[s] \o AtTrace(s)
  <2>3. ahead \in Seq(Msgs) /\ InSource(s) \in Seq(Msgs) /\ ahead' = ahead
    BY <2>1, <2>2, FlightTypes
  <2>4. Behind(s) = (ahead \o <<>>) \o InSource(s)
    BY <2>2 DEF Behind
  <2>5. Behind(s)' = (ahead \o InStore(s)') \o InSource(s)'
    BY <2>3 DEF Behind
  <2>6. Behind(s)' = Behind(s)
    <3> HIDE DEF ahead
    <3>1. (ahead \o InSource(s)) \o <<>> = ahead \o InSource(s) /\ ahead \o <<>> = ahead
      BY <2>3, Blank
    <3> QED
      BY <2>2, <2>4, <2>5, <3>1
  <2> QED
    BY <2>1, <2>2, <2>6 DEF Moves, Flight
<1>2. CASE CaptureMessage(s) \/ UpdateSession(s)
  <2>1. /\ store[s] \in {"capture", "update"} /\ store'[s] # "send"
        /\ \/ store'[s] = "senderr" /\ failures'[s] = failures[s] + 1
           \/ store'[s] # "senderr" /\ failures'[s] = failures[s]
        /\ UNCHANGED <<offered, emitted, sent, trace, traceMsg, buffer, barrier, barrierMsg,
                       delivered>>
    BY <1>2 DEF CaptureMessage, UpdateSession, StorageFails, TypeInv, FailureTypes,
          StoreTypes, sourceVars, traceVars, barrierVars, readerVars
  <2>2. Flight(s)' = Flight(s)
    BY <2>1 DEF Flight, Got, Behind, AtBarrier, AtTrace, InStore, InSource
  <2>3. failures'[s] + Pending(s) = failures[s] + Pending(s)'
    <3>1. failures[s] \in Nat
      BY CapacityAssumption DEF TypeInv, FailureTypes
    <3> QED
      BY <2>1, <3>1 DEF Pending
  <2> QED
    BY <2>1, <2>2, <2>3 DEF Moves
<1> QED
  BY <1>1, <1>2 DEF StoreStep

\* A storage error is put behind what the buffer and the trace goroutine hold.
LEMMA Inserted ==
    ASSUME TypeInv, NEW s \in Streams,
           Got(s)' = Got(s), InStore(s)' = InStore(s), InSource(s)' = InSource(s),
           (buffer[s] \o AtTrace(s))' = (buffer[s] \o AtTrace(s)) \o <<StorageErrorMsg>>
    PROVE  \E f, g \in Seq(Msgs) : /\ Flight(s) = f \o g
                                   /\ Flight(s)' = (f \o <<StorageErrorMsg>>) \o g
<1> DEFINE a == Got(s)
           b == Join(buffer[s], AtTrace(s))
           c == <<StorageErrorMsg>>
           d == InStore(s)
           e == InSource(s)
           S == Seq(Msgs)
<1>1. a \in S /\ b \in S /\ c \in S /\ d \in S /\ e \in S
  <2>1. buffer[s] \in S /\ AtTrace(s) \in S /\ a \in S /\ d \in S /\ e \in S
    BY FlightTypes
  <2>2. b \in S
    BY <2>1, Regroup
  <2>3. c \in S
    BY StorageErrorType
  <2> QED
    BY <2>1, <2>2, <2>3
<1>2. Flight(s) = Join(a, Join(Join(b, d), e))
  BY DEF Flight, Behind, Join
<1>3. Flight(s)' = Join(a, Join(Join(Join(b, c), d), e))
  BY DEF Flight, Behind, Join
<1>4. /\ \A x, y \in S : Join(x, y) \in S
      /\ \A x, y, z \in S : Join(Join(x, y), z) = Join(x, Join(y, z))
  BY Regroup
<1> HIDE DEF a, b, c, d, e, S
<1>5. Join(a, b) \in S /\ Join(d, e) \in S /\ Flight(s) = Join(Join(a, b), Join(d, e))
  BY <1>1, <1>2, <1>4
<1>6. Join(Join(b, c), Join(d, e)) = Join(Join(Join(b, c), d), e)
  BY <1>1, <1>4
<1>7. Join(a, Join(Join(b, c), Join(d, e))) = Join(Join(Join(a, b), c), Join(d, e))
  BY <1>1, <1>4
<1>8. Flight(s)' = Join(Join(Join(a, b), c), Join(d, e))
  BY <1>3, <1>6, <1>7
<1> QED
  BY <1>5, <1>8 DEF Join, c, S

\* The trace goroutine.
LEMMA FlightTrace ==
    ASSUME TypeInv, NEW s \in Streams, TraceStep(s)
    PROVE  Moves(s) \/ ErrorSent(s)
<1>1. CASE TraceRecv(s)
  <2>1. /\ trace[s] = "recv"
        /\ \/ /\ store[s] = "send" /\ traceMsg'[s] = storeMsg[s] /\ store'[s] = "capture"
              /\ trace'[s] = "queue"
           \/ /\ store[s] = "senderr" /\ traceMsg'[s] = StorageErrorMsg /\ store'[s] = "recv"
              /\ trace'[s] = "queue"
           \/ store[s] = "closed" /\ trace'[s] = "closed" /\ store' = store
        /\ UNCHANGED <<offered, emitted, sent, storeMsg, buffer, barrier, barrierMsg, delivered,
                       failures>>
    BY <1>1 DEF TraceRecv, TypeInv, StoreTypes, TraceTypes, sourceVars, barrierVars, readerVars
  <2>2. Got(s)' = Got(s) /\ InSource(s)' = InSource(s) /\ AtTrace(s) = <<>>
    BY <2>1 DEF Got, AtBarrier, InSource, AtTrace
  <2>3. failures[s] \in Nat
    BY CapacityAssumption DEF TypeInv, FailureTypes
  <2>4. CASE store[s] = "send"
    <3>1. /\ InStore(s) = <<storeMsg[s]>> /\ InStore(s)' = <<>>
          /\ AtTrace(s)' = <<storeMsg[s]>> /\ Pending(s)' = Pending(s)
      BY <2>1, <2>4 DEF InStore, AtTrace, Pending
    <3> DEFINE u == buffer[s]
               m == <<storeMsg[s]>>
    <3>2. u \in Seq(Msgs) /\ m \in Seq(Msgs) /\ buffer'[s] = u
      BY <2>1, <3>1, FlightTypes
    <3> HIDE DEF u, m
    <3>3. (u \o <<>>) \o m = u \o m /\ (u \o m) \o <<>> = u \o m
      BY <3>2
    <3>4. (buffer[s] \o AtTrace(s)) \o InStore(s) = (buffer[s] \o AtTrace(s))' \o InStore(s)'
      BY <2>2, <3>1, <3>2, <3>3 DEF u, m
    <3>5. Behind(s)' = Behind(s)
      BY <2>2, <3>4 DEF Behind
    <3> QED
      BY <2>1, <2>2, <2>3, <3>1, <3>5 DEF Moves, Flight
  <2>5. CASE store[s] = "senderr"
    <3>1. /\ InStore(s)' = InStore(s) /\ AtTrace(s)' = <<StorageErrorMsg>>
          /\ Pending(s) = 1 /\ Pending(s)' = 0
      BY <2>1, <2>5 DEF InStore, AtTrace, Pending
    <3>2. (buffer[s] \o AtTrace(s))' = (buffer[s] \o AtTrace(s)) \o <<StorageErrorMsg>>
      <4>1. buffer[s] \o <<>> = buffer[s]
        BY FlightTypes, Blank
      <4> QED
        BY <2>1, <2>2, <3>1, <4>1
    <3>3. failures'[s] + Pending(s) = failures[s] + Pending(s)' + 1
      BY <2>1, <2>3, <3>1
    <3> QED
      BY <2>1, <2>2, <3>1, <3>2, <3>3, Inserted DEF ErrorSent
  <2>6. CASE store[s] = "closed" /\ trace'[s] = "closed" /\ store' = store
    <3>1. AtTrace(s)' = AtTrace(s) /\ InStore(s)' = InStore(s) /\ Pending(s)' = Pending(s)
      BY <2>1, <2>6 DEF AtTrace, InStore, Pending
    <3> QED
      BY <2>1, <2>2, <2>3, <3>1 DEF Moves, Flight, Behind
  <2> QED
    BY <2>1, <2>4, <2>5, <2>6
<1>2. CASE TraceQueue(s)
  <2>1. /\ \/ /\ trace[s] = "queue" /\ trace'[s] = "record"
              /\ buffer'[s] = Append(buffer[s], traceMsg[s])
           \/ /\ trace[s] = "queueerr" /\ trace'[s] = "recv"
              /\ buffer'[s] = Append(buffer[s], StorageErrorMsg)
        /\ UNCHANGED <<offered, emitted, sent, store, storeMsg, traceMsg, barrier, barrierMsg,
                       delivered, failures>>
    BY <1>2 DEF TraceQueue, TypeInv, BufferTypes, TraceTypes, sourceVars, storeVars, barrierVars,
                readerVars
  <2>2. Got(s)' = Got(s) /\ InSource(s)' = InSource(s) /\ InStore(s)' = InStore(s)
    BY <2>1 DEF Got, AtBarrier, InSource, InStore
  <2>3. failures[s] \in Nat /\ buffer[s] \in Seq(Msgs)
    BY CapacityAssumption, FlightTypes DEF TypeInv, FailureTypes
  <2>4. CASE trace[s] = "queue"
    <3>1. AtTrace(s) = <<traceMsg[s]>> /\ AtTrace(s)' = <<>> /\ Pending(s)' = Pending(s)
      BY <2>1, <2>4 DEF AtTrace, Pending
    <3>2. traceMsg[s] \in Msgs
      BY <2>4 DEF TypeInv, TraceTypes
    <3>3. buffer'[s] = buffer[s] \o <<traceMsg[s]>> /\ buffer'[s] \in Seq(Msgs)
      BY <2>1, <2>3, <2>4, <3>2, Joining
    <3>4. buffer'[s] \o <<>> = buffer'[s]
      BY <3>3, Joining
    <3>5. (buffer[s] \o AtTrace(s))' = buffer[s] \o AtTrace(s)
      BY <3>1, <3>3, <3>4, Zenon
    <3> QED
      BY <2>1, <2>2, <2>3, <3>1, <3>5 DEF Moves, Flight, Behind
  <2>5. CASE trace[s] = "queueerr"
    <3>1. /\ AtTrace(s) = <<>> /\ AtTrace(s)' = <<>>
          /\ Pending(s) = Pending(s)' + 1 /\ Pending(s)' \in Nat
      BY <2>1, <2>5 DEF AtTrace, Pending
    <3>2. buffer'[s] = buffer[s] \o <<StorageErrorMsg>> /\ buffer'[s] \in Seq(Msgs)
      BY <2>1, <2>3, <2>5, StorageErrorType, Joining
    <3>3. buffer'[s] \o <<>> = buffer'[s] /\ buffer[s] \o <<>> = buffer[s]
      BY <2>3, <3>2, Joining
    <3>4. (buffer[s] \o AtTrace(s))' = (buffer[s] \o AtTrace(s)) \o <<StorageErrorMsg>>
      BY <3>1, <3>2, <3>3, Zenon
    <3>5. failures'[s] + Pending(s) = failures[s] + Pending(s)' + 1
      BY <2>1, <2>3, <3>1
    <3> QED
      BY <2>1, <2>2, <3>4, <3>5, Inserted DEF ErrorSent
  <2> QED
    BY <2>1, <2>4, <2>5
<1>3. CASE TraceRecord(s)
  <2>1. /\ trace[s] = "record"
        /\ \/ trace'[s] = "recv" /\ failures'[s] = failures[s]
           \/ trace'[s] = "queueerr" /\ failures'[s] = failures[s] + 1
        /\ UNCHANGED <<offered, emitted, sent, store, storeMsg, buffer, barrier, barrierMsg,
                       delivered>>
    BY <1>3 DEF TraceRecord, StorageFails, TypeInv, FailureTypes, TraceTypes, sourceVars,
                storeVars, barrierVars, readerVars
  <2>2. Flight(s)' = Flight(s)
    BY <2>1 DEF Flight, Got, Behind, AtBarrier, AtTrace, InStore, InSource
  <2>3. failures'[s] + Pending(s) = failures[s] + Pending(s)'
    <3>1. failures[s] \in Nat
      BY CapacityAssumption DEF TypeInv, FailureTypes
    <3> QED
      BY <2>1, <3>1 DEF Pending
  <2> QED
    BY <2>1, <2>2, <2>3 DEF Moves
<1> QED
  BY <1>1, <1>2, <1>3 DEF TraceStep

\* The barrier goroutine drops finals and deltas while it is closed.
LEMMA FlightBarrier ==
    ASSUME TypeInv, NEW s \in Streams, BarrierStep(s)
    PROVE  Moves(s) \/ Dropped(s)
<1>1. CASE BarrierRecv(s)
  <2>1. /\ barrier[s] = "recv"
        /\ \/ /\ buffer[s] # <<>> /\ barrierMsg'[s] = Head(buffer[s])
              /\ buffer'[s] = Tail(buffer[s]) /\ barrier'[s] = "check"
           \/ barrier'[s] = "closed" /\ buffer' = buffer
        /\ UNCHANGED <<offered, emitted, sent, store, storeMsg, trace, traceMsg, delivered,
                       failures>>
    BY <1>1 DEF BarrierRecv, TypeInv, BarrierTypes, BufferTypes, sourceVars, storeVars, traceVars,
                readerVars
  <2>2. /\ AtBarrier(s) = <<>> /\ Pending(s)' = Pending(s) /\ AtTrace(s)' = AtTrace(s)
        /\ InStore(s)' = InStore(s) /\ InSource(s)' = InSource(s)
    BY <2>1 DEF AtBarrier, Pending, AtTrace, InStore, InSource
  <2>3. failures[s] \in Nat
    BY CapacityAssumption DEF TypeInv, FailureTypes
  <2>4. CASE /\ buffer[s] # <<>> /\ barrierMsg'[s] = Head(buffer[s])
             /\ buffer'[s] = Tail(buffer[s]) /\ barrier'[s] = "check"
    <3> DEFINE S == Seq(Msgs)
               a == delivered[s]
               b == <<Head(buffer[s])>>
               c == Tail(buffer[s])
               d == AtTrace(s)
               e == InStore(s)
               f == InSource(s)
    <3>1. a \in S /\ d \in S /\ e \in S /\ f \in S /\ buffer[s] \in S
      BY FlightTypes
    <3>2. b \in S /\ c \in S /\ buffer[s] = b \o c
      BY <2>4, <3>1
    <3>3. a \o <<>> = a
      BY <3>1
    <3>4. Flight(s) = Join(a, Join(Join(Join(Join(b, c), d), e), f))
      BY <2>2, <3>2, <3>3, Zenon DEF Flight, Got, Behind, Join
    <3>5. AtBarrier(s)' = b /\ delivered' = delivered
      BY <2>1, <2>4 DEF AtBarrier
    <3>6. Flight(s)' = Join(Join(a, b), Join(Join(Join(c, d), e), f))
      BY <2>2, <2>4, <3>5 DEF Flight, Got, Behind, Join
    <3>7. /\ \A x, y \in S : Join(x, y) \in S
          /\ \A x, y, z \in S : Join(Join(x, y), z) = Join(x, Join(y, z))
      BY Regroup
    <3> HIDE DEF a, b, c, d, e, f, S
    <3>8. Join(Join(Join(Join(b, c), d), e), f) = Join(b, Join(Join(Join(c, d), e), f))
      <4>1. Join(Join(b, c), d) = Join(b, Join(c, d)) /\ Join(c, d) \in S
        BY <3>1, <3>2, <3>7
      <4>2. /\ Join(Join(b, Join(c, d)), e) = Join(b, Join(Join(c, d), e))
            /\ Join(Join(c, d), e) \in S
        BY <3>1, <3>2, <3>7, <4>1
      <4>3. Join(Join(b, Join(Join(c, d), e)), f) = Join(b, Join(Join(Join(c, d), e), f))
        BY <3>1, <3>2, <3>7, <4>2
      <4> QED
        BY <4>1, <4>2, <4>3
    <3>9. Flight(s)' = Flight(s)
      <4>1. Join(Join(c, d), e) \in S /\ Join(Join(Join(c, d), e), f) \in S
        BY <3>1, <3>2, <3>7
      <4>2. Join(Join(a, b), Join(Join(Join(c, d), e), f))
            = Join(a, Join(b, Join(Join(Join(c, d), e), f)))
        BY <3>1, <3>2, <3>7, <4>1
      <4> QED
        BY <3>4, <3>6, <3>8, <4>2
    <3> QED
      BY <2>1, <2>2, <2>3, <3>9 DEF Moves
  <2>5. CASE barrier'[s] = "closed" /\ buffer' = buffer
    <3>1. AtBarrier(s)' = AtBarrier(s)
      BY <2>2, <2>5 DEF AtBarrier
    <3> QED
      BY <2>1, <2>2, <2>3, <2>5, <3>1 DEF Moves, Flight, Got, Behind
  <2> QED
    BY <2>1, <2>4, <2>5
<1>2. CASE BarrierCheck(s)
  <2>1. /\ barrier[s] = "check"
        /\ \/ barrier'[s] = "recv" /\ HeldBack(barrierMsg[s])
           \/ barrier'[s] = "send" /\ barrierMsg' = barrierMsg
        /\ UNCHANGED <<offered, emitted, sent, store, storeMsg, trace, traceMsg, buffer, delivered,
                       failures>>
    BY <1>2 DEF BarrierCheck, TypeInv, BarrierTypes, sourceVars, storeVars, traceVars, readerVars
  <2>2. Behind(s)' = Behind(s) /\ Pending(s)' = Pending(s) /\ AtBarrier(s) = <<barrierMsg[s]>>
    BY <2>1 DEF Behind, AtTrace, InStore, InSource, Pending, AtBarrier
  <2>3. failures[s] \in Nat /\ barrierMsg[s] \in Msgs
    BY <2>1, CapacityAssumption DEF TypeInv, FailureTypes, BarrierTypes
  <2>4. CASE barrier'[s] = "recv" /\ HeldBack(barrierMsg[s])
    <3>1. AtBarrier(s)' = <<>> /\ delivered' = delivered
      BY <2>1, <2>4 DEF AtBarrier
    <3>2. delivered[s] \o <<>> = delivered[s]
      BY FlightTypes, Blank
    <3>3. Got(s)' = delivered[s] /\ Got(s) = delivered[s] \o <<barrierMsg[s]>>
      BY <2>2, <3>1, <3>2, Zenon DEF Got
    <3>4. /\ Flight(s) = (delivered[s] \o <<barrierMsg[s]>>) \o Behind(s)
          /\ Flight(s)' = delivered[s] \o Behind(s)
      BY <2>2, <3>3 DEF Flight
    <3>5. delivered[s] \in Seq(Msgs) /\ Behind(s) \in Seq(Msgs)
      BY FlightTypes
    <3> QED
      BY <2>1, <2>2, <2>3, <2>4, <3>4, <3>5, Zenon DEF Dropped, HeldBack
  <2>5. CASE barrier'[s] = "send" /\ barrierMsg' = barrierMsg
    <3>1. AtBarrier(s)' = AtBarrier(s)
      BY <2>2, <2>5 DEF AtBarrier
    <3> QED
      BY <2>1, <2>2, <2>3, <3>1 DEF Moves, Flight, Got
  <2> QED
    BY <2>1, <2>4, <2>5
<1> QED
  BY <1>1, <1>2 DEF BarrierStep

\* The reader.
LEMMA FlightReader ==
    ASSUME TypeInv, NEW s \in Streams, ReaderStep(s) \/ LeaveAfterError(s) \/ Disconnect(s)
    PROVE  Moves(s)
<1>1. failures[s] \in Nat
  BY CapacityAssumption DEF TypeInv, FailureTypes
<1>2. CASE Read(s)
  <2>1. /\ barrier[s] = "send" /\ barrier'[s] = "recv"
        /\ delivered'[s] = Append(delivered[s], barrierMsg[s])
        /\ UNCHANGED <<offered, emitted, sent, store, storeMsg, trace, traceMsg, buffer, failures>>
    BY <1>2 DEF Read, TypeInv, BarrierTypes, ReaderTypes, sourceVars, storeVars, traceVars
  <2>2. Behind(s)' = Behind(s) /\ Pending(s)' = Pending(s)
    BY <2>1 DEF Behind, AtTrace, InStore, InSource, Pending
  <2>3. AtBarrier(s) = <<barrierMsg[s]>> /\ AtBarrier(s)' = <<>> /\ barrierMsg[s] \in Msgs
    BY <2>1 DEF AtBarrier, TypeInv, BarrierTypes
  <2>4. /\ delivered'[s] = delivered[s] \o <<barrierMsg[s]>>
        /\ (delivered[s] \o <<barrierMsg[s]>>) \o <<>> = delivered[s] \o <<barrierMsg[s]>>
    <3>1. delivered[s] \in Seq(Msgs) /\ (delivered[s] \o <<barrierMsg[s]>>) \in Seq(Msgs)
      BY <2>3, FlightTypes DEF Got
    <3> QED
      BY <2>1, <2>3, <3>1, Joining
  <2>5. Got(s)' = Got(s)
    BY <2>3, <2>4, Zenon DEF Got
  <2> QED
    BY <1>1, <2>1, <2>2, <2>5 DEF Moves, Flight
<1>3. CASE ReadEnd(s) \/ LeaveAfterError(s) \/ Disconnect(s)
  <2>1. UNCHANGED <<offered, emitted, sent, store, storeMsg, trace, traceMsg, buffer, barrier,
                    barrierMsg, delivered, failures>>
    BY <1>3 DEF ReadEnd, LeaveAfterError, Disconnect, sourceVars, storeVars, traceVars, barrierVars
  <2>2. Flight(s)' = Flight(s) /\ Pending(s)' = Pending(s)
    BY <2>1 DEF Flight, Got, Behind, AtBarrier, AtTrace, InStore, InSource, Pending
  <2> QED
    BY <1>1, <2>1, <2>2 DEF Moves
<1> QED
  BY <1>2, <1>3 DEF ReaderStep

\* A new stream starts with its input stored, or with the error of that.
LEMMA FlightStart ==
    ASSUME TypeInv, NEW s \in Streams, ClosedInv(s), StartChat(s)
    PROVE  Moves(s) \/ ErrorSent(s)
<1>1. /\ source[s] = "idle" /\ store[s] = "idle" /\ trace[s] = "idle" /\ barrier[s] = "idle"
      /\ store'[s] = "recv" /\ trace'[s] = "recv" /\ barrier'[s] = "recv"
      /\ \/ buffer' = buffer /\ failures' = failures
         \/ /\ failures'[s] = failures[s] + 1
            /\ buffer'[s] = Append(buffer[s], StorageErrorMsg)
      /\ UNCHANGED <<offered, emitted, sent, delivered>>
  BY DEF StartChat, StorageFails, ClosedInv, TypeInv, StoreTypes, TraceTypes, BarrierTypes,
         BufferTypes, FailureTypes
<1>2. /\ Got(s)' = Got(s) /\ InStore(s)' = InStore(s) /\ InSource(s)' = InSource(s)
      /\ AtTrace(s) = <<>> /\ AtTrace(s)' = <<>> /\ Pending(s) = 0 /\ Pending(s)' = 0
  <2>1. Got(s)' = Got(s)
    BY <1>1 DEF Got, AtBarrier
  <2>2. InStore(s)' = InStore(s) /\ InSource(s)' = InSource(s)
    BY <1>1 DEF InStore, InSource
  <2>3. AtTrace(s) = <<>> /\ AtTrace(s)' = <<>> /\ Pending(s) = 0 /\ Pending(s)' = 0
    BY <1>1 DEF AtTrace, Pending
  <2> QED
    BY <2>1, <2>2, <2>3
<1>3. failures[s] \in Nat /\ buffer[s] \in Seq(Msgs)
  BY CapacityAssumption, FlightTypes DEF TypeInv, FailureTypes
<1>4. CASE buffer' = buffer /\ failures' = failures
  BY <1>1, <1>2, <1>3, <1>4 DEF Moves, Flight, Behind
<1>5. CASE failures'[s] = failures[s] + 1 /\ buffer'[s] = Append(buffer[s], StorageErrorMsg)
  <2>1. buffer'[s] = buffer[s] \o <<StorageErrorMsg>> /\ buffer'[s] \in Seq(Msgs)
    BY <1>3, <1>5, StorageErrorType, Joining
  <2>2. buffer'[s] \o <<>> = buffer'[s] /\ buffer[s] \o <<>> = buffer[s]
    BY <1>3, <2>1, Joining
  <2>3. (buffer[s] \o AtTrace(s))' = (buffer[s] \o AtTrace(s)) \o <<StorageErrorMsg>>
    BY <1>2, <2>1, <2>2, Zenon
  <2>4. failures'[s] + Pending(s) = failures[s] + Pending(s)' + 1
    BY <1>2, <1>3, <1>5
  <2> QED
    BY <1>1, <1>2, <2>3, <2>4, Inserted DEF ErrorSent
<1> QED
  BY <1>1, <1>4, <1>5

\* A step of a stream does one of four things to it.
LEMMA FlightStep ==
    ASSUME TypeInv, NEW s \in Streams, ClosedInv(s), StreamStep(s)
    PROVE  Moves(s) \/ ErrorSent(s) \/ Dropped(s) \/ Sent(s)
BY FlightStart, FlightSource, FlightStore, FlightTrace, FlightBarrier, FlightReader DEF StreamStep

-----------------------------------------------------------------------------
(* Order and loss.                                                          *)

Compacting == \E k \in Compactions : compact[k] # "idle"

SentInv(s) ==
    /\ Len(emitted[s]) <= ScriptLen(s)
    /\ \A n \in 1 .. Len(emitted[s]) : emitted[s][n].n = n
    /\ \/ sent[s] = Len(emitted[s])
       \/ /\ sent[s] = ScriptLen(s)
          /\ \E n \in 1 .. Len(emitted[s]) : emitted[s][n].type = "error"

OrderInv(s) ==
    /\ Increasing(Flight(s))
    /\ UpTo(Flight(s), Len(emitted[s]))
    /\ \A n \in 1 .. Len(emitted[s]) :
          \/ Has(Flight(s), emitted[s][n])
          \/ IsFinalOrDelta(emitted[s][n]) /\ Compacting

TallyInv(s) == failures[s] = Errors(Flight(s)) + Pending(s)

FlightInv(s) == SentInv(s) /\ OrderInv(s) /\ TallyInv(s)

AllInFlight ==
    /\ blocked => Compacting
    /\ \A s \in Streams : FlightInv(s)

LEMMA FlightInit == Init => AllInFlight
<1> SUFFICES ASSUME Init
             PROVE  AllInFlight
  OBVIOUS
<1>1. ~blocked
  BY DEF Init
<1>2. ASSUME NEW s \in Streams
      PROVE  FlightInv(s)
  <2>1. Flight(s) = <<>> /\ Pending(s) = 0 /\ emitted[s] = <<>>
    BY DEF Init, Flight, Got, Behind, AtBarrier, AtTrace, InStore, InSource, Pending
  <2>2. ScriptLen(s) \in Nat /\ sent[s] = 0 /\ failures[s] = 0 /\ Len(emitted[s]) = 0
    BY <2>1, ScriptSeq DEF Init, ScriptLen
  <2>3. SentInv(s)
    BY <2>2 DEF SentInv
  <2>4. ProviderPart(<<>>) = {} /\ StorageErrors(<<>>) = {} /\ DOMAIN <<>> = {}
    BY DEF ProviderPart, StorageErrors
  <2>5. OrderInv(s)
    BY <2>1, <2>2, <2>4 DEF OrderInv, Increasing, UpTo
  <2>6. Errors(<<>>) = 0
    BY <2>4, FS_EmptySet DEF Errors
  <2> QED
    BY <2>1, <2>2, <2>3, <2>5, <2>6 DEF FlightInv, TallyInv
<1> QED
  BY <1>1, <1>2 DEF AllInFlight

\* A compaction that has started does not become idle again, and only a compaction
\* closes the barrier.
LEMMA CompactingStays ==
    ASSUME TypeInv, [Next]_vars, blocked => Compacting
    PROVE  (Compacting => Compacting') /\ (blocked' => Compacting')
<1>1. ASSUME NEW k \in Compactions, compact[k] # "idle"
      PROVE  compact'[k] # "idle"
  <2>1. CASE UNCHANGED vars
    BY <1>1, <2>1 DEF vars, compactVars
  <2>2. ASSUME NEW s \in Streams, StreamStep(s)
        PROVE  compact' = compact
    BY <2>2 DEF StreamStep, StartChat, SourceStep, Produce, ProduceError, CloseSource, StoreStep,
          StoreRecv, CaptureMessage, UpdateSession, TraceStep, TraceRecv, TraceQueue, TraceRecord,
          BarrierStep, BarrierRecv, BarrierCheck, ReaderStep, Read, ReadEnd, LeaveAfterError,
          Disconnect, compactVars
  <2>3. ASSUME NEW l \in Compactions, CompactStart(l) \/ CompactStep(l)
        PROVE  compact'[k] # "idle"
    BY <1>1, <2>3 DEF CompactStart, CompactStep, CompactProvider, CompactExport, CompactUpdate,
          SetUnblocked, CompactEmit, CompactSkipUsage, AfterEmitting, TypeInv, CompactTypes,
          CompactSteps
  <2> QED
    BY <1>1, <2>1, <2>2, <2>3 DEF Next, StreamStep
<1>2. Compacting => Compacting'
  BY <1>1 DEF Compacting
<1>3. ASSUME NEW k \in Compactions, CompactStart(k)
      PROVE  Compacting'
  BY <1>3 DEF CompactStart, Compacting, TypeInv, CompactTypes
<1>4. CASE UNCHANGED vars
  BY <1>2, <1>4 DEF vars
<1>5. ASSUME NEW s \in Streams, StreamStep(s)
      PROVE  blocked' => blocked
  <2>1. CASE BarrierCheck(s)
    BY <2>1, Zenon DEF BarrierCheck
  <2>2. CASE ~BarrierCheck(s)
    BY <1>5, <2>2 DEF StreamStep, StartChat, SourceStep, Produce, ProduceError, CloseSource,
          StoreStep, StoreRecv, CaptureMessage, UpdateSession, TraceStep, TraceRecv, TraceQueue,
          TraceRecord, BarrierStep, BarrierRecv, ReaderStep, Read, ReadEnd, LeaveAfterError,
          Disconnect
  <2> QED
    BY <2>1, <2>2
<1>6. ASSUME NEW k \in Compactions, CompactStep(k)
      PROVE  blocked' => blocked
  BY <1>6 DEF CompactStep, CompactProvider, CompactExport, CompactUpdate, SetUnblocked,
        CompactEmit, CompactSkipUsage
<1> QED
  BY <1>2, <1>3, <1>4, <1>5, <1>6 DEF Next, StreamStep

\* Each of the four preserves the invariant of its stream.
LEMMA MovesKeep ==
    ASSUME TypeInv, TypeInv', NEW s \in Streams, FlightInv(s), Moves(s), Compacting => Compacting'
    PROVE  FlightInv(s)'
<1>1. /\ Flight(s)' = Flight(s) /\ emitted'[s] = emitted[s] /\ sent'[s] = sent[s]
      /\ failures'[s] + Pending(s) = failures[s] + Pending(s)'
  BY DEF Moves
<1>2. SentInv(s)'
  BY <1>1 DEF FlightInv, SentInv
<1>3. OrderInv(s)'
  BY <1>1 DEF FlightInv, OrderInv, Increasing, UpTo, Has, IsFinalOrDelta
<1>4. Errors(Flight(s))' = Errors(Flight(s)) /\ Errors(Flight(s)) \in Nat
  BY <1>1, FlightTypes, ErrorsFinite DEF Errors, StorageErrors
<1>5. /\ Pending(s) \in Nat /\ failures[s] \in Nat /\ Pending(s)' \in Nat /\ failures'[s] \in Nat
  BY CapacityAssumption DEF Pending, TypeInv, FailureTypes
<1>6. failures[s] = Errors(Flight(s)) + Pending(s)
  BY DEF FlightInv, TallyInv
<1>7. failures'[s] = Errors(Flight(s))' + Pending(s)'
  BY <1>1, <1>4, <1>5, <1>6
<1> QED
  BY <1>2, <1>3, <1>7 DEF FlightInv, TallyInv

LEMMA ErrorBetween ==
    ASSUME NEW f \in Seq(Msgs), NEW g \in Seq(Msgs)
    PROVE  LET h == (f \o <<StorageErrorMsg>>) \o g
           IN  /\ Increasing(f \o g) => Increasing(h)
               /\ \A n \in Nat : UpTo(f \o g, n) => UpTo(h, n)
               /\ \A x : Has(f \o g, x) => Has(h, x)
               /\ Errors(h) = Errors(f \o g) + 1
<1> DEFINE e == <<StorageErrorMsg>>
           fe == f \o e
<1>1. e \in Seq(Msgs) /\ fe \in Seq(Msgs) /\ StorageErrorMsg.n = 0
      /\ StorageErrorMsg \in Msgs /\ ~FromProvider(StorageErrorMsg)
      /\ StorageErrorMsg.type = "storage"
  BY StorageErrorType DEF StorageErrorMsg, FromProvider
<1>2. /\ Increasing(e) /\ Errors(e) = 1
      /\ \A n \in Nat : UpTo(e, n)
      /\ \A h : Before(h, e) /\ Before(e, h)
  BY <1>1, Single
<1> HIDE DEF e
<1>3. Increasing(f \o g) => Increasing(fe \o g)
  BY <1>1, <1>2, Joined
<1>4. \A n \in Nat : UpTo(f \o g, n) => UpTo(fe \o g, n)
  BY <1>1, <1>2, Joined
<1>5. \A x : Has(f \o g, x) => Has(fe \o g, x)
  BY <1>1, Joined
<1>6. Errors(fe \o g) = Errors(f \o g) + 1
  <2>1. /\ Errors(fe \o g) = Errors(fe) + Errors(g)
        /\ Errors(fe) = Errors(f) + Errors(e)
        /\ Errors(f \o g) = Errors(f) + Errors(g)
    BY <1>1, ErrorsJoined
  <2>2. Errors(f) \in Nat /\ Errors(g) \in Nat
    BY ErrorsFinite
  <2> QED
    BY <1>2, <2>1, <2>2
<1> QED
  BY <1>3, <1>4, <1>5, <1>6 DEF e

LEMMA Removed ==
    ASSUME NEW f \in Seq(Msgs), NEW g \in Seq(Msgs), NEW m \in Msgs, m.type # "storage"
    PROVE  LET h == (f \o <<m>>) \o g
           IN  /\ Increasing(h) => Increasing(f \o g)
               /\ \A n \in Nat : UpTo(h, n) => UpTo(f \o g, n)
               /\ \A x : Has(h, x) => Has(f \o g, x) \/ x = m
               /\ Errors(h) = Errors(f \o g)
<1> DEFINE e == <<m>>
           fe == f \o e
<1>1. e \in Seq(Msgs) /\ fe \in Seq(Msgs)
  OBVIOUS
<1>2. Errors(e) = 0 /\ \A x : Has(e, x) <=> x = m
  BY Single
<1> HIDE DEF e
<1>3. Increasing(fe \o g) => Increasing(f \o g)
  BY <1>1, <1>2, Joined
<1>4. \A n \in Nat : UpTo(fe \o g, n) => UpTo(f \o g, n)
  BY <1>1, <1>2, Joined
<1>5. \A x : Has(fe \o g, x) => Has(f \o g, x) \/ x = m
  BY <1>1, <1>2, Joined
<1>6. Errors(fe \o g) = Errors(f \o g)
  <2>1. /\ Errors(fe \o g) = Errors(fe) + Errors(g)
        /\ Errors(fe) = Errors(f) + Errors(e)
        /\ Errors(f \o g) = Errors(f) + Errors(g)
    BY <1>1, ErrorsJoined
  <2>2. Errors(f) \in Nat /\ Errors(g) \in Nat
    BY ErrorsFinite
  <2> QED
    BY <1>2, <2>1, <2>2
<1> QED
  BY <1>3, <1>4, <1>5, <1>6 DEF e

LEMMA Added ==
    ASSUME NEW f \in Seq(Msgs), NEW m \in Msgs, m.type # "storage",
           NEW l \in Nat, m.n = l + 1, Increasing(f), UpTo(f, l)
    PROVE  /\ Increasing(f \o <<m>>) /\ UpTo(f \o <<m>>, l + 1)
           /\ \A x : Has(f \o <<m>>, x) <=> Has(f, x) \/ x = m
           /\ Errors(f \o <<m>>) = Errors(f)
<1> DEFINE e == <<m>>
<1>1. /\ e \in Seq(Msgs) /\ Errors(e) = 0 /\ Increasing(e)
      /\ \A n \in Nat : UpTo(e, n) <=> m.n <= n
      /\ \A x : Has(e, x) <=> x = m
  BY Single
<1>2. \A i \in DOMAIN f : f[i] \in Msgs
  OBVIOUS
<1>3. Before(f, e)
  <2>1. DOMAIN e = {1} /\ e[1] = m
    OBVIOUS
  <2>2. \A i \in DOMAIN f : f[i].n < m.n
    BY <1>2 DEF UpTo, Msgs
  <2> QED
    BY <2>1, <2>2 DEF Before, ProviderPart
<1>4. UpTo(f, l + 1) /\ UpTo(e, l + 1)
  <2>1. \A i \in DOMAIN f : f[i].n <= l + 1
    BY <1>2 DEF UpTo, Msgs
  <2>2. l + 1 \in Nat /\ m.n <= l + 1
    OBVIOUS
  <2> QED
    BY <1>1, <2>1, <2>2 DEF UpTo
<1> HIDE DEF e
<1>5. Increasing(f \o e) /\ UpTo(f \o e, l + 1)
  BY <1>1, <1>3, <1>4, Joined
<1>6. \A x : Has(f \o e, x) <=> Has(f, x) \/ x = m
  BY <1>1, Joined
<1>7. Errors(f \o e) = Errors(f)
  <2>1. Errors(f \o e) = Errors(f) + Errors(e) /\ Errors(f) \in Nat
    BY <1>1, ErrorsJoined, ErrorsFinite
  <2> QED
    BY <1>1, <2>1
<1> QED
  BY <1>5, <1>6, <1>7 DEF e

LEMMA ErrorSentKeeps ==
    ASSUME TypeInv, TypeInv', NEW s \in Streams, FlightInv(s), ErrorSent(s),
           Compacting => Compacting'
    PROVE  FlightInv(s)'
<1>1. PICK f \in Seq(Msgs), g \in Seq(Msgs) :
          Flight(s) = f \o g /\ Flight(s)' = (f \o <<StorageErrorMsg>>) \o g
  BY DEF ErrorSent
<1>2. /\ emitted'[s] = emitted[s] /\ sent'[s] = sent[s]
      /\ failures'[s] + Pending(s) = failures[s] + Pending(s)' + 1
  BY DEF ErrorSent
<1>3. Len(emitted[s]) \in Nat
  BY DEF TypeInv, SourceTypes
<1> DEFINE old == Flight(s)
           new == Flight(s)'
<1>4. /\ Increasing(old) => Increasing(new)
      /\ UpTo(old, Len(emitted[s])) => UpTo(new, Len(emitted[s]))
      /\ \A x : Has(old, x) => Has(new, x)
      /\ Errors(new) = Errors(old) + 1
  BY <1>1, <1>3, ErrorBetween
<1> HIDE DEF old, new
<1>5. SentInv(s)'
  BY <1>2 DEF FlightInv, SentInv
<1>6. OrderInv(s)'
  <2>1. Increasing(new) /\ UpTo(new, Len(emitted'[s]))
    BY <1>2, <1>4 DEF FlightInv, OrderInv, old
  <2>2. \A n \in 1 .. Len(emitted'[s]) :
          Has(new, emitted'[s][n]) \/ (IsFinalOrDelta(emitted'[s][n]) /\ Compacting')
    BY <1>2, <1>4 DEF FlightInv, OrderInv, old
  <2> QED
    BY <2>1, <2>2 DEF OrderInv, new, Increasing, UpTo, Has, IsFinalOrDelta
<1>7. failures'[s] = Errors(new) + Pending(s)'
  <2>1. /\ Pending(s) \in Nat /\ failures[s] \in Nat /\ Pending(s)' \in Nat
        /\ failures'[s] \in Nat
    BY CapacityAssumption DEF Pending, TypeInv, FailureTypes
  <2>2. failures[s] = Errors(old) + Pending(s) /\ Errors(old) \in Nat
    BY FlightTypes, ErrorsFinite DEF FlightInv, TallyInv, old
  <2> DEFINE owed == Pending(s)
             owed1 == Pending(s)'
             count == Errors(old)
             fails == failures[s]
             fails1 == failures'[s]
  <2>3. /\ owed \in Nat /\ owed1 \in Nat /\ count \in Nat /\ fails \in Nat /\ fails1 \in Nat
        /\ fails1 + owed = fails + owed1 + 1 /\ fails = count + owed
    BY <1>2, <2>1, <2>2
  <2> HIDE DEF owed, owed1, count, fails, fails1
  <2>4. fails1 = (count + 1) + owed1
    BY <2>3
  <2> QED
    BY <1>4, <2>4 DEF owed1, count, fails1
<1> QED
  BY <1>5, <1>6, <1>7 DEF FlightInv, TallyInv, new, Errors, StorageErrors

LEMMA DroppedKeeps ==
    ASSUME TypeInv, TypeInv', NEW s \in Streams, FlightInv(s), Dropped(s),
           blocked => Compacting, Compacting => Compacting'
    PROVE  FlightInv(s)'
<1>1. PICK f \in Seq(Msgs), g \in Seq(Msgs), m \in Msgs :
          /\ Flight(s) = (f \o <<m>>) \o g /\ Flight(s)' = f \o g
          /\ IsFinalOrDelta(m) /\ blocked
  BY DEF Dropped
<1>2. /\ emitted'[s] = emitted[s] /\ sent'[s] = sent[s]
      /\ failures'[s] = failures[s] /\ Pending(s)' = Pending(s)
  BY DEF Dropped
<1>3. Len(emitted[s]) \in Nat /\ m.type # "storage"
  BY <1>1 DEF TypeInv, SourceTypes, IsFinalOrDelta
<1> DEFINE old == Flight(s)
           new == Flight(s)'
<1>4. /\ Increasing(old) => Increasing(new)
      /\ UpTo(old, Len(emitted[s])) => UpTo(new, Len(emitted[s]))
      /\ \A x : Has(old, x) => Has(new, x) \/ x = m
      /\ Errors(new) = Errors(old)
  BY <1>1, <1>3, Removed
<1> HIDE DEF old, new
<1>5. SentInv(s)'
  BY <1>2 DEF FlightInv, SentInv
<1>6. OrderInv(s)'
  <2>1. Increasing(new) /\ UpTo(new, Len(emitted'[s]))
    BY <1>2, <1>4 DEF FlightInv, OrderInv, old
  <2>2. \A n \in 1 .. Len(emitted'[s]) :
          Has(new, emitted'[s][n]) \/ (IsFinalOrDelta(emitted'[s][n]) /\ Compacting')
    BY <1>1, <1>2, <1>4 DEF FlightInv, OrderInv, old
  <2> QED
    BY <2>1, <2>2 DEF OrderInv, new, Increasing, UpTo, Has, IsFinalOrDelta
<1>7. failures'[s] = Errors(new) + Pending(s)'
  BY <1>2, <1>4 DEF FlightInv, TallyInv, old
<1> QED
  BY <1>5, <1>6, <1>7 DEF FlightInv, TallyInv, new, Errors, StorageErrors

LEMMA SentKeeps ==
    ASSUME TypeInv, TypeInv', NEW s \in Streams, FlightInv(s), Sent(s), Compacting => Compacting'
    PROVE  FlightInv(s)'
<1>1. PICK m \in Msgs :
          /\ Flight(s)' = Flight(s) \o <<m>> /\ emitted'[s] = Append(emitted[s], m)
          /\ m.n = sent[s] + 1 /\ m.type # "storage"
          /\ sent'[s] = sent[s] + 1 \/ (sent'[s] = ScriptLen(s) /\ m.type = "error")
  BY DEF Sent
<1>2. /\ sent[s] < ScriptLen(s) /\ failures'[s] = failures[s] /\ Pending(s)' = Pending(s)
  BY DEF Sent
<1>3. /\ emitted[s] \in Seq(Msgs) /\ Len(emitted[s]) \in Nat /\ sent[s] \in Nat
      /\ ScriptLen(s) \in Nat /\ Flight(s) \in Seq(Msgs)
  BY FlightTypes, ScriptSeq DEF TypeInv, SourceTypes, ScriptLen
<1>4. sent[s] = Len(emitted[s])
  BY <1>2, <1>3 DEF FlightInv, SentInv
<1>5. /\ Len(emitted'[s]) = Len(emitted[s]) + 1
      /\ \A n \in 1 .. Len(emitted[s]) : emitted'[s][n] = emitted[s][n]
      /\ emitted'[s][Len(emitted[s]) + 1] = m
  BY <1>1, <1>3
<1> DEFINE old == Flight(s)
           new == Flight(s)'
           l == Len(emitted[s])
           l1 == Len(emitted'[s])
<1>6. /\ Increasing(new) /\ UpTo(new, l + 1)
      /\ \A x : Has(new, x) <=> Has(old, x) \/ x = m
      /\ Errors(new) = Errors(old)
  BY <1>1, <1>3, <1>4, Added DEF FlightInv, OrderInv
<1>7. \A n \in 1 .. l1 : n \in 1 .. l \/ (n = l + 1 /\ emitted'[s][n] = m)
  BY <1>3, <1>5
<1>8. 1 .. l \subseteq 1 .. l1 /\ l + 1 \in 1 .. l1 /\ l + 1 <= ScriptLen(s) /\ l1 = l + 1
  BY <1>2, <1>3, <1>4, <1>5
<1> HIDE DEF old, new, l, l1
<1>9. SentInv(s)'
  <2>1. l1 <= ScriptLen(s)
    BY <1>8
  <2>2. \A n \in 1 .. l1 : emitted'[s][n].n = n
    BY <1>1, <1>4, <1>5, <1>7 DEF FlightInv, SentInv, l
  <2>3. sent'[s] = l1 \/ (sent'[s] = ScriptLen(s)
                          /\ \E n \in 1 .. l1 : emitted'[s][n].type = "error")
    BY <1>1, <1>4, <1>5, <1>8 DEF l
  <2> QED
    BY <2>1, <2>2, <2>3 DEF SentInv, l1, ScriptLen
<1>10. OrderInv(s)'
  <2>1. Increasing(new) /\ UpTo(new, l1)
    BY <1>6, <1>8
  <2>2. \A n \in 1 .. l1 :
          Has(new, emitted'[s][n]) \/ (IsFinalOrDelta(emitted'[s][n]) /\ Compacting')
    BY <1>5, <1>6, <1>7 DEF FlightInv, OrderInv, old, l
  <2> QED
    BY <2>1, <2>2 DEF OrderInv, new, l1, Increasing, UpTo, Has, IsFinalOrDelta
<1>11. failures'[s] = Errors(new) + Pending(s)'
  BY <1>2, <1>6 DEF FlightInv, TallyInv, old
<1> QED
  BY <1>9, <1>10, <1>11 DEF FlightInv, TallyInv, new, Errors, StorageErrors

LEMMA FlightInvStep ==
    ASSUME TypeInv, TypeInv', AllClosed, AllInFlight, [Next]_vars
    PROVE  AllInFlight'
<1>1. (Compacting => Compacting') /\ (blocked' => Compacting')
  BY CompactingStays DEF AllInFlight
<1>2. ASSUME NEW s \in Streams
      PROVE  FlightInv(s)'
  <2>1. FlightInv(s) /\ ClosedInv(s) /\ (blocked => Compacting)
    BY DEF AllInFlight, AllClosed
  <2>2. CASE StreamStep(s)
    <3>1. Moves(s) \/ ErrorSent(s) \/ Dropped(s) \/ Sent(s)
      BY <2>1, <2>2, FlightStep
    <3> QED
      BY <1>1, <2>1, <3>1, MovesKeep, ErrorSentKeeps, DroppedKeeps, SentKeeps
  <2>3. CASE SameStream(s)
    <3>1. Flight(s)' = Flight(s) /\ Pending(s)' = Pending(s)
      BY <2>3 DEF SameStream, Flight, Got, Behind, AtBarrier, AtTrace, InStore, InSource, Pending
    <3>2. failures[s] \in Nat /\ Pending(s) \in Nat
      BY CapacityAssumption DEF TypeInv, FailureTypes, Pending
    <3>3. Moves(s)
      BY <2>3, <3>1, <3>2 DEF SameStream, Moves
    <3> QED
      BY <1>1, <2>1, <3>3, MovesKeep
  <2> QED
    BY <2>2, <2>3, SameStep, CompactSaves
<1> QED
  BY <1>1, <1>2 DEF AllInFlight

LEMMA FlightInvariant == Spec => []AllInFlight
  BY FlightInit, FlightInvStep, TypeInvariant, ClosedInvariant, PTL DEF Spec

\* At the end of its stream the reader has everything that was on its way.
LEMMA NothingLeft ==
    ASSUME TypeInv, NEW s \in Streams, ClosedInv(s), reader[s] = "done"
    PROVE  Flight(s) = delivered[s] /\ Pending(s) = 0
<1>1. /\ barrier[s] = "closed" /\ buffer[s] = <<>> /\ trace[s] = "closed"
      /\ store[s] = "closed" /\ offered[s] = NoMsg
  BY DEF ClosedInv
<1>2. /\ AtBarrier(s) = <<>> /\ AtTrace(s) = <<>> /\ InStore(s) = <<>> /\ InSource(s) = <<>>
      /\ Pending(s) = 0
  BY <1>1 DEF AtBarrier, AtTrace, InStore, InSource, Pending
<1>3. Flight(s) = (delivered[s] \o <<>>) \o (((<<>> \o <<>>) \o <<>>) \o <<>>)
  BY <1>1, <1>2 DEF Flight, Got, Behind
<1>4. delivered[s] \in Seq(Msgs)
  BY FlightTypes
<1> QED
  BY <1>2, <1>3, <1>4

\* What the reader has comes before the rest.
LEMMA DeliveredFirst ==
    ASSUME TypeInv, NEW s \in Streams
    PROVE  \E rest \in Seq(Msgs) : Flight(s) = delivered[s] \o rest
<1> DEFINE S == Seq(Msgs)
           a == delivered[s]
           b == AtBarrier(s)
           c == Behind(s)
<1>1. a \in S /\ b \in S /\ c \in S
  BY FlightTypes
<1>2. Flight(s) = Join(Join(a, b), c)
  BY DEF Flight, Got, Join
<1>3. /\ \A x, y \in S : Join(x, y) \in S
      /\ \A x, y, z \in S : Join(Join(x, y), z) = Join(x, Join(y, z))
  BY Regroup
<1> HIDE DEF S, a, b, c
<1>4. Join(b, c) \in S /\ Flight(s) = Join(a, Join(b, c))
  BY <1>1, <1>2, <1>3
<1> QED
  BY <1>4 DEF Join, S, a

\* A reader that reached the end of its stream has received one storage error per
\* failed write of the stream.
THEOREM FailuresReachTheReader == Spec => []FailuresSurface
<1>1. TypeInv /\ AllClosed /\ AllInFlight => FailuresSurface
  <2> SUFFICES ASSUME TypeInv, AllClosed, AllInFlight, NEW s \in Streams, reader[s] = "done"
               PROVE  Cardinality(StorageErrors(delivered[s])) = failures[s]
    BY DEF FailuresSurface
  <2>1. Flight(s) = delivered[s] /\ Pending(s) = 0
    BY NothingLeft DEF AllClosed
  <2>2. failures[s] = Errors(delivered[s]) + 0
    BY <2>1 DEF AllInFlight, FlightInv, TallyInv
  <2>3. Errors(delivered[s]) \in Nat
    BY FlightTypes, ErrorsFinite
  <2> QED
    BY <2>2, <2>3 DEF Errors
<1> QED
  BY <1>1, FlightInvariant, TypeInvariant, ClosedInvariant, PTL

\* A reader receives the provider's messages in their order and misses none that it
\* could have received, except finals and deltas, and those only after a compaction
\* was started.
THEOREM OnlyFinalsAndDeltasDropped == Spec => []NothingElseDropped
<1>1. TypeInv /\ AllClosed /\ AllInFlight => NothingElseDropped
  <2> SUFFICES ASSUME TypeInv, AllClosed, AllInFlight, NEW s \in Streams
               PROVE  LET got == delivered[s]
                          part == ProviderPart(got)
                      IN  /\ \A i, j \in part : i < j => got[i].n < got[j].n
                          /\ \A n \in 1 .. Len(emitted[s]) :
                                /\ reader[s] = "done" \/ \E i \in part : n < got[i].n
                                /\ \A i \in part : got[i] # emitted[s][n]
                                =>
                                    /\ IsFinalOrDelta(emitted[s][n])
                                    /\ \E k \in Compactions : compact[k] # "idle"
    BY DEF NothingElseDropped
  <2>1. ClosedInv(s) /\ SentInv(s) /\ OrderInv(s)
    BY DEF AllClosed, AllInFlight, FlightInv
  <2>2. PICK rest \in Seq(Msgs) : Flight(s) = delivered[s] \o rest
    BY DeliveredFirst
  <2>3. delivered[s] \in Seq(Msgs)
    BY FlightTypes
  <2>4. Increasing(delivered[s]) /\ Before(delivered[s], rest)
    BY <2>1, <2>2, <2>3, Joined DEF OrderInv
  <2>5. ASSUME NEW n \in 1 .. Len(emitted[s]),
               reader[s] = "done" \/ \E i \in ProviderPart(delivered[s]) : n < delivered[s][i].n,
               \A i \in ProviderPart(delivered[s]) : delivered[s][i] # emitted[s][n]
        PROVE  ~Has(Flight(s), emitted[s][n])
    <3>1. FromProvider(emitted[s][n]) /\ emitted[s][n].n = n /\ n \in Nat
      BY <2>1 DEF SentInv, FromProvider
    <3>2. ~Has(delivered[s], emitted[s][n])
      BY <2>5, <3>1 DEF Has, ProviderPart
    <3>3. CASE reader[s] = "done"
      BY <2>1, <3>2, <3>3, NothingLeft
    <3>4. ASSUME NEW i \in ProviderPart(delivered[s]), n < delivered[s][i].n
          PROVE  ~Has(rest, emitted[s][n])
      <4>1. SUFFICES ASSUME NEW j \in DOMAIN rest, rest[j] = emitted[s][n]
                     PROVE  FALSE
        BY DEF Has
      <4>2. j \in ProviderPart(rest)
        BY <3>1, <4>1 DEF ProviderPart
      <4>3. delivered[s][i].n < n
        BY <2>4, <3>1, <4>1, <4>2 DEF Before
      <4>4. delivered[s][i].n \in Nat
        <5>1. i \in DOMAIN delivered[s]
          BY DEF ProviderPart
        <5>2. delivered[s][i] \in Msgs
          BY <2>3, <5>1
        <5> QED
          BY <5>2 DEF Msgs
      <4> QED
        BY <3>1, <3>4, <4>3, <4>4
    <3>5. CASE \E i \in ProviderPart(delivered[s]) : n < delivered[s][i].n
      BY <2>2, <2>3, <3>2, <3>4, <3>5, Joined
    <3> QED
      BY <2>5, <3>3, <3>5
  <2>6. ASSUME NEW n \in 1 .. Len(emitted[s]), ~Has(Flight(s), emitted[s][n])
        PROVE  IsFinalOrDelta(emitted[s][n]) /\ \E k \in Compactions : compact[k] # "idle"
    BY <2>1, <2>6 DEF OrderInv, Compacting
  <2> QED
    BY <2>4, <2>5, <2>6 DEF Increasing
<1> QED
  BY <1>1, FlightInvariant, TypeInvariant, ClosedInvariant, PTL

-----------------------------------------------------------------------------
(* Readers that read on whatever they receive.                              *)

PatientInv(s) ==
    /\ reader[s] \notin {"failing", "left"}
    /\ source[s] = "closed" => sent[s] = ScriptLen(s)

LEMMA PatientStep ==
    ASSUME "hasty" \notin Readers, TypeInv, \A s \in Streams : PatientInv(s), [Next]_vars
    PROVE  \A s \in Streams : PatientInv(s)'
<1> SUFFICES ASSUME NEW s \in Streams
             PROVE  PatientInv(s)'
  OBVIOUS
<1>1. PatientInv(s)
  OBVIOUS
<1>2. CASE SameStream(s)
  BY <1>1, <1>2 DEF PatientInv, SameStream, ScriptLen
<1>3. CASE StreamStep(s)
  <2>1. CASE SourceStep(s)
    <3>1. reader' = reader
      BY <2>1 DEF SourceStep, Produce, ProduceError, CloseSource, readerVars
    <3>2. source'[s] = "closed" => sent'[s] = ScriptLen(s)
      BY <2>1 DEF SourceStep, Produce, ProduceError, CloseSource, TypeInv, SourceTypes
    <3> QED
      BY <1>1, <3>1, <3>2 DEF PatientInv, ScriptLen
  <2>2. CASE StartChat(s)
    BY <1>1, <2>2 DEF StartChat, PatientInv, TypeInv, SourceTypes, ReaderTypes, ScriptLen
  <2>3. CASE ReaderStep(s) \/ LeaveAfterError(s) \/ Disconnect(s)
    BY <1>1, <2>3 DEF ReaderStep, Read, ReadEnd, LeaveAfterError, Disconnect, PatientInv, TypeInv,
          ReaderTypes, sourceVars, ScriptLen
  <2>4. CASE StoreStep(s) \/ TraceStep(s) \/ BarrierStep(s)
    BY <1>1, <2>4 DEF StoreStep, StoreRecv, CaptureMessage, UpdateSession, TraceStep, TraceRecv,
          TraceQueue, TraceRecord, BarrierStep, BarrierRecv, BarrierCheck, PatientInv, sourceVars,
          readerVars, ScriptLen
  <2> QED
    BY <1>3, <2>1, <2>2, <2>3, <2>4 DEF StreamStep
<1> QED
  BY <1>2, <1>3, SameStep, CompactSaves

\* The messages of the provider that a reader has, when none was lost on the way.
LEMMA CountPart ==
    ASSUME NEW f \in Seq(Msgs), NEW l \in Nat, Increasing(f), UpTo(f, l),
           \A n \in 1 .. l : \E i \in DOMAIN f : f[i].n = n
    PROVE  Cardinality(ProviderPart(f)) = l
<1> DEFINE P == ProviderPart(f)
           place == [i \in P |-> f[i].n]
<1>1. /\ Len(f) \in Nat /\ DOMAIN f = 1 .. Len(f) /\ \A i \in DOMAIN f : f[i] \in Msgs
      /\ P \in SUBSET (1 .. Len(f))
  BY LenProperties DEF ProviderPart
<1>2. \A i \in P : f[i].n \in 1 .. l
  BY <1>1 DEF ProviderPart, FromProvider, UpTo, Msgs
<1>3. \A i, j \in P : f[i].n = f[j].n => i = j
  <2> SUFFICES ASSUME NEW i \in P, NEW j \in P, f[i].n = f[j].n, i # j
               PROVE  FALSE
    OBVIOUS
  <2>1. i \in Nat /\ j \in Nat /\ f[i].n \in Nat /\ f[j].n \in Nat
    BY <1>1, <1>2
  <2>2. ~(i < j) /\ ~(j < i)
    BY <2>1 DEF Increasing
  <2> QED
    BY <2>1, <2>2
<1>4. \A n \in 1 .. l : \E i \in P : f[i].n = n
  BY DEF ProviderPart, FromProvider
<1>5. place \in Bijection(P, 1 .. l)
  <2>1. place \in [P -> 1 .. l] /\ \A n \in 1 .. l : \E i \in P : place[i] = n
    BY <1>2, <1>4
  <2>2. \A i, j \in P : place[i] = place[j] => i = j
    BY <1>3
  <2> QED
    BY <2>1, <2>2 DEF Bijection, Injection, Surjection, IsInjective
<1>6. IsFiniteSet(P)
  <2>1. IsFiniteSet(1 .. Len(f))
    BY <1>1, FS_Interval
  <2> HIDE DEF P
  <2> QED
    BY <1>1, <2>1, FS_Subset
<1>7. Cardinality(P) = Cardinality(1 .. l)
  BY <1>5, <1>6, FS_Bijection DEF ExistsBijection
<1>8. Cardinality(1 .. l) = l
  BY FS_Interval
<1> QED
  BY <1>7, <1>8

\* Where nobody stops reading at an error, the README's claim holds: a reader that is
\* through with its stream has the whole turn, provided the provider did not fail and
\* no compaction closed the barrier.
THEOREM PatientReadersGetAll ==
    ASSUME "hasty" \notin Readers
    PROVE  Spec => []ResponsePreserved
<1> DEFINE AllPatient == \A s \in Streams : PatientInv(s)
<1>1. Init => AllPatient
  BY DEF Init, PatientInv
<1>2. AllPatient /\ TypeInv /\ [Next]_vars => AllPatient'
  BY PatientStep
<1>3. TypeInv /\ AllClosed /\ AllInFlight /\ AllPatient => ResponsePreserved
  <2> SUFFICES ASSUME TypeInv, AllClosed, AllInFlight, AllPatient, NEW s \in Streams,
                      reader[s] \in {"done", "left"},
                      \A i \in DOMAIN emitted[s] : emitted[s][i].type # "error",
                      \A k \in Compactions : compact[k] = "idle"
               PROVE  Cardinality(ProviderPart(delivered[s])) = ScriptLen(s)
    BY DEF ResponsePreserved
  <2>1. reader[s] = "done" /\ ClosedInv(s) /\ SentInv(s) /\ OrderInv(s) /\ ~Compacting
    BY DEF PatientInv, AllClosed, AllInFlight, FlightInv, Compacting
  <2>2. Flight(s) = delivered[s] /\ delivered[s] \in Seq(Msgs)
    BY <2>1, NothingLeft, FlightTypes
  <2>3. sent[s] = ScriptLen(s)
    BY <2>1 DEF ClosedInv, PatientInv
  <2>4. Len(emitted[s]) \in Nat /\ DOMAIN emitted[s] = 1 .. Len(emitted[s])
    BY LenProperties DEF TypeInv, SourceTypes
  <2>5. Len(emitted[s]) = ScriptLen(s)
    BY <2>1, <2>3, <2>4 DEF SentInv
  <2>6. \A n \in 1 .. Len(emitted[s]) : \E i \in DOMAIN delivered[s] : delivered[s][i].n = n
    BY <2>1, <2>2 DEF OrderInv, SentInv, Has
  <2>7. Increasing(delivered[s]) /\ UpTo(delivered[s], Len(emitted[s]))
    BY <2>1, <2>2 DEF OrderInv
  <2>8. Cardinality(ProviderPart(delivered[s])) = Len(emitted[s])
    BY <2>2, <2>4, <2>6, <2>7, CountPart
  <2> QED
    BY <2>5, <2>8
<1> HIDE DEF AllPatient
<1> QED
  BY <1>1, <1>2, <1>3, FlightInvariant, TypeInvariant, ClosedInvariant, PTL DEF Spec
===============================================================================
