--------------------------- MODULE BubbleTea_proofs ---------------------------
(***************************************************************************)
(* Proofs about the Bubble Tea event loop: for every number of prompts,    *)
(* batch size and set of streams, nothing of an older stream reaches       *)
(* Update, every stream is released, and every card that says its tool is  *)
(* running belongs to a stream that still has its result to give.          *)
(*                                                                         *)
(* The streams come first; what they contain and what is shown of it plays *)
(* no part in that argument.  Then the transcript: what one message and    *)
(* one batch do to it, and what the loop keeps true of it.                 *)
(***************************************************************************)
EXTENDS BubbleTea, Integers, FiniteSetTheorems, SequenceTheorems, TLAPS

Steps == {"none", "starting", "started", "failed", "reading", "posted", "stuck", "over"}
InFlight == {"starting", "started", "failed", "reading", "posted"}
Given == {"reading", "posted", "stuck", "over"}

\* The types of the variables the argument is about.
StreamOK ==
    /\ seq \in 0..MaxStreams
    /\ held \in 0..MaxStreams
    /\ streaming \in BOOLEAN
    /\ step \in [StreamIds -> Steps]
    /\ cancelled \in [StreamIds -> BOOLEAN]

\* The inductive invariant.  The two properties need each other: Enter may forget the
\* held stream because nothing is in flight when it is taken, and a message may end a
\* stream by cancelling the held one because it is of the active stream.
StreamInv == StreamOK /\ NothingStaleInFlight /\ StreamsAreReleased

USE DEF Steps

-----------------------------------------------------------------------------
\* The loop starts with no stream at all.
LEMMA InitStreams == BubbleInit => StreamInv
<1> SUFFICES ASSUME BubbleInit PROVE StreamInv
  OBVIOUS
<1>1. StreamOK
  <2>1. 0 \in 0..MaxStreams
    BY BubbleAssumption
  <2>2. /\ step = [q \in StreamIds |-> "none"]
        /\ cancelled = [q \in StreamIds |-> FALSE]
    BY DEF BubbleInit
  <2>3. step \in [StreamIds -> Steps] /\ cancelled \in [StreamIds -> BOOLEAN]
    BY <2>2
  <2> QED
    BY <2>1, <2>3 DEF BubbleInit, StreamOK
<1>2. NothingStaleInFlight /\ StreamsAreReleased
  BY DEF BubbleInit, NothingStaleInFlight, StreamsAreReleased
<1> QED
  BY <1>1, <1>2 DEF StreamInv

\* Ctrl-C and /exit: the held stream is the only one that may still be uncancelled.
LEMMA QuitStep == StreamInv /\ Quit => StreamInv'
<1> SUFFICES ASSUME StreamInv, Quit PROVE StreamInv'
  OBVIOUS
<1> USE DEF Quit, Cancel
<1>1. StreamOK'
  BY BubbleAssumption DEF StreamInv, StreamOK
<1>2. NothingStaleInFlight'
  BY DEF StreamInv, NothingStaleInFlight
<1>3. StreamsAreReleased'
  BY DEF StreamInv, StreamOK, StreamsAreReleased
<1> QED
  BY <1>1, <1>2, <1>3 DEF StreamInv

\* A new prompt: when it is taken no stream is under way, so all are released.
LEMMA EnterStep == StreamInv /\ EnterPrompt => StreamInv'
<1> SUFFICES ASSUME StreamInv, EnterPrompt PROVE StreamInv'
  OBVIOUS
<1>1. /\ ~streaming /\ streaming' = TRUE
      /\ seq < MaxStreams /\ seq' = seq + 1
      /\ held' = 0
      /\ step' = [step EXCEPT ![seq + 1] = "starting"]
      /\ cancelled' = [p \in StreamIds |-> cancelled[p] \/ p = held]
  BY DEF EnterPrompt, EnterIsTaken, Cancel
<1>2. seq + 1 \in StreamIds
  BY <1>1, BubbleAssumption DEF StreamInv, StreamOK, StreamIds
<1>3. StreamOK'
  BY <1>1, <1>2, BubbleAssumption DEF StreamInv, StreamOK, StreamIds
<1>4. ASSUME NEW q \in StreamIds, q # seq + 1
      PROVE  step'[q] = step[q] /\ step[q] \notin InFlight
  BY <1>1, <1>4 DEF StreamInv, StreamOK, NothingStaleInFlight, InFlight
<1>5. NothingStaleInFlight'
  BY <1>1, <1>4 DEF NothingStaleInFlight, InFlight
<1>6. ASSUME NEW q \in StreamIds, q # seq + 1, step[q] \in Given
      PROVE  cancelled'[q]
  BY <1>1, <1>6 DEF StreamInv, StreamsAreReleased, Given
<1>7. step'[seq + 1] = "starting"
  BY <1>1, <1>2 DEF StreamInv, StreamOK
<1>8. StreamsAreReleased'
  BY <1>4, <1>6, <1>7 DEF StreamsAreReleased, Given
<1> QED
  BY <1>3, <1>5, <1>8 DEF StreamInv

\* The goroutine of a stream that is being started.
LEMMA StartStep ==
    ASSUME NEW q \in StreamIds, StreamInv, Start(q)
    PROVE  StreamInv'
<1>1. /\ step[q] = "starting" /\ UNCHANGED <<streaming, held, seq>>
      /\ step' = [step EXCEPT ![q] = step'[q]]
      /\ step'[q] \in {"started", "failed"}
      /\ cancelled' \in [StreamIds -> BOOLEAN]
      /\ \A p \in StreamIds : cancelled[p] => cancelled'[p]
  BY DEF Start, Cancel, StreamInv, StreamOK
<1>2. StreamOK'
  BY <1>1 DEF StreamInv, StreamOK
<1>3. NothingStaleInFlight'
  BY <1>1 DEF StreamInv, StreamOK, NothingStaleInFlight
<1>4. StreamsAreReleased'
  BY <1>1 DEF StreamInv, StreamOK, StreamsAreReleased
<1> QED
  BY <1>2, <1>3, <1>4 DEF StreamInv

\* A chunk is read and sent.
LEMMA ReadStep ==
    ASSUME NEW q \in StreamIds, StreamInv, ReadStreamChunk(q)
    PROVE  StreamInv'
<1>1. /\ step[q] = "reading" /\ UNCHANGED <<streaming, held, seq, cancelled>>
      /\ step' = [step EXCEPT ![q] = "posted"]
  BY DEF ReadStreamChunk
<1>2. StreamOK'
  BY <1>1 DEF StreamInv, StreamOK
<1>3. NothingStaleInFlight'
  BY <1>1 DEF StreamInv, StreamOK, NothingStaleInFlight
<1>4. StreamsAreReleased'
  BY <1>1 DEF StreamInv, StreamOK, StreamsAreReleased
<1> QED
  BY <1>2, <1>3, <1>4 DEF StreamInv

-----------------------------------------------------------------------------
(* The messages in Update.                                                  *)

\* A message that arrives is of the active stream, which is under way.
LEMMA MessageIsActive ==
    ASSUME NEW q \in StreamIds, StreamInv, step[q] \in InFlight
    PROVE  q = seq /\ streaming
BY DEF StreamInv, NothingStaleInFlight, InFlight

\* The stream could not be started.
LEMMA FailedStep ==
    ASSUME NEW q \in StreamIds, StreamInv, StreamStartFailed(q)
    PROVE  StreamInv'
<1>1. q = seq /\ step[q] = "failed"
  BY MessageIsActive DEF StreamStartFailed, InFlight
<1>2. /\ UNCHANGED <<held, seq>> /\ streaming' = FALSE
      /\ step' = [step EXCEPT ![q] = "over"]
      /\ cancelled' = [p \in StreamIds |-> cancelled[p] \/ p = q]
  BY <1>1 DEF StreamStartFailed, Cancel
<1>3. StreamOK'
  BY <1>2 DEF StreamInv, StreamOK
<1>4. NothingStaleInFlight'
  BY <1>1, <1>2 DEF StreamInv, StreamOK, NothingStaleInFlight
<1>5. StreamsAreReleased'
  BY <1>1, <1>2 DEF StreamInv, StreamOK, StreamsAreReleased
<1> QED
  BY <1>3, <1>4, <1>5 DEF StreamInv

\* The stream was started: the loop holds it from now on.
LEMMA StartedStep ==
    ASSUME NEW q \in StreamIds, StreamInv, StreamStarted(q)
    PROVE  StreamInv'
<1>1. q = seq /\ streaming /\ step[q] = "started"
  BY MessageIsActive DEF StreamStarted, InFlight
<1>2. /\ UNCHANGED <<streaming, seq, cancelled>> /\ held' = q
      /\ step' = [step EXCEPT ![q] = "reading"]
  BY <1>1 DEF StreamStarted
<1>3. StreamOK'
  BY <1>2, BubbleAssumption DEF StreamInv, StreamOK, StreamIds
<1>4. NothingStaleInFlight'
  BY <1>1, <1>2 DEF StreamInv, StreamOK, NothingStaleInFlight
<1>5. StreamsAreReleased'
  BY <1>1, <1>2 DEF StreamInv, StreamOK, StreamsAreReleased
<1> QED
  BY <1>3, <1>4, <1>5 DEF StreamInv

\* A chunk is shown; if the stream is over its context is cancelled.
LEMMA ChunkStep ==
    ASSUME NEW q \in StreamIds, StreamInv, StreamChunk(q)
    PROVE  StreamInv'
<1>1. q = seq /\ streaming /\ step[q] = "posted"
  BY MessageIsActive DEF StreamChunk, InFlight
<1>2. ~cancelled[q] => held = q
  BY <1>1 DEF StreamInv, StreamsAreReleased
<1>3. ASSUME NEW p \in StreamIds, p # q
      PROVE  step[p] \notin InFlight /\ (step[p] \in Given => cancelled[p])
  BY <1>1, <1>3 DEF StreamInv, NothingStaleInFlight, StreamsAreReleased, InFlight, Given
<1>4. CASE done[q] \/ HasError(batch[q])
  <2>1. /\ seq' = seq /\ streaming' = FALSE /\ held' = 0
        /\ cancelled' = [p \in StreamIds |-> cancelled[p] \/ p = held]
        /\ \E end \in {"over", "stuck"} : step' = [step EXCEPT ![q] = end]
    BY <1>1, <1>4 DEF StreamChunk, EndStream, Cancel
  <2>2. StreamOK'
    <3>1. step' \in [StreamIds -> Steps]
      BY <2>1 DEF StreamInv, StreamOK
    <3>2. cancelled' \in [StreamIds -> BOOLEAN]
      BY <2>1 DEF StreamInv, StreamOK
    <3>3. seq' \in 0..MaxStreams /\ held' \in 0..MaxStreams
      <4>1. seq \in 0..MaxStreams /\ seq' = seq /\ held' = 0
        BY <2>1 DEF StreamInv, StreamOK
      <4> QED
        BY <4>1, BubbleAssumption
    <3>4. streaming' \in BOOLEAN
      BY <2>1
    <3> QED
      BY <3>1, <3>2, <3>3, <3>4 DEF StreamOK
  <2>3. NothingStaleInFlight'
    BY <1>3, <2>1 DEF StreamInv, StreamOK, NothingStaleInFlight, InFlight
  <2>4. StreamsAreReleased'
    BY <1>2, <1>3, <2>1 DEF StreamInv, StreamOK, StreamsAreReleased, Given
  <2> QED
    BY <2>2, <2>3, <2>4 DEF StreamInv
<1>5. CASE ~(done[q] \/ HasError(batch[q]))
  <2>1. /\ UNCHANGED <<streaming, held, seq, cancelled>>
        /\ step' = [step EXCEPT ![q] = IF held = 0 THEN "stuck" ELSE "reading"]
    BY <1>1, <1>5 DEF StreamChunk
  <2>2. StreamOK'
    BY <2>1 DEF StreamInv, StreamOK
  <2>3. NothingStaleInFlight'
    BY <1>1, <1>3, <2>1 DEF StreamInv, StreamOK, NothingStaleInFlight, InFlight
  <2>4. StreamsAreReleased'
    BY <1>1, <1>2, <1>3, <2>1 DEF StreamInv, StreamOK, StreamsAreReleased, Given
  <2> QED
    BY <2>2, <2>3, <2>4 DEF StreamInv
<1> QED
  BY <1>4, <1>5

\* The program ends, and every stream with it.
LEMMA LeaveStep == StreamInv /\ Leave => StreamInv'
<1> SUFFICES ASSUME StreamInv, Leave PROVE StreamInv'
  OBVIOUS
<1> USE DEF Leave
<1>1. StreamOK'
  BY DEF StreamInv, StreamOK
<1>2. NothingStaleInFlight'
  BY DEF StreamInv, NothingStaleInFlight
<1>3. StreamsAreReleased'
  BY DEF StreamInv, StreamOK, StreamsAreReleased
<1> QED
  BY <1>1, <1>2, <1>3 DEF StreamInv

-----------------------------------------------------------------------------
\* Steps that have nothing to do with streams.
LEMMA IdleStep ==
    StreamInv /\ UNCHANGED <<streaming, held, seq, step, cancelled>> => StreamInv'
BY DEF StreamInv, StreamOK, NothingStaleInFlight, StreamsAreReleased

\* Every step of the loop and of its goroutines keeps the invariant.
LEMMA BubbleStep == StreamInv /\ [BubbleNext]_bubbleVars => StreamInv'
<1> SUFFICES ASSUME StreamInv, [BubbleNext]_bubbleVars PROVE StreamInv'
  OBVIOUS
<1>1. CASE Edit \/ Paste \/ MoveCursor \/ CompleteSlashCommand
  BY <1>1, IdleStep DEF Edit, Paste, MoveCursor, CompleteSlashCommand, streamVars
<1>2. CASE EnterExit \/ CtrlC
  BY <1>2, QuitStep DEF EnterExit, CtrlC
<1>3. CASE EnterPrompt
  BY <1>3, EnterStep
<1>4. ASSUME NEW q \in StreamIds, Start(q) \/ ReadStreamChunk(q) \/ Event(q)
      PROVE  StreamInv'
  BY <1>4, StartStep, ReadStep, FailedStep, StartedStep, ChunkStep DEF Event
<1>5. CASE ToolSpinnerTick
  BY <1>5, IdleStep DEF ToolSpinnerTick, streamVars
<1>6. CASE Leave
  BY <1>6, LeaveStep
<1>7. CASE UNCHANGED bubbleVars
  BY <1>7, IdleStep DEF bubbleVars, streamVars
<1> QED
  BY <1>1, <1>2, <1>3, <1>4, <1>5, <1>6, <1>7 DEF BubbleNext, Key

\* The invariant holds of every behaviour.
THEOREM StreamInvariant == BubbleSpec => []StreamInv
BY InitStreams, BubbleStep, PTL DEF BubbleSpec

\* Whatever is on its way to Update is of the active stream, while one is under way:
\* the sequence numbers of update.go never have to tell two streams apart.
THEOREM NothingStale == BubbleSpec => []NothingStaleInFlight
<1>1. StreamInv => NothingStaleInFlight
  BY DEF StreamInv
<1> QED
  BY <1>1, StreamInvariant, PTL

\* Every stream the loop was given is cancelled or the one it holds: no key, message
\* or end of the program leaves a provider at work for nobody.
THEOREM StreamsReleased == BubbleSpec => []StreamsAreReleased
<1>1. StreamInv => StreamsAreReleased
  BY DEF StreamInv
<1> QED
  BY <1>1, StreamInvariant, PTL

HIDE DEF Steps

-----------------------------------------------------------------------------
(* The transcript: what is true of it, in the middle of a batch as between them. *)

BlockStates == {"none", "pending", "done", "error"}
Blocks == [kind : BlockKinds, id : CallIds \cup {"none"}, state : BlockStates,
           turn : Nat, late : BOOLEAN]
Transcripts == [blocks : Seq(Blocks), index : [CallIds -> Nat], late : BOOLEAN]

\* The index of an id is a card of that id, and a card that is pending is the one
\* its id is indexed to: results find it.
ViewOK(v) ==
    /\ v \in Transcripts
    /\ \A c \in CallIds : v.index[c] # 0 =>
          /\ v.index[c] \in DOMAIN v.blocks
          /\ v.blocks[v.index[c]].kind = "tool" /\ v.blocks[v.index[c]].id = c
    /\ \A k \in DOMAIN v.blocks : v.blocks[k].state = "pending" =>
          v.blocks[k].id \in CallIds /\ v.index[v.blocks[k].id] = k

\* The cards that wait for an answer wait for one of ids, and no Error has come since.
Awaited(v, ids) ==
    \A k \in DOMAIN v.blocks : v.blocks[k].state = "pending" /\ ~v.blocks[k].late =>
        ~v.late /\ v.blocks[k].id \in ids

\* The ids whose answer comes after the k-th of the messages.
AnsweredAfter(msgs, k) ==
    {id \in CallIds : \E j \in DOMAIN msgs : k < j /\ Answers(msgs[j], id)}

\* The messages of stream q that the loop has not seen, and the transcript between batches.
Todo(q) == batch[q] \o rest[q]
Transcript == [blocks |-> blocks, index |-> index, late |-> FALSE]

\* What the streams still have to give: every call of it is answered in it.
StreamsOK ==
    /\ batch \in [StreamIds -> Seq(Messages)]
    /\ rest \in [StreamIds -> Seq(Messages)]
    /\ done \in [StreamIds -> BOOLEAN]
    /\ \A q \in StreamIds :
          /\ CallsAnswered(Todo(q))
          /\ step[q] # "posted" => batch[q] = <<>>
          /\ step[q] = "posted" /\ done[q] => rest[q] = <<>>

\* No card is awaited, or the active stream's answers are still on their way.
CardsLive ==
    \/ Awaited(Transcript, {})
    \/ /\ streaming /\ seq \in StreamIds
       /\ step[seq] \notin {"starting", "started", "failed"}
       /\ Awaited(Transcript, AnsweredAfter(Todo(seq), 0))

\* The spinner turns while a card is pending, and a timer is on its way while it does.
SpinnerOK ==
    /\ spinner \in BOOLEAN /\ ticks \in Nat
    /\ HasPendingToolResults(blocks) => spinner
    /\ spinner => ticks > 0

\* The types of the rest of the loop's state.
InputOK ==
    /\ loop \in {"running", "quitting", "gone"}
    /\ input \in [word : Words, args : {"none", "number", "other"}, newline : BOOLEAN]
    /\ shown \in {<<>>, KnownSuggestions}
    /\ selected \in 1..3
    /\ held \in {0, seq}

CardsInv == ViewOK(Transcript) /\ StreamsOK /\ CardsLive

-----------------------------------------------------------------------------
(* What each kind of message does. *)

\* The parts of a transcript that a message may change.
LEMMA NewState ==
    ASSUME NEW b \in Blocks, NEW state \in BlockStates
    PROVE  LET d == [b EXCEPT !.state = state] IN
           /\ d \in Blocks /\ d.state = state
           /\ d.kind = b.kind /\ d.id = b.id /\ d.late = b.late
BY DEF Blocks

LEMMA NewTranscript ==
    ASSUME NEW v \in Transcripts, NEW bs \in Seq(Blocks), NEW idx \in [CallIds -> Nat]
    PROVE  LET w == [v EXCEPT !.blocks = bs, !.index = idx] IN
           w \in Transcripts /\ w.blocks = bs /\ w.index = idx /\ w.late = v.late
BY DEF Transcripts

LEMMA NewBlocks ==
    ASSUME NEW v \in Transcripts, NEW bs \in Seq(Blocks)
    PROVE  LET w == [v EXCEPT !.blocks = bs] IN
           w \in Transcripts /\ w.blocks = bs /\ w.index = v.index /\ w.late = v.late
BY DEF Transcripts

LEMMA Appended ==
    ASSUME NEW bs \in Seq(Blocks), NEW b \in Blocks
    PROVE  Append(bs, b) \in Seq(Blocks)
OBVIOUS

\* A block that is no pending card changes nothing for the others.
LEMMA PlainBlockOK ==
    ASSUME NEW v, ViewOK(v), NEW b \in Blocks, b.state = "none", NEW ids, Awaited(v, ids)
    PROVE  LET w == [v EXCEPT !.blocks = Append(v.blocks, b)] IN
           ViewOK(w) /\ Awaited(w, ids) /\ w.late = v.late
<1> DEFINE w == [v EXCEPT !.blocks = Append(v.blocks, b)]
<1>1. v \in Transcripts /\ v.blocks \in Seq(Blocks)
  BY DEF ViewOK, Transcripts
<1>2. /\ w \in Transcripts /\ w.index = v.index /\ w.late = v.late
      /\ w.blocks = Append(v.blocks, b)
  BY <1>1, Appended, NewBlocks
<1> HIDE DEF w
<1>3. /\ DOMAIN w.blocks = 1..(Len(v.blocks) + 1) /\ DOMAIN v.blocks = 1..Len(v.blocks)
      /\ Len(v.blocks) \in Nat
      /\ \A k \in DOMAIN v.blocks : k \in DOMAIN w.blocks /\ w.blocks[k] = v.blocks[k]
      /\ w.blocks[Len(v.blocks) + 1] = b
  BY <1>1, <1>2
<1>4. \A k \in DOMAIN w.blocks : w.blocks[k].state = "pending" =>
          k \in DOMAIN v.blocks /\ w.blocks[k] = v.blocks[k]
  BY <1>3
<1>5. ViewOK(w)
  BY <1>2, <1>3, <1>4 DEF ViewOK
<1>6. Awaited(w, ids)
  BY <1>2, <1>4 DEF Awaited
<1> QED
  BY <1>2, <1>5, <1>6 DEF w

\* A line of text, a status or an Error's text is such a block.
LEMMA AppendBlockOK ==
    ASSUME NEW v, ViewOK(v), NEW kind \in BlockKinds, NEW ids, Awaited(v, ids), seq \in Nat
    PROVE  LET w == AppendBlock(v, kind) IN
           ViewOK(w) /\ Awaited(w, ids) /\ w.late = v.late
<1> DEFINE b == Block(kind, "none", "none", seq, v.late)
<1>1. v.late \in BOOLEAN
  BY DEF ViewOK, Transcripts
<1>2. b \in Blocks /\ b.state = "none"
  BY <1>1 DEF Block, Blocks, BlockStates
<1>3. AppendBlock(v, kind) = [v EXCEPT !.blocks = Append(v.blocks, b)]
  BY DEF AppendBlock
<1> HIDE DEF b
<1> QED
  BY <1>2, <1>3, PlainBlockOK

\* Text that goes on in the last block is left out of the model.
LEMMA AppendToBlockOK ==
    ASSUME NEW v, ViewOK(v), NEW kind \in BlockKinds, NEW ids, Awaited(v, ids), seq \in Nat
    PROVE  LET w == AppendToBlock(v, kind) IN
           ViewOK(w) /\ Awaited(w, ids) /\ w.late = v.late
BY AppendBlockOK DEF AppendToBlock

\* A card of an id that has none.
LEMMA NewCardOK ==
    ASSUME NEW v, ViewOK(v), NEW id \in CallIds \cup {"none"}, CardOf(v, id) = 0,
           NEW state \in {"pending", "done"}, NEW ids, Awaited(v, ids), seq \in Nat,
           state = "pending" => id \in CallIds /\ id \in ids
    PROVE  LET w == NewCard(v, id, state) IN
           ViewOK(w) /\ Awaited(w, ids) /\ w.late = v.late
<1> DEFINE b == Block("tool", id, state, seq, v.late)
           w == NewCard(v, id, state)
           idx == [c \in CallIds |-> IF c = id THEN Len(v.blocks) + 1 ELSE v.index[c]]
<1>1. /\ v \in Transcripts /\ v.blocks \in Seq(Blocks) /\ v.late \in BOOLEAN
      /\ v.index \in [CallIds -> Nat]
  BY DEF ViewOK, Transcripts
<1>2. b \in Blocks /\ b.state = state /\ b.id = id /\ b.kind = "tool" /\ b.late = v.late
  BY <1>1 DEF Block, Blocks, BlockStates, BlockKinds
<1>3. w = [v EXCEPT !.blocks = Append(v.blocks, b), !.index = idx]
  BY DEF NewCard
<1>x. idx \in [CallIds -> Nat]
  BY <1>1
<1>y. \A c \in CallIds : idx[c] = IF c = id THEN Len(v.blocks) + 1 ELSE v.index[c]
  OBVIOUS
<1>z. id \in CallIds => v.index[id] = 0
  BY DEF CardOf
<1> HIDE DEF b, w, idx
<1>4. /\ w \in Transcripts /\ w.index = idx /\ w.late = v.late
      /\ w.blocks = Append(v.blocks, b)
  <2> DEFINE bs == Append(v.blocks, b)
  <2>1. bs \in Seq(Blocks)
    BY <1>1, <1>2
  <2>2. w = [v EXCEPT !.blocks = bs, !.index = idx]
    BY <1>3
  <2> HIDE DEF bs
  <2>3. w \in Transcripts /\ w.index = idx /\ w.late = v.late /\ w.blocks = bs
    BY <1>1, <1>x, <2>1, <2>2 DEF Transcripts
  <2> QED BY <2>3 DEF bs
<1>5. /\ DOMAIN w.blocks = 1..(Len(v.blocks) + 1) /\ DOMAIN v.blocks = 1..Len(v.blocks)
      /\ Len(v.blocks) \in Nat
      /\ \A k \in DOMAIN v.blocks : k \in DOMAIN w.blocks /\ w.blocks[k] = v.blocks[k]
      /\ w.blocks[Len(v.blocks) + 1] = b
  BY <1>1, <1>2, <1>4
<1> DEFINE n == Len(v.blocks) + 1
<1>6. n \in DOMAIN w.blocks /\ w.blocks[n] = b /\ n # 0 /\ n \notin DOMAIN v.blocks
      /\ \A k \in DOMAIN w.blocks : k = n \/ (k \in DOMAIN v.blocks /\ w.blocks[k] = v.blocks[k])
  BY <1>5
<1>y1. \A c \in CallIds : w.index[c] = IF c = id THEN n ELSE v.index[c]
  BY <1>y, <1>4
<1> HIDE DEF n
<1>7. ASSUME NEW c \in CallIds, w.index[c] # 0
      PROVE  /\ w.index[c] \in DOMAIN w.blocks
             /\ w.blocks[w.index[c]].kind = "tool" /\ w.blocks[w.index[c]].id = c
  <2>1. CASE c = id
    BY <2>1, <1>y1, <1>6, <1>2
  <2>2. CASE c # id
    <3>1. w.index[c] = v.index[c]
      BY <2>2, <1>y1
    <3>2. v.index[c] \in DOMAIN v.blocks /\ v.blocks[v.index[c]].kind = "tool"
          /\ v.blocks[v.index[c]].id = c
      BY <3>1, <1>7 DEF ViewOK
    <3> QED BY <3>1, <3>2, <1>5
  <2> QED BY <2>1, <2>2
<1>8. ASSUME NEW k \in DOMAIN w.blocks, w.blocks[k].state = "pending"
      PROVE  w.blocks[k].id \in CallIds /\ w.index[w.blocks[k].id] = k
  <2>1. CASE k = n
    BY <2>1, <1>8, <1>6, <1>2, <1>y1
  <2>2. CASE k \in DOMAIN v.blocks /\ w.blocks[k] = v.blocks[k]
    <3>1. v.blocks[k].id \in CallIds /\ v.index[v.blocks[k].id] = k
      BY <2>2, <1>8 DEF ViewOK
    <3>2. k # 0
      BY <2>2, <1>5
    <3> QED BY <3>1, <3>2, <2>2, <1>y1, <1>z
  <2> QED BY <2>1, <2>2, <1>6
<1>9. ViewOK(w)
  BY <1>4, <1>7, <1>8 DEF ViewOK
<1>10. Awaited(w, ids)
  BY <1>2, <1>4, <1>6 DEF Awaited
<1> QED
  BY <1>4, <1>9, <1>10 DEF w

\* A call is pending until its id is answered.
LEMMA AppendToolCallOK ==
    ASSUME NEW v, ViewOK(v), NEW id \in CallIds, NEW ids, Awaited(v, ids), id \in ids,
           seq \in Nat
    PROVE  LET w == AppendToolCall(v, id) IN
           ViewOK(w) /\ Awaited(w, ids) /\ w.late = v.late
BY NewCardOK DEF AppendToolCall

\* A result settles the card of its id.
LEMMA AppendToolResultOK ==
    ASSUME NEW v, ViewOK(v), NEW id \in CallIds \cup {"none"}, NEW ids,
           Awaited(v, ids \cup {id}), seq \in Nat
    PROVE  LET w == AppendToolResult(v, id) IN
           ViewOK(w) /\ Awaited(w, ids) /\ w.late = v.late
<1>1. CASE CardOf(v, id) = 0
  <2>1. Awaited(v, ids)
    <3> SUFFICES ASSUME NEW k \in DOMAIN v.blocks, v.blocks[k].state = "pending",
                        ~v.blocks[k].late
                 PROVE  ~v.late /\ v.blocks[k].id \in ids
      BY DEF Awaited
    <3>1. ~v.late /\ v.blocks[k].id \in ids \cup {id}
      BY DEF Awaited
    <3>2. v.blocks[k].id \in CallIds /\ v.index[v.blocks[k].id] = k
      BY DEF ViewOK
    <3>3. k # 0
      BY DEF ViewOK, Transcripts
    <3> QED BY <3>1, <3>2, <3>3, <1>1 DEF CardOf
  <2> QED BY <1>1, <2>1, NewCardOK DEF AppendToolResult
<1>2. CASE CardOf(v, id) # 0
  <2> DEFINE n == v.index[id]
             w == [v EXCEPT !.blocks[n].state = "done"]
  <2>1. id \in CallIds /\ n # 0 /\ CardOf(v, id) = n /\ AppendToolResult(v, id) = w
    BY <1>2 DEF CardOf, AppendToolResult
  <2>2. v \in Transcripts /\ v.blocks \in Seq(Blocks) /\ v.index \in [CallIds -> Nat]
    BY DEF ViewOK, Transcripts
  <2>3. n \in DOMAIN v.blocks /\ v.blocks[n].kind = "tool" /\ v.blocks[n].id = id
    BY <2>1 DEF ViewOK
  <2>4. w.late = v.late /\ w.index = v.index
        /\ w.blocks = [v.blocks EXCEPT ![n].state = "done"]
        /\ w = [v EXCEPT !.blocks = w.blocks]
    BY <2>2 DEF Transcripts
  <2> HIDE DEF w, n
  <2>5. v.blocks[n] \in Blocks
    BY <2>2, <2>3
  <2>6. w.blocks = [v.blocks EXCEPT ![n] = [v.blocks[n] EXCEPT !.state = "done"]]
    BY <2>4
  <2> DEFINE d == [v.blocks[n] EXCEPT !.state = "done"]
  <2>6a. d \in Blocks /\ d.state = "done" /\ d.kind = v.blocks[n].kind
         /\ d.id = v.blocks[n].id
    BY <2>5, NewState DEF BlockStates
  <2>6b. w.blocks = [v.blocks EXCEPT ![n] = d]
    BY <2>6
  <2> HIDE DEF d
  <2>7. w.blocks \in Seq(Blocks) /\ DOMAIN w.blocks = DOMAIN v.blocks
    BY <2>2, <2>3, <2>6a, <2>6b
  <2>8. w \in Transcripts
    BY <2>2, <2>4, <2>7 DEF Transcripts
  <2>9. \A k \in DOMAIN w.blocks : w.blocks[k].kind = v.blocks[k].kind
            /\ w.blocks[k].id = v.blocks[k].id
    BY <2>2, <2>3, <2>6a, <2>6b, <2>7
  <2>10. \A k \in DOMAIN w.blocks : w.blocks[k].state = "pending" =>
            k # n /\ w.blocks[k] = v.blocks[k]
    BY <2>2, <2>3, <2>6a, <2>6b, <2>7
  <2>11. ViewOK(w)
    BY <2>4, <2>7, <2>8, <2>9, <2>10 DEF ViewOK
  <2>12. Awaited(w, ids)
    <3> SUFFICES ASSUME NEW k \in DOMAIN w.blocks, w.blocks[k].state = "pending",
                        ~w.blocks[k].late
                 PROVE  ~w.late /\ w.blocks[k].id \in ids
      BY DEF Awaited
    <3>1. k # n /\ w.blocks[k] = v.blocks[k] /\ k \in DOMAIN v.blocks
      BY <2>10, <2>7
    <3>2. ~v.late /\ v.blocks[k].id \in ids \cup {id}
      BY <3>1 DEF Awaited
    <3>3. v.index[v.blocks[k].id] = k
      BY <3>1 DEF ViewOK
    <3> QED BY <3>1, <3>2, <3>3, <2>4 DEF n
  <2> QED BY <2>1, <2>4, <2>11, <2>12
<1> QED BY <1>1, <1>2

\* An Error settles every card.
LEMMA ApplyErrorOK ==
    ASSUME NEW v, ViewOK(v), seq \in Nat
    PROVE  LET w == ApplyError(v) IN ViewOK(w) /\ Awaited(w, {}) /\ w.late
<1> DEFINE bs == [k \in DOMAIN v.blocks |->
                    IF v.blocks[k].state = "pending" THEN [v.blocks[k] EXCEPT !.state = "error"]
                    ELSE v.blocks[k]]
           u == MarkPendingToolsAsError(v)
           x == AppendBlock(u, "error")
           w == ApplyError(v)
<1>1. v \in Transcripts /\ v.blocks \in Seq(Blocks)
  BY DEF ViewOK, Transcripts
<1>2. u = [v EXCEPT !.blocks = bs]
  BY DEF MarkPendingToolsAsError
<1>3. \A k \in DOMAIN v.blocks : /\ bs[k] \in Blocks /\ bs[k].state # "pending"
                                 /\ bs[k].kind = v.blocks[k].kind /\ bs[k].id = v.blocks[k].id
  <2> TAKE k \in DOMAIN v.blocks
  <2>1. v.blocks[k] \in Blocks
    BY <1>1
  <2>2. CASE v.blocks[k].state = "pending"
    BY <2>1, <2>2, NewState DEF BlockStates
  <2>3. CASE v.blocks[k].state # "pending"
    BY <2>1, <2>3
  <2> QED BY <2>2, <2>3
<1>4. DOMAIN bs = DOMAIN v.blocks /\ bs \in Seq(Blocks)
  <2>1. DOMAIN bs = 1..Len(v.blocks) /\ Len(v.blocks) \in Nat
    BY <1>1
  <2>2. bs \in [1..Len(v.blocks) -> Blocks]
    BY <1>1, <1>3, <2>1
  <2> HIDE DEF bs
  <2>3. bs \in Seq(Blocks)
    BY <2>1, <2>2
  <2> QED BY <2>1, <2>2, <2>3
<1> HIDE DEF bs, u
<1>5. u \in Transcripts /\ u.blocks = bs /\ u.index = v.index /\ u.late = v.late
  BY <1>1, <1>2, <1>4 DEF Transcripts
<1>6. ViewOK(u) /\ Awaited(u, {})
  BY <1>3, <1>4, <1>5 DEF ViewOK, Awaited
<1>7. ViewOK(x) /\ Awaited(x, {})
  <2>1. "error" \in BlockKinds
    BY DEF BlockKinds
  <2> QED BY <1>6, <2>1, AppendBlockOK
<1>8. w = [x EXCEPT !.late = TRUE]
  BY DEF ApplyError, u
<1> HIDE DEF x, w
<1>9. w \in Transcripts /\ w.blocks = x.blocks /\ w.index = x.index /\ w.late
  BY <1>7, <1>8 DEF ViewOK, Transcripts
<1>10. ViewOK(w)
  BY <1>7, <1>9 DEF ViewOK
<1>11. Awaited(w, {})
  BY <1>7, <1>9 DEF Awaited
<1> QED BY <1>9, <1>10, <1>11 DEF w

-----------------------------------------------------------------------------
(* What a batch does. *)

\* A nonempty set of numbers has a least one; what follows by induction on the
\* length of a sequence is proved from it.
LEMMA Least ==
  ASSUME NEW T \in SUBSET Nat, T # {}
  PROVE \E m \in T : \A k \in T : m <= k
<1>1. PICK b \in T : TRUE
  OBVIOUS
<1> DEFINE R == StrictSubsetOrdering(0..b)
           F == {I \in SUBSET (0..b) : \E k \in T : I = 0..k}
<1>2. IsFiniteSet(0..b)
  BY <1>1, FS_Interval
<1>3. IsWellFoundedOn(R, SUBSET (0..b))
  BY <1>2, FS_StrictSubsetOrderingWellFounded, FS_FiniteSubsetsOfFinite
<1>4. F \subseteq SUBSET (0..b) /\ (0..b) \in F
  BY <1>1
<1>5. PICK I \in F : \A J \in F : <<J, I>> \notin R
  <2> HIDE DEF R, F
  <2>1. F # {}
    BY <1>4
  <2> QED BY <1>3, <1>4, <2>1, WFMin
<1>6. PICK m \in T : I = 0..m
  BY <1>5
<1>7. ASSUME NEW k \in T, k < m
      PROVE  FALSE
  <2>1. m \in 0..b /\ k \in 0..b
    <3>1. m \in 0..m /\ 0..m \subseteq 0..b
      BY <1>4, <1>5, <1>6
    <3> QED BY <3>1, <1>1, <1>7
  <2>2. 0..k \in F
    BY <2>1
  <2>3. 0..k \subseteq 0..m /\ m \notin 0..k /\ m \in 0..m
    BY <1>7
  <2>4. <<0..k, 0..m>> \in R
    BY <2>3, <2>2, <1>6, <1>5, <1>4 DEF StrictSubsetOrdering
  <2> QED BY <2>4, <2>2, <1>5, <1>6
<1> QED BY <1>7

\* One message: what the cards wait for is what comes after it.
LEMMA ApplyMessageOK ==
    ASSUME NEW msgs \in Seq(Messages), CallsAnswered(msgs), seq \in Nat,
           NEW k \in Nat, k + 1 \in DOMAIN msgs,
           NEW v, ViewOK(v), Awaited(v, AnsweredAfter(msgs, k))
    PROVE  LET w == ApplyMessage(v, msgs[k + 1]) IN
           /\ ViewOK(w) /\ Awaited(w, AnsweredAfter(msgs, k + 1))
           /\ v.late \/ msgs[k + 1].type = "error" => w.late
<1> DEFINE msg == msgs[k + 1]
           before == AnsweredAfter(msgs, k)
           after == AnsweredAfter(msgs, k + 1)
           w == ApplyMessage(v, msg)
<1>1. msg \in Messages
  OBVIOUS
<1>2. msg.type \in Types /\ msg.id \in CallIds \cup {"none"}
  BY <1>1 DEF Messages
<1>3. msg.type # "error" => before \subseteq after \cup {msg.id}
  <2> SUFFICES ASSUME msg.type # "error", NEW id \in before, id # msg.id
               PROVE  id \in after
    OBVIOUS
  <2>1. PICK j \in DOMAIN msgs : k < j /\ Answers(msgs[j], id)
    BY DEF AnsweredAfter
  <2>2. j # k + 1
    BY <2>1 DEF Answers
  <2>3. k + 1 < j
    BY <2>1, <2>2
  <2> QED BY <2>1, <2>3 DEF AnsweredAfter
<1>4. msg.type \notin {"error", "result"} => before \subseteq after
  <2> SUFFICES ASSUME msg.type \notin {"error", "result"}, NEW id \in before
               PROVE  id \in after
    OBVIOUS
  <2>1. PICK j \in DOMAIN msgs : k < j /\ Answers(msgs[j], id)
    BY DEF AnsweredAfter
  <2>2. j # k + 1
    BY <2>1 DEF Answers
  <2>3. k + 1 < j
    BY <2>1, <2>2
  <2> QED BY <2>1, <2>3 DEF AnsweredAfter
<1>5. ASSUME NEW ids, before \subseteq ids
      PROVE  Awaited(v, ids)
  BY <1>5 DEF Awaited
<1> HIDE DEF msg, before, after
<1> SUFFICES /\ ViewOK(w) /\ Awaited(w, after)
             /\ v.late \/ msg.type = "error" => w.late
  BY DEF msg, after
<1>6. {"assistant", "reasoning", "system"} \subseteq BlockKinds
  BY DEF BlockKinds
<1>7. CASE msg.type \in {"delta", "reasoning", "status"}
  <2>1. Awaited(v, after)
    BY <1>4, <1>5, <1>7
  <2> QED BY <1>6, <1>7, <2>1, AppendToBlockOK, AppendBlockOK DEF ApplyMessage
<1>8. CASE msg.type = "call"
  <2>1. Awaited(v, after)
    BY <1>4, <1>5, <1>8
  <2>2. msg.id \in CallIds /\ msg.id \in after
    <3>1. PICK j \in DOMAIN msgs : k + 1 < j /\ Answers(msgs[j], msg.id)
      BY <1>8 DEF CallsAnswered, msg
    <3>2. msg.id \in CallIds
      BY <1>8 DEF CallsAnswered, msg
    <3> QED BY <3>1, <3>2 DEF AnsweredAfter, after
  <2>3. w = AppendToolCall(v, msg.id)
    BY <1>8 DEF ApplyMessage
  <2> QED BY <1>8, <2>1, <2>2, <2>3, AppendToolCallOK
<1>9. CASE msg.type = "result"
  <2>1. Awaited(v, after \cup {msg.id})
    BY <1>3, <1>5, <1>9
  <2>2. w = AppendToolResult(v, msg.id)
    BY <1>9 DEF ApplyMessage
  <2> QED BY <1>2, <1>9, <2>1, <2>2, AppendToolResultOK
<1>10. CASE msg.type = "error"
  <2>1. w = ApplyError(v)
    BY <1>10 DEF ApplyMessage
  <2>2. ViewOK(w) /\ Awaited(w, {}) /\ w.late
    BY <2>1, ApplyErrorOK
  <2> QED BY <2>2 DEF Awaited
<1>11. CASE msg.type \in {"final", "reasoningFinal", "usage"}
  <2>1. w = v
    BY <1>11 DEF ApplyMessage
  <2> QED BY <1>4, <1>5, <1>11, <2>1
<1> QED
  BY <1>2, <1>7, <1>8, <1>9, <1>10, <1>11 DEF Types

\* The views of a batch exist and are what Views says.
LEMMA ViewsOf ==
    ASSUME NEW msgs \in Seq(Messages)
    PROVE  /\ Views(msgs)[0] = Transcript
           /\ \A k \in 1..Len(msgs) :
                 Views(msgs)[k] = ApplyMessage(Views(msgs)[k - 1], msgs[k])
<1> DEFINE Is(g, n) == g = [k \in 0..n |-> IF k = 0 THEN Transcript
                                          ELSE ApplyMessage(g[k - 1], msgs[k])]
           T == {n \in Nat : \A g : ~Is(g, n)}
<1>1. T = {}
  <2> SUFFICES ASSUME T # {} PROVE FALSE
    OBVIOUS
  <2>1. PICK m \in T : \A n \in T : m <= n
    BY Least
  <2>2. m # 0
    <3> DEFINE g == [k \in 0..0 |-> Transcript]
    <3>1. Is(g, 0)
      OBVIOUS
    <3> QED BY <3>1, <2>1
  <2>3. m - 1 \in Nat /\ m - 1 \notin T
    <3> HIDE DEF T
    <3>1. m \in Nat
      BY <2>1 DEF T
    <3> QED BY <2>1, <2>2, <3>1
  <2>4. PICK g : Is(g, m - 1)
    BY <2>3
  <2> DEFINE h == [k \in 0..m |-> IF k = m THEN ApplyMessage(g[m - 1], msgs[m]) ELSE g[k]]
  <2>5. Is(h, m)
    <3> DEFINE f == [k \in 0..m |-> IF k = 0 THEN Transcript
                                    ELSE ApplyMessage(h[k - 1], msgs[k])]
    <3>1. ASSUME NEW k \in 0..m
          PROVE  h[k] = f[k]
      <4>1. CASE k = m
        <5>1. h[m - 1] = g[m - 1] /\ m # 0
          BY <2>2, <2>3
        <5> QED BY <4>1, <5>1
      <4>2. CASE k = 0
        <5>1. h[0] = g[0] /\ g[0] = Transcript
          BY <2>2, <2>3, <2>4
        <5> QED BY <4>2, <5>1
      <4>3. CASE k # m /\ k # 0
        <5>1. k \in 1..(m - 1) /\ k - 1 \in 0..(m - 1) /\ k \in 0..(m - 1) /\ k - 1 # m
          BY <4>3, <2>3
        <5>2. h[k] = g[k] /\ h[k - 1] = g[k - 1]
          BY <5>1, <4>3
        <5>3. g[k] = ApplyMessage(g[k - 1], msgs[k])
          BY <5>1, <2>4
        <5> QED BY <5>2, <5>3, <4>3
      <4> QED BY <4>1, <4>2, <4>3
    <3> QED BY <3>1
  <2> QED BY <2>5, <2>1
<1>2. Len(msgs) \in Nat
  OBVIOUS
<1>3. PICK g : Is(g, Len(msgs))
  BY <1>1, <1>2
<1>4. Is(Views(msgs), Len(msgs))
  BY <1>3 DEF Views, Transcript
<1> QED BY <1>4, <1>2

\* A batch: the first n of the messages a stream still has to give.
LEMMA ApplyBatchOK ==
    ASSUME NEW msgs \in Seq(Messages), NEW more \in Seq(Messages), seq \in Nat,
           CallsAnswered(msgs \o more),
           ViewOK(Transcript), Awaited(Transcript, AnsweredAfter(msgs \o more, 0))
    PROVE  LET w == ApplyStreamMessages(msgs) IN
           /\ ViewOK(w) /\ Awaited(w, AnsweredAfter(msgs \o more, Len(msgs)))
           /\ HasError(msgs) => w.late
<1> DEFINE todo == msgs \o more
           Good(k) == LET v == Views(msgs)[k] IN
                      /\ ViewOK(v) /\ Awaited(v, AnsweredAfter(todo, k))
                      /\ \A j \in 1..k : msgs[j].type = "error" => v.late
           T == {k \in 0..Len(msgs) : ~Good(k)}
<1>1. Len(msgs) \in Nat /\ todo \in Seq(Messages) /\ DOMAIN todo = 1..(Len(msgs) + Len(more))
      /\ Len(more) \in Nat
      /\ \A k \in 1..Len(msgs) : todo[k] = msgs[k] /\ k \in DOMAIN todo
  OBVIOUS
<1>2. CallsAnswered(todo)
  OBVIOUS
<1>3. Good(0)
  BY ViewsOf
<1>4. ASSUME NEW k \in 0..Len(msgs), k # Len(msgs), Good(k)
      PROVE  Good(k + 1)
  <2> DEFINE v == Views(msgs)[k]
             w == Views(msgs)[k + 1]
  <2>1. k \in Nat /\ k + 1 \in 1..Len(msgs) /\ k + 1 \in DOMAIN todo /\ todo[k + 1] = msgs[k + 1]
        /\ (k + 1) - 1 = k
    BY <1>1, <1>4
  <2>2. w = ApplyMessage(v, todo[k + 1])
    BY <2>1, ViewsOf
  <2>3. ViewOK(v) /\ Awaited(v, AnsweredAfter(todo, k))
        /\ \A j \in 1..k : msgs[j].type = "error" => v.late
    BY <1>4
  <2> HIDE DEF v, w, todo
  <2>4. /\ ViewOK(w) /\ Awaited(w, AnsweredAfter(todo, k + 1))
        /\ v.late \/ todo[k + 1].type = "error" => w.late
    BY <1>1, <1>2, <2>1, <2>2, <2>3, ApplyMessageOK
  <2>5. ASSUME NEW j \in 1..(k + 1), msgs[j].type = "error"
        PROVE  w.late
    <3>1. j = k + 1 \/ j \in 1..k
      BY <2>1
    <3> QED BY <3>1, <2>1, <2>3, <2>4, <2>5
  <2> QED BY <2>4, <2>5 DEF w
<1> HIDE DEF Good
<1>5. T = {}
  <2> SUFFICES ASSUME T # {} PROVE FALSE
    OBVIOUS
  <2>1. PICK m \in T : \A n \in T : m <= n
    <3>1. T \in SUBSET Nat
      BY <1>1
    <3> HIDE DEF T
    <3> QED BY <3>1, Least
  <2>2. m # 0 /\ m \in 0..Len(msgs) /\ ~Good(m)
    BY <2>1, <1>3
  <2>3. m - 1 \in 0..Len(msgs) /\ m - 1 \notin T /\ m - 1 # Len(msgs) /\ (m - 1) + 1 = m
    BY <2>1, <2>2, <1>1
  <2>4. Good(m - 1)
    BY <2>3
  <2>5. Good((m - 1) + 1)
    BY <1>4, <2>3, <2>4
  <2> QED BY <2>2, <2>3, <2>5
<1>6. Good(Len(msgs))
  <2>1. Len(msgs) \in 0..Len(msgs)
    BY <1>1
  <2> QED BY <1>5, <2>1
<1>7. ApplyStreamMessages(msgs) = Views(msgs)[Len(msgs)]
  BY DEF ApplyStreamMessages
<1>8. HasError(msgs) => \E j \in 1..Len(msgs) : msgs[j].type = "error"
  BY DEF HasError
<1> QED BY <1>6, <1>7, <1>8 DEF Good

-----------------------------------------------------------------------------
(* The input box, the table, and the streams a line may open. *)

\* The commands that match, put together.
LEMMA Joined ==
    ASSUME NEW S, NEW a \in S, NEW b \in S, NEW c \in S
    PROVE  /\ (<<>> \o <<>>) \o <<>> = <<>>
           /\ (<<a>> \o <<>>) \o <<>> = <<a>>
           /\ (<<>> \o <<b>>) \o <<>> = <<b>>
           /\ (<<>> \o <<>>) \o <<c>> = <<c>>
           /\ (<<a>> \o <<b>>) \o <<c>> = <<a, b, c>>
<1>1. \A s \in Seq(S) : <<>> \o s = s /\ s \o <<>> = s
  OBVIOUS
<1>2. /\ <<>> \in Seq(S) /\ <<a>> \in Seq(S) /\ <<b>> \in Seq(S) /\ <<c>> \in Seq(S)
  OBVIOUS
<1>3. <<a>> \o <<b>> = <<a, b>>
  <2>1. \A s \in Seq(S) : Len(s) = 2 /\ s[1] = a /\ s[2] = b => s = <<a, b>>
    OBVIOUS
  <2>2. LET s == <<a>> \o <<b>> IN s \in Seq(S) /\ Len(s) = 2 /\ s[1] = a /\ s[2] = b
    BY <1>2
  <2> QED BY <2>1, <2>2
<1>4. <<a, b>> \o <<c>> = <<a, b, c>>
  <2>1. \A s \in Seq(S) : Len(s) = 3 /\ s[1] = a /\ s[2] = b /\ s[3] = c => s = <<a, b, c>>
    OBVIOUS
  <2>2. LET s == <<a, b>> \o <<c>> IN
        s \in Seq(S) /\ Len(s) = 3 /\ s[1] = a /\ s[2] = b /\ s[3] = c
    BY <1>2
  <2> QED BY <2>1, <2>2
<1> QED BY <1>1, <1>2, <1>3, <1>4

\* What the input box may hold and the table may show.
LEMMA SuggestionsShown ==
    ASSUME NEW w
    PROVE  SuggestionsForPrefix(w) \in
               {<<>>, <<"/compact">>, <<"/exit">>, <<"/quit">>, KnownSuggestions}
<1>1. /\ (<<>> \o <<>>) \o <<>> = <<>>
      /\ (<<"/compact">> \o <<>>) \o <<>> = <<"/compact">>
      /\ (<<>> \o <<"/exit">>) \o <<>> = <<"/exit">>
      /\ (<<>> \o <<>>) \o <<"/quit">> = <<"/quit">>
      /\ (<<"/compact">> \o <<"/exit">>) \o <<"/quit">> = KnownSuggestions
  <2> DEFINE S == {"/compact", "/exit", "/quit"}
  <2>1. "/compact" \in S /\ "/exit" \in S /\ "/quit" \in S
    OBVIOUS
  <2> HIDE DEF S
  <2> QED BY ONLY <2>1, Joined DEF KnownSuggestions
<1>2. CASE w = "/"
  BY <1>1, <1>2 DEF SuggestionsForPrefix, Begins
<1>3. CASE w \in {"/c", "/compact"}
  BY <1>1, <1>3 DEF SuggestionsForPrefix, Begins
<1>4. CASE w \in {"/e", "/exit"}
  BY <1>1, <1>4 DEF SuggestionsForPrefix, Begins
<1>5. CASE w = "/quit"
  BY <1>1, <1>5 DEF SuggestionsForPrefix, Begins
<1>6. CASE w \notin {"/", "/c", "/compact", "/e", "/exit", "/quit"}
  BY <1>1, <1>6 DEF SuggestionsForPrefix, Begins
<1> QED
  BY <1>2, <1>3, <1>4, <1>5, <1>6

\* Tab with one match puts a command in the input box ...
LEMMA OneMatch ==
    ASSUME NEW w, Len(SuggestionsForPrefix(w)) = 1
    PROVE  SuggestionsForPrefix(w)[1] \in Words
<1> DEFINE s == SuggestionsForPrefix(w)
<1>1. /\ Len(<<>>) = 0 /\ Len(KnownSuggestions) = 3
      /\ <<"/compact">>[1] = "/compact" /\ <<"/exit">>[1] = "/exit" /\ <<"/quit">>[1] = "/quit"
  BY DEF KnownSuggestions
<1>2. s \in {<<>>, <<"/compact">>, <<"/exit">>, <<"/quit">>, KnownSuggestions}
  BY SuggestionsShown
<1> HIDE DEF s
<1>3. s \in {<<"/compact">>, <<"/exit">>, <<"/quit">>}
  BY <1>1, <1>2 DEF s
<1> QED BY <1>1, <1>3 DEF s, Words

\* ... and with several all of them are shown.
LEMMA SeveralMatches ==
    ASSUME NEW w, Len(SuggestionsForPrefix(w)) > 1
    PROVE  SuggestionsForPrefix(w) = KnownSuggestions
<1> DEFINE s == SuggestionsForPrefix(w)
<1>1. /\ Len(<<>>) = 0
      /\ Len(<<"/compact">>) = 1 /\ Len(<<"/exit">>) = 1 /\ Len(<<"/quit">>) = 1
  OBVIOUS
<1>2. s \in {<<>>, <<"/compact">>, <<"/exit">>, <<"/quit">>, KnownSuggestions}
  BY SuggestionsShown
<1> HIDE DEF s
<1>3. s # KnownSuggestions => Len(s) = 0 \/ Len(s) = 1
  BY <1>1, <1>2
<1>4. Len(s) # 0 /\ Len(s) # 1
  <2>1. \A n \in {0, 1} : ~(n > 1)
    OBVIOUS
  <2> QED BY ONLY <2>1, Len(SuggestionsForPrefix(w)) > 1 DEF s
<1>5. s = KnownSuggestions
  BY <1>3, <1>4
<1> QED BY <1>5 DEF s

\* A completed line is a line.
LEMMA CompleteTyped ==
    ASSUME InputOK, NEW command \in Words
    PROVE  Complete(command)
               \in [word : Words, args : {"none", "number", "other"}, newline : BOOLEAN]
BY DEF InputOK, Complete

\* The commands there are.
LEMMA KnownSuggestionsTyped ==
    /\ DOMAIN KnownSuggestions = 1..3 /\ Len(KnownSuggestions) = 3
    /\ KnownSuggestions # <<>>
    /\ \A k \in 1..3 : KnownSuggestions[k] \in Words
BY DEF KnownSuggestions, Words

\* Enter on a selected command submits a line.
LEMMA SubmittedTyped ==
    ASSUME InputOK
    PROVE  Submitted \in [word : Words, args : {"none", "number", "other"}, newline : BOOLEAN]
<1>1. CASE shown = <<>>
  BY <1>1 DEF Submitted, InputOK
<1>2. CASE shown # <<>>
  <2>1. shown[selected] \in Words
    BY <1>2, KnownSuggestionsTyped DEF InputOK
  <2> QED BY <1>2, <2>1, CompleteTyped DEF Submitted
<1> QED BY <1>1, <1>2

\* A call of every stream a line may open is answered.
LEMMA ScriptOK ==
    ASSUME NEW line, NEW script \in StreamsOf(line)
    PROVE  script \in Seq(Messages) /\ CallsAnswered(script)
<1>1. CASE Parse(line) \notin {"usage", "compact"}
  BY <1>1, PromptAssumption, ProviderAssumption DEF StreamsOf
<1>2. ASSUME \A k \in DOMAIN script : script[k].type # "call"
      PROVE  CallsAnswered(script)
  BY <1>2 DEF CallsAnswered
<1>3. \A type \in Types \ {"call"} :
          Message(type) \in Messages /\ Message(type).type # "call"
  BY DEF Message, Messages
<1>4. CASE Parse(line) \in {"usage", "compact"}
  <2> DEFINE e == Message("error")
             s == Message("status")
             u == Message("usage")
             d == Message("delta")
             f == Message("final")
  <2>1. script \in {<<e>>, <<s, d, f>>, <<s, u, d, f>>}
    BY <1>4 DEF StreamsOf, CompactScripts
  <2>2. /\ e \in Messages /\ s \in Messages /\ u \in Messages /\ d \in Messages /\ f \in Messages
        /\ e.type # "call" /\ s.type # "call" /\ u.type # "call" /\ d.type # "call"
        /\ f.type # "call"
    BY <1>3 DEF Types
  <2> HIDE DEF e, s, u, d, f
  <2>3. CASE script = <<e>>
    BY <1>2, <2>2, <2>3
  <2>4. CASE script = <<s, d, f>>
    BY <1>2, <2>2, <2>4
  <2>5. CASE script = <<s, u, d, f>>
    BY <1>2, <2>2, <2>5
  <2> QED BY <2>1, <2>3, <2>4, <2>5
<1> QED BY <1>1, <1>4

-----------------------------------------------------------------------------
(* The steps of the loop. *)

\* The loop starts without a card.
LEMMA InitCards == BubbleInit => CardsInv /\ SpinnerOK /\ InputOK
<1> SUFFICES ASSUME BubbleInit PROVE CardsInv /\ SpinnerOK /\ InputOK
  OBVIOUS
<1>1. ViewOK(Transcript) /\ Awaited(Transcript, {})
  <2> DEFINE b == Block("system", "none", "none", 0, FALSE)
  <2>1. b \in Blocks /\ b.state = "none"
    BY DEF Block, Blocks, BlockKinds, BlockStates
  <2> HIDE DEF b
  <2>2. blocks = <<b>> /\ index = [c \in CallIds |-> 0]
    BY DEF BubbleInit, b
  <2>3. /\ Transcript \in Transcripts /\ Transcript.blocks = blocks
        /\ Transcript.index = index /\ DOMAIN blocks = {1} /\ blocks[1] = b
    BY <2>1, <2>2 DEF Transcript, Transcripts
  <2> QED BY <2>1, <2>2, <2>3 DEF ViewOK, Awaited
<1>2. StreamsOK
  <2>1. <<>> \in Seq(Messages) /\ <<>> \o <<>> = <<>> /\ CallsAnswered(<<>>)
    BY DEF CallsAnswered
  <2>2. /\ batch = [q \in StreamIds |-> <<>>] /\ rest = [q \in StreamIds |-> <<>>]
        /\ done = [q \in StreamIds |-> FALSE]
    BY DEF BubbleInit
  <2>3. batch \in [StreamIds -> Seq(Messages)] /\ rest \in [StreamIds -> Seq(Messages)]
        /\ done \in [StreamIds -> BOOLEAN]
    BY <2>2
  <2>4. \A q \in StreamIds : batch[q] = <<>> /\ rest[q] = <<>> /\ ~done[q]
    BY <2>2
  <2>5. \A q \in StreamIds : CallsAnswered(Todo(q))
    BY <2>1, <2>4 DEF Todo
  <2> QED BY <2>3, <2>4, <2>5 DEF StreamsOK
<1>3. SpinnerOK
  <2>1. blocks = <<Block("system", "none", "none", 0, FALSE)>>
    BY DEF BubbleInit
  <2>2. ~HasPendingToolResults(blocks)
    BY <2>1 DEF HasPendingToolResults, Block
  <2> QED BY <2>2 DEF SpinnerOK, BubbleInit
<1>4. InputOK
  <2>1. input \in [word : Words, args : {"none", "number", "other"}, newline : BOOLEAN]
    BY DEF BubbleInit, Blank, Words
  <2> QED BY <2>1 DEF InputOK, BubbleInit
<1> QED BY <1>1, <1>2, <1>3, <1>4 DEF CardsInv, CardsLive

-----------------------------------------------------------------------------
\* What is left when the first of the messages have been applied.
LEMMA RestAnswered ==
    ASSUME NEW a \in Seq(Messages), NEW b \in Seq(Messages)
    PROVE  /\ AnsweredAfter(a \o b, Len(a)) \subseteq AnsweredAfter(b, 0)
           /\ CallsAnswered(a \o b) => CallsAnswered(b)
<1> DEFINE todo == a \o b
           n == Len(a)
<1>1. /\ n \in Nat /\ Len(b) \in Nat /\ DOMAIN b = 1..Len(b)
      /\ DOMAIN todo = 1..(n + Len(b))
      /\ \A j \in DOMAIN todo : n < j => j - n \in DOMAIN b /\ todo[j] = b[j - n]
      /\ \A i \in DOMAIN b : n + i \in DOMAIN todo /\ todo[n + i] = b[i]
  OBVIOUS
<1> HIDE DEF todo, n
<1>2. AnsweredAfter(todo, n) \subseteq AnsweredAfter(b, 0)
  <2> SUFFICES ASSUME NEW id \in AnsweredAfter(todo, n)
               PROVE  id \in AnsweredAfter(b, 0)
    OBVIOUS
  <2>1. PICK j \in DOMAIN todo : n < j /\ Answers(todo[j], id)
    BY DEF AnsweredAfter
  <2>2. j - n \in DOMAIN b /\ 0 < j - n /\ b[j - n] = todo[j]
    BY <1>1, <2>1
  <2> QED BY <2>1, <2>2 DEF AnsweredAfter
<1>3. ASSUME CallsAnswered(todo)
      PROVE  CallsAnswered(b)
  <2> SUFFICES ASSUME NEW i \in DOMAIN b, b[i].type = "call"
               PROVE  b[i].id \in CallIds /\ \E j \in DOMAIN b : i < j /\ Answers(b[j], b[i].id)
    BY DEF CallsAnswered
  <2>1. n + i \in DOMAIN todo /\ todo[n + i] = b[i]
    BY <1>1
  <2>2. /\ b[i].id \in CallIds
        /\ \E j \in DOMAIN todo : n + i < j /\ Answers(todo[j], b[i].id)
    BY <1>3, <2>1 DEF CallsAnswered
  <2>3. PICK j \in DOMAIN todo : n + i < j /\ Answers(todo[j], b[i].id)
    BY <2>2
  <2>4. j - n \in DOMAIN b /\ i < j - n /\ b[j - n] = todo[j]
    BY <1>1, <2>3
  <2> QED BY <2>2, <2>3, <2>4
<1> QED BY <1>2, <1>3 DEF todo, n

\* A chunk and what is left of the stream are the stream.
LEMMA TwoParts ==
    ASSUME NEW s \in Seq(Messages), NEW n \in 0..Len(s)
    PROVE  SubSeq(s, 1, n) \o SubSeq(s, n + 1, Len(s)) = s
<1>1. /\ Len(s) \in Nat /\ 1 \in 1..Len(s) + 1 /\ n \in 1 - 1..Len(s)
      /\ Len(s) \in n..Len(s)
  OBVIOUS
<1>2. SubSeq(s, 1, n) \o SubSeq(s, n + 1, Len(s)) = SubSeq(s, 1, Len(s))
  BY <1>1, ConcatAdjacentSubSeq
<1>3. SubSeq(s, 1, Len(s)) = s
  OBVIOUS
<1> QED BY <1>2, <1>3

LEMMA EmptyFirst ==
    ASSUME NEW a \in Seq(Messages)
    PROVE  <<>> \o a = a
OBVIOUS

LEMMA AwaitedMore ==
    ASSUME NEW v, NEW ids, NEW more, Awaited(v, ids), ids \subseteq more
    PROVE  Awaited(v, more)
BY DEF Awaited

-----------------------------------------------------------------------------
\* Steps that touch neither the streams' messages nor the transcript.
LEMMA CardsIdle ==
    ASSUME CardsInv, UNCHANGED <<streaming, seq, step, batch, rest, done, blocks, index>>
    PROVE  CardsInv'
<1>1. Transcript' = Transcript /\ \A q : Todo(q)' = Todo(q)
  BY DEF Transcript, Todo
<1>2. StreamsOK'
  BY <1>1 DEF CardsInv, StreamsOK
<1>3. CardsLive'
  BY <1>1 DEF CardsInv, CardsLive
<1> QED BY <1>1, <1>2, <1>3 DEF CardsInv

\* The goroutine of a stream, and its start, move no card: none is being awaited.
LEMMA CardsStarting ==
    ASSUME NEW q \in StreamIds, StreamInv, CardsInv,
           step[q] \in {"starting", "started"}, 
           NEW s \in {"started", "failed", "reading", "over"},
           step' = [step EXCEPT ![q] = s],
           UNCHANGED <<streaming, seq, batch, rest, done, blocks, index>>
    PROVE  CardsInv'
<1>1. Transcript' = Transcript /\ \A p \in StreamIds : Todo(p)' = Todo(p)
  BY DEF Transcript, Todo
<1>2. q = seq /\ streaming /\ step \in [StreamIds -> Steps]
  BY MessageIsActive DEF InFlight, StreamInv, StreamOK
<1>3. StreamsOK'
  BY <1>1, <1>2 DEF CardsInv, StreamsOK
<1>4. Awaited(Transcript, {})
  BY <1>2 DEF CardsInv, CardsLive
<1>5. CardsLive'
  BY <1>1, <1>4 DEF CardsLive
<1> QED BY <1>1, <1>3, <1>5 DEF CardsInv

\* A chunk that is read moves from the channel to the message, and nothing is lost.
LEMMA CardsRead ==
    ASSUME NEW q \in StreamIds, StreamInv, CardsInv, ReadStreamChunk(q)
    PROVE  CardsInv'
<1>1. q = seq /\ streaming /\ step[q] = "reading" /\ step \in [StreamIds -> Steps]
  BY MessageIsActive DEF ReadStreamChunk, InFlight, StreamInv, StreamOK
<1>2. PICK n \in 0..BatchSize :
          /\ n <= Len(rest[q])
          /\ batch' = [batch EXCEPT ![q] = SubSeq(rest[q], 1, n)]
          /\ rest' = [rest EXCEPT ![q] = SubSeq(@, n + 1, Len(@))]
          /\ \/ n > 0 /\ done' = [done EXCEPT ![q] = FALSE]
             \/ n < BatchSize /\ n = Len(rest[q]) /\ done' = [done EXCEPT ![q] = TRUE]
  BY DEF ReadStreamChunk
<1>3. /\ step' = [step EXCEPT ![q] = "posted"]
      /\ UNCHANGED <<streaming, seq, blocks, index>>
  BY DEF ReadStreamChunk, cardVars
<1>4. /\ batch \in [StreamIds -> Seq(Messages)] /\ rest \in [StreamIds -> Seq(Messages)]
      /\ done \in [StreamIds -> BOOLEAN] /\ batch[q] = <<>> /\ rest[q] \in Seq(Messages)
  BY <1>1 DEF CardsInv, StreamsOK
<1>5. n \in Nat /\ Len(rest[q]) \in Nat
  BY <1>2, <1>4, BubbleAssumption
<1> DEFINE a == SubSeq(rest[q], 1, n)
           b == SubSeq(rest[q], n + 1, Len(rest[q]))
<1>6. a \in Seq(Messages) /\ b \in Seq(Messages) /\ (n = Len(rest[q]) => b = <<>>)
  BY <1>2, <1>4, <1>5
<1>7. a \o b = rest[q]
  <2>1. n \in 0..Len(rest[q])
    BY <1>2, <1>5
  <2> QED BY <1>4, <2>1, TwoParts
<1>8. batch' = [batch EXCEPT ![q] = a] /\ rest' = [rest EXCEPT ![q] = b]
  BY <1>2
<1> HIDE DEF a, b
<1>9. Transcript' = Transcript
  BY <1>3 DEF Transcript
<1>10. ASSUME NEW p \in StreamIds PROVE Todo(p)' = Todo(p)
  <2>1. CASE p = q
    <3>1. Todo(p) = rest[q]
      BY <1>4, <2>1, EmptyFirst DEF Todo
    <3>2. Todo(p)' = a \o b
      BY <1>4, <1>8, <2>1 DEF Todo
    <3> QED BY <1>7, <3>1, <3>2
  <2>2. CASE p # q
    BY <1>4, <1>8, <2>2 DEF Todo
  <2> QED BY <2>1, <2>2
<1>11. StreamsOK'
  <2>1. /\ batch' \in [StreamIds -> Seq(Messages)] /\ rest' \in [StreamIds -> Seq(Messages)]
        /\ done' \in [StreamIds -> BOOLEAN]
    BY <1>2, <1>4, <1>6, <1>8
  <2>2. \A p \in StreamIds : CallsAnswered(Todo(p)')
    BY <1>10 DEF CardsInv, StreamsOK
  <2>3. ASSUME NEW p \in StreamIds
        PROVE  /\ step'[p] # "posted" => batch'[p] = <<>>
               /\ step'[p] = "posted" /\ done'[p] => rest'[p] = <<>>
    <3>1. CASE p # q
      <4>1. step'[p] = step[p] /\ batch'[p] = batch[p] /\ rest'[p] = rest[p]
        BY <1>1, <1>3, <1>4, <1>8, <3>1
      <4>2. done'[p] = done[p]
        BY <1>2, <1>4, <3>1
      <4> QED BY <4>1, <4>2 DEF CardsInv, StreamsOK
    <3>2. CASE p = q
      BY <1>1, <1>2, <1>3, <1>4, <1>6, <1>8, <3>2
    <3> QED BY <3>1, <3>2
  <2> QED BY <2>1, <2>2, <2>3 DEF StreamsOK
<1>12. CardsLive'
  <2>1. CASE Awaited(Transcript, {})
    BY <2>1, <1>9 DEF CardsLive
  <2>2. CASE Awaited(Transcript, AnsweredAfter(Todo(q), 0))
    <3>1. Awaited(Transcript', AnsweredAfter(Todo(q)', 0))
      BY <2>2, <1>9, <1>10
    <3>2. seq' = q /\ streaming' /\ step'[q] = "posted"
      BY <1>1, <1>3
    <3> QED BY <3>1, <3>2 DEF CardsLive
  <2> QED BY <1>1, <2>1, <2>2 DEF CardsInv, CardsLive
<1> QED BY <1>9, <1>11, <1>12 DEF CardsInv

-----------------------------------------------------------------------------
(* Enter, a failed start and a chunk. *)

LEMMA OtherBlocks ==
    ASSUME NEW bs
    PROVE  [Transcript EXCEPT !.blocks = bs] = [blocks |-> bs, index |-> index, late |-> FALSE]
<1>1. \A a, b, c : [[blocks |-> a, index |-> b, late |-> c] EXCEPT !.blocks = bs]
                      = [blocks |-> bs, index |-> b, late |-> c]
  OBVIOUS
<1> QED BY <1>1 DEF Transcript

\* A prompt: no card is awaited when it is taken, and the calls of its stream are
\* answered.
LEMMA CardsEnter ==
    ASSUME StreamInv, CardsInv, InputOK, EnterPrompt
    PROVE  CardsInv'
<1> DEFINE n == seq + 1
           b == Block("user", "none", "none", n, FALSE)
<1>1. /\ ~streaming /\ seq < MaxStreams /\ seq' = n
      /\ blocks' = Append(blocks, b)
      /\ step' = [step EXCEPT ![n] = "starting"]
      /\ UNCHANGED <<batch, done, index>>
  BY DEF EnterPrompt, EnterIsTaken
<1>2. PICK script \in StreamsOf(Submitted) : rest' = [rest EXCEPT ![n] = script]
  BY DEF EnterPrompt
<1>3. script \in Seq(Messages) /\ CallsAnswered(script)
  BY ScriptOK
<1>4. seq \in Nat /\ n \in Nat /\ n \in StreamIds /\ n # seq
  BY <1>1, BubbleAssumption DEF StreamInv, StreamOK, StreamIds
<1>5. /\ step \in [StreamIds -> Steps] /\ batch \in [StreamIds -> Seq(Messages)]
      /\ rest \in [StreamIds -> Seq(Messages)] /\ done \in [StreamIds -> BOOLEAN]
  BY DEF StreamInv, StreamOK, CardsInv, StreamsOK
<1>6. b \in Blocks /\ b.state = "none"
  BY <1>4 DEF Block, Blocks, BlockKinds, BlockStates
<1>7. Awaited(Transcript, {})
  BY <1>1 DEF CardsInv, CardsLive
<1>8. Transcript' = [Transcript EXCEPT !.blocks = Append(Transcript.blocks, b)]
  <2>1. Transcript' = [blocks |-> Append(blocks, b), index |-> index, late |-> FALSE]
    BY <1>1 DEF Transcript
  <2>2. Transcript.blocks = blocks
    BY DEF Transcript
  <2> QED BY <2>1, <2>2, OtherBlocks
<1> HIDE DEF n, b
<1>9. ViewOK(Transcript') /\ Awaited(Transcript', {})
  BY <1>6, <1>7, <1>8, PlainBlockOK DEF CardsInv
<1>10. step[n] # "posted" /\ batch[n] = <<>>
  BY <1>1, <1>4 DEF StreamInv, NothingStaleInFlight, CardsInv, StreamsOK
<1>11. StreamsOK'
  <2>1. /\ batch' \in [StreamIds -> Seq(Messages)] /\ rest' \in [StreamIds -> Seq(Messages)]
        /\ done' \in [StreamIds -> BOOLEAN]
    BY <1>1, <1>2, <1>3, <1>5
  <2>2. ASSUME NEW p \in StreamIds
        PROVE  /\ CallsAnswered(Todo(p)')
               /\ step'[p] # "posted" => batch'[p] = <<>>
               /\ step'[p] = "posted" /\ done'[p] => rest'[p] = <<>>
    <3>1. CASE p # n
      <4>1. /\ step'[p] = step[p] /\ batch'[p] = batch[p] /\ rest'[p] = rest[p]
            /\ done'[p] = done[p]
        BY <1>1, <1>2, <1>5, <3>1
      <4>2. Todo(p)' = Todo(p)
        BY <4>1 DEF Todo
      <4> QED BY <4>1, <4>2 DEF CardsInv, StreamsOK
    <3>2. CASE p = n
      <4>1. step'[p] = "starting" /\ batch'[p] = <<>> /\ rest'[p] = script
        BY <1>1, <1>2, <1>4, <1>5, <1>10, <3>2
      <4>2. Todo(p)' = script
        BY <4>1, <1>3, EmptyFirst DEF Todo
      <4> QED BY <1>3, <4>1, <4>2
    <3> QED BY <3>1, <3>2
  <2> QED BY <2>1, <2>2 DEF StreamsOK
<1> QED BY <1>9, <1>11 DEF CardsInv, CardsLive

\* The stream could not be started: it never gave a message.
LEMMA CardsFailed ==
    ASSUME NEW q \in StreamIds, StreamInv, CardsInv, StreamStartFailed(q)
    PROVE  CardsInv'
<1> DEFINE b == Block("error", "none", "none", seq, FALSE)
<1>1. q = seq /\ step[q] = "failed" /\ step \in [StreamIds -> Steps] /\ seq \in Nat
  BY MessageIsActive, BubbleAssumption
     DEF StreamStartFailed, InFlight, StreamInv, StreamOK, StreamIds
<1>2. /\ step' = [step EXCEPT ![q] = "over"] /\ blocks' = Append(blocks, b)
      /\ UNCHANGED <<seq, rest, batch, done, index>>
  BY <1>1 DEF StreamStartFailed
<1>3. b \in Blocks /\ b.state = "none"
  BY <1>1 DEF Block, Blocks, BlockKinds, BlockStates
<1>4. Awaited(Transcript, {})
  BY <1>1 DEF CardsInv, CardsLive
<1>5. Transcript' = [Transcript EXCEPT !.blocks = Append(Transcript.blocks, b)]
  <2>1. Transcript' = [blocks |-> Append(blocks, b), index |-> index, late |-> FALSE]
    BY <1>2 DEF Transcript
  <2>2. Transcript.blocks = blocks
    BY DEF Transcript
  <2> QED BY <2>1, <2>2, OtherBlocks
<1> HIDE DEF b
<1>6. ViewOK(Transcript') /\ Awaited(Transcript', {})
  BY <1>3, <1>4, <1>5, PlainBlockOK DEF CardsInv
<1>7. \A p \in StreamIds : Todo(p)' = Todo(p)
  BY <1>2 DEF Todo
<1>8. StreamsOK'
  BY <1>1, <1>2, <1>7 DEF CardsInv, StreamsOK
<1> QED BY <1>6, <1>8 DEF CardsInv, CardsLive

\* A chunk is shown.
LEMMA CardsChunk ==
    ASSUME NEW q \in StreamIds, StreamInv, CardsInv, StreamChunk(q)
    PROVE  CardsInv'
<1> DEFINE a == batch[q]
           b == rest[q]
           w == ApplyStreamMessages(a)
<1>1. q = seq /\ streaming /\ step[q] = "posted" /\ step \in [StreamIds -> Steps]
      /\ seq \in Nat
  BY MessageIsActive, BubbleAssumption
     DEF StreamChunk, InFlight, StreamInv, StreamOK, StreamIds
<1>2. /\ batch' = [batch EXCEPT ![q] = <<>>] /\ blocks' = w.blocks /\ index' = w.index
      /\ UNCHANGED <<seq, rest, done>>
      /\ step' = [step EXCEPT ![q] = IF done[q] THEN "over"
                                     ELSE IF held' = 0 THEN "stuck" ELSE "reading"]
  BY <1>1 DEF StreamChunk
<1>3. ~(done[q] \/ HasError(a)) => streaming' = streaming
  BY <1>1 DEF StreamChunk
<1>4. /\ batch \in [StreamIds -> Seq(Messages)] /\ rest \in [StreamIds -> Seq(Messages)]
      /\ done \in [StreamIds -> BOOLEAN] /\ a \in Seq(Messages) /\ b \in Seq(Messages)
      /\ CallsAnswered(a \o b) /\ (done[q] => b = <<>>)
  BY <1>1 DEF CardsInv, StreamsOK, Todo
<1>5. Awaited(Transcript, AnsweredAfter(a \o b, 0))
  <2>1. CASE Awaited(Transcript, {})
    BY <2>1, AwaitedMore
  <2>2. CASE Awaited(Transcript, AnsweredAfter(Todo(seq), 0))
    BY <1>1, <2>2 DEF Todo
  <2> QED BY <2>1, <2>2 DEF CardsInv, CardsLive
<1>6. /\ ViewOK(w) /\ Awaited(w, AnsweredAfter(a \o b, Len(a))) /\ (HasError(a) => w.late)
  BY <1>1, <1>4, <1>5, ApplyBatchOK DEF CardsInv
<1>7. Awaited(w, AnsweredAfter(b, 0))
  BY <1>4, <1>6, RestAnswered, AwaitedMore
<1> HIDE DEF a, b, w
<1>8. Transcript' = [blocks |-> w.blocks, index |-> w.index, late |-> FALSE]
  BY <1>2 DEF Transcript
<1>9. ViewOK(Transcript')
  BY <1>6, <1>8 DEF ViewOK, Transcripts
<1>10. \A ids : Awaited(w, ids) => Awaited(Transcript', ids)
  BY <1>8 DEF Awaited
<1>11. ASSUME NEW p \in StreamIds
       PROVE  /\ p = q => Todo(p)' = b /\ batch'[p] = <<>> /\ step'[p] # "posted"
              /\ p # q => /\ Todo(p)' = Todo(p) /\ batch'[p] = batch[p]
                          /\ step'[p] = step[p]
              /\ rest'[p] = rest[p] /\ done'[p] = done[p]
  <2>1. rest'[p] = rest[p] /\ done'[p] = done[p]
    BY <1>2
  <2>2. CASE p = q
    <3>1. batch'[p] = <<>> /\ step'[p] # "posted"
      BY <1>1, <1>2, <1>4, <2>2
    <3>2. Todo(p)' = b
      BY <1>4, <2>1, <2>2, <3>1, EmptyFirst DEF Todo, b
    <3> QED BY <2>1, <2>2, <3>1, <3>2
  <2>3. CASE p # q
    <3>1. batch'[p] = batch[p] /\ step'[p] = step[p]
      BY <1>1, <1>2, <1>4, <2>3
    <3> QED BY <2>1, <2>3, <3>1 DEF Todo
  <2> QED BY <2>2, <2>3
<1>12. StreamsOK'
  <2>1. /\ batch' \in [StreamIds -> Seq(Messages)] /\ rest' \in [StreamIds -> Seq(Messages)]
        /\ done' \in [StreamIds -> BOOLEAN]
    BY <1>2, <1>4
  <2>2. CallsAnswered(b)
    BY <1>4, RestAnswered
  <2>3. ASSUME NEW p \in StreamIds
        PROVE  /\ CallsAnswered(Todo(p)')
               /\ step'[p] # "posted" => batch'[p] = <<>>
               /\ step'[p] = "posted" /\ done'[p] => rest'[p] = <<>>
    BY <1>11, <2>2 DEF CardsInv, StreamsOK
  <2> QED BY <2>1, <2>3 DEF StreamsOK
<1>13. CardsLive'
  <2>1. CASE HasError(a)
    <3>1. Awaited(w, {})
      BY <1>6, <2>1 DEF Awaited
    <3> QED BY <1>10, <3>1 DEF CardsLive
  <2>2. CASE done[q]
    <3>1. AnsweredAfter(b, 0) = {}
      BY <1>4, <2>2 DEF AnsweredAfter
    <3> QED BY <1>7, <1>10, <3>1 DEF CardsLive
  <2>3. CASE ~done[q] /\ ~HasError(a)
    <3>1. streaming' /\ seq' = q /\ step'[q] \in {"stuck", "reading"}
      BY <1>1, <1>2, <1>3, <2>3
    <3>2. Todo(q)' = b
      BY <1>11
    <3>3. Awaited(Transcript', AnsweredAfter(Todo(q)', 0))
      BY <1>7, <1>10, <3>2
    <3> QED BY <3>1, <3>3 DEF CardsLive
  <2> QED BY <2>1, <2>2, <2>3
<1> QED BY <1>9, <1>12, <1>13 DEF CardsInv

\* Every step keeps the cards.
LEMMA CardsStep ==
    StreamInv /\ CardsInv /\ InputOK /\ [BubbleNext]_bubbleVars => CardsInv'
<1> SUFFICES ASSUME StreamInv, CardsInv, InputOK, [BubbleNext]_bubbleVars PROVE CardsInv'
  OBVIOUS
<1> USE DEF streamVars, cardVars
<1>1. CASE Edit \/ Paste \/ MoveCursor \/ CompleteSlashCommand
  BY <1>1, CardsIdle DEF Edit, Paste, MoveCursor, CompleteSlashCommand
<1>2. CASE EnterExit \/ CtrlC
  BY <1>2, CardsIdle DEF EnterExit, CtrlC, Quit
<1>3. CASE EnterPrompt
  BY <1>3, CardsEnter
<1>4. ASSUME NEW q \in StreamIds, Start(q)
      PROVE  CardsInv'
  BY <1>4, CardsStarting DEF Start
<1>5. ASSUME NEW q \in StreamIds, StreamStarted(q)
      PROVE  CardsInv'
  BY <1>5, CardsStarting DEF StreamStarted
<1>6. ASSUME NEW q \in StreamIds, ReadStreamChunk(q) \/ StreamStartFailed(q) \/ StreamChunk(q)
      PROVE  CardsInv'
  BY <1>6, CardsRead, CardsFailed, CardsChunk
<1>7. CASE ToolSpinnerTick \/ Leave
  BY <1>7, CardsIdle DEF ToolSpinnerTick, Leave
<1>8. CASE UNCHANGED bubbleVars
  BY <1>8, CardsIdle DEF bubbleVars
<1> QED
  BY <1>1, <1>2, <1>3, <1>4, <1>5, <1>6, <1>7, <1>8 DEF BubbleNext, Key, Event

-----------------------------------------------------------------------------
\* The spinner is started and stopped as the cards ask for.
LEMMA Synced ==
    ASSUME ticks \in Nat, spinner \in BOOLEAN, spinner => ticks > 0, SyncToolSpinner
    PROVE  SpinnerOK'
<1>1. /\ spinner' = HasPendingToolResults(blocks)'
      /\ ticks' = IF spinner' /\ ~spinner THEN ticks + 1 ELSE ticks
  BY DEF SyncToolSpinner, HasPendingToolResults
<1>2. spinner' \in BOOLEAN
  BY <1>1 DEF HasPendingToolResults
<1>3. ticks' \in Nat /\ (spinner' => ticks' > 0)
  BY <1>1, <1>2
<1> QED BY <1>1, <1>2, <1>3 DEF SpinnerOK

\* The spinner turns as long as a card is pending.
LEMMA SpinnerStep ==
    StreamInv /\ CardsInv /\ SpinnerOK /\ [BubbleNext]_bubbleVars => SpinnerOK'
<1> SUFFICES ASSUME StreamInv, CardsInv, SpinnerOK, [BubbleNext]_bubbleVars PROVE SpinnerOK'
  OBVIOUS
<1> USE DEF spinVars, cardVars
<1>1. UNCHANGED <<blocks, spinner, ticks>> => SpinnerOK'
  BY DEF SpinnerOK
<1>2. CASE Edit \/ Paste \/ MoveCursor \/ CompleteSlashCommand
  BY <1>1, <1>2 DEF Edit, Paste, MoveCursor, CompleteSlashCommand
<1>3. CASE EnterExit \/ CtrlC \/ Leave
  BY <1>1, <1>3 DEF EnterExit, CtrlC, Quit, Leave
<1>4. CASE EnterPrompt
  <2> DEFINE b == Block("user", "none", "none", seq + 1, FALSE)
  <2>1. blocks' = Append(blocks, b) /\ UNCHANGED <<spinner, ticks>>
    BY <1>4 DEF EnterPrompt
  <2>2. b.state = "none"
    BY DEF Block
  <2>3. blocks \in Seq(Blocks)
    BY DEF CardsInv, ViewOK, Transcripts, Transcript
  <2> HIDE DEF b
  <2>4. HasPendingToolResults(blocks') => HasPendingToolResults(blocks)
    BY <2>1, <2>2, <2>3 DEF HasPendingToolResults
  <2> QED BY <2>1, <2>4 DEF SpinnerOK
<1>5. ASSUME NEW q \in StreamIds, Start(q) \/ StreamStarted(q) \/ ReadStreamChunk(q)
      PROVE  SpinnerOK'
  BY <1>1, <1>5 DEF Start, StreamStarted, ReadStreamChunk
<1>6. ASSUME NEW q \in StreamIds, StreamStartFailed(q) \/ StreamChunk(q)
      PROVE  SpinnerOK'
  <2>1. q = seq
    BY <1>6, MessageIsActive DEF StreamStartFailed, StreamChunk, InFlight
  <2>2. SyncToolSpinner
    BY <1>6, <2>1 DEF StreamStartFailed, StreamChunk
  <2> QED BY <2>2, Synced DEF SpinnerOK
<1>7. CASE ToolSpinnerTick
  <2>1. CASE spinner /\ HasPendingToolResults(blocks)
    BY <1>1, <1>7, <2>1 DEF ToolSpinnerTick
  <2>2. CASE ~(spinner /\ HasPendingToolResults(blocks))
    <3>1. /\ spinner' = FALSE /\ ticks > 0 /\ ticks' = ticks - 1 /\ blocks' = blocks
      BY <1>7, <2>2 DEF ToolSpinnerTick
    <3>2. ~HasPendingToolResults(blocks)
      BY <2>2 DEF SpinnerOK
    <3>3. ticks' \in Nat
      BY <3>1 DEF SpinnerOK
    <3> QED BY <3>1, <3>2, <3>3 DEF SpinnerOK
  <2> QED BY <2>1, <2>2
<1>8. CASE UNCHANGED bubbleVars
  BY <1>1, <1>8 DEF bubbleVars
<1> QED
  BY <1>2, <1>3, <1>4, <1>5, <1>6, <1>7, <1>8 DEF BubbleNext, Key, Event

-----------------------------------------------------------------------------
\* The input box and the table of suggestions.
LEMMA InputStep == StreamInv /\ InputOK /\ [BubbleNext]_bubbleVars => InputOK'
<1> SUFFICES ASSUME StreamInv, InputOK, [BubbleNext]_bubbleVars PROVE InputOK'
  OBVIOUS
<1> DEFINE AnyLine == [word : Words, args : {"none", "number", "other"}, newline : BOOLEAN]
<1> USE DEF inputVars
<1>1. ASSUME input' \in AnyLine,
             HideCommandSuggestions \/ UNCHANGED <<shown, selected>>
             \/ (shown' = KnownSuggestions /\ selected' = 1),
             loop' = loop \/ loop' \in {"quitting", "gone"},
             held' \in {0, seq'}
      PROVE  InputOK'
  BY <1>1 DEF InputOK, HideCommandSuggestions
<1>2. input \in AnyLine
  BY DEF InputOK
<1>3. held \in {0, seq}
  BY DEF InputOK
<1>4. CASE Edit \/ Paste
  <2>1. input' \in AnyLine
    BY <1>4, PromptAssumption DEF Edit, Paste
  <2> QED BY <1>1, <1>3, <1>4, <2>1 DEF Edit, Paste
<1>5. CASE MoveCursor
  <2>1. selected' \in 1..3
    BY <1>5, KnownSuggestionsTyped DEF MoveCursor, InputOK
  <2> QED BY <1>5, <2>1 DEF MoveCursor, InputOK
<1>6. CASE CompleteSlashCommand
  <2> DEFINE matches == SuggestionsForPrefix(input.word)
  <2>1. UNCHANGED <<loop, held, seq>>
    BY <1>6 DEF CompleteSlashCommand
  <2>2. CASE HideCommandSuggestions /\ UNCHANGED input
    BY <1>1, <1>2, <1>3, <2>1, <2>2
  <2>3. CASE Len(matches) = 1 /\ input' = Complete(matches[1]) /\ HideCommandSuggestions
    <3>1. matches[1] \in Words
      BY <2>3, OneMatch
    <3>2. input' \in AnyLine
      BY <2>3, <3>1, CompleteTyped
    <3> QED BY <1>1, <1>3, <2>1, <2>3, <3>2
  <2>4. CASE shown # <<>> /\ input' = Complete(shown[selected]) /\ HideCommandSuggestions
    <3>1. shown[selected] \in Words
      BY <2>4, KnownSuggestionsTyped DEF InputOK
    <3>2. input' \in AnyLine
      BY <2>4, <3>1, CompleteTyped
    <3> QED BY <1>1, <1>3, <2>1, <2>4, <3>2
  <2>5. CASE Len(matches) > 1 /\ shown' = matches /\ selected' = 1 /\ UNCHANGED input
    <3>1. matches = KnownSuggestions
      BY <2>5, SeveralMatches
    <3> QED BY <1>1, <1>2, <1>3, <2>1, <2>5, <3>1
  <2> QED BY <1>6, <2>2, <2>3, <2>4, <2>5 DEF CompleteSlashCommand
<1>7. CASE EnterExit \/ CtrlC
  <2>1. /\ loop' = "quitting" /\ held' = 0 /\ input' \in AnyLine
        /\ HideCommandSuggestions \/ UNCHANGED <<shown, selected>>
    BY <1>2, <1>7, SubmittedTyped DEF EnterExit, CtrlC, Quit
  <2> QED BY <1>1, <2>1
<1>8. CASE EnterPrompt
  <2>1. /\ loop' = loop /\ held' = 0 /\ input' = Blank /\ HideCommandSuggestions
    BY <1>8 DEF EnterPrompt
  <2>2. Blank \in AnyLine
    BY DEF Blank, Words
  <2> QED BY <1>1, <2>1, <2>2
<1>9. ASSUME NEW q \in StreamIds, Start(q) \/ ReadStreamChunk(q) \/ Event(q)
      PROVE  InputOK'
  <2>1. UNCHANGED <<loop, input, shown, selected, seq>>
    BY <1>9 DEF Start, ReadStreamChunk, Event, StreamStartFailed, StreamStarted, StreamChunk
  <2>2. held' \in {0, held, seq}
    BY <1>9 DEF Start, ReadStreamChunk, Event, StreamStartFailed, StreamStarted, StreamChunk,
                EndStream
  <2> QED BY <1>1, <1>2, <1>3, <2>1, <2>2
<1>10. CASE ToolSpinnerTick \/ Leave
  BY <1>1, <1>2, <1>3, <1>10 DEF ToolSpinnerTick, Leave
<1>11. CASE UNCHANGED bubbleVars
  BY <1>1, <1>2, <1>3, <1>11 DEF bubbleVars
<1> QED
  BY <1>4, <1>5, <1>6, <1>7, <1>8, <1>9, <1>10, <1>11 DEF BubbleNext, Key

-----------------------------------------------------------------------------
\* The inductive invariant of the loop: the streams are in order, so the batch that is
\* shown is of the active one; each pending card has its answer still to come in it; the
\* spinner goes with the cards; and what is shown can be completed.
BubbleInv == StreamInv /\ CardsInv /\ SpinnerOK /\ InputOK

\* The invariant holds of every behaviour.
THEOREM BubbleInvariant == BubbleSpec => []BubbleInv
<1>1. BubbleInit => BubbleInv
  BY InitStreams, InitCards DEF BubbleInv
<1>2. BubbleInv /\ [BubbleNext]_bubbleVars => BubbleInv'
  BY BubbleStep, CardsStep, SpinnerStep, InputStep DEF BubbleInv
<1> QED BY <1>1, <1>2, PTL DEF BubbleSpec

\* The variables have their types, and the index of a call id is a card of that id.
THEOREM BubbleTyped == BubbleSpec => []BubbleTypeOK
<1>1. ASSUME BubbleInv PROVE BubbleTypeOK
  <2>1. /\ Transcript.blocks = blocks /\ Transcript.index = index
        /\ ViewOK(Transcript) /\ blocks \in Seq(Blocks)
    BY <1>1 DEF BubbleInv, CardsInv, ViewOK, Transcript, Transcripts
  <2>2. \A k \in DOMAIN blocks : blocks[k].kind \in BlockKinds
    <3>1. \A k \in DOMAIN blocks : blocks[k] \in Blocks
      BY <2>1
    <3> QED BY <3>1 DEF Blocks
  <2>3. \A c \in CallIds : index[c] # 0 =>
          /\ index[c] \in DOMAIN blocks
          /\ blocks[index[c]].kind = "tool" /\ blocks[index[c]].id = c
    BY <2>1 DEF ViewOK
  <2>4. \A q \in StreamIds :
          /\ step[q] \in Steps
          /\ batch[q] \in Seq(Messages) /\ rest[q] \in Seq(Messages)
          /\ done[q] \in BOOLEAN /\ cancelled[q] \in BOOLEAN
    BY <1>1 DEF BubbleInv, CardsInv, StreamsOK, StreamInv, StreamOK
  <2>5. InputOK /\ SpinnerOK /\ streaming \in BOOLEAN /\ seq \in 0..MaxStreams
    BY <1>1 DEF BubbleInv, StreamInv, StreamOK
  <2> QED
    BY <2>2, <2>3, <2>4, <2>5 DEF BubbleTypeOK, InputOK, SpinnerOK, Steps
<1> QED BY <1>1, BubbleInvariant, PTL

\* A card that says its tool is running is of a stream under way (or follows an Error in its
\* batch), and its spinner turns with a timer on its way: no card of a stream that has
\* ended is left running (stream.go 83-91, 200-214, 252-263).
THEOREM CardsAreLive == BubbleSpec => []PendingCardsAreLive
<1>1. ASSUME BubbleInv PROVE PendingCardsAreLive
  <2>1. Awaited(Transcript, {}) \/ streaming
    BY <1>1 DEF BubbleInv, CardsInv, CardsLive
  <2>2. \A k \in DOMAIN blocks : blocks[k].state = "pending" => streaming \/ blocks[k].late
    BY <2>1 DEF Awaited, Transcript
  <2> QED BY <1>1, <2>2 DEF BubbleInv, SpinnerOK, PendingCardsAreLive
<1> QED BY <1>1, BubbleInvariant, PTL
===============================================================================
