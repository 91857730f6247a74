------------------------------- MODULE BubbleTea -------------------------------
(***************************************************************************)
(* One interactive session of the Bubble Tea front end (tui/bubbletea),    *)
(* local or of an SSH client.  Everything happens in one event loop,       *)
(* Update, which handles keys and the messages that commands - goroutines  *)
(* it has asked for - send back in any order: a stream was started, could  *)
(* not be started, or gave a batch of messages; the tool spinner's timer   *)
(* went off; the program was told to quit.                                 *)
(*                                                                         *)
(* Stream q is the q-th the user asked for; streamSeq and activeSeq are    *)
(* only changed together and are one variable here, and so are streamCh    *)
(* and streamCancel.  Text is left out of the blocks, and the layout.      *)
(***************************************************************************)
EXTENDS PromptStreams

CONSTANTS
    MaxStreams,     \* bound: prompts of the session
    BatchSize       \* streamReadMaxMsgs

ASSUME BubbleAssumption == MaxStreams \in Nat /\ BatchSize \in Nat \ {0}

StreamIds == 1..MaxStreams

VARIABLES
    loop,       \* the program: "running", "quitting", "gone"
    input,      \* the line in the input box
    shown,      \* the suggestions in the table, <<>> when it is hidden
    selected,   \* the row of the table under the cursor
    streaming,  \* is a stream under way?
    held,       \* the stream whose channel and cancel function the model has, or 0
    seq,        \* number of the active stream: the last one asked for
    step,       \* stream -> its goroutine or message: "none", "starting",
                \* "started", "failed", "reading", "posted", "stuck", "over"
    rest,       \* stream -> messages its channel still has to give
    batch,      \* stream -> messages of the chunk on its way
    done,       \* stream -> does that chunk say that the channel is closed?
    cancelled,  \* stream -> has its context been cancelled?
    blocks,     \* the transcript
    index,      \* toolBlockIndex: call id -> block, 0 if none
    spinner,    \* toolSpinnerActive
    ticks       \* spinner timers on their way

inputVars  == <<input, shown, selected>>
streamVars == <<step, rest, batch, done, cancelled>>
cardVars   == <<blocks, index>>
spinVars   == <<spinner, ticks>>
bubbleVars == <<loop, inputVars, streaming, held, seq, streamVars, cardVars, spinVars>>

\* A block, the turn it was appended in and, for the properties, whether it
\* followed an Error in its batch.
Block(kind, id, state, turn, late) ==
    [kind |-> kind, id |-> id, state |-> state, turn |-> turn, late |-> late]

\* The transcript starts with the welcome text; the list of tools is part of it here.
BubbleInit ==
    /\ loop = "running"
    /\ input = Blank /\ shown = <<>> /\ selected = 1
    /\ streaming = FALSE /\ held = 0 /\ seq = 0
    /\ step = [q \in StreamIds |-> "none"]
    /\ rest = [q \in StreamIds |-> <<>>]
    /\ batch = [q \in StreamIds |-> <<>>]
    /\ done = [q \in StreamIds |-> FALSE]
    /\ cancelled = [q \in StreamIds |-> FALSE]
    /\ blocks = <<Block("system", "none", "none", 0, FALSE)>>
    /\ index = [c \in CallIds |-> 0]
    /\ spinner = FALSE /\ ticks = 0

Looping == loop # "gone"

\* cancelStreamIfAny, for a model that holds stream q or (0) none.
Cancel(q) == cancelled' = [p \in StreamIds |-> cancelled[p] \/ p = q]

-----------------------------------------------------------------------------
(* The transcript.  v is [blocks, index, late] in the middle of a batch.    *)

AppendBlock(v, kind) ==
    [v EXCEPT !.blocks = Append(@, Block(kind, "none", "none", seq, v.late))]

\* appendToBlock: text goes on in the last block if that is of its kind.
AppendToBlock(v, kind) ==
    IF v.blocks # <<>> /\ Last(v.blocks).kind = kind THEN v ELSE AppendBlock(v, kind)

\* The card of a call, if it has one.
CardOf(v, id) == IF id \in CallIds THEN v.index[id] ELSE 0

\* Mutant of NewCard: the index is taken after the block is appended.
NewCardOffByOne(v, id, state) ==
    [v EXCEPT !.blocks = Append(@, Block("tool", id, state, seq, v.late)),
              !.index = [c \in CallIds |-> IF c = id THEN Len(v.blocks) ELSE @[c]]]

NewCard(v, id, state) ==
    [v EXCEPT !.blocks = Append(@, Block("tool", id, state, seq, v.late)),
              !.index = [c \in CallIds |-> IF c = id THEN Len(v.blocks) + 1 ELSE @[c]]]

\* A call of a known id adds its arguments to that card, whose state it keeps.
AppendToolCall(v, id) ==
    IF CardOf(v, id) # 0 THEN v ELSE NewCard(v, id, "pending")

AppendToolResult(v, id) ==
    IF CardOf(v, id) # 0
    THEN [v EXCEPT !.blocks[CardOf(v, id)].state = "done"]
    ELSE NewCard(v, id, "done")

\* Mutant of MarkPendingToolsAsError: the cards are left as they are.
MarkNothing(v) == v

MarkPendingToolsAsError(v) ==
    [v EXCEPT !.blocks = [k \in DOMAIN @ |->
        IF @[k].state = "pending" THEN [@[k] EXCEPT !.state = "error"] ELSE @[k]]]

ApplyError(v) ==
    [AppendBlock(MarkPendingToolsAsError(v), "error") EXCEPT !.late = TRUE]

ApplyMessage(v, msg) ==
    CASE msg.type = "delta" -> AppendToBlock(v, "assistant")
      [] msg.type = "reasoning" -> AppendToBlock(v, "reasoning")
      [] msg.type = "call" -> AppendToolCall(v, msg.id)
      [] msg.type = "result" -> AppendToolResult(v, msg.id)
      [] msg.type = "status" -> AppendBlock(v, "system")
      [] msg.type = "error" -> ApplyError(v)
      [] OTHER -> v

\* The transcript before the first message of a batch and after each of them.
Views(msgs) ==
    LET view[k \in 0..Len(msgs)] ==
            IF k = 0 THEN [blocks |-> blocks, index |-> index, late |-> FALSE]
            ELSE ApplyMessage(view[k - 1], msgs[k])
    IN  view

\* applyStreamMessages: an Error does not stop it.
ApplyStreamMessages(msgs) == Views(msgs)[Len(msgs)]

HasError(msgs) == \E k \in DOMAIN msgs : msgs[k].type = "error"

HasPendingToolResults(bs) == \E k \in DOMAIN bs : bs[k].state = "pending"

\* syncToolSpinner: a new timer whenever the spinner is started again.
SyncToolSpinner ==
    /\ spinner' = HasPendingToolResults(blocks')
    /\ ticks' = IF spinner' /\ ~spinner THEN ticks + 1 ELSE ticks

-----------------------------------------------------------------------------
(* Keys.                                                                    *)

HideCommandSuggestions == shown' = <<>> /\ selected' = 1

\* The textarea's keys, a soft newline among them: another line, no suggestions.
Edit ==
    /\ Looping
    /\ input' \in Lines \ {input}
    /\ HideCommandSuggestions
    /\ UNCHANGED <<loop, streaming, held, seq, streamVars, cardVars, spinVars>>

\* The clipboard's text is no key when it arrives: the suggestions stay.
Paste ==
    /\ Looping
    /\ input' \in Lines \ {input}
    /\ UNCHANGED <<loop, shown, selected, streaming, held, seq, streamVars, cardVars,
                   spinVars>>

\* Up and Down belong to the table while it is shown.
MoveCursor ==
    /\ Looping
    /\ shown # <<>>
    /\ selected' \in {selected - 1, selected + 1} \cap DOMAIN shown
    /\ UNCHANGED <<loop, input, shown, streaming, held, seq, streamVars, cardVars,
                   spinVars>>

Complete(command) ==
    [input EXCEPT !.word = command,
                  !.args = IF IsSlashInput(input) THEN @ ELSE "none",
                  !.newline = FALSE]

\* Tab: the only match, or the selected one of those already shown, replaces the
\* word; several are shown.  All tables have the same prefix, "/".
CompleteSlashCommand ==
    LET matches == SuggestionsForPrefix(input.word) IN
    /\ Looping
    /\ \/ /\ ~IsSlashInput(input) \/ matches = <<>>
          /\ HideCommandSuggestions
          /\ UNCHANGED input
       \/ /\ IsSlashInput(input)
          /\ Len(matches) = 1
          /\ input' = Complete(matches[1])
          /\ HideCommandSuggestions
       \/ /\ IsSlashInput(input)
          /\ Len(matches) > 1
          /\ IF shown # <<>>
             THEN /\ input' = Complete(shown[selected])
                  /\ HideCommandSuggestions
             ELSE /\ shown' = matches
                  /\ selected' = 1
                  /\ UNCHANGED input
    /\ UNCHANGED <<loop, streaming, held, seq, streamVars, cardVars, spinVars>>

\* What Enter takes for the prompt: suggestions shown are applied first.
Submitted == IF shown # <<>> THEN Complete(shown[selected]) ELSE input

\* Mutant of EnterIsTaken: Enter works during a stream as well.
EnterAlways == Looping

EnterIsTaken == Looping /\ ~streaming

\* Enter on /exit, or Ctrl-C at any time: the model's stream is cancelled, and
\* the quit message is on its way to the loop.
Quit ==
    /\ loop' = "quitting"
    /\ Cancel(held)
    /\ held' = 0
    /\ UNCHANGED <<streaming, seq, step, rest, batch, done, cardVars, spinVars>>

EnterExit ==
    /\ EnterIsTaken
    /\ IsExit(Submitted)
    /\ input' = Submitted
    /\ HideCommandSuggestions
    /\ Quit

CtrlC ==
    /\ Looping
    /\ UNCHANGED inputVars
    /\ Quit

\* Enter on anything else: the prompt's block, and a stream is asked for.
EnterPrompt ==
    /\ EnterIsTaken
    /\ seq < MaxStreams
    /\ ~IsBlankLine(Submitted)
    /\ ~IsExit(Submitted)
    /\ input' = Blank
    /\ HideCommandSuggestions
    /\ Cancel(held)
    /\ held' = 0
    /\ seq' = seq + 1
    /\ blocks' = Append(blocks, Block("user", "none", "none", seq + 1, FALSE))
    /\ streaming' = TRUE
    /\ step' = [step EXCEPT ![seq + 1] = "starting"]
    /\ \E script \in StreamsOf(Submitted) : rest' = [rest EXCEPT ![seq + 1] = script]
    /\ UNCHANGED <<loop, batch, done, index, spinVars>>

-----------------------------------------------------------------------------
(* The goroutines of a stream.                                              *)

\* startStream: StartStream gave a channel, or nothing.
Start(q) ==
    /\ step[q] = "starting"
    /\ \/ /\ step' = [step EXCEPT ![q] = "started"]
          /\ UNCHANGED cancelled
       \/ /\ step' = [step EXCEPT ![q] = "failed"]
          /\ Cancel(q)
    /\ UNCHANGED <<loop, inputVars, streaming, held, seq, rest, batch, done, cardVars,
                   spinVars>>

\* readStreamChunk: at least one message, up to a full batch or the end of the
\* 25 milliseconds, unless the channel is closed.
ReadStreamChunk(q) ==
    /\ step[q] = "reading"
    /\ \E n \in 0..BatchSize :
          /\ n <= Len(rest[q])
          /\ batch' = [batch EXCEPT ![q] = SubSeq(rest[q], 1, n)]
          /\ rest' = [rest EXCEPT ![q] = SubSeq(@, n + 1, Len(@))]
          /\ \/ n > 0 /\ done' = [done EXCEPT ![q] = FALSE]
             \/ n < BatchSize /\ n = Len(rest[q]) /\ done' = [done EXCEPT ![q] = TRUE]
    /\ step' = [step EXCEPT ![q] = "posted"]
    /\ UNCHANGED <<loop, inputVars, streaming, held, seq, cancelled, cardVars, spinVars>>

-----------------------------------------------------------------------------
(* Their messages in Update.  Each is given up if its number is not the     *)
(* active stream's.                                                         *)

\* Mutant of StreamStartFailed: the prompt is not given back.
StreamStartFailedSilently(q) ==
    /\ Looping
    /\ step[q] = "failed"
    /\ Cancel(q)
    /\ step' = [step EXCEPT ![q] = "over"]
    /\ blocks' = IF q # seq THEN blocks
                 ELSE Append(blocks, Block("error", "none", "none", seq, FALSE))
    /\ IF q = seq THEN SyncToolSpinner ELSE UNCHANGED spinVars
    /\ UNCHANGED <<loop, inputVars, streaming, held, seq, rest, batch, done, index>>

StreamStartFailed(q) ==
    /\ Looping
    /\ step[q] = "failed"
    /\ Cancel(q)
    /\ step' = [step EXCEPT ![q] = "over"]
    /\ streaming' = (streaming /\ q # seq)
    /\ blocks' = IF q # seq THEN blocks
                 ELSE Append(blocks, Block("error", "none", "none", seq, FALSE))
    /\ IF q = seq THEN SyncToolSpinner ELSE UNCHANGED spinVars
    /\ UNCHANGED <<loop, inputVars, held, seq, rest, batch, done, index>>

StreamStarted(q) ==
    /\ Looping
    /\ step[q] = "started"
    /\ IF q = seq
       THEN /\ held' = q
            /\ step' = [step EXCEPT ![q] = "reading"]
            /\ UNCHANGED cancelled
       ELSE /\ Cancel(q)
            /\ step' = [step EXCEPT ![q] = "over"]
            /\ UNCHANGED held
    /\ UNCHANGED <<loop, inputVars, streaming, seq, rest, batch, done, cardVars, spinVars>>

\* Mutant of EndStream: the stream is forgotten without being cancelled.
EndStreamUncancelled ==
    /\ streaming' = FALSE
    /\ held' = 0
    /\ UNCHANGED cancelled

\* The channel was closed or gave an Error: the stream is cancelled.
EndStream ==
    /\ streaming' = FALSE
    /\ Cancel(held)
    /\ held' = 0

\* A chunk.  The next one is read from streamCh, which an Error or Ctrl-C has
\* made nil: that goroutine never returns.
StreamChunk(q) ==
    LET applied == ApplyStreamMessages(batch[q])
        ended == done[q] \/ HasError(batch[q]) IN
    /\ Looping
    /\ step[q] = "posted"
    /\ batch' = [batch EXCEPT ![q] = <<>>]
    /\ IF q = seq
       THEN /\ blocks' = applied.blocks
            /\ index' = applied.index
            /\ IF ended THEN EndStream ELSE UNCHANGED <<streaming, held, cancelled>>
            /\ SyncToolSpinner
            /\ step' = [step EXCEPT ![q] = IF done[q] THEN "over"
                                           ELSE IF held' = 0 THEN "stuck" ELSE "reading"]
       ELSE /\ step' = [step EXCEPT ![q] = "over"]
            /\ UNCHANGED <<streaming, held, cancelled, cardVars, spinVars>>
    /\ UNCHANGED <<loop, inputVars, seq, rest, done>>

\* The spinner's timer: set again as long as a tool is pending.
ToolSpinnerTick ==
    /\ Looping
    /\ ticks > 0
    /\ IF spinner /\ HasPendingToolResults(blocks) THEN UNCHANGED spinVars
       ELSE spinner' = FALSE /\ ticks' = ticks - 1
    /\ UNCHANGED <<loop, inputVars, streaming, held, seq, streamVars, cardVars>>

\* The quit message arrives, or the SSH client is gone: the program ends, and
\* with it the context of every stream.
Leave ==
    /\ Looping
    /\ loop' = "gone"
    /\ cancelled' = [q \in StreamIds |-> cancelled[q] \/ step[q] # "none"]
    /\ UNCHANGED <<inputVars, streaming, held, seq, step, rest, batch, done, cardVars,
                   spinVars>>

-----------------------------------------------------------------------------
Key == Edit \/ Paste \/ MoveCursor \/ CompleteSlashCommand \/ EnterExit \/ CtrlC
       \/ EnterPrompt
Event(q) == StreamStartFailed(q) \/ StreamStarted(q) \/ StreamChunk(q)

BubbleNext ==
    \/ Key
    \/ \E q \in StreamIds : Start(q) \/ ReadStreamChunk(q) \/ Event(q)
    \/ ToolSpinnerTick
    \/ Leave

\* The goroutines run, providers end their streams and the loop handles what it
\* is sent.  Nobody has to press a key or leave.
BubbleFairness ==
    /\ \A q \in StreamIds : /\ WF_bubbleVars(Start(q))
                            /\ WF_bubbleVars(ReadStreamChunk(q))
                            /\ WF_bubbleVars(Event(q))
    /\ WF_bubbleVars(loop = "quitting" /\ Leave)

-----------------------------------------------------------------------------
(* Properties.                                                              *)

BlockKinds == {"user", "assistant", "reasoning", "tool", "system", "error"}

\* The variables have their types; the index of a call id is a card of that id
\* (toolBlockIndex is read without a check of the id).
BubbleTypeOK ==
    /\ loop \in {"running", "quitting", "gone"}
    /\ input \in [word : Words, args : {"none", "number", "other"}, newline : BOOLEAN]
    /\ shown \in {<<>>, KnownSuggestions}
    /\ selected \in 1..3
    /\ streaming \in BOOLEAN /\ spinner \in BOOLEAN
    /\ seq \in 0..MaxStreams /\ held \in {0, seq}
    /\ \A q \in StreamIds :
          /\ step[q] \in {"none", "starting", "started", "failed", "reading",
                          "posted", "stuck", "over"}
          /\ batch[q] \in Seq(Messages) /\ rest[q] \in Seq(Messages)
          /\ done[q] \in BOOLEAN /\ cancelled[q] \in BOOLEAN
    /\ \A k \in DOMAIN blocks : blocks[k].kind \in BlockKinds
    /\ \A c \in CallIds : index[c] # 0 =>
          /\ index[c] \in DOMAIN blocks
          /\ blocks[index[c]].kind = "tool" /\ blocks[index[c]].id = c
    /\ ticks \in Nat

\* Whatever is on its way to Update was sent for the active stream, and only
\* while one is under way: keys, started, failed and chunk messages of one stream
\* never meet those of the next (update.go 110-146 discards them if they did).
NothingStaleInFlight ==
    \A q \in StreamIds :
        step[q] \in {"starting", "started", "failed", "reading", "posted"}
            => q = seq /\ streaming

\* A stream the loop was given is cancelled, or it is the one the loop holds, which
\* is the active one: no stream is left behind with its provider still at work,
\* whatever ended it (update.go 110-163, stream.go 271-277).
StreamsAreReleased ==
    \A q \in StreamIds :
        step[q] \in {"reading", "posted", "stuck", "over"} /\ ~cancelled[q]
            => held = q /\ q = seq /\ streaming

\* A card that says its tool is running belongs to a stream under way, and its
\* spinner turns; the one exception is a call that follows an Error in the same
\* batch (stream.go 83-91, 200-214, 252-263).
PendingCardsAreLive ==
    /\ \A k \in DOMAIN blocks :
          blocks[k].state = "pending" => streaming \/ blocks[k].late
    /\ HasPendingToolResults(blocks) => spinner
    /\ spinner => ticks > 0

\* The prompt comes back: a stream under way ends, or the program does.
PromptReturns == streaming ~> (~streaming \/ loop = "gone")

BubbleSpec == BubbleInit /\ [][BubbleNext]_bubbleVars /\ BubbleFairness
=============================================================================
