# Benoit, verified

TLA+ models, TLC runs and TLAPS proofs for Benoit, a Go program that lets
people chat with an LLM from a terminal, over SSH or through Telegram, with
tools, saved sessions and `/compact`.

The modules describe the program's *control*: which goroutine does what, in
which order, what it may see of the others, and what it does when a call fails.
Texts, prompts, token counts and layouts are abstracted to what the properties
tell apart.

## 1. The system

```
 terminal (tui) ─┐                                        ┌─ OpenAI ──── Responses API
 SSH clients ────┼─ stream starter ─ router ─ stack(s) ───┤
 Telegram loop ──┘   (/compact)       │                   └─ OpenRouter ─ Chat Completions
                                      │        │                │
                       one stack per session   │             tool runner ─ tools (files, ...)
                                      │        │
     provider → session store → trace → compression barrier → reader
                       └──────┬──────┘
                       SQLite (session rows, trace rows)
```

| Component | Source | State | Operations | Interacts with |
|---|---|---|---|---|
| Router and provider factory | `session/manager.go`, `seams.go`, `sessionid.go` | map session → stack, mutex | `Chat`, `PerformCompression`, `ListModels`, `NotifyCompressionStatusSent`, `Close` | called by every front end; builds provider stacks; reads session rows |
| Session-store middleware | `middleware/persistence.go` | none of its own | `Chat` (forward, then capture), `PerformCompression` (then sync) | exports the provider's cursor, writes session rows |
| Trace middleware | `middleware/persist_trace.go` | channel of capacity 4 | `Chat` (store input, forward, then record) | trace rows |
| Compression barrier | `middleware/compression_barrier.go` | one flag per session | drop text while closed, reopen on status or notification | shared by all streams of a session |
| OpenAI provider | `providers/openai.go` | id of the last response | `Chat` (tool loop), `PerformCompression`, export, import | Responses API keeps the conversation |
| OpenRouter provider | `providers/openrouter.go` | whole conversation | the same | stateless API |
| Tool runner | `providers/tool_runner.go` | results of one batch | parallel `Run` | tools; the stream of its provider |
| Persistence | `persistence/*.go` | SQLite tables, one connection | upsert, get, list, delete; insert trace row | middleware, router, `list_sessions` |
| Stream consumer, `/compact` | `tui/stream_consumer.go`, `providers/base.go`, `compression/basic.go` | reply under construction | `streamPrompt`, `startCommandStream`, `Compress` | every front end |
| Bubble Tea front end | `tui/bubbletea/*.go`, `tui/ssh.go` | event-loop model: blocks, pending tool cards, active stream | `Update` | stream starter |
| Telegram loop and channel | `tui/telegram.go`, `channels/telegram.go` | update offset, subscribers, queue of 64 | `Listen`, `ReceiveMessages`, `SendMessage`, `RunTelegram` | Bot API, stream consumer |
| File tools | `tools/files/*.go` | the sandboxed tree | `apply_patch`, `write`, `read`, `glob`, `grep` | run in parallel by the tool runner |
| Wiring | `main.go` | credentials, what is open | `run`, `runWithConfig`, `Build`, `closeProvider` | reads flags and environment, builds and closes everything, fixes the order of the middleware |
| Slash commands | `tui/commands/commands.go` | – | `Parse`, `Suggestions` | stream starter, Bubble Tea's input box |
| Other tools, rendering, configuration | `tools/*.go`, `tui/simple*`, `tui/utils`, `utils/*` | – | – | – |

### What is hard here

* **Concurrency.** SSH clients started under one `-session-id` share a stack; a
  stack is built outside the factory's mutex; each `Chat` is a chain of up to
  four goroutines; a `/compact` changes the state that running chats use; tool
  calls of one response run in parallel and share a channel.
* **Partial failure.** Any storage write, API call or tool call may fail in the
  middle of a stream whose earlier half has taken effect.
* **Ordering.** Messages are forwarded before they are captured; cursors are
  exported before they are written; updates are acknowledged before they are
  handled.
* **Restart.** Session rows and the Telegram offset outlive the process, its
  conversation and its queues do not.
* **Abandoned streams.** No send in the chain gives up when the request's
  context ends; a reader that leaves stops everything behind it.

PROJECT.json lists each hazard with its line and the properties that cover it.

Of no interest to a model: the terminal rendering, the wording of prompts, the
HTTP clients, and the Maton, clock and hosted tools, which are single requests
without state of ours.

What makes each part correct:

| Component | Correct when |
|---|---|
| Router and factory | a session has one stack; every stack is closed once; a stack never starts behind its row |
| Middleware chain | nothing but text is held back; failures are reported; the trace is complete; streams end and the barrier reopens |
| Providers | no saved turn is forgotten; every request extends the conversation; a compaction is all or nothing; what is saved can be resumed |
| Tool runner | each call has its own result; an emitted result belongs to an emitted call |
| Bubble Tea model | only the active stream changes the transcript; a failed tool card stays failed |
| Telegram loop | replies go to their sender in order; an update is handled at most once and not dropped while the process lives |
| File tools | no content is lost by a patch; a reported success did what it says |
| Wiring | a command runs with checked credentials only; what was opened is closed |

## 2. The modules

```
 SessionDirectory <= refines = SessionRegistry <- SessionRegistry_proofs
                                     ^------------ MCSessionRegistry
 StreamPipeline     <- StreamPipeline_proofs      MCStreamPipeline     (3 configurations)
 OpenRouterHistory  <- OpenRouterHistory_proofs   MCOpenRouterHistory  (3 configurations)
 OpenAIChain        <- OpenAIChain_proofs         MCOpenAIChain        (2 configurations)

 FileTree <- FileTools <- ToolRunner              MCToolRunner
             FileTools <- FileTools_proofs <- ToolRunner_proofs
 PromptStreams <- BubbleTea <- BubbleTea_proofs             MCBubbleTea
 Mailbox <= refines = TelegramListener <- TelegramListener_proofs   MCTelegramListener
 Startup <- TelegramListener
```

`A <- B`: B extends A. An MC module extends the module on its line.

**SessionDirectory** is the abstract specification of the router: a caller is
answered, in one indivisible step, with the session's provider, or refused.

**SessionRegistry** is `providerFactory` with the router's methods as callers.
`entries` is the map, `pc[c]` the point a goroutine has reached in
`providerForSession` and `createProvider`. The two critical sections are the
actions `LookupHit`/`LookupMiss` and `Register`/`LoseRace`; in between, without
the mutex, come `Hydrate` (the row is read), `Build` and the failures. The
holder of a provider then takes turns, exports and saves. `Close` swaps the map
and `CloseEntry` runs the close functions outside the mutex. A cursor is the
number of turns it covers. The context's session id and the explicit one both
enter through `ResolveSessionID`, with the blank name as the default session.

**StreamPipeline** has one action per channel operation or storage call of each
of the chain's goroutines: provider, session store, trace, barrier, reader, and
the `/compact` goroutine. An unbuffered channel is a rendezvous of two program
counters (the sender at `send`, the receiver at `recv`), the trace stage's
channel a sequence of bounded length. `Script` gives the message types of a
turn; the provider may fail at any point of it. A *patient* reader is
`streamPrompt`, a *hasty* one Bubble Tea's model, which forgets its channel once
a batch with an Error is applied; any reader may disconnect.

**OpenRouterHistory** and **OpenAIChain** are the conversations of the two
providers. In the first `history` is the message list that each request carries;
in the second `responses` is the server's list and `previousResponseID` the one
id the provider keeps. Both have the chat loop with its tool rounds, failures
after each step, `PerformCompression` as two chats of its own with its rollback,
the save after a final or a compaction in its two halves (export, then write),
and `Restart`. What a message says is abstracted to the turn it belongs to, and
a summary to the turns it is a summary of. The APIs' acceptance rules
(`WellFormed`, `Accepted`) are external: tool calls are followed by their
results before anything else is said.

**Startup** is the life of the process: `run` and `runWithConfig` as one step
each for configuration, env file, credentials, validation, tools, database,
stores and router, with an early return from any of them, the command, and the
way out (`CloseFactory`, `CloseProvider`). A process may be killed at any step
and started again with another configuration. An environment value is the set of
its comma-separated elements.

**TelegramListener** extends it with what `channel_listener` does. The polling
goroutine (`PollSend`, `PollAnswer`, `Broadcast`), the subscriber's queue, the
main loop with its filters (`DropMessage`, `TakeMessage`), the stream of the answer,
the typing goroutine, which may be in the middle of a request when it is stopped,
and the reply in pieces interleave freely. The Bot API is external: it keeps the
updates from `acked` on and forgets one as soon as a poll asks for a later one.
**Mailbox** is the abstract specification: in one life the messages that deserve an
answer are served one at a time, in order, each once, none skipped; a new life
starts at the first message that was not acknowledged.

**PromptStreams** is what a line that was entered starts: suggestions, splitting and
parsing of a slash command, and the messages of the stream. **BubbleTea** is the
event loop on top: `Update`'s cases are actions on the model; the goroutines it
asks for (start a stream, read a batch, spinner timers) finish in any order, and
their messages wait for the loop. `streamSeq` and `activeSeq` only change together
and are the one variable `seq`.

**FileTree** has the file system's data: paths as they are written, split at their
slashes, and the places they stand for, nodes with inodes, the text of a patch. The
sandbox's root is a place like the others: a patch may delete it once it is empty, and
what is written next makes it again. **FileTools** runs
`apply_patch`, `write`, `read`, `glob` and `grep` on it, one system call per
action, without a lock, and says in `Alone` what a call does that nobody
disturbs. **ToolRunner** is the round around them: the calls are looked up,
announced, run in a goroutine each, and their outputs collected by call id.

`PROJECT.json` maps each definition to the lines it stands for.

Definitions whose comment starts with *Mutant of* are no part of any
specification: each is the definition after it with a plausible bug, kept to
show which property the bug would break.

## 3. The runs

| Run | Instance | Shows |
|---|---|---|
| `registry` | 3 callers, 2 sessions, 3 stacks, 1 turn, 1 Close | `Agreement`, `SessionIsolation`, `StackAccounting`, `FreshHydration`, and that the factory implements the directory |
| `pipeline_barrier` | 1 stream of delta, tool, final; 1 compaction | only text is held back and at most one message slips past a closed barrier (`NothingElseDropped`, `BarrierLeaksAtMostOne`); `TraceIsComplete`; what ended is in the row, next to a compaction that writes it too (`ClosedMeansSaved`); `BarrierReopens` |
| `pipeline_storage` | 1 stream of final, usage; 2 failing writes; both readers | `FailuresSurface`, `StreamEnds` |
| `pipeline_bubbletea` | 1 failing write, hasty reader | **violates** `ResponsePreserved` |
| `openrouter` | 1 client, 3 chats, 2 tool rounds, 2 compactions, 1 restart | `PersistedHistoryIsConsistent`, `NothingForgotten`, `RequestsCarryTheConversation` |
| `openrouter_dangling` | 2 clients, 2 chats | **violates** `PersistedHistoryIsConsistent` |
| `openrouter_lost` | 2 clients, 2 chats | **violates** `NothingForgotten` |
| `openai` | 1 client, 2 chats, 1 tool round, 2 compactions, 1 broken-off stream, 1 restart | `NothingForgotten`, `RequestsCarryTheConversation`, `CompactionIsAllOrNothing` |
| `openai_wedged` | 1 client, 2 chats, 1 restart | **violates** `PersistedCursorIsUsable` |
| `telegram` | 4 updates, queue of 1, 2 lives, 13 configurations | what was opened is closed (`ExitReleases`) and what runs was checked (`RunningIsConfigured`); a crash loses at most the queue and the message in hand (`ForgottenMeansQueued`); `TypingEndsBeforeReply`; the listener implements the mailbox; `EventuallyServed` |
| `terminal` | 5 lines, 2 prompts, batches of 2 | no message of an old stream reaches the model (`NothingStaleInFlight`), none is left running (`StreamsAreReleased`), `PendingCardsAreLive`, `PromptReturns` |
| `files` | a round of up to 3 calls, 10 places | calls that keep apart do what they do alone (`UndisturbedCallsDoWhatTheySay`), `OutputsAnswerTheirCalls`, `RoundEnds` |

Each module's type invariant is checked by one of its passing runs.

### What the violations are

* `pipeline_bubbletea`. README.md 143-144 promises that storage errors are shown
  "while preserving normal response messages". The middleware does that;
  `applyStreamMessages` (tui/bubbletea/stream.go 83-91) takes every Error for the
  end of the stream and does not read the rest.
* `openrouter_dangling`. openrouter.go 330-331 appends the assistant's turn early
  "so the persisted cursor is consistent and complete". With two SSH clients on
  one `-session-id`, one's final saves the history while the other's tool calls
  stand in it without results; resumed from that row, the API refuses every
  request.
* `openrouter_lost`. README.md 126 says the row holds "the full conversation
  history". Export and write are two steps; with two clients an older export may
  be written last.
* `openai_wedged`. README.md 126 stores the response id "so sessions resume across
  restarts". A response with text *and* tool calls is saved at its text's final;
  if the process stops before the calls are answered, or a tool fails, the saved
  response accepts no prompt, and the session cannot be resumed.

### Bounds

* `registry`: three callers make a three-way race for one session and a two-way
  race beside another; `Names` has one name, which with the default session
  (reached through `Blank`) gives two. Three stacks are all three callers' builds,
  or a rebuild after a Close. One turn per stack separates "ahead of the row" from
  "behind it". One session has a row of an earlier run (`MCInitialRows`).
  Callers are interchangeable, hence the symmetry; no liveness is checked there.
* `pipeline_*`: `TraceBuffer` is 1 and not 4, so that the channel is full within
  a turn of three messages and the trace stage blocks; the violation run has the
  code's 4. `CompactBuffer` is the code's 4, on which `BarrierReopens` depends.
  A turn of three has text before and after a message that must not be
  held back; with two failing writes two of the input, trace and session writes
  fail in every combination. Streams share nothing but the barrier's flag, the
  cursor and the row; the compaction already writes all three next to the stream, so a
  second stream would add states and no new kind of interaction.
* `openrouter`, `openai`: a turn before, during and after a failure and a
  compaction of a compacted conversation fit; one restart can come at any step.
  One client is the terminal without `-session-id`, or one Telegram user.
  `MaxBrokenOff` counts streams that end early without an error.
* `telegram`: the script has a message of an allowed user, an update that is no
  message, a stranger's edit and a post of an allowed channel, so that each filter
  has something to drop between two messages to serve; a queue of one (64 in the
  code) is full while the first answer streams. Two lives are a crash and a restart.
  The configurations are one per way `run` can end: each check that refuses one, the
  other commands, each provider, with and without a database.
* `terminal`: two prompts are an active stream and an old one; call ids are used
  again in the second turn, as providers do. Batches of 2 (64 in the code) cut a
  stream of up to five messages in every place. The streams include a storage error
  in the middle of a turn and one before everything else. The lines are blank, a
  chat, "/", a prefix of a command and a full one with a line break.
* `files`: every patch of at most two small hunks on a file of three lines, so that
  starts lie before, in and after the text and hunks overlap; rounds of calls that
  keep apart, and rounds of calls that meet, fail, share an id or name no tool. Some
  delete everything, the root included, and go on, or run next to calls that make it
  again; some lack an argument, or grep a file with the filter "*". A round starts with
  two files and a directory, or without even a root. The lines of a text have one width, so a text is the
  sequence of its lines. Walks visit in one order, `CHOOSE`d.
* Deadlock is not checked: with every bound used up, and when all have finished,
  these systems stop.

### Fairness

Go schedules a goroutine that can run, a channel operation that can proceed does, and
storage calls return: every goroutine of the models with liveness properties is
weakly fair. The rest is justified one by one.

* `StreamPipeline`: a provider's request either sends its next message or fails, as
  it is under the request timeout; a reader that is present reads. Starting a chat or
  a compaction and disconnecting are not fair. `StreamEnds` excuses a reader that
  disconnected or stopped at an Error, since then, by the code, the stream does
  not end.
* `TelegramListener`: the Bot API answers a poll and a send (with an answer or an
  error), streams end. `TypingExit` is strongly fair: its `select` is also offered the
  timer, again and again, and Go's `select` picks among ready cases at random.
  Arrivals, kills, starts and the failures are not fair. The loop has no signal handler and
  its context is `Background`, so a kill is a step of the process from anywhere.
* `BubbleTea`: the program handles the messages it was sent, streams end, and a
  program that was told to quit leaves. Keys, spinner timers and the end of an SSH
  session are not fair.
* `ToolRunner`: each call's goroutine runs and the reader of the stream takes the
  messages (a reader that does not is StreamPipeline's case).

## 4. The proofs

Each module `M_proofs` proves its theorems for every value of M's constants, from
M's named assumptions alone: sets are sequences or disjoint where the code makes
them so, bounds are naturals. Together they cover all the safety properties of the
runs except those listed at the end.

**SessionRegistry_proofs** (any callers, names, bounds and initial rows).
`TypeCorrect` needs `CallsOK` too: a caller that is not idle asks for a proper
session, which makes `entries[want[c]]` meaningful. `Invariance` is
`Spec => []IInv`. The safety properties speak of the stacks that callers hold; to see
that they survive a step one must know where a stack can be before it is held.
`NumberingOK`: the stacks that exist are `1..made`, so a new one is new everywhere.
`BuiltOK`: a stack under construction is its builder's alone. `EntriesOK`: what is
in the map is for its session, open and not swept. `HeldOK`: what a caller holds is
the session's entry or was swept, from which `Agreement` follows at once. `FreshOK`
carries freshness through the window in which the row has been read and the stack
is not installed: as long as the session has no entry and nothing of it was swept,
nobody can save to its row. `AgreementHolds`, `SessionIsolationHolds`,
`StackAccountingHolds` and `FreshHydrationHolds` follow. `Refinement`: `phaseBar`
maps the steps of an unlocked construction to "asking"; `Register` and
`LookupHit`/`LoseRace` are the answers, and `IInv` shows that a registered stack was
never answered before.

**StreamPipeline_proofs** (any scripts, streams, compactions and buffers; streams and
compactions have different names, a provider sends no storage errors itself:
`ScriptAssumption`). `TypeCorrect` bounds the channels. The others have an invariant
each that follows a message down the chain. `EndMeansSaved` (`ClosedMeansSaved`): a
channel is closed only after the one before it, and a final that has left the store
goroutine is either saved or a failure was counted. What the row holds after that is not
older, because an export under way is at least as new as the turn, or the turn was
exported while an older one was still to be written, in which case the stream is `late`
and nothing is promised: then the older write may come last. `TraceComplete`
(`TraceIsComplete`): without failures, what the provider sent is what was recorded
followed by what the trace, store and source goroutines hold, in that order.
`LeaksAtMostOne`: a message can only pass a closed barrier if it was past the check, and
the barrier goroutine holds one.

`OnlyFinalsAndDeltasDropped` (`NothingElseDropped`), `FailuresReachTheReader`
(`FailuresSurface`) and `PatientReadersGetAll` (`ResponsePreserved` where no reader gives
up at an error) look at the reader and at everything on its way to it as one sequence,
`Flight(s)`: what it has received, then what each goroutine and the buffer hold, from
the reader back to the provider. Every step of the chain does one of four things to
it: nothing but move a message along inside it (`Moves`), put a storage error in it
(`ErrorSent`), take a message out that the barrier may drop (`Dropped`) or append what
the provider sends (`Sent`). So it is enough to show that each of the four keeps the
invariant: `SentInv` (what a provider emitted is the beginning of its script, unless it
broke off at an error), `OrderInv` (the provider's messages in flight are in order, and
one that was emitted and is not in flight is a final or a delta, and a compaction was
begun) and `TallyInv` (one storage error in flight for each failed write, but for those
about to be sent). `PatientInv` adds that a source whose reader does not give up closes
at the end of its script.

**OpenRouterHistory_proofs** and **OpenAIChain_proofs**. Both are about one client
(`ASSUME Alone`), for any number of chats, tool rounds, failures, compactions and
restarts; two clients break the properties, as the violation runs show.
The invariants say, per step of a chat or of a compaction, how the history (or the
response the next request would follow) stands to the saved row: behind it while
nothing is answered, equal to the rollback copy while a compaction may still fail,
ahead of it between a final and its write. From them follow `RowAccepted`,
`SavedAnswersKept`, `RequestsCarry` for OpenRouter, and `SavedAnswersKept`,
`PromptsExtend`, `AllOrNothing` for OpenAI, the last an action property. `TypeCorrect`
of OpenRouter and `ChainTyped` of OpenAI hold for any number of clients; the second
says of the tree of responses that every id anybody holds is in it (`TurnsOK`,
`RoundsOK`).

**TelegramListener_proofs** begins with the process, for all configurations:
`Configured` and `Releases`. The listener's invariant
`ListenerInv` (any script, queue size, lives) relates the poll's offset, the batch, the
queue and the last message served: the queue is increasing and lies between what was
served and what is polled next, and every message that deserves an answer below the
offset was served or is in the queue. `TypeCorrect`, `TypingEnds`, `ForgottenIsQueued`
and `Refinement` (`Spec => ImplementsMailbox`) follow; for the last, `TakeMessage`
serves the next message of the mailbox because none was left between it and the last.

**BubbleTea_proofs** (any lines, streams and batch size): `NothingStale` and
`StreamsReleased`, which need each other: a new prompt may forget the held stream
because nothing is in flight when it is entered, and a message may cancel the held
stream because it is of the active one.

`CardsAreLive` (`PendingCardsAreLive`) and `BubbleTyped` are about the transcript.
`ProviderAssumption` says of a script what the providers' code sees to: each call has an
id, and its result or an Error comes after it (`buildToolCalls`, `runToolCalls`). `ViewOK` is what the transcript is at any time (the
index of a call id is a card of that id), `Awaited` that each card still running has its
result, or an Error, among the messages to come. What one message
does to both is a lemma per type of message; `ApplyBatchOK` carries them over a batch by
induction on the message reached. `BubbleInv` adds, for the loop, that the messages to
come are those of the stream under way, the spinner's timer and the input line.

**FileTools_proofs** (any paths, texts, patches and trees). `PathsStayInside`: whatever
sequence of components a tool is given, with ".." anywhere and any number of them, it
stands for a place below the root. `PatchesMeanWhatTheySay`: the loop of
`applyUnifiedPatch`, which moves a cursor over the original and stops at the first line
that is not there, succeeds exactly if the hunks fit (`Fits`: each one's old side is in
the text at the line it names, after the one before), and then makes `Patched`, the text
with each old side replaced by the new one; so there is no hunk, at the first line,
past the last or next to another, for which the cursor is one off, and no text between
hunks is lost. The argument is a relation (`Seen`) between the state of the loop and the
two sides of the lines read so far, kept by each line (`OneLine`), and by induction by
each hunk and by the patch. Then one lemma for each operation of the file system, which
makes a tree of a tree (`TreeOK`: every node of its type, whatever exists below the root
in a directory, inodes not shared and new ones new; the root itself may be missing, or a
file), however stale what the tool knows of it.

**ToolRunner_proofs** (any rounds, trees and places): `OutputsAnswer`, from
`RoundInv`: what is noted for an id is always the result of a call of that id which has
left its tool, and no result changes once outputs are collected. Of the file tools it
uses one lemma, `FileStepIsLocal`. `TreeStaysATree` (`RunnerTypeOK`) needs
`PathsStayInside`, as `RoundsAssumption` only says that the world holds the places a call
names, if they are such. The rest is `FilesInv`: `TreeOK`, and `WorkInv` (what each call
is about to change is in the tree, and what it is to write is a text).

`UndisturbedCalls` (`UndisturbedCallsDoWhatTheySay`) is a simulation. What a call should
do is one step (`Alone`), what it does is up to a dozen system calls for every operation,
between which any number of other calls take theirs. `Stage` says how far a call is, in
terms of the tree at the start: what the operations of a patch before this one come to
(`Performed`), the text still to be put somewhere and the file to be taken away after it
(`Job`), what a walk has found and has put down (`WalkOK`). Each step of the call goes
from one stage to the next or ends it with the answer it should give (`FileStepSim`, one
lemma for each action), `write`'s second MkdirAll and an update's move included. The tree is
compared with the one the call alone would have made by `Agree`: the same nodes at and
below what the call touches, and on the way there the same files and at least the same
directories. It cannot be equality: other calls make directories there, which only a call
that names one of them could tell, and such a call meets them.
A step of a call that meets none of the places keeps this (`Elsewhere`, from what each
step may change; `StageKept`), so `CallsInv`, every such call at its stage, is inductive
with `RoundInv` and `FilesInv`.

The provers have no induction over data: the library's theorems for it take an operator
as a parameter. What recursive functions compute is proved all the same, from the
well-foundedness of the finite subsets of an interval (`Least` in BubbleTea_proofs,
`Induction` in FileTools_proofs, which speak of a set of numbers); for this `Views`,
`Resolve` and the steps of a patch are written as recursive functions, where a fold would
be opaque. `EmptyLineAssumption` gives the provers a fact of TLA+ that they lack, `"" \in
STRING`; like every assumption, TLC evaluates it.

Only model-checked is what is out of the prover's reach: liveness (`BarrierReopens`,
`StreamEnds`, `EventuallyServed`, `PromptReturns`, `RoundEnds`), and everything that
needs ENABLED. Every invariant and action property of a passing run is a theorem.

## 5. Not modelled, and known limits

* The barrier with two compactions at once: the first to finish reopens it.
* A turn of `StreamPipeline` is a fixed script; the tools behind its messages
  are a step that succeeds or fails in the providers' modules, and `ToolRunner` is
  the round of calls behind that step.
* `OpenAIChain` and `OpenRouterHistory` have one client in their passing runs. With two,
  the properties fail in the ways the violation runs show; how the two
  conversations of OpenAI clients fork is not examined further.
* A seeding stream that ends without a completed response makes an OpenAI compaction
  report success and forget the conversation; the properties name that case
  (`seedLost`) and exclude it.
* `UndisturbedCallsDoWhatTheySay` leaves out a move onto the file itself under another
  spelling of its path (`HasAlias`), after which the file is gone, and a `write` to a path
  that ends in "/", "." or ".." (`NamesDirectory`): the parent of the path as it is written
  is then the place itself, which is made a directory before the write to it fails
  (`tool_write.go` 66-74). Two calls with one id
  share their result, so a failed call may be hidden by the other
  (`OutputsAnswerTheirCalls` says "a call of its id").
* File tools: the directory the root is in is there and can be written, and nobody else
  changes the tree. `os.MkdirAll`, and a walk's `ReadDir` with the `ReadFile` it falls back
  on, are one step each, which only calls that meet could tell apart. A pattern is
  `*` or `**`, or for grep none, and grep's regular expression stands for the lines equal to it.
* `PendingCardsAreLive` leaves out a call that follows an Error in its batch.
* The Telegram channel has one subscriber, as in the program.
* The line front end (`tui/simple.go`) is one goroutine that reads a line and waits for
  its stream; it is the patient reader of `StreamPipeline`. The SSH listener, its keys and
  its line sessions add no state: an SSH client is a `BubbleTea` whose context may end.
* Rendering, the viewport, mouse and context meter; token counts and percentages, which are
  arithmetic on the APIs' numbers; single requests (Maton, clock, hosted tools, model
  lists); symbolic links, permissions and full disks; the restricted file system, which
  the program does not use; development programs under `src/utils`.
* Components without a module are listed in `PROJECT.json` with the reason.

## 6. What could follow

1. **SessionStore** (`persistence/store.go`): the upsert's rule that an empty cursor
   or count does not overwrite, with listing.
2. `OpenAIChain` with two clients: which of the two conversations a saved id leads to.
