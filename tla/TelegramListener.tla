--------------------------- MODULE TelegramListener ---------------------------
(***************************************************************************)
(* The channel_listener command: the Telegram channel                      *)
(* (channels/telegram.go) long-polls the Bot API and hands messages to a   *)
(* bounded Go channel; one loop (tui/telegram.go) takes them from it,      *)
(* streams an answer for each and sends it in pieces, while a second       *)
(* goroutine keeps the typing indicator alive.  The loop lives in the      *)
(* process of module Startup, which may be killed and started again; the   *)
(* Bot API keeps what it was not asked to forget.                          *)
(*                                                                         *)
(* A text is the sequence of its pieces of at most 4096 characters, each   *)
(* "text" or "blank" (white space only).  The context RunTelegram is given *)
(* is main's Background and never ends, so its Done branches do not occur. *)
(***************************************************************************)
EXTENDS Startup, Sequences

CONSTANTS
    Script,         \* the updates the Bot API will have, in order
    QueueSize,      \* telegramIncomingBufferSize
    Texts           \* what a stream's text may add up to

ASSUME ListenerAssumption ==
    /\ Script \in Seq([kind : STRING, from : Int, chat : Int,
                       bot : BOOLEAN, blank : BOOLEAN])
    /\ QueueSize \in Nat \ {0}
    /\ Texts \subseteq Seq({"text", "blank"})

VARIABLES
    arrived,    \* updates the Bot API has received
    acked,      \* updates it was told to forget
    poll,       \* the Listen goroutine: "off", "idle", "waiting", "delivering"
    offset,     \* Listen's next update
    batch,      \* the updates of the last answer not yet delivered
    receiveErr, \* did Listen return an error?
    queue,      \* incomingMessages
    pc,         \* the loop: its step
    cur,        \* the message it is serving, 0 if none
    typing,     \* the typing goroutine: "off", "idle", "sending"
    typingDone, \* was its context cancelled?
    chat,       \* the stream: text of its deltas and its final, failed, expired
    reply,      \* the pieces of the reply still to send
    served,     \* the last message a prompt was run for in this life
    floor       \* what was acknowledged when this life began

serverVars == <<arrived, acked>>
listenVars == <<poll, offset, batch, receiveErr>>
typingVars == <<typing, typingDone>>
replyVars  == <<chat, reply>>
historyVars == <<served, floor>>
telegramVars == <<serverVars, listenVars, queue, pc, cur, typingVars, replyVars,
                  historyVars>>
vars == <<startupVars, telegramVars>>

Ids == 1..Len(Script)
Larger(a, b) == IF a > b THEN a ELSE b

NoChat == [delta |-> <<>>, final |-> <<>>, failed |-> FALSE, expired |-> FALSE]

-----------------------------------------------------------------------------
(* Updates and texts.                                                       *)

\* incomingTelegramMessage: an edited message counts as a new one.
HasMessage(u) == u.kind \in {"message", "edited_message", "channel_post"}

\* The sender, or the chat if there is none (a channel post).
UserOf(u) == IF u.from # 0 THEN u.from ELSE u.chat

\* toChannelMessage: no bots, no blank texts, somebody to answer to.
ToChannelMessage(u) == HasMessage(u) /\ ~u.bot /\ ~u.blank /\ UserOf(u) # 0

\* buildAllowedTelegramUsers: zero is nobody.
AllowedUsers == creds.allowedUsers \ {0}

\* isTelegramUserAllowed: an empty list allows nobody.
IsAllowed(user) == user # 0 /\ user \in AllowedUsers

IsBlank(text) == \A k \in DOMAIN text : text[k] = "blank"

\* splitTelegramMessage: a blank text is replaced, any other cut into pieces.
Split(text) == IF IsBlank(text) THEN <<"text">> ELSE text

\* streamPrompt's end: an error of the stream, then of its context, else the
\* final text or, if that is blank, the deltas.
ReplyTo(c) ==
    IF c.failed \/ c.expired THEN <<"text">>    \* "request error: ..."
    ELSE IF IsBlank(c.final) THEN c.delta ELSE c.final

-----------------------------------------------------------------------------
Init ==
    /\ StartupInit
    /\ arrived = 0 /\ acked = 0
    /\ poll = "off" /\ offset = 0 /\ batch = <<>> /\ receiveErr = FALSE
    /\ queue = <<>>
    /\ pc = "off" /\ cur = 0
    /\ typing = "off" /\ typingDone = FALSE
    /\ chat = NoChat /\ reply = <<>>
    /\ served = 0 /\ floor = 0

\* Somebody writes to the bot: the Bot API has one more update.
Arrive ==
    /\ arrived < Len(Script)
    /\ arrived' = arrived + 1
    /\ UNCHANGED <<startupVars, acked, listenVars, queue, pc, cur, typingVars,
                   replyVars, historyVars>>

\* The process is gone, and its goroutines and queue with it.
ListenerGone ==
    /\ poll' = "off" /\ offset' = 0 /\ batch' = <<>> /\ receiveErr' = FALSE
    /\ queue' = <<>>
    /\ pc' = "off" /\ cur' = 0
    /\ typing' = "off" /\ typingDone' = FALSE
    /\ chat' = NoChat /\ reply' = <<>>
    /\ UNCHANGED serverVars

LaunchProcess ==
    /\ Launch
    /\ served' = acked
    /\ floor' = acked
    /\ UNCHANGED <<serverVars, listenVars, queue, pc, cur, typingVars, replyVars>>

ProcessStep ==
    \/ (StartUp \/ InteractiveReturns \/ CloseFactory) /\ UNCHANGED telegramVars
    \/ (CloseProvider \/ Kill) /\ ListenerGone /\ UNCHANGED historyVars

\* RunTelegram registers its queue and starts Listen.
StartListening ==
    /\ phase = "running"
    /\ cfg.command = "channel_listener"
    /\ pc = "off"
    /\ pc' = "select"
    /\ poll' = "idle"
    /\ offset' = 0
    /\ UNCHANGED <<startupVars, serverVars, batch, receiveErr, queue, cur,
                   typingVars, replyVars, historyVars>>

-----------------------------------------------------------------------------
(* Telegram.Listen.                                                         *)

\* Mutant of PollSend: every update received so far is acknowledged.
PollAcksAll ==
    /\ poll = "idle"
    /\ poll' = "waiting"
    /\ acked' = arrived
    /\ UNCHANGED <<startupVars, arrived, offset, batch, receiveErr, queue, pc,
                   cur, typingVars, replyVars, historyVars>>

\* getUpdates reaches the Bot API, which forgets the updates below the offset.
PollSend ==
    /\ poll = "idle"
    /\ poll' = "waiting"
    /\ acked' = Larger(acked, offset - 1)
    /\ UNCHANGED <<startupVars, arrived, offset, batch, receiveErr, queue, pc,
                   cur, typingVars, replyVars, historyVars>>

\* The answer: every update it still has, or none when the poll times out.
PollAnswer ==
    /\ poll = "waiting"
    /\ batch' = [k \in 1..(arrived - acked) |-> acked + k]
    /\ poll' = IF arrived = acked THEN "idle" ELSE "delivering"
    /\ UNCHANGED <<startupVars, serverVars, offset, receiveErr, queue, pc, cur,
                   typingVars, replyVars, historyVars>>

\* The request or its answer fails: Listen returns, there is no retry.
PollFail ==
    /\ poll \in {"idle", "waiting"}
    /\ poll' = "off"
    /\ receiveErr' = TRUE
    /\ UNCHANGED <<startupVars, serverVars, offset, batch, queue, pc, cur,
                   typingVars, replyVars, historyVars>>

\* Mutant of NextUpdate: the offset is the last update seen, not the next one.
NextUpdateInclusive ==
    /\ poll = "delivering"
    /\ offset' = Larger(offset, Head(batch))
    /\ batch' = Tail(batch)
    /\ poll' = IF Len(batch) = 1 THEN "idle" ELSE "delivering"
    /\ UNCHANGED <<startupVars, serverVars, receiveErr, pc, cur, typingVars,
                   replyVars, historyVars>>

\* The next update of the answer is done with.
NextUpdate ==
    /\ poll = "delivering"
    /\ offset' = Larger(offset, Head(batch) + 1)
    /\ batch' = Tail(batch)
    /\ poll' = IF Len(batch) = 1 THEN "idle" ELSE "delivering"
    /\ UNCHANGED <<startupVars, serverVars, receiveErr, pc, cur, typingVars,
                   replyVars, historyVars>>

\* Mutant of Broadcast: the queue is never full.
BroadcastAtOnce ==
    /\ poll = "delivering"
    /\ ToChannelMessage(Script[Head(batch)])
    /\ queue' = Append(queue, Head(batch))
    /\ NextUpdate

\* broadcast: blocks while the queue is full, and the polling with it.
Broadcast ==
    /\ poll = "delivering"
    /\ ToChannelMessage(Script[Head(batch)])
    /\ Len(queue) < QueueSize
    /\ queue' = Append(queue, Head(batch))
    /\ NextUpdate

\* Not a message anybody could be answered.
SkipUpdate ==
    /\ poll = "delivering"
    /\ ~ToChannelMessage(Script[Head(batch)])
    /\ UNCHANGED queue
    /\ NextUpdate

\* RunTelegram has returned and cancelled receiveCtx: Listen returns as well.
ListenCancelled ==
    /\ pc = "returned"
    /\ poll # "off"
    /\ poll' = "off"
    /\ batch' = <<>>
    /\ receiveErr' = TRUE
    /\ UNCHANGED <<startupVars, serverVars, offset, queue, pc, cur,
                   typingVars, replyVars, historyVars>>

-----------------------------------------------------------------------------
(* RunTelegram's loop.                                                      *)

\* Listen's error ends the loop; select may choose it over a waiting message.
SelectError ==
    /\ pc = "select"
    /\ receiveErr
    /\ CommandReturns("error")
    /\ pc' = "returned"
    /\ UNCHANGED <<serverVars, listenVars, queue, cur, typingVars, replyVars,
                   historyVars>>

\* A message of somebody who is not allowed is dropped without a word.
DropMessage ==
    /\ pc = "select"
    /\ queue # <<>>
    /\ ~IsAllowed(UserOf(Script[Head(queue)]))
    /\ queue' = Tail(queue)
    /\ UNCHANGED <<startupVars, serverVars, listenVars, pc, cur, typingVars,
                   replyVars, historyVars>>

\* The next message: the first typing signal is sent before the prompt runs.
TakeMessage ==
    /\ pc = "select"
    /\ queue # <<>>
    /\ IsAllowed(UserOf(Script[Head(queue)]))
    /\ queue' = Tail(queue)
    /\ cur' = Head(queue)
    /\ served' = Head(queue)
    /\ pc' = "typingOn"
    /\ UNCHANGED <<startupVars, serverVars, listenVars, typingVars, replyVars,
                   floor>>

\* The signal is sent, or fails and is only logged; the typing goroutine and
\* the stream are started.
StartPrompt ==
    /\ pc = "typingOn"
    /\ pc' = "prompting"
    /\ typing' = "idle"
    /\ typingDone' = FALSE
    /\ chat' = NoChat
    /\ UNCHANGED <<startupVars, serverVars, listenVars, queue, cur, reply,
                   historyVars>>

\* streamPrompt adds up the deltas and the final text, and keeps an error; tool
\* cards, reasoning and context usage go to the console only.
StreamMessage ==
    /\ pc = "prompting"
    /\ \/ /\ chat.delta = <<>>
          /\ \E t \in Texts : chat' = [chat EXCEPT !.delta = t]
       \/ /\ chat.final = <<>>
          /\ \E t \in Texts : chat' = [chat EXCEPT !.final = t]
       \/ chat' = [chat EXCEPT !.failed = TRUE]
    /\ UNCHANGED <<startupVars, serverVars, listenVars, queue, pc, cur,
                   typingVars, reply, historyVars>>

\* The request's timeout passes; the stream is still read to its end.
Expire ==
    /\ pc = "prompting"
    /\ cfg.timeout > 0
    /\ chat' = [chat EXCEPT !.expired = TRUE]
    /\ UNCHANGED <<startupVars, serverVars, listenVars, queue, pc, cur,
                   typingVars, reply, historyVars>>

\* Mutant of StreamEnd: the typing goroutine is awaited but not cancelled.
StreamEndUncancelled ==
    /\ pc = "prompting"
    /\ reply' = Split(ReplyTo(chat))
    /\ pc' = "stopTyping"
    /\ UNCHANGED <<startupVars, serverVars, listenVars, queue, cur, typingVars,
                   chat, historyVars>>

\* The stream is closed: the typing goroutine is told to stop.
StreamEnd ==
    /\ pc = "prompting"
    /\ reply' = Split(ReplyTo(chat))
    /\ typingDone' = TRUE
    /\ pc' = "stopTyping"
    /\ UNCHANGED <<startupVars, serverVars, listenVars, queue, cur, typing, chat,
                   historyVars>>

\* Mutant of AwaitTyping: the reply does not wait for the goroutine.
DoNotAwaitTyping ==
    /\ pc = "stopTyping"
    /\ pc' = "replying"
    /\ UNCHANGED <<startupVars, serverVars, listenVars, queue, cur, typingVars,
                   replyVars, historyVars>>

\* <-typingDone; the stop signal that follows sends nothing to Telegram.
AwaitTyping ==
    /\ pc = "stopTyping"
    /\ typing = "off"
    /\ pc' = "replying"
    /\ UNCHANGED <<startupVars, serverVars, listenVars, queue, cur, typingVars,
                   replyVars, historyVars>>

\* A piece of the reply arrives; after the last one the loop selects again.
SendPiece ==
    /\ pc = "replying"
    /\ Head(reply) # "blank"
    /\ reply' = Tail(reply)
    /\ IF Len(reply) = 1 THEN pc' = "select" /\ cur' = 0
       ELSE UNCHANGED <<pc, cur>>
    /\ UNCHANGED <<startupVars, serverVars, listenVars, queue, typingVars, chat,
                   historyVars>>

\* RunTelegram returns the error of a send.
ReturnSendError ==
    /\ pc = "replying"
    /\ CommandReturns("error")
    /\ pc' = "returned"
    /\ UNCHANGED <<serverVars, listenVars, queue, cur, typingVars, replyVars,
                   historyVars>>

\* The Bot API refuses a piece, or cannot be reached.
SendFails == pc = "replying" /\ Head(reply) # "blank" /\ ReturnSendError

\* A piece that is all white space is refused by the channel itself.
SendBlank == pc = "replying" /\ Head(reply) = "blank" /\ ReturnSendError

-----------------------------------------------------------------------------
(* The typing goroutine.                                                    *)

TypingTick ==
    /\ typing = "idle"
    /\ typing' = "sending"
    /\ UNCHANGED <<startupVars, serverVars, listenVars, queue, pc, cur,
                   typingDone, replyVars, historyVars>>

\* The signal is through or failed; under a cancelled context it ends the loop.
TypingSent ==
    /\ typing = "sending"
    /\ typing' \in (IF typingDone THEN {"idle", "off"} ELSE {"idle"})
    /\ UNCHANGED <<startupVars, serverVars, listenVars, queue, pc, cur,
                   typingDone, replyVars, historyVars>>

TypingExit ==
    /\ typing = "idle"
    /\ typingDone
    /\ typing' = "off"
    /\ UNCHANGED <<startupVars, serverVars, listenVars, queue, pc, cur,
                   typingDone, replyVars, historyVars>>

-----------------------------------------------------------------------------
Listen == PollSend \/ PollAnswer \/ Broadcast \/ SkipUpdate
Loop == StartListening \/ DropMessage \/ TakeMessage \/ StartPrompt
        \/ StreamEnd \/ AwaitTyping \/ SendPiece
Failure == PollFail \/ ListenCancelled \/ SelectError \/ SendFails
           \/ SendBlank \/ Expire

Next ==
    \/ LaunchProcess
    \/ ProcessStep
    \/ Arrive
    \/ Listen
    \/ Loop
    \/ StreamMessage
    \/ Failure
    \/ TypingTick \/ TypingSent \/ TypingExit

\* The goroutines run, the Bot API answers and a stream ends (all that is sent
\* through the provider stack is closed in the end); nobody has to write, and
\* nothing has to fail.  The ticker and the cancelled context are both ready in
\* the typing goroutine's select, which is fair between them.
Fairness ==
    /\ WF_vars(StartUp /\ UNCHANGED telegramVars)
    /\ WF_vars(PollSend) /\ WF_vars(PollAnswer)
    /\ WF_vars(Broadcast) /\ WF_vars(SkipUpdate)
    /\ WF_vars(StartListening)
    /\ WF_vars(DropMessage) /\ WF_vars(TakeMessage)
    /\ WF_vars(StartPrompt) /\ WF_vars(StreamEnd)
    /\ WF_vars(AwaitTyping) /\ WF_vars(SendPiece)
    /\ WF_vars(SendBlank) /\ WF_vars(SelectError)
    /\ WF_vars(TypingSent) /\ SF_vars(TypingExit)

Spec == Init /\ [][Next]_vars /\ Fairness

-----------------------------------------------------------------------------
\* Every variable keeps its range; the queue never holds more than its buffer.
TypeOK ==
    /\ StartupTypeOK
    /\ arrived \in 0..Len(Script) /\ acked \in 0..arrived
    /\ poll \in {"off", "idle", "waiting", "delivering"}
    /\ offset \in 0..(Len(Script) + 1)
    /\ batch \in Seq(Ids) /\ (poll = "delivering" <=> batch # <<>>)
    /\ receiveErr \in BOOLEAN
    /\ queue \in Seq(Ids) /\ Len(queue) <= QueueSize
    /\ pc \in {"off", "select", "typingOn", "prompting", "stopTyping",
              "replying", "returned"}
    /\ cur \in Ids \cup {0}
    /\ typing \in {"off", "idle", "sending"} /\ typingDone \in BOOLEAN
    /\ chat \in [delta : Texts \cup {<<>>}, final : Texts \cup {<<>>},
                 failed : BOOLEAN, expired : BOOLEAN]
    /\ reply \in Seq({"text", "blank"})
    /\ served \in Ids \cup {0} /\ floor \in Ids \cup {0}

\* Telegram forgets an update as soon as the next poll is sent, served or not.
\* A message that deserves an answer and was forgotten in this life has been
\* taken by the loop or is in its queue: what a crash can lose is the queue and
\* the message being served, never a whole answer of the Bot API.
ForgottenMeansQueued ==
    pc \in {"select", "typingOn", "prompting", "stopTyping", "replying"} =>
        \A i \in (floor + 1)..acked :
            ToChannelMessage(Script[i]) /\ IsAllowed(UserOf(Script[i])) =>
                i <= served \/ \E k \in DOMAIN queue : queue[k] = i

\* The indicator is never switched on under a reply: when its first piece is
\* sent the typing goroutine has ended, also when it was in the middle of a
\* request as the stream ended.
TypingEndsBeforeReply == pc \in {"replying", "select", "typingOn"} => typing = "off"

\* The messages of a script that a process started with c should answer: read
\* from the README, an allowlist in the env file hides that of the environment
\* and an empty one denies everybody.
Wanted(c) ==
    LET n == "TELEGRAM_ALLOWED_USERS"
        list == IF n \in DOMAIN c.file THEN c.file[n]
                ELSE IF n \in DOMAIN c.env THEN c.env[n] ELSE {}
    IN  IF c.command # "channel_listener" THEN {}
        ELSE {i \in Ids : ToChannelMessage(Script[i])
                          /\ UserOf(Script[i]) \in list \ {0}}

\* In one life of the process the listener is a mailbox: it serves exactly the
\* messages it should, one at a time, in order, each once, skipping none - with
\* its polls, its queue, its drops and its failures in between.
Abstract == INSTANCE Mailbox WITH
    wanted <- IF life = 0 THEN {} ELSE Wanted(cfg),
    busy <- cur # 0
ImplementsMailbox == Abstract!Spec

\* While the process stays up every message that should be answered is taken
\* in the end, however long the queue was full: polling resumes when a reply is
\* out, and no answer waits for a typing goroutine that nobody stops.
EventuallyServed ==
    \A i \in Ids :
        (pc # "off" /\ i <= arrived /\ i > floor /\ i \in Wanted(cfg))
            ~> (served >= i \/ phase # "running")
===============================================================================
