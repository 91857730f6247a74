------------------------- MODULE TelegramListener_proofs -------------------------
(***************************************************************************)
(* Proofs about the Telegram listener, for every script of updates, queue  *)
(* size, set of configurations and number of lives: it is a mailbox, what  *)
(* Telegram forgets was handed over, nobody is typing under a reply, and   *)
(* the process around it is configured and releases what it opened.        *)
(*                                                                         *)
(* The process comes first: what every step of its life preserves, for all *)
(* command lines, env files and environments.                              *)
(***************************************************************************)
EXTENDS TelegramListener, SequenceTheorems, TLAPS

\* Any step of run(), of the command's return and of its end.
StartupStep ==
    \/ Launch \/ StartUp \/ InteractiveReturns \/ CloseFactory \/ CloseProvider \/ Kill
    \/ \E result \in {"ok", "error"} : CommandReturns(result)

-----------------------------------------------------------------------------
(* Types.                                                                   *)

\* A process that was not started.
LEMMA StartupTypesInit == StartupInit => StartupTypeOK
  BY StartupAssumption DEF StartupInit, StartupTypeOK, Phases

\* Every step keeps the startup variables in their ranges.
LEMMA StartupTypesStep == StartupTypeOK /\ StartupStep => StartupTypeOK'
<1> SUFFICES ASSUME StartupTypeOK, StartupStep PROVE StartupTypeOK'
  OBVIOUS
<1> USE StartupAssumption DEF StartupTypeOK, Phases, Proceed, GiveUp, CloseDB
<1>1. CASE Launch \/ Kill
  BY <1>1 DEF Launch, Kill
<1>2. CASE LoadConfig \/ LoadDotEnv \/ LoadCredentials \/ ValidateConfig
  BY <1>2 DEF LoadConfig, LoadDotEnv, LoadCredentials, ValidateConfig
<1>3. CASE BuildTools
  <2>1. EnabledTools(SelectedTools) \subseteq HostedTools \cup FileTools \cup
          {"clock", "send_channel_message", "maton_gcalendar", "maton_gmail"}
    BY DEF EnabledTools, SelectedTools, ConfiguredFileTools, ConfiguredChannelTools,
           MatonTools
  <2> QED
    BY <1>3, <2>1 DEF BuildTools
<1>4. CASE ConfigureDB \/ OpenSessionStore \/ OpenTraceStore
  BY <1>4 DEF ConfigureDB, OpenSessionStore, OpenTraceStore
<1>5. CASE ListSessions
  BY <1>5 DEF ListSessions
<1>6. CASE BuildRouter \/ CloseFactory
  BY <1>6 DEF BuildRouter, CloseFactory
<1>7. CASE CloseProvider
  BY <1>7 DEF CloseProvider
<1>8. CASE InteractiveReturns \/ \E result \in {"ok", "error"} : CommandReturns(result)
  BY <1>8 DEF InteractiveReturns, CommandReturns
<1> QED
  BY <1>1, <1>2, <1>3, <1>4, <1>5, <1>6, <1>7, <1>8 DEF StartupStep, StartUp

-----------------------------------------------------------------------------
(* Lives.                                                                   *)

\* Before the first life the process is off.
LifeInv == life \in Nat /\ (life = 0 => phase = "off")

\* A process that was not started.
LEMMA LifeInit == StartupInit => LifeInv
  BY DEF StartupInit, LifeInv

\* Only a launch counts, and nothing else leaves "off".
LEMMA LifeStep == LifeInv /\ StartupStep => LifeInv'
<1> SUFFICES ASSUME LifeInv, StartupStep PROVE LifeInv'
  OBVIOUS
<1>1. CASE Launch
  BY <1>1 DEF Launch, LifeInv
<1>2. CASE ~Launch
  <2>1. life' = life /\ phase # "off"
    <3>1. CASE StartUp
      BY <3>1 DEF StartUp, LoadConfig, LoadDotEnv, LoadCredentials, ValidateConfig, BuildTools,
          ConfigureDB, OpenSessionStore, ListSessions, OpenTraceStore, BuildRouter, Proceed, GiveUp
    <3>2. CASE InteractiveReturns \/ \E result \in {"ok", "error"} : CommandReturns(result)
      BY <3>2 DEF InteractiveReturns, CommandReturns
    <3>3. CASE CloseFactory \/ CloseProvider \/ Kill
      BY <3>3 DEF CloseFactory, CloseProvider, Kill
    <3> QED
      BY <1>2, <3>1, <3>2, <3>3 DEF StartupStep
  <2> QED
    BY <2>1 DEF LifeInv
<1> QED
  BY <1>1, <1>2

-----------------------------------------------------------------------------
(* Resources.                                                               *)

\* The inductive invariant behind ExitReleases: where in run() the database can
\* be open, who has to close it from there on, and that it is closed last.
ResourceInv ==
    /\ phase \in Phases
    /\ db \in {"none", "open", "closed"}
    /\ closers \subseteq {"factory", "db"}
    /\ closers # {} => phase \in {"running", "closing"}
    /\ db = "open" => phase \in {"sessionStore", "traceStore", "router", "running", "closing"}
    /\ db = "open" /\ phase \in {"running", "closing"} => "db" \in closers
    /\ db = "closed" => phase = "exited"

\* A process that was not started holds nothing.
LEMMA ResourceInit == StartupInit => ResourceInv
  BY DEF StartupInit, ResourceInv, Phases

\* The steps of run() up to the command: each error return closes what it holds.
LEMMA ResourceStartUp == ResourceInv /\ StartUp => ResourceInv'
<1> SUFFICES ASSUME ResourceInv, StartUp PROVE ResourceInv'
  OBVIOUS
<1> USE DEF ResourceInv, Phases, Proceed, GiveUp, CloseDB
<1>1. CASE LoadConfig \/ LoadDotEnv
  BY <1>1 DEF LoadConfig, LoadDotEnv
<1>2. CASE LoadCredentials
  BY <1>2 DEF LoadCredentials
<1>3. CASE ValidateConfig
  BY <1>3 DEF ValidateConfig
<1>4. CASE BuildTools
  BY <1>4 DEF BuildTools
<1>5. CASE ConfigureDB
  BY <1>5 DEF ConfigureDB
<1>6. CASE OpenSessionStore
  BY <1>6 DEF OpenSessionStore
<1>7. CASE ListSessions
  BY <1>7 DEF ListSessions
<1>8. CASE OpenTraceStore
  BY <1>8 DEF OpenTraceStore
<1>9. CASE BuildRouter
  BY <1>9 DEF BuildRouter
<1> QED
  BY <1>1, <1>2, <1>3, <1>4, <1>5, <1>6, <1>7, <1>8, <1>9 DEF StartUp

\* Every other step: the start, the command's return, the closing and the kill.
LEMMA ResourceStep == ResourceInv /\ StartupStep => ResourceInv'
<1> SUFFICES ASSUME ResourceInv, StartupStep PROVE ResourceInv'
  OBVIOUS
<1> USE DEF ResourceInv, Phases
<1>1. CASE Launch
  BY <1>1 DEF Launch
<1>2. CASE StartUp
  BY <1>2, ResourceStartUp
<1>3. CASE InteractiveReturns \/ \E result \in {"ok", "error"} : CommandReturns(result)
  BY <1>3 DEF InteractiveReturns, CommandReturns
<1>4. CASE CloseFactory
  BY <1>4 DEF CloseFactory
<1>5. CASE CloseProvider
  BY <1>5 DEF CloseProvider, CloseDB
<1>6. CASE Kill
  BY <1>6 DEF Kill
<1> QED
  BY <1>1, <1>2, <1>3, <1>4, <1>5, <1>6 DEF StartupStep

\* The invariant says that run() returns with everything released.
LEMMA ResourcesReleased == ResourceInv => ExitReleases
  BY DEF ResourceInv, ExitReleases

-----------------------------------------------------------------------------
(* Configuration.                                                           *)

AfterCredentials == {"validate", "selectTools", "configureDB", "sessionStore",
                     "traceStore", "router", "running", "closing"}
AfterTools == {"configureDB", "sessionStore", "traceStore", "router", "running", "closing"}
NotListing == {"selectTools", "traceStore", "router", "running", "closing"}

\* The inductive invariant behind RunningIsConfigured: what has been checked and
\* computed by the time run() is at a step, all of it from a cfg that no step changes.
ConfigInv ==
    /\ phase \in AfterCredentials => creds = CredentialsOf /\ ~CredentialsFail
    /\ phase \in NotListing => cfg.command # "list_sessions"
    /\ phase \in AfterTools /\ cfg.command # "list_sessions" =>
            toolSet = EnabledTools(SelectedTools)

\* A process that was not started has nothing configured.
LEMMA ConfigInit == StartupInit => ConfigInv
  BY DEF StartupInit, ConfigInv, AfterCredentials, AfterTools, NotListing

\* Nothing the configuration was computed from or written to changes.
LEMMA ConfigUnchanged ==
    ASSUME UNCHANGED <<cfg, creds>>
    PROVE  /\ CredentialsOf' = CredentialsOf /\ CredentialsFail' = CredentialsFail
           /\ EnabledTools(SelectedTools)' = EnabledTools(SelectedTools)
<1>1. \A n : LookupEnvValue(n)' = LookupEnvValue(n)
  BY DEF LookupEnvValue
<1>2. ProviderKey' = ProviderKey
  BY DEF ProviderKey
<1>3. CredentialsOf' = CredentialsOf
  BY <1>1 DEF CredentialsOf, ParseTelegramAllowedUsers
<1>4. CredentialsFail' = CredentialsFail
  BY <1>1, <1>2 DEF CredentialsFail
<1>5. SelectedTools' = SelectedTools
  BY DEF SelectedTools, ConfiguredFileTools, ConfiguredChannelTools, MatonTools, IsInteractive
<1> QED
  BY <1>3, <1>4, <1>5 DEF EnabledTools

\* Every step keeps what was configured, or is the one that checks it.
LEMMA ConfigStep == ConfigInv /\ StartupStep => ConfigInv'
<1> SUFFICES ASSUME ConfigInv, StartupStep PROVE ConfigInv'
  OBVIOUS
<1> USE DEF AfterCredentials, AfterTools, NotListing, Proceed, GiveUp
<1>1. CASE Launch \/ Kill
  BY <1>1 DEF Launch, Kill, ConfigInv
<1>2. CASE LoadConfig \/ LoadDotEnv
  BY <1>2 DEF LoadConfig, LoadDotEnv, ConfigInv
<1>3. CASE LoadCredentials
  <2>1. \A n : LookupEnvValue(n)' = LookupEnvValue(n)
    BY <1>3 DEF LookupEnvValue, LoadCredentials
  <2>2. ProviderKey' = ProviderKey
    BY <1>3 DEF ProviderKey, LoadCredentials
  <2>3. CredentialsOf' = CredentialsOf
    BY <1>3, <2>1 DEF CredentialsOf, ParseTelegramAllowedUsers, LoadCredentials
  <2>4. CredentialsFail' = CredentialsFail
    BY <1>3, <2>1, <2>2 DEF CredentialsFail, LoadCredentials
  <2> QED
    BY <1>3, <2>3, <2>4 DEF LoadCredentials, ConfigInv
<1>4. CASE ValidateConfig
  BY <1>4, ConfigUnchanged DEF ValidateConfig, ConfigInv
<1>5. CASE BuildTools
  BY <1>5, ConfigUnchanged DEF BuildTools, ConfigInv
<1>6. CASE ConfigureDB
  BY <1>6, ConfigUnchanged DEF ConfigureDB, ConfigInv
<1>7. CASE OpenSessionStore \/ ListSessions
  BY <1>7, ConfigUnchanged DEF OpenSessionStore, ListSessions, ConfigInv
<1>8. CASE OpenTraceStore \/ BuildRouter
  BY <1>8, ConfigUnchanged DEF OpenTraceStore, BuildRouter, ConfigInv
<1>9. CASE InteractiveReturns \/ \E result \in {"ok", "error"} : CommandReturns(result)
  BY <1>9, ConfigUnchanged DEF InteractiveReturns, CommandReturns, ConfigInv
<1>10. CASE CloseFactory \/ CloseProvider
  BY <1>10, ConfigUnchanged DEF CloseFactory, CloseProvider, ConfigInv
<1> QED
  BY <1>1, <1>2, <1>3, <1>4, <1>5, <1>6, <1>7, <1>8, <1>9, <1>10 DEF StartupStep, StartUp

\* The invariant says that a running command has what it needs and no more.
LEMMA RunningConfigured == ConfigInv => RunningIsConfigured
<1> SUFFICES ASSUME ConfigInv, phase = "running" PROVE RunningIsConfigured
  BY DEF RunningIsConfigured
<1> DEFINE effective == [n \in DOMAIN cfg.file \cup DOMAIN cfg.env |->
                IF n \in DOMAIN cfg.file THEN cfg.file[n] ELSE cfg.env[n]]
<1>1. /\ creds = CredentialsOf /\ ~CredentialsFail
      /\ cfg.command # "list_sessions"
      /\ toolSet = EnabledTools(SelectedTools)
  BY DEF ConfigInv, AfterCredentials, NotListing, AfterTools
<1>2. \A n : LookupEnvValue(n) # {} =>
          n \in DOMAIN effective /\ effective[n] = LookupEnvValue(n)
  BY DEF LookupEnvValue
<1>3. LookupEnvValue(ProviderKey) # {}
  BY <1>1 DEF CredentialsFail
<1>4. cfg.command = "ssh" =>
          /\ LookupEnvValue("SSH_ALLOWED_PUBLIC_KEYS") # {}
          /\ creds.allowedKeys = LookupEnvValue("SSH_ALLOWED_PUBLIC_KEYS")
  BY <1>1 DEF CredentialsFail, CredentialsOf
<1>5. cfg.command = "channel_listener" => creds.botToken # {}
  BY <1>1 DEF CredentialsFail, CredentialsOf
<1>6. cfg.command = "channel_listener" =>
          toolSet \cap (FileTools \cup {"send_channel_message"}) = {}
  BY <1>1 DEF EnabledTools, SelectedTools, ConfiguredFileTools, ConfiguredChannelTools,
              MatonTools, IsInteractive, HostedTools, FileTools
<1>7. cfg.provider = "openrouter" => toolSet \cap HostedTools = {}
  BY <1>1 DEF EnabledTools
<1> HIDE DEF effective
<1>8. /\ ProviderKey \in DOMAIN effective /\ effective[ProviderKey] # {}
      /\ cfg.command = "ssh" =>
            /\ creds.allowedKeys # {}
            /\ creds.allowedKeys = effective["SSH_ALLOWED_PUBLIC_KEYS"]
  BY <1>2, <1>3, <1>4
<1> QED
  BY <1>5, <1>6, <1>7, <1>8 DEF RunningIsConfigured, effective

-----------------------------------------------------------------------------
(* The listener.                                                            *)

\* A message that deserves an answer.
Due(i) == ToChannelMessage(Script[i]) /\ IsAllowed(UserOf(Script[i]))

\* The loop has taken it, or it is in the queue.
Handled(i) == i <= served \/ \E k \in DOMAIN queue : queue[k] = i

\* There is a loop only in a running process; typing and replies have their place in it.
LoopInv ==
    /\ pc # "off" => phase \in {"running", "closing"} /\ cfg.command = "channel_listener"
    /\ pc = "off" => poll = "off" /\ queue = <<>> /\ cur = 0
    /\ pc = "select" => cur = 0
    /\ typing # "off" => pc \in {"prompting", "stopTyping"}
    /\ pc \in {"stopTyping", "replying"} => reply # <<>>

\* How the poll's offset, its batch and the Bot API's memory are related.
PollInv ==
    /\ floor <= acked
    /\ pc = "off" /\ phase \notin {"off", "exited"} => floor = acked /\ served = floor
    /\ pc # "off" => acked <= floor \/ acked < offset
    /\ offset <= arrived + 1
    /\ poll = "waiting" => offset <= acked + 1
    /\ poll = "delivering" => offset <= batch[1] /\ acked < batch[1]
    /\ \A k \in 1..Len(batch) : batch[k] = batch[1] + k - 1 /\ batch[k] <= arrived

\* The queue is in order, after what was served and before what is polled next.
QueueInv ==
    /\ floor <= served
    /\ pc # "off" => served = floor \/ served < offset
    /\ \A k \in 1..Len(queue) : served < queue[k] /\ queue[k] < offset
    /\ \A j, k \in 1..Len(queue) : j < k => queue[j] < queue[k]

\* Every due message before the poll's position was handled.
HandledInv ==
    /\ pc # "off" => \A i \in Ids : floor < i /\ i < offset /\ Due(i) => Handled(i)
    /\ poll = "delivering" =>
          \A i \in Ids : floor < i /\ i < batch[1] /\ Due(i) => Handled(i)

\* The inductive invariant of the listener in its process.
ListenerInv == TypeOK /\ ConfigInv /\ LoopInv /\ PollInv /\ QueueInv /\ HandledInv

-----------------------------------------------------------------------------
(* What the steps do to the process, and to sequences.                      *)

\* Nothing but the steps of the process touches it.
LEMMA ProcessSteps == [Next]_vars => StartupStep \/ UNCHANGED startupVars
<1> SUFFICES ASSUME [Next]_vars PROVE StartupStep \/ UNCHANGED startupVars
  OBVIOUS
<1>1. CASE LaunchProcess \/ ProcessStep
  BY <1>1 DEF LaunchProcess, ProcessStep, StartupStep
<1>2. CASE Arrive \/ Listen \/ Loop \/ StreamMessage \/ TypingTick \/ TypingSent \/ TypingExit
  BY <1>2 DEF Arrive, Listen, PollSend, PollAnswer, Broadcast, SkipUpdate, NextUpdate,
              Loop, StartListening, DropMessage, TakeMessage, StartPrompt, StreamEnd,
              AwaitTyping, SendPiece, StreamMessage, TypingTick, TypingSent, TypingExit
<1>3. CASE Failure
  BY <1>3 DEF Failure, PollFail, ListenCancelled, SelectError, SendFails, SendBlank,
              ReturnSendError, Expire, StartupStep
<1>4. CASE UNCHANGED vars
  BY <1>4 DEF vars
<1> QED
  BY <1>1, <1>2, <1>3, <1>4 DEF Next

\* Head and Tail of a sequence that is not empty, element by element.
LEMMA HeadAndTail ==
    ASSUME NEW S, NEW s \in Seq(S), s # <<>>
    PROVE  /\ Head(s) = s[1] /\ Head(s) \in S
           /\ Tail(s) \in Seq(S)
           /\ Len(s) \in Nat /\ Len(s) > 0 /\ Len(Tail(s)) = Len(s) - 1
           /\ \A k \in 1..Len(Tail(s)) : k + 1 \in 1..Len(s) /\ Tail(s)[k] = s[k + 1]
  BY HeadTailProperties, LenProperties, EmptySeq

\* Append, element by element.
LEMMA Appended ==
    ASSUME NEW S, NEW s \in Seq(S), NEW e \in S
    PROVE  /\ Append(s, e) \in Seq(S)
           /\ Len(s) \in Nat /\ Len(Append(s, e)) = Len(s) + 1
           /\ \A k \in 1..Len(s) : Append(s, e)[k] = s[k]
           /\ Append(s, e)[Len(s) + 1] = e
  OBVIOUS

\* Constants.
LEMMA ScriptLength == Len(Script) \in Nat
  BY ListenerAssumption, LenProperties

-----------------------------------------------------------------------------
(* The process around the listener.                                         *)

\* However run() returns, the database it opened was closed by then, and last.
THEOREM Releases == Spec => []ExitReleases
<1>1. Init => ResourceInv
  BY ResourceInit DEF Init
<1>2. ResourceInv /\ [Next]_vars => ResourceInv'
  <2> SUFFICES ASSUME ResourceInv, [Next]_vars PROVE ResourceInv'
    OBVIOUS
  <2>1. CASE StartupStep
    BY <2>1, ResourceStep
  <2>2. CASE UNCHANGED startupVars
    BY <2>2 DEF startupVars, ResourceInv
  <2> QED
    BY <2>1, <2>2, ProcessSteps
<1> QED
  BY <1>1, <1>2, ResourcesReleased, PTL DEF Spec

\* What the configuration's steps keep, they keep in the listener.
LEMMA ConfigNext == ConfigInv /\ [Next]_vars => ConfigInv'
<1> SUFFICES ASSUME ConfigInv, [Next]_vars PROVE ConfigInv'
  OBVIOUS
<1>1. CASE StartupStep
  BY <1>1, ConfigStep
<1>2. CASE UNCHANGED startupVars
  BY <1>2, ConfigUnchanged DEF startupVars, ConfigInv
<1> QED
  BY <1>1, <1>2, ProcessSteps

\* A command runs only with the credentials and the tools it is entitled to,
\* whatever the env file, the environment and the command line were.
THEOREM Configured == Spec => []RunningIsConfigured
<1>1. Init => ConfigInv
  BY ConfigInit DEF Init
<1> QED
  BY <1>1, ConfigNext, RunningConfigured, PTL DEF Spec

-----------------------------------------------------------------------------
(* Types, in parts that the actions change one or two of at a time.         *)

TextTypes == Texts \cup {<<>>}
ChatTypes == [delta : TextTypes, final : TextTypes, failed : BOOLEAN, expired : BOOLEAN]
Pieces == {"text", "blank"}

ServerTypes == arrived \in 0..Len(Script) /\ acked \in 0..arrived
ListenTypes ==
    /\ poll \in {"off", "idle", "waiting", "delivering"}
    /\ offset \in 0..(Len(Script) + 1)
    /\ batch \in Seq(Ids) /\ (poll = "delivering" <=> batch # <<>>)
    /\ receiveErr \in BOOLEAN
QueueTypes == queue \in Seq(Ids) /\ Len(queue) <= QueueSize
LoopTypes ==
    /\ pc \in {"off", "select", "typingOn", "prompting", "stopTyping", "replying", "returned"}
    /\ cur \in Ids \cup {0}
TypingTypes == typing \in {"off", "idle", "sending"} /\ typingDone \in BOOLEAN
ReplyTypes == chat \in ChatTypes /\ reply \in Seq(Pieces)
HistoryTypes == served \in Ids \cup {0} /\ floor \in Ids \cup {0}

TelegramTypes ==
    ServerTypes /\ ListenTypes /\ QueueTypes /\ LoopTypes /\ TypingTypes /\ ReplyTypes
    /\ HistoryTypes

\* TypeOK is the conjunction of the parts.
LEMMA TypesSplit == TypeOK <=> StartupTypeOK /\ TelegramTypes
  BY DEF TypeOK, TelegramTypes, ServerTypes, ListenTypes, QueueTypes, LoopTypes,
         TypingTypes, ReplyTypes, HistoryTypes, ChatTypes, TextTypes, Pieces

\* The same of the next state.
LEMMA TypesJoined == (StartupTypeOK /\ TelegramTypes)' => TypeOK'
  BY DEF TypeOK, TelegramTypes, ServerTypes, ListenTypes, QueueTypes, LoopTypes,
         TypingTypes, ReplyTypes, HistoryTypes, ChatTypes, TextTypes, Pieces

\* A part keeps its types if nothing in it changes.
LEMMA Kept ==
    ASSUME TelegramTypes
    PROVE  /\ UNCHANGED serverVars => ServerTypes'
           /\ UNCHANGED listenVars => ListenTypes'
           /\ UNCHANGED queue => QueueTypes'
           /\ UNCHANGED pc /\ UNCHANGED cur => LoopTypes'
           /\ UNCHANGED typingVars => TypingTypes'
           /\ UNCHANGED replyVars => ReplyTypes'
           /\ UNCHANGED historyVars => HistoryTypes'
<1> USE DEF TelegramTypes
<1>1. UNCHANGED serverVars => ServerTypes'
  BY DEF ServerTypes, serverVars
<1>2. UNCHANGED listenVars => ListenTypes'
  BY DEF ListenTypes, listenVars
<1>3. UNCHANGED queue => QueueTypes'
  BY DEF QueueTypes
<1>4. UNCHANGED pc /\ UNCHANGED cur => LoopTypes'
  BY DEF LoopTypes
<1>5. UNCHANGED typingVars => TypingTypes'
  BY DEF TypingTypes, typingVars
<1>6. UNCHANGED replyVars => ReplyTypes'
  BY DEF ReplyTypes, replyVars
<1>7. UNCHANGED historyVars => HistoryTypes'
  BY DEF HistoryTypes, historyVars
<1> QED
  BY <1>1, <1>2, <1>3, <1>4, <1>5, <1>6, <1>7

\* Nothing has happened yet.
LEMMA TypesInit == Init => TypeOK
<1> SUFFICES ASSUME Init PROVE TypeOK
  OBVIOUS
<1>1. StartupTypeOK
  BY StartupTypesInit DEF Init
<1>2. ServerTypes /\ HistoryTypes /\ LoopTypes /\ TypingTypes
  <2>1. typing = "off" /\ typingDone \in BOOLEAN
    BY Zenon DEF Init
  <2> QED
    BY <2>1, ScriptLength DEF Init, ServerTypes, HistoryTypes, LoopTypes, TypingTypes
<1>3. ListenTypes
  <2>1. receiveErr \in BOOLEAN
    BY Zenon DEF Init
  <2>2. poll = "off" /\ offset = 0 /\ batch = <<>>
    BY DEF Init
  <2>3. <<>> \in Seq(Ids)
    BY EmptySeq
  <2> QED
    BY <2>1, <2>2, <2>3, ScriptLength DEF ListenTypes
<1>4. QueueTypes
  <2>1. <<>> \in Seq(Ids) /\ Len(<<>>) = 0
    BY EmptySeq
  <2> QED
    BY <2>1, ListenerAssumption DEF Init, QueueTypes
<1>5. ReplyTypes
  <2>1. <<>> \in Seq(Pieces)
    BY EmptySeq
  <2> QED
    BY <2>1 DEF Init, ReplyTypes, NoChat, ChatTypes, TextTypes
<1> QED
  BY <1>1, <1>2, <1>3, <1>4, <1>5, TypesSplit DEF TelegramTypes

\* What a stream adds up to is a text, and a reply has at least one piece.
LEMMA Replies ==
    ASSUME chat \in ChatTypes
    PROVE  Split(ReplyTo(chat)) \in Seq(Pieces) /\ Split(ReplyTo(chat)) # <<>>
<1>1. <<"text">> \in Seq(Pieces) /\ <<>> \in Seq(Pieces)
  BY DEF Pieces
<1>2. TextTypes \subseteq Seq(Pieces)
  BY <1>1, ListenerAssumption DEF TextTypes, Pieces
<1>3. ReplyTo(chat) \in Seq(Pieces)
  BY <1>1, <1>2 DEF ReplyTo, ChatTypes
<1>4. IsBlank(<<>>)
  BY DEF IsBlank
<1>5. <<"text">> # <<>>
  OBVIOUS
<1> QED
  BY <1>1, <1>3, <1>4, <1>5 DEF Split

\* The steps of the process leave the listener alone or end it.
LEMMA TypesProcess == TelegramTypes /\ (LaunchProcess \/ ProcessStep) => TelegramTypes'
<1> SUFFICES ASSUME TelegramTypes, LaunchProcess \/ ProcessStep PROVE TelegramTypes'
  OBVIOUS
<1>1. CASE LaunchProcess
  <2>1. HistoryTypes'
    BY <1>1, ScriptLength DEF TelegramTypes, ServerTypes, Ids, LaunchProcess, HistoryTypes
  <2> QED
    BY <1>1, <2>1, Kept DEF LaunchProcess, TelegramTypes
<1>2. CASE ListenerGone /\ UNCHANGED historyVars
  <2>1. ListenTypes' /\ LoopTypes' /\ TypingTypes'
    <3>1. <<>> \in Seq(Ids)
      BY EmptySeq
    <3>2. receiveErr' \in BOOLEAN /\ typingDone' \in BOOLEAN
      BY <1>2, Zenon DEF ListenerGone
    <3>3. poll' = "off" /\ offset' = 0 /\ batch' = <<>>
      BY <1>2 DEF ListenerGone
    <3>4. ListenTypes'
      BY <3>1, <3>2, <3>3, ScriptLength DEF ListenTypes
    <3>5. LoopTypes' /\ TypingTypes'
      BY <1>2, <3>2 DEF ListenerGone, LoopTypes, TypingTypes
    <3> QED
      BY <3>4, <3>5
  <2>2. QueueTypes'
    <3>1. <<>> \in Seq(Ids) /\ Len(<<>>) = 0
      BY EmptySeq
    <3> QED
      BY <1>2, <3>1, ListenerAssumption DEF ListenerGone, QueueTypes
  <2>3. ReplyTypes'
    <3>1. <<>> \in Seq(Pieces)
      BY EmptySeq
    <3> QED
      BY <1>2, <3>1 DEF ListenerGone, ReplyTypes, NoChat, ChatTypes, TextTypes
  <2> QED
    BY <1>2, <2>1, <2>2, <2>3, Kept DEF ListenerGone, TelegramTypes
<1>3. CASE UNCHANGED telegramVars
  BY <1>3, Kept DEF telegramVars, TelegramTypes
<1> QED
  BY <1>1, <1>2, <1>3 DEF ProcessStep

\* The steps of Listen.
LEMMA TypesListen ==
    TelegramTypes /\ PollInv /\ (Listen \/ PollFail \/ ListenCancelled) => TelegramTypes'
<1> SUFFICES ASSUME TelegramTypes, PollInv, Listen \/ PollFail \/ ListenCancelled
             PROVE  TelegramTypes'
  OBVIOUS
<1>1. CASE PollSend
  <2>1. ServerTypes' /\ ListenTypes'
    BY <1>1, ScriptLength DEF PollSend, PollInv, Larger, TelegramTypes, ServerTypes, ListenTypes
  <2> QED
    BY <1>1, <2>1, Kept DEF PollSend, TelegramTypes
<1>2. CASE PollAnswer
  <2>1. arrived - acked \in Nat /\ \A k \in 1..(arrived - acked) : acked + k \in Ids
    BY ScriptLength DEF TelegramTypes, ServerTypes, Ids
  <2>2. batch' \in Seq(Ids) /\ Len(batch') = arrived - acked
    BY <1>2, <2>1, IsASeq DEF PollAnswer
  <2>3. batch' = <<>> <=> arrived = acked
    BY <2>1, <2>2, EmptySeq DEF TelegramTypes, ServerTypes
  <2>4. ListenTypes'
    BY <1>2, <2>2, <2>3 DEF PollAnswer, TelegramTypes, ListenTypes
  <2> QED
    BY <1>2, <2>4, Kept DEF PollAnswer, TelegramTypes
<1>3. CASE PollFail \/ ListenCancelled
  <2>1. ListenTypes'
    <3>1. <<>> \in Seq(Ids)
      BY EmptySeq
    <3> QED
      BY <1>3, <3>1 DEF PollFail, ListenCancelled, TelegramTypes, ListenTypes
  <2> QED
    BY <1>3, <2>1, Kept DEF PollFail, ListenCancelled, TelegramTypes
<1>4. CASE Broadcast \/ SkipUpdate
  <2>1. NextUpdate /\ batch # <<>> /\ batch \in Seq(Ids)
    BY <1>4 DEF Broadcast, SkipUpdate, NextUpdate, TelegramTypes, ListenTypes
  <2>2. /\ Head(batch) \in Ids /\ Tail(batch) \in Seq(Ids)
        /\ Len(batch) \in Nat /\ Len(Tail(batch)) = Len(batch) - 1
    BY <2>1, HeadAndTail
  <2>3. Tail(batch) = <<>> <=> Len(batch) = 1
    <3>1. Tail(batch) = <<>> <=> Len(Tail(batch)) = 0
      BY <2>2, EmptySeq
    <3> QED
      BY <2>2, <3>1
  <2>4. ListenTypes'
    <3>1. offset' \in 0..(Len(Script) + 1)
      BY <2>1, <2>2, ScriptLength DEF NextUpdate, Larger, TelegramTypes, ListenTypes, Ids
    <3> QED
      BY <2>1, <2>2, <2>3, <3>1 DEF NextUpdate, TelegramTypes, ListenTypes
  <2>5. QueueTypes'
    <3>1. CASE Broadcast
      <4>1. queue \in Seq(Ids) /\ Len(queue) < QueueSize /\ queue' = Append(queue, Head(batch))
        BY <3>1 DEF Broadcast, TelegramTypes, QueueTypes
      <4>2. queue' \in Seq(Ids) /\ Len(queue') = Len(queue) + 1 /\ Len(queue) \in Nat
        BY <2>2, <4>1, Appended
      <4> QED
        BY <4>1, <4>2, ListenerAssumption DEF QueueTypes
    <3>2. CASE SkipUpdate
      BY <3>2, Kept DEF SkipUpdate
    <3> QED
      BY <1>4, <3>1, <3>2
  <2> QED
    BY <2>1, <2>4, <2>5, Kept DEF NextUpdate, TelegramTypes
<1> QED
  BY <1>1, <1>2, <1>3, <1>4 DEF Listen

\* The steps of the loop.
LEMMA TypesLoop ==
    TelegramTypes /\ LoopInv /\ (Loop \/ SelectError \/ SendFails \/ SendBlank)
        => TelegramTypes'
<1> SUFFICES ASSUME TelegramTypes, LoopInv, Loop \/ SelectError \/ SendFails \/ SendBlank
             PROVE  TelegramTypes'
  OBVIOUS
<1>1. CASE StartListening
  <2>1. LoopTypes'
    BY <1>1 DEF StartListening, TelegramTypes, LoopTypes
  <2>2. ListenTypes'
    BY <1>1, ScriptLength DEF StartListening, LoopInv, TelegramTypes, ListenTypes
  <2> QED
    BY <1>1, <2>1, <2>2, Kept DEF StartListening, TelegramTypes
<1>2. CASE DropMessage \/ TakeMessage
  <2>1. queue \in Seq(Ids) /\ queue # <<>> /\ queue' = Tail(queue)
    BY <1>2 DEF DropMessage, TakeMessage, TelegramTypes, QueueTypes
  <2>2. /\ Head(queue) \in Ids /\ queue' \in Seq(Ids)
        /\ Len(queue) \in Nat /\ Len(queue') = Len(queue) - 1
    BY <2>1, HeadAndTail
  <2>3. QueueTypes'
    BY <2>2, ListenerAssumption DEF TelegramTypes, QueueTypes
  <2>4. LoopTypes' /\ HistoryTypes'
    BY <1>2, <2>2 DEF DropMessage, TakeMessage, TelegramTypes, LoopTypes, HistoryTypes, historyVars
  <2> QED
    BY <1>2, <2>3, <2>4, Kept DEF DropMessage, TakeMessage, TelegramTypes
<1>3. CASE StartPrompt
  <2>1. LoopTypes' /\ TypingTypes' /\ ReplyTypes'
    BY <1>3 DEF StartPrompt, NoChat, TelegramTypes, LoopTypes, TypingTypes, ReplyTypes,
                ChatTypes, TextTypes
  <2> QED
    BY <1>3, <2>1, Kept DEF StartPrompt, TelegramTypes
<1>4. CASE StreamEnd
  <2>1. ReplyTypes'
    BY <1>4, Replies DEF StreamEnd, TelegramTypes, ReplyTypes
  <2>2. LoopTypes' /\ TypingTypes'
    BY <1>4 DEF StreamEnd, TelegramTypes, LoopTypes, TypingTypes
  <2> QED
    BY <1>4, <2>1, <2>2, Kept DEF StreamEnd, TelegramTypes
<1>5. CASE AwaitTyping
  <2>1. LoopTypes'
    BY <1>5 DEF AwaitTyping, TelegramTypes, LoopTypes
  <2> QED
    BY <1>5, <2>1, Kept DEF AwaitTyping, TelegramTypes
<1>6. CASE SendPiece
  <2>1. reply \in Seq(Pieces) /\ reply # <<>> /\ reply' = Tail(reply)
    BY <1>6 DEF SendPiece, LoopInv, TelegramTypes, ReplyTypes
  <2>2. reply' \in Seq(Pieces)
    BY <2>1, HeadAndTail
  <2>3. ReplyTypes' /\ LoopTypes'
    BY <1>6, <2>2 DEF SendPiece, TelegramTypes, ReplyTypes, LoopTypes
  <2> QED
    BY <1>6, <2>3, Kept DEF SendPiece, TelegramTypes
<1>7. CASE SelectError \/ SendFails \/ SendBlank
  <2>1. LoopTypes'
    BY <1>7 DEF SelectError, SendFails, SendBlank, ReturnSendError, TelegramTypes, LoopTypes
  <2> QED
    BY <1>7, <2>1, Kept DEF SelectError, SendFails, SendBlank, ReturnSendError, TelegramTypes
<1> QED
  BY <1>1, <1>2, <1>3, <1>4, <1>5, <1>6, <1>7 DEF Loop

\* Arrivals, the stream and the typing goroutine.
LEMMA TypesOther ==
    TelegramTypes
    /\ (Arrive \/ StreamMessage \/ Expire \/ TypingTick \/ TypingSent \/ TypingExit)
        => TelegramTypes'
<1> SUFFICES ASSUME TelegramTypes, Arrive \/ StreamMessage \/ Expire \/ TypingTick
                                   \/ TypingSent \/ TypingExit
             PROVE  TelegramTypes'
  OBVIOUS
<1>1. CASE Arrive
  <2>1. ServerTypes'
    BY <1>1, ScriptLength DEF Arrive, TelegramTypes, ServerTypes
  <2> QED
    BY <1>1, <2>1, Kept DEF Arrive, TelegramTypes
<1>2. CASE StreamMessage \/ Expire
  <2>1. chat \in ChatTypes
    BY DEF TelegramTypes, ReplyTypes
  <2>2. ASSUME NEW t \in Texts
        PROVE  /\ [chat EXCEPT !.delta = t] \in ChatTypes
               /\ [chat EXCEPT !.final = t] \in ChatTypes
    BY <2>1 DEF ChatTypes, TextTypes
  <2>3. [chat EXCEPT !.failed = TRUE] \in ChatTypes /\ [chat EXCEPT !.expired = TRUE] \in ChatTypes
    BY <2>1 DEF ChatTypes, TextTypes
  <2>4. chat' \in ChatTypes
    BY <1>2, <2>2, <2>3 DEF StreamMessage, Expire
  <2>5. ReplyTypes'
    BY <1>2, <2>4 DEF StreamMessage, Expire, TelegramTypes, ReplyTypes
  <2> QED
    BY <1>2, <2>5, Kept DEF StreamMessage, Expire, TelegramTypes
<1>3. CASE TypingTick \/ TypingSent \/ TypingExit
  <2>1. typing' \in {"off", "idle", "sending"} /\ UNCHANGED typingDone
    BY <1>3 DEF TypingTick, TypingSent, TypingExit
  <2>2. TypingTypes'
    BY <2>1 DEF TelegramTypes, TypingTypes
  <2> QED
    BY <1>3, <2>2, Kept DEF TypingTick, TypingSent, TypingExit, TelegramTypes
<1> QED
  BY <1>1, <1>2, <1>3

-----------------------------------------------------------------------------
(* The loop and the process around it.                                      *)

\* While there is a loop, a step of the process that is not its end leaves the
\* command running or closing, and the configuration alone.
LEMMA ProcessOfLoop ==
    ASSUME LoopInv, pc # "off", StartUp \/ InteractiveReturns \/ CloseFactory
    PROVE  phase' \in {"running", "closing"} /\ UNCHANGED <<cfg, creds>>
<1>1. phase \in {"running", "closing"}
  BY DEF LoopInv
<1>2. CASE StartUp
  BY <1>1, <1>2 DEF StartUp, LoadConfig, LoadDotEnv, LoadCredentials, ValidateConfig,
        BuildTools, ConfigureDB, OpenSessionStore, ListSessions, OpenTraceStore, BuildRouter,
        Proceed, GiveUp
<1>3. CASE InteractiveReturns \/ CloseFactory
  BY <1>1, <1>3 DEF InteractiveReturns, CommandReturns, CloseFactory
<1> QED
  BY <1>2, <1>3

\* Nothing has begun.
LEMMA LoopInit == Init => LoopInv
  BY DEF Init, LoopInv

\* The steps of the process.
LEMMA LoopProcess == LoopInv /\ (LaunchProcess \/ ProcessStep) => LoopInv'
<1> SUFFICES ASSUME LoopInv, LaunchProcess \/ ProcessStep PROVE LoopInv'
  OBVIOUS
<1>1. CASE LaunchProcess
  BY <1>1 DEF LaunchProcess, Launch, LoopInv, listenVars, typingVars, replyVars
<1>2. CASE ListenerGone
  BY <1>2 DEF ListenerGone, LoopInv
<1>3. CASE (StartUp \/ InteractiveReturns \/ CloseFactory) /\ UNCHANGED telegramVars
  BY <1>3, ProcessOfLoop DEF LoopInv, telegramVars, listenVars, typingVars, replyVars
<1> QED
  BY <1>1, <1>2, <1>3 DEF ProcessStep

\* Listen's steps leave the loop alone.
LEMMA LoopListen ==
    TelegramTypes /\ LoopInv /\ (Listen \/ PollFail \/ ListenCancelled \/ Arrive) => LoopInv'
<1> SUFFICES ASSUME TelegramTypes, LoopInv, Listen \/ PollFail \/ ListenCancelled \/ Arrive
             PROVE  LoopInv'
  OBVIOUS
<1> USE DEF LoopInv, startupVars, listenVars, typingVars, replyVars
<1>1. CASE Broadcast \/ SkipUpdate
  BY <1>1 DEF Broadcast, SkipUpdate, NextUpdate
<1>2. CASE PollSend \/ PollAnswer
  BY <1>2 DEF PollSend, PollAnswer
<1>3. CASE PollFail \/ ListenCancelled \/ Arrive
  BY <1>3 DEF PollFail, ListenCancelled, Arrive
<1> QED
  BY <1>1, <1>2, <1>3 DEF Listen

\* The loop's own steps and those of the goroutines it starts.
LEMMA LoopOwn ==
    /\ TelegramTypes /\ LoopInv
    /\ \/ Loop \/ SelectError \/ SendFails \/ SendBlank
       \/ StreamMessage \/ Expire \/ TypingTick \/ TypingSent \/ TypingExit
    => LoopInv'
<1> SUFFICES ASSUME TelegramTypes, LoopInv,
                    \/ Loop \/ SelectError \/ SendFails \/ SendBlank
                    \/ StreamMessage \/ Expire \/ TypingTick \/ TypingSent \/ TypingExit
             PROVE  LoopInv'
  OBVIOUS
<1> USE DEF LoopInv, startupVars, listenVars, typingVars, replyVars
<1>1. CASE StartListening \/ DropMessage
  <2>1. DropMessage => pc = "select"
    BY DEF DropMessage
  <2> QED
    BY <1>1, <2>1 DEF StartListening, DropMessage
<1>2. CASE TakeMessage \/ StartPrompt \/ AwaitTyping
  BY <1>2 DEF TakeMessage, StartPrompt, AwaitTyping
<1>3. CASE StreamEnd
  BY <1>3, Replies DEF StreamEnd, TelegramTypes, ReplyTypes
<1>4. CASE SendPiece
  <2>1. reply \in Seq(Pieces) /\ reply # <<>> /\ reply' = Tail(reply)
    BY <1>4 DEF SendPiece, TelegramTypes, ReplyTypes
  <2>2. reply' \in Seq(Pieces) /\ Len(reply') = Len(reply) - 1 /\ Len(reply) \in Nat /\ Len(reply) > 0
    BY <2>1, HeadAndTail
  <2>3. Len(reply) # 1 => reply' # <<>>
    <3>1. reply' = <<>> => Len(reply') = 0
      BY <2>2, EmptySeq
    <3> QED
      BY <2>2, <3>1
  <2> QED
    BY <1>4, <2>3 DEF SendPiece
<1>5. CASE SelectError \/ SendFails \/ SendBlank
  BY <1>5 DEF SelectError, SendFails, SendBlank, ReturnSendError, CommandReturns
<1>6. CASE StreamMessage \/ Expire
  BY <1>6 DEF StreamMessage, Expire
<1>7. CASE TypingTick \/ TypingSent \/ TypingExit
  BY <1>7 DEF TypingTick, TypingSent, TypingExit
<1> QED
  BY <1>1, <1>2, <1>3, <1>4, <1>5, <1>6, <1>7 DEF Loop

-----------------------------------------------------------------------------
(* The poll, the queue and what was handled.                                *)

DeliveryInv == PollInv /\ QueueInv /\ HandledInv

\* What the delivery invariants are about: the Bot API, the poll, the queue, what was served.
deliveryVars == <<acked, poll, offset, batch, queue, historyVars>>

\* A step that does not touch the delivery, nor the allowlist under a loop, keeps the
\* invariants: more may have arrived, and a loop may have moved on.
LEMMA DeliveryKept ==
    ASSUME TelegramTypes, DeliveryInv, LoopInv, UNCHANGED deliveryVars,
           \E n \in {0, 1} : arrived' = arrived + n,
           pc' = "off" <=> pc = "off",
           pc # "off" => UNCHANGED creds,
           pc = "off" /\ phase \in {"off", "exited"} => phase' \in {"off", "exited"}
    PROVE  DeliveryInv'
<1> USE DEF deliveryVars, historyVars
<1>0. /\ acked' = acked /\ poll' = poll /\ offset' = offset /\ batch' = batch
      /\ queue' = queue /\ served' = served /\ floor' = floor
  OBVIOUS
<1> HIDE DEF deliveryVars
<1>1. PollInv'
  <2>1. /\ batch \in Seq(Ids) /\ acked \in Int /\ offset \in Int
        /\ \A k \in 1..Len(batch) : batch[k] \in Int
    BY ElementOfSeq DEF TelegramTypes, ServerTypes, ListenTypes, Ids
  <2>2. arrived \in Int
    BY ScriptLength DEF TelegramTypes, ServerTypes
  <2>3. /\ offset' <= arrived' + 1
        /\ \A k \in 1..Len(batch) : batch[k] = batch[1] + k - 1 /\ batch[k] <= arrived'
    <3>1. offset <= arrived + 1
      BY DEF DeliveryInv, PollInv
    <3>2. ASSUME NEW k \in 1..Len(batch)
          PROVE  batch[k] = batch[1] + k - 1 /\ batch[k] <= arrived'
      <4>1. batch[k] = batch[1] + k - 1 /\ batch[k] <= arrived /\ batch[k] \in Int
        BY <2>1 DEF DeliveryInv, PollInv
      <4> QED
        BY <2>2, <4>1
    <3>3. offset' <= arrived' + 1
      BY <1>0, <2>1, <2>2, <3>1
    <3> QED
      BY <3>2, <3>3
  <2> QED
    BY <1>0, <2>3 DEF DeliveryInv, PollInv
<1>2. QueueInv'
  BY <1>0 DEF DeliveryInv, QueueInv
<1>3. HandledInv'
  <2>1. ASSUME pc # "off" PROVE \A i \in Ids : (Due(i)' <=> Due(i)) /\ (Handled(i)' <=> Handled(i))
    BY <1>0, <2>1 DEF Due, IsAllowed, AllowedUsers, Handled
  <2>2. poll = "delivering" => pc # "off"
    BY DEF LoopInv
  <2> QED
    BY <1>0, <2>1, <2>2 DEF DeliveryInv, HandledInv
<1> QED
  BY <1>1, <1>2, <1>3 DEF DeliveryInv

\* Nothing was polled yet.
LEMMA DeliveryInit == Init => DeliveryInv
<1> SUFFICES ASSUME Init PROVE DeliveryInv
  OBVIOUS
<1>1. Len(<<>>) = 0
  BY EmptySeq
<1> QED
  BY <1>1, ScriptLength
     DEF Init, DeliveryInv, PollInv, QueueInv, HandledInv, StartupInit

\* Steps outside the delivery.
LEMMA DeliveryElsewhere ==
    /\ TelegramTypes /\ LoopInv /\ DeliveryInv
    /\ \/ Arrive \/ StartPrompt \/ StreamEnd \/ AwaitTyping \/ SendPiece
       \/ SelectError \/ SendFails \/ SendBlank
       \/ StreamMessage \/ Expire \/ TypingTick \/ TypingSent \/ TypingExit
    => DeliveryInv'
<1> SUFFICES ASSUME TelegramTypes, LoopInv, DeliveryInv,
                    \/ Arrive \/ StartPrompt \/ StreamEnd \/ AwaitTyping \/ SendPiece
                    \/ SelectError \/ SendFails \/ SendBlank
                    \/ StreamMessage \/ Expire \/ TypingTick \/ TypingSent \/ TypingExit
             PROVE  DeliveryInv'
  OBVIOUS
<1> USE DEF deliveryVars, startupVars, serverVars, listenVars, historyVars
<1>1. UNCHANGED deliveryVars /\ UNCHANGED creds /\ (pc' = "off" <=> pc = "off")
  <2>1. CASE Arrive \/ StartPrompt \/ StreamEnd \/ AwaitTyping
    BY <2>1 DEF Arrive, StartPrompt, StreamEnd, AwaitTyping
  <2>2. CASE SendPiece \/ SelectError \/ SendFails \/ SendBlank
    BY <2>2 DEF SendPiece, SelectError, SendFails, SendBlank, ReturnSendError, CommandReturns
  <2>3. CASE StreamMessage \/ Expire \/ TypingTick \/ TypingSent \/ TypingExit
    BY <2>3 DEF StreamMessage, Expire, TypingTick, TypingSent, TypingExit
  <2> QED
    BY <2>1, <2>2, <2>3
<1>2. \E n \in {0, 1} : arrived' = arrived + n
  <2>1. arrived \in Int
    BY ScriptLength DEF TelegramTypes, ServerTypes
  <2>2. arrived' = arrived \/ arrived' = arrived + 1
    <3>1. CASE Arrive
      BY <3>1 DEF Arrive
    <3>2. CASE StartPrompt \/ StreamEnd \/ AwaitTyping \/ SendPiece
      BY <3>2 DEF StartPrompt, StreamEnd, AwaitTyping, SendPiece
    <3>3. CASE SelectError \/ SendFails \/ SendBlank
      BY <3>3 DEF SelectError, SendFails, SendBlank, ReturnSendError
    <3>4. CASE StreamMessage \/ Expire \/ TypingTick \/ TypingSent \/ TypingExit
      BY <3>4 DEF StreamMessage, Expire, TypingTick, TypingSent, TypingExit
    <3> QED
      BY <3>1, <3>2, <3>3, <3>4
  <2>3. arrived + 0 = arrived
    BY <2>1
  <2> QED
    BY <2>2, <2>3
<1>3. pc = "off" /\ phase \in {"off", "exited"} => phase' \in {"off", "exited"}
  <2>1. CASE Arrive
    BY <2>1 DEF Arrive
  <2>2. CASE StartPrompt \/ StreamEnd \/ AwaitTyping \/ SendPiece
             \/ SelectError \/ SendFails \/ SendBlank
    BY <2>2 DEF StartPrompt, StreamEnd, AwaitTyping, SendPiece, SelectError, SendFails,
                SendBlank, ReturnSendError
  <2>3. CASE StreamMessage \/ Expire \/ TypingTick \/ TypingSent \/ TypingExit
    BY <2>3 DEF StreamMessage, Expire, TypingTick, TypingSent, TypingExit
  <2> QED
    BY <2>1, <2>2, <2>3
<1> HIDE DEF deliveryVars, startupVars, serverVars, listenVars, historyVars
<1> QED
  BY <1>1, <1>2, <1>3, DeliveryKept

\* A life begins, goes on or ends: it starts at what was acknowledged.
LEMMA DeliveryProcess ==
    /\ TelegramTypes /\ LoopInv /\ DeliveryInv
    /\ LaunchProcess \/ ProcessStep
    => DeliveryInv'
<1> SUFFICES ASSUME TelegramTypes, LoopInv, DeliveryInv, LaunchProcess \/ ProcessStep
             PROVE  DeliveryInv'
  OBVIOUS
<1>1. acked \in Int /\ arrived \in Int /\ 0 <= acked /\ acked <= arrived /\ 0 <= arrived
  BY ScriptLength DEF TelegramTypes, ServerTypes
<1>2. CASE LaunchProcess
  <2>1. phase \in {"off", "exited"} /\ pc = "off" /\ pc' = "off"
    BY <1>2 DEF LaunchProcess, Launch, LoopInv
  <2>2. /\ served' = acked /\ floor' = acked /\ acked' = acked /\ arrived' = arrived
        /\ poll' = "off" /\ offset' = offset /\ batch' = batch /\ queue' = <<>>
    BY <1>2, <2>1 DEF LaunchProcess, LoopInv, serverVars, listenVars
  <2>3. PollInv'
    BY <1>1, <2>1, <2>2 DEF DeliveryInv, PollInv
  <2>4. Len(queue') = 0
    BY <2>2, EmptySeq
  <2>5. QueueInv' /\ HandledInv'
    BY <1>1, <2>1, <2>2, <2>4 DEF QueueInv, HandledInv
  <2> QED
    BY <2>3, <2>5 DEF DeliveryInv
<1>3. CASE (CloseProvider \/ Kill) /\ ListenerGone /\ UNCHANGED historyVars
  <2>1. /\ pc' = "off" /\ phase' \in {"off", "exited"}
        /\ poll' = "off" /\ offset' = 0 /\ batch' = <<>> /\ queue' = <<>>
        /\ acked' = acked /\ arrived' = arrived /\ served' = served /\ floor' = floor
    BY <1>3 DEF CloseProvider, Kill, ListenerGone, serverVars, historyVars
  <2>2. Len(<<>>) = 0
    BY EmptySeq
  <2>3. PollInv'
    BY <1>1, <2>1, <2>2 DEF DeliveryInv, PollInv
  <2>4. QueueInv' /\ HandledInv'
    BY <2>1, <2>2 DEF DeliveryInv, QueueInv, HandledInv
  <2> QED
    BY <2>3, <2>4 DEF DeliveryInv
<1>4. CASE (StartUp \/ InteractiveReturns \/ CloseFactory) /\ UNCHANGED telegramVars
  <2>1. UNCHANGED deliveryVars /\ arrived' = arrived /\ pc' = pc
    BY <1>4 DEF telegramVars, deliveryVars, serverVars, listenVars, historyVars
  <2>2. \E n \in {0, 1} : arrived' = arrived + n
    BY <1>1, <2>1
  <2>3. pc # "off" => UNCHANGED creds
    BY <1>4, ProcessOfLoop
  <2>4. phase \notin {"off", "exited"}
    BY <1>4 DEF StartUp, LoadConfig, LoadDotEnv, LoadCredentials, ValidateConfig, BuildTools,
        ConfigureDB, OpenSessionStore, ListSessions, OpenTraceStore, BuildRouter, Proceed,
        GiveUp, InteractiveReturns, CommandReturns, CloseFactory
  <2> QED
    BY <2>1, <2>2, <2>3, <2>4, DeliveryKept
<1> QED
  BY <1>2, <1>3, <1>4 DEF ProcessStep

\* The listener starts polling at offset zero, with nothing handled in this life.
LEMMA DeliveryStart ==
    TelegramTypes /\ LoopInv /\ DeliveryInv /\ StartListening => DeliveryInv'
<1> SUFFICES ASSUME TelegramTypes, LoopInv, DeliveryInv, StartListening PROVE DeliveryInv'
  OBVIOUS
<1>1. /\ pc = "off" /\ phase = "running" /\ pc' = "select" /\ poll' = "idle" /\ offset' = 0
      /\ acked' = acked /\ arrived' = arrived /\ batch' = batch /\ queue' = queue
      /\ served' = served /\ floor' = floor /\ queue = <<>> /\ poll = "off"
  BY DEF StartListening, LoopInv, serverVars, historyVars
<1>2. floor = acked /\ served = floor
  BY <1>1 DEF DeliveryInv, PollInv
<1>3. acked \in Int /\ arrived \in Int /\ 0 <= acked /\ acked <= arrived
  BY ScriptLength DEF TelegramTypes, ServerTypes
<1>4. PollInv'
  BY <1>1, <1>2, <1>3 DEF DeliveryInv, PollInv
<1>5. QueueInv'
  <2>1. Len(queue') = 0
    BY <1>1, EmptySeq
  <2> QED
    BY <1>1, <1>2, <1>3, <2>1 DEF QueueInv
<1>6. HandledInv'
  BY <1>1, <1>2, <1>3 DEF HandledInv, Ids
<1> QED
  BY <1>4, <1>5, <1>6 DEF DeliveryInv

\* Types the poll's steps need, in one place.
LEMMA DeliveryTypes ==
    ASSUME TelegramTypes
    PROVE  /\ Len(Script) \in Nat
           /\ arrived \in Nat /\ acked \in Nat /\ acked <= arrived /\ offset \in Nat
           /\ served \in Nat /\ floor \in Nat
           /\ batch \in Seq(Ids) /\ Len(batch) \in Nat
           /\ \A k \in 1..Len(batch) : batch[k] \in Ids /\ batch[k] \in Nat
           /\ queue \in Seq(Ids) /\ Len(queue) \in Nat /\ DOMAIN queue = 1..Len(queue)
           /\ \A k \in 1..Len(queue) : queue[k] \in Ids /\ queue[k] \in Nat
<1>1. Len(Script) \in Nat /\ arrived \in Nat /\ acked \in Nat /\ acked <= arrived /\ offset \in Nat
  BY ScriptLength DEF TelegramTypes, ServerTypes, ListenTypes
<1>2. served \in Nat /\ floor \in Nat
  BY ScriptLength DEF TelegramTypes, HistoryTypes, Ids
<1>3. batch \in Seq(Ids) /\ queue \in Seq(Ids)
  BY DEF TelegramTypes, ListenTypes, QueueTypes
<1>4. Len(batch) \in Nat /\ Len(queue) \in Nat /\ DOMAIN queue = 1..Len(queue)
  BY <1>3, LenProperties
<1>5. \A k \in 1..Len(batch) : batch[k] \in Ids
  BY <1>3, ElementOfSeq
<1>6. \A k \in 1..Len(queue) : queue[k] \in Ids
  BY <1>3, ElementOfSeq
<1>7. \A i \in Ids : i \in Nat
  BY <1>1 DEF Ids
<1> QED
  BY <1>1, <1>2, <1>3, <1>4, <1>5, <1>6, <1>7

\* What is due and what is handled do not change while allowlist and queue do not.
LEMMA SameHandled ==
    ASSUME UNCHANGED creds, UNCHANGED queue, UNCHANGED served
    PROVE  \A i : (Due(i)' <=> Due(i)) /\ (Handled(i)' <=> Handled(i))
  BY DEF Due, IsAllowed, AllowedUsers, Handled

\* A poll is sent: the Bot API forgets what is before the offset, and all that was handled.
LEMMA DeliveryPollSend ==
    TelegramTypes /\ LoopInv /\ DeliveryInv /\ PollSend => DeliveryInv'
<1> SUFFICES ASSUME TelegramTypes, LoopInv, DeliveryInv, PollSend PROVE DeliveryInv'
  OBVIOUS
<1>1. /\ poll = "idle" /\ poll' = "waiting" /\ acked' = Larger(acked, offset - 1)
      /\ arrived' = arrived /\ offset' = offset /\ batch' = batch /\ queue' = queue
      /\ served' = served /\ floor' = floor /\ pc' = pc /\ pc # "off" /\ creds' = creds
      /\ phase' = phase
  BY DEF PollSend, startupVars, historyVars, LoopInv
<1>2. acked <= acked' /\ offset <= acked' + 1 /\ (acked' = acked \/ acked' < offset) /\ acked' \in Int
  BY <1>1, DeliveryTypes DEF Larger
<1>3. PollInv'
  BY <1>1, <1>2, DeliveryTypes DEF DeliveryInv, PollInv
<1>4. QueueInv'
  BY <1>1 DEF DeliveryInv, QueueInv
<1>5. HandledInv'
  BY <1>1, SameHandled DEF DeliveryInv, HandledInv
<1> QED
  BY <1>3, <1>4, <1>5 DEF DeliveryInv

\* The answer begins right after what the Bot API was told to forget.
LEMMA DeliveryPollAnswer ==
    TelegramTypes /\ LoopInv /\ DeliveryInv /\ PollAnswer => DeliveryInv'
<1> SUFFICES ASSUME TelegramTypes, LoopInv, DeliveryInv, PollAnswer PROVE DeliveryInv'
  OBVIOUS
<1>1. /\ poll = "waiting" /\ batch' = [k \in 1..(arrived - acked) |-> acked + k]
      /\ poll' = (IF arrived = acked THEN "idle" ELSE "delivering")
      /\ acked' = acked /\ arrived' = arrived /\ offset' = offset /\ queue' = queue
      /\ served' = served /\ floor' = floor /\ pc' = pc /\ pc # "off" /\ creds' = creds
      /\ phase' = phase
  BY DEF PollAnswer, startupVars, serverVars, historyVars, LoopInv
<1>2. arrived - acked \in Nat
  BY DeliveryTypes
<1>3. Len(batch') = arrived - acked
  BY <1>1, <1>2
<1>4. \A k \in 1..Len(batch') : batch'[k] = acked + k
  BY <1>1, <1>3
<1>5. poll' = "delivering" => batch'[1] = acked + 1
  BY <1>1, <1>2, <1>3, <1>4, DeliveryTypes
<1>6. offset <= acked + 1
  BY <1>1 DEF DeliveryInv, PollInv
<1>7. \A k \in 1..Len(batch') : batch'[k] = batch'[1] + k - 1 /\ batch'[k] <= arrived
  <2> SUFFICES ASSUME NEW k \in 1..Len(batch')
               PROVE  batch'[k] = batch'[1] + k - 1 /\ batch'[k] <= arrived
    OBVIOUS
  <2>1. 1 \in 1..Len(batch') /\ k \in Nat /\ k <= arrived - acked
    BY <1>2, <1>3
  <2>2. batch'[1] = acked + 1 /\ batch'[k] = acked + k
    BY <1>4, <2>1
  <2> QED
    BY <2>1, <2>2, DeliveryTypes
<1>8. PollInv'
  <2>1. poll' # "waiting" /\ pc' # "off"
    BY <1>1
  <2>2. poll' = "delivering" => offset' <= batch'[1] /\ acked' < batch'[1]
    BY <1>1, <1>5, <1>6, DeliveryTypes
  <2>3. floor' <= acked' /\ (acked' <= floor' \/ acked' < offset') /\ offset' <= arrived' + 1
    BY <1>1 DEF DeliveryInv, PollInv
  <2>4. \A k \in 1..Len(batch') : batch'[k] = batch'[1] + k - 1 /\ batch'[k] <= arrived'
    BY <1>1, <1>7
  <2> QED
    BY <2>1, <2>2, <2>3, <2>4 DEF PollInv
<1>9. QueueInv'
  BY <1>1 DEF DeliveryInv, QueueInv
<1>10. HandledInv'
  <2>1. \A i \in Ids : floor < i /\ i < offset /\ Due(i) => Handled(i)
    BY <1>1 DEF DeliveryInv, HandledInv
  <2>2. \A i \in Ids : floor < i /\ i < acked + 1 /\ Due(i) => Handled(i)
    <3>1. acked <= floor \/ acked < offset
      BY <1>1 DEF DeliveryInv, PollInv
    <3>2. \A i \in Ids : i \in Nat
      BY ScriptLength DEF Ids
    <3> QED
      BY <2>1, <3>1, <3>2, DeliveryTypes
  <2> QED
    BY <1>1, <1>5, <2>1, <2>2, SameHandled DEF HandledInv
<1> QED
  BY <1>8, <1>9, <1>10 DEF DeliveryInv

\* Listen gives up, by itself or because the loop has returned.
LEMMA DeliveryPollEnds ==
    TelegramTypes /\ LoopInv /\ DeliveryInv /\ (PollFail \/ ListenCancelled) => DeliveryInv'
<1> SUFFICES ASSUME TelegramTypes, LoopInv, DeliveryInv, PollFail \/ ListenCancelled
             PROVE  DeliveryInv'
  OBVIOUS
<1>1. /\ poll' = "off" /\ (batch' = batch \/ batch' = <<>>)
      /\ acked' = acked /\ arrived' = arrived /\ offset' = offset /\ queue' = queue
      /\ served' = served /\ floor' = floor /\ pc' = pc /\ pc # "off" /\ creds' = creds
      /\ phase' = phase
  BY DEF PollFail, ListenCancelled, startupVars, serverVars, historyVars, LoopInv
<1>2. Len(<<>>) = 0
  BY EmptySeq
<1>3. \A k \in 1..Len(batch') : batch'[k] = batch'[1] + k - 1 /\ batch'[k] <= arrived
  BY <1>1, <1>2 DEF DeliveryInv, PollInv
<1>4. PollInv'
  BY <1>1, <1>3 DEF DeliveryInv, PollInv
<1>5. QueueInv'
  BY <1>1 DEF DeliveryInv, QueueInv
<1>6. HandledInv'
  BY <1>1, SameHandled DEF DeliveryInv, HandledInv
<1> QED
  BY <1>4, <1>5, <1>6 DEF DeliveryInv

\* What NextUpdate does to the poll, with a batch of consecutive updates.
LEMMA Advance ==
    ASSUME TelegramTypes, LoopInv, DeliveryInv, NextUpdate
    PROVE  /\ poll = "delivering" /\ Head(batch) = batch[1] /\ batch[1] \in Ids
           /\ offset <= batch[1] /\ acked < batch[1] /\ batch[1] <= arrived
           /\ offset' = batch[1] + 1
           /\ poll' \in {"idle", "delivering"}
           /\ poll' = "delivering" => batch'[1] = batch[1] + 1
           /\ \A k \in 1..Len(batch') : batch'[k] = batch'[1] + k - 1 /\ batch'[k] <= arrived
           /\ acked' = acked /\ arrived' = arrived /\ served' = served /\ floor' = floor
           /\ pc' = pc /\ pc # "off" /\ creds' = creds /\ phase' = phase
<1>1. /\ poll = "delivering" /\ offset' = Larger(offset, Head(batch) + 1) /\ batch' = Tail(batch)
      /\ poll' = (IF Len(batch) = 1 THEN "idle" ELSE "delivering")
      /\ acked' = acked /\ arrived' = arrived /\ served' = served /\ floor' = floor
      /\ pc' = pc /\ pc # "off" /\ creds' = creds /\ phase' = phase
  BY DEF NextUpdate, startupVars, serverVars, historyVars, LoopInv
<1>2. batch \in Seq(Ids) /\ batch # <<>>
  BY <1>1 DEF TelegramTypes, ListenTypes
<1>3. /\ Head(batch) = batch[1] /\ Head(batch) \in Ids
      /\ Len(batch) \in Nat /\ Len(batch) > 0 /\ Len(batch') = Len(batch) - 1
      /\ \A k \in 1..Len(batch') : k + 1 \in 1..Len(batch) /\ batch'[k] = batch[k + 1]
  BY <1>1, <1>2, HeadAndTail
<1>4. /\ offset <= batch[1] /\ acked < batch[1]
      /\ \A k \in 1..Len(batch) : batch[k] = batch[1] + k - 1 /\ batch[k] <= arrived
  BY <1>1 DEF DeliveryInv, PollInv
<1>5. batch[1] \in Nat
  BY <1>3, DeliveryTypes DEF Ids
<1>6. offset' = batch[1] + 1
  BY <1>1, <1>3, <1>4, <1>5, DeliveryTypes DEF Larger
<1>7. \A k \in 1..Len(batch') : batch'[k] = batch[1] + k /\ batch'[k] <= arrived
  <2> SUFFICES ASSUME NEW k \in 1..Len(batch')
               PROVE  batch'[k] = batch[1] + k /\ batch'[k] <= arrived
    OBVIOUS
  <2>1. k + 1 \in 1..Len(batch) /\ batch'[k] = batch[k + 1] /\ k \in Nat
    BY <1>3
  <2>2. batch[k + 1] = batch[1] + (k + 1) - 1 /\ batch[k + 1] <= arrived
    BY <1>4, <2>1
  <2> QED
    BY <1>5, <2>1, <2>2
<1>8. \A k \in 1..Len(batch') : batch'[k] = batch'[1] + k - 1
  <2> SUFFICES ASSUME NEW k \in 1..Len(batch') PROVE batch'[k] = batch'[1] + k - 1
    OBVIOUS
  <2>1. 1 \in 1..Len(batch') /\ k \in Nat
    BY <1>3
  <2>2. batch'[1] = batch[1] + 1 /\ batch'[k] = batch[1] + k
    BY <1>7, <2>1
  <2> QED
    BY <1>5, <2>1, <2>2
<1>9. poll' = "delivering" => batch'[1] = batch[1] + 1
  <2>1. poll' = "delivering" => Len(batch) # 1
    BY <1>1
  <2>2. Len(batch) # 1 => Len(batch') >= 1 /\ Len(batch') \in Nat
    BY <1>3
  <2>3. poll' = "delivering" => 1 \in 1..Len(batch')
    BY <2>1, <2>2
  <2> QED
    BY <1>7, <2>3
<1>10. batch[1] <= arrived
  BY <1>3, <1>4
<1> QED
  BY <1>1, <1>3, <1>4, <1>6, <1>7, <1>8, <1>9, <1>10

\* An update is put into the queue, behind everything that is in it, or passed over
\* because nobody could be answered.
LEMMA DeliveryAdvance ==
    TelegramTypes /\ LoopInv /\ DeliveryInv /\ (Broadcast \/ SkipUpdate) => DeliveryInv'
<1> SUFFICES ASSUME TelegramTypes, LoopInv, DeliveryInv, Broadcast \/ SkipUpdate
             PROVE  DeliveryInv'
  OBVIOUS
<1> DEFINE b == batch[1]
<1>1. NextUpdate
  BY DEF Broadcast, SkipUpdate
<1>2. /\ poll = "delivering" /\ Head(batch) = b /\ b \in Ids
      /\ offset <= b /\ acked < b /\ b <= arrived
      /\ offset' = b + 1
      /\ poll' \in {"idle", "delivering"}
      /\ poll' = "delivering" => batch'[1] = b + 1
      /\ \A k \in 1..Len(batch') : batch'[k] = batch'[1] + k - 1 /\ batch'[k] <= arrived
      /\ acked' = acked /\ arrived' = arrived /\ served' = served /\ floor' = floor
      /\ pc' = pc /\ pc # "off" /\ creds' = creds /\ phase' = phase
  BY <1>1, Advance
<1>3. b \in Nat /\ \A i \in Ids : i \in Nat
  BY <1>2, ScriptLength DEF Ids
<1> HIDE DEF b
<1>4. PollInv'
  <2>1. poll' # "waiting" /\ pc' # "off"
    BY <1>2
  <2>2. poll' = "delivering" => offset' <= batch'[1] /\ acked' < batch'[1]
    BY <1>2, <1>3, DeliveryTypes
  <2>3. floor' <= acked' /\ acked' < offset' /\ offset' <= arrived' + 1
    BY <1>2, <1>3, DeliveryTypes DEF DeliveryInv, PollInv
  <2>4. \A k \in 1..Len(batch') : batch'[k] = batch'[1] + k - 1 /\ batch'[k] <= arrived'
    BY <1>2
  <2> QED
    BY <2>1, <2>2, <2>3, <2>4 DEF PollInv
<1>5. /\ queue \in Seq(Ids) /\ Len(queue) \in Nat /\ DOMAIN queue = 1..Len(queue)
      /\ \A k \in 1..Len(queue) : queue[k] \in Nat
      /\ served \in Nat /\ floor \in Nat /\ acked \in Nat /\ offset \in Nat
  BY DeliveryTypes
<1>6. floor <= served /\ served < b
  BY <1>2, <1>3, <1>5 DEF DeliveryInv, QueueInv, PollInv
<1>7. /\ \A k \in 1..Len(queue) : served < queue[k] /\ queue[k] < b
      /\ \A j, k \in 1..Len(queue) : j < k => queue[j] < queue[k]
  BY <1>2, <1>3, <1>5 DEF DeliveryInv, QueueInv
<1>8. \A i \in Ids : floor < i /\ i < b /\ Due(i) => Handled(i)
  BY <1>2 DEF DeliveryInv, HandledInv, b
<1>9. CASE Broadcast
  <2>1. queue' = Append(queue, b)
    BY <1>2, <1>9 DEF Broadcast
  <2>2. /\ queue' \in Seq(Ids) /\ Len(queue') = Len(queue) + 1
        /\ \A k \in 1..Len(queue) : queue'[k] = queue[k]
        /\ queue'[Len(queue) + 1] = b
    BY <1>2, <1>5, <2>1, Appended
  <2>3. \A k \in 1..Len(queue') : k \in 1..Len(queue) \/ k = Len(queue) + 1
    BY <1>5, <2>2
  <2>4. \A k \in 1..Len(queue') : served < queue'[k] /\ queue'[k] < offset'
    BY <1>2, <1>3, <1>5, <1>6, <1>7, <2>2, <2>3
  <2>5. \A j, k \in 1..Len(queue') : j < k => queue'[j] < queue'[k]
    <3> SUFFICES ASSUME NEW j \in 1..Len(queue'), NEW k \in 1..Len(queue'), j < k
                 PROVE  queue'[j] < queue'[k]
      OBVIOUS
    <3>1. j \in 1..Len(queue)
      BY <1>5, <2>2
    <3>2. CASE k \in 1..Len(queue)
      BY <1>7, <2>2, <3>1, <3>2
    <3>3. CASE k = Len(queue) + 1
      BY <1>7, <2>2, <3>1, <3>3
    <3> QED
      BY <2>3, <3>2, <3>3
  <2>6. QueueInv'
    BY <1>2, <1>3, <1>5, <1>6, <2>4, <2>5 DEF QueueInv
  <2>7. \A i \in Ids : floor < i /\ i < b + 1 /\ Due(i)' => Handled(i)'
    <3> SUFFICES ASSUME NEW i \in Ids, floor < i, i < b + 1, Due(i)' PROVE Handled(i)'
      OBVIOUS
    <3>1. DOMAIN queue' = 1..Len(queue')
      BY <2>2, LenProperties
    <3>2. CASE i = b
      <4>1. Len(queue) + 1 \in DOMAIN queue'
        BY <1>5, <2>2, <3>1
      <4> QED
        BY <2>2, <3>2, <4>1 DEF Handled
    <3>3. CASE i < b
      <4>1. Due(i)
        BY <1>2 DEF Due, IsAllowed, AllowedUsers
      <4>2. i <= served \/ \E k \in 1..Len(queue) : queue[k] = i
        BY <1>5, <1>8, <3>3, <4>1 DEF Handled
      <4>3. ASSUME NEW k \in 1..Len(queue) PROVE k \in DOMAIN queue' /\ queue'[k] = queue[k]
        BY <1>5, <2>2, <3>1
      <4> QED
        BY <1>2, <4>2, <4>3 DEF Handled
    <3> QED
      BY <1>3, <3>2, <3>3
  <2>8. HandledInv'
    BY <1>2, <2>7 DEF HandledInv
  <2> QED
    BY <1>4, <2>6, <2>8 DEF DeliveryInv
<1>10. CASE SkipUpdate
  <2>1. queue' = queue /\ ~Due(b)
    BY <1>2, <1>10 DEF SkipUpdate, Due
  <2>2. \A k \in 1..Len(queue) : queue[k] < b + 1
    BY <1>3, <1>5, <1>7
  <2>3. QueueInv'
    BY <1>2, <1>3, <1>5, <1>6, <1>7, <2>1, <2>2 DEF QueueInv
  <2>4. \A i \in Ids : floor < i /\ i < b + 1 /\ Due(i) => Handled(i)
    BY <1>3, <1>8, <2>1
  <2>5. HandledInv'
    BY <1>2, <2>1, <2>4, SameHandled DEF HandledInv
  <2> QED
    BY <1>4, <2>3, <2>5 DEF DeliveryInv
<1> QED
  BY <1>9, <1>10

\* The queue's first message is taken or dropped: it was the earliest.
LEMMA Dequeue ==
    ASSUME TelegramTypes, DeliveryInv, queue # <<>>, queue' = Tail(queue)
    PROVE  /\ Head(queue) = queue[1] /\ queue[1] \in Ids /\ queue[1] \in Nat
           /\ 1 \in DOMAIN queue /\ served < queue[1] /\ queue[1] < offset
           /\ \A k \in 1..Len(queue') : queue[1] < queue'[k] /\ queue'[k] < offset
           /\ \A j, k \in 1..Len(queue') : j < k => queue'[j] < queue'[k]
           /\ \A k \in DOMAIN queue : k = 1 \/ \E j \in DOMAIN queue' : queue'[j] = queue[k]
<1>1. /\ queue \in Seq(Ids) /\ Len(queue) \in Nat /\ DOMAIN queue = 1..Len(queue)
  BY DeliveryTypes
<1>2. /\ Head(queue) = queue[1] /\ Len(queue) > 0 /\ Len(queue') = Len(queue) - 1
      /\ queue' \in Seq(Ids)
      /\ \A k \in 1..Len(queue') : k + 1 \in 1..Len(queue) /\ queue'[k] = queue[k + 1]
  BY <1>1, HeadAndTail
<1>3. 1 \in 1..Len(queue) /\ queue[1] \in Ids /\ queue[1] \in Nat
  BY <1>1, <1>2, DeliveryTypes
<1>4. DOMAIN queue' = 1..Len(queue')
  BY <1>2, LenProperties
<1>5. /\ \A k \in 1..Len(queue) : served < queue[k] /\ queue[k] < offset
      /\ \A j, k \in 1..Len(queue) : j < k => queue[j] < queue[k]
  BY DEF DeliveryInv, QueueInv
<1>6. ASSUME NEW k \in 1..Len(queue') PROVE queue[1] < queue'[k] /\ queue'[k] < offset
  <2>1. k + 1 \in 1..Len(queue) /\ queue'[k] = queue[k + 1] /\ 1 < k + 1
    BY <1>2
  <2> QED
    BY <1>3, <1>5, <2>1
<1>7. ASSUME NEW j \in 1..Len(queue'), NEW k \in 1..Len(queue'), j < k
      PROVE  queue'[j] < queue'[k]
  <2>1. /\ k + 1 \in 1..Len(queue) /\ queue'[k] = queue[k + 1]
        /\ j + 1 \in 1..Len(queue) /\ queue'[j] = queue[j + 1] /\ j + 1 < k + 1
    BY <1>2, <1>7
  <2> QED
    BY <1>5, <2>1
<1>8. ASSUME NEW k \in DOMAIN queue, k # 1
      PROVE  \E j \in DOMAIN queue' : queue'[j] = queue[k]
  <2>1. k - 1 \in 1..Len(queue') /\ (k - 1) + 1 = k
    BY <1>1, <1>2, <1>8
  <2> QED
    BY <1>2, <1>4, <2>1
<1> QED
  BY <1>1, <1>2, <1>3, <1>5, <1>6, <1>7, <1>8

\* Taking keeps the order; dropping forgets only who may not be answered.
LEMMA DeliveryDequeue ==
    TelegramTypes /\ LoopInv /\ DeliveryInv /\ (DropMessage \/ TakeMessage) => DeliveryInv'
<1> SUFFICES ASSUME TelegramTypes, LoopInv, DeliveryInv, DropMessage \/ TakeMessage
             PROVE  DeliveryInv'
  OBVIOUS
<1>1. /\ queue # <<>> /\ queue' = Tail(queue) /\ pc = "select" /\ pc' # "off"
      /\ acked' = acked /\ arrived' = arrived /\ floor' = floor /\ poll' = poll
      /\ offset' = offset /\ batch' = batch /\ creds' = creds /\ phase' = phase
      /\ served' = served \/ served' = Head(queue)
  BY DEF DropMessage, TakeMessage, startupVars, serverVars, listenVars, historyVars
<1>2. /\ Head(queue) = queue[1] /\ queue[1] \in Nat
      /\ served < queue[1] /\ queue[1] < offset
      /\ \A k \in 1..Len(queue') : queue[1] < queue'[k] /\ queue'[k] < offset
      /\ \A j, k \in 1..Len(queue') : j < k => queue'[j] < queue'[k]
      /\ \A k \in DOMAIN queue : k = 1 \/ \E j \in DOMAIN queue' : queue'[j] = queue[k]
  BY <1>1, Dequeue
<1>3. PollInv'
  BY <1>1 DEF DeliveryInv, PollInv
<1>4. served \in Nat /\ floor \in Nat /\ offset \in Nat /\ queue' \in Seq(Ids)
  BY <1>1, HeadAndTail, DeliveryTypes
<1>5. \A k \in 1..Len(queue') : queue'[k] \in Nat
  BY <1>4, ElementOfSeq, ScriptLength DEF Ids
<1>6. floor <= served' /\ (served' = floor \/ served' < offset) /\ served <= served'
  BY <1>1, <1>2, <1>4 DEF DeliveryInv, QueueInv
<1>7. \A k \in 1..Len(queue') : served' < queue'[k]
  BY <1>1, <1>2, <1>4, <1>5
<1>8. QueueInv'
  BY <1>1, <1>2, <1>6, <1>7 DEF QueueInv
<1>9. ASSUME NEW i \in Ids, Due(i)', Handled(i) PROVE Handled(i)'
  <2>1. i \in Nat /\ served' \in Nat
    BY <1>1, <1>2, <1>4, ScriptLength DEF Ids
  <2>2. CASE i <= served
    BY <1>4, <1>6, <2>1, <2>2 DEF Handled
  <2>3. ASSUME NEW k \in DOMAIN queue, queue[k] = i PROVE Handled(i)'
    <3>1. CASE k = 1 /\ TakeMessage
      BY <1>2, <2>1, <2>3, <3>1 DEF TakeMessage, Handled
    <3>2. CASE k = 1 /\ DropMessage
      <4>1. i = Head(queue)
        BY <1>2, <2>3, <3>2
      <4>2. ~IsAllowed(UserOf(Script[i]))
        BY <3>2, <4>1 DEF DropMessage
      <4>3. IsAllowed(UserOf(Script[i]))
        BY <1>1, <1>9 DEF Due, IsAllowed, AllowedUsers
      <4> QED
        BY <4>2, <4>3
    <3>3. CASE k # 1
      BY <1>2, <2>3, <3>3 DEF Handled
    <3> QED
      BY <3>1, <3>2, <3>3
  <2> QED
    BY <1>9, <2>2, <2>3 DEF Handled
<1>10. \A i \in Ids : Due(i)' <=> Due(i)
  BY <1>1 DEF Due, IsAllowed, AllowedUsers
<1>11. HandledInv'
  BY <1>1, <1>9, <1>10 DEF DeliveryInv, HandledInv
<1> QED
  BY <1>3, <1>8, <1>11 DEF DeliveryInv

-----------------------------------------------------------------------------
(* The invariant and what it says.                                          *)

\* Doing nothing.
LEMMA InvStutter == ListenerInv /\ UNCHANGED vars => ListenerInv'
<1> SUFFICES ASSUME ListenerInv, UNCHANGED vars PROVE ListenerInv'
  OBVIOUS
<1>1. UNCHANGED startupVars /\ UNCHANGED telegramVars
  BY DEF vars
<1>2. ConfigInv'
  BY ConfigNext DEF ListenerInv
<1>3. StartupTypeOK'
  BY <1>1, TypesSplit DEF ListenerInv, startupVars, StartupTypeOK
<1>4. TelegramTypes'
  BY <1>1, TypesSplit, Kept DEF ListenerInv, telegramVars, TelegramTypes
<1>5. LoopInv'
  BY <1>1 DEF ListenerInv, startupVars, telegramVars, listenVars, typingVars, replyVars, LoopInv
<1>6. DeliveryInv'
  <2>1. UNCHANGED deliveryVars /\ arrived' = arrived /\ pc' = pc
    BY <1>1 DEF deliveryVars, telegramVars, serverVars, listenVars
  <2>2. arrived \in Nat
    BY TypesSplit, DeliveryTypes DEF ListenerInv
  <2>3. \E n \in {0, 1} : arrived' = arrived + n
    BY <2>1, <2>2
  <2>4. phase' = phase /\ creds' = creds
    BY <1>1 DEF startupVars
  <2> QED
    BY <2>1, <2>3, <2>4, TypesSplit, DeliveryKept DEF ListenerInv, DeliveryInv
<1> QED
  BY <1>2, <1>3, <1>4, <1>5, <1>6, TypesJoined DEF ListenerInv, DeliveryInv

\* The invariant is inductive.
LEMMA ListenerInvariance == Spec => []ListenerInv
<1>1. Init => ListenerInv
  BY TypesInit, ConfigInit, LoopInit, DeliveryInit DEF Init, ListenerInv, DeliveryInv
<1>2. ListenerInv /\ [Next]_vars => ListenerInv'
  <2> SUFFICES ASSUME ListenerInv, Next PROVE ListenerInv'
    BY InvStutter
  <2>1. StartupTypeOK /\ TelegramTypes /\ ConfigInv /\ LoopInv /\ PollInv /\ DeliveryInv
    BY TypesSplit DEF ListenerInv, DeliveryInv
  <2>2. ConfigInv'
    BY <2>1, ConfigNext
  <2>3. StartupTypeOK'
    <3>1. CASE StartupStep
      BY <2>1, <3>1, StartupTypesStep
    <3>2. CASE UNCHANGED startupVars
      BY <2>1, <3>2 DEF startupVars, StartupTypeOK
    <3> QED
      BY <3>1, <3>2, ProcessSteps
  <2>4. TelegramTypes'
    BY <2>1, TypesProcess, TypesListen, TypesLoop, TypesOther DEF Next, Failure
  <2>5. LoopInv'
    BY <2>1, LoopProcess, LoopListen, LoopOwn DEF Next, Failure
  <2>6. DeliveryInv'
    BY <2>1, DeliveryProcess, DeliveryStart, DeliveryPollSend, DeliveryPollAnswer,
       DeliveryPollEnds, DeliveryAdvance, DeliveryDequeue, DeliveryElsewhere
       DEF Next, Listen, Loop, Failure
  <2> QED
    BY <2>2, <2>3, <2>4, <2>5, <2>6, TypesJoined DEF ListenerInv, DeliveryInv
<1> QED
  BY <1>1, <1>2, PTL DEF Spec

\* Every variable keeps its type and the queue its bound, for any sequence of updates.
THEOREM TypeCorrect == Spec => []TypeOK
  BY ListenerInvariance, PTL DEF ListenerInv

\* Nobody is shown as typing under a reply, whenever the stream ended.
THEOREM TypingEnds == Spec => []TypingEndsBeforeReply
<1>1. ListenerInv => TypingEndsBeforeReply
  BY DEF ListenerInv, LoopInv, TypingEndsBeforeReply
<1> QED
  BY <1>1, ListenerInvariance, PTL

\* Whatever Telegram was told to forget in this life and somebody should answer has been
\* taken by the loop or waits in its queue, for queues of any size.
THEOREM ForgottenIsQueued == Spec => []ForgottenMeansQueued
<1>1. ListenerInv => ForgottenMeansQueued
  <2> SUFFICES ASSUME ListenerInv, pc # "off", NEW i \in (floor + 1)..acked,
                      ToChannelMessage(Script[i]), IsAllowed(UserOf(Script[i]))
               PROVE  i <= served \/ \E k \in DOMAIN queue : queue[k] = i
    BY DEF ForgottenMeansQueued
  <2>1. /\ acked \in Nat /\ arrived \in Nat /\ acked <= arrived /\ floor \in Nat /\ offset \in Nat
        /\ arrived <= Len(Script) /\ Len(Script) \in Nat
    BY TypesSplit, DeliveryTypes DEF ListenerInv, TelegramTypes, ServerTypes
  <2>2. i \in Ids /\ floor < i /\ i <= acked
    BY <2>1 DEF Ids
  <2>3. acked <= floor \/ acked < offset
    BY DEF ListenerInv, PollInv
  <2>4. i < offset
    BY <2>1, <2>2, <2>3
  <2>5. Handled(i)
    BY <2>2, <2>4 DEF ListenerInv, HandledInv, Due
  <2> QED
    BY <2>5 DEF Handled
<1> QED
  BY <1>1, ListenerInvariance, PTL

-----------------------------------------------------------------------------
(* The listener implements the mailbox.                                     *)

\* Only messages that somebody could be answered to are in the queue.
QueuedInv == \A k \in 1..Len(queue) : ToChannelMessage(Script[queue[k]])

\* The queue is only filled by Broadcast.
LEMMA QueuedStep == TelegramTypes /\ QueuedInv /\ [Next]_vars => QueuedInv'
<1> SUFFICES ASSUME TelegramTypes, QueuedInv, [Next]_vars PROVE QueuedInv'
  OBVIOUS
<1>1. queue \in Seq(Ids)
  BY DEF TelegramTypes, QueueTypes
<1>2. CASE queue' = queue
  BY <1>2 DEF QueuedInv
<1>3. CASE ListenerGone
  <2>1. Len(queue') = 0
    BY <1>3, EmptySeq DEF ListenerGone
  <2> QED
    BY <2>1 DEF QueuedInv
<1>4. CASE Broadcast
  <2>1. /\ queue' = Append(queue, Head(batch)) /\ ToChannelMessage(Script[Head(batch)])
        /\ batch # <<>> /\ batch \in Seq(Ids)
    BY <1>4 DEF Broadcast, TelegramTypes, ListenTypes
  <2>2. Head(batch) \in Ids
    BY <2>1, HeadAndTail
  <2>3. /\ Len(queue) \in Nat /\ Len(queue') = Len(queue) + 1
        /\ \A k \in 1..Len(queue) : queue'[k] = queue[k]
        /\ queue'[Len(queue) + 1] = Head(batch)
    BY <1>1, <2>1, <2>2, Appended
  <2> QED
    BY <2>1, <2>3 DEF QueuedInv
<1>5. CASE DropMessage \/ TakeMessage
  <2>1. queue # <<>> /\ queue' = Tail(queue)
    BY <1>5 DEF DropMessage, TakeMessage
  <2>2. \A k \in 1..Len(queue') : k + 1 \in 1..Len(queue) /\ queue'[k] = queue[k + 1]
    BY <1>1, <2>1, HeadAndTail
  <2> QED
    BY <2>2 DEF QueuedInv
<1>6. \/ queue' = queue \/ ListenerGone \/ Broadcast \/ DropMessage \/ TakeMessage
  <2>1. CASE LaunchProcess \/ ProcessStep
    BY <2>1 DEF LaunchProcess, ProcessStep, telegramVars
  <2>2. CASE Listen \/ Arrive
    BY <2>2 DEF Listen, PollSend, PollAnswer, SkipUpdate, Arrive
  <2>3. CASE Loop
    BY <2>3 DEF Loop, StartListening, StartPrompt, StreamEnd, AwaitTyping, SendPiece
  <2>4. CASE StreamMessage \/ Failure \/ TypingTick \/ TypingSent \/ TypingExit
    BY <2>4 DEF StreamMessage, Failure, PollFail, ListenCancelled, SelectError, SendFails,
        SendBlank, ReturnSendError, Expire, TypingTick, TypingSent, TypingExit
  <2>5. CASE UNCHANGED vars
    BY <2>5 DEF vars, telegramVars
  <2> QED
    BY <2>1, <2>2, <2>3, <2>4, <2>5 DEF Next
<1> QED
  BY <1>2, <1>3, <1>4, <1>5, <1>6

\* The two invariants the refinement needs besides.
LEMMA QueuedInvariance == Spec => [](QueuedInv /\ LifeInv)
<1>1. Init => QueuedInv /\ LifeInv
  BY LifeInit, EmptySeq DEF Init, QueuedInv
<1>2. ListenerInv /\ QueuedInv /\ LifeInv /\ [Next]_vars => (QueuedInv /\ LifeInv)'
  <2> SUFFICES ASSUME ListenerInv, QueuedInv, LifeInv, [Next]_vars
               PROVE  (QueuedInv /\ LifeInv)'
    OBVIOUS
  <2>1. QueuedInv'
    BY QueuedStep, TypesSplit DEF ListenerInv
  <2>2. LifeInv'
    <3>1. CASE StartupStep
      BY <3>1, LifeStep
    <3>2. CASE UNCHANGED startupVars
      BY <3>2 DEF startupVars, LifeInv
    <3> QED
      BY <3>1, <3>2, ProcessSteps
  <2> QED
    BY <2>1, <2>2
<1> QED
  BY <1>1, <1>2, ListenerInvariance, PTL DEF Spec

\* The messages the mailbox must serve are the ones the loop finds due.
LEMMA WantedIsDue ==
    ASSUME ListenerInv, pc # "off"
    PROVE  \A i \in Ids : i \in Wanted(cfg) <=> Due(i)
<1>1. phase \in AfterCredentials /\ cfg.command = "channel_listener"
  BY DEF ListenerInv, LoopInv, AfterCredentials
<1>2. creds.allowedUsers = LookupEnvValue("TELEGRAM_ALLOWED_USERS") \ {0}
  BY <1>1 DEF ListenerInv, ConfigInv, CredentialsOf, ParseTelegramAllowedUsers
<1> QED
  BY <1>1, <1>2 DEF Wanted, Due, ToChannelMessage, IsAllowed, AllowedUsers, LookupEnvValue

\* The message at the queue's head is the mailbox's next one.
LEMMA HeadIsNext ==
    ASSUME ListenerInv, QueuedInv, LifeInv, TakeMessage
    PROVE  Abstract!IsNext(Head(queue))
<1>1. /\ queue # <<>> /\ queue' = Tail(queue) /\ pc = "select"
      /\ IsAllowed(UserOf(Script[Head(queue)])) /\ poll' = poll
  BY DEF TakeMessage, listenVars
<1>2. TelegramTypes /\ DeliveryInv
  BY TypesSplit DEF ListenerInv, DeliveryInv
<1>3. /\ Head(queue) = queue[1] /\ queue[1] \in Ids /\ queue[1] \in Nat
      /\ served < queue[1] /\ queue[1] < offset /\ 1 \in DOMAIN queue
      /\ DOMAIN queue = 1..Len(queue) /\ Len(queue) \in Nat
  BY <1>1, <1>2, Dequeue, DeliveryTypes
<1>4. life # 0
  BY <1>1 DEF LifeInv, ListenerInv, LoopInv
<1>5. \A i \in Ids : i \in Wanted(cfg) <=> Due(i)
  BY <1>1, WantedIsDue
<1>6. \A j \in Ids : Due(j) /\ j > served => Head(queue) <= j
  <2> SUFFICES ASSUME NEW j \in Ids, Due(j), j > served PROVE queue[1] <= j
    BY <1>3
  <2>1. j \in Nat /\ served \in Nat /\ floor \in Nat /\ offset \in Nat /\ floor <= served
    BY <1>2, DeliveryTypes, ScriptLength DEF Ids, DeliveryInv, QueueInv
  <2>2. CASE j < offset
    <3>1. Handled(j)
      BY <1>1, <1>2, <2>1, <2>2 DEF DeliveryInv, HandledInv
    <3>2. PICK k \in 1..Len(queue) : queue[k] = j
      BY <1>3, <2>1, <3>1 DEF Handled
    <3>3. k = 1 \/ queue[1] < queue[k]
      BY <1>2, <1>3, <3>2 DEF DeliveryInv, QueueInv
    <3> QED
      BY <1>3, <2>1, <3>2, <3>3
  <2>3. CASE ~(j < offset)
    BY <1>3, <2>1, <2>3
  <2> QED
    BY <2>2, <2>3
<1>7. Due(Head(queue))
  <2>1. ToChannelMessage(Script[Head(queue)])
    BY <1>3 DEF QueuedInv
  <2> QED
    BY <1>1, <2>1 DEF Due
<1>8. Wanted(cfg) \subseteq Ids
  BY DEF Wanted
<1> QED
  BY <1>3, <1>4, <1>5, <1>6, <1>7, <1>8 DEF Abstract!IsNext

\* A step that changes neither the message being served nor what is wanted is none of
\* the mailbox's.
LEMMA MailboxStutters ==
    ASSUME UNCHANGED <<life, cfg, cur, served, floor>>
    PROVE  UNCHANGED Abstract!vars
  BY DEF Abstract!vars, Wanted

\* In one life of the process the listener serves exactly the messages it should, one at
\* a time, in order, each once, skipping none: for every script, queue and configuration.
THEOREM Refinement == Spec => ImplementsMailbox
<1>1. Init => Abstract!Init
  BY DEF Init, StartupInit, Abstract!Init
<1>2. ListenerInv /\ QueuedInv /\ LifeInv /\ [Next]_vars => [Abstract!Next]_(Abstract!vars)
  <2> SUFFICES ASSUME ListenerInv, QueuedInv, LifeInv, [Next]_vars
               PROVE  Abstract!Next \/ UNCHANGED Abstract!vars
    OBVIOUS
  <2>1. CASE LaunchProcess
    <3>1. /\ life' = life + 1 /\ served' = acked /\ floor' = acked /\ cur' = cur
          /\ phase \in {"off", "exited"}
      BY <2>1 DEF LaunchProcess, Launch
    <3>2. cur = 0
      BY <3>1 DEF ListenerInv, LoopInv
    <3>3. acked \in Nat /\ floor <= acked
      BY TypesSplit, DeliveryTypes DEF ListenerInv, PollInv
    <3>4. (IF life = 0 THEN {} ELSE Wanted(cfg))' \in SUBSET Ids
      BY DEF Wanted
    <3>5. ~(cur' # 0)
      BY <3>1, <3>2
    <3>6. Abstract!NewLife
      BY <3>1, <3>3, <3>4, <3>5 DEF Abstract!NewLife
    <3> QED
      BY <3>6 DEF Abstract!Next
  <2>2. CASE TakeMessage
    <3>1. /\ served' = Head(queue) /\ cur' = Head(queue) /\ cur = 0
          /\ life' = life /\ cfg' = cfg /\ floor' = floor /\ queue # <<>>
      BY <2>2 DEF TakeMessage, startupVars, ListenerInv, LoopInv
    <3>2. Abstract!IsNext(Head(queue))
      BY <2>2, HeadIsNext
    <3>3. Head(queue) \in Ids /\ Head(queue) # 0
      <4>1. queue \in Seq(Ids)
        BY TypesSplit DEF ListenerInv, TelegramTypes, QueueTypes
      <4>2. Head(queue) \in Ids
        BY <3>1, <4>1, HeadAndTail
      <4> QED
        BY <4>2, ScriptLength DEF Ids
    <3>4. ~(cur # 0) /\ (cur' # 0)
      BY <3>1, <3>3
    <3>5. (IF life = 0 THEN {} ELSE Wanted(cfg))' = (IF life = 0 THEN {} ELSE Wanted(cfg))
      BY <3>1 DEF Wanted
    <3>6. Abstract!Serve(Head(queue))
      BY <3>1, <3>2, <3>4, <3>5 DEF Abstract!Serve
    <3> QED
      BY <3>3, <3>6 DEF Abstract!Next
  <2>3. ASSUME UNCHANGED <<life, cfg, served, floor>>, cur' = 0
        PROVE  Abstract!Next \/ UNCHANGED Abstract!vars
    <3>1. CASE cur = 0
      BY <2>3, <3>1, MailboxStutters
    <3>2. CASE cur # 0
      <4>1. (IF life = 0 THEN {} ELSE Wanted(cfg))' = (IF life = 0 THEN {} ELSE Wanted(cfg))
        BY <2>3 DEF Wanted
      <4>2. ~(cur' # 0)
        BY <2>3
      <4>3. Abstract!Finish
        BY <2>3, <3>2, <4>1, <4>2 DEF Abstract!Finish
      <4> QED
        BY <4>3 DEF Abstract!Next
    <3> QED
      BY <3>1, <3>2
  <2>4. CASE (CloseProvider \/ Kill) /\ ListenerGone /\ UNCHANGED historyVars
    BY <2>3, <2>4 DEF CloseProvider, Kill, ListenerGone, historyVars
  <2>5. CASE (StartUp \/ InteractiveReturns \/ CloseFactory) /\ UNCHANGED telegramVars
    <3>1. UNCHANGED <<life, cfg>>
      BY <2>5 DEF StartUp, LoadConfig, LoadDotEnv, LoadCredentials, ValidateConfig, BuildTools,
         ConfigureDB, OpenSessionStore, ListSessions, OpenTraceStore, BuildRouter,
         InteractiveReturns, CommandReturns, CloseFactory
    <3> QED
      BY <2>5, <3>1, MailboxStutters DEF telegramVars, historyVars
  <2>6. CASE SendPiece
    <3>1. UNCHANGED <<life, cfg, served, floor>> /\ (cur' = 0 \/ cur' = cur)
      BY <2>6 DEF SendPiece, startupVars, historyVars
    <3> QED
      BY <2>3, <3>1, MailboxStutters
  <2>7. CASE Arrive \/ Listen \/ StreamMessage \/ TypingTick \/ TypingSent \/ TypingExit
    <3>1. UNCHANGED <<life, cfg, cur, served, floor>>
      <4>1. CASE Arrive \/ StreamMessage \/ TypingTick \/ TypingSent \/ TypingExit
        BY <4>1 DEF Arrive, StreamMessage, TypingTick, TypingSent, TypingExit, startupVars,
           historyVars
      <4>2. CASE Listen
        BY <4>2 DEF Listen, PollSend, PollAnswer, Broadcast, SkipUpdate, NextUpdate,
           startupVars, historyVars
      <4> QED
        BY <2>7, <4>1, <4>2
    <3> QED
      BY <3>1, MailboxStutters
  <2>8. CASE StartListening \/ DropMessage \/ StartPrompt \/ StreamEnd \/ AwaitTyping
    <3>1. UNCHANGED <<life, cfg, cur, served, floor>>
      BY <2>8 DEF StartListening, DropMessage, StartPrompt, StreamEnd, AwaitTyping,
         startupVars, historyVars
    <3> QED
      BY <3>1, MailboxStutters
  <2>9. CASE Failure
    <3>1. UNCHANGED <<life, cfg, cur, served, floor>>
      BY <2>9 DEF Failure, PollFail, ListenCancelled, SelectError, SendFails, SendBlank,
         ReturnSendError, Expire, CommandReturns, startupVars, historyVars
    <3> QED
      BY <3>1, MailboxStutters
  <2>10. CASE UNCHANGED vars
    BY <2>10, MailboxStutters DEF vars, startupVars, telegramVars, historyVars
  <2> QED
    BY <2>1, <2>2, <2>4, <2>5, <2>6, <2>7, <2>8, <2>9, <2>10 DEF Next, ProcessStep, Loop
<1> QED
  BY <1>1, <1>2, ListenerInvariance, QueuedInvariance, PTL
     DEF Spec, ImplementsMailbox, Abstract!Spec
===============================================================================
