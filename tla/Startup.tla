-------------------------------- MODULE Startup --------------------------------
(***************************************************************************)
(* The life of the benoit process (main.go): the command line, the env     *)
(* file and the credentials are read and validated, the provider stack is  *)
(* built on top of the database, the command runs, and on the way out -    *)
(* early or late - what was opened is closed.  The process may be killed   *)
(* at any step and started again with another command line.                *)
(*                                                                         *)
(* What the command does while it runs belongs to the module that extends  *)
(* this one.  Every environment value is modelled as the SET of its        *)
(* comma-separated elements: {} is blank, an API key is a singleton, and   *)
(* the element Malformed is one that the value's parser rejects.           *)
(***************************************************************************)
EXTENDS Integers, FiniteSets

CONSTANTS
    Configs,    \* the command lines, env files and environments to start with
    Malformed,  \* a list element that cannot be parsed
    MaxLives    \* bound: times the process is started

ASSUME StartupAssumption == MaxLives \in Nat \ {0}

VARIABLES
    phase,      \* the step of run() or runWithConfig() the process is at
    life,       \* times the process was started
    cfg,        \* what it was started with
    creds,      \* cfg.Credentials
    toolSet,    \* names of the tools the provider was built with
    db,         \* the database: "none", "open" or "closed"
    closers,    \* the resources closeProvider has to close
    outcome     \* what run() returned: "none" while it runs, "ok" or "error"

startupVars == <<phase, life, cfg, creds, toolSet, db, closers, outcome>>

Phases == {"off", "loadConfig", "loadEnv", "loadCredentials", "validate",
           "selectTools", "configureDB", "sessionStore", "traceStore",
           "router", "running", "closing", "exited"}

NoCredentials == [openAI |-> {}, openRouter |-> {}, botToken |-> {},
                  maton |-> {}, allowedUsers |-> {}, allowedKeys |-> {}]

-----------------------------------------------------------------------------
(* The command line.                                                        *)

IsInteractive(command) == command \in {"tui", "ssh"}

ProviderNames == {"openai", "openrouter"}
RenderModes == {"simple", "bubbletea"}

\* -render belongs to tui; ssh is always bubbletea.
LoadInteractiveConfigFails ==
    \/ cfg.command = "tui" /\ cfg.render \notin RenderModes
    \/ cfg.provider \notin ProviderNames

LoadChannelListenerConfigFails ==
    \/ cfg.channel # "telegram"
    \/ cfg.provider \notin ProviderNames
    \/ cfg.pollTimeout < 0

\* A command that is unknown, an argument that is not a flag of it, or a value
\* its flags do not take.
LoadConfigFails ==
    \/ cfg.command \notin {"tui", "ssh", "list_sessions", "channel_listener"}
    \/ cfg.positional
    \/ IsInteractive(cfg.command) /\ LoadInteractiveConfigFails
    \/ cfg.command = "channel_listener" /\ LoadChannelListenerConfigFails

-----------------------------------------------------------------------------
(* Reading the environment.                                                 *)

\* Mutant of LookupEnvValue: the process environment wins over the env file.
LookupProcessFirst(name) ==
    IF name \in DOMAIN cfg.env THEN cfg.env[name]
    ELSE IF name \in DOMAIN cfg.file THEN cfg.file[name] ELSE {}

\* An entry of the env file hides the process environment, even a blank one.
LookupEnvValue(name) ==
    IF name \in DOMAIN cfg.file THEN cfg.file[name]
    ELSE IF name \in DOMAIN cfg.env THEN cfg.env[name] ELSE {}

\* Zero is not a Telegram user and is dropped; duplicates collapse.
ParseTelegramAllowedUsers(raw) == raw \ {0}

ProviderKey == IF cfg.provider = "openrouter" THEN "OPENROUTER_API_KEY"
               ELSE "OPENAI_API_KEY"

\* loadCredentials gives up: a list that does not parse, no SSH key, no key of
\* the provider the command needs, no token for the listener.
CredentialsFail ==
    \/ /\ cfg.command = "channel_listener"
       /\ \/ Malformed \in LookupEnvValue("TELEGRAM_ALLOWED_USERS")
          \/ LookupEnvValue("TELEGRAM_API_KEY") = {}
    \/ /\ cfg.command = "ssh"
       /\ \/ Malformed \in LookupEnvValue("SSH_ALLOWED_PUBLIC_KEYS")
          \/ LookupEnvValue("SSH_ALLOWED_PUBLIC_KEYS") = {}
    \/ /\ cfg.command # "list_sessions"
       /\ LookupEnvValue(ProviderKey) = {}

\* Only the values the command uses are read.
CredentialsOf ==
    [openAI |-> IF cfg.command # "list_sessions" /\ cfg.provider = "openai"
                THEN LookupEnvValue("OPENAI_API_KEY") ELSE {},
     openRouter |-> IF cfg.command # "list_sessions" /\ cfg.provider = "openrouter"
                    THEN LookupEnvValue("OPENROUTER_API_KEY") ELSE {},
     botToken |-> LookupEnvValue("TELEGRAM_API_KEY"),
     maton |-> LookupEnvValue("MATON_API_KEY"),
     allowedUsers |-> IF cfg.command = "channel_listener"
        THEN ParseTelegramAllowedUsers(LookupEnvValue("TELEGRAM_ALLOWED_USERS"))
        ELSE {},
     allowedKeys |-> IF cfg.command = "ssh"
        THEN LookupEnvValue("SSH_ALLOWED_PUBLIC_KEYS") ELSE {}]

ProviderCommandIsValid ==
    IF cfg.provider = "openrouter" THEN creds.openRouter # {}
    ELSE creds.openAI # {}

\* validateConfig accepts the configuration.
ConfigIsValid ==
    /\ cfg.timeout >= 0
    /\ cfg.pollTimeout >= 0
    /\ CASE IsInteractive(cfg.command) ->
              /\ ProviderCommandIsValid
              /\ cfg.fsRoot # "blank"
              /\ cfg.sessionID # "invalid"
              /\ cfg.command = "ssh" =>
                    creds.allowedKeys # {} /\ cfg.sshPort \in 1..65535
         [] cfg.command = "channel_listener" ->
              ProviderCommandIsValid /\ creds.botToken # {}
         [] cfg.command = "list_sessions" -> cfg.dbPath

-----------------------------------------------------------------------------
(* The tools the command may use.                                           *)

HostedTools == {"code_interpreter", "web_search"}
FileTools == {"glob", "grep", "read", "write", "apply_patch"}

ConfiguredFileTools ==
    IF IsInteractive(cfg.command) /\ cfg.fsRoot = "given" THEN FileTools ELSE {}

ConfiguredChannelTools ==
    IF IsInteractive(cfg.command) /\ creds.botToken # {}
    THEN {"send_channel_message"} ELSE {}

MatonTools ==
    IF creds.maton # {} THEN {"maton_gcalendar", "maton_gmail"} ELSE {}

SelectedTools == HostedTools \cup {"clock"} \cup ConfiguredFileTools
                 \cup ConfiguredChannelTools \cup MatonTools

\* OpenRouter cannot run provider-hosted tools; they are dropped there.
EnabledTools(tools) ==
    IF cfg.provider = "openrouter" THEN tools \ HostedTools ELSE tools

-----------------------------------------------------------------------------
StartupInit ==
    /\ phase = "off"
    /\ life = 0
    /\ cfg \in Configs
    /\ creds = NoCredentials
    /\ toolSet = {}
    /\ db = "none"
    /\ closers = {}
    /\ outcome = "none"

\* The process is started, for the first time or again.
Launch ==
    /\ phase \in {"off", "exited"}
    /\ life < MaxLives
    /\ life' = life + 1
    /\ phase' = "loadConfig"
    /\ cfg' \in Configs
    /\ creds' = NoCredentials
    /\ toolSet' = {}
    /\ db' = "none"
    /\ closers' = {}
    /\ outcome' = "none"

\* The step at `from` succeeds and the next is `to`.
Proceed(from, to) ==
    /\ phase = from
    /\ phase' = to
    /\ UNCHANGED outcome

\* The step at `from` fails and run() returns its error with nothing to close.
GiveUp(from) ==
    /\ phase = from
    /\ phase' = "exited"
    /\ outcome' = "error"

\* loadConfig and the loader of the command.
LoadConfig ==
    /\ IF LoadConfigFails THEN GiveUp("loadConfig")
       ELSE Proceed("loadConfig", "loadEnv")
    /\ UNCHANGED <<life, cfg, creds, toolSet, db, closers>>

\* A missing env file is no error; an unreadable or malformed one is.
LoadDotEnv ==
    /\ IF cfg.fileState \in {"absent", "read"}
       THEN Proceed("loadEnv", "loadCredentials") ELSE GiveUp("loadEnv")
    /\ UNCHANGED <<life, cfg, creds, toolSet, db, closers>>

LoadCredentials ==
    /\ IF CredentialsFail
       THEN GiveUp("loadCredentials") /\ UNCHANGED creds
       ELSE Proceed("loadCredentials", "validate") /\ creds' = CredentialsOf
    /\ UNCHANGED <<life, cfg, toolSet, db, closers>>

\* list_sessions goes straight to the database.
ValidateConfig ==
    /\ IF ConfigIsValid
       THEN Proceed("validate", IF cfg.command = "list_sessions"
                                THEN "configureDB" ELSE "selectTools")
       ELSE GiveUp("validate")
    /\ UNCHANGED <<life, cfg, creds, toolSet, db, closers>>

\* The file tools open their root, which may fail.
BuildTools ==
    /\ \/ /\ Proceed("selectTools", "configureDB")
          /\ toolSet' = EnabledTools(SelectedTools)
       \/ /\ ConfiguredFileTools # {}
          /\ GiveUp("selectTools")
          /\ UNCHANGED toolSet
    /\ UNCHANGED <<life, cfg, creds, db, closers>>

\* ConfigureDB: no path, no database.
ConfigureDB ==
    /\ \/ /\ Proceed("configureDB", "sessionStore")
          /\ db' = IF cfg.dbPath THEN "open" ELSE "none"
       \/ cfg.dbPath /\ GiveUp("configureDB") /\ UNCHANGED db
    /\ UNCHANGED <<life, cfg, creds, toolSet, closers>>

\* Mutant of CloseDB: the error return forgets the database.
LeaveDBOpen == db' = db

\* The error returns close the database they hold, if there is one.
CloseDB == db' = IF db = "open" THEN "closed" ELSE db

\* NewSessionStore creates its table; a failure closes the database.
OpenSessionStore ==
    /\ cfg.command # "list_sessions"
    /\ \/ Proceed("sessionStore", "traceStore") /\ UNCHANGED db
       \/ db = "open" /\ GiveUp("sessionStore") /\ CloseDB
    /\ UNCHANGED <<life, cfg, creds, toolSet, closers>>

\* runListSessions: the store is opened, the rows are read and printed, and the
\* deferred closeDB runs whether that fails or not.
ListSessions ==
    /\ phase = "sessionStore"
    /\ cfg.command = "list_sessions"
    /\ phase' = "exited"
    /\ outcome' \in {"ok", "error"}
    /\ CloseDB
    /\ UNCHANGED <<life, cfg, creds, toolSet, closers>>

\* NewTraceMessageStore creates its table; a failure closes the database.
OpenTraceStore ==
    /\ \/ Proceed("traceStore", "router") /\ UNCHANGED db
       \/ db = "open" /\ GiveUp("traceStore") /\ CloseDB
    /\ UNCHANGED <<life, cfg, creds, toolSet, closers>>

\* NewRouterProvider, which cannot fail here (its context and its factory are
\* never nil), then combineCloseFuncs: the factory's Close, and the database's
\* if there is a database.
BuildRouter ==
    /\ Proceed("router", "running")
    /\ closers' = {"factory"} \cup (IF db = "open" THEN {"db"} ELSE {})
    /\ UNCHANGED <<life, cfg, creds, toolSet, db>>

\* runCommand returned `result`; the deferred closeProvider runs next.
CommandReturns(result) ==
    /\ phase = "running"
    /\ phase' = "closing"
    /\ outcome' = result
    /\ UNCHANGED <<life, cfg, creds, toolSet, db, closers>>

\* A terminal or an SSH server returns: how is BubbleTea's business.
InteractiveReturns ==
    /\ IsInteractive(cfg.command)
    /\ \E result \in {"ok", "error"} : CommandReturns(result)

\* The factory's Close: neither provider has a close function that could fail.
CloseFactory ==
    /\ phase = "closing"
    /\ "factory" \in closers
    /\ closers' = closers \ {"factory"}
    /\ UNCHANGED <<phase, life, cfg, creds, toolSet, db, outcome>>

\* The database's Close, the last one: run() returns.
CloseProvider ==
    /\ phase = "closing"
    /\ "factory" \notin closers
    /\ IF "db" \in closers THEN CloseDB ELSE UNCHANGED db
    /\ closers' = {}
    /\ phase' = "exited"
    /\ outcome' \in (IF "db" \in closers THEN {outcome, "error"} ELSE {outcome})
    /\ UNCHANGED <<life, cfg, creds, toolSet>>

\* The process is killed (there is no signal handler): nothing is closed by it.
Kill ==
    /\ phase \notin {"off", "exited"}
    /\ phase' = "off"
    /\ creds' = NoCredentials
    /\ toolSet' = {}
    /\ db' = "none"
    /\ closers' = {}
    /\ outcome' = "none"
    /\ UNCHANGED <<life, cfg>>

\* The steps of run() up to the command, and those after it.
StartUp == LoadConfig \/ LoadDotEnv \/ LoadCredentials \/ ValidateConfig
           \/ BuildTools \/ ConfigureDB \/ OpenSessionStore \/ ListSessions
           \/ OpenTraceStore \/ BuildRouter
WindUp == CloseFactory \/ CloseProvider

-----------------------------------------------------------------------------
\* The startup variables range over the values run() gives them.
StartupTypeOK ==
    /\ phase \in Phases
    /\ life \in 0..MaxLives
    /\ cfg \in Configs
    /\ toolSet \subseteq HostedTools \cup FileTools \cup
          {"clock", "send_channel_message", "maton_gcalendar", "maton_gmail"}
    /\ db \in {"none", "open", "closed"}
    /\ closers \subseteq {"factory", "db"}
    /\ outcome \in {"none", "ok", "error"}

\* run() returns by many paths - each error return of Build has its own list of
\* what to close - and on every one of them the database it opened was closed,
\* and only after the stacks that write to it.
ExitReleases ==
    /\ phase = "exited" => db # "open" /\ closers = {}
    /\ db = "closed" => "factory" \notin closers

\* A command only runs with the credentials it needs, read where the README
\* says they are read: the env file's value if the file has the name, be it
\* blank, else the environment's.  An SSH server has a key to admit; nobody
\* outside the allowlist and no listener at all is given the file tools.
RunningIsConfigured ==
    phase = "running" =>
        LET effective == [n \in DOMAIN cfg.file \cup DOMAIN cfg.env |->
                IF n \in DOMAIN cfg.file THEN cfg.file[n] ELSE cfg.env[n]]
        IN  /\ ProviderKey \in DOMAIN effective /\ effective[ProviderKey] # {}
            /\ cfg.command = "ssh" =>
                  /\ creds.allowedKeys # {}
                  /\ creds.allowedKeys = effective["SSH_ALLOWED_PUBLIC_KEYS"]
            /\ cfg.command = "channel_listener" =>
                  /\ creds.botToken # {}
                  /\ toolSet \cap (FileTools \cup {"send_channel_message"}) = {}
            /\ cfg.provider = "openrouter" => toolSet \cap HostedTools = {}
===============================================================================
