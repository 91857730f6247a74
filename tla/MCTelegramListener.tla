-------------------------- MODULE MCTelegramListener --------------------------
(* A small instance of TelegramListener: four updates - a message of an        *)
(* allowed user, one that is no message, an edit by a stranger and a post of   *)
(* an allowed channel -, a queue of one, two lives, and the command lines and  *)
(* environments that decide how far the process gets.                         *)
EXTENDS TelegramListener

MCScript == <<
    [kind |-> "message", from |-> 7, bot |-> FALSE, blank |-> FALSE, chat |-> 7],
    [kind |-> "other", from |-> 7, bot |-> FALSE, blank |-> FALSE, chat |-> 7],
    [kind |-> "edited_message", from |-> 9, bot |-> FALSE, blank |-> FALSE, chat |-> 7],
    [kind |-> "channel_post", from |-> 0, bot |-> FALSE, blank |-> FALSE, chat |-> 5]
    >>

MCTexts == {<<"text">>, <<"text", "blank">>}

Values(key, token, users) ==
    [n \in {"OPENAI_API_KEY", "TELEGRAM_API_KEY", "TELEGRAM_ALLOWED_USERS"} |->
        CASE n = "OPENAI_API_KEY" -> key
          [] n = "TELEGRAM_API_KEY" -> token
          [] n = "TELEGRAM_ALLOWED_USERS" -> users]

Full == Values({"key"}, {"token"}, {7, 5, 0})
Nothing == [n \in {} |-> {}]

\* channel_listener with everything it needs in its environment.
Listener ==
    [command |-> "channel_listener", provider |-> "openai", render |-> "simple",
     channel |-> "telegram", positional |-> FALSE, timeout |-> 1, pollTimeout |-> 30, sshPort |-> 23234, fsRoot |-> "default",
     sessionID |-> "", dbPath |-> TRUE, fileState |-> "read",
     file |-> Nothing, env |-> Full]

SSH == [Listener EXCEPT !.command = "ssh", !.fsRoot = "given",
            !.env = [n \in {"OPENAI_API_KEY", "SSH_ALLOWED_PUBLIC_KEYS",
                            "TELEGRAM_API_KEY", "MATON_API_KEY"} |-> {n}]]

Denied == [n \in {"TELEGRAM_ALLOWED_USERS"} |-> {}]

MCConfigs == {
    Listener,
    [Listener EXCEPT !.file = Denied],
    [Listener EXCEPT !.positional = TRUE],
    [Listener EXCEPT !.channel = "irc"],
    [Listener EXCEPT !.fileState = "malformed"],
    [Listener EXCEPT !.file = Values({"key"}, {"token"}, {Malformed})],
    [Listener EXCEPT !.timeout = 0 - 1],
    SSH,
    [SSH EXCEPT !.command = "tui", !.render = "html"],
    [SSH EXCEPT !.sshPort = 70000],
    [SSH EXCEPT !.file = [n \in {"SSH_ALLOWED_PUBLIC_KEYS"} |-> {}]],
    [SSH EXCEPT !.command = "tui", !.provider = "openrouter", !.dbPath = FALSE,
        !.env = [n \in {"OPENROUTER_API_KEY"} |-> {n}]],
    [Listener EXCEPT !.command = "list_sessions", !.env = Nothing] }
===============================================================================
