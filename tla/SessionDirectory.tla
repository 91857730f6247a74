--------------------------- MODULE SessionDirectory ---------------------------
(***************************************************************************)
(* What the router promises its callers: an atomic get-or-create           *)
(* directory.  A caller asks for a session and is answered, in one         *)
(* indivisible step, with the session's provider (installing a provider    *)
(* nobody was ever given if the session has none), or it is refused.       *)
(* SessionRegistry implements this with two short critical sections around *)
(* an unlocked construction.                                               *)
(***************************************************************************)
EXTENDS Naturals

CONSTANTS
    Callers,        \* goroutines calling into the router
    Sessions,       \* normalized session identifiers
    NoSession,      \* "not asking"
    Providers,      \* provider stacks that may ever be built
    NoProvider      \* "no entry", not a provider

VARIABLES
    entries,        \* session -> installed provider or NoProvider
    phase,          \* caller -> "idle", "asking", "got"
    want,           \* caller -> session asked for, NoSession if none
    held,           \* caller -> provider answered, NoProvider if none
    swept           \* providers withdrawn by a Close

vars == <<entries, phase, want, held, swept>>

Installed == {entries[s] : s \in Sessions} \ {NoProvider}

Init ==
    /\ entries = [s \in Sessions |-> NoProvider]
    /\ phase = [c \in Callers |-> "idle"]
    /\ want = [c \in Callers |-> NoSession]
    /\ held = [c \in Callers |-> NoProvider]
    /\ swept = {}

Ask(c, s) ==
    /\ phase[c] = "idle"
    /\ phase' = [phase EXCEPT ![c] = "asking"]
    /\ want' = [want EXCEPT ![c] = s]
    /\ UNCHANGED <<entries, held, swept>>

\* The session already has a provider: everybody is given that one.
AnswerExisting(c) ==
    /\ phase[c] = "asking"
    /\ entries[want[c]] # NoProvider
    /\ held' = [held EXCEPT ![c] = entries[want[c]]]
    /\ phase' = [phase EXCEPT ![c] = "got"]
    /\ UNCHANGED <<entries, want, swept>>

\* The session has none: a provider never answered before is installed.
AnswerNew(c) ==
    /\ phase[c] = "asking"
    /\ entries[want[c]] = NoProvider
    /\ \E p \in Providers \ (swept \cup Installed) :
          /\ entries' = [entries EXCEPT ![want[c]] = p]
          /\ held' = [held EXCEPT ![c] = p]
    /\ phase' = [phase EXCEPT ![c] = "got"]
    /\ UNCHANGED <<want, swept>>

Refuse(c) ==
    /\ phase[c] = "asking"
    /\ phase' = [phase EXCEPT ![c] = "idle"]
    /\ want' = [want EXCEPT ![c] = NoSession]
    /\ UNCHANGED <<entries, held, swept>>

Release(c) ==
    /\ phase[c] = "got"
    /\ phase' = [phase EXCEPT ![c] = "idle"]
    /\ want' = [want EXCEPT ![c] = NoSession]
    /\ held' = [held EXCEPT ![c] = NoProvider]
    /\ UNCHANGED <<entries, swept>>

Sweep ==
    /\ swept' = swept \cup Installed
    /\ entries' = [s \in Sessions |-> NoProvider]
    /\ UNCHANGED <<phase, want, held>>

Next ==
    \/ \E c \in Callers, s \in Sessions : Ask(c, s)
    \/ \E c \in Callers :
          AnswerExisting(c) \/ AnswerNew(c) \/ Refuse(c) \/ Release(c)
    \/ Sweep

Spec == Init /\ [][Next]_vars
===============================================================================
