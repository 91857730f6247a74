---------------------------- MODULE SessionRegistry ----------------------------
(***************************************************************************)
(* The provider factory behind the router (session/manager.go): a map from *)
(* session to provider stack, guarded by a mutex that is released while a  *)
(* missing stack is being built.  Several goroutines (SSH clients, the     *)
(* Telegram loop, a /compact) may therefore build a stack for the same     *)
(* session at the same time; the second critical section decides the race. *)
(*                                                                         *)
(* A stack is hydrated from the session row read before it is built and,   *)
(* once handed out, its in-memory cursor runs ahead of that row and is     *)
(* saved back by the session-store middleware.  Cursors are abstracted to  *)
(* the number of turns they cover.                                         *)
(***************************************************************************)
EXTENDS Naturals, FiniteSets

CONSTANTS
    Callers,        \* goroutines calling Chat, PerformCompression, ListModels...
    Names,          \* non-blank session names callers may use
    DefaultSession, \* sessionid.DefaultSessionID, "__default__"
    Blank,          \* a name that trims to ""
    InitialRows,    \* session -> turns covered by the row of an earlier run
    MaxProviders,   \* bound: stacks built over the run
    MaxTurns,       \* bound: turns one stack may take
    MaxCloses       \* bound: calls of the factory's Close

ASSUME NamesAssumption == Blank \notin Names \cup {DefaultSession}
ASSUME BoundsAssumption ==
    MaxProviders \in Nat /\ MaxTurns \in Nat /\ MaxCloses \in Nat

Sessions == Names \cup {DefaultSession}
ASSUME InitialRowsAssumption == InitialRows \in [Sessions -> Nat]

Providers == 1 .. MaxProviders
NoProvider == 0

VARIABLES
    entries,    \* session -> provider in the map, NoProvider if absent
    pc,         \* caller -> the step its call is at
    want,       \* caller -> normalized session of its call, Blank if none
    cursor,     \* caller -> params.PreviousResponse it read (turns covered)
    mine,       \* caller -> stack its own createProvider built
    held,       \* caller -> provider its call returned
    exported,   \* caller -> cursor exported by a save in progress
    made,       \* stacks built so far; they are numbered 1..made
    sessionOf,  \* provider -> session it was built for
    memory,     \* provider -> turns its in-memory cursor covers
    stored,     \* session -> turns the persisted cursor covers
    swept,      \* providers a Close took out of the map
    closed,     \* provider -> how often its closeFn ran
    closes      \* calls of Close so far

vars == <<entries, pc, want, cursor, mine, held, exported, made, sessionOf,
          memory, stored, swept, closed, closes>>

localVars   == <<cursor, mine>>
lookupVars  == <<localVars, made, sessionOf>>
persistVars == <<exported, stored>>
closeVars   == <<swept, closed, closes>>

Steps == {"idle", "lookup", "hydrating", "building", "built", "got", "saving"}

-----------------------------------------------------------------------------
\* NormalizeSessionID: a blank name is the default session.
NormalizeSessionID(name) == IF name = Blank THEN DefaultSession ELSE name

\* resolveSessionID: the explicit name, else the context's, else the default.
ResolveSessionID(explicit, fromCtx) ==
    NormalizeSessionID(IF explicit # Blank THEN explicit ELSE fromCtx)

Installed == {entries[s] : s \in Sessions} \ {NoProvider}

Init ==
    /\ entries = [s \in Sessions |-> NoProvider]
    /\ pc = [c \in Callers |-> "idle"]
    /\ want = [c \in Callers |-> Blank]
    /\ cursor = [c \in Callers |-> 0]
    /\ mine = [c \in Callers |-> NoProvider]
    /\ held = [c \in Callers |-> NoProvider]
    /\ exported = [c \in Callers |-> 0]
    /\ made = 0
    /\ sessionOf = [p \in Providers |-> DefaultSession]
    /\ memory = [p \in Providers |-> 0]
    /\ stored = InitialRows
    /\ swept = {}
    /\ closed = [p \in Providers |-> 0]
    /\ closes = 0

-----------------------------------------------------------------------------
(* providerForSession and the calls that lead to it.                        *)

\* A router method is entered with an explicit name and one in its context:
\* Chat passes no explicit name, ListModels neither.
Call(c, explicit, fromCtx) ==
    /\ pc[c] = "idle"
    /\ pc' = [pc EXCEPT ![c] = "lookup"]
    /\ want' = [want EXCEPT ![c] = ResolveSessionID(explicit, fromCtx)]
    /\ UNCHANGED <<entries, held, memory, lookupVars, persistVars, closeVars>>

\* The first critical section finds an entry and the call returns it.
LookupHit(c) ==
    /\ pc[c] = "lookup"
    /\ entries[want[c]] # NoProvider
    /\ held' = [held EXCEPT ![c] = entries[want[c]]]
    /\ pc' = [pc EXCEPT ![c] = "got"]
    /\ UNCHANGED <<entries, want, memory, lookupVars, persistVars, closeVars>>

\* It finds none and the mutex is released before createProvider.
LookupMiss(c) ==
    /\ pc[c] = "lookup"
    /\ entries[want[c]] = NoProvider
    /\ pc' = [pc EXCEPT ![c] = "hydrating"]
    /\ UNCHANGED <<entries, want, held, memory, lookupVars, persistVars, closeVars>>

\* The call is over: the caller is free to make another.
Leave(c) ==
    /\ pc' = [pc EXCEPT ![c] = "idle"]
    /\ want' = [want EXCEPT ![c] = Blank]

\* createProvider's locals are gone once it has returned.
DropLocals(c) ==
    /\ cursor' = [cursor EXCEPT ![c] = 0]
    /\ mine' = [mine EXCEPT ![c] = NoProvider]

\* Mutant of PersistedCursor: the row is looked up, its cursor is not passed on.
NoCursor(s) == 0

\* sessionStoreLookupAdapter.GetSession: a session without a row has no cursor.
PersistedCursor(s) == stored[s]

\* createProvider reads the session's persisted cursor.
Hydrate(c) ==
    /\ pc[c] = "hydrating"
    /\ cursor' = [cursor EXCEPT ![c] = PersistedCursor(want[c])]
    /\ pc' = [pc EXCEPT ![c] = "building"]
    /\ UNCHANGED <<entries, want, held, memory, mine, made, sessionOf,
                   persistVars, closeVars>>

\* Mutant of Build: the stack is built under the default session's name.
BuildForDefault(c) ==
    /\ pc[c] = "building"
    /\ made < MaxProviders
    /\ made' = made + 1
    /\ mine' = [mine EXCEPT ![c] = made + 1]
    /\ sessionOf' = [sessionOf EXCEPT ![made + 1] = DefaultSession]
    /\ memory' = [memory EXCEPT ![made + 1] = cursor[c]]
    /\ pc' = [pc EXCEPT ![c] = "built"]
    /\ UNCHANGED <<entries, want, held, cursor, persistVars, closeVars>>

\* providerFn builds a stack that starts from the cursor just read.
Build(c) ==
    /\ pc[c] = "building"
    /\ made < MaxProviders
    /\ made' = made + 1
    /\ mine' = [mine EXCEPT ![c] = made + 1]
    /\ sessionOf' = [sessionOf EXCEPT ![made + 1] = want[c]]
    /\ memory' = [memory EXCEPT ![made + 1] = cursor[c]]
    /\ pc' = [pc EXCEPT ![c] = "built"]
    /\ UNCHANGED <<entries, want, held, cursor, persistVars, closeVars>>

\* The session lookup or the provider builder fails: nothing was built yet.
CreateFails(c) ==
    /\ pc[c] \in {"hydrating", "building"}
    /\ Leave(c)
    /\ DropLocals(c)
    /\ UNCHANGED <<entries, held, memory, made, sessionOf, persistVars,
                   closeVars>>

\* Mutant of CloseOwn: the stack that is not handed out is left open.
LeaveOwnOpen(c) == UNCHANGED closed

\* closeFn of the stack the caller itself has built.
CloseOwn(c) == closed' = [closed EXCEPT ![mine[c]] = @ + 1]

\* A middleware factory fails: the stack built so far is closed.
WrapFails(c) ==
    /\ pc[c] = "built"
    /\ CloseOwn(c)
    /\ DropLocals(c)
    /\ Leave(c)
    /\ UNCHANGED <<entries, held, memory, made, sessionOf, persistVars,
                   swept, closes>>

\* Mutant of Register: the second critical section does not look at the map again.
RegisterBlindly(c) ==
    /\ pc[c] = "built"
    /\ entries' = [entries EXCEPT ![want[c]] = mine[c]]
    /\ held' = [held EXCEPT ![c] = mine[c]]
    /\ DropLocals(c)
    /\ pc' = [pc EXCEPT ![c] = "got"]
    /\ UNCHANGED <<want, memory, made, sessionOf, persistVars, closeVars>>

\* Every middleware factory succeeds (each only allocates) and the second
\* critical section finds that nobody was faster: the stack is installed.
Register(c) ==
    /\ pc[c] = "built"
    /\ entries[want[c]] = NoProvider
    /\ entries' = [entries EXCEPT ![want[c]] = mine[c]]
    /\ held' = [held EXCEPT ![c] = mine[c]]
    /\ DropLocals(c)
    /\ pc' = [pc EXCEPT ![c] = "got"]
    /\ UNCHANGED <<want, memory, made, sessionOf, persistVars, closeVars>>

\* Mutant of LoseRace: the loser of the race returns the stack it built.
LoseRaceKeepingOwn(c) ==
    /\ pc[c] = "built"
    /\ entries[want[c]] # NoProvider
    /\ held' = [held EXCEPT ![c] = mine[c]]
    /\ DropLocals(c)
    /\ pc' = [pc EXCEPT ![c] = "got"]
    /\ UNCHANGED <<entries, want, memory, made, sessionOf, persistVars, closeVars>>

\* Somebody was faster: the caller closes its own stack and gets theirs.
LoseRace(c) ==
    /\ pc[c] = "built"
    /\ entries[want[c]] # NoProvider
    /\ CloseOwn(c)
    /\ held' = [held EXCEPT ![c] = entries[want[c]]]
    /\ DropLocals(c)
    /\ pc' = [pc EXCEPT ![c] = "got"]
    /\ UNCHANGED <<entries, want, memory, made, sessionOf, persistVars, swept,
                   closes>>

-----------------------------------------------------------------------------
(* What a caller does with the provider it holds.                           *)

\* A turn or a compaction moves the provider's in-memory cursor.
Turn(c) ==
    /\ pc[c] = "got"
    /\ memory[held[c]] < MaxTurns
    /\ memory' = [memory EXCEPT ![held[c]] = @ + 1]
    /\ UNCHANGED <<entries, pc, want, held, lookupVars, persistVars, closeVars>>

\* The session-store middleware exports the cursor the provider has now...
ExportPreviousResponse(c) ==
    /\ pc[c] = "got"
    /\ exported' = [exported EXCEPT ![c] = memory[held[c]]]
    /\ pc' = [pc EXCEPT ![c] = "saving"]
    /\ UNCHANGED <<entries, want, held, memory, lookupVars, stored, closeVars>>

\* ...and then updates the session row.  An empty cursor is not stored.
UpdateSession(c) ==
    /\ pc[c] = "saving"
    /\ stored' = IF exported[c] = 0 THEN stored
                 ELSE [stored EXCEPT ![want[c]] = exported[c]]
    /\ exported' = [exported EXCEPT ![c] = 0]
    /\ pc' = [pc EXCEPT ![c] = "got"]
    /\ UNCHANGED <<entries, want, held, memory, lookupVars, closeVars>>

UpdateSessionFails(c) ==
    /\ pc[c] = "saving"
    /\ exported' = [exported EXCEPT ![c] = 0]
    /\ pc' = [pc EXCEPT ![c] = "got"]
    /\ UNCHANGED <<entries, want, held, memory, lookupVars, stored, closeVars>>

\* The stream has ended; the caller may come back with another call.
Return(c) ==
    /\ pc[c] = "got"
    /\ Leave(c)
    /\ held' = [held EXCEPT ![c] = NoProvider]
    /\ UNCHANGED <<entries, memory, lookupVars, persistVars, closeVars>>

-----------------------------------------------------------------------------
(* Close swaps the map under the mutex and closes the entries outside it.   *)

\* Mutant of Close: the map is set to nil, not to a new map.
CloseLeavingNilMap ==
    /\ closes < MaxCloses
    /\ closes' = closes + 1
    /\ swept' = swept \cup Installed
    /\ entries' = <<>>
    /\ UNCHANGED <<pc, want, held, memory, lookupVars, persistVars, closed>>

Close ==
    /\ closes < MaxCloses
    /\ closes' = closes + 1
    /\ swept' = swept \cup Installed
    /\ entries' = [s \in Sessions |-> NoProvider]
    /\ UNCHANGED <<pc, want, held, memory, lookupVars, persistVars, closed>>

CloseEntry(p) ==
    /\ p \in swept
    /\ closed[p] = 0
    /\ closed' = [closed EXCEPT ![p] = @ + 1]
    /\ UNCHANGED <<entries, pc, want, held, memory, lookupVars, persistVars,
                   swept, closes>>

-----------------------------------------------------------------------------
CallerStep(c) ==
    \/ \E explicit, fromCtx \in Names \cup {Blank} : Call(c, explicit, fromCtx)
    \/ LookupHit(c) \/ LookupMiss(c)
    \/ Hydrate(c) \/ Build(c) \/ CreateFails(c) \/ WrapFails(c)
    \/ Register(c) \/ LoseRace(c)
    \/ Turn(c)
    \/ ExportPreviousResponse(c) \/ UpdateSession(c) \/ UpdateSessionFails(c)
    \/ Return(c)

Next ==
    \/ \E c \in Callers : CallerStep(c)
    \/ Close
    \/ \E p \in Providers : CloseEntry(p)

Spec == Init /\ [][Next]_vars

-----------------------------------------------------------------------------
(* Properties                                                               *)

TypeOK ==
    /\ entries \in [Sessions -> Providers \cup {NoProvider}]
    /\ pc \in [Callers -> Steps]
    /\ want \in [Callers -> Sessions \cup {Blank}]
    /\ cursor \in [Callers -> Nat]
    /\ mine \in [Callers -> Providers \cup {NoProvider}]
    /\ held \in [Callers -> Providers \cup {NoProvider}]
    /\ exported \in [Callers -> Nat]
    /\ made \in 0 .. MaxProviders
    /\ sessionOf \in [Providers -> Sessions]
    /\ memory \in [Providers -> Nat]
    /\ stored \in [Sessions -> Nat]
    /\ swept \subseteq Providers
    /\ closed \in [Providers -> Nat]
    /\ closes \in Nat

Holds(c) == pc[c] \in {"got", "saving"}
UnderConstruction(p) ==
    \E c \in Callers : pc[c] = "built" /\ mine[c] = p

\* However their calls interleave, two callers that hold a provider of the
\* same session hold the same one, unless a Close came in between: a second
\* stack would have its own history and its own compression barrier
\* (providerForSession's re-check under the mutex, manager.go 110-119).
Agreement ==
    \A c, d \in Callers :
        /\ Holds(c) /\ Holds(d) /\ want[c] = want[d]
        /\ {held[c], held[d]} \cap swept = {}
        => held[c] = held[d]

\* Whoever asks for a session gets a stack that was hydrated from, and saves
\* to, the row of that session and no other (createProvider's sessionID).
SessionIsolation ==
    \A c \in Callers : Holds(c) => sessionOf[held[c]] = want[c]

\* Every stack ever built is in exactly one place: still being built, in the
\* map, in the hands of a Close, or closed, and its closeFn runs at most once
\* (the closeFn calls of manager.go 113-115, 144-146 and 160-167).  So no stack
\* is dropped without being closed and none that the map hands out is closed.
StackAccounting ==
    \A p \in 1 .. made :
        /\ closed[p] <= 1
        /\ closed[p] = 1 => p \notin Installed /\ ~UnderConstruction(p)
        /\ closed[p] = 0 => p \in swept \cup Installed \/ UnderConstruction(p)
        /\ p \in Installed => p \notin swept /\ ~UnderConstruction(p)

\* The cursor is read long before the stack is installed, yet an installed
\* stack is never behind the session's row, unless an earlier stack of the
\* session was swept by a Close and may still be saving: a stale cursor in
\* the map would silently drop the turns saved in between.
FreshHydration ==
    \A s \in Sessions :
        /\ entries[s] # NoProvider
        /\ \A p \in swept : sessionOf[p] # s
        => memory[entries[s]] >= stored[s]

\* The inductive strengthening of the four invariants above.  Numbering: the
\* stacks that exist are 1..made.  An entry was built for its session, is open
\* and not swept; a stack under construction is known to its builder only; a
\* held provider is the session's entry or was swept; and as long as no stack
\* of a session was swept, whatever may be installed or saved for it was
\* hydrated from, or is ahead of, its row.
CallsOK ==
    \A c \in Callers :
        /\ pc[c] # "idle" => want[c] \in Sessions
        /\ pc[c] = "built" => mine[c] \in Providers
        /\ Holds(c) => held[c] \in Providers

NumberingOK ==
    /\ \A s \in Sessions : entries[s] \in 0 .. made
    /\ swept \subseteq 1 .. made
    /\ \A p \in Providers : p > made => closed[p] = 0

EntriesOK ==
    \A s \in Sessions : entries[s] # NoProvider =>
        /\ sessionOf[entries[s]] = s
        /\ entries[s] \notin swept
        /\ closed[entries[s]] = 0

BuiltOK ==
    \A c \in Callers : pc[c] = "built" =>
        /\ mine[c] \in 1 .. made
        /\ sessionOf[mine[c]] = want[c]
        /\ mine[c] \notin swept
        /\ \A s \in Sessions : entries[s] # mine[c]
        /\ closed[mine[c]] = 0
        /\ \A d \in Callers : pc[d] = "built" /\ mine[d] = mine[c] => d = c

HeldOK ==
    \A c \in Callers : Holds(c) =>
        /\ held[c] \in 1 .. made
        /\ sessionOf[held[c]] = want[c]
        /\ held[c] # entries[want[c]] => held[c] \in swept

Undisturbed(s) == \A p \in swept : sessionOf[p] # s

FreshOK ==
    \A s \in Sessions : Undisturbed(s) =>
        /\ entries[s] # NoProvider => memory[entries[s]] >= stored[s]
        /\ \A c \in Callers : want[c] = s =>
              /\ pc[c] = "saving" => exported[c] <= memory[held[c]]
              /\ entries[s] = NoProvider =>
                    /\ pc[c] = "building" => cursor[c] >= stored[s]
                    /\ pc[c] = "built" => memory[mine[c]] >= stored[s]

IInv ==
    /\ TypeOK /\ CallsOK /\ NumberingOK /\ EntriesOK /\ BuiltOK /\ HeldOK
    /\ StackAccounting /\ FreshOK

\* The unlocked construction is invisible: callers see an atomic
\* get-or-create directory.
PhaseOf(step) ==
    CASE step = "idle" -> "idle"
      [] step \in {"got", "saving"} -> "got"
      [] OTHER -> "asking"

phaseBar == [c \in Callers |-> PhaseOf(pc[c])]

Directory == INSTANCE SessionDirectory WITH
    NoSession <- Blank, phase <- phaseBar
ImplementsDirectory == Directory!Spec
===============================================================================
