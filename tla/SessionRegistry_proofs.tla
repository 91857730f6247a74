------------------------ MODULE SessionRegistry_proofs ------------------------
(***************************************************************************)
(* Proofs about the provider factory: type correctness and the inductive   *)
(* invariant IInv, from which the safety invariants of SessionRegistry     *)
(* follow for every set of callers and sessions and every bound.           *)
(***************************************************************************)
EXTENDS SessionRegistry, TLAPS

-----------------------------------------------------------------------------
\* A call is always resolved to a proper session: the default one for a blank
\* name, so no caller ever works on an unnamed session (resolveSessionID).
LEMMA ResolveInSessions ==
    ASSUME NEW explicit \in Names \cup {Blank}, NEW fromCtx \in Names \cup {Blank}
    PROVE  ResolveSessionID(explicit, fromCtx) \in Sessions
BY DEF ResolveSessionID, NormalizeSessionID, Sessions

\* Every variable of the factory keeps its type, and every call in progress is
\* for a proper session, for every instance.
LEMMA TypeStep == TypeOK /\ CallsOK /\ [Next]_vars => TypeOK' /\ CallsOK'
<1> SUFFICES ASSUME TypeOK, CallsOK, [Next]_vars PROVE TypeOK' /\ CallsOK'
  OBVIOUS
<1> USE DEF TypeOK, CallsOK, Holds, Steps
<1>1. ASSUME NEW c \in Callers, NEW e \in Names \cup {Blank},
             NEW f \in Names \cup {Blank}, Call(c, e, f)
      PROVE  TypeOK' /\ CallsOK'
  BY <1>1, ResolveInSessions DEF Call, lookupVars, localVars, persistVars, closeVars
<1>2. ASSUME NEW c \in Callers, LookupHit(c) \/ LookupMiss(c)
      PROVE  TypeOK' /\ CallsOK'
  BY <1>2 DEF LookupHit, LookupMiss, lookupVars, localVars, persistVars, closeVars
<1>3. ASSUME NEW c \in Callers, Hydrate(c)
      PROVE  TypeOK' /\ CallsOK'
  BY <1>3 DEF Hydrate, PersistedCursor, persistVars, closeVars
<1>4. ASSUME NEW c \in Callers, Build(c)
      PROVE  TypeOK' /\ CallsOK'
  <2>1. made + 1 \in Providers /\ made + 1 \in 0 .. MaxProviders
    BY <1>4, BoundsAssumption DEF Build, Providers
  <2> QED
    BY <1>4, <2>1 DEF Build, persistVars, closeVars
<1>5. ASSUME NEW c \in Callers, CreateFails(c) \/ WrapFails(c)
      PROVE  TypeOK' /\ CallsOK'
  BY <1>5 DEF CreateFails, WrapFails, Leave, DropLocals, CloseOwn,
              persistVars, closeVars
<1>6. ASSUME NEW c \in Callers, Register(c) \/ LoseRace(c)
      PROVE  TypeOK' /\ CallsOK'
  BY <1>6 DEF Register, LoseRace, DropLocals, CloseOwn, persistVars, closeVars
<1>7. ASSUME NEW c \in Callers, Turn(c)
      PROVE  TypeOK' /\ CallsOK'
  BY <1>7 DEF Turn, lookupVars, localVars, persistVars, closeVars
<1>8. ASSUME NEW c \in Callers,
             \/ ExportPreviousResponse(c) \/ UpdateSession(c)
             \/ UpdateSessionFails(c) \/ Return(c)
      PROVE  TypeOK' /\ CallsOK'
  <2>1. CASE ExportPreviousResponse(c)
    BY <2>1 DEF ExportPreviousResponse, lookupVars, localVars, closeVars
  <2>2. CASE UpdateSession(c)
    BY <2>2 DEF UpdateSession, lookupVars, localVars, closeVars
  <2>3. CASE UpdateSessionFails(c) \/ Return(c)
    BY <2>3 DEF UpdateSessionFails, Return, Leave, lookupVars, localVars,
                persistVars, closeVars
  <2> QED
    BY <1>8, <2>1, <2>2, <2>3
<1>9. CASE Close
  BY <1>9 DEF Close, Installed, lookupVars, localVars, persistVars
<1>10. ASSUME NEW p \in Providers, CloseEntry(p)
       PROVE  TypeOK' /\ CallsOK'
  BY <1>10 DEF CloseEntry, lookupVars, localVars, persistVars
<1>11. CASE UNCHANGED vars
  BY <1>11 DEF vars
<1> QED
  BY <1>1, <1>2, <1>3, <1>4, <1>5, <1>6, <1>7, <1>8, <1>9, <1>10, <1>11
     DEF Next, CallerStep

\* Every variable keeps its type in every reachable state, for every instance:
\* the map never holds anything but stacks that were built.
THEOREM TypeCorrect == Spec => []TypeOK
<1>1. Init => TypeOK /\ CallsOK
  BY NamesAssumption, BoundsAssumption, InitialRowsAssumption
     DEF Init, TypeOK, CallsOK, Holds, Sessions, Providers, NoProvider, Steps
<1> QED
  BY <1>1, TypeStep, PTL DEF Spec

-----------------------------------------------------------------------------
(* The inductive invariant, one lemma per conjunct.                          *)

\* The steps that leave the map, the stacks and their closing alone.
Quiet(c) ==
    \/ \E e, f \in Names \cup {Blank} : Call(c, e, f)
    \/ LookupHit(c) \/ LookupMiss(c) \/ Hydrate(c) \/ CreateFails(c) \/ Turn(c)
    \/ ExportPreviousResponse(c) \/ UpdateSession(c) \/ UpdateSessionFails(c)
    \/ Return(c)

\* Steps that neither build, install, hand out nor close a stack leave the map,
\* the numbering, and the ownership of stacks under construction alone.
LEMMA QuietFrame ==
    ASSUME TypeOK, NEW c \in Callers, Quiet(c)
    PROVE  /\ UNCHANGED <<entries, made, sessionOf, swept, closed>>
           /\ pc'[c] # "built"
           /\ \A d \in Callers \ {c} :
                 UNCHANGED <<pc[d], want[d], mine[d], held[d]>>
<1> USE DEF TypeOK
<1>1. CASE \E e, f \in Names \cup {Blank} : Call(c, e, f)
  BY <1>1 DEF Call, lookupVars, localVars, persistVars, closeVars
<1>2. CASE LookupHit(c) \/ LookupMiss(c)
  BY <1>2 DEF LookupHit, LookupMiss, lookupVars, localVars, persistVars, closeVars
<1>3. CASE Hydrate(c) \/ Turn(c)
  BY <1>3 DEF Hydrate, Turn, lookupVars, localVars, persistVars, closeVars
<1>4. CASE CreateFails(c)
  BY <1>4 DEF CreateFails, Leave, DropLocals, persistVars, closeVars
<1>5. CASE ExportPreviousResponse(c) \/ UpdateSession(c)
  BY <1>5 DEF ExportPreviousResponse, UpdateSession, lookupVars, localVars, closeVars
<1>6. CASE UpdateSessionFails(c) \/ Return(c)
  BY <1>6 DEF UpdateSessionFails, Return, Leave, lookupVars, localVars,
              persistVars, closeVars
<1> QED
  BY <1>1, <1>2, <1>3, <1>4, <1>5, <1>6 DEF Quiet

\* Stacks are numbered in the order createProvider builds them, and only stacks
\* that exist are in the map, swept or closed.
LEMMA NumberingStep ==
    TypeOK /\ CallsOK /\ NumberingOK /\ BuiltOK /\ [Next]_vars => NumberingOK'
<1> SUFFICES ASSUME TypeOK, CallsOK, NumberingOK, BuiltOK, [Next]_vars
             PROVE  NumberingOK'
  OBVIOUS
<1> USE DEF TypeOK, NumberingOK
<1>1. ASSUME NEW c \in Callers, Quiet(c)
      PROVE  NumberingOK'
  BY <1>1, QuietFrame
<1>2. ASSUME NEW c \in Callers, Build(c)
      PROVE  NumberingOK'
  BY <1>2 DEF Build, closeVars
<1>3. ASSUME NEW c \in Callers, WrapFails(c)
      PROVE  NumberingOK'
  BY <1>3 DEF WrapFails, CloseOwn, BuiltOK
<1>4. ASSUME NEW c \in Callers, Register(c)
      PROVE  NumberingOK'
  BY <1>4 DEF Register, BuiltOK, closeVars
<1>5. ASSUME NEW c \in Callers, LoseRace(c)
      PROVE  NumberingOK'
  BY <1>5 DEF LoseRace, CloseOwn, BuiltOK
<1>6. CASE Close
  <2>1. made \in Nat
    BY BoundsAssumption
  <2>2. Installed \subseteq 1 .. made
    BY <2>1 DEF Installed, NoProvider
  <2> QED
    BY <1>6, <2>1, <2>2 DEF Close, NoProvider, lookupVars
<1>7. ASSUME NEW p \in Providers, CloseEntry(p)
      PROVE  NumberingOK'
  BY <1>7 DEF CloseEntry, lookupVars
<1>8. CASE UNCHANGED vars
  BY <1>8 DEF vars
<1> QED
  BY <1>1, <1>2, <1>3, <1>4, <1>5, <1>6, <1>7, <1>8 DEF Next, CallerStep, Quiet

\* The map always holds, under each session, an open stack built for that
\* session and not yet withdrawn by Close.
LEMMA EntriesStep ==
    TypeOK /\ CallsOK /\ NumberingOK /\ EntriesOK /\ BuiltOK /\ [Next]_vars
    => EntriesOK'
<1> SUFFICES ASSUME TypeOK, CallsOK, NumberingOK, EntriesOK, BuiltOK, [Next]_vars
             PROVE  EntriesOK'
  OBVIOUS
<1> USE DEF TypeOK, EntriesOK
<1>1. ASSUME NEW c \in Callers, Quiet(c)
      PROVE  EntriesOK'
  BY <1>1, QuietFrame
<1>2. ASSUME NEW c \in Callers, Build(c)
      PROVE  EntriesOK'
  BY <1>2 DEF Build, closeVars, NumberingOK
<1>3. ASSUME NEW c \in Callers, WrapFails(c)
      PROVE  EntriesOK'
  BY <1>3 DEF WrapFails, CloseOwn, BuiltOK
<1>4. ASSUME NEW c \in Callers, Register(c)
      PROVE  EntriesOK'
  BY <1>4 DEF Register, BuiltOK, CallsOK, closeVars
<1>5. ASSUME NEW c \in Callers, LoseRace(c)
      PROVE  EntriesOK'
  BY <1>5 DEF LoseRace, CloseOwn, BuiltOK
<1>6. CASE Close
  BY <1>6 DEF Close, lookupVars
<1>7. ASSUME NEW p \in Providers, CloseEntry(p)
      PROVE  EntriesOK'
  BY <1>7 DEF CloseEntry, lookupVars
<1>8. CASE UNCHANGED vars
  BY <1>8 DEF vars
<1> QED
  BY <1>1, <1>2, <1>3, <1>4, <1>5, <1>6, <1>7, <1>8 DEF Next, CallerStep, Quiet

\* A stack between createProvider and the second critical section is known to
\* its builder alone: not in the map, not swept, not closed.
LEMMA BuiltStep ==
    TypeOK /\ CallsOK /\ NumberingOK /\ EntriesOK /\ BuiltOK /\ [Next]_vars
    => BuiltOK'
<1> SUFFICES ASSUME TypeOK, CallsOK, NumberingOK, EntriesOK, BuiltOK, [Next]_vars
             PROVE  BuiltOK'
  OBVIOUS
<1> USE DEF TypeOK, BuiltOK
<1>1. ASSUME NEW c \in Callers, Quiet(c)
      PROVE  BuiltOK'
  BY <1>1, QuietFrame
<1>2. ASSUME NEW c \in Callers, Build(c)
      PROVE  BuiltOK'
  <2>1. made + 1 \in Providers /\ made \in Nat
    BY <1>2, BoundsAssumption DEF Build, Providers
  <2>2. \A p \in 1 .. made : p # made + 1 /\ p \in 1 .. made + 1
    BY <2>1
  <2> QED
    BY <1>2, <2>1, <2>2 DEF Build, closeVars, NumberingOK, CallsOK
<1>3. ASSUME NEW c \in Callers, WrapFails(c)
      PROVE  BuiltOK'
  BY <1>3 DEF WrapFails, CloseOwn, Leave, DropLocals
<1>4. ASSUME NEW c \in Callers, Register(c)
      PROVE  BuiltOK'
  BY <1>4 DEF Register, DropLocals, closeVars
<1>5. ASSUME NEW c \in Callers, LoseRace(c)
      PROVE  BuiltOK'
  BY <1>5 DEF LoseRace, CloseOwn, DropLocals
<1>6. CASE Close
  BY <1>6 DEF Close, Installed, NoProvider, lookupVars, localVars
<1>7. ASSUME NEW p \in Providers, CloseEntry(p)
      PROVE  BuiltOK'
  BY <1>7 DEF CloseEntry, lookupVars, localVars
<1>8. CASE UNCHANGED vars
  BY <1>8 DEF vars
<1> QED
  BY <1>1, <1>2, <1>3, <1>4, <1>5, <1>6, <1>7, <1>8 DEF Next, CallerStep, Quiet

\* What a call returned stays the session's entry until a Close sweeps it: no
\* other caller's second critical section can replace it.
LEMMA HeldStep ==
    TypeOK /\ CallsOK /\ NumberingOK /\ EntriesOK /\ BuiltOK /\ HeldOK /\ [Next]_vars
    => HeldOK'
<1> SUFFICES ASSUME TypeOK, CallsOK, NumberingOK, EntriesOK, BuiltOK, HeldOK,
                    [Next]_vars
             PROVE  HeldOK'
  OBVIOUS
<1> USE DEF TypeOK, HeldOK, Holds
<1>1. ASSUME NEW c \in Callers, Quiet(c)
      PROVE  HeldOK'
  <2>1. \A d \in Callers \ {c} : UNCHANGED <<pc[d], want[d], held[d]>>
    BY <1>1, QuietFrame
  <2>2. UNCHANGED <<entries, made, sessionOf, swept>>
    BY <1>1, QuietFrame
  <2>3. CASE LookupHit(c)
    BY <2>1, <2>2, <2>3 DEF LookupHit, CallsOK, NumberingOK, EntriesOK, NoProvider
  <2>4. CASE Turn(c) \/ ExportPreviousResponse(c) \/ UpdateSession(c)
             \/ UpdateSessionFails(c)
    BY <2>1, <2>2, <2>4 DEF Turn, ExportPreviousResponse, UpdateSession,
                            UpdateSessionFails
  <2>5. CASE Return(c) \/ LookupMiss(c) \/ Hydrate(c) \/ CreateFails(c)
             \/ \E e, f \in Names \cup {Blank} : Call(c, e, f)
    <3>1. ~Holds(c)'
      BY <2>5 DEF Return, LookupMiss, Hydrate, CreateFails, Call, Leave
    <3> QED
      BY <2>1, <2>2, <3>1
  <2> QED
    BY <1>1, <2>3, <2>4, <2>5 DEF Quiet
<1>2. ASSUME NEW c \in Callers, Build(c)
      PROVE  HeldOK'
  <2>1. made \in Nat
    BY BoundsAssumption
  <2>2. \A p \in 1 .. made : p # made + 1 /\ p \in 1 .. made + 1
    BY <2>1
  <2> QED
    BY <1>2, <2>1, <2>2 DEF Build, closeVars
<1>3. ASSUME NEW c \in Callers, WrapFails(c)
      PROVE  HeldOK'
  BY <1>3 DEF WrapFails, Leave, DropLocals
<1>4. ASSUME NEW c \in Callers, Register(c)
      PROVE  HeldOK'
  BY <1>4 DEF Register, BuiltOK, CallsOK, NoProvider, closeVars
<1>5. ASSUME NEW c \in Callers, LoseRace(c)
      PROVE  HeldOK'
  BY <1>5 DEF LoseRace, CallsOK, NumberingOK, EntriesOK, NoProvider
<1>6. CASE Close
  BY <1>6 DEF Close, Installed, CallsOK, NoProvider, lookupVars
<1>7. ASSUME NEW p \in Providers, CloseEntry(p)
      PROVE  HeldOK'
  BY <1>7 DEF CloseEntry, lookupVars
<1>8. CASE UNCHANGED vars
  BY <1>8 DEF vars
<1> QED
  BY <1>1, <1>2, <1>3, <1>4, <1>5, <1>6, <1>7, <1>8 DEF Next, CallerStep, Quiet

\* No step loses a stack or closes one twice.
LEMMA AccountingStep ==
    /\ TypeOK /\ CallsOK /\ NumberingOK /\ EntriesOK /\ BuiltOK
    /\ StackAccounting /\ [Next]_vars
    => StackAccounting'
<1> SUFFICES ASSUME TypeOK, CallsOK, NumberingOK, EntriesOK, BuiltOK,
                    StackAccounting, [Next]_vars
             PROVE  StackAccounting'
  OBVIOUS
<1> USE DEF TypeOK, StackAccounting, UnderConstruction, Installed
<1>0. made \in Nat /\ \A p \in 1 .. made : p \in Providers
  BY BoundsAssumption DEF Providers
<1>1. ASSUME NEW c \in Callers, Quiet(c)
      PROVE  StackAccounting'
  <2>1. pc[c] # "built"
    BY <1>1 DEF Quiet, Call, LookupHit, LookupMiss, Hydrate, CreateFails, Turn,
         ExportPreviousResponse, UpdateSession, UpdateSessionFails, Return
  <2> QED
    BY <1>1, <2>1, QuietFrame
<1>2. ASSUME NEW c \in Callers, Build(c)
      PROVE  StackAccounting'
  <2>1. made + 1 \in Providers /\ made' = made + 1
    BY <1>2, BoundsAssumption DEF Build, Providers
  <2>2. \A p \in 1 .. made' : p = made + 1 \/ p \in 1 .. made
    BY <1>0, <2>1
  <2>3. ASSUME NEW p \in 1 .. made
        PROVE  UnderConstruction(p)' <=> UnderConstruction(p)
    BY <1>0, <1>2, <2>3 DEF Build
  <2> QED
    BY <1>0, <1>2, <2>1, <2>2, <2>3 DEF Build, closeVars, NumberingOK, EntriesOK, NoProvider
<1>3. ASSUME NEW c \in Callers, WrapFails(c)
      PROVE  StackAccounting'
  BY <1>0, <1>3 DEF WrapFails, CloseOwn, Leave, DropLocals, BuiltOK
<1>4. ASSUME NEW c \in Callers, Register(c)
      PROVE  StackAccounting'
  BY <1>0, <1>4 DEF Register, DropLocals, closeVars, BuiltOK
<1>5. ASSUME NEW c \in Callers, LoseRace(c)
      PROVE  StackAccounting'
  BY <1>0, <1>5 DEF LoseRace, CloseOwn, DropLocals, BuiltOK
<1>6. CASE Close
  BY <1>0, <1>6 DEF Close, lookupVars, localVars, EntriesOK, BuiltOK
<1>7. ASSUME NEW p \in Providers, CloseEntry(p)
      PROVE  StackAccounting'
  BY <1>0, <1>7 DEF CloseEntry, lookupVars, localVars, BuiltOK, EntriesOK
<1>8. CASE UNCHANGED vars
  BY <1>8 DEF vars
<1> QED
  BY <1>1, <1>2, <1>3, <1>4, <1>5, <1>6, <1>7, <1>8 DEF Next, CallerStep, Quiet

\* While no stack of a session was swept, a caller that holds one of its
\* stacks holds the installed one.
LEMMA HeldIsInstalled ==
    ASSUME HeldOK, NEW s \in Sessions, Undisturbed(s),
           NEW c \in Callers, Holds(c), want[c] = s
    PROVE  held[c] = entries[s] /\ entries[s] # NoProvider
BY DEF HeldOK, Undisturbed, NoProvider

\* While no stack of a session was swept, nothing that may still be installed
\* for it is behind its row: the row moves only by saves of the installed stack.
LEMMA FreshStep ==
    /\ TypeOK /\ CallsOK /\ NumberingOK /\ EntriesOK /\ BuiltOK /\ HeldOK
    /\ FreshOK /\ [Next]_vars
    => FreshOK'
<1> SUFFICES ASSUME TypeOK, CallsOK, NumberingOK, EntriesOK, BuiltOK, HeldOK,
                    FreshOK, [Next]_vars
             PROVE  FreshOK'
  OBVIOUS
<1> USE DEF TypeOK, FreshOK, Undisturbed
<1>1. ASSUME NEW c \in Callers, Quiet(c)
      PROVE  FreshOK'
  <2> USE DEF lookupVars, localVars, persistVars, closeVars
  <2>1. ASSUME NEW e \in Names \cup {Blank}, NEW f \in Names \cup {Blank}, Call(c, e, f)
        PROVE  FreshOK'
    BY <2>1 DEF Call
  <2>2. CASE LookupHit(c) \/ LookupMiss(c)
    BY <2>2 DEF LookupHit, LookupMiss
  <2>3. CASE Hydrate(c)
    BY <2>3 DEF Hydrate, PersistedCursor
  <2>4. CASE CreateFails(c)
    BY <2>4 DEF CreateFails, Leave, DropLocals
  <2>5. CASE Turn(c)
    <3>1. held[c] \in Providers /\ memory[held[c]] \in Nat
      BY <2>5 DEF Turn, CallsOK, Holds
    <3>2. \A p \in Providers : memory'[p] \in Nat /\ memory[p] \in Nat /\ memory'[p] >= memory[p]
      BY <2>5, <3>1 DEF Turn
    <3>3. UNCHANGED <<entries, pc, want, held, cursor, mine, exported, stored,
                      sessionOf, swept>>
      BY <2>5 DEF Turn
    <3> QED
      BY <3>2, <3>3 DEF CallsOK, Holds, NoProvider
  <2>6. CASE ExportPreviousResponse(c)
    BY <2>6 DEF ExportPreviousResponse, CallsOK, Holds
  <2>7. CASE UpdateSession(c)
    <3>1. ASSUME NEW s \in Sessions, Undisturbed(s), want[c] = s
          PROVE  held[c] = entries[s] /\ entries[s] # NoProvider
      BY <2>7, <3>1, HeldIsInstalled DEF UpdateSession, Holds
    <3> QED
      BY <2>7, <3>1 DEF UpdateSession
  <2>8. CASE UpdateSessionFails(c) \/ Return(c)
    BY <2>8 DEF UpdateSessionFails, Return, Leave
  <2> QED
    BY <1>1, <2>1, <2>2, <2>3, <2>4, <2>5, <2>6, <2>7, <2>8 DEF Quiet
<1>2. ASSUME NEW c \in Callers, Build(c)
      PROVE  FreshOK'
  <2>1. made + 1 \in Providers /\ \A p \in 1 .. made : p # made + 1 /\ p \in Providers
    BY <1>2, BoundsAssumption DEF Build, Providers
  <2>2. \A s \in Sessions : Undisturbed(s)' => Undisturbed(s)
    BY <1>2, <2>1 DEF Build, NumberingOK, closeVars
  <2>3. \A p \in 1 .. made : memory'[p] = memory[p]
    BY <1>2, <2>1 DEF Build
  <2>4. \A s \in Sessions : entries[s] # NoProvider => entries[s] \in 1 .. made
    BY BoundsAssumption DEF NumberingOK, NoProvider
  <2>5. memory'[mine'[c]] = cursor[c]
    BY <1>2, <2>1 DEF Build
  <2>6. \A d \in Callers \ {c} : UNCHANGED <<pc[d], mine[d]>>
    BY <1>2 DEF Build
  <2> QED
    BY <1>2, <2>2, <2>3, <2>4, <2>5, <2>6
       DEF Build, BuiltOK, HeldOK, Holds, persistVars, closeVars
<1>3. ASSUME NEW c \in Callers, WrapFails(c)
      PROVE  FreshOK'
  BY <1>3 DEF WrapFails, Leave, DropLocals, persistVars
<1>4. ASSUME NEW c \in Callers, Register(c)
      PROVE  FreshOK'
  BY <1>4 DEF Register, DropLocals, CallsOK, NoProvider, persistVars, closeVars
<1>5. ASSUME NEW c \in Callers, LoseRace(c)
      PROVE  FreshOK'
  BY <1>5 DEF LoseRace, CloseOwn, DropLocals, persistVars
<1>6. CASE Close
  <2>1. ASSUME NEW s \in Sessions, Undisturbed(s)'
        PROVE  Undisturbed(s) /\ entries[s] = NoProvider
    BY <1>6, <2>1 DEF Close, Installed, EntriesOK, lookupVars
  <2> QED
    BY <1>6, <2>1 DEF Close, lookupVars, localVars, persistVars
<1>7. ASSUME NEW p \in Providers, CloseEntry(p)
      PROVE  FreshOK'
  BY <1>7 DEF CloseEntry, lookupVars, localVars, persistVars
<1>8. CASE UNCHANGED vars
  BY <1>8 DEF vars
<1> QED
  BY <1>1, <1>2, <1>3, <1>4, <1>5, <1>6, <1>7, <1>8 DEF Next, CallerStep, Quiet

-----------------------------------------------------------------------------
\* IInv is inductive.
THEOREM Invariance == Spec => []IInv
<1>1. Init => IInv
  <2> SUFFICES ASSUME Init PROVE IInv
    OBVIOUS
  <2>1. TypeOK /\ CallsOK
    BY NamesAssumption, BoundsAssumption, InitialRowsAssumption
       DEF Init, TypeOK, CallsOK, Holds, Sessions, Providers, NoProvider, Steps
  <2>2. NumberingOK /\ EntriesOK /\ BuiltOK /\ HeldOK
    BY DEF Init, NumberingOK, EntriesOK, BuiltOK, HeldOK, Holds, NoProvider
  <2>3. StackAccounting /\ FreshOK
    BY DEF Init, StackAccounting, FreshOK, NoProvider
  <2> QED
    BY <2>1, <2>2, <2>3 DEF IInv
<1>2. IInv /\ [Next]_vars => IInv'
  BY TypeStep, NumberingStep, EntriesStep, BuiltStep, HeldStep, AccountingStep,
     FreshStep DEF IInv
<1> QED
  BY <1>1, <1>2, PTL DEF Spec

\* Two callers that hold a provider of the same session hold the same one,
\* whatever the interleaving of their calls (providerForSession's re-check).
THEOREM AgreementHolds == Spec => []Agreement
<1>1. IInv => Agreement
  BY DEF IInv, HeldOK, Agreement
<1> QED
  BY <1>1, Invariance, PTL

\* Every caller works on a stack built for the session it asked for.
THEOREM SessionIsolationHolds == Spec => []SessionIsolation
<1>1. IInv => SessionIsolation
  BY DEF IInv, HeldOK, SessionIsolation
<1> QED
  BY <1>1, Invariance, PTL

\* No stack is dropped unclosed, closed twice, or handed out closed.
THEOREM StackAccountingHolds == Spec => []StackAccounting
<1>1. IInv => StackAccounting
  BY DEF IInv
<1> QED
  BY <1>1, Invariance, PTL

\* An installed stack of a session no Close disturbed is never behind its row.
THEOREM FreshHydrationHolds == Spec => []FreshHydration
<1>1. IInv => FreshHydration
  BY DEF IInv, FreshOK, FreshHydration, Undisturbed
<1> QED
  BY <1>1, Invariance, PTL

-----------------------------------------------------------------------------
(* Refinement: every step of the factory is a step of the atomic directory   *)
(* or leaves it unchanged.                                                    *)

\* A step that stays within one phase of a call does not move the abstract phase.
LEMMA PhaseBarKept ==
    ASSUME NEW c \in Callers, TypeOK, NEW step, pc' = [pc EXCEPT ![c] = step],
           PhaseOf(step) = PhaseOf(pc[c])
    PROVE  phaseBar' = phaseBar
BY DEF phaseBar, TypeOK

\* Moving one caller's step moves that caller's abstract phase and no other.
LEMMA PhaseBarMoved ==
    ASSUME NEW c \in Callers, TypeOK, NEW step, pc' = [pc EXCEPT ![c] = step]
    PROVE  phaseBar' = [phaseBar EXCEPT ![c] = PhaseOf(step)]
BY DEF phaseBar, TypeOK

\* The abstract phase of a caller is the phase of its step.
LEMMA PhaseBarOf == ASSUME NEW c \in Callers PROVE phaseBar[c] = PhaseOf(pc[c])
BY DEF phaseBar

\* Two critical sections around an unlocked construction look, to callers,
\* like an atomic get-or-create.
THEOREM Refinement == Spec => ImplementsDirectory
<1>1. Init => Directory!Init
  BY DEF Init, Directory!Init, phaseBar, PhaseOf
<1>2. IInv /\ [Next]_vars => [Directory!Next]_Directory!vars
  <2> SUFFICES ASSUME IInv, [Next]_vars
               PROVE  Directory!Next \/ UNCHANGED Directory!vars
    OBVIOUS
  <2> USE DEF IInv, Directory!vars
  <2>1. ASSUME NEW c \in Callers, NEW e \in Names \cup {Blank},
               NEW f \in Names \cup {Blank}, Call(c, e, f)
        PROVE  \E s \in Sessions : Directory!Ask(c, s)
    <3>1. phaseBar[c] = "idle" /\ phaseBar' = [phaseBar EXCEPT ![c] = "asking"]
      <4>1. phaseBar[c] = "idle"
        BY <2>1, PhaseBarOf DEF Call, PhaseOf
      <4>2. phaseBar' = [phaseBar EXCEPT ![c] = PhaseOf("lookup")]
        BY <2>1, PhaseBarMoved DEF Call
      <4> QED
        BY <4>1, <4>2 DEF PhaseOf
    <3> QED
      BY <2>1, <3>1, ResolveInSessions DEF Call, Directory!Ask, closeVars
  <2>2. ASSUME NEW c \in Callers, LookupHit(c)
        PROVE  Directory!AnswerExisting(c)
    <3>1. phaseBar[c] = "asking" /\ phaseBar' = [phaseBar EXCEPT ![c] = "got"]
      BY <2>2, PhaseBarMoved, PhaseBarOf DEF LookupHit, PhaseOf
    <3> QED
      BY <2>2, <3>1 DEF LookupHit, Directory!AnswerExisting, closeVars
  <2>3. ASSUME NEW c \in Callers, LookupMiss(c) \/ Hydrate(c) \/ Build(c)
        PROVE  UNCHANGED Directory!vars
    <3>1. phaseBar' = phaseBar
      <4>1. CASE LookupMiss(c)
        BY <4>1, PhaseBarKept DEF LookupMiss, PhaseOf
      <4>2. CASE Hydrate(c)
        BY <4>2, PhaseBarKept DEF Hydrate, PhaseOf
      <4>3. CASE Build(c)
        BY <4>3, PhaseBarKept DEF Build, PhaseOf
      <4> QED
        BY <2>3, <4>1, <4>2, <4>3
    <3> QED
      BY <2>3, <3>1 DEF LookupMiss, Hydrate, Build, closeVars
  <2>4. ASSUME NEW c \in Callers, CreateFails(c) \/ WrapFails(c)
        PROVE  Directory!Refuse(c)
    <3>1. phaseBar[c] = "asking" /\ phaseBar' = [phaseBar EXCEPT ![c] = "idle"]
      BY <2>4, PhaseBarMoved, PhaseBarOf DEF CreateFails, WrapFails, Leave, PhaseOf
    <3> QED
      BY <2>4, <3>1 DEF CreateFails, WrapFails, Leave, Directory!Refuse, closeVars
  <2>5. ASSUME NEW c \in Callers, Register(c)
        PROVE  Directory!AnswerNew(c)
    <3>1. phaseBar[c] = "asking" /\ phaseBar' = [phaseBar EXCEPT ![c] = "got"]
      BY <2>5, PhaseBarMoved, PhaseBarOf DEF Register, PhaseOf
    <3>2. mine[c] \in Providers \ (swept \cup Directory!Installed)
      BY <2>5 DEF Register, CallsOK, BuiltOK, Directory!Installed
    <3> QED
      BY <2>5, <3>1, <3>2 DEF Register, Directory!AnswerNew, closeVars
  <2>6. ASSUME NEW c \in Callers, LoseRace(c)
        PROVE  Directory!AnswerExisting(c)
    <3>1. phaseBar[c] = "asking" /\ phaseBar' = [phaseBar EXCEPT ![c] = "got"]
      BY <2>6, PhaseBarMoved, PhaseBarOf DEF LoseRace, PhaseOf
    <3> QED
      BY <2>6, <3>1 DEF LoseRace, Directory!AnswerExisting
  <2>7. ASSUME NEW c \in Callers,
               \/ Turn(c) \/ ExportPreviousResponse(c) \/ UpdateSession(c)
               \/ UpdateSessionFails(c)
        PROVE  UNCHANGED Directory!vars
    <3>1. phaseBar' = phaseBar
      <4>1. CASE Turn(c)
        BY <4>1 DEF Turn, phaseBar
      <4>2. CASE ~Turn(c)
        BY <2>7, <4>2, PhaseBarKept
           DEF ExportPreviousResponse, UpdateSession, UpdateSessionFails, PhaseOf
      <4> QED
        BY <4>1, <4>2
    <3> QED
      BY <2>7, <3>1
         DEF Turn, ExportPreviousResponse, UpdateSession, UpdateSessionFails, closeVars
  <2>8. ASSUME NEW c \in Callers, Return(c)
        PROVE  Directory!Release(c)
    <3>1. phaseBar[c] = "got" /\ phaseBar' = [phaseBar EXCEPT ![c] = "idle"]
      BY <2>8, PhaseBarMoved, PhaseBarOf DEF Return, Leave, PhaseOf
    <3> QED
      BY <2>8, <3>1 DEF Return, Leave, Directory!Release, closeVars
  <2>9. ASSUME Close
        PROVE  Directory!Sweep
    BY <2>9 DEF Close, phaseBar, Directory!Sweep, Installed, Directory!Installed
  <2>10. ASSUME NEW p \in Providers, CloseEntry(p)
         PROVE  UNCHANGED Directory!vars
    BY <2>10 DEF CloseEntry, phaseBar
  <2>11. CASE UNCHANGED vars
    BY <2>11 DEF vars, phaseBar
  <2> QED
    BY <2>1, <2>2, <2>3, <2>4, <2>5, <2>6, <2>7, <2>8, <2>9, <2>10, <2>11
       DEF Next, CallerStep, Directory!Next
<1> QED
  BY <1>1, <1>2, Invariance, PTL DEF Spec, ImplementsDirectory, Directory!Spec
===============================================================================
