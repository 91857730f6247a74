-------------------------------- MODULE Mailbox --------------------------------
(***************************************************************************)
(* What the Telegram listener promises the people who write to it, as long *)
(* as one process lives: it serves the messages that deserve an answer one *)
(* at a time, in the order they were sent, each once, and skips none.  A   *)
(* process starts at the first message that was not acknowledged by an     *)
(* earlier one, so between lives a message may be served again or be lost. *)
(***************************************************************************)
EXTENDS Integers

CONSTANT Ids            \* update numbers, in the order they were sent

VARIABLES
    life,       \* lives so far
    wanted,     \* the messages that deserve an answer in this life
    floor,      \* the last message acknowledged before this life began
    served,     \* the last message served in this life, floor if none
    busy        \* is that message still being served?

vars == <<life, wanted, floor, served, busy>>

\* The next message to serve.
IsNext(i) ==
    /\ i \in wanted
    /\ i > served
    /\ \A j \in wanted : j > served => i <= j

Init ==
    /\ life = 0
    /\ wanted = {}
    /\ floor = 0
    /\ served = 0
    /\ busy = FALSE

Serve(i) ==
    /\ ~busy
    /\ IsNext(i)
    /\ served' = i
    /\ busy' = TRUE
    /\ UNCHANGED <<life, wanted, floor>>

\* The message was answered, or the life ended under it.
Finish ==
    /\ busy
    /\ busy' = FALSE
    /\ UNCHANGED <<life, wanted, floor, served>>

\* Another life begins, with what has been acknowledged so far.
NewLife ==
    /\ life' = life + 1
    /\ wanted' \in SUBSET Ids
    /\ floor' \in Nat
    /\ floor' >= floor
    /\ served' = floor'
    /\ busy' = FALSE

Next == (\E i \in Ids : Serve(i)) \/ Finish \/ NewLife

Spec == Init /\ [][Next]_vars
===============================================================================
