---------------------------------- MODULE Lock ----------------------------------
(***************************************************************************)
(* What a lock built from chained promises promises its callers: those     *)
(* that ask wait in the order they asked, are let in one at a time, and    *)
(* each of them leaves.                                                    *)
(***************************************************************************)
EXTENDS Sequences

CONSTANT Client

VARIABLES waiting,  \* those that asked and were not let in yet, in order
          inside    \* those that were let in and have not left

lockVars == <<waiting, inside>>

LockInit == waiting = <<>> /\ inside = {}

Ask(c) == /\ c \notin inside /\ \A i \in DOMAIN waiting : waiting[i] # c
          /\ waiting' = Append(waiting, c) /\ UNCHANGED inside

Enter(c) == /\ waiting # <<>> /\ c = Head(waiting) /\ inside = {}
            /\ waiting' = Tail(waiting) /\ inside' = {c}

Leave(c) == /\ c \in inside
            /\ inside' = inside \ {c} /\ UNCHANGED waiting

LockNext == \E c \in Client : Ask(c) \/ Enter(c) \/ Leave(c)

LockSpec == LockInit /\ [][LockNext]_lockVars
================================================================================
