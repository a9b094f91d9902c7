------------------------------ MODULE TaskList ------------------------------
(***************************************************************************)
(* What the computers of a server promise about the tasks they are given:  *)
(* a task is put once, at one computer; it waits there until it is run,    *)
(* stays for a while, in which it may be run again, and once it has left   *)
(* it is never run again.  A run that does not fail is one of all tasks    *)
(* that are there.                                                         *)
(***************************************************************************)
EXTENDS Naturals

CONSTANTS Tasks,
          Computers,
          None       \* no computer

VARIABLES at,        \* task -> the computer it was put at
          waiting,   \* the tasks that have not run
          lingering, \* the tasks that have run and not left
          runs       \* task -> how often it has run

Init ==
    /\ at = [k \in Tasks |-> None]
    /\ waiting = {}
    /\ lingering = {}
    /\ runs = [k \in Tasks |-> 0]

Put(k, c) ==
    /\ at[k] = None
    /\ at' = [at EXCEPT ![k] = c]
    /\ waiting' = waiting \cup {k}
    /\ UNCHANGED <<lingering, runs>>

TasksAt(c) == {k \in waiting \cup lingering : at[k] = c}

Run(tasks) ==
    /\ runs' = [k \in Tasks |-> IF k \in tasks THEN runs[k] + 1 ELSE runs[k]]
    /\ waiting' = waiting \ tasks
    /\ lingering' = lingering \cup tasks
    /\ UNCHANGED at

\* Some of a computer's tasks leave; those that wait do not.
Leave(c) ==
    /\ \E gone \in SUBSET (lingering \cap TasksAt(c)) : lingering' = lingering \ gone
    /\ UNCHANGED <<at, waiting, runs>>

Next ==
    \/ \E k \in Tasks, c \in Computers : Put(k, c)
    \/ \E c \in Computers : \E tasks \in SUBSET TasksAt(c) : Run(tasks)
    \/ \E c \in Computers : Leave(c)

Spec == Init /\ [][Next]_<<at, waiting, lingering, runs>>
=============================================================================
