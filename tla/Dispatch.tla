------------------------------ MODULE Dispatch ------------------------------
(***************************************************************************)
(* What the scheduler promises its users, without ticks, transactions and   *)
(* queues: a task is handed over at least once for every run window, moves  *)
(* on to its next window only after that, and is never due again before its *)
(* period is over.  Scheduler implements this.                              *)
(***************************************************************************)
EXTENDS Integers

CONSTANTS
    Tasks,
    Period,   \* hours between two windows of a task, 0 for a single one
    Null      \* no further window

VARIABLES
    known,    \* tasks that were created
    window,   \* the current run window of a task
    handed,   \* tasks handed over in their current window
    waiting,  \* tasks handed over and not yet taken by a worker
    carried   \* tasks carried out

vars == <<known, window, handed, waiting, carried>>

Init ==
    /\ known = {}
    /\ window = [t \in Tasks |-> Null]
    /\ handed = {}
    /\ waiting = {}
    /\ carried = {}

\* A user creates a task, due at any time.
Arm(t) ==
    /\ t \notin known
    /\ known' = known \cup {t}
    /\ window'[t] \in Nat
    /\ \A o \in Tasks \ {t} : window'[o] = window[o]
    /\ UNCHANGED <<handed, waiting, carried>>

\* A task that has a window is handed over, perhaps once more.
HandOver(t) ==
    /\ t \in known
    /\ window[t] # Null
    /\ handed' = handed \cup {t}
    /\ waiting' = waiting \cup {t}
    /\ UNCHANGED <<known, window, carried>>

\* Tasks that were handed over move on, each by its period at least.
MoveOn(moved) ==
    /\ moved \subseteq known \cap handed
    /\ \A t \in moved : IF Period[t] = 0 THEN window'[t] = Null
                        ELSE window'[t] >= window[t] + Period[t]
    /\ \A t \in Tasks \ moved : window'[t] = window[t]
    /\ handed' = handed \ moved
    /\ UNCHANGED <<known, waiting, carried>>

\* A worker takes a task, carries it out or not; it may wait a second time.
Take(t) ==
    /\ t \in waiting
    /\ waiting' \in {waiting, waiting \ {t}}
    /\ carried' \in {carried, carried \cup {t}}
    /\ UNCHANGED <<known, window, handed>>

Next ==
    \/ \E t \in Tasks : Arm(t) \/ HandOver(t) \/ Take(t)
    \/ \E moved \in SUBSET Tasks : MoveOn(moved)

Spec == Init /\ [][Next]_vars
=============================================================================
