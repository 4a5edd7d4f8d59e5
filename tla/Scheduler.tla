----------------------------- MODULE Scheduler -----------------------------
(***************************************************************************)
(* Scheduled tasks, from the table scheduled_tasks to the userbot's client:*)
(* ScheduledTaskService (src/app/scheduler/service.py), the dispatch of    *)
(* due tasks in the scheduler's tick (scheduler/loop.py), the Redis list   *)
(* tasks:userbots (scheduler/queue.py) and _process_tasks of the worker    *)
(* (workers/manager.py).                                                   *)
(*                                                                         *)
(* The tick pushes to Redis before it commits to PostgreSQL; users create  *)
(* and cancel tasks in transactions of their own meanwhile.  cancel sends  *)
(* one UPDATE that does not depend on what it loaded, so it is one step.   *)
(***************************************************************************)
EXTENDS Integers, Sequences, FiniteSets

CONSTANTS
    Tasks,      \* rows of scheduled_tasks
    Period,     \* the repeat rule of a task as a number of hours, 0 for one_time
    Limit,      \* list_due's limit
    MaxNow,     \* bound: hours in one behaviour
    MaxFailed,  \* bound: failed ticks
    MaxLost     \* bound: tasks lost between Redis and the client

ASSUME SchedulerAssumption ==
    /\ Period \in [Tasks -> Nat]
    /\ Limit \in Nat
    /\ MaxNow \in Nat
    /\ MaxFailed \in Nat
    /\ MaxLost \in Nat

Status == {"none", "pending", "success", "cancelled"}

\* A next_run_at that is NULL.
Null == -1

VARIABLES
    status,   \* scheduled_tasks.status, "none" before create
    next,     \* scheduled_tasks.next_run_at
    sent,     \* history: pushes of a task since next_run_at was last committed
    queue,    \* the Redis list tasks:userbots
    tick,     \* "idle" or "dispatch"
    began,    \* the tick's now
    due,      \* the tasks list_due returned
    pushed,   \* those the tick has pushed
    up,       \* has the owner's userbot a runtime in the worker
    done,     \* history: tasks a client has carried out
    now,
    failed,   \* failed ticks so far
    lost      \* tasks lost so far

tickVars == <<tick, began, due, pushed>>
rowVars == <<status, next>>
vars == <<rowVars, sent, queue, tickVars, up, done, now, failed, lost>>

-----------------------------------------------------------------------------
(* Users                                                                   *)

\* create: a date in the past is accepted.
Create(t, at) ==
    /\ status[t] = "none"
    /\ status' = [status EXCEPT ![t] = "pending"]
    /\ next' = [next EXCEPT ![t] = at]
    /\ UNCHANGED <<sent, queue, tickVars, up, done, now, failed, lost>>

\* cancel, whatever the status is.
Cancel(t) ==
    /\ status[t] \in {"pending", "success"}
    /\ status' = [status EXCEPT ![t] = "cancelled"]
    /\ UNCHANGED <<next, sent, queue, tickVars, up, done, now, failed, lost>>

-----------------------------------------------------------------------------
(* The scheduler's tick                                                    *)

\* Mutant of NextRunAfter: the period is not added.
NextRunAfterNow(at, t) == IF Period[t] = 0 THEN Null ELSE at

\* Mutant of NextRunAfter: the period is one hour short.
NextRunAfterShort(at, t) == IF Period[t] = 0 THEN Null ELSE at + Period[t] - 1

\* next_run_after.
NextRunAfter(at, t) == IF Period[t] = 0 THEN Null ELSE at + Period[t]

\* The WHERE clause of list_due.
IsDue(t) == status[t] = "pending" /\ next[t] # Null /\ next[t] <= now

\* list_due: the oldest Limit tasks.
TickSelect ==
    /\ tick = "idle"
    /\ tick' = "dispatch"
    /\ began' = now
    /\ pushed' = {}
    /\ \E chosen \in SUBSET {t \in Tasks : IsDue(t)} :
         LET rest == {t \in Tasks : IsDue(t)} \ chosen
         IN  /\ Cardinality(chosen) <= Limit
             /\ rest # {} => Cardinality(chosen) = Limit
             /\ \A t \in chosen, o \in rest : next[t] <= next[o]
             /\ due' = chosen
    /\ UNCHANGED <<rowVars, sent, queue, up, done, now, failed, lost>>

\* Mutant of Enqueue: the push is left out.
EnqueueSkips(t) ==
    /\ tick = "dispatch"
    /\ t \in due \ pushed
    /\ pushed' = pushed \cup {t}
    /\ UNCHANGED <<queue, sent, rowVars, tick, began, due, up, done, now, failed, lost>>

\* Mutant of Enqueue: the push is made twice.
EnqueueTwice(t) ==
    /\ tick = "dispatch"
    /\ t \in due \ pushed
    /\ queue' = queue \o <<t, t>>
    /\ sent' = [sent EXCEPT ![t] = @ + 2]
    /\ pushed' = pushed \cup {t}
    /\ UNCHANGED <<rowVars, tick, began, due, up, done, now, failed, lost>>

\* One turn of the loop, in the order of list_due: enqueue, and advance() in
\* memory.
Enqueue(t) ==
    /\ tick = "dispatch"
    /\ t \in due \ pushed
    /\ \A o \in due \ pushed : next[t] <= next[o]
    /\ queue' = Append(queue, t)
    /\ sent' = [sent EXCEPT ![t] = @ + 1]
    /\ pushed' = pushed \cup {t}
    /\ UNCHANGED <<rowVars, tick, began, due, up, done, now, failed, lost>>

\* flush() and commit().  The rows get the next_run_at of advance(); the
\* status is written only where it differs from the loaded "pending".
TickCommit ==
    /\ tick = "dispatch"
    /\ pushed = due
    /\ next' = [t \in Tasks |-> IF t \in due THEN NextRunAfter(began, t) ELSE next[t]]
    /\ status' = [t \in Tasks |-> IF t \in due /\ Period[t] = 0 THEN "success" ELSE status[t]]
    /\ sent' = [t \in Tasks |-> IF t \in due THEN 0 ELSE sent[t]]
    /\ tick' = "idle"
    /\ due' = {}
    /\ pushed' = {}
    /\ UNCHANGED <<queue, began, up, done, now, failed, lost>>

\* Mutant of TickFails: the next tick goes on where the failed one stopped.
TickFailsKeepsPushed ==
    /\ tick = "dispatch"
    /\ failed < MaxFailed
    /\ failed' = failed + 1
    /\ tick' = "idle"
    /\ due' = {}
    /\ UNCHANGED <<rowVars, sent, queue, began, pushed, up, done, now, lost>>

\* Redis, PostgreSQL or the process fails: the transaction is rolled back,
\* what was pushed stays in Redis.
TickFails ==
    /\ tick = "dispatch"
    /\ failed < MaxFailed
    /\ failed' = failed + 1
    /\ tick' = "idle"
    /\ due' = {}
    /\ pushed' = {}
    /\ UNCHANGED <<rowVars, sent, queue, began, up, done, now, lost>>

-----------------------------------------------------------------------------
(* The worker                                                              *)

\* Mutant of Execute: the task is popped and nothing is sent.
ExecuteNothing ==
    /\ queue # <<>>
    /\ queue' = Tail(queue)
    /\ UNCHANGED <<rowVars, sent, tickVars, up, done, now, failed, lost>>

\* pop() and _execute_task: without a runtime of the owner the task is
\* dropped with a warning.
Execute ==
    /\ queue # <<>>
    /\ queue' = Tail(queue)
    /\ done' = IF up[Head(queue)] THEN done \cup {Head(queue)} ELSE done
    /\ UNCHANGED <<rowVars, sent, tickVars, up, now, failed, lost>>

\* send_message raises, the signature does not match or the worker is killed
\* after LPOP: the popped task is gone.
ExecuteFails ==
    /\ queue # <<>>
    /\ lost < MaxLost
    /\ lost' = lost + 1
    /\ queue' = Tail(queue)
    /\ UNCHANGED <<rowVars, sent, tickVars, up, done, now, failed>>

\* The worker registers or drops the owner's runtime (module WorkerManager).
RuntimeChanges(t) ==
    /\ up' = [up EXCEPT ![t] = ~@]
    /\ UNCHANGED <<rowVars, sent, queue, tickVars, done, now, failed, lost>>

-----------------------------------------------------------------------------

Clock ==
    /\ now < MaxNow
    /\ now' = now + 1
    /\ UNCHANGED <<rowVars, sent, queue, tickVars, up, done, failed, lost>>

Init ==
    /\ status = [t \in Tasks |-> "none"]
    /\ next = [t \in Tasks |-> Null]
    /\ sent = [t \in Tasks |-> 0]
    /\ queue = <<>>
    /\ tick = "idle"
    /\ began = 0
    /\ due = {}
    /\ pushed = {}
    /\ up = [t \in Tasks |-> TRUE]
    /\ done = {}
    /\ now = 0
    /\ failed = 0
    /\ lost = 0

Next ==
    \/ \E t \in Tasks :
         \/ \E at \in 0..MaxNow : Create(t, at)
         \/ Cancel(t) \/ Enqueue(t) \/ RuntimeChanges(t)
    \/ TickSelect \/ TickCommit \/ TickFails
    \/ Execute \/ ExecuteFails
    \/ Clock

Spec == Init /\ [][Next]_vars

\* run_scheduler and the supervisor of the worker loop for ever.
FairSpec ==
    /\ Spec
    /\ WF_vars(TickSelect)
    /\ WF_vars(\E t \in Tasks : Enqueue(t))
    /\ WF_vars(TickCommit)
    /\ WF_vars(Execute)

-----------------------------------------------------------------------------
(* Properties                                                              *)

\* Type invariant of the table, the queue and the tick.
TypeOK ==
    /\ status \in [Tasks -> Status]
    /\ next \in [Tasks -> Nat \cup {Null}]
    /\ sent \in [Tasks -> Nat]
    /\ queue \in Seq(Tasks)
    /\ tick \in {"idle", "dispatch"}
    /\ began \in Nat
    /\ due \subseteq Tasks
    /\ pushed \subseteq due
    /\ up \in [Tasks -> BOOLEAN]
    /\ done \subseteq Tasks
    /\ now \in Nat
    /\ failed \in Nat
    /\ lost \in Nat

\* A failed tick costs at most one duplicate: a task is pushed for one run
\* window at most once more than there were failures, although the rollback
\* does not take back what _dispatch_due_tasks pushed.
DuplicatesNeedFailures == \A t \in Tasks : sent[t] <= failed + 1

AdvanceStep ==
    \A t \in Tasks :
        (\/ status[t] # "none" /\ next'[t] # next[t]
         \/ status[t] # "success" /\ status'[t] = "success") => sent[t] > 0

\* No run window is skipped: next_run_at moves on, or the task becomes a
\* success, only after the task was pushed for that window, whatever failed
\* or was cancelled in between (_dispatch_due_tasks, advance).
AdvanceOnlyAfterPush == [][AdvanceStep]_vars

RepeatStep ==
    \A t \in Tasks :
        status[t] # "none" /\ next'[t] # next[t] /\ next'[t] # Null
            => next'[t] >= next[t] + Period[t]

\* A repeating task never runs more often than its rule says, however late
\* the tick that takes it and however many ticks failed before (advance).
NoEarlyRepeat == [][RepeatStep]_vars

\* A due task does not stay due, although a tick takes Limit tasks at most
\* and may fail (list_due orders by next_run_at).
DueIsTaken == \A t \in Tasks : IsDue(t) ~> ~IsDue(t)

\* A pushed task is carried out, unless its owner's runtime is down at some
\* time or a failure loses it: nothing else takes a task out of the list
\* (_process_tasks, _execute_task).
PushedIsExecuted ==
    \A t \in Tasks, n \in 0..MaxLost :
        (lost = n /\ \E i \in DOMAIN queue : queue[i] = t)
            ~> (t \in done \/ ~up[t] \/ lost > n)

\* Ticks, failures, cancellations and the queue seen as Dispatch: a task counts
\* as handed over once it was pushed for its window.
D == INSTANCE Dispatch WITH
    known <- {t \in Tasks : status[t] # "none"},
    window <- next,
    handed <- {t \in Tasks : sent[t] > 0},
    waiting <- {queue[i] : i \in DOMAIN queue},
    carried <- done

\* The scheduler keeps its promise, the module Dispatch: every window is handed
\* over at least once before the task moves on, by its period or more, whatever
\* fails between the push and the commit and whoever cancels meanwhile
\* (_dispatch_due_tasks, advance, _process_tasks).
ImplementsDispatch == D!Spec

-----------------------------------------------------------------------------
(* The inductive invariant behind DuplicatesNeedFailures,                  *)
(* AdvanceOnlyAfterPush and NoEarlyRepeat.                                 *)

\* Outside of the current tick's pushes, every push belongs to a failed tick.
PushCount ==
    \A t \in Tasks :
        /\ t \in pushed => sent[t] \in 1..(failed + 1)
        /\ t \notin pushed => sent[t] <= failed

\* What list_due selected was due when the tick began, and no one else moves
\* its next_run_at.
DueShape ==
    /\ tick = "idle" => due = {}
    /\ \A t \in due : status[t] # "none" /\ next[t] # Null /\ next[t] <= began

IInv == TypeOK /\ PushCount /\ DueShape
=============================================================================
