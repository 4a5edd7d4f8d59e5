--------------------------- MODULE WorkerManager ---------------------------
(***************************************************************************)
(* The worker process: WorkerManager (src/app/workers/manager.py), the     *)
(* command bus it reads (workers/commands.py) and the callers that change  *)
(* userbots.status (userbots/service.py, billing/service.py).              *)
(*                                                                         *)
(* One supervisor loop, one asyncio task per running userbot and any       *)
(* number of request transactions share the userbots table and the Redis   *)
(* list commands:userbots.  A step of the model is the code between two    *)
(* awaits.  PostgreSQL is READ COMMITTED: a SELECT returns the last        *)
(* committed row, an UPDATE locks the row until the transaction ends.      *)
(* A SQLAlchemy session keeps assignments in memory until the next         *)
(* statement it sends (autoflush) and then updates only the columns whose  *)
(* value differs from the one it loaded.                                   *)
(***************************************************************************)
EXTENDS Naturals, Sequences

CONSTANTS
    Bots,          \* rows of the table userbots
    Slots,         \* identities of asyncio tasks, reused once a task is done
    Requests,      \* request transactions that may be open at the same time
    Acts,          \* the kinds of request the environment makes
    InitStatuses,  \* statuses an earlier life of the system left in the table
    MaxRequests,   \* bound: requests made in one behaviour
    MaxFaults      \* bound: crashes, failed statements, expired commands

\* userbots.status, models/userbots.py.
Status == {"CREATED", "AUTHENTICATING", "AUTHORIZED", "STARTING", "RUNNING",
           "STOPPING", "STOPPED", "ERROR", "RECOVERING", "SUSPENDED"}

None == "none"

\* The statuses list_runnable selects.
Runnable == {"STARTING", "RUNNING", "RECOVERING", "AUTHORIZED"}

AllActs == {"start", "stop", "restart", "authorize", "revoke", "approve", "expire"}

Command == [action : {"start", "stop", "restart"}, target : Bots]

ASSUME ConstantsAssumption ==
    /\ Acts \subseteq AllActs
    /\ InitStatuses \subseteq Status
    /\ MaxRequests \in Nat
    /\ MaxFaults \in Nat

VARIABLES
    (* PostgreSQL and Redis *)
    db,       \* committed userbots.status
    session,  \* is there an active row in telegram_sessions
    queue,    \* the Redis list commands:userbots
    (* worker process: dictionaries and asyncio tasks *)
    tasks,    \* WorkerManager.tasks and runtimes: {} or {slot} for each userbot
    run,      \* where each _run_userbot coroutine is
    (* worker process: the supervisor's iteration and its session *)
    pc,       \* the stage of the iteration
    mem,      \* dirty Userbot objects of the session
    tx,       \* statuses the session has flushed and not committed
    locked,   \* rows the session's transaction has locked
    seen,     \* runtimes when the heartbeat loop began
    todo,     \* userbots a loop has still to visit
    wanted,   \* statuses list_runnable returned, None for the other userbots
    cmd,      \* the command being handled
    waiting,  \* the tasks _stop_userbot waits for
    (* other processes *)
    req,      \* open request transactions
    requests, \* requests made so far
    faults    \* faults so far

storeVars == <<db, session, queue>>
taskVars  == <<tasks, run>>
supVars   == <<pc, mem, tx, locked, seen, todo, wanted, cmd, waiting>>
reqVars   == <<req, requests>>
vars      == <<storeVars, taskVars, supVars, reqVars, faults>>

-----------------------------------------------------------------------------
(* States of coroutines, of ORM objects and of requests.                   *)

Task(at, v, read) == [at |-> at, v |-> v, read |-> read]
Done == Task("done", None, None)

Object(old, new, touched) == [old |-> old, new |-> new, touched |-> touched]
Clean == Object(None, None, FALSE)

Request(at, act, bot, v, read) ==
    [at |-> at, act |-> act, bot |-> bot, v |-> v, read |-> read]

\* A request transaction with an UPDATE of the row behind it.
ReqHolds(r, b) == req[r].at \in {"send", "commit"} /\ req[r].bot = b /\ req[r].v # None

HeldByRequest(b) == \E r \in Requests : ReqHolds(r, b)

Live(b, s) == run[b][s].at # "done"

Registered == {b \in Bots : tasks[b] # {}}

-----------------------------------------------------------------------------
(* The supervisor's database session.                                      *)

Dirty == {b \in Bots : mem[b] # Clean}

\* A flush updates a dirty row when a column changed: the status, or
\* last_heartbeat_at and current_worker_id (touched).
Flushed == {b \in Dirty : mem[b].new # mem[b].old \/ mem[b].touched}

\* The UPDATE waits for the transaction of a request that holds the row.
CanFlush == \A b \in Flushed : ~HeldByRequest(b)

FlushedTx == [b \in Bots |-> IF b \in Dirty /\ mem[b].new # mem[b].old
                             THEN mem[b].new ELSE tx[b]]

\* What a SELECT of the session returns after the autoflush.
Visible(b) == IF FlushedTx[b] # None THEN FlushedTx[b] ELSE db[b]

\* A statement of the session: autoflush, then the objects of its result are
\* the only ones that are still dirty.
Statement(objects) ==
    /\ CanFlush
    /\ tx' = FlushedTx
    /\ locked' = locked \cup Flushed
    /\ mem' = objects

\* session.get(b) and an assignment status = v: no statement is sent when the
\* object is still dirty in the identity map.
GetAndSet(b, v) ==
    IF b \in Dirty
    THEN /\ mem' = [mem EXCEPT ![b].new = v]
         /\ UNCHANGED <<tx, locked>>
    ELSE Statement([c \in Bots |-> IF c = b THEN Object(Visible(b), v, FALSE) ELSE Clean])

\* The end of an iteration, after commit() or rollback().
EndIteration ==
    /\ pc' = "idle"
    /\ mem' = [b \in Bots |-> Clean]
    /\ tx' = [b \in Bots |-> None]
    /\ wanted' = [b \in Bots |-> None]
    /\ locked' = {} /\ seen' = {} /\ todo' = {} /\ cmd' = {} /\ waiting' = {}

-----------------------------------------------------------------------------
(* _heartbeat                                                              *)

HeartbeatBegin ==
    /\ pc = "idle"
    /\ pc' = "heartbeat"
    /\ seen' = Registered
    /\ todo' = Registered
    /\ UNCHANGED <<mem, tx, locked, wanted, cmd, waiting, storeVars, taskVars, reqVars, faults>>

\* One turn of the loop over runtimes.items(): load the row, stamp it.
HeartbeatVisit(b) ==
    /\ pc = "heartbeat"
    /\ b \in todo
    /\ Registered = seen
    /\ Statement([c \in Bots |-> IF c = b THEN Object(Visible(b), Visible(b), TRUE) ELSE Clean])
    /\ todo' = todo \ {b}
    /\ UNCHANGED <<pc, seen, wanted, cmd, waiting, storeVars, taskVars, reqVars, faults>>

HeartbeatEnd ==
    /\ pc = "heartbeat"
    /\ todo = {}
    /\ Registered = seen
    /\ pc' = "commands"
    /\ UNCHANGED <<mem, tx, locked, seen, todo, wanted, cmd, waiting,
                   storeVars, taskVars, reqVars, faults>>

\* A task that ended while the loop was awaiting changed the dictionary's
\* size: RuntimeError, and run() rolls the iteration back.
HeartbeatBroken ==
    /\ pc = "heartbeat"
    /\ Registered # seen
    /\ EndIteration
    /\ UNCHANGED <<storeVars, taskVars, reqVars, faults>>

-----------------------------------------------------------------------------
(* _process_commands.  _process_tasks, which follows it, does not touch    *)
(* this state.                                                             *)

\* pop() returned None: the list is empty.
CommandsDone ==
    /\ pc = "commands"
    /\ queue = <<>>
    /\ pc' = "sync"
    /\ UNCHANGED <<mem, tx, locked, seen, todo, wanted, cmd, waiting,
                   storeVars, taskVars, reqVars, faults>>

PopCommand ==
    /\ pc = "commands"
    /\ queue # <<>>
    /\ cmd' = {Head(queue)}
    /\ queue' = Tail(queue)
    /\ pc' = "handle"
    /\ UNCHANGED <<mem, tx, locked, seen, todo, wanted, waiting,
                   db, session, taskVars, reqVars, faults>>

\* pop() took an expired, malformed or forged entry: it returns None too, so
\* the loop ends with the rest of the list unread.
PopInvalid ==
    /\ pc = "commands"
    /\ queue # <<>>
    /\ faults < MaxFaults
    /\ faults' = faults + 1
    /\ queue' = Tail(queue)
    /\ pc' = "sync"
    /\ UNCHANGED <<mem, tx, locked, seen, todo, wanted, cmd, waiting,
                   db, session, taskVars, reqVars>>

HandleStart(c) ==
    /\ pc = "handle"
    /\ c \in cmd
    /\ c.action = "start"
    /\ GetAndSet(c.target, "STARTING")
    /\ cmd' = {}
    /\ pc' = "commands"
    /\ UNCHANGED <<seen, todo, wanted, waiting, storeVars, taskVars, reqVars, faults>>

\* Mutant of HandleStop: the stop does not wait for the task.
HandleStopNoWait(c) ==
    /\ pc = "handle"
    /\ c \in cmd
    /\ c.action \in {"stop", "restart"}
    /\ GetAndSet(c.target, "STOPPED")
    /\ waiting' = {}
    /\ pc' = "stopping"
    /\ UNCHANGED <<seen, todo, wanted, cmd, storeVars, taskVars, reqVars, faults>>

\* Mutant of HandleStop: the status is left as it is.
HandleStopNoStatus(c) ==
    /\ pc = "handle"
    /\ c \in cmd
    /\ c.action \in {"stop", "restart"}
    /\ waiting' = {c.target} \X tasks[c.target]
    /\ pc' = "stopping"
    /\ UNCHANGED <<mem, tx, locked, seen, todo, wanted, cmd, storeVars, taskVars, reqVars, faults>>

\* _handle_stop, for "stop" and as the first half of "restart".
HandleStop(c) ==
    /\ pc = "handle"
    /\ c \in cmd
    /\ c.action \in {"stop", "restart"}
    /\ GetAndSet(c.target, "STOPPED")
    /\ waiting' = {c.target} \X tasks[c.target]
    /\ pc' = "stopping"
    /\ UNCHANGED <<seen, todo, wanted, cmd, storeVars, taskVars, reqVars, faults>>

-----------------------------------------------------------------------------
(* _stop_userbot: disconnect() the client, then wait_for(task, 10).        *)

\* Where the caller of _stop_userbot goes on: the next command, the second
\* half of a restart, or the next userbot of _sync.
AfterStop ==
    /\ waiting' = {}
    /\ IF cmd = {} THEN pc' = "stop" /\ cmd' = cmd
       ELSE \E c \in cmd :
              IF c.action = "restart"
              THEN pc' = "handle" /\ cmd' = {[c EXCEPT !.action = "start"]}
              ELSE pc' = "commands" /\ cmd' = {}

StopJoined ==
    /\ pc = "stopping"
    /\ \A w \in waiting : ~Live(w[1], w[2])
    /\ AfterStop
    /\ UNCHANGED <<mem, tx, locked, seen, todo, wanted, storeVars, taskVars, reqVars, faults>>

\* Mutant of StopTimeout: the task is awaited without a timeout.
StopNoTimeout == pc = "never" /\ UNCHANGED vars

\* wait_for cancels the task after 10 seconds and waits for its end; the
\* finally clause of _run_userbot still runs.
StopTimeout ==
    /\ pc = "stopping"
    /\ \E w \in waiting : Live(w[1], w[2])
    /\ run' = [b \in Bots |-> [s \in Slots |-> IF <<b, s>> \in waiting THEN Done ELSE run[b][s]]]
    /\ tasks' = [b \in Bots |-> IF \E s \in Slots : <<b, s>> \in waiting THEN {} ELSE tasks[b]]
    /\ AfterStop
    /\ UNCHANGED <<mem, tx, locked, seen, todo, wanted, storeVars, reqVars, faults>>

-----------------------------------------------------------------------------
(* _sync                                                                   *)

\* list_runnable(), its autoflush included.
SyncList ==
    /\ pc = "sync"
    /\ Statement([b \in Bots |-> Clean])
    /\ wanted' = [b \in Bots |-> IF Visible(b) \in Runnable THEN Visible(b) ELSE None]
    /\ todo' = Registered
    /\ pc' = "stop"
    /\ UNCHANGED <<seen, cmd, waiting, storeVars, taskVars, reqVars, faults>>

\* Mutant of SyncStop: the entry is removed before the task has ended.
SyncStopEarlyPop(b) ==
    /\ pc = "stop"
    /\ b \in todo
    /\ wanted[b] = None
    /\ todo' = todo \ {b}
    /\ waiting' = {b} \X tasks[b]
    /\ tasks' = [tasks EXCEPT ![b] = {}]
    /\ pc' = "stopping"
    /\ UNCHANGED <<mem, tx, locked, seen, wanted, cmd, storeVars, run, reqVars, faults>>

\* Mutant of SyncStop: an unwanted userbot is passed over.
SyncStopSkips(b) ==
    /\ pc = "stop"
    /\ b \in todo
    /\ wanted[b] = None
    /\ todo' = todo \ {b}
    /\ UNCHANGED <<pc, waiting, mem, tx, locked, seen, wanted, cmd,
                   storeVars, taskVars, reqVars, faults>>

\* The first loop: _stop_userbot of a registered userbot that is not wanted.
SyncStop(b) ==
    /\ pc = "stop"
    /\ b \in todo
    /\ wanted[b] = None
    /\ todo' = todo \ {b}
    /\ waiting' = {b} \X tasks[b]
    /\ pc' = "stopping"
    /\ UNCHANGED <<mem, tx, locked, seen, wanted, cmd, storeVars, taskVars, reqVars, faults>>

\* Mutant of SyncStopped: only userbots that ask for a start are started.
SyncStoppedNarrow ==
    /\ pc = "stop"
    /\ \A b \in todo : wanted[b] # None
    /\ todo' = {b \in Bots : wanted[b] = "STARTING"}
    /\ pc' = "start"
    /\ UNCHANGED <<mem, tx, locked, seen, wanted, cmd, waiting,
                   storeVars, taskVars, reqVars, faults>>

\* The first loop is over.
SyncStopped ==
    /\ pc = "stop"
    /\ \A b \in todo : wanted[b] # None
    /\ todo' = {b \in Bots : wanted[b] # None}
    /\ pc' = "start"
    /\ UNCHANGED <<mem, tx, locked, seen, wanted, cmd, waiting,
                   storeVars, taskVars, reqVars, faults>>

\* The second loop, a wanted userbot that has a task.
SyncKeep(b) ==
    /\ pc = "start"
    /\ b \in todo
    /\ tasks[b] # {}
    /\ todo' = todo \ {b}
    /\ UNCHANGED <<pc, mem, tx, locked, seen, wanted, cmd, waiting,
                   storeVars, taskVars, reqVars, faults>>

\* _start_userbot: the SELECT of the session, which flushes what the previous
\* turn assigned, and then the assignment status = v to an object that
\* list_runnable loaded.  Other columns may change as well.
LoadAndSet(b, v) ==
    \E touched \in BOOLEAN :
        Statement([c \in Bots |-> IF c = b THEN Object(wanted[b], v, touched) ELSE Clean])

\* _start_userbot: a session was found, the task is created and registered.
SyncStart(b, s) ==
    /\ pc = "start"
    /\ b \in todo
    /\ tasks[b] = {}
    /\ session[b]
    /\ ~Live(b, s)
    /\ run' = [run EXCEPT ![b][s] = Task("starting", None, None)]
    /\ tasks' = [tasks EXCEPT ![b] = {s}]
    /\ LoadAndSet(b, "STARTING")
    /\ todo' = todo \ {b}
    /\ UNCHANGED <<pc, seen, wanted, cmd, waiting, storeVars, reqVars, faults>>

\* _start_userbot: get_active_session, _load_modules or the client's
\* constructor raised.
SyncStartFails(b) ==
    /\ pc = "start"
    /\ b \in todo
    /\ tasks[b] = {}
    /\ \/ ~session[b] /\ faults' = faults
       \/ session[b] /\ faults < MaxFaults /\ faults' = faults + 1
    /\ LoadAndSet(b, "ERROR")
    /\ todo' = todo \ {b}
    /\ UNCHANGED <<pc, seen, wanted, cmd, waiting, storeVars, taskVars, reqVars>>

\* commit(), its flush included.
Commit ==
    /\ pc = "start"
    /\ todo = {}
    /\ CanFlush
    /\ db' = [b \in Bots |-> Visible(b)]
    /\ EndIteration
    /\ UNCHANGED <<session, queue, taskVars, reqVars, faults>>

\* A statement, Redis or disconnect() raised: run() rolls back and goes on.
Rollback ==
    /\ pc # "idle"
    /\ faults < MaxFaults
    /\ faults' = faults + 1
    /\ EndIteration
    /\ UNCHANGED <<storeVars, taskVars, reqVars>>

\* The process is killed and started again: run() begins with empty
\* dictionaries, the server rolls the open transaction back.
Crash ==
    /\ faults < MaxFaults
    /\ faults' = faults + 1
    /\ run' = [b \in Bots |-> [s \in Slots |-> Done]]
    /\ tasks' = [b \in Bots |-> {}]
    /\ EndIteration
    /\ UNCHANGED <<storeVars, reqVars>>

-----------------------------------------------------------------------------
(* _run_userbot, the coroutine of one userbot, and _set_status.            *)

GoTo(b, s, t) == run' = [run EXCEPT ![b][s] = t]

\* runtime.start() returns, or raises: no connection, or not authorized.
TaskStarted(b, s) ==
    /\ run[b][s].at = "starting"
    /\ \E v \in {"RUNNING", "ERROR"} : GoTo(b, s, Task("select", v, None))
    /\ UNCHANGED <<tasks, storeVars, supVars, reqVars, faults>>

\* run_until_disconnected() returns, or raises.
TaskDisconnected(b, s) ==
    /\ run[b][s].at = "up"
    /\ \E v \in {"STOPPED", "ERROR"} : GoTo(b, s, Task("select", v, None))
    /\ UNCHANGED <<tasks, storeVars, supVars, reqVars, faults>>

\* The end of asyncio.sleep(delay).
TaskBackoffOver(b, s) ==
    /\ run[b][s].at = "backoff"
    /\ GoTo(b, s, Task("select", "RECOVERING", None))
    /\ UNCHANGED <<tasks, storeVars, supVars, reqVars, faults>>

\* _set_status: session.get.
TaskSelect(b, s) ==
    /\ run[b][s].at = "select"
    /\ GoTo(b, s, Task("update", run[b][s].v, db[b]))
    /\ UNCHANGED <<tasks, storeVars, supVars, reqVars, faults>>

\* What follows _set_status(v): run on, sleep, or leave through the finally
\* clause, which pops the userbot's entries whatever task they hold.
AfterSetStatus(b, s) ==
    CASE run[b][s].v = "RUNNING" ->
            GoTo(b, s, Task("up", None, None)) /\ UNCHANGED tasks
      [] run[b][s].v = "ERROR" ->
            GoTo(b, s, Task("backoff", None, None)) /\ UNCHANGED tasks
      [] OTHER ->
            GoTo(b, s, Done) /\ tasks' = [tasks EXCEPT ![b] = {}]

\* _set_status: commit().  RUNNING and ERROR also write other columns, the
\* other two send no UPDATE when the status is the one they loaded.
TaskUpdate(b, s) ==
    /\ run[b][s].at = "update"
    /\ LET v == run[b][s].v
           changed == v # run[b][s].read
       IN  /\ changed \/ v \in {"RUNNING", "ERROR"}
                => b \notin locked /\ ~HeldByRequest(b)
           /\ db' = IF changed THEN [db EXCEPT ![b] = v] ELSE db
    /\ AfterSetStatus(b, s)
    /\ UNCHANGED <<session, queue, supVars, reqVars, faults>>

\* _set_status swallows a database error: the coroutine goes on.
TaskUpdateFails(b, s) ==
    /\ run[b][s].at = "update"
    /\ faults < MaxFaults
    /\ faults' = faults + 1
    /\ AfterSetStatus(b, s)
    /\ UNCHANGED <<storeVars, supVars, reqVars>>

-----------------------------------------------------------------------------
(* Requests: UserbotService, BillingService._set_userbot_status and the    *)
(* transactions of their callers.                                          *)

\* The status a request assigns.  authorize is complete_authorization
\* followed by request_start in one transaction.
Assigned(act) ==
    CASE act \in {"start", "authorize"} -> "STARTING"
      [] act = "stop"    -> "STOPPING"
      [] act = "approve" -> "STOPPED"
      [] act = "expire"  -> "SUSPENDED"
      [] OTHER           -> None

NoRequest == Request("idle", None, None, None, None)

\* The row is loaded; request_start returns early when it says RUNNING.
\* restart and revoke do not assign the status.
RequestBegin(r, act, b) ==
    /\ requests < MaxRequests
    /\ requests' = requests + 1
    /\ req[r] = NoRequest
    /\ act = "start" => db[b] # "RUNNING"
    /\ req' = [req EXCEPT ![r] =
                 Request(CASE act = "restart" -> "send"
                           [] act = "revoke"  -> "commit"
                           [] OTHER           -> "flush", act, b, None,
                         IF act = "authorize" THEN "AUTHORIZED" ELSE db[b])]
    /\ UNCHANGED <<storeVars, taskVars, supVars, faults>>

\* flush(): an UPDATE when the status changes, which waits for the row.
\* approve and expire send UPDATE ... WHERE status <> v, which judges the row
\* as it is now and not as it was loaded.
RequestFlush(r) ==
    LET q == req[r]
        v == Assigned(q.act)
        writes == IF q.act \in {"approve", "expire"} THEN v # db[q.bot] ELSE v # q.read
    IN  /\ q.at = "flush"
        /\ writes => q.bot \notin locked /\ ~HeldByRequest(q.bot)
        /\ req' = [req EXCEPT ![r].at = IF q.act \in {"approve", "expire"} THEN "commit" ELSE "send",
                              ![r].v = IF writes THEN v ELSE None]
        /\ UNCHANGED <<requests, storeVars, taskVars, supVars, faults>>

\* Mutant of RequestSend: the request's own name is sent as the action.
RequestSendRaw(r) ==
    /\ req[r].at = "send"
    /\ queue' = Append(queue, [action |-> req[r].act, target |-> req[r].bot])
    /\ req' = [req EXCEPT ![r].at = "commit"]
    /\ UNCHANGED <<requests, db, session, taskVars, supVars, faults>>

\* CommandBus.send, before the caller commits.
RequestSend(r) ==
    /\ req[r].at = "send"
    /\ queue' = Append(queue,
         [action |-> IF req[r].act = "authorize" THEN "start" ELSE req[r].act,
          target |-> req[r].bot])
    /\ req' = [req EXCEPT ![r].at = "commit"]
    /\ UNCHANGED <<requests, db, session, taskVars, supVars, faults>>

RequestCommit(r) ==
    /\ req[r].at = "commit"
    /\ db' = IF req[r].v = None THEN db ELSE [db EXCEPT ![req[r].bot] = req[r].v]
    /\ session' = CASE req[r].act = "authorize" -> [session EXCEPT ![req[r].bot] = TRUE]
                    [] req[r].act = "revoke"    -> [session EXCEPT ![req[r].bot] = FALSE]
                    [] OTHER                    -> session
    /\ req' = [req EXCEPT ![r] = NoRequest]
    /\ UNCHANGED <<requests, queue, taskVars, supVars, faults>>

\* The requesting process fails: its transaction is rolled back, a command
\* it has sent stays in the list.
RequestFails(r) ==
    /\ req[r].at # "idle"
    /\ faults < MaxFaults
    /\ faults' = faults + 1
    /\ req' = [req EXCEPT ![r] = NoRequest]
    /\ UNCHANGED <<requests, storeVars, taskVars, supVars>>

-----------------------------------------------------------------------------

Init ==
    /\ db \in [Bots -> InitStatuses]
    /\ session = [b \in Bots |-> db[b] # "CREATED"]
    /\ queue = <<>>
    /\ tasks = [b \in Bots |-> {}]
    /\ run = [b \in Bots |-> [s \in Slots |-> Done]]
    /\ pc = "idle"
    /\ mem = [b \in Bots |-> Clean]
    /\ tx = [b \in Bots |-> None]
    /\ wanted = [b \in Bots |-> None]
    /\ locked = {} /\ seen = {} /\ todo = {} /\ cmd = {} /\ waiting = {}
    /\ req = [r \in Requests |-> NoRequest]
    /\ requests = 0
    /\ faults = 0

\* Every step of an iteration that does not fail.
SupervisorStep ==
    \/ HeartbeatBegin \/ HeartbeatEnd \/ HeartbeatBroken
    \/ CommandsDone \/ PopCommand \/ StopJoined \/ StopTimeout
    \/ SyncList \/ SyncStopped \/ Commit
    \/ \E b \in Bots : HeartbeatVisit(b) \/ SyncStop(b) \/ SyncKeep(b) \/ SyncStartFails(b)
    \/ \E b \in Bots, s \in Slots : SyncStart(b, s)
    \/ \E c \in cmd : HandleStart(c) \/ HandleStop(c)

TaskStep(b, s) ==
    TaskStarted(b, s) \/ TaskBackoffOver(b, s) \/ TaskSelect(b, s) \/ TaskUpdate(b, s)

RequestStep(r) == RequestFlush(r) \/ RequestSend(r) \/ RequestCommit(r)

Next ==
    \/ SupervisorStep
    \/ PopInvalid \/ Rollback \/ Crash
    \/ \E b \in Bots, s \in Slots :
         TaskStep(b, s) \/ TaskDisconnected(b, s) \/ TaskUpdateFails(b, s)
    \/ \E r \in Requests :
         \/ RequestStep(r) \/ RequestFails(r)
         \/ \E act \in Acts, b \in Bots : RequestBegin(r, act, b)

Spec == Init /\ [][Next]_vars

\* The event loop runs every ready coroutine, a request runs to its end and
\* PostgreSQL grants a row lock in the order of the waiters.  A client that
\* is up need never disconnect, and faults need never happen.
Fairness ==
    /\ WF_vars(SupervisorStep)
    /\ \A b \in Bots, s \in Slots : SF_vars(TaskStep(b, s))
    /\ \A r \in Requests : SF_vars(RequestStep(r))

FairSpec == Spec /\ Fairness

-----------------------------------------------------------------------------
(* Properties                                                              *)

TaskStates ==
    [at : {"done", "starting", "up", "backoff"}, v : {None}, read : {None}]
    \cup [at : {"select"}, v : Status, read : {None}]
    \cup [at : {"update"}, v : Status, read : Status]

ObjectStates ==
    [old : Status \cup {None}, new : Status \cup {None}, touched : BOOLEAN]

RequestStates ==
    [at : {"flush"}, act : AllActs \ {"restart", "revoke"}, bot : Bots,
     v : {None}, read : Status]
    \cup [at : {"send"}, act : {"start", "stop", "restart", "authorize"}, bot : Bots,
          v : Status \cup {None}, read : Status]
    \cup [at : {"commit"}, act : AllActs, bot : Bots,
          v : Status \cup {None}, read : Status]
    \cup {NoRequest}

\* Type invariant of the worker, its stores and the open requests.
TypeOK ==
    /\ db \in [Bots -> Status]
    /\ session \in [Bots -> BOOLEAN]
    /\ queue \in Seq(Command)
    /\ tasks \in [Bots -> SUBSET Slots]
    /\ run \in [Bots -> [Slots -> TaskStates]]
    /\ pc \in {"idle", "heartbeat", "commands", "handle", "stopping", "sync", "stop", "start"}
    /\ mem \in [Bots -> ObjectStates]
    /\ tx \in [Bots -> Status \cup {None}]
    /\ wanted \in [Bots -> Status \cup {None}]
    /\ locked \subseteq Bots
    /\ seen \subseteq Bots
    /\ todo \subseteq Bots
    /\ cmd \subseteq Command
    /\ waiting \subseteq Bots \X Slots
    /\ req \in [Requests -> RequestStates]
    /\ requests \in 0..MaxRequests
    /\ faults \in 0..MaxFaults

\* The dictionary tasks holds exactly the coroutines that are alive, and one
\* for a userbot at most: no client of a userbot runs unsupervised, and no
\* account has two clients, whatever stop, timeout, recovery and restart do
\* (_start_userbot, _stop_userbot, the finally clause of _run_userbot).
TaskRegistry ==
    \A b \in Bots :
        /\ \A s \in Slots : s \in tasks[b] <=> Live(b, s)
        /\ \A s, t \in tasks[b] : s = t

\* The statuses the supervisor writes for a userbot that does not run.
Down == {"STOPPED", "ERROR"}

\* When the supervisor's open transaction records a userbot as STOPPED (a
\* stop or restart command) or as ERROR (its start failed), no task of that
\* userbot is left: the status the commit publishes is true.
RecordedDownIsDown ==
    \A b \in Bots : tx[b] \in Down => tasks[b] = {}

\* An iteration always ends, although _stop_userbot waits for a task whose
\* own status write may wait for the row lock of this very iteration.
SupervisorReturns == []<>(pc = "idle")

\* A userbot whose status stays outside the runnable ones is taken down.
UnwantedGoesDown ==
    \A b \in Bots : <>[](db[b] \notin Runnable) => <>[](tasks[b] = {})

\* A userbot that stays runnable and has a session is started again however
\* often its task ends, the process crashes or an iteration fails.
RunnableIsServed ==
    \A b \in Bots : <>[](db[b] \in Runnable /\ session[b]) => []<>(tasks[b] # {})

\* A stop command that reached the bus takes the userbot down for good unless
\* a fault happens, also when the task writes its own status over STOPPING
\* before the command is read, or the command is read before the request
\* commits STOPPING.
StopTakesDown ==
    \A b \in Bots, n \in 0..MaxFaults :
        (faults = n /\ \E i \in DOMAIN queue : queue[i] = [action |-> "stop", target |-> b])
            ~> (faults > n \/ [](tasks[b] = {}))

\* docs/WORKERS.md, the state line of recovery: a userbot that crashed goes
\* from ERROR to RECOVERING once its backoff is over (_run_userbot).
CrashIsRecovered ==
    \A b \in Bots :
        (\E s \in Slots : run[b][s].at = "backoff") ~> (db[b] = "RECOVERING")

\* billing/service.py, expire_due_subscriptions: the userbot of an expired
\* subscription is suspended, so once SUSPENDED is committed and nobody asks
\* for anything else, it ends up down and stays down.
SuspendedGoesDown ==
    \A b \in Bots : (db[b] = "SUSPENDED") ~> [](tasks[b] = {})

-----------------------------------------------------------------------------
(* The inductive invariant behind TaskRegistry and RecordedDownIsDown.     *)

\* The iteration is in _sync, after list_runnable.
Syncing == pc \in {"stop", "start"} \/ (pc = "stopping" /\ cmd = {})

\* A command is in hand only while it is handled; a userbot that _sync has
\* still to start was listed and is no dirty object of the session.
StageShape ==
    /\ pc \notin {"handle", "stopping"} => cmd = {}
    /\ pc # "stopping" => waiting = {}
    /\ Syncing => \A b \in Bots : (pc = "start" => b \in todo) => mem[b] = Clean
    /\ ~Syncing => \A b \in Bots : wanted[b] = None
    /\ pc = "start" => \A b \in todo : wanted[b] # None

\* A task that is awaited is the only one its userbot can have.
WaitingShape == \A b \in Bots, s \in Slots : <<b, s>> \in waiting => tasks[b] \subseteq {s}

\* A dirty object that turns to a down status belongs to a userbot whose task,
\* if there is one left, is being awaited.
DirtyDown ==
    \A b \in Bots :
        mem[b].new \in Down /\ mem[b].new # mem[b].old
            => \A s \in tasks[b] : <<b, s>> \in waiting

\* A userbot that is still to be started has no flushed down status.
WantedNotDown ==
    \A b \in Bots :
        wanted[b] # None /\ (pc = "start" => b \in todo) => tx[b] \notin Down

IInv ==
    /\ TypeOK
    /\ TaskRegistry
    /\ RecordedDownIsDown
    /\ StageShape
    /\ WaitingShape
    /\ DirtyDown
    /\ WantedNotDown
=============================================================================
