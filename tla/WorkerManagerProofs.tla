------------------------ MODULE WorkerManagerProofs ------------------------
(***************************************************************************)
(* TLAPS proofs about WorkerManager: its type invariant, the task registry *)
(* and the truth of the down statuses the supervisor records.              *)
(***************************************************************************)
EXTENDS WorkerManager, TLAPS

\* The autoflush keeps the session's statuses typed, and a SELECT of the
\* session returns a status.
LEMMA FlushTyped ==
    ASSUME TypeOK
    PROVE  /\ FlushedTx \in [Bots -> Status \cup {None}]
           /\ \A b \in Bots : Visible(b) \in Status
           /\ Flushed \subseteq Bots
<1>1. FlushedTx \in [Bots -> Status \cup {None}]
  BY DEF TypeOK, FlushedTx, Dirty, ObjectStates
<1>2. \A b \in Bots : Visible(b) \in Status
  BY <1>1 DEF TypeOK, Visible
<1>3. QED
  BY <1>1, <1>2 DEF Flushed, Dirty

\* session.get followed by an assignment keeps the session typed.
LEMMA GetAndSetTyped ==
    ASSUME TypeOK, NEW b \in Bots, NEW v \in Status, GetAndSet(b, v)
    PROVE  /\ mem' \in [Bots -> ObjectStates]
           /\ tx' \in [Bots -> Status \cup {None}]
           /\ locked' \subseteq Bots
<1>1. CASE b \in Dirty
  <2>1. mem' = [mem EXCEPT ![b].new = v] /\ UNCHANGED <<tx, locked>>
    BY <1>1 DEF GetAndSet
  <2>2. mem' \in [Bots -> ObjectStates]
    BY <2>1 DEF TypeOK, ObjectStates
  <2>3. QED
    BY <2>1, <2>2 DEF TypeOK
<1>2. CASE b \notin Dirty
  <2>1. /\ tx' = FlushedTx
        /\ locked' = locked \cup Flushed
        /\ mem' = [c \in Bots |-> IF c = b THEN Object(Visible(b), v, FALSE) ELSE Clean]
    BY <1>2 DEF GetAndSet, Statement
  <2>2. Visible(b) \in Status
    BY FlushTyped
  <2>3. mem' \in [Bots -> ObjectStates]
    BY <2>1, <2>2 DEF ObjectStates, Object, Clean
  <2>4. QED
    BY <2>1, <2>3, FlushTyped DEF TypeOK
<1>3. QED
  BY <1>1, <1>2

\* commit() and rollback() leave the iteration's variables typed.
LEMMA EndIterationTyped ==
    ASSUME TypeOK, EndIteration
    PROVE  /\ pc' = "idle"
           /\ mem' \in [Bots -> ObjectStates]
           /\ tx' \in [Bots -> Status \cup {None}]
           /\ wanted' \in [Bots -> Status \cup {None}]
           /\ locked' \subseteq Bots /\ seen' \subseteq Bots /\ todo' \subseteq Bots
           /\ cmd' \subseteq Command /\ waiting' \subseteq Bots \X Slots
BY DEF EndIteration, ObjectStates, Clean, Object

\* The continuation of _stop_userbot keeps the iteration typed.
LEMMA AfterStopTyped ==
    ASSUME TypeOK, AfterStop
    PROVE  /\ pc' \in {"stop", "handle", "commands"}
           /\ cmd' \subseteq Command
           /\ waiting' = {}
<1>1. waiting' = {}
  BY DEF AfterStop
<1>2. CASE cmd = {}
  BY <1>1, <1>2 DEF AfterStop, TypeOK
<1>3. CASE cmd # {}
  <2>1. PICK c \in cmd : IF c.action = "restart"
                         THEN pc' = "handle" /\ cmd' = {[c EXCEPT !.action = "start"]}
                         ELSE pc' = "commands" /\ cmd' = {}
    BY <1>3 DEF AfterStop
  <2>2. [c EXCEPT !.action = "start"] \in Command
    BY DEF TypeOK, Command
  <2>3. QED
    BY <1>1, <2>1, <2>2
<1>4. QED
  BY <1>2, <1>3

\* A step of a coroutine keeps the coroutines typed.
LEMMA GoToTyped ==
    ASSUME TypeOK, NEW b \in Bots, NEW s \in Slots, NEW t \in TaskStates, GoTo(b, s, t)
    PROVE  run' \in [Bots -> [Slots -> TaskStates]]
BY DEF GoTo, TypeOK

\* What follows _set_status keeps the coroutines and the dictionary typed.
LEMMA AfterSetStatusTyped ==
    ASSUME TypeOK, NEW b \in Bots, NEW s \in Slots, AfterSetStatus(b, s)
    PROVE  /\ run' \in [Bots -> [Slots -> TaskStates]]
           /\ tasks' \in [Bots -> SUBSET Slots]
<1>1. CASE run[b][s].v = "RUNNING"
  <2>1. GoTo(b, s, Task("up", None, None)) /\ UNCHANGED tasks
    BY <1>1 DEF AfterSetStatus
  <2>2. Task("up", None, None) \in TaskStates
    BY DEF Task, TaskStates
  <2>3. QED
    BY <2>1, <2>2, GoToTyped DEF TypeOK
<1>2. CASE run[b][s].v = "ERROR"
  <2>1. GoTo(b, s, Task("backoff", None, None)) /\ UNCHANGED tasks
    BY <1>2 DEF AfterSetStatus
  <2>2. Task("backoff", None, None) \in TaskStates
    BY DEF Task, TaskStates
  <2>3. QED
    BY <2>1, <2>2, GoToTyped DEF TypeOK
<1>3. CASE run[b][s].v \notin {"RUNNING", "ERROR"}
  <2>1. GoTo(b, s, Done) /\ tasks' = [tasks EXCEPT ![b] = {}]
    BY <1>3 DEF AfterSetStatus
  <2>2. Done \in TaskStates
    BY DEF Done, Task, TaskStates
  <2>3. QED
    BY <2>1, <2>2, GoToTyped DEF TypeOK
<1>4. QED
  BY <1>1, <1>2, <1>3

\* The SELECT and the assignment of _start_userbot keep the session typed.
LEMMA LoadAndSetTyped ==
    ASSUME TypeOK, NEW b \in Bots, NEW v \in Status, LoadAndSet(b, v)
    PROVE  /\ mem' \in [Bots -> ObjectStates]
           /\ tx' \in [Bots -> Status \cup {None}]
           /\ locked' \subseteq Bots
<1>1. PICK touched \in BOOLEAN :
        Statement([c \in Bots |-> IF c = b THEN Object(wanted[b], v, touched) ELSE Clean])
  BY DEF LoadAndSet
<1>2. wanted[b] \in Status \cup {None}
  BY DEF TypeOK
<1>3. mem' \in [Bots -> ObjectStates]
  BY <1>1, <1>2 DEF Statement, ObjectStates, Object, Clean
<1>4. QED
  BY <1>1, <1>3, FlushTyped DEF Statement, TypeOK

-----------------------------------------------------------------------------

\* Every step of the supervisor's iteration keeps the types.
LEMMA SupervisorStepTyped ==
    ASSUME TypeOK, SupervisorStep
    PROVE  TypeOK'
<1> USE DEF storeVars, taskVars, supVars, reqVars
<1>1. CASE HeartbeatBegin
  BY <1>1 DEF HeartbeatBegin, Registered, TypeOK
<1>2. CASE HeartbeatEnd
  BY <1>2 DEF HeartbeatEnd, TypeOK
<1>3. CASE HeartbeatBroken
  BY <1>3, EndIterationTyped DEF HeartbeatBroken, TypeOK
<1>4. CASE CommandsDone
  BY <1>4 DEF CommandsDone, TypeOK
<1>5. CASE PopCommand
  BY <1>5 DEF PopCommand, TypeOK
<1>6. CASE StopJoined
  BY <1>6, AfterStopTyped DEF StopJoined, TypeOK
<1>7. CASE StopTimeout
  <2>1. run' \in [Bots -> [Slots -> TaskStates]]
    BY <1>7 DEF StopTimeout, TypeOK, Done, Task, TaskStates
  <2>2. tasks' \in [Bots -> SUBSET Slots]
    BY <1>7 DEF StopTimeout, TypeOK
  <2>3. QED
    BY <1>7, <2>1, <2>2, AfterStopTyped DEF StopTimeout, TypeOK
<1>8. CASE SyncList
  <2>1. mem' \in [Bots -> ObjectStates]
    BY <1>8 DEF SyncList, Statement, ObjectStates, Clean, Object
  <2>2. wanted' \in [Bots -> Status \cup {None}]
    BY <1>8, FlushTyped DEF SyncList
  <2>3. QED
    BY <1>8, <2>1, <2>2, FlushTyped DEF SyncList, Statement, Registered, TypeOK
<1>9. CASE SyncStopped
  BY <1>9 DEF SyncStopped, TypeOK
<1>10. CASE Commit
  <2>1. db' \in [Bots -> Status]
    BY <1>10, FlushTyped DEF Commit
  <2>2. QED
    BY <1>10, <2>1, EndIterationTyped DEF Commit, TypeOK
<1>11. ASSUME NEW b \in Bots, HeartbeatVisit(b)
       PROVE  TypeOK'
  <2>1. mem' \in [Bots -> ObjectStates]
    BY <1>11, FlushTyped DEF HeartbeatVisit, Statement, ObjectStates, Clean, Object
  <2>2. QED
    BY <1>11, <2>1, FlushTyped DEF HeartbeatVisit, Statement, TypeOK
<1>12. ASSUME NEW b \in Bots, SyncStop(b)
       PROVE  TypeOK'
  BY <1>12 DEF SyncStop, TypeOK
<1>13. ASSUME NEW b \in Bots, SyncKeep(b)
       PROVE  TypeOK'
  BY <1>13 DEF SyncKeep, TypeOK
<1>14. ASSUME NEW b \in Bots, SyncStartFails(b)
       PROVE  TypeOK'
  <2>1. faults' \in 0..MaxFaults
    BY <1>14, ConstantsAssumption DEF SyncStartFails, TypeOK
  <2>2. QED
    BY <1>14, <2>1, LoadAndSetTyped, "ERROR" \in Status DEF SyncStartFails, TypeOK, Status
<1>15. ASSUME NEW b \in Bots, NEW s \in Slots, SyncStart(b, s)
       PROVE  TypeOK'
  <2>1. Task("starting", None, None) \in TaskStates
    BY DEF Task, TaskStates
  <2>2. run' \in [Bots -> [Slots -> TaskStates]]
    BY <1>15, <2>1 DEF SyncStart, TypeOK
  <2>3. "STARTING" \in Status
    BY DEF Status
  <2>4. QED
    BY <1>15, <2>2, <2>3, LoadAndSetTyped DEF SyncStart, TypeOK
<1>16. ASSUME NEW c \in cmd, HandleStart(c)
       PROVE  TypeOK'
  <2>1. c.target \in Bots /\ "STARTING" \in Status
    BY DEF TypeOK, Command, Status
  <2>2. QED
    BY <1>16, <2>1, GetAndSetTyped DEF HandleStart, TypeOK
<1>17. ASSUME NEW c \in cmd, HandleStop(c)
       PROVE  TypeOK'
  <2>1. c.target \in Bots /\ "STOPPED" \in Status
    BY DEF TypeOK, Command, Status
  <2>2. QED
    BY <1>17, <2>1, GetAndSetTyped DEF HandleStop, TypeOK
<1>18. QED
  BY <1>1, <1>2, <1>3, <1>4, <1>5, <1>6, <1>7, <1>8, <1>9, <1>10, <1>11, <1>12,
     <1>13, <1>14, <1>15, <1>16, <1>17 DEF SupervisorStep

\* Every step of a userbot's coroutine keeps the types.
LEMMA TaskStepTyped ==
    ASSUME TypeOK, NEW b \in Bots, NEW s \in Slots,
           TaskStep(b, s) \/ TaskDisconnected(b, s) \/ TaskUpdateFails(b, s)
    PROVE  TypeOK'
<1> USE DEF storeVars, supVars, reqVars
<1>0. run[b][s] \in TaskStates
  BY DEF TypeOK
<1>1. ASSUME NEW v \in Status, GoTo(b, s, Task("select", v, None))
      PROVE  run' \in [Bots -> [Slots -> TaskStates]]
  <2>1. Task("select", v, None) \in TaskStates
    BY DEF Task, TaskStates
  <2>2. QED
    BY <1>1, <2>1, GoToTyped
<1>2. CASE TaskStarted(b, s)
  <2>1. run' \in [Bots -> [Slots -> TaskStates]]
    BY <1>1, <1>2 DEF TaskStarted, Status
  <2>2. QED
    BY <1>2, <2>1 DEF TaskStarted, TypeOK
<1>3. CASE TaskDisconnected(b, s)
  <2>1. run' \in [Bots -> [Slots -> TaskStates]]
    BY <1>1, <1>3 DEF TaskDisconnected, Status
  <2>2. QED
    BY <1>3, <2>1 DEF TaskDisconnected, TypeOK
<1>4. CASE TaskBackoffOver(b, s)
  <2>1. run' \in [Bots -> [Slots -> TaskStates]]
    BY <1>1, <1>4 DEF TaskBackoffOver, Status
  <2>2. QED
    BY <1>4, <2>1 DEF TaskBackoffOver, TypeOK
<1>5. CASE TaskSelect(b, s)
  <2>0. run[b][s].v \in Status
    BY <1>0, <1>5 DEF TaskSelect, TaskStates
  <2>1. Task("update", run[b][s].v, db[b]) \in TaskStates
    BY <2>0 DEF Task, TaskStates, TypeOK
  <2>2. run' \in [Bots -> [Slots -> TaskStates]]
    BY <1>5, <2>1, GoToTyped DEF TaskSelect
  <2>3. QED
    BY <1>5, <2>2 DEF TaskSelect, TypeOK
<1>6. CASE TaskUpdate(b, s)
  <2>1. db' \in [Bots -> Status]
    BY <1>0, <1>6 DEF TaskUpdate, TypeOK, TaskStates
  <2>2. QED
    BY <1>6, <2>1, AfterSetStatusTyped DEF TaskUpdate, TypeOK
<1>7. CASE TaskUpdateFails(b, s)
  <2>1. faults' \in 0..MaxFaults
    BY <1>7, ConstantsAssumption DEF TaskUpdateFails, TypeOK
  <2>2. QED
    BY <1>7, <2>1, AfterSetStatusTyped DEF TaskUpdateFails, TypeOK
<1>8. QED
  BY <1>2, <1>3, <1>4, <1>5, <1>6, <1>7 DEF TaskStep

\* Every step of a request transaction keeps the types.
LEMMA RequestStepTyped ==
    ASSUME TypeOK, NEW r \in Requests,
           \/ RequestStep(r) \/ RequestFails(r)
           \/ \E act \in Acts, b \in Bots : RequestBegin(r, act, b)
    PROVE  TypeOK'
<1> USE DEF storeVars, taskVars, supVars, reqVars
<1>0. req[r] \in RequestStates /\ NoRequest \in RequestStates
  BY DEF TypeOK, RequestStates
<1>1. ASSUME NEW act \in Acts, NEW b \in Bots, RequestBegin(r, act, b)
      PROVE  TypeOK'
  <2> DEFINE q == Request(CASE act = "restart" -> "send"
                            [] act = "revoke"  -> "commit"
                            [] OTHER           -> "flush", act, b, None,
                          IF act = "authorize" THEN "AUTHORIZED" ELSE db[b])
  <2>1. act \in AllActs
    BY ConstantsAssumption
  <2>2. (IF act = "authorize" THEN "AUTHORIZED" ELSE db[b]) \in Status
    BY DEF TypeOK, Status
  <2>3. q \in RequestStates
    BY <2>1, <2>2 DEF RequestStates, Request, AllActs
  <2>4. req' \in [Requests -> RequestStates]
    BY <1>1, <2>3 DEF RequestBegin, TypeOK
  <2>5. requests' \in 0..MaxRequests
    BY <1>1, ConstantsAssumption DEF RequestBegin, TypeOK
  <2>6. QED
    BY <1>1, <2>4, <2>5 DEF RequestBegin, TypeOK
<1>2. CASE RequestFlush(r)
  <2> DEFINE v == Assigned(req[r].act)
             q == [req[r] EXCEPT !.at = IF req[r].act \in {"approve", "expire"}
                                         THEN "commit" ELSE "send",
                                 !.v = req'[r].v]
  <2>1. req[r].at = "flush"
    BY <1>2 DEF RequestFlush
  <2>2. req[r] \in [at : {"flush"}, act : AllActs \ {"restart", "revoke"}, bot : Bots,
                    v : {None}, read : Status]
    BY <1>0, <2>1 DEF RequestStates, NoRequest, Request
  <2>3. v \in Status
    BY <2>2 DEF Assigned, AllActs, Status
  <2>4. PICK w \in {v, None} :
          req' = [req EXCEPT ![r].at = IF req[r].act \in {"approve", "expire"}
                                       THEN "commit" ELSE "send", ![r].v = w]
    BY <1>2 DEF RequestFlush
  <2>5. req'[r] \in RequestStates
    BY <2>2, <2>3, <2>4 DEF RequestStates, TypeOK, AllActs
  <2>6. req' \in [Requests -> RequestStates]
    BY <2>4, <2>5 DEF TypeOK
  <2>7. QED
    BY <1>2, <2>6 DEF RequestFlush, TypeOK
<1>3. CASE RequestSend(r)
  <2>1. req[r] \in [at : {"send"}, act : {"start", "stop", "restart", "authorize"}, bot : Bots,
                    v : Status \cup {None}, read : Status]
    BY <1>0, <1>3 DEF RequestSend, RequestStates, NoRequest, Request
  <2>2. [action |-> IF req[r].act = "authorize" THEN "start" ELSE req[r].act,
         target |-> req[r].bot] \in Command
    BY <2>1 DEF Command
  <2>3. queue' \in Seq(Command)
    BY <1>3, <2>2 DEF RequestSend, TypeOK
  <2>4. req' \in [Requests -> RequestStates]
    BY <1>3, <2>1 DEF RequestSend, TypeOK, RequestStates, AllActs
  <2>5. QED
    BY <1>3, <2>3, <2>4 DEF RequestSend, TypeOK
<1>4. CASE RequestCommit(r)
  <2>1. req[r] \in [at : {"commit"}, act : AllActs, bot : Bots,
                    v : Status \cup {None}, read : Status]
    BY <1>0, <1>4 DEF RequestCommit, RequestStates, NoRequest, Request
  <2>2. db' \in [Bots -> Status]
    BY <1>4, <2>1 DEF RequestCommit, TypeOK
  <2>3. session' \in [Bots -> BOOLEAN]
    BY <1>4, <2>1 DEF RequestCommit, TypeOK
  <2>4. QED
    BY <1>0, <1>4, <2>2, <2>3 DEF RequestCommit, TypeOK
<1>5. CASE RequestFails(r)
  <2>1. faults' \in 0..MaxFaults
    BY <1>5, ConstantsAssumption DEF RequestFails, TypeOK
  <2>2. QED
    BY <1>0, <1>5, <2>1 DEF RequestFails, TypeOK
<1>6. QED
  BY <1>1, <1>2, <1>3, <1>4, <1>5 DEF RequestStep

\* Type correctness of the worker and of its environment.
THEOREM TypeCorrect == Spec => []TypeOK
<1>1. Init => TypeOK
  <2> SUFFICES ASSUME Init PROVE TypeOK
    OBVIOUS
  <2>1. run \in [Bots -> [Slots -> TaskStates]]
    BY DEF Init, Done, Task, TaskStates
  <2>2. mem \in [Bots -> ObjectStates]
    BY DEF Init, Clean, Object, ObjectStates
  <2>3. req \in [Requests -> RequestStates]
    BY DEF Init, RequestStates
  <2>4. db \in [Bots -> Status]
    BY ConstantsAssumption DEF Init
  <2>5. queue \in Seq(Command)
    BY DEF Init
  <2>6. QED
    BY <2>1, <2>2, <2>3, <2>4, <2>5, ConstantsAssumption DEF Init, TypeOK
<1>2. TypeOK /\ [Next]_vars => TypeOK'
  <2> SUFFICES ASSUME TypeOK, [Next]_vars PROVE TypeOK'
    OBVIOUS
  <2>1. CASE UNCHANGED vars
    BY <2>1 DEF vars, storeVars, taskVars, supVars, reqVars, TypeOK
  <2>2. CASE PopInvalid
    BY <2>2, ConstantsAssumption DEF PopInvalid, TypeOK, taskVars, reqVars
  <2>3. CASE Rollback
    BY <2>3, EndIterationTyped, ConstantsAssumption
       DEF Rollback, TypeOK, storeVars, taskVars, reqVars
  <2>4. CASE Crash
    <3>1. run' \in [Bots -> [Slots -> TaskStates]]
      BY <2>4 DEF Crash, Done, Task, TaskStates
    <3>2. QED
      BY <2>4, <3>1, EndIterationTyped, ConstantsAssumption
         DEF Crash, TypeOK, storeVars, reqVars
  <2>5. QED
    BY <2>1, <2>2, <2>3, <2>4, SupervisorStepTyped, TaskStepTyped, RequestStepTyped DEF Next
<1>3. QED
  BY <1>1, <1>2, PTL DEF Spec

-----------------------------------------------------------------------------
(* The inductive invariant.                                                *)

\* Requests do not touch what the invariant is about.
LEMMA QuietInv ==
    ASSUME IInv, UNCHANGED <<taskVars, supVars>>, TypeOK'
    PROVE  IInv'
BY DEF IInv, taskVars, supVars, TaskRegistry, RecordedDownIsDown, StageShape, WaitingShape,
       DirtyDown, WantedNotDown, Syncing, Live

\* The end of an iteration, whatever happened to the tasks before it.
LEMMA EndIterationInv ==
    ASSUME EndIteration, TypeOK', TaskRegistry'
    PROVE  IInv'
BY DEF EndIteration, IInv, RecordedDownIsDown, StageShape, WaitingShape,
       DirtyDown, WantedNotDown, Syncing, Down, None, Clean, Object

\* A step of a live coroutine that does not end it.
LEMMA GoToInv ==
    ASSUME IInv, TypeOK', UNCHANGED supVars, UNCHANGED tasks,
           NEW b \in Bots, NEW s \in Slots, NEW t, Live(b, s), t.at # "done", GoTo(b, s, t)
    PROVE  IInv'
<1>1. \A c \in Bots, u \in Slots : Live(c, u)' <=> Live(c, u)
  BY DEF GoTo, Live, IInv, TypeOK
<1>2. TaskRegistry'
  BY <1>1 DEF IInv, TaskRegistry
<1>3. QED
  BY <1>2 DEF IInv, supVars, RecordedDownIsDown, StageShape, WaitingShape,
              DirtyDown, WantedNotDown, Syncing

\* The finally clause of _run_userbot.
LEMMA TaskEndInv ==
    ASSUME IInv, TypeOK', UNCHANGED supVars,
           NEW b \in Bots, NEW s \in Slots, Live(b, s),
           GoTo(b, s, Done), tasks' = [tasks EXCEPT ![b] = {}]
    PROVE  IInv'
<1>1. \A c \in Bots, u \in Slots : Live(c, u)' <=> (Live(c, u) /\ <<c, u>> # <<b, s>>)
  BY DEF GoTo, Live, IInv, TypeOK, Done, Task
<1>2. \A c \in Bots : tasks'[c] = IF c = b THEN {} ELSE tasks[c]
  BY DEF IInv, TypeOK
<1>3. tasks[b] = {s}
  BY DEF IInv, TaskRegistry, TypeOK
<1>4. TaskRegistry'
  BY <1>1, <1>2, <1>3 DEF IInv, TaskRegistry
<1>5. QED
  BY <1>2, <1>4 DEF IInv, supVars, RecordedDownIsDown, StageShape, WaitingShape,
                   DirtyDown, WantedNotDown, Syncing

\* What follows _set_status.
LEMMA AfterSetStatusInv ==
    ASSUME IInv, TypeOK', UNCHANGED supVars,
           NEW b \in Bots, NEW s \in Slots, Live(b, s), AfterSetStatus(b, s)
    PROVE  IInv'
<1>1. CASE run[b][s].v = "RUNNING"
  BY <1>1, GoToInv DEF AfterSetStatus, Task
<1>2. CASE run[b][s].v = "ERROR"
  BY <1>2, GoToInv DEF AfterSetStatus, Task
<1>3. CASE run[b][s].v \notin {"RUNNING", "ERROR"}
  BY <1>3, TaskEndInv DEF AfterSetStatus
<1>4. QED
  BY <1>1, <1>2, <1>3

\* Every step of a userbot's coroutine preserves the invariant.
LEMMA TaskStepInv ==
    ASSUME IInv, TypeOK', NEW b \in Bots, NEW s \in Slots,
           TaskStep(b, s) \/ TaskDisconnected(b, s) \/ TaskUpdateFails(b, s)
    PROVE  IInv'
<1>1. CASE TaskStarted(b, s)
  BY <1>1, GoToInv DEF TaskStarted, Live, Task
<1>2. CASE TaskDisconnected(b, s)
  BY <1>2, GoToInv DEF TaskDisconnected, Live, Task
<1>3. CASE TaskBackoffOver(b, s)
  BY <1>3, GoToInv DEF TaskBackoffOver, Live, Task
<1>4. CASE TaskSelect(b, s)
  <2>1. Live(b, s) /\ UNCHANGED <<supVars, tasks>>
    BY <1>4 DEF TaskSelect, Live
  <2>2. GoTo(b, s, Task("update", run[b][s].v, db[b]))
    BY <1>4 DEF TaskSelect
  <2>3. Task("update", run[b][s].v, db[b]).at # "done"
    BY DEF Task
  <2>4. QED
    BY <2>1, <2>2, <2>3, GoToInv
<1>5. CASE TaskUpdate(b, s)
  BY <1>5, AfterSetStatusInv DEF TaskUpdate, Live
<1>6. CASE TaskUpdateFails(b, s)
  BY <1>6, AfterSetStatusInv DEF TaskUpdateFails, Live
<1>7. QED
  BY <1>1, <1>2, <1>3, <1>4, <1>5, <1>6 DEF TaskStep

\* A flush outside the wait of _stop_userbot publishes true down statuses.
LEMMA FlushInv ==
    ASSUME IInv, pc # "stopping"
    PROVE  \A b \in Bots : FlushedTx[b] \in Down => tasks[b] = {}
BY DEF IInv, TypeOK, FlushedTx, RecordedDownIsDown, DirtyDown, StageShape

\* session.get and an assignment, in a handler of a command.
LEMMA GetAndSetInv ==
    ASSUME IInv, pc = "handle", NEW b \in Bots, NEW v \in Status, GetAndSet(b, v)
    PROVE  /\ \A c \in Bots : tx'[c] \in Down => tasks[c] = {}
           /\ mem'[b].new = v
           /\ \A c \in Bots \ {b} :
                mem'[c].new \in Down /\ mem'[c].new # mem'[c].old => tasks[c] = {}
<1>1. CASE b \in Dirty
  <2>1. mem' = [mem EXCEPT ![b].new = v] /\ tx' = tx
    BY <1>1 DEF GetAndSet
  <2>2. mem \in [Bots -> ObjectStates]
    BY DEF IInv, TypeOK
  <2>3. mem'[b].new = v /\ \A c \in Bots \ {b} : mem'[c] = mem[c]
    BY <2>1, <2>2 DEF ObjectStates
  <2>4. QED
    BY <2>1, <2>3 DEF IInv, RecordedDownIsDown, DirtyDown, StageShape
<1>2. CASE b \notin Dirty
  <2>1. /\ tx' = FlushedTx
        /\ mem' = [c \in Bots |-> IF c = b THEN Object(Visible(b), v, FALSE) ELSE Clean]
    BY <1>2 DEF GetAndSet, Statement
  <2>2. QED
    BY <2>1, FlushInv DEF Clean, Object, Down, None
<1>3. QED
  BY <1>1, <1>2

\* While _sync starts userbots, a flush records none that is still to be
\* started as down.
LEMMA StartFlush ==
    ASSUME IInv, pc = "start"
    PROVE  \A b \in todo : FlushedTx[b] \notin Down
<1>1. TAKE b \in todo
<1>2. b \in Bots
  BY DEF IInv, TypeOK
<1>3. b \notin Dirty
  BY <1>2 DEF IInv, StageShape, Syncing, Dirty
<1>4. tx[b] \notin Down
  BY <1>2 DEF IInv, StageShape, WantedNotDown
<1>5. QED
  BY <1>2, <1>3, <1>4 DEF FlushedTx

\* Every step of the supervisor's iteration preserves the invariant.
LEMMA SupervisorStepInv ==
    ASSUME IInv, TypeOK', SupervisorStep
    PROVE  IInv'
<1> USE DEF storeVars, taskVars, reqVars
<1>1. CASE HeartbeatBegin
  BY <1>1 DEF HeartbeatBegin, IInv, TaskRegistry, RecordedDownIsDown, StageShape,
              WaitingShape, DirtyDown, WantedNotDown, Syncing, Live
<1>2. CASE HeartbeatEnd
  BY <1>2 DEF HeartbeatEnd, IInv, TaskRegistry, RecordedDownIsDown, StageShape,
              WaitingShape, DirtyDown, WantedNotDown, Syncing, Live
<1>3. CASE HeartbeatBroken
  <2>1. TaskRegistry'
    BY <1>3 DEF HeartbeatBroken, IInv, TaskRegistry, Live
  <2>2. QED
    BY <1>3, <2>1, EndIterationInv DEF HeartbeatBroken
<1>4. CASE CommandsDone
  BY <1>4 DEF CommandsDone, IInv, TaskRegistry, RecordedDownIsDown, StageShape,
              WaitingShape, DirtyDown, WantedNotDown, Syncing, Live
<1>5. CASE PopCommand
  BY <1>5 DEF PopCommand, IInv, TaskRegistry, RecordedDownIsDown, StageShape,
              WaitingShape, DirtyDown, WantedNotDown, Syncing, Live
<1>6. CASE StopJoined
  <2>1. TaskRegistry' /\ RecordedDownIsDown'
    BY <1>6 DEF StopJoined, IInv, TaskRegistry, RecordedDownIsDown, Live
  <2>2. waiting' = {} /\ WaitingShape'
    BY <1>6 DEF StopJoined, AfterStop, WaitingShape
  <2>3. /\ cmd = {} => pc' = "stop" /\ cmd' = {}
        /\ cmd # {} => \/ pc' = "handle"
                       \/ pc' = "commands" /\ cmd' = {}
    BY <1>6 DEF StopJoined, AfterStop
  <2>4. StageShape' /\ WantedNotDown'
    BY <1>6, <2>2, <2>3 DEF StopJoined, IInv, StageShape, WantedNotDown, Syncing
  <2>5. DirtyDown'
    BY <1>6 DEF StopJoined, IInv, DirtyDown, TaskRegistry, TypeOK
  <2>6. QED
    BY <2>1, <2>2, <2>4, <2>5 DEF IInv
<1>7. CASE StopTimeout
  <2>1. \A b \in Bots : tasks'[b] = IF \E s \in Slots : <<b, s>> \in waiting THEN {} ELSE tasks[b]
    BY <1>7 DEF StopTimeout
  <2>2. \A b \in Bots, s \in Slots : Live(b, s)' <=> (Live(b, s) /\ <<b, s>> \notin waiting)
    BY <1>7 DEF StopTimeout, Live, Done, Task
  <2>3. TaskRegistry' /\ RecordedDownIsDown'
    BY <1>7, <2>1, <2>2 DEF StopTimeout, IInv, TaskRegistry, RecordedDownIsDown, WaitingShape
  <2>4. waiting' = {} /\ WaitingShape'
    BY <1>7 DEF StopTimeout, AfterStop, WaitingShape
  <2>5. /\ cmd = {} => pc' = "stop" /\ cmd' = {}
        /\ cmd # {} => \/ pc' = "handle"
                       \/ pc' = "commands" /\ cmd' = {}
    BY <1>7 DEF StopTimeout, AfterStop
  <2>6. StageShape' /\ WantedNotDown'
    BY <1>7, <2>4, <2>5 DEF StopTimeout, IInv, StageShape, WantedNotDown, Syncing
  <2>7. DirtyDown'
    BY <1>7, <2>1 DEF StopTimeout, IInv, DirtyDown, TypeOK
  <2>8. QED
    BY <2>3, <2>4, <2>6, <2>7 DEF IInv
<1>8. CASE SyncList
  <2>1. tx' = FlushedTx /\ mem' = [b \in Bots |-> Clean] /\ pc = "sync" /\ pc' = "stop"
    BY <1>8 DEF SyncList, Statement
  <2>2. cmd' = {} /\ waiting' = {}
    BY <1>8 DEF SyncList, IInv, StageShape
  <2>3. TaskRegistry'
    BY <1>8 DEF SyncList, IInv, TaskRegistry, Live
  <2>4. RecordedDownIsDown'
    BY <1>8, <2>1, FlushInv DEF SyncList, RecordedDownIsDown
  <2>5. StageShape' /\ WaitingShape'
    BY <2>1, <2>2 DEF StageShape, WaitingShape, Syncing
  <2>6. DirtyDown'
    BY <2>1 DEF DirtyDown, Clean, Object
  <2>7. WantedNotDown'
    BY <1>8, <2>1 DEF SyncList, WantedNotDown, Visible, Runnable, Down, None
  <2>8. QED
    BY <2>3, <2>4, <2>5, <2>6, <2>7 DEF IInv
<1>9. CASE SyncStopped
  BY <1>9 DEF SyncStopped, IInv, TaskRegistry, RecordedDownIsDown, StageShape,
              WaitingShape, DirtyDown, WantedNotDown, Syncing, Live
<1>10. CASE Commit
  <2>1. TaskRegistry'
    BY <1>10 DEF Commit, IInv, TaskRegistry, Live
  <2>2. QED
    BY <1>10, <2>1, EndIterationInv DEF Commit
<1>11. ASSUME NEW b \in Bots, HeartbeatVisit(b)
       PROVE  IInv'
  <2>1. /\ tx' = FlushedTx /\ pc = "heartbeat" /\ pc' = "heartbeat"
        /\ mem' = [c \in Bots |-> IF c = b THEN Object(Visible(b), Visible(b), TRUE) ELSE Clean]
    BY <1>11 DEF HeartbeatVisit, Statement
  <2>2. TaskRegistry'
    BY <1>11 DEF HeartbeatVisit, IInv, TaskRegistry, Live
  <2>3. RecordedDownIsDown'
    BY <1>11, <2>1, FlushInv DEF HeartbeatVisit, RecordedDownIsDown
  <2>4. StageShape' /\ WaitingShape'
    BY <1>11, <2>1 DEF HeartbeatVisit, IInv, StageShape, WaitingShape, Syncing
  <2>5. DirtyDown'
    BY <2>1 DEF DirtyDown, Clean, Object
  <2>6. WantedNotDown'
    BY <1>11, <2>1 DEF HeartbeatVisit, IInv, StageShape, WantedNotDown, Syncing
  <2>7. QED
    BY <2>2, <2>3, <2>4, <2>5, <2>6 DEF IInv
<1>12. ASSUME NEW b \in Bots, SyncStop(b)
       PROVE  IInv'
  BY <1>12 DEF SyncStop, IInv, TaskRegistry, RecordedDownIsDown, StageShape,
               WaitingShape, DirtyDown, WantedNotDown, Syncing, Live, Clean, Object, TypeOK
<1>13. ASSUME NEW b \in Bots, SyncKeep(b)
       PROVE  IInv'
  BY <1>13 DEF SyncKeep, IInv, TaskRegistry, RecordedDownIsDown, StageShape,
               WaitingShape, DirtyDown, WantedNotDown, Syncing, Live
<1>14. ASSUME NEW b \in Bots, SyncStartFails(b)
       PROVE  IInv'
  <2>1. /\ tx' = FlushedTx /\ pc = "start" /\ b \in todo /\ tasks[b] = {}
        /\ UNCHANGED <<pc, wanted, cmd, waiting, tasks, run>> /\ todo' = todo \ {b}
    BY <1>14 DEF SyncStartFails, LoadAndSet, Statement
  <2>2. \A c \in Bots \ {b} : mem'[c] = Clean
    BY <1>14 DEF SyncStartFails, LoadAndSet, Statement
  <2>3. TaskRegistry' /\ WaitingShape'
    BY <2>1 DEF IInv, TaskRegistry, WaitingShape, Live
  <2>4. StageShape'
    BY <2>1, <2>2 DEF IInv, StageShape, Syncing, TypeOK
  <2>5. RecordedDownIsDown'
    BY <2>1, FlushInv DEF RecordedDownIsDown
  <2>6. WantedNotDown'
    BY <2>1, StartFlush DEF WantedNotDown
  <2>7. DirtyDown'
    BY <2>1, <2>2 DEF DirtyDown, Clean, Object, Down, None
  <2>8. QED
    BY <2>3, <2>4, <2>5, <2>6, <2>7 DEF IInv
<1>15. ASSUME NEW b \in Bots, NEW s \in Slots, SyncStart(b, s)
       PROVE  IInv'
  <2>1. /\ tx' = FlushedTx /\ pc = "start" /\ b \in todo /\ tasks[b] = {}
        /\ UNCHANGED <<pc, wanted, cmd, waiting>> /\ todo' = todo \ {b}
    BY <1>15 DEF SyncStart, LoadAndSet, Statement
  <2>2. \A c \in Bots : IF c = b THEN mem'[c].new = "STARTING" ELSE mem'[c] = Clean
    BY <1>15 DEF SyncStart, LoadAndSet, Statement, Object
  <2>3. \A c \in Bots : tasks'[c] = IF c = b THEN {s} ELSE tasks[c]
    BY <1>15 DEF SyncStart, IInv, TypeOK
  <2>4. \A c \in Bots, u \in Slots : Live(c, u)' <=> (Live(c, u) \/ <<c, u>> = <<b, s>>)
    BY <1>15 DEF SyncStart, Live, Task, IInv, TypeOK
  <2>5. TaskRegistry'
    BY <2>1, <2>3, <2>4 DEF IInv, TaskRegistry
  <2>6. StageShape' /\ WaitingShape'
    BY <2>1, <2>2 DEF IInv, StageShape, WaitingShape, Syncing, TypeOK
  <2>7. RecordedDownIsDown'
    BY <2>1, <2>3, FlushInv, StartFlush DEF RecordedDownIsDown
  <2>8. WantedNotDown'
    BY <2>1, StartFlush DEF WantedNotDown
  <2>9. DirtyDown'
    BY <2>1, <2>2, <2>3 DEF DirtyDown, Clean, Object, Down, None
  <2>10. QED
    BY <2>5, <2>6, <2>7, <2>8, <2>9 DEF IInv
<1>16. ASSUME NEW c \in cmd, HandleStart(c)
       PROVE  IInv'
  <2>1. c.target \in Bots /\ "STARTING" \in Status \ Down
    BY DEF IInv, TypeOK, Command, Status, Down
  <2>2. /\ \A b \in Bots : tx'[b] \in Down => tasks[b] = {}
        /\ mem'[c.target].new = "STARTING"
        /\ \A b \in Bots \ {c.target} :
             mem'[b].new \in Down /\ mem'[b].new # mem'[b].old => tasks[b] = {}
    BY <1>16, <2>1, GetAndSetInv DEF HandleStart
  <2>3. TaskRegistry' /\ RecordedDownIsDown'
    BY <1>16, <2>2 DEF HandleStart, IInv, TaskRegistry, RecordedDownIsDown, Live
  <2>4. StageShape' /\ WaitingShape' /\ WantedNotDown'
    BY <1>16 DEF HandleStart, IInv, StageShape, WaitingShape, WantedNotDown, Syncing
  <2>5. DirtyDown'
    BY <1>16, <2>1, <2>2 DEF HandleStart, DirtyDown
  <2>6. QED
    BY <2>3, <2>4, <2>5 DEF IInv
<1>17. ASSUME NEW c \in cmd, HandleStop(c)
       PROVE  IInv'
  <2>1. c.target \in Bots /\ "STOPPED" \in Status
    BY DEF IInv, TypeOK, Command, Status
  <2>2. /\ \A b \in Bots : tx'[b] \in Down => tasks[b] = {}
        /\ \A b \in Bots \ {c.target} :
             mem'[b].new \in Down /\ mem'[b].new # mem'[b].old => tasks[b] = {}
    BY <1>17, <2>1, GetAndSetInv DEF HandleStop
  <2>3. TaskRegistry' /\ RecordedDownIsDown'
    BY <1>17, <2>2 DEF HandleStop, IInv, TaskRegistry, RecordedDownIsDown, Live
  <2>4. WaitingShape'
    BY <1>17, <2>1 DEF HandleStop, IInv, TaskRegistry, WaitingShape, TypeOK
  <2>5. StageShape' /\ WantedNotDown'
    BY <1>17 DEF HandleStop, IInv, StageShape, WantedNotDown, Syncing
  <2>6. DirtyDown'
    BY <1>17, <2>1, <2>2 DEF HandleStop, DirtyDown
  <2>7. QED
    BY <2>3, <2>4, <2>5, <2>6 DEF IInv
<1>18. QED
  BY <1>1, <1>2, <1>3, <1>4, <1>5, <1>6, <1>7, <1>8, <1>9, <1>10, <1>11, <1>12,
     <1>13, <1>14, <1>15, <1>16, <1>17 DEF SupervisorStep

\* IInv is an invariant: the initial states satisfy it and every step of the
\* supervisor, of a task or of a request preserves it.
THEOREM Inductive == Spec => []IInv
<1>1. Init => (TypeOK => IInv)
  BY DEF Init, IInv, TaskRegistry, RecordedDownIsDown, StageShape, WaitingShape,
         DirtyDown, WantedNotDown, Syncing, Live, Done, Task, Clean, Object, Down, None
<1>2. IInv /\ TypeOK' /\ [Next]_vars => IInv'
  <2> SUFFICES ASSUME IInv, TypeOK', [Next]_vars PROVE IInv'
    OBVIOUS
  <2>1. CASE UNCHANGED vars
    BY <2>1, QuietInv DEF vars
  <2>2. CASE PopInvalid
    BY <2>2 DEF PopInvalid, taskVars, IInv, TaskRegistry, RecordedDownIsDown, StageShape,
                WaitingShape, DirtyDown, WantedNotDown, Syncing, Live
  <2>3. CASE Rollback
    <3>1. TaskRegistry'
      BY <2>3 DEF Rollback, taskVars, IInv, TaskRegistry, Live
    <3>2. QED
      BY <2>3, <3>1, EndIterationInv DEF Rollback
  <2>4. CASE Crash
    <3>1. TaskRegistry'
      BY <2>4 DEF Crash, TaskRegistry, Live, Done, Task
    <3>2. QED
      BY <2>4, <3>1, EndIterationInv DEF Crash
  <2>5. ASSUME NEW r \in Requests,
               \/ RequestStep(r) \/ RequestFails(r)
               \/ \E act \in Acts, b \in Bots : RequestBegin(r, act, b)
        PROVE  IInv'
    BY <2>5, QuietInv DEF RequestStep, RequestFlush, RequestSend, RequestCommit, RequestFails,
                          RequestBegin
  <2>6. QED
    BY <2>1, <2>2, <2>3, <2>4, <2>5, SupervisorStepInv, TaskStepInv DEF Next
<1>3. QED
  BY <1>1, <1>2, TypeCorrect, PTL DEF Spec

\* For any number of userbots and requests: the tasks dictionary names exactly
\* the live coroutines, at most one for a userbot.
THEOREM RegistryCorrect == Spec => []TaskRegistry
<1>1. IInv => TaskRegistry
  BY DEF IInv
<1>2. QED
  BY <1>1, Inductive, PTL

\* For any number of userbots and requests: STOPPED and ERROR in the
\* supervisor's transaction belong to userbots without a task.
THEOREM RecordedDownCorrect == Spec => []RecordedDownIsDown
<1>1. IInv => RecordedDownIsDown
  BY DEF IInv
<1>2. QED
  BY <1>1, Inductive, PTL
=============================================================================
