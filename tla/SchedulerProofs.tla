-------------------------- MODULE SchedulerProofs --------------------------
(***************************************************************************)
(* TLAPS proofs about Scheduler: at least one push for every run window,   *)
(* at most one more than there were failed ticks, and no window too early. *)
(***************************************************************************)
EXTENDS Scheduler, TLAPS

\* The empty table satisfies the inductive invariant.
LEMMA InitInv == Init => IInv
BY DEF Init, IInv, TypeOK, PushCount, DueShape, Status, Null

\* Creating and cancelling tasks keeps the invariant.
LEMMA UserStepInv ==
    ASSUME IInv, NEW t \in Tasks, (\E at \in 0..MaxNow : Create(t, at)) \/ Cancel(t)
    PROVE  IInv'
<1>1. CASE \E at \in 0..MaxNow : Create(t, at)
  <2>1. PICK at \in 0..MaxNow : Create(t, at)
    BY <1>1
  <2>2. at \in Nat
    BY SchedulerAssumption
  <2>3. TypeOK'
    BY <2>1, <2>2 DEF IInv, TypeOK, Create, tickVars, Status
  <2>4. PushCount' /\ DueShape'
    BY <2>1 DEF IInv, TypeOK, PushCount, DueShape, Create, tickVars
  <2>5. QED
    BY <2>3, <2>4 DEF IInv
<1>2. CASE Cancel(t)
  <2>1. TypeOK'
    BY <1>2 DEF IInv, TypeOK, Cancel, tickVars, Status
  <2>2. PushCount' /\ DueShape'
    BY <1>2 DEF IInv, TypeOK, PushCount, DueShape, Cancel, tickVars
  <2>3. QED
    BY <2>1, <2>2 DEF IInv
<1>3. QED
  BY <1>1, <1>2

\* The steps of a tick keep the invariant.
LEMMA TickStepInv ==
    ASSUME IInv, TickSelect \/ (\E t \in Tasks : Enqueue(t)) \/ TickCommit \/ TickFails
    PROVE  IInv'
<1>a. TypeOK
  BY DEF IInv
<1>1. CASE TickSelect
  <2>1. /\ due' \subseteq Tasks /\ \A t \in due' : IsDue(t)
        /\ pushed' = {} /\ tick' = "dispatch" /\ began' = now
        /\ UNCHANGED <<status, next, sent, queue, up, done, now, failed, lost>>
    BY <1>1 DEF TickSelect, rowVars
  <2>2. TypeOK'
    BY <1>a, <2>1 DEF TypeOK
  <2>3. PushCount'
    <3>1. pushed = {}
      BY <1>a, <1>1 DEF TickSelect, IInv, TypeOK, DueShape
    <3>2. QED
      BY <2>1, <3>1 DEF IInv, PushCount
  <2>4. DueShape'
    BY <2>1 DEF DueShape, IsDue
  <2>5. QED
    BY <2>2, <2>3, <2>4 DEF IInv
<1>2. CASE \E t \in Tasks : Enqueue(t)
  <2>1. PICK t \in Tasks : Enqueue(t)
    BY <1>2
  <2>2. TypeOK'
    <3>1. queue' \in Seq(Tasks) /\ sent' \in [Tasks -> Nat] /\ pushed' \subseteq due'
      BY <1>a, <2>1 DEF TypeOK, Enqueue
    <3>2. QED
      BY <1>a, <2>1, <3>1 DEF TypeOK, Enqueue, rowVars
  <2>3. PushCount'
    BY <1>a, <2>1 DEF IInv, TypeOK, PushCount, Enqueue
  <2>4. DueShape'
    BY <2>1 DEF IInv, DueShape, Enqueue, rowVars
  <2>5. QED
    BY <2>2, <2>3, <2>4 DEF IInv
<1>3. CASE TickCommit
  <2>1. TypeOK'
    <3>1. next' \in [Tasks -> Nat \cup {Null}]
      BY <1>a, <1>3, SchedulerAssumption DEF TypeOK, TickCommit, NextRunAfter
    <3>2. status' \in [Tasks -> Status] /\ sent' \in [Tasks -> Nat]
      BY <1>a, <1>3 DEF TypeOK, TickCommit, Status
    <3>3. QED
      BY <1>a, <1>3, <3>1, <3>2 DEF TypeOK, TickCommit
  <2>2. PushCount'
    BY <1>a, <1>3 DEF IInv, TypeOK, PushCount, TickCommit
  <2>3. QED
    BY <1>3, <2>1, <2>2 DEF IInv, DueShape, TickCommit
<1>4. CASE TickFails
  <2>1. TypeOK'
    BY <1>a, <1>4 DEF TypeOK, TickFails, rowVars
  <2>2. PushCount'
    BY <1>a, <1>4 DEF IInv, TypeOK, PushCount, TickFails
  <2>3. QED
    BY <1>4, <2>1, <2>2 DEF IInv, DueShape, TickFails
<1>5. QED
  BY <1>1, <1>2, <1>3, <1>4

\* The worker, the clock and stuttering keep the invariant.
LEMMA OtherStepInv ==
    ASSUME IInv,
           Execute \/ ExecuteFails \/ (\E t \in Tasks : RuntimeChanges(t)) \/ Clock \/ UNCHANGED vars
    PROVE  IInv'
<1>1. /\ UNCHANGED <<status, next, sent, tick, began, due, pushed, failed>>
      /\ now' \in Nat /\ lost' \in Nat
  BY DEF IInv, TypeOK, Execute, ExecuteFails, RuntimeChanges, Clock, vars, rowVars, tickVars
<1>2. queue' \in Seq(Tasks) /\ done' \subseteq Tasks
  <2>1. queue # <<>> => Tail(queue) \in Seq(Tasks) /\ Head(queue) \in Tasks
    BY DEF IInv, TypeOK
  <2>2. CASE Execute
    BY <2>1, <2>2 DEF IInv, TypeOK, Execute
  <2>3. CASE ExecuteFails
    BY <2>1, <2>3 DEF IInv, TypeOK, ExecuteFails
  <2>4. QED
    BY <2>2, <2>3 DEF IInv, TypeOK, RuntimeChanges, Clock, vars
<1>3. up' \in [Tasks -> BOOLEAN]
  <2>1. CASE \E t \in Tasks : RuntimeChanges(t)
    BY <2>1, Zenon DEF IInv, TypeOK, RuntimeChanges
  <2>2. CASE up' = up
    BY <2>2 DEF IInv, TypeOK
  <2>3. QED
    BY <2>1, <2>2 DEF Execute, ExecuteFails, Clock, vars
<1>4. QED
  BY <1>1, <1>2, <1>3 DEF IInv, TypeOK, PushCount, DueShape

\* The invariant is inductive, for any tasks, periods, limit and failures.
THEOREM Inductive == Spec => []IInv
<1>1. IInv /\ [Next]_vars => IInv'
  BY UserStepInv, TickStepInv, OtherStepInv DEF Next
<1>2. QED
  BY InitInv, <1>1, PTL DEF Spec

\* The table, the queue and the tick stay typed.
THEOREM TypeCorrect == Spec => []TypeOK
<1>1. IInv => TypeOK
  BY DEF IInv
<1>2. QED
  BY Inductive, <1>1, PTL

\* At most one duplicate push for each failed tick (_dispatch_due_tasks).
THEOREM DuplicatesBounded == Spec => []DuplicatesNeedFailures
<1>1. IInv => DuplicatesNeedFailures
  BY DEF IInv, TypeOK, PushCount, DuplicatesNeedFailures
<1>2. QED
  BY Inductive, <1>1, PTL

\* No run window is passed over: a row advances only after a push of its task
\* for that window (advance).
THEOREM NoWindowSkipped == Spec => AdvanceOnlyAfterPush
<1>1. IInv /\ [Next]_vars => [AdvanceStep]_vars
  <2> SUFFICES ASSUME IInv, Next, NEW t \in Tasks,
                      \/ status[t] # "none" /\ next'[t] # next[t]
                      \/ status[t] # "success" /\ status'[t] = "success"
               PROVE  sent[t] > 0
    BY DEF AdvanceStep
  <2>1. CASE TickCommit
    <3>1. t \in due
      BY <2>1 DEF IInv, TypeOK, TickCommit
    <3>2. QED
      BY <2>1, <3>1 DEF IInv, TypeOK, PushCount, TickCommit
  <2>2. CASE ~TickCommit
    BY <2>2 DEF Next, IInv, TypeOK, Create, Cancel, Enqueue, RuntimeChanges, TickSelect, TickFails,
                Execute, ExecuteFails, Clock, rowVars
  <2>3. QED
    BY <2>1, <2>2
<1>2. QED
  BY Inductive, <1>1, PTL DEF Spec, AdvanceOnlyAfterPush

\* A repeating task never runs more often than its rule says: the window that
\* advance() moves on had come when the tick read the clock.
THEOREM RepeatsInTime == Spec => NoEarlyRepeat
<1>1. IInv /\ [Next]_vars => [RepeatStep]_vars
  <2> SUFFICES ASSUME IInv, Next, NEW t \in Tasks, status[t] # "none",
                      next'[t] # next[t], next'[t] # Null
               PROVE  next'[t] >= next[t] + Period[t]
    BY DEF RepeatStep
  <2>1. CASE TickCommit
    <3>1. t \in due /\ next'[t] = NextRunAfter(began, t)
      BY <2>1 DEF IInv, TypeOK, TickCommit
    <3>2. next'[t] = began + Period[t]
      BY <3>1 DEF NextRunAfter
    <3>3. next[t] # Null /\ next[t] <= began
      BY <3>1 DEF IInv, DueShape
    <3>4. next[t] \in Nat /\ began \in Nat /\ Period[t] \in Nat
      BY <3>3, SchedulerAssumption DEF IInv, TypeOK
    <3>5. QED
      BY <3>2, <3>3, <3>4
  <2>2. CASE ~TickCommit
    BY <2>2 DEF Next, IInv, TypeOK, Create, Cancel, Enqueue, RuntimeChanges, TickSelect, TickFails,
                Execute, ExecuteFails, Clock, rowVars
  <2>3. QED
    BY <2>1, <2>2
<1>2. QED
  BY Inductive, <1>1, PTL DEF Spec, NoEarlyRepeat

\* What is left in the list after pop() was there before, and only the head may
\* be missing.
LEMMA PoppedQueue ==
    ASSUME NEW q \in Seq(Tasks), q # <<>>
    PROVE  /\ Head(q) \in {q[i] : i \in DOMAIN q}
           /\ {Tail(q)[i] : i \in DOMAIN Tail(q)} \in
                {{q[i] : i \in DOMAIN q}, {q[i] : i \in DOMAIN q} \ {Head(q)}}
<1> DEFINE before == {q[i] : i \in DOMAIN q}
           after == {Tail(q)[i] : i \in DOMAIN Tail(q)}
<1>1. /\ Len(q) \in Nat \ {0} /\ DOMAIN q = 1..Len(q) /\ Head(q) = q[1]
      /\ DOMAIN Tail(q) = 1..(Len(q) - 1)
      /\ \A i \in 1..(Len(q) - 1) : Tail(q)[i] = q[i + 1]
  OBVIOUS
<1>2. Head(q) \in before
  BY <1>1
<1>3. after \subseteq before
  <2> SUFFICES ASSUME NEW i \in 1..(Len(q) - 1) PROVE q[i + 1] \in before
    BY <1>1
  <2> QED
    BY <1>1
<1>4. before \ {Head(q)} \subseteq after
  <2> SUFFICES ASSUME NEW i \in 1..Len(q), q[i] # Head(q) PROVE q[i] \in after
    BY <1>1
  <2>1. i - 1 \in 1..(Len(q) - 1) /\ (i - 1) + 1 = i
    BY <1>1
  <2>2. Tail(q)[i - 1] = q[i]
    BY <1>1, <2>1
  <2> QED
    BY <1>1, <2>1, <2>2
<1>5. QED
  BY <1>2, <1>3, <1>4

\* What is in the list after a push.
LEMMA PushedQueue ==
    ASSUME NEW q \in Seq(Tasks), NEW t \in Tasks
    PROVE  {Append(q, t)[i] : i \in DOMAIN Append(q, t)} = {q[i] : i \in DOMAIN q} \cup {t}
<1>1. /\ Len(q) \in Nat /\ DOMAIN q = 1..Len(q)
      /\ DOMAIN Append(q, t) = 1..(Len(q) + 1)
      /\ \A i \in 1..Len(q) : Append(q, t)[i] = q[i]
      /\ Append(q, t)[Len(q) + 1] = t
  OBVIOUS
<1>2. 1..(Len(q) + 1) = 1..Len(q) \cup {Len(q) + 1}
  BY <1>1
<1>3. QED
  BY <1>1, <1>2

\* The scheduler implements Dispatch: for any tasks, periods and limit, and any
\* number of failed ticks and lost tasks.
THEOREM DispatchImplemented == Spec => ImplementsDispatch
<1>1. Init => D!Init
  BY DEF Init, D!Init
<1>2. IInv /\ [Next]_vars => [D!Next]_(D!vars)
  <2> SUFFICES ASSUME IInv, [Next]_vars PROVE D!Next \/ UNCHANGED D!vars
    OBVIOUS
  <2>a. TypeOK /\ PushCount /\ DueShape
    BY DEF IInv
  <2>1. ASSUME NEW t \in Tasks, NEW at \in 0..MaxNow, Create(t, at) PROVE D!Next
    <3>1. D!Arm(t)
      BY <2>a, <2>1, SchedulerAssumption DEF D!Arm, Create, TypeOK
    <3>2. QED
      BY <3>1 DEF D!Next
  <2>2. ASSUME NEW t \in Tasks, Cancel(t) PROVE UNCHANGED D!vars
    BY <2>a, <2>2 DEF D!vars, Cancel, TypeOK
  <2>3. ASSUME NEW t \in Tasks, Enqueue(t) PROVE D!Next
    <3>1. status[t] # "none" /\ next[t] # Null
      BY <2>a, <2>3 DEF Enqueue, DueShape
    <3>2. {o \in Tasks : sent'[o] > 0} = {o \in Tasks : sent[o] > 0} \cup {t}
      BY <2>a, <2>3 DEF Enqueue, TypeOK
    <3>3. {queue'[i] : i \in DOMAIN queue'} = {queue[i] : i \in DOMAIN queue} \cup {t}
      <4>1. queue \in Seq(Tasks) /\ queue' = Append(queue, t)
        BY <2>a, <2>3 DEF Enqueue, TypeOK
      <4>2. QED
        BY <4>1, PushedQueue
    <3>4. D!HandOver(t)
      BY <2>3, <3>1, <3>2, <3>3 DEF D!HandOver, Enqueue, rowVars
    <3>5. QED
      BY <3>4 DEF D!Next
  <2>4. ASSUME TickCommit PROVE D!Next
    <3>1. \A t \in due : t \in Tasks /\ status[t] # "none" /\ sent[t] > 0
      BY <2>a, <2>4 DEF TickCommit, DueShape, PushCount, TypeOK
    <3>2. \A t \in due : IF Period[t] = 0 THEN next'[t] = Null
                         ELSE next'[t] >= next[t] + Period[t]
      <4> SUFFICES ASSUME NEW t \in due
                   PROVE  IF Period[t] = 0 THEN next'[t] = Null
                          ELSE next'[t] >= next[t] + Period[t]
        OBVIOUS
      <4>1. next'[t] = IF Period[t] = 0 THEN Null ELSE began + Period[t]
        BY <2>4, <3>1 DEF TickCommit, NextRunAfter
      <4>2. next[t] \in Nat /\ next[t] <= began /\ began \in Nat /\ Period[t] \in Nat
        BY <2>a, <3>1, SchedulerAssumption DEF DueShape, TypeOK
      <4>3. QED
        BY <4>1, <4>2
    <3>3. \A t \in Tasks \ due : next'[t] = next[t]
      BY <2>4 DEF TickCommit
    <3>4. {t \in Tasks : sent'[t] > 0} = {t \in Tasks : sent[t] > 0} \ due
      BY <2>4 DEF TickCommit
    <3>5. {t \in Tasks : status'[t] # "none"} = {t \in Tasks : status[t] # "none"}
      BY <2>4, <3>1 DEF TickCommit
    <3>6. PICK moved \in SUBSET Tasks : moved = due
      BY <2>a DEF TypeOK
    <3>7. D!MoveOn(moved)
      <4>1. UNCHANGED <<queue, done>>
        BY <2>4 DEF TickCommit
      <4>2. moved \subseteq {t \in Tasks : status[t] # "none"} \cap {t \in Tasks : sent[t] > 0}
        BY <3>1, <3>6
      <4>3. QED
        BY <3>2, <3>3, <3>4, <3>5, <3>6, <4>1, <4>2 DEF D!MoveOn
    <3>8. QED
      BY <3>7 DEF D!Next
  <2>5. ASSUME Execute \/ ExecuteFails PROVE D!Next
    <3>1. /\ queue # <<>> /\ queue' = Tail(queue)
          /\ done' \in {done, done \cup {Head(queue)}}
          /\ UNCHANGED <<status, next, sent>>
      BY <2>5 DEF Execute, ExecuteFails, rowVars
    <3>2. PICK t \in Tasks : t = Head(queue)
      BY <2>a, <3>1 DEF TypeOK
    <3>3. D!Take(t)
      BY <2>a, <3>1, <3>2, PoppedQueue DEF D!Take, TypeOK
    <3>4. QED
      BY <3>3 DEF D!Next
  <2>6. ASSUME \/ TickSelect \/ TickFails \/ Clock \/ UNCHANGED vars
               \/ \E t \in Tasks : RuntimeChanges(t)
        PROVE  UNCHANGED D!vars
    BY <2>6 DEF D!vars, TickSelect, TickFails, Clock, RuntimeChanges, vars, rowVars
  <2>7. QED
    BY <2>1, <2>2, <2>3, <2>4, <2>5, <2>6 DEF Next
<1>3. QED
  BY Inductive, <1>1, <1>2, PTL DEF Spec, ImplementsDispatch, D!Spec
=============================================================================
