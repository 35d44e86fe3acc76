------------------------ MODULE VitalityTasks_proofs ------------------------
(***************************************************************************)
(* _active_tasks is exact in every execution: TaskInv is inductive.  The   *)
(* clauses about the queue and the worker's task cannot be proved apart: a *)
(* task moves from one to the other while its address stays in the set.    *)
(* Two consequences follow it: no retry is ever queued, and stop() leaves  *)
(* nothing at work.                                                        *)
(***************************************************************************)
EXTENDS VitalityTasks, TLAPS

\* A task is not the absent one.
LEMMA TaskNotNone == \A t \in Task : t # None
BY VitalityConstants DEF VitalityConstants, Task

\* A task with a retry left is still a task once the retry is counted.
LEMMA CountedRetry ==
  ASSUME NEW t \in Task, t.retry_count < max_retries
  PROVE  /\ [t EXCEPT !.retry_count = t.retry_count + 1] \in Task
         /\ [t EXCEPT !.retry_count = t.retry_count + 1] # None
<1>1. max_retries \in Nat
  BY VitalityConstants DEF VitalityConstants
<1>2. t.retry_count \in 0 .. max_retries
  BY DEF Task
<1>3. t.retry_count + 1 \in 0 .. max_retries
  BY <1>1, <1>2
<1>4. [t EXCEPT !.retry_count = t.retry_count + 1] \in Task
  BY <1>3 DEF Task
<1>. QED
  BY <1>4, TaskNotNone

\* The manager starts with nothing queued.
LEMMA InitTask == Init => TaskInv
<1>. SUFFICES ASSUME Init PROVE TaskInv
  OBVIOUS
<1>1. queue \in Seq(Task) /\ DOMAIN queue = {}
  BY DEF Init
<1>2. errors \in 0 .. MaxErrors
  BY VitalityConstants DEF Init, VitalityConstants
<1>3. TypeOK
  BY <1>1, <1>2 DEF Init, TypeOK
<1>4. LoopsOK
  BY DEF Init, LoopsOK
<1>5. ActiveTracksWork
  BY <1>1 DEF Init, ActiveTracksWork, Queued, Held
<1>. QED
  BY <1>3, <1>4, <1>5 DEF TaskInv

\* A step that touches neither the queue, nor the set, nor the worker.
LEMMA QuietTask ==
  ASSUME TaskInv, TypeOK', UNCHANGED <<queue, active, worker, task>>, LoopsOK'
  PROVE  TaskInv'
BY DEF TaskInv, ActiveTracksWork, Queued, Held

\* add_task keeps the set exact: a collection enters the queue only when it
\* is in neither place.
LEMMA AddTask ==
  ASSUME TaskInv, TypeOK', NEW t \in Task, add_task(t),
         UNCHANGED <<worker, task>>, LoopsOK'
  PROVE  TaskInv'
<1>1. CASE t.collection \in active
  BY <1>1, QuietTask DEF add_task
<1>2. CASE t.collection \notin active
  <2>. queue \in Seq(Task) /\ queue' = Append(queue, t)
       /\ active' = active \cup {t.collection}
    BY <1>2 DEF add_task, TaskInv, TypeOK
  <2>1. /\ Len(queue') = Len(queue) + 1
        /\ \A i \in 1 .. Len(queue) : queue'[i] = queue[i]
        /\ queue'[Len(queue) + 1] = t
        /\ DOMAIN queue = 1 .. Len(queue)
        /\ DOMAIN queue' = 1 .. Len(queue) + 1
        /\ Len(queue) \in Nat
    OBVIOUS
  <2>2. Queued' = Queued \cup {t.collection}
    BY <2>1 DEF Queued
  <2>3. t.collection \notin Queued \cup Held
    BY <1>2 DEF TaskInv, ActiveTracksWork
  <2>4. Held' = Held
    BY DEF Held
  <2>5. \A i, j \in DOMAIN queue' :
          queue'[i].collection = queue'[j].collection => i = j
    BY <2>1, <2>3 DEF TaskInv, ActiveTracksWork, Queued
  <2>. QED
    BY <2>2, <2>3, <2>4, <2>5 DEF TaskInv, ActiveTracksWork, LoopsOK
<1>. QED
  BY <1>1, <1>2

\* The worker drops its task and clears its address from the set.
LEMMA DropTask ==
  ASSUME TaskInv, TypeOK', task # None, NextTask,
         active' = active \ {task.collection}, queue' = queue, LoopsOK'
  PROVE  TaskInv'
<1>1. Held = {task.collection} /\ Held' = {} /\ Queued' = Queued
  BY DEF Held, NextTask, Queued
<1>2. task' = None /\ worker' \in {"ended", "waiting"}
  BY DEF NextTask
<1>. QED
  BY <1>1, <1>2 DEF TaskInv, ActiveTracksWork, LoopsOK

\* The worker takes the first task of the queue.
LEMMA GetTask ==
  ASSUME TaskInv, TypeOK', Worker_Get, LoopsOK'
  PROVE  TaskInv'
<1>. /\ queue \in Seq(Task) /\ queue # <<>> /\ task = None
     /\ task' = Head(queue) /\ queue' = Tail(queue) /\ active' = active
     /\ worker' = "executing"
  BY DEF Worker_Get, TaskInv, TypeOK, LoopsOK
<1>1. /\ Len(queue) \in Nat \ {0} /\ DOMAIN queue = 1 .. Len(queue)
      /\ DOMAIN queue' = 1 .. Len(queue) - 1
      /\ \A i \in 1 .. Len(queue) - 1 : queue'[i] = queue[i + 1]
      /\ task' = queue[1] /\ task' \in Task
  OBVIOUS
<1>2. task' # None
  BY <1>1, TaskNotNone
<1>3. Held = {} /\ Held' = {queue[1].collection}
  BY <1>1, <1>2 DEF Held
<1>4. \A i \in DOMAIN queue : i = 1 \/ i - 1 \in DOMAIN queue'
  BY <1>1
<1>5. Queued = Queued' \cup {queue[1].collection}
  <2>1. Queued \subseteq Queued' \cup {queue[1].collection}
    <3>. SUFFICES ASSUME NEW i \in DOMAIN queue
                  PROVE  queue[i].collection \in Queued' \cup {queue[1].collection}
      BY DEF Queued
    <3>1. CASE i = 1
      BY <3>1
    <3>2. CASE i # 1
      <4>1. i - 1 \in 1 .. Len(queue) - 1 /\ (i - 1) + 1 = i
        BY <1>1, <3>2
      <4>2. queue'[i - 1] = queue[i]
        BY <1>1, <4>1
      <4>. QED
        BY <1>1, <4>1, <4>2 DEF Queued
    <3>. QED
      BY <3>1, <3>2
  <2>2. Queued' \cup {queue[1].collection} \subseteq Queued
    BY <1>1 DEF Queued
  <2>. QED
    BY <2>1, <2>2
<1>6. \A i, j \in DOMAIN queue : queue[i].collection = queue[j].collection => i = j
  BY DEF TaskInv, ActiveTracksWork
<1>7. queue[1].collection \notin Queued'
  BY <1>1, <1>6 DEF Queued
<1>8. \A i, j \in DOMAIN queue' :
        queue'[i].collection = queue'[j].collection => i = j
  BY <1>1, <1>6
<1>. QED
  BY <1>2, <1>3, <1>5, <1>7, <1>8
     DEF TaskInv, ActiveTracksWork, LoopsOK

\* The worker keeps its task and counts the retry, or gives the task up.
LEMMA RaisedTask ==
  ASSUME TaskInv, TypeOK', Execute_Raised, LoopsOK'
  PROVE  TaskInv'
<1>1. task \in Task /\ task # None
  BY DEF Execute_Raised, TaskInv, TypeOK, LoopsOK
<1>2. CASE task.retry_count < max_retries
  <2>1. /\ task' = [task EXCEPT !.retry_count = task.retry_count + 1]
        /\ worker' = "backoff" /\ queue' = queue /\ active' = active
    BY <1>2 DEF Execute_Raised
  <2>2. task'.collection = task.collection
    BY <1>1, <2>1 DEF Task
  <2>3. task' # None
    BY <1>1, <1>2, <2>1, CountedRetry
  <2>. QED
    BY <1>1, <2>1, <2>2, <2>3
       DEF TaskInv, ActiveTracksWork, LoopsOK, Queued, Held
<1>3. CASE ~(task.retry_count < max_retries)
  BY <1>1, <1>3, DropTask DEF Execute_Raised
<1>. QED
  BY <1>2, <1>3

\* The retry is not queued, because its own address is still in the set.
LEMMA RetryTask ==
  ASSUME TaskInv, TypeOK', Retry, LoopsOK'
  PROVE  TaskInv'
<1>1. task # None /\ NextTask /\ active' = active \ {task.collection}
  BY DEF Retry, TaskInv, LoopsOK
<1>2. task.collection \in active
  BY <1>1 DEF TaskInv, ActiveTracksWork, Held
<1>3. queue' = queue
  BY <1>2 DEF Retry
<1>. QED
  BY <1>1, <1>3, DropTask

\* A queued task has the type of one.
LEMMA AddTask_Type ==
  ASSUME TypeOK, NEW t \in Task, add_task(t)
  PROVE  queue' \in Seq(Task) /\ active' \subseteq Collections
<1>1. t.collection \in Collections
  BY DEF Task
<1>. QED
  BY <1>1 DEF add_task, TypeOK

\* A collection's first task.
LEMMA NewTask_Type == \A c \in Collections : NewTask(c) \in Task
BY VitalityConstants DEF NewTask, Task, VitalityConstants

\* Every step keeps the types.
LEMMA NextType == TaskInv /\ [Next]_vars => TypeOK'
<1>. SUFFICES ASSUME TaskInv, [Next]_vars PROVE TypeOK'
  OBVIOUS
<1>. USE VitalityConstants DEF VitalityConstants, TypeOK, envVars, ctlVars,
                               schedVars, workVars
<1>0. TypeOK /\ LoopsOK
  BY DEF TaskInv
<1>1. CASE Command_Start
  BY <1>0, <1>1 DEF Command_Start, start
<1>2. CASE Ready_Start
  BY <1>0, <1>2 DEF Ready_Start
<1>3. CASE Stop \/ Stopped
  BY <1>0, <1>3 DEF Stop, Stopped
<1>4. CASE Scheduler_Load \/ Scheduler_Sleep \/ Scheduler_Wake
  BY <1>0, <1>4 DEF Scheduler_Load, Scheduler_Sleep, Scheduler_Wake
<1>5. CASE Scheduler_Error
  <2>1. errors + 1 \in 0 .. MaxErrors
    BY <1>0, <1>5 DEF Scheduler_Error
  <2>. QED
    BY <1>0, <1>5, <2>1 DEF Scheduler_Error
<1>6. ASSUME NEW c \in Collections, _should_recalculate(c) PROVE TypeOK'
  BY <1>0, <1>6 DEF _should_recalculate
<1>7. CASE Scheduler_Add
  <2>1. adding \in Collections \cup {None}
    BY <1>0
  <2>2. adding \in Collections
    BY <1>0, <1>7, <2>1 DEF Scheduler_Add, LoopsOK
  <2>. QED
    BY <1>0, <1>7, <2>2, AddTask_Type, NewTask_Type DEF Scheduler_Add
<1>8. ASSUME NEW c \in Collections, trigger_immediate_calculation(c)
      PROVE  TypeOK'
  BY <1>0, <1>8, AddTask_Type, NewTask_Type DEF trigger_immediate_calculation
<1>9. CASE Worker_Get
  <2>1. Head(queue) \in Task /\ Tail(queue) \in Seq(Task)
    BY <1>0, <1>9 DEF Worker_Get
  <2>. QED
    BY <1>0, <1>9, <2>1 DEF Worker_Get
<1>10. CASE Execute_Scored \/ Execute_NotFound
  BY <1>0, <1>10 DEF Execute_Scored, Execute_NotFound, NextTask
<1>11. CASE Execute_Raised
  <2>1. task \in Task /\ active \ {task.collection} \subseteq Collections
    BY <1>0, <1>11 DEF Execute_Raised, LoopsOK
  <2>2. CASE task.retry_count < max_retries
    <3>1. [task EXCEPT !.retry_count = task.retry_count + 1] \in Task
      BY <2>1, <2>2, CountedRetry
    <3>. QED
      BY <1>0, <1>11, <2>2, <3>1 DEF Execute_Raised
  <2>3. CASE ~(task.retry_count < max_retries)
    BY <1>0, <1>11, <2>1, <2>3 DEF Execute_Raised, NextTask
  <2>. QED
    BY <2>2, <2>3
<1>12. CASE Retry
  <2>1. task \in Task
    BY <1>0, <1>12 DEF Retry, LoopsOK
  <2>2. queue' \in Seq(Task)
    BY <1>0, <1>12, <2>1 DEF Retry
  <2>. QED
    BY <1>0, <1>12, <2>2 DEF Retry, NextTask
<1>13. ASSUME NEW c \in Collections, ComesDue(c) \/ Deleted(c) PROVE TypeOK'
  BY <1>0, <1>13 DEF ComesDue, Deleted
<1>14. CASE UNCHANGED vars
  BY <1>0, <1>14 DEF vars
<1>. QED
  BY <1>1, <1>2, <1>3, <1>4, <1>5, <1>6, <1>7, <1>8, <1>9, <1>10, <1>11,
     <1>12, <1>13, <1>14 DEF Next, Scheduler, Worker

\* Every step keeps what is known of the two loops.
LEMMA NextLoops == TaskInv /\ [Next]_vars => LoopsOK'
<1>. SUFFICES ASSUME TaskInv, [Next]_vars PROVE LoopsOK'
  OBVIOUS
<1>. USE VitalityConstants DEF VitalityConstants, LoopsOK, envVars, ctlVars,
                               schedVars, workVars
<1>0. TypeOK /\ LoopsOK
  BY DEF TaskInv
<1>1. CASE Command_Start
  BY <1>0, <1>1 DEF Command_Start, start
<1>2. CASE Ready_Start
  BY <1>0, <1>2 DEF Ready_Start
<1>3. CASE Stop \/ Stopped
  BY <1>0, <1>3 DEF Stop, Stopped
<1>4. CASE Scheduler_Load \/ Scheduler_Sleep \/ Scheduler_Wake
           \/ Scheduler_Error \/ Scheduler_Add
  BY <1>0, <1>4 DEF Scheduler_Load, Scheduler_Sleep, Scheduler_Wake,
                    Scheduler_Error, Scheduler_Add
<1>5. ASSUME NEW c \in Collections, _should_recalculate(c) PROVE LoopsOK'
  BY <1>0, <1>5 DEF _should_recalculate
<1>6. ASSUME NEW c \in Collections, trigger_immediate_calculation(c)
      PROVE  LoopsOK'
  BY <1>0, <1>6 DEF trigger_immediate_calculation
<1>7. CASE Worker_Get
  <2>1. Head(queue) \in Task
    BY <1>0, <1>7 DEF Worker_Get, TypeOK
  <2>2. task' # None
    BY <1>7, <2>1, TaskNotNone DEF Worker_Get
  <2>. QED
    BY <1>0, <1>7, <2>2 DEF Worker_Get
<1>8. CASE Execute_Scored \/ Execute_NotFound \/ Retry
  BY <1>0, <1>8
     DEF Execute_Scored, Execute_NotFound, Retry, NextTask
<1>9. CASE Execute_Raised
  <2>1. task \in Task
    BY <1>0, <1>9 DEF Execute_Raised, TypeOK
  <2>2. CASE task.retry_count < max_retries
    <3>1. task' # None
      BY <1>9, <2>1, <2>2, CountedRetry DEF Execute_Raised
    <3>. QED
      BY <1>0, <1>9, <2>2, <3>1 DEF Execute_Raised
  <2>3. CASE ~(task.retry_count < max_retries)
    BY <1>0, <1>9, <2>3 DEF Execute_Raised, NextTask
  <2>. QED
    BY <2>2, <2>3
<1>10. ASSUME NEW c \in Collections, ComesDue(c) \/ Deleted(c) PROVE LoopsOK'
  BY <1>0, <1>10 DEF ComesDue, Deleted
<1>11. CASE UNCHANGED vars
  BY <1>0, <1>11 DEF vars
<1>. QED
  BY <1>1, <1>2, <1>3, <1>4, <1>5, <1>6, <1>7, <1>8, <1>9, <1>10, <1>11
     DEF Next, Scheduler, Worker

\* Every step keeps the set exact.
LEMMA NextTaskInv == TaskInv /\ [Next]_vars => TaskInv'
<1>. SUFFICES ASSUME TaskInv, [Next]_vars PROVE TaskInv'
  OBVIOUS
<1>0. TypeOK' /\ LoopsOK' /\ TypeOK /\ LoopsOK
  BY NextType, NextLoops DEF TaskInv
<1>. USE DEF envVars, ctlVars, schedVars, workVars
<1>1. CASE Command_Start
  <2>1. task = None /\ worker = "off"
    BY <1>0, <1>1 DEF Command_Start, LoopsOK
  <2>. QED
    BY <1>0, <1>1, <2>1
       DEF Command_Start, TaskInv, ActiveTracksWork, Queued, Held
<1>2. CASE Ready_Start \/ Stop \/ Stopped
  BY <1>0, <1>2, QuietTask DEF Ready_Start, Stop, Stopped
<1>3. CASE Scheduler_Load \/ Scheduler_Sleep \/ Scheduler_Wake
           \/ Scheduler_Error
  BY <1>0, <1>3, QuietTask
     DEF Scheduler_Load, Scheduler_Sleep, Scheduler_Wake, Scheduler_Error
<1>4. ASSUME NEW c \in Collections, _should_recalculate(c) PROVE TaskInv'
  BY <1>0, <1>4, QuietTask DEF _should_recalculate
<1>5. CASE Scheduler_Add
  <2>1. adding \in Collections
    BY <1>0, <1>5 DEF Scheduler_Add, LoopsOK, TypeOK
  <2>. QED
    BY <1>0, <1>5, <2>1, NewTask_Type, AddTask DEF Scheduler_Add
<1>6. ASSUME NEW c \in Collections, trigger_immediate_calculation(c)
      PROVE  TaskInv'
  BY <1>0, <1>6, NewTask_Type, AddTask DEF trigger_immediate_calculation
<1>7. CASE Worker_Get
  BY <1>0, <1>7, GetTask
<1>8. CASE Execute_Scored \/ Execute_NotFound
  <2>1. task # None
    BY <1>0, <1>8
       DEF LoopsOK, Execute_Scored, Execute_NotFound
  <2>. QED
    BY <1>0, <1>8, <2>1, DropTask
       DEF Execute_Scored, Execute_NotFound
<1>9. CASE Execute_Raised
  BY <1>0, <1>9, RaisedTask
<1>10. CASE Retry
  BY <1>0, <1>10, RetryTask
<1>11. ASSUME NEW c \in Collections, ComesDue(c) \/ Deleted(c) PROVE TaskInv'
  BY <1>0, <1>11, QuietTask DEF ComesDue, Deleted
<1>12. CASE UNCHANGED vars
  BY <1>0, <1>12, QuietTask DEF vars
<1>. QED
  BY <1>1, <1>2, <1>3, <1>4, <1>5, <1>6, <1>7, <1>8, <1>9, <1>10, <1>11,
     <1>12 DEF Next, Scheduler, Worker

\* TaskInv holds in every reachable state.
THEOREM TaskInvariant == Spec => []TaskInv
BY InitTask, NextTaskInv, PTL DEF Spec

\* _active_tasks is exact whatever the interleaving of scheduler, worker,
\* manual triggers and deletions, for any number of collections.
THEOREM ActiveTasksExact == Spec => []ActiveTracksWork
<1>1. TaskInv => ActiveTracksWork
  BY DEF TaskInv
<1>. QED
  BY <1>1, TaskInvariant, PTL

\* The manager's state keeps its type through every start, stop, failure and
\* deletion.
THEOREM TasksTyped == Spec => []TypeOK
<1>1. TaskInv => TypeOK
  BY DEF TaskInv
<1>. QED
  BY <1>1, TaskInvariant, PTL

-----------------------------------------------------------------------------
(* Retries *)

\* A task that is queued for the first time has no retry counted.
LEMMA AddFirst ==
  ASSUME TypeOK, FirstAttempts, NEW c \in Collections, add_task(NewTask(c))
  PROVE  \A i \in DOMAIN queue' : queue'[i].retry_count = 0
<1>1. CASE c \in active
  BY <1>1 DEF add_task, NewTask, FirstAttempts
<1>2. CASE c \notin active
  <2>1. queue \in Seq(Task) /\ queue' = Append(queue, NewTask(c))
    BY <1>2 DEF TypeOK, add_task, NewTask
  <2>2. /\ DOMAIN queue' = 1 .. Len(queue) + 1 /\ DOMAIN queue = 1 .. Len(queue)
        /\ \A i \in 1 .. Len(queue) : queue'[i] = queue[i]
        /\ queue'[Len(queue) + 1] = NewTask(c) /\ Len(queue) \in Nat
    BY <2>1
  <2>3. NewTask(c).retry_count = 0
    BY DEF NewTask
  <2> QED
    BY <2>2, <2>3 DEF FirstAttempts
<1> QED
  BY <1>1, <1>2

\* Every step keeps the queue free of retries: while a task waits to be retried, its
\* collection is still in the set, and add_task refuses it.
LEMMA NextFirst == TaskInv /\ FirstAttempts /\ [Next]_vars => FirstAttempts'
<1> SUFFICES ASSUME TaskInv, FirstAttempts, [Next]_vars PROVE FirstAttempts'
  OBVIOUS
<1>0. TypeOK /\ LoopsOK /\ ActiveTracksWork
  BY DEF TaskInv
<1> USE DEF envVars, ctlVars, schedVars, workVars
<1>1. CASE UNCHANGED <<queue, task, worker>>
  BY <1>1 DEF FirstAttempts
<1>2. CASE Command_Start
  BY <1>2 DEF Command_Start, start, FirstAttempts
<1>3. CASE Ready_Start \/ Stop \/ Stopped \/ Scheduler_Error \/ UNCHANGED vars
  BY <1>1, <1>3 DEF Ready_Start, Stop, Stopped, Scheduler_Error, vars
<1>4. CASE Scheduler
  <2>1. CASE Scheduler_Add
    <3>1. adding \in Collections
      BY <1>0, <2>1 DEF Scheduler_Add, LoopsOK, TypeOK
    <3> QED
      BY <1>0, <2>1, <3>1, AddFirst DEF Scheduler_Add, FirstAttempts
  <2>2. CASE Scheduler_Load \/ Scheduler_Sleep \/ Scheduler_Wake
    BY <1>1, <2>2 DEF Scheduler_Load, Scheduler_Sleep, Scheduler_Wake
  <2>3. ASSUME NEW c \in Collections, _should_recalculate(c) PROVE FirstAttempts'
    BY <1>1, <2>3 DEF _should_recalculate
  <2> QED
    BY <1>4, <2>1, <2>2, <2>3 DEF Scheduler
<1>5. CASE Worker_Get
  <2>1. queue \in Seq(Task) /\ queue # <<>> /\ task' = Head(queue) /\ queue' = Tail(queue)
    BY <1>0, <1>5 DEF TypeOK, Worker_Get
  <2>2. /\ Len(queue) \in Nat \ {0} /\ DOMAIN queue = 1 .. Len(queue)
        /\ DOMAIN queue' = 1 .. Len(queue) - 1
        /\ \A i \in 1 .. Len(queue) - 1 : queue'[i] = queue[i + 1]
        /\ task' = queue[1]
    BY <2>1
  <2>3. \A i \in DOMAIN queue' : i + 1 \in DOMAIN queue
    BY <2>2
  <2>4. 1 \in DOMAIN queue
    BY <2>2
  <2> QED
    BY <2>2, <2>3, <2>4 DEF FirstAttempts
<1>6. CASE Execute_Scored \/ Execute_NotFound \/ Execute_Raised
  BY <1>6 DEF Execute_Scored, Execute_NotFound, Execute_Raised, NextTask, FirstAttempts
<1>7. CASE Retry
  <2>1. task # None
    BY <1>0, <1>7 DEF Retry, LoopsOK
  <2>2. task.collection \in active
    BY <1>0, <2>1 DEF ActiveTracksWork, Held
  <2> QED
    BY <1>7, <2>2 DEF Retry, NextTask, FirstAttempts
<1>8. ASSUME NEW c \in Collections,
             trigger_immediate_calculation(c) \/ ComesDue(c) \/ Deleted(c)
      PROVE  FirstAttempts'
  <2>1. CASE trigger_immediate_calculation(c)
    BY <1>0, <2>1, AddFirst DEF trigger_immediate_calculation, FirstAttempts
  <2>2. CASE ComesDue(c) \/ Deleted(c)
    BY <1>1, <2>2 DEF ComesDue, Deleted
  <2> QED
    BY <1>8, <2>1, <2>2
<1> QED
  BY <1>2, <1>3, <1>4, <1>5, <1>6, <1>7, <1>8 DEF Next, Worker

\* A retry never reaches the queue: every calculation is a first attempt.
THEOREM NoRetryQueued == Spec => []FirstAttempts
<1>1. Init => FirstAttempts
  BY DEF Init, FirstAttempts
<1> QED
  BY <1>1, NextFirst, TaskInvariant, PTL DEF Spec

-----------------------------------------------------------------------------
(* The shutdown *)

\* The loops run only where the command has started them, until stop() has seen both
\* end; stop() is the command's.
Halts ==
  /\ tasks = "live" \/ stopping # "no" => "command" \in called
  /\ tasks # "live" /\ stopping # "stopped" => worker = "off" /\ scheduler = "off"
  /\ stopping = "stopped" => tasks # "live"
  /\ StoppedIsQuiet

\* Every step preserves this.
LEMMA NextHalts == Halts /\ [Next]_vars => Halts'
<1> SUFFICES ASSUME Halts, [Next]_vars PROVE Halts'
  OBVIOUS
<1> USE DEF envVars, ctlVars, schedVars, workVars, Halts, StoppedIsQuiet
<1>1. CASE Command_Start
  BY <1>1 DEF Command_Start, start
<1>2. CASE Ready_Start
  BY <1>2 DEF Ready_Start
<1>3. CASE Stop
  BY <1>3 DEF Stop
<1>4. CASE Stopped
  BY <1>4 DEF Stopped
<1>5. CASE Scheduler \/ Scheduler_Error
  BY <1>5 DEF Scheduler, Scheduler_Error, Scheduler_Load, _should_recalculate, Scheduler_Add,
              Scheduler_Sleep, Scheduler_Wake
<1>6. CASE Worker
  BY <1>6 DEF Worker, Worker_Get, Execute_Scored, Execute_NotFound, Execute_Raised, Retry,
              NextTask
<1>7. ASSUME NEW c \in Collections,
             trigger_immediate_calculation(c) \/ ComesDue(c) \/ Deleted(c)
      PROVE  Halts'
  BY <1>7 DEF trigger_immediate_calculation, ComesDue, Deleted
<1>8. CASE UNCHANGED vars
  BY <1>8 DEF vars
<1> QED
  BY <1>1, <1>2, <1>3, <1>4, <1>5, <1>6, <1>7, <1>8 DEF Next

\* When stop() has returned nothing is being calculated, and nothing will be.
THEOREM StopIsComplete == Spec => []StoppedIsQuiet
<1>1. Init => Halts
  BY DEF Init, Halts, StoppedIsQuiet
<1>2. Halts => StoppedIsQuiet
  BY DEF Halts
<1> QED
  BY <1>1, <1>2, NextHalts, PTL DEF Spec
=============================================================================
