--------------------------- MODULE BackgroundTasks ---------------------------
(***************************************************************************)
(* The task manager of src/indexer/background_task_manager.py: deques by   *)
(* priority, filled by views, signals and periodic tasks, emptied by       *)
(* threads without a lock.  An action is what a thread does between two     *)
(* operations on a shared object: CPython may switch threads between the    *)
(* test of a deque and its popleft(), and between popleft() and the         *)
(* appendleft() that puts a task back.                                      *)
(*                                                                         *)
(* src/system_health/background_task_manager.py holds a second manager of   *)
(* the same shape with max_workers = 1 and its own periodic tasks.          *)
(*                                                                         *)
(* A Task is an object that a retry changes and queues again, so the deques *)
(* hold references and `task' is the heap.  scheduled_for is kept as the    *)
(* time left until then.                                                   *)
(***************************************************************************)
EXTENDS Integers, Sequences, FiniteSets

CONSTANTS
  Threads,      \* threads that start() can ever create
  max_workers,  \* threads of one start()
  Objects,      \* the heap: a bound on the Task objects alive at once
  Periodic,     \* ids of the tasks that start() schedules and that reschedule themselves
  OneShot,      \* ids of the tasks of views and signals, each submitted once
  Levels,       \* how many priorities there are, the highest being Levels
  priority,     \* the priority of each id
  initialDelay, \* time from start() to the first run of a periodic task
  period,       \* time between two runs of a periodic task
  max_retries,
  MaxFailures,  \* bound: failed executions of each id
  None

Ids == Periodic \cup OneShot
TaskPriority == 1..Levels
Task == [id : Ids, retry_count : Nat, wait : Nat]

ASSUME TasksConstants ==
  /\ IsFiniteSet(Threads) /\ IsFiniteSet(Objects)
  /\ max_workers \in Nat \ {0} /\ Levels \in Nat \ {0}
  /\ max_retries \in Nat /\ MaxFailures \in [Ids -> Nat]
  /\ Periodic \cap OneShot = {}
  /\ priority \in [Ids -> TaskPriority]
  /\ initialDelay \in [Periodic -> Nat] /\ period \in [Periodic -> Nat]
  /\ None \notin Objects /\ None \notin Task

VARIABLES
  is_running,
  starts,       \* calls of start() that went through: worker_threads holds max_workers for each
  schedule,     \* what _schedule_periodic_tasks of the last start() has still to add
  task_queues,  \* the deques
  task,         \* the Task objects, None for one that is not alive
  worker,       \* what each thread does: step, place in the scan, task in hand
  submitted,    \* one-shot ids that were given to add_task
  success,      \* task_history: successful executions of a one-shot task
  failed        \* task_history: failed executions

vars == <<is_running, starts, schedule, task_queues, task, worker, submitted, success, failed>>

-----------------------------------------------------------------------------
(* Types and helpers *)

Steps == {"none", "loop", "scan", "pop", "judge", "run", "retry", "gone"}
Worker == [step : Steps, at : 1..Levels, obj : Objects \cup {None}]

Live == {o \in Objects : task[o] # None}

\* Steps in which a thread holds a task that is in no deque.
Holding == {"judge", "run", "retry"}

\* _get_next_task visits the deques from the highest priority down.
Visited(k) == Levels + 1 - k

\* Exponential backoff grows by the same amount with every attempt.
backoff(n) == n

\* A Task is created: the first free object stands for it.
Fresh == CHOOSE o \in Objects : task[o] = None
CanCreate == \E o \in Objects : task[o] = None
NewTask(id, delay) == [id |-> id, retry_count |-> 0, wait |-> delay]

\* Mutant: the task goes to the front of its deque.
add_task_Front(o, id) == task_queues' = [task_queues EXCEPT ![priority[id]] = <<o>> \o @]

\* add_task: the task goes to the end of the deque of its priority.
add_task(o, id) == task_queues' = [task_queues EXCEPT ![priority[id]] = Append(@, o)]

Idle == [step |-> "loop", at |-> 1, obj |-> None]
At(step, k, o) == [step |-> step, at |-> k, obj |-> o]

\* The next deque of the scan; after the last one the thread sleeps and loops.
Beyond(k) == IF k = Levels THEN Idle ELSE At("scan", k + 1, None)

Init ==
  /\ is_running = FALSE /\ starts = 0 /\ schedule = {}
  /\ task_queues = [p \in TaskPriority |-> <<>>]
  /\ task = [o \in Objects |-> None]
  /\ worker = [w \in Threads |-> [step |-> "none", at |-> 1, obj |-> None]]
  /\ submitted = {}
  /\ success = [i \in OneShot |-> 0] /\ failed = [i \in Ids |-> 0]

-----------------------------------------------------------------------------
(* start, stop and add_task *)

\* start() returns at once when the manager is running.  Otherwise its threads begin
\* to work before the periodic tasks are scheduled.  What the indexer's does last,
\* start_real_time, is left out: it shares nothing with threads and deques.
start ==
  /\ ~is_running /\ schedule = {}
  /\ is_running' = TRUE /\ starts' = starts + 1 /\ schedule' = Periodic
  /\ \E W \in SUBSET {w \in Threads : worker[w].step = "none"} :
       /\ Cardinality(W) = max_workers
       /\ worker' = [w \in Threads |-> IF w \in W THEN Idle ELSE worker[w]]
  /\ UNCHANGED <<task_queues, task, submitted, success, failed>>

\* One add_task of _schedule_periodic_tasks.
schedule_periodic(id) ==
  /\ id \in schedule /\ CanCreate
  /\ schedule' = schedule \ {id}
  /\ task' = [task EXCEPT ![Fresh] = NewTask(id, initialDelay[id])]
  /\ add_task(Fresh, id)
  /\ UNCHANGED <<is_running, starts, worker, submitted, success, failed>>

\* stop() clears the flag and waits for the threads with a timeout, so a thread
\* in a long task outlives it; a restart is stop() and start() in a row.
stop ==
  /\ is_running
  /\ is_running' = FALSE
  /\ UNCHANGED <<starts, schedule, task_queues, task, worker, submitted, success, failed>>

\* A view or a signal queues a task, whether the manager is running or not.
submit(id) ==
  /\ id \notin submitted /\ CanCreate
  /\ submitted' = submitted \cup {id}
  /\ task' = [task EXCEPT ![Fresh] = NewTask(id, 0)]
  /\ add_task(Fresh, id)
  /\ UNCHANGED <<is_running, starts, schedule, worker, success, failed>>

-----------------------------------------------------------------------------
(* A worker thread *)

\* Mutant: the flag is not tested.
Loop_Always(w) ==
  /\ worker[w].step = "loop"
  /\ worker' = [worker EXCEPT ![w] = At("scan", 1, None)]
  /\ UNCHANGED <<is_running, starts, schedule, task_queues, task, submitted, success, failed>>

\* The test of `while self.is_running'.
Loop(w) ==
  /\ worker[w].step = "loop"
  /\ worker' = [worker EXCEPT ![w] = IF is_running THEN At("scan", 1, None) ELSE At("gone", 1, None)]
  /\ UNCHANGED <<is_running, starts, schedule, task_queues, task, submitted, success, failed>>

\* `if self.task_queues[priority]': the deque is only looked at.
Scan(w) ==
  LET k == worker[w].at
  IN /\ worker[w].step = "scan"
     /\ worker' = [worker EXCEPT ![w] =
          IF task_queues[Visited(k)] = <<>> THEN Beyond(k) ELSE At("pop", k, None)]
     /\ UNCHANGED <<is_running, starts, schedule, task_queues, task, submitted, success, failed>>

\* popleft().  Another thread may have emptied the deque: IndexError, which the
\* loop logs before it sleeps.
Pop(w) ==
  LET k == worker[w].at
      q == task_queues[Visited(k)]
  IN /\ worker[w].step = "pop"
     /\ IF q = <<>>
        THEN worker' = [worker EXCEPT ![w] = Idle] /\ UNCHANGED task_queues
        ELSE /\ worker' = [worker EXCEPT ![w] = At("judge", k, Head(q))]
             /\ task_queues' = [task_queues EXCEPT ![Visited(k)] = Tail(@)]
     /\ UNCHANGED <<is_running, starts, schedule, task, submitted, success, failed>>

\* Mutant: a task that is not due is not put back.
Judge_Drops(w) ==
  LET k == worker[w].at
      o == worker[w].obj
  IN /\ worker[w].step = "judge"
     /\ worker' = [worker EXCEPT ![w] = IF task[o].wait = 0 THEN At("run", k, o) ELSE Beyond(k)]
     /\ UNCHANGED <<is_running, starts, schedule, task_queues, task, submitted, success, failed>>

\* A task that is due is executed; another is put back in front, and the scan
\* goes on with the next lower priority.
Judge(w) ==
  LET k == worker[w].at
      o == worker[w].obj
  IN /\ worker[w].step = "judge"
     /\ IF task[o].wait = 0
        THEN worker' = [worker EXCEPT ![w] = At("run", k, o)] /\ UNCHANGED task_queues
        ELSE /\ worker' = [worker EXCEPT ![w] = Beyond(k)]
             /\ task_queues' = [task_queues EXCEPT ![Visited(k)] = <<o>> \o @]
     /\ UNCHANGED <<is_running, starts, schedule, task, submitted, success, failed>>

\* The function of a one-shot task returns.
Return(w) ==
  LET o == worker[w].obj
  IN /\ worker[w].step = "run" /\ task[o].id \in OneShot
     /\ worker' = [worker EXCEPT ![w] = Idle]
     /\ task' = [task EXCEPT ![o] = None]
     /\ success' = [success EXCEPT ![task[o].id] = @ + 1]
     /\ UNCHANGED <<is_running, starts, schedule, task_queues, submitted, failed>>

\* It raises.
Raise(w) ==
  LET o == worker[w].obj
  IN /\ worker[w].step = "run" /\ task[o].id \in OneShot
     /\ failed[task[o].id] < MaxFailures[task[o].id]
     /\ worker' = [worker EXCEPT ![w] = At("retry", 1, o)]
     /\ failed' = [failed EXCEPT ![task[o].id] = @ + 1]
     /\ UNCHANGED <<is_running, starts, schedule, task_queues, task, submitted, success>>

\* A periodic function queues a new Task of its id in its finally clause,
\* however it ends ...
Return_Periodic(w) ==
  LET o == worker[w].obj
  IN /\ worker[w].step = "run" /\ task[o].id \in Periodic /\ CanCreate
     /\ worker' = [worker EXCEPT ![w] = Idle]
     /\ task' = [task EXCEPT ![o] = None, ![Fresh] = NewTask(task[o].id, period[task[o].id])]
     /\ add_task(Fresh, task[o].id)
     /\ UNCHANGED <<is_running, starts, schedule, submitted, success, failed>>

\* Mutant: it is queued again only after a success.
Raise_Periodic_NoFinally(w) ==
  LET o == worker[w].obj
  IN /\ worker[w].step = "run" /\ task[o].id \in Periodic
     /\ failed[task[o].id] < MaxFailures[task[o].id]
     /\ worker' = [worker EXCEPT ![w] = At("retry", 1, o)]
     /\ failed' = [failed EXCEPT ![task[o].id] = @ + 1]
     /\ UNCHANGED <<is_running, starts, schedule, task_queues, task, submitted, success>>

\* ... and when it raised, the task that failed is retried as well.
Raise_Periodic(w) ==
  LET o == worker[w].obj
  IN /\ worker[w].step = "run" /\ task[o].id \in Periodic /\ CanCreate
     /\ failed[task[o].id] < MaxFailures[task[o].id]
     /\ worker' = [worker EXCEPT ![w] = At("retry", 1, o)]
     /\ task' = [task EXCEPT ![Fresh] = NewTask(task[o].id, period[task[o].id])]
     /\ add_task(Fresh, task[o].id)
     /\ failed' = [failed EXCEPT ![task[o].id] = @ + 1]
     /\ UNCHANGED <<is_running, starts, schedule, submitted, success>>

\* Mutant: one attempt too many; one too few.
Retry_OneMore(w) ==
  LET o == worker[w].obj
      n == task[o].retry_count + 1
  IN /\ worker[w].step = "retry"
     /\ worker' = [worker EXCEPT ![w] = Idle]
     /\ IF task[o].retry_count <= max_retries
        THEN /\ task' = [task EXCEPT ![o] = [@ EXCEPT !.retry_count = n, !.wait = backoff(n)]]
             /\ add_task(o, task[o].id)
        ELSE task' = [task EXCEPT ![o] = None] /\ UNCHANGED task_queues
     /\ UNCHANGED <<is_running, starts, schedule, submitted, success, failed>>

Retry_OneLess(w) ==
  LET o == worker[w].obj
      n == task[o].retry_count + 1
  IN /\ worker[w].step = "retry"
     /\ worker' = [worker EXCEPT ![w] = Idle]
     /\ IF task[o].retry_count + 1 < max_retries
        THEN /\ task' = [task EXCEPT ![o] = [@ EXCEPT !.retry_count = n, !.wait = backoff(n)]]
             /\ add_task(o, task[o].id)
        ELSE task' = [task EXCEPT ![o] = None] /\ UNCHANGED task_queues
     /\ UNCHANGED <<is_running, starts, schedule, submitted, success, failed>>

\* The except clause of _execute_task.
Retry(w) ==
  LET o == worker[w].obj
      n == task[o].retry_count + 1
  IN /\ worker[w].step = "retry"
     /\ worker' = [worker EXCEPT ![w] = Idle]
     /\ IF task[o].retry_count < max_retries
        THEN /\ task' = [task EXCEPT ![o] = [@ EXCEPT !.retry_count = n, !.wait = backoff(n)]]
             /\ add_task(o, task[o].id)
        ELSE task' = [task EXCEPT ![o] = None] /\ UNCHANGED task_queues
     /\ UNCHANGED <<is_running, starts, schedule, submitted, success, failed>>

\* Time passes for every task that is scheduled for later.
Tick ==
  /\ \E o \in Live : task[o].wait > 0
  /\ task' = [o \in Objects |->
       IF o \in Live /\ task[o].wait > 0 THEN [task[o] EXCEPT !.wait = @ - 1] ELSE task[o]]
  /\ UNCHANGED <<is_running, starts, schedule, task_queues, worker, submitted, success, failed>>

-----------------------------------------------------------------------------
(* Specification *)

Execute(w) == Return(w) \/ Raise(w) \/ Return_Periodic(w) \/ Raise_Periodic(w) \/ Retry(w)
Step(w) == Loop(w) \/ Scan(w) \/ Pop(w) \/ Judge(w) \/ Execute(w)

Next ==
  \/ start \/ stop \/ Tick
  \/ \E id \in Periodic : schedule_periodic(id)
  \/ \E id \in OneShot : submit(id)
  \/ \E w \in Threads : Step(w)

Spec == Init /\ [][Next]_vars

\* A thread is resumed, a task's function ends (its calls have timeouts), and
\* time passes.  Nothing is assumed of start, stop and the submitting views.
FairSpec ==
  /\ Spec
  /\ \A w \in Threads : WF_vars(Step(w))
  /\ WF_vars(Tick)

-----------------------------------------------------------------------------
(* Properties *)

\* Everything has its type; no attempt goes past max_retries.
TypeOK ==
  /\ is_running \in BOOLEAN /\ starts \in Nat /\ schedule \in SUBSET Periodic
  /\ task_queues \in [TaskPriority -> Seq(Objects)]
  /\ task \in [Objects -> Task \cup {None}]
  /\ worker \in [Threads -> Worker]
  /\ submitted \in SUBSET OneShot
  /\ success \in [OneShot -> Nat] /\ failed \in [Ids -> Nat]
  /\ \A o \in Live : task[o].retry_count <= max_retries

InHand(w, o) == worker[w].step \in Holding /\ worker[w].obj = o
Queued(o) == \E p \in TaskPriority : \E i \in 1..Len(task_queues[p]) : task_queues[p][i] = o

\* A task that a thread executes is due: between the judgement and the execution
\* no other thread reschedules it.
RunsWhenDue == \A w \in Threads : worker[w].step = "run" => task[worker[w].obj].wait = 0

\* However the threads interleave their tests, pops and put-backs, a task that
\* is alive is in the deque of its own priority once, or in the hands of one
\* thread, and nothing else is in a deque or in hand.
EachTaskOnce ==
  /\ \A p \in TaskPriority : \A i \in 1..Len(task_queues[p]) :
       /\ task_queues[p][i] \in Live
       /\ priority[task[task_queues[p][i]].id] = p
       /\ \A j \in 1..Len(task_queues[p]) : task_queues[p][i] = task_queues[p][j] => i = j
  /\ \A w \in Threads : worker[w].step \in Holding =>
       /\ worker[w].obj \in Live
       /\ ~Queued(worker[w].obj)
       /\ \A v \in Threads : InHand(v, worker[w].obj) => v = w
  /\ \A o \in Live : Queued(o) \/ \E w \in Threads : InHand(w, o)

\* The Task objects of an id that are alive, and those of them that are a failed
\* execution still to be judged by the except clause.
Copies(id) == {o \in Live : task[o].id = id}
AwaitsRetry(o) == \E w \in Threads : worker[w].step = "retry" /\ worker[w].obj = o
Failing(id) == {o \in Copies(id) : AwaitsRetry(o)}

Attempts(o) == task[o].retry_count + (IF AwaitsRetry(o) THEN 1 ELSE 0)

InProgress(id) ==
  /\ \E o \in Objects : Copies(id) = {o}
  /\ success[id] = 0
  /\ \A o \in Copies(id) : failed[id] = Attempts(o)

Finished(id) ==
  /\ Copies(id) = {}
  /\ \/ success[id] = 1 /\ failed[id] <= max_retries
     \/ success[id] = 0 /\ failed[id] = max_retries + 1

\* A task of a view or signal is neither lost nor repeated: until it has
\* succeeded or failed in all its attempts there is exactly one Task for it, and
\* its retry_count is the number of its failures.
OneShotSettledOnce ==
  \A id \in OneShot :
    IF id \in submitted THEN InProgress(id) \/ Finished(id)
                        ELSE Copies(id) = {} /\ success[id] = 0 /\ failed[id] = 0

Pending(id) == IF id \in schedule THEN 1 ELSE 0

\* A periodic task never dies out, whatever its executions do: there is a Task
\* of it for every start().  Each failure leaves at most one more.
PeriodicKept ==
  \A id \in Periodic :
    /\ starts <= Pending(id) + Cardinality(Copies(id) \ Failing(id))
    /\ Pending(id) + Cardinality(Copies(id)) <= starts + failed[id]

Settled(id) == success[id] > 0 \/ failed[id] > max_retries

\* While the manager stays up, a task of the highest priority is carried out,
\* whatever tasks scheduled for later are put back in front of it.
HighestIsExecuted ==
  \A id \in OneShot : priority[id] = Levels =>
    (<>[]is_running => [](id \in submitted => <>Settled(id)))

\* After a stop() that no start() follows every thread ends.
WorkersEnd ==
  <>[]~is_running => <>[](\A w \in Threads : worker[w].step \in {"none", "gone"})
=============================================================================
