--------------------------- MODULE VitalityTasks ---------------------------
(***************************************************************************)
(* The manager that recalculates collection vitality in the background:    *)
(* class VitalityTaskManager of marketplace/vitality_task_manager.py.      *)
(*                                                                         *)
(* A scheduler and a worker share an unbounded asyncio queue and the set   *)
(* _active_tasks on one event loop: a coroutine runs alone until its next  *)
(* await, so an action is the code between two awaits.  Two places start   *)
(* the manager in the same process: AppConfig.ready runs start() in a      *)
(* thread with an event loop of its own, and the management command runs   *)
(* it on the loop that stays.                                              *)
(*                                                                         *)
(* Collections and their CollectionVitality rows are the environment's:    *)
(* rows come due as time passes and administrators delete collections.     *)
(***************************************************************************)
EXTENDS Integers, Sequences

CONSTANTS
  Collections,  \* collection addresses
  max_retries,  \* VitalityTask.max_retries
  Outcomes,     \* how calculate_collection_vitality may end
  Starters,     \* who calls start() in this process
  MaxErrors,    \* database errors the scheduler may meet
  None          \* no task, no collection

ASSUME VitalityConstants ==
  /\ max_retries \in Nat /\ MaxErrors \in Nat
  /\ Outcomes \subseteq {"scored", "raised"}
  /\ Starters \subseteq {"ready", "command"}
  /\ None \notin Collections \cup [collection : Collections, retry_count : Nat]

VARIABLES
  rows,       \* the collections that exist, all of them listed
  due,        \* those for which _should_recalculate answers yes
  called,     \* the starters that have called start()
  tasks,      \* _tasks: "none", "live", or "dead" when cancelled
  shutdown,   \* shutdown_event is set
  stopping,   \* "no", "gathering" inside stop(), "stopped" after it
  scheduler,  \* what _run_scheduler does
  pass,       \* collections the scheduler's pass has still to look at
  adding,     \* the collection it found due and is about to add
  queue,      \* task_queue
  active,     \* _active_tasks
  worker,     \* what _run_worker does
  task,       \* the task the worker holds
  errors      \* database errors so far

envVars == <<rows, due>>
ctlVars == <<called, tasks, shutdown, stopping>>
schedVars == <<scheduler, pass, adding, errors>>
workVars == <<worker, task>>
vars == <<envVars, ctlVars, schedVars, queue, active, workVars>>

Task == [collection : Collections, retry_count : 0 .. max_retries]

TypeOK ==
  /\ rows \subseteq Collections /\ due \subseteq Collections
  /\ called \subseteq Starters
  /\ tasks \in {"none", "live", "dead"}
  /\ shutdown \in BOOLEAN
  /\ stopping \in {"no", "gathering", "stopped"}
  /\ scheduler \in {"off", "loading", "checking", "adding", "sleeping", "ended"}
  /\ pass \subseteq Collections
  /\ adding \in Collections \cup {None}
  /\ queue \in Seq(Task)
  /\ active \subseteq Collections
  /\ worker \in {"off", "waiting", "executing", "backoff", "ended"}
  /\ task \in Task \cup {None}
  /\ errors \in 0 .. MaxErrors

\* No collection has a vitality yet: each is due at once.
Init ==
  /\ rows = Collections /\ due = Collections
  /\ called = {} /\ tasks = "none" /\ shutdown = FALSE /\ stopping = "no"
  /\ scheduler = "off" /\ pass = {} /\ adding = None /\ errors = 0
  /\ queue = <<>> /\ active = {}
  /\ worker = "off" /\ task = None

----------------------------------------------------------------------------
(* Starting and stopping                                                   *)

\* start() on the loop that stays, unless _tasks is filled already.
start ==
  IF tasks = "none"
  THEN /\ tasks' = "live"
       /\ scheduler' = "loading" /\ worker' = "waiting"
  ELSE UNCHANGED <<tasks, scheduler, worker>>

Command_Start ==
  /\ "command" \in Starters \ called
  /\ called' = called \cup {"command"}
  /\ start
  /\ UNCHANGED <<envVars, shutdown, stopping, pass, adding, errors, queue,
                 active, task>>

\* asyncio.run(start()): start() returns as soon as the two tasks exist, and
\* asyncio.run cancels what is still running before it closes the loop.
Ready_Start ==
  /\ "ready" \in Starters \ called
  /\ called' = called \cup {"ready"}
  /\ tasks' = IF tasks = "none" THEN "dead" ELSE tasks
  /\ UNCHANGED <<envVars, shutdown, stopping, schedVars, queue, active,
                 workVars>>

\* The command's main() after its own shutdown signal: stop() sets the event
\* and gathers the two tasks; it cancels neither.
Stop ==
  /\ "command" \in called /\ stopping = "no"
  /\ stopping' = "gathering"
  /\ shutdown' = TRUE
  /\ UNCHANGED <<envVars, called, tasks, schedVars, queue, active, workVars>>

Stopped ==
  /\ stopping = "gathering"
  /\ tasks = "live" => worker = "ended" /\ scheduler = "ended"
  /\ stopping' = "stopped"
  /\ tasks' = "none"
  /\ UNCHANGED <<envVars, called, shutdown, schedVars, queue, active,
                 workVars>>

----------------------------------------------------------------------------
(* The queue                                                               *)

\* Mutants: a collection is queued again while its task is under way; the
\* address is queued and not the task.
add_task_Unchecked(t) ==
  /\ queue' = Append(queue, t)
  /\ active' = active \cup {t.collection}

add_task_Address(t) ==
  IF t.collection \in active
  THEN UNCHANGED <<queue, active>>
  ELSE /\ queue' = Append(queue, t.collection)
       /\ active' = active \cup {t.collection}

\* put on an unbounded queue does not suspend: the test and the two writes
\* happen together.
add_task(t) ==
  IF t.collection \in active
  THEN UNCHANGED <<queue, active>>
  ELSE /\ queue' = Append(queue, t)
       /\ active' = active \cup {t.collection}

NewTask(c) == [collection |-> c, retry_count |-> 0]

\* By hand, whether the loops run or not; without a row it returns False.
trigger_immediate_calculation(c) ==
  /\ c \in rows
  /\ add_task(NewTask(c))
  /\ UNCHANGED <<envVars, ctlVars, schedVars, workVars>>

----------------------------------------------------------------------------
(* The scheduler                                                           *)

\* The loop's head, then the query for the listed collections.
Scheduler_Load ==
  /\ scheduler = "loading"
  /\ IF shutdown
     THEN scheduler' = "ended" /\ UNCHANGED pass
     ELSE scheduler' = "checking" /\ pass' = rows
  /\ UNCHANGED <<envVars, ctlVars, adding, errors, queue, active, workVars>>

\* _should_recalculate: the row is read in a thread of its own.
_should_recalculate(c) ==
  /\ scheduler = "checking" /\ c \in pass
  /\ pass' = pass \ {c}
  /\ IF c \in due
     THEN scheduler' = "adding" /\ adding' = c
     ELSE UNCHANGED <<scheduler, adding>>
  /\ UNCHANGED <<envVars, ctlVars, errors, queue, active, workVars>>

Scheduler_Add ==
  /\ scheduler = "adding"
  /\ add_task(NewTask(adding))
  /\ scheduler' = "checking" /\ adding' = None
  /\ UNCHANGED <<envVars, ctlVars, pass, errors, workVars>>

Scheduler_Sleep ==
  /\ scheduler = "checking" /\ pass = {}
  /\ scheduler' = "sleeping"
  /\ UNCHANGED <<envVars, ctlVars, pass, adding, errors, queue, active,
                 workVars>>

\* A query raises: the rest of the pass is skipped.
Scheduler_Error ==
  /\ scheduler \in {"loading", "checking"} /\ errors < MaxErrors
  /\ errors' = errors + 1
  /\ scheduler' = "sleeping" /\ pass' = {}
  /\ UNCHANGED <<envVars, ctlVars, adding, queue, active, workVars>>

Scheduler_Wake ==
  /\ scheduler = "sleeping"
  /\ scheduler' = "loading"
  /\ UNCHANGED <<envVars, ctlVars, pass, adding, errors, queue, active,
                 workVars>>

----------------------------------------------------------------------------
(* The worker                                                              *)

\* Back at the loop's head after a task.
NextTask ==
  /\ worker' = IF shutdown THEN "ended" ELSE "waiting"
  /\ task' = None

\* queue.get(): the event is not looked at while the worker waits.
Worker_Get ==
  /\ worker = "waiting" /\ queue # <<>>
  /\ task' = Head(queue) /\ queue' = Tail(queue)
  /\ worker' = "executing"
  /\ UNCHANGED <<envVars, ctlVars, schedVars, active>>

\* The calculation stores a new row, with a new updated_at.
Execute_Scored ==
  /\ worker = "executing" /\ task.collection \in rows
  /\ "scored" \in Outcomes
  /\ due' = due \ {task.collection}
  /\ active' = active \ {task.collection}
  /\ NextTask
  /\ UNCHANGED <<rows, ctlVars, schedVars, queue>>

\* NFTCollection.DoesNotExist
Execute_NotFound ==
  /\ worker = "executing" /\ task.collection \notin rows
  /\ active' = active \ {task.collection}
  /\ NextTask
  /\ UNCHANGED <<envVars, ctlVars, schedVars, queue>>

\* The calculation fails: a wait before the retry, or the task is given up.
\* No retry reaches the queue (see Retry), so a task is only ever given up
\* where max_retries is 0.
Execute_Raised ==
  /\ worker = "executing" /\ task.collection \in rows
  /\ "raised" \in Outcomes
  /\ IF task.retry_count < max_retries
     THEN /\ task' = [task EXCEPT !.retry_count = @ + 1]
          /\ worker' = "backoff"
          /\ UNCHANGED active
     ELSE active' = active \ {task.collection} /\ NextTask
  /\ UNCHANGED <<envVars, ctlVars, schedVars, queue>>

\* Mutant: the finally clause is forgotten after a retry.
Retry_KeepsActive ==
  /\ worker = "backoff"
  /\ add_task(task)
  /\ NextTask
  /\ UNCHANGED <<envVars, ctlVars, schedVars>>

\* After the sleep: add_task(task), then the finally clause.
Retry ==
  /\ worker = "backoff"
  /\ queue' = IF task.collection \in active THEN queue ELSE Append(queue, task)
  /\ active' = active \ {task.collection}
  /\ NextTask
  /\ UNCHANGED <<envVars, ctlVars, schedVars>>

----------------------------------------------------------------------------
(* The environment                                                         *)

\* The recalculation interval of the collection's tier has passed.
ComesDue(c) ==
  /\ c \in rows \ due
  /\ due' = due \cup {c}
  /\ UNCHANGED <<rows, ctlVars, schedVars, queue, active, workVars>>

\* The row goes, and its CollectionVitality with it.
Deleted(c) ==
  /\ c \in rows
  /\ rows' = rows \ {c} /\ due' = due \cup {c}
  /\ UNCHANGED <<ctlVars, schedVars, queue, active, workVars>>

Scheduler ==
  \/ Scheduler_Load
  \/ \E c \in Collections : _should_recalculate(c)
  \/ Scheduler_Add
  \/ Scheduler_Sleep
  \/ Scheduler_Wake

Worker ==
  \/ Worker_Get
  \/ Execute_Scored
  \/ Execute_NotFound
  \/ Execute_Raised
  \/ Retry

Next ==
  \/ Command_Start \/ Ready_Start \/ Stop \/ Stopped
  \/ Scheduler \/ Scheduler_Error
  \/ Worker
  \/ \E c \in Collections :
       trigger_immediate_calculation(c) \/ ComesDue(c) \/ Deleted(c)

Spec == Init /\ [][Next]_vars

\* The event loop runs every task that is ready, and the command is started.
Fairness ==
  /\ WF_vars(Command_Start) /\ WF_vars(Ready_Start)
  /\ WF_vars(Scheduler)
  /\ WF_vars(Worker)
  /\ WF_vars(Stopped)

FairSpec == Spec /\ Fairness

----------------------------------------------------------------------------
(* Properties                                                              *)

Queued == {queue[i].collection : i \in DOMAIN queue}

Held == IF task = None THEN {} ELSE {task.collection}

\* _active_tasks names exactly the collections that are queued or in the
\* worker's hands, each once: no collection is calculated twice at a time,
\* none is blocked by a task that is gone, and the queue without a limit
\* never holds more tasks than there are collections.
ActiveTracksWork ==
  /\ active = Queued \cup Held
  /\ Queued \cap Held = {}
  /\ \A i, j \in DOMAIN queue :
       queue[i].collection = queue[j].collection => i = j

\* The worker holds a task exactly while it executes or waits to retry it,
\* the scheduler has a collection in hand when it is about to add one, and
\* neither runs before the command has started them.
LoopsOK ==
  /\ task # None <=> worker \in {"executing", "backoff"}
  /\ scheduler = "adding" => adding # None
  /\ "command" \notin called => worker = "off"

TaskInv == TypeOK /\ LoopsOK /\ ActiveTracksWork

\* No calculation is a second attempt: a retry never comes back out of the queue,
\* so a failure is final until the scheduler finds the collection due again.
FirstAttempts ==
  /\ \A i \in DOMAIN queue : queue[i].retry_count = 0
  /\ worker = "executing" => task.retry_count = 0

\* When stop() has returned, no calculation and no pass of the scheduler is under
\* way, whichever of the starters was first and whatever was triggered meanwhile.
StoppedIsQuiet ==
  stopping = "stopped" => worker \in {"off", "ended"} /\ scheduler \in {"off", "ended"}

\* Every collection that is due is calculated in the end, whatever happened
\* to earlier attempts, as long as the manager runs (it is not told to stop,
\* and its tasks are not those ready() left cancelled): a failure, a failed
\* query or a deleted neighbour does not keep it out of the queue.
DueIsAttempted ==
  \A c \in Collections :
    c \in rows \cap due ~>
      \/ worker = "executing" /\ task.collection = c
      \/ c \notin rows \cap due
      \/ shutdown \/ tasks = "dead"
=============================================================================
