---------------------------- MODULE SystemHealth ----------------------------
(***************************************************************************)
(* The alerts of src/system_health: a manager's snapshot task checks the    *)
(* machine, opens an alert per message (utils.py                            *)
(* create_system_alert_from_message), checks again and closes what looks     *)
(* ended (auto_resolve_stale_alerts); administrators resolve alerts, and a   *)
(* daily task deletes old snapshots with the alerts that hang on them.       *)
(*                                                                         *)
(* A manager is a process: the health container, and each web worker whose   *)
(* restart page was used.  An action is one database statement or one        *)
(* sample of the machine, so managers, administrators and the machine        *)
(* interleave between the look-up of an alert and its creation, and between  *)
(* a sample and what is done with it.                                       *)
(*                                                                         *)
(* "load" stands for the messages that print a measured number (CPU, memory, *)
(* disk, failed tasks), "redis" for those of a fixed text.                  *)
(***************************************************************************)
EXTENDS Integers, FiniteSets

CONSTANTS
  Managers,   \* processes that run a health task manager
  Changing,   \* what changes: some of the Gauges
  Alerts,     \* SystemAlert rows: a bound on those open or in hand at once
  Loads,      \* the numbers that a measurement above its threshold prints
  MaxErrors,  \* bound: failed checks and statements
  MaxOld,     \* bound: alerts that stay open for thirty days
  None

Gauges == {"load", "redis", "indexer", "docker"}
Reading(g) == IF g = "load" THEN Loads \cup {0} ELSE BOOLEAN
Message == [kind : {"load"}, value : Loads]
             \cup [kind : {"redis", "indexer", "error"}, value : {0}]

ASSUME HealthConstants ==
  /\ IsFiniteSet(Managers) /\ IsFiniteSet(Alerts)
  /\ Changing \subseteq Gauges
  /\ Loads \subseteq Nat \ {0}
  /\ MaxErrors \in Nat /\ MaxOld \in Nat
  /\ None \notin Message /\ None \notin Alerts

VARIABLES
  machine,    \* the load that is printed (0 below its threshold), Redis answers,
              \* an indexer container runs, the Docker socket answers
  alert,      \* the open rows of SystemAlert, None for any other
  deleted,    \* rows that were deleted while a manager had them in hand
  step,       \* where each manager's snapshot task is
  seen,       \* messages of the manager's second check
  running,    \* its second check found an indexer among the Docker services
  todo,       \* messages it has still to open an alert for, then alerts to judge
  hold,       \* the message or the alert of the statement it is at
  errors,
  aged

tasks == <<step, seen, running, todo, hold>>
vars == <<machine, alert, deleted, tasks, errors, aged>>

-----------------------------------------------------------------------------
(* Types and helpers *)

Row == [msg : Message, old : BOOLEAN]
Steps == {"idle", "alerts", "touch", "create", "recheck", "services", "resolve"}

IsOpen(a) == alert[a] # None
OpenAlerts(msg) == {a \in Alerts : IsOpen(a) /\ alert[a].msg = msg}

Fixed(kind) == [kind |-> kind, value |-> 0]
TheLoad(n) == [kind |-> "load", value |-> n]

\* _get_indexer_status: without the socket no indexer is seen.
IndexerSeen == machine["docker"] /\ machine["indexer"]

\* check_health: the messages of what is over its threshold or not running.
check_health ==
  (IF machine["load"] > 0 THEN {TheLoad(machine["load"])} ELSE {})
    \cup (IF machine["redis"] THEN {} ELSE {Fixed("redis")})
    \cup (IF IndexerSeen THEN {} ELSE {Fixed("indexer")})

\* When a metric cannot be read the error is the only message.
CheckError == {Fixed("error")}

\* A row that is neither open nor in a manager's hand is not read again by this
\* code: its place is free.
InHand(a) == \E m \in Managers : a \in todo[m] \/ hold[m] = a
IsFree(a) == ~IsOpen(a) /\ ~InHand(a)
FreeRow == CHOOSE a \in Alerts : IsFree(a)

Fail == errors < MaxErrors /\ errors' = errors + 1

Init ==
  /\ machine = [g \in Gauges |-> IF g = "load" THEN 0 ELSE TRUE]
  /\ alert = [a \in Alerts |-> None] /\ deleted = {}
  /\ step = [m \in Managers |-> "idle"]
  /\ seen = [m \in Managers |-> {}] /\ running = [m \in Managers |-> FALSE]
  /\ todo = [m \in Managers |-> {}] /\ hold = [m \in Managers |-> None]
  /\ errors = 0 /\ aged = 0

-----------------------------------------------------------------------------
(* The machine *)

Machine ==
  /\ \E g \in Changing : \E v \in Reading(g) \ {machine[g]} : machine' = [machine EXCEPT ![g] = v]
  /\ UNCHANGED <<alert, deleted, tasks, errors, aged>>

-----------------------------------------------------------------------------
(* capture_ecosystem_health_snapshot *)

\* check_health of a manager: its messages, or only the error.
Check(messages) ==
  \/ messages = check_health /\ UNCHANGED errors
  \/ messages = CheckError /\ Fail

\* Mutant: the messages are only stored in the snapshot.
Capture_NoAlerts(m) ==
  /\ step[m] = "idle"
  /\ \E messages \in {check_health, CheckError} : Check(messages)
  /\ step' = [step EXCEPT ![m] = "alerts"]
  /\ UNCHANGED <<machine, alert, deleted, seen, running, todo, hold, aged>>

\* The check, and the snapshot with its messages.
Capture(m) ==
  /\ step[m] = "idle"
  /\ \E messages \in {check_health, CheckError} :
       Check(messages) /\ todo' = [todo EXCEPT ![m] = messages]
  /\ step' = [step EXCEPT ![m] = "alerts"]
  /\ UNCHANGED <<machine, alert, deleted, seen, running, hold, aged>>

\* Is there an unresolved alert of this title?
\* Mutant: no look-up.
Find_Never(m) ==
  /\ step[m] = "alerts"
  /\ \E msg \in todo[m] :
       /\ todo' = [todo EXCEPT ![m] = @ \ {msg}]
       /\ step' = [step EXCEPT ![m] = "create"]
       /\ hold' = [hold EXCEPT ![m] = msg]
  /\ UNCHANGED <<machine, alert, deleted, seen, running, errors, aged>>

Find(m) ==
  /\ step[m] = "alerts"
  /\ \E msg \in todo[m] :
       /\ todo' = [todo EXCEPT ![m] = @ \ {msg}]
       /\ IF OpenAlerts(msg) # {}
          THEN /\ step' = [step EXCEPT ![m] = "touch"]
               /\ \E a \in OpenAlerts(msg) : hold' = [hold EXCEPT ![m] = a]
          ELSE /\ step' = [step EXCEPT ![m] = "create"]
               /\ hold' = [hold EXCEPT ![m] = msg]
  /\ UNCHANGED <<machine, alert, deleted, seen, running, errors, aged>>

\* Mutant: the function does not return there, and goes on to create.
Touch_GoesOn(m) ==
  /\ step[m] = "touch"
  /\ step' = [step EXCEPT ![m] = "create"]
  /\ UNCHANGED <<machine, alert, deleted, seen, running, todo, hold, errors, aged>>

\* There is: its updated_at is saved.  A row deleted meanwhile makes
\* save(update_fields) raise, which ends the loop over the messages.
Touch(m) ==
  LET lost == hold[m] \in deleted
  IN /\ step[m] = "touch"
     /\ step' = [step EXCEPT ![m] = IF lost THEN "recheck" ELSE "alerts"]
     /\ todo' = [todo EXCEPT ![m] = IF lost THEN {} ELSE @]
     /\ hold' = [hold EXCEPT ![m] = None]
     /\ UNCHANGED <<machine, alert, deleted, seen, running, errors, aged>>

\* There is not: a new row, linked to the snapshot.
Create(m) ==
  /\ step[m] = "create"
  /\ \E a \in Alerts : IsFree(a)
  /\ alert' = [alert EXCEPT ![FreeRow] = [msg |-> hold[m], old |-> FALSE]]
  /\ deleted' = deleted \ {FreeRow}
  /\ step' = [step EXCEPT ![m] = "alerts"]
  /\ hold' = [hold EXCEPT ![m] = None]
  /\ UNCHANGED <<machine, seen, running, todo, errors, aged>>

Captured(m) ==
  /\ step[m] = "alerts" /\ todo[m] = {}
  /\ step' = [step EXCEPT ![m] = "recheck"]
  /\ UNCHANGED <<machine, alert, deleted, seen, running, todo, hold, errors, aged>>

-----------------------------------------------------------------------------
(* auto_resolve_stale_alerts *)

\* The second check_health, from its metrics ...
Recheck(m) ==
  /\ step[m] = "recheck"
  /\ \E messages \in {check_health, CheckError} :
       Check(messages) /\ seen' = [seen EXCEPT ![m] = messages]
  /\ step' = [step EXCEPT ![m] = "services"]
  /\ UNCHANGED <<machine, alert, deleted, running, todo, hold, aged>>

\* ... to the Docker services; then the unresolved alerts are fetched.
Services(m) ==
  /\ step[m] = "services"
  /\ running' = [running EXCEPT ![m] = IndexerSeen /\ seen[m] # CheckError]
  /\ todo' = [todo EXCEPT ![m] = {a \in Alerts : IsOpen(a)}]
  /\ step' = [step EXCEPT ![m] = "resolve"]
  /\ UNCHANGED <<machine, alert, deleted, seen, hold, errors, aged>>

\* Mutant: a service's alert waits for a dict of its service, as the code's Redis
\* and database branches do.
ShouldResolve_Dict(m, msg) == msg.kind = "load" /\ msg \notin seen[m]

\* should_resolve: the message is no longer there, or an indexer runs again.
ShouldResolve(m, msg) ==
  \/ msg \notin seen[m]
  \/ msg.kind = "indexer" /\ running[m]

\* The task ends and reschedules itself.
Done(m) ==
  /\ step' = [step EXCEPT ![m] = "idle"]
  /\ todo' = [todo EXCEPT ![m] = {}] /\ hold' = [hold EXCEPT ![m] = None]
  /\ seen' = [seen EXCEPT ![m] = {}] /\ running' = [running EXCEPT ![m] = FALSE]

\* One alert of the list, as it was when it was fetched: mark_resolved does not
\* look whether it was resolved meanwhile, and raises for one that was deleted,
\* which ends the loop.
Judge(m) ==
  /\ step[m] = "resolve"
  /\ \E a \in todo[m] :
       IF a \in deleted
       THEN Done(m) /\ UNCHANGED alert
       ELSE /\ todo' = [todo EXCEPT ![m] = @ \ {a}]
            /\ alert' = [alert EXCEPT ![a] =
                 IF IsOpen(a) /\ ShouldResolve(m, alert[a].msg) THEN None ELSE @]
            /\ UNCHANGED <<step, seen, running, hold>>
  /\ UNCHANGED <<machine, deleted, errors, aged>>

Resolved(m) ==
  /\ step[m] = "resolve" /\ todo[m] = {}
  /\ Done(m)
  /\ UNCHANGED <<machine, alert, deleted, errors, aged>>

\* A statement of the capture fails: an error snapshot is saved, and the second
\* part still runs.
Capture_Fails(m) ==
  /\ step[m] \in {"alerts", "touch", "create"} /\ Fail
  /\ step' = [step EXCEPT ![m] = "recheck"]
  /\ todo' = [todo EXCEPT ![m] = {}] /\ hold' = [hold EXCEPT ![m] = None]
  /\ UNCHANGED <<machine, alert, deleted, seen, running, aged>>

\* So does that, or one of the second part.
Task_Fails(m) ==
  /\ step[m] # "idle" /\ Fail /\ Done(m)
  /\ UNCHANGED <<machine, alert, deleted, aged>>

-----------------------------------------------------------------------------
(* Administrators and the clean-up *)

\* system_alert_resolve and the bulk action of the admin site.
Admin_Resolve ==
  /\ \E a \in Alerts : IsOpen(a) /\ alert' = [alert EXCEPT ![a] = None]
  /\ UNCHANGED <<machine, deleted, tasks, errors, aged>>

\* Thirty days pass over an alert's snapshot; no task takes as long.
Age ==
  /\ aged < MaxOld /\ aged' = aged + 1
  /\ \E a \in Alerts :
       /\ IsOpen(a) /\ ~InHand(a) /\ ~alert[a].old
       /\ alert' = [alert EXCEPT ![a].old = TRUE]
  /\ UNCHANGED <<machine, deleted, tasks, errors>>

\* cleanup_old_health_records, a task of the same thread: old snapshots go, and
\* by CASCADE their alerts, open or not.
Cleanup(m) ==
  LET old == {a \in Alerts : IsOpen(a) /\ alert[a].old}
  IN /\ step[m] = "idle" /\ old # {}
     /\ alert' = [a \in Alerts |-> IF a \in old THEN None ELSE alert[a]]
     /\ deleted' = deleted \cup {a \in old : InHand(a)}
     /\ UNCHANGED <<machine, tasks, errors, aged>>

-----------------------------------------------------------------------------
(* Specification *)

Snapshot(m) ==
  \/ Capture(m) \/ Find(m) \/ Touch(m) \/ Create(m) \/ Captured(m)
  \/ Recheck(m) \/ Services(m) \/ Judge(m) \/ Resolved(m)

Next ==
  \/ Machine \/ Admin_Resolve \/ Age
  \/ \E m \in Managers : Snapshot(m) \/ Capture_Fails(m) \/ Task_Fails(m) \/ Cleanup(m)

Spec == Init /\ [][Next]_vars

\* Each manager's task runs every fifteen minutes and its statements end.
FairSpec == Spec /\ \A m \in Managers : WF_vars(Snapshot(m))

-----------------------------------------------------------------------------
(* Properties *)

\* Everything has its type: in particular a manager judges rows and opens
\* alerts for messages, never the other way round.
TypeOK ==
  /\ DOMAIN machine = Gauges /\ \A g \in Gauges : machine[g] \in Reading(g)
  /\ alert \in [Alerts -> Row \cup {None}] /\ deleted \subseteq Alerts
  /\ step \in [Managers -> Steps]
  /\ seen \in [Managers -> SUBSET Message] /\ running \in [Managers -> BOOLEAN]
  /\ todo \in [Managers -> (SUBSET Message) \cup (SUBSET Alerts)]
  /\ hold \in [Managers -> Message \cup Alerts \cup {None}]
  /\ \A m \in Managers :
       /\ step[m] = "alerts" => todo[m] \subseteq Message
       /\ step[m] \in {"touch", "create"} => todo[m] \subseteq Message
       /\ step[m] = "resolve" => todo[m] \subseteq Alerts
       /\ step[m] = "touch" => hold[m] \in Alerts
       /\ step[m] = "create" => hold[m] \in Message
  /\ errors \in 0..MaxErrors /\ aged \in 0..MaxOld

\* The managers that found no open alert for a message and are about to create one.
Creating(msg) == {m \in Managers : step[m] = "create" /\ hold[m] = msg}

\* No message has more open alerts than there are managers, however the look-up
\* of one manager and the creation of another interleave; a single manager never
\* opens a second alert of a title.
OneOpenPerManager ==
  \A msg \in Message :
    Cardinality(OpenAlerts(msg)) + Cardinality(Creating(msg)) <= Cardinality(Managers)

\* What the look-up before the creation is there for: one open alert per message.
OneOpenAlert ==
  \A msg \in Message : \A a, b \in OpenAlerts(msg) : a = b

Holds(kind) ==
  CASE kind = "load" -> machine["load"] > 0
    [] kind = "redis" -> ~machine["redis"]
    [] kind = "indexer" -> ~IndexerSeen

IsShown(kind) == \E a \in Alerts : IsOpen(a) /\ alert[a].msg.kind = kind

\* When a condition has ended for good, every alert of it is closed in the end,
\* whatever is resolved, deleted or failing meanwhile.
EndedIsClosed ==
  \A kind \in {"load", "redis", "indexer"} :
    <>[]~Holds(kind) => <>[]~IsShown(kind)

\* A condition that persists is shown again and again: neither an administrator
\* nor the clean-up nor a stale manager silences it for good.
PersistingIsShown ==
  \A kind \in {"load", "redis", "indexer"} :
    <>[]Holds(kind) => []<>IsShown(kind)
=============================================================================
