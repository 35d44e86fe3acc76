------------------------ MODULE SystemHealth_proofs ------------------------
(***************************************************************************)
(* Proofs about SystemHealth, for any managers, alerts and thresholds.      *)
(***************************************************************************)
EXTENDS SystemHealth, FiniteSetTheorems, TLAPS

(***************************************************************************)
(* Messages                                                                 *)
(***************************************************************************)

\* The messages check_health returns, or its error, are messages.
LEMMA CheckTyped ==
  ASSUME TypeOK
  PROVE  check_health \subseteq Message /\ CheckError \subseteq Message
<1> USE DEF Message, TheLoad, Fixed
<1>1. machine["load"] \in Loads \cup {0}
  BY DEF TypeOK, Gauges, Reading
<1>2. machine["load"] > 0 => TheLoad(machine["load"]) \in Message
  <2> SUFFICES ASSUME machine["load"] > 0 PROVE TheLoad(machine["load"]) \in Message
    OBVIOUS
  <2>1. machine["load"] \in Loads BY <1>1
  <2> QED BY <2>1
<1>3. Fixed("redis") \in Message /\ Fixed("indexer") \in Message /\ Fixed("error") \in Message
  OBVIOUS
<1> QED BY <1>2, <1>3 DEF check_health, CheckError

\* A message is not an alert's None, nor a row.
LEMMA NoneApart == None \notin Message /\ None \notin Alerts
BY HealthConstants DEF HealthConstants

(***************************************************************************)
(* The type invariant, in the two parts that the actions disturb            *)
(***************************************************************************)

\* What a manager's step must keep of its own state.
ManagerOK(s, t, h) ==
  /\ s \in Steps
  /\ t \in (SUBSET Message) \cup (SUBSET Alerts)
  /\ h \in Message \cup Alerts \cup {None}
  /\ s \in {"alerts", "touch", "create"} => t \subseteq Message
  /\ s = "resolve" => t \subseteq Alerts
  /\ s = "touch" => h \in Alerts
  /\ s = "create" => h \in Message

TasksOK ==
  /\ step \in [Managers -> Steps]
  /\ todo \in [Managers -> (SUBSET Message) \cup (SUBSET Alerts)]
  /\ hold \in [Managers -> Message \cup Alerts \cup {None}]
  /\ \A n \in Managers : ManagerOK(step[n], todo[n], hold[n])

DataOK ==
  /\ DOMAIN machine = Gauges /\ \A g \in Gauges : machine[g] \in Reading(g)
  /\ alert \in [Alerts -> Row \cup {None}] /\ deleted \subseteq Alerts
  /\ seen \in [Managers -> SUBSET Message] /\ running \in [Managers -> BOOLEAN]
  /\ errors \in 0..MaxErrors /\ aged \in 0..MaxOld

\* The type invariant is the conjunction of the two.
LEMMA Parts == TypeOK <=> TasksOK /\ DataOK
BY DEF TypeOK, TasksOK, DataOK, ManagerOK

\* TasksOK is preserved when one manager's state changes to one that is well typed.
LEMMA StepTyped ==
  ASSUME TasksOK, NEW m \in Managers, NEW s, NEW t, NEW h, ManagerOK(s, t, h),
         step' = [step EXCEPT ![m] = s],
         todo' = [todo EXCEPT ![m] = t],
         hold' = [hold EXCEPT ![m] = h]
  PROVE  TasksOK'
<1>1. step \in [Managers -> Steps] BY DEF TasksOK
<1>2. todo \in [Managers -> (SUBSET Message) \cup (SUBSET Alerts)] BY DEF TasksOK
<1>3. hold \in [Managers -> Message \cup Alerts \cup {None}] BY DEF TasksOK
<1>4. s \in Steps /\ t \in (SUBSET Message) \cup (SUBSET Alerts) /\ h \in Message \cup Alerts \cup {None}
  BY DEF ManagerOK
<1>5. step' \in [Managers -> Steps] BY <1>1, <1>4
<1>6. todo' \in [Managers -> (SUBSET Message) \cup (SUBSET Alerts)] BY <1>2, <1>4
<1>7. hold' \in [Managers -> Message \cup Alerts \cup {None}] BY <1>3, <1>4
<1>8. ASSUME NEW n \in Managers PROVE ManagerOK(step'[n], todo'[n], hold'[n])
  <2>1. CASE n = m
    <3>1. step'[n] = s /\ todo'[n] = t /\ hold'[n] = h BY <2>1, <1>1, <1>2, <1>3
    <3> QED BY <3>1
  <2>2. CASE n # m
    <3>1. step'[n] = step[n] /\ todo'[n] = todo[n] /\ hold'[n] = hold[n] BY <2>2, <1>1, <1>2, <1>3
    <3> QED BY <3>1 DEF TasksOK
  <2> QED BY <2>1, <2>2
<1> QED BY <1>5, <1>6, <1>7, <1>8 DEF TasksOK

\* A manager's own state keeps what it does not change.
LEMMA KeptState ==
  ASSUME TasksOK, NEW m \in Managers
  PROVE  /\ ManagerOK(step[m], todo[m], hold[m])
         /\ step = [step EXCEPT ![m] = step[m]]
         /\ todo = [todo EXCEPT ![m] = todo[m]]
         /\ hold = [hold EXCEPT ![m] = hold[m]]
BY DEF TasksOK

\* A manager that judges holds alerts.
LEMMA Resolving ==
  ASSUME NEW t \in SUBSET Alerts, NEW h \in Message \cup Alerts \cup {None}
  PROVE  ManagerOK("resolve", t, h)
<1>1. t \in (SUBSET Message) \cup (SUBSET Alerts) /\ t \subseteq Alerts OBVIOUS
<1>2. "resolve" \in Steps BY DEF Steps
<1> QED BY <1>1, <1>2 DEF ManagerOK

\* Done empties the manager's hands.
LEMMA DoneTyped ==
  ASSUME TasksOK, DataOK, NEW m \in Managers, Done(m)
  PROVE  TasksOK' /\ seen' \in [Managers -> SUBSET Message] /\ running' \in [Managers -> BOOLEAN]
<1>1. ManagerOK("idle", {}, None) BY DEF ManagerOK, Steps
<1>2. step' = [step EXCEPT ![m] = "idle"] /\ todo' = [todo EXCEPT ![m] = {}]
      /\ hold' = [hold EXCEPT ![m] = None]
  BY DEF Done
<1>3. TasksOK' BY <1>1, <1>2, StepTyped
<1> QED BY <1>3 DEF Done, DataOK

\* Fail keeps the number of errors within its bound.
LEMMA FailTyped ==
  ASSUME errors \in 0..MaxErrors, Fail PROVE errors' \in 0..MaxErrors
BY HealthConstants DEF HealthConstants, Fail

\* The initial state is well typed.
LEMMA TypeInit == Init => TypeOK
<1> SUFFICES ASSUME Init PROVE TypeOK OBVIOUS
<1> USE DEF Init
<1>1. DataOK
  BY HealthConstants DEF HealthConstants, DataOK, Gauges, Reading
<1>2. TasksOK
  BY DEF TasksOK, ManagerOK, Steps
<1> QED BY <1>1, <1>2, Parts

\* Every step preserves the type invariant.
LEMMA TypeNext == ASSUME TypeOK, [Next]_vars PROVE TypeOK'
<1>0. TasksOK /\ DataOK BY Parts
<1> SUFFICES TasksOK' /\ DataOK'
  BY Parts, PTL
<1>s. ASSUME UNCHANGED <<step, todo, hold>> PROVE TasksOK'
  BY <1>0, <1>s DEF TasksOK
<1>1. CASE Machine
  <2>1. TasksOK' BY <1>1, <1>s DEF Machine, tasks
  <2>2. DataOK' BY <1>0, <1>1 DEF Machine, tasks, DataOK
  <2> QED BY <2>1, <2>2
<1>2. CASE Admin_Resolve
  <2>1. TasksOK' BY <1>2, <1>s DEF Admin_Resolve, tasks
  <2>2. DataOK' BY <1>0, <1>2 DEF Admin_Resolve, tasks, DataOK
  <2> QED BY <2>1, <2>2
<1>3. CASE Age
  <2>1. TasksOK' BY <1>3, <1>s DEF Age, tasks
  <2>2. PICK a \in Alerts : IsOpen(a) /\ alert' = [alert EXCEPT ![a].old = TRUE]
    BY <1>3 DEF Age
  <2>3. [alert[a] EXCEPT !.old = TRUE] \in Row
    BY <1>0, <2>2 DEF DataOK, IsOpen, Row
  <2>4. alert' \in [Alerts -> Row \cup {None}]
    BY <1>0, <2>2, <2>3 DEF DataOK
  <2>5. aged' \in 0..MaxOld
    BY <1>0, <1>3, HealthConstants DEF Age, DataOK, HealthConstants
  <2>6. DataOK' BY <1>0, <1>3, <2>4, <2>5 DEF Age, tasks, DataOK
  <2> QED BY <2>1, <2>6
<1>4. ASSUME NEW m \in Managers, Capture(m) PROVE TasksOK' /\ DataOK'
  <2>1. PICK messages \in {check_health, CheckError} :
          Check(messages) /\ todo' = [todo EXCEPT ![m] = messages]
    BY <1>4 DEF Capture
  <2>2. messages \subseteq Message BY CheckTyped
  <2>3. ManagerOK("alerts", messages, hold[m])
    BY <1>0, <2>2, KeptState DEF ManagerOK, Steps
  <2>4. TasksOK'
    BY <1>0, <1>4, <2>1, <2>3, KeptState, StepTyped DEF Capture
  <2>5. errors' \in 0..MaxErrors BY <1>0, <2>1, FailTyped DEF Check, DataOK
  <2>6. DataOK' BY <1>0, <1>4, <2>5 DEF Capture, DataOK
  <2> QED BY <2>4, <2>6
<1>5. ASSUME NEW m \in Managers, Find(m) PROVE TasksOK' /\ DataOK'
  <2>1. PICK msg \in todo[m] :
          /\ todo' = [todo EXCEPT ![m] = todo[m] \ {msg}]
          /\ \/ /\ step' = [step EXCEPT ![m] = "touch"]
                /\ \E a \in OpenAlerts(msg) : hold' = [hold EXCEPT ![m] = a]
             \/ /\ step' = [step EXCEPT ![m] = "create"]
                /\ hold' = [hold EXCEPT ![m] = msg]
    BY <1>0, <1>5 DEF Find, TasksOK
  <2>2. todo[m] \subseteq Message
    BY <1>0, <1>5, KeptState DEF Find, ManagerOK
  <2>3. ManagerOK("create", todo[m] \ {msg}, msg) BY <2>1, <2>2 DEF ManagerOK, Steps
  <2>4. ASSUME NEW a \in OpenAlerts(msg) PROVE ManagerOK("touch", todo[m] \ {msg}, a)
    BY <2>2 DEF ManagerOK, Steps, OpenAlerts
  <2>5. TasksOK' BY <1>0, <2>1, <2>3, <2>4, StepTyped
  <2>6. DataOK' BY <1>0, <1>5 DEF Find, DataOK
  <2> QED BY <2>5, <2>6
<1>6. ASSUME NEW m \in Managers, Touch(m) PROVE TasksOK' /\ DataOK'
  <2>1. todo[m] \subseteq Message
    BY <1>0, <1>6, KeptState DEF Touch, ManagerOK
  <2>2. ManagerOK("recheck", {}, None) /\ ManagerOK("alerts", todo[m], None)
    BY <2>1 DEF ManagerOK, Steps
  <2>3. CASE hold[m] \in deleted
    <3>1. step' = [step EXCEPT ![m] = "recheck"] /\ todo' = [todo EXCEPT ![m] = {}]
          /\ hold' = [hold EXCEPT ![m] = None]
      BY <1>6, <2>3 DEF Touch
    <3> QED BY <1>0, <1>6, <2>2, <3>1, StepTyped DEF Touch, DataOK
  <2>4. CASE hold[m] \notin deleted
    <3>1. step' = [step EXCEPT ![m] = "alerts"] /\ todo' = [todo EXCEPT ![m] = todo[m]]
          /\ hold' = [hold EXCEPT ![m] = None]
      BY <1>0, <1>6, <2>4 DEF Touch, TasksOK
    <3> QED BY <1>0, <1>6, <2>2, <3>1, StepTyped DEF Touch, DataOK
  <2> QED BY <2>3, <2>4
<1>7. ASSUME NEW m \in Managers, Create(m) PROVE TasksOK' /\ DataOK'
  <2>1. todo[m] \subseteq Message /\ hold[m] \in Message
    BY <1>0, <1>7, KeptState DEF Create, ManagerOK
  <2>2. ManagerOK("alerts", todo[m], None)
    BY <2>1 DEF ManagerOK, Steps
  <2>3. TasksOK'
    BY <1>0, <1>7, <2>2, KeptState, StepTyped DEF Create
  <2>4. FreeRow \in Alerts BY <1>7 DEF Create, FreeRow
  <2>5. [msg |-> hold[m], old |-> FALSE] \in Row BY <2>1 DEF Row
  <2>6. alert' \in [Alerts -> Row \cup {None}]
    BY <1>0, <1>7, <2>4, <2>5 DEF Create, DataOK
  <2>7. DataOK' BY <1>0, <1>7, <2>6 DEF Create, DataOK
  <2> QED BY <2>3, <2>7
<1>8. ASSUME NEW m \in Managers, Captured(m) PROVE TasksOK' /\ DataOK'
  <2>1. ManagerOK("recheck", todo[m], hold[m])
    BY <1>0, KeptState DEF ManagerOK, Steps
  <2>2. step' = [step EXCEPT ![m] = "recheck"]
        /\ todo' = [todo EXCEPT ![m] = todo[m]] /\ hold' = [hold EXCEPT ![m] = hold[m]]
    BY <1>0, <1>8, KeptState DEF Captured
  <2>3. TasksOK'
    BY <1>0, <2>1, <2>2, StepTyped
  <2> QED BY <1>0, <1>8, <2>3 DEF Captured, DataOK
<1>9. ASSUME NEW m \in Managers, Recheck(m) PROVE TasksOK' /\ DataOK'
  <2>1. PICK messages \in {check_health, CheckError} :
          Check(messages) /\ seen' = [seen EXCEPT ![m] = messages]
    BY <1>9 DEF Recheck
  <2>2. messages \subseteq Message BY CheckTyped
  <2>3. ManagerOK("services", todo[m], hold[m])
    BY <1>0, KeptState DEF ManagerOK, Steps
  <2>k. step' = [step EXCEPT ![m] = "services"]
        /\ todo' = [todo EXCEPT ![m] = todo[m]] /\ hold' = [hold EXCEPT ![m] = hold[m]]
    BY <1>0, <1>9, KeptState DEF Recheck
  <2>4. TasksOK'
    BY <1>0, <2>3, <2>k, StepTyped
  <2>5. errors' \in 0..MaxErrors BY <1>0, <2>1, FailTyped DEF Check, DataOK
  <2>6. seen' \in [Managers -> SUBSET Message]
    BY <1>0, <2>1, <2>2 DEF DataOK
  <2>7. DataOK' BY <1>0, <1>9, <2>5, <2>6 DEF Recheck, DataOK
  <2> QED BY <2>4, <2>7
<1>10. ASSUME NEW m \in Managers, Services(m) PROVE TasksOK' /\ DataOK'
  <2>1. ManagerOK("resolve", {a \in Alerts : IsOpen(a)}, hold[m])
    <3>1. {a \in Alerts : IsOpen(a)} \in SUBSET Alerts OBVIOUS
    <3>2. hold[m] \in Message \cup Alerts \cup {None}
      BY <1>0, KeptState DEF ManagerOK
    <3> QED BY <3>1, <3>2, Resolving
  <2>2. TasksOK'
    BY <1>0, <1>10, <2>1, KeptState, StepTyped DEF Services
  <2>3. IndexerSeen \in BOOLEAN
    BY <1>0 DEF IndexerSeen, DataOK, Gauges, Reading
  <2>4. running' \in [Managers -> BOOLEAN]
    BY <1>0, <1>10, <2>3 DEF Services, DataOK
  <2> QED BY <1>0, <1>10, <2>2, <2>4 DEF Services, DataOK
<1>11. ASSUME NEW m \in Managers, Judge(m) PROVE TasksOK' /\ DataOK'
  <2>1. PICK a \in todo[m] :
          \/ Done(m) /\ UNCHANGED alert
          \/ /\ todo' = [todo EXCEPT ![m] = todo[m] \ {a}]
             /\ alert' = [alert EXCEPT ![a] =
                  IF IsOpen(a) /\ ShouldResolve(m, alert[a].msg) THEN None ELSE alert[a]]
             /\ UNCHANGED <<step, seen, running, hold>>
    BY <1>0, <1>11 DEF Judge, TasksOK, DataOK
  <2>2. todo[m] \subseteq Alerts
    BY <1>0, <1>11, KeptState DEF Judge, ManagerOK
  <2>3. CASE Done(m) /\ UNCHANGED alert
    <3>1. TasksOK' /\ seen' \in [Managers -> SUBSET Message] /\ running' \in [Managers -> BOOLEAN]
      BY <1>0, <2>3, DoneTyped
    <3> QED BY <1>0, <1>11, <2>3, <3>1 DEF Judge, DataOK
  <2>4. CASE /\ todo' = [todo EXCEPT ![m] = todo[m] \ {a}]
             /\ alert' = [alert EXCEPT ![a] =
                  IF IsOpen(a) /\ ShouldResolve(m, alert[a].msg) THEN None ELSE alert[a]]
             /\ UNCHANGED <<step, seen, running, hold>>
    <3>1. ManagerOK(step[m], todo[m] \ {a}, hold[m])
      <4>1. todo[m] \ {a} \in SUBSET Alerts BY <2>2
      <4>2. step[m] = "resolve" BY <1>11 DEF Judge
      <4>3. hold[m] \in Message \cup Alerts \cup {None}
        BY <1>0, KeptState DEF ManagerOK
      <4>4. ManagerOK("resolve", todo[m] \ {a}, hold[m]) BY <4>1, <4>3, Resolving
      <4> QED BY <4>2, <4>4
    <3>k. step' = [step EXCEPT ![m] = step[m]] /\ hold' = [hold EXCEPT ![m] = hold[m]]
          /\ todo' = [todo EXCEPT ![m] = todo[m] \ {a}]
      BY <1>0, <2>4, KeptState
    <3>2. TasksOK' BY <1>0, <3>1, <3>k, StepTyped
    <3>3. alert' \in [Alerts -> Row \cup {None}]
      BY <1>0, <2>2, <2>4 DEF DataOK
    <3> QED BY <1>0, <1>11, <2>4, <3>2, <3>3 DEF Judge, DataOK
  <2> QED BY <2>1, <2>3, <2>4
<1>12. ASSUME NEW m \in Managers, Resolved(m) PROVE TasksOK' /\ DataOK'
  <2>1. TasksOK' /\ seen' \in [Managers -> SUBSET Message] /\ running' \in [Managers -> BOOLEAN]
    BY <1>0, <1>12, DoneTyped DEF Resolved
  <2> QED BY <1>0, <1>12, <2>1 DEF Resolved, DataOK
<1>13. ASSUME NEW m \in Managers, Capture_Fails(m) PROVE TasksOK' /\ DataOK'
  <2>1. ManagerOK("recheck", {}, None) BY DEF ManagerOK, Steps
  <2>2. TasksOK' BY <1>0, <1>13, <2>1, StepTyped DEF Capture_Fails
  <2>3. errors' \in 0..MaxErrors BY <1>0, <1>13, FailTyped DEF Capture_Fails, DataOK
  <2> QED BY <1>0, <1>13, <2>2, <2>3 DEF Capture_Fails, DataOK
<1>14. ASSUME NEW m \in Managers, Task_Fails(m) PROVE TasksOK' /\ DataOK'
  <2>1. TasksOK' /\ seen' \in [Managers -> SUBSET Message] /\ running' \in [Managers -> BOOLEAN]
    BY <1>0, <1>14, DoneTyped DEF Task_Fails
  <2>2. errors' \in 0..MaxErrors BY <1>0, <1>14, FailTyped DEF Task_Fails, DataOK
  <2> QED BY <1>0, <1>14, <2>1, <2>2 DEF Task_Fails, DataOK
<1>15. ASSUME NEW m \in Managers, Cleanup(m) PROVE TasksOK' /\ DataOK'
  <2>1. TasksOK' BY <1>15, <1>s DEF Cleanup, tasks
  <2>2. alert' \in [Alerts -> Row \cup {None}]
    BY <1>0, <1>15 DEF Cleanup, DataOK
  <2>3. deleted' \subseteq Alerts
    BY <1>0, <1>15 DEF Cleanup, DataOK
  <2>4. DataOK' BY <1>0, <1>15, <2>2, <2>3 DEF Cleanup, tasks, DataOK
  <2> QED BY <2>1, <2>4
<1>16. CASE UNCHANGED vars
  BY <1>0, <1>16 DEF vars, tasks, TasksOK, DataOK
<1> QED
  BY <1>1, <1>2, <1>3, <1>4, <1>5, <1>6, <1>7, <1>8, <1>9, <1>10, <1>11, <1>12, <1>13, <1>14,
     <1>15, <1>16 DEF Next, Snapshot

\* Rows, messages and each manager's place keep their types.
THEOREM HealthTyped == Spec => []TypeOK
<1>1. Init => TypeOK BY TypeInit
<1>2. TypeOK /\ [Next]_vars => TypeOK' BY TypeNext
<1> QED BY <1>1, <1>2, PTL DEF Spec

(***************************************************************************)
(* Open alerts                                                              *)
(***************************************************************************)

\* Two sets that shrink keep the bound on their sizes.
LEMMA Shrink ==
  ASSUME NEW A, NEW B, NEW A1 \in SUBSET A, NEW B1 \in SUBSET B, NEW n \in Nat,
         IsFiniteSet(A), IsFiniteSet(B), Cardinality(A) + Cardinality(B) <= n
  PROVE  Cardinality(A1) + Cardinality(B1) <= n
<1>1. Cardinality(A) \in Nat /\ Cardinality(B) \in Nat BY FS_CardinalityType
<1>2. /\ Cardinality(A1) \in Nat /\ Cardinality(A1) <= Cardinality(A)
      /\ Cardinality(B1) \in Nat /\ Cardinality(B1) <= Cardinality(B)
  BY FS_Subset, FS_CardinalityType
<1> QED BY <1>1, <1>2

\* So does an element that moves from one into the other.
LEMMA Exchange ==
  ASSUME NEW A, NEW B, NEW a, NEW b \in B, NEW n \in Nat,
         IsFiniteSet(A), IsFiniteSet(B), Cardinality(A) + Cardinality(B) <= n
  PROVE  Cardinality(A \cup {a}) + Cardinality(B \ {b}) <= n
<1>1. Cardinality(A) \in Nat /\ Cardinality(B) \in Nat BY FS_CardinalityType
<1>2. Cardinality(A \cup {a}) \in Nat /\ Cardinality(A \cup {a}) <= Cardinality(A) + 1
  <2>1. IsFiniteSet(A \cup {a}) /\ (Cardinality(A \cup {a}) = Cardinality(A)
                                    \/ Cardinality(A \cup {a}) = Cardinality(A) + 1)
    BY FS_AddElement
  <2>2. Cardinality(A \cup {a}) \in Nat BY <2>1, FS_CardinalityType
  <2> QED BY <1>1, <2>1, <2>2
<1>3. Cardinality(B \ {b}) = Cardinality(B) - 1 BY FS_RemoveElement
<1> QED BY <1>1, <1>2, <1>3

AtMostOneEach(msg) ==
  Cardinality(OpenAlerts(msg)) + Cardinality(Creating(msg)) <= Cardinality(Managers)

\* The sets that OneOpenPerManager counts are finite.
LEMMA Finite ==
  ASSUME NEW msg
  PROVE  /\ IsFiniteSet(OpenAlerts(msg)) /\ IsFiniteSet(Creating(msg))
         /\ Creating(msg) \subseteq Managers
         /\ IsFiniteSet(Managers) /\ Cardinality(Managers) \in Nat
<1>1. IsFiniteSet(Managers) /\ IsFiniteSet(Alerts)
  BY HealthConstants DEF HealthConstants
<1>2. OpenAlerts(msg) \subseteq Alerts /\ Creating(msg) \subseteq Managers
  BY DEF OpenAlerts, Creating
<1> QED BY <1>1, <1>2, FS_Subset, FS_CardinalityType

\* A step that opens no alert of the message and lets no manager start to keeps it.
LEMMA Quiet ==
  ASSUME NEW msg, AtMostOneEach(msg),
         OpenAlerts(msg)' \subseteq OpenAlerts(msg), Creating(msg)' \subseteq Creating(msg)
  PROVE  AtMostOneEach(msg)'
<1> DEFINE A == OpenAlerts(msg)
           B == Creating(msg)
<1>1. IsFiniteSet(A) /\ IsFiniteSet(B) /\ Cardinality(Managers) \in Nat
  BY Finite
<1>2. Cardinality(A) + Cardinality(B) <= Cardinality(Managers) BY DEF AtMostOneEach
<1>3. \A A1 \in SUBSET A, B1 \in SUBSET B :
        Cardinality(A1) + Cardinality(B1) <= Cardinality(Managers)
  <2> HIDE DEF A, B
  <2> QED BY <1>1, <1>2, Shrink
<1>4. OpenAlerts(msg)' \in SUBSET A /\ Creating(msg)' \in SUBSET B OBVIOUS
<1>5. Cardinality(OpenAlerts(msg)') + Cardinality(Creating(msg)') <= Cardinality(Managers)
  BY <1>3, <1>4
<1> QED BY <1>5 DEF AtMostOneEach

\* No manager starts to create when none enters the step with that message.
LEMMA NoneStarts ==
  ASSUME TypeOK, NEW m \in Managers, NEW s, NEW msg, s # "create",
         step' = [step EXCEPT ![m] = s],
         \A n \in Managers \ {m} : hold'[n] = hold[n]
  PROVE  Creating(msg)' \subseteq Creating(msg) \ {m}
<1>1. step \in [Managers -> Steps] BY DEF TypeOK
<1>2. ASSUME NEW n \in Managers, step'[n] = "create", hold'[n] = msg
      PROVE  n # m /\ step[n] = "create" /\ hold[n] = msg
  BY <1>1, <1>2
<1> QED BY <1>2 DEF Creating

\* Done leaves the other managers' hands alone.
LEMMA DoneQuiet ==
  ASSUME TypeOK, NEW m \in Managers, Done(m), NEW msg
  PROVE  Creating(msg)' \subseteq Creating(msg)
<1>1. step' = [step EXCEPT ![m] = "idle"] /\ \A n \in Managers \ {m} : hold'[n] = hold[n]
  BY DEF Done, TypeOK
<1> QED BY <1>1, NoneStarts

\* Every step keeps the bound of every message.
LEMMA OpenNext ==
  ASSUME TypeOK, TypeOK', [Next]_vars, NEW msg \in Message, AtMostOneEach(msg)
  PROVE  AtMostOneEach(msg)'
<1>0. /\ alert \in [Alerts -> Row \cup {None}]
      /\ step \in [Managers -> Steps] /\ hold \in [Managers -> Message \cup Alerts \cup {None}]
  BY DEF TypeOK
<1>a. ASSUME UNCHANGED alert PROVE OpenAlerts(msg)' = OpenAlerts(msg)
  BY <1>a DEF OpenAlerts, IsOpen
<1>t. ASSUME UNCHANGED <<step, hold>> PROVE Creating(msg)' = Creating(msg)
  BY <1>t DEF Creating
<1>c. ASSUME NEW a \in Alerts, alert' = [alert EXCEPT ![a] = None]
      PROVE  OpenAlerts(msg)' \subseteq OpenAlerts(msg)
  BY <1>0, <1>c DEF OpenAlerts, IsOpen
<1>1. CASE Machine
  BY <1>1, <1>a, <1>t, Quiet DEF Machine, tasks
<1>2. CASE Admin_Resolve
  BY <1>2, <1>c, <1>t, Quiet DEF Admin_Resolve, tasks
<1>3. CASE Age
  <2>1. PICK a \in Alerts : IsOpen(a) /\ alert' = [alert EXCEPT ![a].old = TRUE]
    BY <1>3 DEF Age
  <2>2. alert[a] \in Row BY <1>0, <2>1 DEF IsOpen
  <2>3. ASSUME NEW b \in Alerts, alert'[b] # None, alert'[b].msg = msg
        PROVE  alert[b] # None /\ alert[b].msg = msg
    BY <1>0, <2>1, <2>2, <2>3 DEF IsOpen, Row
  <2>4. OpenAlerts(msg)' \subseteq OpenAlerts(msg) BY <2>3 DEF OpenAlerts, IsOpen
  <2>5. UNCHANGED <<step, hold>> BY <1>3 DEF Age, tasks
  <2> QED BY <1>t, <2>4, <2>5, Quiet
<1>4. ASSUME NEW m \in Managers, Capture(m) PROVE AtMostOneEach(msg)'
  <2>1. Creating(msg)' \subseteq Creating(msg)
    BY <1>4, NoneStarts DEF Capture
  <2> QED BY <1>4, <1>a, <2>1, Quiet DEF Capture
<1>5. ASSUME NEW m \in Managers, Find(m) PROVE AtMostOneEach(msg)'
  <2>0. UNCHANGED alert BY <1>5 DEF Find
  <2>1. PICK w \in todo[m] :
          \/ /\ step' = [step EXCEPT ![m] = "touch"]
             /\ \E a \in OpenAlerts(w) : hold' = [hold EXCEPT ![m] = a]
          \/ /\ OpenAlerts(w) = {}
             /\ step' = [step EXCEPT ![m] = "create"]
             /\ hold' = [hold EXCEPT ![m] = w]
    BY <1>5 DEF Find
  <2>2. CASE step' = [step EXCEPT ![m] = "touch"]
             /\ \E a \in OpenAlerts(w) : hold' = [hold EXCEPT ![m] = a]
    <3>1. \A n \in Managers \ {m} : hold'[n] = hold[n] BY <1>0, <2>2
    <3>2. Creating(msg)' \subseteq Creating(msg) BY <2>2, <3>1, NoneStarts
    <3> QED BY <1>a, <2>0, <3>2, Quiet
  <2>3. CASE /\ OpenAlerts(w) = {}
             /\ step' = [step EXCEPT ![m] = "create"]
             /\ hold' = [hold EXCEPT ![m] = w]
    <3>1. CASE w = msg
      <4>1. OpenAlerts(msg)' = {} BY <1>a, <2>0, <2>3, <3>1
      <4>2. Creating(msg)' \subseteq Managers BY DEF Creating
      <4>3. Cardinality(Creating(msg)') <= Cardinality(Managers)
            /\ Cardinality(Creating(msg)') \in Nat
        BY <4>2, Finite, FS_Subset, FS_CardinalityType
      <4>4. Cardinality(OpenAlerts(msg)') = 0 BY <4>1, FS_EmptySet
      <4>5. Cardinality(Managers) \in Nat BY Finite
      <4>6. Cardinality(OpenAlerts(msg)') + Cardinality(Creating(msg)') <= Cardinality(Managers)
        BY <4>3, <4>4, <4>5
      <4> QED BY <4>6 DEF AtMostOneEach
    <3>2. CASE w # msg
      <4>1. ASSUME NEW n \in Managers, step'[n] = "create", hold'[n] = msg
            PROVE  step[n] = "create" /\ hold[n] = msg
        BY <1>0, <2>3, <3>2, <4>1
      <4>2. Creating(msg)' \subseteq Creating(msg) BY <4>1 DEF Creating
      <4> QED BY <1>a, <2>0, <4>2, Quiet
    <3> QED BY <3>1, <3>2
  <2> QED BY <2>1, <2>2, <2>3
<1>6. ASSUME NEW m \in Managers, Touch(m) PROVE AtMostOneEach(msg)'
  <2>1. \A n \in Managers \ {m} : hold'[n] = hold[n] BY <1>0, <1>6 DEF Touch
  <2>2. Creating(msg)' \subseteq Creating(msg)
    BY <1>6, <2>1, NoneStarts DEF Touch
  <2> QED BY <1>6, <1>a, <2>2, Quiet DEF Touch
<1>7. ASSUME NEW m \in Managers, Create(m) PROVE AtMostOneEach(msg)'
  <2>1. FreeRow \in Alerts /\ ~IsOpen(FreeRow) BY <1>7 DEF Create, FreeRow, IsFree
  <2>2. alert' = [alert EXCEPT ![FreeRow] = [msg |-> hold[m], old |-> FALSE]]
        /\ step' = [step EXCEPT ![m] = "alerts"] /\ step[m] = "create"
    BY <1>7 DEF Create
  <2>3. \A n \in Managers \ {m} : hold'[n] = hold[n] BY <1>0, <1>7 DEF Create
  <2>4. Creating(msg)' \subseteq Creating(msg) \ {m}
    BY <2>2, <2>3, NoneStarts
  <2>5. CASE hold[m] = msg
    <3>1. m \in Creating(msg) BY <2>2, <2>5 DEF Creating
    <3>2. OpenAlerts(msg)' \subseteq OpenAlerts(msg) \cup {FreeRow}
      BY <1>0, <2>1, <2>2 DEF OpenAlerts, IsOpen
    <3>3. IsFiniteSet(OpenAlerts(msg)) /\ IsFiniteSet(Creating(msg)) /\ Cardinality(Managers) \in Nat
      BY Finite
    <3>4. Cardinality(OpenAlerts(msg) \cup {FreeRow}) + Cardinality(Creating(msg) \ {m})
            <= Cardinality(Managers)
      BY <3>1, <3>3, Exchange DEF AtMostOneEach
    <3>5. IsFiniteSet(OpenAlerts(msg) \cup {FreeRow}) /\ IsFiniteSet(Creating(msg) \ {m})
      BY <3>3, FS_AddElement, FS_RemoveElement
    <3>6. Cardinality(OpenAlerts(msg)') + Cardinality(Creating(msg)') <= Cardinality(Managers)
      BY <2>4, <3>2, <3>3, <3>4, <3>5, Shrink
    <3> QED BY <3>6 DEF AtMostOneEach
  <2>6. CASE hold[m] # msg
    <3>1. OpenAlerts(msg)' \subseteq OpenAlerts(msg)
      BY <1>0, <2>1, <2>2, <2>6, NoneApart DEF OpenAlerts, IsOpen
    <3> QED BY <2>4, <3>1, Quiet
  <2> QED BY <2>5, <2>6
<1>8. ASSUME NEW m \in Managers, Captured(m) PROVE AtMostOneEach(msg)'
  <2>1. Creating(msg)' \subseteq Creating(msg)
    BY <1>8, NoneStarts DEF Captured
  <2> QED BY <1>8, <1>a, <2>1, Quiet DEF Captured
<1>9. ASSUME NEW m \in Managers, Recheck(m) PROVE AtMostOneEach(msg)'
  <2>1. Creating(msg)' \subseteq Creating(msg)
    BY <1>9, NoneStarts DEF Recheck
  <2> QED BY <1>9, <1>a, <2>1, Quiet DEF Recheck
<1>10. ASSUME NEW m \in Managers, Services(m) PROVE AtMostOneEach(msg)'
  <2>1. Creating(msg)' \subseteq Creating(msg)
    BY <1>10, NoneStarts DEF Services
  <2> QED BY <1>10, <1>a, <2>1, Quiet DEF Services
<1>11. ASSUME NEW m \in Managers, Judge(m) PROVE AtMostOneEach(msg)'
  <2>1. PICK a \in todo[m] :
          \/ Done(m) /\ UNCHANGED alert
          \/ /\ UNCHANGED <<step, hold>>
             /\ \/ alert' = [alert EXCEPT ![a] = None]
                \/ alert' = [alert EXCEPT ![a] = alert[a]]
    BY <1>11 DEF Judge
  <2>2. a \in Alerts BY <1>11, <2>1 DEF Judge, TypeOK
  <2>3. CASE Done(m) /\ UNCHANGED alert
    BY <2>3, <1>a, DoneQuiet, Quiet
  <2>4. CASE UNCHANGED <<step, hold>> /\ alert' = [alert EXCEPT ![a] = None]
    BY <2>2, <2>4, <1>c, <1>t, Quiet
  <2>5. CASE UNCHANGED <<step, hold>> /\ alert' = [alert EXCEPT ![a] = alert[a]]
    <3>1. UNCHANGED alert BY <1>0, <2>5
    <3> QED BY <2>5, <3>1, <1>a, <1>t, Quiet
  <2> QED BY <2>1, <2>3, <2>4, <2>5
<1>12. ASSUME NEW m \in Managers, Resolved(m) PROVE AtMostOneEach(msg)'
  BY <1>12, <1>a, DoneQuiet, Quiet DEF Resolved
<1>13. ASSUME NEW m \in Managers, Capture_Fails(m) PROVE AtMostOneEach(msg)'
  <2>1. \A n \in Managers \ {m} : hold'[n] = hold[n] BY <1>0, <1>13 DEF Capture_Fails
  <2>2. Creating(msg)' \subseteq Creating(msg)
    BY <1>13, <2>1, NoneStarts DEF Capture_Fails
  <2> QED BY <1>13, <1>a, <2>2, Quiet DEF Capture_Fails
<1>14. ASSUME NEW m \in Managers, Task_Fails(m) PROVE AtMostOneEach(msg)'
  BY <1>14, <1>a, DoneQuiet, Quiet DEF Task_Fails
<1>15. ASSUME NEW m \in Managers, Cleanup(m) PROVE AtMostOneEach(msg)'
  <2>1. OpenAlerts(msg)' \subseteq OpenAlerts(msg)
    BY <1>0, <1>15 DEF Cleanup, OpenAlerts, IsOpen
  <2> QED BY <1>15, <1>t, <2>1, Quiet DEF Cleanup, tasks
<1>16. CASE UNCHANGED vars
  BY <1>16, <1>a, <1>t, Quiet DEF vars, tasks
<1> QED
  BY <1>1, <1>2, <1>3, <1>4, <1>5, <1>6, <1>7, <1>8, <1>9, <1>10, <1>11, <1>12, <1>13, <1>14,
     <1>15, <1>16 DEF Next, Snapshot

\* At the start no alert is open and nobody creates one.
LEMMA OpenInit == ASSUME Init PROVE OneOpenPerManager
<1> SUFFICES ASSUME NEW msg \in Message
             PROVE Cardinality(OpenAlerts(msg)) + Cardinality(Creating(msg)) <= Cardinality(Managers)
  BY DEF OneOpenPerManager
<1>1. OpenAlerts(msg) = {} /\ Creating(msg) = {}
  BY DEF Init, OpenAlerts, IsOpen, Creating
<1>2. Cardinality({}) = 0 BY FS_EmptySet
<1>3. Cardinality(Managers) \in Nat BY Finite
<1> QED BY <1>1, <1>2, <1>3

\* However many managers check the machine and however their look-ups and
\* creations interleave, no message has more open alerts than there are managers.
THEOREM AlertsBounded == Spec => []OneOpenPerManager
<1>1. Init => TypeOK /\ OneOpenPerManager BY TypeInit, OpenInit
<1>2. TypeOK /\ OneOpenPerManager /\ [Next]_vars => TypeOK' /\ OneOpenPerManager'
  <2> SUFFICES ASSUME TypeOK, OneOpenPerManager, [Next]_vars
               PROVE  TypeOK' /\ OneOpenPerManager'
    OBVIOUS
  <2>1. TypeOK' BY TypeNext
  <2>2. ASSUME NEW msg \in Message PROVE AtMostOneEach(msg)'
    BY <2>1, OpenNext DEF OneOpenPerManager, AtMostOneEach
  <2> QED BY <2>1, <2>2 DEF OneOpenPerManager, AtMostOneEach
<1> QED BY <1>1, <1>2, PTL DEF Spec

\* Where the health container is the only manager, the look-up of
\* create_system_alert_from_message does keep each message to one open alert.
THEOREM OneManagerOneAlert ==
  ASSUME Cardinality(Managers) = 1
  PROVE  Spec => []OneOpenAlert
<1>1. OneOpenPerManager => OneOpenAlert
  <2> SUFFICES ASSUME OneOpenPerManager, NEW msg \in Message,
                      NEW a \in OpenAlerts(msg), NEW b \in OpenAlerts(msg), a # b
               PROVE  FALSE
    BY DEF OneOpenAlert
  <2> DEFINE S == OpenAlerts(msg)
  <2>1. IsFiniteSet(S) /\ IsFiniteSet(Creating(msg))
    BY Finite
  <2>2. Cardinality(S) \in Nat /\ Cardinality(Creating(msg)) \in Nat /\ Cardinality(S) <= 1
    <3>1. Cardinality(S) \in Nat /\ Cardinality(Creating(msg)) \in Nat
      BY <2>1, FS_CardinalityType
    <3> QED BY <3>1 DEF OneOpenPerManager
  <2>3. {a} \in SUBSET S /\ Cardinality({a}) = 1
    BY FS_Singleton
  <2>4. Cardinality({a}) <= Cardinality(S) /\ (Cardinality({a}) = Cardinality(S) => {a} = S)
    <3> HIDE DEF S
    <3> QED BY <2>1, <2>3, FS_Subset
  <2>5. {a} = S
    BY <2>2, <2>3, <2>4
  <2> QED BY <2>5
<1> QED BY <1>1, AlertsBounded, PTL
=============================================================================
