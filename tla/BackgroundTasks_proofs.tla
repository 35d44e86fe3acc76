------------------------ MODULE BackgroundTasks_proofs ------------------------
(***************************************************************************)
(* Proofs about BackgroundTasks, for any numbers of threads, tasks and      *)
(* priorities, and any order of starts and stops.                           *)
(*                                                                         *)
(* Placed, which is inductive, says where each task is.  On it rest that a  *)
(* one-shot task is settled once, that copies of a periodic task are kept   *)
(* (by counting them through each step), and that nothing runs early.       *)
(***************************************************************************)
EXTENDS BackgroundTasks, SequenceTheorems, FiniteSetTheorems, TLAPS

-----------------------------------------------------------------------------
(* Deques as sets *)

Rng(s) == {s[i] : i \in 1..Len(s)}
Distinct(s) == \A i, j \in 1..Len(s) : s[i] = s[j] => i = j

\* appendleft and popleft, append: what they do to the tasks of a deque.
LEMMA DequeAppend ==
  ASSUME NEW S, NEW s \in Seq(S), NEW o \in S
  PROVE  /\ Append(s, o) \in Seq(S)
         /\ Rng(Append(s, o)) = Rng(s) \cup {o}
         /\ Distinct(s) /\ o \notin Rng(s) => Distinct(Append(s, o))
<1>1. /\ Append(s, o) \in Seq(S) /\ Len(Append(s, o)) = Len(s) + 1 /\ Len(s) \in Nat
      /\ \A i \in 1..Len(s) : Append(s, o)[i] = s[i]
      /\ Append(s, o)[Len(s) + 1] = o
  BY AppendProperties, LenProperties
<1>2. Rng(Append(s, o)) = Rng(s) \cup {o}
  BY <1>1 DEF Rng
<1>3. Distinct(s) /\ o \notin Rng(s) => Distinct(Append(s, o))
  BY <1>1 DEF Distinct, Rng
<1> QED
  BY <1>1, <1>2, <1>3

\* popleft takes the first task out.
LEMMA DequePop ==
  ASSUME NEW S, NEW s \in Seq(S), s # <<>>
  PROVE  /\ Tail(s) \in Seq(S) /\ Head(s) \in Rng(s) /\ Head(s) \in S
         /\ Distinct(s) => Rng(Tail(s)) = Rng(s) \ {Head(s)} /\ Distinct(Tail(s))
<1>1. /\ Tail(s) \in Seq(S) /\ Len(s) \in Nat \ {0} /\ Len(Tail(s)) = Len(s) - 1
      /\ \A i \in 1..Len(Tail(s)) : Tail(s)[i] = s[i + 1]
      /\ Head(s) = s[1] /\ Head(s) \in S
  BY HeadTailProperties, LenProperties, EmptySeq
<1>2. Head(s) \in Rng(s)
  BY <1>1 DEF Rng
<1>3. ASSUME Distinct(s) PROVE Rng(Tail(s)) = Rng(s) \ {Head(s)}
  <2>1. ASSUME NEW x \in Rng(Tail(s)) PROVE x \in Rng(s) \ {Head(s)}
    BY <1>1, <1>3 DEF Rng, Distinct
  <2>2. ASSUME NEW x \in Rng(s), x # Head(s) PROVE x \in Rng(Tail(s))
    <3>1. PICK i \in 1..Len(s) : x = s[i]
      BY DEF Rng
    <3>2. i - 1 \in 1..Len(Tail(s)) /\ Tail(s)[i - 1] = x
      BY <1>1, <2>2, <3>1
    <3> QED
      BY <3>2 DEF Rng
  <2> QED
    BY <2>1, <2>2
<1>4. Distinct(s) => Distinct(Tail(s))
  BY <1>1 DEF Distinct
<1> QED
  BY <1>1, <1>2, <1>3, <1>4

Front(o, s) == <<o>> \o s

\* appendleft puts it back.
LEMMA DequePutBack ==
  ASSUME NEW S, NEW s \in Seq(S), NEW o \in S, NEW t, t = Front(o, s)
  PROVE  /\ t \in Seq(S)
         /\ Rng(t) = Rng(s) \cup {o}
         /\ Distinct(s) /\ o \notin Rng(s) => Distinct(t)
<1>1. /\ t \in Seq(S) /\ Len(t) = Len(s) + 1 /\ Len(s) \in Nat
      /\ t[1] = o /\ \A i \in 2..Len(s) + 1 : t[i] = s[i - 1]
  <2>1. <<o>> \in Seq(S) /\ Len(<<o>>) = 1 /\ <<o>>[1] = o
    OBVIOUS
  <2> QED
    BY <2>1, ConcatProperties, LenProperties DEF Front
<1>2. Rng(t) = Rng(s) \cup {o}
  <2>1. ASSUME NEW x \in Rng(t) PROVE x \in Rng(s) \cup {o}
    <3>1. PICK i \in 1..Len(t) : x = t[i]
      BY DEF Rng
    <3>2. CASE i = 1
      BY <1>1, <3>1, <3>2
    <3>3. CASE i # 1
      <4>1. i - 1 \in 1..Len(s) /\ x = s[i - 1]
        BY <1>1, <3>1, <3>3
      <4> QED
        BY <4>1 DEF Rng
    <3> QED
      BY <3>2, <3>3
  <2>2. ASSUME NEW x \in Rng(s) PROVE x \in Rng(t)
    <3>1. PICK i \in 1..Len(s) : x = s[i]
      BY DEF Rng
    <3>2. i + 1 \in 1..Len(t) /\ i + 1 \in 2..Len(s) + 1 /\ t[i + 1] = s[i + 1 - 1]
      BY <1>1
    <3>3. t[i + 1] = x
      BY <1>1, <3>1, <3>2
    <3> QED
      BY <3>2, <3>3 DEF Rng
  <2>3. o \in Rng(t)
    BY <1>1 DEF Rng
  <2> QED
    BY <2>1, <2>2, <2>3
<1>3. Distinct(s) /\ o \notin Rng(s) => Distinct(t)
  <2> SUFFICES ASSUME Distinct(s), o \notin Rng(s), NEW i \in 1..Len(t), NEW j \in 1..Len(t), t[i] = t[j]
               PROVE  i = j
    BY DEF Distinct
  <2>1. \A k \in 1..Len(t) : k # 1 => k - 1 \in 1..Len(s) /\ t[k] = s[k - 1] /\ t[k] # o
    BY <1>1 DEF Rng
  <2>2. i \in Nat /\ j \in Nat /\ t[1] = o
    BY <1>1
  <2>3. CASE i = 1 \/ j = 1
    BY <2>1, <2>2, <2>3
  <2>4. CASE i # 1 /\ j # 1
    <3>1. i - 1 = j - 1
      BY <2>1, <2>4 DEF Distinct
    <3> QED
      BY <3>1, <2>2
  <2> QED
    BY <2>3, <2>4
<1> QED
  BY <1>1, <1>2, <1>3

-----------------------------------------------------------------------------
(* Where the tasks are *)

\* EachTaskOnce over sets, with what a put-back needs to know: the task in hand
\* came from the deque it goes back to.
Placed ==
  /\ \A p \in TaskPriority : Distinct(task_queues[p])
  /\ \A p \in TaskPriority : \A o \in Rng(task_queues[p]) :
       o \in Live /\ priority[task[o].id] = p /\ \A w \in Threads : ~InHand(w, o)
  /\ \A w \in Threads : worker[w].step \in Holding => worker[w].obj \in Live
  /\ \A w \in Threads : worker[w].step = "judge" =>
       priority[task[worker[w].obj].id] = Visited(worker[w].at)
  /\ \A v, w \in Threads : \A o \in Objects : InHand(v, o) /\ InHand(w, o) => v = w
  /\ \A o \in Live : o \in Rng(task_queues[priority[task[o].id]]) \/ \E w \in Threads : InHand(w, o)

\* A step keeps an object alive or dead and of the same id.
SameTask(o) ==
  /\ task'[o] = None <=> task[o] = None
  /\ task[o] # None => task'[o].id = task[o].id

\* What a thread judges after a step it judged before it.
SameJudge == \A w \in Threads : worker'[w].step = "judge" => worker'[w] = worker[w]

\* Typing of the things the placement lemmas look up.
LEMMA Types ==
  ASSUME TypeOK
  PROVE  /\ \A p \in TaskPriority : task_queues[p] \in Seq(Objects) /\ Rng(task_queues[p]) \in SUBSET Objects
         /\ \A o \in Live : o \in Objects /\ task[o] \in Task /\ task[o].id \in Ids /\ priority[task[o].id] \in TaskPriority
         /\ \A w \in Threads : worker[w] \in Worker
<1>1. \A p \in TaskPriority : task_queues[p] \in Seq(Objects) /\ Rng(task_queues[p]) \in SUBSET Objects
  <2> SUFFICES ASSUME NEW p \in TaskPriority
               PROVE  task_queues[p] \in Seq(Objects) /\ Rng(task_queues[p]) \in SUBSET Objects
    OBVIOUS
  <2>1. task_queues[p] \in Seq(Objects)
    BY DEF TypeOK
  <2>2. \A i \in 1..Len(task_queues[p]) : task_queues[p][i] \in Objects
    BY <2>1, ElementOfSeq
  <2> QED
    BY <2>1, <2>2 DEF Rng
<1>2. \A o \in Live : o \in Objects /\ task[o] \in Task /\ task[o].id \in Ids /\ priority[task[o].id] \in TaskPriority
  BY TasksConstants DEF TypeOK, Live, Task
<1>3. \A w \in Threads : worker[w] \in Worker
  BY DEF TypeOK
<1> QED
  BY <1>1, <1>2, <1>3

\* A step that leaves the deques alone, in which the objects of G leave a
\* thread's hands and die.
LEMMA PlacedFrame ==
  ASSUME TypeOK, Placed, NEW G \in SUBSET Objects,
         UNCHANGED task_queues,
         \A p \in TaskPriority : \A o \in Rng(task_queues[p]) : o \notin G,
         \A o \in Objects \ G : SameTask(o),
         \A o \in G : task'[o] = None,
         \A w \in Threads, o \in Objects : InHand(w, o)' <=> InHand(w, o) /\ o \notin G,
         \A w \in Threads : worker'[w].step \in Holding => worker'[w].obj \in Objects,
         SameJudge
  PROVE  Placed'
<1> USE DEF Placed, SameTask
<1>1. (\A p \in TaskPriority : Distinct(task_queues[p]))'
  OBVIOUS
<1>2. (\A p \in TaskPriority : \A o \in Rng(task_queues[p]) :
         o \in Live /\ priority[task[o].id] = p /\ \A w \in Threads : ~InHand(w, o))'
  BY Types DEF Live
<1>3. (\A w \in Threads : worker[w].step \in Holding => worker[w].obj \in Live)'
  BY DEF Live, InHand
<1>4. (\A w \in Threads : worker[w].step = "judge" =>
         priority[task[worker[w].obj].id] = Visited(worker[w].at))'
  <2> SUFFICES ASSUME NEW w \in Threads, worker'[w].step = "judge"
               PROVE  priority[task'[worker'[w].obj].id] = Visited(worker'[w].at)
    BY DEF Visited
  <2>1. worker'[w] = worker[w] /\ worker[w].obj \in Objects /\ InHand(w, worker[w].obj)'
    BY DEF SameJudge, Holding, InHand
  <2>2. SameTask(worker[w].obj) /\ worker[w].obj \in Live
    BY <2>1 DEF InHand
  <2> QED
    BY <2>1, <2>2 DEF Live
<1>5. (\A v, w \in Threads : \A o \in Objects : InHand(v, o) /\ InHand(w, o) => v = w)'
  OBVIOUS
<1>6. (\A o \in Live : o \in Rng(task_queues[priority[task[o].id]]) \/ \E w \in Threads : InHand(w, o))'
  BY DEF Live
<1> QED
  BY <1>1, <1>2, <1>3, <1>4, <1>5, <1>6

\* A step that puts o, a task in no deque, into the deque of id's priority as a
\* task of id; the objects of G leave a thread's hands and die.
LEMMA PlacedInsert ==
  ASSUME TypeOK, Placed, NEW o \in Objects, NEW id \in Ids, NEW G \in SUBSET Objects, o \notin G,
         NEW t,
         task_queues' = [task_queues EXCEPT ![priority[id]] = t],
         Rng(t) = Rng(task_queues[priority[id]]) \cup {o}, Distinct(t),
         \A p \in TaskPriority : \A x \in Rng(task_queues[p]) : x \notin G /\ x # o,
         task'[o] # None, task'[o].id = id,
         \A x \in Objects \ (G \cup {o}) : SameTask(x),
         \A x \in G : task'[x] = None,
         \A w \in Threads, x \in Objects : InHand(w, x)' <=> InHand(w, x) /\ x \notin G \cup {o},
         \A w \in Threads : worker'[w].step \in Holding => worker'[w].obj \in Objects,
         SameJudge
  PROVE  Placed'
<1>0. priority[id] \in TaskPriority /\ task_queues \in [TaskPriority -> Seq(Objects)]
  BY TasksConstants DEF TypeOK
<1>2. /\ task_queues'[priority[id]] = t
      /\ \A p \in TaskPriority : p # priority[id] => task_queues'[p] = task_queues[p]
  BY <1>0
<1>4. /\ Rng(task_queues'[priority[id]]) = Rng(task_queues[priority[id]]) \cup {o}
      /\ \A p \in TaskPriority : Distinct(task_queues'[p])
      /\ \A p \in TaskPriority : p # priority[id] => Rng(task_queues'[p]) = Rng(task_queues[p])
  BY <1>2 DEF Placed
<1> USE DEF Placed, SameTask
<1>5. (\A p \in TaskPriority : \A x \in Rng(task_queues[p]) :
         x \in Live /\ priority[task[x].id] = p /\ \A w \in Threads : ~InHand(w, x))'
  <2> SUFFICES ASSUME NEW p \in TaskPriority, NEW x \in Rng(task_queues'[p])
               PROVE  x \in Live' /\ priority[task'[x].id] = p /\ \A w \in Threads : ~InHand(w, x)'
    BY DEF Rng
  <2>1. CASE x = o
    BY <2>1, <1>0, <1>4 DEF Live
  <2>2. CASE x # o
    <3>1. x \in Rng(task_queues[p])
      BY <2>2, <1>4
    <3>2. x \in Live /\ x \in Objects /\ x \notin G /\ SameTask(x)
      BY <3>1, <2>2, Types
    <3> QED
      BY <3>1, <3>2 DEF Live
  <2> QED
    BY <2>1, <2>2
<1>6. (\A w \in Threads : worker[w].step \in Holding => worker[w].obj \in Live)'
  BY DEF Live, InHand
<1>7. (\A w \in Threads : worker[w].step = "judge" =>
         priority[task[worker[w].obj].id] = Visited(worker[w].at))'
  <2> SUFFICES ASSUME NEW w \in Threads, worker'[w].step = "judge"
               PROVE  priority[task'[worker'[w].obj].id] = Visited(worker'[w].at)
    BY DEF Visited
  <2>1. worker'[w] = worker[w] /\ worker[w].obj \in Objects /\ InHand(w, worker[w].obj)'
    BY DEF SameJudge, Holding, InHand
  <2>2. SameTask(worker[w].obj) /\ worker[w].obj \in Live
    BY <2>1 DEF InHand
  <2> QED
    BY <2>1, <2>2 DEF Live
<1>8. (\A v, w \in Threads : \A x \in Objects : InHand(v, x) /\ InHand(w, x) => v = w)'
  OBVIOUS
<1>9. (\A x \in Live : x \in Rng(task_queues[priority[task[x].id]]) \/ \E w \in Threads : InHand(w, x))'
  <2> SUFFICES ASSUME NEW x \in Live'
               PROVE  x \in Rng(task_queues'[priority[task'[x].id]]) \/ \E w \in Threads : InHand(w, x)'
    BY DEF Rng
  <2>1. CASE x = o
    BY <2>1, <1>4
  <2>2. CASE x # o
    <3>1. x \in Live /\ SameTask(x) /\ x \notin G
      BY <2>2 DEF Live
    <3>2. Rng(task_queues[priority[task[x].id]]) \subseteq Rng(task_queues'[priority[task'[x].id]])
      BY <3>1, <1>4, Types DEF Live
    <3> QED
      BY <3>1, <3>2, <2>2 DEF Live
  <2> QED
    BY <2>1, <2>2
<1> QED
  BY <1>4, <1>5, <1>6, <1>7, <1>8, <1>9

\* add_task.
LEMMA PlacedAppend ==
  ASSUME TypeOK, Placed, NEW o \in Objects, NEW id \in Ids, NEW G \in SUBSET Objects, o \notin G,
         add_task(o, id),
         \A p \in TaskPriority : \A x \in Rng(task_queues[p]) : x \notin G /\ x # o,
         task'[o] # None, task'[o].id = id,
         \A x \in Objects \ (G \cup {o}) : SameTask(x),
         \A x \in G : task'[x] = None,
         \A w \in Threads, x \in Objects : InHand(w, x)' <=> InHand(w, x) /\ x \notin G \cup {o},
         \A w \in Threads : worker'[w].step \in Holding => worker'[w].obj \in Objects,
         SameJudge
  PROVE  Placed'
<1>0. priority[id] \in TaskPriority /\ task_queues \in [TaskPriority -> Seq(Objects)]
  BY TasksConstants DEF TypeOK
<1>1. task_queues' = [task_queues EXCEPT ![priority[id]] = Append(task_queues[priority[id]], o)]
  BY <1>0 DEF add_task
<1>2. Distinct(task_queues[priority[id]]) /\ o \notin Rng(task_queues[priority[id]])
  BY <1>0 DEF Placed
<1>3. /\ Rng(Append(task_queues[priority[id]], o)) = Rng(task_queues[priority[id]]) \cup {o}
      /\ Distinct(Append(task_queues[priority[id]], o))
  BY <1>0, <1>2, DequeAppend
<1> QED
  BY <1>1, <1>3, PlacedInsert

\* What a thread's step does to the hands.
LEMMA Hands ==
  ASSUME TypeOK, NEW w \in Threads, NEW r \in Worker, worker' = [worker EXCEPT ![w] = r]
  PROVE  /\ worker'[w] = r /\ \A v \in Threads : v # w => worker'[v] = worker[v]
         /\ \A v \in Threads, x \in Objects : v # w => (InHand(v, x)' <=> InHand(v, x))
         /\ \A x \in Objects : InHand(w, x)' <=> r.step \in Holding /\ r.obj = x
<1>1. worker'[w] = r /\ \A v \in Threads : v # w => worker'[v] = worker[v]
  BY DEF TypeOK
<1> QED
  BY <1>1 DEF InHand

\* The records of a thread.
LEMMA Records ==
  /\ Idle \in Worker /\ Idle.step = "loop" /\ Idle.obj = None
  /\ \A s \in Steps, k \in 1..Levels, o \in Objects \cup {None} :
       At(s, k, o) \in Worker /\ At(s, k, o).step = s /\ At(s, k, o).at = k /\ At(s, k, o).obj = o
  /\ \A k \in 1..Levels : Beyond(k) \in Worker /\ Beyond(k).step \in {"loop", "scan"}
<1>1. 1 \in 1..Levels
  BY TasksConstants
<1>2. Idle \in Worker /\ Idle.step = "loop" /\ Idle.obj = None
  BY <1>1 DEF Idle, Worker, Steps
<1>3. \A s \in Steps, k \in 1..Levels, o \in Objects \cup {None} :
       At(s, k, o) \in Worker /\ At(s, k, o).step = s /\ At(s, k, o).at = k /\ At(s, k, o).obj = o
  BY DEF At, Worker
<1>4. ASSUME NEW k \in 1..Levels PROVE Beyond(k) \in Worker /\ Beyond(k).step \in {"loop", "scan"}
  <2>1. CASE k = Levels
    BY <2>1, <1>2 DEF Beyond
  <2>2. CASE k # Levels
    <3>1. k + 1 \in 1..Levels /\ "scan" \in Steps /\ None \in Objects \cup {None}
      BY <2>2, TasksConstants DEF Steps
    <3> QED
      BY <3>1, <2>2, <1>3 DEF Beyond
  <2> QED
    BY <2>1, <2>2
<1> QED
  BY <1>2, <1>3, <1>4

\* The records the actions write.
LEMMA Written ==
  /\ 1 \in 1..Levels
  /\ \A k \in 1..Levels :
       At("scan", k, None) \in Worker /\ At("pop", k, None) \in Worker /\ At("gone", k, None) \in Worker
  /\ \A k \in 1..Levels, o \in Objects :
       At("judge", k, o) \in Worker /\ At("run", k, o) \in Worker /\ At("retry", k, o) \in Worker
<1>1. 1 \in 1..Levels /\ {"scan", "pop", "gone", "judge", "run", "retry"} \subseteq Steps
  BY TasksConstants DEF Steps
<1> QED
  BY <1>1, Records

\* A thread moves on with nothing in its hands, or goes on with the task it has.
LEMMA PlacedMove ==
  ASSUME TypeOK, Placed, NEW w \in Threads, NEW r \in Worker, worker' = [worker EXCEPT ![w] = r],
         UNCHANGED <<task_queues, task>>, r.step # "judge",
         \/ worker[w].step \notin Holding /\ r.step \notin Holding
         \/ worker[w].step \in Holding /\ r.step \in Holding /\ r.obj = worker[w].obj
  PROVE  Placed'
<1>0. /\ worker'[w] = r /\ \A v \in Threads : v # w => worker'[v] = worker[v]
      /\ \A v \in Threads, x \in Objects : v # w => (InHand(v, x)' <=> InHand(v, x))
      /\ \A x \in Objects : InHand(w, x)' <=> r.step \in Holding /\ r.obj = x
  BY Hands
<1>1. \A v \in Threads, x \in Objects : InHand(v, x)' <=> InHand(v, x) /\ x \notin {}
  BY <1>0 DEF InHand
<1>2. \A v \in Threads : worker'[v].step \in Holding => worker'[v].obj \in Objects
  BY <1>0 DEF Placed, Live
<1>3. SameJudge
  BY <1>0 DEF SameJudge
<1>4. \A o \in Objects \ {} : SameTask(o)
  BY DEF SameTask
<1>5. /\ UNCHANGED task_queues /\ {} \in SUBSET Objects
      /\ \A p \in TaskPriority : \A o \in Rng(task_queues[p]) : o \notin {}
      /\ \A o \in {} : task'[o] = None
  OBVIOUS
<1> QED
  BY <1>1, <1>2, <1>3, <1>4, <1>5, PlacedFrame

\* A thread pops a task.
LEMMA PlacedPop ==
  ASSUME TypeOK, Placed, NEW w \in Threads, Pop(w)
  PROVE  Placed'
<1> DEFINE k == worker[w].at
           p0 == Visited(k)
           q == task_queues[p0]
<1>0. p0 \in TaskPriority /\ k \in 1..Levels /\ q \in Seq(Objects) /\ task_queues \in [TaskPriority -> Seq(Objects)]
  <2>1. k \in 1..Levels
    BY DEF TypeOK, Worker
  <2>2. p0 \in TaskPriority
    BY <2>1, TasksConstants DEF Visited, TaskPriority
  <2> QED
    BY <2>1, <2>2 DEF TypeOK
<1>1. CASE q = <<>>
  <2>1. worker' = [worker EXCEPT ![w] = Idle] /\ UNCHANGED <<task_queues, task>> /\ worker[w].step = "pop"
    BY <1>1 DEF Pop
  <2> QED
    BY <2>1, Records, PlacedMove DEF Holding
<1>2. CASE q # <<>>
  <2> DEFINE o == Head(q)
             r == At("judge", k, o)
  <2>1. /\ worker[w].step = "pop" /\ worker' = [worker EXCEPT ![w] = r] /\ task' = task
        /\ task_queues' = [task_queues EXCEPT ![p0] = Tail(q)]
    BY <1>2, <1>0 DEF Pop
  <2>2. o \in Objects /\ o \in Rng(q) /\ Distinct(q) /\ Rng(Tail(q)) = Rng(q) \ {o} /\ Distinct(Tail(q))
    BY <1>0, <1>2, DequePop DEF Placed
  <2>3. r \in Worker /\ r.step = "judge" /\ r.at = k /\ r.obj = o
    BY <2>2, <1>0, Records DEF Steps
  <2>4. o \in Live /\ priority[task[o].id] = p0 /\ \A v \in Threads : ~InHand(v, o)
    BY <2>2, <1>0 DEF Placed
  <2>5. /\ \A p \in TaskPriority : Rng(task_queues'[p]) = IF p = p0 THEN Rng(q) \ {o} ELSE Rng(task_queues[p])
        /\ \A p \in TaskPriority : Distinct(task_queues'[p])
    BY <2>1, <2>2, <1>0 DEF Placed
  <2> HIDE DEF o, r, q, p0, k
  <2>0. /\ worker'[w] = r /\ \A v \in Threads : v # w => worker'[v] = worker[v]
        /\ \A v \in Threads, x \in Objects : v # w => (InHand(v, x)' <=> InHand(v, x))
        /\ \A x \in Objects : InHand(w, x)' <=> r.step \in Holding /\ r.obj = x
    BY <2>1, <2>3, Hands
  <2>6. /\ worker'[w] = r /\ \A v \in Threads : v # w => worker'[v] = worker[v]
        /\ \A v \in Threads, x \in Objects : v # w => (InHand(v, x)' <=> InHand(v, x))
        /\ \A x \in Objects : InHand(w, x)' <=> x = o
        /\ \A x \in Objects : ~InHand(w, x)
    BY <2>0, <2>1, <2>3 DEF Holding, InHand
  <2> USE DEF Placed
  <2>7. (\A p \in TaskPriority : \A x \in Rng(task_queues[p]) :
           x \in Live /\ priority[task[x].id] = p /\ \A v \in Threads : ~InHand(v, x))'
    <3> SUFFICES ASSUME NEW p \in TaskPriority, NEW x \in Rng(task_queues'[p])
                 PROVE  x \in Live' /\ priority[task'[x].id] = p /\ \A v \in Threads : ~InHand(v, x)'
      BY DEF Rng
    <3>1. x \in Rng(task_queues[p])
      BY <2>5 DEF q
    <3>2. x \in Live /\ priority[task[x].id] = p /\ x \in Objects /\ \A v \in Threads : ~InHand(v, x)
      BY <3>1, Types
    <3>3. x # o
      BY <2>4, <2>5, <3>2
    <3> QED
      BY <3>2, <3>3, <2>1, <2>6 DEF Live
  <2>8. (\A v \in Threads : worker[v].step \in Holding => worker[v].obj \in Live)'
    BY <2>1, <2>3, <2>4, <2>6 DEF Live
  <2>9. (\A v \in Threads : worker[v].step = "judge" =>
           priority[task[worker[v].obj].id] = Visited(worker[v].at))'
    BY <2>1, <2>3, <2>4, <2>6 DEF p0, Visited
  <2>10. (\A u, v \in Threads : \A x \in Objects : InHand(u, x) /\ InHand(v, x) => u = v)'
    BY <2>4, <2>6
  <2>11. (\A x \in Live : x \in Rng(task_queues[priority[task[x].id]]) \/ \E v \in Threads : InHand(v, x))'
    <3> SUFFICES ASSUME NEW x \in Live
                 PROVE  x \in Rng(task_queues'[priority[task[x].id]]) \/ \E v \in Threads : InHand(v, x)'
      BY <2>1 DEF Live, Rng
    <3>1. CASE x = o
      BY <3>1, <2>2, <2>6
    <3>2. CASE x # o
      <4>1. x \in Objects /\ priority[task[x].id] \in TaskPriority
        BY Types
      <4>2. CASE \E v \in Threads : InHand(v, x)
        BY <4>1, <4>2, <2>6
      <4>3. CASE x \in Rng(task_queues[priority[task[x].id]])
        BY <4>1, <4>3, <3>2, <2>5 DEF q
      <4> QED
        BY <4>2, <4>3
    <3> QED
      BY <3>1, <3>2
  <2> QED
    BY <2>5, <2>7, <2>8, <2>9, <2>10, <2>11
<1> QED
  BY <1>1, <1>2

\* A thread judges the task in its hands: it executes it or puts it back.
LEMMA PlacedJudge ==
  ASSUME TypeOK, Placed, NEW w \in Threads, Judge(w)
  PROVE  Placed'
<1> DEFINE k == worker[w].at
           o == worker[w].obj
           p0 == Visited(k)
           q == task_queues[p0]
<1>0. p0 \in TaskPriority /\ k \in 1..Levels /\ q \in Seq(Objects) /\ task_queues \in [TaskPriority -> Seq(Objects)]
  <2>1. k \in 1..Levels
    BY DEF TypeOK, Worker
  <2>2. p0 \in TaskPriority
    BY <2>1, TasksConstants DEF Visited, TaskPriority
  <2> QED
    BY <2>1, <2>2 DEF TypeOK
<1>1. worker[w].step = "judge" /\ task' = task
  BY DEF Judge
<1>2. o \in Live /\ o \in Objects /\ task[o].id \in Ids /\ priority[task[o].id] = p0 /\ InHand(w, o)
  BY <1>1, Types DEF Placed, Holding, InHand
<1>3. CASE task[o].wait = 0
  <2>1. worker' = [worker EXCEPT ![w] = At("run", k, o)] /\ UNCHANGED <<task_queues, task>>
    BY <1>3 DEF Judge
  <2> DEFINE r == At("run", k, o)
  <2>2. r \in Worker /\ r.step = "run" /\ r.obj = o
    BY <1>0, <1>2, Records DEF Steps
  <2> QED
    BY <2>1, <2>2, <1>1, PlacedMove DEF Holding
<1>4. CASE task[o].wait # 0
  <2> DEFINE r == Beyond(k)
             t == <<o>> \o q
  <2>1. worker' = [worker EXCEPT ![w] = r] /\ task_queues' = [task_queues EXCEPT ![p0] = t]
    BY <1>4, <1>0 DEF Judge
  <2>2. r \in Worker /\ r.step \in {"loop", "scan"}
    BY <1>0, Records
  <2>3. Distinct(q) /\ o \notin Rng(q)
    BY <1>0, <1>2 DEF Placed
  <2>t. t = Front(o, q)
    BY DEF Front
  <2> HIDE DEF t, r, q, o, k, p0
  <2>4. Rng(t) = Rng(q) \cup {o} /\ Distinct(t)
    <3>1. q \in Seq(Objects) /\ o \in Objects
      BY <1>0, <1>2
    <3> QED
      BY <3>1, <2>t, <2>3, DequePutBack
  <2>0. /\ worker'[w] = r /\ \A v \in Threads : v # w => worker'[v] = worker[v]
        /\ \A v \in Threads, x \in Objects : v # w => (InHand(v, x)' <=> InHand(v, x))
        /\ \A x \in Objects : InHand(w, x)' <=> r.step \in Holding /\ r.obj = x
    BY <2>1, <2>2, Hands
  <2>5. /\ worker'[w] = r /\ \A v \in Threads : v # w => worker'[v] = worker[v]
        /\ \A v \in Threads, x \in Objects : v # w => (InHand(v, x)' <=> InHand(v, x))
        /\ \A x \in Objects : ~InHand(w, x)'
    BY <2>0, <2>2 DEF Holding
  <2>6. \A v \in Threads, x \in Objects : InHand(v, x)' <=> InHand(v, x) /\ x \notin {} \cup {o}
    <3> TAKE v \in Threads, x \in Objects
    <3>1. CASE v = w
      BY <3>1, <2>5 DEF InHand, o
    <3>2. CASE v # w
      BY <3>2, <2>5, <1>2 DEF Placed
    <3> QED
      BY <3>1, <3>2
  <2>7. \A v \in Threads : worker'[v].step \in Holding => worker'[v].obj \in Objects
    BY <2>2, <2>5 DEF Placed, Live, Holding
  <2>8. SameJudge
    BY <2>2, <2>5 DEF SameJudge
  <2>9. /\ \A x \in Objects : SameTask(x)
        /\ task'[o] # None /\ task'[o].id = task[o].id
    BY <1>1, <1>2 DEF SameTask, Live
  <2>10. \A p \in TaskPriority : \A x \in Rng(task_queues[p]) : x # o
    BY <1>2 DEF Placed
  <2> DEFINE i == task[o].id
  <2>11. i \in Ids /\ p0 = priority[i] /\ task'[o].id = i
    BY <1>2, <2>9
  <2> HIDE DEF k, o, p0, q, r, t, i
  <2>12. task_queues' = [task_queues EXCEPT ![priority[i]] = t] /\ Rng(t) = Rng(task_queues[priority[i]]) \cup {o}
    BY <2>1, <2>4, <2>11 DEF q
  <2> QED
    BY <2>12, <2>4, <2>6, <2>7, <2>8, <2>9, <2>10, <2>11, <1>2, PlacedInsert
<1> QED
  BY <1>3, <1>4

-----------------------------------------------------------------------------
(* Types *)

\* A new task gets an object that was not alive.
LEMMA FreshObject ==
  ASSUME CanCreate
  PROVE  Fresh \in Objects /\ task[Fresh] = None
BY DEF CanCreate, Fresh

\* What a thread has in its hands when it executes.
LEMMA InTheHand ==
  ASSUME TypeOK, Placed, NEW w \in Threads, worker[w].step \in {"run", "retry"}
  PROVE  /\ worker[w].obj \in Objects /\ worker[w].obj \in Live
         /\ task[worker[w].obj] # None /\ task[worker[w].obj] \in Task
         /\ task[worker[w].obj].id \in Ids
         /\ InHand(w, worker[w].obj)
         /\ \A p \in TaskPriority : \A x \in Rng(task_queues[p]) : x # worker[w].obj
         /\ \A v \in Threads : InHand(v, worker[w].obj) => v = w
<1>1. worker[w].obj \in Live /\ InHand(w, worker[w].obj)
  BY DEF Placed, Holding, InHand
<1> QED
  BY <1>1, Types DEF Placed, Live

\* The deque a new task goes to keeps its type.
LEMMA AddTyped ==
  ASSUME TypeOK, NEW o \in Objects, NEW id \in Ids, add_task(o, id)
  PROVE  task_queues' \in [TaskPriority -> Seq(Objects)]
BY TasksConstants, AppendProperties DEF TypeOK, add_task

\* A new Task is a Task, whatever its delay.
LEMMA NewTyped ==
  ASSUME NEW id \in Ids, NEW d \in Nat
  PROVE  NewTask(id, d) \in Task /\ NewTask(id, d).retry_count = 0 /\ NewTask(id, d).id = id
BY DEF NewTask, Task

\* TypeOK is inductive, given that hands hold live tasks.
LEMMA TypeStep == TypeOK /\ Placed /\ [Next]_vars => TypeOK'
<1> SUFFICES ASSUME TypeOK, Placed, [Next]_vars PROVE TypeOK'
  OBVIOUS
<1> USE DEF TypeOK
<1>1. CASE start
  <2>1. starts' \in Nat /\ schedule' \in SUBSET Periodic /\ is_running' \in BOOLEAN
    BY <1>1 DEF start
  <2>2. worker' \in [Threads -> Worker]
    BY <1>1, Records DEF start
  <2> QED
    BY <1>1, <2>1, <2>2 DEF start, Live
<1>2. CASE stop \/ UNCHANGED vars
  BY <1>2 DEF stop, vars, Live
<1>3. CASE Tick
  <2>1. ASSUME NEW o \in Objects
        PROVE  /\ task'[o] \in Task \cup {None}
               /\ task'[o] # None => task[o] # None /\ task'[o].retry_count = task[o].retry_count
    <3>1. CASE o \in Live /\ task[o].wait > 0
      <4>1. task'[o] = [task[o] EXCEPT !.wait = @ - 1] /\ task[o] \in Task /\ task[o].wait \in Nat
        BY <1>3, <3>1, Types DEF Tick, Task
      <4>2. task[o].wait - 1 \in Nat
        BY <4>1, <3>1
      <4> QED
        BY <4>1, <4>2, <3>1 DEF Task, Live
    <3>2. CASE ~(o \in Live /\ task[o].wait > 0)
      BY <1>3, <3>2 DEF Tick
    <3> QED
      BY <3>1, <3>2
  <2>2. task' \in [Objects -> Task \cup {None}]
    BY <1>3, <2>1 DEF Tick
  <2> QED
    BY <1>3, <2>1, <2>2 DEF Tick, Live
<1>4. ASSUME NEW id \in Periodic, schedule_periodic(id) PROVE TypeOK'
  <2>1. id \in Ids /\ initialDelay[id] \in Nat
    BY TasksConstants DEF Ids
  <2> DEFINE n == NewTask(id, initialDelay[id])
  <2>2. n \in Task /\ n.retry_count = 0
    BY <2>1, NewTyped
  <2>3. Fresh \in Objects /\ task' = [task EXCEPT ![Fresh] = n]
    BY <1>4, FreshObject DEF schedule_periodic
  <2>4. task_queues' \in [TaskPriority -> Seq(Objects)]
    BY <1>4, <2>1, <2>3, AddTyped DEF schedule_periodic
  <2> QED
    BY <1>4, <2>2, <2>3, <2>4, TasksConstants DEF schedule_periodic, Live
<1>5. ASSUME NEW id \in OneShot, submit(id) PROVE TypeOK'
  <2>1. id \in Ids
    BY DEF Ids
  <2> DEFINE n == NewTask(id, 0)
  <2>2. n \in Task /\ n.retry_count = 0
    BY <2>1, NewTyped
  <2>3. Fresh \in Objects /\ task' = [task EXCEPT ![Fresh] = n]
    BY <1>5, FreshObject DEF submit
  <2>4. task_queues' \in [TaskPriority -> Seq(Objects)]
    BY <1>5, <2>1, <2>3, AddTyped DEF submit
  <2> QED
    BY <1>5, <2>2, <2>3, <2>4, TasksConstants DEF submit, Live
<1>6. ASSUME NEW w \in Threads, Loop(w) \/ Scan(w) PROVE TypeOK'
  <2>1. worker[w].at \in 1..Levels /\ 1 \in 1..Levels
    BY TasksConstants DEF Worker
  <2>2. worker' \in [Threads -> Worker]
    <3>1. \E r \in Worker : worker' = [worker EXCEPT ![w] = r]
      BY <1>6, <2>1, Records, Written DEF Loop, Scan
    <3> QED
      BY <3>1
  <2> QED
    BY <1>6, <2>2 DEF Loop, Scan, Live
<1>7. ASSUME NEW w \in Threads, Pop(w) PROVE TypeOK'
  <2> DEFINE q == task_queues[Visited(worker[w].at)]
  <2>1. worker[w].at \in 1..Levels /\ Visited(worker[w].at) \in TaskPriority
    BY TasksConstants DEF Worker, Visited, TaskPriority
  <2>2. CASE q = <<>>
    <3>1. worker' = [worker EXCEPT ![w] = Idle]
      BY <1>7, <2>2 DEF Pop
    <3>2. worker' \in [Threads -> Worker]
      BY <3>1, Records
    <3> QED
      BY <1>7, <2>2, <3>2 DEF Pop, Live
  <2>3. CASE q # <<>>
    <3>1. q \in Seq(Objects) /\ Head(q) \in Objects /\ Tail(q) \in Seq(Objects)
      BY <2>1, <2>3, HeadTailProperties
    <3>2. /\ worker' = [worker EXCEPT ![w] = At("judge", worker[w].at, Head(q))]
          /\ task_queues' = [task_queues EXCEPT ![Visited(worker[w].at)] = Tail(q)]
      BY <1>7, <2>3, <2>1 DEF Pop
    <3>3. worker' \in [Threads -> Worker] /\ task_queues' \in [TaskPriority -> Seq(Objects)]
      BY <2>1, <3>1, <3>2, Records DEF Steps
    <3> QED
      BY <1>7, <3>3 DEF Pop, Live
  <2> QED
    BY <2>2, <2>3
<1>8. ASSUME NEW w \in Threads, Judge(w) PROVE TypeOK'
  <2> DEFINE q == task_queues[Visited(worker[w].at)]
             o == worker[w].obj
  <2>1. /\ worker[w].at \in 1..Levels /\ Visited(worker[w].at) \in TaskPriority /\ q \in Seq(Objects)
        /\ o \in Objects
    BY <1>8, TasksConstants DEF Worker, Visited, TaskPriority, Judge, Placed, Holding, Live
  <2>2. worker' \in [Threads -> Worker]
    <3>1. \E r \in Worker : worker' = [worker EXCEPT ![w] = r]
      BY <1>8, <2>1, Records, Written DEF Judge
    <3> QED
      BY <3>1
  <2>3. task_queues' \in [TaskPriority -> Seq(Objects)]
    <3>1. <<o>> \o q \in Seq(Objects)
      BY <2>1, DequePutBack DEF Front
    <3>2. task_queues' = task_queues \/ task_queues' = [task_queues EXCEPT ![Visited(worker[w].at)] = <<o>> \o q]
      BY <1>8, <2>1 DEF Judge
    <3> QED
      BY <3>1, <3>2, <2>1
  <2> QED
    BY <1>8, <2>2, <2>3 DEF Judge, Live
<1>9. ASSUME NEW w \in Threads, Return(w) \/ Raise(w) PROVE TypeOK'
  <2> DEFINE o == worker[w].obj
  <2>1. o \in Objects /\ task[o].id \in OneShot /\ task[o].id \in Ids
    BY <1>9, InTheHand DEF Return, Raise
  <2>2. success[task[o].id] + 1 \in Nat /\ failed[task[o].id] + 1 \in Nat
    BY <2>1
  <2>3. At("retry", 1, o) \in Worker /\ Idle \in Worker
    BY <2>1, Records, Written
  <2>4. worker' \in [Threads -> Worker]
    BY <1>9, <2>3 DEF Return, Raise
  <2>5. success' \in [OneShot -> Nat] /\ failed' \in [Ids -> Nat]
    BY <1>9, <2>1, <2>2 DEF Return, Raise
  <2>6. task' \in [Objects -> Task \cup {None}] /\ \A x \in Objects : task'[x] = task[x] \/ task'[x] = None
    BY <1>9, <2>1 DEF Return, Raise
  <2> QED
    BY <1>9, <2>4, <2>5, <2>6 DEF Return, Raise, Live
<1>10. ASSUME NEW w \in Threads, Return_Periodic(w) \/ Raise_Periodic(w) PROVE TypeOK'
  <2> DEFINE o == worker[w].obj
             i == task[o].id
             n == NewTask(i, period[i])
  <2>1. o \in Objects /\ i \in Periodic /\ i \in Ids /\ period[i] \in Nat
    BY <1>10, InTheHand, TasksConstants DEF Return_Periodic, Raise_Periodic
  <2>2. failed[i] + 1 \in Nat
    BY <2>1
  <2>3. At("retry", 1, o) \in Worker /\ Idle \in Worker
    BY <2>1, Records, Written
  <2>4. worker' \in [Threads -> Worker]
    BY <1>10, <2>3 DEF Return_Periodic, Raise_Periodic
  <2>5. failed' \in [Ids -> Nat]
    BY <1>10, <2>1, <2>2 DEF Return_Periodic, Raise_Periodic
  <2>6. n \in Task /\ n.retry_count = 0 /\ Fresh \in Objects
    BY <1>10, <2>1, NewTyped, FreshObject DEF Return_Periodic, Raise_Periodic
  <2>7. /\ task' \in [Objects -> Task \cup {None}]
        /\ \A x \in Objects : task'[x] = task[x] \/ task'[x] = None \/ task'[x] = n
    BY <1>10, <2>1, <2>6 DEF Return_Periodic, Raise_Periodic
  <2>8. task_queues' \in [TaskPriority -> Seq(Objects)]
    BY <1>10, <2>1, <2>6, AddTyped DEF Return_Periodic, Raise_Periodic
  <2> HIDE DEF n
  <2>9. (\A x \in Live : task[x].retry_count <= max_retries)'
    <3>1. n.retry_count <= max_retries
      BY <2>6, TasksConstants
    <3>2. \A x \in Objects : task[x] # None => task[x].retry_count <= max_retries
      BY DEF Live
    <3> QED
      BY <3>1, <3>2, <2>7 DEF Live
  <2>10. UNCHANGED <<is_running, starts, schedule, submitted, success>>
    BY <1>10 DEF Return_Periodic, Raise_Periodic
  <2> QED
    BY <2>9, <2>10, <2>4, <2>5, <2>7, <2>8
<1>11. ASSUME NEW w \in Threads, Retry(w) PROVE TypeOK'
  <2> DEFINE o == worker[w].obj
             m == [task[o] EXCEPT !.retry_count = task[o].retry_count + 1, !.wait = backoff(task[o].retry_count + 1)]
  <2>1. o \in Objects /\ o \in Live /\ task[o] \in Task /\ task[o].id \in Ids
    BY <1>11, InTheHand DEF Retry
  <2>2. worker' \in [Threads -> Worker]
    BY <1>11, Records DEF Retry
  <2>3. task[o].retry_count \in Nat
    BY <2>1 DEF Task
  <2>4. CASE task[o].retry_count < max_retries
    <3>1. m \in Task /\ m.retry_count <= max_retries
      <4>1. task[o].retry_count + 1 \in Nat /\ task[o].retry_count + 1 <= max_retries
        BY <2>3, <2>4, TasksConstants
      <4> QED
        BY <4>1, <2>1 DEF Task, backoff
    <3>2. task' = [task EXCEPT ![o] = m] /\ add_task(o, task[o].id)
      BY <1>11, <2>4, <2>1 DEF Retry
    <3>3. task_queues' \in [TaskPriority -> Seq(Objects)]
      BY <3>2, <2>1, AddTyped
    <3> HIDE DEF m
    <3> QED
      BY <1>11, <2>1, <2>2, <3>1, <3>2, <3>3 DEF Retry, Live
  <2>5. CASE ~(task[o].retry_count < max_retries)
    BY <1>11, <2>1, <2>2, <2>5 DEF Retry, Live
  <2> QED
    BY <2>4, <2>5
<1> QED
  BY <1>1, <1>2, <1>3, <1>4, <1>5, <1>6, <1>7, <1>8, <1>9, <1>10, <1>11 DEF Next, Step, Execute

-----------------------------------------------------------------------------
(* Every step keeps the tasks in their places *)

\* What an object that is not alive is not.
LEMMA DeadIsNowhere ==
  ASSUME TypeOK, Placed, NEW o \in Objects, task[o] = None
  PROVE  /\ \A p \in TaskPriority : \A x \in Rng(task_queues[p]) : x # o
         /\ \A w \in Threads : ~InHand(w, o)
BY DEF Placed, Live, InHand

\* A new task is queued while no thread moves.
LEMMA PlacedNew ==
  ASSUME TypeOK, Placed, CanCreate, NEW id \in Ids, NEW d \in Nat,
         task' = [task EXCEPT ![Fresh] = NewTask(id, d)], add_task(Fresh, id), UNCHANGED worker
  PROVE  Placed'
<1> DEFINE n == NewTask(id, d)
           o == Fresh
<1>1. o \in Objects /\ task[o] = None /\ n \in Task /\ n.id = id /\ n # None
  <2>1. n # None
    BY NewTyped, TasksConstants
  <2> QED
    BY <2>1, FreshObject, NewTyped
<1>2. /\ task'[o] # None /\ task'[o].id = id
      /\ \A x \in Objects \ ({} \cup {o}) : SameTask(x)
  BY <1>1 DEF TypeOK, SameTask
<1>3. \A w \in Threads, x \in Objects : InHand(w, x)' <=> InHand(w, x) /\ x \notin {} \cup {o}
  BY <1>1, DeadIsNowhere DEF InHand
<1>4. (\A w \in Threads : worker'[w].step \in Holding => worker'[w].obj \in Objects) /\ SameJudge
  BY DEF Placed, Live, SameJudge
<1>5. /\ {} \in SUBSET Objects /\ o \notin {} /\ \A x \in {} : task'[x] = None
      /\ \A p \in TaskPriority : \A x \in Rng(task_queues[p]) : x \notin {} /\ x # o
  BY <1>1, DeadIsNowhere
<1> HIDE DEF o, n
<1> QED
  BY <1>1, <1>2, <1>3, <1>4, <1>5, PlacedAppend DEF o

\* A task leaves the hands of a thread and the heap.
LEMMA PlacedDone ==
  ASSUME TypeOK, Placed, NEW w \in Threads, worker[w].step \in {"run", "retry"},
         worker' = [worker EXCEPT ![w] = Idle], task' = [task EXCEPT ![worker[w].obj] = None],
         UNCHANGED task_queues
  PROVE  Placed'
<1> DEFINE o == worker[w].obj
           G == {o}
<1>1. o \in Objects /\ InHand(w, o) /\ \A v \in Threads : InHand(v, o) => v = w
  BY InTheHand
<1>2. /\ \A p \in TaskPriority : \A x \in Rng(task_queues[p]) : x \notin G
      /\ \A x \in Objects \ G : SameTask(x)
      /\ \A x \in G : task'[x] = None
      /\ G \in SUBSET Objects
  BY <1>1, InTheHand DEF TypeOK, SameTask
<1>3. /\ worker'[w] = Idle /\ \A v \in Threads : v # w => worker'[v] = worker[v]
      /\ \A v \in Threads, x \in Objects : v # w => (InHand(v, x)' <=> InHand(v, x))
      /\ \A x \in Objects : ~InHand(w, x)'
  <2>1. Idle \in Worker /\ Idle.step = "loop"
    BY Records
  <2> QED
    BY <2>1, Hands DEF Holding
<1>4. \A v \in Threads, x \in Objects : InHand(v, x)' <=> InHand(v, x) /\ x \notin G
  <2> TAKE v \in Threads, x \in Objects
  <2>1. CASE v = w
    BY <2>1, <1>3, <1>1 DEF InHand
  <2>2. CASE v # w
    BY <2>2, <1>3, <1>1
  <2> QED
    BY <2>1, <2>2
<1>5. (\A v \in Threads : worker'[v].step \in Holding => worker'[v].obj \in Objects) /\ SameJudge
  <2>1. Idle.step = "loop"
    BY Records
  <2> QED
    BY <2>1, <1>3 DEF Placed, Live, SameJudge, Holding
<1> HIDE DEF G
<1> QED
  BY <1>2, <1>4, <1>5, PlacedFrame

\* A periodic function that returns has queued the task of its next run.
LEMMA PlacedReturnPeriodic ==
  ASSUME TypeOK, Placed, NEW w \in Threads, Return_Periodic(w)
  PROVE  Placed'
<1> DEFINE o == worker[w].obj
           i == task[o].id
           d == period[i]
           n == NewTask(i, d)
           f == Fresh
           G == {o}
<1>0. /\ worker[w].step = "run" /\ CanCreate /\ i \in Periodic
      /\ worker' = [worker EXCEPT ![w] = Idle]
      /\ task' = [task EXCEPT ![o] = None, ![f] = n]
      /\ add_task(f, i)
  BY DEF Return_Periodic
<1>1. o \in Objects /\ InHand(w, o) /\ (\A v \in Threads : InHand(v, o) => v = w) /\ i \in Ids /\ o \in Live
  BY <1>0, InTheHand
<1>2. f \in Objects /\ task[f] = None /\ f # o
  BY <1>0, <1>1, FreshObject DEF Live
<1>3. d \in Nat /\ n \in Task /\ n.id = i /\ n # None
  BY <1>0, <1>1, TasksConstants, NewTyped
<1>4. /\ \A p \in TaskPriority : \A x \in Rng(task_queues[p]) : x \notin G /\ x # f
      /\ \A x \in Objects \ (G \cup {f}) : SameTask(x)
      /\ \A x \in G : task'[x] = None
      /\ task'[f] # None /\ task'[f].id = i
      /\ G \in SUBSET Objects /\ f \notin G
  <2> HIDE DEF n
  <2>1. \A p \in TaskPriority : \A x \in Rng(task_queues[p]) : x \notin G /\ x # f
    BY <1>0, <1>1, <1>2, InTheHand, DeadIsNowhere
  <2>2. task'[f] = n /\ task'[o] = None /\ \A x \in Objects : x # o /\ x # f => task'[x] = task[x]
    BY <1>0, <1>1, <1>2 DEF TypeOK
  <2> QED
    BY <2>1, <2>2, <1>1, <1>2, <1>3 DEF SameTask
<1>5. /\ worker'[w] = Idle /\ \A v \in Threads : v # w => worker'[v] = worker[v]
      /\ \A v \in Threads, x \in Objects : v # w => (InHand(v, x)' <=> InHand(v, x))
      /\ \A x \in Objects : ~InHand(w, x)'
  <2>1. Idle \in Worker /\ Idle.step = "loop"
    BY Records
  <2> QED
    BY <2>1, <1>0, Hands DEF Holding
<1>6. \A v \in Threads, x \in Objects : InHand(v, x)' <=> InHand(v, x) /\ x \notin G \cup {f}
  <2> TAKE v \in Threads, x \in Objects
  <2>1. CASE v = w
    BY <2>1, <1>5, <1>1 DEF InHand
  <2>2. CASE v # w
    BY <2>2, <1>5, <1>1, <1>2, DeadIsNowhere
  <2> QED
    BY <2>1, <2>2
<1>7. (\A v \in Threads : worker'[v].step \in Holding => worker'[v].obj \in Objects) /\ SameJudge
  <2>1. Idle.step = "loop"
    BY Records
  <2> QED
    BY <2>1, <1>5 DEF Placed, Live, SameJudge, Holding
<1> HIDE DEF o, i, d, n, f, G
<1> QED
  BY <1>0, <1>1, <1>2, <1>4, <1>6, <1>7, PlacedAppend

\* One that raises has queued it too, and keeps the task that failed.
LEMMA PlacedRaisePeriodic ==
  ASSUME TypeOK, Placed, NEW w \in Threads, Raise_Periodic(w)
  PROVE  Placed'
<1> DEFINE o == worker[w].obj
           i == task[o].id
           d == period[i]
           n == NewTask(i, d)
           f == Fresh
           G == {}
           r == At("retry", 1, o)
<1>0. /\ worker[w].step = "run" /\ CanCreate /\ i \in Periodic
      /\ worker' = [worker EXCEPT ![w] = r]
      /\ task' = [task EXCEPT ![f] = n]
      /\ add_task(f, i)
  BY DEF Raise_Periodic
<1>1. o \in Objects /\ InHand(w, o) /\ i \in Ids /\ o \in Live
  BY <1>0, InTheHand
<1>2. f \in Objects /\ task[f] = None /\ f # o
  BY <1>0, <1>1, FreshObject DEF Live
<1>3. d \in Nat /\ n \in Task /\ n.id = i /\ n # None
  BY <1>0, <1>1, TasksConstants, NewTyped
<1>4. r \in Worker /\ r.step = "retry" /\ r.obj = o
  BY <1>1, Written, Records DEF Steps
<1>5. /\ \A p \in TaskPriority : \A x \in Rng(task_queues[p]) : x \notin G /\ x # f
      /\ \A x \in Objects \ (G \cup {f}) : SameTask(x)
      /\ \A x \in G : task'[x] = None
      /\ task'[f] # None /\ task'[f].id = i
      /\ G \in SUBSET Objects /\ f \notin G
  <2> HIDE DEF n
  <2>1. \A p \in TaskPriority : \A x \in Rng(task_queues[p]) : x \notin G /\ x # f
    BY <1>0, <1>2, DeadIsNowhere
  <2>2. task'[f] = n /\ \A x \in Objects : x # f => task'[x] = task[x]
    BY <1>0, <1>2 DEF TypeOK
  <2> QED
    BY <2>1, <2>2, <1>2, <1>3 DEF SameTask
<1> HIDE DEF r
<1>6. /\ worker'[w] = r /\ \A v \in Threads : v # w => worker'[v] = worker[v]
      /\ \A v \in Threads, x \in Objects : v # w => (InHand(v, x)' <=> InHand(v, x))
      /\ \A x \in Objects : InHand(w, x)' <=> r.step \in Holding /\ r.obj = x
  BY <1>0, <1>4, Hands
<1>7. \A v \in Threads, x \in Objects : InHand(v, x)' <=> InHand(v, x) /\ x \notin G \cup {f}
  <2> TAKE v \in Threads, x \in Objects
  <2>1. CASE v = w
    BY <2>1, <1>6, <1>4, <1>1, <1>2 DEF InHand, Holding
  <2>2. CASE v # w
    BY <2>2, <1>6, <1>2, DeadIsNowhere
  <2> QED
    BY <2>1, <2>2
<1>8. (\A v \in Threads : worker'[v].step \in Holding => worker'[v].obj \in Objects) /\ SameJudge
  BY <1>1, <1>4, <1>6 DEF Placed, Live, SameJudge, Holding
<1> HIDE DEF o, i, d, n, f, G
<1> QED
  BY <1>0, <1>1, <1>2, <1>5, <1>7, <1>8, PlacedAppend

\* A failed task is queued again, or dropped.
LEMMA PlacedRetry ==
  ASSUME TypeOK, Placed, NEW w \in Threads, Retry(w)
  PROVE  Placed'
<1> DEFINE o == worker[w].obj
           i == task[o].id
           m == [task[o] EXCEPT !.retry_count = task[o].retry_count + 1, !.wait = backoff(task[o].retry_count + 1)]
           G == {}
<1>0. worker[w].step = "retry" /\ worker' = [worker EXCEPT ![w] = Idle]
  BY DEF Retry
<1>1. /\ o \in Objects /\ InHand(w, o) /\ (\A v \in Threads : InHand(v, o) => v = w) /\ i \in Ids /\ o \in Live
      /\ task[o] \in Task
  BY <1>0, InTheHand
<1>2. CASE task[o].retry_count < max_retries
  <2>1. task' = [task EXCEPT ![o] = m] /\ add_task(o, i)
    BY <1>2, <1>1 DEF Retry
  <2>2. m.id = i /\ m \in Task /\ m # None
    <3>1. task[o].retry_count \in Nat
      BY <1>1 DEF Task
    <3>2. task[o].retry_count + 1 \in Nat /\ backoff(task[o].retry_count + 1) \in Nat
      BY <3>1 DEF backoff
    <3>3. m.id = i /\ m \in Task
      BY <3>2, <1>1 DEF Task
    <3> HIDE DEF m
    <3> QED
      BY <3>3, TasksConstants
  <2>3. /\ \A p \in TaskPriority : \A x \in Rng(task_queues[p]) : x \notin G /\ x # o
        /\ \A x \in Objects \ (G \cup {o}) : SameTask(x)
        /\ \A x \in G : task'[x] = None
        /\ task'[o] # None /\ task'[o].id = i
        /\ G \in SUBSET Objects /\ o \notin G
    <3> HIDE DEF m
    <3>1. \A p \in TaskPriority : \A x \in Rng(task_queues[p]) : x \notin G /\ x # o
      BY <1>0, InTheHand
    <3>2. task'[o] = m /\ \A x \in Objects : x # o => task'[x] = task[x]
      BY <2>1, <1>1 DEF TypeOK
    <3> QED
      BY <3>1, <3>2, <2>2 DEF SameTask
  <2>4. /\ worker'[w] = Idle /\ \A v \in Threads : v # w => worker'[v] = worker[v]
        /\ \A v \in Threads, x \in Objects : v # w => (InHand(v, x)' <=> InHand(v, x))
        /\ \A x \in Objects : ~InHand(w, x)'
    <3>1. Idle \in Worker /\ Idle.step = "loop"
      BY Records
    <3> QED
      BY <3>1, <1>0, Hands DEF Holding
  <2>5. \A v \in Threads, x \in Objects : InHand(v, x)' <=> InHand(v, x) /\ x \notin G \cup {o}
    <3> TAKE v \in Threads, x \in Objects
    <3>1. CASE v = w
      BY <3>1, <2>4, <1>1 DEF InHand
    <3>2. CASE v # w
      BY <3>2, <2>4, <1>1
    <3> QED
      BY <3>1, <3>2
  <2>6. (\A v \in Threads : worker'[v].step \in Holding => worker'[v].obj \in Objects) /\ SameJudge
    <3>1. Idle.step = "loop"
      BY Records
    <3> QED
      BY <3>1, <2>4 DEF Placed, Live, SameJudge, Holding
  <2> HIDE DEF o, i, m, G
  <2> QED
    BY <2>1, <1>1, <2>3, <2>5, <2>6, PlacedAppend
<1>3. CASE ~(task[o].retry_count < max_retries)
  BY <1>3, <1>0, PlacedDone DEF Retry
<1> QED
  BY <1>2, <1>3

\* Time passes.
LEMMA PlacedTick ==
  ASSUME TypeOK, Placed, Tick
  PROVE  Placed'
<1>1. \A o \in Objects \ {} : SameTask(o)
  <2> TAKE o \in Objects \ {}
  <2>1. CASE o \in Live /\ task[o].wait > 0
    <3>1. task'[o] = [task[o] EXCEPT !.wait = @ - 1] /\ task[o] \in Task /\ task[o].wait \in Nat
      BY <2>1, Types DEF Tick, Task
    <3>2. task[o].wait - 1 \in Nat
      BY <2>1, <3>1
    <3>3. task'[o] \in Task /\ task'[o].id = task[o].id
      BY <3>1, <3>2 DEF Task
    <3> QED
      BY <3>3, <2>1, TasksConstants DEF SameTask, Live
  <2>2. CASE ~(o \in Live /\ task[o].wait > 0)
    BY <2>2 DEF Tick, SameTask
  <2> QED
    BY <2>1, <2>2
<1>2. \A w \in Threads, o \in Objects : InHand(w, o)' <=> InHand(w, o) /\ o \notin {}
  BY DEF Tick, InHand
<1>3. /\ UNCHANGED task_queues /\ {} \in SUBSET Objects
      /\ \A p \in TaskPriority : \A o \in Rng(task_queues[p]) : o \notin {}
      /\ \A o \in {} : task'[o] = None
      /\ \A w \in Threads : worker'[w].step \in Holding => worker'[w].obj \in Objects
      /\ SameJudge
  BY DEF Tick, Placed, Live, SameJudge
<1> QED
  BY <1>1, <1>2, <1>3, PlacedFrame

\* Threads that look at a deque, start and end.
LEMMA PlacedLook ==
  ASSUME TypeOK, Placed, NEW w \in Threads, Loop(w) \/ Scan(w)
  PROVE  Placed'
<1>1. worker[w].step \in {"loop", "scan"} /\ worker[w].at \in 1..Levels /\ UNCHANGED <<task_queues, task>>
  BY DEF Loop, Scan, TypeOK, Worker
<1>2. \E r \in Worker : worker' = [worker EXCEPT ![w] = r] /\ r.step \in {"loop", "scan", "pop", "gone"}
  <2> DEFINE k == worker[w].at
  <2>1. /\ At("scan", 1, None) \in Worker /\ At("scan", 1, None).step = "scan"
        /\ At("gone", 1, None) \in Worker /\ At("gone", 1, None).step = "gone"
        /\ At("pop", k, None) \in Worker /\ At("pop", k, None).step = "pop"
        /\ Beyond(k) \in Worker /\ Beyond(k).step \in {"loop", "scan"}
    BY <1>1, Written, Records DEF Steps
  <2>2. CASE Loop(w)
    BY <2>1, <2>2 DEF Loop
  <2>3. CASE Scan(w)
    BY <2>1, <2>3 DEF Scan
  <2> QED
    BY <2>2, <2>3
<1>3. PICK r \in Worker : worker' = [worker EXCEPT ![w] = r] /\ r.step \in {"loop", "scan", "pop", "gone"}
  BY <1>2
<1>4. worker[w].step \notin Holding /\ r.step \notin Holding /\ r.step # "judge"
  BY <1>1, <1>3 DEF Holding
<1> QED
  BY <1>1, <1>3, <1>4, PlacedMove

\* start() makes threads that hold nothing.
LEMMA PlacedStart ==
  ASSUME TypeOK, Placed, start
  PROVE  Placed'
<1>1. PICK W \in SUBSET {w \in Threads : worker[w].step = "none"} :
        worker' = [w \in Threads |-> IF w \in W THEN Idle ELSE worker[w]]
  BY DEF start
<1>2. Idle.step = "loop"
  BY Records
<1>3. \A w \in Threads, o \in Objects : InHand(w, o)' <=> InHand(w, o) /\ o \notin {}
  BY <1>1, <1>2 DEF InHand, Holding
<1>4. /\ \A w \in Threads : worker'[w].step \in Holding => worker'[w].obj \in Objects
      /\ SameJudge
  BY <1>1, <1>2 DEF Placed, Live, Holding, SameJudge
<1>5. /\ UNCHANGED task_queues /\ {} \in SUBSET Objects
      /\ \A p \in TaskPriority : \A o \in Rng(task_queues[p]) : o \notin {}
      /\ \A o \in {} : task'[o] = None
      /\ \A o \in Objects \ {} : SameTask(o)
  BY DEF start, SameTask
<1> QED
  BY <1>3, <1>4, <1>5, PlacedFrame

\* Placed is inductive, given the types.
LEMMA PlacedStep == TypeOK /\ Placed /\ [Next]_vars => Placed'
<1> SUFFICES ASSUME TypeOK, Placed, [Next]_vars PROVE Placed'
  OBVIOUS
<1>1. CASE stop \/ UNCHANGED vars
  <2>1. UNCHANGED <<task_queues, task, worker>>
    BY <1>1 DEF stop, vars
  <2> QED
    BY <2>1 DEF Placed, Live, InHand, Rng, Distinct, Visited
<1>2. ASSUME NEW id \in Periodic, schedule_periodic(id) PROVE Placed'
  <2>1. id \in Ids /\ initialDelay[id] \in Nat
    BY TasksConstants DEF Ids
  <2> QED
    BY <1>2, <2>1, PlacedNew DEF schedule_periodic
<1>3. ASSUME NEW id \in OneShot, submit(id) PROVE Placed'
  <2>1. id \in Ids /\ 0 \in Nat
    BY DEF Ids
  <2> QED
    BY <1>3, <2>1, PlacedNew DEF submit
<1>4. ASSUME NEW w \in Threads, Return(w) PROVE Placed'
  BY <1>4, PlacedDone DEF Return
<1>5. ASSUME NEW w \in Threads, Raise(w) PROVE Placed'
  <2> DEFINE r == At("retry", 1, worker[w].obj)
  <2>1. worker[w].step = "run" /\ worker' = [worker EXCEPT ![w] = r] /\ UNCHANGED <<task_queues, task>>
    BY <1>5 DEF Raise
  <2>2. r \in Worker /\ r.step = "retry" /\ r.obj = worker[w].obj
    BY <2>1, InTheHand, Written, Records DEF Steps
  <2>3. worker[w].step \in Holding /\ r.step \in Holding /\ r.step # "judge"
    BY <2>1, <2>2 DEF Holding
  <2> HIDE DEF r
  <2> QED
    BY <2>1, <2>2, <2>3, PlacedMove
<1> QED
  BY <1>1, <1>2, <1>3, <1>4, <1>5, PlacedStart, PlacedTick, PlacedLook, PlacedPop, PlacedJudge, PlacedReturnPeriodic, PlacedRaisePeriodic, PlacedRetry DEF Next, Step, Execute

\* It holds at the start.
LEMMA Begins == Init => TypeOK /\ Placed
<1> SUFFICES ASSUME Init PROVE TypeOK /\ Placed
  OBVIOUS
<1>1. 1 \in 1..Levels
  BY TasksConstants
<1>2. Live = {} /\ \A w \in Threads : worker[w].step = "none"
  BY DEF Init, Live
<1>3. \A p \in TaskPriority : task_queues[p] = <<>> /\ Rng(task_queues[p]) = {} /\ Distinct(task_queues[p])
  BY DEF Init, Rng, Distinct
<1>4. TypeOK
  <2>1. [step |-> "none", at |-> 1, obj |-> None] \in Worker
    BY <1>1 DEF Worker, Steps
  <2>2. worker \in [Threads -> Worker]
    BY <2>1 DEF Init
  <2>3. <<>> \in Seq(Objects) /\ {} \in SUBSET Periodic /\ {} \in SUBSET OneShot
    OBVIOUS
  <2>4. task_queues \in [TaskPriority -> Seq(Objects)]
    BY <2>3 DEF Init
  <2>5. success \in [OneShot -> Nat] /\ failed \in [Ids -> Nat] /\ task \in [Objects -> Task \cup {None}]
    BY DEF Init
  <2> QED
    BY <1>2, <2>2, <2>3, <2>4, <2>5 DEF Init, TypeOK
<1>5. Placed
  BY <1>2, <1>3 DEF Placed, InHand, Holding
<1> QED
  BY <1>4, <1>5

\* Placed says what EachTaskOnce says.
LEMMA PlacedIsOnce == TypeOK /\ Placed => EachTaskOnce
<1> SUFFICES ASSUME TypeOK, Placed PROVE EachTaskOnce
  OBVIOUS
<1>1. ASSUME NEW o PROVE Queued(o) <=> \E p \in TaskPriority : o \in Rng(task_queues[p])
  BY DEF Queued, Rng
<1>2. \A p \in TaskPriority : \A i \in 1..Len(task_queues[p]) :
       /\ task_queues[p][i] \in Live
       /\ priority[task[task_queues[p][i]].id] = p
       /\ \A j \in 1..Len(task_queues[p]) : task_queues[p][i] = task_queues[p][j] => i = j
  BY DEF Placed, Rng, Distinct
<1>3. ASSUME NEW w \in Threads, worker[w].step \in Holding
      PROVE  /\ worker[w].obj \in Live /\ ~Queued(worker[w].obj)
             /\ \A v \in Threads : InHand(v, worker[w].obj) => v = w
  <2>1. worker[w].obj \in Live /\ worker[w].obj \in Objects /\ InHand(w, worker[w].obj)
    BY <1>3 DEF Placed, InHand, Live
  <2> QED
    BY <2>1, <1>1 DEF Placed
<1>4. \A o \in Live : Queued(o) \/ \E w \in Threads : InHand(w, o)
  BY <1>1, Types DEF Placed
<1> QED
  BY <1>2, <1>3, <1>4 DEF EachTaskOnce

-----------------------------------------------------------------------------
(* The one-shot tasks *)

\* OneShotSettledOnce of one id.
Settling(id) ==
  IF id \in submitted THEN InProgress(id) \/ Finished(id)
                      ELSE Copies(id) = {} /\ success[id] = 0 /\ failed[id] = 0

\* A step that is not about id.
LEMMA SettlingFrame ==
  ASSUME NEW id \in OneShot, Settling(id), Copies(id)' = Copies(id),
         \A o \in Copies(id) : /\ task'[o].retry_count = task[o].retry_count
                               /\ AwaitsRetry(o)' <=> AwaitsRetry(o),
         success'[id] = success[id], failed'[id] = failed[id],
         id \in submitted' <=> id \in submitted
  PROVE  Settling(id)'
<1>1. \A o \in Copies(id) : Attempts(o)' = Attempts(o)
  BY DEF Attempts
<1>2. InProgress(id)' <=> InProgress(id)
  BY <1>1 DEF InProgress
<1>3. Finished(id)' <=> Finished(id)
  BY DEF Finished
<1> QED
  BY <1>2, <1>3 DEF Settling

\* The objects of a thread's step, but for the one it has in its hands.
LEMMA OtherAttempts ==
  ASSUME TypeOK, NEW w \in Threads, NEW r \in Worker, worker' = [worker EXCEPT ![w] = r]
  PROVE  /\ \A o : o # worker[w].obj /\ o # r.obj => (AwaitsRetry(o)' <=> AwaitsRetry(o))
         /\ worker[w].step # "retry" /\ r.step # "retry" => \A o : AwaitsRetry(o)' <=> AwaitsRetry(o)
<1>1. worker'[w] = r /\ \A v \in Threads : v # w => worker'[v] = worker[v]
  BY DEF TypeOK
<1> QED
  BY <1>1 DEF AwaitsRetry

\* Steps in which no one-shot task is made, executed or judged.
LEMMA SettlingLook ==
  ASSUME TypeOK, NEW id \in OneShot, Settling(id), NEW w \in Threads,
         Loop(w) \/ Scan(w) \/ Pop(w) \/ Judge(w)
  PROVE  Settling(id)'
<1>1. /\ UNCHANGED <<task, success, failed, submitted>>
      /\ worker[w].step # "retry" /\ worker[w].at \in 1..Levels
  BY DEF Loop, Scan, Pop, Judge, TypeOK, Worker
<1>2. \E r : r.step # "retry" /\ worker' = [worker EXCEPT ![w] = r]
  <2> DEFINE k == worker[w].at
  <2>1. /\ Idle.step # "retry" /\ Beyond(k).step # "retry"
        /\ \A s, j, o : At(s, j, o).step = s
    BY <1>1, Records DEF At
  <2>2. CASE Loop(w)
    BY <2>1, <2>2 DEF Loop
  <2>3. CASE Scan(w)
    BY <2>1, <2>3 DEF Scan
  <2>4. CASE Pop(w)
    BY <2>1, <2>4 DEF Pop
  <2>5. CASE Judge(w)
    BY <2>1, <2>5 DEF Judge
  <2> QED
    BY <2>2, <2>3, <2>4, <2>5
<1>3. PICK r : r.step # "retry" /\ worker' = [worker EXCEPT ![w] = r]
  BY <1>2
<1>4. worker'[w] = r /\ \A v \in Threads : v # w => worker'[v] = worker[v]
  BY <1>3 DEF TypeOK
<1>5. \A o : AwaitsRetry(o)' <=> AwaitsRetry(o)
  BY <1>1, <1>3, <1>4 DEF AwaitsRetry
<1>6. Copies(id)' = Copies(id)
  BY <1>1 DEF Copies, Live
<1> QED
  BY <1>1, <1>5, <1>6, SettlingFrame

\* A new Task is made for i while no other object changes.
LEMMA CopiesNew ==
  ASSUME TypeOK, CanCreate, NEW i \in Ids, NEW d \in Nat, NEW id \in Ids,
         task' = [task EXCEPT ![Fresh] = NewTask(i, d)]
  PROVE  /\ Fresh \in Objects /\ task[Fresh] = None /\ Fresh \notin Copies(id)
         /\ Copies(id)' = IF i = id THEN Copies(id) \cup {Fresh} ELSE Copies(id)
         /\ \A o \in Copies(id) : task'[o] = task[o]
<1> DEFINE n == NewTask(i, d)
           f == Fresh
<1>1. f \in Objects /\ task[f] = None /\ n.id = i /\ n # None
  BY FreshObject, NewTyped, TasksConstants
<1>2. task' = [task EXCEPT ![f] = n]
  OBVIOUS
<1> HIDE DEF n, f
<1>3. task'[f] = n /\ \A o \in Objects : o # f => task'[o] = task[o]
  BY <1>1, <1>2 DEF TypeOK
<1>4. f \notin Copies(id) /\ \A o \in Copies(id) : o \in Objects /\ o # f
  BY <1>1 DEF Copies, Live
<1>5. Copies(id)' = IF i = id THEN Copies(id) \cup {f} ELSE Copies(id)
  BY <1>1, <1>3 DEF Copies, Live
<1> QED
  BY <1>1, <1>3, <1>4, <1>5 DEF f

\* The objects that die or change with one that has the id i.
LEMMA CopiesOf ==
  ASSUME TypeOK, NEW o \in Live, NEW m \in Task \cup {None}, task' = [task EXCEPT ![o] = m],
         m # None => m.id = task[o].id, NEW id
  PROVE  /\ task'[o] = m /\ \A x \in Objects : x # o => task'[x] = task[x]
         /\ Copies(id)' = IF m = None THEN Copies(id) \ {o} ELSE Copies(id)
         /\ id # task[o].id => o \notin Copies(id)
<1>1. o \in Objects /\ task[o] # None
  BY DEF Live
<1>2. task'[o] = m /\ \A x \in Objects : x # o => task'[x] = task[x]
  BY <1>1 DEF TypeOK
<1>3. Copies(id)' = IF m = None THEN Copies(id) \ {o} ELSE Copies(id)
  BY <1>1, <1>2 DEF Copies, Live
<1> QED
  BY <1>2, <1>3 DEF Copies

\* A new task is queued: the first of its id, or one of another id.
LEMMA SettlingNew ==
  ASSUME TypeOK, Placed, CanCreate, NEW id \in OneShot, Settling(id), NEW i \in Ids, NEW d \in Nat,
         NEW f, f = Fresh, task' = [task EXCEPT ![Fresh] = NewTask(i, d)],
         UNCHANGED <<worker, success, failed>>,
         \/ i # id /\ (id \in submitted' <=> id \in submitted)
         \/ i = id /\ id \notin submitted /\ id \in submitted'
  PROVE  Settling(id)'
<1>0. id \in Ids
  BY DEF Ids
<1>1. /\ Fresh \in Objects /\ task[Fresh] = None
      /\ Copies(id)' = IF i = id THEN Copies(id) \cup {Fresh} ELSE Copies(id)
      /\ \A o \in Copies(id) : task'[o] = task[o]
  BY <1>0, CopiesNew
<1>2. \A o : AwaitsRetry(o)' <=> AwaitsRetry(o)
  BY DEF AwaitsRetry
<1>3. CASE i # id
  BY <1>1, <1>2, <1>3, SettlingFrame
<1>4. CASE i = id
  <2>1. ~AwaitsRetry(Fresh)
    BY <1>1, DeadIsNowhere DEF AwaitsRetry, InHand, Holding
  <2>2. Copies(id) = {} /\ success[id] = 0 /\ failed[id] = 0
    BY <1>4 DEF Settling
  <2>3. task'[Fresh].retry_count = 0
    <3>1. task'[Fresh] = NewTask(i, d)
      BY <1>1 DEF TypeOK
    <3> QED
      BY <3>1, NewTyped
  <2>4. Copies(id)' = {f} /\ ~AwaitsRetry(f)' /\ task'[f].retry_count = 0 /\ f \in Objects
    BY <1>1, <1>2, <1>4, <2>1, <2>2, <2>3
  <2>5. InProgress(id)'
    <3>1. Attempts(f)' = 0
      BY <2>4 DEF Attempts
    <3> QED
      BY <3>1, <2>2, <2>4 DEF InProgress
  <2> QED
    BY <2>5, <1>4 DEF Settling
<1> QED
  BY <1>3, <1>4

\* What is known of a one-shot task that a thread executes or judges.
LEMMA SettlingInHand ==
  ASSUME TypeOK, Placed, NEW w \in Threads, worker[w].step \in {"run", "retry"},
         NEW id \in OneShot, task[worker[w].obj].id = id, Settling(id)
  PROVE  /\ id \in submitted /\ Copies(id) = {worker[w].obj} /\ success[id] = 0
         /\ task[worker[w].obj].retry_count \in Nat /\ task[worker[w].obj].retry_count <= max_retries
         /\ AwaitsRetry(worker[w].obj) <=> worker[w].step = "retry"
         /\ failed[id] = task[worker[w].obj].retry_count + (IF worker[w].step = "retry" THEN 1 ELSE 0)
<1> DEFINE o == worker[w].obj
<1>1. o \in Live /\ o \in Copies(id) /\ InHand(w, o) /\ \A v \in Threads : InHand(v, o) => v = w
  BY InTheHand DEF Copies
<1>2. AwaitsRetry(o) <=> worker[w].step = "retry"
  BY <1>1 DEF AwaitsRetry, InHand, Holding
<1>3. id \in submitted /\ InProgress(id)
  BY <1>1 DEF Settling, Finished
<1>4. Copies(id) = {o} /\ success[id] = 0 /\ failed[id] = Attempts(o)
  BY <1>1, <1>3 DEF InProgress
<1>5. task[o].retry_count \in Nat /\ task[o].retry_count <= max_retries
  BY <1>1, Types DEF Task, TypeOK
<1> QED
  BY <1>2, <1>3, <1>4, <1>5 DEF Attempts

\* The function of a task returns.
LEMMA SettlingReturn ==
  ASSUME TypeOK, Placed, NEW id \in OneShot, Settling(id), NEW w \in Threads, Return(w)
  PROVE  Settling(id)'
<1> DEFINE o == worker[w].obj
           i == task[o].id
<1>1. /\ worker[w].step = "run" /\ i \in OneShot /\ o \in Live /\ worker' = [worker EXCEPT ![w] = Idle]
      /\ success' = [success EXCEPT ![i] = success[i] + 1]
      /\ task' = [task EXCEPT ![o] = None] /\ UNCHANGED <<failed, submitted>>
  BY InTheHand DEF Return
<1>2. /\ task'[o] = None /\ \A x \in Objects : x # o => task'[x] = task[x]
      /\ Copies(id)' = Copies(id) \ {o}
      /\ id # i => o \notin Copies(id)
  BY <1>1, CopiesOf
<1>3. CASE id = i
  <2>1. Copies(id) = {o} /\ success[id] = 0 /\ id \in submitted /\ failed[id] <= max_retries
    BY <1>1, <1>3, SettlingInHand
  <2>2. Copies(id)' = {} /\ success'[id] = 1 /\ failed'[id] <= max_retries
    BY <2>1, <1>1, <1>2, <1>3 DEF TypeOK
  <2> QED
    BY <2>1, <2>2, <1>1 DEF Settling, Finished
<1>4. CASE id # i
  <2>1. Idle \in Worker /\ Idle.step # "retry"
    BY Records
  <2>2. \A x : AwaitsRetry(x)' <=> AwaitsRetry(x)
    BY <2>1, <1>1, OtherAttempts
  <2>3. success'[id] = success[id]
    BY <1>1, <1>4 DEF TypeOK
  <2>4. Copies(id)' = Copies(id) /\ \A x \in Copies(id) : task'[x] = task[x]
    BY <1>2, <1>4 DEF Copies, Live
  <2> QED
    BY <2>2, <2>3, <2>4, <1>1, SettlingFrame
<1> QED
  BY <1>3, <1>4

\* It raises.
LEMMA SettlingRaise ==
  ASSUME TypeOK, Placed, NEW id \in OneShot, Settling(id), NEW w \in Threads, NEW o, o = worker[w].obj, Raise(w)
  PROVE  Settling(id)'
<1> DEFINE i == task[o].id
           r == At("retry", 1, o)
<1>1. /\ worker[w].step = "run" /\ i \in OneShot /\ o \in Live /\ worker' = [worker EXCEPT ![w] = r]
      /\ failed' = [failed EXCEPT ![i] = failed[i] + 1]
      /\ UNCHANGED <<task, success, submitted>>
  BY InTheHand DEF Raise
<1>2. r \in Worker /\ r.step = "retry" /\ r.obj = o /\ o \in Objects /\ i \in Ids
  BY <1>1, InTheHand, Written, Records DEF Steps
<1> HIDE DEF r
<1>3. Copies(id)' = Copies(id)
  BY <1>1 DEF Copies, Live
<1>4. worker'[w] = r
  BY <1>1, <1>2, Hands
<1>5. CASE id = i
  <2>1. Copies(id) = {o} /\ success[id] = 0 /\ id \in submitted /\ failed[id] = task[o].retry_count /\ task[o].retry_count \in Nat
    <3>1. worker[w].step \in {"run", "retry"} /\ task[worker[w].obj].id = id
      BY <1>1, <1>5
    <3>2. /\ id \in submitted /\ Copies(id) = {worker[w].obj} /\ success[id] = 0
          /\ task[worker[w].obj].retry_count \in Nat
          /\ failed[id] = task[worker[w].obj].retry_count + (IF worker[w].step = "retry" THEN 1 ELSE 0)
      BY <3>1, SettlingInHand
    <3> QED
      BY <3>2, <1>1
  <2>2. AwaitsRetry(o)'
    BY <1>4, <1>2 DEF AwaitsRetry
  <2>3. failed'[id] = task'[o].retry_count + 1
    BY <2>1, <1>1, <1>2, <1>5 DEF TypeOK
  <2>4. InProgress(id)'
    <3>1. Attempts(o)' = task'[o].retry_count + 1
      BY <2>2 DEF Attempts
    <3> QED
      BY <3>1, <2>1, <2>3, <1>1, <1>2, <1>3 DEF InProgress
  <2> QED
    BY <2>1, <2>4, <1>1 DEF Settling
<1>6. CASE id # i
  <2>1. \A x \in Copies(id) : x # o
    BY <1>6 DEF Copies
  <2>2. \A x \in Copies(id) : AwaitsRetry(x)' <=> AwaitsRetry(x)
    BY <2>1, <1>1, <1>2, OtherAttempts
  <2>3. failed'[id] = failed[id]
    BY <1>1, <1>2, <1>6 DEF TypeOK
  <2> QED
    BY <2>2, <2>3, <1>1, <1>3, SettlingFrame
<1> QED
  BY <1>5, <1>6

\* The except clause: the task is queued again, or given up after its last attempt.
LEMMA SettlingRetry ==
  ASSUME TypeOK, Placed, NEW id \in OneShot, Settling(id), NEW w \in Threads, NEW o, o = worker[w].obj, Retry(w)
  PROVE  Settling(id)'
<1> DEFINE i == task[o].id
           c == task[o].retry_count
           m == IF c < max_retries THEN [task[o] EXCEPT !.retry_count = c + 1, !.wait = backoff(c + 1)] ELSE None
<1>1. /\ worker[w].step = "retry" /\ o \in Live /\ o \in Objects /\ i \in Ids /\ task[o] \in Task
      /\ worker' = [worker EXCEPT ![w] = Idle] /\ UNCHANGED <<success, failed, submitted>>
  BY InTheHand DEF Retry
<1>2. c \in Nat /\ c <= max_retries
  BY <1>1, Types DEF TypeOK, Task
<1>3. task' = [task EXCEPT ![o] = m]
  <2>1. CASE c < max_retries
    BY <2>1, <1>1 DEF Retry
  <2>2. CASE ~(c < max_retries)
    BY <2>2, <1>1 DEF Retry
  <2> QED
    BY <2>1, <2>2
<1>4. /\ m \in Task \cup {None} /\ (m # None => m.id = i)
      /\ c < max_retries => m # None /\ m.retry_count = c + 1
      /\ ~(c < max_retries) => m = None
  <2>1. CASE c < max_retries
    <3>1. c + 1 \in Nat /\ backoff(c + 1) \in Nat
      BY <1>2 DEF backoff
    <3>2. m \in Task /\ m.id = i /\ m.retry_count = c + 1
      BY <2>1, <3>1, <1>1 DEF Task
    <3> HIDE DEF m
    <3> QED
      BY <3>2, <2>1, TasksConstants
  <2>2. CASE ~(c < max_retries)
    BY <2>2
  <2> QED
    BY <2>1, <2>2
<1> HIDE DEF m
<1>5. /\ task'[o] = m /\ \A x \in Objects : x # o => task'[x] = task[x]
      /\ Copies(id)' = IF m = None THEN Copies(id) \ {o} ELSE Copies(id)
      /\ id # i => o \notin Copies(id)
  <2>1. task'[o] = m /\ \A x \in Objects : x # o => task'[x] = task[x]
    BY <1>1, <1>3 DEF TypeOK
  <2>2. Copies(id)' = IF m = None THEN Copies(id) \ {o} ELSE Copies(id)
    BY <1>1, <1>4, <2>1 DEF Copies, Live
  <2> QED
    BY <2>1, <2>2 DEF Copies
<1>6. Idle \in Worker /\ Idle.step = "loop" /\ Idle.obj = None
  BY Records
<1>7. worker'[w] = Idle /\ \A v \in Threads : v # w => worker'[v] = worker[v]
  BY <1>1, <1>6, Hands
<1>8. CASE id = i
  <2>1. /\ Copies(id) = {o} /\ success[id] = 0 /\ id \in submitted /\ failed[id] = c + 1
        /\ i \in OneShot
    BY <1>1, <1>8, SettlingInHand
  <2>2. CASE c < max_retries
    <3>1. ~AwaitsRetry(o)'
      <4>1. \A v \in Threads : InHand(v, o) => v = w
        BY <1>1, InTheHand
      <4> QED
        BY <4>1, <1>6, <1>7 DEF AwaitsRetry, InHand, Holding
    <3>2. Attempts(o)' = c + 1
      BY <3>1, <2>2, <1>2, <1>4, <1>5 DEF Attempts
    <3>3. InProgress(id)'
      BY <3>2, <2>1, <2>2, <1>1, <1>4, <1>5 DEF InProgress
    <3> QED
      BY <3>3, <2>1, <1>1 DEF Settling
  <2>3. CASE ~(c < max_retries)
    <3>1. failed'[id] = max_retries + 1 /\ success'[id] = 0 /\ Copies(id)' = {}
      BY <2>1, <2>3, <1>1, <1>2, <1>4, <1>5, TasksConstants
    <3> QED
      BY <3>1, <2>1, <1>1 DEF Settling, Finished
  <2> QED
    BY <2>2, <2>3
<1>9. CASE id # i
  <2>1. Copies(id)' = Copies(id) /\ \A x \in Copies(id) : x # o /\ x # None /\ task'[x] = task[x]
    BY <1>5, <1>9, TasksConstants DEF Copies, Live
  <2>2. \A x \in Copies(id) : AwaitsRetry(x)' <=> AwaitsRetry(x)
    BY <2>1, <1>1, <1>6, OtherAttempts
  <2> QED
    BY <2>1, <2>2, <1>1, SettlingFrame
<1> QED
  BY <1>8, <1>9

\* A periodic function ends; a one-shot task is not concerned.
LEMMA SettlingPeriodic ==
  ASSUME TypeOK, Placed, NEW id \in OneShot, Settling(id), NEW w \in Threads,
         Return_Periodic(w) \/ Raise_Periodic(w)
  PROVE  Settling(id)'
<1> DEFINE o == worker[w].obj
           i == task[o].id
           n == NewTask(i, period[i])
           f == Fresh
<1>1. /\ worker[w].step = "run" /\ CanCreate /\ i \in Periodic /\ i # id /\ id \in Ids
      /\ o \in Objects /\ o \in Live /\ UNCHANGED <<success, submitted>>
  BY InTheHand, TasksConstants DEF Return_Periodic, Raise_Periodic, Ids
<1>2. f \in Objects /\ task[f] = None /\ f # o /\ n \in Task /\ n.id = i
  BY <1>1, FreshObject, NewTyped, TasksConstants DEF Live, Ids
<1>3. failed'[id] = failed[id]
  BY <1>1 DEF Return_Periodic, Raise_Periodic, TypeOK, Ids
<1> HIDE DEF n, f
<1>4. task' = [task EXCEPT ![o] = None, ![f] = n] \/ task' = [task EXCEPT ![f] = n]
  BY DEF Return_Periodic, Raise_Periodic, n, f
<1>5. /\ \A x \in Objects : x # f /\ x # o => task'[x] = task[x]
      /\ task'[f] = n /\ (task'[o] = None \/ task'[o] = task[o])
  BY <1>1, <1>2, <1>4 DEF TypeOK
<1>6. /\ Copies(id)' = Copies(id)
      /\ \A x \in Copies(id) : x # o /\ x # None /\ task'[x] = task[x]
  BY <1>1, <1>2, <1>5, TasksConstants DEF Copies, Live
<1>7. \A x \in Copies(id) : AwaitsRetry(x)' <=> AwaitsRetry(x)
  <2>1. \E r \in Worker : worker' = [worker EXCEPT ![w] = r] /\ r.obj \in {None, o}
    <3>1. Idle \in Worker /\ Idle.obj = None /\ At("retry", 1, o) \in Worker /\ At("retry", 1, o).obj = o
      BY <1>1, Records, Written DEF Steps
    <3> QED
      BY <3>1 DEF Return_Periodic, Raise_Periodic
  <2> QED
    BY <2>1, <1>6, OtherAttempts
<1> QED
  BY <1>1, <1>3, <1>6, <1>7, SettlingFrame

\* Time passes, and starts and stops: nothing is executed.
LEMMA SettlingOther ==
  ASSUME TypeOK, NEW id \in OneShot, Settling(id), Tick \/ start \/ stop \/ UNCHANGED vars
  PROVE  Settling(id)'
<1>1. \A o \in Objects : /\ task'[o] = None <=> task[o] = None
                         /\ task[o] # None => task'[o].id = task[o].id /\ task'[o].retry_count = task[o].retry_count
  <2> TAKE o \in Objects
  <2>1. CASE Tick
    <3>1. CASE o \in Live /\ task[o].wait > 0
      <4>1. task'[o] = [task[o] EXCEPT !.wait = @ - 1] /\ task[o] \in Task /\ task[o].wait - 1 \in Nat
        BY <2>1, <3>1, Types DEF Tick, Task
      <4>2. task'[o] \in Task /\ task'[o].id = task[o].id /\ task'[o].retry_count = task[o].retry_count
        BY <4>1 DEF Task
      <4> QED
        BY <4>2, <3>1, TasksConstants DEF Live
    <3>2. CASE ~(o \in Live /\ task[o].wait > 0)
      BY <2>1, <3>2 DEF Tick
    <3> QED
      BY <3>1, <3>2
  <2>2. CASE start \/ stop \/ UNCHANGED vars
    BY <2>2 DEF start, stop, vars
  <2> QED
    BY <2>1, <2>2
<1>2. \A o : AwaitsRetry(o)' <=> AwaitsRetry(o)
  <2>1. CASE UNCHANGED worker
    BY <2>1 DEF AwaitsRetry
  <2>2. CASE start
    <3>1. PICK W \in SUBSET {w \in Threads : worker[w].step = "none"} :
            worker' = [w \in Threads |-> IF w \in W THEN Idle ELSE worker[w]]
      BY <2>2 DEF start
    <3>2. Idle.step = "loop"
      BY Records
    <3> QED
      BY <3>1, <3>2 DEF AwaitsRetry
  <2> QED
    BY <2>1, <2>2 DEF Tick, stop, vars
<1>3. Copies(id)' = Copies(id) /\ \A o \in Copies(id) : task'[o].retry_count = task[o].retry_count
  BY <1>1 DEF Copies, Live
<1>4. UNCHANGED <<success, failed, submitted>>
  BY DEF Tick, start, stop, vars
<1> QED
  BY <1>2, <1>3, <1>4, SettlingFrame

\* OneShotSettledOnce is inductive, given the types and the places.
LEMMA SettledStep == TypeOK /\ Placed /\ OneShotSettledOnce /\ [Next]_vars => OneShotSettledOnce'
<1> SUFFICES ASSUME TypeOK, Placed, OneShotSettledOnce, [Next]_vars, NEW id \in OneShot
             PROVE  Settling(id)'
  BY DEF OneShotSettledOnce, Settling, InProgress, Finished, Copies, Attempts, AwaitsRetry, Live
<1>0. Settling(id) /\ id \in Ids
  BY DEF OneShotSettledOnce, Settling, Ids
<1>1. ASSUME NEW i \in Periodic, schedule_periodic(i) PROVE Settling(id)'
  <2>1. i \in Ids /\ i # id /\ initialDelay[i] \in Nat
    BY TasksConstants DEF Ids
  <2> QED
    BY <1>0, <1>1, <2>1, SettlingNew DEF schedule_periodic
<1>2. ASSUME NEW i \in OneShot, submit(i) PROVE Settling(id)'
  <2>1. i \in Ids /\ 0 \in Nat
    BY DEF Ids
  <2>2. /\ CanCreate /\ task' = [task EXCEPT ![Fresh] = NewTask(i, 0)]
        /\ UNCHANGED <<worker, success, failed>>
        /\ i \notin submitted /\ submitted' = submitted \cup {i}
    BY <1>2 DEF submit
  <2> QED
    BY <1>0, <2>1, <2>2, SettlingNew
<1>3. ASSUME NEW w \in Threads, Step(w) PROVE Settling(id)'
  BY <1>0, <1>3, SettlingLook, SettlingReturn, SettlingRaise, SettlingPeriodic, SettlingRetry DEF Step, Execute
<1> QED
  BY <1>0, <1>1, <1>2, <1>3, SettlingOther DEF Next

\* It holds at the start.
LEMMA SettledBegins == Init => OneShotSettledOnce
<1> SUFFICES ASSUME Init PROVE OneShotSettledOnce
  OBVIOUS
<1>1. submitted = {} /\ \A id \in OneShot : success[id] = 0 /\ failed[id] = 0 /\ id \in Ids
  BY DEF Init, Ids
<1>2. \A id \in OneShot : Copies(id) = {}
  BY DEF Init, Copies, Live
<1> QED
  BY <1>1, <1>2 DEF OneShotSettledOnce

-----------------------------------------------------------------------------
(* The periodic tasks *)

\* The Tasks of an id that are not a failed execution.
Sound(id) == Copies(id) \ Failing(id)

\* PeriodicKept of one id.
Keeping(id) ==
  /\ starts <= Pending(id) + Cardinality(Sound(id))
  /\ Pending(id) + Cardinality(Copies(id)) <= starts + failed[id]

\* One element of a finite set gives way to another.
LEMMA Swapped ==
  ASSUME NEW S, IsFiniteSet(S), NEW x \in S, NEW y, y \notin S
  PROVE  Cardinality((S \ {x}) \cup {y}) = Cardinality(S)
<1>1. IsFiniteSet(S \ {x}) /\ Cardinality(S \ {x}) = Cardinality(S) - 1 /\ Cardinality(S) \in Nat
  BY FS_RemoveElement, FS_CardinalityType
<1>2. Cardinality((S \ {x}) \cup {y}) = Cardinality(S \ {x}) + 1
  BY <1>1, FS_AddElement
<1> QED
  BY <1>1, <1>2

\* The sets that are counted are finite.
LEMMA Counted ==
  ASSUME TypeOK, NEW id \in Ids
  PROVE  /\ IsFiniteSet(Copies(id)) /\ IsFiniteSet(Sound(id))
         /\ Cardinality(Copies(id)) \in Nat /\ Cardinality(Sound(id)) \in Nat
         /\ Pending(id) \in Nat /\ starts \in Nat /\ failed[id] \in Nat
<1>1. Copies(id) \in SUBSET Objects /\ Sound(id) \in SUBSET Objects
  BY DEF Copies, Live, Sound
<1>2. IsFiniteSet(Copies(id)) /\ IsFiniteSet(Sound(id))
  BY <1>1, TasksConstants, FS_Subset
<1> QED
  BY <1>2, FS_CardinalityType DEF Pending, TypeOK

\* A step that is not about id.
LEMMA KeepingFrame ==
  ASSUME NEW id \in Periodic, Keeping(id), Copies(id)' = Copies(id),
         \A o \in Copies(id) : AwaitsRetry(o)' <=> AwaitsRetry(o),
         starts' = starts, failed'[id] = failed[id], id \in schedule' <=> id \in schedule
  PROVE  Keeping(id)'
<1>1. Sound(id)' = Sound(id)
  BY DEF Sound, Failing
<1> QED
  BY <1>1 DEF Keeping, Pending

\* A thread whose step neither takes up nor leaves a failed execution.
LEMMA SameAwaits ==
  ASSUME TypeOK, NEW w \in Threads, worker[w].step # "retry",
         NEW r, r.step # "retry", worker' = [worker EXCEPT ![w] = r]
  PROVE  \A o : AwaitsRetry(o)' <=> AwaitsRetry(o)
<1>1. worker'[w] = r /\ \A v \in Threads : v # w => worker'[v] = worker[v]
  BY DEF TypeOK
<1> QED
  BY <1>1 DEF AwaitsRetry

\* start() will schedule one task of each periodic id.
LEMMA KeepingStart ==
  ASSUME TypeOK, NEW id \in Periodic, Keeping(id), start
  PROVE  Keeping(id)'
<1>1. PICK W \in SUBSET {w \in Threads : worker[w].step = "none"} :
        worker' = [w \in Threads |-> IF w \in W THEN Idle ELSE worker[w]]
  BY DEF start
<1>2. Idle.step = "loop"
  BY Records
<1>3. \A o : AwaitsRetry(o)' <=> AwaitsRetry(o)
  BY <1>1, <1>2 DEF AwaitsRetry
<1>4. Copies(id)' = Copies(id) /\ Sound(id)' = Sound(id)
  BY <1>3 DEF start, Copies, Live, Sound, Failing
<1>5. Pending(id) = 0 /\ Pending(id)' = 1 /\ starts' = starts + 1 /\ failed' = failed
  BY DEF start, Pending
<1>6. id \in Ids
  BY DEF Ids
<1> QED
  BY <1>4, <1>5, <1>6, Counted DEF Keeping

\* The task start() had still to schedule is there.
LEMMA KeepingSchedule ==
  ASSUME TypeOK, Placed, NEW id \in Periodic, Keeping(id), NEW i \in Periodic, schedule_periodic(i)
  PROVE  Keeping(id)'
<1>1. /\ id \in Ids /\ i \in Ids /\ initialDelay[i] \in Nat /\ CanCreate /\ i \in schedule
      /\ schedule' = schedule \ {i} /\ UNCHANGED <<starts, worker, failed>>
      /\ task' = [task EXCEPT ![Fresh] = NewTask(i, initialDelay[i])]
  BY TasksConstants DEF schedule_periodic, Ids
<1>2. /\ Fresh \in Objects /\ task[Fresh] = None /\ Fresh \notin Copies(id)
      /\ Copies(id)' = IF i = id THEN Copies(id) \cup {Fresh} ELSE Copies(id)
  BY <1>1, CopiesNew
<1>3. \A o : AwaitsRetry(o)' <=> AwaitsRetry(o)
  BY <1>1 DEF AwaitsRetry
<1>4. CASE i # id
  BY <1>1, <1>2, <1>3, <1>4, KeepingFrame
<1>5. CASE i = id
  <2> DEFINE f == Fresh
  <2>1. ~AwaitsRetry(f)
    BY <1>2, DeadIsNowhere DEF AwaitsRetry, InHand, Holding
  <2> HIDE DEF f
  <2>2. Copies(id)' = Copies(id) \cup {f} /\ f \notin Copies(id)
    BY <1>2, <1>5 DEF f
  <2>3. Sound(id)' = Sound(id) \cup {f} /\ f \notin Sound(id)
    BY <2>1, <2>2, <1>3 DEF Sound, Failing
  <2>4. /\ Cardinality(Copies(id)') = Cardinality(Copies(id)) + 1
        /\ Cardinality(Sound(id)') = Cardinality(Sound(id)) + 1
    BY <2>2, <2>3, <1>1, Counted, FS_AddElement
  <2>5. Pending(id) = 1 /\ Pending(id)' = 0
    BY <1>1, <1>5 DEF Pending
  <2> QED
    BY <2>4, <2>5, <1>1, Counted DEF Keeping
<1> QED
  BY <1>4, <1>5

\* A task of a view or a signal is of another id.
LEMMA KeepingSubmit ==
  ASSUME TypeOK, NEW id \in Periodic, Keeping(id), NEW i \in OneShot, submit(i)
  PROVE  Keeping(id)'
<1>1. id \in Ids /\ i \in Ids /\ i # id /\ CanCreate /\ UNCHANGED <<schedule, starts, worker, failed>>
      /\ task' = [task EXCEPT ![Fresh] = NewTask(i, 0)] /\ 0 \in Nat
  BY TasksConstants DEF submit, Ids
<1>2. Copies(id)' = Copies(id)
  BY <1>1, CopiesNew
<1>3. \A o : AwaitsRetry(o)' <=> AwaitsRetry(o)
  BY <1>1 DEF AwaitsRetry
<1> QED
  BY <1>1, <1>2, <1>3, KeepingFrame

\* Steps in which nothing is made, executed or judged.
LEMMA KeepingLook ==
  ASSUME TypeOK, NEW id \in Periodic, Keeping(id), NEW w \in Threads,
         Loop(w) \/ Scan(w) \/ Pop(w) \/ Judge(w)
  PROVE  Keeping(id)'
<1>1. /\ UNCHANGED <<task, starts, schedule, failed>>
      /\ worker[w].step # "retry" /\ worker[w].at \in 1..Levels
  BY DEF Loop, Scan, Pop, Judge, TypeOK, Worker
<1>2. \E r : r.step # "retry" /\ worker' = [worker EXCEPT ![w] = r]
  <2> DEFINE k == worker[w].at
  <2>1. /\ Idle.step # "retry" /\ Beyond(k).step # "retry"
        /\ \A s, j, o : At(s, j, o).step = s
    BY <1>1, Records DEF At
  <2>2. CASE Loop(w)
    BY <2>1, <2>2 DEF Loop
  <2>3. CASE Scan(w)
    BY <2>1, <2>3 DEF Scan
  <2>4. CASE Pop(w)
    BY <2>1, <2>4 DEF Pop
  <2>5. CASE Judge(w)
    BY <2>1, <2>5 DEF Judge
  <2> QED
    BY <2>2, <2>3, <2>4, <2>5
<1>3. PICK r : r.step # "retry" /\ worker' = [worker EXCEPT ![w] = r]
  BY <1>2
<1>4. Copies(id)' = Copies(id)
  BY <1>1 DEF Copies, Live
<1> QED
  BY <1>1, <1>3, <1>4, SameAwaits, KeepingFrame

\* A one-shot task ends or raises.
LEMMA KeepingOneShot ==
  ASSUME TypeOK, Placed, NEW id \in Periodic, Keeping(id), NEW w \in Threads, NEW o,
         o = worker[w].obj, Return(w) \/ Raise(w)
  PROVE  Keeping(id)'
<1>1. /\ worker[w].step = "run" /\ task[o].id \in OneShot /\ task[o].id # id /\ id \in Ids
      /\ o \in Objects /\ o \in Live /\ UNCHANGED <<starts, schedule>>
  BY InTheHand, TasksConstants DEF Return, Raise, Ids
<1>2. failed'[id] = failed[id]
  BY <1>1 DEF Return, Raise, TypeOK
<1>3. /\ Copies(id)' = Copies(id) /\ o \notin Copies(id)
  <2>1. \A x \in Objects : x # o => task'[x] = task[x]
    BY <1>1 DEF Return, Raise, TypeOK
  <2>2. task'[o] = None \/ task'[o] = task[o]
    BY <1>1 DEF Return, Raise, TypeOK
  <2> QED
    BY <1>1, <2>1, <2>2 DEF Copies, Live
<1>4. \A x \in Copies(id) : AwaitsRetry(x)' <=> AwaitsRetry(x)
  <2>1. \E r \in Worker : worker' = [worker EXCEPT ![w] = r] /\ r.obj \in {None, o}
    <3>1. Idle \in Worker /\ Idle.obj = None /\ At("retry", 1, o) \in Worker /\ At("retry", 1, o).obj = o
      BY <1>1, Records, Written DEF Steps
    <3> QED
      BY <3>1 DEF Return, Raise
  <2>2. \A x \in Copies(id) : x # None /\ x # o
    BY <1>3, TasksConstants DEF Copies, Live
  <2> QED
    BY <2>1, <2>2, <1>1, OtherAttempts
<1> QED
  BY <1>1, <1>2, <1>3, <1>4, KeepingFrame

\* What a thread that executes a periodic task knows of it and of the new one.
LEMMA PeriodicInHand ==
  ASSUME TypeOK, Placed, NEW w \in Threads, worker[w].step = "run", CanCreate,
         NEW o, o = worker[w].obj, NEW f, f = Fresh
  PROVE  /\ o \in Objects /\ o \in Live /\ f \in Objects /\ f # o /\ task[f] = None
         /\ ~AwaitsRetry(o) /\ ~AwaitsRetry(f)
<1>1. o \in Objects /\ o \in Live /\ InHand(w, o) /\ \A v \in Threads : InHand(v, o) => v = w
  BY InTheHand
<1>2. f \in Objects /\ task[f] = None /\ f # o
  BY <1>1, FreshObject DEF Live
<1>3. ~AwaitsRetry(o)
  BY <1>1 DEF AwaitsRetry, InHand, Holding
<1>4. ~AwaitsRetry(f)
  BY <1>2, DeadIsNowhere DEF AwaitsRetry, InHand, Holding
<1> QED
  BY <1>1, <1>2, <1>3, <1>4

\* A periodic function that ends well leaves a new task for the one it was.
LEMMA KeepingReturn ==
  ASSUME TypeOK, Placed, NEW id \in Periodic, Keeping(id), NEW w \in Threads,
         Return_Periodic(w), NEW o, o = worker[w].obj, NEW f, f = Fresh
  PROVE  Keeping(id)'
<1> DEFINE i == task[o].id
           n == NewTask(i, period[i])
<1>1. /\ worker[w].step = "run" /\ CanCreate /\ i \in Periodic /\ i \in Ids /\ id \in Ids
      /\ UNCHANGED <<starts, schedule, failed>> /\ worker' = [worker EXCEPT ![w] = Idle]
      /\ task' = [task EXCEPT ![o] = None, ![f] = n]
  BY DEF Return_Periodic, Ids
<1>2. /\ o \in Objects /\ o \in Live /\ f \in Objects /\ f # o /\ task[f] = None
      /\ ~AwaitsRetry(o) /\ ~AwaitsRetry(f)
  BY <1>1, PeriodicInHand
<1>3. n.id = i /\ n # None
  BY <1>1, NewTyped, TasksConstants
<1> HIDE DEF n
<1>4. task'[f] = n /\ task'[o] = None /\ \A x \in Objects : x # f /\ x # o => task'[x] = task[x]
  BY <1>1, <1>2 DEF TypeOK
<1>5. \A x : AwaitsRetry(x)' <=> AwaitsRetry(x)
  BY <1>1, Records, SameAwaits
<1>6. CASE i # id
  <2>1. Copies(id)' = Copies(id)
    BY <1>2, <1>3, <1>4, <1>6 DEF Copies, Live
  <2> QED
    BY <2>1, <1>1, <1>5, KeepingFrame
<1>7. CASE i = id
  <2>1. Copies(id)' = (Copies(id) \ {o}) \cup {f} /\ o \in Copies(id) /\ f \notin Copies(id)
    BY <1>2, <1>3, <1>4, <1>7 DEF Copies, Live
  <2>2. Sound(id)' = (Sound(id) \ {o}) \cup {f} /\ o \in Sound(id) /\ f \notin Sound(id)
    BY <2>1, <1>2, <1>5 DEF Sound, Failing
  <2>0. IsFiniteSet(Copies(id)) /\ IsFiniteSet(Sound(id))
    BY <1>1, Counted
  <2>3. /\ Cardinality((Copies(id) \ {o}) \cup {f}) = Cardinality(Copies(id))
        /\ Cardinality((Sound(id) \ {o}) \cup {f}) = Cardinality(Sound(id))
    BY <2>1, <2>2, <2>0, Swapped
  <2>4. Pending(id)' = Pending(id)
    BY <1>1 DEF Pending
  <2> QED
    BY <2>1, <2>2, <2>3, <2>4, <1>1 DEF Keeping
<1> QED
  BY <1>6, <1>7

\* One that raises leaves a new task and a failed execution.
LEMMA KeepingRaise ==
  ASSUME TypeOK, Placed, NEW id \in Periodic, Keeping(id), NEW w \in Threads,
         Raise_Periodic(w), NEW o, o = worker[w].obj, NEW f, f = Fresh
  PROVE  Keeping(id)'
<1> DEFINE i == task[o].id
           n == NewTask(i, period[i])
           r == At("retry", 1, o)
<1>1. /\ worker[w].step = "run" /\ CanCreate /\ i \in Periodic /\ i \in Ids /\ id \in Ids
      /\ UNCHANGED <<starts, schedule>> /\ worker' = [worker EXCEPT ![w] = r]
      /\ task' = [task EXCEPT ![f] = n] /\ failed' = [failed EXCEPT ![i] = failed[i] + 1]
  BY DEF Raise_Periodic, Ids
<1>2. /\ o \in Objects /\ o \in Live /\ f \in Objects /\ f # o /\ task[f] = None
      /\ ~AwaitsRetry(o) /\ ~AwaitsRetry(f)
  BY <1>1, PeriodicInHand
<1>3. n.id = i /\ n # None
  BY <1>1, NewTyped, TasksConstants
<1>4. r \in Worker /\ r.step = "retry" /\ r.obj = o
  BY <1>2, Written, Records DEF Steps
<1> HIDE DEF n, r
<1>5. task'[f] = n /\ \A x \in Objects : x # f => task'[x] = task[x]
  BY <1>1, <1>2 DEF TypeOK
<1>6. AwaitsRetry(o)' /\ \A x : x # o => (AwaitsRetry(x)' <=> AwaitsRetry(x))
  <2>1. worker'[w] = r
    BY <1>1, <1>4, Hands
  <2>2. AwaitsRetry(o)'
    BY <2>1, <1>4 DEF AwaitsRetry
  <2> QED
    BY <2>2, <1>1, <1>4, OtherAttempts
<1>7. CASE i # id
  <2>1. Copies(id)' = Copies(id) /\ o \notin Copies(id)
    BY <1>2, <1>3, <1>5, <1>7 DEF Copies, Live
  <2>2. failed'[id] = failed[id]
    BY <1>1, <1>7 DEF TypeOK
  <2> QED
    BY <2>1, <2>2, <1>1, <1>6, KeepingFrame
<1>8. CASE i = id
  <2>1. Copies(id)' = Copies(id) \cup {f} /\ o \in Copies(id) /\ f \notin Copies(id)
    BY <1>2, <1>3, <1>5, <1>8 DEF Copies, Live
  <2>2. Sound(id)' = (Sound(id) \ {o}) \cup {f} /\ o \in Sound(id) /\ f \notin Sound(id)
    BY <2>1, <1>2, <1>6 DEF Sound, Failing
  <2>0. IsFiniteSet(Copies(id)) /\ IsFiniteSet(Sound(id))
    BY <1>1, Counted
  <2>3. /\ Cardinality(Copies(id) \cup {f}) = Cardinality(Copies(id)) + 1
        /\ Cardinality((Sound(id) \ {o}) \cup {f}) = Cardinality(Sound(id))
    <3>1. Cardinality(Copies(id) \cup {f}) = Cardinality(Copies(id)) + 1
      BY <2>1, <2>0, FS_AddElement
    <3>2. Cardinality((Sound(id) \ {o}) \cup {f}) = Cardinality(Sound(id))
      BY <2>2, <2>0, Swapped
    <3> QED
      BY <3>1, <3>2
  <2>4. Pending(id)' = Pending(id) /\ failed'[id] = failed[id] + 1
    BY <1>1, <1>8 DEF Pending, TypeOK
  <2> QED
    BY <2>1, <2>2, <2>3, <2>4, <1>1, Counted DEF Keeping
<1> QED
  BY <1>7, <1>8

\* The except clause queues the failed execution again or gives it up.
LEMMA KeepingRetry ==
  ASSUME TypeOK, Placed, NEW id \in Periodic, Keeping(id), NEW w \in Threads, Retry(w),
         NEW o, o = worker[w].obj
  PROVE  Keeping(id)'
<1> DEFINE i == task[o].id
           c == task[o].retry_count
           m == IF c < max_retries THEN [task[o] EXCEPT !.retry_count = c + 1, !.wait = backoff(c + 1)] ELSE None
<1>1. /\ worker[w].step = "retry" /\ o \in Live /\ o \in Objects /\ task[o] \in Task /\ id \in Ids
      /\ worker' = [worker EXCEPT ![w] = Idle] /\ UNCHANGED <<starts, schedule, failed>>
      /\ \A v \in Threads : InHand(v, o) => v = w
  BY InTheHand DEF Retry, Ids
<1>2. task' = [task EXCEPT ![o] = m]
  <2>1. CASE c < max_retries
    BY <2>1, <1>1 DEF Retry
  <2>2. CASE ~(c < max_retries)
    BY <2>2, <1>1 DEF Retry
  <2> QED
    BY <2>1, <2>2
<1>3. m # None => m.id = i
  BY <1>1 DEF Task
<1> HIDE DEF m
<1>4. task'[o] = m /\ \A x \in Objects : x # o => task'[x] = task[x]
  BY <1>1, <1>2 DEF TypeOK
<1>5. AwaitsRetry(o) /\ ~AwaitsRetry(o)' /\ \A x \in Objects : x # o => (AwaitsRetry(x)' <=> AwaitsRetry(x))
  <2>1. Idle \in Worker /\ Idle.step = "loop" /\ Idle.obj = None
    BY Records
  <2>2. worker'[w] = Idle /\ \A v \in Threads : v # w => worker'[v] = worker[v]
    BY <1>1, <2>1, Hands
  <2>3. AwaitsRetry(o) /\ ~AwaitsRetry(o)'
    BY <1>1, <2>1, <2>2 DEF AwaitsRetry, InHand, Holding
  <2>4. \A x \in Objects : x # None
    BY TasksConstants
  <2> QED
    BY <2>1, <2>3, <2>4, <1>1, OtherAttempts
<1>6. CASE i # id
  <2>1. Copies(id)' = Copies(id) /\ \A x \in Copies(id) : x \in Objects /\ x # o
    BY <1>1, <1>3, <1>4, <1>6 DEF Copies, Live
  <2> QED
    BY <2>1, <1>1, <1>5, KeepingFrame
<1>7. CASE i = id
  <2>1. Copies(id)' = (IF m = None THEN Copies(id) \ {o} ELSE Copies(id)) /\ o \in Copies(id)
    BY <1>1, <1>3, <1>4, <1>7 DEF Copies, Live
  <2>2. Sound(id)' = (IF m = None THEN Sound(id) ELSE Sound(id) \cup {o}) /\ o \notin Sound(id)
    BY <2>1, <1>5 DEF Sound, Failing, Copies, Live
  <2>3. /\ Cardinality(Copies(id)') <= Cardinality(Copies(id))
        /\ Cardinality(Copies(id)') \in Nat
        /\ Cardinality(Sound(id)') >= Cardinality(Sound(id))
        /\ Cardinality(Sound(id)') \in Nat
    <3>1. /\ IsFiniteSet(Copies(id)) /\ IsFiniteSet(Sound(id))
          /\ Cardinality(Copies(id)) \in Nat /\ Cardinality(Sound(id)) \in Nat
      BY <1>1, Counted
    <3>2. Cardinality(Copies(id) \ {o}) = Cardinality(Copies(id)) - 1
          /\ Cardinality(Copies(id) \ {o}) \in Nat
      BY <2>1, <3>1, FS_RemoveElement, FS_CardinalityType
    <3>3. Cardinality(Sound(id) \cup {o}) = Cardinality(Sound(id)) + 1
      BY <2>2, <3>1, FS_AddElement
    <3> QED
      BY <2>1, <2>2, <3>1, <3>2, <3>3
  <2>4. Pending(id)' = Pending(id)
    BY <1>1 DEF Pending
  <2> QED
    BY <2>3, <2>4, <1>1, Counted DEF Keeping
<1> QED
  BY <1>6, <1>7

\* Time passes, the manager is stopped: no task is made or ends.
LEMMA KeepingOther ==
  ASSUME TypeOK, NEW id \in Periodic, Keeping(id), Tick \/ stop \/ UNCHANGED vars
  PROVE  Keeping(id)'
<1>1. UNCHANGED <<starts, schedule, failed, worker>>
  BY DEF Tick, stop, vars
<1>2. Copies(id)' = Copies(id)
  <2>1. \A o \in Objects : /\ task'[o] = None <=> task[o] = None
                           /\ task[o] # None => task'[o].id = task[o].id
    <3> TAKE o \in Objects
    <3>1. CASE Tick /\ o \in Live /\ task[o].wait > 0
      <4>1. task'[o] = [task[o] EXCEPT !.wait = @ - 1] /\ task[o] \in Task /\ task[o].wait - 1 \in Nat
        BY <3>1, Types DEF Tick, Task
      <4>2. task'[o] \in Task /\ task'[o].id = task[o].id
        BY <4>1 DEF Task
      <4> QED
        BY <4>2, <3>1, TasksConstants DEF Live
    <3>2. CASE ~(Tick /\ o \in Live /\ task[o].wait > 0)
      BY <3>2 DEF Tick, stop, vars
    <3> QED
      BY <3>1, <3>2
  <2> QED
    BY <2>1 DEF Copies, Live
<1>3. \A o : AwaitsRetry(o)' <=> AwaitsRetry(o)
  BY <1>1 DEF AwaitsRetry
<1> QED
  BY <1>1, <1>2, <1>3, KeepingFrame

\* PeriodicKept is inductive, given the types and the places.
LEMMA KeptStep == TypeOK /\ Placed /\ PeriodicKept /\ [Next]_vars => PeriodicKept'
<1> SUFFICES ASSUME TypeOK, Placed, PeriodicKept, [Next]_vars, NEW id \in Periodic
             PROVE  Keeping(id)'
  BY DEF PeriodicKept, Keeping, Sound, Pending, Copies, Failing, AwaitsRetry, Live
<1>1. Keeping(id)
  BY DEF PeriodicKept, Keeping, Sound
<1>2. ASSUME NEW w \in Threads, Step(w) PROVE Keeping(id)'
  BY <1>1, <1>2, KeepingLook, KeepingOneShot, KeepingReturn, KeepingRaise, KeepingRetry
     DEF Step, Execute
<1> QED
  BY <1>1, <1>2, KeepingOther, KeepingStart, KeepingSchedule, KeepingSubmit DEF Next

\* It holds at the start.
LEMMA KeptBegins == Init => PeriodicKept
<1> SUFFICES ASSUME Init, NEW id \in Periodic PROVE Keeping(id)
  BY DEF PeriodicKept, Keeping, Sound
<1>1. Copies(id) = {} /\ Sound(id) = {}
  BY DEF Init, Copies, Live, Sound
<1>2. starts = 0 /\ Pending(id) = 0 /\ failed[id] = 0
  BY DEF Init, Pending, Ids
<1> QED
  BY <1>1, <1>2, FS_EmptySet DEF Keeping

-----------------------------------------------------------------------------
(* Nothing is executed before its time *)

\* What is in the hands of a thread that executes changes its wait in no step
\* of another thread.
LEMMA DueFrame ==
  ASSUME TypeOK, Placed, NEW w \in Threads, worker[w].step = "run",
         NEW v \in Threads, v # w, Step(v)
  PROVE  task'[worker[w].obj] = task[worker[w].obj]
<1> DEFINE o == worker[w].obj
           x == worker[v].obj
<1>1. o \in Objects /\ task[o] # None /\ InHand(w, o)
  BY InTheHand
<1>2. CanCreate => Fresh # o
  BY <1>1, FreshObject
<1>3. CASE Loop(v) \/ Scan(v) \/ Pop(v) \/ Judge(v)
  BY <1>3 DEF Loop, Scan, Pop, Judge
<1>4. CASE Execute(v)
  <2>1. worker[v].step \in {"run", "retry"}
    BY <1>4 DEF Execute, Return, Raise, Return_Periodic, Raise_Periodic, Retry
  <2>2. x # o
    <3>1. InHand(v, x)
      BY <2>1, InTheHand
    <3> QED
      BY <3>1, <1>1 DEF Placed
  <2>3. task \in [Objects -> Task \cup {None}]
    BY DEF TypeOK
  <2> QED
    BY <1>1, <1>2, <1>4, <2>2, <2>3 DEF Execute, Return, Raise, Return_Periodic, Raise_Periodic, Retry
<1> QED
  BY <1>3, <1>4 DEF Step

\* A thread comes to execute by judging the task due.
LEMMA DueStep == TypeOK /\ Placed /\ RunsWhenDue /\ [Next]_vars => RunsWhenDue'
<1> SUFFICES ASSUME TypeOK, Placed, RunsWhenDue, [Next]_vars,
                    NEW w \in Threads, worker'[w].step = "run"
             PROVE  task'[worker'[w].obj].wait = 0
  BY DEF RunsWhenDue
<1> DEFINE o == worker[w].obj
<1>1. ASSUME worker[w].step = "run" PROVE o \in Objects /\ task[o] # None /\ task[o].wait = 0
  BY <1>1, InTheHand DEF RunsWhenDue
<1>2. ASSUME NEW v \in Threads, Step(v) PROVE task'[worker'[w].obj].wait = 0
  <2>1. PICK r : worker' = [worker EXCEPT ![v] = r]
    BY <1>2 DEF Step, Execute, Loop, Scan, Pop, Judge, Return, Raise, Return_Periodic,
                Raise_Periodic, Retry
  <2>2. CASE v # w
    <3>1. worker'[w] = worker[w]
      BY <2>1, <2>2 DEF TypeOK
    <3> QED
      BY <3>1, <2>2, <1>1, <1>2, DueFrame
  <2>3. CASE v = w
    <3>1. \A k : At("scan", k, None).step # "run" /\ At("pop", k, None).step # "run" /\ Idle.step # "run"
                 /\ At("gone", k, None).step # "run" /\ Beyond(k).step # "run"
                 /\ \A x : /\ At("judge", k, x).step # "run" /\ At("retry", k, x).step # "run"
                           /\ At("run", k, x).obj = x
      BY DEF At, Idle, Beyond
    <3>2. \A s : worker' = [worker EXCEPT ![w] = s] => worker'[w] = s
      BY DEF TypeOK
    <3>3. Judge(w)
      <4> DEFINE k == worker[w].at
      <4>1. worker \in [Threads -> Worker]
        BY DEF TypeOK
      <4>2. ASSUME Loop(w) PROVE FALSE
        <5>1. worker'[w] \in {At("scan", 1, None), At("gone", 1, None)}
          BY <4>1, <4>2 DEF Loop
        <5> QED
          BY <5>1, <3>1
      <4>3. ASSUME Scan(w) PROVE FALSE
        <5>1. worker'[w] \in {Beyond(k), At("pop", k, None)}
          BY <4>1, <4>3 DEF Scan
        <5> QED
          BY <5>1, <3>1
      <4>4. ASSUME Pop(w) PROVE FALSE
        <5>1. worker'[w] = Idle \/ \E x : worker'[w] = At("judge", k, x)
          BY <4>1, <4>4 DEF Pop
        <5> QED
          BY <5>1, <3>1
      <4>5. ASSUME Execute(w) PROVE FALSE
        <5>1. worker'[w] = Idle \/ \E x : worker'[w] = At("retry", 1, x)
          BY <4>1, <4>5 DEF Execute, Return, Raise, Return_Periodic, Raise_Periodic, Retry
        <5> QED
          BY <5>1, <3>1
      <4> QED
        BY <4>2, <4>3, <4>4, <4>5, <1>2, <2>3 DEF Step
    <3>4. task[o].wait = 0 /\ worker'[w].obj = o /\ task' = task
      <4> DEFINE k == worker[w].at
      <4>1. CASE task[o].wait = 0
        <5>1. worker' = [worker EXCEPT ![w] = At("run", k, o)] /\ task' = task
          BY <3>3, <4>1 DEF Judge
        <5> QED
          BY <5>1, <4>1, <3>1, <3>2
      <4>2. CASE task[o].wait # 0
        <5>1. worker' = [worker EXCEPT ![w] = Beyond(k)]
          BY <3>3, <4>2 DEF Judge
        <5> QED
          BY <5>1, <3>1, <3>2
      <4> QED
        BY <4>1, <4>2
    <3> QED
      BY <3>4
  <2> QED
    BY <2>2, <2>3
<1>3. ASSUME UNCHANGED worker, worker[w].step = "run" => task'[o].wait = 0
      PROVE  task'[worker'[w].obj].wait = 0
  BY <1>3
<1>4. ASSUME start PROVE task'[worker'[w].obj].wait = 0
  <2>1. worker[w].step = "run" /\ worker'[w] = worker[w] /\ UNCHANGED task
    BY <1>4 DEF start, Idle
  <2> QED
    BY <2>1, <1>1
<1>5. ASSUME NEW id \in Ids, NEW d, CanCreate, task' = [task EXCEPT ![Fresh] = NewTask(id, d)], UNCHANGED worker
      PROVE  task'[worker'[w].obj].wait = 0
  <2>1. o # Fresh
    BY <1>1, <1>5, FreshObject
  <2>2. task'[o] = task[o]
    BY <2>1, <1>1, <1>5 DEF TypeOK
  <2> QED
    BY <2>2, <1>1, <1>5
<1>6. ASSUME NEW id \in Periodic, schedule_periodic(id) PROVE task'[worker'[w].obj].wait = 0
  BY <1>5, <1>6 DEF schedule_periodic, Ids
<1>7. ASSUME NEW id \in OneShot, submit(id) PROVE task'[worker'[w].obj].wait = 0
  BY <1>5, <1>7 DEF submit, Ids
<1>8. ASSUME Tick PROVE task'[worker'[w].obj].wait = 0
  BY <1>1, <1>3, <1>8 DEF Tick
<1>9. ASSUME stop \/ UNCHANGED vars PROVE task'[worker'[w].obj].wait = 0
  BY <1>1, <1>3, <1>9 DEF stop, vars
<1> QED
  BY <1>2, <1>4, <1>6, <1>7, <1>8, <1>9 DEF Next

-----------------------------------------------------------------------------
(* The theorems *)

\* Every reachable state is well typed, and no task is attempted past max_retries.
THEOREM TasksTyped == Spec => []TypeOK
<1>1. Spec => [](TypeOK /\ Placed)
  BY Begins, TypeStep, PlacedStep, PTL DEF Spec
<1> QED
  BY <1>1, PTL

\* Whatever the interleaving of any number of threads, and however often the
\* manager is restarted, no task is lost from the deques or queued twice.
THEOREM TasksOnce == Spec => []EachTaskOnce
<1>1. Spec => [](TypeOK /\ Placed)
  BY Begins, TypeStep, PlacedStep, PTL DEF Spec
<1> QED
  BY <1>1, PlacedIsOnce, PTL

\* A task that a view or a signal submits is carried out once or tried
\* max_retries + 1 times, whatever the threads and restarts.
THEOREM TasksSettled == Spec => []OneShotSettledOnce
<1>1. Spec => [](TypeOK /\ Placed /\ OneShotSettledOnce)
  BY Begins, SettledBegins, TypeStep, PlacedStep, SettledStep, PTL DEF Spec
<1> QED
  BY <1>1, PTL

\* A periodic task never dies out, and each of its failures leaves at most one
\* Task more, whatever the threads and restarts.
THEOREM TasksKept == Spec => []PeriodicKept
<1>1. Spec => [](TypeOK /\ Placed /\ PeriodicKept)
  BY Begins, KeptBegins, TypeStep, PlacedStep, KeptStep, PTL DEF Spec
<1> QED
  BY <1>1, PTL

\* Whatever the interleaving of any number of threads, nothing is executed
\* before the time it was scheduled for.
THEOREM TasksWait == Spec => []RunsWhenDue
<1>1. Init => RunsWhenDue
  BY DEF Init, RunsWhenDue
<1>2. Spec => [](TypeOK /\ Placed /\ RunsWhenDue)
  BY <1>1, Begins, TypeStep, PlacedStep, DueStep, PTL DEF Spec
<1> QED
  BY <1>2, PTL
=============================================================================
