-------------------------- MODULE Providers_proofs --------------------------
(***************************************************************************)
(* Proofs about Providers, for any rows, processes, administrators and         *)
(* coroutines.                                                                 *)
(***************************************************************************)
EXTENDS Providers, TLAPS

\* What the proofs use of the constants.
LEMMA Constants ==
  /\ None \notin Names /\ None \notin Row /\ Pages \subseteq Admins /\ Listeners \subseteq Procs
  /\ Home \in [Clients -> Procs]
  /\ MaxChanges \in Nat /\ MaxFaults \in Nat
  /\ Forms \subseteq Row
  /\ Start \in [Names -> Row \cup {None}]
  /\ \A m, n \in Names :
       Start[m] # None /\ Start[n] # None /\ Start[m].primary /\ Start[n].primary => m = n
BY ProviderConstants DEF ProviderConstants, Row

\* A counter that stays under its bound.
LEMMA CounterStays ==
  ASSUME NEW k \in Nat, NEW n \in 0..k, n < k
  PROVE  n + 1 \in 0..k
OBVIOUS

\* A new value at one place of a function.
LEMMA OneChanges ==
  ASSUME NEW S, NEW T, NEW f \in [S -> T], NEW x \in S, NEW e \in T, NEW g,
         g = [f EXCEPT ![x] = e]
  PROVE  g \in [S -> T] /\ g[x] = e /\ \A y \in S \ {x} : g[y] = f[y]
OBVIOUS

(***************************************************************************)
(* The records                                                              *)
(***************************************************************************)

LEMMA RowFields ==
  ASSUME NEW r \in Row, NEW b \in BOOLEAN
  PROVE  /\ [r EXCEPT !.primary = b] \in Row /\ [r EXCEPT !.active = b] \in Row
         /\ [r EXCEPT !.active = ~@] \in Row
         /\ [r EXCEPT !.primary = b].primary = b
         /\ r.active \in BOOLEAN /\ r.primary \in BOOLEAN
BY DEF Row

LEMMA NoRequestTyped ==
  /\ NoRequest \in Request /\ NoRequest.step = "idle" /\ NoRequest.name = None
  /\ NoRequest.new = None /\ NoRequest.others = {}
BY DEF NoRequest, Request, AdminSteps

\* A request that goes on.
LEMMA RequestGoesOn ==
  ASSUME NEW p \in Request, NEW step \in AdminSteps
  PROVE  LET e == [p EXCEPT !.step = step]
         IN /\ e \in Request /\ e.step = step /\ e.name = p.name /\ e.new = p.new
            /\ e.others = p.others
BY DEF Request

(***************************************************************************)
(* What a request of an administrator knows: the row it saves, and, in a page, the *)
(* rows it unsets, which it has locked.                                         *)
(***************************************************************************)
Sound(a) ==
  /\ admin[a].step = "idle" => admin[a] = NoRequest
  /\ admin[a].step # "idle" => admin[a].name \in Names
  /\ a \in Pages => admin[a].step \in {"idle", "publish", "commit"}
  /\ a \notin Pages =>
       /\ admin[a].step # "commit" /\ admin[a].others = {}
       /\ admin[a].step # "idle" => admin[a].new \in Row
       /\ admin[a].step = "clear" => admin[a].new.primary

LockedBy(a) == admin[a].others \cup {admin[a].name}

Apart == \A a, b \in Pages : a # b => LockedBy(a) \cap admin[b].others = {}

LockedExist == \A a \in Pages : \A n \in admin[a].others : row[n] # None

Base == TypeOK /\ (\A a \in Admins : Sound(a)) /\ Apart /\ LockedExist

\* Only request a changes.
Only(a) ==
  /\ admin' \in [Admins -> Request]
  /\ \A b \in Admins \ {a} : admin'[b] = admin[b]

\* Request a begins to save new to row n.
Begins(a, step, n, new, others) ==
  /\ Only(a) /\ admin'[a].step = step /\ admin'[a].name = n
  /\ admin'[a].new = new /\ admin'[a].others = others

GoesOn(a, step) ==
  Begins(a, step, admin[a].name, admin[a].new, admin[a].others)

Ends(a) == Only(a) /\ admin'[a] = NoRequest

LEMMA Continues ==
  ASSUME admin \in [Admins -> Request], NEW a \in Admins, NEW step \in AdminSteps,
         admin' = [admin EXCEPT ![a].step = step]
  PROVE  GoesOn(a, step)
<1> DEFINE e == [admin[a] EXCEPT !.step = step]
<1>1. /\ e \in Request /\ e.step = step /\ e.name = admin[a].name
      /\ e.new = admin[a].new /\ e.others = admin[a].others
  BY RequestGoesOn
<1>2. admin' = [admin EXCEPT ![a] = e] OBVIOUS
<1> HIDE DEF e
<1>3. Only(a) /\ admin'[a] = e BY <1>1, <1>2, OneChanges DEF Only
<1> QED BY <1>1, <1>3 DEF GoesOn, Begins

LEMMA Finishes ==
  ASSUME admin \in [Admins -> Request], NEW a \in Admins,
         admin' = [admin EXCEPT ![a] = NoRequest]
  PROVE  Ends(a)
BY NoRequestTyped DEF Ends, Only

LEMMA Starts ==
  ASSUME admin \in [Admins -> Request], NEW a \in Admins,
         NEW step \in AdminSteps, NEW n \in Names, NEW r \in Row \cup {None},
         NEW o \in SUBSET Names,
         admin' = [admin EXCEPT ![a] =
           [NoRequest EXCEPT !.step = step, !.name = n, !.new = r, !.others = o]]
  PROVE  Begins(a, step, n, r, o)
<1> DEFINE e == [NoRequest EXCEPT !.step = step, !.name = n, !.new = r, !.others = o]
<1>1. e \in Request /\ e.step = step /\ e.name = n /\ e.new = r /\ e.others = o
  BY DEF NoRequest, Request
<1>2. admin' = [admin EXCEPT ![a] = e] OBVIOUS
<1> HIDE DEF e
<1>3. Only(a) /\ admin'[a] = e BY <1>1, <1>2, OneChanges DEF Only
<1> QED BY <1>1, <1>3 DEF Begins

(***************************************************************************)
(* The effect of each action of an administrator                               *)
(***************************************************************************)

LEMMA LoadEffect ==
  ASSUME Base, NEW a \in Admins, Api_Load(a)
  PROVE  /\ \E n \in Names, new \in Row :
              Begins(a, IF new.primary THEN "clear" ELSE "write", n, new, {})
         /\ UNCHANGED row /\ a \notin Pages /\ admin[a].step = "idle"
<1>1. PICK n \in Names : /\ row[n] # None
       /\ \E new \in {row[n], [row[n] EXCEPT !.primary = TRUE],
                      [row[n] EXCEPT !.active = ~@]} :
            admin' = [admin EXCEPT ![a] =
              [NoRequest EXCEPT !.step = IF new.primary THEN "clear" ELSE "write",
                                !.name = n, !.new = new]]
  BY DEF Api_Load
<1>2. row[n] \in Row BY <1>1 DEF Base, TypeOK
<1>3. PICK new \in {row[n], [row[n] EXCEPT !.primary = TRUE],
                   [row[n] EXCEPT !.active = ~@]} :
       admin' = [admin EXCEPT ![a] =
         [NoRequest EXCEPT !.step = IF new.primary THEN "clear" ELSE "write",
                           !.name = n, !.new = new]]
  BY <1>1
<1>4. new \in Row
  <2>1. \A r \in Row : [r EXCEPT !.primary = TRUE] \in Row BY RowFields
  <2>2. \A r \in Row : [r EXCEPT !.active = ~@] \in Row BY RowFields
  <2> QED BY <1>2, <1>3, <2>1, <2>2
<1> DEFINE step == IF new.primary THEN "clear" ELSE "write"
           e == [NoRequest EXCEPT !.step = step, !.name = n, !.new = new]
<1>5. step \in AdminSteps BY DEF AdminSteps
<1> HIDE DEF step
<1>6. e \in Request /\ e.step = step /\ e.name = n /\ e.new = new /\ e.others = {}
  BY <1>4, <1>5 DEF NoRequest, Request
<1>7. admin' = [admin EXCEPT ![a] = e] BY <1>3 DEF step
<1> HIDE DEF e
<1>8. admin \in [Admins -> Request] BY DEF Base, TypeOK
<1>9. Only(a) /\ admin'[a] = e BY <1>6, <1>7, <1>8, OneChanges DEF Only
<1>10. Begins(a, step, n, new, {}) BY <1>6, <1>9 DEF Begins
<1> QED BY <1>4, <1>10 DEF Api_Load, step

LEMMA ClearEffect ==
  ASSUME Base, NEW a \in Admins, Api_Clear(a)
  PROVE  /\ GoesOn(a, "write") /\ a \notin Pages
         /\ admin[a].new \in Row /\ admin[a].new.primary
         /\ row' \in [Names -> Row \cup {None}]
         /\ \A n \in Names : row[n] # None => row'[n] # None
         /\ PrimaryRows' \subseteq {admin[a].name}
<1>1. GoesOn(a, "write") BY Continues DEF Api_Clear, Base, TypeOK, AdminSteps
<1>2. /\ a \notin Pages /\ admin[a].new \in Row /\ admin[a].new.primary
  BY DEF Api_Clear, Base, Sound
<1>3. row \in [Names -> Row \cup {None}] BY DEF Base, TypeOK
<1>4. row' = [n \in Names |-> IF n \in Unset(a) THEN [row[n] EXCEPT !.primary = FALSE]
                             ELSE row[n]]
  BY DEF Api_Clear
<1>5. \A n \in Unset(a) : row[n] \in Row BY <1>3 DEF Unset, PrimaryRows
<1>6. \A n \in Names :
       /\ n \in Unset(a) => row'[n] \in Row /\ ~row'[n].primary
       /\ n \notin Unset(a) => row'[n] = row[n]
  BY <1>4, <1>5, RowFields
<1>7. row' \in [Names -> Row \cup {None}]
  <2>1. \A n \in Names : row'[n] \in Row \cup {None} BY <1>3, <1>6
  <2>2. \E g : row' = [n \in Names |-> g[n]] BY <1>4, <2>1
  <2> QED BY <1>4, <2>1, <2>2
<1>8. \A n \in Names : row[n] # None => row'[n] # None
  <2>1. ASSUME NEW n \in Names, row[n] # None, row'[n] = None PROVE FALSE
    <3>1. n \in Unset(a) BY <1>6, <2>1
    <3>2. row'[n] = [row[n] EXCEPT !.primary = FALSE] BY <1>4, <3>1
    <3>3. row[n] \in Row BY <1>5, <3>1
    <3>4. \A r \in Row : [r EXCEPT !.primary = FALSE] \in Row BY RowFields
    <3> QED BY <2>1, <3>2, <3>3, <3>4, Constants
  <2> QED BY <2>1
<1>9. PrimaryRows' \subseteq {admin[a].name}
  <2>1. ASSUME NEW n \in Names, row'[n] # None, row'[n].primary, n # admin[a].name
        PROVE  FALSE
    <3>1. n \notin Unset(a) BY <1>6, <2>1
    <3>2. row[n] # None /\ row[n].primary BY <1>6, <2>1, <3>1
    <3> QED BY <2>1, <3>1, <3>2 DEF Unset, PrimaryRows
  <2> QED BY <2>1 DEF PrimaryRows
<1> QED BY <1>1, <1>2, <1>7, <1>8, <1>9

LEMMA WriteEffect ==
  ASSUME Base, NEW a \in Admins, Api_Write(a)
  PROVE  /\ a \notin Pages /\ admin[a].step = "write" /\ admin[a].new \in Row
         /\ admin[a].name \in Names
         /\ \/ /\ row' = [row EXCEPT ![admin[a].name] = admin[a].new]
               /\ admin[a].name \notin Locked(a)
               /\ GoesOn(a, "publish") /\ UNCHANGED missed
            \/ /\ UNCHANGED row /\ Ends(a)
               /\ missed' = (missed \/ admin[a].new.primary)
<1>1. admin \in [Admins -> Request] BY DEF Base, TypeOK
<1>2. /\ a \notin Pages /\ admin[a].step = "write" /\ admin[a].new \in Row
      /\ admin[a].name \in Names
  BY DEF Api_Write, Base, Sound
<1>3. admin' = [admin EXCEPT ![a].step = "publish"] => GoesOn(a, "publish")
  BY <1>1, Continues DEF AdminSteps
<1>4. admin' = [admin EXCEPT ![a] = NoRequest] => Ends(a) BY <1>1, Finishes
<1> QED BY <1>2, <1>3, <1>4 DEF Api_Write

LEMMA SaveEffect ==
  ASSUME Base, NEW a \in Admins, Page_Save(a)
  PROVE  /\ a \in Pages /\ admin[a].step = "idle" /\ UNCHANGED row
         /\ \E n \in Names, new \in Row \cup {None}, others \in SUBSET Names :
              /\ Begins(a, IF new = None THEN "commit" ELSE "publish", n, new, others)
              /\ (others \cup {n}) \cap Locked(a) = {}
              /\ others \subseteq PrimaryRows
              /\ new # None /\ new.primary =>
                   /\ PrimaryRows \subseteq others \cup {n}
                   /\ raced' = (raced \/ Races(a))
<1>1. PICK n \in Names, new \in Forms \cup {None} :
       LET others == IF new # None /\ new.primary THEN PrimaryRows \ {n} ELSE {} IN
       /\ new = None => row[n] # None
       /\ (others \cup {n}) \cap Locked(a) = {}
       /\ raced' = (raced \/ (new # None /\ new.primary /\ Races(a)))
       /\ admin' = [admin EXCEPT ![a] =
            [NoRequest EXCEPT !.step = IF new = None THEN "commit" ELSE "publish",
                              !.name = n, !.new = new, !.others = others]]
  BY DEF Page_Save
<1> DEFINE others == IF new # None /\ new.primary THEN PrimaryRows \ {n} ELSE {}
           step == IF new = None THEN "commit" ELSE "publish"
<1>2. new \in Row \cup {None} BY Constants
<1>3. others \in SUBSET Names /\ others \subseteq PrimaryRows BY DEF PrimaryRows
<1>4. step \in AdminSteps BY DEF AdminSteps
<1>5. (others \cup {n}) \cap Locked(a) = {} BY <1>1
<1>6. new # None /\ new.primary =>
       PrimaryRows \subseteq others \cup {n} /\ raced' = (raced \/ Races(a))
  BY <1>1
<1>7. admin' = [admin EXCEPT ![a] =
        [NoRequest EXCEPT !.step = step, !.name = n, !.new = new, !.others = others]]
  BY <1>1
<1>8. admin \in [Admins -> Request] BY DEF Base, TypeOK
<1> HIDE DEF others, step
<1>9. Begins(a, step, n, new, others) BY <1>2, <1>3, <1>4, <1>7, <1>8, Starts
<1>10. a \in Pages /\ admin[a].step = "idle" /\ UNCHANGED row BY DEF Page_Save
<1>11. Begins(a, IF new = None THEN "commit" ELSE "publish", n, new, others)
  BY <1>9 DEF step
<1> QED BY <1>2, <1>3, <1>5, <1>6, <1>10, <1>11

LEMMA PublishEffect ==
  ASSUME Base, NEW a \in Admins, Publish(a)
  PROVE  /\ admin[a].step = "publish" /\ UNCHANGED row
         /\ a \in Pages => GoesOn(a, "commit")
         /\ a \notin Pages => Ends(a)
<1>1. admin \in [Admins -> Request] BY DEF Base, TypeOK
<1>2. a \in Pages => admin' = [admin EXCEPT ![a].step = "commit"]
  BY <1>1 DEF Publish, After
<1>3. a \notin Pages => admin' = [admin EXCEPT ![a] = NoRequest]
  BY DEF Publish, After
<1>4. a \in Pages => GoesOn(a, "commit") BY <1>1, <1>2, Continues DEF AdminSteps
<1>5. a \notin Pages => Ends(a) BY <1>1, <1>3, Finishes
<1> QED BY <1>4, <1>5 DEF Publish

LEMMA CommitEffect ==
  ASSUME Base, NEW a \in Admins, Page_Commit(a)
  PROVE  /\ a \in Pages /\ admin[a].step = "commit" /\ Ends(a)
         /\ admin[a].name \in Names
         /\ row' \in [Names -> Row \cup {None}]
         /\ row'[admin[a].name] = admin[a].new
         /\ \A n \in Names \ LockedBy(a) : row'[n] = row[n]
         /\ \A n \in admin[a].others \ {admin[a].name} : ~row'[n].primary
<1> DEFINE p == admin[a]
<1>1. /\ p \in Request /\ p.step = "commit" /\ a \in Pages /\ p.name \in Names
  BY DEF Page_Commit, Base, TypeOK, Sound
<1>2. Ends(a) BY Finishes DEF Page_Commit, Base, TypeOK
<1>3. p.new \in Row \cup {None} /\ p.others \subseteq Names BY <1>1 DEF Request
<1>4. row' = [n \in Names |->
                IF n = p.name THEN p.new
                ELSE IF n \in p.others THEN [row[n] EXCEPT !.primary = FALSE]
                ELSE row[n]]
  BY DEF Page_Commit
<1>5. row \in [Names -> Row \cup {None}] BY DEF Base, TypeOK
<1>6. \A n \in p.others : row[n] \in Row BY <1>1, <1>3, <1>5 DEF Base, LockedExist
<1>7. \A r \in Row : /\ [r EXCEPT !.primary = FALSE] \in Row
                     /\ [r EXCEPT !.primary = FALSE].primary = FALSE
  BY RowFields
<1>8. \A n \in p.others \ {p.name} : row'[n] \in Row /\ ~row'[n].primary
  BY <1>3, <1>4, <1>6, <1>7
<1>9. row'[p.name] = p.new BY <1>1, <1>4
<1>10. \A n \in Names \ (p.others \cup {p.name}) : row'[n] = row[n] BY <1>4
<1>11. \A n \in Names : row'[n] \in Row \cup {None}
  BY <1>3, <1>5, <1>8, <1>9, <1>10
<1>12. row' \in [Names -> Row \cup {None}] BY <1>4, <1>11
<1> QED BY <1>1, <1>2, <1>8, <1>9, <1>10, <1>12 DEF LockedBy

(***************************************************************************)
(* Types, and what requests know                                                *)
(***************************************************************************)

Requests ==
  /\ row \in [Names -> Row \cup {None}] /\ admin \in [Admins -> Request]
  /\ \A a \in Admins : Sound(a)
  /\ Apart /\ LockedExist

\* A page that locks rows of its own, or goes on, keeps the pages apart.
LEMMA ApartStays ==
  ASSUME Base, NEW a \in Admins, Only(a),
         \/ admin'[a].others \cup {admin'[a].name} = LockedBy(a)
               /\ admin'[a].others = admin[a].others
         \/ (admin'[a].others \cup {admin'[a].name}) \cap Locked(a) = {}
         \/ admin'[a] = NoRequest
         \/ a \notin Pages
  PROVE  Apart'
<1>1. SUFFICES ASSUME NEW b \in Pages, NEW d \in Pages, b # d
               PROVE  (LockedBy(b) \cap admin[d].others = {})'
  BY DEF Apart
<1>2. b \in Admins /\ d \in Admins BY Constants
<1>3. LockedBy(b) \cap admin[d].others = {} /\ LockedBy(d) \cap admin[b].others = {}
  BY <1>1 DEF Base, Apart
<1>4. \A e \in Admins : e # a => admin'[e] = admin[e] BY DEF Only
<1>5. \A e \in Pages \ {a} : LockedBy(e) \subseteq Locked(a) BY DEF Locked, LockedBy
<1>6. None \notin admin[d].others
  BY <1>2, Constants DEF Base, TypeOK, Request
<1>7. CASE b # a /\ d # a BY <1>2, <1>3, <1>4, <1>7 DEF LockedBy
<1>8. CASE b = a
  <2>1. admin'[d] = admin[d] BY <1>1, <1>2, <1>4, <1>8
  <2>2. admin[d].others \subseteq Locked(a) BY <1>1, <1>5, <1>8 DEF LockedBy
  <2>3. admin'[a] = NoRequest => admin'[a].others \cup {admin'[a].name} = {None}
    BY NoRequestTyped
  <2> QED BY <1>3, <1>6, <1>8, <2>1, <2>2, <2>3 DEF LockedBy
<1>9. CASE d = a
  <2>1. admin'[b] = admin[b] BY <1>1, <1>2, <1>4, <1>9
  <2>2. LockedBy(b) \subseteq Locked(a) BY <1>1, <1>5, <1>9
  <2>3. admin'[a] = NoRequest => admin'[a].others = {} BY NoRequestTyped
  <2> QED BY <1>3, <1>9, <2>1, <2>2, <2>3 DEF LockedBy
<1> QED BY <1>7, <1>8, <1>9

\* The rows that a page has locked are still there.
LEMMA LockedStay ==
  ASSUME Base, NEW a \in Admins, Only(a),
         \A n \in admin'[a].others : a \in Pages => row'[n] # None,
         \A b \in Pages \ {a} : \A n \in admin[b].others : row'[n] # None
  PROVE  LockedExist'
BY Constants DEF LockedExist, Only

LEMMA SoundStays ==
  ASSUME Base, NEW a \in Admins, Only(a), Sound(a)'
  PROVE  \A b \in Admins : Sound(b)'
BY DEF Base, Sound, Only

LEMMA SoundEnd ==
  ASSUME NEW a \in Admins, Ends(a)
  PROVE  Sound(a)'
BY NoRequestTyped DEF Sound, Ends

LEMMA RequestsStay ==
  ASSUME Base, NEW a \in Admins, AdminNext(a)
  PROVE  Requests'
<1>0. \A b \in Pages : \A n \in admin[b].others : n \in Names /\ row[n] # None
  <2>1. SUFFICES ASSUME NEW b \in Pages, NEW n \in admin[b].others
                 PROVE  n \in Names /\ row[n] # None
    OBVIOUS
  <2>2. admin[b] \in Request BY Constants DEF Base, TypeOK
  <2> QED BY <2>2 DEF Base, LockedExist, Request
<1>t. row \in [Names -> Row \cup {None}] /\ Sound(a) BY DEF Base, TypeOK
<1>1. CASE Api_Load(a)
  <2>1. PICK n \in Names, new \in Row :
         Begins(a, IF new.primary THEN "clear" ELSE "write", n, new, {})
    BY <1>1, LoadEffect
  <2>2. UNCHANGED row /\ a \notin Pages BY <1>1, LoadEffect
  <2>3. Only(a) BY <2>1 DEF Begins
  <2>4. Sound(a)' BY <2>1, <2>2 DEF Sound, Begins
  <2>5. Apart' BY <2>2, <2>3, ApartStays
  <2>6. LockedExist' BY <1>0, <2>2, <2>3, LockedStay
  <2> QED BY <1>t, <2>2, <2>3, <2>4, <2>5, <2>6, SoundStays DEF Requests, Only
<1>2. CASE Api_Clear(a)
  <2>1. GoesOn(a, "write") /\ a \notin Pages BY <1>2, ClearEffect
  <2>2. Only(a) BY <2>1 DEF GoesOn, Begins
  <2>3. admin[a].step = "clear" BY <1>2 DEF Api_Clear
  <2>4. Sound(a)' BY <1>t, <2>1, <2>3 DEF Sound, GoesOn, Begins
  <2>5. Apart' BY <2>1, <2>2, ApartStays
  <2>6. \A n \in Names : row[n] # None => row'[n] # None BY <1>2, ClearEffect
  <2>7. LockedExist' BY <1>0, <2>1, <2>2, <2>6, LockedStay
  <2>8. row' \in [Names -> Row \cup {None}] BY <1>2, ClearEffect
  <2> QED BY <2>2, <2>4, <2>5, <2>7, <2>8, SoundStays DEF Requests, Only
<1>3. CASE Api_Write(a)
  <2>1. /\ a \notin Pages /\ admin[a].step = "write" /\ admin[a].new \in Row
        /\ admin[a].name \in Names
    BY <1>3, WriteEffect
  <2>2. CASE /\ row' = [row EXCEPT ![admin[a].name] = admin[a].new]
             /\ admin[a].name \notin Locked(a) /\ GoesOn(a, "publish")
    <3>1. Only(a) BY <2>2 DEF GoesOn, Begins
    <3>2. Sound(a)' BY <1>t, <2>1, <2>2 DEF Sound, GoesOn, Begins
    <3>3. Apart' BY <2>1, <3>1, ApartStays
    <3>4. row' \in [Names -> Row \cup {None}] BY <1>t, <2>1, <2>2
    <3>5. \A n \in Names : row[n] # None => row'[n] # None
      BY <1>t, <2>1, <2>2, Constants
    <3>6. LockedExist' BY <1>0, <2>1, <3>1, <3>5, LockedStay
    <3> QED BY <3>1, <3>2, <3>3, <3>4, <3>6, SoundStays DEF Requests, Only
  <2>3. CASE UNCHANGED row /\ Ends(a)
    <3>1. Only(a) /\ Sound(a)' BY <2>3, SoundEnd DEF Ends
    <3>2. Apart' BY <2>1, <3>1, ApartStays
    <3>3. LockedExist' BY <1>0, <2>1, <2>3, <3>1, LockedStay
    <3> QED BY <1>t, <2>3, <3>1, <3>2, <3>3, SoundStays DEF Requests, Only
  <2> QED BY <1>3, <2>2, <2>3, WriteEffect
<1>4. CASE Page_Save(a)
  <2>1. PICK n \in Names, new \in Row \cup {None}, others \in SUBSET Names :
         /\ Begins(a, IF new = None THEN "commit" ELSE "publish", n, new, others)
         /\ (others \cup {n}) \cap Locked(a) = {} /\ others \subseteq PrimaryRows
    BY <1>4, SaveEffect
  <2>2. UNCHANGED row /\ a \in Pages BY <1>4, SaveEffect
  <2>3. Only(a) /\ admin'[a].others = others /\ admin'[a].name = n
    BY <2>1 DEF Begins
  <2>4. Sound(a)' BY <2>1, <2>2 DEF Sound, Begins
  <2>5. (admin'[a].others \cup {admin'[a].name}) \cap Locked(a) = {} BY <2>1, <2>3
  <2>6. Apart' BY <2>3, <2>5, ApartStays
  <2>7. \A x \in others : row'[x] # None BY <2>1, <2>2 DEF PrimaryRows
  <2>8. LockedExist' BY <1>0, <2>2, <2>3, <2>7, LockedStay
  <2> QED BY <1>t, <2>2, <2>3, <2>4, <2>6, <2>8, SoundStays DEF Requests, Only
<1>5. CASE Publish(a)
  <2>1. UNCHANGED row /\ admin[a].step = "publish" BY <1>5, PublishEffect
  <2>2. CASE a \in Pages
    <3>1. GoesOn(a, "commit") BY <1>5, <2>2, PublishEffect
    <3>2. Only(a) /\ admin'[a].others = admin[a].others /\ admin'[a].name = admin[a].name
      BY <3>1 DEF GoesOn, Begins
    <3>3. Sound(a)' BY <1>t, <2>1, <2>2, <3>1 DEF Sound, GoesOn, Begins
    <3>4. Apart' BY <3>2, ApartStays DEF LockedBy
    <3>5. LockedExist' BY <1>0, <2>1, <2>2, <3>2, LockedStay
    <3> QED BY <1>t, <2>1, <3>2, <3>3, <3>4, <3>5, SoundStays DEF Requests, Only
  <2>3. CASE a \notin Pages
    <3>1. Ends(a) BY <1>5, <2>3, PublishEffect
    <3>2. Only(a) /\ Sound(a)' BY <3>1, SoundEnd DEF Ends
    <3>3. Apart' BY <2>3, <3>2, ApartStays
    <3>4. LockedExist' BY <1>0, <2>1, <2>3, <3>2, LockedStay
    <3> QED BY <1>t, <2>1, <3>2, <3>3, <3>4, SoundStays DEF Requests, Only
  <2> QED BY <2>2, <2>3
<1>6. CASE Page_Commit(a)
  <2>1. /\ a \in Pages /\ Ends(a) /\ row' \in [Names -> Row \cup {None}]
        /\ \A n \in Names \ LockedBy(a) : row'[n] = row[n]
    BY <1>6, CommitEffect
  <2>2. Only(a) /\ Sound(a)' /\ admin'[a] = NoRequest BY <2>1, SoundEnd DEF Ends
  <2>3. Apart' BY <2>2, ApartStays
  <2>4. \A b \in Pages \ {a} : \A n \in admin[b].others : n \notin LockedBy(a)
    BY <2>1 DEF Base, Apart
  <2>5. \A b \in Pages \ {a} : \A n \in admin[b].others : row'[n] # None
    BY <1>0, <2>1, <2>4
  <2>6. admin'[a].others = {} BY <2>2, NoRequestTyped
  <2>7. LockedExist' BY <2>2, <2>5, <2>6, LockedStay
  <2> QED BY <2>1, <2>2, <2>3, <2>7, SoundStays DEF Requests, Only
<1> QED BY <1>1, <1>2, <1>3, <1>4, <1>5, <1>6 DEF AdminNext

\* The manager's and the coroutines' part of the state.
Managers ==
  /\ inbox \in [Procs -> BOOLEAN] /\ cache \in [Procs -> Cache]
  /\ \A m \in Procs : cache[m].known \/ cache[m].list = {}
  /\ client \in [Clients -> Client]

Counters ==
  /\ changes \in 0..MaxChanges /\ faults \in 0..MaxFaults
  /\ missed \in BOOLEAN /\ raced \in BOOLEAN /\ overtaken \in [Procs -> BOOLEAN]

LEMMA BaseParts == Base <=> Requests /\ Managers /\ Counters
BY DEF Base, Requests, Managers, Counters, TypeOK

LEMMA BasePartsNext == (Requests /\ Managers /\ Counters)' => Base'
BY DEF Base, Requests, Managers, Counters, TypeOK

\* The fields that a coroutine may read are typed.
LEMMA ListsTyped ==
  /\ Active \in SUBSET Names /\ Primaries \in SUBSET Names
  /\ PrimaryRows \in SUBSET Names
BY DEF Active, Primaries, PrimaryRows

\* What a coroutine does to itself and to the cache of its process.
LEMMA ClientStays ==
  ASSUME Managers, NEW c \in Clients, NEW d \in Client,
         client' = [client EXCEPT ![c] = d]
  PROVE  client' \in [Clients -> Client] /\ client'[c] = d
         /\ \A b \in Clients \ {c} : client'[b] = client[b]
BY DEF Managers

\* Coroutines other than c, and their steps, stay; c goes to d.
Goes(c, d) ==
  /\ client' \in [Clients -> Client] /\ client'[c] = d
  /\ \A b \in Clients \ {c} : client'[b] = client[b]

\* The records that a coroutine may become.
LEMMA ClientRecords ==
  ASSUME Managers, NEW c \in Clients, NEW first \in Names \cup {None},
         NEW list \in SUBSET Names
  PROVE  /\ ToList(c, first) \in Client /\ ToList(c, first).step = "list"
         /\ Got(c, list) \in Client /\ Got(c, list).step \notin Holding
         /\ NoClient \in Client /\ NoClient.step \notin Holding
<1> DEFINE who == IF c \in Callers THEN None ELSE first
<1>1. client[c] \in Client BY DEF Managers
<1>2. who \in Names \cup {None} OBVIOUS
<1>3. {"list", "try", "primary"} \subseteq ClientSteps BY DEF ClientSteps
<1>4. ToList(c, first) = [NoClient EXCEPT !.step = "list", !.first = who] BY DEF ToList
<1> HIDE DEF who
<1>5. ToList(c, first) \in Client /\ ToList(c, first).step = "list"
  BY <1>2, <1>3, <1>4 DEF NoClient, Client
<1>6. [client[c] EXCEPT !.step = "try", !.todo = list] \in Client
      /\ [client[c] EXCEPT !.step = "try", !.todo = list].step = "try"
  BY <1>1, <1>3 DEF Client
<1>7. NoClient \in Client /\ NoClient.step = "primary"
  BY <1>3 DEF NoClient, Client
<1>8. Got(c, list) \in Client /\ Got(c, list).step \in {"try", "primary"}
  BY <1>6, <1>7 DEF Got
<1> QED BY <1>5, <1>7, <1>8 DEF Holding

(***************************************************************************)
(* The effect of each step of a coroutine: it reads, it keeps, or it moves to a    *)
(* step in which it holds nothing.                                              *)
(***************************************************************************)
Moves(c) ==
  /\ client' \in [Clients -> Client] /\ UNCHANGED cache
  /\ client'[c].step \notin Holding
  /\ \A b \in Clients \ {c} : client'[b] = client[b]

ReadsPrimary(c) ==
  /\ UNCHANGED cache
  /\ \E d \in Client : /\ Goes(c, d) /\ d.step = "keepPrimary"
                      /\ Primaries = {d.first} \ {None}

ReadsList(c) ==
  /\ UNCHANGED cache
  /\ \E d \in Client : Goes(c, d) /\ d.step = "keepList" /\ d.todo = Active

Keeps(c, e) ==
  /\ \E d \in Client : Goes(c, d) /\ d.step \notin Holding
  /\ cache' = [cache EXCEPT ![Home[c]] = e]

KeepsPrimary(c) ==
  /\ client[c].step = "keepPrimary"
  /\ Keeps(c, [cache[Home[c]] EXCEPT !.primary = client[c].first])

KeepsList(c) ==
  /\ client[c].step = "keepList"
  /\ Keeps(c, [cache[Home[c]] EXCEPT !.known = TRUE, !.list = client[c].todo])

Steps(c) ==
  Moves(c) \/ ReadsPrimary(c) \/ ReadsList(c) \/ KeepsPrimary(c) \/ KeepsList(c)

\* A new record for c in which it holds nothing.
LEMMA MovesTo ==
  ASSUME Managers, NEW c \in Clients, NEW d \in Client, d.step \notin Holding,
         client' = [client EXCEPT ![c] = d], UNCHANGED cache
  PROVE  Moves(c)
BY ClientStays DEF Moves

LEMMA WalkSteps ==
  ASSUME Managers, NEW c \in Clients,
         \/ Walk(c) \/ Lookup_Raises(c) \/ get_provider_by_name(c) \/ Close(c)
  PROVE  Steps(c)
<1>1. /\ client[c] \in Client /\ Home[c] \in Procs /\ Kept(c) \in Cache
  BY Constants DEF Managers, Kept
<1>2. /\ client[c].first \in Names \cup {None} /\ client[c].todo \in SUBSET Names
      /\ Kept(c).primary \in Names \cup {None} /\ Kept(c).list \in SUBSET Names
  BY <1>1 DEF Client, Cache
<1>3. /\ {"list", "try", "primary", "listen", "keepPrimary", "keepList"} \subseteq ClientSteps
      /\ \A s \in {"list", "try", "primary", "listen"} : s \notin Holding
  BY DEF ClientSteps, Holding
<1>4. ASSUME NEW d \in Client, d.step \notin Holding,
             client' = [client EXCEPT ![c] = d], UNCHANGED cache
      PROVE  Steps(c)
  BY <1>4, MovesTo DEF Steps
<1>5. ASSUME NEW step \in {"list", "try", "primary", "listen"}, Goto(c, step), UNCHANGED cache
      PROVE  Steps(c)
  <2> DEFINE d == [client[c] EXCEPT !.step = step]
  <2>1. d \in Client /\ d.step = step BY <1>1, <1>2, <1>3 DEF Client
  <2>2. client' = [client EXCEPT ![c] = d] BY <1>5 DEF Goto
  <2> HIDE DEF d
  <2> QED BY <1>3, <1>4, <1>5, <2>1, <2>2
<1>6. CASE Primary_Kept(c)
  BY <1>2, <1>3, <1>4, <1>6, ClientRecords DEF Primary_Kept, clientOnly
<1>7. CASE Primary_Query(c)
  <2>1. PICK first \in Names \cup {None} :
         /\ Primaries = {first} \ {None}
         /\ client' = [client EXCEPT ![c].step = "keepPrimary", ![c].first = first]
    BY <1>7 DEF Primary_Query
  <2> DEFINE d == [client[c] EXCEPT !.step = "keepPrimary", !.first = first]
  <2>2. d \in Client /\ d.step = "keepPrimary" /\ d.first = first
    BY <1>1, <1>2, <1>3 DEF Client
  <2>3. client' = [client EXCEPT ![c] = d] BY <2>1
  <2> HIDE DEF d
  <2>4. Goes(c, d) BY <2>2, <2>3, ClientStays DEF Goes
  <2> QED BY <1>7, <2>1, <2>2, <2>4 DEF Primary_Query, clientOnly, ReadsPrimary, Steps
<1>8. CASE Primary_Keep(c)
  <2> DEFINE d == ToList(c, client[c].first)
             e == [cache[Home[c]] EXCEPT !.primary = client[c].first]
  <2>1. d \in Client /\ d.step \notin Holding BY <1>2, <1>3, ClientRecords
  <2>2. client' = [client EXCEPT ![c] = d] BY <1>8 DEF Primary_Keep
  <2>3. cache' = [cache EXCEPT ![Home[c]] = e] BY <1>8 DEF Primary_Keep
  <2>4. client[c].step = "keepPrimary" BY <1>8 DEF Primary_Keep
  <2> HIDE DEF d
  <2>5. Goes(c, d) BY <2>1, <2>2, ClientStays DEF Goes
  <2> QED BY <2>1, <2>3, <2>4, <2>5 DEF KeepsPrimary, Keeps, Steps
<1>9. CASE List_Kept(c)
  BY <1>2, <1>4, <1>9, ClientRecords DEF List_Kept, clientOnly
<1>10. CASE List_Query(c)
  <2> DEFINE d == [client[c] EXCEPT !.step = "keepList", !.todo = Active]
  <2>1. d \in Client /\ d.step = "keepList" /\ d.todo = Active
    BY <1>1, <1>2, <1>3, ListsTyped DEF Client
  <2>2. client' = [client EXCEPT ![c] = d] BY <1>10 DEF List_Query
  <2> HIDE DEF d
  <2>3. Goes(c, d) BY <2>1, <2>2, ClientStays DEF Goes
  <2> QED BY <1>10, <2>1, <2>3 DEF List_Query, clientOnly, ReadsList, Steps
<1>11. CASE List_Keep(c)
  <2> DEFINE d == Got(c, client[c].todo)
             e == [cache[Home[c]] EXCEPT !.known = TRUE, !.list = client[c].todo]
  <2>1. d \in Client /\ d.step \notin Holding BY <1>2, ClientRecords
  <2>2. client' = [client EXCEPT ![c] = d] BY <1>11 DEF List_Keep
  <2>3. cache' = [cache EXCEPT ![Home[c]] = e] BY <1>11 DEF List_Keep
  <2>4. client[c].step = "keepList" BY <1>11 DEF List_Keep
  <2> HIDE DEF d
  <2>5. Goes(c, d) BY <2>1, <2>2, ClientStays DEF Goes
  <2> QED BY <2>1, <2>3, <2>4, <2>5 DEF KeepsList, Keeps, Steps
<1>12. CASE Unavailable(c)
  <2>1. PICK n \in Names : client' = [client EXCEPT ![c].todo = @ \ {n}]
    BY <1>2, <1>12 DEF Unavailable, Order
  <2> DEFINE list == client[c].todo \ {n}
             d == [client[c] EXCEPT !.todo = list]
  <2>2. list \in SUBSET Names BY <1>2
  <2>3. d \in Client /\ d.step = client[c].step
    BY <1>1, <1>2, <1>3, <2>2 DEF Client
  <2>4. client' = [client EXCEPT ![c] = d] BY <2>1
  <2>5. client[c].step = "try" BY <1>12 DEF Unavailable
  <2> HIDE DEF d
  <2> QED BY <1>3, <1>4, <1>12, <2>3, <2>4, <2>5 DEF Unavailable, clientOnly
<1>13. CASE Connect(c)
  <2>1. PICK n \in Names :
         client' = [client EXCEPT ![c].todo = @ \ {n}, ![c].step = "listen"]
    BY <1>2, <1>13 DEF Connect, Order
  <2> DEFINE list == client[c].todo \ {n}
             d == [client[c] EXCEPT !.todo = list, !.step = "listen"]
  <2>2. list \in SUBSET Names BY <1>2
  <2>3. d \in Client /\ d.step = "listen"
    BY <1>1, <1>2, <1>3, <2>2 DEF Client
  <2>4. client' = [client EXCEPT ![c] = d] BY <2>1
  <2> HIDE DEF d
  <2> QED BY <1>3, <1>4, <1>13, <2>3, <2>4 DEF Connect, clientOnly
<1>14. CASE NoneLeft(c)
  BY <1>2, <1>4, <1>14, ClientRecords DEF NoneLeft, clientOnly
<1>15. CASE Lookup_Raises(c)
  BY <1>2, <1>4, <1>15, ClientRecords DEF Lookup_Raises
<1>16. CASE get_provider_by_name(c)
  BY <1>5, <1>16 DEF get_provider_by_name, clientOnly
<1>17. CASE Close(c)
  BY <1>5, <1>17 DEF Close, clientOnly
<1> QED BY <1>6, <1>7, <1>8, <1>9, <1>10, <1>11, <1>12, <1>13, <1>14, <1>15, <1>16, <1>17
     DEF Walk

\* What coroutines do leaves caches typed.
LEMMA StepsManagers ==
  ASSUME Managers, NEW c \in Clients, Steps(c), UNCHANGED inbox
  PROVE  Managers'
<1>1. client' \in [Clients -> Client]
  BY DEF Steps, Moves, ReadsPrimary, ReadsList, KeepsPrimary, KeepsList, Keeps, Goes
<1>2. Home[c] \in Procs /\ client[c] \in Client BY Constants DEF Managers
<1>3. cache[Home[c]] \in Cache /\ (cache[Home[c]].known \/ cache[Home[c]].list = {})
  BY <1>2 DEF Managers
<1>4. ASSUME NEW e \in Cache, e.known \/ e.list = {},
             cache' = [cache EXCEPT ![Home[c]] = e]
      PROVE  Managers'
  BY <1>1, <1>2, <1>4 DEF Managers
<1>5. CASE UNCHANGED cache BY <1>1, <1>5 DEF Managers
<1>6. CASE KeepsPrimary(c)
  <2> DEFINE e == [cache[Home[c]] EXCEPT !.primary = client[c].first]
  <2>1. client[c].first \in Names \cup {None} BY <1>2 DEF Client
  <2>2. e \in Cache /\ (e.known \/ e.list = {}) BY <1>3, <2>1 DEF Cache
  <2>3. cache' = [cache EXCEPT ![Home[c]] = e] BY <1>6 DEF KeepsPrimary, Keeps
  <2> HIDE DEF e
  <2> QED BY <1>4, <2>2, <2>3
<1>7. CASE KeepsList(c)
  <2> DEFINE e == [cache[Home[c]] EXCEPT !.known = TRUE, !.list = client[c].todo]
  <2>1. client[c].todo \in SUBSET Names BY <1>2 DEF Client
  <2>2. e \in Cache /\ e.known BY <1>3, <2>1 DEF Cache
  <2>3. cache' = [cache EXCEPT ![Home[c]] = e] BY <1>7 DEF KeepsList, Keeps
  <2> HIDE DEF e
  <2> QED BY <1>4, <2>2, <2>3
<1> QED BY <1>5, <1>6, <1>7 DEF Steps, Moves, ReadsPrimary, ReadsList

\* A reload leaves the cache of its process empty.
LEMMA ReloadManagers ==
  ASSUME Managers, NEW m \in Procs, Reload(m)
  PROVE  /\ Managers' /\ UNCHANGED <<row, admin, client, missed>>
         /\ cache'[m] = Empty /\ \A k \in Procs \ {m} : cache'[k] = cache[k]
         /\ \A k \in Procs \ {m} : inbox'[k] = inbox[k] /\ overtaken'[k] = overtaken[k]
         /\ overtaken \in [Procs -> BOOLEAN] =>
              overtaken'[m] = \E c \in Of(m) : HoldsStale(c)
<1>1. cache' = [cache EXCEPT ![m] = Empty] BY DEF Reload, force_reload
<1>2. Empty \in Cache /\ Empty.list = {} BY DEF Empty, Cache
<1>3. cache' \in [Procs -> Cache] /\ cache'[m] = Empty
      /\ \A k \in Procs \ {m} : cache'[k] = cache[k]
  BY <1>1, <1>2 DEF Managers
<1>4. inbox' \in [Procs -> BOOLEAN] /\ UNCHANGED client BY DEF Managers, Reload
<1>5. \A k \in Procs : cache'[k].known \/ cache'[k].list = {}
  BY <1>2, <1>3 DEF Managers
<1>6. Managers' BY <1>3, <1>4, <1>5 DEF Managers
<1>7. \A k \in Procs \ {m} : inbox'[k] = inbox[k] BY DEF Managers, Reload
<1>8. \A k \in Procs \ {m} : overtaken'[k] = overtaken[k] BY DEF Reload
<1>9. overtaken \in [Procs -> BOOLEAN] =>
        overtaken'[m] = \E c \in Of(m) : HoldsStale(c)
  BY DEF Reload
<1> QED BY <1>3, <1>6, <1>7, <1>8, <1>9 DEF Reload, rowVars

LEMMA BaseStays == Base /\ [Next]_vars => Base'
<1> SUFFICES ASSUME Base, [Next]_vars PROVE Base' OBVIOUS
<1> USE BasePartsNext
<1>0. Requests /\ Managers /\ Counters BY BaseParts
<1>1. ASSUME Change PROVE changes' \in 0..MaxChanges
  BY <1>0, <1>1, Constants, CounterStays DEF Counters, Change
<1>2. ASSUME Fault PROVE faults' \in 0..MaxFaults
  BY <1>0, <1>2, Constants, CounterStays DEF Counters, Fault
<1>3. ASSUME NEW a \in Admins, AdminNext(a) PROVE Base'
  <2>1. Requests' BY <1>3, RequestsStay
  <2>2. inbox' \in [Procs -> BOOLEAN]
    BY <1>0, <1>3
    DEF AdminNext, Api_Load, Api_Clear, Api_Write, Page_Save, Publish, Page_Commit, Managers
  <2>3. UNCHANGED <<cache, client>>
    BY <1>3 DEF AdminNext, Api_Load, Api_Clear, Api_Write, Page_Save, Publish, Page_Commit
  <2>4. Managers' BY <1>0, <2>2, <2>3 DEF Managers
  <2>5. changes' \in 0..MaxChanges
    BY <1>0, <1>1, <1>3
    DEF AdminNext, Api_Load, Api_Clear, Api_Write, Page_Save, Publish, Page_Commit, Counters
  <2>6. faults' \in 0..MaxFaults
    BY <1>0, <1>2, <1>3
    DEF AdminNext, Api_Load, Api_Clear, Api_Write, Page_Save, Publish, Page_Commit, Counters
  <2>7. overtaken' \in [Procs -> BOOLEAN]
    BY <1>0, <1>3
    DEF AdminNext, Api_Load, Api_Clear, Api_Write, Page_Save, Publish, Page_Commit, Counters
  <2>8. raced' \in BOOLEAN
    BY <1>0, <1>3, Zenon
    DEF AdminNext, Api_Load, Api_Clear, Api_Write, Page_Save, Publish, Page_Commit, Counters
  <2>9. missed' \in BOOLEAN
    <3>1. CASE Api_Write(a)
      <4>1. admin[a].new \in Row BY <3>1, WriteEffect
      <4>2. admin[a].new.primary \in BOOLEAN BY <4>1, RowFields
      <4> QED BY <1>0, <3>1, <4>2 DEF Api_Write, Counters
    <3>2. CASE ~Api_Write(a)
      BY <1>0, <1>3, <3>2
      DEF AdminNext, Api_Load, Api_Clear, Page_Save, Publish, Page_Commit, Counters
    <3> QED BY <3>1, <3>2
  <2> QED BY <2>1, <2>4, <2>5, <2>6, <2>7, <2>8, <2>9 DEF Counters
<1>4. ASSUME NEW m \in Procs, Reload(m) PROVE Base'
  <2>1. Managers' /\ UNCHANGED <<row, admin>> BY <1>0, <1>4, ReloadManagers
  <2>2. Requests' BY <1>0, <2>1 DEF Requests, Sound, Apart, LockedBy, LockedExist
  <2>3. overtaken' \in [Procs -> BOOLEAN] BY <1>0, <1>4 DEF Reload, Counters
  <2>4. UNCHANGED <<changes, faults, missed, raced>> BY <1>4 DEF Reload, rowVars
  <2>5. Counters' BY <1>0, <2>3, <2>4 DEF Counters
  <2> QED BY <2>1, <2>2, <2>5
<1>5. ASSUME NEW c \in Clients, UNCHANGED <<rowVars, inbox, overtaken>>, Steps(c),
             faults' \in 0..MaxFaults
      PROVE  Base'
  <2>1. Managers' BY <1>0, <1>5, StepsManagers
  <2>2. UNCHANGED <<row, admin, changes, missed, raced, overtaken>> BY <1>5 DEF rowVars
  <2>3. Requests' BY <1>0, <2>2 DEF Requests, Sound, Apart, LockedBy, LockedExist
  <2>4. Counters' BY <1>0, <1>5, <2>2 DEF Counters
  <2> QED BY <2>1, <2>3, <2>4
<1>6. ASSUME NEW c \in Clients,
             \/ Walk(c) \/ Lookup_Raises(c) \/ get_provider_by_name(c) \/ Close(c)
      PROVE  Base'
  <2>1. Steps(c) BY <1>0, <1>6, WalkSteps
  <2>2. UNCHANGED <<rowVars, inbox, overtaken>>
    BY <1>6
    DEF Walk, Primary_Kept, Primary_Query, Primary_Keep, List_Kept, List_Query, List_Keep,
        Connect, Unavailable, NoneLeft, Lookup_Raises, get_provider_by_name, Close, clientOnly
  <2>3. faults' = faults \/ Fault
    BY <1>6
    DEF Walk, Primary_Kept, Primary_Query, Primary_Keep, List_Kept, List_Query, List_Keep,
        Connect, Unavailable, NoneLeft, Lookup_Raises, get_provider_by_name, Close, clientOnly
  <2>4. faults' \in 0..MaxFaults BY <1>0, <1>2, <2>3 DEF Counters
  <2> QED BY <1>5, <2>1, <2>2, <2>4
<1>7. CASE UNCHANGED vars
  <2>1. UNCHANGED <<row, admin, changes, missed, raced, inbox, cache, client, faults, overtaken>>
    BY <1>7 DEF vars, rowVars
  <2> QED BY <1>0, <2>1
      DEF Requests, Sound, Apart, LockedBy, LockedExist, Managers, Counters
<1> QED BY <1>3, <1>4, <1>6, <1>7 DEF Next, Clients

LEMMA BaseInit == Init => Base
<1> SUFFICES ASSUME Init PROVE Base OBVIOUS
<1>1. \A a \in Admins : admin[a] = NoRequest BY DEF Init
<1>2. Requests
  <2>1. admin \in [Admins -> Request] BY NoRequestTyped DEF Init
  <2>2. \A a \in Admins : Sound(a) BY <1>1, NoRequestTyped DEF Sound
  <2>3. \A a \in Pages : admin[a].others = {} BY <1>1, NoRequestTyped, Constants
  <2>4. row \in [Names -> Row \cup {None}] BY Constants DEF Init
  <2> QED BY <2>1, <2>2, <2>3, <2>4 DEF Requests, Apart, LockedExist
<1>3. Managers
  <2>1. Empty \in Cache /\ Empty.list = {} BY DEF Empty, Cache
  <2>2. NoClient \in Client BY DEF NoClient, Client, ClientSteps
  <2> QED BY <2>1, <2>2 DEF Init, Managers
<1>4. Counters
  <2>1. 0 \in 0..MaxChanges /\ 0 \in 0..MaxFaults BY Constants
  <2>2. overtaken \in [Procs -> BOOLEAN] BY DEF Init
  <2> QED BY <2>1, <2>2 DEF Init, Counters
<1> QED BY <1>2, <1>3, <1>4, BaseParts

\* Base is an invariant of every instance.
THEOREM BaseInvariant == Spec => []Base
BY BaseInit, BaseStays, PTL DEF Spec

\* Rows, requests, caches and coroutines keep their types; what has not been read is
\* empty (api_providers.py, views.py).
THEOREM TypeCorrect == Spec => []TypeOK
<1>1. Base => TypeOK BY DEF Base
<1> QED BY <1>1, BaseInvariant, PTL

(***************************************************************************)
(* One primary provider.  Whoever has unset the primaries and has yet to save its  *)
(* own is alone, and what is primary meanwhile is among the rows it saves.         *)
(***************************************************************************)
Lone ==
  ~raced =>
    /\ \A m, n \in PrimaryRows : m = n
    /\ \A a, b \in Admins : Cleared(a) /\ Cleared(b) => a = b
    /\ \A a \in Admins : Cleared(a) => PrimaryRows \subseteq LockedBy(a)

\* What the other requests have unset does not depend on request a.
LEMMA OthersCleared ==
  ASSUME NEW a \in Admins, Only(a)
  PROVE  \A b \in Admins \ {a} :
           /\ Cleared(b)' = Cleared(b) /\ LockedBy(b)' = LockedBy(b)
BY DEF Only, Cleared, LockedBy

\* No new primary row, and request a has nothing more to save.
LEMMA FewerPrimaries ==
  ASSUME Lone, NEW a \in Admins, Only(a), UNCHANGED raced, ~Cleared(a)',
         PrimaryRows' \subseteq PrimaryRows
  PROVE  Lone'
<1>1. SUFFICES ASSUME ~raced
               PROVE  /\ \A m, n \in PrimaryRows' : m = n
                      /\ \A b, d \in Admins : Cleared(b)' /\ Cleared(d)' => b = d
                      /\ \A b \in Admins : Cleared(b)' => PrimaryRows' \subseteq LockedBy(b)'
  BY DEF Lone
<1>2. \A b \in Admins : Cleared(b)' =>
        b # a /\ Cleared(b) /\ LockedBy(b)' = LockedBy(b)
  BY OthersCleared
<1> QED BY <1>1, <1>2 DEF Lone

\* Request a is alone with the primary rows.
LEMMA AloneStays ==
  ASSUME NEW a \in Admins, Only(a),
         ~raced' => \A b \in Admins \ {a} : ~Cleared(b),
         ~raced' => \A m, n \in PrimaryRows' : m = n,
         ~raced' /\ Cleared(a)' => PrimaryRows' \subseteq LockedBy(a)'
  PROVE  Lone'
<1>1. ASSUME ~raced'
      PROVE  /\ \A m, n \in PrimaryRows' : m = n
             /\ \A b, d \in Admins : Cleared(b)' /\ Cleared(d)' => b = d
             /\ \A b \in Admins : Cleared(b)' => PrimaryRows' \subseteq LockedBy(b)'
  <2>1. \A b \in Admins : Cleared(b)' => b = a BY <1>1, OthersCleared
  <2> QED BY <1>1, <2>1
<1> QED BY <1>1 DEF Lone

LEMMA NoneCleared ==
  ASSUME NEW a \in Admins, Ends(a)
  PROVE  ~Cleared(a)'
BY NoRequestTyped DEF Ends, Cleared

LEMMA LoneAdmin ==
  ASSUME Base, Lone, NEW a \in Admins, AdminNext(a)
  PROVE  Lone'
<1>1. CASE Api_Load(a)
  <2>1. PICK n \in Names, new \in Row :
         Begins(a, IF new.primary THEN "clear" ELSE "write", n, new, {})
    BY <1>1, LoadEffect
  <2>2. UNCHANGED <<row, raced>> /\ a \notin Pages BY <1>1, LoadEffect DEF Api_Load
  <2>3. Only(a) /\ ~Cleared(a)' BY <2>1, <2>2 DEF Begins, Cleared
  <2> QED BY <2>2, <2>3, FewerPrimaries DEF PrimaryRows
<1>2. CASE Api_Clear(a)
  <2>1. /\ GoesOn(a, "write") /\ PrimaryRows' \subseteq {admin[a].name}
    BY <1>2, ClearEffect
  <2>2. Only(a) /\ admin'[a].name = admin[a].name BY <2>1 DEF GoesOn, Begins
  <2>3. ~raced' => \A b \in Admins \ {a} : ~Cleared(b) BY <1>2 DEF Api_Clear, Races
  <2>4. PrimaryRows' \subseteq LockedBy(a)' BY <2>1, <2>2 DEF LockedBy
  <2> QED BY <2>1, <2>2, <2>3, <2>4, AloneStays
<1>3. CASE Api_Write(a)
  <2>1. /\ a \notin Pages /\ admin[a].step = "write" /\ admin[a].new \in Row
        /\ admin[a].name \in Names /\ UNCHANGED raced /\ admin[a].others = {}
    BY <1>3, WriteEffect DEF Api_Write, Base, Sound
  <2>2. CASE /\ row' = [row EXCEPT ![admin[a].name] = admin[a].new]
             /\ GoesOn(a, "publish")
    <3>1. Only(a) /\ ~Cleared(a)' BY <2>1, <2>2 DEF GoesOn, Begins, Cleared
    <3>2. \A n \in Names \ {admin[a].name} : row'[n] = row[n]
      BY <2>1, <2>2 DEF Base, TypeOK
    <3>3. row'[admin[a].name] = admin[a].new BY <2>1, <2>2 DEF Base, TypeOK
    <3>4. CASE admin[a].new.primary
      <4>1. Cleared(a) BY <2>1, <3>4, Constants DEF Cleared
      <4>2. ~raced => \A b \in Admins \ {a} : ~Cleared(b) BY <4>1 DEF Lone
      <4>3. ~raced => PrimaryRows \subseteq {admin[a].name}
        BY <2>1, <4>1 DEF Lone, LockedBy
      <4>4. ~raced => PrimaryRows' \subseteq {admin[a].name}
        BY <3>2, <4>3 DEF PrimaryRows
      <4> QED BY <2>1, <3>1, <4>2, <4>4, AloneStays
    <3>5. CASE ~admin[a].new.primary
      <4>1. PrimaryRows' \subseteq PrimaryRows BY <3>2, <3>3, <3>5 DEF PrimaryRows
      <4> QED BY <2>1, <3>1, <4>1, FewerPrimaries
    <3> QED BY <3>4, <3>5
  <2>3. CASE UNCHANGED row /\ Ends(a)
    <3>1. Only(a) /\ ~Cleared(a)' BY <2>3, NoneCleared DEF Ends
    <3> QED BY <2>1, <2>3, <3>1, FewerPrimaries DEF PrimaryRows
  <2> QED BY <1>3, <2>2, <2>3, WriteEffect
<1>4. CASE Page_Save(a)
  <2>1. PICK n \in Names, new \in Row \cup {None}, others \in SUBSET Names :
         /\ Begins(a, IF new = None THEN "commit" ELSE "publish", n, new, others)
         /\ new # None /\ new.primary =>
              /\ PrimaryRows \subseteq others \cup {n}
              /\ raced' = (raced \/ Races(a))
    BY <1>4, SaveEffect
  <2>2. UNCHANGED row /\ a \in Pages BY <1>4, SaveEffect
  <2>3. /\ Only(a) /\ admin'[a].others = others /\ admin'[a].name = n
        /\ admin'[a].new = new
    BY <2>1 DEF Begins
  <2>4. PrimaryRows' = PrimaryRows BY <2>2 DEF PrimaryRows
  <2>5. CASE new # None /\ new.primary
    <3>1. ~raced' => ~raced /\ \A b \in Admins \ {a} : ~Cleared(b)
      BY <2>1, <2>5 DEF Races
    <3>2. PrimaryRows' \subseteq LockedBy(a)' BY <2>1, <2>3, <2>4, <2>5 DEF LockedBy
    <3>3. ~raced' => \A x, y \in PrimaryRows' : x = y BY <2>4, <3>1 DEF Lone
    <3> QED BY <2>3, <3>1, <3>2, <3>3, AloneStays
  <2>6. CASE ~(new # None /\ new.primary)
    <3>1. ~Cleared(a)' BY <2>3, <2>6 DEF Cleared
    <3>2. UNCHANGED raced
      <4>1. PICK k \in Names, form \in Forms \cup {None} :
             /\ raced' = (raced \/ (form # None /\ form.primary /\ Races(a)))
             /\ \E step, o : admin' = [admin EXCEPT ![a] =
                  [NoRequest EXCEPT !.step = step, !.name = k, !.new = form, !.others = o]]
        BY <1>4 DEF Page_Save
      <4>2. admin'[a].new = form BY <4>1 DEF Base, TypeOK, NoRequest
      <4>3. raced \in BOOLEAN BY DEF Base, TypeOK
      <4> QED BY <2>3, <2>6, <4>1, <4>2, <4>3
    <3> QED BY <2>3, <2>4, <3>1, <3>2, FewerPrimaries
  <2> QED BY <2>5, <2>6
<1>5. CASE Publish(a)
  <2>1. UNCHANGED <<row, raced>> BY <1>5 DEF Publish
  <2>2. CASE a \in Pages
    <3>1. GoesOn(a, "commit") BY <1>5, <2>2, PublishEffect
    <3>2. Only(a) /\ Cleared(a)' = Cleared(a) /\ LockedBy(a)' = LockedBy(a)
      BY <2>2, <3>1 DEF GoesOn, Begins, Cleared, LockedBy
    <3>3. \A b \in Admins : Cleared(b)' = Cleared(b) /\ LockedBy(b)' = LockedBy(b)
      BY <3>2, OthersCleared
    <3>4. PrimaryRows' = PrimaryRows BY <2>1 DEF PrimaryRows
    <3> QED BY <2>1, <3>3, <3>4 DEF Lone
  <2>3. CASE a \notin Pages
    <3>1. Ends(a) BY <1>5, <2>3, PublishEffect
    <3>2. Only(a) /\ ~Cleared(a)' BY <3>1, NoneCleared DEF Ends
    <3> QED BY <2>1, <3>2, FewerPrimaries DEF PrimaryRows
  <2> QED BY <2>2, <2>3
<1>6. CASE Page_Commit(a)
  <2>1. /\ a \in Pages /\ Ends(a) /\ UNCHANGED raced
        /\ row'[admin[a].name] = admin[a].new
        /\ \A n \in Names \ LockedBy(a) : row'[n] = row[n]
        /\ \A n \in admin[a].others \ {admin[a].name} : ~row'[n].primary
    BY <1>6, CommitEffect DEF Page_Commit
  <2>2. Only(a) /\ ~Cleared(a)' BY <2>1, NoneCleared DEF Ends
  <2>3. \A n \in PrimaryRows' : n = admin[a].name \/ n \in PrimaryRows \ LockedBy(a)
    BY <2>1 DEF PrimaryRows, LockedBy
  <2>4. CASE Cleared(a)
    <3>1. ~raced => \A b \in Admins \ {a} : ~Cleared(b) BY <2>4 DEF Lone
    <3>2. ~raced => PrimaryRows \subseteq LockedBy(a) BY <2>4 DEF Lone
    <3>3. ~raced => PrimaryRows' \subseteq {admin[a].name} BY <2>3, <3>2
    <3> QED BY <2>1, <2>2, <3>1, <3>3, AloneStays
  <2>5. CASE ~Cleared(a)
    <3>1. admin[a].name \notin PrimaryRows' BY <2>1, <2>5 DEF Cleared, PrimaryRows
    <3>2. PrimaryRows' \subseteq PrimaryRows BY <2>3, <3>1
    <3> QED BY <2>1, <2>2, <3>2, FewerPrimaries
  <2> QED BY <2>4, <2>5
<1> QED BY <1>1, <1>2, <1>3, <1>4, <1>5, <1>6 DEF AdminNext

\* The managers and the coroutines do not write the settings.
LEMMA SettingsStay ==
  ASSUME Base, [Next]_vars, \A a \in Admins : ~AdminNext(a)
  PROVE  UNCHANGED rowVars
<1>1. CASE UNCHANGED vars BY <1>1 DEF vars
<1>2. CASE \E m \in Procs : Reload(m) BY <1>2 DEF Reload
<1>3. ASSUME NEW c \in Clients,
             \/ Walk(c) \/ Lookup_Raises(c) \/ get_provider_by_name(c) \/ Close(c)
      PROVE  UNCHANGED rowVars
  BY <1>3
  DEF Walk, Primary_Kept, Primary_Query, Primary_Keep, List_Kept, List_Query, List_Keep,
      Connect, Unavailable, NoneLeft, Lookup_Raises, get_provider_by_name, Close, clientOnly
<1> QED BY <1>1, <1>2, <1>3 DEF Next, Clients

\* At most one row is primary, whatever requests interleave, fail or save stale rows, as
\* long as no two saves of a primary row overlap (PrimaryProviderSetting.save).
THEOREM OnePrimaryProvider == Spec => []OnePrimary
<1>1. Init => Lone
  <2> SUFFICES ASSUME Init PROVE Lone OBVIOUS
  <2>1. \A a \in Admins : ~Cleared(a) BY NoRequestTyped DEF Init, Cleared
  <2>2. \A m, n \in PrimaryRows : m = n BY Constants DEF Init, PrimaryRows
  <2> QED BY <2>1, <2>2 DEF Lone
<1>2. Base /\ Lone /\ [Next]_vars => Lone'
  <2> SUFFICES ASSUME Base, Lone, [Next]_vars PROVE Lone' OBVIOUS
  <2>1. CASE \E a \in Admins : AdminNext(a) BY <2>1, LoneAdmin
  <2>2. CASE \A a \in Admins : ~AdminNext(a)
    <3>1. UNCHANGED <<row, admin, raced>> BY <2>2, SettingsStay DEF rowVars
    <3> QED BY <3>1 DEF Lone, PrimaryRows, Cleared, LockedBy
  <2> QED BY <2>1, <2>2
<1>3. Lone => OnePrimary BY DEF Lone, OnePrimary
<1> QED BY <1>1, <1>2, <1>3, BaseInvariant, PTL DEF Spec

(***************************************************************************)
(* Current caches: when nothing is under way, what a process keeps, and what its    *)
(* coroutines have read and have yet to keep, is what the database says.           *)
(***************************************************************************)
Matches(m) ==
  /\ cache[m].known => cache[m].list = Active
  /\ cache[m].primary # None => Primaries = {cache[m].primary}

Fresh(m) == Matches(m) /\ \A c \in Of(m) : ~HoldsStale(c)

AllFresh == \A m \in Listeners : Settled(m) => Fresh(m)

\* What is fresh stays so as long as rows, caches and coroutines stay.
LEMMA FreshStays ==
  ASSUME NEW m \in Listeners, UNCHANGED <<row, client>>, cache'[m] = cache[m], Fresh(m)
  PROVE  Fresh(m)'
BY DEF Fresh, Matches, HoldsStale, Active, Primaries, PrimaryRows, Of

\* A process that keeps and holds nothing is fresh.
LEMMA NothingHeld ==
  ASSUME NEW m \in Listeners, UNCHANGED <<cache, client>>, ~Holds(m)
  PROVE  Fresh(m)'
<1>1. cache'[m].known = FALSE /\ cache'[m].primary = None BY DEF Holds, Empty
<1>2. \A c \in Of(m) : client'[c].step \notin Holding BY DEF Holds
<1> QED BY <1>1, <1>2 DEF Fresh, Matches, HoldsStale, Holding, Of

LEMMA FreshAdmin ==
  ASSUME Base, AllFresh, NEW a \in Admins, AdminNext(a)
  PROVE  AllFresh'
<1>0. SUFFICES ASSUME NEW m \in Listeners, Settled(m)' PROVE Fresh(m)'
  BY DEF AllFresh
<1>1. /\ ~inbox'[m] /\ ~overtaken'[m] /\ ~missed'
      /\ \A b \in Admins : ~Unannounced(b)'
  BY <1>0 DEF Settled
<1>2. UNCHANGED <<cache, client>> /\ m \in Procs
  BY Constants
  DEF AdminNext, Api_Load, Api_Clear, Api_Write, Page_Save, Publish, Page_Commit
<1>3. ASSUME Only(a), ~Unannounced(a), UNCHANGED <<row, missed, overtaken>>, inbox'[m] = inbox[m]
      PROVE  Fresh(m)'
  <2>1. \A b \in Admins \ {a} : Unannounced(b)' = Unannounced(b)
    BY <1>3 DEF Only, Unannounced
  <2>2. Settled(m) BY <1>1, <1>3, <2>1 DEF Settled
  <2> QED BY <1>2, <1>3, <2>2, FreshStays DEF AllFresh
<1>4. CASE Api_Load(a)
  <2>1. Only(a) /\ ~Unannounced(a) /\ UNCHANGED row
    BY <1>4, LoadEffect DEF Begins, Unannounced
  <2> QED BY <1>3, <1>4, <2>1 DEF Api_Load
<1>5. CASE Api_Clear(a)
  <2>1. GoesOn(a, "write") /\ admin[a].new.primary BY <1>5, ClearEffect
  <2>2. Unannounced(a)' BY <2>1 DEF GoesOn, Begins, Unannounced
  <2> QED BY <1>1, <2>2
<1>6. CASE Api_Write(a)
  <2>1. a \notin Pages /\ admin[a].step = "write" BY <1>6, WriteEffect
  <2>2. CASE GoesOn(a, "publish")
    <3>1. Unannounced(a)' BY <2>1, <2>2 DEF GoesOn, Begins, Unannounced
    <3> QED BY <1>1, <3>1
  <2>3. CASE UNCHANGED row /\ Ends(a) /\ missed' = (missed \/ admin[a].new.primary)
    <3>1. ~missed /\ ~admin[a].new.primary BY <1>1, <2>3
    <3>2. ~Unannounced(a) BY <2>1, <3>1 DEF Unannounced
    <3>3. missed \in BOOLEAN /\ missed' \in BOOLEAN
      BY <1>6, BaseStays DEF Base, TypeOK, Next, AdminNext
    <3>4. UNCHANGED missed BY <1>1, <3>1, <3>3
    <3> QED BY <1>3, <1>6, <2>3, <3>2, <3>4 DEF Api_Write, Ends
  <2> QED BY <1>6, <2>2, <2>3, WriteEffect
<1>7. CASE Page_Save(a)
  <2>1. Only(a) /\ admin[a].step = "idle" /\ UNCHANGED row
    BY <1>7, SaveEffect DEF Begins
  <2>2. ~Unannounced(a) BY <2>1 DEF Unannounced
  <2> QED BY <1>3, <1>7, <2>1, <2>2 DEF Page_Save
<1>8. CASE Publish(a)
  <2>1. ~inbox'[m] BY <1>1
  <2>2. UNCHANGED inbox /\ missed' = (missed \/ a \notin Pages)
    BY <1>2, <1>8, <2>1 DEF Publish
  <2>3. a \in Pages /\ ~missed BY <1>1, <2>2
  <2>4. GoesOn(a, "commit") /\ admin[a].step = "publish" BY <1>8, <2>3, PublishEffect
  <2>5. Only(a) /\ ~Unannounced(a) BY <2>3, <2>4 DEF GoesOn, Begins, Unannounced
  <2>6. missed \in BOOLEAN BY DEF Base, TypeOK
  <2>7. UNCHANGED missed BY <2>2, <2>3, <2>6
  <2> QED BY <1>3, <1>8, <2>2, <2>5, <2>7 DEF Publish
<1>9. CASE Page_Commit(a)
  <2>1. ~inbox[m] BY <1>1, <1>9 DEF Page_Commit
  <2>2. overtaken'[m] = (overtaken[m] \/ (~inbox[m] /\ Holds(m)))
    BY <1>2, <1>9 DEF Page_Commit
  <2>3. ~Holds(m) BY <1>1, <2>1, <2>2
  <2> QED BY <1>2, <2>3, NothingHeld
<1> QED BY <1>4, <1>5, <1>6, <1>7, <1>8, <1>9 DEF AdminNext

\* What a coroutine keeps was right when it read it and no reload overtook it.
LEMMA FreshSteps ==
  ASSUME Base, AllFresh, NEW c \in Clients, Steps(c),
         UNCHANGED <<row, admin, inbox, missed, overtaken>>
  PROVE  AllFresh'
<1>0. SUFFICES ASSUME NEW m \in Listeners, Settled(m)' PROVE Fresh(m)'
  BY DEF AllFresh
<1>1. Settled(m) BY <1>0 DEF Settled, Unannounced
<1>2. Fresh(m) BY <1>1 DEF AllFresh
<1>3. m \in Procs /\ Home[c] \in Procs BY Constants
<1>4. cache \in [Procs -> Cache] BY DEF Base, TypeOK
<1>5. Active' = Active /\ Primaries' = Primaries
  BY DEF Active, Primaries, PrimaryRows
<1>6. \A b \in Clients \ {c} : client'[b] = client[b]
  BY DEF Steps, Moves, ReadsPrimary, ReadsList, KeepsPrimary, KeepsList, Keeps, Goes
<1>7. \A b \in Of(m) \ {c} : ~HoldsStale(b)'
  BY <1>2, <1>5, <1>6 DEF Fresh, HoldsStale, Of
<1>8. ASSUME UNCHANGED cache, ~HoldsStale(c)' PROVE Fresh(m)'
  BY <1>2, <1>5, <1>7, <1>8 DEF Fresh, Matches, Of
<1>9. CASE Moves(c)
  <2>1. ~HoldsStale(c)' BY <1>9 DEF Moves, HoldsStale, Holding
  <2> QED BY <1>8, <1>9, <2>1 DEF Moves
<1>10. CASE ReadsPrimary(c)
  <2>1. ~HoldsStale(c)' BY <1>5, <1>10 DEF ReadsPrimary, Goes, HoldsStale
  <2> QED BY <1>8, <1>10, <2>1 DEF ReadsPrimary
<1>11. CASE ReadsList(c)
  <2>1. ~HoldsStale(c)' BY <1>5, <1>11 DEF ReadsList, Goes, HoldsStale
  <2> QED BY <1>8, <1>11, <2>1 DEF ReadsList
<1>12. ASSUME NEW e, Keeps(c, e),
              Home[c] = m => /\ e.known => e.list = Active
                             /\ e.primary # None => Primaries = {e.primary}
       PROVE  Fresh(m)'
  <2>1. ~HoldsStale(c)' BY <1>12 DEF Keeps, Goes, HoldsStale, Holding
  <2>2. \A b \in Of(m) : ~HoldsStale(b)' BY <1>7, <2>1
  <2>3. cache'[m] = IF Home[c] = m THEN e ELSE cache[m]
    BY <1>3, <1>4, <1>12 DEF Keeps
  <2>4. Matches(m)' BY <1>2, <1>5, <1>12, <2>3 DEF Fresh, Matches
  <2> QED BY <2>2, <2>4 DEF Fresh, Of
<1>13. CASE KeepsPrimary(c)
  <2> DEFINE k == cache[Home[c]]
             e == [k EXCEPT !.primary = client[c].first]
  <2>1. k \in Cache BY <1>3, <1>4
  <2>2. e.known = k.known /\ e.list = k.list /\ e.primary = client[c].first
    BY <2>1 DEF Cache
  <2>3. client[c] \in Client BY DEF Base, TypeOK
  <2>4. Home[c] = m => Primaries = {client[c].first} \ {None}
    BY <1>2, <1>13 DEF KeepsPrimary, Fresh, Of, HoldsStale
  <2>5. Home[c] = m => /\ e.known => e.list = Active
                       /\ e.primary # None => Primaries = {e.primary}
    BY <1>2, <2>2, <2>4 DEF Fresh, Matches
  <2>6. Keeps(c, e) BY <1>13 DEF KeepsPrimary
  <2> HIDE DEF e
  <2> QED BY <1>12, <2>5, <2>6
<1>14. CASE KeepsList(c)
  <2> DEFINE k == cache[Home[c]]
             e == [k EXCEPT !.known = TRUE, !.list = client[c].todo]
  <2>1. k \in Cache BY <1>3, <1>4
  <2>2. e.list = client[c].todo /\ e.primary = k.primary BY <2>1 DEF Cache
  <2>3. Home[c] = m => client[c].todo = Active
    BY <1>2, <1>14 DEF KeepsList, Fresh, Of, HoldsStale
  <2>4. Home[c] = m => /\ e.known => e.list = Active
                       /\ e.primary # None => Primaries = {e.primary}
    BY <1>2, <2>2, <2>3 DEF Fresh, Matches
  <2>5. Keeps(c, e) BY <1>14 DEF KeepsList
  <2> HIDE DEF e
  <2> QED BY <1>12, <2>4, <2>5
<1> QED BY <1>9, <1>10, <1>11, <1>13, <1>14 DEF Steps

LEMMA FreshReload ==
  ASSUME Base, AllFresh, NEW p \in Procs, Reload(p)
  PROVE  AllFresh'
<1>0. SUFFICES ASSUME NEW m \in Listeners, Settled(m)' PROVE Fresh(m)'
  BY DEF AllFresh
<1>1. m \in Procs /\ Managers /\ overtaken \in [Procs -> BOOLEAN]
  BY Constants, BaseParts DEF Base, TypeOK
<1>2. UNCHANGED <<row, admin, client, missed>> BY <1>1, ReloadManagers
<1>3. CASE m = p
  <2>1. cache'[m] = Empty /\ (overtaken'[m] = \E c \in Of(m) : HoldsStale(c))
    BY <1>1, <1>3, ReloadManagers
  <2>2. \A c \in Of(m) : ~HoldsStale(c) BY <1>0, <2>1 DEF Settled
  <2>3. \A c \in Of(m) : ~HoldsStale(c)'
    BY <1>2, <2>2 DEF HoldsStale, Active, Primaries, PrimaryRows
  <2>4. Matches(m)' BY <2>1 DEF Matches, Empty
  <2> QED BY <2>3, <2>4 DEF Fresh, Of
<1>4. CASE m # p
  <2>1. cache'[m] = cache[m] /\ inbox'[m] = inbox[m] /\ overtaken'[m] = overtaken[m]
    BY <1>1, <1>4, ReloadManagers
  <2>2. Settled(m) BY <1>0, <1>2, <2>1 DEF Settled, Unannounced
  <2>3. Fresh(m) BY <2>2 DEF AllFresh
  <2> QED BY <1>2, <2>1, <2>3, FreshStays
<1> QED BY <1>3, <1>4

\* When the messages of a process that runs redis_config_listener (run_background_service)
\* are handled, the list and the primary that its workers and its subscription use are
\* those of the database, up to what the property names.
THEOREM CachesCurrent == Spec => []CacheCurrent
<1>1. Init => AllFresh
  <2> SUFFICES ASSUME Init, NEW m \in Listeners PROVE Fresh(m) BY DEF AllFresh
  <2>1. cache[m] = Empty BY Constants DEF Init
  <2>2. \A c \in Of(m) : client[c].step = "primary" BY DEF Init, Of, NoClient
  <2>3. \A c \in Of(m) : ~HoldsStale(c) BY <2>2 DEF HoldsStale
  <2> QED BY <2>1, <2>3 DEF Fresh, Matches, Empty
<1>2. Base /\ AllFresh /\ [Next]_vars => AllFresh'
  <2> SUFFICES ASSUME Base, AllFresh, [Next]_vars PROVE AllFresh' OBVIOUS
  <2>1. CASE \E a \in Admins : AdminNext(a) BY <2>1, FreshAdmin
  <2>2. CASE \E p \in Procs : Reload(p) BY <2>2, FreshReload
  <2>3. ASSUME NEW c \in Clients,
               \/ Walk(c) \/ Lookup_Raises(c) \/ get_provider_by_name(c) \/ Close(c)
        PROVE  AllFresh'
    <3>1. Steps(c) BY <2>3, BaseParts, WalkSteps
    <3>2. UNCHANGED <<row, admin, inbox, missed, overtaken>>
      BY <2>3
      DEF Walk, Primary_Kept, Primary_Query, Primary_Keep, List_Kept, List_Query, List_Keep,
          Connect, Unavailable, NoneLeft, Lookup_Raises, get_provider_by_name, Close,
          clientOnly, rowVars
    <3> QED BY <3>1, <3>2, FreshSteps
  <2>4. CASE UNCHANGED vars
    <3>1. UNCHANGED <<row, admin, inbox, cache, client, missed, overtaken>>
      BY <2>4 DEF vars, rowVars
    <3>2. \A m \in Listeners : Settled(m)' => Settled(m)
      BY <3>1 DEF Settled, Unannounced
    <3> QED BY <3>1, <3>2, FreshStays DEF AllFresh
  <2> QED BY <2>1, <2>2, <2>3, <2>4 DEF Next, Clients
<1>3. AllFresh => CacheCurrent BY DEF AllFresh, Fresh, Matches, CacheCurrent
<1> QED BY <1>1, <1>2, <1>3, BaseInvariant, PTL DEF Spec

=============================================================================
