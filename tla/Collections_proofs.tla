------------------------- MODULE Collections_proofs -------------------------
(***************************************************************************)
(* Proofs about Collections, for any addresses, submissions and requests.   *)
(***************************************************************************)
EXTENDS Collections, TLAPS

(***************************************************************************)
(* Requests                                                                 *)
(***************************************************************************)

\* None is neither an address nor a submission, and there is a first page.
LEMMA Constants ==
  /\ OnChain \subseteq Addresses /\ None \notin Addresses /\ None \notin Submissions
  /\ Pages \in Nat /\ 0 \in 0..Pages /\ 1 \in 1..Pages
  /\ MaxFaults \in Nat
BY CollectionConstants DEF CollectionConstants

\* None is a request, and so is a new one.
LEMMA IdleTyped == Idle \in Request
<1>1. "listed" \in Listing /\ "idle" \in ReqSteps BY DEF Listing, ReqSteps
<1> QED BY <1>1, Constants DEF Request, Idle

LEMMA AtTyped ==
  ASSUME NEW step \in ReqSteps, NEW s \in Submissions \cup {None},
         NEW a \in Addresses \cup {None}
  PROVE  At(step, s, a) \in Request
<1>1. \A d \in Request : [d EXCEPT !.step = step, !.sub = s, !.address = a] \in Request
  BY DEF Request
<1> QED BY <1>1, IdleTyped DEF At

\* What a new request says.
LEMMA AtFields ==
  ASSUME NEW step, NEW s, NEW a
  PROVE  /\ At(step, s, a).step = step /\ At(step, s, a).sub = s
         /\ At(step, s, a).address = a /\ At(step, s, a).next = 1
         /\ Idle.step = "idle" /\ Idle.sub = None
BY DEF At, Idle

\* A step that changes one request leaves the others.
LEMMA OneChanges ==
  ASSUME req \in [Reqs -> Request], NEW r \in Reqs, NEW e \in Request,
         req' = [req EXCEPT ![r] = e]
  PROVE  /\ req' \in [Reqs -> Request] /\ req'[r] = e
         /\ \A q \in Reqs : q # r => req'[q] = req[q]
OBVIOUS

\* The other fields of a request survive a change of some.
LEMMA NewStep ==
  ASSUME NEW d \in Request, NEW step \in ReqSteps
  PROVE  LET e == [d EXCEPT !.step = step] IN
         /\ e \in Request /\ e.step = step /\ e.sub = d.sub /\ e.address = d.address
         /\ e.total = d.total /\ e.next = d.next
BY DEF Request

LEMMA NewTotal ==
  ASSUME NEW d \in Request, NEW step \in ReqSteps, NEW n \in 0..Pages
  PROVE  LET e == [d EXCEPT !.step = step, !.total = n] IN
         /\ e \in Request /\ e.step = step /\ e.sub = d.sub /\ e.address = d.address
         /\ e.total = n /\ e.next = d.next
BY DEF Request

LEMMA NewNext ==
  ASSUME NEW d \in Request, NEW n \in 1..Pages
  PROVE  LET e == [d EXCEPT !.next = n] IN
         /\ e \in Request /\ e.step = d.step /\ e.sub = d.sub /\ e.address = d.address
         /\ e.total = d.total /\ e.next = n
BY DEF Request

(***************************************************************************)
(* What an action does to the requests: the acting one moves to another     *)
(* step and keeps what it knows, or ends, or starts.                        *)
(***************************************************************************)
Only(r) ==
  /\ req' \in [Reqs -> Request]
  /\ \A q \in Reqs : q # r => req'[q] = req[q]

MovesTo(r, step) ==
  /\ Only(r) /\ req'[r].step = step
  /\ req'[r].sub = req[r].sub /\ req'[r].address = req[r].address
  /\ req'[r].total = req[r].total /\ req'[r].next = req[r].next

Starts(r, step, s, a) ==
  /\ Only(r) /\ req'[r].step = step /\ req'[r].sub = s /\ req'[r].address = a
  /\ req'[r].next = 1

Ends(r) == Only(r) /\ req'[r].step = "idle" /\ req'[r].sub = None

\* After the row: the batches, or, with nothing to store, what follows them.
Batches(r) ==
  \/ MovesTo(r, "batch")
  \/ req[r].total = 0 /\ req[r].sub # None /\ MovesTo(r, "publish")
  \/ Ends(r)

\* The four ways in which an action changes one request.
LEMMA Changes ==
  ASSUME req \in [Reqs -> Request], NEW r \in Reqs
  PROVE  /\ Leave(r) => Ends(r)
         /\ \A step \in ReqSteps : Goto(r, step) => MovesTo(r, step)
         /\ ToBatches(r) => Batches(r)
         /\ \A step \in ReqSteps, listing \in Listing :
              req' = [req EXCEPT ![r].step = step, ![r].listing = listing]
                => MovesTo(r, step)
<1>0. req[r] \in Request OBVIOUS
<1>1. ASSUME Leave(r) PROVE Ends(r)
  <2>1. Only(r) /\ req'[r] = Idle BY <1>1, IdleTyped, OneChanges DEF Leave, Only
  <2> QED BY <2>1 DEF Ends, Idle
<1>2. ASSUME NEW step \in ReqSteps, Goto(r, step) PROVE MovesTo(r, step)
  <2> DEFINE e == [req[r] EXCEPT !.step = step]
  <2>1. /\ e \in Request /\ e.step = step /\ e.sub = req[r].sub
        /\ e.address = req[r].address /\ e.total = req[r].total /\ e.next = req[r].next
    BY <1>0, NewStep
  <2>2. req' = [req EXCEPT ![r] = e] BY <1>2 DEF Goto
  <2> HIDE DEF e
  <2>3. Only(r) /\ req'[r] = e BY <2>1, <2>2, OneChanges DEF Only
  <2> QED BY <2>1, <2>3 DEF MovesTo
<1>3. ASSUME NEW step \in ReqSteps, NEW listing \in Listing,
             req' = [req EXCEPT ![r].step = step, ![r].listing = listing]
      PROVE  MovesTo(r, step)
  <2> DEFINE e == [req[r] EXCEPT !.step = step, !.listing = listing]
  <2>1. /\ e \in Request /\ e.step = step /\ e.sub = req[r].sub
        /\ e.address = req[r].address /\ e.total = req[r].total /\ e.next = req[r].next
    BY <1>0, <1>3 DEF Request
  <2>2. req' = [req EXCEPT ![r] = e] BY <1>3
  <2> HIDE DEF e
  <2>3. Only(r) /\ req'[r] = e BY <2>1, <2>2, OneChanges DEF Only
  <2> QED BY <2>1, <2>3 DEF MovesTo
<1>4. ToBatches(r) => Batches(r)
  <2>1. "batch" \in ReqSteps /\ "listed" \in Listing /\ "publish" \in ReqSteps
    BY DEF ReqSteps, Fetching, Removing, Listing
  <2>2. CASE req[r].total = 0 BY <1>1, <1>2, <2>1, <2>2 DEF ToBatches, Done, Batches
  <2>3. CASE req[r].total # 0 BY <1>3, <2>1, <2>3 DEF ToBatches, Batches
  <2> QED BY <2>2, <2>3
<1> QED BY <1>1, <1>2, <1>3, <1>4

\* A request starts.
LEMMA Begins ==
  ASSUME req \in [Reqs -> Request], NEW r \in Reqs, NEW step \in ReqSteps,
         NEW s \in Submissions \cup {None}, NEW a \in Addresses,
         req' = [req EXCEPT ![r] = At(step, s, a)]
  PROVE  Starts(r, step, s, a)
<1>1. At(step, s, a) \in Request BY AtTyped
<1>2. Only(r) /\ req'[r] = At(step, s, a) BY <1>1, OneChanges DEF Only
<1> QED BY <1>2, AtFields DEF Starts

\* A page is done: the next one, the end, or the rest of the approval.
LEMMA PageMoves ==
  ASSUME req \in [Reqs -> Request], NEW r \in Reqs, NextPage(r)
  PROVE  \/ /\ req[r].next < req[r].total /\ Only(r)
            /\ req'[r].step = req[r].step /\ req'[r].sub = req[r].sub
            /\ req'[r].address = req[r].address /\ req'[r].total = req[r].total
            /\ req'[r].next = req[r].next + 1
         \/ req[r].next >= req[r].total /\ req[r].sub = None /\ Ends(r)
         \/ req[r].next >= req[r].total /\ req[r].sub # None /\ MovesTo(r, "publish")
<1>0. req[r] \in Request OBVIOUS
<1>1. req[r].next \in 1..Pages /\ req[r].total \in 0..Pages BY <1>0 DEF Request
<1>2. CASE req[r].next < req[r].total
  <2>1. req[r].next + 1 \in 1..Pages BY <1>1, <1>2, Constants
  <2> DEFINE n == req[r].next + 1
             e == [req[r] EXCEPT !.next = n]
  <2>2. req' = [req EXCEPT ![r] = e] BY <1>2 DEF NextPage
  <2>3. n \in 1..Pages BY <2>1
  <2>4. n = req[r].next + 1 OBVIOUS
  <2> HIDE DEF n
  <2>5. /\ e \in Request /\ e.step = req[r].step /\ e.sub = req[r].sub
        /\ e.address = req[r].address /\ e.total = req[r].total /\ e.next = n
    BY <1>0, <2>3, NewNext
  <2> HIDE DEF e
  <2>6. Only(r) /\ req'[r] = e BY <2>2, <2>5, OneChanges DEF Only
  <2> QED BY <1>2, <2>4, <2>5, <2>6
<1>3. CASE ~(req[r].next < req[r].total)
  <2>1. req[r].next >= req[r].total BY <1>1, <1>3
  <2>2. "publish" \in ReqSteps BY DEF ReqSteps, Removing
  <2> QED BY <1>3, <2>1, <2>2, Changes DEF NextPage, Done
<1> QED BY <1>2, <1>3

(***************************************************************************)
(* Types, and what a request that is under way knows.                       *)
(***************************************************************************)
Paths ==
  \A r \in Reqs :
    /\ req[r].step # "idle" => req[r].address \in Addresses
    /\ req[r].step \in {"enqueue", "reject"} \cup Removing => req[r].sub \in Submissions

RowsHaveAddress ==
  \A s \in Submissions : sub[s].status \in Rows \cup {"approved"} => sub[s].address \in Addresses

Base == TypeOK /\ Paths /\ RowsHaveAddress

\* What each request action does to its request.
LEMMA Moves ==
  ASSUME Base, NEW r \in Reqs
  PROVE  /\ Submit_Save(r) =>
              \E s \in Submissions, a \in Addresses :
                 /\ sub[s].status = "new"
                 /\ sub' = [sub EXCEPT ![s] = [address |-> a, status |-> "validating"]]
                 /\ Starts(r, "enqueue", s, a)
         /\ Approve_Check(r) =>
              \E s \in Submissions :
                 sub[s].status = "pending" /\ Starts(r, "fetch", s, sub[s].address)
         /\ Populate_Start(r) => \E a \in Addresses : Starts(r, "fetch", None, a)
         /\ Reject_Load(r) =>
              \E s \in Submissions : Exists(s) /\ Starts(r, "reject", s, sub[s].address)
         /\ Fetch(r) =>
              \/ Ends(r)
              \/ /\ req[r].address \in OnChain /\ Only(r) /\ req'[r].step = "find"
                 /\ req'[r].sub = req[r].sub /\ req'[r].address = req[r].address
                 /\ req'[r].total \in 0..Pages /\ req'[r].next = req[r].next
         /\ Store_Find(r) =>
              \/ col[req[r].address] = "none" /\ MovesTo(r, "create")
              \/ col[req[r].address] # "none" /\ MovesTo(r, "update")
         /\ Store_Create(r) =>
              \/ InsertCollection(req[r].address, "listed") /\ Batches(r)
              \/ LoseInsert(req[r].address) /\ Ends(r)
              \/ /\ col[req[r].address] # "none" /\ MovesTo(r, "update")
                 /\ UNCHANGED <<col, backfills>>
              \/ Ends(r) /\ UNCHANGED <<col, backfills>>
<1>0. /\ req \in [Reqs -> Request] /\ req[r] \in Request
      /\ col \in [Addresses -> {"none"} \cup Listing]
  BY DEF Base, TypeOK
<1>1. /\ {"enqueue", "reject", "fetch", "find", "create", "update", "batch"} \subseteq ReqSteps
      /\ None \in Submissions \cup {None} /\ Submissions \subseteq Submissions \cup {None}
  BY DEF ReqSteps, Fetching
<1>2. \A s \in Submissions : Exists(s) => sub[s].address \in Addresses
  BY DEF Base, RowsHaveAddress, Exists
<1>3. \A s \in Submissions : sub[s].status = "pending" => sub[s].address \in Addresses
  BY DEF Base, RowsHaveAddress, Rows
<1>4. ASSUME Submit_Save(r)
      PROVE  \E s \in Submissions, a \in Addresses :
               /\ sub[s].status = "new"
               /\ sub' = [sub EXCEPT ![s] = [address |-> a, status |-> "validating"]]
               /\ Starts(r, "enqueue", s, a)
  <2>1. PICK s \in Submissions, a \in Addresses :
          /\ sub[s].status = "new"
          /\ sub' = [sub EXCEPT ![s] = [address |-> a, status |-> "validating"]]
          /\ req' = [req EXCEPT ![r] = At("enqueue", s, a)]
    BY <1>4 DEF Submit_Save
  <2>2. Starts(r, "enqueue", s, a) BY <1>0, <1>1, <2>1, Begins
  <2> QED BY <2>1, <2>2
<1>5. ASSUME Approve_Check(r)
      PROVE  \E s \in Submissions :
               sub[s].status = "pending" /\ Starts(r, "fetch", s, sub[s].address)
  <2>1. PICK s \in Submissions :
          sub[s].status = "pending" /\ req' = [req EXCEPT ![r] = At("fetch", s, sub[s].address)]
    BY <1>5 DEF Approve_Check
  <2>2. Starts(r, "fetch", s, sub[s].address) BY <1>0, <1>1, <1>3, <2>1, Begins
  <2> QED BY <2>1, <2>2
<1>6. ASSUME Populate_Start(r) PROVE \E a \in Addresses : Starts(r, "fetch", None, a)
  <2>1. PICK a \in Addresses : req' = [req EXCEPT ![r] = At("fetch", None, a)]
    BY <1>6 DEF Populate_Start
  <2> QED BY <1>0, <1>1, <2>1, Begins
<1>7. ASSUME Reject_Load(r)
      PROVE  \E s \in Submissions : Exists(s) /\ Starts(r, "reject", s, sub[s].address)
  <2>1. PICK s \in Submissions :
          Exists(s) /\ req' = [req EXCEPT ![r] = At("reject", s, sub[s].address)]
    BY <1>7 DEF Reject_Load
  <2>2. Starts(r, "reject", s, sub[s].address) BY <1>0, <1>1, <1>2, <2>1, Begins
  <2> QED BY <2>1, <2>2
<1>8. ASSUME Fetch(r)
      PROVE  \/ Ends(r)
             \/ /\ req[r].address \in OnChain /\ Only(r) /\ req'[r].step = "find"
                /\ req'[r].sub = req[r].sub /\ req'[r].address = req[r].address
                /\ req'[r].total \in 0..Pages /\ req'[r].next = req[r].next
  <2>1. CASE Leave(r) BY <1>0, <2>1, Changes
  <2>2. CASE ~Leave(r)
    <3>1. req[r].address \in OnChain BY <1>8, <2>2 DEF Fetch, Answer
    <3>2. PICK n \in 0..Pages : req' = [req EXCEPT ![r].step = "find", ![r].total = n]
      BY <1>8, <2>2 DEF Fetch
    <3> DEFINE e == [req[r] EXCEPT !.step = "find", !.total = n]
    <3>3. n \in 0..Pages BY <3>2
    <3>4. /\ e \in Request /\ e.step = "find" /\ e.sub = req[r].sub
          /\ e.address = req[r].address /\ e.total = n /\ e.next = req[r].next
      BY <1>0, <1>1, <3>3 DEF Request
    <3>5. req' = [req EXCEPT ![r] = e] BY <3>2
    <3> HIDE DEF e
    <3>6. Only(r) /\ req'[r] = e BY <1>0, <3>4, <3>5, OneChanges DEF Only
    <3> QED BY <3>1, <3>2, <3>4, <3>6
  <2> QED BY <2>1, <2>2
<1>9. ASSUME Store_Find(r)
      PROVE  \/ col[req[r].address] = "none" /\ MovesTo(r, "create")
             \/ col[req[r].address] # "none" /\ MovesTo(r, "update")
  <2>1. req[r].address \in Addresses BY <1>9 DEF Base, Paths, Store_Find
  <2>2. CASE col[req[r].address] = "none"
    <3>1. req[r].listing \in Listing BY <1>0 DEF Request
    <3>2. req' = [req EXCEPT ![r].step = "create", ![r].listing = req[r].listing]
      BY <1>0, <1>9, <2>2 DEF Store_Find
    <3> QED BY <1>0, <1>1, <2>2, <3>1, <3>2, Changes
  <2>3. CASE col[req[r].address] # "none"
    <3>1. col[req[r].address] \in Listing BY <1>0, <2>1, <2>3
    <3>2. req' = [req EXCEPT ![r].step = "update", ![r].listing = col[req[r].address]]
      BY <1>9, <2>3 DEF Store_Find
    <3> QED BY <1>0, <1>1, <2>3, <3>1, <3>2, Changes
  <2> QED BY <2>2, <2>3
<1>10. ASSUME Store_Create(r)
       PROVE  \/ InsertCollection(req[r].address, "listed") /\ Batches(r)
              \/ LoseInsert(req[r].address) /\ Ends(r)
              \/ /\ col[req[r].address] # "none" /\ MovesTo(r, "update")
                 /\ UNCHANGED <<col, backfills>>
              \/ Ends(r) /\ UNCHANGED <<col, backfills>>
  <2>1. req[r].address \in Addresses BY <1>10 DEF Base, Paths, Store_Create
  <2>2. ASSUME col[req[r].address] # "none",
               req' = [req EXCEPT ![r].step = "update", ![r].listing = col[req[r].address]]
        PROVE  MovesTo(r, "update")
    <3>1. col[req[r].address] \in Listing BY <1>0, <2>1, <2>2
    <3> QED BY <1>0, <1>1, <2>2, <3>1, Changes
  <2>3. CASE InsertCollection(req[r].address, "listed") /\ ToBatches(r)
    BY <1>0, <2>3, Changes
  <2>4. CASE /\ col[req[r].address] # "none"
             /\ req' = [req EXCEPT ![r].step = "update", ![r].listing = col[req[r].address]]
             /\ UNCHANGED <<col, backfills>>
    BY <2>2, <2>4
  <2>5. CASE Leave(r) /\ UNCHANGED <<col, backfills>>
    BY <1>0, <2>5, Changes
  <2>6. CASE LoseInsert(req[r].address) /\ Leave(r) BY <1>0, <2>6, Changes
  <2> QED BY <1>10, <2>3, <2>4, <2>5, <2>6 DEF Store_Create
<1> QED BY <1>4, <1>5, <1>6, <1>7, <1>8, <1>9, <1>10

\* What the acting request knows afterwards is enough for all of them.
LEMMA PathsKept ==
  ASSUME Base, NEW r \in Reqs, Only(r),
         \/ req'[r].step = "idle"
         \/ /\ req'[r].address \in Addresses
            /\ req'[r].step \in {"enqueue", "reject"} \cup Removing => req'[r].sub \in Submissions
  PROVE  req' \in [Reqs -> Request] /\ Paths'
<1>1. \A q \in Reqs : q # r => req'[q] = req[q] BY DEF Only
<1>2. "idle" \notin {"enqueue", "reject"} \cup Removing BY DEF Removing
<1> QED BY <1>1, <1>2 DEF Only, Base, Paths

\* Every action of a request leaves the requests well formed.
LEMMA RequestsKept ==
  ASSUME Base, NEW r \in Reqs,
         \/ Submit_Save(r) \/ Submit_Enqueue(r) \/ Approve_Check(r) \/ Populate_Start(r)
         \/ Fetch(r) \/ Store_Find(r) \/ Store_Create(r) \/ Store_Update(r)
         \/ Store_Batch(r) \/ Approve_Publish(r) \/ Approve_Remove(r)
         \/ Reject_Load(r) \/ Reject_Save(r)
  PROVE  Only(r) /\ req' \in [Reqs -> Request] /\ Paths'
<1>0. /\ req \in [Reqs -> Request] /\ req[r] \in Request
      /\ req[r].step # "idle" => req[r].address \in Addresses
      /\ req[r].step \in {"enqueue", "reject"} \cup Removing => req[r].sub \in Submissions
  BY DEF Base, TypeOK, Paths
<1>1. /\ "batch" \in ReqSteps /\ "publish" \in ReqSteps /\ "remove" \in ReqSteps
      /\ OnChain \subseteq Addresses
  BY Constants DEF ReqSteps, Fetching, Removing
<1>2. ASSUME Ends(r) PROVE Only(r) /\ req' \in [Reqs -> Request] /\ Paths'
  BY <1>2, PathsKept DEF Ends
<1>3. CASE Submit_Save(r)
  <2>1. PICK s \in Submissions, a \in Addresses : Starts(r, "enqueue", s, a) BY <1>3, Moves
  <2> QED BY <2>1, PathsKept DEF Starts
<1>4. CASE Submit_Enqueue(r) BY <1>0, <1>2, <1>4, Changes DEF Submit_Enqueue
<1>5. CASE Approve_Check(r)
  <2>1. PICK s \in Submissions :
          sub[s].status = "pending" /\ Starts(r, "fetch", s, sub[s].address)
    BY <1>5, Moves
  <2>2. sub[s].address \in Addresses BY <2>1 DEF Base, RowsHaveAddress, Rows
  <2> QED BY <2>1, <2>2, PathsKept DEF Starts
<1>6. CASE Populate_Start(r)
  <2>1. PICK a \in Addresses : Starts(r, "fetch", None, a) BY <1>6, Moves
  <2>2. "fetch" \notin {"enqueue", "reject"} \cup Removing BY DEF Removing
  <2> QED BY <2>1, <2>2, PathsKept DEF Starts
<1>7. CASE Fetch(r)
  <2>1. "find" \notin {"enqueue", "reject"} \cup Removing BY DEF Removing
  <2>2. CASE Ends(r) BY <1>2, <2>2
  <2>3. CASE ~Ends(r)
    <3>1. /\ req[r].address \in OnChain /\ Only(r) /\ req'[r].step = "find"
          /\ req'[r].address = req[r].address
      BY <1>7, <2>3, Moves
    <3> QED BY <1>1, <2>1, <3>1, PathsKept
  <2> QED BY <2>2, <2>3
<1>8. ASSUME NEW step \in ReqSteps, MovesTo(r, step), req[r].step # "idle",
             step \in {"enqueue", "reject"} \cup Removing => req[r].sub \in Submissions
      PROVE  Only(r) /\ req' \in [Reqs -> Request] /\ Paths'
  BY <1>0, <1>8, PathsKept DEF MovesTo
<1>9. /\ {"create", "update", "batch"} \subseteq ReqSteps
      /\ {"create", "update", "batch"} \cap ({"enqueue", "reject"} \cup Removing) = {}
  BY DEF ReqSteps, Fetching, Removing
<1>10. CASE Store_Find(r)
  <2>1. req[r].step # "idle" BY <1>10 DEF Store_Find
  <2>2. MovesTo(r, "create") \/ MovesTo(r, "update") BY <1>10, Moves
  <2> QED BY <1>8, <1>9, <2>1, <2>2
<1>18. ASSUME Batches(r), req[r].step # "idle"
       PROVE  Only(r) /\ req' \in [Reqs -> Request] /\ Paths'
  <2>1. req[r].sub # None => req[r].sub \in Submissions BY <1>0 DEF Request
  <2> QED BY <1>1, <1>2, <1>8, <1>9, <1>18, <2>1 DEF Batches
<1>11. CASE Store_Create(r)
  <2>1. req[r].step # "idle" BY <1>11 DEF Store_Create
  <2>2. Batches(r) \/ MovesTo(r, "update") \/ Ends(r) BY <1>11, Moves
  <2> QED BY <1>2, <1>8, <1>9, <1>18, <2>1, <2>2
<1>12. CASE Store_Update(r)
  <2>1. req[r].step # "idle" BY <1>12 DEF Store_Update
  <2>2. ToBatches(r) \/ Leave(r) BY <1>12 DEF Store_Update
  <2>3. Batches(r) \/ Ends(r) BY <1>0, <2>2, Changes
  <2> QED BY <1>2, <1>18, <2>1, <2>3
<1>13. CASE Store_Batch(r)
  <2>1. req[r].step = "batch" /\ (NextPage(r) \/ Leave(r)) BY <1>13 DEF Store_Batch
  <2>2. CASE Leave(r) BY <1>0, <1>2, <2>2, Changes
  <2>3. CASE NextPage(r)
    <3>1. CASE Ends(r) BY <1>2, <3>1
    <3>2. CASE req[r].sub # None /\ MovesTo(r, "publish")
      <4>1. req[r].sub \in Submissions BY <1>0, <3>2 DEF Request
      <4> QED BY <1>1, <1>8, <2>1, <3>2, <4>1
    <3>3. CASE Only(r) /\ req'[r].step = req[r].step /\ req'[r].address = req[r].address
      BY <1>0, <1>9, <2>1, <3>3, PathsKept
    <3> QED BY <1>0, <2>3, <3>1, <3>2, <3>3, PageMoves
  <2> QED BY <2>1, <2>2, <2>3
<1>14. CASE Approve_Publish(r)
  <2>1. req[r].step = "publish" /\ (Goto(r, "remove") \/ Leave(r)) BY <1>14 DEF Approve_Publish
  <2>2. req[r].sub \in Submissions BY <1>0, <2>1 DEF Removing
  <2>3. MovesTo(r, "remove") \/ Ends(r) BY <1>0, <1>1, <2>1, Changes
  <2> QED BY <1>1, <1>2, <1>8, <2>1, <2>2, <2>3
<1>15. CASE Approve_Remove(r) BY <1>0, <1>2, <1>15, Changes DEF Approve_Remove
<1>16. CASE Reject_Load(r)
  <2>1. PICK s \in Submissions : Exists(s) /\ Starts(r, "reject", s, sub[s].address)
    BY <1>16, Moves
  <2>2. sub[s].address \in Addresses BY <2>1 DEF Base, RowsHaveAddress, Exists
  <2> QED BY <2>1, <2>2, PathsKept DEF Starts
<1>17. CASE Reject_Save(r) BY <1>0, <1>2, <1>17, Changes DEF Reject_Save
<1> QED BY <1>3, <1>4, <1>5, <1>6, <1>7, <1>10, <1>11, <1>12, <1>13, <1>14,
           <1>15, <1>16, <1>17

SubRows == [Submissions -> [address : Addresses \cup {None}, status : Status]]

\* The submissions' rows keep their type, and a row keeps its address.
LEMMA RowsKept ==
  ASSUME Base, Next
  PROVE  sub' \in SubRows /\ RowsHaveAddress'
<1>0. /\ sub \in SubRows /\ \A s \in Submissions : sub[s] \in [address : Addresses \cup {None}, status : Status]
      /\ \A s \in Submissions : sub[s].status \in Rows \cup {"approved"} => sub[s].address \in Addresses
      /\ \A r \in Reqs : req[r].step # "idle" => req[r].address \in Addresses
      /\ \A r \in Reqs : req[r].step \in {"enqueue", "reject"} \cup Removing => req[r].sub \in Submissions
  BY DEF Base, TypeOK, RowsHaveAddress, Paths, SubRows
<1>1. ASSUME NEW s \in Submissions, NEW a \in Addresses \cup {None}, NEW status \in Status,
             status \in Rows \cup {"approved"} => a \in Addresses,
             sub' = [sub EXCEPT ![s] = [address |-> a, status |-> status]]
      PROVE  sub' \in SubRows /\ RowsHaveAddress'
  <2> DEFINE e == [address |-> a, status |-> status]
  <2>1. e \in [address : Addresses \cup {None}, status : Status] OBVIOUS
  <2>2. e.address = a /\ e.status = status OBVIOUS
  <2>3. sub' = [sub EXCEPT ![s] = e] BY <1>1
  <2> HIDE DEF e
  <2>4. sub'[s] = e /\ \A t \in Submissions : t # s => sub'[t] = sub[t]
    BY <1>0, <2>3 DEF SubRows
  <2>5. sub' \in SubRows BY <1>0, <2>1, <2>3 DEF SubRows
  <2> QED BY <1>0, <1>1, <2>2, <2>4, <2>5 DEF RowsHaveAddress
<1>2. ASSUME NEW s \in Submissions, NEW status \in Status, Exists(s), SetStatus(s, status)
      PROVE  sub' \in SubRows /\ RowsHaveAddress'
  <2>1. sub[s].address \in Addresses BY <1>0, <1>2 DEF Exists
  <2>2. sub' = [sub EXCEPT ![s] = [address |-> sub[s].address, status |-> status]]
    <3>1. sub' = [sub EXCEPT ![s] = [sub[s] EXCEPT !.status = status]] BY <1>2 DEF SetStatus
    <3>2. \A d \in [address : Addresses \cup {None}, status : Status] :
            [d EXCEPT !.status = status] = [address |-> d.address, status |-> status]
      OBVIOUS
    <3> QED BY <1>0, <3>1, <3>2
  <2> QED BY <1>1, <2>1, <2>2
<1>3. {"validating", "pending", "rejected", "approved", "deleted"} \subseteq Status
  BY DEF Status, Rows
<1>4. ASSUME UNCHANGED sub PROVE sub' \in SubRows /\ RowsHaveAddress'
  BY <1>0, <1>4 DEF RowsHaveAddress
<1>5. ASSUME NEW r \in Reqs, Submit_Save(r) PROVE sub' \in SubRows /\ RowsHaveAddress'
  <2>1. PICK s \in Submissions, a \in Addresses :
          sub' = [sub EXCEPT ![s] = [address |-> a, status |-> "validating"]]
    BY <1>5 DEF Submit_Save
  <2> QED BY <1>1, <1>3, <2>1
<1>6. ASSUME NEW r \in Reqs, Approve_Remove(r) PROVE sub' \in SubRows /\ RowsHaveAddress'
  <2>1. req[r].sub \in Submissions BY <1>0, <1>6 DEF Approve_Remove, Removing
  <2> QED BY <1>2, <1>3, <1>4, <1>6, <2>1 DEF Approve_Remove
<1>7. ASSUME NEW r \in Reqs, Reject_Save(r) PROVE sub' \in SubRows /\ RowsHaveAddress'
  <2>1. req[r].step = "reject" BY <1>7 DEF Reject_Save
  <2>2. req[r].sub \in Submissions /\ req[r].address \in Addresses BY <1>0, <2>1
  <2>3. \/ sub' = [sub EXCEPT ![req[r].sub] = [address |-> req[r].address, status |-> "rejected"]]
        \/ UNCHANGED sub
    BY <1>7 DEF Reject_Save
  <2> QED BY <1>1, <1>3, <1>4, <2>2, <2>3
<1>8. ASSUME NEW s \in Submissions, Task_Save(s) PROVE sub' \in SubRows /\ RowsHaveAddress'
  <2>1. CASE Exists(s) /\ SetStatus(s, IF task[s] = "valid" THEN "pending" ELSE "rejected")
    <3>1. (IF task[s] = "valid" THEN "pending" ELSE "rejected") \in Status BY <1>3
    <3> QED BY <1>2, <2>1, <3>1
  <2>2. CASE UNCHANGED sub BY <1>4, <2>2
  <2> QED BY <1>8, <2>1, <2>2 DEF Task_Save
<1>9. ASSUME NEW s \in Submissions, Task_SaveFailure(s)
      PROVE  sub' \in SubRows /\ RowsHaveAddress'
  BY <1>2, <1>3, <1>4, <1>9 DEF Task_SaveFailure
<1>10. ASSUME NEW s \in Submissions, Admin_DeleteSubmission(s)
       PROVE  sub' \in SubRows /\ RowsHaveAddress'
  <2>1. "deleted" \notin Rows \cup {"approved"} BY DEF Rows
  <2>2. sub' = [sub EXCEPT ![s] = [address |-> None, status |-> "deleted"]]
    BY <1>10 DEF Admin_DeleteSubmission
  <2>3. None \in Addresses \cup {None} OBVIOUS
  <2> QED BY <1>1, <1>3, <2>1, <2>2, <2>3
<1>13. ASSUME NEW s \in Submissions, Admin_SetStatus(s)
       PROVE  sub' \in SubRows /\ RowsHaveAddress'
  BY <1>2, <1>3, <1>13 DEF Admin_SetStatus, Rows
<1>11. ASSUME NEW r \in Reqs,
              \/ Submit_Enqueue(r) \/ Approve_Check(r) \/ Populate_Start(r) \/ Fetch(r)
              \/ Store_Find(r) \/ Store_Create(r) \/ Store_Update(r) \/ Store_Batch(r)
              \/ Approve_Publish(r) \/ Reject_Load(r)
       PROVE  UNCHANGED sub
  BY <1>11 DEF Submit_Enqueue, Approve_Check, Populate_Start, Fetch, Store_Find,
               Store_Create, Store_Update, Store_Batch, Approve_Publish, Reject_Load
<1>12. ASSUME \/ \E s \in Submissions : Task_Validate(s)
              \/ \E a \in Addresses : Admin_SetListing(a) \/ Admin_DeleteCollection(a)
              \/ Restart
       PROVE  UNCHANGED sub
  BY <1>12 DEF Task_Validate, Admin_SetListing, Admin_DeleteCollection, Restart
<1> QED BY <1>4, <1>5, <1>6, <1>7, <1>8, <1>9, <1>10, <1>11, <1>12, <1>13 DEF Next

\* The tasks, the collections and the counters keep their types.
LEMMA RestTyped ==
  ASSUME Base, Next
  PROVE  /\ task' \in [Submissions -> TaskSteps]
         /\ col' \in [Addresses -> {"none"} \cup Listing]
         /\ nfts' \in [Addresses -> SUBSET (1..Pages)]
         /\ skipped' \in [Addresses -> SUBSET (1..Pages)]
         /\ backfills' \in [Addresses -> Nat] /\ deletions' \in [Addresses -> Nat]
         /\ faults' \in 0..MaxFaults /\ orphans' \in [Addresses -> Nat]
         /\ lost' \subseteq Submissions /\ handSet' \subseteq Submissions
<1> DEFINE Rest == /\ task' \in [Submissions -> TaskSteps]
                   /\ col' \in [Addresses -> {"none"} \cup Listing]
                   /\ nfts' \in [Addresses -> SUBSET (1..Pages)]
                   /\ skipped' \in [Addresses -> SUBSET (1..Pages)]
                   /\ backfills' \in [Addresses -> Nat] /\ deletions' \in [Addresses -> Nat]
                   /\ faults' \in 0..MaxFaults /\ orphans' \in [Addresses -> Nat]
                   /\ lost' \subseteq Submissions /\ handSet' \subseteq Submissions
<1>0. /\ task \in [Submissions -> TaskSteps]
      /\ col \in [Addresses -> {"none"} \cup Listing]
      /\ nfts \in [Addresses -> SUBSET (1..Pages)]
      /\ skipped \in [Addresses -> SUBSET (1..Pages)]
      /\ backfills \in [Addresses -> Nat] /\ deletions \in [Addresses -> Nat]
      /\ faults \in 0..MaxFaults /\ orphans \in [Addresses -> Nat]
      /\ lost \subseteq Submissions /\ handSet \subseteq Submissions
      /\ req \in [Reqs -> Request] /\ \A r \in Reqs : req[r] \in Request
      /\ \A r \in Reqs : req[r].step # "idle" => req[r].address \in Addresses
  BY DEF Base, TypeOK, Paths
<1>1. /\ {"none", "queued", "valid", "invalid", "failed"} \subseteq TaskSteps
      /\ "listed" \in Listing /\ \A r \in Reqs : req[r].next \in 1..Pages /\ req[r].listing \in Listing
  BY <1>0 DEF TaskSteps, Listing, Request
<1>2. Fault => faults' \in 0..MaxFaults
  BY <1>0, Constants DEF Fault
<1>3. ASSUME NEW a \in Addresses, NEW listing \in Listing, InsertCollection(a, listing)
      PROVE  col' \in [Addresses -> {"none"} \cup Listing] /\ backfills' \in [Addresses -> Nat]
  <2>1. backfills[a] \in Nat /\ backfills[a] + 1 \in Nat BY <1>0
  <2> QED BY <1>0, <1>3, <2>1 DEF InsertCollection
<1>14. ASSUME NEW a \in Addresses, LoseInsert(a)
       PROVE  /\ col' \in [Addresses -> {"none"} \cup Listing]
              /\ backfills' \in [Addresses -> Nat] /\ orphans' \in [Addresses -> Nat]
  <2>1. backfills[a] + 1 \in Nat /\ orphans[a] + 1 \in Nat BY <1>0
  <2> QED BY <1>0, <1>14, <2>1 DEF LoseInsert
<1>4. ASSUME NEW r \in Reqs,
             \/ Submit_Save(r) \/ Approve_Check(r) \/ Populate_Start(r) \/ Fetch(r)
             \/ Store_Find(r) \/ Approve_Remove(r) \/ Reject_Load(r) \/ Reject_Save(r)
      PROVE  Rest
  BY <1>0, <1>4 DEF Submit_Save, Approve_Check, Populate_Start, Fetch, Store_Find,
                    Approve_Remove, Reject_Load, Reject_Save, colVars, history
<1>5. ASSUME NEW r \in Reqs, Submit_Enqueue(r) PROVE Rest
  BY <1>0, <1>1, <1>5 DEF Submit_Enqueue, colVars, history
<1>6. ASSUME NEW r \in Reqs, Store_Create(r) PROVE Rest
  <2>1. req[r].address \in Addresses BY <1>0, <1>6 DEF Store_Create
  <2>2. \/ InsertCollection(req[r].address, "listed") /\ UNCHANGED orphans
        \/ LoseInsert(req[r].address)
        \/ UNCHANGED <<col, backfills, orphans>>
    BY <1>6 DEF Store_Create
  <2>3. /\ col' \in [Addresses -> {"none"} \cup Listing]
        /\ backfills' \in [Addresses -> Nat] /\ orphans' \in [Addresses -> Nat]
    BY <1>0, <1>1, <1>3, <1>14, <2>1, <2>2
  <2>4. faults' \in 0..MaxFaults BY <1>0, <1>2, <1>6 DEF Store_Create, LoseInsert
  <2> QED BY <1>0, <1>6, <2>3, <2>4 DEF Store_Create
<1>7. ASSUME NEW r \in Reqs, Store_Update(r) PROVE Rest
  <2>1. req[r].address \in Addresses BY <1>0, <1>7 DEF Store_Update
  <2>2. \/ InsertCollection(req[r].address, req[r].listing) /\ UNCHANGED orphans
        \/ LoseInsert(req[r].address)
        \/ /\ col' = [col EXCEPT ![req[r].address] = req[r].listing]
           /\ UNCHANGED <<backfills, orphans>>
        \/ UNCHANGED <<col, backfills, orphans>>
    BY <1>7 DEF Store_Update
  <2>3. /\ col' \in [Addresses -> {"none"} \cup Listing]
        /\ backfills' \in [Addresses -> Nat] /\ orphans' \in [Addresses -> Nat]
    BY <1>0, <1>1, <1>3, <1>14, <2>1, <2>2
  <2>4. faults' \in 0..MaxFaults BY <1>0, <1>2, <1>7 DEF Store_Update, LoseInsert
  <2> QED BY <1>0, <1>7, <2>3, <2>4 DEF Store_Update
<1>8. ASSUME NEW r \in Reqs, Store_Batch(r) PROVE Rest
  <2>1. req[r].address \in Addresses BY <1>0, <1>8 DEF Store_Batch
  <2>2. faults' \in 0..MaxFaults BY <1>0, <1>2, <1>8 DEF Store_Batch
  <2>3. \/ nfts' = [nfts EXCEPT ![req[r].address] = @ \cup {req[r].next}] /\ UNCHANGED skipped
        \/ skipped' = [skipped EXCEPT ![req[r].address] = @ \cup {req[r].next}] /\ UNCHANGED nfts
        \/ UNCHANGED <<nfts, skipped>>
    BY <1>8 DEF Store_Batch
  <2>4. nfts' \in [Addresses -> SUBSET (1..Pages)] /\ skipped' \in [Addresses -> SUBSET (1..Pages)]
    BY <1>0, <1>1, <2>1, <2>3
  <2> QED BY <1>0, <1>8, <2>2, <2>4 DEF Store_Batch, history
<1>9. ASSUME NEW r \in Reqs, Approve_Publish(r) PROVE Rest
  BY <1>0, <1>1, <1>9 DEF Approve_Publish, history
<1>10. ASSUME NEW s \in Submissions,
              Task_Validate(s) \/ Task_Save(s) \/ Task_SaveFailure(s) \/ Admin_DeleteSubmission(s)
       PROVE  Rest
  <2>1. faults' \in 0..MaxFaults
    BY <1>0, <1>2, <1>10 DEF Task_Validate, Task_Save, Task_SaveFailure, Admin_DeleteSubmission
  <2>2. task' \in [Submissions -> TaskSteps]
    BY <1>0, <1>1, <1>10 DEF Task_Validate, Task_Save, Task_SaveFailure,
                             Admin_DeleteSubmission, StepTask
  <2>3. lost' \subseteq Submissions
    BY <1>0, <1>10 DEF Task_Validate, Task_Save, Task_SaveFailure, Admin_DeleteSubmission, history
  <2> QED BY <1>0, <1>10, <2>1, <2>2, <2>3
          DEF Task_Validate, Task_Save, Task_SaveFailure, Admin_DeleteSubmission, colVars, history
<1>15. ASSUME NEW s \in Submissions, Admin_SetStatus(s) PROVE Rest
  BY <1>0, <1>2, <1>15 DEF Admin_SetStatus, colVars
<1>11. ASSUME NEW a \in Addresses, Admin_SetListing(a) PROVE Rest
  BY <1>0, <1>2, <1>11 DEF Admin_SetListing, history
<1>12. ASSUME NEW a \in Addresses, Admin_DeleteCollection(a) PROVE Rest
  <2>1. deletions[a] + 1 \in Nat BY <1>0
  <2> QED BY <1>0, <1>2, <1>12, <2>1 DEF Admin_DeleteCollection, history
<1>13. ASSUME Restart PROVE Rest
  <2>1. faults' \in 0..MaxFaults BY <1>2, <1>13 DEF Restart
  <2>2. task' \in [Submissions -> TaskSteps] BY <1>1, <1>13 DEF Restart
  <2>3. lost' \subseteq Submissions BY <1>0, <1>13 DEF Restart
  <2> QED BY <1>0, <1>13, <2>1, <2>2, <2>3 DEF Restart, colVars
<1>16. Rest
  BY <1>4, <1>5, <1>6, <1>7, <1>8, <1>9, <1>10, <1>11, <1>12, <1>13, <1>15 DEF Next
<1> QED BY <1>16

\* What no request does leaves the requests alone, or ends them all.
LEMMA OthersKeepRequests ==
  ASSUME \/ \E s \in Submissions :
              \/ Task_Validate(s) \/ Task_Save(s) \/ Task_SaveFailure(s)
              \/ Admin_SetStatus(s) \/ Admin_DeleteSubmission(s)
         \/ \E a \in Addresses : Admin_SetListing(a) \/ Admin_DeleteCollection(a)
  PROVE  UNCHANGED req
BY DEF Task_Validate, Task_Save, Task_SaveFailure, Admin_SetStatus, Admin_DeleteSubmission,
       Admin_SetListing, Admin_DeleteCollection

LEMMA BaseInit == Init => Base
<1> SUFFICES ASSUME Init PROVE Base OBVIOUS
<1>1. \A r \in Reqs : req[r].step = "idle" BY DEF Init, Idle
<1>2. "idle" \notin {"enqueue", "reject"} \cup Removing BY DEF Removing
<1>3. Paths BY <1>1, <1>2 DEF Paths
<1>4. RowsHaveAddress BY DEF Init, RowsHaveAddress, Rows
<1>5. "new" \in Status /\ "none" \in TaskSteps BY DEF Status, TaskSteps
<1>6. 0 \in 0..MaxFaults BY Constants
<1>7. TypeOK BY <1>5, <1>6, IdleTyped DEF Init, TypeOK
<1> QED BY <1>3, <1>4, <1>7 DEF Base

LEMMA BaseKept == ASSUME Base, [Next]_vars PROVE Base'
<1>1. CASE Next
  <2>1. sub' \in SubRows /\ RowsHaveAddress' BY <1>1, RowsKept
  <2>2. req' \in [Reqs -> Request] /\ Paths'
    <3>1. CASE Restart
      <4>1. \A r \in Reqs : req'[r] = Idle BY <3>1 DEF Restart
      <4>2. req' \in [Reqs -> Request] BY <3>1, IdleTyped DEF Restart
      <4>3. Idle.step = "idle" /\ "idle" \notin {"enqueue", "reject"} \cup Removing
        BY DEF Idle, Removing
      <4> QED BY <4>1, <4>2, <4>3 DEF Paths
    <3>2. CASE UNCHANGED req BY <3>2 DEF Base, TypeOK, Paths
    <3> QED BY <1>1, <3>1, <3>2, RequestsKept, OthersKeepRequests DEF Next
  <2>3. TypeOK' BY <1>1, <2>1, <2>2, RestTyped DEF TypeOK, SubRows
  <2> QED BY <2>1, <2>2, <2>3 DEF Base
<1>2. CASE UNCHANGED vars
  BY <1>2 DEF vars, colVars, history, Base, TypeOK, Paths, RowsHaveAddress
<1> QED BY <1>1, <1>2

\* The state stays typed, and the requests and rows well formed.
LEMMA BaseInvariant == Spec => []Base
BY BaseInit, BaseKept, PTL DEF Spec

\* Every state is well typed: only a page of the collection is fetched or stored,
\* and the counters stay within their bounds (approve_pending_collection, nft_storage).
THEOREM TypeCorrect == Spec => []TypeOK
<1>1. Base => TypeOK BY DEF Base
<1> QED BY <1>1, BaseInvariant, PTL

(***************************************************************************)
(* A row has its backfill, and one row has one.                             *)
(***************************************************************************)

\* A collection's row is inserted, by a request that stores it, or is changed, or
\* is deleted, or nothing happens to it.
LEMMA CollectionSteps ==
  ASSUME Base, Next
  PROVE  \/ UNCHANGED <<col, backfills, deletions, orphans>>
         \/ \E r \in Reqs, listing \in Listing :
              /\ req[r].step \in {"create", "update"}
              /\ req[r].step = "create" => listing = "listed"
              /\ InsertCollection(req[r].address, listing)
              /\ UNCHANGED <<deletions, orphans>>
         \/ \E a \in Addresses, listing \in Listing :
              /\ col[a] # "none" /\ col' = [col EXCEPT ![a] = listing]
              /\ UNCHANGED <<backfills, deletions, orphans>>
         \/ \E a \in Addresses :
              /\ col[a] # "none" /\ col' = [col EXCEPT ![a] = "none"]
              /\ deletions' = [deletions EXCEPT ![a] = @ + 1]
              /\ UNCHANGED <<backfills, orphans>>
         \/ \E a \in Addresses : LoseInsert(a) /\ UNCHANGED deletions
<1> DEFINE Inserts(r, listing) ==
             /\ req[r].step \in {"create", "update"}
             /\ req[r].step = "create" => listing = "listed"
             /\ InsertCollection(req[r].address, listing)
             /\ UNCHANGED <<deletions, orphans>>
           Changed(a, listing) ==
             /\ col[a] # "none" /\ col' = [col EXCEPT ![a] = listing]
             /\ UNCHANGED <<backfills, deletions, orphans>>
           Result == \/ UNCHANGED <<col, backfills, deletions, orphans>>
                     \/ \E r \in Reqs, listing \in Listing : Inserts(r, listing)
                     \/ \E a \in Addresses, listing \in Listing : Changed(a, listing)
                     \/ \E a \in Addresses :
                          /\ col[a] # "none" /\ col' = [col EXCEPT ![a] = "none"]
                          /\ deletions' = [deletions EXCEPT ![a] = @ + 1]
                          /\ UNCHANGED <<backfills, orphans>>
                     \/ \E a \in Addresses : LoseInsert(a) /\ UNCHANGED deletions
<1>0. /\ "listed" \in Listing /\ \A r \in Reqs : req[r].listing \in Listing
      /\ \A r \in Reqs : req[r].step # "idle" => req[r].address \in Addresses
  BY DEF Base, TypeOK, Paths, Listing, Request
<1>1. ASSUME NEW r \in Reqs,
             \/ Submit_Save(r) \/ Submit_Enqueue(r) \/ Approve_Check(r) \/ Populate_Start(r)
             \/ Fetch(r) \/ Store_Find(r) \/ Store_Batch(r) \/ Approve_Remove(r)
             \/ Reject_Load(r) \/ Reject_Save(r)
      PROVE  Result
  BY <1>1 DEF Submit_Save, Submit_Enqueue, Approve_Check, Populate_Start, Fetch, Store_Find,
              Store_Batch, Approve_Remove, Reject_Load, Reject_Save, colVars, history
<1>2. ASSUME NEW r \in Reqs, Store_Create(r) PROVE Result
  <2>1. \/ UNCHANGED <<col, backfills, deletions, orphans>> \/ Inserts(r, "listed")
        \/ LoseInsert(req[r].address) /\ UNCHANGED deletions
    BY <1>2 DEF Store_Create
  <2>2. req[r].address \in Addresses BY <1>0, <1>2 DEF Store_Create
  <2> QED BY <1>0, <2>1, <2>2
<1>3. ASSUME NEW r \in Reqs, Store_Update(r) PROVE Result
  <2>1. \/ UNCHANGED <<col, backfills, deletions, orphans>>
        \/ Inserts(r, req[r].listing) \/ Changed(req[r].address, req[r].listing)
        \/ LoseInsert(req[r].address) /\ UNCHANGED deletions
    BY <1>3 DEF Store_Update
  <2>2. req[r].address \in Addresses BY <1>0, <1>3 DEF Store_Update
  <2> QED BY <1>0, <2>1, <2>2
<1>4. ASSUME NEW r \in Reqs, Approve_Publish(r) PROVE Result
  <2>1. UNCHANGED <<col, backfills, deletions, orphans>> \/ Changed(req[r].address, "listed")
    BY <1>4 DEF Approve_Publish, history
  <2>2. req[r].address \in Addresses BY <1>0, <1>4 DEF Approve_Publish
  <2> QED BY <1>0, <2>1, <2>2
<1>5. ASSUME NEW s \in Submissions,
             \/ Task_Validate(s) \/ Task_Save(s) \/ Task_SaveFailure(s)
             \/ Admin_SetStatus(s) \/ Admin_DeleteSubmission(s)
      PROVE  Result
  BY <1>5 DEF Task_Validate, Task_Save, Task_SaveFailure, Admin_SetStatus,
              Admin_DeleteSubmission, colVars, history
<1>6. ASSUME NEW a \in Addresses, Admin_SetListing(a) PROVE Result
  BY <1>6 DEF Admin_SetListing, history
<1>7. ASSUME NEW a \in Addresses, Admin_DeleteCollection(a) PROVE Result
  BY <1>7 DEF Admin_DeleteCollection, history
<1>8. ASSUME Restart PROVE Result BY <1>8 DEF Restart, colVars
<1>9. Result BY <1>1, <1>2, <1>3, <1>4, <1>5, <1>6, <1>7, <1>8 DEF Next
<1> QED BY <1>9

\* Only a request that finds a row comes to update it.
LEMMA ToUpdate ==
  ASSUME Base, Next, NEW r \in Reqs, req'[r].step = "update"
  PROVE  \/ req'[r] = req[r]
         \/ /\ req'[r].address = req[r].address /\ req[r].address \in Addresses
            /\ col[req[r].address] # "none" /\ UNCHANGED <<col, backfills, deletions>>
<1>0. req \in [Reqs -> Request] /\ \A q \in Reqs : req[q] \in Request BY DEF Base, TypeOK
<1>1. ASSUME NEW q \in Reqs, q # r, Only(q) PROVE req'[r] = req[r] BY <1>1 DEF Only
<1>2. CASE Restart BY <1>2 DEF Restart, Idle
<1>3. CASE UNCHANGED req BY <1>3
<1>4. ASSUME NEW q \in Reqs, q # r,
             \/ Submit_Save(q) \/ Submit_Enqueue(q) \/ Approve_Check(q) \/ Populate_Start(q)
             \/ Fetch(q) \/ Store_Find(q) \/ Store_Create(q) \/ Store_Update(q)
             \/ Store_Batch(q) \/ Approve_Publish(q) \/ Approve_Remove(q)
             \/ Reject_Load(q) \/ Reject_Save(q)
      PROVE  req'[r] = req[r]
  BY <1>1, <1>4, RequestsKept
<1>5. /\ ~Ends(r) /\ \A s, a : ~Starts(r, "enqueue", s, a) /\ ~Starts(r, "fetch", s, a)
                                /\ ~Starts(r, "reject", s, a)
      /\ ~MovesTo(r, "create") /\ ~MovesTo(r, "batch") /\ ~MovesTo(r, "publish")
      /\ ~MovesTo(r, "remove")
  BY DEF Ends, Starts, MovesTo
<1>6. ~Leave(r) /\ ~ToBatches(r) /\ ~Goto(r, "remove")
  <2>1. "remove" \in ReqSteps BY DEF ReqSteps, Removing
  <2> QED BY <1>0, <1>5, <2>1, Changes DEF Batches
<1>7. ~(Submit_Save(r) \/ Approve_Check(r) \/ Populate_Start(r) \/ Reject_Load(r) \/ Fetch(r))
  BY <1>5, Moves
<1>8. ~(Submit_Enqueue(r) \/ Store_Update(r) \/ Approve_Publish(r) \/ Approve_Remove(r)
        \/ Reject_Save(r))
  BY <1>6 DEF Submit_Enqueue, Store_Update, Approve_Publish, Approve_Remove, Reject_Save
<1>9. ~Store_Batch(r)
  <2>1. Store_Batch(r) => NextPage(r) /\ req[r].step = "batch" BY <1>6 DEF Store_Batch
  <2> QED BY <1>0, <1>5, <2>1, PageMoves
<1>10. CASE Store_Find(r)
  <2>1. col[req[r].address] # "none" /\ MovesTo(r, "update") BY <1>5, <1>10, Moves
  <2>2. req[r].step = "find" /\ UNCHANGED <<col, backfills, deletions>>
    BY <1>10 DEF Store_Find, colVars
  <2> QED BY <2>1, <2>2 DEF MovesTo, Base, Paths
<1>11. CASE Store_Create(r)
  <2>1. /\ col[req[r].address] # "none" /\ MovesTo(r, "update")
        /\ UNCHANGED <<col, backfills>>
    BY <1>5, <1>11, Moves DEF Batches
  <2>2. req[r].step = "create" /\ UNCHANGED deletions BY <1>11 DEF Store_Create
  <2> QED BY <2>1, <2>2 DEF MovesTo, Base, Paths
<1> QED BY <1>2, <1>3, <1>4, <1>7, <1>8, <1>9, <1>10, <1>11, OthersKeepRequests DEF Next

\* What is lost, or set by hand, is never forgotten.
LEMMA HistoryGrows ==
  ASSUME Next
  PROVE  lost \subseteq lost' /\ handSet \subseteq handSet'
BY DEF Next, Submit_Save, Submit_Enqueue, Approve_Check, Populate_Start, Fetch, Store_Find,
       Store_Create, Store_Update, Store_Batch, Approve_Publish, Approve_Remove, Reject_Load,
       Reject_Save, Task_Validate, Task_Save, Task_SaveFailure, Admin_SetStatus,
       Admin_DeleteSubmission, Admin_SetListing, Admin_DeleteCollection, Restart, history

Backfilled ==
  /\ \A a \in Addresses :
       /\ col[a] = "none" => backfills[a] <= deletions[a] + orphans[a]
       /\ col[a] # "none" => 1 <= backfills[a] /\ backfills[a] <= 1 + deletions[a] + orphans[a]
  /\ \A r \in Reqs : req[r].step = "update" => backfills[req[r].address] >= 1

LEMMA BackfilledKept == ASSUME Base, Backfilled, [Next]_vars PROVE Backfilled'
<1>0. /\ col \in [Addresses -> {"none"} \cup Listing] /\ backfills \in [Addresses -> Nat]
      /\ deletions \in [Addresses -> Nat] /\ orphans \in [Addresses -> Nat]
      /\ \A r \in Reqs : req[r].step # "idle" => req[r].address \in Addresses
  BY DEF Base, TypeOK, Paths
<1>1. \A a \in Addresses : backfills[a] \in Nat /\ deletions[a] \in Nat /\ orphans[a] \in Nat
  BY <1>0
<1>2. CASE Next
  <2> DEFINE RowsFine == \A a \in Addresses :
                /\ col'[a] = "none" => backfills'[a] <= deletions'[a] + orphans'[a]
                /\ col'[a] # "none" =>
                     1 <= backfills'[a] /\ backfills'[a] <= 1 + deletions'[a] + orphans'[a]
             Grows == \A a \in Addresses : backfills'[a] \in Nat /\ backfills[a] <= backfills'[a]
  <2>1. ASSUME UNCHANGED <<col, backfills, deletions, orphans>> PROVE RowsFine /\ Grows
    <3>1. RowsFine BY <1>1, <2>1 DEF Backfilled
    <3>2. Grows BY <1>1, <2>1
    <3> QED BY <3>1, <3>2
  <2>2. ASSUME NEW r \in Reqs, NEW listing \in Listing, req[r].step \in {"create", "update"},
               req[r].step = "create" => listing = "listed",
               InsertCollection(req[r].address, listing), UNCHANGED <<deletions, orphans>>
        PROVE  RowsFine /\ Grows
    <3> DEFINE a == req[r].address
    <3>1. a \in Addresses BY <1>0, <2>2
    <3>2. listing # "listed" => backfills[a] >= 1 BY <2>2 DEF Backfilled
    <3>3. backfills[a] <= deletions[a] + orphans[a] BY <2>2, <3>1 DEF Backfilled, InsertCollection
    <3>4. col' = [col EXCEPT ![a] = listing]
      BY <2>2 DEF InsertCollection
    <3>5. backfills' = [backfills EXCEPT ![a] = IF listing = "listed" THEN @ + 1 ELSE @]
      BY <2>2 DEF InsertCollection
    <3> HIDE DEF a
    <3>6. /\ col'[a] = listing /\ listing # "none"
          /\ backfills'[a] = IF listing = "listed" THEN backfills[a] + 1 ELSE backfills[a]
          /\ \A b \in Addresses : b # a => col'[b] = col[b] /\ backfills'[b] = backfills[b]
          /\ \A b \in Addresses : deletions'[b] = deletions[b] /\ orphans'[b] = orphans[b]
      BY <1>0, <2>2, <3>1, <3>4, <3>5 DEF Listing
    <3>7. /\ backfills'[a] \in Nat /\ backfills[a] <= backfills'[a]
          /\ 1 <= backfills'[a] /\ backfills'[a] <= 1 + deletions'[a] + orphans'[a]
      BY <1>1, <3>1, <3>2, <3>3, <3>6
    <3>8. Grows BY <1>1, <3>6, <3>7
    <3>9. RowsFine BY <1>1, <3>6, <3>7 DEF Backfilled
    <3> QED BY <3>8, <3>9
  <2>3. ASSUME NEW a \in Addresses, NEW listing \in Listing, col[a] # "none",
               col' = [col EXCEPT ![a] = listing], UNCHANGED <<backfills, deletions, orphans>>
        PROVE  RowsFine /\ Grows
    <3>1. \A b \in Addresses : (col'[b] = "none") <=> (col[b] = "none")
      BY <1>0, <2>3 DEF Listing
    <3>2. Grows BY <1>1, <2>3
    <3>3. RowsFine BY <1>1, <2>3, <3>1 DEF Backfilled
    <3> QED BY <3>2, <3>3
  <2>4. ASSUME NEW a \in Addresses, col[a] # "none", col' = [col EXCEPT ![a] = "none"],
               deletions' = [deletions EXCEPT ![a] = @ + 1], UNCHANGED <<backfills, orphans>>
        PROVE  RowsFine /\ Grows
    <3>1. /\ col'[a] = "none" /\ deletions'[a] = deletions[a] + 1
          /\ \A b \in Addresses : b # a => col'[b] = col[b] /\ deletions'[b] = deletions[b]
      BY <1>0, <2>4
    <3>2. backfills[a] <= 1 + deletions[a] + orphans[a] BY <2>4 DEF Backfilled
    <3>3. backfills'[a] <= deletions'[a] + orphans'[a] BY <1>1, <2>4, <3>1, <3>2
    <3>4. Grows BY <1>1, <2>4
    <3>5. RowsFine BY <1>1, <2>4, <3>1, <3>3 DEF Backfilled
    <3> QED BY <3>4, <3>5
  <2>7. ASSUME NEW a \in Addresses, LoseInsert(a), UNCHANGED deletions PROVE RowsFine /\ Grows
    <3>1. /\ col' = col /\ col[a] = "none"
          /\ backfills' = [backfills EXCEPT ![a] = @ + 1]
          /\ orphans' = [orphans EXCEPT ![a] = @ + 1]
      BY <2>7 DEF LoseInsert
    <3>2. /\ backfills'[a] = backfills[a] + 1 /\ orphans'[a] = orphans[a] + 1
          /\ \A b \in Addresses :
               b # a => backfills'[b] = backfills[b] /\ orphans'[b] = orphans[b]
      BY <1>0, <3>1
    <3>3. Grows BY <1>1, <3>2
    <3>4. RowsFine BY <1>1, <2>7, <3>1, <3>2 DEF Backfilled
    <3> QED BY <3>3, <3>4
  <2>5. RowsFine /\ Grows BY <1>2, <2>1, <2>2, <2>3, <2>4, <2>7, CollectionSteps
  <2>6. ASSUME NEW r \in Reqs, req'[r].step = "update"
        PROVE  backfills'[req'[r].address] >= 1
    <3>1. CASE req'[r] = req[r]
      <4>1. req[r].step = "update" /\ req[r].address \in Addresses BY <1>0, <2>6, <3>1
      <4>2. backfills[req[r].address] >= 1 BY <4>1 DEF Backfilled
      <4> QED BY <1>1, <2>5, <3>1, <4>1, <4>2
    <3>2. CASE /\ req'[r].address = req[r].address /\ req[r].address \in Addresses
               /\ col[req[r].address] # "none" /\ UNCHANGED <<col, backfills, deletions>>
      <4>1. 1 <= backfills[req[r].address] BY <3>2 DEF Backfilled
      <4> QED BY <1>1, <3>2, <4>1
    <3> QED BY <1>2, <2>6, <3>1, <3>2, ToUpdate
  <2> QED BY <2>5, <2>6 DEF Backfilled
<1>3. CASE UNCHANGED vars BY <1>3 DEF vars, colVars, history, Backfilled
<1> QED BY <1>2, <1>3

\* A row has had its backfill, and there is one backfill for each time a row was
\* inserted, whoever creates it, and for each commit that failed
\* (trigger_backfill_for_new_collection, get_or_create).
THEOREM BackfillsOnce == Spec => []BackfillOnce
<1>1. Init => Backfilled
  <2> SUFFICES ASSUME Init PROVE Backfilled OBVIOUS
  <2>1. \A r \in Reqs : req[r].step = "idle" BY DEF Init, Idle
  <2> QED BY <2>1 DEF Init, Backfilled
<1>2. Base /\ Backfilled => BackfillOnce
  <2> SUFFICES ASSUME Base, Backfilled, NEW a \in Addresses
               PROVE  /\ backfills[a] <= 1 + deletions[a] + orphans[a]
                      /\ col[a] # "none" => backfills[a] >= 1
    BY DEF BackfillOnce
  <2>1. backfills[a] \in Nat /\ deletions[a] \in Nat /\ orphans[a] \in Nat
    BY DEF Base, TypeOK
  <2> QED BY <2>1 DEF Backfilled
<1> QED BY <1>1, <1>2, BaseInvariant, BackfilledKept, PTL DEF Spec

(***************************************************************************)
(* Only what a provider knows is fetched, stored and offered for approval.  *)
(***************************************************************************)
Known == {"find", "create", "update", "batch"} \cup Removing

\* What may have become of a request: nothing, its end, a start, or one step further
\* for the same submission and address.
Journey(r) ==
  \/ req'[r] = req[r]
  \/ req'[r].step = "idle" /\ req'[r].sub = None
  \/ /\ req'[r].step \in {"enqueue", "fetch", "reject"} /\ req'[r].next = 1
     /\ req[r].step = "idle"
     /\ req'[r].sub = None \/ Submit_Save(r) \/ Approve_Check(r) \/ Reject_Load(r)
  \/ /\ req'[r].sub = req[r].sub /\ req'[r].address = req[r].address
     /\ \/ /\ req[r].step = "fetch" /\ req'[r].step = "find" /\ req[r].address \in OnChain
           /\ req'[r].total \in 0..Pages /\ req'[r].next = req[r].next
        \/ /\ req[r].step \in Known /\ req'[r].step \in Known \ {"find"}
           /\ req'[r].total = req[r].total
           /\ req'[r].step \in {"create", "update"} =>
                req[r].step \in {"find", "create"} /\ req'[r].next = req[r].next

LEMMA Journeys == ASSUME Base, Next, NEW r \in Reqs PROVE Journey(r)
<1>0. /\ req \in [Reqs -> Request] /\ \A q \in Reqs : req[q] \in Request
      /\ "remove" \in ReqSteps
  BY DEF Base, TypeOK, ReqSteps, Removing
<1>1. CASE Restart BY <1>1 DEF Restart, Idle, Journey
<1>2. CASE UNCHANGED req BY <1>2 DEF Journey
<1>3. ASSUME NEW q \in Reqs, q # r,
             \/ Submit_Save(q) \/ Submit_Enqueue(q) \/ Approve_Check(q) \/ Populate_Start(q)
             \/ Fetch(q) \/ Store_Find(q) \/ Store_Create(q) \/ Store_Update(q)
             \/ Store_Batch(q) \/ Approve_Publish(q) \/ Approve_Remove(q)
             \/ Reject_Load(q) \/ Reject_Save(q)
      PROVE  Journey(r)
  <2>1. Only(q) BY <1>3, RequestsKept
  <2> QED BY <1>3, <2>1 DEF Only, Journey
<1>4. Ends(r) => Journey(r) BY DEF Ends, Journey
<1>5. Leave(r) => Journey(r) BY <1>0, <1>4, Changes
<1>6. ASSUME NEW step \in Known \ {"find"}, MovesTo(r, step), req[r].step \in Known,
             step \in {"create", "update"} => req[r].step \in {"find", "create"}
      PROVE  Journey(r)
  BY <1>6 DEF MovesTo, Journey
<1>7. {"find", "create", "update", "batch", "publish", "remove"} \subseteq Known
  BY DEF Known, Removing
<1>8. ASSUME NEW s, NEW a, NEW step \in {"enqueue", "fetch", "reject"}, Starts(r, step, s, a),
             req[r].step = "idle", s = None \/ Submit_Save(r) \/ Approve_Check(r) \/ Reject_Load(r)
      PROVE  Journey(r)
  BY <1>8 DEF Starts, Journey
<1>17. ASSUME Batches(r), req[r].step \in {"create", "update"} PROVE Journey(r)
  BY <1>4, <1>6, <1>7, <1>17 DEF Batches
<1>9. CASE Submit_Save(r) \/ Approve_Check(r) \/ Populate_Start(r) \/ Reject_Load(r)
  <2>1. req[r].step = "idle"
    BY <1>9 DEF Submit_Save, Approve_Check, Populate_Start, Reject_Load
  <2> QED BY <1>8, <1>9, <2>1, Moves
<1>10. CASE Submit_Enqueue(r) \/ Approve_Remove(r) \/ Reject_Save(r)
  BY <1>5, <1>10 DEF Submit_Enqueue, Approve_Remove, Reject_Save
<1>11. CASE Fetch(r)
  <2>1. req[r].step = "fetch" BY <1>11 DEF Fetch
  <2> QED BY <1>4, <1>11, <2>1, Moves DEF Journey
<1>12. CASE Store_Find(r)
  <2>1. req[r].step = "find" BY <1>12 DEF Store_Find
  <2> QED BY <1>6, <1>7, <1>12, <2>1, Moves
<1>13. CASE Store_Create(r)
  <2>1. req[r].step = "create" BY <1>13 DEF Store_Create
  <2> QED BY <1>4, <1>6, <1>7, <1>13, <1>17, <2>1, Moves
<1>14. CASE Store_Update(r)
  <2>1. req[r].step = "update" /\ (ToBatches(r) \/ Leave(r)) BY <1>14 DEF Store_Update
  <2> QED BY <1>0, <1>5, <1>17, <2>1, Changes
<1>15. CASE Store_Batch(r)
  <2>1. req[r].step = "batch" /\ (NextPage(r) \/ Leave(r)) BY <1>15 DEF Store_Batch
  <2>2. CASE NextPage(r)
    <3>1. CASE /\ req'[r].step = req[r].step /\ req'[r].sub = req[r].sub
               /\ req'[r].address = req[r].address /\ req'[r].total = req[r].total
      BY <1>7, <2>1, <3>1 DEF Journey
    <3> QED BY <1>0, <1>4, <1>6, <1>7, <2>1, <2>2, <3>1, PageMoves
  <2> QED BY <1>5, <2>1, <2>2
<1>16. CASE Approve_Publish(r)
  <2>1. req[r].step = "publish" /\ (Goto(r, "remove") \/ Leave(r)) BY <1>16 DEF Approve_Publish
  <2> QED BY <1>0, <1>5, <1>6, <1>7, <2>1, Changes
<1> QED BY <1>1, <1>2, <1>3, <1>9, <1>10, <1>11, <1>12, <1>13, <1>14, <1>15, <1>16,
           OthersKeepRequests DEF Next

Fetched ==
  /\ \A r \in Reqs :
       /\ req[r].step \in Known => req[r].address \in OnChain
       /\ req[r].step \in {"fetch", "find", "create", "update"} => req[r].next = 1
  /\ \A a \in Addresses : col[a] # "none" => a \in OnChain

LEMMA FetchedKept == ASSUME Base, Fetched, [Next]_vars PROVE Fetched'
<1>1. CASE Next
  <2>1. ASSUME NEW r \in Reqs
        PROVE  /\ req'[r].step \in Known => req'[r].address \in OnChain
               /\ req'[r].step \in {"fetch", "find", "create", "update"} => req'[r].next = 1
    <3>1. Journey(r) BY <1>1, Journeys
    <3>2. /\ {"find", "create", "update", "batch"} \subseteq Known
          /\ "idle" \notin Known /\ "fetch" \notin Known /\ "enqueue" \notin Known
          /\ "reject" \notin Known
      BY DEF Known, Removing
    <3>3. CASE req'[r] = req[r] BY <3>3 DEF Fetched
    <3>4. CASE req'[r].step = "idle" BY <3>2, <3>4
    <3>5. CASE req'[r].step \in {"enqueue", "fetch", "reject"} /\ req'[r].next = 1
      BY <3>2, <3>5
    <3>6. CASE /\ req[r].step = "fetch" /\ req'[r].step = "find" /\ req[r].address \in OnChain
               /\ req'[r].address = req[r].address /\ req'[r].next = req[r].next
      BY <3>6 DEF Fetched
    <3>7. CASE /\ req[r].step \in Known /\ req'[r].step \in Known \ {"find"}
               /\ req'[r].address = req[r].address /\ req'[r].total = req[r].total
               /\ req'[r].step \in {"create", "update"} =>
                    req[r].step \in {"find", "create"} /\ req'[r].next = req[r].next
      <4>1. req'[r].address \in OnChain BY <3>7 DEF Fetched
      <4>2. req'[r].step \notin {"fetch", "find"} BY <3>2, <3>7
      <4> QED BY <3>2, <3>7, <4>1, <4>2 DEF Fetched
    <3> QED BY <3>1, <3>3, <3>4, <3>5, <3>6, <3>7 DEF Journey
  <2>2. ASSUME NEW a \in Addresses, col'[a] # "none" PROVE a \in OnChain
    <3>1. col \in [Addresses -> {"none"} \cup Listing] BY DEF Base, TypeOK
    <3>2. ASSUME col[a] = "none"
          PROVE  \E r \in Reqs : req[r].step \in {"create", "update"} /\ req[r].address = a
      BY <1>1, <2>2, <3>1, <3>2, CollectionSteps DEF InsertCollection, LoseInsert
    <3>3. {"create", "update"} \subseteq Known BY DEF Known
    <3> QED BY <3>2, <3>3 DEF Fetched
  <2> QED BY <2>1, <2>2 DEF Fetched
<1>2. CASE UNCHANGED vars BY <1>2 DEF vars, colVars, Fetched
<1> QED BY <1>1, <1>2

LEMMA FetchedInit == Init => Fetched
<1> SUFFICES ASSUME Init PROVE Fetched OBVIOUS
<1>1. \A r \in Reqs : req[r].step = "idle" BY DEF Init, Idle
<1>2. "idle" \notin Known BY DEF Known, Removing
<1> QED BY <1>1, <1>2 DEF Init, Fetched

(***************************************************************************)
(* The life of one submission: its row, its task and the requests that hold *)
(* its address.                                                             *)
(***************************************************************************)
Held(s) == {req[r].address : r \in {q \in Reqs : req[q].sub = s}}
Enqueuing(s) == \E r \in Reqs : req[r].step = "enqueue" /\ req[r].sub = s

Same(s) == sub'[s] = sub[s] /\ task'[s] = task[s]
Shrinks(s) == Held(s)' \subseteq Held(s)

\* One step, as one submission sees it.
Life(s) ==
  \/ Same(s) /\ Shrinks(s) /\ (Enqueuing(s) => Enqueuing(s)')
  \/ /\ Same(s) /\ Exists(s) /\ (Enqueuing(s) => Enqueuing(s)')
     /\ Held(s)' \subseteq Held(s) \cup {sub[s].address}
  \/ /\ sub[s].status = "new" /\ sub'[s].status = "validating" /\ task'[s] = task[s]
     /\ Held(s)' \subseteq Held(s) \cup {sub'[s].address} /\ Enqueuing(s)'
  \/ /\ Held(s) # {} /\ sub'[s] = sub[s] /\ task'[s] = "queued" /\ Shrinks(s)
  \/ /\ task[s] = "queued" /\ sub'[s] = sub[s] /\ Shrinks(s)
     /\ \/ task'[s] = "none" /\ (Exists(s) => s \in lost')
        \/ Exists(s) /\ task'[s] \in {"valid", "invalid"}
           /\ (task'[s] = "valid" => sub[s].address \in OnChain)
        \/ Exists(s) /\ task'[s] = "failed"
  \/ /\ task[s] \in {"valid", "invalid"} /\ Shrinks(s)
     /\ \/ /\ Exists(s) /\ sub'[s].address = sub[s].address /\ task'[s] = "none"
           /\ sub'[s].status = IF task[s] = "valid" THEN "pending" ELSE "rejected"
        \/ sub'[s] = sub[s] /\ task'[s] = "failed"
  \/ /\ task[s] = "failed" /\ task'[s] = "none" /\ Shrinks(s)
     /\ \/ Exists(s) /\ sub'[s].address = sub[s].address /\ sub'[s].status = "rejected"
        \/ sub'[s] = sub[s] /\ (Exists(s) => s \in lost')
  \/ /\ sub'[s].address \in Held(s) /\ sub'[s].status = "rejected" /\ task'[s] = task[s]
     /\ Shrinks(s)
  \/ /\ Exists(s) /\ sub'[s].address = sub[s].address /\ sub'[s].status = "approved"
     /\ task'[s] = task[s] /\ Shrinks(s)
     /\ \E r \in Reqs : req[r].step = "remove" /\ req[r].sub = s
  \/ /\ Exists(s) /\ sub'[s].status = "deleted" /\ task'[s] = task[s] /\ Shrinks(s)
  \/ /\ Exists(s) /\ sub'[s].address = sub[s].address /\ sub'[s].status \in Rows
     /\ task'[s] = task[s] /\ Shrinks(s) /\ s \in handSet'
  \/ /\ sub'[s] = sub[s] /\ task'[s] = "none" /\ Shrinks(s)
     /\ sub[s].status = "validating" => s \in lost'

\* A request that does not start on a submission holds what it held.
LEMMA Holders ==
  ASSUME Base, Next, NEW s \in Submissions
  PROVE  /\ (\A r \in Reqs : ~(Submit_Save(r) \/ Approve_Check(r) \/ Reject_Load(r))) => Shrinks(s)
         /\ (\A r \in Reqs : ~Submit_Enqueue(r)) /\ ~Restart => (Enqueuing(s) => Enqueuing(s)')
<1>1. ASSUME \A r \in Reqs : ~(Submit_Save(r) \/ Approve_Check(r) \/ Reject_Load(r))
      PROVE  Shrinks(s)
  <2>1. ASSUME NEW r \in Reqs, req'[r].sub = s
        PROVE  req[r].sub = s /\ req'[r].address = req[r].address
    <3>1. Journey(r) /\ s # None BY Journeys, Constants
    <3> QED BY <1>1, <2>1, <3>1 DEF Journey
  <2> QED BY <2>1 DEF Held, Shrinks
<1>2. ASSUME \A r \in Reqs : ~Submit_Enqueue(r), ~Restart, NEW r \in Reqs,
             req[r].step = "enqueue", req[r].sub = s
      PROVE  req'[r] = req[r]
  <2>1. ~( \/ Submit_Save(r) \/ Submit_Enqueue(r) \/ Approve_Check(r) \/ Populate_Start(r)
           \/ Fetch(r) \/ Store_Find(r) \/ Store_Create(r) \/ Store_Update(r)
           \/ Store_Batch(r) \/ Approve_Publish(r) \/ Approve_Remove(r)
           \/ Reject_Load(r) \/ Reject_Save(r))
    BY <1>2 DEF Submit_Save, Approve_Check, Populate_Start, Fetch, Store_Find, Store_Create,
                Store_Update, Store_Batch, Approve_Publish, Approve_Remove, Reject_Load, Reject_Save
  <2>2. ASSUME NEW q \in Reqs,
               \/ Submit_Save(q) \/ Submit_Enqueue(q) \/ Approve_Check(q) \/ Populate_Start(q)
               \/ Fetch(q) \/ Store_Find(q) \/ Store_Create(q) \/ Store_Update(q)
               \/ Store_Batch(q) \/ Approve_Publish(q) \/ Approve_Remove(q)
               \/ Reject_Load(q) \/ Reject_Save(q)
        PROVE  req'[r] = req[r]
    BY <2>1, <2>2, RequestsKept DEF Only
  <2> QED BY <1>2, <2>2, OthersKeepRequests DEF Next
<1>3. ASSUME \A r \in Reqs : ~Submit_Enqueue(r), ~Restart, Enqueuing(s) PROVE Enqueuing(s)'
  <2>1. PICK r \in Reqs : req[r].step = "enqueue" /\ req[r].sub = s BY <1>3 DEF Enqueuing
  <2>2. req'[r] = req[r] BY <1>2, <1>3, <2>1
  <2> QED BY <2>1, <2>2 DEF Enqueuing
<1> QED BY <1>1, <1>3

\* A request that starts on a submission adds its address to those held.
LEMMA StartHolds ==
  ASSUME NEW r \in Reqs, NEW step, NEW t, NEW a, Starts(r, step, t, a), NEW s
  PROVE  Held(s)' \subseteq Held(s) \cup {a} /\ (s # t => Shrinks(s))
BY DEF Starts, Only, Held, Shrinks

\* Every step is a step of each submission's life.
LEMMA Lives == ASSUME Base, Next, NEW s \in Submissions PROVE Life(s)
<1>0. /\ sub \in SubRows /\ \A t \in Submissions : sub[t] \in [address : Addresses \cup {None}, status : Status]
      /\ task \in [Submissions -> TaskSteps] /\ req \in [Reqs -> Request]
      /\ \A r \in Reqs : req[r].step \in {"enqueue", "reject"} \cup Removing => req[r].sub \in Submissions
  BY DEF Base, TypeOK, SubRows, Paths
<1>1. ASSUME \A r \in Reqs : ~(Submit_Save(r) \/ Approve_Check(r) \/ Reject_Load(r))
      PROVE  Shrinks(s)
  BY <1>1, Holders
<1>2. ASSUME \A r \in Reqs : ~Submit_Enqueue(r), ~Restart, Enqueuing(s) PROVE Enqueuing(s)'
  BY <1>2, Holders
<1>3. ASSUME NEW r \in Reqs,
             \/ Submit_Save(r) \/ Approve_Check(r) \/ Populate_Start(r) \/ Fetch(r)
             \/ Store_Find(r) \/ Store_Create(r) \/ Store_Update(r) \/ Store_Batch(r)
             \/ Approve_Publish(r) \/ Approve_Remove(r) \/ Reject_Load(r) \/ Reject_Save(r)
      PROVE  UNCHANGED task
  BY <1>3 DEF Submit_Save, Approve_Check, Populate_Start, Fetch, Store_Find, Store_Create,
              Store_Update, Store_Batch, Approve_Publish, Approve_Remove, Reject_Load, Reject_Save
<1>4. ASSUME NEW t \in Submissions, t # s, NEW e, sub' = [sub EXCEPT ![t] = e]
      PROVE  sub'[s] = sub[s]
  BY <1>0, <1>4 DEF SubRows
<1>5. ASSUME NEW t \in Submissions, NEW status, SetStatus(t, status)
      PROVE  /\ sub'[t].address = sub[t].address /\ sub'[t].status = status
             /\ t # s => sub'[s] = sub[s]
  <2>1. sub'[t] = [sub[t] EXCEPT !.status = status] BY <1>0, <1>5 DEF SetStatus, SubRows
  <2>2. t # s => sub'[s] = sub[s] BY <1>0, <1>5 DEF SetStatus, SubRows
  <2> QED BY <1>0, <2>1, <2>2
<1>6. ASSUME NEW t \in Submissions, NEW step, StepTask(t, step)
      PROVE  task'[t] = step /\ (t # s => task'[s] = task[s])
  BY <1>0, <1>6 DEF StepTask
<1>7. ASSUME NEW r \in Reqs, Submit_Save(r) PROVE Life(s)
  <2>1. PICK t \in Submissions, a \in Addresses :
          /\ sub[t].status = "new"
          /\ sub' = [sub EXCEPT ![t] = [address |-> a, status |-> "validating"]]
          /\ Starts(r, "enqueue", t, a)
    BY <1>7, Moves
  <2>2. task' = task BY <1>3, <1>7
  <2>3. CASE s = t
    <3>1. sub'[s] = [address |-> a, status |-> "validating"] BY <1>0, <2>1, <2>3 DEF SubRows
    <3>2. sub'[s].address = a /\ sub'[s].status = "validating" BY <3>1
    <3>3. Held(s)' \subseteq Held(s) \cup {a} BY <2>1, StartHolds
    <3>4. Enqueuing(s)' BY <2>1, <2>3 DEF Enqueuing, Starts
    <3> QED BY <2>1, <2>2, <2>3, <3>2, <3>3, <3>4 DEF Life
  <2>4. CASE s # t
    <3>1. Same(s) BY <1>4, <2>1, <2>2, <2>4 DEF Same
    <3>2. Shrinks(s) BY <2>1, <2>4, StartHolds
    <3>3. ASSUME Enqueuing(s) PROVE Enqueuing(s)'
      <4>1. PICK q \in Reqs : req[q].step = "enqueue" /\ req[q].sub = s BY <3>3 DEF Enqueuing
      <4>2. q # r BY <1>7, <4>1 DEF Submit_Save
      <4>3. req'[q] = req[q] BY <2>1, <4>2 DEF Starts, Only
      <4> QED BY <4>1, <4>3 DEF Enqueuing
    <3> QED BY <3>1, <3>2, <3>3 DEF Life
  <2> QED BY <2>3, <2>4
<1>8. ASSUME NEW r \in Reqs, Approve_Check(r) \/ Reject_Load(r) PROVE Life(s)
  <2>1. UNCHANGED sub /\ task' = task /\ req[r].step = "idle"
    BY <1>3, <1>8 DEF Approve_Check, Reject_Load
  <2>2. Same(s) BY <2>1 DEF Same
  <2>3. \E t \in Submissions, step \in {"fetch", "reject"} :
          Exists(t) /\ Starts(r, step, t, sub[t].address)
    BY <1>8, Moves DEF Exists, Rows
  <2>4. PICK t \in Submissions, step \in {"fetch", "reject"} :
          Exists(t) /\ Starts(r, step, t, sub[t].address)
    BY <2>3
  <2>5. ASSUME Enqueuing(s) PROVE Enqueuing(s)'
    <3>1. PICK q \in Reqs : req[q].step = "enqueue" /\ req[q].sub = s BY <2>5 DEF Enqueuing
    <3>2. req'[q] = req[q] BY <2>1, <2>4, <3>1 DEF Starts, Only
    <3> QED BY <3>1, <3>2 DEF Enqueuing
  <2>6. Held(s)' \subseteq Held(s) \cup {sub[t].address} /\ (s # t => Shrinks(s))
    BY <2>4, StartHolds
  <2> QED BY <2>2, <2>4, <2>5, <2>6 DEF Life
<1>9. ASSUME NEW r \in Reqs, Submit_Enqueue(r) PROVE Life(s)
  <2>1. /\ req[r].step = "enqueue" /\ req[r].sub \in Submissions
        /\ StepTask(req[r].sub, "queued") /\ UNCHANGED sub /\ Leave(r)
    BY <1>0, <1>9 DEF Submit_Enqueue, StepTask
  <2>2. Only(r) /\ Ends(r) BY <1>0, <2>1, Changes DEF Ends
  <2>3. Shrinks(s)
    <3>1. s # None BY Constants
    <3> QED BY <2>2, <3>1 DEF Ends, Only, Shrinks, Held
  <2>4. CASE req[r].sub = s
    <3>1. Held(s) # {} BY <2>4 DEF Held
    <3> QED BY <1>6, <2>1, <2>3, <2>4, <3>1 DEF Life
  <2>5. CASE req[r].sub # s
    <3>1. Same(s) BY <1>6, <2>1, <2>5 DEF Same
    <3>2. Enqueuing(s) => Enqueuing(s)'
      <4>1. \A q \in Reqs : req[q].sub = s => req'[q] = req[q] BY <2>2, <2>5 DEF Only
      <4> QED BY <4>1 DEF Enqueuing
    <3> QED BY <2>3, <3>1, <3>2 DEF Life
  <2> QED BY <2>4, <2>5
<1>10. ASSUME Restart PROVE Life(s)
  <2>1. Shrinks(s)
    <3>1. \A r \in Reqs : req'[r].sub = None /\ s # None
      BY <1>10, Constants DEF Restart, Idle
    <3> QED BY <3>1 DEF Shrinks, Held
  <2> QED BY <1>10, <2>1 DEF Life, Restart
<1>11. ASSUME \A r \in Reqs : ~(Submit_Save(r) \/ Approve_Check(r) \/ Reject_Load(r)),
              \A r \in Reqs : ~Submit_Enqueue(r), ~Restart
       PROVE  Life(s)
  <2>1. Shrinks(s) /\ (Enqueuing(s) => Enqueuing(s)') BY <1>1, <1>2, <1>11
  <2>2. ASSUME Same(s) PROVE Life(s) BY <2>1, <2>2 DEF Life
  <2>3. ASSUME NEW r \in Reqs,
               \/ Populate_Start(r) \/ Fetch(r) \/ Store_Find(r) \/ Store_Create(r)
               \/ Store_Update(r) \/ Store_Batch(r) \/ Approve_Publish(r)
        PROVE  Life(s)
    <3>1. UNCHANGED sub
      BY <2>3 DEF Populate_Start, Fetch, Store_Find, Store_Create, Store_Update, Store_Batch,
                  Approve_Publish
    <3>2. UNCHANGED task BY <1>3, <2>3
    <3> QED BY <2>2, <3>1, <3>2 DEF Same
  <2>4. ASSUME NEW r \in Reqs, Approve_Remove(r) PROVE Life(s)
    <3>1. req[r].sub \in Submissions BY <1>0, <2>4 DEF Approve_Remove, Removing
    <3>2. task' = task BY <1>3, <2>4
    <3>3. CASE UNCHANGED sub BY <2>2, <3>2, <3>3 DEF Same
    <3>4. CASE Exists(req[r].sub) /\ SetStatus(req[r].sub, "approved")
      <4>1. CASE req[r].sub = s
        <5>1. sub'[s].address = sub[s].address /\ sub'[s].status = "approved"
          BY <1>5, <3>1, <3>4, <4>1
        <5>2. req[r].step = "remove" BY <2>4 DEF Approve_Remove
        <5> QED BY <2>1, <3>2, <3>4, <4>1, <5>1, <5>2 DEF Life
      <4>2. CASE req[r].sub # s
        <5>1. sub'[s] = sub[s] BY <1>5, <3>1, <3>4, <4>2
        <5> QED BY <2>2, <3>2, <5>1 DEF Same
      <4> QED BY <4>1, <4>2
    <3> QED BY <2>4, <3>3, <3>4 DEF Approve_Remove
  <2>5. ASSUME NEW r \in Reqs, Reject_Save(r) PROVE Life(s)
    <3> DEFINE e == [address |-> req[r].address, status |-> "rejected"]
    <3>1. req[r].sub \in Submissions BY <1>0, <2>5 DEF Reject_Save
    <3>2. task' = task BY <1>3, <2>5
    <3>3. CASE UNCHANGED sub BY <2>2, <3>2, <3>3 DEF Same
    <3>4. CASE sub' = [sub EXCEPT ![req[r].sub] = e]
      <4>1. e.address = req[r].address /\ e.status = "rejected" OBVIOUS
      <4> HIDE DEF e
      <4>2. CASE req[r].sub = s
        <5>1. sub'[s] = e BY <1>0, <3>1, <3>4, <4>2 DEF SubRows
        <5>2. req[r].address \in Held(s) BY <4>2 DEF Held
        <5> QED BY <2>1, <3>2, <4>1, <5>1, <5>2 DEF Life
      <4>3. CASE req[r].sub # s
        <5>1. sub'[s] = sub[s] BY <1>4, <3>1, <3>4, <4>3
        <5> QED BY <2>2, <3>2, <5>1 DEF Same
      <4> QED BY <4>2, <4>3
    <3> QED BY <2>5, <3>3, <3>4 DEF Reject_Save
  <2>6. ASSUME NEW t \in Submissions, Task_Validate(t) PROVE Life(s)
    <3>1. UNCHANGED sub /\ task[t] = "queued" BY <2>6 DEF Task_Validate
    <3>2. PICK step \in {"none", "valid", "invalid", "failed"} :
            /\ StepTask(t, step)
            /\ step = "none" => (Exists(t) => t \in lost')
            /\ step \in {"valid", "invalid", "failed"} => Exists(t)
            /\ step = "valid" => sub[t].address \in OnChain
      BY <2>6 DEF Task_Validate, Verdicts, Answer
    <3>3. CASE t = s
      <4>1. task'[s] = step BY <1>6, <3>2, <3>3
      <4> QED BY <2>1, <3>1, <3>2, <3>3, <4>1 DEF Life
    <3>4. CASE t # s BY <1>6, <2>2, <3>1, <3>2, <3>4 DEF Same
    <3> QED BY <3>3, <3>4
  <2>7. ASSUME NEW t \in Submissions, Task_Save(t) PROVE Life(s)
    <3> DEFINE status == IF task[t] = "valid" THEN "pending" ELSE "rejected"
    <3>1. task[t] \in {"valid", "invalid"} BY <2>7 DEF Task_Save
    <3>2. CASE Exists(t) /\ SetStatus(t, status) /\ StepTask(t, "none")
      <4>1. CASE t = s
        <5>1. sub'[s].address = sub[s].address /\ sub'[s].status = status BY <1>5, <3>2, <4>1
        <5>2. task'[s] = "none" BY <1>6, <3>2, <4>1
        <5> QED BY <2>1, <3>1, <3>2, <4>1, <5>1, <5>2 DEF Life
      <4>2. CASE t # s BY <1>5, <1>6, <2>2, <3>2, <4>2 DEF Same
      <4> QED BY <4>1, <4>2
    <3>3. CASE StepTask(t, "failed") /\ UNCHANGED sub
      <4>1. CASE t = s
        <5>1. task'[s] = "failed" BY <1>6, <3>3, <4>1
        <5> QED BY <2>1, <3>1, <3>3, <4>1, <5>1 DEF Life
      <4>2. CASE t # s BY <1>6, <2>2, <3>3, <4>2 DEF Same
      <4> QED BY <4>1, <4>2
    <3> QED BY <2>7, <3>2, <3>3 DEF Task_Save
  <2>8. ASSUME NEW t \in Submissions, Task_SaveFailure(t) PROVE Life(s)
    <3>1. task[t] = "failed" /\ StepTask(t, "none") BY <2>8 DEF Task_SaveFailure
    <3>2. CASE t = s
      <4>1. task'[s] = "none" BY <1>6, <3>1, <3>2
      <4>2. CASE Exists(s) /\ SetStatus(s, "rejected")
        <5>1. sub'[s].address = sub[s].address /\ sub'[s].status = "rejected" BY <1>5, <4>2
        <5> QED BY <2>1, <3>1, <3>2, <4>1, <4>2, <5>1 DEF Life
      <4>3. CASE UNCHANGED sub /\ (Exists(s) => s \in lost')
        BY <2>1, <3>1, <3>2, <4>1, <4>3 DEF Life
      <4> QED BY <2>8, <3>2, <4>2, <4>3 DEF Task_SaveFailure
    <3>3. CASE t # s
      <4>1. UNCHANGED sub \/ SetStatus(t, "rejected") BY <2>8 DEF Task_SaveFailure
      <4> QED BY <1>5, <1>6, <2>2, <3>1, <3>3, <4>1 DEF Same
    <3> QED BY <3>2, <3>3
  <2>9. ASSUME NEW t \in Submissions, Admin_DeleteSubmission(t) PROVE Life(s)
    <3> DEFINE e == [address |-> None, status |-> "deleted"]
    <3>1. Exists(t) /\ sub' = [sub EXCEPT ![t] = e] /\ task' = task
      BY <2>9 DEF Admin_DeleteSubmission
    <3>2. e.status = "deleted" OBVIOUS
    <3> HIDE DEF e
    <3>3. CASE t = s
      <4>1. sub'[s] = e BY <1>0, <3>1, <3>3 DEF SubRows
      <4> QED BY <2>1, <3>1, <3>2, <3>3, <4>1 DEF Life
    <3>4. CASE t # s BY <1>4, <2>2, <3>1, <3>4 DEF Same
    <3> QED BY <3>3, <3>4
  <2>11. ASSUME NEW t \in Submissions, Admin_SetStatus(t) PROVE Life(s)
    <3>1. PICK status \in Rows : SetStatus(t, status) BY <2>11 DEF Admin_SetStatus
    <3>2. Exists(t) /\ task' = task /\ t \in handSet' BY <2>11 DEF Admin_SetStatus
    <3>3. CASE t = s
      <4>1. sub'[s].address = sub[s].address /\ sub'[s].status = status BY <1>5, <3>1, <3>3
      <4> QED BY <2>1, <3>1, <3>2, <3>3, <4>1 DEF Life
    <3>4. CASE t # s BY <1>5, <2>2, <3>1, <3>2, <3>4 DEF Same
    <3> QED BY <3>3, <3>4
  <2>10. ASSUME NEW a \in Addresses, Admin_SetListing(a) \/ Admin_DeleteCollection(a)
         PROVE  Life(s)
    BY <2>2, <2>10 DEF Admin_SetListing, Admin_DeleteCollection, Same
  <2> QED BY <1>11, <2>3, <2>4, <2>5, <2>6, <2>7, <2>8, <2>9, <2>10, <2>11 DEF Next
<1> QED BY <1>7, <1>8, <1>9, <1>10, <1>11

\* A submission has one address, whoever holds it; what a provider said about that
\* address stays true of it; and a row in validation has somebody who ends it.
Tended(s) ==
  /\ sub[s].status = "new" => Held(s) = {} /\ task[s] = "none"
  /\ sub[s].status \notin {"new", "deleted"} => \A x \in Held(s) : x = sub[s].address
  /\ \A x, y \in Held(s) : x = y
  /\ sub[s].status = "pending" => sub[s].address \in OnChain \/ s \in handSet
  /\ task[s] = "valid" => Held(s) \subseteq OnChain /\ (Exists(s) => sub[s].address \in OnChain)
  /\ sub[s].status = "validating" =>
       task[s] # "none" \/ Enqueuing(s) \/ s \in lost \cup handSet

LEMMA TendedKept ==
  ASSUME Base, Next, NEW s \in Submissions, Tended(s)
  PROVE  Tended(s)'
<1>1. /\ sub[s].status = "new" => Held(s) = {} /\ task[s] = "none"
      /\ sub[s].status \notin {"new", "deleted"} => \A x \in Held(s) : x = sub[s].address
      /\ \A x, y \in Held(s) : x = y
      /\ sub[s].status = "pending" => sub[s].address \in OnChain \/ s \in handSet
      /\ task[s] = "valid" => Held(s) \subseteq OnChain /\ (Exists(s) => sub[s].address \in OnChain)
      /\ sub[s].status = "validating" =>
           task[s] # "none" \/ Enqueuing(s) \/ s \in lost \cup handSet
  BY DEF Tended
<1>2. Exists(s) <=> sub[s].status \in {"validating", "pending", "rejected"} BY DEF Exists, Rows
<1>3. Exists(s)' <=> sub'[s].status \in {"validating", "pending", "rejected"} BY DEF Exists, Rows
<1>4. Shrinks(s) => Held(s)' \subseteq Held(s) BY DEF Shrinks
<1>5. SUFFICES /\ sub'[s].status = "new" => Held(s)' = {} /\ task'[s] = "none"
               /\ sub'[s].status \notin {"new", "deleted"} => \A x \in Held(s)' : x = sub'[s].address
               /\ \A x, y \in Held(s)' : x = y
               /\ sub'[s].status = "pending" => sub'[s].address \in OnChain \/ s \in handSet'
               /\ task'[s] = "valid" =>
                    Held(s)' \subseteq OnChain /\ (Exists(s)' => sub'[s].address \in OnChain)
               /\ sub'[s].status = "validating" =>
                    task'[s] # "none" \/ Enqueuing(s)' \/ s \in lost' \cup handSet'
  BY DEF Tended
<1>6. lost \subseteq lost' /\ handSet \subseteq handSet' BY HistoryGrows
<1>7. CASE Same(s) /\ Shrinks(s) /\ (Enqueuing(s) => Enqueuing(s)')
  <2>1. sub'[s] = sub[s] /\ task'[s] = task[s] BY <1>7 DEF Same
  <2> QED BY <1>1, <1>2, <1>3, <1>4, <1>6, <1>7, <2>1
<1>8. CASE /\ Same(s) /\ Exists(s) /\ (Enqueuing(s) => Enqueuing(s)')
           /\ Held(s)' \subseteq Held(s) \cup {sub[s].address}
  <2>1. sub'[s] = sub[s] /\ task'[s] = task[s] BY <1>8 DEF Same
  <2>2. \A x \in Held(s)' : x = sub[s].address BY <1>1, <1>2, <1>8
  <2> QED BY <1>1, <1>2, <1>3, <1>6, <1>8, <2>1, <2>2
<1>9. CASE /\ sub[s].status = "new" /\ sub'[s].status = "validating" /\ task'[s] = task[s]
           /\ Held(s)' \subseteq Held(s) \cup {sub'[s].address} /\ Enqueuing(s)'
  <2>1. Held(s)' \subseteq {sub'[s].address} /\ task'[s] = "none" BY <1>1, <1>9
  <2> QED BY <1>9, <2>1
<1>10. CASE Held(s) # {} /\ sub'[s] = sub[s] /\ task'[s] = "queued" /\ Shrinks(s)
  BY <1>1, <1>4, <1>6, <1>10
<1>11. CASE /\ task[s] = "queued" /\ sub'[s] = sub[s] /\ Shrinks(s)
            /\ \/ task'[s] = "none" /\ (Exists(s) => s \in lost')
               \/ Exists(s) /\ task'[s] \in {"valid", "invalid"}
                  /\ (task'[s] = "valid" => sub[s].address \in OnChain)
               \/ Exists(s) /\ task'[s] = "failed"
  BY <1>1, <1>2, <1>3, <1>4, <1>6, <1>11
<1>12. CASE /\ task[s] \in {"valid", "invalid"} /\ Shrinks(s)
            /\ \/ /\ Exists(s) /\ sub'[s].address = sub[s].address /\ task'[s] = "none"
                  /\ sub'[s].status = IF task[s] = "valid" THEN "pending" ELSE "rejected"
               \/ sub'[s] = sub[s] /\ task'[s] = "failed"
  BY <1>1, <1>2, <1>3, <1>4, <1>6, <1>12
<1>13. CASE /\ task[s] = "failed" /\ task'[s] = "none" /\ Shrinks(s)
            /\ \/ Exists(s) /\ sub'[s].address = sub[s].address /\ sub'[s].status = "rejected"
               \/ sub'[s] = sub[s] /\ (Exists(s) => s \in lost')
  BY <1>1, <1>2, <1>3, <1>4, <1>6, <1>13
<1>14. CASE /\ sub'[s].address \in Held(s) /\ sub'[s].status = "rejected" /\ task'[s] = task[s]
            /\ Shrinks(s)
  BY <1>1, <1>3, <1>4, <1>14
<1>15. CASE /\ Exists(s) /\ sub'[s].address = sub[s].address /\ sub'[s].status = "approved"
            /\ task'[s] = task[s] /\ Shrinks(s)
  BY <1>1, <1>2, <1>3, <1>4, <1>15
<1>16. CASE Exists(s) /\ sub'[s].status = "deleted" /\ task'[s] = task[s] /\ Shrinks(s)
  BY <1>1, <1>2, <1>3, <1>4, <1>16
<1>17. CASE /\ sub'[s] = sub[s] /\ task'[s] = "none" /\ Shrinks(s)
            /\ sub[s].status = "validating" => s \in lost'
  BY <1>1, <1>2, <1>3, <1>4, <1>6, <1>17
<1>18. CASE /\ Exists(s) /\ sub'[s].address = sub[s].address /\ sub'[s].status \in Rows
            /\ task'[s] = task[s] /\ Shrinks(s) /\ s \in handSet'
  BY <1>1, <1>2, <1>3, <1>4, <1>18 DEF Rows
<1> QED BY <1>7, <1>8, <1>9, <1>10, <1>11, <1>12, <1>13, <1>14, <1>15, <1>16, <1>17, <1>18,
           Lives DEF Life

AllTended == \A s \in Submissions : Tended(s)

\* Every submission is tended, in every state.
LEMMA TendedInvariant == Spec => []AllTended
<1>1. Init => AllTended
  <2> SUFFICES ASSUME Init, NEW s \in Submissions PROVE Tended(s) BY DEF AllTended
  <2>1. Held(s) = {} BY Constants DEF Init, Idle, Held
  <2>2. sub[s].status = "new" /\ task[s] = "none" BY DEF Init
  <2> QED BY <2>1, <2>2 DEF Tended
<1>2. Base /\ AllTended /\ [Next]_vars => AllTended'
  <2> SUFFICES ASSUME Base, AllTended, [Next]_vars PROVE AllTended' OBVIOUS
  <2>1. CASE Next BY <2>1, TendedKept DEF AllTended
  <2>2. CASE UNCHANGED vars
    <3>1. UNCHANGED <<sub, task, req, lost, handSet>>
      BY <2>2 DEF vars, history
    <3>2. ASSUME NEW s \in Submissions
          PROVE  /\ Held(s)' = Held(s) /\ (Enqueuing(s)' <=> Enqueuing(s))
                 /\ (Exists(s)' <=> Exists(s))
      BY <3>1 DEF Held, Enqueuing, Exists
    <3>3. ASSUME NEW s \in Submissions PROVE Tended(s)'
      <4>1. Tended(s) BY DEF AllTended
      <4> QED BY <3>1, <3>2, <4>1 DEF Tended
    <3> QED BY <3>3 DEF AllTended
  <2> QED BY <2>1, <2>2
<1> QED BY <1>1, <1>2, BaseInvariant, PTL DEF Spec

\* Only what a provider knows as a collection gets a row, and without an administrator
\* who sets the status by hand only such an address is offered for approval: an answer
\* is kept with the address it is about, whatever deletions, rejections and approvals
\* come between it and the save (validate_collection_onchain).
THEOREM OnlyKnownAddresses == Spec => []OnlyOnChain
<1>1. Fetched /\ AllTended => OnlyOnChain BY DEF Fetched, AllTended, Tended, OnlyOnChain
<1> QED BY <1>1, FetchedInit, FetchedKept, BaseInvariant, TendedInvariant, PTL DEF Spec

\* A submission in validation has a task, or a request about to queue it, unless the
\* process was restarted under it, the first read of its task failed, the save of another
\* failure failed too, or an administrator set its status by hand
\* (validate_collection_onchain and its except clause).
THEOREM ValidationEnds == Spec => []ValidatingHasTask
<1>1. AllTended => ValidatingHasTask BY DEF AllTended, Tended, Enqueuing, ValidatingHasTask
<1> QED BY <1>1, TendedInvariant, PTL

(***************************************************************************)
(* What an approval fetched is stored before its submission goes.           *)
(***************************************************************************)

\* Until a collection is deleted, its row and its pages stay.
LEMMA StoredStays ==
  ASSUME Base, Next, NEW a \in Addresses, deletions'[a] = 0
  PROVE  /\ deletions[a] = 0
         /\ col[a] # "none" => col'[a] # "none"
         /\ nfts[a] \cup skipped[a] \subseteq nfts'[a] \cup skipped'[a]
<1>0. /\ col \in [Addresses -> {"none"} \cup Listing] /\ deletions[a] \in Nat
      /\ deletions \in [Addresses -> Nat] /\ nfts \in [Addresses -> SUBSET (1..Pages)]
      /\ skipped \in [Addresses -> SUBSET (1..Pages)] /\ "none" \notin Listing
      /\ \A r \in Reqs : req[r].step # "idle" => req[r].address \in Addresses
  BY DEF Base, TypeOK, Paths, Listing
<1>1. ASSUME NEW b \in Addresses, deletions' = [deletions EXCEPT ![b] = @ + 1] PROVE b # a
  <2>1. CASE b = a
    <3>1. deletions'[a] = deletions[a] + 1 BY <1>0, <1>1, <2>1
    <3> QED BY <1>0, <3>1
  <2> QED BY <2>1
<1>2. deletions[a] = 0 /\ (col[a] # "none" => col'[a] # "none")
  <2>1. CASE UNCHANGED <<col, backfills, deletions>> BY <2>1
  <2>2. ASSUME NEW r \in Reqs, NEW listing \in Listing, req[r].step \in {"create", "update"},
               InsertCollection(req[r].address, listing), UNCHANGED deletions
        PROVE  deletions[a] = 0 /\ (col[a] # "none" => col'[a] # "none")
    BY <1>0, <2>2 DEF InsertCollection
  <2>3. ASSUME NEW b \in Addresses, NEW listing \in Listing,
               col' = [col EXCEPT ![b] = listing], UNCHANGED deletions
        PROVE  deletions[a] = 0 /\ (col[a] # "none" => col'[a] # "none")
    BY <1>0, <2>3
  <2>4. ASSUME NEW b \in Addresses, col' = [col EXCEPT ![b] = "none"],
               deletions' = [deletions EXCEPT ![b] = @ + 1]
        PROVE  deletions[a] = 0 /\ (col[a] # "none" => col'[a] # "none")
    <3>1. b # a BY <1>1, <2>4
    <3> QED BY <1>0, <2>4, <3>1
  <2>5. ASSUME NEW b \in Addresses, LoseInsert(b), UNCHANGED deletions
        PROVE  deletions[a] = 0 /\ (col[a] # "none" => col'[a] # "none")
    BY <2>5 DEF LoseInsert
  <2> QED BY <2>1, <2>2, <2>3, <2>4, <2>5, CollectionSteps
<1>3. nfts[a] \cup skipped[a] \subseteq nfts'[a] \cup skipped'[a]
  <2>1. CASE UNCHANGED <<nfts, skipped>> BY <2>1
  <2>2. ASSUME NEW r \in Reqs, Store_Batch(r)
        PROVE  nfts[a] \cup skipped[a] \subseteq nfts'[a] \cup skipped'[a]
    <3>1. req[r].address \in Addresses BY <1>0, <2>2 DEF Store_Batch
    <3>2. \/ nfts' = [nfts EXCEPT ![req[r].address] = @ \cup {req[r].next}] /\ UNCHANGED skipped
          \/ skipped' = [skipped EXCEPT ![req[r].address] = @ \cup {req[r].next}] /\ UNCHANGED nfts
          \/ UNCHANGED <<nfts, skipped>>
      BY <2>2 DEF Store_Batch
    <3> QED BY <1>0, <3>1, <3>2
  <2>3. ASSUME NEW b \in Addresses, Admin_DeleteCollection(b)
        PROVE  nfts[a] \cup skipped[a] \subseteq nfts'[a] \cup skipped'[a]
    <3>1. b # a BY <1>1, <2>3 DEF Admin_DeleteCollection
    <3> QED BY <1>0, <2>3, <3>1 DEF Admin_DeleteCollection
  <2>4. ASSUME NEW r \in Reqs,
               \/ Submit_Save(r) \/ Submit_Enqueue(r) \/ Approve_Check(r) \/ Populate_Start(r)
               \/ Fetch(r) \/ Store_Find(r) \/ Store_Create(r) \/ Store_Update(r)
               \/ Approve_Publish(r) \/ Approve_Remove(r) \/ Reject_Load(r) \/ Reject_Save(r)
        PROVE  UNCHANGED <<nfts, skipped>>
    BY <2>4 DEF Submit_Save, Submit_Enqueue, Approve_Check, Populate_Start, Fetch, Store_Find,
                Store_Create, Store_Update, Approve_Publish, Approve_Remove, Reject_Load,
                Reject_Save, colVars
  <2>5. ASSUME \/ \E s \in Submissions : \/ Task_Validate(s) \/ Task_Save(s)
                                         \/ Task_SaveFailure(s) \/ Admin_DeleteSubmission(s)
               \/ \E s \in Submissions : Admin_SetStatus(s)
               \/ \E b \in Addresses : Admin_SetListing(b)
               \/ Restart
        PROVE  UNCHANGED <<nfts, skipped>>
    BY <2>5 DEF Task_Validate, Task_Save, Task_SaveFailure, Admin_SetStatus,
                Admin_DeleteSubmission, Admin_SetListing, Restart, colVars
  <2> QED BY <2>1, <2>2, <2>3, <2>4, <2>5 DEF Next
<1> QED BY <1>2, <1>3

StoredSoFar(r) ==
  deletions[req[r].address] = 0 =>
    /\ req[r].step = "batch" => Stored(req[r].address, 1..(req[r].next - 1))
    /\ req[r].step \in Removing => Stored(req[r].address, 1..req[r].total)

ApprovedStays(s) ==
  sub[s].status = "approved" /\ deletions[sub[s].address] = 0 => col[sub[s].address] # "none"

Kept ==
  /\ \A r \in Reqs : req[r].step \in {"batch"} \cup Removing => StoredSoFar(r)
  /\ \A s \in Submissions : ApprovedStays(s)

\* A request that has come to its batches, or past them, has stored what it read.
LEMMA StoredSoFarKept ==
  ASSUME Base, Fetched, Kept, Next, NEW r \in Reqs,
         req'[r].step \in {"batch"} \cup Removing, deletions'[req'[r].address] = 0
  PROVE  /\ req'[r].step = "batch" =>
              /\ col'[req'[r].address] # "none"
              /\ 1..(req'[r].next - 1) \subseteq nfts'[req'[r].address] \cup skipped'[req'[r].address]
         /\ req'[r].step \in Removing =>
              /\ col'[req'[r].address] # "none"
              /\ 1..req'[r].total \subseteq nfts'[req'[r].address] \cup skipped'[req'[r].address]
<1> DEFINE a == req[r].address
<1>0. /\ req \in [Reqs -> Request] /\ \A q \in Reqs : req[q] \in Request
      /\ req[r].next \in Nat /\ req[r].total \in Nat /\ "batch" \notin Removing
      /\ col \in [Addresses -> {"none"} \cup Listing] /\ "none" \notin Listing
      /\ "listed" \in Listing /\ req[r].listing \in Listing
      /\ nfts \in [Addresses -> SUBSET (1..Pages)] /\ skipped \in [Addresses -> SUBSET (1..Pages)]
      /\ "publish" \in Removing /\ "remove" \in Removing
  <2>1. 1..Pages \subseteq Nat /\ 0..Pages \subseteq Nat BY Constants
  <2> QED BY <2>1 DEF Base, TypeOK, Request, Listing, Removing
<1>1. req[r].step # "idle" => a \in Addresses BY DEF Base, Paths
<1>2. "idle" \notin {"batch"} \cup Removing BY DEF Removing
<1>3. ASSUME req'[r] = req[r]
      PROVE  /\ req'[r].step = "batch" =>
                  col'[a] # "none" /\ 1..(req'[r].next - 1) \subseteq nfts'[a] \cup skipped'[a]
             /\ req'[r].step \in Removing =>
                  col'[a] # "none" /\ 1..req'[r].total \subseteq nfts'[a] \cup skipped'[a]
  <2>1. a \in Addresses BY <1>1, <1>2, <1>3
  <2>2. /\ deletions[a] = 0 /\ (col[a] # "none" => col'[a] # "none")
        /\ nfts[a] \cup skipped[a] \subseteq nfts'[a] \cup skipped'[a]
    BY <1>3, <2>1, StoredStays
  <2>3. StoredSoFar(r) BY <1>3 DEF Kept
  <2> QED BY <1>3, <2>2, <2>3 DEF StoredSoFar, Stored
<1>4. CASE req'[r] = req[r] BY <1>3, <1>4
<1>5. ASSUME req'[r].step = "batch", req'[r].next = 1, req'[r].address = a, col'[a] # "none"
      PROVE  1..(req'[r].next - 1) \subseteq nfts'[a] \cup skipped'[a]
  BY <1>5
<1>6. ASSUME Store_Create(r) \/ Store_Update(r), req'[r] # req[r]
      PROVE  /\ req'[r].address = a /\ col'[a] # "none"
             /\ \/ req'[r].step = "batch" /\ req'[r].next = 1
                \/ req'[r].step \in Removing /\ req'[r].total = 0
  <2>1. req[r].step \in {"create", "update"} BY <1>6 DEF Store_Create, Store_Update
  <2>2. a \in Addresses /\ req[r].next = 1 BY <1>1, <2>1 DEF Fetched
  <2>3. ~Ends(r) /\ ~Leave(r) /\ ~MovesTo(r, "update")
    <3>1. ~Ends(r) BY <1>2 DEF Ends
    <3>2. ~MovesTo(r, "update") BY DEF MovesTo, Removing
    <3> QED BY <1>0, <3>1, <3>2, Changes
  <2>4. ASSUME Batches(r)
        PROVE  /\ req'[r].address = a
               /\ \/ req'[r].step = "batch" /\ req'[r].next = 1
                  \/ req'[r].step \in Removing /\ req'[r].total = 0
    BY <1>0, <2>2, <2>3, <2>4 DEF Batches, MovesTo
  <2>5. CASE Store_Create(r)
    <3>1. InsertCollection(a, "listed") /\ Batches(r) BY <2>3, <2>5, Moves
    <3>2. col'[a] # "none" BY <1>0, <2>2, <3>1 DEF InsertCollection
    <3> QED BY <2>4, <3>1, <3>2
  <2>6. CASE Store_Update(r)
    <3>1. ToBatches(r) /\ col' = [col EXCEPT ![a] = req[r].listing]
      BY <2>3, <2>6 DEF Store_Update, InsertCollection
    <3>2. Batches(r) BY <1>0, <3>1, Changes
    <3>3. col'[a] # "none" BY <1>0, <2>2, <3>1
    <3> QED BY <2>4, <3>2, <3>3
  <2> QED BY <1>6, <2>5, <2>6
<1>7. CASE (Store_Create(r) \/ Store_Update(r)) /\ req'[r] # req[r]
  <2>1. 1..0 = {} OBVIOUS
  <2> QED BY <1>0, <1>5, <1>6, <1>7, <2>1
<1>8. CASE Store_Batch(r)
  <2>1. req[r].step = "batch" /\ a \in Addresses BY <1>1, <1>8 DEF Store_Batch
  <2>2. ~Leave(r)
    <3>1. ~Ends(r) BY <1>2 DEF Ends
    <3> QED BY <1>0, <3>1, Changes
  <2>3. NextPage(r) /\ req'[r].address = a
    <3>1. NextPage(r) BY <1>8, <2>2 DEF Store_Batch
    <3>2. ~Ends(r) BY <1>2 DEF Ends
    <3> QED BY <1>0, <3>1, <3>2, PageMoves DEF MovesTo
  <2>4. deletions[a] = 0 /\ (col[a] # "none" => col'[a] # "none")
        /\ nfts[a] \cup skipped[a] \subseteq nfts'[a] \cup skipped'[a]
    BY <2>1, <2>3, StoredStays
  <2>5. col[a] # "none" /\ 1..(req[r].next - 1) \subseteq nfts[a] \cup skipped[a]
    <3>1. StoredSoFar(r) BY <2>1 DEF Kept
    <3> QED BY <2>1, <2>4, <3>1 DEF StoredSoFar, Stored
  <2>6. req[r].next \in nfts'[a] \cup skipped'[a]
    <3>1. \/ nfts' = [nfts EXCEPT ![a] = @ \cup {req[r].next}]
          \/ skipped' = [skipped EXCEPT ![a] = @ \cup {req[r].next}]
      BY <1>8, <2>2 DEF Store_Batch
    <3> QED BY <1>0, <2>1, <3>1
  <2>7. 1..req[r].next \subseteq nfts'[a] \cup skipped'[a]
    <3>1. 1..req[r].next \subseteq 1..(req[r].next - 1) \cup {req[r].next} BY <1>0
    <3> QED BY <2>4, <2>5, <2>6, <3>1
  <2>8. CASE req'[r].step = req[r].step /\ req'[r].next = req[r].next + 1
    <3>1. req'[r].next - 1 = req[r].next BY <1>0, <2>8
    <3> QED BY <1>0, <2>1, <2>3, <2>4, <2>5, <2>7, <2>8, <3>1
  <2>9. CASE req[r].next >= req[r].total /\ MovesTo(r, "publish")
    <3>1. 1..req[r].total \subseteq 1..req[r].next BY <1>0, <2>9
    <3>2. req'[r].step = "publish" /\ req'[r].total = req[r].total BY <2>9 DEF MovesTo
    <3> QED BY <1>0, <2>3, <2>4, <2>5, <2>7, <3>1, <3>2
  <2> QED
    <3>1. ~Ends(r) BY <1>2 DEF Ends
    <3> QED BY <1>0, <2>3, <2>8, <2>9, <3>1, PageMoves
<1>9. CASE Approve_Publish(r)
  <2>1. req[r].step = "publish" /\ a \in Addresses BY <1>1, <1>9 DEF Approve_Publish
  <2>2. MovesTo(r, "remove")
    <3>1. ~Ends(r) BY <1>2 DEF Ends
    <3>2. "remove" \in ReqSteps BY DEF ReqSteps, Removing
    <3> QED BY <1>0, <1>9, <3>1, <3>2, Changes DEF Approve_Publish
  <2>3. /\ deletions[a] = 0 /\ (col[a] # "none" => col'[a] # "none")
        /\ nfts[a] \cup skipped[a] \subseteq nfts'[a] \cup skipped'[a]
    BY <2>1, <2>2, StoredStays DEF MovesTo
  <2>4. col[a] # "none" /\ 1..req[r].total \subseteq nfts[a] \cup skipped[a]
    <3>1. StoredSoFar(r) BY <1>0, <2>1 DEF Kept
    <3> QED BY <1>0, <2>1, <2>3, <3>1 DEF StoredSoFar, Stored
  <2> QED BY <1>0, <2>2, <2>3, <2>4 DEF MovesTo
<1>10. CASE ~(Store_Create(r) \/ Store_Update(r) \/ Store_Batch(r) \/ Approve_Publish(r))
  <2>1. ASSUME NEW q \in Reqs, q # r,
               \/ Submit_Save(q) \/ Submit_Enqueue(q) \/ Approve_Check(q) \/ Populate_Start(q)
               \/ Fetch(q) \/ Store_Find(q) \/ Store_Create(q) \/ Store_Update(q)
               \/ Store_Batch(q) \/ Approve_Publish(q) \/ Approve_Remove(q)
               \/ Reject_Load(q) \/ Reject_Save(q)
        PROVE  req'[r] = req[r]
    BY <2>1, RequestsKept DEF Only
  <2>2. ASSUME \/ Submit_Save(r) \/ Submit_Enqueue(r) \/ Approve_Check(r) \/ Populate_Start(r)
               \/ Fetch(r) \/ Store_Find(r) \/ Approve_Remove(r) \/ Reject_Load(r)
               \/ Reject_Save(r)
        PROVE  FALSE
    <3>1. ~Ends(r) /\ ~Leave(r)
      <4>1. ~Ends(r) BY <1>2 DEF Ends
      <4> QED BY <1>0, <4>1, Changes
    <3>2. req'[r].step \notin {"enqueue", "fetch", "reject", "find", "create", "update"}
      BY DEF Removing
    <3>3. CASE Submit_Save(r) \/ Approve_Check(r) \/ Populate_Start(r) \/ Reject_Load(r)
      BY <3>2, <3>3, Moves DEF Starts
    <3>4. CASE Fetch(r) BY <3>1, <3>2, <3>4, Moves
    <3>5. CASE Store_Find(r) BY <3>2, <3>5, Moves DEF MovesTo
    <3>6. CASE Submit_Enqueue(r) \/ Approve_Remove(r) \/ Reject_Save(r)
      BY <3>1, <3>6 DEF Submit_Enqueue, Approve_Remove, Reject_Save
    <3> QED BY <2>2, <3>3, <3>4, <3>5, <3>6
  <2>3. CASE Restart BY <1>2, <2>3 DEF Restart, Idle
  <2>4. req'[r] = req[r] \/ Restart BY <1>10, <2>1, <2>2, OthersKeepRequests DEF Next
  <2> QED BY <1>4, <2>3, <2>4
<1> QED BY <1>4, <1>7, <1>8, <1>9, <1>10

\* A collection that was approved stays until it is deleted.
LEMMA ApprovedStaysKept ==
  ASSUME Base, AllTended, Kept, Next, NEW s \in Submissions,
         sub'[s].status = "approved", deletions'[sub'[s].address] = 0
  PROVE  col'[sub'[s].address] # "none"
<1> DEFINE a == sub[s].address
<1>1. \/ sub'[s] = sub[s]
      \/ /\ Exists(s) /\ sub'[s].address = a
         /\ \E r \in Reqs : req[r].step = "remove" /\ req[r].sub = s
  BY Lives DEF Life, Same, Rows
<1>2. CASE sub'[s] = sub[s]
  <2>1. a \in Addresses BY <1>2 DEF Base, RowsHaveAddress
  <2>2. deletions[a] = 0 BY <1>2, <2>1, StoredStays
  <2>3. ApprovedStays(s) BY DEF Kept
  <2> QED BY <1>2, <2>1, <2>2, <2>3, StoredStays DEF ApprovedStays
<1>3. CASE /\ Exists(s) /\ sub'[s].address = a
           /\ \E r \in Reqs : req[r].step = "remove" /\ req[r].sub = s
  <2>1. PICK r \in Reqs : req[r].step = "remove" /\ req[r].sub = s BY <1>3
  <2>2. req[r].address = a
    <3>1. req[r].address \in Held(s) BY <2>1 DEF Held
    <3>2. sub[s].status \notin {"new", "deleted"} BY <1>3 DEF Exists, Rows
    <3> QED BY <3>1, <3>2 DEF AllTended, Tended
  <2>3. a \in Addresses BY <2>1, <2>2 DEF Base, Paths
  <2>4. deletions[a] = 0 BY <1>3, <2>3, StoredStays
  <2>5. col[a] # "none"
    <3>1. req[r].step \in Removing BY <2>1 DEF Removing
    <3>2. StoredSoFar(r) BY <3>1 DEF Kept
    <3> QED BY <2>2, <2>4, <3>1, <3>2 DEF StoredSoFar, Stored
  <2> QED BY <1>3, <2>3, <2>5, StoredStays
<1> QED BY <1>1, <1>2, <1>3

\* A submission goes with its approval only when every page that was read is stored or
\* was left out by a logged error, unless the collection was deleted meanwhile; and what
\* was approved stays (approve_pending_collection, _store_nfts_in_batches).
THEOREM ApprovalsAreStored == Spec => []ApprovedIsStored
<1>1. Init => Kept
  <2> SUFFICES ASSUME Init PROVE Kept OBVIOUS
  <2>1. \A r \in Reqs : req[r].step = "idle" BY DEF Init, Idle
  <2>2. "idle" \notin {"batch"} \cup Removing BY DEF Removing
  <2>3. \A s \in Submissions : sub[s].status # "approved" BY DEF Init
  <2> QED BY <2>1, <2>2, <2>3 DEF Kept, ApprovedStays
<1>2. Base /\ Fetched /\ AllTended /\ Kept /\ [Next]_vars => Kept'
  <2> SUFFICES ASSUME Base, Fetched, AllTended, Kept, [Next]_vars PROVE Kept' OBVIOUS
  <2>1. CASE Next
    <3>1. \A r \in Reqs : (req[r].step \in {"batch"} \cup Removing => StoredSoFar(r))'
      BY <2>1, StoredSoFarKept DEF StoredSoFar, Stored
    <3>2. \A s \in Submissions : ApprovedStays(s)'
      BY <2>1, ApprovedStaysKept DEF ApprovedStays
    <3> QED BY <3>1, <3>2 DEF Kept
  <2>2. CASE UNCHANGED vars
    BY <2>2 DEF vars, colVars, Kept, StoredSoFar, ApprovedStays, Stored
  <2> QED BY <2>1, <2>2
<1>3. Kept => ApprovedIsStored
  BY DEF Kept, StoredSoFar, ApprovedStays, ApprovedIsStored, Stored
<1> QED BY <1>1, <1>2, <1>3, FetchedInit, FetchedKept, BaseInvariant, TendedInvariant, PTL DEF Spec

=============================================================================
