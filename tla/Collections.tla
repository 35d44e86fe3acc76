---------------------------- MODULE Collections ----------------------------
(***************************************************************************)
(* How a collection becomes public (src/nft_data): a user submits an        *)
(* address, a background task validates it on chain, an administrator        *)
(* approves, rejects or deletes the submission; the approval (and the        *)
(* administrators' populate page) fetches the collection and stores its row  *)
(* and then its NFTs, a page at a time; storing a new row queues the         *)
(* backfill of its history.                                                 *)
(*                                                                         *)
(* An action is one database statement or transaction, or one answer of a    *)
(* provider: two requests, the task and the administrators interleave        *)
(* between them.  The web process keeps its tasks in memory and may be       *)
(* restarted at any time (gunicorn does so by itself, by --max-requests).    *)
(***************************************************************************)
EXTENDS Integers

CONSTANTS
  Addresses,    \* collection addresses
  OnChain,      \* those the providers know as collections
  Submissions,  \* PendingCollection rows, by id
  Reqs,         \* requests in progress
  Pages,        \* pages of NFTs of a collection: one provider page, one batch
  MaxFaults,    \* bound: failed statements, restarts, what administrators edit
                \* by hand, and collections they delete
  None

ASSUME CollectionConstants ==
  /\ OnChain \subseteq Addresses /\ None \notin Addresses \cup Submissions
  /\ Pages \in Nat \ {0}
  /\ MaxFaults \in Nat

VARIABLES
  sub,        \* PendingCollection rows: address and status
  task,       \* validate_collection_onchain for each submission
  col,        \* NFTCollection rows: none, listed or delisted
  nfts,       \* pages of each collection whose NFTs are stored
  skipped,    \* pages whose NFTs an error left out, which was only logged
  backfills,  \* backfill tasks queued for each address
  deletions,  \* how often its row was deleted
  req,        \* requests in progress
  faults,     \* how many of them there have been
  orphans,    \* history: backfills queued by an insertion that then failed
  lost,       \* history: submissions whose validation nobody will end
  handSet     \* history: submissions whose status was set on the change page

colVars == <<col, nfts, skipped, backfills, deletions>>
history == <<orphans, lost, handSet>>
vars == <<sub, task, colVars, req, faults, history>>

-----------------------------------------------------------------------------
(* Types and helpers *)

Rows == {"validating", "pending", "rejected"}
\* "approved" and "deleted": the approval, or an administrator, removed the row.
Status == Rows \cup {"new", "approved", "deleted"}
TaskSteps == {"none", "queued", "valid", "invalid", "failed"}
Listing == {"listed", "delisted"}
Fetching == {"fetch", "find", "create", "update", "batch"}
Removing == {"publish", "remove"}
ReqSteps == {"idle", "enqueue", "reject"} \cup Fetching \cup Removing

Request ==
  [step : ReqSteps, sub : Submissions \cup {None}, address : Addresses \cup {None},
   total : 0..Pages, next : 1..Pages, listing : Listing]
Idle == [step |-> "idle", sub |-> None, address |-> None,
         total |-> 0, next |-> 1, listing |-> "listed"]
At(step, s, a) == [Idle EXCEPT !.step = step, !.sub = s, !.address = a]

Exists(s) == sub[s].status \in Rows
\* The unique column of PendingCollection.
Taken(a, others) == \E s \in others : Exists(s) /\ sub[s].address = a

Goto(r, step) == req' = [req EXCEPT ![r].step = step]
Leave(r) == req' = [req EXCEPT ![r] = Idle]
SetStatus(s, status) == sub' = [sub EXCEPT ![s].status = status]
\* A statement fails, the process restarts, or an administrator interferes.
Fault == faults < MaxFaults /\ faults' = faults + 1

Init ==
  /\ sub = [s \in Submissions |-> [address |-> None, status |-> "new"]]
  /\ task = [s \in Submissions |-> "none"]
  /\ col = [a \in Addresses |-> "none"]
  /\ nfts = [a \in Addresses |-> {}] /\ skipped = [a \in Addresses |-> {}]
  /\ backfills = [a \in Addresses |-> 0] /\ deletions = [a \in Addresses |-> 0]
  /\ req = [r \in Reqs |-> Idle]
  /\ orphans = [a \in Addresses |-> 0]
  /\ faults = 0 /\ lost = {} /\ handSet = {}

-----------------------------------------------------------------------------
(* submit_collection *)

\* The form's look-ups and the save.  Of what may come between them, the unique column
\* refuses a second submission, and a collection inserted there (which nothing
\* refuses) leaves the state of one inserted after the save.  The look-up's exclude()
\* names no row, so a rejected submission counts.
Submit_Save(r) ==
  /\ req[r].step = "idle"
  /\ \E s \in Submissions, a \in Addresses :
       /\ sub[s].status = "new" /\ col[a] = "none" /\ ~Taken(a, Submissions)
       /\ sub' = [sub EXCEPT ![s] = [address |-> a, status |-> "validating"]]
       /\ req' = [req EXCEPT ![r] = At("enqueue", s, a)]
  /\ UNCHANGED <<task, colVars, faults, history>>

Submit_Enqueue(r) ==
  /\ req[r].step = "enqueue"
  /\ task' = [task EXCEPT ![req[r].sub] = "queued"]
  /\ Leave(r)
  /\ UNCHANGED <<sub, colVars, faults, history>>

-----------------------------------------------------------------------------
(* validate_collection_onchain, run by the web process's own manager *)

StepTask(s, step) == task' = [task EXCEPT ![s] = step]

\* validate_collection: a provider, or the cache of an earlier yes, knows the
\* collection; a provider that does not answer is a no, which is not cached.
Answer_Any(a, yes) == TRUE  \* mutant: the answer is not looked at
Answer(a, yes) == yes => a \in OnChain

\* _validate_with_failover: every active provider is asked until one says yes.
Verdicts(a) == {yes \in BOOLEAN : Answer(a, yes)}

\* The row is read, the providers are listed and asked.  A failing first read ends
\* the task with the row as it was: the except clause saves a variable that is not
\* bound yet, and only logs that.  A failing list goes to the except clause.
Task_Validate(s) ==
  /\ task[s] = "queued"
  /\ \/ ~Exists(s) /\ StepTask(s, "none") /\ UNCHANGED <<faults, lost>>
     \/ /\ Exists(s) /\ UNCHANGED <<faults, lost>>
        /\ \E yes \in Verdicts(sub[s].address) :
             StepTask(s, IF yes THEN "valid" ELSE "invalid")
     \/ Fault /\ StepTask(s, "none") /\ lost' = lost \cup {s}
     \/ Exists(s) /\ Fault /\ StepTask(s, "failed") /\ UNCHANGED lost
  /\ UNCHANGED <<sub, colVars, req, orphans, handSet>>

\* The row is saved with what was found, whatever its status is by now.  The
\* save of a row that is gone raises, as a failed statement does.
Task_Save(s) ==
  /\ task[s] \in {"valid", "invalid"}
  /\ \/ /\ Exists(s)
        /\ SetStatus(s, IF task[s] = "valid" THEN "pending" ELSE "rejected")
        /\ StepTask(s, "none") /\ UNCHANGED faults
     \/ /\ IF Exists(s) THEN Fault ELSE UNCHANGED faults
        /\ StepTask(s, "failed") /\ UNCHANGED sub
  /\ UNCHANGED <<colVars, req, history>>

\* Mutant: the except clause only logs.
Task_SaveFailure_Logs(s) ==
  /\ task[s] = "failed" /\ StepTask(s, "none")
  /\ UNCHANGED <<sub, colVars, req, faults, history>>

\* The except clause saves the row as rejected; that may fail again.
Task_SaveFailure(s) ==
  /\ task[s] = "failed"
  /\ \/ Exists(s) /\ SetStatus(s, "rejected") /\ UNCHANGED <<faults, lost>>
     \/ Exists(s) /\ Fault /\ lost' = lost \cup {s} /\ UNCHANGED sub
     \/ ~Exists(s) /\ UNCHANGED <<sub, faults, lost>>
  /\ StepTask(s, "none")
  /\ UNCHANGED <<colVars, req, orphans, handSet>>

-----------------------------------------------------------------------------
(* fetch_collections_by_collection, from an approval or the populate page *)

\* approve_pending_collection tests under a lock that it gives up at once.
Approve_Check(r) ==
  /\ req[r].step = "idle"
  /\ \E s \in Submissions :
       /\ sub[s].status = "pending" /\ col[sub[s].address] = "none"
       /\ req' = [req EXCEPT ![r] = At("fetch", s, sub[s].address)]
  /\ UNCHANGED <<sub, task, colVars, faults, history>>

Populate_Start(r) ==
  /\ req[r].step = "idle"
  /\ \E a \in Addresses : req' = [req EXCEPT ![r] = At("fetch", None, a)]
  /\ UNCHANGED <<sub, task, colVars, faults, history>>

\* Validation, metadata and the list of NFTs: all are answers of providers.  A page
\* that cannot be read ends the list, and what was read before it passes for the
\* whole collection; nothing at all ends the request.  Entries that cannot be used
\* are dropped, which may leave no page to store.
Fetch(r) ==
  /\ req[r].step = "fetch"
  /\ \/ /\ Answer(req[r].address, TRUE)
        /\ \E n \in 0..Pages : req' = [req EXCEPT ![r].step = "find", ![r].total = n]
     \/ Leave(r)
  /\ UNCHANGED <<sub, task, colVars, faults, history>>

\* get_or_create looks first.
Store_Find(r) ==
  LET a == req[r].address IN
  /\ req[r].step = "find"
  /\ req' = [req EXCEPT ![r].step = IF col[a] = "none" THEN "create" ELSE "update",
                        ![r].listing = IF col[a] = "none" THEN @ ELSE col[a]]
  /\ UNCHANGED <<sub, task, colVars, faults, history>>

\* Mutant: the unique address is not enforced.
InsertCollection_Twice(a, listing) ==
  /\ col' = [col EXCEPT ![a] = listing]
  /\ backfills' = [backfills EXCEPT ![a] = IF listing = "listed" THEN @ + 1 ELSE @]

\* A new row: trigger_backfill_for_new_collection queues a backfill if it is listed.
InsertCollection(a, listing) ==
  /\ col[a] = "none"
  /\ col' = [col EXCEPT ![a] = listing]
  /\ backfills' = [backfills EXCEPT ![a] = IF listing = "listed" THEN @ + 1 ELSE @]

\* The signal queues the backfill inside the transaction, which may still fail: the
\* row is gone, the queued backfill is not.
LoseInsert(a) ==
  /\ col[a] = "none" /\ Fault
  /\ backfills' = [backfills EXCEPT ![a] = @ + 1]
  /\ orphans' = [orphans EXCEPT ![a] = @ + 1]
  /\ UNCHANGED col

\* After the last page the populate page is done; an approval goes on.
Done(r) == IF req[r].sub = None THEN Leave(r) ELSE Goto(r, "publish")

ToBatches(r) ==
  IF req[r].total = 0 THEN Done(r)
  ELSE req' = [req EXCEPT ![r].step = "batch", ![r].listing = "listed"]

\* The row is public from here on: is_listed is True by default.  A second creator
\* of the same row finds it; a slug that another collection
\* took ends the fetch.
Store_Create(r) ==
  LET a == req[r].address IN
  /\ req[r].step = "create"
  /\ \/ InsertCollection(a, "listed") /\ ToBatches(r) /\ UNCHANGED <<faults, orphans>>
     \/ LoseInsert(a) /\ Leave(r)
     \/ /\ col[a] # "none"
        /\ req' = [req EXCEPT ![r].step = "update", ![r].listing = col[a]]
        /\ UNCHANGED <<col, backfills, faults, orphans>>
     \/ col[a] = "none" /\ Leave(r) /\ UNCHANGED <<col, backfills, faults, orphans>>
  /\ UNCHANGED <<sub, task, nfts, skipped, deletions, lost, handSet>>

\* A row that was found is saved whole, is_listed as it was read included; if it
\* was deleted meanwhile, Django inserts it again (or the slug was taken).
Store_Update(r) ==
  LET a == req[r].address IN
  /\ req[r].step = "update"
  /\ \/ /\ col[a] # "none" /\ col' = [col EXCEPT ![a] = req[r].listing]
        /\ ToBatches(r) /\ UNCHANGED <<backfills, faults, orphans>>
     \/ InsertCollection(a, req[r].listing) /\ ToBatches(r) /\ UNCHANGED <<faults, orphans>>
     \/ req[r].listing = "listed" /\ LoseInsert(a) /\ Leave(r)
     \/ col[a] = "none" /\ Leave(r) /\ UNCHANGED <<col, backfills, faults, orphans>>
  /\ UNCHANGED <<sub, task, nfts, skipped, deletions, lost, handSet>>

\* Mutants: one page too few, one too many.
NextPage_Early(r) ==
  IF req[r].next + 1 < req[r].total THEN req' = [req EXCEPT ![r].next = @ + 1] ELSE Done(r)
NextPage_Late(r) ==
  IF req[r].next <= req[r].total THEN req' = [req EXCEPT ![r].next = @ + 1] ELSE Done(r)

NextPage(r) ==
  IF req[r].next < req[r].total THEN req' = [req EXCEPT ![r].next = @ + 1] ELSE Done(r)

\* One batch in a transaction of its own.  An error in it is logged and its NFTs
\* are left out; one that reaches the end of the transaction (a deleted
\* collection always does) ends the fetch.
Store_Batch(r) ==
  LET a == req[r].address IN
  /\ req[r].step = "batch"
  /\ \/ /\ col[a] # "none" /\ nfts' = [nfts EXCEPT ![a] = @ \cup {req[r].next}]
        /\ NextPage(r) /\ UNCHANGED <<skipped, faults>>
     \/ /\ col[a] # "none" /\ Fault /\ skipped' = [skipped EXCEPT ![a] = @ \cup {req[r].next}]
        /\ NextPage(r) /\ UNCHANGED nfts
     \/ /\ IF col[a] = "none" THEN UNCHANGED faults ELSE Fault
        /\ Leave(r) /\ UNCHANGED <<nfts, skipped>>
  /\ UNCHANGED <<sub, task, col, backfills, deletions, history>>

-----------------------------------------------------------------------------
(* The rest of approve_pending_collection *)

\* The row is read and saved with update_fields: if it is gone, either raises.
Approve_Publish(r) ==
  LET a == req[r].address IN
  /\ req[r].step = "publish"
  /\ \/ col[a] # "none" /\ col' = [col EXCEPT ![a] = "listed"] /\ Goto(r, "remove")
     \/ col[a] = "none" /\ Leave(r) /\ UNCHANGED col
  /\ UNCHANGED <<sub, task, nfts, skipped, backfills, deletions, faults, history>>

\* The submission is deleted, whatever its status is by now.  What follows (the
\* notification) raises, and no state depends on it.
Approve_Remove(r) ==
  /\ req[r].step = "remove"
  /\ \/ Exists(req[r].sub) /\ SetStatus(req[r].sub, "approved")
     \/ ~Exists(req[r].sub) /\ UNCHANGED sub
  /\ Leave(r)
  /\ UNCHANGED <<task, colVars, faults, history>>

-----------------------------------------------------------------------------
(* reject_pending_collection *)

Reject_Load(r) ==
  /\ req[r].step = "idle"
  /\ \E s \in Submissions :
       Exists(s) /\ req' = [req EXCEPT ![r] = At("reject", s, sub[s].address)]
  /\ UNCHANGED <<sub, task, colVars, faults, history>>

\* The whole row is saved: one that was removed meanwhile is inserted again, unless
\* its address was submitted again.
Reject_Save(r) ==
  LET s == req[r].sub IN
  /\ req[r].step = "reject"
  /\ \/ /\ ~Taken(req[r].address, Submissions \ {s})
        /\ sub' = [sub EXCEPT ![s] = [address |-> req[r].address, status |-> "rejected"]]
     \/ Taken(req[r].address, Submissions \ {s}) /\ UNCHANGED sub
  /\ Leave(r)
  /\ UNCHANGED <<task, colVars, faults, history>>

-----------------------------------------------------------------------------
(* Administration pages and the environment *)

\* PendingCollectionAdmin's change page, one transaction: the status is editable, and
\* what the page showed may be saved over what the row has become.
Admin_SetStatus(s) ==
  /\ Exists(s) /\ Fault
  /\ \E status \in Rows \ {sub[s].status} : SetStatus(s, status)
  /\ handSet' = handSet \cup {s}
  /\ UNCHANGED <<task, colVars, req, orphans, lost>>

Admin_DeleteSubmission(s) ==
  /\ Exists(s) /\ sub' = [sub EXCEPT ![s] = [address |-> None, status |-> "deleted"]]
  /\ UNCHANGED <<task, colVars, req, faults, history>>

\* list_collections, delist_collections and the editable column.
Admin_SetListing(a) ==
  /\ col[a] # "none" /\ Fault
  /\ \E listing \in Listing \ {col[a]} : col' = [col EXCEPT ![a] = listing]
  /\ UNCHANGED <<sub, task, nfts, skipped, backfills, deletions, req, history>>

\* The NFTs go with the row.
Admin_DeleteCollection(a) ==
  /\ col[a] # "none" /\ Fault
  /\ col' = [col EXCEPT ![a] = "none"]
  /\ nfts' = [nfts EXCEPT ![a] = {}] /\ skipped' = [skipped EXCEPT ![a] = {}]
  /\ deletions' = [deletions EXCEPT ![a] = @ + 1]
  /\ UNCHANGED <<sub, task, backfills, req, history>>

\* Requests and queued tasks live in the process.
Restart ==
  /\ Fault
  /\ lost' = lost \cup {s \in Submissions : sub[s].status = "validating"}
  /\ req' = [r \in Reqs |-> Idle]
  /\ task' = [s \in Submissions |-> "none"]
  /\ UNCHANGED <<sub, colVars, orphans, handSet>>

Next ==
  \/ \E r \in Reqs :
       \/ Submit_Save(r) \/ Submit_Enqueue(r)
       \/ Approve_Check(r) \/ Populate_Start(r) \/ Fetch(r)
       \/ Store_Find(r) \/ Store_Create(r) \/ Store_Update(r) \/ Store_Batch(r)
       \/ Approve_Publish(r) \/ Approve_Remove(r)
       \/ Reject_Load(r) \/ Reject_Save(r)
  \/ \E s \in Submissions :
       \/ Task_Validate(s) \/ Task_Save(s) \/ Task_SaveFailure(s)
       \/ Admin_SetStatus(s) \/ Admin_DeleteSubmission(s)
  \/ \E a \in Addresses :
       \/ Admin_SetListing(a) \/ Admin_DeleteCollection(a)
  \/ Restart

Spec == Init /\ [][Next]_vars

-----------------------------------------------------------------------------
(* Properties *)

TypeOK ==
  /\ sub \in [Submissions -> [address : Addresses \cup {None}, status : Status]]
  /\ task \in [Submissions -> TaskSteps]
  /\ col \in [Addresses -> {"none"} \cup Listing]
  /\ nfts \in [Addresses -> SUBSET (1..Pages)]
  /\ skipped \in [Addresses -> SUBSET (1..Pages)]
  /\ backfills \in [Addresses -> Nat] /\ deletions \in [Addresses -> Nat]
  /\ req \in [Reqs -> Request]
  /\ faults \in 0..MaxFaults /\ orphans \in [Addresses -> Nat]
  /\ lost \subseteq Submissions /\ handSet \subseteq Submissions

\* However requests, validations, rejections and edits interleave, only what a
\* provider knows as a collection has a row; and only such an address is offered for
\* approval, unless an administrator set the status by hand.
OnlyOnChain ==
  /\ \A a \in Addresses : col[a] # "none" => a \in OnChain
  /\ \A s \in Submissions \ handSet : sub[s].status = "pending" => sub[s].address \in OnChain

\* trigger_backfill_for_new_collection, "This runs ONE TIME": two creators of one
\* row queue one backfill, and another is queued only after a deletion, or after a
\* commit that failed; a row has its backfill.
BackfillOnce ==
  \A a \in Addresses :
    /\ backfills[a] <= 1 + deletions[a] + orphans[a]
    /\ col[a] # "none" => backfills[a] >= 1

\* An approval removes a submission only when all it fetched is stored, or was left
\* out by an error that was logged, unless an administrator deleted the collection
\* under it; and an approved collection stays.
Stored(a, pages) == col[a] # "none" /\ pages \subseteq nfts[a] \cup skipped[a]

ApprovedIsStored ==
  /\ \A r \in Reqs :
       req[r].step \in Removing /\ deletions[req[r].address] = 0
         => Stored(req[r].address, 1..req[r].total)
  /\ \A s \in Submissions :
       sub[s].status = "approved" /\ deletions[sub[s].address] = 0
         => col[sub[s].address] # "none"

\* A submission does not stay in validation without somebody who will end it: what
\* can leave it there is a restart, a failure of the task's first read, a second
\* failed statement, or an administrator who sets the status by hand.
ValidatingHasTask ==
  \A s \in Submissions \ (lost \cup handSet) : sub[s].status = "validating" =>
    \/ task[s] # "none"
    \/ \E r \in Reqs : req[r].step = "enqueue" /\ req[r].sub = s
=============================================================================
