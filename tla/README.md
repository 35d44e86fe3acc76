# TraitKeeper: a verification project

TLA+ models of TraitKeeper (a Django application that runs a peer-to-peer NFT
market, indexes its collections' transactions and scores them), TLC instances
that check them, and TLAPS proofs about them. Every definition is translated from
the source; `PROJECT.json` names the lines each one stands for.

Run everything from this directory:

    tlc -workers 2 -config MCBids.cfg MCMarketplace      # any cfg, with its MC module
    tlapm Marketplace_proofs.tla                         # the longest, about three minutes
    tlapm VitalityTasks_proofs.tla
    tlapm EventIndexer_proofs.tla
    tlapm BackgroundTasks_proofs.tla
    tlapm SystemHealth_proofs.tla
    tlapm TransactionParser_proofs.tla
    tlapm Collections_proofs.tla
    tlapm Providers_proofs.tla

## 1. Inventory

The system is one Django project. State lives in PostgreSQL (and a cache), and the
code that changes it is asynchronous Python: request handlers, management commands
that stay, threads that own an event loop, and in-memory queues. A coroutine runs
alone until its next `await`; a database closure runs in a thread of its own
(`sync_to_async(thread_sensitive=False)`), so two requests interleave between any
two of their round trips.

| Component | State | Operations | What is hard | Model |
|---|---|---|---|---|
| **Marketplace service** (`marketplace/services.py`, `models.py`, `safety_validation.py`, `admin.py`) | NFT, PrivateBid, AuctionEvent, NFTEvent (sales), MarketplaceTransaction, TransactionMonitoring rows | bids: accept, reject, cancel, counter; fixed prices: set, remove, buy; sell intents: set, remove, accept; auctions: create, bid, finalise, cancel, administrator's cancel | every handler reads and validates without a lock, awaits, and writes in a later transaction; accepting a bid takes four transactions; a request may end between any two | `Marketplace` |
| **Vitality task manager** (`marketplace/vitality_task_manager.py`, `traitkeeper/apps.py`, the command that runs it) | task queue, set of active tasks, two loops, a shutdown event | start (from two places), stop, scheduler pass, worker, retry, manual trigger | queue and set must agree across awaits; two starters with different event loops; shutdown | `VitalityTasks` |
| **Event indexer** (`indexer/services/main.py`, `parser.py`, `webhook_service.py`) | chain (external), NFTEvent, FailedTransaction, NFT owner, in-memory pending deque, collection-lookup cache | live subscription and batch processor, webhook, backfill newest first, retry of failed rows, owner update | four concurrent writers of one row, order of application, memory lost in a crash, negative cache | `EventIndexer`, `EventLog` |
| **Transaction parser** (`indexer/services/parser.py`, `transaction_filter.py`, `discriminator_learner.py`) | the call's own, and the discriminators it learns | normalise, three tiers, price and type inference, resolution, validation, storage | nine programs' instructions, three ways to a price, thresholds at which an event is kept or dropped | `TransactionParser` |
| **Background task managers** (`indexer/` and `system_health/background_task_manager.py`) | priority deques, worker threads, periodic tasks, history | add, next, execute, retry, reschedule, start, stop | check-then-pop without a lock, periodic tasks that multiply, threads that outlive a restart | `BackgroundTasks` |
| **System health** (`system_health/`) | snapshots, alerts, the machine (external) | check, open alert, second check, close what ended, resolve by hand, clean up | look-up before creation in several processes, judging rows by an older sample | `SystemHealth` |
| **Collection submission and retrieval** (`nft_data/`) | submissions, collections, NFT pages, queued validations and backfills | submit, validate, approve, reject, populate, list, delist, delete | long tasks over stale objects, one row with several creators, queues in the memory of a web worker | `Collections` |
| **Provider settings and failover** (`core/api_provider`, provider pages and API of `admin_panel`) | provider rows, each process's caches, reload messages, coroutines | change by API and by page, reload, look up, subscribe and fail over | three statements of one save interleave; a cache kept after its invalidation; a subscription that must never end | `Providers` |
| **Provider quota** (`indexer/quota_manager.py`) | counters and rate-limit windows in the cache | pick a tier, count, reset | check-then-act counters | no |
| **Accounts, wallets, quests** (`wallet`, `profiles`) | custodial keys, primary wallet, user name, quest progress | create, import, rename, complete | custody and authentication | no |
| **Vitality scores, bid validation, analytics, uptime** | rows computed from events | arithmetic with tiers and thresholds | division, boundaries | only how a calculation ends |
| **Perception and cache** (`perception_service.py`, `core/cache_manager.py`) | snapshots, cached values | build, invalidate | a stale writer after an invalidation | no |
| Notifications, administration, content apps, site | rows behind forms and pages | one insert or update each | no protocol | no |

How they interact: the market and the indexer both write `NFT.owner` and `NFTEvent`
rows; the marketplace's sale uses the transaction signature as the primary key of the
event that the indexer would create for the same transaction. The indexer's sources
hand every transaction to the parser, get it through the providers' subscription and
calls, and are driven by the background tasks. The vitality manager reads the events
both market and indexer store. The retrieval fills the NFT rows that the indexer's
collection look-up searches, and a new collection queues the backfill of its history.
The health manager runs the same kind of task manager and watches the processes of the
others. All share the database, none share locks except the market's
`select_for_update`.

What makes each part correct: a sale is the only thing that changes an owner, and it
has one buyer and one record; prices and flags agree; an auction's high
bid only rises, before its end, and its winner is its last bidder; a bid once accepted
stays accepted; a background queue never loses, doubles or blocks a task; an event
that was received is stored or kept for a retry, and only stored events move an owner;
a sale is recorded at its price; only what a provider knows becomes public, complete
and with one backfill; an alert is open as long as its condition lasts; one provider is
primary and every process that listens uses the same ones.

## 2. Plan

Done: `Marketplace`, `VitalityTasks`, `EventIndexer` with its abstract specification
`EventLog`, `BackgroundTasks`, `SystemHealth`, `TransactionParser`, `Collections`,
`Providers`; each with runs and with a module of proofs.

What a next step would add, in this order:

1. `MarketIndexer`: Marketplace and EventIndexer over the same NFT and NFTEvent rows:
   the sale whose signature the indexer ingests before the handler records it (the
   handler's transaction is then rolled back, and the old listing stays on an NFT whose
   owner the indexer moves), and the row that the indexer's upsert replaces after it.
2. `Perception`: the read-through cache against invalidation.
3. Provider quota, with the loss of counts between read and write as its bound.
4. Pure operators: score arithmetic, tiers, uptime, with functions instead of
   RECURSIVE operators.

The number of runs is kept to a dozen, so that each asks a question of its own. As
modules were added, instances whose only result was a known divergence gave way to
passing instances of the new modules; each divergence stays recorded below, at its
component.

## 3. Marketplace

A handler `X` is `X_Load` (read rows without a lock, validate, park what was read in
`req[r]`) followed by one action for each database transaction (`X_Write`, or
`AcceptBid_Record`, `_Confirm`, `_Commit` and `_Failed` for the four of
`accept_private_bid`). `Abort(r)` ends a request anywhere: a failed locked re-check, a
violated unique key, a deadlock that PostgreSQL resolves, a lost worker. Two request
slots give every interleaving of two handlers; nothing in the code relates three.

| State | Code |
|---|---|
| `nft` | owner, flags, prices, `is_listed`, `active_auction` of `NFT` |
| `bid` | `PrivateBid.status`, bidder, expiry |
| `auction` | `AuctionEvent`, by its key `auction_id` |
| `sale` | `NFTEvent` rows of type SALE by their key, and whether a `MarketplaceTransaction` goes with it |
| `monitor` | `TransactionMonitoring.status` by signature |
| `req`, `now` | requests between two awaits; the clock |

Choices worth knowing. Private bids exist in `Init`: `place_private_bid` refuses every
call before it writes, but rows from before it did so are accepted and cancelled. The
amount of an accepted bid is the constant the code puts there
(`mock_decrypted_amount`). `create_auction` reads the NFT and then the open auctions,
two reads that one load stands for. A reserve price is accepted by the code and stored
nowhere, so the model has none. A handler called without a signature only builds an
instruction and is not an action. `confirm_private_bid_tx` creates, confirms or fails a
transaction record of any signature and then looks for a *pending* bid, a status that no
bid has: it always raises, so its request takes the record steps of an acceptance without
a bid and never commits.

The indexer writes the same rows and is not part of this module (plan item 1): it moves
`owner` after a sale it has seen on chain, and an event it stores first makes the handler's
`CreateSale` fail, which is one of the ways into `Abort`. So `OwnershipFollowsSales` speaks
of what the market's own steps do; the other invariants do not relate an owner to
anything the indexer writes.

What is claimed (`Marketplace.tla`, last section): `ListingConsistent` (prices and their
flags), `AuctionBidsSound`, `BidsRiseWhileOpen`, `WinnerIsHighBidder`,
`NoSelfPurchase`, `AcceptedSaleConfirmed`, `AcceptClearsOffers`,
`OwnershipFollowsSales` (an owner changes only in a step that records the sale to him,
whatever requests overlap) and `UnopenedUnbid` (an auction not opened yet has no bid;
a theorem without a run).

| Run | Question | Bounds and why they are enough |
|---|---|---|
| `MCListing` | do prices and flags agree; does anybody buy from himself | every kind of listing, with a bid that is countered, rejected or cancelled, on one NFT; three wallets (owner, buyer, rival), two requests, prices 0 to 2 so that zero, equal and different prices occur |
| `MCBids` | has every sale of an accepted bid its confirmed record, although `confirm_private_bid_tx` writes records too; are the NFT's other offers gone, although a bid can be cancelled or rejected and the NFT be bought during the chain wait | two bids on one NFT, two signatures (reused or not), two requests, a bid that expires now, later or not at all within the clock |
| `MCAuction` | does the high bid rise until the end and win; does an owner change only with a recorded sale | one NFT auctioned twice (a second auction after the first one's cancellation or sale), bids before, at and after the end |
| `MCOwnerSells` | violated: *only the current owner can list or sell* | one request at a time is enough: the NFT of an open auction is sold directly before the auction is finalised; owners are checked at load, and not again by the write |

Wallets, request slots, signatures, auctions and bids are symmetric in safety runs.
Deadlock is not checked: with a bounded clock and a finite supply of signatures a run
ends when they are used up.

Seen while modelling, and not given a run: a cancellation or rejection that validated an
active bid overwrites an acceptance that came between (`services.py:563`; the marketplace
guide says a buyer can cancel *before* acceptance); `cancel_auction` looks at `current_bid`
before its closure and not in it, so a bid that lands in between is cancelled with the
auction, which its comment allows only without bids; the administrator's cancellation
(`admin.py`, `Admin_CancelAuction`) leaves `NFT.active_auction` on a cancelled auction;
`finalize_auction` stores no `MarketplaceTransaction` although the model's docstring
says it is created automatically; the reserve price is never stored although the guide
says it protects the seller.

**Proved** (`Marketplace_proofs.tla`, for all constants that satisfy
`MarketConstants`). `MarketInv` is inductive. The safety properties alone are not: what
a request parked must still be true when it writes, so `MarketInv` adds `RequestsOK`
(what each parked request still knows about the rows it validated), `AuctionsOK` (an
auction that exists has an NFT and a creator) and `RecordsOK` (a transaction record is
in the state its one owner's step left it in). The proof has a lemma for each kind of
step; loads change only `req` and share one lemma.

The other three build on it, each by saying what *any* step can do to one table:

- `OwnershipFollows`: most actions keep every owner and every sale (`KeepsOwners`); the
  four that sell (`Sells`) create one sale under a key that is free and move, in the same
  transaction, the owner of the NFT that this sale names (`SaleToOwner`).
- `BidsOnlyRise`: a step leaves an auction alone, opens it without a bid, raises it before
  its end or closes it with the bid it has (`AuctionLife`). That a *new* auction does not
  overwrite a bid needs `UnopenedUnbid`, which no other invariant implies
  (`FreshAuctions`).
- `AcceptedClears`: no step makes a bid active again or moves it to another NFT
  (`BidsClose`); the only step that records an accepted bid closes all the others of that
  NFT in the same transaction.

## 4. VitalityTasks

Scheduler and worker on one event loop, so an action is the code between two awaits;
`asyncio.Queue.put` on an unbounded queue does not suspend, hence `add_task` is one
step. Two starters: the management command, whose loop stays, and
`AppConfig.ready`, whose `asyncio.run(start())` cancels both tasks when `start()`
returns. Collections come due and are deleted by the environment. How a calculation
ends is the constant `Outcomes`; the code as written always raises (`sync_to_async`
is applied to a query set), and the runs allow both so that the protocol is checked for
the day it does not. `trigger_immediate_calculation` has no caller in the repository
and is kept as the operation it offers: it may queue a task before the loops start and
after they have stopped, as the code would.

| Run | Question | Bounds |
|---|---|---|
| `MCVitality` | is the set of active tasks exact, is every due collection attempted | two collections (one queued while the other executes), both starters in any order, one database error |

Fairness: weak fairness of the scheduler's next step, of the worker's next step, of the
two starters and of the end of `stop`. An asyncio loop resumes every ready task, and sleeps
end; nothing is assumed of the environment (collections need not come due or go), of
database errors, of manual triggers or of a call of `stop`. `DueIsAttempted` is
conditional on the manager running: not told to stop, and not left with cancelled
tasks.

Seen while modelling, and not given a run: no retry is ever queued, because `add_task`
refuses a collection that is still in `_active_tasks`, and the worker adds the retry
before it removes the entry (`vitality_task_manager.py:232`, "Retrying task … after
delay"); when `ready()` comes first, `_tasks` holds two cancelled tasks and the command's
`start()` returns at once, so that nothing is scheduled in its process; `stop` gathers a worker that waits in
`queue.get()`; when nothing more is queued it never returns, although its docstring
says it stops gracefully.

**Proved** (`VitalityTasks_proofs.tla`): `TaskInv`, hence `ActiveTracksWork`, for any
set of collections, any `max_retries`, outcomes and starters. The clauses about queue
and worker are proved together because a task moves from one to the other while its
address stays in the set.

Two theorems state properties that have no run of their own. `NoRetryQueued`
(`FirstAttempts`): every calculation is a first attempt, for any `max_retries`; by
`TaskInv` the entry in `_active_tasks` is always there when the retry is added, so
`add_task` refuses it. `StopIsComplete` (`StoppedIsQuiet`): when `stop` has returned,
neither loop is at work, whichever starter was first and whatever was triggered
meanwhile. It needs `Halts`, which says that the loops run only where the command has
started them, that `stop` is the command's, and that tasks are no longer live once it
has returned.

## 5. EventIndexer and EventLog

Four sources hand transactions to one parser: the live subscription with its batch
processor, the webhook, the backfill of a collection's history (newest first) and the
periodic retry of failed transactions. They run in different processes and meet only in
the database and the cache. The model has one history, `chain`, and refers to a
transaction by its position; a source's parses under way are `parse[<<source, n>>]`, a
step and a transaction. What decides what happens to a transaction is its kind: a SALE
(any sale or transfer with a buyer) is stored and moves the owner, a BURN (whatever
`_validate_parsed_event` refuses: burns, mints, sales to oneself) fails, a NONE (an
administrative action, or nothing a tier knows) ends after the tiers without a trace, and
anything else is stored. How the tiers come to a kind is `TransactionParser`.

| State | Code |
|---|---|
| `owner`, `stored`, `failed` | `NFT.owner`, `NFTEvent` rows, `FailedTransaction` rows in the order of `created_at` |
| `cache` | `collection:mint:<mint>`: nothing, a collection, or `NOT_FOUND` |
| `pending`, `batch`, `live` | `pending_events`, what `_batch_processor` took out of it, and where it is |
| `page`, `retrying` | what the backfill and a retry run have still to parse |
| `parse` | coroutines of `parse_and_store_event` between two awaits |

One parse is `Parse_Filter` (pre-filter and tiers), `Parse_Resolve` and `Parse_Helius`
(cache, database, provider), `Parse_Store` (validation and upsert) or `Parse_Fail`, or
`Parse_Untracked` where the resolved collection has no row, then
`Owner_Read` and `Owner_Write`, and for a retry `Retry_Delete`. `Retrieve` stores an NFT
row with the owner its provider names, which is the current one. `Crash(s)` empties the
memory of a source's process. Left out: the backfill's barrier after every fifty parses
(the model allows more), what the tiers do to recognise an event, retry runs that
overlap (two start only when a periodic task has multiplied, see BackgroundTasks), and
the deletion of a collection whose NFTs have rows: an NFT row that was found stays.

`EventLog` is what readers of the tables may rely on: an event is stored for good, a
failed row goes only when its event is stored, and an owner comes from the provider or
from a stored sale. `ImplementsEventLog` is `EventIndexer => EventLog` with the sequence
of rows mapped to the set of transactions in it.

| Run | Question | Bounds and why they are enough |
|---|---|---|
| `MCSources` | do the tables behave as an `EventLog` | one parse of each source, all of the same transaction (the only way they conflict on a row), which may be of any kind, NONE included; one error, one crash of any process; that an older sale replaces the owner a newer one set is allowed by `EventLog`, so neither this run nor the theorem speaks of it |
| `MCLiveRetry` | is what was received settled; do retries succeed | two transactions with room for one in a retry run, one error, live and retry only: the two periodic processes |

Fairness: weak fairness of the batch processor and of the retry task, which are
periodic, of every parse that has begun, and of the expiry of cache entries, which
Django guarantees. Nothing is assumed of the webhook, the backfill, retrievals, errors
or the chain. `LiveIsSettled` is about events (not NONE) and gives up when the process dies (its queue
is in memory: what a crash loses is found again only by the backfill), when an error
occurs (saving a failure can fail too), and when the cache says `NOT_FOUND`, even where
a late answer put that there for an NFT that has a row by now; `RetriesSucceed` has no
such escape, the entry expires, but is about valid events among the first rows, because
later ones starve behind rows that always fail.

**Proved** (`EventIndexer_proofs.tla`, from `IndexerConstants` alone). `IndexerInv` is
inductive: types, `ParseOK` and `FailedUnique`. `ParseOK` is the strengthening that the
refinement needs: a parse that is about to delete a failed row or move an owner knows
that its event is stored and that the NFT row exists. It survives the other sources
because history, events and NFT rows only grow (`Grows`), so the proof has one lemma
for a slot that moves and one for slots that do not. `IndexerImplementsLog` follows
action by action: `Parse_Store` is `Store`, `Parse_Fail` is `Fail` or a stutter,
`Retry_Delete` is `Recover` or a stutter, `Owner_Write` is `Follow`, and everything
else, crashes included, leaves the log alone.

`TypeOK`, `ParseOK` and `FailedUnique` (one row for each failed transaction) are the
parts of `IndexerInv`; the last is a theorem of its own, `FailedRowsUnique`.

Two more theorems state properties that have no run of their own. `SourcesKeep`
(`NothingDropped`) is the safety half of `LiveIsSettled` and `RetriesSucceed`, for all four
sources: a transaction that a source holds (queued, in a batch, on a page, in a parse)
leaves its memory only when it is stored or kept as failed, unless it is no event, its
NFT has no row, the cache says `NOT_FOUND`, or the step is an error or a crash. It goes through the
actions by source: a step moves a transaction from what waits to a parse of the same
source, or ends the parse at a table. `BatchTaken` (nothing is left of the last batch when
the processor takes the next one) is what the live source needs besides `IndexerInv`.
`OwnersHaveHeld` (`OwnerHasHeld`): an owner is the first one or the buyer of a sale of
this very NFT, in whatever order the sources apply the sales; that he is the *latest*
buyer is what the code does not guarantee.

Seen while modelling, and not given a run: a backfilled older sale overwrites the owner
that a newer one set (`parser.py:2091`; the schema calls the column the current owner),
so `ImplementsEventLog` says that an owner follows *stored* sales and not the latest one;
rows that keep failing stay at the head of the failed ones, and a retry run takes the
oldest, so later ones may never be retried, which is why `RetriesSucceed` speaks of the
first rows only; `collections_to_update` is never filled by
a live event (an `NFTEvent` has no attribute `collection`), so the metrics pass of the
batch processor never runs; `_mark_nft_as_burned` is unreachable because a BURN does
not validate; `_store_failed_event` is unreachable because the parser catches what it
would store; `_get_collection_for_mint` calls the provider although its docstring says
no external calls are made.

## 6. BackgroundTasks

One class, twice: the indexer's manager (three threads) and the health monitor's (one).
A thread takes a task in four operations on shared deques (`Loop`, `Scan`, `Pop`,
`Judge`) and CPython may switch between any two. A `Task` is an object that a retry
changes and queues again, so the deques hold references into the heap `task`;
`scheduled_for` is the time left until then.

| State | Code |
|---|---|
| `is_running`, `starts`, `schedule` | the flag, the calls of `start()` that went through, what `_schedule_periodic_tasks` has still to add |
| `task_queues`, `task` | the deques by priority, the `Task` objects |
| `worker` | step, place in the scan and task in hand of each thread of `worker_threads` |
| `submitted`, `success`, `failed` | what was submitted, and `task_history` |

| Run | Question | Bounds and why they are enough |
|---|---|---|
| `MCTasks` | is each task in one place, settled once, and carried out; do threads end | two threads, each able to pop while the other tests; one periodic and one one-shot task on one priority, so that one can stand before the other; a second, lower priority that the scan visits; a limit of one retry and failures enough to pass it; five objects, one more than the copies these failures can leave |

Fairness: weak fairness of each thread's next step (a thread is resumed, a task's calls
have timeouts) and of `Tick`; none of `start`, `stop` or the submitting views. So
`HighestIsExecuted` holds only while the manager stays up, and `WorkersEnd` only after a
`stop` that no `start` follows.

**Proved** (`BackgroundTasks_proofs.tla`): `TasksTyped`, `TasksOnce`, `TasksSettled`,
`TasksKept`, `TasksWait`, for any threads, tasks, priorities and delays. `EachTaskOnce` is inductive in the form
`Placed`, which says where an object in a deque cannot be (in hand, in another deque, twice
in this one). Lemmas on appending, popping and putting back give what each step does to
it; `OneShotSettledOnce` is then preserved because a retry puts back the very object it
judges. `PeriodicKept` counts: lemmas say what each step does to the set of copies of one
id and to those that are not a failed execution, and the cardinalities follow. `TasksWait`
(`RunsWhenDue`, a theorem without a run) is the other use of `Placed`: the task that a
thread found due is in no other thread's hands, so nobody moves its time before it is
executed. The two liveness properties are model-checked only. `MCTasks` has one start and a
stop; more starts, and threads that outlive one, are in the theorems only (with a second
start the run does not end in minutes).

Not modelled: the last call of the indexer's `start()`, `start_real_time` with its flag
`real_time_enabled`. It awaits the live subscription, whose walk is in `Providers` and
whose transactions are in `EventIndexer`, and touches neither threads nor deques. So
`start()` does not return while the subscription lasts, and the restart page of
`admin_panel/views.py:1143-1146` waits with it; `stop()` clears the flag without ending the
subscription, and a restart begins a second one.

Seen while modelling, and not given a run: a restart adds a second copy of every periodic
task, and each failure of one leaves one more for ever (the `finally` clause reschedules
and the `except` clause retries: the upper bound of `PeriodicKept`); a task for later at
the head of a deque hides due ones behind it until its time comes, and is looked at again
on every pass; a thread in a long task outlives `stop()` and works for
the next `start()`. In the shipped deployment the web process starts no manager
(`RUN_BACKGROUND_TASKS=false`), so what its views queue stays in its memory, and the two
manager instances never run each other's tasks; `indexer/apps.py` imports a
`start_background_tasks` that does not exist; `run_background_service` cancels its
coroutines and never calls `stop()`.

## 7. SystemHealth

A manager is a process: the health container, and each web worker whose restart page was
used. Its task checks the machine and stores a snapshot (`Capture`), looks for an open
alert of each message (`Find`) and touches it or creates one (`Touch`, `Create`), checks
again (`Recheck`, `Services`) and closes what looks ended (`Judge`). Managers,
administrators, clean-up and machine interleave at every statement and sample.

| State | Code |
|---|---|
| `machine` | the printed load, Redis, the indexer's container, the Docker socket (external) |
| `alert`, `deleted` | open `SystemAlert` rows; rows deleted under a manager that holds them |
| `step`, `todo`, `hold`, `seen`, `running` | place and local variables of each manager's snapshot task |

| Run | Question | Bounds and why they are enough |
|---|---|---|
| `MCHealth` | do alerts multiply; is what ended closed; is what persists shown | two managers, three rows (one more than one message can have open at once), the indexer and the Docker socket changing at will, so that an indexer seems to stop because the socket does; one failing statement, one alert that gets old. The printed load and Redis do not change in this run: each of them with two managers takes longer than five minutes. With one manager, `Managers = {health}` and `Changing = {"load"}`, `Loads = {1, 2}`, or `Changing = {"load", "redis"}`, the same four properties hold on a few thousand states |

Fairness: weak fairness of each manager's snapshot task, which runs every fifteen minutes
and whose statements end. The machine, administrators and the clean-up owe nothing.
`EndedIsClosed` and `PersistingIsShown` are conditional on the machine staying so.

**Proved** (`SystemHealth_proofs.tla`): `HealthTyped` and `AlertsBounded`. The bound counts
open alerts together with the managers about to create one: a manager that found none
takes one of the places, and creation only moves it. `OneManagerOneAlert` is what follows
where the health container is the only manager: one open alert for each message
(`OneOpenAlert`; `MCHealth` has two managers, so no run states it).

Seen while modelling, and not given a run: the clean-up deletes open alerts with their
snapshot (`CASCADE`), although `utils.py:517` would keep unresolved ones, and the
ninety-day deletion after it finds nothing; a failed second check closes every other open
alert; a load alert whose printed number changes is closed while its condition holds
(another replaces it); the Redis and database branches of `should_resolve` compare a
string with a dict and never fire; counting failed tasks raises a `TypeError` that is
swallowed; `calculate_daily_uptime.py` uses fields its models do not have.

## 8. TransactionParser

One call of `parse_and_store_event`. The transaction is data: what happened (who traded
what with whom, at which price and royalty) and what the chain says of it (balances,
instructions, logs). Tier 1 reads instructions in turn, tier 2 logs, tier 3 transfers and
balances; whoever makes an event hands it to resolution, validation and storage. Lamports
are counted in base fees, so that the two thresholds of the code are met exactly. Which
transfer is first is a choice where the code iterates a set.

| State | Code |
|---|---|
| `tx` | the raw transaction (external) |
| `stage`, `next` | where `parse_and_store_event` and tier 1's loop are, then the outcome |
| `transfers`, `detected`, `event` | `tokenTransfers`, `detected_event_type`, the parsed event |
| `discovered` | rows of `UnknownDiscriminator` |

| Run | Question | Bounds and why they are enough |
|---|---|---|
| `MCParser` | is a sale recorded at its price; is a trade lost; was what is inferred paid for; is only the harmless learnt to ignore | 11,338 transactions: every instruction of every program alone at seven price and royalty pairs about the fee and both thresholds, with either party paying the fee; every ordered pair of instructions; logs that name or mislead, and words, with and without an unknown instruction; one, two and no moves, an escrow, an NFT of an untracked collection and one without a row |

Nothing here is concurrent; the run is the comparison of an algorithm with what it should
say over bounded inputs, and one call ends in at most a few steps.

**Proved** (`TransactionParser_proofs.tla`, for every set of transactions that are
well-formed): `InferredPaid`, `TradeKept`, `SaleAmount`, `IgnoredHarmless`, `ParserTyped`. `IInv` says of
each stage what is known there: transfers are the moves, the detected type comes from the
logs, an event of a trade about to be stored is valid; lemmas on each program's parser
bound the amount by `SaleRange`. The arithmetic of balances (`NativeChange`) is a lemma of its own, used by all
three price sources. `ParserTyped` shows of each program's parser and of each tier that what
it builds is an event; it rests on `IsTransaction`, that instructions are a list of
known programs' instructions and moves are between different accounts.

Seen while modelling, and not given a run; the properties name these as their exceptions
or the model has them in its steps: an administration instruction before a sale drops the
sale; of a transaction with several sales only the first is stored, its price with the
first transfer's mint in arbitrary order; a Tensor AMM sale is recorded at its cap and a
taken bid at its floor; pool deposits and withdrawals of tier 1 are stored though
`IGNORABLE_EVENTS` names them; burns, mints, transfers of Metaplex Core and listing edits
always end as failed transactions (the validation's list of types lacks them); the
branches for free transfers are unreachable; instructions of some AMM and MMM
discriminators are identified and have no parser; Tensor's prefixes keep `ADMIN_ACTIONS`
from matching; compressed NFTs' events with an empty mint are dropped as untracked; the
learner can name a cancellation a sale and a delisting a listing; what the first transaction with a
discriminator suggested is never corrected by a clearer one (`IgnoredMovedNothing` is about
the transaction it was learnt from); `transaction_filter.py:172` lists under "Tensor AMM"
the address that `nft_constants.py` calls Tensor's escrow, and `Value` follows the address.

## 9. Collections

How a collection becomes public: submission, validation on chain by a background task,
approval or rejection, retrieval page by page, storage, backfill. An action is one
statement or one answer of a provider. The web process keeps its tasks in memory and may
be restarted at any time (gunicorn does so by itself). Administrators can set a
submission's status on Django's change page (`Admin_SetStatus`) and list, delist and delete
collections; the commit that inserts a row can fail after its signal has queued the
backfill (`LoseInsert`); a list can hold no usable NFT, and then the approval goes on with
no page stored. Left out: Django's add page, whose rows have no address until somebody
types one, and an insertion between the form's check for an existing collection and the
save, which leaves the state of one after the save.

| State | Code |
|---|---|
| `sub` | `PendingCollection`: address and status, `approved` and `deleted` for a row that is gone |
| `task` | `validate_collection_onchain` of each submission, queued or at one of its saves |
| `col`, `nfts`, `skipped` | `NFTCollection` rows (none, listed, delisted), pages stored, pages left out by an error that was only logged |
| `backfills`, `deletions` | history: backfills queued for an address, deletions of its row |
| `req` | what a request has read and has still to write |
| `faults` | failed statements, restarts, columns an administrator set by hand and collections an administrator deleted, together bounded by `MaxFaults` |
| `orphans`, `lost`, `handSet` | history: backfills queued by an insertion that then failed, submissions whose validation nobody will end any more, submissions whose status was set by hand |

| Run | Question | Bounds and why they are enough |
|---|---|---|
| `MCCollections` | is only public what a provider knows; one backfill for each insertion; is an approved collection stored; does validation end | two submissions, two addresses, one of them no collection; two requests of any kind (two approvals, or an approval and a populate page, of one address race for its row); two pages, so that a list can be cut short and a batch can fail in the middle; one failing statement, restart, edit by hand or deletion by an administrator at a time (`MaxFaults = 1`: with two the run does not finish in five minutes; the theorems hold for any number and any combination) |

**Proved** (`Collections_proofs.tla`): all five properties. `Base` is the type with what
follows from a request's place; `Backfilled` says that an address without a row has at
most one backfill for each deletion and each failed insertion, one with a row has its own
besides, and a request that found a row to update found its backfill too; `Fetched` says
that what a request carries was on chain; `Tended` describes each submission's life, one
case for each way a step can touch it; `Kept` says that a request at page *n* has stored
the pages before it. Lemmas `Journeys` and `Life` reduce 21 actions to what one request
and one submission see.

The properties name what the code does not protect. A row stays in validation with no task
after a restart, after a second failed statement, when its status was set by hand, and
after one failed statement where that is the task's first read: the `except` clause of
`tasks.py:67` then reads `pending` before it is bound (line 72), and line 75 catches and
logs that too. `ValidatingHasTask` leaves out the submissions of which this is so
(`lost`, `handSet`) and is about every other one: a failure of the list of providers or of
the task's save is still answered by a saved status, and a submission whose task was never
queued has a request that will queue it. A status set by hand may also offer an address no
provider knows (`OnlyOnChain`); a commit that fails after the signal leaves a backfill
without a row (`BackfillOnce`); a deletion during an approval and errors of a batch, which
are only logged, are what `ApprovedIsStored` excludes.

Seen while modelling, and not given a run: a rejected address can never be submitted again
(`exclude(pk=None, status='rejected')` excludes nothing); the validator overwrites a
rejection, and an approval goes on after one; the lock of the approval's check is released
before the fetch; a row is public from its insertion because `is_listed` is true by default
(`services.py:105` says otherwise), and stays so when the fetch fails, which blocks every
later approval; a partial list of pages passes for the whole collection; the whole-row save
of a row that was found can undo a delisting or insert a deleted row again; the failover
repeats one validator. `approve` always reports a failure, because the notification it
ends with raises; the reject action of `nft_data/admin.py` and the list and delist pages
of `admin_panel` have no effect (a wrong argument, coroutines that are not awaited). In the
shipped deployment the web process runs no manager, so validation and backfill wait for
its restart page.

## 10. Providers

Administrators change rows of `PrimaryProviderSetting` through the API (three statements:
load, unset the other primaries, save, then publish) or through pages of Django's admin
(one transaction, published before it commits). Each process keeps the list and the
primary until a *reload* message. Coroutines look up a provider, or walk through the list
for ever in `subscribe_to_programs`.

| State | Code |
|---|---|
| `row` | the settings: active, primary |
| `admin` | the place of each request, the row it has read and the primaries it has unset |
| `inbox` | reload messages that wait for a process's listener |
| `cache` | `_rpc_providers_cache`, `_primary_provider_name_cache` |
| `client` | each coroutine: what it has read and has still to keep, what it has still to try |
| `missed`, `overtaken`, `raced` | history: a change nobody was told of, a cache kept after its invalidation, two saves of a primary that overlapped |

| Run | Question | Bounds and why they are enough |
|---|---|---|
| `MCProviders` | does a process that listens use what the database says; is one provider primary; does the subscription find a provider again | two providers, one of which always answers; one process, `run_background_service`, whose workers look providers up and whose live subscription runs beside `redis_config_listener` (lines 19-40, 53-54), so that all three share a manager; an administrator by API and one by page with two requests between them, enough for a change before, during and after a look-up and for two saves that overlap; one failing statement or message |

Fairness: weak fairness of each subscription's walk (its event loop goes on and what is
`Reachable` answers). No connection has to close, and nobody has to change a row.
`KeepsListening` is conditional on the list the subscription reads having such a provider,
and on there being no two primaries: then every look-up raises.

**Proved** (`Providers_proofs.tla`): `TypeCorrect`, `OnePrimaryProvider`, `CachesCurrent`.
`Base` adds what a request knows (rows that a page has locked exist, the locks of two
pages are apart). `Lone` strengthens `OnePrimary`: without overlapping saves, whoever has
unset the primaries is alone and every row that is still primary is one it saves.
`AllFresh` strengthens `CacheCurrent` by what coroutines have read and not yet kept,
because they will keep it after the messages are handled. `KeepsListening` is
model-checked only.

The exceptions in `OnePrimary` and `CacheCurrent` are what the code does: two overlapping
saves leave two primaries, `get()` then raises `MultipleObjectsReturned`, which nobody
catches, and the subscription starts again every thirty seconds (`models.py:302` says
"Ensure only one provider is primary"); a page's reload can be handled before its commit.

Seen while modelling, and not given a run: `indexer/signals.py` is never imported, so a
deletion announces nothing; `views.py:1334-1335` says "notify all services", but only a
process that runs `redis_config_listener` is told: of the commands of the repository that
is `run_background_service`, which `CacheCurrent` and its theorem are about, while the
shipped compose files start `run_live_indexer` and web workers, which keep their first
list until a restart, and `listen_for_config_updates`, which reloads a manager that
nobody uses; a worker's thread that a reload overtakes between the test and the return of
a kept value gets `None`, and its look-up fails; a reload reaches the
subscription at its next walk only; an empty list is kept for ever; Magic Eden and Tensor
are in the same list, and `get_rpc_provider` may return them; the confirmation of a
subscription may swallow a notification; a transaction that cannot be fetched is lost
after the retries, with a log entry; `provider_status_api` does not await its look-up and
always says "online".

## 11. Only model-checked

The prover handles neither ENABLED nor fairness, so liveness stays with TLC:
`DueIsAttempted`, `LiveIsSettled`, `RetriesSucceed`, `HighestIsExecuted`, `WorkersEnd`,
`EndedIsClosed`, `PersistingIsShown`, `KeepsListening`. Symmetry is not used where liveness
is checked. Every invariant and every safety action property that a passing run checks is
also a theorem. The theorems about `UnopenedUnbid`, `FirstAttempts`, `StoppedIsQuiet`,
`NothingDropped`, `OwnerHasHeld`, `RunsWhenDue` and `OneOpenAlert` state properties that no
run lists; they are consequences, or strengthenings, of what the runs check.

Deadlock is checked in `MCHealth`, whose managers never stop. The other systems may really
stop, when the requests, failures or changes that a bound admits are used up.

## 12. Not modelled

- The chain and the providers' answers, which the code sees as calls that return, raise or
  time out; they are nondeterministic wherever they are called.
- Provider quota: counters in the cache that are read, compared and incremented in three
  steps, so counts are lost; only the tier ACTIVE is ever asked for, the window lives 1,800
  seconds, cache errors read as zero, and retries pass the limiter by. All that a model of
  it can promise is that it undercounts.
- Perception: a snapshot and a cache of five minutes; a reader that began before an
  invalidation can keep an old value for that long, and nothing else happens.
- Accounts and wallets: custody of keys and authentication, where what can go wrong is a
  matter of cryptography and access rather than of order; quests follow them (the quest
  check of the market refuses every caller today).
- Scores, bid validation, analytics: aggregate SQL and arithmetic on its results. Every
  calculation of a collection raises today (`vitality_service.py:663` applies
  `sync_to_async` to a query set); `VitalityTasks` lets it end either way.
- Bid privacy: builds Anchor instructions; the handlers see that it succeeds or raises.
- In the market, wallet signature checks and `place_private_bid`, which refuses every call.
- In the parser, byte layouts, look-ups of cached accounts, and input in Helius's own
  shape, which is passed on as it is.
- In the retrieval, what an NFT's metadata says; `backup retrieval.py` is an old copy
  that nothing imports.
- Read-only pages, content apps, notifications, site and front end: rows behind forms.
