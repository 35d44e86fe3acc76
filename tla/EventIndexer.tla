---------------------------- MODULE EventIndexer ----------------------------
(***************************************************************************)
(* How transactions become NFTEvent rows: IndexerService of                *)
(* indexer/services/main.py, TransactionParserService of parser.py and     *)
(* WebhookService of webhook_service.py, over one history of transactions. *)
(*                                                                         *)
(* Four sources hand transactions to the same parser: the live             *)
(* subscription with its batch processor, the webhook, the backfill of a   *)
(* collection's history, and the periodic retry of failed transactions.    *)
(* They run in different processes and share nothing but the database and  *)
(* the cache.  A parse is a coroutine; an action is what it does between   *)
(* two awaits, or a database call it awaits.                               *)
(*                                                                         *)
(* Slots bounds how many parses of a source are under way at a time: ten   *)
(* for the webhook and fifty for the backfill in the code, a batch's       *)
(* length for the live processor.  The backfill's barrier between batches  *)
(* of fifty is left out, which only adds interleavings.                    *)
(***************************************************************************)
EXTENDS Integers, Sequences

CONSTANTS
  Mints,       \* mint addresses of tracked collections
  Wallets,     \* wallet addresses
  Kinds,       \* of transactions, by what the parser's tiers make of them
  Slots,       \* pairs of a source and a number
  RetryLimit,  \* rows a retry run takes (50 in the code)
  MaxTx,       \* bound of the history
  MaxPending,  \* bound of the live queue, which has none
  MaxErrors,   \* database errors that may occur
  MaxCrashes,  \* process crashes that may occur
  Minter,      \* the owner of an NFT no transaction has moved
  None         \* no row

Sources == {"live", "webhook", "backfill", "retry"}

\* Kinds: "SALE" stands for sales and transfers with a buyer, "BURN" for
\* what _validate_parsed_event refuses (burns, mints, sales to oneself),
\* "NONE" for what no tier makes an event of (an administrative action or
\* nothing known), anything else for events that move no owner.
ASSUME IndexerConstants ==
  /\ Slots \subseteq Sources \X Nat
  /\ RetryLimit \in Nat \ {0}
  /\ MaxTx \in Nat /\ MaxPending \in Nat
  /\ MaxErrors \in Nat /\ MaxCrashes \in Nat
  /\ Minter \in Wallets /\ None \notin Wallets

VARIABLES
  chain,     \* the transactions, oldest first
  owner,     \* NFT.owner, None without a row
  cache,     \* the entry collection:mint:<mint>
  stored,    \* transactions with an NFTEvent row
  failed,    \* transactions with a FailedTransaction row, by created_at
  pending,   \* pending_events
  live,      \* what _batch_processor does
  batch,     \* events_to_process it has not begun to parse
  page,      \* the next transaction of the backfill, 0 when there is none
  retrying,  \* rows a retry run has not begun to parse
  parse,     \* the parses under way
  errors, crashes

dbVars == <<owner, stored, failed>>
liveVars == <<pending, live, batch>>
bounds == <<errors, crashes>>
vars == <<chain, cache, dbVars, liveVars, page, retrying, parse, bounds>>

Tx == [mint : Mints, kind : Kinds, buyer : Wallets]

Steps == {"idle", "filter", "resolve", "helius", "store", "fail",
          "ownerRead", "ownerWrite", "delete"}

Idle == [step |-> "idle", tx |-> 0]

TypeOK ==
  /\ chain \in Seq(Tx)
  /\ owner \in [Mints -> Wallets \cup {None}]
  /\ cache \in [Mints -> {"none", "collection", "NOT_FOUND"}]
  /\ stored \subseteq DOMAIN chain
  /\ failed \in Seq(DOMAIN chain)
  /\ pending \in Seq(DOMAIN chain)
  /\ live \in {"waiting", "resolving", "gathering"}
  /\ batch \in Seq(DOMAIN chain)
  /\ page \in DOMAIN chain \cup {0}
  /\ retrying \in Seq(DOMAIN chain)
  /\ parse \in [Slots -> [step : Steps, tx : DOMAIN chain \cup {0}]]
  /\ errors \in 0 .. MaxErrors /\ crashes \in 0 .. MaxCrashes

Init ==
  /\ chain = <<>> /\ stored = {} /\ failed = <<>>
  /\ owner = [m \in Mints |-> None]
  /\ cache = [m \in Mints |-> "none"]
  /\ pending = <<>> /\ live = "waiting" /\ batch = <<>>
  /\ page = 0 /\ retrying = <<>>
  /\ parse = [p \in Slots |-> Idle]
  /\ errors = 0 /\ crashes = 0

SlotsOf(s) == {p \in Slots : p[1] = s}

Busy(s) == \E p \in SlotsOf(s) : parse[p].step # "idle"

FailedTxs == {failed[i] : i \in DOMAIN failed}

\* The rows without that of i: event_id is the primary key.
WithoutRow(i) ==
  IF i \in FailedTxs
  THEN LET k == CHOOSE j \in DOMAIN failed : failed[j] = i
       IN SubSeq(failed, 1, k - 1) \o SubSeq(failed, k + 1, Len(failed))
  ELSE failed

mint(i) == chain[i].mint

----------------------------------------------------------------------------
(* The world: transactions, and the rows of the NFTs                       *)

Transact ==
  /\ Len(chain) < MaxTx
  /\ \E t \in Tx : chain' = Append(chain, t)
  /\ UNCHANGED <<cache, dbVars, liveVars, page, retrying, parse, bounds>>

\* Who owns m by the chain: the buyer of its last sale.
Moves(m) == {i \in DOMAIN chain : mint(i) = m /\ chain[i].kind = "SALE"}

LastMove(m) == {i \in Moves(m) : \A j \in Moves(m) : j <= i}

CurrentOwner(m) ==
  IF LastMove(m) = {} THEN Minter
  ELSE chain[CHOOSE i \in LastMove(m) : TRUE].buyer

\* A retrieval of the collection stores the row with the provider's owner.
Retrieve(m) ==
  /\ owner' = [owner EXCEPT ![m] = CurrentOwner(m)]
  /\ UNCHANGED <<chain, cache, stored, failed, liveVars, page, retrying,
                 parse, bounds>>

\* The entry's time to live is over.
Expire(m) ==
  /\ cache[m] # "none"
  /\ cache' = [cache EXCEPT ![m] = "none"]
  /\ UNCHANGED <<chain, dbVars, liveVars, page, retrying, parse, bounds>>

----------------------------------------------------------------------------
(* The sources                                                             *)

Begin(p, i) ==
  /\ parse[p].step = "idle"
  /\ parse' = [parse EXCEPT ![p] = [step |-> "filter", tx |-> i]]

\* optimized_callback: the same transaction may arrive again, through the
\* subscription to another program.
Live_Receive(i) ==
  /\ Len(pending) < MaxPending
  /\ pending' = Append(pending, i)
  /\ UNCHANGED <<chain, cache, dbVars, live, batch, page, retrying, parse,
                 bounds>>

\* The window is over: the whole queue is taken out of memory.
Live_Take ==
  /\ live = "waiting" /\ pending # <<>>
  /\ live' = "resolving"
  /\ batch' = pending /\ pending' = <<>>
  /\ UNCHANGED <<chain, cache, dbVars, page, retrying, parse, bounds>>

\* _batch_resolve_collections: mints with a row and without an entry.  Its
\* look-ups and writes are one step: a row that was found does not go.
Live_Resolve ==
  /\ live = "resolving"
  /\ live' = "gathering"
  /\ cache' = [m \in Mints |->
       IF /\ \E k \in DOMAIN batch : mint(batch[k]) = m
          /\ cache[m] = "none" /\ owner[m] # None
       THEN "collection" ELSE cache[m]]
  /\ UNCHANGED <<chain, dbVars, pending, batch, page, retrying, parse,
                 bounds>>

Live_Parse(p) ==
  /\ live = "gathering" /\ batch # <<>>
  /\ Begin(p, Head(batch))
  /\ batch' = Tail(batch)
  /\ UNCHANGED <<chain, cache, dbVars, pending, live, page, retrying, bounds>>

Live_Done ==
  /\ live = "gathering" /\ batch = <<>> /\ ~Busy("live")
  /\ live' = "waiting"
  /\ UNCHANGED <<chain, cache, dbVars, pending, batch, page, retrying, parse,
                 bounds>>

\* _process_single_event, after _event_already_exists.
Webhook_Parse(p, i) ==
  /\ i \notin stored
  /\ Begin(p, i)
  /\ UNCHANGED <<chain, cache, dbVars, liveVars, page, retrying, bounds>>

\* Mutant: one past the newest.
Backfill_Start_PastEnd ==
  /\ page = 0 /\ ~Busy("backfill") /\ chain # <<>>
  /\ page' = Len(chain) + 1
  /\ UNCHANGED <<chain, cache, dbVars, liveVars, retrying, parse, bounds>>

\* process_onchain_events_optimized: signatures come newest first.
Backfill_Start ==
  /\ page = 0 /\ ~Busy("backfill") /\ chain # <<>>
  /\ page' = Len(chain)
  /\ UNCHANGED <<chain, cache, dbVars, liveVars, retrying, parse, bounds>>

Backfill_Parse(p) ==
  /\ page > 0
  /\ Begin(p, page)
  /\ page' = page - 1
  /\ UNCHANGED <<chain, cache, dbVars, liveVars, retrying, bounds>>

\* get_transactions has nothing for a signature.
Backfill_Missing ==
  /\ page > 0 /\ errors < MaxErrors
  /\ page' = page - 1
  /\ errors' = errors + 1
  /\ UNCHANGED <<chain, cache, dbVars, liveVars, retrying, parse, crashes>>

\* Mutant: the rows of the newest failures.
Retry_Load_Newest ==
  /\ retrying = <<>> /\ ~Busy("retry") /\ failed # <<>>
  /\ retrying' = IF Len(failed) <= RetryLimit THEN failed
                 ELSE SubSeq(failed, Len(failed) - RetryLimit + 1, Len(failed))
  /\ UNCHANGED <<chain, cache, dbVars, liveVars, page, parse, bounds>>

\* retry_failed_transactions_optimized: the oldest rows, up to the limit.
Retry_Load ==
  /\ retrying = <<>> /\ ~Busy("retry") /\ failed # <<>>
  /\ retrying' = IF Len(failed) <= RetryLimit THEN failed
                 ELSE SubSeq(failed, 1, RetryLimit)
  /\ UNCHANGED <<chain, cache, dbVars, liveVars, page, parse, bounds>>

Retry_Parse(p) ==
  /\ retrying # <<>>
  /\ Begin(p, Head(retrying))
  /\ retrying' = Tail(retrying)
  /\ UNCHANGED <<chain, cache, dbVars, liveVars, page, bounds>>

Start(p) ==
  \/ p[1] = "live" /\ Live_Parse(p)
  \/ p[1] = "webhook" /\ \E i \in DOMAIN chain : Webhook_Parse(p, i)
  \/ p[1] = "backfill" /\ Backfill_Parse(p)
  \/ p[1] = "retry" /\ Retry_Parse(p)

----------------------------------------------------------------------------
(* parse_and_store_event                                                   *)

At(p, s) == parse[p].step = s

GoTo(p, s) == parse' = [parse EXCEPT ![p] = [@ EXCEPT !.step = s]]

\* Mutant: the row goes whatever the retry has returned.
Skip_DeletesRow(p) ==
  IF p[1] = "retry" THEN GoTo(p, "delete")
  ELSE parse' = [parse EXCEPT ![p] = Idle]

\* The parser returns None.  A row that is retried stays (its retry_count
\* is counted and read by nobody).
Skip(p) == parse' = [parse EXCEPT ![p] = Idle]

\* The parser returns the event: the retry goes on to delete its row.
Succeed(p) == IF p[1] = "retry" THEN GoTo(p, "delete") ELSE Skip(p)

\* The tiers make an event of the transaction.
Recognised(i) == chain[i].kind # "NONE"

\* _has_tracked_collection: a row of the NFT, or the collection's address
\* among the transaction's accounts; then the tiers.
Parse_Filter(p) ==
  LET i == parse[p].tx
  IN /\ At(p, "filter")
     /\ \/ Recognised(i) /\ GoTo(p, "resolve")
        \/ (owner[mint(i)] = None \/ ~Recognised(i)) /\ Skip(p)
  /\ UNCHANGED <<chain, cache, dbVars, liveVars, page, retrying, bounds>>

\* _get_collection_for_mint: the cache, then the database, whose answer is
\* cached in the same step.
Parse_Resolve(p) ==
  LET m == mint(parse[p].tx)
  IN /\ At(p, "resolve")
     /\ \/ cache[m] = "NOT_FOUND" /\ Skip(p) /\ UNCHANGED cache
        \/ cache[m] = "collection" /\ GoTo(p, "store") /\ UNCHANGED cache
        \/ /\ cache[m] = "none" /\ owner[m] # None
           /\ GoTo(p, "store")
           /\ cache' = [cache EXCEPT ![m] = "collection"]
        \/ /\ cache[m] = "none" /\ owner[m] = None
           /\ GoTo(p, "helius") /\ UNCHANGED cache
     /\ UNCHANGED <<chain, dbVars, liveVars, page, retrying, bounds>>

\* The query for the row raises: on to the provider.
Parse_ResolveRaises(p) ==
  /\ At(p, "resolve") /\ cache[mint(parse[p].tx)] = "none"
  /\ errors < MaxErrors
  /\ errors' = errors + 1
  /\ GoTo(p, "helius")
  /\ UNCHANGED <<chain, cache, dbVars, liveVars, page, retrying, crashes>>

\* The provider's answer, whatever has been retrieved in the meantime: a
\* listed collection, one that is not, or none.
Parse_Helius(p) ==
  LET m == mint(parse[p].tx)
  IN /\ At(p, "helius")
     /\ \/ /\ cache' = [cache EXCEPT ![m] = "collection"]
           /\ GoTo(p, "store")
        \/ /\ cache' = [cache EXCEPT ![m] = "NOT_FOUND"]
           /\ Skip(p)
     /\ UNCHANGED <<chain, dbVars, liveVars, page, retrying, bounds>>

\* No row for the collection's address: it was resolved for an NFT without a
\* row and has been deleted since.  Deleting collections with NFTs is left out.
Parse_Untracked(p) ==
  /\ At(p, "store") /\ owner[mint(parse[p].tx)] = None
  /\ Skip(p)
  /\ UNCHANGED <<chain, cache, dbVars, liveVars, page, retrying, bounds>>

\* _validate_parsed_event.
Valid(i) == chain[i].kind # "BURN"

\* Mutant: what validation refuses is dropped.
Parse_Store_Drops(p) ==
  LET i == parse[p].tx
  IN /\ At(p, "store")
     /\ IF ~Valid(i)
        THEN Skip(p) /\ UNCHANGED stored
        ELSE /\ stored' = stored \cup {i}
             /\ IF chain[i].kind = "SALE"
                THEN GoTo(p, "ownerRead") ELSE Succeed(p)
     /\ UNCHANGED <<chain, cache, owner, failed, liveVars, page, retrying,
                    bounds>>

\* Validation, then update_or_create of the NFTEvent.
Parse_Store(p) ==
  LET i == parse[p].tx
  IN /\ At(p, "store")
     /\ IF ~Valid(i)
        THEN GoTo(p, "fail") /\ UNCHANGED stored
        ELSE /\ stored' = stored \cup {i}
             /\ IF chain[i].kind = "SALE"
                THEN GoTo(p, "ownerRead") ELSE Succeed(p)
     /\ UNCHANGED <<chain, cache, owner, failed, liveVars, page, retrying,
                    bounds>>

\* A query raises: the except clause saves the transaction.
Parse_Raise(p) ==
  /\ At(p, "store") /\ errors < MaxErrors
  /\ errors' = errors + 1
  /\ GoTo(p, "fail")
  /\ UNCHANGED <<chain, cache, dbVars, liveVars, page, retrying, crashes>>

\* _save_to_failed_transactions: an existing row keeps its created_at.
Parse_Fail(p) ==
  LET i == parse[p].tx
  IN /\ At(p, "fail")
     /\ failed' = IF i \in FailedTxs THEN failed ELSE Append(failed, i)
     /\ Skip(p)
     /\ UNCHANGED <<chain, cache, owner, stored, liveVars, page, retrying,
                    bounds>>

\* Saving the failure, or deleting a retried row, raises and is logged.
Parse_FailRaises(p) ==
  /\ parse[p].step \in {"fail", "delete"} /\ errors < MaxErrors
  /\ errors' = errors + 1
  /\ Skip(p)
  /\ UNCHANGED <<chain, cache, dbVars, liveVars, page, retrying, crashes>>

\* _update_nft_owner reads the row ...
Owner_Read(p) ==
  LET i == parse[p].tx
  IN /\ At(p, "ownerRead")
     /\ IF owner[mint(i)] \notin {None, chain[i].buyer}
        THEN GoTo(p, "ownerWrite") ELSE Succeed(p)
     /\ UNCHANGED <<chain, cache, dbVars, liveVars, page, retrying, bounds>>

\* ... and saves the buyer, whatever has been saved since.
Owner_Write(p) ==
  LET i == parse[p].tx
  IN /\ At(p, "ownerWrite")
     /\ owner' = [owner EXCEPT ![mint(i)] = chain[i].buyer]
     /\ Succeed(p)
     /\ UNCHANGED <<chain, cache, stored, failed, liveVars, page, retrying,
                    bounds>>

\* An error in either is logged and the event counts as stored.
Owner_Raise(p) ==
  /\ parse[p].step \in {"ownerRead", "ownerWrite"} /\ errors < MaxErrors
  /\ errors' = errors + 1
  /\ Succeed(p)
  /\ UNCHANGED <<chain, cache, dbVars, liveVars, page, retrying, crashes>>

\* _retry_single_transaction deletes the row.
Retry_Delete(p) ==
  /\ At(p, "delete")
  /\ failed' = WithoutRow(parse[p].tx)
  /\ Skip(p)
  /\ UNCHANGED <<chain, cache, owner, stored, liveVars, page, retrying, bounds>>

Parse(p) ==
  \/ Parse_Filter(p) \/ Parse_Resolve(p) \/ Parse_Helius(p)
  \/ Parse_Untracked(p) \/ Parse_Store(p) \/ Parse_Fail(p)
  \/ Owner_Read(p) \/ Owner_Write(p)
  \/ Retry_Delete(p)

ParseError(p) ==
  \/ Parse_ResolveRaises(p) \/ Parse_Raise(p)
  \/ Parse_FailRaises(p) \/ Owner_Raise(p)

----------------------------------------------------------------------------
\* A process dies with all that it has in memory, and is started again.
Crash(s) ==
  /\ crashes < MaxCrashes
  /\ crashes' = crashes + 1
  /\ parse' = [p \in Slots |-> IF p[1] = s THEN Idle ELSE parse[p]]
  /\ IF s = "live"
     THEN pending' = <<>> /\ batch' = <<>> /\ live' = "waiting"
     ELSE UNCHANGED liveVars
  /\ page' = IF s = "backfill" THEN 0 ELSE page
  /\ retrying' = IF s = "retry" THEN <<>> ELSE retrying
  /\ UNCHANGED <<chain, cache, dbVars, errors>>

Next ==
  \/ Transact
  \/ \E m \in Mints : Retrieve(m) \/ Expire(m)
  \/ \E i \in DOMAIN chain : Live_Receive(i)
  \/ Live_Take \/ Live_Resolve \/ Live_Done
  \/ Backfill_Start \/ Backfill_Missing
  \/ Retry_Load
  \/ \E p \in Slots : Start(p) \/ Parse(p) \/ ParseError(p)
  \/ \E s \in Sources : Crash(s)

Spec == Init /\ [][Next]_vars

\* The batch processor and the retry task are periodic, every parse that
\* has begun goes on, and cache entries expire.  Nothing is assumed of the
\* webhook, the backfill, retrievals or the chain.
Fairness ==
  /\ WF_vars(Live_Take) /\ WF_vars(Live_Resolve) /\ WF_vars(Live_Done)
  /\ WF_vars(Retry_Load)
  /\ \A p \in Slots : WF_vars(Parse(p))
  /\ \A p \in SlotsOf("live") \cup SlotsOf("retry") : WF_vars(Start(p))
  /\ \A m \in Mints : WF_vars(Expire(m))

FairSpec == Spec /\ Fairness

----------------------------------------------------------------------------
(* Properties                                                              *)

\* What a parse still knows of its transaction when it goes on after an
\* await: it is in the history; its owner update and the deletion of its
\* failed row come after its event is stored; an NFT row it found stays.
Knows(p) ==
  LET i == parse[p].tx
  IN /\ parse[p].step # "idle" => i \in DOMAIN chain
     /\ parse[p].step \in {"ownerRead", "ownerWrite", "delete"} => i \in stored
     /\ parse[p].step \in {"ownerRead", "ownerWrite"} => chain[i].kind = "SALE"
     /\ parse[p].step = "ownerWrite" => owner[mint(i)] # None

ParseOK == \A p \in Slots : Knows(p)

\* One row for each failed transaction.
FailedUnique ==
  \A j, k \in DOMAIN failed : failed[j] = failed[k] => j = k

IndexerInv == TypeOK /\ ParseOK /\ FailedUnique

\* Readers of the tables see an EventLog: rows of failed transactions go
\* only when the event is stored, and no owner comes from an event that is
\* not stored, through any crash and interleaving of the four sources.
Log == INSTANCE EventLog WITH failed <- FailedTxs

ImplementsEventLog == Log!Spec

\* The owner of an NFT has held it: he is its first owner or the buyer of a sale of
\* this very NFT, in whatever order four sources applied the sales they found.
OwnerHasHeld ==
  \A m \in Mints : owner[m] \in {None, Minter} \cup {chain[i].buyer : i \in Moves(m)}

\* What a source has in memory: its parses under way, and what waits for one.
Parsing(s) == {parse[p].tx : p \in {q \in SlotsOf(s) : parse[q].step # "idle"}}

Waiting(s) ==
  CASE s = "live" ->
         {pending[k] : k \in DOMAIN pending} \cup {batch[k] : k \in DOMAIN batch}
    [] s = "backfill" -> 1 .. page
    [] s = "retry" -> {retrying[k] : k \in DOMAIN retrying}
    [] s = "webhook" -> {}

InMemory(s) == Parsing(s) \cup Waiting(s)

\* What leaves the memory of a source is in a table then, unless it is no event, its
\* NFT has no row, the lookup cache says NOT_FOUND of it, or the step is an error or a
\* crash.
LeavesSettled ==
  \A s \in Sources : \A i \in InMemory(s) \ InMemory(s)' :
    \/ i \in stored' \cup FailedTxs'
    \/ ~Recognised(i) \/ owner[mint(i)] = None \/ cache'[mint(i)] = "NOT_FOUND"
    \/ errors' # errors \/ crashes' # crashes

\* No source drops a transaction on its way through queue, batch, page and parse,
\* whatever the other sources store, fail or delete meanwhile.
NothingDropped == [][LeavesSettled]_vars

\* An event of a known NFT that the live queue holds is stored or kept for a
\* retry, unless the process dies, saving fails, or the lookup cache says
\* NOT_FOUND of the NFT.
LiveReceived(i) ==
  \E k \in DOMAIN pending :
    pending[k] = i /\ Recognised(i) /\ owner[mint(i)] # None

LiveIsSettled ==
  \A i \in 1 .. MaxTx :
    LiveReceived(i) ~> \/ i \in stored \cup FailedTxs
                       \/ i \in DOMAIN chain /\ cache[mint(i)] = "NOT_FOUND"
                       \/ crashes > 0 \/ errors > 0

\* A valid event of a known NFT among the oldest failed rows is stored and
\* its row deleted, whatever fails on the way.
Retriable(i) ==
  \E k \in DOMAIN failed : /\ failed[k] = i /\ k <= RetryLimit
                           /\ Valid(i)
                           /\ owner[mint(i)] # None

RetriesSucceed ==
  \A i \in 1 .. MaxTx : Retriable(i) ~> i \in stored \ FailedTxs
=============================================================================
