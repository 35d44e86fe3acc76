--------------------------- MODULE TransactionParser ---------------------------
(***************************************************************************)
(* One call of TransactionParserService.parse_and_store_event                *)
(* (src/indexer/services/parser.py): a transaction of the Solana chain is     *)
(* normalised, read instruction by instruction (tier 1), then by its logs     *)
(* (tier 2), then by what it moved (tier 3); what comes out is resolved to a  *)
(* collection, validated and stored.  TransactionFilter and                   *)
(* DiscriminatorLearner take part in it.                                     *)
(*                                                                         *)
(* A transaction is what happened on the chain: wallets traded, and the       *)
(* balances, the instructions and the logs say so, each in its own way.       *)
(* Lamports are counted in base fees (5000 lamports), so that the fee and the *)
(* two thresholds of the code can both be met exactly.                        *)
(*                                                                         *)
(* The instructions of a program are named after the function that parses     *)
(* them; the many discriminators of one function are one name.               *)
(***************************************************************************)
EXTENDS Integers, Sequences, FiniteSets

CONSTANTS
  Wallets,       \* traders, escrows and pools
  Creator,       \* the wallet that receives royalties
  NFTs,          \* mints of supply one
  Coin,          \* a mint with decimals
  InDatabase,    \* the NFTs with a row and a collection
  TrackedNFTs,   \* the NFTs whose collection has a row
  Transactions,  \* the transactions that may arrive
  None

Fee == 1         \* 5000 lamports
Dust == 1000     \* 5_000_000 lamports
Payment == 2000  \* 10_000_000 lamports

Programs == {"magic_eden_v2", "magic_eden_mmm", "tensor_cnft_marketplace", "tensor_amm",
             "tensor_escrow", "mpl_core", "token_metadata", "system", "other"}
LogTypes == {"SKIP", "SALE", "LISTING", "CANCEL_LISTING", "BID", "BID_CANCELLED",
             "POOL_WITHDRAW", "POOL_DEPOSIT"}
\* The words of a log, by which a log without a type is told; "delist" has "list" in it.
Words == {"withdraw", "deposit", "sell", "list", "delist", "bid", "cancel", "update", "create",
          "escrow"}

\* What an instruction of a program is about: its accounts and its arguments.
IsInstruction(ix) ==
  /\ ix.program \in Programs
  /\ {ix.buyer, ix.seller} \subseteq Wallets /\ ix.mint \in NFTs /\ ix.price \in Nat

\* A token that changes owner: the net change of a mint.
Move == [mint : NFTs \cup {Coin}, from : Wallets, to : Wallets, amount : {1, 2}]

IsTransaction(t) ==
  /\ t.instructions \in Seq({t.instructions[i] : i \in DOMAIN t.instructions})
  /\ \A i \in DOMAIN t.instructions : IsInstruction(t.instructions[i])
  /\ t.logs \subseteq LogTypes /\ t.words \subseteq Words
  /\ t.moves \subseteq Move
  /\ \A mv \in t.moves : (mv.mint \in NFTs => mv.amount = 1) /\ mv.from # mv.to
  /\ \A mv, other \in t.moves : mv.mint = other.mint => mv = other
  /\ {t.buyer, t.seller, t.payer} \subseteq Wallets
  /\ t.price \in Nat /\ t.royalty \in 0..t.price

ASSUME ParserConstants ==
  /\ IsFiniteSet(Wallets) /\ IsFiniteSet(NFTs)
  /\ Creator \notin Wallets /\ Coin \notin NFTs
  /\ InDatabase \subseteq TrackedNFTs /\ TrackedNFTs \subseteq NFTs
  /\ \A t \in Transactions : IsTransaction(t) /\ IsFiniteSet(t.moves)
  /\ None \notin Nat /\ None \notin NFTs \cup {Coin}
  /\ None \notin Wallets \cup {Creator} /\ None \notin Move

VARIABLES
  tx,            \* the transaction
  stage,         \* where the call is, then its outcome
  next,          \* the instruction that tier 1 reads next
  transfers,     \* tokenTransfers of the normalised transaction
  detected,      \* detected_event_type, by tier 2
  event,         \* the parsed event, None before
  discovered     \* rows of UnknownDiscriminator: program -> inferred action

vars == <<tx, stage, next, transfers, detected, event, discovered>>

Outcomes == {"skipped", "nothing", "untracked", "failed", "stored"}

Init ==
  /\ tx \in Transactions
  /\ stage = "normalize" /\ next = 1 /\ transfers = <<>>
  /\ detected = "UNKNOWN" /\ event = None
  /\ discovered = [p \in Programs |-> None]

-----------------------------------------------------------------------------
(* The chain: what the transaction did to the balances *)

\* The change of a wallet's balance, fee included.
BalanceChange(w) ==
  (IF w = tx.seller THEN tx.price - tx.royalty ELSE 0)
    - (IF w = tx.buyer THEN tx.price ELSE 0)
    + (IF w = Creator THEN tx.royalty ELSE 0)
    - (IF w = tx.payer THEN Fee ELSE 0)

-----------------------------------------------------------------------------
(* normalize_transaction_data *)

\* nativeTransfers: the fee is taken out of the first account's change, unless
\* that change is zero.
\* Mutant: the fee stays in.
NativeChange_Fee(w) == BalanceChange(w)

NativeChange(w) ==
  IF w = tx.payer /\ BalanceChange(w) # 0 THEN BalanceChange(w) + Fee ELSE BalanceChange(w)

Accounts == Wallets \cup {Creator}
Natives == {w \in Accounts : NativeChange(w) # 0}
Credits(who) == {NativeChange(w) : w \in {v \in who : NativeChange(v) > 0}}
Debits(who) == {-NativeChange(w) : w \in {v \in who : NativeChange(v) < 0}}
AllAmounts == Credits(Accounts) \cup Debits(Accounts)
Largest(amounts) ==
  IF amounts = {} THEN 0 ELSE CHOOSE n \in amounts : \A m \in amounts : n >= m

IsNFT(mv) == mv.mint # Coin /\ mv.amount = 1

\* The transfers come out of a set of (mint, owner) pairs: in any order.
Normalize ==
  /\ stage = "normalize"
  /\ \E order \in [1..Cardinality(tx.moves) -> tx.moves] :
       /\ {order[i] : i \in DOMAIN order} = tx.moves
       /\ transfers' = order
  /\ stage' = "tier1"
  /\ UNCHANGED <<tx, next, detected, event, discovered>>

\* next(t for t in tokenTransfers if ...)
First(wanted) ==
  LET found == {i \in DOMAIN transfers : transfers[i] \in wanted} IN
  IF found = {} THEN None
  ELSE transfers[CHOOSE i \in found : \A j \in found : i <= j]

NftMoves == {mv \in tx.moves : IsNFT(mv)}
NftTransfer == First(NftMoves)

-----------------------------------------------------------------------------
(* What the sub-parsers build.  Each yields the events that it may return,    *)
(* none for None: a look-up of the collection may succeed, fail or mislead.   *)

\* The collection an event names: of a row, of none, or "" when it is unknown.
CollectionOf(mint) == IF mint \in TrackedNFTs THEN "tracked" ELSE "other"

\* _lookup_collection_in_db, then _fetch_collection_from_metadata, which reads
\* at guessed offsets and needs a provider.
Lookup(mint) ==
  IF mint \in InDatabase THEN {"tracked"} ELSE {CollectionOf(mint), "other", ""}

Event(type, mint, amount, buyer, seller, collection) ==
  [type |-> type, mint |-> mint, amount |-> amount, buyer |-> buyer, seller |-> seller,
   collection |-> collection, tier |-> 1, confidence |-> 95]

\* The parties of the NFT's transfer, the price of somewhere else.
SaleOfTransfer(amount) ==
  {Event("SALE", mv.mint, amount, mv.to, mv.from, "") : mv \in {NftTransfer} \ {None}}
SaleOfAccounts(ix, mint, amount) == {Event("SALE", mint, amount, ix.buyer, ix.seller, "")}
MintOfTransfer == IF NftTransfer = None THEN None ELSE NftTransfer.mint
CreditOf(w) == Largest(Credits({w}))

\* Magic Eden v2.  The price of a sale is an argument; a Core sale, which moves
\* no token, takes the largest amount that moved.
ListingV2(ix) ==
  {Event("LISTING", ix.mint, ix.price, None, ix.seller, c) : c \in Lookup(ix.mint)}
CancelV2(ix) ==
  CASE ix.action = "cancel_sell" ->
         {Event("CANCEL_LISTING", IF NftTransfer = None THEN ix.mint ELSE MintOfTransfer, 0,
                None, ix.seller, "")}
    [] ix.action = "mip1_cancel_sell" ->
         {Event("CANCEL_LISTING", MintOfTransfer, 0, None,
                IF NftTransfer = None THEN ix.seller ELSE NftTransfer.to, "")}
    [] OTHER -> {Event("CANCEL_LISTING", ix.mint, 0, None, ix.seller, "")}
MagicEdenV2(ix) ==
  CASE ix.action = "sale" -> SaleOfTransfer(ix.price)
    [] ix.action = "core_sale" -> SaleOfAccounts(ix, ix.mint, Largest(AllAmounts))
    [] ix.action = "listing" -> ListingV2(ix)
    [] ix.action \in {"cancel_sell", "mip1_cancel_sell", "core_cancel_sell"} -> CancelV2(ix)
    [] ix.action = "deposit" -> {Event("POOL_DEPOSIT", None, ix.price, ix.buyer, None, "")}
    [] ix.action = "withdraw" -> {Event("POOL_WITHDRAW", None, ix.price, ix.buyer, None, "")}
    [] OTHER -> {}

\* Magic Eden MMM: the price of a sale is the largest credit.
PoolNft(ix, type) ==
  {Event(type, mv.mint, 1, None, ix.seller, "") : mv \in {NftTransfer} \ {None}}
PoolSol(ix, type) == {Event(type, None, ix.price, ix.buyer, None, "")}
MagicEdenMMM(ix) ==
  CASE ix.action = "sale" -> SaleOfTransfer(Largest(Credits(Accounts)))
    [] ix.action = "cnft_sale" -> SaleOfAccounts(ix, ix.mint, Largest(AllAmounts))
    [] ix.action = "deposit_sell" -> PoolNft(ix, "POOL_DEPOSIT")
    [] ix.action = "withdraw_sell" -> PoolNft(ix, "POOL_WITHDRAW")
    [] ix.action = "sol_deposit_buy" -> PoolSol(ix, "POOL_DEPOSIT")
    [] ix.action = "sol_withdraw_buy" -> PoolSol(ix, "POOL_WITHDRAW")
    [] OTHER -> {}

\* A Tensor bid is on a collection (a whitelist account) or on an NFT (its token
\* account); an account that cannot be fetched leaves both out.
TensorBid(ix) ==
  {Event("BID", None, ix.price, ix.buyer, None, c) : c \in {CollectionOf(ix.mint), "other", ""}}
    \cup {Event("BID", ix.mint, ix.price, ix.buyer, None, c) : c \in Lookup(ix.mint)}

\* The list state names the NFT; when it cannot be read the event has no mint.
TensorEdit(ix) ==
  {Event("LISTING_EDIT", None, ix.price, None, ix.seller, "")}
    \cup {Event("LISTING_EDIT", ix.mint, ix.price, None, ix.seller, c) : c \in Lookup(ix.mint)}

\* Tensor's marketplace of compressed NFTs, whose events have no mint, and of Core
\* assets.  A taken bid is recorded at its min_amount.
TensorList(ix, type, amount) ==
  {Event(type, IF ix.action \in {"list_core", "delist_core"} THEN ix.mint ELSE None, amount,
         None, ix.seller, "")}
TensorTakeBid(ix) ==
  IF ix.action = "take_bid" THEN
    IF NftTransfer = None THEN {} ELSE SaleOfAccounts(ix, MintOfTransfer, ix.price)
  ELSE LET credit == Largest(Credits(Accounts)) IN
       SaleOfAccounts(ix, None, IF 0 < ix.price /\ ix.price < credit THEN ix.price ELSE credit)
TensorCancelBid(ix) == {Event("BID_CANCELLED", None, 0, ix.buyer, None, "")}
TensorCnft(ix) ==
  CASE ix.action = "buy" -> SaleOfAccounts(ix, None, CreditOf(ix.seller))
    [] ix.action = "buy_core" -> SaleOfAccounts(ix, ix.mint, CreditOf(ix.seller))
    [] ix.action \in {"list", "list_core"} -> TensorList(ix, "LISTING", ix.price)
    [] ix.action \in {"delist", "delist_core"} -> TensorList(ix, "CANCEL_LISTING", 0)
    [] ix.action = "bid" -> TensorBid(ix)
    [] ix.action = "cancel_bid" -> TensorCancelBid(ix)
    [] ix.action \in {"take_bid", "take_bid_meta_hash"} -> TensorTakeBid(ix)
    [] ix.action = "edit" -> TensorEdit(ix)
    [] OTHER -> {}

\* The price of a Tensor AMM sale is the argument max_amount.
TensorAmm(ix) == IF ix.action = "sale" THEN SaleOfTransfer(ix.price) ELSE {}

\* Metaplex Core: the collection is an account.  The price of a mint is the first
\* native transfer, whoever it belongs to.
MplCoreMint(ix) ==
  {Event("MINT", ix.mint, amount, ix.buyer, None, CollectionOf(ix.mint)) :
     amount \in IF Natives = {} THEN {None} ELSE AllAmounts}
MplCoreBurn(ix) == {Event("BURN", ix.mint, None, None, ix.seller, CollectionOf(ix.mint))}
MplCoreTransfer(ix) ==
  {Event("TRANSFER", ix.mint, None, ix.buyer, ix.seller, CollectionOf(ix.mint))}
MplCore(ix) ==
  CASE ix.action = "create" -> MplCoreMint(ix)
    [] ix.action = "burn" -> MplCoreBurn(ix)
    [] ix.action = "transfer" -> MplCoreTransfer(ix)
    [] OTHER -> {}

\* _route_to_sub_parser.  Token Metadata's discriminators have one byte: tier 1
\* never recognises them.
Parsed(ix) ==
  CASE ix.program = "magic_eden_v2" -> MagicEdenV2(ix)
    [] ix.program = "magic_eden_mmm" -> MagicEdenMMM(ix)
    [] ix.program = "tensor_cnft_marketplace" -> TensorCnft(ix)
    [] ix.program = "tensor_amm" -> TensorAmm(ix)
    [] ix.program = "mpl_core" -> MplCore(ix)
    [] OTHER -> {}

-----------------------------------------------------------------------------
(* TransactionFilter *)

\* should_skip_by_event_type, of the types that can come to it.
Ignorable == {"POOL_DEPOSIT", "POOL_WITHDRAW"}

HasLargePayment == \E n \in AllAmounts : n > Payment

\* analyze_transaction_value: its confidence in per cent, 0 for not valuable.  The
\* address it calls "Tensor AMM" is the one nft_constants calls tensor_escrow; the
\* program of TensorAmm is not in its list.
Value ==
  IF NftMoves # {} THEN IF HasLargePayment THEN 95 ELSE 80
  ELSE IF \E i \in DOMAIN tx.instructions :
            tx.instructions[i].program \in {"magic_eden_mmm", "magic_eden_v2",
                                            "tensor_cnft_marketplace", "tensor_escrow"}
       THEN 70 ELSE 0

-----------------------------------------------------------------------------
(* Tier 1: instructions *)

Reading(ix) == stage = "tier1" /\ next <= Len(tx.instructions) /\ ix = tx.instructions[next]

\* System programs, and instructions whose data is shorter than a discriminator.
Tier1_Pass(ix) ==
  /\ Reading(ix)
  /\ ix.program = "system" \/ ix.program = "token_metadata"
  /\ next' = next + 1
  /\ UNCHANGED <<tx, stage, transfers, detected, event, discovered>>

\* should_skip_by_action
Tier1_Admin(ix) ==
  /\ Reading(ix)
  /\ ix.action = "admin" /\ ix.program \in {"magic_eden_v2", "magic_eden_mmm"}
  /\ stage' = "skipped"
  /\ UNCHANGED <<tx, next, transfers, detected, event, discovered>>

Known(ix) ==
  /\ ix.program \notin {"system", "token_metadata", "other"}
  /\ ix.action \notin {"admin", "unknown"}

Tier1_Event(ix) ==
  /\ Reading(ix) /\ Known(ix)
  /\ event' \in Parsed(ix)
  /\ stage' = "store"
  /\ UNCHANGED <<tx, next, transfers, detected, discovered>>

\* A discriminator without a parser, a parser that misses what it needs.
Tier1_NoEvent(ix) ==
  /\ Reading(ix) /\ Known(ix)
  /\ Parsed(ix) = {}
  /\ next' = next + 1
  /\ UNCHANGED <<tx, stage, transfers, detected, event, discovered>>

\* Mutant: the logs come first.
InferredFrom_Logs(word) == IF word = "update" THEN "update_pool" ELSE "fulfill_sell"

\* Any of the patterns "list" and "sell" in a log.
ListingWords == {"sell", "list", "delist"}

\* DiscriminatorLearner._infer_action, of the first instruction named in the logs.
InferredFrom(word) ==
  IF NftMoves # {} THEN
    IF HasLargePayment THEN "fulfill_sell"
    ELSE IF word = "deposit" THEN "deposit_sell" ELSE "withdraw_sell"
  ELSE IF word \in ListingWords THEN "mip1_sell"
  ELSE IF word \in {"bid", "cancel"} THEN word
  ELSE IF word = "update" THEN "update_pool"
  ELSE IF word = "create" THEN "create_pool"
  ELSE IF word = "escrow" THEN "set_shared_escrow"
  ELSE IF HasLargePayment THEN "unknown" ELSE "admin_operation"

\* should_ignore of a row
IgnoreActions == {"admin_operation", "update_pool", "create_pool", "set_shared_escrow", "unknown"}
ASSUME NoneIsNoAction == None \notin IgnoreActions

HasValueSignals == NftMoves # {} \/ HasLargePayment \/ tx.logs # {} \/ tx.words # {}

\* handle_unknown_discriminator: get_or_create keeps what was learnt first.
Tier1_Learn(ix) ==
  /\ Reading(ix)
  /\ ix.program = "other" \/ (ix.action = "unknown" /\ ix.program \notin {"system", "token_metadata"})
  /\ \/ /\ HasValueSignals /\ discovered[ix.program] = None
        /\ \E word \in tx.words \cup {""} :
             discovered' = [discovered EXCEPT ![ix.program] = InferredFrom(word)]
     \/ ~(HasValueSignals /\ discovered[ix.program] = None) /\ UNCHANGED discovered
  /\ next' = next + 1
  /\ UNCHANGED <<tx, stage, transfers, detected, event>>

Tier1_End ==
  /\ stage = "tier1" /\ next > Len(tx.instructions)
  /\ stage' = "tier2"
  /\ UNCHANGED <<tx, next, transfers, detected, event, discovered>>

-----------------------------------------------------------------------------
(* Tier 2: logs *)

\* _detect_event_type_from_logs: the first of its patterns that occurs.
DetectedType ==
  LET order == <<"SKIP", "SALE", "LISTING", "CANCEL_LISTING", "BID", "BID_CANCELLED",
                 "POOL_WITHDRAW", "POOL_DEPOSIT">>
      found == {i \in DOMAIN order : order[i] \in tx.logs}
  IN  IF found = {} THEN "UNKNOWN" ELSE order[CHOOSE i \in found : \A j \in found : i <= j]

\* Mutant: a log that moves a pool does not end it.
Tier2_Pools ==
  /\ stage = "tier2"
  /\ stage' = IF DetectedType = "SKIP" THEN "skipped" ELSE "tier3"
  /\ detected' = IF DetectedType = "SKIP" THEN detected ELSE DetectedType
  /\ UNCHANGED <<tx, next, transfers, event, discovered>>

Tier2 ==
  /\ stage = "tier2"
  /\ stage' = IF DetectedType \in Ignorable \cup {"SKIP"} THEN "skipped" ELSE "tier3"
  /\ detected' = IF DetectedType \in Ignorable \cup {"SKIP"} THEN detected ELSE DetectedType
  /\ UNCHANGED <<tx, next, transfers, event, discovered>>

-----------------------------------------------------------------------------
(* Tier 3: transfers *)

\* Mutant: the other threshold.
Counts_Payment(amount) == amount > Payment

Counts(amount) == amount > Dust

\* _extract_price_from_native_transfers: an amount, and the trust in it.
Price(buyer, seller) ==
  LET guesses == <<[amount |-> Largest(Credits({seller})), confidence |-> 90],
                   [amount |-> Largest(Debits({buyer})), confidence |-> 85],
                   [amount |-> Largest(Credits(Accounts)), confidence |-> 70],
                   [amount |-> Largest(AllAmounts), confidence |-> 60]>>
      good == {i \in 1..4 : Counts(guesses[i].amount)}
  IN  IF good = {} THEN [amount |-> 0, confidence |-> 50]
      ELSE guesses[CHOOSE i \in good : \A j \in good : i <= j]

\* _determine_event_type_from_context.  A delisting without a type of its own is
\* taken for a listing: its second pattern, "delist", never decides.
TypeOf(price) ==
  IF detected # "UNKNOWN" THEN detected
  ELSE IF price > Payment THEN "SALE"
  ELSE IF "withdraw" \in tx.words THEN "POOL_WITHDRAW"
  ELSE IF "deposit" \in tx.words THEN "POOL_DEPOSIT"
  ELSE IF tx.words \cap ListingWords # {} /\ price = 0 THEN "LISTING"
  ELSE IF "cancel" \in tx.words /\ price = 0 THEN "CANCEL_LISTING"
  ELSE "TRANSFER"

\* A transfer of one unit counts as an NFT, whatever its decimals.
UnitTransfer == First({mv \in tx.moves : mv.amount = 1})

Minimum(a, b) == IF a < b THEN a ELSE b

\* _analyze_unknown_transaction
TransferEvent(mv, price) ==
  [type |-> TypeOf(price.amount), mint |-> mv.mint, amount |-> price.amount,
   buyer |-> mv.to, seller |-> mv.from, collection |-> "", tier |-> 3,
   confidence |-> Minimum(price.confidence, Value)]

Inferred ==
  {e \in {TransferEvent(mv, Price(mv.to, mv.from)) : mv \in {UnitTransfer} \ {None}} :
     Value > 0 /\ e.type \notin Ignorable}

\* Mutant: a confidence of one half is enough.
Enough_Half(e) == e.confidence >= 50

Enough(e) == e.confidence > 50

Tier3_Event ==
  /\ stage = "tier3"
  /\ event' \in {e \in Inferred : Enough(e)}
  /\ stage' = "store"
  /\ UNCHANGED <<tx, next, transfers, detected, discovered>>

Tier3_NoEvent ==
  /\ stage = "tier3"
  /\ {e \in Inferred : Enough(e)} = {}
  /\ stage' = "nothing"
  /\ UNCHANGED <<tx, next, transfers, detected, event, discovered>>

-----------------------------------------------------------------------------
(* What becomes of an event *)

\* The collection of an event: its own, or that of its mint by the cache, the
\* database or Helius.
Resolved ==
  IF event.collection # "" THEN {event.collection}
  ELSE IF event.mint \in TrackedNFTs THEN {"tracked", ""} ELSE {""}

\* _validate_parsed_event.  The types are those of its list; the comparison of an
\* amount that is None raises, and the handler answers False.
ValidTypes == {"SALE", "LISTING", "CANCEL_LISTING", "BID", "BID_CANCELLED", "TRANSFER",
               "POOL_DEPOSIT", "POOL_WITHDRAW", "LISTING_UPDATE"}
Valid ==
  /\ event.type \in ValidTypes
  /\ event.amount # None
  /\ event.type = "SALE" => event.buyer # event.seller

\* No row for the collection: dropped without a trace.
Drop ==
  /\ stage = "store"
  /\ \E c \in Resolved : c # "tracked"
  /\ stage' = "untracked"
  /\ UNCHANGED <<tx, next, transfers, detected, event, discovered>>

\* A FailedTransaction, to be retried.
Reject ==
  /\ stage = "store"
  /\ "tracked" \in Resolved /\ ~Valid
  /\ stage' = "failed"
  /\ UNCHANGED <<tx, next, transfers, detected, event, discovered>>

\* The NFTEvent, and the owner of the NFT after a sale or a transfer.
Store ==
  /\ stage = "store"
  /\ "tracked" \in Resolved /\ Valid
  /\ stage' = "stored"
  /\ UNCHANGED <<tx, next, transfers, detected, event, discovered>>

Instruction ==
  \E i \in DOMAIN tx.instructions :
    LET ix == tx.instructions[i] IN
    Tier1_Pass(ix) \/ Tier1_Admin(ix) \/ Tier1_Event(ix) \/ Tier1_NoEvent(ix) \/ Tier1_Learn(ix)

Next ==
  \/ Normalize \/ Instruction \/ Tier1_End \/ Tier2
  \/ Tier3_Event \/ Tier3_NoEvent
  \/ Drop \/ Reject \/ Store

Spec == Init /\ [][Next]_vars

-----------------------------------------------------------------------------
(* Properties *)

IsEvent(e) ==
  /\ e.type \in LogTypes \cup {"LISTING_EDIT", "MINT", "BURN", "TRANSFER"}
  /\ e.mint \in NFTs \cup {Coin, None}
  /\ e.amount \in Nat \cup {None}
  /\ {e.buyer, e.seller} \subseteq Wallets \cup {None}
  /\ e.collection \in {"tracked", "other", ""}
  /\ e.tier \in {1, 3} /\ e.confidence \in {60, 70, 80, 85, 90, 95}

\* Every field has its type, and there is an event exactly where one is needed:
\* tier 3 yields no event of a doubtful confidence.
TypeOK ==
  /\ IsTransaction(tx)
  /\ stage \in {"normalize", "tier1", "tier2", "tier3", "store"} \cup Outcomes
  /\ next \in 1..Len(tx.instructions) + 1
  /\ detected \in (LogTypes \ (Ignorable \cup {"SKIP"})) \cup {"UNKNOWN"}
  /\ IF stage \in {"store", "untracked", "failed", "stored"} THEN IsEvent(event) ELSE event = None
  /\ {transfers[i] : i \in DOMAIN transfers} = IF stage = "normalize" THEN {} ELSE tx.moves

\* Who sells to whom and for how much is one trade, and an instruction that sells
\* is about it: its price is that of the trade, at least that for a cap, at most
\* that for a floor.
Floors == {"take_bid", "take_bid_meta_hash"}
Sells(ix) ==
  \/ ix.program \in {"magic_eden_v2", "magic_eden_mmm", "tensor_amm"}
       /\ ix.action \in {"sale", "core_sale", "cnft_sale"}
  \/ ix.program = "tensor_cnft_marketplace" /\ ix.action \in {"buy", "buy_core"} \cup Floors
About(ix, t) ==
  Sells(ix) =>
    /\ ix.buyer = t.buyer /\ ix.seller = t.seller
    /\ IF ix.program = "tensor_amm" THEN ix.price >= t.price
       ELSE IF ix.action \in Floors THEN ix.price <= t.price
       ELSE ix.price = t.price
IsTrade(t) ==
  t.buyer # t.seller /\ \A i \in DOMAIN t.instructions : About(t.instructions[i], t)

Uses(program, actions) ==
  \E i \in DOMAIN tx.instructions :
    tx.instructions[i].program = program /\ tx.instructions[i].action \in actions

\* The amount of a parsed sale lies between what the seller received and what the
\* buyer paid, up to one fee (the first account's fee is only taken out of a change
\* that is not zero), whichever of the price sources of the three tiers it comes
\* from.  Two of them are not prices: the cap of a Tensor AMM purchase and the
\* floor of a taken Tensor bid.
SalePriced ==
  event # None /\ event.type = "SALE" /\ IsTrade(tx)
    /\ ~Uses("tensor_amm", {"sale"}) /\ ~Uses("tensor_cnft_marketplace", Floors)
  => event.amount \in (tx.price - tx.royalty - Fee)..tx.price

\* An NFT that is traded for more than 0.005 SOL is not lost: unless an instruction
\* or a log says that the transaction is administration or moves a pool, some tier
\* reads an event out of it, and that event is valid.  Edits of Tensor listings and
\* the events of Metaplex Core are the exceptions: they never pass the validation.
Marked ==
  \/ \E i \in DOMAIN tx.instructions : tx.instructions[i].action = "admin"
  \/ tx.logs \cap (Ignorable \cup {"SKIP"}) # {}
  \/ tx.price - tx.royalty <= Payment /\ tx.words \cap {"withdraw", "deposit"} # {}
  \/ Uses("tensor_cnft_marketplace", {"edit"})
  \/ Uses("mpl_core", {"create", "burn", "transfer"})
TradeNotLost ==
  IsTrade(tx) /\ NftMoves # {} /\ tx.price > Dust /\ ~Marked
  => stage \notin {"skipped", "nothing", "failed"}

\* What tier 3 takes from the transfers alone was paid for: more than 0.005 SOL
\* moved, and the amount recorded did.
InferredIsPaid ==
  event # None /\ event.tier = 3 => event.amount > Dust /\ event.amount \in AllAmounts

\* A discriminator that is to be ignored was not learnt from a transaction in which
\* an NFT changed hands.
IgnoredMovedNothing ==
  (\E p \in Programs : discovered[p] \in IgnoreActions) => NftMoves = {}
=============================================================================
