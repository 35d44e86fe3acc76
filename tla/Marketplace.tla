---------------------------- MODULE Marketplace ----------------------------
(***************************************************************************)
(* The peer-to-peer market of TraitKeeper: class MarketplaceService of     *)
(* marketplace/services.py over the rows of NFT, PrivateBid, AuctionEvent, *)
(* NFTEvent, MarketplaceTransaction and TransactionMonitoring.             *)
(*                                                                         *)
(* Every handler is a coroutine of the same form: it reads rows without a  *)
(* lock and validates them, awaits other work, and then runs a database    *)
(* closure in a thread of its own.  Anything may happen between the two,   *)
(* so a handler is two (or more) actions here: X_Load validates and parks  *)
(* what it read in req[r]; X_Write is the closure, one action for each     *)
(* database transaction.  Abort(r) is every way a request may end early:   *)
(* a failed re-check, a violated unique key, a lost worker.                *)
(*                                                                         *)
(* A handler called without a signed transaction only builds an unsigned   *)
(* instruction and writes nothing; those calls leave the state as it is    *)
(* and are not actions.                                                    *)
(***************************************************************************)
EXTENDS Integers, FiniteSets

CONSTANTS
  Wallets,     \* wallet addresses
  Nfts,        \* mint addresses
  Bids,        \* PrivateBid rows that exist when the run starts
  AuctionIds,  \* transaction signatures that may create an auction
  Sigs,        \* transaction signatures callers submit for a sale
  Uuids,       \* signatures the server makes up (mock_buy_tx_<uuid4>)
  Prices,      \* amounts in SOL a caller may pass, 0 included
  Hours,       \* auction durations a caller may pass, 0 included
  Reqs,        \* slots for requests in flight
  Ops,         \* the operations callers use
  MaxTime,     \* bound of the clock
  None         \* SQL NULL in a wallet, row or signature column

ASSUME MarketConstants ==
  /\ Prices \subseteq Nat /\ Hours \subseteq Nat
  /\ MaxTime \in Nat
  /\ Sigs \cap Uuids = {}
  /\ None \notin Wallets \cup Nfts \cup Bids \cup AuctionIds \cup Sigs

VARIABLES
  nft,      \* the NFT rows
  bid,      \* the PrivateBid rows
  auction,  \* the AuctionEvent rows, by auction_id
  sale,     \* the NFTEvent rows of type SALE, by event_id
  monitor,  \* TransactionMonitoring.status, by transaction_signature
  req,      \* what each request in flight is about to do
  now       \* timezone.now()

vars == <<nft, bid, auction, sale, monitor, req, now>>

----------------------------------------------------------------------------
(* Rows.  A nullable price is 0 when NULL: every writer demands a positive *)
(* one.  A row that does not exist yet has status (or kind) "NONE".        *)

Opt(S) == S \cup {None}

EventIds == Sigs \cup Uuids

BidStatus == {"ACTIVE", "ACCEPTED", "REJECTED", "CANCELLED", "EXPIRED"}

SaleKinds == {"BID_ACCEPTED", "DIRECT_SALE", "ASKING_PRICE", "AUCTION_SALE"}

NftRow ==
  [owner: Wallets, has_buy_price: BOOLEAN, buy_price: Nat,
   has_sell_intent: BOOLEAN, asking_price: Nat, is_listed: BOOLEAN,
   active_auction: Opt(AuctionIds)]

BidRow ==
  [nft: Nfts, bidder: Wallets, expires_at: Nat, status: BidStatus]

\* There is no reserve price: create_private_auction takes one and stores
\* it nowhere.
AuctionRow ==
  [status: {"NONE", "ACTIVE", "COMPLETED", "CANCELLED"}, nft: Opt(Nfts),
   creator: Opt(Wallets), end_time: Nat, starting_price: Nat,
   current_bid: Nat, current_bidder: Opt(Wallets), bid_count: Nat,
   winner: Opt(Wallets), final_price: Nat]

\* has_txn: a MarketplaceTransaction row with the same key exists.
SaleRow ==
  [kind: SaleKinds \cup {"NONE"}, nft: Opt(Nfts), buyer: Opt(Wallets),
   seller: Opt(Wallets), amount: Nat, has_txn: BOOLEAN]

NoAuction ==
  [status |-> "NONE", nft |-> None, creator |-> None, end_time |-> 0,
   starting_price |-> 0, current_bid |-> 0,
   current_bidder |-> None, bid_count |-> 0, winner |-> None,
   final_price |-> 0]

NoSale ==
  [kind |-> "NONE", nft |-> None, buyer |-> None, seller |-> None,
   amount |-> 0, has_txn |-> FALSE]

\* The step a request takes next.
Steps ==
  {"idle", "expire", "record", "confirm", "commit", "fail", "reject",
   "cancelBid", "directSell", "removeDirect", "directBuy", "createAuction",
   "auctionBid", "closeNft", "closeAuction", "finalize", "setIntent",
   "removeIntentBids", "removeIntentNft", "counter", "askingPrice",
   "cancelAuction"}

Request ==
  [step: Steps, wallet: Opt(Wallets), nft: Opt(Nfts), bid: Opt(Bids),
   auction: Opt(AuctionIds), price: Nat, hours: Nat,
   seller: Opt(Wallets), sig: Opt(Sigs)]

Idle ==
  [step |-> "idle", wallet |-> None, nft |-> None, bid |-> None,
   auction |-> None, price |-> 0, hours |-> 0,
   seller |-> None, sig |-> None]

TypeOK ==
  /\ nft \in [Nfts -> NftRow]
  /\ bid \in [Bids -> BidRow]
  /\ auction \in [AuctionIds -> AuctionRow]
  /\ sale \in [EventIds -> SaleRow]
  /\ monitor \in [Sigs -> {"NONE", "SUBMITTED", "CONFIRMED", "FAILED"}]
  /\ req \in [Reqs -> Request]
  /\ now \in Nat

\* Private bids that an earlier release stored; nothing is listed yet.
Init ==
  /\ nft \in [Nfts -> {[owner |-> w, has_buy_price |-> FALSE, buy_price |-> 0,
                        has_sell_intent |-> FALSE, asking_price |-> 0,
                        is_listed |-> FALSE, active_auction |-> None] :
                       w \in Wallets}]
  /\ bid \in [Bids -> {[nft |-> n, bidder |-> w, expires_at |-> t,
                        status |-> "ACTIVE"] :
                       n \in Nfts, w \in Wallets, t \in 0 .. MaxTime}]
  /\ \A b \in Bids : bid[b].bidder # nft[bid[b].nft].owner
  /\ auction = [a \in AuctionIds |-> NoAuction]
  /\ sale = [s \in EventIds |-> NoSale]
  /\ monitor = [s \in Sigs |-> "NONE"]
  /\ req = [r \in Reqs |-> Idle]
  /\ now = 0

----------------------------------------------------------------------------
(* Requests                                                                *)

\* A call of operation op reaches its database closure with arguments c.
Begin(r, op, c) ==
  /\ op \in Ops
  /\ req[r] = Idle
  /\ req' = [req EXCEPT ![r] = c]
  /\ UNCHANGED <<nft, bid, auction, sale, monitor, now>>

Then(r, step) == req' = [req EXCEPT ![r].step = step]

Finish(r) == req' = [req EXCEPT ![r] = Idle]

\* The request raises before its next write (a refused re-check, a key that
\* exists already, a database error), or its worker is restarted.
Abort(r) ==
  /\ req[r] # Idle
  /\ Finish(r)
  /\ UNCHANGED <<nft, bid, auction, sale, monitor, now>>

Tick ==
  /\ now < MaxTime
  /\ now' = now + 1
  /\ UNCHANGED <<nft, bid, auction, sale, monitor, req>>

\* SafetyValidationService.verify_ownership
verify_ownership(n, w) == nft[n].owner = w

\* Mutant: update_or_create in place of create.
CreateSale_Overwrites(s, kind, n, buyer, seller, amount, has_txn) ==
  sale' = [sale EXCEPT ![s] = [kind |-> kind, nft |-> n, buyer |-> buyer,
                               seller |-> seller, amount |-> amount,
                               has_txn |-> has_txn]]

\* NFTEvent.objects.create: event_id is the primary key.
CreateSale(s, kind, n, buyer, seller, amount, has_txn) ==
  /\ sale[s].kind = "NONE"
  /\ sale' = [sale EXCEPT ![s] = [kind |-> kind, nft |-> n, buyer |-> buyer,
                                  seller |-> seller, amount |-> amount,
                                  has_txn |-> has_txn]]

----------------------------------------------------------------------------
(* Private bids                                                            *)

\* The sale price the handler records for every accepted bid, 1.30 SOL in
\* the code: the same whatever was bid.
mock_decrypted_amount == 1

AcceptBid_Load(r, w, b, s) ==
  /\ bid[b].status = "ACTIVE"
  /\ verify_ownership(bid[b].nft, w)
  /\ now <= bid[b].expires_at
  /\ Begin(r, "accept_private_bid",
       [Idle EXCEPT !.step = "record", !.wallet = w, !.bid = b, !.sig = s])

AcceptBid_Expired(r, w, b) ==
  /\ bid[b].status = "ACTIVE"
  /\ verify_ownership(bid[b].nft, w)
  /\ now > bid[b].expires_at
  /\ Begin(r, "accept_private_bid",
       [Idle EXCEPT !.step = "expire", !.wallet = w, !.bid = b])

\* confirm_private_bid_tx: it makes a record of the signature and confirms it, as an
\* acceptance does, and then raises: the pending bid that it looks for is one that no
\* handler creates.  Its request has no bid.
ConfirmBid_Load(r, s) ==
  Begin(r, "confirm_private_bid_tx", [Idle EXCEPT !.step = "record", !.sig = s])

SaveBidStatus(r, step, status) ==
  /\ req[r].step = step
  /\ bid' = [bid EXCEPT ![req[r].bid].status = status]
  /\ Finish(r)
  /\ UNCHANGED <<nft, auction, sale, monitor, now>>

MarkExpired(r) == SaveBidStatus(r, "expire", "EXPIRED")

\* Mutant: a record that exists already is reused.
AcceptBid_Record_Reuses(r) ==
  /\ req[r].step = "record"
  /\ monitor' = [monitor EXCEPT ![req[r].sig] = "SUBMITTED"]
  /\ Then(r, "confirm")
  /\ UNCHANGED <<nft, bid, auction, sale, now>>

\* TransactionMonitoring.create_from_transaction: the signature is unique.
AcceptBid_Record(r) ==
  /\ req[r].step = "record"
  /\ monitor[req[r].sig] = "NONE"
  /\ monitor' = [monitor EXCEPT ![req[r].sig] = "SUBMITTED"]
  /\ Then(r, "confirm")
  /\ UNCHANGED <<nft, bid, auction, sale, now>>

AcceptBid_Confirm(r) ==
  /\ req[r].step = "confirm"
  /\ monitor' = [monitor EXCEPT ![req[r].sig] = "CONFIRMED"]
  /\ Then(r, "commit")
  /\ UNCHANGED <<nft, bid, auction, sale, now>>

\* Mutant: the losing bids stay open.
AcceptBid_Commit_KeepsOffers(r) ==
  LET b == req[r].bid
      n == bid[b].nft
  IN /\ req[r].step = "commit" /\ req[r].bid # None
     /\ CreateSale(req[r].sig, "BID_ACCEPTED", n, bid[b].bidder,
                   req[r].wallet, mock_decrypted_amount, TRUE)
     /\ bid' = [bid EXCEPT ![b].status = "ACCEPTED"]
     /\ nft' = [nft EXCEPT ![n] = [@ EXCEPT
             !.owner = bid[b].bidder, !.has_buy_price = FALSE,
             !.buy_price = 0, !.has_sell_intent = FALSE, !.asking_price = 0]]
     /\ Finish(r)
     /\ UNCHANGED <<auction, monitor, now>>

\* _update_db_after_sale: the rows are locked and not validated again.
AcceptBid_Commit(r) ==
  LET b == req[r].bid
      n == bid[b].nft
  IN /\ req[r].step = "commit" /\ req[r].bid # None
     /\ CreateSale(req[r].sig, "BID_ACCEPTED", n, bid[b].bidder,
                   req[r].wallet, mock_decrypted_amount, TRUE)
     /\ bid' = [x \in Bids |->
                  IF x = b THEN [bid[x] EXCEPT !.status = "ACCEPTED"]
                  ELSE IF bid[x].nft = n /\ bid[x].status = "ACTIVE"
                  THEN [bid[x] EXCEPT !.status = "CANCELLED"]
                  ELSE bid[x]]
     /\ nft' = [nft EXCEPT ![n] = [@ EXCEPT
             !.owner = bid[b].bidder, !.has_buy_price = FALSE,
             !.buy_price = 0, !.has_sell_intent = FALSE, !.asking_price = 0]]
     /\ Finish(r)
     /\ UNCHANGED <<auction, monitor, now>>

\* The handler's except clause: an error in either step above (the clause of
\* confirm_private_bid_tx ends with the confirmation) ...
AcceptBid_Raise(r) ==
  /\ req[r].step \in {"confirm", "commit"}
  /\ req[r].step = "commit" => req[r].bid # None
  /\ Then(r, "fail")
  /\ UNCHANGED <<nft, bid, auction, sale, monitor, now>>

\* ... marks the transaction as failed.
AcceptBid_Failed(r) ==
  /\ req[r].step = "fail"
  /\ monitor' = [monitor EXCEPT ![req[r].sig] = "FAILED"]
  /\ Finish(r)
  /\ UNCHANGED <<nft, bid, auction, sale, now>>

RejectBid_Load(r, w, b) ==
  /\ bid[b].status = "ACTIVE"
  /\ verify_ownership(bid[b].nft, w)
  /\ Begin(r, "reject_private_bid",
       [Idle EXCEPT !.step = "reject", !.wallet = w, !.bid = b])

RejectBid_Write(r) == SaveBidStatus(r, "reject", "REJECTED")

CancelBid_Load(r, w, b) ==
  /\ bid[b].status = "ACTIVE"
  /\ bid[b].bidder = w
  /\ Begin(r, "cancel_private_bid",
       [Idle EXCEPT !.step = "cancelBid", !.wallet = w, !.bid = b])

CancelBid_Write(r) == SaveBidStatus(r, "cancelBid", "CANCELLED")

CounterBid_Load(r, w, b, p) ==
  /\ bid[b].status = "ACTIVE"
  /\ verify_ownership(bid[b].nft, w)
  /\ p > 0
  /\ Begin(r, "owner_counter_bid",
       [Idle EXCEPT !.step = "counter", !.wallet = w, !.bid = b, !.price = p])

\* Mutant: the price is stored and the flag forgotten.
CounterBid_Write_NoFlag(r) ==
  LET n == bid[req[r].bid].nft
  IN /\ req[r].step = "counter"
     /\ bid' = [bid EXCEPT ![req[r].bid].status = "REJECTED"]
     /\ nft' = [nft EXCEPT ![n] = [@ EXCEPT
             !.asking_price = req[r].price, !.has_buy_price = FALSE,
             !.buy_price = 0, !.is_listed = TRUE]]
     /\ Finish(r)
     /\ UNCHANGED <<auction, sale, monitor, now>>

CounterBid_Write(r) ==
  LET n == bid[req[r].bid].nft
  IN /\ req[r].step = "counter"
     /\ bid' = [bid EXCEPT ![req[r].bid].status = "REJECTED"]
     /\ nft' = [nft EXCEPT ![n] = [@ EXCEPT
             !.asking_price = req[r].price, !.has_sell_intent = TRUE,
             !.has_buy_price = FALSE, !.buy_price = 0, !.is_listed = TRUE]]
     /\ Finish(r)
     /\ UNCHANGED <<auction, sale, monitor, now>>

----------------------------------------------------------------------------
(* Direct sale at a fixed price                                            *)

DirectSell_Load(r, w, n, p) ==
  /\ verify_ownership(n, w)
  /\ p > 0
  /\ Begin(r, "set_direct_sell",
       [Idle EXCEPT !.step = "directSell", !.wallet = w, !.nft = n,
                    !.price = p])

\* Mutant: a sell intent survives a direct listing.
DirectSell_Write_KeepsIntent(r) ==
  LET n == req[r].nft
  IN /\ req[r].step = "directSell"
     /\ nft' = [nft EXCEPT ![n] = [@ EXCEPT
             !.has_buy_price = TRUE, !.buy_price = req[r].price]]
     /\ Finish(r)
     /\ UNCHANGED <<bid, auction, sale, monitor, now>>

DirectSell_Write(r) ==
  LET n == req[r].nft
  IN /\ req[r].step = "directSell"
     /\ nft' = [nft EXCEPT ![n] = [@ EXCEPT
             !.has_buy_price = TRUE, !.buy_price = req[r].price,
             !.has_sell_intent = FALSE, !.asking_price = 0]]
     /\ Finish(r)
     /\ UNCHANGED <<bid, auction, sale, monitor, now>>

RemoveDirect_Load(r, w, n) ==
  /\ verify_ownership(n, w)
  /\ nft[n].has_buy_price
  /\ Begin(r, "remove_direct_sell",
       [Idle EXCEPT !.step = "removeDirect", !.wallet = w, !.nft = n])

RemoveDirect_Write(r) ==
  /\ req[r].step = "removeDirect"
  /\ nft' = [nft EXCEPT ![req[r].nft] = [@ EXCEPT
          !.has_buy_price = FALSE, !.buy_price = 0]]
  /\ Finish(r)
  /\ UNCHANGED <<bid, auction, sale, monitor, now>>

\* Mutant: the owner may buy his own NFT.
DirectBuy_Load_Anyone(r, w, n) ==
  /\ nft[n].has_buy_price /\ nft[n].buy_price # 0
  /\ Begin(r, "execute_direct_buy",
       [Idle EXCEPT !.step = "directBuy", !.wallet = w, !.nft = n,
                    !.price = nft[n].buy_price, !.seller = nft[n].owner])

DirectBuy_Load(r, w, n) ==
  /\ nft[n].has_buy_price /\ nft[n].buy_price # 0
  /\ nft[n].owner # w
  /\ Begin(r, "execute_direct_buy",
       [Idle EXCEPT !.step = "directBuy", !.wallet = w, !.nft = n,
                    !.price = nft[n].buy_price, !.seller = nft[n].owner])

DirectBuy_Write(r, s) ==
  LET n == req[r].nft
  IN /\ req[r].step = "directBuy"
     /\ CreateSale(s, "DIRECT_SALE", n, req[r].wallet, req[r].seller,
                   req[r].price, TRUE)
     /\ nft' = [nft EXCEPT ![n] = [@ EXCEPT
             !.owner = req[r].wallet, !.has_buy_price = FALSE,
             !.buy_price = 0]]
     /\ Finish(r)
     /\ UNCHANGED <<bid, auction, monitor, now>>

----------------------------------------------------------------------------
(* Sell intents: a negotiable asking price                                 *)

SetIntent_Load(r, w, n, p) ==
  /\ verify_ownership(n, w)
  /\ p > 0
  /\ Begin(r, "set_sell_intent",
       [Idle EXCEPT !.step = "setIntent", !.wallet = w, !.nft = n,
                    !.price = p])

SetIntent_Write(r) ==
  LET n == req[r].nft
  IN /\ req[r].step = "setIntent"
     /\ nft' = [nft EXCEPT ![n] = [@ EXCEPT
             !.has_sell_intent = TRUE, !.asking_price = req[r].price,
             !.has_buy_price = FALSE, !.buy_price = 0, !.is_listed = TRUE]]
     /\ Finish(r)
     /\ UNCHANGED <<bid, auction, sale, monitor, now>>

RemoveIntent_Load(r, w, n) ==
  /\ verify_ownership(n, w)
  /\ nft[n].has_sell_intent
  /\ Begin(r, "remove_sell_intent",
       [Idle EXCEPT !.step = "removeIntentBids", !.wallet = w, !.nft = n])

\* Two statements outside a transaction: first the open bids ...
RemoveIntent_Bids(r) ==
  /\ req[r].step = "removeIntentBids"
  /\ bid' = [x \in Bids |->
               IF bid[x].nft = req[r].nft /\ bid[x].status = "ACTIVE"
               THEN [bid[x] EXCEPT !.status = "CANCELLED"] ELSE bid[x]]
  /\ Then(r, "removeIntentNft")
  /\ UNCHANGED <<nft, auction, sale, monitor, now>>

\* ... then the NFT.
RemoveIntent_Nft(r) ==
  LET n == req[r].nft
  IN /\ req[r].step = "removeIntentNft"
     /\ nft' = [nft EXCEPT ![n] = [@ EXCEPT
             !.has_sell_intent = FALSE, !.asking_price = 0,
             !.is_listed = FALSE]]
     /\ Finish(r)
     /\ UNCHANGED <<bid, auction, sale, monitor, now>>

AskingPrice_Load(r, w, n, s) ==
  /\ nft[n].has_sell_intent /\ nft[n].asking_price # 0
  /\ nft[n].owner # w
  /\ Begin(r, "accept_asking_price",
       [Idle EXCEPT !.step = "askingPrice", !.wallet = w, !.nft = n,
                    !.price = nft[n].asking_price, !.seller = nft[n].owner,
                    !.sig = s])

AskingPrice_Write(r) ==
  LET n == req[r].nft
  IN /\ req[r].step = "askingPrice"
     /\ CreateSale(req[r].sig, "ASKING_PRICE", n, req[r].wallet,
                   req[r].seller, req[r].price, TRUE)
     /\ nft' = [nft EXCEPT ![n] = [@ EXCEPT
             !.owner = req[r].wallet, !.has_sell_intent = FALSE,
             !.asking_price = 0, !.is_listed = FALSE]]
     /\ Finish(r)
     /\ UNCHANGED <<bid, auction, monitor, now>>

----------------------------------------------------------------------------
(* Auctions                                                                *)

CreateAuction_Load(r, w, n, a, p, h) ==
  /\ verify_ownership(n, w)
  /\ ~nft[n].has_buy_price /\ ~nft[n].has_sell_intent
  /\ \A x \in AuctionIds : ~(auction[x].nft = n /\ auction[x].status = "ACTIVE")
  /\ p > 0 /\ h > 0
  /\ Begin(r, "create_private_auction",
       [Idle EXCEPT !.step = "createAuction", !.wallet = w, !.nft = n,
                    !.auction = a, !.price = p, !.hours = h])

\* auction_id, the signature, is the primary key.
CreateAuction_Write(r) ==
  LET n == req[r].nft
      a == req[r].auction
  IN /\ req[r].step = "createAuction"
     /\ auction[a].status = "NONE"
     /\ auction' = [auction EXCEPT ![a] =
          [NoAuction EXCEPT !.status = "ACTIVE", !.nft = n,
             !.creator = req[r].wallet, !.end_time = now + req[r].hours,
             !.starting_price = req[r].price]]
     /\ nft' = [nft EXCEPT ![n] = [@ EXCEPT
             !.active_auction = a, !.is_listed = TRUE]]
     /\ Finish(r)
     /\ UNCHANGED <<bid, sale, monitor, now>>

\* validate_bid_placement_safety; the rows of Bids are older than the hour
\* its rate limit looks at.
AuctionBid_Load(r, w, a, p) ==
  /\ auction[a].status # "NONE"
  /\ nft[auction[a].nft].owner # w
  /\ Begin(r, "place_auction_bid",
       [Idle EXCEPT !.step = "auctionBid", !.wallet = w, !.auction = a,
                    !.price = p])

\* Mutants: a bid equal to the minimum is enough; the creator may bid; the
\* state of the auction is not checked again under the lock.
BidAcceptable_Equal(A, w, p) ==
  /\ A.status = "ACTIVE"
  /\ now < A.end_time
  /\ w # A.creator
  /\ p >= (IF A.current_bid # 0 THEN A.current_bid ELSE A.starting_price)

BidAcceptable_Creator(A, w, p) ==
  /\ A.status = "ACTIVE"
  /\ now < A.end_time
  /\ p > (IF A.current_bid # 0 THEN A.current_bid ELSE A.starting_price)

BidAcceptable_Late(A, w, p) ==
  /\ w # A.creator
  /\ p > (IF A.current_bid # 0 THEN A.current_bid ELSE A.starting_price)

\* The checks of _get_lock_and_update_auction, under the row's lock.
BidAcceptable(A, w, p) ==
  /\ A.status = "ACTIVE"
  /\ now < A.end_time
  /\ w # A.creator
  /\ p > (IF A.current_bid # 0 THEN A.current_bid ELSE A.starting_price)

AuctionBid_Write(r) ==
  LET a == req[r].auction
  IN /\ req[r].step = "auctionBid"
     /\ BidAcceptable(auction[a], req[r].wallet, req[r].price)
     /\ auction' = [auction EXCEPT ![a] = [@ EXCEPT
             !.current_bid = req[r].price, !.current_bidder = req[r].wallet,
             !.bid_count = auction[a].bid_count + 1]]
     /\ Finish(r)
     /\ UNCHANGED <<nft, bid, sale, monitor, now>>

\* Mutant: an auction may be finalised while it still takes bids.
Finalizable_Early(a) == auction[a].status = "ACTIVE"

\* The first transaction of finalize_auction, its lock released at the end.
Finalizable(a) ==
  /\ auction[a].status = "ACTIVE"
  /\ now >= auction[a].end_time

\* Mutant: an auction without bids takes the path of one with a winner.
Finalize_Load_NoBidder(r, a, s) ==
  /\ Finalizable(a)
  /\ Begin(r, "finalize_auction",
       [Idle EXCEPT !.step = "finalize", !.auction = a, !.sig = s])

Finalize_Load(r, a, s) ==
  /\ Finalizable(a)
  /\ auction[a].current_bidder # None
  /\ Begin(r, "finalize_auction",
       [Idle EXCEPT !.step = "finalize", !.auction = a, !.sig = s])

Finalize_LoadNoBids(r, a) ==
  /\ Finalizable(a)
  /\ auction[a].current_bidder = None
  /\ Begin(r, "finalize_auction",
       [Idle EXCEPT !.step = "closeNft", !.auction = a])

\* _cancel_auction_in_db: two saves outside a transaction.
Finalize_CloseNft(r) ==
  LET n == auction[req[r].auction].nft
  IN /\ req[r].step = "closeNft"
     /\ nft' = [nft EXCEPT ![n] = [@ EXCEPT
             !.active_auction = None, !.is_listed = FALSE]]
     /\ Then(r, "closeAuction")
     /\ UNCHANGED <<bid, auction, sale, monitor, now>>

SaveAuctionCancelled(r) ==
  auction' = [auction EXCEPT ![req[r].auction] = [@ EXCEPT
       !.status = "CANCELLED"]]

Finalize_CloseAuction(r) ==
  /\ req[r].step = "closeAuction"
  /\ SaveAuctionCancelled(r)
  /\ Finish(r)
  /\ UNCHANGED <<nft, bid, sale, monitor, now>>

\* _finalize_sale_in_db: locked again, not validated again; the event gets
\* no MarketplaceTransaction.
Finalize_Write(r) ==
  LET a == req[r].auction
      A == auction[a]
  IN /\ req[r].step = "finalize"
     /\ CreateSale(req[r].sig, "AUCTION_SALE", A.nft, A.current_bidder,
                   A.creator, A.current_bid, FALSE)
     /\ auction' = [auction EXCEPT ![a] = [@ EXCEPT
             !.status = "COMPLETED", !.winner = A.current_bidder,
             !.final_price = A.current_bid]]
     /\ nft' = [nft EXCEPT ![A.nft] = [@ EXCEPT
             !.owner = A.current_bidder, !.active_auction = None,
             !.is_listed = FALSE]]
     /\ Finish(r)
     /\ UNCHANGED <<bid, monitor, now>>

CancelAuction_Load(r, w, a) ==
  /\ auction[a].status = "ACTIVE"
  /\ verify_ownership(auction[a].nft, w)
  /\ auction[a].current_bid = 0
  /\ Begin(r, "cancel_auction",
       [Idle EXCEPT !.step = "cancelAuction", !.wallet = w, !.auction = a])

CancelAuction_Write(r) ==
  LET n == auction[req[r].auction].nft
  IN /\ req[r].step = "cancelAuction"
     /\ SaveAuctionCancelled(r)
     /\ nft' = [nft EXCEPT ![n] = [@ EXCEPT
             !.active_auction = None, !.is_listed = FALSE]]
     /\ Finish(r)
     /\ UNCHANGED <<bid, sale, monitor, now>>

\* AuctionEventAdmin.cancel_selected_auctions: one UPDATE of the auctions.
Admin_CancelAuction(a) ==
  /\ "admin_cancel" \in Ops
  /\ auction[a].status = "ACTIVE"
  /\ auction' = [auction EXCEPT ![a] = [@ EXCEPT !.status = "CANCELLED"]]
  /\ UNCHANGED <<nft, bid, sale, monitor, req, now>>

----------------------------------------------------------------------------
PrivateBidNext(r) ==
  \/ \E w \in Wallets, b \in Bids :
       \/ \E s \in Sigs : AcceptBid_Load(r, w, b, s)
       \/ AcceptBid_Expired(r, w, b)
       \/ RejectBid_Load(r, w, b)
       \/ CancelBid_Load(r, w, b)
       \/ \E p \in Prices : CounterBid_Load(r, w, b, p)
  \/ \E s \in Sigs : ConfirmBid_Load(r, s)
  \/ MarkExpired(r)
  \/ AcceptBid_Record(r)
  \/ AcceptBid_Confirm(r)
  \/ AcceptBid_Commit(r)
  \/ AcceptBid_Raise(r)
  \/ AcceptBid_Failed(r)
  \/ RejectBid_Write(r)
  \/ CancelBid_Write(r)
  \/ CounterBid_Write(r)

ListingNext(r) ==
  \/ \E w \in Wallets, n \in Nfts :
       \/ \E p \in Prices : DirectSell_Load(r, w, n, p)
       \/ RemoveDirect_Load(r, w, n)
       \/ DirectBuy_Load(r, w, n)
       \/ \E p \in Prices : SetIntent_Load(r, w, n, p)
       \/ RemoveIntent_Load(r, w, n)
       \/ \E s \in Sigs : AskingPrice_Load(r, w, n, s)
  \/ DirectSell_Write(r)
  \/ RemoveDirect_Write(r)
  \/ \E s \in Uuids : DirectBuy_Write(r, s)
  \/ SetIntent_Write(r)
  \/ RemoveIntent_Bids(r)
  \/ RemoveIntent_Nft(r)
  \/ AskingPrice_Write(r)

AuctionNext(r) ==
  \/ \E w \in Wallets, n \in Nfts, a \in AuctionIds, p \in Prices,
        h \in Hours : CreateAuction_Load(r, w, n, a, p, h)
  \/ \E w \in Wallets, a \in AuctionIds :
       \/ \E p \in Prices : AuctionBid_Load(r, w, a, p)
       \/ CancelAuction_Load(r, w, a)
  \/ \E a \in AuctionIds :
       \/ \E s \in Sigs : Finalize_Load(r, a, s)
       \/ Finalize_LoadNoBids(r, a)
  \/ CreateAuction_Write(r)
  \/ AuctionBid_Write(r)
  \/ Finalize_CloseNft(r)
  \/ Finalize_CloseAuction(r)
  \/ Finalize_Write(r)
  \/ CancelAuction_Write(r)

Next ==
  \/ \E r \in Reqs :
       PrivateBidNext(r) \/ ListingNext(r) \/ AuctionNext(r) \/ Abort(r)
  \/ \E a \in AuctionIds : Admin_CancelAuction(a)
  \/ Tick

Spec == Init /\ [][Next]_vars

----------------------------------------------------------------------------
(* What the market guarantees, whatever requests interleave                *)

\* A price is stored exactly while its flag is up, and an NFT never carries
\* a fixed price and a negotiable one together: set_direct_sell,
\* set_sell_intent and owner_counter_bid each clear what the others set, and
\* no stale write of another request can bring back half of it.
ListingConsistent ==
  \A n \in Nfts :
    /\ nft[n].has_buy_price <=> nft[n].buy_price # 0
    /\ nft[n].has_sell_intent <=> nft[n].asking_price # 0
    /\ ~(nft[n].has_buy_price /\ nft[n].has_sell_intent)

\* The high bid of an auction beats its starting price and is never the
\* creator's, and the bid counter counts exactly the raises: at most one for
\* each unit above the starting price (place_auction_bid, services.py).
AuctionBidsSound ==
  \A a \in AuctionIds :
    LET A == auction[a]
    IN /\ A.current_bid = 0 <=> A.bid_count = 0
       /\ A.current_bid = 0 <=> A.current_bidder = None
       /\ A.current_bid # 0 =>
            /\ A.bid_count <= A.current_bid - A.starting_price
            /\ A.current_bidder # A.creator

\* An auction that has a winner was won by its last bidder at the last bid,
\* after its end: finalize_auction decides in a second transaction, and no
\* bid, cancellation or second finalisation in between changes the outcome.
WinnerIsHighBidder ==
  \A a \in AuctionIds :
    auction[a].winner # None =>
      /\ auction[a].winner = auction[a].current_bidder
      /\ auction[a].final_price = auction[a].current_bid
      /\ now >= auction[a].end_time

\* A sale recorded by accept_private_bid has a confirmed transaction record,
\* so a transaction marked FAILED never moved an NFT through a bid, though
\* confirm_private_bid_tx makes, confirms and fails records of any signature.
AcceptedSaleConfirmed ==
  \A s \in Sigs : sale[s].kind = "BID_ACCEPTED" => monitor[s] = "CONFIRMED"

\* Once a bid on an NFT has been accepted no other bid on it stays open,
\* whichever requests had loaded those bids before.
AcceptClearsOffers ==
  \A s \in Sigs, b \in Bids :
    sale[s].kind = "BID_ACCEPTED" /\ sale[s].nft = bid[b].nft =>
      bid[b].status # "ACTIVE"

\* Nobody buys from himself at a fixed price, at an asking price or in an
\* auction: the buyer is compared with the owner (or creator) who is then
\* recorded as the seller, however stale that owner is.
NoSelfPurchase ==
  \A s \in EventIds :
    sale[s].kind \in SaleKinds \ {"BID_ACCEPTED"} =>
      sale[s].buyer # sale[s].seller

\* Sales are append-only, and an NFT changes hands only in the step that
\* records its sale to the new owner.
OwnersFollow ==
  /\ \A s \in EventIds : sale[s].kind # "NONE" => sale'[s] = sale[s]
  /\ \A n \in Nfts : nft'[n].owner # nft[n].owner =>
       \E s \in EventIds : /\ sale[s].kind = "NONE"
                           /\ sale'[s].kind # "NONE"
                           /\ sale'[s].nft = n
                           /\ sale'[s].buyer = nft'[n].owner

OwnershipFollowsSales == [][OwnersFollow]_vars

\* The high bid only ever rises, and only in an active auction before its
\* end (the locked re-check of place_auction_bid); an auction that left
\* ACTIVE never returns to it.
BidsRise ==
  \A a \in AuctionIds :
    /\ auction'[a].current_bid # auction[a].current_bid =>
         /\ auction'[a].current_bid > auction[a].current_bid
         /\ auction[a].status = "ACTIVE" /\ now < auction[a].end_time
    /\ auction[a].status \in {"COMPLETED", "CANCELLED"} =>
         auction'[a].status # "ACTIVE"

BidsRiseWhileOpen == [][BidsRise]_vars

----------------------------------------------------------------------------
(* The inductive invariant: what a parked request still knows              *)

BidSteps == {"expire", "record", "confirm", "commit", "fail", "reject",
             "cancelBid", "counter"}

TxSteps == {"record", "confirm", "commit", "fail"}

NftSteps == {"directSell", "removeDirect", "directBuy", "createAuction",
             "setIntent", "removeIntentBids", "removeIntentNft",
             "askingPrice"}

AuctionSteps == {"auctionBid", "closeNft", "closeAuction", "finalize",
                 "cancelAuction"}

\* A request that was validated carries the rows it validated and a price
\* that passed its check; an auction it found exists for good, and one it
\* found won after its end keeps its bidder.
RequestOK(q) ==
  /\ q.step \in BidSteps \ TxSteps => q.bid \in Bids
  /\ q.step \in TxSteps \cup {"askingPrice", "finalize"} => q.sig \in Sigs
  /\ q.step \in TxSteps /\ q.bid # None => q.wallet \in Wallets
  /\ q.step \in {"directBuy", "askingPrice", "createAuction", "auctionBid"} =>
       q.wallet \in Wallets
  /\ q.step \in NftSteps => q.nft \in Nfts
  /\ q.step \in {"directSell", "setIntent", "counter", "createAuction"} =>
       q.price > 0
  /\ q.step \in {"directBuy", "askingPrice"} =>
       q.seller \in Wallets /\ q.seller # q.wallet
  /\ q.step \in AuctionSteps \cup {"createAuction"} => q.auction \in AuctionIds
  /\ q.step \in AuctionSteps => auction[q.auction].status # "NONE"
  /\ q.step = "finalize" => /\ auction[q.auction].current_bidder # None
                            /\ now >= auction[q.auction].end_time

RequestsOK == \A r \in Reqs : RequestOK(req[r])

\* An auction that exists has an NFT and a creator.
AuctionsOK ==
  \A a \in AuctionIds :
    auction[a].status # "NONE" =>
      auction[a].nft \in Nfts /\ auction[a].creator \in Wallets

\* At most one request works on a transaction record, in the state that its
\* step left it in, and none on the record of a bid already accepted.
RecordsOK ==
  /\ \A r \in Reqs :
       /\ req[r].step = "confirm" => monitor[req[r].sig] = "SUBMITTED"
       /\ req[r].step = "commit" => monitor[req[r].sig] = "CONFIRMED"
       /\ req[r].step = "fail" => monitor[req[r].sig] # "NONE"
       /\ req[r].step \in {"confirm", "commit", "fail"} =>
            sale[req[r].sig].kind # "BID_ACCEPTED"
  /\ \A q, r \in Reqs :
       /\ req[q].step \in {"confirm", "commit", "fail"}
       /\ req[r].step \in {"confirm", "commit", "fail"}
       /\ req[q].sig = req[r].sig
       => q = r

\* An auction that does not exist yet has no bid.
UnopenedUnbid ==
  \A a \in AuctionIds :
    auction[a].status = "NONE" => auction[a].current_bid = 0

MarketInv ==
  /\ TypeOK
  /\ RequestsOK
  /\ AuctionsOK
  /\ ListingConsistent
  /\ AuctionBidsSound
  /\ WinnerIsHighBidder
  /\ NoSelfPurchase
  /\ RecordsOK
  /\ AcceptedSaleConfirmed

----------------------------------------------------------------------------
(* What comments, docs and help texts say, and the code does not keep      *)

\* safety_validation.py: "Only the current owner can list or sell."
OnlyOwnerSells ==
  [][\A s \in EventIds :
       sale[s].kind = "NONE" /\ sale'[s].kind # "NONE" =>
         nft[sale'[s].nft].owner = sale'[s].seller]_vars
=============================================================================
