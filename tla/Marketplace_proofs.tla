------------------------ MODULE Marketplace_proofs -------------------------
(***************************************************************************)
(* Proofs about Marketplace, for every value of its constants.             *)
(*                                                                         *)
(* MarketInv is inductive.  Its parts concern different rows, so the proof *)
(* splits a step by what it writes: first the frames (what a step that     *)
(* leaves some rows alone keeps), then one lemma for each kind of row      *)
(* written, then one lemma for each action that writes.                    *)
(***************************************************************************)
EXTENDS Marketplace, TLAPS

----------------------------------------------------------------------------
(* Requests                                                                *)

AcceptSteps == {"confirm", "commit", "fail"}

\* What any step leaves true of an auction: it stays, and keeps its end and
\* its having a bidder.
AuctionsGrow ==
  \A a \in AuctionIds :
    auction[a].status # "NONE" =>
      /\ auction'[a].status # "NONE"
      /\ auction'[a].end_time = auction[a].end_time
      /\ auction[a].current_bidder # None => auction'[a].current_bidder # None

\* A request slot that is free satisfies the request invariant.
LEMMA IdleOK ==
  Idle \in Request /\ RequestOK(Idle) /\ RequestOK(Idle)'
    /\ Idle.step \notin AcceptSteps
  BY DEF Idle, Request, Steps, Opt, RequestOK, BidSteps, TxSteps, NftSteps,
         AuctionSteps, AcceptSteps

\* Storing a sound request in one slot keeps all requests sound, as long as
\* the auctions they found only grow and the clock does not go back.
LEMMA RequestsKept ==
  ASSUME TypeOK, RequestsOK, NEW r \in Reqs, NEW c \in Request,
         req' = [req EXCEPT ![r] = c], RequestOK(c)',
         AuctionsGrow, now' >= now, now' \in Nat,
         auction' \in [AuctionIds -> AuctionRow]
  PROVE  req' \in [Reqs -> Request] /\ RequestsOK'
<1>1. req' \in [Reqs -> Request]
  BY DEF TypeOK
<1>2. ASSUME NEW q \in Reqs, q # r PROVE RequestOK(req[q])'
  <2>1. req'[q] = req[q] /\ RequestOK(req[q]) /\ req[q] \in Request
    BY <1>2 DEF TypeOK, RequestsOK
  <2>2. ASSUME req[q].step \in AuctionSteps, req[q].auction \in AuctionIds
        PROVE  auction'[req[q].auction].status # "NONE"
    BY <2>1, <2>2 DEF RequestOK, AuctionsGrow
  <2>3. ASSUME req[q].step = "finalize", req[q].auction \in AuctionIds
        PROVE  /\ auction'[req[q].auction].current_bidder # None
               /\ now' >= auction'[req[q].auction].end_time
    BY <2>1, <2>3 DEF RequestOK, AuctionsGrow, AuctionSteps, TypeOK, AuctionRow
  <2> QED
    BY <2>1, <2>2, <2>3 DEF RequestOK, AuctionSteps
<1>3. RequestOK(req[r])'
  BY DEF TypeOK
<1> QED
  BY <1>1, <1>2, <1>3 DEF RequestsOK

\* The transaction records, when a slot leaves or never enters the steps that
\* work on one, and no sale by bid is added.
LEMMA RecordsKept ==
  ASSUME TypeOK, RecordsOK, AcceptedSaleConfirmed,
         NEW r \in Reqs, NEW c \in Request,
         req' = [req EXCEPT ![r] = c], c.step \notin AcceptSteps,
         monitor' = monitor,
         \A s \in Sigs : sale'[s].kind = "BID_ACCEPTED" => sale'[s] = sale[s],
         RequestsOK
  PROVE  RecordsOK' /\ AcceptedSaleConfirmed'
<1>1. AcceptedSaleConfirmed'
  BY DEF AcceptedSaleConfirmed
<1>2. \A q \in Reqs : q # r => req'[q] = req[q]
  BY DEF TypeOK
<1>3. req'[r] = c
  BY DEF TypeOK
<1>4. \A q \in Reqs : req[q].step \in AcceptSteps => req[q].sig \in Sigs
  BY DEF RequestsOK, RequestOK, TxSteps, AcceptSteps
<1>5. ASSUME NEW q \in Reqs, req'[q].step \in AcceptSteps
      PROVE  /\ q # r /\ req'[q] = req[q] /\ req[q].sig \in Sigs
             /\ sale'[req'[q].sig].kind # "BID_ACCEPTED"
  <2>1. q # r
    BY <1>3, <1>5
  <2>2. req'[q] = req[q] /\ req[q].sig \in Sigs
    BY <2>1, <1>2, <1>4, <1>5
  <2>3. sale[req[q].sig].kind # "BID_ACCEPTED"
    BY <2>2, <1>5 DEF RecordsOK, AcceptSteps
  <2> QED
    BY <2>1, <2>2, <2>3
<1>6. RecordsOK'
  BY <1>5 DEF RecordsOK, AcceptSteps
<1> QED
  BY <1>1, <1>6

----------------------------------------------------------------------------
(* Initial states                                                          *)

\* The rows, requests and records the run starts with satisfy the invariant.
LEMMA InitInv ==
  ASSUME Init PROVE MarketInv
<1>1. \A w \in Wallets :
        [owner |-> w, has_buy_price |-> FALSE, buy_price |-> 0,
         has_sell_intent |-> FALSE, asking_price |-> 0, is_listed |-> FALSE,
         active_auction |-> None] \in NftRow
  BY DEF NftRow, Opt
<1>2. nft \in [Nfts -> NftRow]
  BY <1>1 DEF Init
<1>3. bid \in [Bids -> BidRow]
  BY MarketConstants DEF Init, BidRow, BidStatus
<1>4. auction \in [AuctionIds -> AuctionRow]
  BY DEF Init, AuctionRow, NoAuction, Opt
<1>5. sale \in [EventIds -> SaleRow]
  BY DEF Init, SaleRow, NoSale, Opt
<1>6. TypeOK
  BY <1>2, <1>3, <1>4, <1>5, IdleOK DEF Init, TypeOK
<1>7. RequestsOK
  BY IdleOK DEF Init, RequestsOK
<1>8. ListingConsistent
  BY DEF Init, ListingConsistent
<1>9. AuctionsOK /\ AuctionBidsSound /\ WinnerIsHighBidder
  BY DEF Init, AuctionsOK, AuctionBidsSound, WinnerIsHighBidder, NoAuction
<1>10. NoSelfPurchase /\ AcceptedSaleConfirmed
  BY DEF Init, NoSelfPurchase, AcceptedSaleConfirmed, NoSale, SaleKinds,
         EventIds
<1>11. RecordsOK
  BY IdleOK DEF Init, RecordsOK, AcceptSteps
<1> QED
  BY <1>6, <1>7, <1>8, <1>9, <1>10, <1>11 DEF MarketInv

----------------------------------------------------------------------------
(* Steps that write a request slot and nothing else                        *)

\* A step that parks a sound request and writes no row.
LEMMA RequestStep ==
  ASSUME MarketInv, NEW r \in Reqs, NEW c \in Request, RequestOK(c),
         c.step \notin AcceptSteps, req' = [req EXCEPT ![r] = c],
         UNCHANGED <<nft, bid, auction, sale, monitor, now>>
  PROVE  MarketInv'
<1> USE DEF MarketInv
<1>1. RequestOK(c)'
  BY DEF RequestOK
<1>2. AuctionsGrow /\ now' >= now /\ now' \in Nat
      /\ auction' \in [AuctionIds -> AuctionRow]
  BY DEF AuctionsGrow, TypeOK
<1>3. req' \in [Reqs -> Request] /\ RequestsOK'
  BY <1>1, <1>2, RequestsKept
<1>4. RecordsOK' /\ AcceptedSaleConfirmed'
  BY RecordsKept
<1>5. TypeOK'
  BY <1>3 DEF TypeOK
<1>6. ListingConsistent' /\ AuctionsOK' /\ AuctionBidsSound'
      /\ WinnerIsHighBidder' /\ NoSelfPurchase'
  BY DEF ListingConsistent, AuctionsOK, AuctionBidsSound, WinnerIsHighBidder,
         NoSelfPurchase
<1> QED
  BY <1>3, <1>4, <1>5, <1>6

\* A request that ends early, wherever it stands, keeps the invariant.
LEMMA Abort_Inv ==
  ASSUME MarketInv, NEW r \in Reqs, Abort(r) PROVE MarketInv'
  BY IdleOK, RequestStep DEF Abort, Finish

\* Begin stores the request of a handler that passed its checks.
LEMMA Begin_Inv ==
  ASSUME MarketInv, NEW r \in Reqs, NEW op, NEW c \in Request, RequestOK(c),
         c.step \notin AcceptSteps, Begin(r, op, c)
  PROVE  MarketInv'
  BY RequestStep DEF Begin

----------------------------------------------------------------------------
(* What the writes of one kind of row keep                                 *)

\* A step that writes no auction.
LEMMA AuctionFrame ==
  ASSUME MarketInv, auction' = auction, now' \in Nat, now' >= now
  PROVE  /\ auction' \in [AuctionIds -> AuctionRow]
         /\ AuctionsGrow /\ AuctionsOK' /\ AuctionBidsSound'
         /\ WinnerIsHighBidder'
<1> USE DEF MarketInv
<1>1. auction' \in [AuctionIds -> AuctionRow] /\ AuctionsGrow /\ AuctionsOK'
      /\ AuctionBidsSound'
  BY DEF TypeOK, AuctionsGrow, AuctionsOK, AuctionBidsSound
<1>2. WinnerIsHighBidder'
  BY DEF TypeOK, AuctionRow, WinnerIsHighBidder
<1> QED
  BY <1>1, <1>2

\* A step that writes one NFT row.
LEMMA NftWrite ==
  ASSUME MarketInv, NEW n \in Nfts, NEW R \in NftRow,
         nft' = [nft EXCEPT ![n] = R],
         R.has_buy_price <=> R.buy_price # 0,
         R.has_sell_intent <=> R.asking_price # 0,
         ~(R.has_buy_price /\ R.has_sell_intent)
  PROVE  nft' \in [Nfts -> NftRow] /\ ListingConsistent'
<1>1. nft' \in [Nfts -> NftRow]
  BY DEF MarketInv, TypeOK
<1>2. ASSUME NEW m \in Nfts
      PROVE  nft'[m] = IF m = n THEN R ELSE nft[m]
  BY DEF MarketInv, TypeOK
<1>3. ListingConsistent'
  BY <1>2 DEF MarketInv, ListingConsistent
<1> QED
  BY <1>1, <1>3

\* A step that records a sale other than by bid.
LEMMA SaleWrite ==
  ASSUME MarketInv, NEW s \in EventIds, NEW kind \in SaleKinds,
         NEW n \in Nfts, NEW buyer \in Wallets, NEW seller \in Wallets,
         NEW amount \in Nat, NEW t \in BOOLEAN,
         CreateSale(s, kind, n, buyer, seller, amount, t),
         kind # "BID_ACCEPTED", buyer # seller
  PROVE  /\ sale' \in [EventIds -> SaleRow]
         /\ NoSelfPurchase'
         /\ \A x \in Sigs : sale'[x].kind = "BID_ACCEPTED" => sale'[x] = sale[x]
<1> DEFINE R == [kind |-> kind, nft |-> n, buyer |-> buyer, seller |-> seller,
                 amount |-> amount, has_txn |-> t]
<1>1. R \in SaleRow
  BY DEF SaleRow, Opt
<1>2. sale' = [sale EXCEPT ![s] = R]
  BY DEF CreateSale
<1>3. sale' \in [EventIds -> SaleRow]
  BY <1>1, <1>2 DEF MarketInv, TypeOK
<1>4. \A x \in EventIds : sale'[x] = IF x = s THEN R ELSE sale[x]
  BY <1>2 DEF MarketInv, TypeOK
<1>5. NoSelfPurchase'
  BY <1>4 DEF MarketInv, NoSelfPurchase
<1>6. \A x \in Sigs : sale'[x].kind = "BID_ACCEPTED" => sale'[x] = sale[x]
  BY <1>4 DEF EventIds
<1> QED
  BY <1>3, <1>5, <1>6

\* A step that records no sale.
LEMMA SaleFrame ==
  ASSUME MarketInv, sale' = sale
  PROVE  /\ sale' \in [EventIds -> SaleRow]
         /\ NoSelfPurchase'
         /\ \A x \in Sigs : sale'[x].kind = "BID_ACCEPTED" => sale'[x] = sale[x]
  BY DEF MarketInv, TypeOK, NoSelfPurchase

\* A step that writes no NFT row.
LEMMA NftFrame ==
  ASSUME MarketInv, nft' = nft
  PROVE  nft' \in [Nfts -> NftRow] /\ ListingConsistent'
  BY DEF MarketInv, TypeOK, ListingConsistent

\* A step that writes no bid row.
LEMMA BidFrame ==
  ASSUME MarketInv, bid' = bid
  PROVE  bid' \in [Bids -> BidRow]
  BY DEF MarketInv, TypeOK

\* A write outside the steps that work on a transaction record keeps the
\* invariant when it keeps the part of each row it touches.
LEMMA WriteStep ==
  ASSUME MarketInv, NEW r \in Reqs, NEW c \in Request, RequestOK(c)',
         c.step \notin AcceptSteps, req' = [req EXCEPT ![r] = c],
         monitor' = monitor, now' = now,
         bid' \in [Bids -> BidRow],
         nft' \in [Nfts -> NftRow], ListingConsistent',
         auction' \in [AuctionIds -> AuctionRow],
         AuctionsGrow, AuctionsOK', AuctionBidsSound', WinnerIsHighBidder',
         sale' \in [EventIds -> SaleRow], NoSelfPurchase',
         \A x \in Sigs : sale'[x].kind = "BID_ACCEPTED" => sale'[x] = sale[x]
  PROVE  MarketInv'
<1> USE DEF MarketInv
<1>1. now' >= now /\ now' \in Nat
  BY DEF TypeOK
<1>2. req' \in [Reqs -> Request] /\ RequestsOK'
  BY <1>1, RequestsKept
<1>3. RecordsOK' /\ AcceptedSaleConfirmed'
  BY RecordsKept
<1>4. TypeOK'
  BY <1>1, <1>2 DEF TypeOK
<1> QED
  BY <1>2, <1>3, <1>4

----------------------------------------------------------------------------
(* Listings                                                                *)

\* set_direct_sell replaces a negotiable price by a fixed one.
LEMMA DirectSell_Inv ==
  ASSUME MarketInv, NEW r \in Reqs, DirectSell_Write(r) PROVE MarketInv'
<1> DEFINE n == req[r].nft
           R == [nft[n] EXCEPT !.has_buy_price = TRUE,
                               !.buy_price = req[r].price,
                               !.has_sell_intent = FALSE,
                               !.asking_price = 0]
<1>1. n \in Nfts /\ req[r].price \in Nat /\ req[r].price > 0
  BY DEF MarketInv, TypeOK, Request, BidRow, RequestsOK, RequestOK,
         DirectSell_Write, NftSteps
<1>2. nft[n] \in NftRow
  BY <1>1 DEF MarketInv, TypeOK
<1>4. R \in NftRow
  BY <1>1, <1>2 DEF NftRow, Opt
<1>5. /\ R.has_buy_price <=> R.buy_price # 0
      /\ R.has_sell_intent <=> R.asking_price # 0
      /\ ~(R.has_buy_price /\ R.has_sell_intent)
  BY <1>1, <1>2 DEF NftRow
<1>6. nft' = [nft EXCEPT ![n] = R]
  BY DEF DirectSell_Write
<1>7. nft' \in [Nfts -> NftRow] /\ ListingConsistent'
  <2> HIDE DEF R, n
  <2> QED
    BY <1>1, <1>4, <1>5, <1>6, NftWrite
<1>8. now' = now /\ now' \in Nat /\ now' >= now
  BY DEF DirectSell_Write, MarketInv, TypeOK
<1> QED
  BY <1>7, <1>8, SaleFrame, BidFrame, IdleOK, AuctionFrame, WriteStep
     DEF DirectSell_Write, Finish

\* remove_direct_sell clears the fixed price and its flag.
LEMMA RemoveDirect_Inv ==
  ASSUME MarketInv, NEW r \in Reqs, RemoveDirect_Write(r) PROVE MarketInv'
<1> DEFINE n == req[r].nft
           R == [nft[n] EXCEPT !.has_buy_price = FALSE, !.buy_price = 0]
<1>1. n \in Nfts
  BY DEF MarketInv, TypeOK, Request, BidRow, RequestsOK, RequestOK,
         RemoveDirect_Write, NftSteps
<1>2. nft[n] \in NftRow
  BY <1>1 DEF MarketInv, TypeOK
<1>3. /\ nft[n].has_buy_price <=> nft[n].buy_price # 0
      /\ nft[n].has_sell_intent <=> nft[n].asking_price # 0
      /\ ~(nft[n].has_buy_price /\ nft[n].has_sell_intent)
  BY <1>1 DEF MarketInv, ListingConsistent
<1>4. R \in NftRow
  BY <1>1, <1>2 DEF NftRow, Opt
<1>5. /\ R.has_buy_price <=> R.buy_price # 0
      /\ R.has_sell_intent <=> R.asking_price # 0
      /\ ~(R.has_buy_price /\ R.has_sell_intent)
  BY <1>1, <1>2, <1>3 DEF NftRow
<1>6. nft' = [nft EXCEPT ![n] = R]
  BY DEF RemoveDirect_Write
<1>7. nft' \in [Nfts -> NftRow] /\ ListingConsistent'
  <2> HIDE DEF R, n
  <2> QED
    BY <1>1, <1>4, <1>5, <1>6, NftWrite
<1>8. now' = now /\ now' \in Nat /\ now' >= now
  BY DEF RemoveDirect_Write, MarketInv, TypeOK
<1> QED
  BY <1>7, <1>8, SaleFrame, BidFrame, IdleOK, AuctionFrame, WriteStep
     DEF RemoveDirect_Write, Finish

\* execute_direct_buy records a sale between two different wallets.
LEMMA DirectBuy_Inv ==
  ASSUME MarketInv, NEW r \in Reqs, NEW s \in Uuids,
         DirectBuy_Write(r, s)
  PROVE  MarketInv'
<1> DEFINE n == req[r].nft
           R == [nft[n] EXCEPT !.owner = req[r].wallet,
                               !.has_buy_price = FALSE,
                               !.buy_price = 0]
<1>1. n \in Nfts /\ req[r].wallet \in Wallets
  BY DEF MarketInv, TypeOK, Request, BidRow, RequestsOK, RequestOK,
         DirectBuy_Write, NftSteps
<1>2. nft[n] \in NftRow
  BY <1>1 DEF MarketInv, TypeOK
<1>3. /\ nft[n].has_buy_price <=> nft[n].buy_price # 0
      /\ nft[n].has_sell_intent <=> nft[n].asking_price # 0
      /\ ~(nft[n].has_buy_price /\ nft[n].has_sell_intent)
  BY <1>1 DEF MarketInv, ListingConsistent
<1>4. R \in NftRow
  BY <1>1, <1>2 DEF NftRow, Opt
<1>5. /\ R.has_buy_price <=> R.buy_price # 0
      /\ R.has_sell_intent <=> R.asking_price # 0
      /\ ~(R.has_buy_price /\ R.has_sell_intent)
  BY <1>1, <1>2, <1>3 DEF NftRow
<1>6. nft' = [nft EXCEPT ![n] = R]
  BY DEF DirectBuy_Write
<1>7. nft' \in [Nfts -> NftRow] /\ ListingConsistent'
  <2> HIDE DEF R, n
  <2> QED
    BY <1>1, <1>4, <1>5, <1>6, NftWrite
<1>8. now' = now /\ now' \in Nat /\ now' >= now
  BY DEF DirectBuy_Write, MarketInv, TypeOK
<1>9. /\ sale' \in [EventIds -> SaleRow]
      /\ NoSelfPurchase'
      /\ \A x \in Sigs : sale'[x].kind = "BID_ACCEPTED" => sale'[x] = sale[x]
  <2>1. /\ req[r].wallet \in Wallets /\ req[r].seller \in Wallets
        /\ req[r].wallet # req[r].seller /\ req[r].price \in Nat
    BY DEF DirectBuy_Write, MarketInv, RequestsOK, RequestOK, TypeOK, Request
  <2>2. s \in EventIds /\ "DIRECT_SALE" \in SaleKinds
    BY <1>1 DEF EventIds, SaleKinds
  <2>3. CreateSale(s, "DIRECT_SALE", n, req[r].wallet, req[r].seller,
                   req[r].price, TRUE)
    BY DEF DirectBuy_Write
  <2> QED
    BY <1>1, <2>1, <2>2, <2>3, SaleWrite
<1> QED
  BY <1>7, <1>8, <1>9, BidFrame, IdleOK, AuctionFrame, WriteStep
     DEF DirectBuy_Write, Finish

\* set_sell_intent replaces a fixed price by a negotiable one.
LEMMA SetIntent_Inv ==
  ASSUME MarketInv, NEW r \in Reqs, SetIntent_Write(r) PROVE MarketInv'
<1> DEFINE n == req[r].nft
           R == [nft[n] EXCEPT !.has_sell_intent = TRUE,
                               !.asking_price = req[r].price,
                               !.has_buy_price = FALSE,
                               !.buy_price = 0,
                               !.is_listed = TRUE]
<1>1. n \in Nfts /\ req[r].price \in Nat /\ req[r].price > 0
  BY DEF MarketInv, TypeOK, Request, BidRow, RequestsOK, RequestOK,
         SetIntent_Write, NftSteps
<1>2. nft[n] \in NftRow
  BY <1>1 DEF MarketInv, TypeOK
<1>4. R \in NftRow
  BY <1>1, <1>2 DEF NftRow, Opt
<1>5. /\ R.has_buy_price <=> R.buy_price # 0
      /\ R.has_sell_intent <=> R.asking_price # 0
      /\ ~(R.has_buy_price /\ R.has_sell_intent)
  BY <1>1, <1>2 DEF NftRow
<1>6. nft' = [nft EXCEPT ![n] = R]
  BY DEF SetIntent_Write
<1>7. nft' \in [Nfts -> NftRow] /\ ListingConsistent'
  <2> HIDE DEF R, n
  <2> QED
    BY <1>1, <1>4, <1>5, <1>6, NftWrite
<1>8. now' = now /\ now' \in Nat /\ now' >= now
  BY DEF SetIntent_Write, MarketInv, TypeOK
<1> QED
  BY <1>7, <1>8, SaleFrame, BidFrame, IdleOK, AuctionFrame, WriteStep
     DEF SetIntent_Write, Finish

\* remove_sell_intent's second statement clears price and flag.
LEMMA RemoveIntentNft_Inv ==
  ASSUME MarketInv, NEW r \in Reqs, RemoveIntent_Nft(r) PROVE MarketInv'
<1> DEFINE n == req[r].nft
           R == [nft[n] EXCEPT !.has_sell_intent = FALSE,
                               !.asking_price = 0,
                               !.is_listed = FALSE]
<1>1. n \in Nfts
  BY DEF MarketInv, TypeOK, Request, BidRow, RequestsOK, RequestOK,
         RemoveIntent_Nft, NftSteps
<1>2. nft[n] \in NftRow
  BY <1>1 DEF MarketInv, TypeOK
<1>3. /\ nft[n].has_buy_price <=> nft[n].buy_price # 0
      /\ nft[n].has_sell_intent <=> nft[n].asking_price # 0
      /\ ~(nft[n].has_buy_price /\ nft[n].has_sell_intent)
  BY <1>1 DEF MarketInv, ListingConsistent
<1>4. R \in NftRow
  BY <1>1, <1>2 DEF NftRow, Opt
<1>5. /\ R.has_buy_price <=> R.buy_price # 0
      /\ R.has_sell_intent <=> R.asking_price # 0
      /\ ~(R.has_buy_price /\ R.has_sell_intent)
  BY <1>1, <1>2, <1>3 DEF NftRow
<1>6. nft' = [nft EXCEPT ![n] = R]
  BY DEF RemoveIntent_Nft
<1>7. nft' \in [Nfts -> NftRow] /\ ListingConsistent'
  <2> HIDE DEF R, n
  <2> QED
    BY <1>1, <1>4, <1>5, <1>6, NftWrite
<1>8. now' = now /\ now' \in Nat /\ now' >= now
  BY DEF RemoveIntent_Nft, MarketInv, TypeOK
<1> QED
  BY <1>7, <1>8, SaleFrame, BidFrame, IdleOK, AuctionFrame, WriteStep
     DEF RemoveIntent_Nft, Finish

\* accept_asking_price records a sale between two different wallets.
LEMMA AskingPrice_Inv ==
  ASSUME MarketInv, NEW r \in Reqs, AskingPrice_Write(r) PROVE MarketInv'
<1> DEFINE n == req[r].nft
           R == [nft[n] EXCEPT !.owner = req[r].wallet,
                               !.has_sell_intent = FALSE,
                               !.asking_price = 0,
                               !.is_listed = FALSE]
<1>1. n \in Nfts /\ req[r].wallet \in Wallets /\ req[r].sig \in Sigs
  BY DEF MarketInv, TypeOK, Request, BidRow, RequestsOK, RequestOK,
         AskingPrice_Write, NftSteps
<1>2. nft[n] \in NftRow
  BY <1>1 DEF MarketInv, TypeOK
<1>3. /\ nft[n].has_buy_price <=> nft[n].buy_price # 0
      /\ nft[n].has_sell_intent <=> nft[n].asking_price # 0
      /\ ~(nft[n].has_buy_price /\ nft[n].has_sell_intent)
  BY <1>1 DEF MarketInv, ListingConsistent
<1>4. R \in NftRow
  BY <1>1, <1>2 DEF NftRow, Opt
<1>5. /\ R.has_buy_price <=> R.buy_price # 0
      /\ R.has_sell_intent <=> R.asking_price # 0
      /\ ~(R.has_buy_price /\ R.has_sell_intent)
  BY <1>1, <1>2, <1>3 DEF NftRow
<1>6. nft' = [nft EXCEPT ![n] = R]
  BY DEF AskingPrice_Write
<1>7. nft' \in [Nfts -> NftRow] /\ ListingConsistent'
  <2> HIDE DEF R, n
  <2> QED
    BY <1>1, <1>4, <1>5, <1>6, NftWrite
<1>8. now' = now /\ now' \in Nat /\ now' >= now
  BY DEF AskingPrice_Write, MarketInv, TypeOK
<1>9. /\ sale' \in [EventIds -> SaleRow]
      /\ NoSelfPurchase'
      /\ \A x \in Sigs : sale'[x].kind = "BID_ACCEPTED" => sale'[x] = sale[x]
  <2>1. /\ req[r].wallet \in Wallets /\ req[r].seller \in Wallets
        /\ req[r].wallet # req[r].seller /\ req[r].price \in Nat
    BY DEF AskingPrice_Write, MarketInv, RequestsOK, RequestOK, TypeOK, Request
  <2>2. req[r].sig \in EventIds /\ "ASKING_PRICE" \in SaleKinds
    BY <1>1 DEF EventIds, SaleKinds
  <2>3. CreateSale(req[r].sig, "ASKING_PRICE", n, req[r].wallet, req[r].seller,
                   req[r].price, TRUE)
    BY DEF AskingPrice_Write
  <2> QED
    BY <1>1, <2>1, <2>2, <2>3, SaleWrite
<1> QED
  BY <1>7, <1>8, <1>9, BidFrame, IdleOK, AuctionFrame, WriteStep
     DEF AskingPrice_Write, Finish

\* owner_counter_bid rejects the bid and lists at the counter price.
LEMMA CounterBid_Inv ==
  ASSUME MarketInv, NEW r \in Reqs, CounterBid_Write(r) PROVE MarketInv'
<1> DEFINE n == bid[req[r].bid].nft
           R == [nft[n] EXCEPT !.asking_price = req[r].price,
                               !.has_sell_intent = TRUE,
                               !.has_buy_price = FALSE,
                               !.buy_price = 0,
                               !.is_listed = TRUE]
<1>1. /\ req[r].bid \in Bids /\ n \in Nfts
      /\ req[r].price \in Nat /\ req[r].price > 0
  BY DEF MarketInv, TypeOK, Request, BidRow, RequestsOK, RequestOK,
         CounterBid_Write, BidSteps, TxSteps
<1>2. nft[n] \in NftRow
  BY <1>1 DEF MarketInv, TypeOK
<1>4. R \in NftRow
  BY <1>1, <1>2 DEF NftRow, Opt
<1>5. /\ R.has_buy_price <=> R.buy_price # 0
      /\ R.has_sell_intent <=> R.asking_price # 0
      /\ ~(R.has_buy_price /\ R.has_sell_intent)
  BY <1>1, <1>2 DEF NftRow
<1>6. nft' = [nft EXCEPT ![n] = R]
  BY DEF CounterBid_Write
<1>7. nft' \in [Nfts -> NftRow] /\ ListingConsistent'
  <2> HIDE DEF R, n
  <2> QED
    BY <1>1, <1>4, <1>5, <1>6, NftWrite
<1>8. now' = now /\ now' \in Nat /\ now' >= now
  BY DEF CounterBid_Write, MarketInv, TypeOK
<1>10. bid' \in [Bids -> BidRow]
  BY <1>1 DEF CounterBid_Write, MarketInv, TypeOK, BidRow, BidStatus
<1> QED
  BY <1>7, <1>8, SaleFrame, <1>10, IdleOK, AuctionFrame, WriteStep
     DEF CounterBid_Write, Finish

----------------------------------------------------------------------------
(* Private bids                                                            *)

\* A step that writes bids only and then has c in its slot.
LEMMA BidsOnly ==
  ASSUME MarketInv, NEW r \in Reqs, NEW c \in Request, RequestOK(c)',
         c.step \notin AcceptSteps, req' = [req EXCEPT ![r] = c],
         bid' \in [Bids -> BidRow],
         UNCHANGED <<nft, auction, sale, monitor, now>>
  PROVE  MarketInv'
<1>1. now' = now /\ now' \in Nat /\ now' >= now
  BY DEF MarketInv, TypeOK
<1> QED
  BY <1>1, NftFrame, SaleFrame, AuctionFrame, WriteStep

\* Expiry, rejection and cancellation write one bid's status.
LEMMA SaveBidStatus_Inv ==
  ASSUME MarketInv, NEW r \in Reqs, NEW step \in BidSteps \ TxSteps,
         NEW status \in BidStatus, SaveBidStatus(r, step, status)
  PROVE  MarketInv'
<1>1. req[r].bid \in Bids
  BY DEF MarketInv, RequestsOK, RequestOK, SaveBidStatus
<1>2. bid' \in [Bids -> BidRow]
  BY <1>1 DEF SaveBidStatus, MarketInv, TypeOK, BidRow
<1> QED
  BY <1>2, IdleOK, BidsOnly DEF SaveBidStatus, Finish

\* remove_sell_intent's first statement cancels the open bids.
LEMMA RemoveIntentBids_Inv ==
  ASSUME MarketInv, NEW r \in Reqs, RemoveIntent_Bids(r) PROVE MarketInv'
<1>1. req[r] \in Request /\ req[r].nft \in Nfts
  BY DEF MarketInv, TypeOK, RequestsOK, RequestOK, NftSteps, RemoveIntent_Bids
<1>2. PICK c \in Request : c = [req[r] EXCEPT !.step = "removeIntentNft"]
  BY <1>1 DEF Request, Steps
<1>3. c.step = "removeIntentNft" /\ c.nft \in Nfts
  BY <1>1, <1>2 DEF Request
<1>4. RequestOK(c)'
  BY <1>3 DEF RequestOK, BidSteps, TxSteps, NftSteps, AuctionSteps
<1>5. req' = [req EXCEPT ![r] = c]
  BY <1>2 DEF RemoveIntent_Bids, Then
<1>6. bid' \in [Bids -> BidRow]
  BY DEF RemoveIntent_Bids, MarketInv, TypeOK, BidRow, BidStatus
<1> QED
  BY <1>3, <1>4, <1>5, <1>6, BidsOnly DEF RemoveIntent_Bids, AcceptSteps

\* A step of accept_private_bid that works on its transaction record only:
\* the slot moves on to the next step with the same signature.
LEMMA RecordStep ==
  ASSUME MarketInv, NEW r \in Reqs, NEW c \in Request,
         req[r].step \in TxSteps, req' = [req EXCEPT ![r] = c],
         c.step \in AcceptSteps, c = [req[r] EXCEPT !.step = c.step],
         UNCHANGED <<nft, bid, auction, sale, now>>,
         monitor' \in [Sigs -> {"NONE", "SUBMITTED", "CONFIRMED", "FAILED"}]
  PROVE  /\ TypeOK' /\ RequestsOK' /\ ListingConsistent' /\ AuctionsOK'
         /\ AuctionBidsSound' /\ WinnerIsHighBidder' /\ NoSelfPurchase'
         /\ c.sig = req[r].sig /\ req[r].sig \in Sigs
         /\ \A q \in Reqs : req'[q] = IF q = r THEN c ELSE req[q]
         /\ \A q \in Reqs : req[q].step \in TxSteps => req[q].sig \in Sigs
<1> USE DEF MarketInv
<1>1. /\ req[r].sig \in Sigs /\ req[r] \in Request
      /\ req[r].bid # None => req[r].wallet \in Wallets
  BY DEF TypeOK, RequestsOK, RequestOK, TxSteps
<1>2. c.bid = req[r].bid /\ c.sig = req[r].sig /\ c.wallet = req[r].wallet
  BY <1>1 DEF Request
<1>3. RequestOK(c)'
  BY <1>1, <1>2 DEF RequestOK, BidSteps, TxSteps, NftSteps, AuctionSteps,
                    AcceptSteps
<1>4. now' >= now /\ now' \in Nat
  BY DEF TypeOK
<1>5. /\ auction' \in [AuctionIds -> AuctionRow] /\ AuctionsGrow
      /\ AuctionsOK' /\ AuctionBidsSound' /\ WinnerIsHighBidder'
  BY <1>4, AuctionFrame
<1>6. req' \in [Reqs -> Request] /\ RequestsOK'
  BY <1>3, <1>4, <1>5, RequestsKept
<1>7. TypeOK'
  BY <1>4, <1>5, <1>6, NftFrame, BidFrame, SaleFrame DEF TypeOK
<1>8. \A q \in Reqs : req'[q] = IF q = r THEN c ELSE req[q]
  BY DEF TypeOK
<1>9. \A q \in Reqs : req[q].step \in TxSteps => req[q].sig \in Sigs
  BY DEF RequestsOK, RequestOK
<1> QED
  BY <1>1, <1>2, <1>5, <1>6, <1>7, <1>8, <1>9, NftFrame, SaleFrame

\* A fresh transaction record: no other request works on it.
LEMMA Record_Inv ==
  ASSUME MarketInv, NEW r \in Reqs, AcceptBid_Record(r) PROVE MarketInv'
<1> USE DEF MarketInv
<1> DEFINE c == [req[r] EXCEPT !.step = "confirm"]
<1>1. c \in Request /\ c.step = "confirm"
  BY DEF TypeOK, Request, Steps
<1>2. req' = [req EXCEPT ![r] = c] /\ req[r].step \in TxSteps
  BY DEF AcceptBid_Record, Then, TxSteps
<1>3. monitor' \in [Sigs -> {"NONE", "SUBMITTED", "CONFIRMED", "FAILED"}]
  BY DEF AcceptBid_Record, TypeOK
<1> HIDE DEF c
<1>4. /\ TypeOK' /\ RequestsOK' /\ ListingConsistent' /\ AuctionsOK'
      /\ AuctionBidsSound' /\ WinnerIsHighBidder' /\ NoSelfPurchase'
      /\ c.sig = req[r].sig /\ req[r].sig \in Sigs
      /\ \A q \in Reqs : req'[q] = IF q = r THEN c ELSE req[q]
      /\ \A q \in Reqs : req[q].step \in TxSteps => req[q].sig \in Sigs
  <2>1. c = [req[r] EXCEPT !.step = c.step]
    BY <1>1 DEF c
  <2> QED
    BY <2>1, <1>1, <1>2, <1>3, RecordStep DEF AcceptBid_Record, AcceptSteps
<1>5. \A s \in Sigs : monitor'[s] = IF s = req[r].sig THEN "SUBMITTED"
                                    ELSE monitor[s]
  BY <1>4 DEF AcceptBid_Record, TypeOK
<1>6. monitor[req[r].sig] = "NONE" /\ sale' = sale
  BY DEF AcceptBid_Record
<1>7. \A q \in Reqs : req[q].step \in AcceptSteps => req[q].sig # req[r].sig
  BY <1>4, <1>6 DEF RecordsOK, AcceptSteps, TxSteps
<1>8. RecordsOK'
  BY <1>1, <1>4, <1>5, <1>6, <1>7
     DEF RecordsOK, AcceptSteps, AcceptedSaleConfirmed, TxSteps
<1>9. AcceptedSaleConfirmed'
  BY <1>4, <1>5, <1>6 DEF AcceptedSaleConfirmed
<1> QED
  BY <1>4, <1>8, <1>9

\* The record a request works on becomes confirmed.
LEMMA Confirm_Inv ==
  ASSUME MarketInv, NEW r \in Reqs, AcceptBid_Confirm(r) PROVE MarketInv'
<1> USE DEF MarketInv
<1> DEFINE c == [req[r] EXCEPT !.step = "commit"]
<1>1. c \in Request /\ c.step = "commit"
  BY DEF TypeOK, Request, Steps
<1>2. req' = [req EXCEPT ![r] = c] /\ req[r].step \in TxSteps
  BY DEF AcceptBid_Confirm, Then, TxSteps
<1>3. monitor' \in [Sigs -> {"NONE", "SUBMITTED", "CONFIRMED", "FAILED"}]
  BY DEF AcceptBid_Confirm, TypeOK
<1> HIDE DEF c
<1>4. /\ TypeOK' /\ RequestsOK' /\ ListingConsistent' /\ AuctionsOK'
      /\ AuctionBidsSound' /\ WinnerIsHighBidder' /\ NoSelfPurchase'
      /\ c.sig = req[r].sig /\ req[r].sig \in Sigs
      /\ \A q \in Reqs : req'[q] = IF q = r THEN c ELSE req[q]
      /\ \A q \in Reqs : req[q].step \in TxSteps => req[q].sig \in Sigs
  <2>1. c = [req[r] EXCEPT !.step = c.step]
    BY <1>1 DEF c
  <2> QED
    BY <2>1, <1>1, <1>2, <1>3, RecordStep DEF AcceptBid_Confirm, AcceptSteps
<1>5. \A s \in Sigs : monitor'[s] = IF s = req[r].sig THEN "CONFIRMED"
                                    ELSE monitor[s]
  BY <1>4 DEF AcceptBid_Confirm, TypeOK
<1>6. req[r].step = "confirm" /\ sale' = sale
  BY DEF AcceptBid_Confirm
<1>7. \A q \in Reqs : q # r /\ req[q].step \in AcceptSteps =>
                        req[q].sig # req[r].sig
  BY <1>6 DEF RecordsOK, AcceptSteps
<1>8. RecordsOK'
  BY <1>1, <1>4, <1>5, <1>6, <1>7 DEF RecordsOK, AcceptSteps, TxSteps
<1>9. AcceptedSaleConfirmed'
  BY <1>4, <1>5, <1>6 DEF AcceptedSaleConfirmed
<1> QED
  BY <1>4, <1>8, <1>9

\* An error moves a request on to marking its record as failed.
LEMMA Raise_Inv ==
  ASSUME MarketInv, NEW r \in Reqs, AcceptBid_Raise(r) PROVE MarketInv'
<1> USE DEF MarketInv
<1> DEFINE c == [req[r] EXCEPT !.step = "fail"]
<1>1. c \in Request /\ c.step = "fail"
  BY DEF TypeOK, Request, Steps
<1>2. req' = [req EXCEPT ![r] = c] /\ req[r].step \in TxSteps
  BY DEF AcceptBid_Raise, Then, TxSteps
<1>3. monitor' \in [Sigs -> {"NONE", "SUBMITTED", "CONFIRMED", "FAILED"}]
  BY DEF AcceptBid_Raise, TypeOK
<1> HIDE DEF c
<1>4. /\ TypeOK' /\ RequestsOK' /\ ListingConsistent' /\ AuctionsOK'
      /\ AuctionBidsSound' /\ WinnerIsHighBidder' /\ NoSelfPurchase'
      /\ c.sig = req[r].sig /\ req[r].sig \in Sigs
      /\ \A q \in Reqs : req'[q] = IF q = r THEN c ELSE req[q]
      /\ \A q \in Reqs : req[q].step \in TxSteps => req[q].sig \in Sigs
  <2>1. c = [req[r] EXCEPT !.step = c.step]
    BY <1>1 DEF c
  <2> QED
    BY <2>1, <1>1, <1>2, <1>3, RecordStep DEF AcceptBid_Raise, AcceptSteps
<1>6. req[r].step \in {"confirm", "commit"} /\ sale' = sale /\ monitor' = monitor
  BY DEF AcceptBid_Raise
<1>8. RecordsOK'
  BY <1>1, <1>4, <1>6 DEF RecordsOK, AcceptSteps, TxSteps
<1>9. AcceptedSaleConfirmed'
  BY <1>6 DEF AcceptedSaleConfirmed
<1> QED
  BY <1>4, <1>8, <1>9

\* A record marked failed has no sale: its request never committed.
LEMMA Failed_Inv ==
  ASSUME MarketInv, NEW r \in Reqs, AcceptBid_Failed(r) PROVE MarketInv'
<1> USE DEF MarketInv
<1>1. req[r].sig \in Sigs
  BY DEF RequestsOK, RequestOK, TxSteps, AcceptBid_Failed
<1>2. now' >= now /\ now' \in Nat
  BY DEF TypeOK, AcceptBid_Failed
<1>3. /\ auction' \in [AuctionIds -> AuctionRow] /\ AuctionsGrow
      /\ AuctionsOK' /\ AuctionBidsSound' /\ WinnerIsHighBidder'
  BY <1>2, AuctionFrame DEF AcceptBid_Failed
<1>4. req' \in [Reqs -> Request] /\ RequestsOK'
  BY <1>2, <1>3, IdleOK, RequestsKept DEF AcceptBid_Failed, Finish
<1>5. monitor' \in [Sigs -> {"NONE", "SUBMITTED", "CONFIRMED", "FAILED"}]
  BY DEF AcceptBid_Failed, TypeOK
<1>6. TypeOK'
  BY <1>2, <1>3, <1>4, <1>5, NftFrame, BidFrame, SaleFrame
     DEF TypeOK, AcceptBid_Failed
<1>7. /\ \A q \in Reqs : req'[q] = IF q = r THEN Idle ELSE req[q]
      /\ \A s \in Sigs : monitor'[s] = IF s = req[r].sig THEN "FAILED"
                                       ELSE monitor[s]
      /\ \A q \in Reqs : req[q].step \in AcceptSteps => req[q].sig \in Sigs
      /\ req[r].step \in AcceptSteps
  BY DEF AcceptBid_Failed, Finish, TypeOK, RequestsOK, RequestOK, TxSteps,
         AcceptSteps
<1>8. \A q \in Reqs : q # r /\ req[q].step \in AcceptSteps =>
                        req[q].sig # req[r].sig
  BY <1>7 DEF RecordsOK, AcceptSteps
<1>9. RecordsOK'
  BY <1>7, <1>8, IdleOK DEF RecordsOK, AcceptSteps, AcceptBid_Failed
<1>10. AcceptedSaleConfirmed'
  BY <1>1, <1>7 DEF AcceptedSaleConfirmed, RecordsOK, AcceptBid_Failed
<1> QED
  BY <1>3, <1>4, <1>6, <1>9, <1>10, NftFrame, SaleFrame DEF AcceptBid_Failed

\* The sale is recorded under a record that is confirmed at that time.
LEMMA Commit_Inv ==
  ASSUME MarketInv, NEW r \in Reqs, AcceptBid_Commit(r) PROVE MarketInv'
<1> USE DEF MarketInv
<1> DEFINE b == req[r].bid
           n == bid[b].nft
           R == [nft[n] EXCEPT !.owner = bid[b].bidder,
                               !.has_buy_price = FALSE, !.buy_price = 0,
                               !.has_sell_intent = FALSE, !.asking_price = 0]
           S == [kind |-> "BID_ACCEPTED", nft |-> n, buyer |-> bid[b].bidder,
                 seller |-> req[r].wallet, amount |-> mock_decrypted_amount,
                 has_txn |-> TRUE]
<1>1. /\ b \in Bids /\ req[r].sig \in Sigs /\ req[r].wallet \in Wallets
      /\ n \in Nfts /\ bid[b].bidder \in Wallets
  BY DEF TypeOK, BidRow, RequestsOK, RequestOK, AcceptBid_Commit, TxSteps,
         Request, Opt
<1>2. nft[n] \in NftRow
  BY <1>1 DEF TypeOK
<1>3. R \in NftRow
  BY <1>1, <1>2 DEF NftRow
<1>4. /\ R.has_buy_price <=> R.buy_price # 0
      /\ R.has_sell_intent <=> R.asking_price # 0
      /\ ~(R.has_buy_price /\ R.has_sell_intent)
  BY <1>1, <1>2 DEF NftRow
<1>5. nft' = [nft EXCEPT ![n] = R]
  BY DEF AcceptBid_Commit
<1>6. nft' \in [Nfts -> NftRow] /\ ListingConsistent'
  <2> HIDE DEF R, n
  <2> QED
    BY <1>1, <1>3, <1>4, <1>5, NftWrite
<1>7. bid' \in [Bids -> BidRow]
  BY DEF AcceptBid_Commit, TypeOK, BidRow, BidStatus
<1>8. sale' = [sale EXCEPT ![req[r].sig] = S]
  BY DEF AcceptBid_Commit, CreateSale
<1>9. S \in SaleRow
  BY <1>1 DEF SaleRow, SaleKinds, Opt, mock_decrypted_amount
<1>10. sale' \in [EventIds -> SaleRow]
  BY <1>8, <1>9 DEF TypeOK
<1>11. \A x \in EventIds : sale'[x] = IF x = req[r].sig THEN S ELSE sale[x]
  BY <1>8 DEF TypeOK
<1>12. NoSelfPurchase'
  BY <1>11 DEF NoSelfPurchase
<1>13. now' >= now /\ now' \in Nat
  BY DEF TypeOK, AcceptBid_Commit
<1>14. /\ auction' \in [AuctionIds -> AuctionRow] /\ AuctionsGrow
       /\ AuctionsOK' /\ AuctionBidsSound' /\ WinnerIsHighBidder'
  BY <1>13, AuctionFrame DEF AcceptBid_Commit
<1>15. req' \in [Reqs -> Request] /\ RequestsOK'
  BY <1>13, <1>14, IdleOK, RequestsKept DEF AcceptBid_Commit, Finish
<1>16. TypeOK'
  BY <1>6, <1>7, <1>10, <1>13, <1>14, <1>15 DEF TypeOK, AcceptBid_Commit
<1>17. /\ \A q \in Reqs : req'[q] = IF q = r THEN Idle ELSE req[q]
       /\ \A q \in Reqs : req[q].step \in AcceptSteps => req[q].sig \in Sigs
       /\ req[r].step = "commit" /\ monitor' = monitor
  BY DEF AcceptBid_Commit, Finish, TypeOK, RequestsOK, RequestOK, TxSteps,
         AcceptSteps
<1>18. \A q \in Reqs : q # r /\ req[q].step \in AcceptSteps =>
                         req[q].sig # req[r].sig
  BY <1>17 DEF RecordsOK, AcceptSteps
<1> HIDE DEF S
<1>19. RecordsOK'
  <2>1. ASSUME NEW q \in Reqs, req'[q].step \in AcceptSteps
        PROVE  /\ q # r /\ req'[q] = req[q] /\ req[q].sig \in Sigs
               /\ sale'[req[q].sig] = sale[req[q].sig]
    BY <2>1, <1>11, <1>17, <1>18, IdleOK DEF EventIds
  <2> QED
    BY <2>1, <1>17 DEF RecordsOK, AcceptSteps
<1>20. AcceptedSaleConfirmed'
  BY <1>1, <1>11, <1>17 DEF AcceptedSaleConfirmed, RecordsOK, EventIds
<1> QED
  BY <1>6, <1>12, <1>14, <1>15, <1>16, <1>19, <1>20
----------------------------------------------------------------------------
(* Auctions                                                                *)

\* A row that keeps the part of the invariant that concerns one auction.
AuctionRowOK(A) ==
  /\ A.status # "NONE" => A.nft \in Nfts /\ A.creator \in Wallets
  /\ A.current_bid = 0 <=> A.bid_count = 0
  /\ A.current_bid = 0 <=> A.current_bidder = None
  /\ A.current_bid # 0 => /\ A.bid_count <= A.current_bid - A.starting_price
                          /\ A.current_bidder # A.creator
  /\ A.winner # None => /\ A.winner = A.current_bidder
                        /\ A.final_price = A.current_bid
                        /\ now >= A.end_time

\* What the invariant says of each auction row.
LEMMA AuctionRowsOK ==
  ASSUME MarketInv, NEW a \in AuctionIds
  PROVE  auction[a] \in AuctionRow /\ AuctionRowOK(auction[a])
  BY DEF MarketInv, TypeOK, AuctionsOK, AuctionBidsSound, WinnerIsHighBidder,
         AuctionRowOK

\* A step that writes one auction row.
LEMMA AuctionWrite ==
  ASSUME MarketInv, NEW a \in AuctionIds, NEW A \in AuctionRow,
         auction' = [auction EXCEPT ![a] = A], AuctionRowOK(A), now' = now,
         auction[a].status # "NONE" =>
           /\ A.status # "NONE" /\ A.end_time = auction[a].end_time
           /\ auction[a].current_bidder # None => A.current_bidder # None
  PROVE  /\ auction' \in [AuctionIds -> AuctionRow]
         /\ AuctionsGrow /\ AuctionsOK' /\ AuctionBidsSound'
         /\ WinnerIsHighBidder'
<1>1. auction' \in [AuctionIds -> AuctionRow]
  BY DEF MarketInv, TypeOK
<1>2. \A x \in AuctionIds : auction'[x] = IF x = a THEN A ELSE auction[x]
  BY DEF MarketInv, TypeOK
<1>3. AuctionsGrow
  BY <1>2 DEF AuctionsGrow
<1>4. AuctionsOK'
  BY <1>2 DEF MarketInv, AuctionsOK, AuctionRowOK
<1>5. AuctionBidsSound'
  BY <1>2 DEF MarketInv, AuctionBidsSound, AuctionRowOK
<1>6. WinnerIsHighBidder'
  BY <1>2 DEF MarketInv, WinnerIsHighBidder, AuctionRowOK
<1> QED
  BY <1>1, <1>3, <1>4, <1>5, <1>6

\* A step that changes only the auction link and the listing flag of an NFT,
\* or its owner.
LEMMA NftLinkWrite ==
  ASSUME MarketInv, NEW n \in Nfts, NEW R \in NftRow,
         nft' = [nft EXCEPT ![n] = R],
         R.has_buy_price = nft[n].has_buy_price,
         R.buy_price = nft[n].buy_price,
         R.has_sell_intent = nft[n].has_sell_intent,
         R.asking_price = nft[n].asking_price
  PROVE  nft' \in [Nfts -> NftRow] /\ ListingConsistent'
<1>1. /\ R.has_buy_price <=> R.buy_price # 0
      /\ R.has_sell_intent <=> R.asking_price # 0
      /\ ~(R.has_buy_price /\ R.has_sell_intent)
  BY DEF MarketInv, ListingConsistent
<1> QED
  BY <1>1, NftWrite

\* A new auction row is sound: no bid, no winner.
LEMMA CreateAuction_Inv ==
  ASSUME MarketInv, NEW r \in Reqs, CreateAuction_Write(r) PROVE MarketInv'
<1> DEFINE n == req[r].nft
           a == req[r].auction
           R == [nft[n] EXCEPT !.active_auction = a, !.is_listed = TRUE]
           A == [NoAuction EXCEPT !.status = "ACTIVE", !.nft = n,
                   !.creator = req[r].wallet, !.end_time = now + req[r].hours,
                   !.starting_price = req[r].price]
<1>1. /\ n \in Nfts /\ a \in AuctionIds /\ req[r].wallet \in Wallets
      /\ req[r].price \in Nat /\ req[r].hours \in Nat
      /\ now \in Nat
  BY DEF MarketInv, TypeOK, Request, RequestsOK, RequestOK, NftSteps,
         CreateAuction_Write
<1>2. nft[n] \in NftRow
  BY <1>1 DEF MarketInv, TypeOK
<1>3. /\ R \in NftRow
      /\ R.has_buy_price = nft[n].has_buy_price
      /\ R.buy_price = nft[n].buy_price
      /\ R.has_sell_intent = nft[n].has_sell_intent
      /\ R.asking_price = nft[n].asking_price
  BY <1>1, <1>2 DEF NftRow, Opt
<1>4. A \in AuctionRow /\ AuctionRowOK(A)
  <2>1. A \in AuctionRow
    <3>1. now + req[r].hours \in Nat
      BY <1>1
    <3>2. NoAuction \in AuctionRow
      BY DEF AuctionRow, NoAuction, Opt
    <3>3. n \in Opt(Nfts) /\ req[r].wallet \in Opt(Wallets)
      BY <1>1 DEF Opt
    <3> QED
      BY <1>1, <3>1, <3>2, <3>3 DEF AuctionRow
  <2>2. /\ A.nft = n /\ A.creator = req[r].wallet /\ A.current_bid = 0
        /\ A.bid_count = 0 /\ A.current_bidder = None /\ A.winner = None
    BY DEF NoAuction
  <2> HIDE DEF A
  <2> QED
    BY <1>1, <2>1, <2>2 DEF AuctionRowOK
<1>5. nft' = [nft EXCEPT ![n] = R] /\ auction' = [auction EXCEPT ![a] = A]
      /\ auction[a].status = "NONE" /\ now' = now
  BY DEF CreateAuction_Write
<1> HIDE DEF n, a, R, A
<1>6. nft' \in [Nfts -> NftRow] /\ ListingConsistent'
  BY <1>1, <1>3, <1>5, NftLinkWrite
<1>7. /\ auction' \in [AuctionIds -> AuctionRow] /\ AuctionsGrow
      /\ AuctionsOK' /\ AuctionBidsSound' /\ WinnerIsHighBidder'
  BY <1>1, <1>4, <1>5, AuctionWrite
<1> QED
  BY <1>5, <1>6, <1>7, IdleOK, BidFrame, SaleFrame, WriteStep
     DEF CreateAuction_Write, Finish

\* An acceptable bid keeps the high bid sound.
LEMMA AuctionBid_Inv ==
  ASSUME MarketInv, NEW r \in Reqs, AuctionBid_Write(r) PROVE MarketInv'
<1> DEFINE a == req[r].auction
           A == [auction[a] EXCEPT !.current_bid = req[r].price,
                                   !.current_bidder = req[r].wallet,
                                   !.bid_count = auction[a].bid_count + 1]
<1>1. /\ a \in AuctionIds /\ req[r].wallet \in Wallets /\ req[r].price \in Nat
      /\ auction[a].status # "NONE"
  BY DEF MarketInv, TypeOK, Request, RequestsOK, RequestOK, AuctionSteps,
         AuctionBid_Write
<1>2. auction[a] \in AuctionRow /\ AuctionRowOK(auction[a]) /\ now \in Nat
  BY <1>1, AuctionRowsOK DEF MarketInv, TypeOK
<1>3. /\ A.status = auction[a].status /\ A.end_time = auction[a].end_time
      /\ A.current_bidder = req[r].wallet
      /\ A.current_bid = req[r].price /\ A.winner = auction[a].winner
      /\ A.bid_count = auction[a].bid_count + 1 /\ A.nft = auction[a].nft
      /\ A.starting_price = auction[a].starting_price
      /\ A.creator = auction[a].creator
  BY <1>2 DEF AuctionRow
<1>8. A \in AuctionRow
  <2>1. auction[a].bid_count + 1 \in Nat
    BY <1>2 DEF AuctionRow
  <2>2. req[r].wallet \in Opt(Wallets)
    BY <1>1 DEF Opt
  <2> QED
    BY <1>1, <1>2, <2>1, <2>2 DEF AuctionRow
<1>4. BidAcceptable(auction[a], req[r].wallet, req[r].price)
      /\ auction' = [auction EXCEPT ![a] = A] /\ now' = now
  BY DEF AuctionBid_Write
<1> HIDE DEF a, A
<1>5. AuctionRowOK(A)
  <2>1. auction[a].winner = None
    BY <1>2, <1>4 DEF BidAcceptable, AuctionRowOK, AuctionRow
  <2>2. /\ auction[a].bid_count \in Nat /\ auction[a].current_bid \in Nat
        /\ auction[a].starting_price \in Nat
    BY <1>2 DEF AuctionRow
  <2>3. A.current_bid # 0 /\ A.bid_count # 0
        /\ A.bid_count <= A.current_bid - A.starting_price
    BY <1>1, <1>2, <1>3, <1>4, <2>2 DEF BidAcceptable, AuctionRowOK
  <2>4. A.current_bidder # None /\ A.current_bidder # A.creator
    BY <1>1, <1>3, <1>4, MarketConstants DEF BidAcceptable
  <2> QED
    BY <1>1, <1>2, <1>3, <2>1, <2>3, <2>4 DEF AuctionRowOK
<1>6. A.current_bidder # None
  BY <1>1, <1>3, MarketConstants
<1>7. /\ auction' \in [AuctionIds -> AuctionRow] /\ AuctionsGrow
      /\ AuctionsOK' /\ AuctionBidsSound' /\ WinnerIsHighBidder'
  BY <1>1, <1>3, <1>4, <1>5, <1>6, <1>8, AuctionWrite
<1> QED
  BY <1>4, <1>7, IdleOK, NftFrame, BidFrame, SaleFrame, WriteStep
     DEF AuctionBid_Write, Finish

\* The no-bid path of finalize_auction first releases the NFT ...
LEMMA CloseNft_Inv ==
  ASSUME MarketInv, NEW r \in Reqs, Finalize_CloseNft(r) PROVE MarketInv'
<1> DEFINE n == auction[req[r].auction].nft
           R == [nft[n] EXCEPT !.active_auction = None, !.is_listed = FALSE]
<1>1. /\ req[r] \in Request /\ req[r].auction \in AuctionIds
      /\ auction[req[r].auction].status # "NONE"
  BY DEF MarketInv, TypeOK, RequestsOK, RequestOK, AuctionSteps,
         Finalize_CloseNft
<1>2. n \in Nfts
  BY <1>1, AuctionRowsOK DEF AuctionRowOK
<1>3. nft[n] \in NftRow
  BY <1>2 DEF MarketInv, TypeOK
<1>4. /\ R \in NftRow
      /\ R.has_buy_price = nft[n].has_buy_price
      /\ R.buy_price = nft[n].buy_price
      /\ R.has_sell_intent = nft[n].has_sell_intent
      /\ R.asking_price = nft[n].asking_price
  BY <1>3 DEF NftRow, Opt
<1>5. nft' = [nft EXCEPT ![n] = R] /\ auction' = auction /\ now' = now
  BY DEF Finalize_CloseNft
<1>6. PICK c \in Request : c = [req[r] EXCEPT !.step = "closeAuction"]
  BY <1>1 DEF Request, Steps
<1>7. c.step = "closeAuction" /\ c.auction = req[r].auction
  BY <1>1, <1>6 DEF Request
<1>8. RequestOK(c)'
  BY <1>1, <1>5, <1>7 DEF RequestOK, BidSteps, TxSteps, NftSteps, AuctionSteps
<1>9. req' = [req EXCEPT ![r] = c]
  BY <1>6 DEF Finalize_CloseNft, Then
<1> HIDE DEF n, R
<1>10. nft' \in [Nfts -> NftRow] /\ ListingConsistent'
  BY <1>2, <1>4, <1>5, NftLinkWrite
<1>11. now' \in Nat /\ now' >= now
  BY <1>5 DEF MarketInv, TypeOK
<1> QED
  BY <1>5, <1>7, <1>8, <1>9, <1>10, <1>11, BidFrame, SaleFrame, AuctionFrame,
     WriteStep DEF Finalize_CloseNft, AcceptSteps

\* Cancelling an auction changes nothing but its status.
LEMMA CancelRow ==
  ASSUME MarketInv, NEW a \in AuctionIds, auction[a].status # "NONE",
         now' = now,
         auction' = [auction EXCEPT ![a] = [@ EXCEPT !.status = "CANCELLED"]]
  PROVE  /\ auction' \in [AuctionIds -> AuctionRow]
         /\ AuctionsGrow /\ AuctionsOK' /\ AuctionBidsSound'
         /\ WinnerIsHighBidder'
<1> DEFINE A == [auction[a] EXCEPT !.status = "CANCELLED"]
<1>1. auction[a] \in AuctionRow /\ AuctionRowOK(auction[a])
  BY AuctionRowsOK
<1>2. A \in AuctionRow
  BY <1>1 DEF AuctionRow
<1>3. /\ A.status = "CANCELLED" /\ A.end_time = auction[a].end_time
      /\ A.current_bidder = auction[a].current_bidder
      /\ A.current_bid = auction[a].current_bid /\ A.nft = auction[a].nft
      /\ A.bid_count = auction[a].bid_count /\ A.winner = auction[a].winner
      /\ A.starting_price = auction[a].starting_price
      /\ A.creator = auction[a].creator
      /\ A.final_price = auction[a].final_price
  BY <1>1 DEF AuctionRow
<1> HIDE DEF A
<1>4. AuctionRowOK(A)
  BY <1>1, <1>3 DEF AuctionRowOK
<1>5. auction' = [auction EXCEPT ![a] = A]
  BY DEF A
<1> QED
  BY <1>2, <1>3, <1>4, <1>5, AuctionWrite

\* ... and then closes the auction.
LEMMA CloseAuction_Inv ==
  ASSUME MarketInv, NEW r \in Reqs, Finalize_CloseAuction(r) PROVE MarketInv'
<1>1. /\ req[r].auction \in AuctionIds
      /\ auction[req[r].auction].status # "NONE"
  BY DEF MarketInv, RequestsOK, RequestOK, AuctionSteps, Finalize_CloseAuction
<1>2. /\ auction' \in [AuctionIds -> AuctionRow] /\ AuctionsGrow
      /\ AuctionsOK' /\ AuctionBidsSound' /\ WinnerIsHighBidder'
  BY <1>1, CancelRow DEF Finalize_CloseAuction, SaveAuctionCancelled
<1> QED
  BY <1>2, IdleOK, NftFrame, BidFrame, SaleFrame, WriteStep
     DEF Finalize_CloseAuction, Finish

\* cancel_auction's closure.
LEMMA CancelAuction_Inv ==
  ASSUME MarketInv, NEW r \in Reqs, CancelAuction_Write(r) PROVE MarketInv'
<1> DEFINE n == auction[req[r].auction].nft
           R == [nft[n] EXCEPT !.active_auction = None, !.is_listed = FALSE]
<1>1. /\ req[r].auction \in AuctionIds
      /\ auction[req[r].auction].status # "NONE"
  BY DEF MarketInv, RequestsOK, RequestOK, AuctionSteps, CancelAuction_Write
<1>2. n \in Nfts
  BY <1>1, AuctionRowsOK DEF AuctionRowOK
<1>3. nft[n] \in NftRow
  BY <1>2 DEF MarketInv, TypeOK
<1>4. /\ R \in NftRow
      /\ R.has_buy_price = nft[n].has_buy_price
      /\ R.buy_price = nft[n].buy_price
      /\ R.has_sell_intent = nft[n].has_sell_intent
      /\ R.asking_price = nft[n].asking_price
  BY <1>3 DEF NftRow, Opt
<1>5. nft' = [nft EXCEPT ![n] = R] /\ now' = now
  BY DEF CancelAuction_Write
<1> HIDE DEF n, R
<1>6. nft' \in [Nfts -> NftRow] /\ ListingConsistent'
  BY <1>2, <1>4, <1>5, NftLinkWrite
<1>7. /\ auction' \in [AuctionIds -> AuctionRow] /\ AuctionsGrow
      /\ AuctionsOK' /\ AuctionBidsSound' /\ WinnerIsHighBidder'
  BY <1>1, CancelRow DEF CancelAuction_Write, SaveAuctionCancelled
<1> QED
  BY <1>5, <1>6, <1>7, IdleOK, BidFrame, SaleFrame, WriteStep
     DEF CancelAuction_Write, Finish

\* finalize_auction's second transaction: the bidder it reads again exists.
LEMMA Finalize_Inv ==
  ASSUME MarketInv, NEW r \in Reqs, Finalize_Write(r) PROVE MarketInv'
<1> DEFINE a == req[r].auction
           n == auction[a].nft
           w == auction[a].current_bidder
           A == [auction[a] EXCEPT !.status = "COMPLETED", !.winner = w,
                                   !.final_price = auction[a].current_bid]
           R == [nft[n] EXCEPT !.owner = w, !.active_auction = None,
                               !.is_listed = FALSE]
<1>1. /\ a \in AuctionIds /\ req[r].sig \in Sigs /\ auction[a].status # "NONE"
      /\ w # None /\ now >= auction[a].end_time
  BY DEF MarketInv, RequestsOK, RequestOK, AuctionSteps, Finalize_Write
<1>2. auction[a] \in AuctionRow /\ AuctionRowOK(auction[a])
  BY <1>1, AuctionRowsOK
<1>3. /\ n \in Nfts /\ w \in Wallets /\ auction[a].creator \in Wallets
      /\ auction[a].current_bid \in Nat /\ w # auction[a].creator
  BY <1>1, <1>2 DEF AuctionRow, AuctionRowOK, Opt
<1>4. nft[n] \in NftRow
  BY <1>3 DEF MarketInv, TypeOK
<1>5. R \in NftRow
  BY <1>3, <1>4 DEF NftRow, Opt
<1>6. /\ R.has_buy_price = nft[n].has_buy_price
      /\ R.buy_price = nft[n].buy_price
      /\ R.has_sell_intent = nft[n].has_sell_intent
      /\ R.asking_price = nft[n].asking_price
  BY <1>4 DEF NftRow
<1>7. A \in AuctionRow
  <2>1. w \in Opt(Wallets)
    BY <1>3 DEF Opt
  <2> QED
    BY <1>2, <1>3, <2>1 DEF AuctionRow
<1>8. /\ A.status = "COMPLETED" /\ A.end_time = auction[a].end_time
      /\ A.current_bidder = w /\ A.winner = w
      /\ A.current_bid = auction[a].current_bid /\ A.nft = n
      /\ A.bid_count = auction[a].bid_count
      /\ A.starting_price = auction[a].starting_price
      /\ A.creator = auction[a].creator
      /\ A.final_price = auction[a].current_bid
  BY <1>2 DEF AuctionRow
<1>9. /\ nft' = [nft EXCEPT ![n] = R] /\ auction' = [auction EXCEPT ![a] = A]
      /\ CreateSale(req[r].sig, "AUCTION_SALE", n, w, auction[a].creator,
                    auction[a].current_bid, FALSE)
      /\ now' = now
  BY DEF Finalize_Write
<1> HIDE DEF a, n, w, A, R
<1>10. AuctionRowOK(A)
  BY <1>1, <1>2, <1>3, <1>8 DEF AuctionRowOK, n, w
<1>11. nft' \in [Nfts -> NftRow] /\ ListingConsistent'
  BY <1>3, <1>5, <1>6, <1>9, NftLinkWrite
<1>12. /\ auction' \in [AuctionIds -> AuctionRow] /\ AuctionsGrow
       /\ AuctionsOK' /\ AuctionBidsSound' /\ WinnerIsHighBidder'
  <2>1. A.status # "NONE" /\ A.current_bidder # None
    BY <1>1, <1>8
  <2> QED
    BY <2>1, <1>1, <1>7, <1>8, <1>9, <1>10, AuctionWrite
<1>13. /\ sale' \in [EventIds -> SaleRow]
       /\ NoSelfPurchase'
       /\ \A x \in Sigs : sale'[x].kind = "BID_ACCEPTED" => sale'[x] = sale[x]
  <2>1. req[r].sig \in EventIds /\ "AUCTION_SALE" \in SaleKinds
    BY <1>1 DEF EventIds, SaleKinds
  <2> QED
    BY <2>1, <1>3, <1>9, SaleWrite
<1> QED
  BY <1>9, <1>11, <1>12, <1>13, IdleOK, BidFrame, WriteStep
     DEF Finalize_Write, Finish

----------------------------------------------------------------------------
(* Steps of nobody's request                                               *)

\* A step that leaves requests, bids, NFTs and sales alone.
LEMMA QuietStep ==
  ASSUME MarketInv, UNCHANGED <<nft, bid, sale, monitor, req>>,
         now' \in Nat, now' >= now,
         auction' \in [AuctionIds -> AuctionRow],
         AuctionsGrow, AuctionsOK', AuctionBidsSound', WinnerIsHighBidder'
  PROVE  MarketInv'
<1> USE DEF MarketInv
<1>1. TypeOK'
  BY DEF TypeOK
<1>2. ASSUME NEW q \in Reqs PROVE RequestOK(req[q])'
  <2>1. req'[q] = req[q] /\ RequestOK(req[q])
    BY DEF RequestsOK
  <2>2. ASSUME req[q].step \in AuctionSteps, req[q].auction \in AuctionIds
        PROVE  auction'[req[q].auction].status # "NONE"
    BY <2>1, <2>2 DEF RequestOK, AuctionsGrow
  <2>3. ASSUME req[q].step = "finalize", req[q].auction \in AuctionIds
        PROVE  /\ auction'[req[q].auction].current_bidder # None
               /\ now' >= auction'[req[q].auction].end_time
    BY <2>1, <2>3 DEF RequestOK, AuctionsGrow, AuctionSteps, TypeOK, AuctionRow
  <2> QED
    BY <2>1, <2>2, <2>3 DEF RequestOK, AuctionSteps
<1>3. RequestsOK'
  BY <1>2 DEF RequestsOK
<1>4. RecordsOK' /\ AcceptedSaleConfirmed' /\ ListingConsistent'
      /\ NoSelfPurchase'
  BY DEF RecordsOK, AcceptedSaleConfirmed, ListingConsistent, NoSelfPurchase
<1> QED
  BY <1>1, <1>3, <1>4

\* Time only makes finished auctions more finished.
LEMMA Tick_Inv ==
  ASSUME MarketInv, Tick PROVE MarketInv'
<1>1. now' \in Nat /\ now' >= now
  BY DEF Tick, MarketInv, TypeOK
<1> QED
  BY <1>1, AuctionFrame, QuietStep DEF Tick

\* The admin action changes nothing but the status.
LEMMA AdminCancel_Inv ==
  ASSUME MarketInv, NEW a \in AuctionIds, Admin_CancelAuction(a)
  PROVE  MarketInv'
<1>1. now' \in Nat /\ now' >= now /\ now' = now
  BY DEF Admin_CancelAuction, MarketInv, TypeOK
<1>2. /\ auction' \in [AuctionIds -> AuctionRow] /\ AuctionsGrow
      /\ AuctionsOK' /\ AuctionBidsSound' /\ WinnerIsHighBidder'
  BY <1>1, CancelRow DEF Admin_CancelAuction
<1> QED
  BY <1>1, <1>2, QuietStep DEF Admin_CancelAuction

\* A step that changes nothing.
LEMMA Stutter_Inv ==
  ASSUME MarketInv, UNCHANGED vars PROVE MarketInv'
<1>1. now' \in Nat /\ now' >= now
  BY DEF vars, MarketInv, TypeOK
<1> QED
  BY <1>1, AuctionFrame, QuietStep DEF vars

----------------------------------------------------------------------------
(* Handlers that pass their checks                                         *)

\* A bid handler that passed its checks parks a sound request.
LEMMA BidLoads_Inv ==
  ASSUME MarketInv, NEW r \in Reqs, NEW w \in Wallets, NEW b \in Bids,
         \/ \E s \in Sigs : AcceptBid_Load(r, w, b, s)
         \/ AcceptBid_Expired(r, w, b)
         \/ RejectBid_Load(r, w, b)
         \/ CancelBid_Load(r, w, b)
         \/ \E p \in Prices : CounterBid_Load(r, w, b, p)
  PROVE  MarketInv'
<1> USE DEF Idle, Request, Steps, Opt, RequestOK, BidSteps, TxSteps, NftSteps,
            AuctionSteps, AcceptSteps
<1>1. ASSUME NEW s \in Sigs, AcceptBid_Load(r, w, b, s)
      PROVE  MarketInv'
  <2> DEFINE c == [Idle EXCEPT !.step = "record", !.wallet = w, !.bid = b,
                               !.sig = s]
  <2>1. c \in Request /\ RequestOK(c) /\ c.step \notin AcceptSteps
    OBVIOUS
  <2>2. Begin(r, "accept_private_bid", c)
    BY <1>1 DEF AcceptBid_Load
  <2> QED
    BY <2>1, <2>2, Begin_Inv
<1>2. CASE AcceptBid_Expired(r, w, b)
  <2> DEFINE c == [Idle EXCEPT !.step = "expire", !.wallet = w, !.bid = b]
  <2>1. c \in Request /\ RequestOK(c) /\ c.step \notin AcceptSteps
    OBVIOUS
  <2>2. Begin(r, "accept_private_bid", c)
    BY <1>2 DEF AcceptBid_Expired
  <2> QED
    BY <2>1, <2>2, Begin_Inv
<1>3. CASE RejectBid_Load(r, w, b)
  <2> DEFINE c == [Idle EXCEPT !.step = "reject", !.wallet = w, !.bid = b]
  <2>1. c \in Request /\ RequestOK(c) /\ c.step \notin AcceptSteps
    OBVIOUS
  <2>2. Begin(r, "reject_private_bid", c)
    BY <1>3 DEF RejectBid_Load
  <2> QED
    BY <2>1, <2>2, Begin_Inv
<1>4. CASE CancelBid_Load(r, w, b)
  <2> DEFINE c == [Idle EXCEPT !.step = "cancelBid", !.wallet = w,
                               !.bid = b]
  <2>1. c \in Request /\ RequestOK(c) /\ c.step \notin AcceptSteps
    OBVIOUS
  <2>2. Begin(r, "cancel_private_bid", c)
    BY <1>4 DEF CancelBid_Load
  <2> QED
    BY <2>1, <2>2, Begin_Inv
<1>5. ASSUME NEW p \in Prices, CounterBid_Load(r, w, b, p)
      PROVE  MarketInv'
  <2> DEFINE c == [Idle EXCEPT !.step = "counter", !.wallet = w, !.bid = b,
                               !.price = p]
  <2>0. p \in Nat /\ p > 0
    BY <1>5, MarketConstants DEF CounterBid_Load
  <2>1. c \in Request /\ RequestOK(c) /\ c.step \notin AcceptSteps
    BY <2>0
  <2>2. Begin(r, "owner_counter_bid", c)
    BY <1>5 DEF CounterBid_Load
  <2> QED
    BY <2>1, <2>2, Begin_Inv
<1> QED
  BY <1>1, <1>2, <1>3, <1>4, <1>5

\* A confirmation parks a request without a bid.
LEMMA ConfirmLoad_Inv ==
  ASSUME MarketInv, NEW r \in Reqs, NEW s \in Sigs, ConfirmBid_Load(r, s)
  PROVE  MarketInv'
<1> DEFINE c == [Idle EXCEPT !.step = "record", !.sig = s]
<1>1. c \in Request /\ RequestOK(c) /\ c.step \notin AcceptSteps
  BY DEF Idle, Request, Steps, Opt, RequestOK, BidSteps, TxSteps, NftSteps,
         AuctionSteps, AcceptSteps
<1>2. Begin(r, "confirm_private_bid_tx", c)
  BY DEF ConfirmBid_Load
<1> QED
  BY <1>1, <1>2, Begin_Inv

\* A listing handler that passed its checks parks a sound request.
LEMMA ListingLoads_Inv ==
  ASSUME MarketInv, NEW r \in Reqs, NEW w \in Wallets, NEW n \in Nfts,
         \/ \E p \in Prices : DirectSell_Load(r, w, n, p)
         \/ RemoveDirect_Load(r, w, n)
         \/ DirectBuy_Load(r, w, n)
         \/ \E p \in Prices : SetIntent_Load(r, w, n, p)
         \/ RemoveIntent_Load(r, w, n)
         \/ \E s \in Sigs : AskingPrice_Load(r, w, n, s)
  PROVE  MarketInv'
<1> USE DEF Idle, Request, Steps, Opt, RequestOK, BidSteps, TxSteps, NftSteps,
            AuctionSteps, AcceptSteps
<1>1. ASSUME NEW p \in Prices, DirectSell_Load(r, w, n, p)
      PROVE  MarketInv'
  <2> DEFINE c == [Idle EXCEPT !.step = "directSell", !.wallet = w,
                               !.nft = n, !.price = p]
  <2>0. p \in Nat /\ p > 0
    BY <1>1, MarketConstants DEF DirectSell_Load
  <2>1. c \in Request /\ RequestOK(c) /\ c.step \notin AcceptSteps
    BY <2>0
  <2>2. Begin(r, "set_direct_sell", c)
    BY <1>1 DEF DirectSell_Load
  <2> QED
    BY <2>1, <2>2, Begin_Inv
<1>2. CASE RemoveDirect_Load(r, w, n)
  <2> DEFINE c == [Idle EXCEPT !.step = "removeDirect", !.wallet = w,
                               !.nft = n]
  <2>1. c \in Request /\ RequestOK(c) /\ c.step \notin AcceptSteps
    OBVIOUS
  <2>2. Begin(r, "remove_direct_sell", c)
    BY <1>2 DEF RemoveDirect_Load
  <2> QED
    BY <2>1, <2>2, Begin_Inv
<1>3. CASE DirectBuy_Load(r, w, n)
  <2> DEFINE c == [Idle EXCEPT !.step = "directBuy", !.wallet = w,
                               !.nft = n, !.price = nft[n].buy_price,
                               !.seller = nft[n].owner]
  <2>0. /\ nft[n].buy_price \in Nat /\ nft[n].owner \in Wallets
        /\ nft[n].owner # w
    BY <1>3, MarketConstants DEF DirectBuy_Load, MarketInv,
       TypeOK, NftRow
  <2>1. c \in Request /\ RequestOK(c) /\ c.step \notin AcceptSteps
    BY <2>0
  <2>2. Begin(r, "execute_direct_buy", c)
    BY <1>3 DEF DirectBuy_Load
  <2> QED
    BY <2>1, <2>2, Begin_Inv
<1>4. ASSUME NEW p \in Prices, SetIntent_Load(r, w, n, p)
      PROVE  MarketInv'
  <2> DEFINE c == [Idle EXCEPT !.step = "setIntent", !.wallet = w,
                               !.nft = n, !.price = p]
  <2>0. p \in Nat /\ p > 0
    BY <1>4, MarketConstants DEF SetIntent_Load
  <2>1. c \in Request /\ RequestOK(c) /\ c.step \notin AcceptSteps
    BY <2>0
  <2>2. Begin(r, "set_sell_intent", c)
    BY <1>4 DEF SetIntent_Load
  <2> QED
    BY <2>1, <2>2, Begin_Inv
<1>5. CASE RemoveIntent_Load(r, w, n)
  <2> DEFINE c == [Idle EXCEPT !.step = "removeIntentBids", !.wallet = w,
                               !.nft = n]
  <2>1. c \in Request /\ RequestOK(c) /\ c.step \notin AcceptSteps
    OBVIOUS
  <2>2. Begin(r, "remove_sell_intent", c)
    BY <1>5 DEF RemoveIntent_Load
  <2> QED
    BY <2>1, <2>2, Begin_Inv
<1>6. ASSUME NEW s \in Sigs, AskingPrice_Load(r, w, n, s)
      PROVE  MarketInv'
  <2> DEFINE c == [Idle EXCEPT !.step = "askingPrice", !.wallet = w,
                               !.nft = n, !.price = nft[n].asking_price,
                               !.seller = nft[n].owner, !.sig = s]
  <2>0. /\ nft[n].asking_price \in Nat /\ nft[n].owner \in Wallets
        /\ nft[n].owner # w
    BY <1>6, MarketConstants DEF AskingPrice_Load, MarketInv,
       TypeOK, NftRow
  <2>1. c \in Request /\ RequestOK(c) /\ c.step \notin AcceptSteps
    BY <2>0
  <2>2. Begin(r, "accept_asking_price", c)
    BY <1>6 DEF AskingPrice_Load
  <2> QED
    BY <2>1, <2>2, Begin_Inv
<1> QED
  BY <1>1, <1>2, <1>3, <1>4, <1>5, <1>6

\* An auction handler that passed its checks parks a sound request.
LEMMA AuctionLoads_Inv ==
  ASSUME MarketInv, NEW r \in Reqs, NEW w \in Wallets, NEW a \in AuctionIds,
         \/ \E n \in Nfts, p \in Prices, h \in Hours :
              CreateAuction_Load(r, w, n, a, p, h)
         \/ \E p \in Prices : AuctionBid_Load(r, w, a, p)
         \/ CancelAuction_Load(r, w, a)
  PROVE  MarketInv'
<1> USE DEF Idle, Request, Steps, Opt, RequestOK, BidSteps, TxSteps, NftSteps,
            AuctionSteps, AcceptSteps
<1>1. ASSUME NEW n \in Nfts, NEW p \in Prices,
             NEW h \in Hours, CreateAuction_Load(r, w, n, a, p, h)
      PROVE  MarketInv'
  <2> DEFINE c == [Idle EXCEPT !.step = "createAuction", !.wallet = w,
                               !.nft = n, !.auction = a, !.price = p,
                               !.hours = h]
  <2>0. p \in Nat /\ p > 0 /\ h \in Nat
    BY <1>1, MarketConstants DEF CreateAuction_Load
  <2>1. c \in Request /\ RequestOK(c) /\ c.step \notin AcceptSteps
    BY <2>0
  <2>2. Begin(r, "create_private_auction", c)
    BY <1>1 DEF CreateAuction_Load
  <2> QED
    BY <2>1, <2>2, Begin_Inv
<1>2. ASSUME NEW p \in Prices, AuctionBid_Load(r, w, a, p)
      PROVE  MarketInv'
  <2> DEFINE c == [Idle EXCEPT !.step = "auctionBid", !.wallet = w,
                               !.auction = a, !.price = p]
  <2>0. p \in Nat /\ auction[a].status # "NONE"
    BY <1>2, MarketConstants DEF AuctionBid_Load
  <2>1. c \in Request /\ RequestOK(c) /\ c.step \notin AcceptSteps
    BY <2>0
  <2>2. Begin(r, "place_auction_bid", c)
    BY <1>2 DEF AuctionBid_Load
  <2> QED
    BY <2>1, <2>2, Begin_Inv
<1>3. CASE CancelAuction_Load(r, w, a)
  <2> DEFINE c == [Idle EXCEPT !.step = "cancelAuction", !.wallet = w,
                               !.auction = a]
  <2>0. auction[a].status # "NONE"
    BY <1>3, MarketConstants DEF CancelAuction_Load
  <2>1. c \in Request /\ RequestOK(c) /\ c.step \notin AcceptSteps
    BY <2>0
  <2>2. Begin(r, "cancel_auction", c)
    BY <1>3 DEF CancelAuction_Load
  <2> QED
    BY <2>1, <2>2, Begin_Inv
<1> QED
  BY <1>1, <1>2, <1>3

\* finalize_auction parks an auction that is over.
LEMMA FinalizeLoads_Inv ==
  ASSUME MarketInv, NEW r \in Reqs, NEW a \in AuctionIds,
         \/ \E s \in Sigs : Finalize_Load(r, a, s)
         \/ Finalize_LoadNoBids(r, a)
  PROVE  MarketInv'
<1> USE DEF Idle, Request, Steps, Opt, RequestOK, BidSteps, TxSteps, NftSteps,
            AuctionSteps, AcceptSteps
<1>1. ASSUME NEW s \in Sigs, Finalize_Load(r, a, s)
      PROVE  MarketInv'
  <2> DEFINE c == [Idle EXCEPT !.step = "finalize", !.auction = a,
                               !.sig = s]
  <2>0. /\ auction[a].status # "NONE" /\ auction[a].current_bidder # None
        /\ now >= auction[a].end_time
    BY <1>1, MarketConstants DEF Finalize_Load, Finalizable
  <2>1. c \in Request /\ RequestOK(c) /\ c.step \notin AcceptSteps
    BY <2>0
  <2>2. Begin(r, "finalize_auction", c)
    BY <1>1 DEF Finalize_Load
  <2> QED
    BY <2>1, <2>2, Begin_Inv
<1>2. CASE Finalize_LoadNoBids(r, a)
  <2> DEFINE c == [Idle EXCEPT !.step = "closeNft", !.auction = a]
  <2>0. auction[a].status # "NONE"
    BY <1>2, MarketConstants DEF Finalize_LoadNoBids, Finalizable
  <2>1. c \in Request /\ RequestOK(c) /\ c.step \notin AcceptSteps
    BY <2>0
  <2>2. Begin(r, "finalize_auction", c)
    BY <1>2 DEF Finalize_LoadNoBids
  <2> QED
    BY <2>1, <2>2, Begin_Inv
<1> QED
  BY <1>1, <1>2

----------------------------------------------------------------------------
(* The invariant                                                           *)

\* Every step keeps the invariant: one case per action.
LEMMA NextInv ==
  ASSUME MarketInv, [Next]_vars PROVE MarketInv'
<1>1. ASSUME NEW r \in Reqs, PrivateBidNext(r) PROVE MarketInv'
  <2>1. CASE \E w \in Wallets, b \in Bids :
               \/ \E s \in Sigs : AcceptBid_Load(r, w, b, s)
               \/ AcceptBid_Expired(r, w, b)
               \/ RejectBid_Load(r, w, b)
               \/ CancelBid_Load(r, w, b)
               \/ \E p \in Prices : CounterBid_Load(r, w, b, p)
    BY <2>1, BidLoads_Inv
  <2>2. CASE MarkExpired(r)
    BY <2>2, SaveBidStatus_Inv DEF MarkExpired, BidSteps, TxSteps, BidStatus
  <2>3. CASE RejectBid_Write(r)
    BY <2>3, SaveBidStatus_Inv DEF RejectBid_Write, BidSteps, TxSteps, BidStatus
  <2>4. CASE CancelBid_Write(r)
    BY <2>4, SaveBidStatus_Inv DEF CancelBid_Write, BidSteps, TxSteps, BidStatus
  <2> QED
    BY <1>1, <2>1, <2>2, <2>3, <2>4, ConfirmLoad_Inv, Record_Inv, Confirm_Inv, Commit_Inv,
       Raise_Inv, Failed_Inv, CounterBid_Inv DEF PrivateBidNext
<1>2. ASSUME NEW r \in Reqs, ListingNext(r) PROVE MarketInv'
  BY <1>2, ListingLoads_Inv, DirectSell_Inv, RemoveDirect_Inv, DirectBuy_Inv,
     SetIntent_Inv, RemoveIntentBids_Inv, RemoveIntentNft_Inv, AskingPrice_Inv
     DEF ListingNext
<1>3. ASSUME NEW r \in Reqs, AuctionNext(r) PROVE MarketInv'
  BY <1>3, AuctionLoads_Inv, FinalizeLoads_Inv, CreateAuction_Inv,
     AuctionBid_Inv, CloseNft_Inv, CloseAuction_Inv, Finalize_Inv,
     CancelAuction_Inv DEF AuctionNext
<1> QED
  BY <1>1, <1>2, <1>3, Abort_Inv, AdminCancel_Inv, Tick_Inv, Stutter_Inv
     DEF Next

\* MarketInv holds in every state of every behaviour of the market, whatever
\* the numbers of wallets, NFTs, bids, auctions, signatures and concurrent
\* requests are.
THEOREM MarketInvariant == Spec => []MarketInv
<1>1. Init => MarketInv
  BY InitInv
<1>2. MarketInv /\ [Next]_vars => MarketInv'
  BY NextInv
<1> QED
  BY <1>1, <1>2, PTL DEF Spec

\* Every row keeps the type of its columns; in particular no NFT is left
\* without an owner (finalize_auction writes the bidder it re-reads).
THEOREM TypeCorrect == Spec => []TypeOK
  BY MarketInvariant, PTL DEF MarketInv

\* Fixed and negotiable prices exclude each other and agree with their flags
\* under every interleaving of the listing handlers.
THEOREM ListingsConsistent == Spec => []ListingConsistent
  BY MarketInvariant, PTL DEF MarketInv

\* The high bid of every auction beats the starting price, is not the
\* creator's, and is counted.
THEOREM BidsSound == Spec => []AuctionBidsSound
  BY MarketInvariant, PTL DEF MarketInv

\* Whoever finalize_auction makes the winner is the last bidder, at the last
\* bid, after the end.
THEOREM WinnersAreHighBidders == Spec => []WinnerIsHighBidder
  BY MarketInvariant, PTL DEF MarketInv

\* A sale by accepted bid always has a confirmed transaction record.
THEOREM AcceptedSalesConfirmed == Spec => []AcceptedSaleConfirmed
  BY MarketInvariant, PTL DEF MarketInv

\* Only the private-bid path can record a sale from a wallet to itself.
THEOREM NoSelfPurchases == Spec => []NoSelfPurchase
  BY MarketInvariant, PTL DEF MarketInv

\* Every request goes on with what it has read and validated, however other
\* requests interleave.
THEOREM RequestsSound == Spec => []RequestsOK
  BY MarketInvariant, PTL DEF MarketInv

\* A transaction record is in the hands of one accept at most, in the state
\* its last step left it in.
THEOREM RecordsSound == Spec => []RecordsOK
  BY MarketInvariant, PTL DEF MarketInv

----------------------------------------------------------------------------
(* Who writes sales, owners, bids and auctions                             *)

\* The four steps that record a sale.
Sells(r) ==
  \/ AcceptBid_Commit(r) \/ AskingPrice_Write(r) \/ Finalize_Write(r)
  \/ \E s \in Uuids : DirectBuy_Write(r, s)

KeepsOwners == sale' = sale /\ \A n \in Nfts : nft'[n].owner = nft[n].owner

\* A step that records no sale and writes other columns of an NFT.
LEMMA ColumnsKeepOwners ==
  ASSUME MarketInv, sale' = sale, NEW n \in Nfts, NEW R, nft' = [nft EXCEPT ![n] = R],
         R.owner = nft[n].owner
  PROVE  KeepsOwners
  BY DEF KeepsOwners, MarketInv, TypeOK

\* Every other step leaves sales and owners as they are.
LEMMA OthersKeepOwners ==
  ASSUME MarketInv, Next, \A r \in Reqs : ~Sells(r)
  PROVE  KeepsOwners
<1>1. \A n \in Nfts : nft[n] \in NftRow
  BY DEF MarketInv, TypeOK
<1>2. CASE sale' = sale /\ nft' = nft
  BY <1>2 DEF KeepsOwners
<1>3. ASSUME NEW r \in Reqs, PrivateBidNext(r) PROVE KeepsOwners
  <2>1. CASE CounterBid_Write(r)
    BY <1>1, <2>1 DEF CounterBid_Write, KeepsOwners, MarketInv, TypeOK, NftRow
  <2>2. CASE UNCHANGED <<nft, sale>>
    BY <2>2 DEF KeepsOwners
  <2> QED
    BY <1>3, <2>1, <2>2
       DEF PrivateBidNext, Sells, Begin, SaveBidStatus, MarkExpired, AcceptBid_Load,
           AcceptBid_Expired, RejectBid_Load, CancelBid_Load, CounterBid_Load,
           ConfirmBid_Load, AcceptBid_Record, AcceptBid_Confirm, AcceptBid_Raise, AcceptBid_Failed,
           RejectBid_Write, CancelBid_Write
<1>4. ASSUME NEW r \in Reqs, ListingNext(r) PROVE KeepsOwners
  <2>1. CASE DirectSell_Write(r)
    <3> DEFINE n == req[r].nft
               R == [nft[n] EXCEPT !.has_buy_price = TRUE, !.buy_price = req[r].price,
                              !.has_sell_intent = FALSE, !.asking_price = 0]
    <3>1. n \in Nfts
      BY <2>1 DEF MarketInv, TypeOK, RequestsOK, RequestOK, DirectSell_Write, NftSteps
    <3>2. R.owner = nft[n].owner
      BY <3>1 DEF MarketInv, TypeOK, NftRow
    <3> QED
      BY <2>1, <3>1, <3>2, ColumnsKeepOwners DEF DirectSell_Write
  <2>2. CASE RemoveDirect_Write(r)
    <3> DEFINE n == req[r].nft
               R == [nft[n] EXCEPT !.has_buy_price = FALSE, !.buy_price = 0]
    <3>1. n \in Nfts
      BY <2>2 DEF MarketInv, TypeOK, RequestsOK, RequestOK, RemoveDirect_Write, NftSteps
    <3>2. R.owner = nft[n].owner
      BY <3>1 DEF MarketInv, TypeOK, NftRow
    <3> QED
      BY <2>2, <3>1, <3>2, ColumnsKeepOwners DEF RemoveDirect_Write
  <2>3. CASE SetIntent_Write(r)
    <3> DEFINE n == req[r].nft
               R == [nft[n] EXCEPT !.has_sell_intent = TRUE, !.asking_price = req[r].price,
                              !.has_buy_price = FALSE, !.buy_price = 0,
                              !.is_listed = TRUE]
    <3>1. n \in Nfts
      BY <2>3 DEF MarketInv, TypeOK, RequestsOK, RequestOK, SetIntent_Write, NftSteps
    <3>2. R.owner = nft[n].owner
      BY <3>1 DEF MarketInv, TypeOK, NftRow
    <3> QED
      BY <2>3, <3>1, <3>2, ColumnsKeepOwners DEF SetIntent_Write
  <2>4. CASE RemoveIntent_Nft(r)
    <3> DEFINE n == req[r].nft
               R == [nft[n] EXCEPT !.has_sell_intent = FALSE, !.asking_price = 0,
                              !.is_listed = FALSE]
    <3>1. n \in Nfts
      BY <2>4 DEF MarketInv, TypeOK, RequestsOK, RequestOK, RemoveIntent_Nft, NftSteps
    <3>2. R.owner = nft[n].owner
      BY <3>1 DEF MarketInv, TypeOK, NftRow
    <3> QED
      BY <2>4, <3>1, <3>2, ColumnsKeepOwners DEF RemoveIntent_Nft
  <2>5. CASE UNCHANGED <<nft, sale>>
    BY <2>5 DEF KeepsOwners
  <2> QED
    BY <1>4, <2>1, <2>2, <2>3, <2>4, <2>5
       DEF ListingNext, Sells, Begin, DirectSell_Load, RemoveDirect_Load, DirectBuy_Load,
           SetIntent_Load, RemoveIntent_Load, AskingPrice_Load, RemoveIntent_Bids
<1>5. ASSUME NEW r \in Reqs, AuctionNext(r) PROVE KeepsOwners
  <2>1. CASE CreateAuction_Write(r)
    <3> DEFINE n == req[r].nft
               R == [nft[n] EXCEPT !.active_auction = req[r].auction, !.is_listed = TRUE]
    <3>1. n \in Nfts
      BY <2>1 DEF MarketInv, TypeOK, RequestsOK, RequestOK, CreateAuction_Write, NftSteps
    <3>2. R.owner = nft[n].owner
      BY <3>1 DEF MarketInv, TypeOK, NftRow
    <3> QED
      BY <2>1, <3>1, <3>2, ColumnsKeepOwners DEF CreateAuction_Write
  <2>2. CASE Finalize_CloseNft(r)
    <3> DEFINE n == auction[req[r].auction].nft
               R == [nft[n] EXCEPT !.active_auction = None, !.is_listed = FALSE]
    <3>1. n \in Nfts
      BY <2>2 DEF MarketInv, TypeOK, RequestsOK, RequestOK, Finalize_CloseNft, AuctionSteps, AuctionsOK
    <3>2. R.owner = nft[n].owner
      BY <3>1 DEF MarketInv, TypeOK, NftRow
    <3> QED
      BY <2>2, <3>1, <3>2, ColumnsKeepOwners DEF Finalize_CloseNft
  <2>3. CASE CancelAuction_Write(r)
    <3> DEFINE n == auction[req[r].auction].nft
               R == [nft[n] EXCEPT !.active_auction = None, !.is_listed = FALSE]
    <3>1. n \in Nfts
      BY <2>3 DEF MarketInv, TypeOK, RequestsOK, RequestOK, CancelAuction_Write, AuctionSteps, AuctionsOK
    <3>2. R.owner = nft[n].owner
      BY <3>1 DEF MarketInv, TypeOK, NftRow
    <3> QED
      BY <2>3, <3>1, <3>2, ColumnsKeepOwners DEF CancelAuction_Write
  <2>4. CASE UNCHANGED <<nft, sale>>
    BY <2>4 DEF KeepsOwners
  <2> QED
    BY <1>5, <2>1, <2>2, <2>3, <2>4
       DEF AuctionNext, Sells, Begin, CreateAuction_Load, AuctionBid_Load,
           CancelAuction_Load, Finalize_Load, Finalize_LoadNoBids, AuctionBid_Write,
           Finalize_CloseAuction
<1> QED
  BY <1>2, <1>3, <1>4, <1>5 DEF Next, Abort, Admin_CancelAuction, Tick

\* A step that records the sale of an NFT to a buyer and makes him its owner.
LEMMA SaleToOwner ==
  ASSUME MarketInv, NEW s \in EventIds, NEW kind \in SaleKinds, NEW n \in Nfts, NEW buyer,
         NEW seller, NEW amount, NEW t, NEW R,
         CreateSale(s, kind, n, buyer, seller, amount, t),
         nft' = [nft EXCEPT ![n] = R], R.owner = buyer
  PROVE  OwnersFollow
<1>1. sale[s].kind = "NONE" /\ s \in DOMAIN sale /\ kind # "NONE"
  BY DEF CreateSale, MarketInv, TypeOK, SaleKinds
<1>2. /\ sale'[s].kind = kind /\ sale'[s].nft = n /\ sale'[s].buyer = buyer
      /\ \A x \in EventIds \ {s} : sale'[x] = sale[x]
  BY <1>1 DEF CreateSale, MarketInv, TypeOK
<1>3. nft'[n].owner = buyer /\ \A m \in Nfts \ {n} : nft'[m] = nft[m]
  BY DEF MarketInv, TypeOK
<1> QED
  BY <1>1, <1>2, <1>3 DEF OwnersFollow

\* No overlap of requests moves an NFT without recording the sale, and no
\* sale recorded is ever changed.
LEMMA OwnersStep ==
  ASSUME MarketInv, [Next]_vars PROVE [OwnersFollow]_vars
<1>1. CASE UNCHANGED vars
  BY <1>1
<1>2. CASE Next /\ \A r \in Reqs : ~Sells(r)
  BY <1>2, OthersKeepOwners DEF KeepsOwners, OwnersFollow
<1>3. ASSUME NEW r \in Reqs, AcceptBid_Commit(r) PROVE OwnersFollow
  <2> DEFINE n == bid[req[r].bid].nft
             R == [nft[n] EXCEPT !.owner = bid[req[r].bid].bidder, !.has_buy_price = FALSE,
                   !.buy_price = 0, !.has_sell_intent = FALSE, !.asking_price = 0]
  <2>1. req[r].bid \in Bids /\ req[r].sig \in EventIds /\ n \in Nfts
    BY <1>3 DEF MarketInv, TypeOK, RequestsOK, RequestOK, AcceptBid_Commit, Request,
       Opt, TxSteps, EventIds, BidRow
  <2>2. R.owner = bid[req[r].bid].bidder
    BY <2>1 DEF MarketInv, TypeOK, NftRow
  <2>3. nft' = [nft EXCEPT ![n] = R]
    BY <1>3 DEF AcceptBid_Commit
  <2> QED
    BY <1>3, <2>1, <2>2, <2>3, SaleToOwner DEF AcceptBid_Commit, SaleKinds
<1>4. ASSUME NEW r \in Reqs, AskingPrice_Write(r) PROVE OwnersFollow
  <2> DEFINE n == req[r].nft
             R == [nft[n] EXCEPT !.owner = req[r].wallet, !.has_sell_intent = FALSE,
                   !.asking_price = 0, !.is_listed = FALSE]
  <2>1. n \in Nfts /\ req[r].sig \in EventIds
    BY <1>4 DEF MarketInv, TypeOK, RequestsOK, RequestOK, AskingPrice_Write, NftSteps, EventIds
  <2>2. R.owner = req[r].wallet
    BY <2>1 DEF MarketInv, TypeOK, NftRow
  <2>3. nft' = [nft EXCEPT ![n] = R]
    BY <1>4 DEF AskingPrice_Write
  <2> QED
    BY <1>4, <2>1, <2>2, <2>3, SaleToOwner DEF AskingPrice_Write, SaleKinds
<1>5. ASSUME NEW r \in Reqs, NEW s \in Uuids, DirectBuy_Write(r, s) PROVE OwnersFollow
  <2> DEFINE n == req[r].nft
             R == [nft[n] EXCEPT !.owner = req[r].wallet, !.has_buy_price = FALSE,
                   !.buy_price = 0]
  <2>1. n \in Nfts /\ s \in EventIds
    BY <1>5 DEF MarketInv, TypeOK, RequestsOK, RequestOK, DirectBuy_Write, NftSteps, EventIds
  <2>2. R.owner = req[r].wallet
    BY <2>1 DEF MarketInv, TypeOK, NftRow
  <2>3. nft' = [nft EXCEPT ![n] = R]
    BY <1>5 DEF DirectBuy_Write
  <2> QED
    BY <1>5, <2>1, <2>2, <2>3, SaleToOwner DEF DirectBuy_Write, SaleKinds
<1>6. ASSUME NEW r \in Reqs, Finalize_Write(r) PROVE OwnersFollow
  <2> DEFINE A == auction[req[r].auction]
             R == [nft[A.nft] EXCEPT !.owner = A.current_bidder, !.active_auction = None,
                   !.is_listed = FALSE]
  <2>1. A.nft \in Nfts /\ req[r].sig \in EventIds
    BY <1>6 DEF MarketInv, TypeOK, RequestsOK, RequestOK, AuctionsOK, Finalize_Write,
       AuctionSteps, EventIds
  <2>2. R.owner = A.current_bidder
    BY <2>1 DEF MarketInv, TypeOK, NftRow
  <2>3. nft' = [nft EXCEPT ![A.nft] = R]
    BY <1>6 DEF Finalize_Write
  <2> QED
    BY <1>6, <2>1, <2>2, <2>3, SaleToOwner DEF Finalize_Write, SaleKinds
<1> QED
  BY <1>1, <1>2, <1>3, <1>4, <1>5, <1>6 DEF Sells

\* An NFT changes hands only in the step that records its sale, and recorded
\* sales stay, for any number of requests.
THEOREM OwnershipFollows == Spec => OwnershipFollowsSales
<1>1. MarketInv /\ [Next]_vars => [OwnersFollow]_vars
  BY OwnersStep
<1> QED
  BY <1>1, MarketInvariant, PTL DEF Spec, OwnershipFollowsSales

\* The life of an auction: it is created once, without a bid; raised while it
\* is open and its end has not come; and closed with the bid it has.
AuctionLife ==
  \A a \in AuctionIds :
    \/ auction'[a] = auction[a]
    \/ /\ auction[a].status = "NONE" /\ auction'[a].status = "ACTIVE"
       /\ auction'[a].current_bid = 0
    \/ /\ auction[a].status = "ACTIVE" /\ now < auction[a].end_time
       /\ auction'[a].status = "ACTIVE"
       /\ auction'[a].current_bid > auction[a].current_bid
    \/ /\ auction'[a].status \in {"COMPLETED", "CANCELLED"}
       /\ auction'[a].current_bid = auction[a].current_bid
       /\ auction[a].status # "NONE"

\* The auction of a request that found one, or is about to create one.
LEMMA AuctionOfRequest ==
  ASSUME MarketInv, NEW r \in Reqs, req[r].step \in AuctionSteps \cup {"createAuction"}
  PROVE  /\ req[r].auction \in AuctionIds
         /\ auction[req[r].auction] \in AuctionRow
         /\ req[r].step \in AuctionSteps => auction[req[r].auction].status # "NONE"
  BY DEF MarketInv, TypeOK, RequestsOK, RequestOK, AuctionSteps

\* A raise that passed the locked re-check is above the last bid.
LEMMA RaiseRises ==
  ASSUME MarketInv, NEW r \in Reqs, AuctionBid_Write(r)
  PROVE  AuctionLife
<1> DEFINE a == req[r].auction
<1>1. a \in AuctionIds
  BY AuctionOfRequest DEF AuctionBid_Write, AuctionSteps
<1>2. auction[a] \in AuctionRow /\ req[r].price \in Nat
  BY <1>1 DEF MarketInv, TypeOK, Request
<1>3. /\ auction'[a] = [auction[a] EXCEPT !.current_bid = req[r].price,
           !.current_bidder = req[r].wallet, !.bid_count = auction[a].bid_count + 1]
      /\ \A x \in AuctionIds \ {a} : auction'[x] = auction[x]
  BY <1>1 DEF AuctionBid_Write, MarketInv, TypeOK
<1>4. /\ auction[a].status = "ACTIVE" /\ now < auction[a].end_time
      /\ req[r].price > auction[a].current_bid
  <2>1. /\ auction[a].status = "ACTIVE" /\ now < auction[a].end_time
        /\ req[r].price > IF auction[a].current_bid # 0 THEN auction[a].current_bid
                          ELSE auction[a].starting_price
    BY DEF AuctionBid_Write, BidAcceptable
  <2> QED
    BY <1>2, <2>1 DEF AuctionRow
<1>5. auction'[a].current_bid = req[r].price /\ auction'[a].status = auction[a].status
  BY <1>2, <1>3 DEF AuctionRow
<1> QED
  BY <1>1, <1>3, <1>4, <1>5 DEF AuctionLife

\* A step that closes an auction that exists.
LEMMA ClosingKeepsBids ==
  ASSUME MarketInv, NEW a \in AuctionIds, NEW R, auction' = [auction EXCEPT ![a] = R],
         auction[a].status # "NONE", R.current_bid = auction[a].current_bid,
         R.status \in {"COMPLETED", "CANCELLED"}
  PROVE  AuctionLife
  BY DEF MarketInv, TypeOK, AuctionLife

\* The cancellation of an auction, by any of its three writers.
LEMMA CancelKeepsBids ==
  ASSUME MarketInv, NEW a \in AuctionIds, auction[a].status # "NONE",
         auction' = [auction EXCEPT ![a] = [@ EXCEPT !.status = "CANCELLED"]]
  PROVE  AuctionLife
<1> DEFINE R == [auction[a] EXCEPT !.status = "CANCELLED"]
<1>1. R.current_bid = auction[a].current_bid /\ R.status \in {"COMPLETED", "CANCELLED"}
  BY DEF MarketInv, TypeOK, AuctionRow
<1> QED
  BY <1>1, ClosingKeepsBids

\* Only the handlers of auctions and the admin action write an auction.
LEMMA OthersKeepAuctions ==
  ASSUME NEW r \in Reqs, PrivateBidNext(r) \/ ListingNext(r) \/ Abort(r)
  PROVE  auction' = auction
<1>1. CASE PrivateBidNext(r)
  BY <1>1 DEF PrivateBidNext, Begin, SaveBidStatus, MarkExpired,
     AcceptBid_Load, AcceptBid_Expired, RejectBid_Load, CancelBid_Load, CounterBid_Load,
     ConfirmBid_Load,
     AcceptBid_Record, AcceptBid_Confirm, AcceptBid_Raise, AcceptBid_Failed,
     AcceptBid_Commit, RejectBid_Write, CancelBid_Write, CounterBid_Write
<1>2. CASE ListingNext(r)
  BY <1>2 DEF ListingNext, Begin,
     DirectSell_Load, RemoveDirect_Load, DirectBuy_Load, SetIntent_Load,
     RemoveIntent_Load, AskingPrice_Load, DirectSell_Write, RemoveDirect_Write,
     DirectBuy_Write, SetIntent_Write, RemoveIntent_Bids, RemoveIntent_Nft,
     AskingPrice_Write
<1> QED
  BY <1>1, <1>2 DEF Abort

\* Every step moves every auction along its life.
LEMMA AuctionsLive ==
  ASSUME MarketInv, [Next]_vars PROVE AuctionLife
<1>1. CASE auction' = auction
  BY <1>1 DEF AuctionLife
<1>2. ASSUME NEW r \in Reqs, CreateAuction_Write(r) PROVE AuctionLife
  <2> DEFINE a == req[r].auction
  <2>1. a \in AuctionIds /\ auction[a].status = "NONE"
    BY <1>2, AuctionOfRequest DEF CreateAuction_Write
  <2>2. auction'[a].current_bid = 0 /\ auction'[a].status = "ACTIVE"
    BY <1>2, <2>1 DEF CreateAuction_Write, NoAuction, MarketInv, TypeOK
  <2>3. \A x \in AuctionIds \ {a} : auction'[x] = auction[x]
    BY <1>2, <2>1 DEF CreateAuction_Write, MarketInv, TypeOK
  <2> QED
    BY <2>1, <2>2, <2>3 DEF AuctionLife
<1>3. ASSUME NEW r \in Reqs, Finalize_CloseAuction(r) \/ CancelAuction_Write(r)
      PROVE  AuctionLife
  <2>1. req[r].step \in AuctionSteps
    BY <1>3 DEF Finalize_CloseAuction, CancelAuction_Write, AuctionSteps
  <2> QED
    BY <1>3, <2>1, AuctionOfRequest, CancelKeepsBids
       DEF Finalize_CloseAuction, CancelAuction_Write, SaveAuctionCancelled
<1>4. ASSUME NEW r \in Reqs, Finalize_Write(r) PROVE AuctionLife
  <2> DEFINE a == req[r].auction
             R == [auction[a] EXCEPT !.status = "COMPLETED",
                     !.winner = auction[a].current_bidder,
                     !.final_price = auction[a].current_bid]
  <2>1. /\ a \in AuctionIds /\ auction[a] \in AuctionRow
        /\ auction[a].status # "NONE"
    BY <1>4, AuctionOfRequest DEF Finalize_Write, AuctionSteps
  <2>2. R.current_bid = auction[a].current_bid /\ R.status \in {"COMPLETED", "CANCELLED"}
    BY <2>1 DEF AuctionRow
  <2>3. auction' = [auction EXCEPT ![a] = R]
    BY <1>4 DEF Finalize_Write
  <2> QED
    BY <2>1, <2>2, <2>3, ClosingKeepsBids
<1>5. ASSUME NEW a \in AuctionIds, Admin_CancelAuction(a) PROVE AuctionLife
  BY <1>5, CancelKeepsBids DEF Admin_CancelAuction
<1>6. ASSUME NEW r \in Reqs, AuctionNext(r) PROVE AuctionLife
  BY <1>1, <1>2, <1>3, <1>4, <1>6, RaiseRises
     DEF AuctionNext, Begin, CreateAuction_Load, AuctionBid_Load, CancelAuction_Load,
         Finalize_Load, Finalize_LoadNoBids, Finalize_CloseNft
<1> QED
  BY <1>1, <1>5, <1>6, OthersKeepAuctions DEF Next, Tick, vars

\* Nobody has bid on an auction before it is created.
THEOREM FreshAuctions == Spec => []UnopenedUnbid
<1>1. Init => UnopenedUnbid
  BY DEF Init, UnopenedUnbid, NoAuction
<1>2. MarketInv /\ UnopenedUnbid /\ [Next]_vars => UnopenedUnbid'
  BY AuctionsLive DEF AuctionLife, UnopenedUnbid
<1> QED
  BY <1>1, <1>2, MarketInvariant, PTL DEF Spec

\* No step lowers a high bid, raises one late or reopens an auction.
LEMMA BidsStep ==
  ASSUME MarketInv, UnopenedUnbid, [Next]_vars PROVE BidsRise
<1>1. \A a \in AuctionIds : auction[a] \in AuctionRow
  BY DEF MarketInv, TypeOK
<1> QED
  BY <1>1, AuctionsLive DEF AuctionLife, UnopenedUnbid, BidsRise, AuctionRow

\* The high bid only rises, before the end of an auction that takes bids, and
\* no auction is reopened, for any number of requests.
THEOREM BidsOnlyRise == Spec => BidsRiseWhileOpen
<1>1. MarketInv /\ UnopenedUnbid /\ [Next]_vars => [BidsRise]_vars
  BY BidsStep
<1> QED
  BY <1>1, MarketInvariant, FreshAuctions, PTL DEF Spec, BidsRiseWhileOpen

----------------------------------------------------------------------------
(* A bid accepted closes the others                                        *)

\* A bid stays on its NFT, and one that is no longer active never is again.
BidsClose ==
  \A b \in Bids :
    /\ bid'[b].nft = bid[b].nft
    /\ bid'[b].status = "ACTIVE" => bid[b].status = "ACTIVE"

\* A new status other than ACTIVE for one bid.
LEMMA StatusCloses ==
  ASSUME MarketInv, NEW x, NEW status \in BidStatus \ {"ACTIVE"},
         bid' = [bid EXCEPT ![x].status = status]
  PROVE  BidsClose
<1> SUFFICES ASSUME NEW b \in Bids
             PROVE  /\ bid'[b].nft = bid[b].nft
                    /\ bid'[b].status = "ACTIVE" => bid[b].status = "ACTIVE"
  BY DEF BidsClose
<1>1. bid[b] \in BidRow /\ bid'[b] = IF b = x THEN [bid[b] EXCEPT !.status = status] ELSE bid[b]
  BY DEF MarketInv, TypeOK
<1> QED
  BY <1>1 DEF BidRow

\* accept_private_bid accepts one bid and cancels the active others on its NFT.
LEMMA CommitCloses ==
  ASSUME MarketInv, NEW r \in Reqs, AcceptBid_Commit(r)
  PROVE  /\ BidsClose
         /\ \A b \in Bids : bid[b].nft = bid[req[r].bid].nft => bid'[b].status # "ACTIVE"
<1>1. ASSUME NEW b \in Bids
      PROVE  /\ bid'[b].nft = bid[b].nft
             /\ bid'[b].status = "ACTIVE" => bid[b].status = "ACTIVE"
             /\ bid[b].nft = bid[req[r].bid].nft => bid'[b].status # "ACTIVE"
  <2>1. bid[b] \in BidRow
    BY DEF MarketInv, TypeOK
  <2>2. CASE b = req[r].bid
    <3>1. bid'[b] = [bid[b] EXCEPT !.status = "ACCEPTED"]
      BY <2>2 DEF AcceptBid_Commit
    <3> QED
      BY <2>1, <3>1 DEF BidRow
  <2>3. CASE b # req[r].bid /\ bid[b].nft = bid[req[r].bid].nft /\ bid[b].status = "ACTIVE"
    <3>1. bid'[b] = [bid[b] EXCEPT !.status = "CANCELLED"]
      BY <2>3 DEF AcceptBid_Commit
    <3> QED
      BY <2>1, <2>3, <3>1 DEF BidRow
  <2>4. CASE b # req[r].bid /\ ~(bid[b].nft = bid[req[r].bid].nft /\ bid[b].status = "ACTIVE")
    <3>1. bid'[b] = bid[b]
      BY <2>4 DEF AcceptBid_Commit
    <3> QED
      BY <2>4, <3>1
  <2> QED
    BY <2>2, <2>3, <2>4
<1> QED
  BY <1>1 DEF BidsClose

\* remove_sell_intent cancels the active bids on the NFT.
LEMMA RemoveIntentCloses ==
  ASSUME MarketInv, NEW r \in Reqs, RemoveIntent_Bids(r) PROVE BidsClose
<1> SUFFICES ASSUME NEW b \in Bids
             PROVE  /\ bid'[b].nft = bid[b].nft
                    /\ bid'[b].status = "ACTIVE" => bid[b].status = "ACTIVE"
  BY DEF BidsClose
<1>1. bid[b] \in BidRow
  BY DEF MarketInv, TypeOK
<1>2. bid'[b] = bid[b] \/ bid'[b] = [bid[b] EXCEPT !.status = "CANCELLED"]
  BY DEF RemoveIntent_Bids
<1> QED
  BY <1>1, <1>2 DEF BidRow

\* No step opens a bid again or moves it to another NFT.
LEMMA BidsOnlyClose ==
  ASSUME MarketInv, [Next]_vars PROVE BidsClose
<1>1. CASE bid' = bid
  BY <1>1 DEF BidsClose
<1>2. ASSUME NEW r \in Reqs, PrivateBidNext(r) PROVE BidsClose
  <2>1. ASSUME NEW step, NEW status \in BidStatus \ {"ACTIVE"}, SaveBidStatus(r, step, status)
        PROVE  BidsClose
    BY <2>1, StatusCloses DEF SaveBidStatus
  <2>2. CASE MarkExpired(r) \/ RejectBid_Write(r) \/ CancelBid_Write(r)
    BY <2>1, <2>2 DEF MarkExpired, RejectBid_Write, CancelBid_Write, BidStatus
  <2>3. CASE CounterBid_Write(r)
    <3>1. bid' = [bid EXCEPT ![req[r].bid].status = "REJECTED"]
      BY <2>3 DEF CounterBid_Write
    <3>2. "REJECTED" \in BidStatus \ {"ACTIVE"}
      BY DEF BidStatus
    <3> QED
      BY <3>1, <3>2, StatusCloses
  <2> QED
    BY <1>1, <1>2, <2>2, <2>3, CommitCloses
       DEF PrivateBidNext, Begin, AcceptBid_Load, AcceptBid_Expired, RejectBid_Load,
           CancelBid_Load, CounterBid_Load, AcceptBid_Record, AcceptBid_Confirm,
           AcceptBid_Raise, AcceptBid_Failed, ConfirmBid_Load
<1>3. ASSUME NEW r \in Reqs, ListingNext(r) PROVE BidsClose
  BY <1>1, <1>3, RemoveIntentCloses
     DEF ListingNext, Begin, DirectSell_Load, RemoveDirect_Load, DirectBuy_Load,
         SetIntent_Load, RemoveIntent_Load, AskingPrice_Load, DirectSell_Write,
         RemoveDirect_Write, DirectBuy_Write, SetIntent_Write, RemoveIntent_Nft,
         AskingPrice_Write
<1>4. ASSUME NEW r \in Reqs, AuctionNext(r) PROVE bid' = bid
  BY <1>4
     DEF AuctionNext, Begin, CreateAuction_Load, AuctionBid_Load, CancelAuction_Load,
         Finalize_Load, Finalize_LoadNoBids, CreateAuction_Write, AuctionBid_Write,
         Finalize_CloseNft, Finalize_CloseAuction, Finalize_Write, CancelAuction_Write
<1> QED
  BY <1>1, <1>2, <1>3, <1>4 DEF Next, Abort, Admin_CancelAuction, Tick, vars

\* A sale of another kind leaves the sales by bid as they are.
LEMMA OtherSale ==
  ASSUME MarketInv, NEW s, NEW kind, NEW n, NEW buyer, NEW seller, NEW amount, NEW t,
         CreateSale(s, kind, n, buyer, seller, amount, t), kind # "BID_ACCEPTED"
  PROVE  \A x \in Sigs : sale'[x].kind = "BID_ACCEPTED" => sale'[x] = sale[x]
  BY DEF CreateSale, MarketInv, TypeOK, EventIds

\* Only accept_private_bid records a sale by bid.
LEMMA OnlyCommitAccepts ==
  ASSUME MarketInv, [Next]_vars, \A r \in Reqs : ~AcceptBid_Commit(r)
  PROVE  \A x \in Sigs : sale'[x].kind = "BID_ACCEPTED" => sale'[x] = sale[x]
<1>1. CASE UNCHANGED vars
  BY <1>1 DEF vars
<1>2. CASE Next /\ \A r \in Reqs : ~Sells(r)
  BY <1>2, OthersKeepOwners DEF KeepsOwners
<1>3. ASSUME NEW r \in Reqs, Sells(r)
      PROVE  \A x \in Sigs : sale'[x].kind = "BID_ACCEPTED" => sale'[x] = sale[x]
  <2>1. CASE AskingPrice_Write(r)
    BY <2>1, OtherSale DEF AskingPrice_Write
  <2>2. CASE Finalize_Write(r)
    BY <2>2, OtherSale DEF Finalize_Write
  <2>3. ASSUME NEW s \in Uuids, DirectBuy_Write(r, s)
        PROVE  \A x \in Sigs : sale'[x].kind = "BID_ACCEPTED" => sale'[x] = sale[x]
    BY <2>3, OtherSale DEF DirectBuy_Write
  <2> QED
    BY <1>3, <2>1, <2>2, <2>3 DEF Sells
<1> QED
  BY <1>1, <1>2, <1>3

\* The step that accepts a bid closes every other bid on its NFT, and no
\* step after it opens one.
LEMMA OffersStep ==
  ASSUME MarketInv, AcceptClearsOffers, [Next]_vars PROVE AcceptClearsOffers'
<1>1. BidsClose
  BY BidsOnlyClose
<1>2. CASE \A r \in Reqs : ~AcceptBid_Commit(r)
  BY <1>1, <1>2, OnlyCommitAccepts DEF AcceptClearsOffers, BidsClose
<1>3. ASSUME NEW r \in Reqs, AcceptBid_Commit(r) PROVE AcceptClearsOffers'
  <2>1. /\ sale'[req[r].sig].nft = bid[req[r].bid].nft
        /\ \A x \in Sigs \ {req[r].sig} : sale'[x] = sale[x]
    BY <1>3 DEF AcceptBid_Commit, CreateSale, MarketInv, TypeOK, RequestsOK, RequestOK,
       TxSteps, EventIds
  <2> QED
    BY <1>1, <1>3, <2>1, CommitCloses DEF AcceptClearsOffers, BidsClose
<1> QED
  BY <1>2, <1>3

\* Once a bid has been accepted no bid on its NFT is open, for any number of
\* requests that loaded those bids before.
THEOREM AcceptedClears == Spec => []AcceptClearsOffers
<1>1. Init => AcceptClearsOffers
  BY DEF Init, AcceptClearsOffers, NoSale, EventIds
<1>2. MarketInv /\ AcceptClearsOffers /\ [Next]_vars => AcceptClearsOffers'
  BY OffersStep
<1> QED
  BY <1>1, <1>2, MarketInvariant, PTL DEF Spec
=============================================================================
