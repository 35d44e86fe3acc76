--------------------------- MODULE MCMarketplace ---------------------------
(* Instances of Marketplace for TLC: who calls what.                       *)
EXTENDS Marketplace, TLC

\* Wallets are interchangeable, and so are signatures and request slots.
Symmetry ==
  Permutations(Wallets) \cup Permutations(Reqs) \cup Permutations(Sigs)
    \cup Permutations(AuctionIds) \cup Permutations(Bids)

\* Acceptance of private bids against other acceptances, against the cancellation or
\* rejection of a bid, against a purchase of the NFT, and the other writer of
\* transaction records.
BidOps ==
  {"accept_private_bid", "cancel_private_bid", "reject_private_bid",
   "set_direct_sell", "execute_direct_buy", "confirm_private_bid_tx"}

\* Fixed and negotiable prices, with a bid that can be rejected, cancelled or
\* countered.
ListingOps ==
  {"set_direct_sell", "remove_direct_sell", "execute_direct_buy",
   "set_sell_intent", "remove_sell_intent", "accept_asking_price",
   "reject_private_bid", "cancel_private_bid", "owner_counter_bid"}

\* An auction and a fixed price on the same NFT.
MixedOps ==
  {"create_private_auction", "place_auction_bid", "finalize_auction",
   "set_direct_sell", "execute_direct_buy"}

AuctionOps ==
  {"create_private_auction", "place_auction_bid", "finalize_auction",
   "cancel_auction", "admin_cancel"}
=============================================================================
