SPECIFICATION Spec
CONSTANTS
  Wallets = {w1, w2, w3}
  Nfts = {n1}
  Bids = {}
  AuctionIds = {a1, a2}
  Sigs = {s1, s2}
  Uuids = {}
  Prices = {1, 2}
  Hours = {1}
  Reqs = {r1, r2}
  MaxTime = 2
  None = None
  Ops <- AuctionOps
SYMMETRY Symmetry
INVARIANTS TypeOK AuctionBidsSound WinnerIsHighBidder
PROPERTIES OwnershipFollowsSales BidsRiseWhileOpen
CHECK_DEADLOCK FALSE
