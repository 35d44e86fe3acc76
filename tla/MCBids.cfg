SPECIFICATION Spec
CONSTANTS
  Wallets = {w1, w2, w3}
  Nfts = {n1}
  Bids = {b1, b2}
  AuctionIds = {}
  Sigs = {s1, s2}
  Uuids = {}
  Prices = {1}
  Hours = {}
  Reqs = {r1, r2}
  MaxTime = 1
  None = None
  Ops <- BidOps
SYMMETRY Symmetry
INVARIANTS AcceptedSaleConfirmed AcceptClearsOffers
CHECK_DEADLOCK FALSE
