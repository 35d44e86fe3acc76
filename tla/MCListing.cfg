SPECIFICATION Spec
CONSTANTS
  Wallets = {w1, w2, w3}
  Nfts = {n1}
  Bids = {b1}
  AuctionIds = {}
  Sigs = {s1}
  Uuids = {u1}
  Prices = {0, 1, 2}
  Hours = {}
  Reqs = {r1, r2}
  MaxTime = 0
  None = None
  Ops <- ListingOps
SYMMETRY Symmetry
INVARIANTS ListingConsistent NoSelfPurchase
CHECK_DEADLOCK FALSE
