SPECIFICATION Spec
CONSTANTS
  Mints = {m1}
  Wallets = {w0, w1}
  Minter = w0
  Kinds = {"SALE", "LISTING", "BURN", "NONE"}
  Slots <- OneEach
  RetryLimit = 1
  MaxTx = 1
  MaxPending = 1
  MaxErrors = 1
  MaxCrashes = 1
  None = None
INVARIANT TypeOK
PROPERTIES ImplementsEventLog
CHECK_DEADLOCK FALSE
