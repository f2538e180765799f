\* One purchase, two contracts, two wallets; offers expire, calls fail, a process restarts,
\* another client claims the purchase for the other contract, or asks for an offer without a claim.
SPECIFICATION Spec
CONSTANTS
  m1 = m1
  m2 = m2
  d1 = d1
  d2 = d2
  Merchs = {m1, m2}
  b1 = b1
  Buyers = {b1}
  w1 = w1
  w2 = w2
  Wallets = {w1, w2}
  DatasetInfo <- EmptyAndNamed
  NoDataset = NoDataset
  Empty = Empty
  DatasetDefault = d2
  NoWallet = NoWallet
  OtherBodies <- WrongBodies
  MaxPurchases = 1
  MaxFailures = 1
  MaxRestarts = 1
  MaxOthers = 1
  MaxFaults = 2
INVARIANTS TypeOK ClaimsIdempotent VCsMatchPurchases OneWalletPerClaim
PROPERTIES ImplementsEntitlements
SYMMETRY Symmetry
CHECK_DEADLOCK FALSE
