\* One provider, two buyers who compete for one contract; no crashes;
\* one request, poll, deployment or registration may fail, or the storage restart.
SPECIFICATION FairSpec
CONSTANTS
  p = p
  b1 = b1
  b2 = b2
  f1 = f1
  f2 = f2
  n1 = n1
  n2 = n2
  Owners = {p}
  Buyers = {b1, b2}
  NoAccount = NoAccount
  Denied = {}
  Price = 1
  RETRY_LIMIT = 2
  MaxMerchs = 1
  Files = {f1, f2}
  Movies = {f1}
  FileOwner <- TwoFiles
  BaseName <- TwoNames
  NoFile = NoFile
  Corrupt = Corrupt
  MaxCrashes = 0
  MaxTampers = 2
  MaxFailures = 1
CHECK_DEADLOCK FALSE
INVARIANTS
  TypeOK
  CallsNeverRevert
  BanNeedsTampering
  MoneyOnItsWay
  OneWorkerPerSale
  ServedBuyersHaveData
PROPERTIES
  PurchasesEnd
  OwnerIsPaid
