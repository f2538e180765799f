\* The honest mediators of one provider and two buyers, no faults.
SPECIFICATION Spec
CONSTANTS
  p = p
  b1 = b1
  b2 = b2
  f1 = f1
  f2 = f2
  n1 = n1
  n2 = n2
  Owners = {p}
  Buyers = {b1, b2}
  NoAccount = NoAccount
  Denied = {}
  Price = 1
  RETRY_LIMIT = 2
  MaxMerchs = 1
  Files = {f1}
  Movies = {f1}
  FileOwner <- OneFile
  BaseName <- OneName
  NoFile = NoFile
  Corrupt = Corrupt
  MaxCrashes = 0
  MaxTampers = 0
  MaxFailures = 0
CHECK_DEADLOCK FALSE
INVARIANTS
  WithdrawsOnlySettled
