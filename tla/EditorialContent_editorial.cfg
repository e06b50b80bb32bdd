SPECIFICATION ImportedSpec
CONSTANTS
  Products = {1}
  Listings = {l1}
  Workers = {w1, w2}
  Admins = {a1}
  Grants = {{"images", "description"}}
  PageSize = 1
  BatchSize = 1
  MaxRev = 2
  MaxChanges = 1
  MaxFaults = 1
  None = None
INVARIANTS ImportIsWhole
PROPERTIES ContentMovesForAReason ApprovedIsSettled
CHECK_DEADLOCK FALSE
