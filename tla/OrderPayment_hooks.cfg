SPECIFICATION FairSpec
CONSTANTS
  Buyers = {b1}
  Hooks = {h1, h2}
  Admins = {}
  Payments = {p1}
  Notices = {e1, e2}
  MaxAttempts = 1
  MaxFaults = 1
  MaxLosses = 1
  NoOne = NoOne
  Other = Other
INVARIANTS StatusFollowsPayments
PROPERTIES EvidenceKept ApprovedReachesOrder
CHECK_DEADLOCK FALSE
