SPECIFICATION MCSpec
CONSTANTS
  Codes = {c1, c2}
  Names = {n1, n2}
  Admins = {a1, a2}
  Uploads = {1, 2}
  Historic = {i1}
  Imported = {u1}
  Preserved <- SharedPicture
  MaxChanges = 1
  MaxFaults = 1
  None = None
  Callers = {c1, c2}
  Interval = 5
  Window = 1
  MaxQueue = 10
  MaxSkew = 1
  MaxTime = 10
  Checkpoints <- Reports
  Budget <- Requests
  Deadline = 9
  Timeout = 3
  Breath = 1
  RetryWaits <- Waits
  MaxLate = 2
  k1 = k1
  k2 = k2
  k3 = k3
  p1 = p1
  p2 = p2
  Cases = {k1, k2, k3}
  Locals = {p1, p2}
  Parts = {"images", "description"}
  Confirmed <- Approved
  ConfirmedUse <- ApprovedUse
  Manual = {k2, k3}
  Candidates <- Offered
  Pages <- Local
  Reviewers = {a1, a2}
  MaxVersion = 3
  Readers = {a1, a2}
  Callbacks = {c1, c2}
  OauthStates = {n1, n2}
  Polls = 1
  MaxPairs = 3
  Nobody = Nobody
  Dead = Dead
  ReadCodes = {1, 2, 3}
  StockOf <- Stock
  ItemPageLimit = 1
  MaxItemPages = 3
  RequestInterval = 2
  RequestTimeout = 2
  SyncDeadline = 11
  MaxGetAttempts = 2
  MaxTotalAttempts = 5
  DefaultRetryDelay = 1
  RetryAfters = {3, 4}
  MaxRetryDelay = 3
  MaxReadChanges = 2
  ReadSlack = 1
SYMMETRY Symmetry
CONSTRAINT FewFaults
INVARIANTS ReadIsWhole RelayIsHonest PicturesAreStored LinksFollowReviews ConnectionHolds
PROPERTIES GateHolds EditsStayApart
CHECK_DEADLOCK FALSE
