SPECIFICATION MCSpec
CONSTANTS
  X = {x1, x2}
  Y = {y1, y2}
  Z = {z1}
  None = None
  MaxEntries = 2
  MaxTraversals = 1
  MaxRequests = 2
  MaxLogins = 2
  CampaignCalls = 3
  CampaignOthers = 1
  OrderReads = 4
  OrderActions = 1
  OrderChanges = 2
  RequestReads = 4
  RequestActions = 2
  RequestChanges = 2
  ProductLoads = 2
  ProductEdits = 2
  ProductCalls = 1
  ProductOthers = 1
  LastPhase = 1
  MaxRetries = 1
  UpdatePosts = 3
  UpdateReads = 3
  UpdateChanges = 1
  UpdateVisits = 1
SYMMETRY Symmetry
CONSTRAINT FewCalls
INVARIANTS ShownIsCurrent WorkIsKept
PROPERTIES DoneAsMeant
CHECK_DEADLOCK FALSE
