SPECIFICATION WatchSpec
CONSTANTS
  Workers = {a, b}
  Items = 1
  MaxEpoch = 1
  MaxFaults = 1
  NoOne = NoOne
SYMMETRY Alike
INVARIANTS OnePost PurchaseAgrees 
PROPERTIES ImplementsPromise AnnulledNotConfirmed
CHECK_DEADLOCK FALSE
