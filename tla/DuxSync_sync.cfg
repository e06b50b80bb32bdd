SPECIFICATION Spec
CONSTANTS
  Requests = {r1}
  Legacy = {l1}
  Workers = {w1, w2}
  Values = {v1}
  NumCodes = 2
  Identity = 1
  MaxAttempts = 4
  MaxTries = 2
  MaxDeaths = 1
  MaxChanges = 1
INVARIANTS CatalogAgrees
PROPERTIES MovesWhole
CHECK_DEADLOCK FALSE
