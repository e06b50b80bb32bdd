SPECIFICATION BootstrapSpec
CONSTANTS
  Requests = {r1, r2}
  Legacy = {}
  Workers = {w1, w2}
  Values = {v1}
  NumCodes = 1
  Identity = 1
  MaxAttempts = 2
  MaxTries = 1
  MaxDeaths = 1
  MaxChanges = 0
PROPERTIES LeaseProtects SyncEnds
CHECK_DEADLOCK FALSE
