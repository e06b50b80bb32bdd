SPECIFICATION Spec
CONSTANTS
  Buyers = {b1, b2}
  Hooks = {h1}
  Admins = {a1, a2}
  Payments = {p1}
  Notices = {e1}
  MaxAttempts = 2
  MaxFaults = 1
  MaxLosses = 0
  NoOne = NoOne
  Other = Other
SYMMETRY Symmetry
CONSTRAINT FaultsAmongTwo
INVARIANTS OnePreference ReleasedCannotBePaid LinkHasItsOperation
PROPERTIES ImplementsOutcome
CHECK_DEADLOCK FALSE
