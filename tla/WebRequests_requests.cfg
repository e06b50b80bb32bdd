SPECIFICATION Spec
CONSTANTS
  Tabs = {t1, t2}
  Keys = {k1, k2}
  Earlier = {k2}
  Owners = {ana, eva}
  Slots = 1
  Admins = {p1, p2}
  Numbers = {n1, n2}
  None = None
  Limit = 3
  MaxVersion = 2
  MaxEdits = 1
  MaxFaults = 1
CONSTRAINT SubmitFirst
SYMMETRY Symmetry
INVARIANTS ReceiptsAreHonest OneSale
PROPERTIES TermsInForce
CHECK_DEADLOCK FALSE
