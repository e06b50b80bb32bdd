SPECIFICATION MCSpec
CONSTANTS
  Tabs = {t1, t2}
  Retention = 1
  MonthDays = 2
  MaxSessions = 2
  MaxEvents = 2
  MaxDay = 3
  MaxPurges = 2
  ShopTabs = {t1, t2}
  Products = {p1}
  Max = 2
  MaxLines = 1
  MaxEdits = 2
  MaxChanges = 1
  NoEntry = NoEntry
  PanelTabs = {t1, t2}
  MaxKeys = 2
  MaxVersion = 2
  MaxChecks = 1
  Interval = 2
  None = None
SYMMETRY Symmetry
CONSTRAINT FewChanges
INVARIANTS ConsentIsKept CartIsKept PurchaseIsLed
PROPERTIES PanelGoesForward
CHECK_DEADLOCK FALSE
