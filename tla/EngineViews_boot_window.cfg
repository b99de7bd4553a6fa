SPECIFICATION Spec
CONSTANTS
  Appenders = {a1}
  Keys = {}
  ViewOrder <- TwoViews
  Counting = {"activation"}
  Scenarios <- BootWindow
  MaxIds = 4
INVARIANTS ViewsComplete
CHECK_DEADLOCK FALSE
