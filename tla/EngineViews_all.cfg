SPECIFICATION FairSpec
CONSTANTS
  Appenders = {a1, a2}
  Keys = {"k"}
  ViewOrder <- TwoViews
  Counting = {"activation"}
  Scenarios <- SerialAndConcurrent
  MaxIds = 4
INVARIANTS ViewsComplete NothingLeftOver AttrExact
PROPERTIES AppendReturns
CHECK_DEADLOCK FALSE
