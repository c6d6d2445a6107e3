CONSTANTS
  WidgetType = {"weather", "stock", "currency"}
  Configured <- MCConfigured
  Answers <- Answer
  MaxWidgets = 3
  ExternalTimeout = 2
  ClientTimeout = 3
  WriteTimeout = 5
  MaxListing = 1
  MaxElapsed = 12
SPECIFICATION FairSpec
CHECK_DEADLOCK FALSE
INVARIANTS
  TypeOK
  OwnAllowance
  LatencyBound
  DashboardInv
PROPERTIES
  NoCallForNobody
  RequestEnds
  ImplementsContract
