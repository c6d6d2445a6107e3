CONSTANTS
  WidgetType = {"weather"}
  Configured <- MCConfigured
  Answers = {}
  MaxWidgets = 12
  ExternalTimeout = 1
  ClientTimeout = 2
  WriteTimeout = 12
  MaxListing = 0
  MaxElapsed = 13
SPECIFICATION Spec
CHECK_DEADLOCK FALSE
INVARIANT ListedMeansDelivered
