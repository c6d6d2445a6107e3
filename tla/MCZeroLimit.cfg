CONSTANTS
  Word <- MCWord
  Empty = ""
  TickerWord <- MCTickerWord
  CurrencyWord <- MCCurrencyWord
  NulWord <- MCNulWord
  RawConfig <- MCRawConfig
  Pending = Pending
SPECIFICATION Spec
CHECK_DEADLOCK FALSE
INVARIANT OnlyDocumentedAccepted
