CONSTANTS
  s1 = s1
  s2 = s2
  u1 = u1
  u2 = u2
  Slot <- Slots
  User <- Users
  WidgetType <- MCWidgetTypes
  RawType <- MCRawTypes
  RawConfig <- MCRawConfigs
  StoredConfig <- MCStoredConfigs
  Jsonb <- MCJsonb
  NormalFormOf <- MCNormalFormOf
  Invalid <- MCInvalid
  Malformed = Malformed
  NoRow = NoRow
  None = None
  MaxId = 2
  MaxClock = 1
SPECIFICATION Spec
PROPERTY UpdatedAtMovesForward
