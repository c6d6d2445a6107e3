CONSTANTS
  s1 = s1
  s2 = s2
  u1 = u1
  u2 = u2
  Slot <- Slots
  User <- Users
  WidgetType <- MCWidgetTypes
  RawType <- MCRawTypes
  RawConfig <- MCRawConfigs
  StoredConfig <- MCStoredConfigs
  Jsonb <- MCJsonb
  NormalFormOf <- MCNormalFormOf
  Invalid <- MCInvalid
  Malformed = Malformed
  NoRow = NoRow
  None = None
  MaxId = 2
  MaxClock = 1
SYMMETRY SymmetrySets
SPECIFICATION Spec
INVARIANTS
  TypeOK
  WidgetInv
  StoredConfigFits
  CreatedBeforeUpdated
PROPERTY
  ImplementsStore
  OnlyOwnersWrite
  IdsServeOnce
