CONSTANTS
  Instance = {i1, i2, i3}
  Latest = 2
  MaxDeaths = 3
SYMMETRY Symmetric
SPECIFICATION Spec
CHECK_DEADLOCK FALSE
INVARIANTS
  TypeOK
  VersionsTrackSchema
  ServingHasSchema
  AloneNeverFails
