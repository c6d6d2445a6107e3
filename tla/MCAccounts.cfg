CONSTANTS
  s1 = s1
  s2 = s2
  ann = ann
  bob = bob
  malformed = malformed
  pw1 = pw1
  pw2 = pw2
  long = long
  Slot <- Slots
  Address = {ann, bob, malformed}
  ValidAddress <- ValidAddresses
  Password = {pw1, pw2, long}
  ValidPassword <- ValidPasswords
  Significant <- MCSignificant
  None = None
  NoUser = NoUser
  MaxUsers = 2
  TTL = 3
  Second = 2
  MaxClock = 3
  MaxTokens = 1
SYMMETRY SymmetrySets
SPECIFICATION Spec
INVARIANTS
  TypeOK
  AccountsInv
  OneAccountPerAddress
  TokenNamesItsOwner
  TokenLife
PROPERTY ImplementsDirectory
