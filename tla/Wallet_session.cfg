SPECIFICATION Spec
CONSTANTS
  first = w1
  Users = {u1, u2}
  Wallets = {w1, w2}
  Names = {n1, n2}
  NoName = NoName
  None = None
  MaxKeys = 2
  MaxCalls = 3
  FirstName <- MCFirstName
  FirstKeys <- MCFirstKeys
  Multisigs <- MCMultisigs
SYMMETRY UserSymmetry
INVARIANTS
  RekeyedWithinAWallet
  SignsForTheAuthority
  WalletsAreWanted
  SignedByAll
