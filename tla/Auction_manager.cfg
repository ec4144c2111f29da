SPECIFICATION Spec
CONSTANTS
  Auctions = {a1, a2}
  Sessions = {s1, s2}
  Creators = {s1, s2}
  Uints = 1
  Bytes = 1
  AccountBase = 1
  EntryBase = 1
  UintBase = 1
  BytesBase = 2
  HoldingBase = 1
  Amounts = {1, 2}
  MaxTransfers = 3
  MaxHoldings = 1
INVARIANTS
  NothingIsStranded
  AvailableUntilWithdrawn
PROPERTIES
  ImplementsTreasury
