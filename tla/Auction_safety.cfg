SPECIFICATION Spec
CONSTANTS
  seller = seller
  gold = gold
  Accounts = {seller, alice, bob}
  App = App
  Seller = seller
  NoAccount = NoAccount
  Assets = {gold, art}
  NoAsset = NoAsset
  Revocable = {}
  MaxTime = 2
  MaxMinBid = 1
  MaxAmount = 2
  BidUnits = 2
  Endowment <- MCEndowment
SYMMETRY Bidders
INVARIANTS
  EscrowBacksTheBid
  FinalizedHoldsNothing
PROPERTIES
  OutcomeIsFinal
  EscrowGoesToItsOwner
  OutbidIsRefunded
  ImplementsEnglishAuction
