SPECIFICATION ClientSpec
CONSTANTS
  seller = seller
  gold = gold
  Accounts = {seller, alice}
  App = App
  Seller = seller
  NoAccount = NoAccount
  Assets = {gold, art}
  NoAsset = NoAsset
  Revocable = {}
  MaxTime = 1
  MaxMinBid = 1
  MaxAmount = 2
  BidUnits = 2
  Endowment <- MCEndowment

  
PROPERTIES
  ReturnsTellTheTruth
