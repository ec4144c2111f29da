SPECIFICATION FairSpec
CONSTANTS
  seller = seller
  gold = gold
  Accounts = {seller, alice}
  App = App
  Seller = seller
  NoAccount = NoAccount
  Assets = {gold, art, fiat}
  NoAsset = NoAsset
  Revocable = {fiat}
  MaxTime = 1
  MaxMinBid = 1
  MaxAmount = 1
  BidUnits = 1
  Endowment <- MCEndowment
PROPERTIES
  CommittedIsSettled
