--------------------------- MODULE MCAuctionClient ---------------------------
(***************************************************************************)
(* Small instances of AuctionClient for TLC.                               *)
(***************************************************************************)
EXTENDS AuctionClient

CONSTANTS
  seller, gold,
  BidUnits    \* how much of gold each bidder starts with

BidderPurse == [x \in Assets |-> IF x = gold THEN BidUnits ELSE 0]
SellerPurse == [x \in Assets |-> IF x = gold THEN 0 ELSE 1]
MCEndowment == [a \in Accounts |-> IF a = seller THEN SellerPurse ELSE BidderPurse]
=============================================================================
