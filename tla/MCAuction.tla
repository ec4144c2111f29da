------------------------------ MODULE MCAuction ------------------------------
(***************************************************************************)
(* Small instances of Auction for TLC.                                     *)
(***************************************************************************)
EXTENDS Auction, TLC

CONSTANTS
  seller, gold,
  BidUnits    \* how much of gold each bidder starts with

\* The bidders hold the bid asset, the seller one unit of everything else.
BidderPurse == [x \in Assets |-> IF x = gold THEN BidUnits ELSE 0]
SellerPurse == [x \in Assets |-> IF x = gold THEN 0 ELSE 1]
MCEndowment == [a \in Accounts |-> IF a = seller THEN SellerPurse ELSE BidderPurse]

Bidders == Permutations(Accounts \ {seller})
=============================================================================
