---------------------------- MODULE AuctionClient ----------------------------
(***************************************************************************)
(* apps/auction/client/auction_client.py: the accounts act on an Auction   *)
(* through clients.  An operation of a client reads the state of the       *)
(* contract, checks it against the clock of the client's machine, and then *)
(* submits transactions, one after the other; between any two of these the *)
(* chain moves on, and any of them may fail, which ends the operation with *)
(* an error.  Every account has one client, which does one operation at a  *)
(* time.                                                                   *)
(*                                                                         *)
(* The contract and the ledger are those of Auction.  The ALGO that a      *)
(* client sends the contract before an opt-in is not modelled.             *)
(***************************************************************************)
EXTENDS Auction

VARIABLE call    \* call[a]: the operation a's client is doing

clientVars == <<vars, call>>

SellerOps == {"set_bid_asset", "optin_asset", "optout_asset", "deposit_asset",
              "withdraw_asset", "commit", "accept_bid", "cancel"}
Ops == SellerOps \cup {"bid", "optin_auction_assets", "finalize"}

\* asset and amount are arguments; bidder and sold are what was read, and
\* todo are the assets still to be worked off.
NoCall == [pc |-> "returned", op |-> "finalize", asset |-> NoAsset, amount |-> 0,
           bidder |-> NoAccount, sold |-> FALSE, todo |-> {}]
Pcs == {"returned", "raised", "read", "optout_old", "optin", "submit", "list", "each", "last"}

OperationCalls ==
  [pc : Pcs, op : Ops, asset : Assets \cup {NoAsset}, amount : Nat,
   bidder : Accounts \cup {NoAccount}, sold : BOOLEAN, todo : SUBSET Assets]

ClientTypeOK ==
  /\ TypeOK
  /\ call \in [Accounts -> OperationCalls]
  /\ \A a \in Accounts : call[a].sold => call[a].op = "finalize" /\ call[a].bidder # NoAccount

ClientInit == Init /\ call = [a \in Accounts |-> NoCall]

-----------------------------------------------------------------------------
(***************************************************************************)
(* The steps of an operation.                                              *)
(***************************************************************************)
At(a, pc, op) == call[a].pc = pc /\ call[a].op = op
Goes(a, pc) == call' = [call EXCEPT ![a].pc = pc]
Returns(a) == call' = [call EXCEPT ![a] = NoCall]
Raises(a) == call' = [call EXCEPT ![a] = [NoCall EXCEPT !.pc = "raised"]]

Begin(a, op, x, n) ==
  /\ call[a].pc \in {"returned", "raised"}
  /\ call' = [call EXCEPT ![a] = [NoCall EXCEPT !.pc = "read", !.op = op, !.asset = x, !.amount = n]]
  /\ UNCHANGED vars

\* A request to the node fails, or the contract rejects the transaction.
Fails(a) ==
  /\ call[a].pc \notin {"returned", "raised"}
  /\ Raises(a)
  /\ UNCHANGED vars

\* The clock of the client is at the timestamp of the last block or ahead of it.
Clock == {now, now + 1}

(***************************************************************************)
(* AuctionState.                                                           *)
(***************************************************************************)
is_bidding_open(clock) == status = "Committed" /\ startTime <= clock /\ clock < endTime
is_ended(clock) == status \in {"BidAccepted", "Cancelled"} \/ (status = "Committed" /\ clock > endTime)
is_sold(clock) == status = "BidAccepted" \/ (status = "Committed" /\ clock > endTime /\ highestBid > 0)

\* get_auction_assets
AuctionAssets == optin[App] \ {bidAsset}

-----------------------------------------------------------------------------
(***************************************************************************)
(* The operations of the seller.                                           *)
(***************************************************************************)
\* set_bid_asset: nothing to do, or the old bid asset has to be opted out first.
ReadForBidAsset(a) ==
  LET x == call[a].asset IN
  /\ At(a, "read", "set_bid_asset") /\ exists
  /\ IF bidAsset = x /\ minBid = call[a].amount THEN Returns(a)
     ELSE IF a # Seller \/ ~AssertNoFreezeClawback(x) THEN Raises(a)
     ELSE Goes(a, IF bidAsset \notin {NoAsset, x} THEN "optout_old" ELSE "submit")
  /\ UNCHANGED vars

\* optout_asset(app_state.bid_asset_id), a no-op if the contract does not hold it.
OptoutOldBidAsset(a) ==
  /\ At(a, "optout_old", "set_bid_asset")
  /\ IF bidAsset \in optin[App] THEN OptoutAsset(a, bidAsset) ELSE UNCHANGED vars
  /\ Goes(a, "submit")

SubmitBidAsset(a) ==
  /\ At(a, "submit", "set_bid_asset")
  /\ SetBidAsset(a, call[a].asset, call[a].amount)
  /\ Returns(a)

\* optin_asset, also as the first half of deposit_asset
ReadForOptin(a) ==
  LET x == call[a].asset IN
  /\ At(a, "read", "optin_asset") \/ At(a, "optin", "deposit_asset")
  /\ exists
  /\ IF a # Seller \/ ~AssertNoFreezeClawback(x) THEN Raises(a)
     ELSE IF x \notin optin[App]
       THEN call' = [call EXCEPT ![a].pc = "submit", ![a].todo = {x}]
     ELSE IF call[a].op = "optin_asset" THEN Returns(a) ELSE Goes(a, "submit")
  /\ UNCHANGED vars

SubmitOptin(a) ==
  /\ call[a].pc = "submit" /\ call[a].op \in {"optin_asset", "deposit_asset"} /\ call[a].todo # {}
  /\ OptinAsset(a, call[a].asset)
  /\ IF call[a].op = "optin_asset" THEN Returns(a) ELSE call' = [call EXCEPT ![a].todo = {}]

ReadForOptout(a) ==
  /\ At(a, "read", "optout_asset") /\ exists
  /\ IF call[a].asset \notin optin[App] THEN Returns(a)
     ELSE IF a # Seller THEN Raises(a) ELSE Goes(a, "submit")
  /\ UNCHANGED vars

SubmitOptout(a) ==
  /\ At(a, "submit", "optout_asset")
  /\ OptoutAsset(a, call[a].asset)
  /\ Returns(a)

ReadForDeposit(a) ==
  /\ At(a, "read", "deposit_asset") /\ exists
  /\ IF a # Seller \/ status # "New" \/ bidAsset = call[a].asset THEN Raises(a) ELSE Goes(a, "optin")
  /\ UNCHANGED vars

\* The deposit itself is a plain transfer, which the contract does not see.
SubmitDeposit(a) ==
  /\ At(a, "submit", "deposit_asset") /\ call[a].todo = {}
  /\ TransferAsset(a, App, call[a].asset, call[a].amount)
  /\ Goes(a, "last")

ReadForWithdraw(a) ==
  /\ At(a, "read", "withdraw_asset") /\ exists
  /\ IF a = Seller /\ status = "New" /\ call[a].asset \in optin[App] /\ bal[App][call[a].asset] >= call[a].amount
     THEN Goes(a, "submit") ELSE Raises(a)
  /\ UNCHANGED vars

SubmitWithdraw(a) ==
  /\ At(a, "submit", "withdraw_asset")
  /\ WithdrawAsset(a, call[a].asset, call[a].amount)
  /\ Goes(a, "last")

\* Both end with one more request, for what the contract holds now.
ReadHolding(a) ==
  /\ call[a].pc = "last" /\ call[a].asset \in optin[App]
  /\ Returns(a)
  /\ UNCHANGED vars

CountsLotsOnly == AuctionAssets # {}

\* What commit() asks of the assets: lots for sale, none of them empty, and no bid
\* asset in the contract yet.
ReadyToSell ==
  /\ AuctionAssets # {}
  /\ \A x \in AuctionAssets : bal[App][x] > 0
  /\ bal[App][bidAsset] = 0

ReadForCommit(a) ==
  /\ At(a, "read", "commit") /\ exists
  /\ IF a = Seller /\ status = "New" /\ bidAsset # NoAsset /\ minBid > 0
     THEN Goes(a, "list") ELSE Raises(a)
  /\ UNCHANGED vars

ReadAssetsForCommit(a) ==
  /\ At(a, "list", "commit")
  /\ IF ReadyToSell THEN Goes(a, "submit") ELSE Raises(a)
  /\ UNCHANGED vars

SubmitCommit(a) ==
  /\ At(a, "submit", "commit")
  /\ \E start, end \in Times : Commit(a, start, end)
  /\ Returns(a)

ReadForAccept(a) ==
  /\ At(a, "read", "accept_bid") /\ exists
  /\ \E clock \in Clock :
       IF is_bidding_open(clock) /\ highestBid > 0 THEN Goes(a, "submit") ELSE Raises(a)
  /\ UNCHANGED vars

SubmitAccept(a) ==
  /\ At(a, "submit", "accept_bid")
  /\ AcceptBid(a)
  /\ Returns(a)

ReadForCancel(a) ==
  /\ At(a, "read", "cancel") /\ exists
  /\ IF a = Seller /\ status = "New" THEN Goes(a, "submit") ELSE Raises(a)
  /\ UNCHANGED vars

SubmitCancel(a) ==
  /\ At(a, "submit", "cancel")
  /\ Cancel(a)
  /\ Returns(a)

-----------------------------------------------------------------------------
(***************************************************************************)
(* The operations of bidders.                                              *)
(***************************************************************************)
ReadForBid(a) ==
  /\ At(a, "read", "bid") /\ exists
  /\ \E clock \in Clock :
       IF is_bidding_open(clock) /\ call[a].amount > highestBid
       THEN call' = [call EXCEPT ![a].pc = "submit", ![a].bidder = highestBidder]
       ELSE Raises(a)
  /\ UNCHANGED vars

SubmitsBid(a) ==
  /\ At(a, "submit", "bid")
  /\ SubmitBid(a, call[a].amount, call[a].bidder)
  /\ Returns(a)

ListForOptin(a) ==
  /\ At(a, "read", "optin_auction_assets") /\ exists
  /\ call' = [call EXCEPT ![a].pc = "each", ![a].todo = AuctionAssets]
  /\ UNCHANGED vars

OptinEach(a) ==
  /\ At(a, "each", "optin_auction_assets")
  /\ IF call[a].todo = {} THEN Returns(a) /\ UNCHANGED vars
     ELSE \E x \in call[a].todo :
       /\ IF x \in optin[a] THEN UNCHANGED vars ELSE AccountOptin(a, x)
       /\ call' = [call EXCEPT ![a].todo = @ \ {x}]

-----------------------------------------------------------------------------
(***************************************************************************)
(* finalize, which anybody may call: the auction assets go first, then the *)
(* bid asset.                                                              *)
(***************************************************************************)
ReadForFinalize(a) ==
  /\ At(a, "read", "finalize") /\ exists
  /\ \E clock \in Clock :
       IF status = "Finalized" THEN Returns(a)
       ELSE IF ~is_ended(clock) THEN Raises(a)
       ELSE call' = [call EXCEPT ![a].pc = "list", ![a].asset = bidAsset,
                                 ![a].sold = is_sold(clock), ![a].bidder = highestBidder]
  /\ UNCHANGED vars

ListForFinalize(a) ==
  /\ At(a, "list", "finalize") /\ exists
  /\ call' = [call EXCEPT ![a].pc = "each", ![a].todo = AuctionAssets]
  /\ UNCHANGED vars

\* The account the auction assets are closed out to.
ClosesOutTo(a) == IF call[a].sold THEN call[a].bidder ELSE Seller

FinalizeEach(a) ==
  /\ At(a, "each", "finalize")
  /\ \E x \in call[a].todo :
       /\ Finalize(x, ClosesOutTo(a))
       /\ call' = [call EXCEPT ![a].todo = @ \ {x}]

ClosesLotsOnly(a) == TRUE

\* Nothing is left to do for an auction that never had a bid asset.
HasNoBidAsset(a) == call[a].asset = NoAsset

\* get_bid_asset_holding() returns None for an asset that is not held, it does not
\* raise the error that finalize() expects, so the call is made either way.
FinalizeBidAsset(a) ==
  /\ At(a, "each", "finalize") /\ call[a].todo = {}
  /\ IF HasNoBidAsset(a) THEN UNCHANGED vars ELSE Finalize(call[a].asset, Seller)
  /\ Returns(a)

-----------------------------------------------------------------------------
\* Anybody else who calls an operation of the seller only gets an error.
SellerCalls(a) ==
  \/ \E x \in Assets, min \in 1 .. MaxMinBid : Begin(a, "set_bid_asset", x, min)
  \/ \E op \in {"optin_asset", "optout_asset"}, x \in Assets : Begin(a, op, x, 0)
  \/ \E op \in {"deposit_asset", "withdraw_asset"}, x \in Assets, n \in Amounts : Begin(a, op, x, n)
  \/ \E op \in {"commit", "accept_bid", "cancel"} : Begin(a, op, NoAsset, 0)

Calls(a) ==
  \/ \E n \in Amounts : Begin(a, "bid", NoAsset, n)
  \/ \E op \in {"optin_auction_assets", "finalize"} : Begin(a, op, NoAsset, 0)

SellerSteps(a) ==
  \/ ReadForBidAsset(a) \/ OptoutOldBidAsset(a) \/ SubmitBidAsset(a)
  \/ ReadForOptin(a) \/ SubmitOptin(a) \/ ReadForOptout(a) \/ SubmitOptout(a)
  \/ ReadForDeposit(a) \/ SubmitDeposit(a) \/ ReadForWithdraw(a) \/ SubmitWithdraw(a) \/ ReadHolding(a)
  \/ ReadForCommit(a) \/ ReadAssetsForCommit(a) \/ SubmitCommit(a)
  \/ ReadForAccept(a) \/ SubmitAccept(a) \/ ReadForCancel(a) \/ SubmitCancel(a)

BidderSteps(a) == ReadForBid(a) \/ SubmitsBid(a) \/ ListForOptin(a) \/ OptinEach(a)

FinalizeSteps(a) ==
  ReadForFinalize(a) \/ ListForFinalize(a) \/ FinalizeEach(a) \/ FinalizeBidAsset(a)

\* What happens on the ledger without the clients, and the deletion by the manager.
\* Whatever else other accounts do there (Auction has all of it) makes a transaction
\* of a client fail at most.
Ledger ==
  /\ \/ \E a \in Accounts, x \in Assets, n \in Amounts : TransferAsset(a, App, x, n)
     \/ \E a \in Accounts \ {Seller}, x \in Assets : AccountOptout(a, Seller, x)
     \/ Tick
     \/ Delete
  /\ UNCHANGED call

ClientNext ==
  \/ SellerCalls(Seller)
  \/ \E a \in Accounts : Calls(a) \/ SellerSteps(a) \/ BidderSteps(a) \/ FinalizeSteps(a) \/ Fails(a)
  \/ Ledger

ClientSpec == ClientInit /\ [][ClientNext]_clientVars

-----------------------------------------------------------------------------
(***************************************************************************)
(* Properties.                                                             *)
(***************************************************************************)
\* The seller's client asserts that every asset for sale has a positive balance, in
\* requests before the commit.  What a bidder bids for is really there until the
\* auction is over, although the contract itself does not look at balances.
LotsAreFilled ==
  status \in {"Committed", "BidAccepted"} => \A x \in AuctionAssets : bal[App][x] > 0

\* What a returning operation says about the auction.
Claim(c) ==
  CASE c.op = "set_bid_asset" -> bidAsset = c.asset /\ minBid = c.amount
    [] c.op = "optin_asset" -> c.asset \in optin[App]
    [] c.op = "optout_asset" -> c.asset \notin optin[App]
    [] c.op = "deposit_asset" -> bal[App][c.asset] >= c.amount
    [] c.op = "commit" -> status # "New"
    [] c.op = "cancel" -> status \in {"Cancelled", "Finalized"}
    [] c.op = "finalize" -> status = "Finalized"
    [] OTHER -> TRUE

\* An operation that returns without an error has done what it is for, whatever has
\* happened between its requests: it neither stops half way nor acts on what is no
\* longer true without noticing.  A finalize() that returns has settled the auction,
\* also when somebody else was finalizing it at the same time.
ReturnsTellTheTruth ==
  [][\A a \in Accounts : \A c \in {call[a]} :
       c.pc \notin {"returned", "raised"} /\ call'[a].pc = "returned" => Claim(c)']_clientVars
=============================================================================
