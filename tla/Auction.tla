------------------------------- MODULE Auction -------------------------------
(***************************************************************************)
(* The Auction smart contract (apps/auction/contracts/auction.py) and the  *)
(* part of the Algorand ledger it runs on: who holds which asset, and the  *)
(* timestamp of the latest confirmed block.                                *)
(*                                                                         *)
(* A contract call is one atomic transaction group: either every assertion *)
(* of the handler and every inner transaction succeeds, or nothing         *)
(* changes.  A handler is therefore one action, its Asserts and the ledger *)
(* conditions of its inner transactions are the guard, and a rejected call *)
(* is a step that is not taken.                                            *)
(*                                                                         *)
(* The sender of a call is a parameter, so that Authorize.only is a guard. *)
(* ALGO (fees and storage deposits) is not modelled here.                  *)
(***************************************************************************)
EXTENDS Integers, FiniteSets

CONSTANTS
  Accounts,    \* users' accounts
  App,         \* the account of this contract
  Seller,      \* the account create() was given
  NoAccount,   \* highest_bidder_address before the first bid
  Assets,      \* asset ids
  NoAsset,     \* bid_asset_id = 0
  Revocable,   \* assets with a freeze or a clawback address
  MaxTime,     \* bound: the latest start or end time the seller asks for
  MaxMinBid,   \* bound: largest min_bid the seller asks for
  MaxAmount,   \* bound: largest amount a transaction moves
  Endowment    \* what each account holds of each asset when the auction is created

Holders == Accounts \cup {App}
Times == 0 .. MaxTime
Timestamps == 0 .. MaxTime + 1    \* so that every committed auction can end

ASSUME AccountsAssumption ==
  /\ Seller \in Accounts
  /\ App \notin Accounts
  /\ NoAccount \notin Holders
ASSUME AssetsAssumption ==
  /\ NoAsset \notin Assets
  /\ IsFiniteSet(Assets)
  /\ Revocable \subseteq Assets
ASSUME BoundsAssumption ==
  /\ MaxTime \in Nat
  /\ MaxMinBid \in Nat
  /\ MaxAmount \in Nat
ASSUME EndowmentAssumption ==
  Endowment \in [Accounts -> [Assets -> Nat]]

VARIABLES
  \* the contract's global state
  status, bidAsset, minBid, highestBidder, highestBid, startTime, endTime,
  exists,      \* FALSE once the application has been deleted
  \* the ledger
  optin,       \* optin[h]: the assets holder h is opted in to
  bal,         \* bal[h][x]: h's balance of x
  now          \* Global.latest_timestamp()

contractVars == <<status, bidAsset, minBid, highestBidder, highestBid,
                  startTime, endTime, exists>>
vars == <<contractVars, optin, bal, now>>

Status == {"New", "Committed", "BidAccepted", "Finalized", "Cancelled"}

TypeOK ==
  /\ status \in Status
  /\ bidAsset \in Assets \cup {NoAsset}
  /\ minBid \in Nat
  /\ highestBidder \in Accounts \cup {NoAccount}
  /\ highestBid \in Nat
  /\ startTime \in Times
  /\ endTime \in Times
  /\ exists \in BOOLEAN
  /\ optin \in [Holders -> SUBSET Assets]
  /\ bal \in [Holders -> [Assets -> Nat]]
  /\ now \in Timestamps

-----------------------------------------------------------------------------
(***************************************************************************)
(* Definitions that no action uses (RefundNewBid, WinnerTakesAll, ...) are *)
(* slips the code could have made; each stands before the definition it    *)
(* would replace, and shows which property catches it.                     *)
(***************************************************************************)

(***************************************************************************)
(* The ledger's asset transfers.  A transfer of a positive amount needs    *)
(* both ends opted in; closing out moves the whole balance, and a zero     *)
(* remainder may be closed out to anybody.                                 *)
(***************************************************************************)
Moved(ledger, from, to, x, n) ==
  [h \in Holders |-> [y \in Assets |->
     ledger[h][y] - (IF h = from /\ y = x THEN n ELSE 0)
                  + (IF h = to   /\ y = x THEN n ELSE 0)]]

CanTransfer(from, to, x, n) ==
  /\ x \in optin[from] /\ x \in optin[to]
  /\ n <= bal[from][x]

CanCloseOut(from, to, x) ==
  /\ x \in optin[from]
  /\ bal[from][x] > 0 => x \in optin[to]

\* asset.execute_transfer, submitted by the contract
ExecuteTransfer(to, x, n) ==
  /\ CanTransfer(App, to, x, n)
  /\ bal' = Moved(bal, App, to, x, n)
  /\ optin' = optin

\* asset.execute_optout, submitted by the contract
ExecuteOptout(x, to) ==
  /\ CanCloseOut(App, to, x)
  /\ bal' = Moved(bal, App, to, x, bal[App][x])
  /\ optin' = [optin EXCEPT ![App] = @ \ {x}]

\* asset.execute_optin: a zero transfer to itself, a no-op when x is held
ExecuteOptin(x) ==
  /\ optin' = [optin EXCEPT ![App] = @ \cup {x}]
  /\ bal' = bal

AssertNoFreezeClawback(x) == x \notin Revocable

IsNew == exists /\ status = "New"
TotalAssets == Cardinality(optin[App])

IsSold ==
  \/ status = "BidAccepted"
  \/ /\ status = "Committed"
     /\ now > endTime
     /\ highestBid > 0

OnlyCancelledIsNotSold == status = "Cancelled"

IsNotSold ==
  \/ status = "Cancelled"
  \/ /\ status = "Committed"
     /\ now > endTime
     /\ highestBid = 0

-----------------------------------------------------------------------------
(***************************************************************************)
(* create: initialize_global_state() sets every default, then the seller.  *)
(***************************************************************************)
Init ==
  /\ status = "New"
  /\ bidAsset = NoAsset
  /\ minBid = 0
  /\ highestBidder = NoAccount
  /\ highestBid = 0
  /\ startTime = 0
  /\ endTime = 0
  /\ exists = TRUE
  /\ optin = [h \in Holders |-> IF h = App THEN {} ELSE Assets]
  /\ bal = [h \in Holders |-> IF h = App THEN [x \in Assets |-> 0] ELSE Endowment[h]]
  /\ now = 0

SetBidAsset(sender, x, min) ==
  /\ IsNew
  /\ sender = Seller
  /\ min > 0
  /\ bidAsset \in {NoAsset, x}
  /\ AssertNoFreezeClawback(x)
  /\ bidAsset' = x
  /\ minBid' = min
  /\ ExecuteOptin(x)
  /\ UNCHANGED <<status, highestBidder, highestBid, startTime, endTime, exists, now>>

OptinAsset(sender, x) ==
  /\ IsNew
  /\ sender = Seller
  /\ AssertNoFreezeClawback(x)
  /\ ExecuteOptin(x)
  /\ UNCHANGED <<contractVars, now>>

\* Opting the bid asset out resets bid_asset_id; min_bid keeps its value.
OptoutAsset(sender, x) ==
  /\ IsNew
  /\ sender = Seller
  /\ ExecuteOptout(x, sender)
  /\ bidAsset' = IF x = bidAsset THEN NoAsset ELSE bidAsset
  /\ UNCHANGED <<status, minBid, highestBidder, highestBid, startTime, endTime, exists, now>>

WithdrawAsset(sender, x, amount) ==
  /\ IsNew
  /\ sender = Seller
  /\ ExecuteTransfer(sender, x, amount)
  /\ UNCHANGED <<contractVars, now>>

\* The bidding session lies in the future and is not empty.
ValidWindow(start, end) == start >= now /\ end > start

Commit(sender, start, end) ==
  /\ IsNew
  /\ sender = Seller
  /\ bidAsset # NoAsset
  /\ minBid > 0
  /\ TotalAssets > 1
  /\ ValidWindow(start, end)
  /\ startTime' = start
  /\ endTime' = end
  /\ status' = "Committed"
  /\ UNCHANGED <<bidAsset, minBid, highestBidder, highestBid, exists, optin, bal, now>>

\* Cancelling a cancelled auction is approved and changes nothing.
Cancel(sender) ==
  /\ IsNew
  /\ sender = Seller
  /\ status' = IF TotalAssets = 0 THEN "Finalized" ELSE "Cancelled"
  /\ UNCHANGED <<bidAsset, minBid, highestBidder, highestBid, startTime, endTime,
                 exists, optin, bal, now>>

OpenForever == now >= startTime

BiddingIsOpen == startTime <= now /\ now <= endTime

EqualsHighestBid(amount) == amount >= highestBid

OutbidsHighestBid(amount) == amount > highestBid

RefundNewBid(amount) == amount

\* What goes back to the previous bidder when amount is bid.
Refund(amount) == highestBid

(***************************************************************************)
(* submit_bid.  The bid is an asset transfer in the same group, executed   *)
(* before the call; the bidder is the sender of that transfer.  prev is    *)
(* the account passed as highest_bidder: it has to be the one the contract *)
(* knows, unless this is the first bid.  A previous bidder who has opted   *)
(* out of the bid asset is not refunded.                                   *)
(***************************************************************************)
SubmitBid(bidder, amount, prev) ==
  /\ exists
  /\ status = "Committed"
  /\ BiddingIsOpen
  /\ OutbidsHighestBid(amount)
  /\ CanTransfer(bidder, App, bidAsset, amount)
  /\ highestBid > 0 => prev = highestBidder
  /\ LET paid == Moved(bal, bidder, App, bidAsset, amount)
     IN  bal' = IF highestBid > 0 /\ bidAsset \in optin[prev]
                THEN Moved(paid, App, prev, bidAsset, Refund(amount))
                ELSE paid
  /\ highestBidder' = bidder
  /\ highestBid' = amount
  /\ UNCHANGED <<status, bidAsset, minBid, startTime, endTime, exists, optin, now>>

AcceptBid(sender) ==
  /\ exists
  /\ sender = Seller
  /\ status = "Committed"
  /\ highestBid > 0
  /\ now <= endTime
  /\ status' = "BidAccepted"
  /\ UNCHANGED <<bidAsset, minBid, highestBidder, highestBid, startTime, endTime,
                 exists, optin, bal, now>>

WinnerTakesAll(x, closeTo) ==
  \/ IsSold /\ closeTo = highestBidder
  \/ IsNotSold /\ closeTo = Seller

\* Whom finalize lets an asset be closed out to.
MayReceive(x, closeTo) ==
  \/ /\ IsSold
     /\ \/ closeTo = Seller /\ x = bidAsset
        \/ closeTo = highestBidder /\ x # bidAsset
  \/ /\ IsNotSold
     /\ closeTo = Seller

FinalizedAtOnce == "Finalized"

\* Evaluated after the asset has been closed out.
StatusAfterCloseOut == IF optin'[App] = {} THEN "Finalized" ELSE status

Finalize(x, closeTo) ==
  /\ exists
  /\ status # "Finalized"
  /\ MayReceive(x, closeTo)
  /\ ExecuteOptout(x, closeTo)
  /\ status' = StatusAfterCloseOut
  /\ UNCHANGED <<bidAsset, minBid, highestBidder, highestBid, startTime, endTime,
                 exists, now>>

\* Called by the creator, the AuctionManager contract.
Delete ==
  /\ exists
  /\ status = "Finalized"
  /\ TotalAssets = 0
  /\ exists' = FALSE
  /\ UNCHANGED <<status, bidAsset, minBid, highestBidder, highestBid, startTime,
                 endTime, optin, bal, now>>

-----------------------------------------------------------------------------
(***************************************************************************)
(* What the other accounts do on the ledger, at any time.                  *)
(***************************************************************************)

\* Any user pays any holder, the contract included (how a seller deposits).
TransferAsset(from, to, x, n) ==
  /\ from # to
  /\ CanTransfer(from, to, x, n)
  /\ bal' = Moved(bal, from, to, x, n)
  /\ UNCHANGED <<contractVars, optin, now>>

AccountOptin(a, x) ==
  /\ x \notin optin[a]
  /\ optin' = [optin EXCEPT ![a] = @ \cup {x}]
  /\ UNCHANGED <<contractVars, bal, now>>

AccountOptout(a, to, x) ==
  /\ a # to
  /\ CanCloseOut(a, to, x)
  /\ bal' = Moved(bal, a, to, x, bal[a][x])
  /\ optin' = [optin EXCEPT ![a] = @ \ {x}]
  /\ UNCHANGED <<contractVars, now>>

\* The clawback address of a revocable asset takes units from any holder.
Clawback(from, to, x, n) ==
  /\ x \in Revocable
  /\ from # to
  /\ CanTransfer(from, to, x, n)
  /\ bal' = Moved(bal, from, to, x, n)
  /\ UNCHANGED <<contractVars, optin, now>>

\* A block is confirmed.
Tick ==
  /\ now <= MaxTime
  /\ now' = now + 1
  /\ UNCHANGED <<contractVars, optin, bal>>

-----------------------------------------------------------------------------
Amounts == 1 .. MaxAmount

SellerCall(sender) ==
  \/ \E x \in Assets, min \in 1 .. MaxMinBid : SetBidAsset(sender, x, min)
  \/ \E x \in Assets : OptinAsset(sender, x)
  \/ \E x \in Assets : OptoutAsset(sender, x)
  \/ \E x \in Assets, n \in Amounts : WithdrawAsset(sender, x, n)
  \/ \E start, end \in Times : Commit(sender, start, end)
  \/ Cancel(sender)
  \/ AcceptBid(sender)

Bidding ==
  \E bidder, prev \in Accounts, n \in Amounts : SubmitBid(bidder, n, prev)

Environment ==
  \/ \E a \in Accounts, h \in Holders, x \in Assets, n \in Amounts : TransferAsset(a, h, x, n)
  \/ \E a \in Accounts, x \in Assets : AccountOptin(a, x)
  \/ \E a \in Accounts, h \in Holders, x \in Assets : AccountOptout(a, h, x)
  \/ \E g, h \in Holders, x \in Revocable, n \in Amounts : Clawback(g, h, x, n)
  \/ Tick

Next ==
  \/ \E sender \in Accounts : SellerCall(sender)
  \/ Bidding
  \/ \E x \in Assets, closeTo \in Accounts : Finalize(x, closeTo)
  \/ Delete
  \/ Environment

Spec == Init /\ [][Next]_vars

-----------------------------------------------------------------------------
(***************************************************************************)
(* Safety.                                                                 *)
(***************************************************************************)

\* While bids can still arrive the contract holds the bid asset, and whenever
\* it holds it after commit() its balance covers the highest bid: the refund of
\* submit_bid and the payment of the seller in finalize can never fall short,
\* whatever was withdrawn before commit or clawed back since.
EscrowBacksTheBid ==
  status \in {"Committed", "BidAccepted"} =>
    IF bidAsset \in optin[App]
    THEN bal[App][bidAsset] >= highestBid
    ELSE IsSold \/ IsNotSold

\* set_bid_asset and optin_asset between them keep every asset that can be
\* frozen or clawed back out of the escrow, so nobody else can move a lot.
NoRevocableAsset == optin[App] \cap Revocable = {}

\* Finalized means settled: nothing is left in the escrow, on every path that
\* reaches the status (finalize, and cancel of an auction that holds nothing).
FinalizedHoldsNothing == status = "Finalized" => optin[App] = {}

\* What commit() checked stays true until the auction is settled, although
\* optout_asset resets the bid asset and leaves min_bid behind.
CommittedIsConfigured ==
  status \in {"Committed", "BidAccepted"} =>
    /\ bidAsset # NoAsset /\ minBid > 0
    /\ startTime < endTime
    /\ (highestBid > 0) <=> (highestBidder # NoAccount)

-----------------------------------------------------------------------------
(***************************************************************************)
(* What a step may never do.                                               *)
(***************************************************************************)

\* Once the auction has ended its outcome, its winner and its price are fixed:
\* a late bid, a late accept_bid or a finalize call of half the assets cannot
\* turn sold into not sold or change whom the remaining assets go to.
OutcomeIsFinal ==
  [][/\ IsSold => IsSold' \/ status' = "Finalized"
     /\ IsNotSold => IsNotSold' \/ status' = "Finalized"
     /\ IsSold \/ IsNotSold => UNCHANGED <<highestBidder, highestBid, bidAsset>>]_vars

\* After the seller has let go of the auction (committed or cancelled), an asset
\* leaves the escrow only when the auction is over, whole, and to its owner: the
\* lots to the winner and the winning bid to the seller, or all to the seller.
EscrowGoesToItsOwner ==
  [][\A x \in Assets :
       status # "New" /\ bal'[App][x] < bal[App][x] =>
         LET owner == IF IsSold /\ x # bidAsset THEN highestBidder ELSE Seller
         IN  /\ IsSold \/ IsNotSold
             /\ bal'[App][x] = 0
             /\ bal'[owner][x] = bal[owner][x] + bal[App][x]]_vars

\* A bidder who is outbid, and still holds the bid asset, has the whole bid back
\* in the same step, and the escrow holds exactly the new bid more than the rest.
OutbidIsRefunded ==
  [][highestBid' # highestBid /\ highestBid > 0 =>
       LET back == bidAsset \in optin[highestBidder]
           paid == IF highestBidder' = highestBidder THEN highestBid' ELSE 0
       IN  /\ highestBid' > highestBid
           /\ bal'[highestBidder][bidAsset] =
                bal[highestBidder][bidAsset] - paid + (IF back THEN highestBid ELSE 0)
           /\ bal'[App][bidAsset] =
                bal[App][bidAsset] + highestBid' - (IF back THEN highestBid ELSE 0)]_vars

\* The sale the contract promises, in EnglishAuction's terms.
SalePhase ==
  IF status = "New" THEN "setup"
  ELSE IF status = "Finalized" THEN "done"
  ELSE IF IsSold THEN "sold"
  ELSE IF IsNotSold THEN "unsold" ELSE "open"

Sale == INSTANCE EnglishAuction WITH
          phase <- SalePhase, leader <- highestBidder, price <- highestBid,
          currency <- bidAsset, lots <- optin[App]

ImplementsEnglishAuction == Sale!Spec

-----------------------------------------------------------------------------
(***************************************************************************)
(* Liveness.  Blocks are confirmed for ever, and somebody keeps calling    *)
(* finalize (anyone may) for each asset.  That is not enough by itself: an *)
(* owner who is not opted in to what he is owed blocks the settlement.     *)
(***************************************************************************)
Fairness ==
  /\ WF_vars(Tick)
  /\ \A x \in Assets, closeTo \in Accounts : WF_vars(Finalize(x, closeTo))

FairSpec == Spec /\ Fairness

OwnersAreReady ==
  \A x \in optin[App], a \in Accounts : MayReceive(x, a) => x \in optin[a]

\* A committed auction is settled in the end, sold or not, provided that from
\* some time on whoever is owed an asset is opted in to it.
CommittedIsSettled ==
  <>[]OwnersAreReady => (status = "Committed" ~> status = "Finalized")

=============================================================================
