--------------------------- MODULE AuctionManager ---------------------------
(***************************************************************************)
(* apps/auction/contracts/auction_manager.py, and its client: the money of *)
(* an AuctionManager.                                                      *)
(*                                                                         *)
(* A seller pays the storage fee of an auction, which the ledger then adds *)
(* to the minimum balance of the manager, the creator of the application.  *)
(* Deleting the auction releases it and brings in the ALGO of the          *)
(* auction's own account.  What is above the minimum balance is the        *)
(* treasury.  A contract call is atomic; a client reads in one request and *)
(* submits in another.  Transaction fees, which the callers pay, are left  *)
(* out; so are the assets (see Auction): an auction has a number of        *)
(* holdings, which is what its own minimum balance depends on.             *)
(***************************************************************************)
EXTENDS Integers, FiniteSets, Functions

CONSTANTS
  Auctions,      \* the applications that can be created
  Sessions,      \* clients of the manager
  Creators,      \* those that sign as its creator
  Uints, Bytes,  \* entries of an auction's global state
  AccountBase, EntryBase, UintBase, BytesBase, HoldingBase,  \* prices of storage
  Amounts,       \* amounts of ALGO that anybody may send
  MaxTransfers,  \* bound: number of such transfers
  MaxHoldings    \* bound: assets of an auction

ASSUME ManagerAssumption ==
  /\ Creators \subseteq Sessions
  /\ {Uints, Bytes, EntryBase, UintBase, BytesBase, HoldingBase} \subseteq Nat
  /\ AccountBase \in Nat \ {0}
  /\ Amounts \subseteq Nat \ {0}
  /\ MaxTransfers \in Nat /\ MaxHoldings \in Nat

ASSUME AuctionsAssumption == IsFiniteSet(Auctions)

VARIABLES
  balance,    \* ALGO of the manager's account
  funded,     \* whether create_auction_manager got as far as funding it
  auction,    \* of each auction: its phase, the ALGO and the holdings of its account
  call,       \* of each session: the call it is in, and what it has read
  transfers,  \* how many transfers were made
  paidIn,     \* history: all the ALGO that has come in, to the manager or an auction
  withdrawn   \* history: all the ALGO that has been withdrawn

vars == <<balance, funded, auction, call, transfers, paidIn, withdrawn>>

Phases == {"none", "New", "Ended", "Finalized", "deleted"}
Idle == [pc |-> "idle", amount |-> 0, of |-> "none", overtaken |-> FALSE]
Withdrawing == [pc : {"withdraw"}, amount : Nat \ {0}, of : {"none"}, overtaken : BOOLEAN]
Deleting == [pc : {"delete"}, amount : {0}, of : Auctions, overtaken : {FALSE}]
Calls == {Idle} \cup Withdrawing \cup Deleting

ManagerTypeOK ==
  /\ balance \in Int /\ funded \in BOOLEAN
  /\ auction \in [Auctions -> [phase : Phases, algo : Nat, holdings : 0 .. MaxHoldings]]
  /\ call \in [Sessions -> Calls]
  /\ transfers \in 0 .. MaxTransfers
  /\ paidIn \in Int /\ withdrawn \in Int

Init ==
  /\ balance = 0 /\ funded = FALSE
  /\ auction = [a \in Auctions |-> [phase |-> "none", algo |-> 0, holdings |-> 0]]
  /\ call = [s \in Sessions |-> Idle]
  /\ transfers = 0 /\ paidIn = 0 /\ withdrawn = 0

-----------------------------------------------------------------------------
(***************************************************************************)
(* Prices.  The ledger charges the creator of an application for its state *)
(* and every account for what it holds; auction_storage_fees computes the  *)
(* first from the declared state.                                          *)
(***************************************************************************)
AppMinBalance ==
  AccountBase + Uints * (EntryBase + UintBase) + Bytes * (EntryBase + BytesBase)

auction_storage_fees ==
  AccountBase + EntryBase * (Uints + Bytes) + UintBase * Uints + BytesBase * Bytes

Live == {a \in Auctions : auction[a].phase \in {"New", "Ended", "Finalized"}}

MinBalanceWith(apps) == AccountBase + AppMinBalance * Cardinality(apps)
MinBalance == MinBalanceWith(Live)

\* The ledger accepts a balance that is empty or covers the minimum balance.
Accepts(algo, min) == algo >= min \/ algo = 0

AuctionMinBalance(holdings) == AccountBase + HoldingBase * holdings

-----------------------------------------------------------------------------
(***************************************************************************)
(* Creation of the manager: the application, then a payment.  Between the  *)
(* two, or if the second never comes, anybody may call the application.    *)
(***************************************************************************)
FundManager ==
  /\ ~funded
  /\ funded' = TRUE
  /\ balance' = balance + AccountBase
  /\ paidIn' = paidIn + AccountBase
  /\ UNCHANGED <<auction, call, transfers, withdrawn>>

-----------------------------------------------------------------------------
(***************************************************************************)
(* The contract.                                                           *)
(***************************************************************************)
AnyoneIsPaid(receiver, amount) == amount = auction_storage_fees

PaysTheFee(receiver, amount) ==
  /\ receiver = "manager"
  /\ amount = auction_storage_fees

\* The payment and the call are one group; receiver and amount are whatever the
\* sender put into it.  The inner transaction creates the application for the
\* manager's account.
CreateAuction(a, receiver, amount) ==
  LET received == IF receiver = "manager" THEN amount ELSE 0 IN
  /\ auction[a].phase = "none"
  /\ PaysTheFee(receiver, amount)
  /\ balance' = balance + received
  /\ balance' >= MinBalanceWith(Live \cup {a})
  /\ auction' = [auction EXCEPT ![a].phase = "New"]
  /\ paidIn' = paidIn + received
  /\ UNCHANGED <<funded, call, transfers, withdrawn>>

ClosedOutToTheSender(a) == balance

\* The auction closes its account out to its creator, the manager.
BalanceAfterDeletion(a) == balance + auction[a].algo

DeleteFinalizedAuction(a) ==
  /\ auction[a].phase = "Finalized"
  /\ auction[a].holdings = 0
  /\ balance' = BalanceAfterDeletion(a)
  /\ auction' = [auction EXCEPT ![a].phase = "deleted", ![a].algo = 0]
  /\ UNCHANGED <<funded, transfers, paidIn, withdrawn>>

WithdrawAlgo(s, amount) ==
  /\ s \in Creators
  /\ balance - amount >= MinBalance
  /\ balance' = balance - amount
  /\ withdrawn' = withdrawn + amount
  /\ UNCHANGED <<funded, auction, transfers, paidIn>>

-----------------------------------------------------------------------------
(***************************************************************************)
(* The client.                                                             *)
(***************************************************************************)
WholeBalance == balance

get_treasury_balance == balance - MinBalance

\* withdraw(): with an amount, or everything there is.  An amount of zero
\* returns, a negative one cannot be encoded, one above the treasury raises.
ReadTreasury(s) ==
  \E amount \in Amounts \cup {get_treasury_balance} :
    /\ call[s] = Idle
    /\ 0 < amount /\ amount <= get_treasury_balance
    /\ call' = [call EXCEPT ![s] = [Idle EXCEPT !.pc = "withdraw", !.amount = amount]]
    /\ UNCHANGED <<balance, funded, auction, transfers, paidIn, withdrawn>>

\* The submission overtakes every other withdrawal that has only read so far.
SubmitWithdrawal(s) ==
  /\ call[s].pc = "withdraw"
  /\ WithdrawAlgo(s, call[s].amount)
  /\ call' = [t \in Sessions |->
                IF t = s THEN Idle
                ELSE IF call[t].pc = "withdraw" THEN [call[t] EXCEPT !.overtaken = TRUE]
                ELSE call[t]]

ReadForDeletion(s, a) ==
  /\ call[s] = Idle
  /\ auction[a].phase = "Finalized"
  /\ call' = [call EXCEPT ![s] = [Idle EXCEPT !.pc = "delete", !.of = a]]
  /\ UNCHANGED <<balance, funded, auction, transfers, paidIn, withdrawn>>

SubmitDeletion(s) ==
  /\ call[s].pc = "delete"
  /\ DeleteFinalizedAuction(call[s].of)
  /\ call' = [call EXCEPT ![s] = Idle]

\* A request fails, or the transaction is rejected: an auction that somebody
\* else has deleted, a treasury that somebody else has emptied.
Fails(s) ==
  /\ call[s] # Idle
  /\ call' = [call EXCEPT ![s] = Idle]
  /\ UNCHANGED <<balance, funded, auction, transfers, paidIn, withdrawn>>

-----------------------------------------------------------------------------
(***************************************************************************)
(* The life of an auction (see Auction), as far as its ALGO is concerned.  *)
(***************************************************************************)

\* set_bid_asset() and optin_asset(): the ledger asks for the storage of the holding.
OptIn(a) ==
  /\ auction[a].phase = "New"
  /\ auction[a].holdings < MaxHoldings
  /\ auction[a].algo >= AuctionMinBalance(auction[a].holdings + 1)
  /\ auction' = [auction EXCEPT ![a].holdings = @ + 1]
  /\ UNCHANGED <<balance, funded, call, transfers, paidIn, withdrawn>>

\* cancel(), or commit() and the end of the bidding.
End(a) ==
  /\ auction[a].phase = "New"
  /\ auction' = [auction EXCEPT ![a].phase = IF auction[a].holdings = 0 THEN "Finalized"
                                             ELSE "Ended"]
  /\ UNCHANGED <<balance, funded, call, transfers, paidIn, withdrawn>>

\* optout_asset() while it is new, finalize() once it has ended.
CloseOut(a) ==
  /\ auction[a].phase \in {"New", "Ended"}
  /\ auction[a].holdings > 0
  /\ auction' = [auction EXCEPT ![a].holdings = @ - 1,
                                ![a].phase = IF @ = "Ended" /\ auction[a].holdings = 1
                                             THEN "Finalized" ELSE @]
  /\ UNCHANGED <<balance, funded, call, transfers, paidIn, withdrawn>>

\* Anybody sends ALGO to an auction, the seller in order to opt in an asset.
PayAuction(a, amount) ==
  /\ transfers < MaxTransfers
  /\ a \in Live
  /\ Accepts(auction[a].algo + amount, AuctionMinBalance(auction[a].holdings))
  /\ auction' = [auction EXCEPT ![a].algo = @ + amount]
  /\ transfers' = transfers + 1
  /\ paidIn' = paidIn + amount
  /\ UNCHANGED <<balance, funded, call, withdrawn>>

PayManager(amount) ==
  /\ transfers < MaxTransfers
  /\ Accepts(balance + amount, MinBalance)
  /\ balance' = balance + amount
  /\ transfers' = transfers + 1
  /\ paidIn' = paidIn + amount
  /\ UNCHANGED <<funded, auction, call, withdrawn>>

\* Every auction is gone, the treasury empty and no transfer left to be made.
Settled ==
  /\ funded /\ transfers = MaxTransfers
  /\ \A a \in Auctions : auction[a].phase = "deleted"
  /\ balance = MinBalance
  /\ UNCHANGED vars

-----------------------------------------------------------------------------
Next ==
  \/ FundManager
  \/ Settled
  \/ \E a \in Auctions :
       \/ \E receiver \in {"manager", "other"}, amount \in Amounts \cup {auction_storage_fees} :
            CreateAuction(a, receiver, amount)
       \/ OptIn(a) \/ End(a) \/ CloseOut(a)
       \/ \E amount \in Amounts : PayAuction(a, amount)
  \/ \E amount \in Amounts : PayManager(amount)
  \/ \E s \in Sessions :
       \/ ReadTreasury(s)
       \/ SubmitWithdrawal(s)
       \/ \E a \in Auctions : ReadForDeletion(s, a)
       \/ SubmitDeletion(s)
       \/ Fails(s)

Spec == Init /\ [][Next]_vars

-----------------------------------------------------------------------------
(***************************************************************************)
(* Properties.                                                             *)
(***************************************************************************)

\* Everything that sellers and donors have ever paid, to the manager or to an
\* auction, is where the creator can still get at it, or has withdrawn it: fees
\* and deposits come back with each deletion, once, and none is stranded.
NothingIsStranded ==
  paidIn = withdrawn + balance + SumFunction([a \in Auctions |-> auction[a].algo])

\* An amount that withdraw() has found available stays available until another
\* withdrawal is submitted: auctions that are created or deleted, and whatever
\* is paid meanwhile, never use up the treasury.
AvailableUntilWithdrawn ==
  \A s \in Sessions :
    call[s].pc = "withdraw" /\ ~call[s].overtaken => call[s].amount <= balance - MinBalance

Surplus == IF balance = 0 THEN 0 ELSE balance - MinBalance
Earned == INSTANCE Treasury WITH
            StorageFee <- auction_storage_fees,
            surplus <- Surplus,
            collected <- {a \in Auctions : auction[a].phase = "deleted"},
            paidOut <- withdrawn

\* The contract implements Treasury: creating an auction costs the creator
\* nothing, deleting it earns its fee once, only withdrawals take anything out.
ImplementsTreasury == Earned!Spec
=============================================================================
