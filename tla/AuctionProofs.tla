---------------------------- MODULE AuctionProofs ----------------------------
(***************************************************************************)
(* Proofs about Auction and AuctionClient, for any number of accounts,     *)
(* assets, balances and any bound on time.                                 *)
(*                                                                         *)
(* The contract: the escrow always backs the highest bid, only irrevocable *)
(* assets enter it, and a finalized auction holds nothing.                 *)
(*                                                                         *)
(* The clients: whatever they do is a behaviour of Auction, so that all of *)
(* this holds of a contract used through them; and the seller's client     *)
(* keeps what the contract itself does not check, that every lot is really *)
(* there.  An operation that returns has done what it is for.              *)
(***************************************************************************)
EXTENDS AuctionClient, FiniteSetTheorems, TLAPS

\* The part of the state the contract's status says something about.
StatusInv ==
  /\ status = "New" => highestBid = 0 /\ highestBidder = NoAccount
  /\ status = "New" /\ bidAsset # NoAsset => bidAsset \in optin[App]
  /\ (highestBid > 0) <=> (highestBidder # NoAccount)

\* The inductive invariant.  EscrowBacksTheBid is not inductive by itself: that
\* the bid asset cannot be clawed back needs NoRevocableAsset, that commit finds
\* it in the escrow needs the second part of StatusInv (optout_asset resets it),
\* and that commit starts from a zero bid needs the first.
IInv ==
  /\ TypeOK
  /\ StatusInv
  /\ EscrowBacksTheBid
  /\ NoRevocableAsset
  /\ FinalizedHoldsNothing
  /\ CommittedIsConfigured

-----------------------------------------------------------------------------
\* What Moved does at each place, whoever moves what.
LEMMA MovedAt ==
  ASSUME NEW ledger, NEW from, NEW to, NEW x, NEW n, NEW h \in Holders, NEW y \in Assets
  PROVE  Moved(ledger, from, to, x, n)[h][y] =
           ledger[h][y] - (IF h = from /\ y = x THEN n ELSE 0)
                        + (IF h = to   /\ y = x THEN n ELSE 0)
BY DEF Moved

\* A transfer the sender can afford leaves a ledger of natural numbers.
LEMMA MovedIsLedger ==
  ASSUME NEW ledger \in [Holders -> [Assets -> Nat]],
         NEW from \in Holders, NEW to \in Holders,
         NEW x \in Assets, NEW n \in Nat,
         n <= ledger[from][x]
  PROVE  Moved(ledger, from, to, x, n) \in [Holders -> [Assets -> Nat]]
<1>1. ASSUME NEW h \in Holders, NEW y \in Assets
      PROVE  ledger[h][y] - (IF h = from /\ y = x THEN n ELSE 0)
                          + (IF h = to   /\ y = x THEN n ELSE 0) \in Nat
  <2>1. ledger[h][y] \in Nat
    OBVIOUS
  <2>2. h = from /\ y = x => n <= ledger[h][y]
    OBVIOUS
  <2>3. QED
    BY <2>1, <2>2
<1>2. QED
  BY <1>1 DEF Moved

\* What the escrow holds of an asset after a transfer, for the three uses of
\* Moved by the other definitions: money in, money out, and a third party's.
LEMMA EscrowAfterMove ==
  ASSUME NEW ledger \in [Holders -> [Assets -> Nat]],
         NEW from \in Holders, NEW to \in Holders,
         NEW x \in Assets, NEW n \in Nat,
         n <= ledger[from][x]
  PROVE  /\ from # App => \A y \in Assets : Moved(ledger, from, to, x, n)[App][y] >= ledger[App][y]
         /\ \A y \in Assets \ {x} : Moved(ledger, from, to, x, n)[App][y] = ledger[App][y]
         /\ from # App /\ to = App =>
              Moved(ledger, from, to, x, n)[App][x] = ledger[App][x] + n
         /\ from = App /\ to # App =>
              Moved(ledger, from, to, x, n)[App][x] = ledger[App][x] - n
<1>1. App \in Holders
  BY DEF Holders
<1>2. \A y \in Assets : ledger[App][y] \in Nat
  BY <1>1
<1>3. \A y \in Assets : Moved(ledger, from, to, x, n)[App][y] =
        ledger[App][y] - (IF App = from /\ y = x THEN n ELSE 0)
                       + (IF App = to   /\ y = x THEN n ELSE 0)
  BY <1>1, MovedAt
<1>4. QED
  BY <1>2, <1>3

\* An account holding no asset is what cancel and delete test by totalAssets = 0.
LEMMA NoAssetsIsEmpty ==
  ASSUME TypeOK, TotalAssets = 0
  PROVE  optin[App] = {}
<1>1. optin[App] \subseteq Assets
  BY DEF TypeOK, Holders
<1>2. IsFiniteSet(optin[App])
  BY <1>1, AssetsAssumption, FS_Subset
<1>3. QED
  BY <1>2, FS_EmptySet DEF TotalAssets

-----------------------------------------------------------------------------
LEMMA InitIInv == Init => IInv
<1> SUFFICES ASSUME Init PROVE IInv
  OBVIOUS
<1>1. TypeOK
  BY AccountsAssumption, BoundsAssumption, EndowmentAssumption
  DEF Init, TypeOK, Status, Holders, Times, Timestamps
<1>2. optin[App] = {}
  BY DEF Init, Holders
<1>3. QED
  BY <1>1, <1>2 DEF Init, IInv, StatusInv, EscrowBacksTheBid, NoRevocableAsset,
     FinalizedHoldsNothing, CommittedIsConfigured

-----------------------------------------------------------------------------
(***************************************************************************)
(* Each action preserves the inductive invariant.                          *)
(***************************************************************************)
LEMMA SetBidAssetIInv ==
  ASSUME IInv, NEW sender \in Accounts, NEW x \in Assets, NEW min \in 1 .. MaxMinBid,
         SetBidAsset(sender, x, min)
  PROVE  IInv'
<1> USE DEF SetBidAsset, ExecuteOptin, IsNew
<1>1. min \in Nat /\ min > 0 /\ App \in Holders
  BY BoundsAssumption DEF Holders
<1>2. TypeOK'
  BY <1>1 DEF IInv, TypeOK
<1>3. optin'[App] = optin[App] \cup {x}
  BY <1>1 DEF IInv, TypeOK
<1>4. StatusInv' /\ EscrowBacksTheBid' /\ CommittedIsConfigured' /\ FinalizedHoldsNothing'
  BY <1>1, <1>3 DEF IInv, TypeOK, StatusInv, EscrowBacksTheBid, CommittedIsConfigured, FinalizedHoldsNothing
<1>5. NoRevocableAsset'
  BY <1>3 DEF IInv, NoRevocableAsset, AssertNoFreezeClawback
<1>6. QED
  BY <1>2, <1>4, <1>5 DEF IInv

LEMMA OptinAssetIInv ==
  ASSUME IInv, NEW sender \in Accounts, NEW x \in Assets, OptinAsset(sender, x)
  PROVE  IInv'
<1> USE DEF OptinAsset, ExecuteOptin, IsNew, contractVars
<1>1. App \in Holders
  BY DEF Holders
<1>2. TypeOK'
  BY <1>1 DEF IInv, TypeOK
<1>3. optin'[App] = optin[App] \cup {x}
  BY <1>1 DEF IInv, TypeOK
<1>4. StatusInv' /\ EscrowBacksTheBid' /\ CommittedIsConfigured' /\ FinalizedHoldsNothing'
  BY <1>3 DEF IInv, StatusInv, EscrowBacksTheBid, CommittedIsConfigured, FinalizedHoldsNothing
<1>5. NoRevocableAsset'
  BY <1>3 DEF IInv, NoRevocableAsset, AssertNoFreezeClawback
<1>6. QED
  BY <1>2, <1>4, <1>5 DEF IInv

\* Closing out to an account keeps the types; the asset is gone from the escrow.
LEMMA ExecuteOptoutEffect ==
  ASSUME TypeOK, NEW x \in Assets, NEW to \in Accounts, ExecuteOptout(x, to)
  PROVE  /\ bal' \in [Holders -> [Assets -> Nat]]
         /\ optin' \in [Holders -> SUBSET Assets]
         /\ optin'[App] = optin[App] \ {x}
         /\ \A y \in Assets \ {x} : bal'[App][y] = bal[App][y]
<1>1. App \in Holders /\ to \in Holders /\ to # App
  BY AccountsAssumption DEF Holders
<1>2. bal[App][x] \in Nat /\ bal[App][x] <= bal[App][x]
  BY <1>1 DEF TypeOK
<1>3. /\ bal' \in [Holders -> [Assets -> Nat]]
      /\ \A y \in Assets \ {x} : bal'[App][y] = bal[App][y]
  <2>1. bal' = Moved(bal, App, to, x, bal[App][x]) /\ bal \in [Holders -> [Assets -> Nat]]
    BY DEF ExecuteOptout, TypeOK
  <2>2. Moved(bal, App, to, x, bal[App][x]) \in [Holders -> [Assets -> Nat]]
    BY <1>1, <1>2, <2>1, MovedIsLedger
  <2>3. \A y \in Assets \ {x} : Moved(bal, App, to, x, bal[App][x])[App][y] = bal[App][y]
    BY <1>1, <1>2, <2>1, EscrowAfterMove
  <2>4. QED
    BY <2>1, <2>2, <2>3
<1>4. QED
  BY <1>1, <1>3 DEF TypeOK, ExecuteOptout

LEMMA OptoutAssetIInv ==
  ASSUME IInv, NEW sender \in Accounts, NEW x \in Assets, OptoutAsset(sender, x)
  PROVE  IInv'
<1> USE DEF OptoutAsset, IsNew
<1>1. /\ bal' \in [Holders -> [Assets -> Nat]]
      /\ optin' \in [Holders -> SUBSET Assets]
      /\ optin'[App] = optin[App] \ {x}
  BY ExecuteOptoutEffect DEF IInv
<1>2. TypeOK'
  BY <1>1 DEF IInv, TypeOK
<1>3. StatusInv' /\ EscrowBacksTheBid' /\ CommittedIsConfigured' /\ FinalizedHoldsNothing'
  BY <1>1 DEF IInv, StatusInv, EscrowBacksTheBid, CommittedIsConfigured, FinalizedHoldsNothing
<1>4. NoRevocableAsset'
  BY <1>1 DEF IInv, NoRevocableAsset
<1>5. QED
  BY <1>2, <1>3, <1>4 DEF IInv

LEMMA WithdrawAssetIInv ==
  ASSUME IInv, NEW sender \in Accounts, NEW x \in Assets, NEW n \in Amounts,
         WithdrawAsset(sender, x, n)
  PROVE  IInv'
<1> USE DEF WithdrawAsset, IsNew, contractVars
<1>1. App \in Holders /\ sender \in Holders /\ n \in Nat /\ n <= bal[App][x]
  BY DEF Holders, Amounts, IInv, TypeOK, ExecuteTransfer, CanTransfer
<1>2. bal' \in [Holders -> [Assets -> Nat]] /\ optin' = optin
  BY <1>1, MovedIsLedger DEF IInv, TypeOK, ExecuteTransfer
<1>3. TypeOK'
  BY <1>2 DEF IInv, TypeOK
<1>4. QED
  BY <1>2, <1>3 DEF IInv, StatusInv, EscrowBacksTheBid, CommittedIsConfigured,
     FinalizedHoldsNothing, NoRevocableAsset

LEMMA CommitIInv ==
  ASSUME IInv, NEW sender \in Accounts, NEW start \in Times, NEW end \in Times,
         Commit(sender, start, end)
  PROVE  IInv'
<1> USE DEF Commit, IsNew
<1>1. TypeOK'
  BY DEF IInv, TypeOK, Status
<1>2. bidAsset \in optin[App] /\ highestBid = 0 /\ highestBidder = NoAccount
  BY DEF IInv, StatusInv
<1>3. bal[App][bidAsset] \in Nat
  BY <1>2 DEF IInv, TypeOK, Holders
<1>4. EscrowBacksTheBid'
  BY <1>2, <1>3 DEF EscrowBacksTheBid
<1>5. start \in Int /\ end \in Int
  BY DEF Times
<1>6. CommittedIsConfigured' /\ StatusInv' /\ FinalizedHoldsNothing' /\ NoRevocableAsset'
  BY <1>2, <1>5 DEF ValidWindow, IInv, CommittedIsConfigured, StatusInv, FinalizedHoldsNothing, NoRevocableAsset
<1>7. QED
  BY <1>1, <1>4, <1>6 DEF IInv

LEMMA CancelIInv ==
  ASSUME IInv, NEW sender \in Accounts, Cancel(sender)
  PROVE  IInv'
<1> USE DEF Cancel, IsNew
<1>1. TypeOK'
  BY DEF IInv, TypeOK, Status
<1>2. FinalizedHoldsNothing'
  BY NoAssetsIsEmpty DEF IInv, FinalizedHoldsNothing
<1>3. StatusInv' /\ EscrowBacksTheBid' /\ CommittedIsConfigured' /\ NoRevocableAsset'
  BY DEF IInv, StatusInv, EscrowBacksTheBid, CommittedIsConfigured, NoRevocableAsset
<1>4. QED
  BY <1>1, <1>2, <1>3 DEF IInv

\* The heart of the matter: the bid comes in first, and the refund that goes out
\* is the bid it was backing.
LEMMA SubmitBidIInv ==
  ASSUME IInv, NEW bidder \in Accounts, NEW prev \in Accounts,
         NEW n \in Amounts, SubmitBid(bidder, n, prev)
  PROVE  IInv'
<1> USE DEF SubmitBid, Refund
<1> DEFINE paid == Moved(bal, bidder, App, bidAsset, n)
<1>1. /\ bidder \in Holders /\ prev \in Holders /\ App \in Holders
      /\ bidder # App /\ prev # App /\ bidder # NoAccount
  BY AccountsAssumption DEF Holders
<1>2. bidAsset \in Assets /\ n \in Nat /\ n <= bal[bidder][bidAsset] /\ n > highestBid /\ highestBid \in Nat
  BY <1>1 DEF Amounts, CanTransfer, OutbidsHighestBid, IInv, TypeOK
<1>3. bidAsset \in optin[App] /\ bal[App][bidAsset] \in Nat
  BY <1>1, <1>2 DEF CanTransfer, IInv, TypeOK
<1>4. bal[App][bidAsset] >= highestBid
  BY <1>3 DEF IInv, EscrowBacksTheBid
<1>5. paid \in [Holders -> [Assets -> Nat]] /\ paid[App][bidAsset] = bal[App][bidAsset] + n
  <2>1. bal \in [Holders -> [Assets -> Nat]]
    BY DEF IInv, TypeOK
  <2>2. Moved(bal, bidder, App, bidAsset, n) \in [Holders -> [Assets -> Nat]]
    BY <1>1, <1>2, <2>1, MovedIsLedger
  <2>3. Moved(bal, bidder, App, bidAsset, n)[App][bidAsset] = bal[App][bidAsset] + n
    BY <1>1, <1>2, <2>1, EscrowAfterMove
  <2>4. QED
    BY <2>2, <2>3
<1>6. CASE highestBid > 0 /\ bidAsset \in optin[prev]
  <2>1. bal' = Moved(paid, App, prev, bidAsset, highestBid)
    BY <1>6
  <2>2. highestBid <= paid[App][bidAsset]
    BY <1>2, <1>3, <1>4, <1>5
  <2>3. /\ bal' \in [Holders -> [Assets -> Nat]]
        /\ bal'[App][bidAsset] = paid[App][bidAsset] - highestBid
    <3> HIDE DEF paid, SubmitBid, Refund
    <3>0. paid \in [Holders -> [Assets -> Nat]] /\ highestBid \in Nat
      BY <1>2, <1>5
    <3>1. Moved(paid, App, prev, bidAsset, highestBid) \in [Holders -> [Assets -> Nat]]
      BY <3>0, <2>2, <1>1, <1>2, MovedIsLedger
    <3>2. Moved(paid, App, prev, bidAsset, highestBid)[App][bidAsset] = paid[App][bidAsset] - highestBid
      BY <3>0, <2>2, <1>1, <1>2, EscrowAfterMove
    <3>3. QED
      BY <2>1, <3>1, <3>2
  <2>4. QED
    <3>1. bal'[App][bidAsset] >= n
      BY <2>3, <1>5, <1>4, <1>2, <1>3
    <3>2. TypeOK'
      BY <2>3, <1>2 DEF IInv, TypeOK
    <3>3. QED
      BY <3>1, <3>2, <1>1, <1>2, <1>3 DEF IInv, StatusInv, EscrowBacksTheBid,
         NoRevocableAsset, FinalizedHoldsNothing, CommittedIsConfigured
<1>7. CASE ~(highestBid > 0 /\ bidAsset \in optin[prev])
  <2>1. bal' = paid
    BY <1>7
  <2>2. bal'[App][bidAsset] >= n
    BY <2>1, <1>5, <1>2, <1>3
  <2>3. TypeOK'
    BY <2>1, <1>5, <1>2 DEF IInv, TypeOK
  <2>4. QED
    BY <2>2, <2>3, <1>1, <1>2, <1>3 DEF IInv, StatusInv, EscrowBacksTheBid,
       NoRevocableAsset, FinalizedHoldsNothing, CommittedIsConfigured
<1>8. QED
  BY <1>6, <1>7

LEMMA AcceptBidIInv ==
  ASSUME IInv, NEW sender \in Accounts, AcceptBid(sender)
  PROVE  IInv'
<1> USE DEF AcceptBid
<1>1. TypeOK'
  BY DEF IInv, TypeOK, Status
<1>2. EscrowBacksTheBid'
  BY DEF IInv, EscrowBacksTheBid, IsSold, IsNotSold
<1>3. StatusInv' /\ CommittedIsConfigured' /\ FinalizedHoldsNothing' /\ NoRevocableAsset'
  BY DEF IInv, StatusInv, CommittedIsConfigured, FinalizedHoldsNothing, NoRevocableAsset
<1>4. QED
  BY <1>1, <1>2, <1>3 DEF IInv

LEMMA FinalizeIInv ==
  ASSUME IInv, NEW x \in Assets, NEW closeTo \in Accounts, Finalize(x, closeTo)
  PROVE  IInv'
<1> USE DEF Finalize, StatusAfterCloseOut
<1>1. /\ bal' \in [Holders -> [Assets -> Nat]]
      /\ optin' \in [Holders -> SUBSET Assets]
      /\ optin'[App] = optin[App] \ {x}
      /\ \A y \in Assets \ {x} : bal'[App][y] = bal[App][y]
  BY ExecuteOptoutEffect DEF IInv
<1>2. TypeOK'
  BY <1>1 DEF IInv, TypeOK, Status
<1>3. IsSold \/ IsNotSold
  BY DEF MayReceive
<1>4. status' = status => (IsSold \/ IsNotSold)'
  BY <1>3 DEF IsSold, IsNotSold
<1>5. EscrowBacksTheBid'
  <2>1. ASSUME status' \in {"Committed", "BidAccepted"}, bidAsset' \in optin'[App]
        PROVE  bal'[App][bidAsset'] >= highestBid'
    <3>1. bidAsset' = bidAsset /\ highestBid' = highestBid /\ status' = status
      BY <2>1
    <3>2. bidAsset \in Assets \ {x} /\ bidAsset \in optin[App]
      BY <2>1, <3>1, <1>1, AssetsAssumption DEF IInv, TypeOK, Holders
    <3>3. bal[App][bidAsset] >= highestBid
      BY <2>1, <3>1, <3>2 DEF IInv, EscrowBacksTheBid
    <3>4. QED
      BY <3>1, <3>2, <3>3, <1>1
  <2>2. ASSUME status' \in {"Committed", "BidAccepted"} PROVE (IsSold \/ IsNotSold)'
    BY <2>2, <1>4
  <2>3. QED
    BY <2>1, <2>2 DEF EscrowBacksTheBid
<1>6. StatusInv' /\ CommittedIsConfigured' /\ FinalizedHoldsNothing'
  <2>1. status # "New"
    BY <1>3 DEF IsSold, IsNotSold
  <2>2. QED
    BY <1>1, <2>1 DEF IInv, StatusInv, CommittedIsConfigured, FinalizedHoldsNothing
<1>7. NoRevocableAsset'
  BY <1>1 DEF IInv, NoRevocableAsset
<1>8. QED
  BY <1>2, <1>5, <1>6, <1>7 DEF IInv

LEMMA DeleteIInv ==
  ASSUME IInv, Delete
  PROVE  IInv'
BY DEF Delete, IInv, TypeOK, StatusInv, EscrowBacksTheBid, NoRevocableAsset,
   FinalizedHoldsNothing, CommittedIsConfigured

-----------------------------------------------------------------------------
(***************************************************************************)
(* Steps of the other accounts and of the clock.                           *)
(***************************************************************************)

\* A step that leaves the contract and its opt-ins alone and takes nothing of an
\* asset it holds out of the escrow preserves the invariant.
LEMMA LedgerStepIInv ==
  ASSUME IInv, UNCHANGED <<contractVars, now>>,
         bal' \in [Holders -> [Assets -> Nat]],
         optin' \in [Holders -> SUBSET Assets],
         optin'[App] = optin[App],
         \A y \in optin[App] : bal'[App][y] >= bal[App][y]
  PROVE  IInv'
<1> USE DEF contractVars
<1>1. TypeOK'
  BY DEF IInv, TypeOK
<1>2. EscrowBacksTheBid'
  <2>1. ASSUME status \in {"Committed", "BidAccepted"}, bidAsset \in optin[App]
        PROVE  bal'[App][bidAsset] >= highestBid
    <3>1. bidAsset \in Assets /\ App \in Holders
      BY <2>1 DEF IInv, TypeOK, Holders
    <3>2. bal[App][bidAsset] \in Nat /\ bal'[App][bidAsset] \in Nat /\ highestBid \in Nat
      BY <3>1 DEF IInv, TypeOK
    <3>3. bal[App][bidAsset] >= highestBid /\ bal'[App][bidAsset] >= bal[App][bidAsset]
      BY <2>1 DEF IInv, EscrowBacksTheBid
    <3>4. QED
      BY <3>2, <3>3
  <2>2. QED
    BY <2>1 DEF IInv, EscrowBacksTheBid, IsSold, IsNotSold
<1>3. StatusInv' /\ NoRevocableAsset' /\ FinalizedHoldsNothing' /\ CommittedIsConfigured'
  BY DEF IInv, StatusInv, NoRevocableAsset, FinalizedHoldsNothing, CommittedIsConfigured
<1>4. QED
  BY <1>1, <1>2, <1>3 DEF IInv

LEMMA EnvironmentIInv ==
  ASSUME IInv, Environment
  PROVE  IInv'
<1>1. App \in Holders /\ optin[App] \subseteq Assets /\ bal \in [Holders -> [Assets -> Nat]]
  BY DEF IInv, TypeOK, Holders
<1>2. ASSUME NEW a \in Accounts, NEW h \in Holders, NEW x \in Assets, NEW n \in Amounts,
             TransferAsset(a, h, x, n)
      PROVE  IInv'
  <2>1. a \in Holders /\ a # App /\ n \in Nat /\ n <= bal[a][x]
    BY AccountsAssumption, <1>1, <1>2 DEF Holders, Amounts, TransferAsset, CanTransfer
  <2>2. /\ bal' \in [Holders -> [Assets -> Nat]]
        /\ \A y \in Assets : bal'[App][y] >= bal[App][y]
    BY <1>1, <1>2, <2>1, MovedIsLedger, EscrowAfterMove DEF TransferAsset
  <2>3. UNCHANGED <<contractVars, now>> /\ optin' = optin
    BY <1>2 DEF TransferAsset
  <2>4. optin' \in [Holders -> SUBSET Assets]
    BY <2>3 DEF IInv, TypeOK
  <2>5. QED
    BY <1>1, <2>2, <2>3, <2>4, LedgerStepIInv
<1>3. ASSUME NEW a \in Accounts, NEW x \in Assets, AccountOptin(a, x)
      PROVE  IInv'
  <2>1. a \in Holders /\ a # App
    BY AccountsAssumption DEF Holders
  <2>2. optin' \in [Holders -> SUBSET Assets] /\ optin'[App] = optin[App]
    BY <1>1, <1>3, <2>1 DEF AccountOptin, IInv, TypeOK
  <2>3. UNCHANGED <<contractVars, now>> /\ bal' = bal
    BY <1>3 DEF AccountOptin
  <2>4. \A y \in optin[App] : bal[App][y] >= bal[App][y]
    BY <1>1
  <2>5. QED
    BY <1>1, <2>2, <2>3, <2>4, LedgerStepIInv
<1>4. ASSUME NEW a \in Accounts, NEW h \in Holders, NEW x \in Assets, AccountOptout(a, h, x)
      PROVE  IInv'
  <2>1. a \in Holders /\ a # App /\ bal[a][x] \in Nat /\ bal[a][x] <= bal[a][x]
    BY AccountsAssumption, <1>1 DEF Holders
  <2>2. /\ bal' \in [Holders -> [Assets -> Nat]]
        /\ \A y \in Assets : bal'[App][y] >= bal[App][y]
    BY <1>1, <1>4, <2>1, MovedIsLedger, EscrowAfterMove DEF AccountOptout
  <2>3. optin' \in [Holders -> SUBSET Assets] /\ optin'[App] = optin[App]
    BY <1>1, <1>4, <2>1 DEF AccountOptout, IInv, TypeOK
  <2>4. UNCHANGED <<contractVars, now>>
    BY <1>4 DEF AccountOptout
  <2>5. QED
    BY <1>1, <2>2, <2>3, <2>4, LedgerStepIInv
<1>5. ASSUME NEW g \in Holders, NEW h \in Holders, NEW x \in Revocable, NEW n \in Amounts,
             Clawback(g, h, x, n)
      PROVE  IInv'
  <2>1. x \in Assets /\ n \in Nat /\ n <= bal[g][x]
    BY AssetsAssumption, <1>1, <1>5 DEF Amounts, Clawback, CanTransfer
  <2>2. x \notin optin[App]
    BY DEF IInv, NoRevocableAsset
  <2>3. /\ bal' \in [Holders -> [Assets -> Nat]]
        /\ \A y \in Assets \ {x} : bal'[App][y] = bal[App][y]
    <3>1. bal' = Moved(bal, g, h, x, n)
      BY <1>5 DEF Clawback
    <3>2. Moved(bal, g, h, x, n) \in [Holders -> [Assets -> Nat]]
      BY <1>1, <2>1, MovedIsLedger
    <3>3. \A y \in Assets \ {x} : Moved(bal, g, h, x, n)[App][y] = bal[App][y]
      <4>1. ASSUME NEW y \in Assets, y # x
            PROVE  Moved(bal, g, h, x, n)[App][y] = bal[App][y] - 0 + 0
        BY <1>1, <4>1, MovedAt
      <4>2. \A y \in Assets : bal[App][y] \in Nat
        BY <1>1
      <4> QED BY <4>1, <4>2
    <3>4. QED
      BY <3>1, <3>2, <3>3
  <2>4. \A y \in optin[App] : bal'[App][y] >= bal[App][y]
    <3>1. \A y \in optin[App] : y \in Assets \ {x} /\ bal[App][y] \in Nat
      BY <1>1, <2>2
    <3>2. QED
      BY <3>1, <2>3
  <2>5. UNCHANGED <<contractVars, now>> /\ optin' = optin
    BY <1>5 DEF Clawback
  <2>6. optin' \in [Holders -> SUBSET Assets]
    BY <2>5 DEF IInv, TypeOK
  <2>7. QED
    BY <2>3, <2>4, <2>5, <2>6, LedgerStepIInv
<1>6. ASSUME Tick PROVE IInv'
  <2>1. TypeOK'
    BY <1>6, BoundsAssumption DEF Tick, contractVars, IInv, TypeOK, Timestamps
  <2>2. now \in Int /\ endTime \in Int /\ now' = now + 1
    BY <1>6, BoundsAssumption DEF Tick, IInv, TypeOK, Timestamps, Times
  <2>3. IsSold \/ IsNotSold => (IsSold \/ IsNotSold)'
    BY <1>6, <2>2 DEF Tick, contractVars, IsSold, IsNotSold
  <2>4. EscrowBacksTheBid'
    BY <1>6, <2>3 DEF Tick, contractVars, IInv, EscrowBacksTheBid
  <2>5. StatusInv' /\ NoRevocableAsset' /\ FinalizedHoldsNothing' /\ CommittedIsConfigured'
    BY <1>6 DEF Tick, contractVars, IInv, StatusInv, NoRevocableAsset, FinalizedHoldsNothing, CommittedIsConfigured
  <2>6. QED
    BY <2>1, <2>4, <2>5 DEF IInv
<1>7. QED
  BY <1>2, <1>3, <1>4, <1>5, <1>6 DEF Environment

-----------------------------------------------------------------------------
LEMMA StepIInv == IInv /\ [Next]_vars => IInv'
<1> SUFFICES ASSUME IInv, [Next]_vars PROVE IInv'
  OBVIOUS
<1>1. ASSUME NEW sender \in Accounts, SellerCall(sender) PROVE IInv'
  BY <1>1, SetBidAssetIInv, OptinAssetIInv, OptoutAssetIInv, WithdrawAssetIInv,
     CommitIInv, CancelIInv, AcceptBidIInv DEF SellerCall
<1>2. CASE Bidding
  BY <1>2, SubmitBidIInv DEF Bidding
<1>3. ASSUME NEW x \in Assets, NEW closeTo \in Accounts, Finalize(x, closeTo) PROVE IInv'
  BY <1>3, FinalizeIInv
<1>4. CASE Delete
  BY <1>4, DeleteIInv
<1>5. CASE Environment
  BY <1>5, EnvironmentIInv
<1>6. CASE UNCHANGED vars
  BY <1>6 DEF vars, contractVars, IInv, TypeOK, StatusInv, EscrowBacksTheBid, IsSold,
     IsNotSold, NoRevocableAsset, FinalizedHoldsNothing, CommittedIsConfigured
<1>7. QED
  BY <1>1, <1>2, <1>3, <1>4, <1>5, <1>6 DEF Next

THEOREM SpecIInv == Spec => []IInv
BY InitIInv, StepIInv, PTL DEF Spec

\* Every variable keeps its type, for any accounts, assets and balances.
THEOREM AuctionTypes == Spec => []TypeOK
<1>1. IInv => TypeOK
  BY DEF IInv
<1>2. QED
  BY <1>1, SpecIInv, PTL

\* The contract can always pay: while it is committed it holds the bid asset and
\* at least the highest bid of it, so refunds and the sale price never fall short.
THEOREM EscrowIsSolvent == Spec => []EscrowBacksTheBid
<1>1. IInv => EscrowBacksTheBid
  BY DEF IInv
<1>2. QED
  BY <1>1, SpecIInv, PTL

\* No asset with a freeze or clawback address ever enters the escrow.
THEOREM EscrowIsIrrevocable == Spec => []NoRevocableAsset
<1>1. IInv => NoRevocableAsset
  BY DEF IInv
<1>2. QED
  BY <1>1, SpecIInv, PTL

\* A finalized auction holds nothing, so the creator can always delete it.
THEOREM FinalizedIsEmpty == Spec => []FinalizedHoldsNothing
<1>1. IInv => FinalizedHoldsNothing
  BY DEF IInv
<1>2. QED
  BY <1>1, SpecIInv, PTL

\* What commit checked holds for as long as the auction is committed.
THEOREM CommittedStaysConfigured == Spec => []CommittedIsConfigured
<1>1. IInv => CommittedIsConfigured
  BY DEF IInv
<1>2. QED
  BY <1>1, SpecIInv, PTL

-----------------------------------------------------------------------------
(***************************************************************************)
(* Action properties.                                                      *)
(***************************************************************************)

\* A step of another account or of the clock cannot turn one outcome into the
\* other: time only moves forward.
LEMMA EnvironmentKeepsOutcome ==
  ASSUME IInv, Environment
  PROVE  /\ UNCHANGED contractVars
         /\ IsSold => IsSold'
         /\ IsNotSold => IsNotSold'
<1>1. now \in Int /\ endTime \in Int
  BY BoundsAssumption DEF IInv, TypeOK, Timestamps, Times
<1>2. UNCHANGED contractVars /\ now' \in {now, now + 1}
  BY DEF Environment, TransferAsset, AccountOptin, AccountOptout, Clawback, Tick
<1>3. QED
  BY <1>1, <1>2 DEF contractVars, IsSold, IsNotSold

\* What the outcome of an auction that has ended is, and whom it goes to, is
\* settled: no step changes it, only the last finalize closes the auction.
THEOREM OutcomeStaysFinal == Spec => OutcomeIsFinal
<1> DEFINE Kept ==
      /\ IsSold => IsSold' \/ status' = "Finalized"
      /\ IsNotSold => IsNotSold' \/ status' = "Finalized"
      /\ IsSold \/ IsNotSold => UNCHANGED <<highestBidder, highestBid, bidAsset>>
<1>1. IInv /\ [Next]_vars => [Kept]_vars
  <2> SUFFICES ASSUME IInv, Next PROVE Kept
    OBVIOUS
  <2>1. now \in Int /\ endTime \in Int
    BY BoundsAssumption DEF IInv, TypeOK, Timestamps, Times
  <2>2. ASSUME NEW sender \in Accounts, SellerCall(sender) PROVE Kept
    <3>1. ~IsSold /\ ~IsNotSold
      BY <2>1, <2>2 DEF SellerCall, SetBidAsset, OptinAsset, OptoutAsset, WithdrawAsset,
         Commit, Cancel, AcceptBid, IsNew, IsSold, IsNotSold
    <3>2. QED
      BY <3>1
  <2>3. CASE Bidding
    <3>1. ~IsSold /\ ~IsNotSold
      BY <2>1, <2>3 DEF Bidding, SubmitBid, BiddingIsOpen, IsSold, IsNotSold
    <3>2. QED
      BY <3>1
  <2>4. ASSUME NEW x \in Assets, NEW closeTo \in Accounts, Finalize(x, closeTo) PROVE Kept
    BY <2>4 DEF Finalize, StatusAfterCloseOut, IsSold, IsNotSold
  <2>5. CASE Delete
    BY <2>5 DEF Delete, IsSold, IsNotSold
  <2>6. CASE Environment
    BY <2>6, EnvironmentKeepsOutcome DEF contractVars
  <2>7. QED
    BY <2>2, <2>3, <2>4, <2>5, <2>6 DEF Next
<1>2. QED
  BY <1>1, SpecIInv, PTL DEF Spec, OutcomeIsFinal

-----------------------------------------------------------------------------
(***************************************************************************)
(* The contract implements EnglishAuction under the mapping of Sale.       *)
(***************************************************************************)
LEMMA SaleInit == Init => Sale!Init
BY DEF Init, Sale!Init, SalePhase, Holders

LEMMA SaleStep ==
  ASSUME IInv, [Next]_vars
  PROVE  [Sale!Next]_(Sale!saleVars)
<1> USE DEF Sale!saleVars
<1>1. now \in Int /\ endTime \in Int /\ highestBid \in Nat /\ App \in Holders
  BY BoundsAssumption DEF IInv, TypeOK, Timestamps, Times, Holders
<1>2. optin[App] \subseteq Assets /\ IInv'
  BY <1>1, StepIInv DEF IInv, TypeOK
<1>3. status = "New" /\ status' = "New" => SalePhase = "setup" /\ SalePhase' = "setup"
  BY DEF SalePhase
<1>4. ASSUME NEW x \in Assets, IsNew, UNCHANGED <<status, highestBidder, highestBid>>,
             optin'[App] \in {optin[App], optin[App] \cup {x}, optin[App] \ {x}}
      PROVE  Sale!Next
  <2>1. bidAsset' \in Assets \cup {NoAsset} /\ (bidAsset' # NoAsset => bidAsset' \in optin'[App])
    BY <1>2, <1>4 DEF IInv, TypeOK, StatusInv, IsNew
  <2>2. Sale!Arrange
    BY <1>3, <1>4, <2>1 DEF Sale!Arrange, IsNew
  <2>3. QED
    BY <2>2 DEF Sale!Next
<1>5. ASSUME NEW sender \in Accounts, SellerCall(sender)
      PROVE  [Sale!Next]_(Sale!saleVars)
  <2>1. ASSUME NEW x \in Assets, NEW min \in 1 .. MaxMinBid, SetBidAsset(sender, x, min)
        PROVE  Sale!Next
    BY <1>1, <1>4, <2>1 DEF SetBidAsset, ExecuteOptin, IInv, TypeOK
  <2>2. ASSUME NEW x \in Assets, OptinAsset(sender, x)
        PROVE  Sale!Next
    BY <1>1, <1>4, <2>2 DEF OptinAsset, ExecuteOptin, contractVars, IInv, TypeOK
  <2>3. ASSUME NEW x \in Assets, OptoutAsset(sender, x)
        PROVE  Sale!Next
    BY <1>1, <1>4, <2>3 DEF OptoutAsset, ExecuteOptout, IInv, TypeOK
  <2>4. ASSUME NEW x \in Assets, NEW n \in Amounts, WithdrawAsset(sender, x, n)
        PROVE  UNCHANGED Sale!saleVars
    BY <2>4 DEF WithdrawAsset, ExecuteTransfer, contractVars, SalePhase, IsNew, IsSold, IsNotSold
  <2>5. ASSUME NEW start \in Times, NEW end \in Times, Commit(sender, start, end)
        PROVE  Sale!Next
    <3>1. bidAsset \in optin[App]
      BY <2>5 DEF Commit, IsNew, IInv, StatusInv
    <3>2. optin[App] # {bidAsset}
      <4>1. SUFFICES ASSUME optin[App] = {bidAsset} PROVE FALSE
        OBVIOUS
      <4>2. Cardinality(optin[App]) = 1
        BY <4>1, FS_Singleton
      <4>3. QED
        BY <2>5, <4>2 DEF Commit, TotalAssets
    <3>3. start \in Int /\ end \in Int
      BY DEF Times
    <3>4. SalePhase = "setup" /\ SalePhase' = "open"
      BY <1>1, <2>5, <3>3 DEF Commit, ValidWindow, IsNew, SalePhase, IsSold, IsNotSold
    <3>5. Sale!Open
      BY <2>5, <3>1, <3>2, <3>4 DEF Commit, Sale!Open
    <3>6. QED
      BY <3>5 DEF Sale!Next
  <2>6. ASSUME Cancel(sender) PROVE Sale!Next
    <3>1. TotalAssets = 0 <=> optin[App] = {}
      BY NoAssetsIsEmpty, FS_EmptySet DEF IInv, TotalAssets
    <3>2. Sale!CallOff
      BY <2>6, <3>1 DEF Cancel, IsNew, Sale!CallOff, SalePhase, IsSold, IsNotSold
    <3>3. QED
      BY <3>2 DEF Sale!Next
  <2>7. ASSUME AcceptBid(sender) PROVE Sale!Next
    <3>1. SalePhase = "open" /\ SalePhase' = "sold"
      BY <1>1, <2>7 DEF AcceptBid, SalePhase, IsSold, IsNotSold
    <3>2. Sale!Close
      BY <2>7, <3>1 DEF AcceptBid, Sale!Close
    <3>3. QED
      BY <3>2 DEF Sale!Next
  <2>8. QED
    BY <1>5, <2>1, <2>2, <2>3, <2>4, <2>5, <2>6, <2>7 DEF SellerCall
<1>6. CASE Bidding
  <2>1. PICK bidder \in Accounts, prev \in Accounts, n \in Amounts : SubmitBid(bidder, n, prev)
    BY <1>6 DEF Bidding
  <2>2. SalePhase = "open" /\ SalePhase' = "open"
    <3>1. highestBid' \in Nat
      BY <1>2 DEF IInv, TypeOK
    <3>2. QED
      BY <1>1, <2>1, <3>1 DEF SubmitBid, BiddingIsOpen, SalePhase, IsSold, IsNotSold
  <2>3. Sale!Raise(bidder, highestBid')
    BY <2>1, <2>2 DEF SubmitBid, OutbidsHighestBid, Sale!Raise
  <2>4. QED
    BY <2>3 DEF Sale!Next
<1>7. ASSUME NEW x \in Assets, NEW closeTo \in Accounts, Finalize(x, closeTo)
      PROVE  Sale!Next
  <2>1. x \in optin[App] /\ optin'[App] = optin[App] \ {x}
    BY <1>1, <1>7 DEF Finalize, ExecuteOptout, CanCloseOut, IInv, TypeOK
  <2>2. SalePhase \in {"sold", "unsold"}
    BY <1>7 DEF Finalize, StatusAfterCloseOut, MayReceive, SalePhase, IsSold, IsNotSold
  <2>3. SalePhase' = IF optin'[App] = {} THEN "done" ELSE SalePhase
    BY <1>7 DEF Finalize, StatusAfterCloseOut, MayReceive, SalePhase, IsSold, IsNotSold
  <2>4. Sale!HandOver(x)
    BY <1>7, <2>1, <2>2, <2>3 DEF Finalize, StatusAfterCloseOut, Sale!HandOver
  <2>5. QED
    BY <2>1, <2>4 DEF Sale!Next
<1>8. CASE Delete
  BY <1>8 DEF Delete, SalePhase, IsSold, IsNotSold
<1>9. CASE Environment
  <2>1. UNCHANGED contractVars /\ optin'[App] = optin[App]
    <3>1. \A a \in Accounts : a # App
      BY AccountsAssumption
    <3>2. QED
      BY <1>1, <1>9, <3>1 DEF Environment, TransferAsset, AccountOptin, AccountOptout, Clawback,
         Tick, IInv, TypeOK
  <2>2. CASE IsSold \/ IsNotSold
    <3>1. SalePhase' = SalePhase
      BY <1>1, <1>9, <2>1, <2>2, EnvironmentKeepsOutcome DEF contractVars, SalePhase, IsSold, IsNotSold
    <3>2. QED
      BY <2>1, <3>1 DEF contractVars
  <2>3. CASE ~IsSold /\ ~IsNotSold
    <3>1. CASE SalePhase' = SalePhase
      BY <2>1, <3>1 DEF contractVars
    <3>2. CASE SalePhase' # SalePhase
      <4>1. SalePhase = "open" /\ SalePhase' = IF highestBid > 0 THEN "sold" ELSE "unsold"
        BY <1>1, <2>1, <2>3, <3>2 DEF contractVars, SalePhase, IsSold, IsNotSold
      <4>2. Sale!Close
        BY <2>1, <4>1 DEF contractVars, Sale!Close
      <4>3. QED
        BY <4>2 DEF Sale!Next
    <3>3. QED
      BY <3>1, <3>2
  <2>4. QED
    BY <2>2, <2>3
<1>10. CASE UNCHANGED vars
  BY <1>10 DEF vars, contractVars, SalePhase, IsSold, IsNotSold
<1>11. QED
  BY <1>5, <1>6, <1>7, <1>8, <1>9, <1>10 DEF Next

\* Every behaviour of the contract is, seen through the mapping of Sale, an
\* English auction: bids only rise while it is open, it ends once, and what it
\* holds is handed over until nothing is left.
THEOREM ContractIsEnglishAuction == Spec => ImplementsEnglishAuction
<1>1. IInv /\ [Next]_vars => [Sale!Next]_(Sale!saleVars)
  BY SaleStep
<1>2. QED
  BY <1>1, SaleInit, SpecIInv, PTL DEF Spec, ImplementsEnglishAuction, Sale!Spec

-----------------------------------------------------------------------------
(***************************************************************************)
(* Where the money goes.                                                   *)
(***************************************************************************)

\* The escrow's balances after a bid: nothing but the bid asset moves, and of it
\* the escrow ends up with more than it had.
LEMMA BidFillsTheEscrow ==
  ASSUME IInv, NEW bidder \in Accounts, NEW prev \in Accounts,
         NEW n \in Amounts, SubmitBid(bidder, n, prev)
  PROVE  LET back == IF highestBid > 0 /\ bidAsset \in optin[prev] THEN highestBid ELSE 0 IN
         \A h \in Holders, y \in Assets :
           bal'[h][y] = IF y # bidAsset THEN bal[h][y]
                        ELSE bal[h][y] - (IF h = bidder THEN n ELSE 0) + (IF h = App THEN n ELSE 0)
                                       - (IF h = App THEN back ELSE 0) + (IF h = prev THEN back ELSE 0)
<1> DEFINE paid == Moved(bal, bidder, App, bidAsset, n)
<1> USE DEF SubmitBid, Refund
<1>1. /\ bidder \in Holders /\ prev \in Holders /\ App \in Holders
      /\ bidder # App /\ prev # App
  BY AccountsAssumption DEF Holders
<1>2. /\ bidAsset \in Assets /\ n \in Nat /\ n <= bal[bidder][bidAsset] /\ n > highestBid
      /\ highestBid \in Nat /\ bal \in [Holders -> [Assets -> Nat]]
  BY <1>1 DEF Amounts, CanTransfer, OutbidsHighestBid, IInv, TypeOK
<1>3. /\ paid \in [Holders -> [Assets -> Nat]]
      /\ \A h \in Holders, y \in Assets :
           paid[h][y] = bal[h][y] - (IF h = bidder /\ y = bidAsset THEN n ELSE 0)
                                  + (IF h = App    /\ y = bidAsset THEN n ELSE 0)
  <2>1. paid \in [Holders -> [Assets -> Nat]]
    BY <1>1, <1>2, MovedIsLedger
  <2>2. QED
    BY <2>1, MovedAt
<1>4. bal[App][bidAsset] >= highestBid /\ bal[App][bidAsset] \in Nat
  BY <1>1, <1>2 DEF CanTransfer, IInv, EscrowBacksTheBid
<1>5. \A h \in Holders, y \in Assets : bal[h][y] \in Nat
  BY <1>2
<1>6. CASE highestBid > 0 /\ bidAsset \in optin[prev]
  <2>1. bal' = Moved(paid, App, prev, bidAsset, highestBid)
    BY <1>6
  <2>2. highestBid <= paid[App][bidAsset]
    BY <1>1, <1>2, <1>3, <1>4
  <2>3. \A h \in Holders, y \in Assets :
          bal'[h][y] = paid[h][y] - (IF h = App  /\ y = bidAsset THEN highestBid ELSE 0)
                                  + (IF h = prev /\ y = bidAsset THEN highestBid ELSE 0)
    <3> HIDE DEF paid
    <3>1. QED
      BY <2>1, MovedAt
  <2>4. QED
    BY <2>3, <1>1, <1>2, <1>3, <1>5, <1>6
<1>7. CASE ~(highestBid > 0 /\ bidAsset \in optin[prev])
  <2>1. bal' = paid
    BY <1>7
  <2>2. QED
    BY <2>1, <1>1, <1>2, <1>3, <1>5, <1>7
<1>8. QED
  BY <1>6, <1>7

\* After commit or cancel an asset leaves the escrow only when the auction is
\* over, in full, to the account that is owed it.
THEOREM EscrowReachesItsOwner == Spec => EscrowGoesToItsOwner
<1> DEFINE Owed(x) ==
      status # "New" /\ bal'[App][x] < bal[App][x] =>
        LET owner == IF IsSold /\ x # bidAsset THEN highestBidder ELSE Seller
        IN  /\ IsSold \/ IsNotSold
            /\ bal'[App][x] = 0
            /\ bal'[owner][x] = bal[owner][x] + bal[App][x]
<1>1. ASSUME IInv, [Next]_vars, NEW x \in Assets PROVE Owed(x)
  <2>1. /\ App \in Holders /\ bal \in [Holders -> [Assets -> Nat]]
        /\ bal[App][x] \in Nat /\ optin[App] \subseteq Assets
        /\ \A a \in Accounts : a \in Holders /\ a # App
    BY <1>1, AccountsAssumption DEF IInv, TypeOK, Holders
  <2>2. ASSUME NEW sender \in Accounts, SellerCall(sender) PROVE Owed(x)
    <3>1. status = "New" \/ bal' = bal
      BY <2>2 DEF SellerCall, SetBidAsset, OptinAsset, OptoutAsset, WithdrawAsset, Commit,
         Cancel, AcceptBid, IsNew
    <3>2. QED
      BY <3>1, <2>1
  <2>3. CASE Bidding
    <3>1. bal'[App][x] >= bal[App][x]
      <4>1. PICK bidder \in Accounts, prev \in Accounts, n \in Amounts : SubmitBid(bidder, n, prev)
        BY <2>3 DEF Bidding
      <4>2. n > highestBid /\ n \in Int /\ highestBid \in Nat
        BY <1>1, <4>1 DEF SubmitBid, OutbidsHighestBid, Amounts, IInv, TypeOK
      <4>3. bal'[App][x] = IF x # bidAsset THEN bal[App][x]
                           ELSE bal[App][x] + n - (IF highestBid > 0 /\ bidAsset \in optin[prev]
                                                   THEN highestBid ELSE 0)
        BY <1>1, <2>1, <4>1, <4>2, BidFillsTheEscrow
      <4>4. QED
        BY <2>1, <4>2, <4>3
    <3>2. bal'[App][x] \in Int
      BY <1>1, <2>1, StepIInv DEF IInv, TypeOK
    <3>3. QED
      BY <2>1, <3>1, <3>2
  <2>4. ASSUME NEW y \in Assets, NEW closeTo \in Accounts, Finalize(y, closeTo) PROVE Owed(x)
    <3>1. bal[App][y] \in Nat /\ bal[App][y] <= bal[App][y]
      BY <2>1
    <3>2. \A h \in Holders, z \in Assets :
            bal'[h][z] = bal[h][z] - (IF h = App     /\ z = y THEN bal[App][y] ELSE 0)
                                   + (IF h = closeTo /\ z = y THEN bal[App][y] ELSE 0)
      <4>1. bal' = Moved(bal, App, closeTo, y, bal[App][y])
        BY <2>4 DEF Finalize, ExecuteOptout
      <4>2. QED
        BY <4>1, MovedAt
    <3>3. CASE x # y
      BY <2>1, <3>2, <3>3
    <3>4. CASE x = y
      <4>1. /\ IsSold \/ IsNotSold
            /\ closeTo = IF IsSold /\ x # bidAsset THEN highestBidder ELSE Seller
        BY <2>4, <3>4 DEF Finalize, MayReceive, IsSold, IsNotSold
      <4>2. bal[closeTo][x] \in Nat
        BY <2>1
      <4>3. bal'[App][x] = 0 /\ bal'[closeTo][x] = bal[closeTo][x] + bal[App][x]
        BY <2>1, <3>2, <3>4, <4>2
      <4>4. QED
        BY <4>1, <4>3
    <3>5. QED
      BY <3>3, <3>4
  <2>5. CASE Delete
    BY <2>5, <2>1 DEF Delete
  <2>6. CASE Environment
    <3>1. bal'[App][x] >= bal[App][x]
      <4>1. ASSUME NEW g \in Holders, g # App, NEW h \in Holders, NEW y \in Assets, NEW n \in Nat,
                   n <= bal[g][y], bal' = Moved(bal, g, h, y, n)
            PROVE  bal'[App][x] >= bal[App][x]
        BY <4>1, <2>1, EscrowAfterMove
      <4>2. ASSUME NEW a \in Accounts, NEW h \in Holders, NEW y \in Assets, NEW n \in Amounts,
                   TransferAsset(a, h, y, n)
            PROVE  bal'[App][x] >= bal[App][x]
        <5>1. n \in Nat /\ n <= bal[a][y]
          BY <2>1, <4>2 DEF Amounts, TransferAsset, CanTransfer
        <5>2. QED
          BY <2>1, <4>1, <4>2, <5>1 DEF TransferAsset
      <4>3. ASSUME NEW a \in Accounts, NEW h \in Holders, NEW y \in Assets, AccountOptout(a, h, y)
            PROVE  bal'[App][x] >= bal[App][x]
        <5>1. bal[a][y] \in Nat /\ bal[a][y] <= bal[a][y]
          BY <2>1
        <5>2. QED
          BY <2>1, <4>1, <4>3, <5>1 DEF AccountOptout
      <4>4. ASSUME NEW g \in Holders, NEW h \in Holders, NEW y \in Revocable, NEW n \in Amounts,
                   Clawback(g, h, y, n)
            PROVE  bal'[App][x] >= bal[App][x]
        <5>1. g # App
          BY <1>1, <4>4 DEF Clawback, CanTransfer, IInv, NoRevocableAsset
        <5>2. y \in Assets /\ n \in Nat /\ n <= bal[g][y]
          BY <2>1, <4>4, AssetsAssumption DEF Amounts, Clawback, CanTransfer
        <5>3. QED
          BY <4>1, <4>4, <5>1, <5>2 DEF Clawback
      <4>5. ASSUME bal' = bal PROVE bal'[App][x] >= bal[App][x]
        BY <4>5, <2>1
      <4>6. QED
        BY <2>6, <4>2, <4>3, <4>4, <4>5 DEF Environment, AccountOptin, Tick
    <3>2. bal'[App][x] \in Int
      BY <1>1, <2>1, StepIInv DEF IInv, TypeOK
    <3>3. QED
      BY <2>1, <3>1, <3>2
  <2>7. CASE UNCHANGED vars
    BY <2>1, <2>7 DEF vars
  <2>8. QED
    BY <1>1, <2>2, <2>3, <2>4, <2>5, <2>6, <2>7 DEF Next
<1>2. IInv /\ [Next]_vars => [\A x \in Assets : Owed(x)]_vars
  BY <1>1
<1>3. QED
  BY <1>2, SpecIInv, PTL DEF Spec, EscrowGoesToItsOwner

\* Whoever is outbid while opted in to the bid asset is paid back in that step.
THEOREM OutbidBidderIsRefunded == Spec => OutbidIsRefunded
<1> DEFINE Refunded ==
      highestBid' # highestBid /\ highestBid > 0 =>
        LET back == bidAsset \in optin[highestBidder]
            paid == IF highestBidder' = highestBidder THEN highestBid' ELSE 0
        IN  /\ highestBid' > highestBid
            /\ bal'[highestBidder][bidAsset] =
                 bal[highestBidder][bidAsset] - paid + (IF back THEN highestBid ELSE 0)
            /\ bal'[App][bidAsset] =
                 bal[App][bidAsset] + highestBid' - (IF back THEN highestBid ELSE 0)
<1>1. ASSUME IInv, Next PROVE Refunded
  <2>1. CASE Bidding
    <3>1. PICK bidder \in Accounts, prev \in Accounts, n \in Amounts : SubmitBid(bidder, n, prev)
      BY <2>1 DEF Bidding
    <3>2. SUFFICES ASSUME highestBid > 0 PROVE Refunded
      OBVIOUS
    <3>3. /\ prev = highestBidder /\ highestBidder' = bidder /\ highestBid' = n /\ n > highestBid
      BY <3>1, <3>2 DEF SubmitBid, OutbidsHighestBid
    <3>4. /\ prev \in Holders /\ prev # App /\ bidder # App /\ App \in Holders /\ bidAsset \in Assets
          /\ bal[prev][bidAsset] \in Nat /\ bal[App][bidAsset] \in Nat
          /\ n \in Int /\ highestBid \in Nat
      BY <1>1, <3>1, AccountsAssumption DEF Holders, IInv, TypeOK, Amounts, SubmitBid, CanTransfer
    <3> DEFINE back == IF bidAsset \in optin[prev] THEN highestBid ELSE 0
    <3>5. /\ bal'[prev][bidAsset] =
               bal[prev][bidAsset] - (IF prev = bidder THEN n ELSE 0) + back
          /\ bal'[App][bidAsset] = bal[App][bidAsset] + n - back
      BY <1>1, <3>1, <3>2, <3>4, BidFillsTheEscrow
    <3>6. QED
      BY <3>3, <3>5
  <2>2. CASE ~Bidding
    <3>1. highestBid' = highestBid
      BY <1>1, <2>2 DEF Next, SellerCall, SetBidAsset, OptinAsset, OptoutAsset, WithdrawAsset,
         Commit, Cancel, AcceptBid, Finalize, Delete, Environment, TransferAsset, AccountOptin,
         AccountOptout, Clawback, Tick, contractVars
    <3>2. QED
      BY <3>1
  <2>3. QED
    BY <2>1, <2>2
<1>2. IInv /\ [Next]_vars => [Refunded]_vars
  BY <1>1
<1>3. QED
  BY <1>2, SpecIInv, PTL DEF Spec, OutbidIsRefunded

-----------------------------------------------------------------------------
(***************************************************************************)
(* The clients.                                                            *)
(***************************************************************************)

\* The arguments an operation was called with.
Arguments(c) ==
  /\ c.op \in {"set_bid_asset", "optin_asset", "optout_asset", "deposit_asset", "withdraw_asset"} =>
       c.asset \in Assets
  /\ c.op \in {"deposit_asset", "withdraw_asset", "bid"} => c.amount \in Amounts
  /\ c.op = "set_bid_asset" => c.amount \in 1 .. MaxMinBid

\* A winner is there when the client takes the auction as sold.
Call(c) ==
  /\ c \in OperationCalls
  /\ Arguments(c)
  /\ c.sold => c.op = "finalize" /\ c.bidder # NoAccount

CallInv == call \in [Accounts -> OperationCalls] /\ \A a \in Accounts : Call(call[a])

AcceptedHasBid == status = "BidAccepted" => highestBid > 0

-----------------------------------------------------------------------------
\* A step of one client leaves the calls of the others alone.
LEMMA OneCall ==
  ASSUME CallInv, NEW a \in Accounts, NEW c, Call(c), call' = [call EXCEPT ![a] = c]
  PROVE  CallInv'
<1>1. c \in OperationCalls
  BY DEF Call
<1>2. call' \in [Accounts -> OperationCalls]
  BY <1>1 DEF CallInv
<1>3. \A b \in Accounts : call'[b] = IF b = a THEN c ELSE call[b]
  BY DEF CallInv
<1>4. ASSUME NEW b \in Accounts PROVE Call(call'[b])
  BY <1>3 DEF CallInv
<1> HIDE DEF Call
<1> QED BY <1>2, <1>4 DEF CallInv, Call, Arguments

LEMMA CallGoes ==
  ASSUME CallInv, NEW a \in Accounts, NEW pc \in Pcs, Goes(a, pc)
  PROVE  CallInv'
<1> DEFINE c == [call[a] EXCEPT !.pc = pc]
<1>1. Call(c)
  BY DEF CallInv, Call, Arguments, OperationCalls
<1>2. call' = [call EXCEPT ![a] = c]
  BY DEF Goes
<1> HIDE DEF c
<1> QED BY <1>1, <1>2, OneCall

LEMMA CallEnds ==
  ASSUME CallInv, NEW a \in Accounts, Returns(a) \/ Raises(a)
  PROVE  CallInv'
<1> DEFINE d == [NoCall EXCEPT !.pc = "raised"]
<1>1. Call(NoCall) /\ Call(d)
  BY DEF Call, Arguments, NoCall, OperationCalls, Pcs, Ops, SellerOps
<1>2. call' = [call EXCEPT ![a] = NoCall] \/ call' = [call EXCEPT ![a] = d]
  BY DEF Returns, Raises
<1> HIDE DEF d
<1> QED BY <1>1, <1>2, OneCall

LEMMA CallWorks ==
  ASSUME CallInv, NEW a \in Accounts, NEW pc \in Pcs, NEW T \in SUBSET Assets,
         call' = [call EXCEPT ![a].pc = pc, ![a].todo = T]
  PROVE  CallInv'
<1> DEFINE c == [call[a] EXCEPT !.pc = pc, !.todo = T]
<1>1. Call(c)
  BY DEF CallInv, Call, Arguments, OperationCalls
<1>2. call' = [call EXCEPT ![a] = c]
  BY DEF CallInv
<1> HIDE DEF c
<1> QED BY <1>1, <1>2, OneCall

LEMMA CallWorksOff ==
  ASSUME CallInv, NEW a \in Accounts, NEW T \in SUBSET Assets,
         call' = [call EXCEPT ![a].todo = T]
  PROVE  CallInv'
<1> DEFINE c == [call[a] EXCEPT !.todo = T]
<1>1. Call(c)
  BY DEF CallInv, Call, Arguments, OperationCalls
<1>2. call' = [call EXCEPT ![a] = c]
  BY DEF CallInv
<1> HIDE DEF c
<1> QED BY <1>1, <1>2, OneCall

-----------------------------------------------------------------------------
(***************************************************************************)
(* Every step of the clients is a step of the contract, or none.           *)
(***************************************************************************)

\* The transactions of the seller's operations; the contract rejects them from
\* anybody else.
LEMMA SellerSubmits ==
  ASSUME IInv, CallInv, NEW a \in Accounts,
         \/ OptoutOldBidAsset(a) \/ SubmitBidAsset(a) \/ SubmitOptin(a) \/ SubmitOptout(a)
         \/ SubmitWithdraw(a) \/ SubmitCommit(a) \/ SubmitAccept(a) \/ SubmitCancel(a)
  PROVE  [Next]_vars
<1>1. Call(call[a])
  BY DEF CallInv
<1>2. optin[App] \subseteq Assets
  BY DEF IInv, TypeOK, Holders
<1>3. SellerCall(a) \/ UNCHANGED vars
  <2>1. CASE OptoutOldBidAsset(a)
    BY <1>2, <2>1 DEF OptoutOldBidAsset, SellerCall
  <2>2. CASE SubmitBidAsset(a)
    BY <1>1, <2>2 DEF SubmitBidAsset, SellerCall, At, Call, Arguments
  <2>3. CASE SubmitOptin(a)
    BY <1>1, <2>3 DEF SubmitOptin, SellerCall, At, Call, Arguments
  <2>4. CASE SubmitOptout(a)
    BY <1>1, <2>4 DEF SubmitOptout, SellerCall, At, Call, Arguments
  <2>5. CASE SubmitWithdraw(a)
    BY <1>1, <2>5 DEF SubmitWithdraw, SellerCall, At, Call, Arguments
  <2>6. CASE SubmitCommit(a) \/ SubmitAccept(a) \/ SubmitCancel(a)
    BY <2>6 DEF SubmitCommit, SubmitAccept, SubmitCancel, SellerCall
  <2> QED BY <2>1, <2>2, <2>3, <2>4, <2>5, <2>6
<1> QED BY <1>3 DEF Next

LEMMA DepositIsTransfer ==
  ASSUME CallInv, NEW a \in Accounts, SubmitDeposit(a)
  PROVE  Next
<1>1. call[a].asset \in Assets /\ call[a].amount \in Amounts
  BY DEF CallInv, Call, Arguments, SubmitDeposit, At
<1> QED BY <1>1 DEF SubmitDeposit, Next, Environment, Holders

\* The first bid names no previous bidder, and the contract does not look at it.
LEMMA BidIsBid ==
  ASSUME IInv, CallInv, NEW a \in Accounts, SubmitsBid(a)
  PROVE  Next
<1> DEFINE n == call[a].amount
           prev == call[a].bidder
           p == IF highestBid > 0 THEN highestBidder ELSE Seller
<1>1. n \in Amounts /\ SubmitBid(a, n, prev)
  BY DEF CallInv, Call, Arguments, SubmitsBid, At
<1>2. p \in Accounts
  BY AccountsAssumption DEF IInv, TypeOK, StatusInv
<1>3. highestBid > 0 => prev = p
  BY <1>1 DEF SubmitBid
<1>4. SubmitBid(a, n, p)
  <2> HIDE DEF n, prev, p
  <2>1. CASE highestBid > 0
    BY <1>1, <1>3, <2>1
  <2>2. CASE ~(highestBid > 0)
    BY <1>1, <2>2 DEF SubmitBid
  <2> QED BY <2>1, <2>2
<1> QED BY <1>1, <1>2, <1>4 DEF Next, Bidding

\* A lot goes to the winner the client has read, or to the seller.
LEMMA FinalizeIsFinalize ==
  ASSUME CallInv, NEW a \in Accounts, FinalizeEach(a) \/ FinalizeBidAsset(a)
  PROVE  [Next]_vars
<1>1. call[a] \in OperationCalls /\ Seller \in Accounts
  BY AccountsAssumption DEF CallInv
<1>2. ClosesOutTo(a) \in Accounts
  BY <1>1 DEF CallInv, Call, ClosesOutTo, OperationCalls
<1>3. CASE FinalizeEach(a)
  BY <1>1, <1>2, <1>3 DEF FinalizeEach, OperationCalls, Next
<1>4. CASE FinalizeBidAsset(a)
  BY <1>1, <1>4 DEF FinalizeBidAsset, HasNoBidAsset, OperationCalls, Next
<1> QED BY <1>3, <1>4

LEMMA OptinIsOptin ==
  ASSUME CallInv, NEW a \in Accounts, OptinEach(a)
  PROVE  [Next]_vars
<1>1. call[a].todo \subseteq Assets
  BY DEF CallInv, OperationCalls
<1>2. UNCHANGED vars \/ \E x \in Assets : AccountOptin(a, x)
  BY <1>1 DEF OptinEach
<1> QED BY <1>2 DEF Next, Environment

\* The rest of an operation only reads.
Reading(a) ==
  \/ Calls(a) \/ ReadForBidAsset(a) \/ ReadForOptin(a) \/ ReadForOptout(a) \/ ReadForDeposit(a)
  \/ ReadForWithdraw(a) \/ ReadHolding(a) \/ ReadForCommit(a) \/ ReadAssetsForCommit(a)
  \/ ReadForAccept(a) \/ ReadForCancel(a) \/ ReadForBid(a) \/ ListForOptin(a)
  \/ ReadForFinalize(a) \/ ListForFinalize(a) \/ Fails(a)

LEMMA ReadingChangesNothing ==
  ASSUME NEW a, Reading(a)
  PROVE  UNCHANGED vars
<1>1. CASE Calls(a)
  BY <1>1 DEF Calls, Begin
<1>2. CASE Reading(a) /\ ~Calls(a)
  BY <1>2 DEF Reading, ReadForBidAsset, ReadForOptin, ReadForOptout, ReadForDeposit,
     ReadForWithdraw, ReadHolding, ReadForCommit, ReadAssetsForCommit, ReadForAccept, ReadForCancel,
     ReadForBid, ListForOptin, ReadForFinalize, ListForFinalize, Fails
<1> QED BY <1>1, <1>2

LEMMA LedgerIsLedger ==
  ASSUME Ledger
  PROVE  Next
<1>1. Seller \in Holders /\ App \in Holders
  BY AccountsAssumption DEF Holders
<1> QED BY <1>1 DEF Ledger, Next, Environment

LEMMA ClientStepIsStep ==
  ASSUME IInv, CallInv, [ClientNext]_clientVars
  PROVE  [Next]_vars
<1>1. CASE SellerCalls(Seller)
  BY <1>1 DEF SellerCalls, Begin
<1>2. ASSUME NEW a \in Accounts, Calls(a) \/ SellerSteps(a) \/ BidderSteps(a) \/ FinalizeSteps(a) \/ Fails(a)
      PROVE  [Next]_vars
  <2>1. CASE Reading(a)
    BY <2>1, ReadingChangesNothing
  <2>2. CASE SellerSteps(a) /\ ~Reading(a)
    BY <2>2, SellerSubmits, DepositIsTransfer DEF SellerSteps, Reading
  <2>3. CASE BidderSteps(a) /\ ~Reading(a)
    BY <2>3, BidIsBid, OptinIsOptin DEF BidderSteps, Reading
  <2>4. CASE FinalizeSteps(a) /\ ~Reading(a)
    BY <2>4, FinalizeIsFinalize DEF FinalizeSteps, Reading
  <2>5. CASE Calls(a) \/ Fails(a)
    BY <2>1, <2>5 DEF Reading
  <2> QED BY <1>2, <2>1, <2>2, <2>3, <2>4, <2>5
<1>3. CASE Ledger
  BY <1>3, LedgerIsLedger
<1>4. CASE UNCHANGED clientVars
  BY <1>4 DEF clientVars
<1> QED BY <1>1, <1>2, <1>3, <1>4 DEF ClientNext

-----------------------------------------------------------------------------
(***************************************************************************)
(* What the clients know stays of its kind.                                *)
(***************************************************************************)
LEMMA OperationsAre ==
  /\ {"returned", "raised", "read", "optout_old", "optin", "submit", "list", "each", "last"} = Pcs
  /\ Ops = {"set_bid_asset", "optin_asset", "optout_asset", "deposit_asset", "withdraw_asset",
            "commit", "accept_bid", "cancel", "bid", "optin_auction_assets", "finalize"}
<1>1. {"returned", "raised", "read", "optout_old", "optin", "submit", "list", "each", "last"} = Pcs
  BY Zenon DEF Pcs
<1>2. ASSUME NEW op
      PROVE  op \in Ops <=>
               op \in {"set_bid_asset", "optin_asset", "optout_asset", "deposit_asset", "withdraw_asset",
                       "commit", "accept_bid", "cancel", "bid", "optin_auction_assets", "finalize"}
  BY SMT DEF Ops, SellerOps
<1>3. Ops = {"set_bid_asset", "optin_asset", "optout_asset", "deposit_asset", "withdraw_asset",
             "commit", "accept_bid", "cancel", "bid", "optin_auction_assets", "finalize"}
  BY Zenon, <1>2
<1> QED BY <1>1, <1>3, Zenon

LEMMA BeginKeeps ==
  ASSUME CallInv, NEW a \in Accounts, NEW op \in Ops, NEW x \in Assets \cup {NoAsset},
         NEW n \in Nat, Begin(a, op, x, n),
         op \in {"set_bid_asset", "optin_asset", "optout_asset", "deposit_asset", "withdraw_asset"} =>
           x \in Assets,
         op \in {"deposit_asset", "withdraw_asset", "bid"} => n \in Amounts,
         op = "set_bid_asset" => n \in 1 .. MaxMinBid
  PROVE  CallInv'
<1> DEFINE c == [NoCall EXCEPT !.pc = "read", !.op = op, !.asset = x, !.amount = n]
<1>1. Call(c)
  <2>1. "read" \in Pcs
    BY OperationsAre
  <2>2. c \in OperationCalls
    BY <2>1 DEF NoCall, OperationCalls
  <2>3. c.op = op /\ c.asset = x /\ c.amount = n /\ c.sold = FALSE
    BY DEF NoCall
  <2> HIDE DEF c
  <2> QED BY <2>2, <2>3 DEF Call, Arguments
<1>2. call' = [call EXCEPT ![a] = c]
  BY DEF Begin
<1> HIDE DEF c
<1> QED BY <1>1, <1>2, OneCall

LEMMA CallsKeep ==
  ASSUME CallInv, NEW a \in Accounts, Calls(a) \/ SellerCalls(a)
  PROVE  CallInv'
<1>1. Amounts \subseteq Nat /\ 1 .. MaxMinBid \subseteq Nat /\ 0 \in Nat
  BY BoundsAssumption DEF Amounts
<1>2. ASSUME NEW n \in Amounts, Begin(a, "bid", NoAsset, n) PROVE CallInv'
  BY <1>1, <1>2, BeginKeeps, OperationsAre
<1>3. ASSUME NEW op \in {"optin_auction_assets", "finalize", "commit", "accept_bid", "cancel"},
             Begin(a, op, NoAsset, 0)
      PROVE  CallInv'
  BY <1>1, <1>3, BeginKeeps, OperationsAre
<1>4. ASSUME NEW x \in Assets, NEW min \in 1 .. MaxMinBid, Begin(a, "set_bid_asset", x, min)
      PROVE  CallInv'
  BY <1>1, <1>4, BeginKeeps, OperationsAre
<1>5. ASSUME NEW op \in {"optin_asset", "optout_asset"}, NEW x \in Assets, Begin(a, op, x, 0)
      PROVE  CallInv'
  BY <1>1, <1>5, BeginKeeps, OperationsAre
<1>6. ASSUME NEW op \in {"deposit_asset", "withdraw_asset"}, NEW x \in Assets, NEW n \in Amounts,
             Begin(a, op, x, n)
      PROVE  CallInv'
  BY <1>1, <1>6, BeginKeeps, OperationsAre
<1> QED BY <1>2, <1>3, <1>4, <1>5, <1>6 DEF Calls, SellerCalls

LEMMA SellerStepsKeep ==
  ASSUME CallInv, NEW a \in Accounts, SellerSteps(a)
  PROVE  CallInv'
<1>1. ASSUME NEW pc \in Pcs, Goes(a, pc) PROVE CallInv'
  BY <1>1, CallGoes
<1>2. CASE Returns(a) \/ Raises(a)
  BY <1>2, CallEnds
<1>3. ASSUME NEW T \in SUBSET Assets, NEW pc \in Pcs,
             call' = [call EXCEPT ![a].pc = pc, ![a].todo = T]
      PROVE  CallInv'
  BY <1>3, CallWorks
<1>4. ASSUME NEW T \in SUBSET Assets, call' = [call EXCEPT ![a].todo = T] PROVE CallInv'
  BY <1>4, CallWorksOff
<1>5. {"optout_old", "optin", "submit", "list", "last"} \subseteq Pcs
  BY OperationsAre
<1>6. CASE ReadForOptin(a)
  <2>1. call[a].op \in {"optin_asset", "deposit_asset"} => {call[a].asset} \in SUBSET Assets
    BY DEF CallInv, Call, Arguments
  <2> QED BY <1>1, <1>2, <1>3, <1>5, <1>6, <2>1 DEF ReadForOptin, At
<1>7. CASE SubmitOptin(a)
  BY <1>2, <1>4, <1>7 DEF SubmitOptin
<1>8. CASE ReadForBidAsset(a) \/ OptoutOldBidAsset(a) \/ SubmitBidAsset(a) \/ ReadForOptout(a)
           \/ SubmitOptout(a) \/ ReadForDeposit(a) \/ SubmitDeposit(a) \/ ReadForWithdraw(a)
           \/ SubmitWithdraw(a) \/ ReadHolding(a)
  BY <1>1, <1>2, <1>5, <1>8 DEF ReadForBidAsset, OptoutOldBidAsset, SubmitBidAsset, ReadForOptout,
     SubmitOptout, ReadForDeposit, SubmitDeposit, ReadForWithdraw, SubmitWithdraw, ReadHolding
<1>9. CASE ReadForCommit(a) \/ ReadAssetsForCommit(a) \/ SubmitCommit(a) \/ ReadForAccept(a)
           \/ SubmitAccept(a) \/ ReadForCancel(a) \/ SubmitCancel(a)
  BY <1>1, <1>2, <1>5, <1>9 DEF ReadForCommit, ReadAssetsForCommit, SubmitCommit, ReadForAccept,
     SubmitAccept, ReadForCancel, SubmitCancel
<1> QED BY <1>6, <1>7, <1>8, <1>9 DEF SellerSteps

LEMMA BidderStepsKeep ==
  ASSUME IInv, CallInv, NEW a \in Accounts, BidderSteps(a)
  PROVE  CallInv'
<1>1. CASE Returns(a) \/ Raises(a)
  BY <1>1, CallEnds
<1>2. CASE ReadForBid(a)
  <2> DEFINE c == [call[a] EXCEPT !.pc = "submit", !.bidder = highestBidder]
  <2>1. call[a] \in OperationCalls /\ Call(call[a]) /\ call[a].op = "bid"
    BY <1>2 DEF CallInv, ReadForBid, At
  <2>2. highestBidder \in Accounts \cup {NoAccount} /\ "submit" \in Pcs
    BY OperationsAre DEF IInv, TypeOK
  <2>3. Call(c)
    BY <2>1, <2>2 DEF Call, Arguments, OperationCalls
  <2>4. call' = [call EXCEPT ![a] = c] \/ Raises(a)
    BY <1>2 DEF ReadForBid, CallInv
  <2> HIDE DEF c
  <2> QED BY <1>1, <2>3, <2>4, OneCall
<1>3. CASE SubmitsBid(a)
  BY <1>1, <1>3 DEF SubmitsBid
<1>4. CASE ListForOptin(a)
  <2>1. AuctionAssets \in SUBSET Assets /\ "each" \in Pcs
    BY OperationsAre DEF AuctionAssets, IInv, TypeOK, Holders
  <2>2. call' = [call EXCEPT ![a].pc = "each", ![a].todo = AuctionAssets]
    BY <1>4 DEF ListForOptin
  <2> QED BY <2>1, <2>2, CallWorks
<1>5. CASE OptinEach(a)
  <2>1. \A x : call[a].todo \ {x} \in SUBSET Assets
    BY DEF CallInv, OperationCalls
  <2>2. ASSUME NEW x, call' = [call EXCEPT ![a].todo = @ \ {x}] PROVE CallInv'
    <3> DEFINE T == call[a].todo \ {x}
    <3>1. T \in SUBSET Assets /\ call' = [call EXCEPT ![a].todo = T]
      BY <2>1, <2>2 DEF CallInv
    <3> HIDE DEF T
    <3> QED BY <3>1, CallWorksOff
  <2> QED BY <1>1, <1>5, <2>2 DEF OptinEach
<1> QED BY <1>2, <1>3, <1>4, <1>5 DEF BidderSteps

LEMMA FinalizeStepsKeep ==
  ASSUME IInv, AcceptedHasBid, CallInv, NEW a \in Accounts, FinalizeSteps(a)
  PROVE  CallInv'
<1>1. CASE Returns(a) \/ Raises(a)
  BY <1>1, CallEnds
<1>2. CASE ReadForFinalize(a)
  <2>1. ASSUME NEW clock \in Clock,
               call' = [call EXCEPT ![a].pc = "list", ![a].asset = bidAsset,
                                    ![a].sold = is_sold(clock), ![a].bidder = highestBidder]
        PROVE  CallInv'
    <3> DEFINE sold == is_sold(clock)
               c == [call[a] EXCEPT !.pc = "list", !.asset = bidAsset, !.sold = sold,
                                    !.bidder = highestBidder]
    <3>1. call[a] \in OperationCalls /\ call[a].op = "finalize"
      BY <1>2 DEF CallInv, ReadForFinalize, At
    <3>2. sold \in BOOLEAN
      BY DEF is_sold
    <3>3. sold => highestBidder # NoAccount
      BY DEF is_sold, AcceptedHasBid, IInv, StatusInv
    <3>4. highestBidder \in Accounts \cup {NoAccount} /\ bidAsset \in Assets \cup {NoAsset}
          /\ "list" \in Pcs
      BY OperationsAre DEF IInv, TypeOK
    <3>5. call' = [call EXCEPT ![a] = c]
      BY <2>1 DEF CallInv
    <3> HIDE DEF sold
    <3>6. c \in OperationCalls /\ c.op = "finalize" /\ c.sold = sold /\ c.bidder = highestBidder
      BY <3>1, <3>2, <3>4 DEF OperationCalls
    <3> HIDE DEF c
    <3>7. Call(c)
      BY <3>3, <3>6 DEF Call, Arguments
    <3> QED BY <3>5, <3>7, OneCall
  <2> QED BY <1>1, <1>2, <2>1 DEF ReadForFinalize
<1>3. CASE ListForFinalize(a)
  <2>1. AuctionAssets \in SUBSET Assets /\ "each" \in Pcs
    BY OperationsAre DEF AuctionAssets, IInv, TypeOK, Holders
  <2>2. call' = [call EXCEPT ![a].pc = "each", ![a].todo = AuctionAssets]
    BY <1>3 DEF ListForFinalize
  <2> QED BY <2>1, <2>2, CallWorks
<1>4. CASE FinalizeEach(a)
  <2>1. \A x : call[a].todo \ {x} \in SUBSET Assets
    BY DEF CallInv, OperationCalls
  <2>2. ASSUME NEW x, call' = [call EXCEPT ![a].todo = @ \ {x}] PROVE CallInv'
    <3> DEFINE T == call[a].todo \ {x}
    <3>1. T \in SUBSET Assets /\ call' = [call EXCEPT ![a].todo = T]
      BY <2>1, <2>2 DEF CallInv
    <3> HIDE DEF T
    <3> QED BY <3>1, CallWorksOff
  <2> QED BY <1>4, <2>2 DEF FinalizeEach
<1>5. CASE FinalizeBidAsset(a)
  BY <1>1, <1>5 DEF FinalizeBidAsset
<1> QED BY <1>2, <1>3, <1>4, <1>5 DEF FinalizeSteps

LEMMA CallNext ==
  ASSUME IInv, AcceptedHasBid, CallInv, [ClientNext]_clientVars
  PROVE  CallInv'
<1>1. CASE UNCHANGED call
  BY <1>1 DEF CallInv
<1>2. CASE SellerCalls(Seller)
  BY <1>2, CallsKeep, AccountsAssumption
<1>3. ASSUME NEW a \in Accounts, Fails(a) PROVE CallInv'
  BY <1>3, CallEnds DEF Fails
<1>4. ASSUME NEW a \in Accounts, Calls(a) \/ SellerSteps(a) \/ BidderSteps(a) \/ FinalizeSteps(a)
      PROVE  CallInv'
  BY <1>4, CallsKeep, SellerStepsKeep, BidderStepsKeep, FinalizeStepsKeep
<1> QED BY <1>1, <1>2, <1>3, <1>4 DEF ClientNext, Ledger, clientVars

-----------------------------------------------------------------------------
(***************************************************************************)
(* The lots.  The contract keeps them once bidding is open; before that    *)
(* only the seller can take one out, and the seller's client is busy with  *)
(* the commit.                                                             *)
(***************************************************************************)
FullLots == \A x \in AuctionAssets : bal[App][x] > 0
OnSale == status \in {"Committed", "BidAccepted"}
AboutToCommit == At(Seller, "submit", "commit") /\ status = "New"

Filled == OnSale \/ AboutToCommit => FullLots

LEMMA StatusMoves ==
  ASSUME [Next]_vars
  PROVE  /\ status' = "New" => status = "New"
         /\ status' = "BidAccepted" /\ status # "BidAccepted" => status = "Committed"
         /\ status' = "Committed" /\ status # "Committed" => status = "New"
<1>1. ASSUME NEW sender \in Accounts, SellerCall(sender)
      PROVE  \/ status' = status
             \/ status = "New" /\ status' \in {"Committed", "Finalized", "Cancelled"}
             \/ status = "Committed" /\ status' = "BidAccepted"
  <2>1. CASE Cancel(sender)
    BY <2>1 DEF Cancel, IsNew
  <2>2. CASE AcceptBid(sender)
    BY <2>2 DEF AcceptBid
  <2>3. CASE \E start, end \in Times : Commit(sender, start, end)
    BY <2>3 DEF Commit, IsNew
  <2> QED BY <1>1, <2>1, <2>2, <2>3 DEF SellerCall, SetBidAsset, OptinAsset, OptoutAsset, WithdrawAsset,
         contractVars
<1>2. CASE Bidding
  BY <1>2 DEF Bidding, SubmitBid
<1>3. ASSUME NEW x, NEW closeTo, Finalize(x, closeTo) PROVE status' \in {status, "Finalized"}
  BY <1>3 DEF Finalize, StatusAfterCloseOut
<1>4. CASE Delete \/ Environment \/ UNCHANGED vars
  BY <1>4 DEF Delete, Environment, TransferAsset, AccountOptin, AccountOptout, Clawback, Tick, vars,
     contractVars
<1> QED BY <1>1, <1>2, <1>3, <1>4 DEF Next

LEMMA AcceptedNext ==
  ASSUME IInv, AcceptedHasBid, [Next]_vars
  PROVE  AcceptedHasBid'
<1>1. CASE status = "BidAccepted" /\ status' = "BidAccepted"
  <2>1. highestBid' = highestBid
    <3>1. ASSUME NEW sender, SellerCall(sender) PROVE highestBid' = highestBid
      BY <3>1 DEF SellerCall, SetBidAsset, OptinAsset, OptoutAsset, WithdrawAsset, Commit, Cancel,
         AcceptBid, contractVars
    <3>2. ASSUME NEW x, NEW closeTo, Finalize(x, closeTo) PROVE highestBid' = highestBid
      BY <3>2 DEF Finalize
    <3>3. ~Bidding
      BY <1>1 DEF Bidding, SubmitBid
    <3> QED BY <3>1, <3>2, <3>3 DEF Next, Delete, Environment, TransferAsset, AccountOptin,
           AccountOptout, Clawback, Tick, vars, contractVars
  <2> QED BY <1>1, <2>1 DEF AcceptedHasBid
<1>2. CASE status # "BidAccepted" /\ status' = "BidAccepted"
  <2>1. ASSUME NEW sender, SellerCall(sender) PROVE AcceptBid(sender)
    BY <1>2, <2>1 DEF SellerCall, SetBidAsset, OptinAsset, OptoutAsset, WithdrawAsset, Commit, Cancel,
       contractVars
  <2>2. ASSUME NEW x, NEW closeTo, Finalize(x, closeTo) PROVE FALSE
    BY <1>2, <2>2 DEF Finalize, StatusAfterCloseOut
  <2>3. ~Bidding /\ ~Delete /\ ~Environment /\ ~UNCHANGED vars
    BY <1>2 DEF Bidding, SubmitBid, Delete, Environment, TransferAsset, AccountOptin, AccountOptout,
       Clawback, Tick, vars, contractVars
  <2>4. \E sender \in Accounts : AcceptBid(sender)
    BY <2>1, <2>2, <2>3 DEF Next
  <2> QED BY <2>4 DEF AcceptBid, AcceptedHasBid
<1> QED BY <1>1, <1>2 DEF AcceptedHasBid

\* Nobody but the contract takes anything out of the escrow that it can hold.
LEMMA EnvironmentOnlyAdds ==
  ASSUME IInv, Environment
  PROVE  /\ optin'[App] = optin[App] /\ bidAsset' = bidAsset
         /\ \A y \in optin[App] : bal'[App][y] >= bal[App][y]
<1>1. App \in Holders /\ optin[App] \subseteq Assets /\ bal \in [Holders -> [Assets -> Nat]]
  BY DEF IInv, TypeOK, Holders
<1>2. \A y \in Assets : bal[App][y] \in Nat
  BY <1>1
<1>3. ASSUME NEW a \in Accounts, NEW h \in Holders, NEW x \in Assets, NEW n \in Amounts,
             TransferAsset(a, h, x, n)
      PROVE  \A y \in Assets : bal'[App][y] >= bal[App][y]
  <2>1. a \in Holders /\ a # App /\ n \in Nat /\ n <= bal[a][x]
    BY AccountsAssumption, <1>1, <1>3 DEF Holders, Amounts, TransferAsset, CanTransfer
  <2> QED BY <1>1, <1>3, <2>1, EscrowAfterMove DEF TransferAsset
<1>4. ASSUME NEW a \in Accounts, NEW h \in Holders, NEW x \in Assets, AccountOptout(a, h, x)
      PROVE  optin'[App] = optin[App] /\ \A y \in Assets : bal'[App][y] >= bal[App][y]
  <2>1. a \in Holders /\ a # App /\ bal[a][x] \in Nat /\ bal[a][x] <= bal[a][x]
    BY AccountsAssumption, <1>1 DEF Holders
  <2>2. \A y \in Assets : bal'[App][y] >= bal[App][y]
    BY <1>1, <1>4, <2>1, EscrowAfterMove DEF AccountOptout
  <2> QED BY <1>1, <1>4, <2>1, <2>2 DEF AccountOptout, IInv, TypeOK
<1>5. ASSUME NEW g \in Holders, NEW h \in Holders, NEW x \in Revocable, NEW n \in Amounts,
             Clawback(g, h, x, n)
      PROVE  \A y \in optin[App] : bal'[App][y] >= bal[App][y]
  <2>1. x \in Assets /\ n \in Nat /\ n <= bal[g][x]
    BY AssetsAssumption, <1>1, <1>5 DEF Amounts, Clawback, CanTransfer
  <2>2. x \notin optin[App]
    BY DEF IInv, NoRevocableAsset
  <2>3. \A y \in Assets \ {x} : bal'[App][y] = bal[App][y]
    <3>1. bal' = Moved(bal, g, h, x, n)
      BY <1>5 DEF Clawback
    <3>2. \A y \in Assets \ {x} : Moved(bal, g, h, x, n)[App][y] = bal[App][y]
      <4>1. ASSUME NEW y \in Assets, y # x
            PROVE  Moved(bal, g, h, x, n)[App][y] = bal[App][y] - 0 + 0
        BY <1>1, <4>1, MovedAt
      <4>2. \A y \in Assets : bal[App][y] \in Nat
        BY <1>1
      <4> QED BY <4>1, <4>2
    <3> QED BY <3>1, <3>2
  <2> QED BY <1>1, <1>2, <2>2, <2>3
<1>6. ASSUME NEW a \in Accounts, NEW x, AccountOptin(a, x)
      PROVE  optin'[App] = optin[App] /\ bal' = bal
  <2>1. a # App
    BY AccountsAssumption DEF Holders
  <2> QED BY <1>1, <1>6, <2>1 DEF AccountOptin, IInv, TypeOK
<1>7. bidAsset' = bidAsset
  BY DEF Environment, TransferAsset, AccountOptin, AccountOptout, Clawback, Tick, contractVars
<1>8. optin'[App] = optin[App]
  BY <1>4, <1>6 DEF Environment, TransferAsset, Clawback, Tick
<1>9. \A y \in optin[App] : bal'[App][y] >= bal[App][y]
  <2>1. CASE \E a \in Accounts, h \in Holders, x \in Assets, n \in Amounts : TransferAsset(a, h, x, n)
    BY <1>1, <1>3, <2>1
  <2>2. CASE \E a \in Accounts, h \in Holders, x \in Assets : AccountOptout(a, h, x)
    BY <1>1, <1>4, <2>2
  <2>3. CASE \E g, h \in Holders, x \in Revocable, n \in Amounts : Clawback(g, h, x, n)
    BY <1>5, <2>3
  <2>4. CASE (\E a \in Accounts, x \in Assets : AccountOptin(a, x)) \/ Tick
    <3>1. bal' = bal
      BY <1>6, <2>4 DEF Tick
    <3> QED BY <1>1, <1>2, <3>1
  <2> QED BY <2>1, <2>2, <2>3, <2>4 DEF Environment
<1> QED BY <1>7, <1>8, <1>9

LEMMA EnvironmentKeepsLots ==
  ASSUME IInv, FullLots, Environment
  PROVE  FullLots'
<1>1. \A y \in AuctionAssets : y \in optin[App] /\ bal[App][y] \in Nat
  BY DEF AuctionAssets, IInv, TypeOK, Holders
<1>2. AuctionAssets' = AuctionAssets
  BY EnvironmentOnlyAdds DEF AuctionAssets
<1>3. \A y \in AuctionAssets : bal'[App][y] >= bal[App][y] /\ bal[App][y] > 0
  BY <1>1, EnvironmentOnlyAdds DEF FullLots
<1>4. \A y \in Assets : bal'[App][y] \in Nat
  BY EnvironmentIInv DEF IInv, TypeOK, Holders
<1>5. \A y \in AuctionAssets : bal'[App][y] \in Nat
  BY <1>4 DEF AuctionAssets, IInv, TypeOK, Holders
<1>6. \A y \in AuctionAssets : bal'[App][y] > 0
  BY <1>1, <1>3, <1>5
<1> QED BY <1>2, <1>6 DEF FullLots

\* A bid only moves the bid asset.
LEMMA BidKeepsLots ==
  ASSUME IInv, FullLots, Bidding
  PROVE  FullLots'
<1> PICK bidder \in Accounts, prev \in Accounts, n \in Amounts : SubmitBid(bidder, n, prev)
  BY DEF Bidding
<1> DEFINE paid == Moved(bal, bidder, App, bidAsset, n)
<1>1. App \in Holders /\ bal \in [Holders -> [Assets -> Nat]] /\ AuctionAssets \subseteq Assets \ {bidAsset}
  BY DEF IInv, TypeOK, Holders, AuctionAssets
<1>2. ASSUME NEW y \in Assets, y # bidAsset PROVE bal'[App][y] = bal[App][y]
  <2>1. bal[App][y] \in Nat
    BY <1>1
  <2>2. paid[App][y] = bal[App][y]
    BY <1>1, <1>2, <2>1, MovedAt
  <2>3. Moved(paid, App, prev, bidAsset, Refund(n))[App][y] = paid[App][y] - 0 + 0
    <3> HIDE DEF paid
    <3> QED BY <1>1, <1>2, MovedAt
  <2>4. bal' = paid \/ bal' = Moved(paid, App, prev, bidAsset, Refund(n))
    BY DEF SubmitBid
  <2> HIDE DEF paid
  <2> QED BY <2>1, <2>2, <2>3, <2>4
<1>3. AuctionAssets' = AuctionAssets
  BY DEF SubmitBid, AuctionAssets
<1> QED BY <1>1, <1>2, <1>3 DEF FullLots

LEMMA FinalizeKeepsLots ==
  ASSUME IInv, FullLots, NEW x \in Assets, NEW closeTo \in Accounts, Finalize(x, closeTo)
  PROVE  FullLots'
<1>1. /\ optin'[App] = optin[App] \ {x} /\ bidAsset' = bidAsset
      /\ \A y \in Assets \ {x} : bal'[App][y] = bal[App][y]
  BY ExecuteOptoutEffect DEF Finalize, IInv
<1>2. AuctionAssets' = AuctionAssets \ {x} /\ AuctionAssets \subseteq Assets
  BY <1>1 DEF AuctionAssets, IInv, TypeOK, Holders
<1> QED BY <1>1, <1>2 DEF FullLots

\* Once bidding is open, no call of the contract makes a lot smaller.
LEMMA OnSaleKeepsLots ==
  ASSUME IInv, OnSale, FullLots, [Next]_vars
  PROVE  FullLots'
<1>1. ASSUME NEW sender \in Accounts, SellerCall(sender) PROVE FullLots'
  <2>1. AcceptBid(sender)
    BY <1>1 DEF OnSale, SellerCall, SetBidAsset, OptinAsset, OptoutAsset, WithdrawAsset, Commit, Cancel, IsNew
  <2> QED BY <2>1 DEF AcceptBid, FullLots, AuctionAssets
<1>2. CASE Delete \/ UNCHANGED vars
  BY <1>2 DEF Delete, vars, contractVars, FullLots, AuctionAssets
<1> QED BY <1>1, <1>2, BidKeepsLots, FinalizeKeepsLots, EnvironmentKeepsLots DEF Next

\* While the seller's client is about to commit, the only call of the contract that
\* can succeed is the commit.
LEMMA CommittingKeepsLots ==
  ASSUME IInv, CallInv, AboutToCommit, FullLots, [ClientNext]_clientVars
  PROVE  FullLots'
<1>1. call[Seller].pc = "submit" /\ call[Seller].op = "commit" /\ IsNew => status = "New"
  BY DEF AboutToCommit, At
<1>2. ASSUME UNCHANGED <<optin, bal, bidAsset>> PROVE FullLots'
  BY <1>2 DEF FullLots, AuctionAssets
<1>3. CASE SellerCalls(Seller)
  BY <1>2, <1>3 DEF SellerCalls, Begin, vars, contractVars
<1>4. CASE Ledger
  <2>1. Environment \/ Delete
    <3>1. Seller \in Holders /\ App \in Holders
      BY AccountsAssumption DEF Holders
    <3> QED BY <1>4, <3>1 DEF Ledger, Environment
  <2> QED BY <1>2, <2>1, EnvironmentKeepsLots DEF Delete
<1>5. CASE UNCHANGED clientVars
  BY <1>2, <1>5 DEF clientVars, vars, contractVars
<1>6. ASSUME NEW a \in Accounts, Reading(a) PROVE FullLots'
  BY <1>2, <1>6, ReadingChangesNothing DEF vars, contractVars
<1>7. ASSUME NEW a \in Accounts,
             \/ OptoutOldBidAsset(a) \/ SubmitBidAsset(a) \/ SubmitOptin(a) \/ SubmitOptout(a)
             \/ SubmitWithdraw(a) \/ SubmitCommit(a) \/ SubmitAccept(a) \/ SubmitCancel(a)
      PROVE  FullLots'
  <2>1. CASE SubmitCommit(a) \/ SubmitAccept(a) \/ SubmitCancel(a)
    BY <1>2, <2>1 DEF SubmitCommit, SubmitAccept, SubmitCancel, Commit, AcceptBid, Cancel
  <2>2. CASE OptoutOldBidAsset(a)
    BY <1>2, <2>2 DEF OptoutOldBidAsset, OptoutAsset, AboutToCommit, At, vars, contractVars
  <2>3. CASE SubmitBidAsset(a) \/ SubmitOptin(a) \/ SubmitOptout(a) \/ SubmitWithdraw(a)
    BY <2>3 DEF SubmitBidAsset, SubmitOptin, SubmitOptout, SubmitWithdraw, SetBidAsset, OptinAsset,
       OptoutAsset, WithdrawAsset, AboutToCommit, At
  <2> QED BY <1>7, <2>1, <2>2, <2>3
<1>8. ASSUME NEW a \in Accounts, SubmitDeposit(a) PROVE FullLots'
  <2>1. call[a].asset \in Assets /\ call[a].amount \in Amounts
    BY <1>8 DEF CallInv, Call, Arguments, SubmitDeposit, At
  <2>2. Environment
    BY <1>8, <2>1 DEF SubmitDeposit, Environment, Holders
  <2> QED BY <2>2, EnvironmentKeepsLots
<1>9. ASSUME NEW a \in Accounts, OptinEach(a) PROVE FullLots'
  <2>1. UNCHANGED vars \/ Environment
    BY <1>9 DEF OptinEach, CallInv, OperationCalls, Environment
  <2> QED BY <1>2, <2>1, EnvironmentKeepsLots DEF vars, contractVars
<1>10. ASSUME NEW a \in Accounts, SubmitsBid(a) PROVE FullLots'
  BY <1>10 DEF SubmitsBid, SubmitBid, AboutToCommit
<1>11. ASSUME NEW a \in Accounts, FinalizeEach(a) \/ FinalizeBidAsset(a) PROVE FullLots'
  BY <1>2, <1>11 DEF FinalizeEach, FinalizeBidAsset, Finalize, MayReceive, IsSold, IsNotSold,
     AboutToCommit, vars, contractVars
<1> QED BY <1>3, <1>4, <1>5, <1>6, <1>7, <1>8, <1>9, <1>10, <1>11
       DEF ClientNext, SellerSteps, BidderSteps, FinalizeSteps, Reading

LEMMA OnlyCommitCommits ==
  ASSUME CallInv, ClientNext, status = "New", status' = "Committed"
  PROVE  AboutToCommit
<1>1. ASSUME NEW a \in Accounts, Reading(a) PROVE FALSE
  BY <1>1, ReadingChangesNothing DEF vars, contractVars
<1>2. ASSUME NEW a \in Accounts, SellerSteps(a), ~Reading(a) PROVE AboutToCommit
  <2>1. SubmitCommit(a)
    BY <1>2 DEF SellerSteps, Reading, OptoutOldBidAsset, SubmitBidAsset, SubmitOptin, SubmitOptout,
       SubmitDeposit, SubmitWithdraw, SubmitAccept, SubmitCancel, OptoutAsset, SetBidAsset, OptinAsset,
       TransferAsset, WithdrawAsset, AcceptBid, Cancel, vars, contractVars
  <2> QED BY <2>1 DEF SubmitCommit, Commit, AboutToCommit
<1>3. ASSUME NEW a \in Accounts, BidderSteps(a) \/ FinalizeSteps(a), ~Reading(a) PROVE FALSE
  BY <1>3 DEF BidderSteps, FinalizeSteps, Reading, SubmitsBid, SubmitBid, OptinEach, AccountOptin,
     FinalizeEach, FinalizeBidAsset, Finalize, StatusAfterCloseOut, vars, contractVars
<1>4. ~SellerCalls(Seller) /\ ~Ledger
  BY DEF SellerCalls, Begin, Ledger, TransferAsset, AccountOptout, Tick, Delete, vars, contractVars
<1> QED BY <1>1, <1>2, <1>3, <1>4 DEF ClientNext, Reading

\* How a step leaves the call it is a step of.
LEMMA CallAfter ==
  ASSUME CallInv, NEW a \in Accounts
  PROVE  /\ \A pc : Goes(a, pc) => call'[a].pc = pc /\ call'[a].op = call[a].op
         /\ Returns(a) \/ Raises(a) => call'[a].pc \in {"returned", "raised"}
BY DEF CallInv, OperationCalls, Goes, Returns, Raises, NoCall

\* The client of the seller goes on to the commit only from a look at the assets.
LEMMA ReadyBeforeCommit ==
  ASSUME CallInv, NEW a \in Accounts, SellerSteps(a),
         call'[a].pc = "submit", call'[a].op = "commit"
  PROVE  ReadAssetsForCommit(a) /\ ReadyToSell
<1>1. call[a].op = "commit"
  BY CallAfter DEF CallInv, OperationCalls, SellerSteps, ReadForBidAsset, OptoutOldBidAsset,
     SubmitBidAsset, ReadForOptin, SubmitOptin, ReadForOptout, SubmitOptout, ReadForDeposit, SubmitDeposit,
     ReadForWithdraw, SubmitWithdraw, ReadHolding, ReadForCommit, ReadAssetsForCommit, SubmitCommit,
     ReadForAccept, SubmitAccept, ReadForCancel, SubmitCancel
<1>2. ReadForCommit(a) \/ ReadAssetsForCommit(a) \/ SubmitCommit(a) \/ ReadHolding(a)
  BY <1>1 DEF SellerSteps, ReadForBidAsset, OptoutOldBidAsset, SubmitBidAsset, ReadForOptin,
     SubmitOptin, ReadForOptout, SubmitOptout, ReadForDeposit, SubmitDeposit, ReadForWithdraw,
     SubmitWithdraw, ReadForAccept, SubmitAccept, ReadForCancel, SubmitCancel, At
<1>3. ~ReadForCommit(a) /\ ~SubmitCommit(a) /\ ~ReadHolding(a)
  BY CallAfter DEF ReadForCommit, SubmitCommit, ReadHolding
<1>4. ~Raises(a)
  BY CallAfter
<1> QED BY <1>2, <1>3, <1>4 DEF ReadAssetsForCommit

LEMMA OthersAreNotReady ==
  ASSUME CallInv, NEW a \in Accounts, BidderSteps(a) \/ FinalizeSteps(a) \/ Fails(a) \/ Calls(a)
  PROVE  ~(call'[a].pc = "submit" /\ call'[a].op = "commit")
<1>1. CASE Calls(a)
  BY <1>1 DEF CallInv, Calls, Begin, NoCall
<1>2. CASE Fails(a)
  BY <1>2, CallAfter DEF Fails
<1>3. CASE BidderSteps(a)
  BY <1>3, CallAfter DEF CallInv, OperationCalls, BidderSteps, ReadForBid, SubmitsBid, ListForOptin,
     OptinEach, At
<1>4. CASE FinalizeSteps(a)
  <2>1. call[a].op = "finalize" /\ call[a] \in OperationCalls
    BY <1>4 DEF CallInv, FinalizeSteps, ReadForFinalize, ListForFinalize, FinalizeEach,
       FinalizeBidAsset, At
  <2>2. ASSUME NEW x, call' = [call EXCEPT ![a].todo = @ \ {x}] PROVE call'[a].op = "finalize"
    BY <2>1, <2>2 DEF CallInv, OperationCalls
  <2>3. CASE FinalizeEach(a)
    BY <2>2, <2>3 DEF FinalizeEach
  <2>4. CASE FinalizeBidAsset(a)
    BY <2>4, CallAfter DEF FinalizeBidAsset
  <2>5. CASE ListForFinalize(a)
    BY <2>1, <2>5 DEF CallInv, OperationCalls, ListForFinalize
  <2>6. CASE ReadForFinalize(a)
    <3>1. ASSUME NEW x, NEW sold, NEW b,
                 call' = [call EXCEPT ![a].pc = "list", ![a].asset = x, ![a].sold = sold, ![a].bidder = b]
          PROVE  call'[a].pc = "list"
      BY <2>1, <3>1 DEF CallInv, OperationCalls
    <3>2. Returns(a) \/ Raises(a) \/ call'[a].pc = "list"
      BY <2>6, <3>1 DEF ReadForFinalize
    <3> QED BY <3>2, CallAfter
  <2> QED BY <1>4, <2>3, <2>4, <2>5, <2>6 DEF FinalizeSteps
<1> QED BY <1>1, <1>2, <1>3, <1>4

LEMMA OneAtATime ==
  ASSUME CallInv, NEW a \in Accounts, NEW b \in Accounts, a # b,
         Calls(a) \/ SellerSteps(a) \/ BidderSteps(a) \/ FinalizeSteps(a) \/ Fails(a)
  PROVE  call'[b] = call[b]
<1> USE DEF CallInv, Goes, Returns, Raises
<1>1. CASE Calls(a) \/ Fails(a)
  BY <1>1 DEF Calls, Begin, Fails
<1>2. CASE BidderSteps(a)
  BY <1>2 DEF BidderSteps, ReadForBid, SubmitsBid, ListForOptin, OptinEach
<1>3. CASE FinalizeSteps(a)
  BY <1>3 DEF FinalizeSteps, ReadForFinalize, ListForFinalize, FinalizeEach, FinalizeBidAsset
<1>4. CASE SellerSteps(a)
  BY <1>4 DEF SellerSteps, ReadForBidAsset, OptoutOldBidAsset,
     SubmitBidAsset, ReadForOptin, SubmitOptin, ReadForOptout, SubmitOptout, ReadForDeposit, SubmitDeposit,
     ReadForWithdraw, SubmitWithdraw, ReadHolding, ReadForCommit, ReadAssetsForCommit, SubmitCommit,
     ReadForAccept, SubmitAccept, ReadForCancel, SubmitCancel
<1> QED BY <1>1, <1>2, <1>3, <1>4

LEMMA FilledNext ==
  ASSUME IInv, CallInv, Filled, [ClientNext]_clientVars
  PROVE  Filled'
<1>1. CASE OnSale
  BY <1>1, ClientStepIsStep, OnSaleKeepsLots DEF Filled
<1>2. CASE AboutToCommit
  BY <1>2, CommittingKeepsLots DEF Filled
<1>3. CASE ~OnSale /\ ~AboutToCommit /\ OnSale'
  <2>1. status = "New" /\ status' = "Committed"
    BY <1>3, ClientStepIsStep, StatusMoves DEF OnSale
  <2>2. ClientNext
    BY <2>1 DEF clientVars, vars, contractVars
  <2> QED BY <1>3, <2>1, <2>2, OnlyCommitCommits
<1>4. CASE ~OnSale /\ ~AboutToCommit /\ AboutToCommit'
  <2>1. Seller \in Accounts /\ status = "New"
    BY <1>4, AccountsAssumption, ClientStepIsStep, StatusMoves DEF AboutToCommit
  <2>2. call'[Seller].pc = "submit" /\ call'[Seller].op = "commit" /\ call'[Seller] # call[Seller]
    BY <1>4, <2>1 DEF AboutToCommit, At
  <2>3. ~SellerCalls(Seller) /\ ~Ledger /\ ~UNCHANGED clientVars
    BY <2>1, <2>2 DEF SellerCalls, Begin, CallInv, NoCall, Ledger, clientVars
  <2>4. SellerSteps(Seller)
    BY <2>1, <2>2, <2>3, OneAtATime, OthersAreNotReady DEF ClientNext
  <2>5. ReadAssetsForCommit(Seller) /\ ReadyToSell
    BY <2>1, <2>2, <2>4, ReadyBeforeCommit
  <2> QED BY <2>5 DEF ReadAssetsForCommit, ReadyToSell, Filled, FullLots, AuctionAssets, vars, contractVars
<1> QED BY <1>1, <1>2, <1>3, <1>4 DEF Filled

-----------------------------------------------------------------------------
ClientInv == IInv /\ AcceptedHasBid /\ CallInv /\ Filled

LEMMA ClientInitInv == ClientInit => ClientInv
<1> SUFFICES ASSUME ClientInit PROVE ClientInv
  OBVIOUS
<1>1. IInv
  BY InitIInv DEF ClientInit
<1>2. Call(NoCall)
  BY OperationsAre DEF Call, Arguments, NoCall, OperationCalls
<1>3. CallInv
  BY <1>2 DEF ClientInit, CallInv, Call
<1>4. call[Seller].pc = "returned"
  BY AccountsAssumption DEF ClientInit, NoCall
<1>5. AcceptedHasBid /\ Filled
  BY <1>4 DEF ClientInit, Init, AcceptedHasBid, Filled, OnSale, AboutToCommit, At
<1> QED BY <1>1, <1>3, <1>5 DEF ClientInv

LEMMA ClientNextInv == ClientInv /\ [ClientNext]_clientVars => ClientInv'
  BY ClientStepIsStep, StepIInv, AcceptedNext, CallNext, FilledNext DEF ClientInv

THEOREM ClientInvariant == ClientSpec => []ClientInv
  BY ClientInitInv, ClientNextInv, PTL DEF ClientSpec

\* Whatever the clients do, in whatever order their requests reach the chain and
\* wherever an operation fails, is a behaviour of the contract: each of its theorems
\* holds of an auction that is used through auction_client.py.
THEOREM ClientsUseTheContract == ClientSpec => Spec
<1>1. ClientInit => Init
  BY DEF ClientInit
<1>2. ClientInv /\ [ClientNext]_clientVars => [Next]_vars
  BY ClientStepIsStep DEF ClientInv
<1> QED BY <1>1, <1>2, ClientInvariant, PTL DEF ClientSpec, Spec

\* An operation of a client knows the arguments it was given, assets and accounts of
\* this auction, and a winner if it closes the assets out as sold.
THEOREM ClientTypes == ClientSpec => []ClientTypeOK
<1>1. ClientInv => ClientTypeOK
  BY DEF ClientInv, IInv, CallInv, Call, ClientTypeOK
<1> QED BY <1>1, ClientInvariant, PTL

\* Every lot that is for sale is really there, for any number of bidders and however
\* long the seller's client takes between its look at the assets and the commit: the
\* contract does not look at balances, and nobody but the seller, whose client does one
\* operation at a time, could take a lot out in between.
THEOREM LotsStayFilled == ClientSpec => []LotsAreFilled
<1>1. ClientInv => LotsAreFilled
  BY DEF ClientInv, Filled, OnSale, FullLots, LotsAreFilled
<1> QED BY <1>1, ClientInvariant, PTL

-----------------------------------------------------------------------------
(***************************************************************************)
(* What an operation that returns says about the auction.                  *)
(***************************************************************************)

\* An auction that is not finalized still holds something, so the close-out of the
\* last asset is the one that finalizes it.
Unsettled == status \in {"Committed", "BidAccepted", "Cancelled"} => optin[App] # {}

\* What a finalize() has read of the auction is settled, and the lots it has not
\* listed, or has worked off, are gone: nobody adds one after the setup.
Settling(a) ==
  call[a].op = "finalize" /\ call[a].pc \in {"list", "each"} =>
    /\ status # "New"
    /\ call[a].asset = bidAsset
    /\ call[a].pc = "each" => AuctionAssets \subseteq call[a].todo

\* The auction stays new while the seller's client makes a deposit, since nobody
\* else could commit or cancel it, and what was deposited stays.
Depositing(a) ==
  /\ call[a].pc = "last" => call[a].op \in {"deposit_asset", "withdraw_asset"}
  /\ call[a].op = "deposit_asset" /\ call[a].pc \in {"optin", "submit", "last"} =>
       /\ a = Seller /\ status = "New"
       /\ call[a].pc = "last" =>
            /\ call[a].asset \in optin[App]
            /\ bal[App][call[a].asset] >= call[a].amount

ReturnInv == Unsettled /\ \A a \in Accounts : Settling(a) /\ Depositing(a)

LEMMA EnvironmentKeepsContract ==
  ASSUME Environment
  PROVE  UNCHANGED contractVars
BY DEF Environment, TransferAsset, AccountOptin, AccountOptout, Clawback, Tick, contractVars

LEMMA FinalizeRemoves ==
  ASSUME IInv, NEW x \in Assets, NEW closeTo \in Accounts, Finalize(x, closeTo)
  PROVE  /\ status # "New" /\ bidAsset' = bidAsset
         /\ optin'[App] = optin[App] \ {x}
         /\ status' = IF optin'[App] = {} THEN "Finalized" ELSE status
<1>1. TypeOK /\ ExecuteOptout(x, closeTo)
  BY DEF IInv, Finalize
<1>2. optin'[App] = optin[App] \ {x}
  BY <1>1, ExecuteOptoutEffect
<1>3. status # "New" /\ bidAsset' = bidAsset
  BY DEF Finalize, MayReceive, IsSold, IsNotSold
<1> QED BY <1>2, <1>3 DEF Finalize, StatusAfterCloseOut

LEMMA UnsettledNext ==
  ASSUME IInv, Unsettled, [Next]_vars
  PROVE  Unsettled'
<1>1. ASSUME NEW sender \in Accounts, SellerCall(sender) PROVE Unsettled'
  <2>1. Cardinality({}) = 0
    BY FS_EmptySet
  <2>2. CASE Cancel(sender)
    BY <2>1, <2>2 DEF Cancel, TotalAssets, Unsettled
  <2>3. CASE \E start, end \in Times : Commit(sender, start, end)
    <3>1. TotalAssets > 1 /\ optin' = optin
      BY <2>3 DEF Commit
    <3> QED BY <2>1, <3>1 DEF TotalAssets, Unsettled
  <2>4. CASE AcceptBid(sender)
    BY <2>4 DEF AcceptBid, Unsettled
  <2>5. CASE status' = "New"
    BY <2>5 DEF Unsettled
  <2> QED BY <1>1, <2>2, <2>3, <2>4, <2>5 DEF SellerCall, SetBidAsset, OptinAsset, OptoutAsset,
         WithdrawAsset, IsNew, contractVars
<1>2. CASE Bidding
  BY <1>2 DEF Bidding, SubmitBid, Unsettled
<1>3. ASSUME NEW x \in Assets, NEW closeTo \in Accounts, Finalize(x, closeTo) PROVE Unsettled'
  BY <1>3, FinalizeRemoves DEF Unsettled
<1>4. CASE Delete \/ UNCHANGED vars
  BY <1>4 DEF Delete, vars, contractVars, Unsettled
<1>5. CASE Environment
  BY <1>5, EnvironmentKeepsContract, EnvironmentOnlyAdds DEF contractVars, Unsettled
<1> QED BY <1>1, <1>2, <1>3, <1>4, <1>5 DEF Next

\* Once the seller has let go of the auction, nothing is added to it.
LEMMA NothingIsAdded ==
  ASSUME IInv, [Next]_vars, status # "New"
  PROVE  status' # "New" /\ bidAsset' = bidAsset /\ optin'[App] \subseteq optin[App]
<1>1. status' # "New"
  BY StatusMoves
<1>2. ASSUME NEW sender \in Accounts, SellerCall(sender)
      PROVE  bidAsset' = bidAsset /\ optin'[App] \subseteq optin[App]
  <2>1. AcceptBid(sender)
    BY <1>2 DEF SellerCall, SetBidAsset, OptinAsset, OptoutAsset, WithdrawAsset, Commit, Cancel, IsNew
  <2> QED BY <2>1 DEF AcceptBid
<1>3. CASE Bidding
  BY <1>3 DEF Bidding, SubmitBid
<1>4. ASSUME NEW x \in Assets, NEW closeTo \in Accounts, Finalize(x, closeTo)
      PROVE  bidAsset' = bidAsset /\ optin'[App] \subseteq optin[App]
  BY <1>4, FinalizeRemoves
<1>5. CASE Delete \/ UNCHANGED vars
  BY <1>5 DEF Delete, vars, contractVars
<1>6. CASE Environment
  BY <1>1, <1>6, EnvironmentOnlyAdds
<1> QED BY <1>1, <1>2, <1>3, <1>4, <1>5, <1>6 DEF Next

-----------------------------------------------------------------------------
\* The calls that a step does not move.
LEMMA SettlingStays ==
  ASSUME IInv, [Next]_vars, NEW b \in Accounts, Settling(b), call'[b] = call[b]
  PROVE  Settling(b)'
<1> SUFFICES ASSUME call[b].op = "finalize", call[b].pc \in {"list", "each"}
             PROVE  /\ status' # "New" /\ call[b].asset = bidAsset'
                    /\ call[b].pc = "each" => AuctionAssets' \subseteq call[b].todo
  BY DEF Settling
<1>1. status # "New" /\ call[b].asset = bidAsset
  BY DEF Settling
<1>2. status' # "New" /\ bidAsset' = bidAsset /\ AuctionAssets' \subseteq AuctionAssets
  BY <1>1, NothingIsAdded DEF AuctionAssets
<1> QED BY <1>1, <1>2 DEF Settling

\* Nobody but the seller moves a new auction on, or takes anything out of it.
LEMMA OthersOnlyAdd ==
  ASSUME IInv, CallInv, status = "New",
         \/ \E a \in Accounts \ {Seller} :
              Calls(a) \/ SellerSteps(a) \/ BidderSteps(a) \/ FinalizeSteps(a) \/ Fails(a)
         \/ Ledger
         \/ UNCHANGED vars
  PROVE  /\ status' = "New" /\ optin'[App] = optin[App]
         /\ \A y \in optin[App] : bal'[App][y] >= bal[App][y]
<1> DEFINE Adds == /\ status' = "New" /\ optin'[App] = optin[App]
                   /\ \A y \in optin[App] : bal'[App][y] >= bal[App][y]
<1>1. \A y \in optin[App] : bal[App][y] \in Nat
  BY DEF IInv, TypeOK, Holders
<1>2. CASE UNCHANGED vars
  BY <1>1, <1>2 DEF vars, contractVars
<1>3. CASE Environment
  BY <1>3, EnvironmentOnlyAdds, EnvironmentKeepsContract DEF contractVars
<1>4. CASE Ledger
  <2>1. Environment
    <3>1. Seller \in Holders /\ App \in Holders
      BY AccountsAssumption DEF Holders
    <3> QED BY <1>4, <3>1 DEF Ledger, Environment, Delete
  <2> QED BY <1>3, <2>1
<1>5. ASSUME NEW a \in Accounts \ {Seller}, Reading(a) PROVE Adds
  BY <1>2, <1>5, ReadingChangesNothing
<1>6. ASSUME NEW a \in Accounts \ {Seller}, SellerSteps(a), ~Reading(a) PROVE Adds
  <2>1. UNCHANGED vars \/ SubmitDeposit(a)
    BY <1>6 DEF SellerSteps, Reading, OptoutOldBidAsset, SubmitBidAsset, SubmitOptin, SubmitOptout,
       SubmitWithdraw, SubmitCommit, SubmitAccept, SubmitCancel, OptoutAsset, SetBidAsset, OptinAsset,
       WithdrawAsset, Commit, AcceptBid, Cancel
  <2>2. ASSUME SubmitDeposit(a) PROVE Environment
    <3>1. call[a].asset \in Assets /\ call[a].amount \in Amounts
      BY <2>2 DEF CallInv, Call, Arguments, SubmitDeposit, At
    <3> QED BY <2>2, <3>1 DEF SubmitDeposit, Environment, Holders
  <2> QED BY <1>2, <1>3, <2>1, <2>2
<1>7. ASSUME NEW a \in Accounts \ {Seller}, BidderSteps(a), ~Reading(a) PROVE Adds
  <2>1. OptinEach(a)
    BY <1>7 DEF BidderSteps, Reading, SubmitsBid, SubmitBid
  <2>2. call[a].todo \subseteq Assets
    BY DEF CallInv, OperationCalls
  <2>3. UNCHANGED vars \/ Environment
    BY <2>1, <2>2 DEF OptinEach, Environment
  <2> QED BY <1>2, <1>3, <2>3
<1>8. ASSUME NEW a \in Accounts \ {Seller}, FinalizeSteps(a), ~Reading(a) PROVE Adds
  <2>1. UNCHANGED vars
    BY <1>8 DEF FinalizeSteps, Reading, FinalizeEach, FinalizeBidAsset, Finalize, MayReceive, IsSold,
       IsNotSold
  <2> QED BY <1>2, <2>1
<1>9. CASE \E a \in Accounts \ {Seller} :
             Calls(a) \/ SellerSteps(a) \/ BidderSteps(a) \/ FinalizeSteps(a) \/ Fails(a)
  <2> PICK a \in Accounts \ {Seller} :
             Calls(a) \/ SellerSteps(a) \/ BidderSteps(a) \/ FinalizeSteps(a) \/ Fails(a)
    BY <1>9
  <2>1. Calls(a) \/ Fails(a) => Reading(a)
    BY DEF Reading
  <2> HIDE DEF Adds
  <2>2. Adds
    BY <1>5, <1>6, <1>7, <1>8, <2>1
  <2> QED BY <2>2 DEF Adds
<1> QED BY <1>2, <1>4, <1>9

LEMMA DepositingStays ==
  ASSUME IInv, CallInv, NEW b \in Accounts, Depositing(b), call'[b] = call[b], [Next]_vars,
         \/ \E a \in Accounts \ {Seller} :
              Calls(a) \/ SellerSteps(a) \/ BidderSteps(a) \/ FinalizeSteps(a) \/ Fails(a)
         \/ Ledger
         \/ UNCHANGED vars
  PROVE  Depositing(b)'
<1>1. CASE ~(call[b].op = "deposit_asset" /\ call[b].pc \in {"optin", "submit", "last"})
  BY <1>1 DEF Depositing
<1>2. CASE call[b].op = "deposit_asset" /\ call[b].pc \in {"optin", "submit", "last"}
  <2>1. b = Seller /\ status = "New"
    BY <1>2 DEF Depositing
  <2>2. /\ status' = "New" /\ optin'[App] = optin[App]
        /\ \A y \in optin[App] : bal'[App][y] >= bal[App][y]
    BY <2>1, OthersOnlyAdd
  <2>3. ASSUME call[b].pc = "last"
        PROVE  call[b].asset \in optin'[App] /\ bal'[App][call[b].asset] >= call[b].amount
    <3> DEFINE x == call[b].asset
               n == call[b].amount
    <3>1. x \in optin[App] /\ bal[App][x] >= n
      BY <1>2, <2>3 DEF Depositing
    <3>2. n \in Nat /\ x \in Assets
      BY <1>2, BoundsAssumption DEF CallInv, Call, Arguments, Amounts
    <3>3. bal[App][x] \in Nat
      BY <3>2 DEF IInv, TypeOK, Holders
    <3>4. bal'[App][x] >= bal[App][x]
      BY <2>2, <3>1
    <3>5. bal'[App][x] \in Nat
      BY <3>2, StepIInv DEF IInv, TypeOK, Holders
    <3> QED BY <2>2, <3>1, <3>2, <3>3, <3>4, <3>5
  <2> QED BY <1>2, <2>1, <2>2, <2>3 DEF Depositing
<1> QED BY <1>1, <1>2

-----------------------------------------------------------------------------
\* The call that a step moves.
LEMMA CallSteps ==
  ASSUME CallInv, NEW a \in Accounts
  PROVE  /\ \A pc : Goes(a, pc) =>
              /\ call'[a].pc = pc /\ call'[a].op = call[a].op
              /\ call'[a].asset = call[a].asset /\ call'[a].amount = call[a].amount
         /\ Returns(a) => call'[a].pc = "returned"
         /\ Raises(a) => call'[a].pc = "raised"
         /\ \A T : call' = [call EXCEPT ![a].todo = T] =>
              /\ call'[a].pc = call[a].pc /\ call'[a].op = call[a].op
              /\ call'[a].asset = call[a].asset /\ call'[a].todo = T
         /\ \A pc, T : call' = [call EXCEPT ![a].pc = pc, ![a].todo = T] =>
              /\ call'[a].pc = pc /\ call'[a].op = call[a].op
              /\ call'[a].asset = call[a].asset /\ call'[a].todo = T
BY DEF CallInv, OperationCalls, Goes, Returns, Raises, NoCall

LEMMA CallsBegin ==
  ASSUME CallInv, NEW a \in Accounts, Calls(a) \/ SellerCalls(a)
  PROVE  call'[a].pc = "read"
<1>1. ASSUME NEW op, NEW x, NEW n, Begin(a, op, x, n) PROVE call'[a].pc = "read"
  BY <1>1 DEF Begin, NoCall, CallInv
<1> QED BY <1>1 DEF Calls, SellerCalls

\* The operations of the seller do not finalize.
LEMMA SellerDoesNotSettle ==
  ASSUME CallInv, NEW a \in Accounts, SellerSteps(a)
  PROVE  ~(call'[a].op = "finalize" /\ call'[a].pc \in {"list", "each"})
<1>1. CASE Returns(a) \/ Raises(a)
  BY <1>1, CallSteps
<1>2. ASSUME call[a].op # "finalize", \E pc : Goes(a, pc) PROVE call'[a].op # "finalize"
  BY <1>2, CallSteps
<1>3. CASE ReadForOptin(a)
  <2>1. call[a].op # "finalize"
    BY <1>3 DEF ReadForOptin, At
  <2>2. call' = [call EXCEPT ![a].pc = "submit", ![a].todo = {call[a].asset}]
        \/ (\E pc : Goes(a, pc)) \/ Returns(a) \/ Raises(a)
    BY <1>3 DEF ReadForOptin
  <2> QED BY <1>1, <1>2, <2>1, <2>2, CallSteps
<1>4. CASE SubmitOptin(a)
  <2>1. call[a].op # "finalize"
    BY <1>4 DEF SubmitOptin
  <2>2. call' = [call EXCEPT ![a].todo = {}] \/ Returns(a)
    BY <1>4 DEF SubmitOptin
  <2> QED BY <1>1, <2>1, <2>2, CallSteps
<1>5. CASE ReadHolding(a)
  BY <1>1, <1>5 DEF ReadHolding
<1>6. CASE \/ ReadForBidAsset(a) \/ OptoutOldBidAsset(a) \/ SubmitBidAsset(a)
           \/ ReadForOptout(a) \/ SubmitOptout(a) \/ ReadForDeposit(a) \/ SubmitDeposit(a)
           \/ ReadForWithdraw(a) \/ SubmitWithdraw(a)
           \/ ReadForCommit(a) \/ ReadAssetsForCommit(a) \/ SubmitCommit(a)
           \/ ReadForAccept(a) \/ SubmitAccept(a) \/ ReadForCancel(a) \/ SubmitCancel(a)
  <2>1. call[a].op # "finalize"
    BY <1>6 DEF At, ReadForBidAsset, OptoutOldBidAsset, SubmitBidAsset, ReadForOptout, SubmitOptout,
       ReadForDeposit, SubmitDeposit, ReadForWithdraw, SubmitWithdraw, ReadForCommit,
       ReadAssetsForCommit, SubmitCommit, ReadForAccept, SubmitAccept, ReadForCancel, SubmitCancel
  <2>2. (\E pc : Goes(a, pc)) \/ Returns(a) \/ Raises(a)
    BY <1>6 DEF ReadForBidAsset, OptoutOldBidAsset, SubmitBidAsset, ReadForOptout, SubmitOptout,
       ReadForDeposit, SubmitDeposit, ReadForWithdraw, SubmitWithdraw, ReadForCommit,
       ReadAssetsForCommit, SubmitCommit, ReadForAccept, SubmitAccept, ReadForCancel, SubmitCancel
  <2> QED BY <1>1, <1>2, <2>1, <2>2
<1> QED BY <1>3, <1>4, <1>5, <1>6 DEF SellerSteps

\* The calls of bidders neither settle nor deposit.
LEMMA BidderCall ==
  ASSUME CallInv, NEW a \in Accounts, BidderSteps(a)
  PROVE  \/ call'[a].pc \in {"returned", "raised"}
         \/ call'[a].op \in {"bid", "optin_auction_assets"} /\ call'[a].pc \in {"submit", "each"}
<1>1. CASE ReadForBid(a)
  <2>1. call[a] \in OperationCalls /\ call[a].op = "bid"
    BY <1>1 DEF CallInv, ReadForBid, At
  <2>2. call' = [call EXCEPT ![a].pc = "submit", ![a].bidder = highestBidder] \/ Raises(a)
    BY <1>1 DEF ReadForBid
  <2>3. ASSUME call' = [call EXCEPT ![a].pc = "submit", ![a].bidder = highestBidder]
        PROVE  call'[a].pc = "submit" /\ call'[a].op = "bid"
    BY <2>1, <2>3 DEF CallInv, OperationCalls
  <2> QED BY <2>2, <2>3, CallSteps
<1>2. CASE SubmitsBid(a)
  BY <1>2, CallSteps DEF SubmitsBid
<1>3. CASE ListForOptin(a)
  <2>1. call' = [call EXCEPT ![a].pc = "each", ![a].todo = AuctionAssets]
        /\ call[a].op = "optin_auction_assets"
    BY <1>3 DEF ListForOptin, At
  <2> QED BY <2>1, CallSteps
<1>4. CASE OptinEach(a)
  <2>1. call[a].op = "optin_auction_assets" /\ call[a].pc = "each"
    BY <1>4 DEF OptinEach, At
  <2>2. Returns(a) \/ \E x : call' = [call EXCEPT ![a].todo = @ \ {x}]
    BY <1>4 DEF OptinEach
  <2>3. Returns(a) \/ \E T : call' = [call EXCEPT ![a].todo = T]
    BY <2>2 DEF CallInv
  <2> QED BY <2>1, <2>3, CallSteps
<1> QED BY <1>1, <1>2, <1>3, <1>4 DEF BidderSteps

LEMMA SettlingNext ==
  ASSUME IInv, CallInv, NEW a \in Accounts, Settling(a), [Next]_vars, FinalizeSteps(a)
  PROVE  Settling(a)'
<1>1. CASE Returns(a) \/ Raises(a)
  BY <1>1, CallSteps DEF Settling
<1>2. CASE ReadForFinalize(a) /\ ~Returns(a) /\ ~Raises(a)
  <2>1. PICK clock \in Clock :
             /\ is_ended(clock)
             /\ call' = [call EXCEPT ![a].pc = "list", ![a].asset = bidAsset,
                                     ![a].sold = is_sold(clock), ![a].bidder = highestBidder]
    BY <1>2 DEF ReadForFinalize
  <2>2. status # "New" /\ UNCHANGED vars
    BY <1>2, <2>1 DEF is_ended, ReadForFinalize
  <2>3. call'[a].pc = "list" /\ call'[a].asset = bidAsset
    <3> DEFINE sold == is_sold(clock)
    <3>1. call' = [call EXCEPT ![a].pc = "list", ![a].asset = bidAsset,
                               ![a].sold = sold, ![a].bidder = highestBidder]
      BY <2>1
    <3> HIDE DEF sold
    <3> QED BY <3>1 DEF CallInv, OperationCalls
  <2>4. status' # "New" /\ bidAsset' = bidAsset
    BY <2>2 DEF vars, contractVars
  <2> QED BY <2>3, <2>4 DEF Settling
<1>3. CASE ListForFinalize(a)
  <2>1. call[a].pc = "list" /\ call[a].op = "finalize" /\ UNCHANGED vars
        /\ call' = [call EXCEPT ![a].pc = "each", ![a].todo = AuctionAssets]
    BY <1>3 DEF ListForFinalize, At
  <2>2. call'[a].pc = "each" /\ call'[a].asset = call[a].asset /\ call'[a].todo = AuctionAssets
    <3> DEFINE T == AuctionAssets
    <3>1. call' = [call EXCEPT ![a].pc = "each", ![a].todo = T]
      BY <2>1
    <3> HIDE DEF T
    <3>2. call'[a].pc = "each" /\ call'[a].asset = call[a].asset /\ call'[a].todo = T
      BY <3>1 DEF CallInv, OperationCalls
    <3> QED BY <3>2 DEF T
  <2>3. status' # "New" /\ call[a].asset = bidAsset' /\ AuctionAssets' = AuctionAssets
    BY <2>1 DEF Settling, vars, contractVars, AuctionAssets
  <2> QED BY <2>2, <2>3 DEF Settling
<1>4. CASE FinalizeEach(a)
  <2>1. PICK x \in call[a].todo :
             /\ Finalize(x, ClosesOutTo(a))
             /\ call' = [call EXCEPT ![a].todo = @ \ {x}]
    BY <1>4 DEF FinalizeEach
  <2>2. call[a] \in OperationCalls /\ call[a].pc = "each" /\ call[a].op = "finalize"
    BY <1>4 DEF FinalizeEach, At, CallInv
  <2>3. x \in Assets /\ ClosesOutTo(a) \in Accounts
    BY <2>2, AccountsAssumption DEF CallInv, Call, ClosesOutTo, OperationCalls
  <2>4. optin'[App] = optin[App] \ {x} /\ bidAsset' = bidAsset
    BY <2>1, <2>3, FinalizeRemoves
  <2>5. call'[a].asset = call[a].asset /\ call'[a].todo = call[a].todo \ {x}
    <3> DEFINE T == call[a].todo \ {x}
    <3>1. call' = [call EXCEPT ![a].todo = T]
      BY <2>1 DEF CallInv
    <3> HIDE DEF T
    <3>2. call'[a].asset = call[a].asset /\ call'[a].todo = T
      BY <3>1, CallSteps
    <3> QED BY <3>2 DEF T
  <2>6. status # "New" /\ call[a].asset = bidAsset /\ AuctionAssets \subseteq call[a].todo
    BY <2>2 DEF Settling
  <2>7. AuctionAssets' = AuctionAssets \ {x}
    BY <2>4 DEF AuctionAssets
  <2>8. status' # "New" /\ call'[a].asset = bidAsset' /\ AuctionAssets' \subseteq call'[a].todo
    BY <2>4, <2>5, <2>6, <2>7, NothingIsAdded
  <2> QED BY <2>8 DEF Settling
<1>5. CASE FinalizeBidAsset(a)
  BY <1>1, <1>5 DEF FinalizeBidAsset
<1> QED BY <1>1, <1>2, <1>3, <1>4, <1>5 DEF FinalizeSteps

\* How the calls of the seller go through a deposit.
LEMMA DepositingNext ==
  ASSUME IInv, CallInv, NEW a \in Accounts, Depositing(a), SellerSteps(a)
  PROVE  Depositing(a)'
<1>1. CASE Returns(a) \/ Raises(a)
  BY <1>1, CallSteps DEF Depositing
<1>2. ASSUME call'[a].op # "deposit_asset", call'[a].pc # "last" PROVE Depositing(a)'
  BY <1>2 DEF Depositing
<1>3. CASE ReadForOptin(a)
  <2>1. call[a].op \in {"optin_asset", "deposit_asset"} /\ UNCHANGED vars
        /\ (call[a].op = "deposit_asset" => call[a].pc = "optin")
    BY <1>3 DEF ReadForOptin, At
  <2>2. call' = [call EXCEPT ![a].pc = "submit", ![a].todo = {call[a].asset}]
        \/ Goes(a, "submit") \/ Returns(a) \/ Raises(a)
    BY <1>3 DEF ReadForOptin
  <2>3. ASSUME ~Returns(a), ~Raises(a)
        PROVE  call'[a].pc = "submit" /\ call'[a].op = call[a].op
    BY <2>2, <2>3, CallSteps
  <2>4. call[a].op = "deposit_asset" => a = Seller /\ status' = "New"
    BY <2>1 DEF Depositing, vars, contractVars
  <2> QED BY <1>1, <2>3, <2>4 DEF Depositing
<1>4. CASE SubmitOptin(a)
  <2>1. call[a].pc = "submit" /\ (call' = [call EXCEPT ![a].todo = {}] \/ Returns(a))
        /\ OptinAsset(a, call[a].asset)
    BY <1>4 DEF SubmitOptin
  <2>2. a = Seller /\ status' = "New"
    BY <2>1 DEF OptinAsset, IsNew, contractVars
  <2>3. ~Returns(a) => call'[a].pc = "submit"
    BY <2>1, CallSteps
  <2> QED BY <1>1, <2>2, <2>3 DEF Depositing
<1>5. CASE ReadForDeposit(a) /\ ~Raises(a)
  <2>1. Goes(a, "optin") /\ a = Seller /\ status = "New" /\ UNCHANGED vars
    BY <1>5 DEF ReadForDeposit
  <2>2. call'[a].pc = "optin" /\ status' = "New"
    BY <2>1, CallSteps DEF vars, contractVars
  <2> QED BY <2>1, <2>2 DEF Depositing
<1>6. CASE SubmitDeposit(a)
  <2> DEFINE x == call[a].asset
             n == call[a].amount
  <2>1. call[a].op = "deposit_asset" /\ call[a].pc = "submit" /\ Goes(a, "last")
        /\ TransferAsset(a, App, x, n)
    BY <1>6 DEF SubmitDeposit, At
  <2>2. a = Seller /\ status = "New"
    BY <2>1 DEF Depositing
  <2>3. x \in Assets /\ n \in Nat
    BY <2>1, BoundsAssumption DEF CallInv, Call, Arguments, Amounts
  <2>4. /\ call'[a].op = "deposit_asset" /\ call'[a].asset = x /\ call'[a].amount = n
    BY <2>1, CallSteps
  <2>5. status' = "New" /\ x \in optin'[App] /\ bal' = Moved(bal, a, App, x, n)
    BY <2>1, <2>2 DEF TransferAsset, CanTransfer, contractVars
  <2>6. a # App /\ App \in Holders
    BY AccountsAssumption DEF Holders
  <2>7. bal[App][x] \in Nat
    BY <2>3, <2>6 DEF IInv, TypeOK
  <2>8. bal'[App][x] = bal[App][x] - 0 + n
    <3> HIDE DEF x, n
    <3> QED BY <2>3, <2>5, <2>6, MovedAt
  <2>9. bal'[App][x] >= n
    <3> HIDE DEF x, n
    <3> QED BY <2>3, <2>7, <2>8
  <2> HIDE DEF x, n
  <2> QED BY <2>2, <2>4, <2>5, <2>9 DEF Depositing
<1>7. CASE ReadHolding(a)
  BY <1>1, <1>7 DEF ReadHolding
<1>8. CASE SubmitWithdraw(a)
  <2>1. call[a].op = "withdraw_asset" /\ Goes(a, "last")
    BY <1>8 DEF SubmitWithdraw, At
  <2>2. call'[a].op = "withdraw_asset"
    BY <2>1, CallSteps
  <2> QED BY <2>2 DEF Depositing
<1>9. CASE \/ ReadForBidAsset(a) \/ OptoutOldBidAsset(a) \/ SubmitBidAsset(a)
           \/ ReadForOptout(a) \/ SubmitOptout(a) \/ ReadForWithdraw(a)
           \/ ReadForCommit(a) \/ ReadAssetsForCommit(a) \/ SubmitCommit(a)
           \/ ReadForAccept(a) \/ SubmitAccept(a) \/ ReadForCancel(a) \/ SubmitCancel(a)
  <2>1. call[a].op # "deposit_asset"
    BY <1>9 DEF At, ReadForBidAsset, OptoutOldBidAsset, SubmitBidAsset, ReadForOptout, SubmitOptout,
       ReadForWithdraw, ReadForCommit, ReadAssetsForCommit, SubmitCommit, ReadForAccept, SubmitAccept,
       ReadForCancel, SubmitCancel
  <2>2. Goes(a, "optout_old") \/ Goes(a, "submit") \/ Goes(a, "list") \/ Returns(a) \/ Raises(a)
    BY <1>9 DEF ReadForBidAsset, OptoutOldBidAsset, SubmitBidAsset, ReadForOptout, SubmitOptout,
       ReadForWithdraw, ReadForCommit, ReadAssetsForCommit, SubmitCommit, ReadForAccept, SubmitAccept,
       ReadForCancel, SubmitCancel
  <2>3. ASSUME ~Returns(a), ~Raises(a)
        PROVE  call'[a].op # "deposit_asset" /\ call'[a].pc # "last"
    BY <2>1, <2>2, <2>3, CallSteps
  <2> QED BY <1>1, <1>2, <2>3
<1>10. CASE ReadForDeposit(a) /\ Raises(a)
  BY <1>1, <1>10
<1> QED BY <1>3, <1>4, <1>5, <1>6, <1>7, <1>8, <1>9, <1>10 DEF SellerSteps

LEMMA FinalizeCall ==
  ASSUME CallInv, NEW a \in Accounts, FinalizeSteps(a)
  PROVE  \/ call'[a].pc \in {"returned", "raised"}
         \/ call'[a].op = "finalize" /\ call'[a].pc \in {"list", "each"}
<1>1. CASE Returns(a) \/ Raises(a)
  BY <1>1, CallSteps
<1>2. CASE ReadForFinalize(a)
  <2>1. call[a] \in OperationCalls /\ call[a].op = "finalize"
    BY <1>2 DEF CallInv, ReadForFinalize, At
  <2>2. ASSUME NEW x, NEW sold, NEW b,
               call' = [call EXCEPT ![a].pc = "list", ![a].asset = x, ![a].sold = sold, ![a].bidder = b]
        PROVE  call'[a].pc = "list" /\ call'[a].op = "finalize"
    BY <2>1, <2>2 DEF CallInv, OperationCalls
  <2>3. Returns(a) \/ Raises(a) \/ (call'[a].pc = "list" /\ call'[a].op = "finalize")
    BY <1>2, <2>2 DEF ReadForFinalize
  <2> QED BY <1>1, <2>3
<1>3. CASE ListForFinalize(a)
  <2>1. call' = [call EXCEPT ![a].pc = "each", ![a].todo = AuctionAssets] /\ call[a].op = "finalize"
    BY <1>3 DEF ListForFinalize, At
  <2> QED BY <2>1, CallSteps
<1>4. CASE FinalizeEach(a)
  <2>1. call[a].op = "finalize" /\ call[a].pc = "each"
    BY <1>4 DEF FinalizeEach, At
  <2>2. \E T : call' = [call EXCEPT ![a].todo = T]
    BY <1>4 DEF FinalizeEach, CallInv
  <2> QED BY <2>1, <2>2, CallSteps
<1>5. CASE FinalizeBidAsset(a)
  BY <1>1, <1>5 DEF FinalizeBidAsset
<1> QED BY <1>2, <1>3, <1>4, <1>5 DEF FinalizeSteps

LEMMA ReturnNext ==
  ASSUME IInv, CallInv, ReturnInv, [ClientNext]_clientVars
  PROVE  ReturnInv'
<1> USE DEF ReturnInv
<1>1. [Next]_vars
  BY ClientStepIsStep
<1>2. Unsettled'
  BY <1>1, UnsettledNext
<1>3. Seller \in Accounts
  BY AccountsAssumption
<1>4. ASSUME NEW b \in Accounts, call'[b] = call[b] PROVE Settling(b)'
  BY <1>1, <1>4, SettlingStays
<1>5. ASSUME NEW b \in Accounts, call'[b].pc \in {"read", "returned", "raised"}
      PROVE  Settling(b)' /\ Depositing(b)'
  BY <1>5 DEF Settling, Depositing
<1>6. CASE Ledger \/ UNCHANGED clientVars
  <2>1. call' = call /\ (Ledger \/ UNCHANGED vars)
    BY <1>6 DEF Ledger, clientVars
  <2>2. ASSUME NEW b \in Accounts PROVE Depositing(b)'
    BY <1>1, <2>1, DepositingStays
  <2> QED BY <1>2, <1>4, <2>1, <2>2
<1>7. ASSUME NEW a \in Accounts,
             Calls(a) \/ SellerSteps(a) \/ BidderSteps(a) \/ FinalizeSteps(a) \/ Fails(a)
      PROVE  Settling(a)' /\ Depositing(a)'
  <2>1. CASE Calls(a)
    BY <1>5, <2>1, CallsBegin
  <2>2. CASE Fails(a)
    BY <1>5, <2>2, CallSteps DEF Fails
  <2>3. CASE SellerSteps(a)
    BY <2>3, SellerDoesNotSettle, DepositingNext DEF Settling
  <2>4. CASE BidderSteps(a)
    BY <2>4, BidderCall DEF Settling, Depositing
  <2>5. CASE FinalizeSteps(a)
    <3>1. Settling(a)'
      BY <1>1, <2>5, SettlingNext
    <3>2. Depositing(a)'
      BY <2>5, FinalizeCall DEF Depositing
    <3> QED BY <3>1, <3>2
  <2> QED BY <1>7, <2>1, <2>2, <2>3, <2>4, <2>5
<1>8. ASSUME NEW a \in Accounts \ {Seller},
             Calls(a) \/ SellerSteps(a) \/ BidderSteps(a) \/ FinalizeSteps(a) \/ Fails(a)
      PROVE  ReturnInv'
  <2>1. ASSUME NEW b \in Accounts, b # a PROVE Settling(b)' /\ Depositing(b)'
    <3>1. call'[b] = call[b]
      BY <1>8, <2>1, OneAtATime
    <3>2. Depositing(b)'
      BY <1>1, <1>8, <3>1, DepositingStays
    <3> QED BY <1>4, <3>1, <3>2
  <2> QED BY <1>2, <1>7, <1>8, <2>1
<1>9. CASE \/ Calls(Seller) \/ SellerSteps(Seller) \/ BidderSteps(Seller) \/ FinalizeSteps(Seller)
           \/ Fails(Seller) \/ SellerCalls(Seller)
  <2>1. ASSUME NEW b \in Accounts, b # Seller PROVE Settling(b)' /\ Depositing(b)'
    <3>1. call'[b] = call[b]
      <4>1. CASE SellerCalls(Seller)
        BY <1>3, <2>1, <4>1 DEF SellerCalls, Begin, CallInv
      <4> QED BY <1>3, <1>9, <2>1, <4>1, OneAtATime
    <3>2. Depositing(b)'
      <4>1. ~(call[b].op = "deposit_asset" /\ call[b].pc \in {"optin", "submit", "last"})
        BY <2>1 DEF Depositing
      <4> QED BY <3>1, <4>1 DEF Depositing
    <3> QED BY <1>4, <3>1, <3>2
  <2>2. Settling(Seller)' /\ Depositing(Seller)'
    BY <1>3, <1>5, <1>7, <1>9, CallsBegin
  <2> QED BY <1>2, <2>1, <2>2
<1> QED BY <1>6, <1>8, <1>9 DEF ClientNext

-----------------------------------------------------------------------------
\* Claim, arm by arm.
LEMMA ClaimNext ==
  ASSUME NEW c,
         c.op = "set_bid_asset" => bidAsset' = c.asset /\ minBid' = c.amount,
         c.op = "optin_asset" => c.asset \in optin'[App],
         c.op = "optout_asset" => c.asset \notin optin'[App],
         c.op = "deposit_asset" => bal'[App][c.asset] >= c.amount,
         c.op = "commit" => status' # "New",
         c.op = "cancel" => status' \in {"Cancelled", "Finalized"},
         c.op = "finalize" => status' = "Finalized"
  PROVE  Claim(c)'
<1>1. CASE c.op \notin {"set_bid_asset", "optin_asset", "optout_asset", "deposit_asset", "commit",
                        "cancel", "finalize"}
  BY <1>1 DEF Claim
<1>2. CASE c.op = "set_bid_asset"
  BY <1>2 DEF Claim
<1>3. CASE c.op = "optin_asset"
  BY <1>3 DEF Claim
<1>4. CASE c.op = "optout_asset"
  BY <1>4 DEF Claim
<1>5. CASE c.op = "deposit_asset"
  BY <1>5 DEF Claim
<1>6. CASE c.op = "commit"
  BY <1>6 DEF Claim
<1>7. CASE c.op = "cancel"
  BY <1>7 DEF Claim
<1>8. CASE c.op = "finalize"
  BY <1>8 DEF Claim
<1> QED BY <1>1, <1>2, <1>3, <1>4, <1>5, <1>6, <1>7, <1>8

\* Where an operation of the seller returns, it has done what it is for.
LEMMA SellerReturns ==
  ASSUME IInv, CallInv, NEW a \in Accounts, Depositing(a), SellerSteps(a), NEW c, c = call[a],
         c.pc # "returned", call'[a].pc = "returned"
  PROVE  Claim(c)'
<1>0. /\ ~Raises(a) /\ ~Goes(a, "optin") /\ ~Goes(a, "submit") /\ ~Goes(a, "list")
      /\ ~Goes(a, "optout_old") /\ ~Goes(a, "last")
  BY CallSteps
<1>1. App \in Holders /\ optin \in [Holders -> SUBSET Assets]
  BY DEF Holders, IInv, TypeOK
<1>2. CASE ReadForBidAsset(a)
  <2>1. c.op = "set_bid_asset" /\ bidAsset = c.asset /\ minBid = c.amount /\ UNCHANGED vars
    BY <1>0, <1>2 DEF ReadForBidAsset, At
  <2>2. bidAsset' = c.asset /\ minBid' = c.amount
    BY <2>1 DEF vars, contractVars
  <2> QED BY <2>1, <2>2, ClaimNext
<1>3. CASE SubmitBidAsset(a)
  <2>1. c.op = "set_bid_asset" /\ bidAsset' = c.asset /\ minBid' = c.amount
    BY <1>3 DEF SubmitBidAsset, At, SetBidAsset
  <2> QED BY <2>1, ClaimNext
<1>4. CASE ReadForOptin(a)
  <2>1. c.op \in {"optin_asset", "deposit_asset"} /\ UNCHANGED vars
    BY <1>4 DEF ReadForOptin, At
  <2>2. ~(call' = [call EXCEPT ![a].pc = "submit", ![a].todo = {call[a].asset}])
    BY CallSteps
  <2>3. c.op = "optin_asset" /\ c.asset \in optin[App]
    BY <1>0, <1>4, <2>2 DEF ReadForOptin
  <2>4. c.asset \in optin'[App]
    BY <2>1, <2>3 DEF vars
  <2> QED BY <2>3, <2>4, ClaimNext
<1>5. CASE SubmitOptin(a)
  <2>1. call[a].pc = "submit" /\ call'[a].pc = "returned"
    BY <1>5, CallSteps DEF SubmitOptin
  <2>2. ~(call' = [call EXCEPT ![a].todo = {}])
    BY <2>1, CallSteps
  <2>3. c.op = "optin_asset" /\ OptinAsset(a, c.asset)
    BY <1>5, <2>2 DEF SubmitOptin
  <2>4. c.asset \in optin'[App]
    BY <1>1, <2>3 DEF OptinAsset, ExecuteOptin
  <2> QED BY <2>3, <2>4, ClaimNext
<1>6. CASE ReadForOptout(a)
  <2>1. c.op = "optout_asset" /\ c.asset \notin optin[App] /\ UNCHANGED vars
    BY <1>0, <1>6 DEF ReadForOptout, At
  <2>2. c.asset \notin optin'[App]
    BY <2>1 DEF vars
  <2> QED BY <2>1, <2>2, ClaimNext
<1>7. CASE SubmitOptout(a)
  <2>1. c.op = "optout_asset" /\ OptoutAsset(a, c.asset)
    BY <1>7 DEF SubmitOptout, At
  <2>2. c.asset \notin optin'[App]
    BY <1>1, <2>1 DEF OptoutAsset, ExecuteOptout
  <2> QED BY <2>1, <2>2, ClaimNext
<1>8. CASE ReadHolding(a)
  <2>1. call[a].pc = "last" /\ UNCHANGED vars
    BY <1>8 DEF ReadHolding
  <2>2. c.op \in {"deposit_asset", "withdraw_asset"}
        /\ (c.op = "deposit_asset" => bal[App][c.asset] >= c.amount)
    BY <2>1 DEF Depositing
  <2>3. c.op = "deposit_asset" => bal'[App][c.asset] >= c.amount
    BY <2>1, <2>2 DEF vars
  <2> QED BY <2>2, <2>3, ClaimNext
<1>9. CASE SubmitCommit(a)
  <2>1. c.op = "commit" /\ status' = "Committed"
    BY <1>9 DEF SubmitCommit, At, Commit
  <2> QED BY <2>1, ClaimNext
<1>10. CASE SubmitCancel(a)
  <2>1. c.op = "cancel" /\ status' \in {"Cancelled", "Finalized"}
    BY <1>10 DEF SubmitCancel, At, Cancel
  <2> QED BY <2>1, ClaimNext
<1>11. CASE SubmitAccept(a)
  <2>1. c.op = "accept_bid"
    BY <1>11 DEF SubmitAccept, At
  <2> QED BY <2>1, ClaimNext
<1> QED BY <1>0, <1>2, <1>3, <1>4, <1>5, <1>6, <1>7, <1>8, <1>9, <1>10, <1>11
       DEF SellerSteps, OptoutOldBidAsset, ReadForDeposit, SubmitDeposit, ReadForWithdraw,
           SubmitWithdraw, ReadForCommit, ReadAssetsForCommit, ReadForAccept, ReadForCancel

LEMMA FinalizeReturns ==
  ASSUME IInv, CallInv, Unsettled, NEW a \in Accounts, Settling(a), FinalizeSteps(a),
         call'[a].pc = "returned"
  PROVE  call[a].op = "finalize" /\ status' = "Finalized"
<1>1. CASE ReadForFinalize(a)
  <2>1. ASSUME NEW x, NEW sold, NEW b,
               call' = [call EXCEPT ![a].pc = "list", ![a].asset = x, ![a].sold = sold, ![a].bidder = b]
        PROVE  call'[a].pc = "list"
    BY <2>1 DEF CallInv, OperationCalls
  <2>2. ~Raises(a)
    BY CallSteps
  <2>3. status = "Finalized" \/ Raises(a) \/ call'[a].pc = "list"
    BY <1>1, <2>1 DEF ReadForFinalize
  <2>4. call[a].op = "finalize" /\ UNCHANGED vars
    BY <1>1 DEF ReadForFinalize, At
  <2> QED BY <2>2, <2>3, <2>4 DEF vars, contractVars
<1>2. CASE ListForFinalize(a)
  <2>1. call'[a].pc = "each"
    <3> DEFINE T == AuctionAssets
    <3>1. call' = [call EXCEPT ![a].pc = "each", ![a].todo = T]
      BY <1>2 DEF ListForFinalize
    <3> HIDE DEF T
    <3> QED BY <3>1, CallSteps
  <2> QED BY <2>1
<1>3. CASE FinalizeEach(a)
  <2>1. call[a].pc = "each" /\ \E T : call' = [call EXCEPT ![a].todo = T]
    BY <1>3 DEF FinalizeEach, At, CallInv
  <2>2. call'[a].pc = "each"
    BY <2>1, CallSteps
  <2> QED BY <2>2
<1>4. CASE FinalizeBidAsset(a)
  <2>1. call[a].op = "finalize" /\ call[a].pc = "each" /\ call[a].todo = {}
    BY <1>4 DEF FinalizeBidAsset, At
  <2>2. status # "New" /\ call[a].asset = bidAsset /\ AuctionAssets \subseteq {}
    BY <2>1 DEF Settling
  <2>3. optin[App] \subseteq {bidAsset}
    BY <2>2 DEF AuctionAssets
  <2>4. CASE bidAsset = NoAsset
    <3>1. optin[App] = {}
      BY <2>3, <2>4, AssetsAssumption DEF IInv, TypeOK, Holders
    <3>2. status = "Finalized"
      BY <2>2, <3>1 DEF Unsettled, IInv, TypeOK, Status
    <3>3. UNCHANGED vars
      BY <1>4, <2>2, <2>4 DEF FinalizeBidAsset, HasNoBidAsset
    <3> QED BY <2>1, <3>2, <3>3 DEF vars, contractVars
  <2>5. CASE bidAsset # NoAsset
    <3>1. Finalize(bidAsset, Seller) /\ bidAsset \in Assets /\ Seller \in Accounts
      BY <1>4, <2>2, <2>5, AccountsAssumption DEF FinalizeBidAsset, HasNoBidAsset, IInv, TypeOK
    <3>2. optin'[App] = optin[App] \ {bidAsset}
          /\ status' = IF optin'[App] = {} THEN "Finalized" ELSE status
      BY <3>1, FinalizeRemoves
    <3>3. optin'[App] = {}
      BY <2>3, <3>2
    <3> QED BY <2>1, <3>2, <3>3
  <2> QED BY <2>4, <2>5
<1> QED BY <1>1, <1>2, <1>3, <1>4 DEF FinalizeSteps

LEMMA ReturnsAreTrue ==
  ASSUME IInv, CallInv, ReturnInv, [ClientNext]_clientVars, NEW a \in Accounts, NEW c, c = call[a],
         c.pc \notin {"returned", "raised"}, call'[a].pc = "returned"
  PROVE  Claim(c)'
<1>1. Depositing(a) /\ Settling(a) /\ Unsettled
  BY DEF ReturnInv
<1>2. call'[a] # call[a]
  OBVIOUS
<1>3. ~Ledger /\ ~UNCHANGED clientVars
  BY <1>2 DEF Ledger, clientVars
<1>4. Seller \in Accounts
  BY AccountsAssumption
<1>5. ~SellerCalls(Seller)
  <2>1. SellerCalls(Seller) => call'[Seller].pc = "read" /\ \A b \in Accounts \ {Seller} : call'[b] = call[b]
    BY <1>4, CallsBegin DEF SellerCalls, Begin, CallInv
  <2> QED BY <1>2, <2>1
<1>6. PICK b \in Accounts : Calls(b) \/ SellerSteps(b) \/ BidderSteps(b) \/ FinalizeSteps(b) \/ Fails(b)
  BY <1>3, <1>5 DEF ClientNext
<1>7. b = a
  BY <1>2, <1>6, OneAtATime
<1>8. CASE Calls(a)
  BY <1>8, CallsBegin
<1>9. CASE Fails(a)
  BY <1>9, CallSteps DEF Fails
<1>10. CASE FinalizeSteps(a)
  <2>1. c.op = "finalize" /\ status' = "Finalized"
    BY <1>1, <1>10, FinalizeReturns
  <2> QED BY <2>1, ClaimNext
<1>11. CASE BidderSteps(a)
  <2>1. c.op \in {"bid", "optin_auction_assets"}
    BY <1>11 DEF BidderSteps, ReadForBid, SubmitsBid, ListForOptin, OptinEach, At
  <2> QED BY <2>1, ClaimNext
<1>12. CASE SellerSteps(a)
  <2>1. ~Raises(a)
    BY CallSteps
  <2> QED BY <1>12, <1>1, <2>1, SellerReturns
<1> QED BY <1>6, <1>7, <1>8, <1>9, <1>10, <1>11, <1>12

LEMMA ReturnInvInit == ClientInit => ReturnInv
<1> SUFFICES ASSUME ClientInit PROVE ReturnInv
  OBVIOUS
<1>1. \A a \in Accounts : call[a].pc = "returned"
  BY DEF ClientInit, NoCall
<1>2. status = "New"
  BY DEF ClientInit, Init
<1> QED BY <1>1, <1>2 DEF ReturnInv, Unsettled, Settling, Depositing

\* An operation that returns without an error has done what it is for, with any number
\* of clients at work at once: what was deposited is still there, and a finalize() that
\* comes back has settled the auction, whoever else was finalizing it.
THEOREM ReturnedMeansDone == ClientSpec => ReturnsTellTheTruth
<1>1. ClientInv /\ ReturnInv /\ [ClientNext]_clientVars => ReturnInv'
  BY ReturnNext DEF ClientInv
<1>2. ClientSpec => []ReturnInv
  BY <1>1, ReturnInvInit, ClientInvariant, PTL DEF ClientSpec
<1>3. ClientInv /\ ReturnInv /\ [ClientNext]_clientVars =>
        [\A a \in Accounts : \A c \in {call[a]} :
           c.pc \notin {"returned", "raised"} /\ call'[a].pc = "returned" => Claim(c)']_clientVars
  BY ReturnsAreTrue DEF ClientInv
<1> QED BY <1>2, <1>3, ClientInvariant, PTL DEF ClientSpec, ReturnsTellTheTruth
=============================================================================
