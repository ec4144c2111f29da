------------------------ MODULE AuctionManagerProofs ------------------------
(***************************************************************************)
(* Proofs about AuctionManager, for any number of auctions and sessions,   *)
(* any prices of storage and any transfers: the treasury.                  *)
(***************************************************************************)
EXTENDS AuctionManager, FiniteSetTheorems, TLAPS

\* An account that is funded covers its minimum balance; one that is not has
\* created nothing.
Solvent ==
  /\ balance = 0 => Live = {}
  /\ balance # 0 => balance >= MinBalance

IInv ==
  /\ ManagerTypeOK
  /\ Solvent
  /\ AvailableUntilWithdrawn

-----------------------------------------------------------------------------
\* The fee that auction_storage_fees adds up by kind of price is what the ledger
\* charges entry by entry.
LEMMA FeeIsTheStorage ==
  /\ auction_storage_fees = AppMinBalance
  /\ auction_storage_fees \in Nat
<1>1. /\ Uints \in Nat /\ Bytes \in Nat /\ EntryBase \in Nat
      /\ UintBase \in Nat /\ BytesBase \in Nat /\ AccountBase \in Nat
  BY ManagerAssumption DEF ManagerAssumption
<1>2. /\ Uints * (EntryBase + UintBase) = EntryBase * Uints + UintBase * Uints
      /\ Bytes * (EntryBase + BytesBase) = EntryBase * Bytes + BytesBase * Bytes
      /\ EntryBase * (Uints + Bytes) = EntryBase * Uints + EntryBase * Bytes
  BY <1>1
<1>3. /\ EntryBase * Uints \in Nat /\ UintBase * Uints \in Nat
      /\ EntryBase * Bytes \in Nat /\ BytesBase * Bytes \in Nat
  BY <1>1
<1>4. QED
  BY <1>1, <1>2, <1>3 DEF auction_storage_fees, AppMinBalance

LEMMA MinBalanceType ==
  ASSUME NEW apps \in SUBSET Auctions
  PROVE  /\ MinBalanceWith(apps) \in Nat
         /\ MinBalanceWith(apps) >= AccountBase /\ AccountBase > 0
         /\ MinBalanceWith({}) = AccountBase
<1>1. Cardinality(apps) \in Nat /\ Cardinality({}) = 0
  BY AuctionsAssumption, FS_Subset, FS_CardinalityType, FS_EmptySet DEF AuctionsAssumption
<1>2. AccountBase \in Nat \ {0}
  BY ManagerAssumption DEF ManagerAssumption
<1>3. AppMinBalance \in Nat
  BY FeeIsTheStorage
<1>4. AppMinBalance * Cardinality(apps) \in Nat /\ AppMinBalance * 0 = 0
  BY <1>1, <1>3
<1>5. QED
  BY <1>1, <1>2, <1>4 DEF MinBalanceWith

\* One application more or less is one storage fee more or less.
LEMMA OneMoreApplication ==
  ASSUME NEW apps \in SUBSET Auctions, NEW a \in Auctions, a \notin apps
  PROVE  MinBalanceWith(apps \cup {a}) = MinBalanceWith(apps) + auction_storage_fees
<1>1. IsFiniteSet(apps) /\ Cardinality(apps) \in Nat
  BY AuctionsAssumption, FS_Subset, FS_CardinalityType DEF AuctionsAssumption
<1>2. Cardinality(apps \cup {a}) = Cardinality(apps) + 1
  BY <1>1, FS_AddElement
<1>3. AppMinBalance \in Nat /\ AccountBase \in Nat
  BY FeeIsTheStorage, ManagerAssumption DEF ManagerAssumption
<1>4. AppMinBalance * (Cardinality(apps) + 1) = AppMinBalance * Cardinality(apps) + AppMinBalance
  BY <1>1, <1>3
<1>5. AppMinBalance * Cardinality(apps) \in Nat
  BY <1>1, <1>3
<1>6. QED
  BY <1>2, <1>3, <1>4, <1>5, FeeIsTheStorage DEF MinBalanceWith

LEMMA FewerApplications ==
  ASSUME NEW apps \in SUBSET Auctions, NEW a \in apps
  PROVE  MinBalanceWith(apps \ {a}) = MinBalanceWith(apps) - auction_storage_fees
<1> DEFINE rest == apps \ {a}
<1>1. rest \in SUBSET Auctions /\ a \in Auctions /\ a \notin rest /\ rest \cup {a} = apps
  OBVIOUS
<1> HIDE DEF rest
<1>2. MinBalanceWith(rest \cup {a}) = MinBalanceWith(rest) + auction_storage_fees
  BY <1>1, OneMoreApplication
<1>3. MinBalanceWith(rest) \in Nat /\ auction_storage_fees \in Nat
  BY <1>1, MinBalanceType, FeeIsTheStorage
<1>4. MinBalanceWith(apps) = MinBalanceWith(rest) + auction_storage_fees
  BY <1>1, <1>2
<1>5. MinBalanceWith(rest) = MinBalanceWith(apps) - auction_storage_fees
  BY <1>3, <1>4
<1>6. QED
  BY <1>5 DEF rest

-----------------------------------------------------------------------------
\* What a session that is about to submit has read.
LEMMA CallTypes ==
  /\ Idle \in Calls
  /\ \A c \in Calls : /\ c.pc = "withdraw" => c.amount \in Nat \ {0}
                      /\ c.pc = "delete" => c.of \in Auctions
                      /\ c.amount \in Int
                      /\ c.pc = "withdraw" => [c EXCEPT !.overtaken = TRUE] \in Calls
  /\ \A n \in Nat \ {0} : [Idle EXCEPT !.pc = "withdraw", !.amount = n] \in Calls
  /\ \A a \in Auctions : [Idle EXCEPT !.pc = "delete", !.of = a] \in Calls
<1>1. ASSUME NEW c \in Withdrawing
      PROVE  c.amount \in Nat \ {0} /\ c.pc = "withdraw" /\ [c EXCEPT !.overtaken = TRUE] \in Withdrawing
  BY DEF Withdrawing
<1>2. ASSUME NEW c \in Deleting
      PROVE  c.amount = 0 /\ c.pc = "delete" /\ c.of \in Auctions
  BY DEF Deleting
<1>3. Idle.amount = 0 /\ Idle.pc = "idle"
  BY DEF Idle
<1>4. \A n \in Nat \ {0} : [Idle EXCEPT !.pc = "withdraw", !.amount = n] \in Withdrawing
  BY DEF Idle, Withdrawing
<1>5. \A a \in Auctions : [Idle EXCEPT !.pc = "delete", !.of = a] \in Deleting
  BY DEF Idle, Deleting
<1>6. ASSUME NEW c \in Calls
      PROVE  /\ c.pc = "withdraw" => c.amount \in Nat \ {0}
             /\ c.pc = "delete" => c.of \in Auctions
             /\ c.amount \in Int
             /\ c.pc = "withdraw" => [c EXCEPT !.overtaken = TRUE] \in Calls
  <2>1. CASE c = Idle
    BY <1>3, <2>1
  <2>2. CASE c \in Withdrawing
    BY <1>1, <2>2 DEF Calls
  <2>3. CASE c \in Deleting
    BY <1>2, <2>3
  <2>4. QED
    BY <2>1, <2>2, <2>3 DEF Calls
<1>7. QED
  BY <1>4, <1>5, <1>6 DEF Calls

LEMMA InitIInv == Init => IInv
<1> SUFFICES ASSUME Init PROVE IInv
  OBVIOUS
<1>1. ManagerTypeOK
  <2>1. MaxTransfers \in Nat /\ MaxHoldings \in Nat
    BY ManagerAssumption DEF ManagerAssumption
  <2>2. Idle \in Calls
    BY CallTypes
  <2>3. funded \in BOOLEAN
    BY DEF Init
  <2>4. QED
    BY <2>1, <2>2, <2>3 DEF Init, ManagerTypeOK, Phases
<1>2. Live = {}
  BY DEF Init, Live
<1>3. QED
  BY <1>1, <1>2 DEF Init, IInv, Solvent, AvailableUntilWithdrawn, Idle

LEMMA TypeStep ==
  ASSUME ManagerTypeOK, [Next]_vars
  PROVE  ManagerTypeOK'
<1> USE DEF ManagerTypeOK, Phases
<1>0. /\ AccountBase \in Int /\ Amounts \subseteq Nat /\ MaxTransfers \in Nat
      /\ MaxHoldings \in Nat /\ auction_storage_fees \in Nat
  BY ManagerAssumption, FeeIsTheStorage DEF ManagerAssumption
<1>1. CASE FundManager
  BY <1>0, <1>1 DEF FundManager
<1>2. CASE Settled
  BY <1>2 DEF Settled, vars
<1>3. ASSUME NEW a \in Auctions, NEW receiver, NEW amount \in Amounts \cup {auction_storage_fees},
             CreateAuction(a, receiver, amount)
      PROVE  ManagerTypeOK'
  BY <1>0, <1>3 DEF CreateAuction
<1>4. ASSUME NEW a \in Auctions, OptIn(a) \/ End(a) \/ CloseOut(a)
      PROVE  ManagerTypeOK'
  <2>1. auction' \in [Auctions -> [phase : Phases, algo : Nat, holdings : 0 .. MaxHoldings]]
    BY <1>0, <1>4 DEF OptIn, End, CloseOut
  <2>2. QED
    BY <1>4, <2>1 DEF OptIn, End, CloseOut
<1>5. ASSUME NEW a \in Auctions, NEW amount \in Amounts, PayAuction(a, amount)
      PROVE  ManagerTypeOK'
  BY <1>0, <1>5 DEF PayAuction
<1>6. ASSUME NEW amount \in Amounts, PayManager(amount)
      PROVE  ManagerTypeOK'
  BY <1>0, <1>6 DEF PayManager
<1>7. ASSUME NEW s \in Sessions, ReadTreasury(s)
      PROVE  ManagerTypeOK'
  <2>1. PICK amount \in Amounts \cup {get_treasury_balance} :
          /\ 0 < amount
          /\ call' = [call EXCEPT ![s] = [Idle EXCEPT !.pc = "withdraw", !.amount = amount]]
    BY <1>7 DEF ReadTreasury
  <2>2. get_treasury_balance \in Int
    BY MinBalanceType DEF get_treasury_balance, MinBalance, Live
  <2>3. amount \in Nat \ {0}
    BY <1>0, <2>1, <2>2
  <2>4. [Idle EXCEPT !.pc = "withdraw", !.amount = amount] \in Calls
    BY <2>3, CallTypes
  <2>5. QED
    BY <1>7, <2>1, <2>4 DEF ReadTreasury
<1>8. ASSUME NEW s \in Sessions, SubmitWithdrawal(s)
      PROVE  ManagerTypeOK'
  <2>1. call' \in [Sessions -> Calls]
    BY <1>8, CallTypes DEF SubmitWithdrawal
  <2>2. call[s].amount \in Int
    BY CallTypes
  <2>3. balance' \in Int /\ withdrawn' \in Int
    BY <1>8, <2>2 DEF SubmitWithdrawal, WithdrawAlgo
  <2>4. UNCHANGED <<funded, auction, transfers, paidIn>>
    BY <1>8 DEF SubmitWithdrawal, WithdrawAlgo
  <2>5. QED
    BY <2>1, <2>3, <2>4
<1>9. ASSUME NEW s \in Sessions, NEW a \in Auctions, ReadForDeletion(s, a)
      PROVE  ManagerTypeOK'
  BY <1>9, CallTypes DEF ReadForDeletion
<1>10. ASSUME NEW s \in Sessions, SubmitDeletion(s)
       PROVE  ManagerTypeOK'
  <2>1. call' \in [Sessions -> Calls] /\ call[s].of \in Auctions
    BY <1>10, CallTypes DEF SubmitDeletion
  <2>2. auction' \in [Auctions -> [phase : Phases, algo : Nat, holdings : 0 .. MaxHoldings]]
    BY <1>10 DEF SubmitDeletion, DeleteFinalizedAuction
  <2>3. balance' \in Int
    BY <1>10, <2>1 DEF SubmitDeletion, DeleteFinalizedAuction, BalanceAfterDeletion
  <2>4. UNCHANGED <<funded, transfers, paidIn, withdrawn>>
    BY <1>10 DEF SubmitDeletion, DeleteFinalizedAuction
  <2>5. QED
    BY <2>1, <2>2, <2>3, <2>4
<1>11. ASSUME NEW s \in Sessions, Fails(s)
       PROVE  ManagerTypeOK'
  BY <1>11, CallTypes DEF Fails
<1>12. CASE UNCHANGED vars
  BY <1>12 DEF vars
<1>13. QED
  BY <1>1, <1>2, <1>3, <1>4, <1>5, <1>6, <1>7, <1>8, <1>9, <1>10, <1>11, <1>12 DEF Next

-----------------------------------------------------------------------------
(***************************************************************************)
(* What a step does to the treasury.                                       *)
(***************************************************************************)

\* Deletion: the manager's minimum balance falls by a fee, and its balance rises
\* by what was in the auction's account.
LEMMA DeletionEarns ==
  ASSUME ManagerTypeOK, Solvent, NEW a \in Auctions, DeleteFinalizedAuction(a)
  PROVE  /\ balance' - MinBalance' >= (balance - MinBalance) + auction_storage_fees
         /\ balance # 0 /\ balance' > 0
         /\ balance - MinBalance >= 0
<1>1. a \in Live /\ Live \in SUBSET Auctions
  BY DEF DeleteFinalizedAuction, Live
<1>2. Live' = Live \ {a}
  BY DEF DeleteFinalizedAuction, Live, ManagerTypeOK
<1>3. MinBalanceWith(Live') = MinBalanceWith(Live) - auction_storage_fees
  BY <1>1, <1>2, FewerApplications
<1>4. auction[a].algo \in Nat /\ balance \in Int /\ auction_storage_fees \in Nat
  BY FeeIsTheStorage DEF ManagerTypeOK
<1>5. balance # 0 /\ balance >= MinBalanceWith(Live)
  BY <1>1 DEF Solvent, MinBalance
<1>6. MinBalanceWith(Live) \in Nat /\ MinBalanceWith(Live) > 0
  BY <1>1, MinBalanceType, ManagerAssumption DEF ManagerAssumption
<1>7. balance' = balance + auction[a].algo
  BY DEF DeleteFinalizedAuction, BalanceAfterDeletion
<1>8. QED
  BY <1>3, <1>4, <1>5, <1>6, <1>7 DEF MinBalance

\* Creation: the fee that comes in is the minimum balance that is added.
LEMMA CreationIsNeutral ==
  ASSUME ManagerTypeOK, Solvent, NEW a \in Auctions, NEW receiver, NEW amount,
         CreateAuction(a, receiver, amount)
  PROVE  /\ balance' - MinBalance' = balance - MinBalance
         /\ balance >= MinBalance /\ balance # 0 /\ balance' > 0
<1>1. a \in Auctions \ Live /\ Live \in SUBSET Auctions
  BY DEF CreateAuction, Live
<1>2. Live' = Live \cup {a}
  BY DEF CreateAuction, Live, ManagerTypeOK
<1>3. MinBalanceWith(Live \cup {a}) = MinBalanceWith(Live) + auction_storage_fees
  BY <1>1, OneMoreApplication
<1>4. balance' = balance + auction_storage_fees /\ balance' >= MinBalanceWith(Live \cup {a})
  BY DEF CreateAuction, PaysTheFee
<1>5. balance \in Int /\ auction_storage_fees \in Nat
  BY FeeIsTheStorage DEF ManagerTypeOK
<1>6. MinBalanceWith(Live) \in Nat /\ MinBalanceWith(Live) > 0
  BY <1>1, MinBalanceType, ManagerAssumption DEF ManagerAssumption
<1>7. QED
  BY <1>2, <1>3, <1>4, <1>5, <1>6 DEF MinBalance

\* Nothing else changes the applications of the manager.
LEMMA SameApplications ==
  ASSUME ManagerTypeOK, NEW a \in Auctions,
         \/ OptIn(a) \/ End(a) \/ CloseOut(a)
         \/ \E amount \in Amounts : PayAuction(a, amount)
  PROVE  /\ MinBalance' = MinBalance /\ Live' = Live
         /\ {b \in Auctions : auction'[b].phase = "deleted"} =
            {b \in Auctions : auction[b].phase = "deleted"}
<1>1. Live' = Live
  BY DEF ManagerTypeOK, OptIn, End, CloseOut, PayAuction, Live
<1>2. {b \in Auctions : auction'[b].phase = "deleted"} =
      {b \in Auctions : auction[b].phase = "deleted"}
  BY DEF ManagerTypeOK, OptIn, End, CloseOut, PayAuction
<1>3. QED
  BY <1>1, <1>2 DEF MinBalance

\* Every step but a withdrawal leaves at least the treasury there was, and keeps
\* the account funded.
LEMMA TreasuryGrows ==
  ASSUME ManagerTypeOK, Solvent, [Next]_vars, \A s \in Sessions : ~SubmitWithdrawal(s)
  PROVE  /\ balance' - MinBalance' >= balance - MinBalance
         /\ Solvent' /\ withdrawn' = withdrawn
<1> DEFINE Grows == /\ balance' - MinBalance' >= balance - MinBalance
                    /\ Solvent' /\ withdrawn' = withdrawn
<1>0. /\ balance \in Int /\ balance' \in Int
      /\ MinBalance \in Nat /\ MinBalance > 0 /\ MinBalance' \in Nat /\ MinBalance' > 0
      /\ Live = {} => MinBalance = AccountBase
  <2>1. Live \in SUBSET Auctions /\ Live' \in SUBSET Auctions
    BY DEF Live
  <2>2. MinBalanceWith(Live') \in Nat /\ MinBalanceWith(Live') >= AccountBase /\ AccountBase > 0
    BY <2>1, MinBalanceType
  <2>3. /\ MinBalanceWith(Live) \in Nat /\ MinBalanceWith(Live) >= AccountBase
        /\ MinBalanceWith({}) = AccountBase
    BY <2>1, MinBalanceType
  <2>4. balance \in Int /\ balance' \in Int /\ AccountBase \in Int
    BY TypeStep, ManagerAssumption DEF ManagerAssumption, ManagerTypeOK
  <2>5. QED
    BY <2>2, <2>3, <2>4 DEF MinBalance
<1>1. CASE FundManager
  <2>1. MinBalance' = MinBalance /\ Live' = Live
    BY <1>1 DEF FundManager, MinBalance, Live
  <2>2. balance' = balance + AccountBase /\ AccountBase \in Nat \ {0} /\ withdrawn' = withdrawn
    BY <1>1, ManagerAssumption DEF FundManager, ManagerAssumption
  <2>3. QED
    BY <1>0, <2>1, <2>2 DEF Solvent
<1>2. ASSUME NEW a \in Auctions, NEW receiver, NEW amount, CreateAuction(a, receiver, amount)
      PROVE  Grows
  <2>1. withdrawn' = withdrawn
    BY <1>2 DEF CreateAuction
  <2>2. /\ balance' - MinBalance' = balance - MinBalance
        /\ balance >= MinBalance /\ balance' > 0
    BY <1>2, CreationIsNeutral
  <2>3. QED
    BY <1>0, <2>1, <2>2 DEF Solvent, MinBalance
<1>3. ASSUME NEW a \in Auctions,
             \/ OptIn(a) \/ End(a) \/ CloseOut(a)
             \/ \E amount \in Amounts : PayAuction(a, amount)
      PROVE  Grows
  <2>1. balance' = balance /\ withdrawn' = withdrawn
    BY <1>3 DEF OptIn, End, CloseOut, PayAuction
  <2>2. MinBalance' = MinBalance /\ Live' = Live
    BY <1>3, SameApplications
  <2>3. QED
    BY <1>0, <2>1, <2>2 DEF Solvent
<1>4. ASSUME NEW amount \in Amounts, PayManager(amount)
      PROVE  Grows
  <2>1. MinBalance' = MinBalance /\ Live' = Live
    BY <1>4 DEF PayManager, MinBalance, Live
  <2>2. balance' = balance + amount /\ amount \in Nat \ {0} /\ withdrawn' = withdrawn
    BY <1>4, ManagerAssumption DEF PayManager, ManagerAssumption
  <2>3. balance + amount >= MinBalance \/ balance + amount = 0
    BY <1>4 DEF PayManager, Accepts
  <2>4. QED
    BY <1>0, <2>1, <2>2, <2>3 DEF Solvent
<1>5. ASSUME NEW s \in Sessions, SubmitDeletion(s)
      PROVE  Grows
  <2>1. call[s].of \in Auctions
    BY <1>5, CallTypes DEF SubmitDeletion, ManagerTypeOK
  <2>2. DeleteFinalizedAuction(call[s].of) /\ withdrawn' = withdrawn
    BY <1>5 DEF SubmitDeletion, DeleteFinalizedAuction
  <2>3. balance' - MinBalance' >= (balance - MinBalance) + auction_storage_fees
        /\ balance' > 0 /\ balance - MinBalance >= 0
    BY <2>1, <2>2, DeletionEarns
  <2>4. auction_storage_fees \in Nat
    BY FeeIsTheStorage
  <2>5. QED
    BY <1>0, <2>2, <2>3, <2>4 DEF Solvent, MinBalance
<1>6. CASE UNCHANGED <<balance, auction, withdrawn>>
  <2>1. MinBalance' = MinBalance /\ Live' = Live
    BY <1>6 DEF MinBalance, Live
  <2>2. QED
    BY <1>0, <1>6, <2>1 DEF Solvent
<1>7. ASSUME NEW s \in Sessions,
             \/ ReadTreasury(s) \/ Fails(s)
             \/ \E a \in Auctions : ReadForDeletion(s, a)
      PROVE  UNCHANGED <<balance, auction, withdrawn>>
  BY <1>7 DEF ReadTreasury, Fails, ReadForDeletion
<1>8. ASSUME Settled \/ UNCHANGED vars
      PROVE  UNCHANGED <<balance, auction, withdrawn>>
  BY <1>8 DEF Settled, vars
<1>9. QED
  BY <1>1, <1>2, <1>3, <1>4, <1>5, <1>6, <1>7, <1>8 DEF Next

\* A withdrawal takes no more than the treasury.
LEMMA WithdrawalIsCovered ==
  ASSUME ManagerTypeOK, NEW s \in Sessions, SubmitWithdrawal(s)
  PROVE  /\ balance' = balance - call[s].amount /\ withdrawn' = withdrawn + call[s].amount
         /\ MinBalance' = MinBalance /\ Live' = Live
         /\ balance' >= MinBalance /\ Solvent'
<1>1. /\ balance' = balance - call[s].amount /\ withdrawn' = withdrawn + call[s].amount
      /\ UNCHANGED auction /\ balance - call[s].amount >= MinBalance
  BY DEF SubmitWithdrawal, WithdrawAlgo
<1>2. MinBalance' = MinBalance /\ Live' = Live
  BY <1>1 DEF MinBalance, Live
<1>3. MinBalance \in Nat /\ MinBalance > 0
  BY MinBalanceType, ManagerAssumption DEF ManagerAssumption, MinBalance, Live
<1>4. QED
  BY <1>1, <1>2, <1>3 DEF Solvent

-----------------------------------------------------------------------------
LEMMA AvailableStep ==
  ASSUME IInv, [Next]_vars
  PROVE  AvailableUntilWithdrawn'
<1> DEFINE Available(t) == call'[t].amount <= balance' - MinBalance'
<1> SUFFICES ASSUME NEW t \in Sessions, call'[t].pc = "withdraw", ~call'[t].overtaken
             PROVE  Available(t)
  BY DEF AvailableUntilWithdrawn
<1>0. /\ ManagerTypeOK /\ Solvent /\ ManagerTypeOK'
      /\ MinBalance \in Nat /\ MinBalance' \in Nat /\ balance \in Int /\ balance' \in Int
      /\ call[t].amount \in Int /\ call'[t].amount \in Int
  <2>1. ManagerTypeOK /\ Solvent /\ ManagerTypeOK'
    BY TypeStep DEF IInv
  <2>2. MinBalanceWith(Live) \in Nat /\ MinBalanceWith(Live') \in Nat
    BY MinBalanceType DEF Live
  <2>3. QED
    BY <2>1, <2>2, CallTypes DEF MinBalance, ManagerTypeOK
<1>1. ASSUME NEW s \in Sessions
      PROVE  ~SubmitWithdrawal(s)
  <2>1. SUFFICES ASSUME SubmitWithdrawal(s) PROVE FALSE
    OBVIOUS
  <2>2. t # s
    BY <2>1 DEF SubmitWithdrawal, Idle
  <2>3. call[t].pc = "withdraw" /\ call'[t] = [call[t] EXCEPT !.overtaken = TRUE]
    BY <2>1, <2>2 DEF SubmitWithdrawal
  <2>4. call[t] \in Withdrawing
    BY <1>0, <2>3 DEF ManagerTypeOK, Calls, Idle, Deleting
  <2>5. QED
    BY <2>3, <2>4 DEF Withdrawing
<1>2. balance' - MinBalance' >= balance - MinBalance
  BY <1>0, <1>1, TreasuryGrows
<1>3. CASE call'[t] = call[t]
  <2>1. call[t].amount <= balance - MinBalance
    BY <1>3 DEF IInv, AvailableUntilWithdrawn
  <2>2. QED
    BY <1>0, <1>2, <1>3, <2>1 DEF MinBalance
<1>4. ASSUME NEW s \in Sessions, ReadTreasury(s), call'[t] # call[t]
      PROVE  Available(t)
  <2>1. PICK amount \in Amounts \cup {get_treasury_balance} :
          /\ 0 < amount /\ amount <= get_treasury_balance
          /\ call' = [call EXCEPT ![s] = [Idle EXCEPT !.pc = "withdraw", !.amount = amount]]
    BY <1>4 DEF ReadTreasury
  <2>2. call'[t] = [Idle EXCEPT !.pc = "withdraw", !.amount = amount]
    BY <1>0, <1>4, <2>1 DEF ManagerTypeOK
  <2>3. call'[t].amount <= balance - MinBalance
    BY <2>1, <2>2 DEF Idle, get_treasury_balance
  <2>4. QED
    BY <1>0, <1>2, <2>3 DEF MinBalance
<1>5. ASSUME NEW s \in Sessions,
             \/ SubmitDeletion(s) \/ Fails(s)
             \/ \E a \in Auctions : ReadForDeletion(s, a)
      PROVE  call'[t] = call[t]
  <2>1. t # s
    <3>1. CASE SubmitDeletion(s) \/ Fails(s)
      BY <1>0, <3>1 DEF SubmitDeletion, Fails, Idle, ManagerTypeOK
    <3>2. CASE \E a \in Auctions : ReadForDeletion(s, a)
      BY <1>0, <3>2 DEF ReadForDeletion, Idle, ManagerTypeOK
    <3>3. QED
      BY <1>5, <3>1, <3>2
  <2>2. PICK c : call' = [call EXCEPT ![s] = c]
    BY <1>5 DEF SubmitDeletion, Fails, ReadForDeletion
  <2>3. QED
    BY <1>0, <2>1, <2>2 DEF ManagerTypeOK
<1>6. ASSUME \/ FundManager \/ Settled \/ UNCHANGED vars
             \/ \E amount \in Amounts : PayManager(amount)
      PROVE  call' = call
  BY <1>6 DEF FundManager, Settled, vars, PayManager
<1>7. ASSUME NEW a \in Auctions,
             \/ OptIn(a) \/ End(a) \/ CloseOut(a)
             \/ \E amount \in Amounts : PayAuction(a, amount)
             \/ \E receiver \in {"manager", "other"},
                   amount \in Amounts \cup {auction_storage_fees} :
                  CreateAuction(a, receiver, amount)
      PROVE  call' = call
  BY <1>7 DEF OptIn, End, CloseOut, PayAuction, CreateAuction
<1>8. QED
  BY <1>1, <1>3, <1>4, <1>5, <1>6, <1>7 DEF Next

LEMMA NextIInv ==
  ASSUME IInv, [Next]_vars
  PROVE  IInv'
<1>1. ManagerTypeOK /\ Solvent
  BY DEF IInv
<1>2. ManagerTypeOK'
  BY <1>1, TypeStep
<1>3. Solvent'
  <2>1. CASE \A s \in Sessions : ~SubmitWithdrawal(s)
    BY <1>1, <2>1, TreasuryGrows
  <2>2. CASE \E s \in Sessions : SubmitWithdrawal(s)
    BY <1>1, <2>2, WithdrawalIsCovered
  <2>3. QED
    BY <2>1, <2>2
<1>4. AvailableUntilWithdrawn'
  BY AvailableStep
<1>5. QED
  BY <1>2, <1>3, <1>4 DEF IInv

LEMMA SpecIInv == Spec => []IInv
<1>1. Init => IInv
  BY InitIInv
<1>2. IInv /\ [Next]_vars => IInv'
  BY NextIInv
<1>3. QED
  BY <1>1, <1>2, PTL DEF Spec

\* Every variable has its type: in particular no session is about to withdraw
\* nothing, and none submits the deletion of an auction it has not read.
THEOREM ManagerTypes == Spec => []ManagerTypeOK
<1>1. IInv => ManagerTypeOK
  BY DEF IInv
<1>2. QED
  BY <1>1, SpecIInv, PTL

\* What withdraw() has read is still there when it submits, unless another
\* withdrawal has overtaken it: creations, deletions and transfers by anybody in
\* between do not matter.
THEOREM TreasuryStaysAvailable == Spec => []AvailableUntilWithdrawn
<1>1. IInv => AvailableUntilWithdrawn
  BY DEF IInv
<1>2. QED
  BY <1>1, SpecIInv, PTL

-----------------------------------------------------------------------------
(***************************************************************************)
(* The sum of a function with a finite domain, computed by a fold.         *)
(***************************************************************************)
\* What the fold of the community modules picks from a set, and the function that
\* it computes along the subsets of S.
Some(s) == CHOOSE x \in s : TRUE
IsSum(f, S, g) ==
  g = [s \in SUBSET S |-> IF s = {} THEN 0 ELSE f[Some(s)] + g[s \ {Some(s)}]]

\* SumFunction as the recursive function it is defined by.
LEMMA SumIsChosen ==
  ASSUME NEW f
  PROVE  SumFunction(f) = (CHOOSE g : IsSum(f, DOMAIN f, g))[DOMAIN f]
  BY DEF SumFunction, SumFunctionOnSet, FoldFunctionOnSet, MapThenFoldSet, IsSum, Some

\* Theorem WFMin with its conclusion as a leaf can use it.
LEMMA LeastElement ==
  ASSUME NEW R, NEW S, IsWellFoundedOn(R, S), NEW T, T \subseteq S, T # {}
  PROVE  \E x \in T : \A y \in T : ~(<<y, x>> \in R)
  BY WFMin

\* Induction over the subsets of a finite set, for a property given as a set: the
\* theorems of the library take it as an operator, which the provers cannot instantiate.
LEMMA SubsetInduction ==
  ASSUME NEW S, IsFiniteSet(S), NEW Good,
         \A s \in SUBSET S : (\A u \in SUBSET s : u # s => u \in Good) => s \in Good
  PROVE  SUBSET S \subseteq Good
<1> DEFINE Bad == (SUBSET S) \ Good
<1>1. SUFFICES ASSUME Bad # {} PROVE FALSE
  OBVIOUS
<1>2. IsWellFoundedOn(StrictSubsetOrdering(S), SUBSET S)
  BY FS_StrictSubsetOrderingWellFounded, FS_FiniteSubsetsOfFinite
<1>3. PICK s \in Bad : \A u \in Bad : <<u, s>> \notin StrictSubsetOrdering(S)
  <2>1. Bad \subseteq SUBSET S
    OBVIOUS
  <2> HIDE DEF Bad
  <2>2. PICK R : R = StrictSubsetOrdering(S)
    OBVIOUS
  <2>3. PICK P : P = SUBSET S
    OBVIOUS
  <2>4. IsWellFoundedOn(R, P) /\ Bad \subseteq P
    BY <1>2, <2>1, <2>2, <2>3
  <2>5. \E s \in Bad : \A u \in Bad : ~(<<u, s>> \in R)
    BY <1>1, <2>4, LeastElement
  <2> QED
    BY <2>2, <2>5
<1>4. ASSUME NEW u \in SUBSET s, u # s
      PROVE  u \in Good
  <2>1. <<u, s>> \in StrictSubsetOrdering(S) <=> u \subseteq s /\ u # s
    BY <1>4 DEF StrictSubsetOrdering
  <2> QED
    BY <1>3, <1>4, <2>1
<1> QED
  BY <1>3, <1>4

\* The element picked is one of the set.
LEMMA SomeIsIn ==
  ASSUME NEW s, s # {}
  PROVE  Some(s) \in s
  BY DEF Some

\* Two such functions agree where both are defined.
LEMMA SumUnique ==
  ASSUME NEW f, NEW S, IsFiniteSet(S), NEW T, NEW g, NEW h, IsSum(f, S, g), IsSum(f, T, h), S \subseteq T
  PROVE  \A s \in SUBSET S : g[s] = h[s]
<1> DEFINE Good == {s \in SUBSET S : g[s] = h[s]}
<1>1. ASSUME NEW s \in SUBSET S, \A u \in SUBSET s : u # s => u \in Good
      PROVE  s \in Good
  <2>1. CASE s = {}
    BY <2>1 DEF IsSum
  <2>2. CASE s # {}
    <3> DEFINE u == s \ {Some(s)}
    <3>1. u \in SUBSET s /\ u # s
      BY <2>2, SomeIsIn
    <3>2. g[u] = h[u]
      BY <1>1, <3>1
    <3>3. g[s] = f[Some(s)] + g[u]
      BY <2>2 DEF IsSum
    <3>4. h[s] = f[Some(s)] + h[u]
      BY <2>2 DEF IsSum
    <3> QED
      BY <3>2, <3>3, <3>4
  <2> QED
    BY <2>1, <2>2
<1> HIDE DEF Good
<1>2. SUBSET S \subseteq Good
  BY <1>1, SubsetInduction
<1> QED
  BY <1>2 DEF Good

\* There is such a function: the recursion is well defined.
LEMMA SumExists ==
  ASSUME NEW f, NEW S, IsFiniteSet(S)
  PROVE  \E g : IsSum(f, S, g)
<1> DEFINE Good == {s \in SUBSET S : \E g : IsSum(f, s, g)}
<1>1. ASSUME NEW s \in SUBSET S, \A u \in SUBSET s : u # s => u \in Good
      PROVE  s \in Good
  <2> DEFINE sum(t) == CHOOSE g : IsSum(f, t, g)
             G(t) == sum(t)[t]
             g == [t \in SUBSET s |-> IF t = {} THEN 0 ELSE f[Some(t)] + G(t \ {Some(t)})]
  <2>1. ASSUME NEW t \in SUBSET s, t # {}
        PROVE  g[t \ {Some(t)}] = G(t \ {Some(t)})
    <3> DEFINE u == t \ {Some(t)}
    <3>1. u \in SUBSET s /\ u # s /\ IsFiniteSet(u) /\ u \in SUBSET u
      BY <2>1, SomeIsIn, FS_Subset
    <3>2. IsSum(f, u, sum(u))
      BY <1>1, <3>1
    <3>3. CASE u = {}
      <4>1. G(u) = 0
        BY <3>1, <3>2, <3>3 DEF IsSum
      <4> QED
        BY <3>1, <3>3, <4>1
    <3>4. CASE u # {}
      <4> DEFINE v == u \ {Some(u)}
      <4>1. v \in SUBSET u /\ v \in SUBSET s /\ v # s /\ IsFiniteSet(v) /\ v \in SUBSET v
        BY <3>1, <3>4, SomeIsIn, FS_Subset
      <4>2. IsSum(f, v, sum(v))
        BY <1>1, <4>1
      <4>3. sum(v)[v] = sum(u)[v]
        <5> HIDE DEF u, v, sum
        <5> QED
          BY <3>2, <4>1, <4>2, SumUnique
      <4>4. G(u) = f[Some(u)] + sum(u)[v]
        BY <3>1, <3>2, <3>4 DEF IsSum
      <4>5. g[u] = f[Some(u)] + G(v)
        BY <3>1, <3>4
      <4> QED
        BY <4>3, <4>4, <4>5
    <3> QED
      BY <3>3, <3>4
  <2>2. IsSum(f, s, g)
    <3> HIDE DEF G
    <3>1. \A t \in SUBSET s : g[t] = IF t = {} THEN 0 ELSE f[Some(t)] + g[t \ {Some(t)}]
      BY <2>1
    <3>2. g = [t \in SUBSET s |-> g[t]]
      OBVIOUS
    <3> HIDE DEF g
    <3> QED
      BY <3>1, <3>2 DEF IsSum
  <2> QED
    BY <2>2
<1> HIDE DEF Good
<1>2. SUBSET S \subseteq Good
  BY <1>1, SubsetInduction
<1> QED
  BY <1>2 DEF Good

\* SumFunction is its value for the whole domain.
LEMMA SumIsSum ==
  ASSUME NEW S, IsFiniteSet(S), NEW f, DOMAIN f = S
  PROVE  \E g : IsSum(f, S, g) /\ SumFunction(f) = g[S]
<1>1. IsSum(f, S, CHOOSE g : IsSum(f, S, g))
  BY SumExists
<1> QED
  BY <1>1, SumIsChosen

\* A term that changes changes the sum by as much.
LEMMA SumsDiffer ==
  ASSUME NEW S, IsFiniteSet(S), NEW f \in [S -> Int], NEW a \in S, NEW v \in Int,
         NEW e, e[a] = v, \A x \in S \ {a} : e[x] = f[x],
         NEW g, NEW h, IsSum(f, S, g), IsSum(e, S, h)
  PROVE  g[S] \in Int /\ h[S] = g[S] - f[a] + v
<1> DEFINE Good == {s \in SUBSET S : g[s] \in Int /\ h[s] = g[s] + (IF a \in s THEN v - f[a] ELSE 0)}
<1>1. ASSUME NEW s \in SUBSET S, \A u \in SUBSET s : u # s => u \in Good
      PROVE  s \in Good
  <2>1. CASE s = {}
    <3>1. g[s] = 0 /\ h[s] = 0 /\ a \notin s
      BY <2>1 DEF IsSum
    <3> QED
      BY <3>1
  <2>2. CASE s # {}
    <3>0. PICK x : x = Some(s)
      OBVIOUS
    <3>1. x \in s /\ x \in S
      BY <2>2, <3>0, SomeIsIn
    <3> DEFINE u == s \ {x}
    <3>2. u \in SUBSET s /\ u # s
      BY <3>1
    <3>3. g[u] \in Int /\ h[u] = g[u] + (IF a \in u THEN v - f[a] ELSE 0)
      BY <1>1, <3>2
    <3>4. g[s] = f[x] + g[u]
      BY <2>2, <3>0 DEF IsSum
    <3>5. h[s] = e[x] + h[u]
      BY <2>2, <3>0 DEF IsSum
    <3>6. f[x] \in Int /\ f[a] \in Int
      BY <3>1
    <3>7. CASE x = a
      <4>1. a \in s /\ a \notin u /\ e[x] = v /\ f[x] = f[a]
        BY <3>1, <3>7
      <4> HIDE DEF u
      <4> QED
        BY <3>3, <3>4, <3>5, <3>6, <4>1
    <3>8. CASE x # a
      <4>1. (a \in s <=> a \in u) /\ e[x] = f[x]
        BY <3>1, <3>8
      <4> HIDE DEF u
      <4> QED
        BY <3>3, <3>4, <3>5, <3>6, <4>1
    <3> QED
      BY <3>7, <3>8
  <2> QED
    BY <2>1, <2>2
<1> HIDE DEF Good
<1>2. SUBSET S \subseteq Good
  BY <1>1, SubsetInduction
<1>3. g[S] \in Int /\ h[S] = g[S] + (v - f[a]) /\ f[a] \in Int
  BY <1>2 DEF Good
<1> QED
  BY <1>3

\* The same, said of SumFunction.
LEMMA SumOfChange ==
  ASSUME NEW S, IsFiniteSet(S), NEW f \in [S -> Int], NEW a \in S, NEW v \in Int
  PROVE  /\ SumFunction(f) \in Int
         /\ SumFunction([f EXCEPT ![a] = v]) = SumFunction(f) - f[a] + v
<1>1. PICK g : IsSum(f, S, g) /\ SumFunction(f) = g[S]
  BY SumIsSum
<1>0. PICK e : e = [f EXCEPT ![a] = v]
  OBVIOUS
<1>2. PICK h : IsSum(e, S, h) /\ SumFunction(e) = h[S]
  BY <1>0, SumIsSum
<1>3. g[S] \in Int /\ h[S] = g[S] - f[a] + v
  <2>1. e[a] = v /\ \A x \in S \ {a} : e[x] = f[x]
    BY <1>0
  <2> QED
    BY <2>1, <1>1, <1>2, SumsDiffer
<1>4. f[a] \in Int
  OBVIOUS
<1> QED
  BY <1>0, <1>1, <1>2, <1>3, <1>4

\* A sum of zeros is zero.
LEMMA SumOfZeros ==
  ASSUME NEW S, IsFiniteSet(S)
  PROVE  SumFunction([a \in S |-> 0]) = 0
<1> DEFINE f == [a \in S |-> 0]
<1>1. PICK g : IsSum(f, S, g) /\ SumFunction(f) = g[S]
  BY SumIsSum
<1> DEFINE Good == {s \in SUBSET S : g[s] = 0}
<1>2. ASSUME NEW s \in SUBSET S, \A u \in SUBSET s : u # s => u \in Good
      PROVE  s \in Good
  <2>1. CASE s = {}
    BY <1>1, <2>1 DEF IsSum
  <2>2. CASE s # {}
    <3>1. Some(s) \in S /\ s \ {Some(s)} # s /\ s \ {Some(s)} \in SUBSET s
      BY <2>2, SomeIsIn
    <3>2. g[s \ {Some(s)}] = 0
      BY <1>2, <3>1
    <3>3. g[s] = f[Some(s)] + g[s \ {Some(s)}]
      BY <1>1, <2>2 DEF IsSum
    <3> QED
      BY <3>1, <3>2, <3>3
  <2> QED
    BY <2>1, <2>2
<1> HIDE DEF Good
<1>3. SUBSET S \subseteq Good
  BY <1>2, SubsetInduction
<1> QED
  BY <1>1, <1>3 DEF Good

-----------------------------------------------------------------------------
(***************************************************************************)
(* What has come in is in an account or has been withdrawn.                *)
(***************************************************************************)
Algos == [a \in Auctions |-> auction[a].algo]

LEMMA AlgosType ==
  ASSUME ManagerTypeOK
  PROVE  /\ Algos \in [Auctions -> Int] /\ SumFunction(Algos) \in Int
         /\ balance \in Int /\ paidIn \in Int /\ withdrawn \in Int
<1>1. Algos \in [Auctions -> Int]
  BY DEF ManagerTypeOK, Algos
<1>2. SumFunction(Algos) \in Int
  <2>1. CASE Auctions = {}
    <3>1. Algos = [a \in Auctions |-> 0]
      BY <2>1 DEF Algos
    <3>2. QED
      BY <3>1, SumOfZeros, AuctionsAssumption DEF AuctionsAssumption
  <2>2. CASE Auctions # {}
    BY <1>1, <2>2, SumOfChange, AuctionsAssumption DEF AuctionsAssumption
  <2>3. QED
    BY <2>1, <2>2
<1>3. QED
  BY <1>1, <1>2 DEF ManagerTypeOK

\* A payment to an auction, or the closing of its account, changes one term.
LEMMA AuctionsHold ==
  ASSUME ManagerTypeOK, NEW a \in Auctions, NEW v \in Int,
         auction'[a].algo = v, \A b \in Auctions \ {a} : auction'[b].algo = auction[b].algo
  PROVE  SumFunction(Algos') = SumFunction(Algos) - auction[a].algo + v
<1>1. Algos \in [Auctions -> Int] /\ Algos[a] = auction[a].algo
  BY AlgosType DEF Algos
<1>2. Algos' = [Algos EXCEPT ![a] = v]
  BY DEF Algos
<1>3. PICK f \in [Auctions -> Int] : f = Algos
  BY <1>1
<1>4. SumFunction([f EXCEPT ![a] = v]) = SumFunction(f) - f[a] + v
  BY SumOfChange, AuctionsAssumption DEF AuctionsAssumption
<1>5. QED
  BY <1>1, <1>2, <1>3, <1>4

LEMMA StrandedStep ==
  ASSUME ManagerTypeOK, NothingIsStranded, [Next]_vars
  PROVE  NothingIsStranded'
<1>s. PICK total \in Int : total = SumFunction(Algos)
  BY AlgosType
<1>0. /\ balance \in Int /\ paidIn \in Int /\ withdrawn \in Int
      /\ paidIn = withdrawn + balance + total
  BY <1>s, AlgosType DEF NothingIsStranded, Algos
<1>t. paidIn' = withdrawn' + balance' + SumFunction(Algos') => NothingIsStranded'
  BY DEF NothingIsStranded, Algos
<1>1. ASSUME \A a \in Auctions : auction'[a].algo = auction[a].algo,
             paidIn' \in Int, withdrawn' \in Int, balance' \in Int,
             paidIn' - (withdrawn' + balance') = paidIn - (withdrawn + balance)
      PROVE  NothingIsStranded'
  <2>1. Algos' = Algos
    BY <1>1 DEF Algos
  <2>2. SumFunction(Algos') = total
    BY <1>s, <2>1
  <2>3. paidIn' = withdrawn' + balance' + SumFunction(Algos')
    BY <1>0, <1>1, <2>2
  <2>4. QED
    BY <1>t, <2>3
<1>2. paidIn' \in Int /\ withdrawn' \in Int /\ balance' \in Int
  BY TypeStep DEF ManagerTypeOK
<1>3. CASE FundManager
  <2>1. AccountBase \in Int
    BY ManagerAssumption DEF ManagerAssumption
  <2>2. QED
    BY <1>0, <1>1, <1>2, <1>3, <2>1 DEF FundManager
<1>4. CASE Settled \/ UNCHANGED vars
  BY <1>1, <1>2, <1>4 DEF Settled, vars
<1>5. ASSUME NEW a \in Auctions, NEW receiver, NEW amount, CreateAuction(a, receiver, amount)
      PROVE  NothingIsStranded'
  <2>1. \A b \in Auctions : auction'[b].algo = auction[b].algo
    BY <1>5 DEF CreateAuction, ManagerTypeOK
  <2>2. /\ balance' = balance + auction_storage_fees /\ paidIn' = paidIn + auction_storage_fees
        /\ withdrawn' = withdrawn /\ auction_storage_fees \in Int
    BY <1>5, FeeIsTheStorage DEF CreateAuction, PaysTheFee
  <2>3. QED
    BY <1>0, <1>1, <1>2, <2>1, <2>2
<1>6. ASSUME NEW a \in Auctions, OptIn(a) \/ End(a) \/ CloseOut(a)
      PROVE  NothingIsStranded'
  <2>1. \A b \in Auctions : auction'[b].algo = auction[b].algo
    BY <1>6 DEF OptIn, End, CloseOut, ManagerTypeOK
  <2>2. UNCHANGED <<balance, paidIn, withdrawn>>
    BY <1>6 DEF OptIn, End, CloseOut
  <2>3. QED
    BY <1>1, <1>2, <2>1, <2>2
<1>7. ASSUME NEW a \in Auctions, NEW amount \in Amounts, PayAuction(a, amount)
      PROVE  NothingIsStranded'
  <2>1. amount \in Int /\ auction[a].algo \in Int
    BY ManagerAssumption DEF ManagerAssumption, ManagerTypeOK
  <2>2. /\ auction'[a].algo = auction[a].algo + amount
        /\ \A b \in Auctions \ {a} : auction'[b].algo = auction[b].algo
    BY <1>7 DEF PayAuction, ManagerTypeOK
  <2>3. SumFunction(Algos') = total - auction[a].algo + (auction[a].algo + amount)
    BY <1>s, <2>1, <2>2, AuctionsHold
  <2>4. balance' = balance /\ withdrawn' = withdrawn /\ paidIn' = paidIn + amount
    BY <1>7 DEF PayAuction
  <2>5. paidIn' = withdrawn' + balance' + SumFunction(Algos')
    BY <1>0, <2>1, <2>3, <2>4
  <2>6. QED
    BY <1>t, <2>5
<1>8. ASSUME NEW amount \in Amounts, PayManager(amount)
      PROVE  NothingIsStranded'
  <2>1. amount \in Int
    BY ManagerAssumption DEF ManagerAssumption
  <2>2. QED
    BY <1>0, <1>1, <1>2, <1>8, <2>1 DEF PayManager
<1>9. ASSUME NEW s \in Sessions, SubmitWithdrawal(s)
      PROVE  NothingIsStranded'
  <2>1. call[s].amount \in Int
    BY CallTypes DEF ManagerTypeOK
  <2>2. /\ balance' = balance - call[s].amount /\ withdrawn' = withdrawn + call[s].amount
        /\ paidIn' = paidIn /\ auction' = auction
    BY <1>9 DEF SubmitWithdrawal, WithdrawAlgo
  <2>3. QED
    BY <1>0, <1>1, <1>2, <2>1, <2>2
<1>10. ASSUME NEW s \in Sessions, SubmitDeletion(s)
       PROVE  NothingIsStranded'
  <2>1. PICK a \in Auctions : a = call[s].of
    BY <1>10, CallTypes DEF SubmitDeletion, ManagerTypeOK
  <2>2. auction[a].algo \in Int
    BY DEF ManagerTypeOK
  <2>3. /\ auction'[a].algo = 0
        /\ \A b \in Auctions \ {a} : auction'[b].algo = auction[b].algo
    BY <1>10, <2>1 DEF SubmitDeletion, DeleteFinalizedAuction, ManagerTypeOK
  <2>4. SumFunction(Algos') = total - auction[a].algo + 0
    BY <1>s, <2>3, AuctionsHold
  <2>5. balance' = balance + auction[a].algo /\ withdrawn' = withdrawn /\ paidIn' = paidIn
    BY <1>10, <2>1 DEF SubmitDeletion, DeleteFinalizedAuction, BalanceAfterDeletion
  <2>6. paidIn' = withdrawn' + balance' + SumFunction(Algos')
    BY <1>0, <2>2, <2>4, <2>5
  <2>7. QED
    BY <1>t, <2>6
<1>11. ASSUME NEW s \in Sessions,
              ReadTreasury(s) \/ Fails(s) \/ \E a \in Auctions : ReadForDeletion(s, a)
       PROVE  NothingIsStranded'
  BY <1>1, <1>2, <1>11 DEF ReadTreasury, Fails, ReadForDeletion
<1>12. QED
  BY <1>3, <1>4, <1>5, <1>6, <1>7, <1>8, <1>9, <1>10, <1>11 DEF Next

\* All the ALGO that was ever paid in is in the manager's account, in an
\* auction's, or has been withdrawn by the creator: whatever the number of
\* auctions and the order of their deletions, none is stranded and none is made.
THEOREM NoAlgoIsStranded == Spec => []NothingIsStranded
<1>1. Init => NothingIsStranded
  <2>1. Init => SumFunction([a \in Auctions |-> auction[a].algo]) = 0
    <3>1. ASSUME Init PROVE [a \in Auctions |-> auction[a].algo] = [a \in Auctions |-> 0]
      BY <3>1 DEF Init
    <3>2. QED
      BY <3>1, SumOfZeros, AuctionsAssumption DEF AuctionsAssumption
  <2>2. QED
    BY <2>1 DEF Init, NothingIsStranded
<1>2. IInv /\ NothingIsStranded /\ [Next]_vars => NothingIsStranded'
  BY StrandedStep DEF IInv
<1>3. QED
  BY <1>1, <1>2, SpecIInv, PTL DEF Spec

-----------------------------------------------------------------------------
(***************************************************************************)
(* The manager implements Treasury.                                        *)
(***************************************************************************)
Gone == {a \in Auctions : auction[a].phase = "deleted"}

LEMMA TreasuryStep ==
  ASSUME IInv, [Next]_vars
  PROVE  [Earned!Next]_(Earned!vars)
<1> DEFINE Stutter == UNCHANGED <<Surplus, Gone, withdrawn>>
<1>0. /\ ManagerTypeOK /\ Solvent
      /\ balance \in Int /\ balance' \in Int
      /\ MinBalanceWith(Live) \in Nat /\ MinBalanceWith(Live') \in Nat
      /\ auction_storage_fees \in Nat /\ withdrawn \in Int
      /\ Surplus = IF balance = 0 THEN 0 ELSE balance - MinBalanceWith(Live)
      /\ Surplus' = IF balance' = 0 THEN 0 ELSE balance' - MinBalanceWith(Live')
  <2>1. MinBalanceWith(Live) \in Nat /\ MinBalanceWith(Live') \in Nat
    BY MinBalanceType DEF Live
  <2>2. QED
    BY <2>1, TypeStep, FeeIsTheStorage DEF IInv, ManagerTypeOK, Surplus, MinBalance
<1>1. ASSUME NEW s \in Sessions, SubmitWithdrawal(s)
      PROVE  Earned!Withdraw
  <2>1. /\ balance' = balance - call[s].amount /\ withdrawn' = withdrawn + call[s].amount
        /\ MinBalance' = MinBalance /\ balance' >= MinBalance
    BY <1>0, <1>1, WithdrawalIsCovered
  <2>2. call[s].amount \in Nat \ {0}
    BY <1>0, <1>1, CallTypes DEF SubmitWithdrawal, ManagerTypeOK
  <2>3. MinBalanceWith(Live) > 0
    BY MinBalanceType, ManagerAssumption DEF ManagerAssumption, Live
  <2>4. Surplus' < Surplus /\ Surplus' >= 0 /\ Surplus - Surplus' = call[s].amount
    BY <1>0, <2>1, <2>2, <2>3 DEF MinBalance
  <2>5. Gone' = Gone
    BY <1>1 DEF SubmitWithdrawal, WithdrawAlgo, Gone
  <2>6. QED
    BY <2>1, <2>4, <2>5 DEF Earned!Withdraw, Gone
<1>2. ASSUME NEW s \in Sessions, SubmitDeletion(s)
      PROVE  Earned!Collect
  <2> DEFINE a == call[s].of
  <2>1. a \in Auctions /\ DeleteFinalizedAuction(a)
    BY <1>0, <1>2, CallTypes DEF SubmitDeletion, ManagerTypeOK
  <2>2. a \in Auctions \ Gone /\ Gone' = Gone \cup {a} /\ withdrawn' = withdrawn
    BY <1>0, <2>1 DEF DeleteFinalizedAuction, Gone, ManagerTypeOK
  <2>3. /\ balance' - MinBalance' >= (balance - MinBalance) + auction_storage_fees
        /\ balance # 0 /\ balance' > 0
    BY <1>0, <2>1, DeletionEarns
  <2>4. Surplus' >= Surplus + auction_storage_fees
    BY <1>0, <2>3 DEF MinBalance
  <2>5. QED
    BY <2>2, <2>4 DEF Earned!Collect, Gone
<1>3. ASSUME NEW a \in Auctions, NEW receiver, NEW amount, CreateAuction(a, receiver, amount)
      PROVE  Stutter
  <2>1. balance' - MinBalance' = balance - MinBalance /\ balance # 0 /\ balance' > 0
    BY <1>0, <1>3, CreationIsNeutral
  <2>2. Surplus' = Surplus
    BY <1>0, <2>1 DEF MinBalance
  <2>3. Gone' = Gone /\ withdrawn' = withdrawn
    BY <1>0, <1>3 DEF CreateAuction, Gone, ManagerTypeOK
  <2>4. QED
    BY <2>2, <2>3
<1>4. ASSUME NEW a \in Auctions,
             \/ OptIn(a) \/ End(a) \/ CloseOut(a)
             \/ \E amount \in Amounts : PayAuction(a, amount)
      PROVE  Stutter
  <2>1. balance' = balance /\ withdrawn' = withdrawn
    BY <1>4 DEF OptIn, End, CloseOut, PayAuction
  <2>2. Live' = Live /\ Gone' = Gone
    BY <1>0, <1>4, SameApplications DEF Gone
  <2>3. QED
    BY <1>0, <2>1, <2>2
<1>5. ASSUME FundManager \/ \E amount \in Amounts : PayManager(amount)
      PROVE  Earned!Receive \/ Stutter
  <2>1. auction' = auction /\ withdrawn' = withdrawn
    BY <1>5 DEF FundManager, PayManager
  <2>2. Live' = Live /\ Gone' = Gone
    BY <2>1 DEF Live, Gone
  <2>3. PICK n \in Nat \ {0} : balance' = balance + n
    BY <1>5, ManagerAssumption DEF FundManager, PayManager, ManagerAssumption
  <2>4. balance' - MinBalance' >= balance - MinBalance /\ Solvent'
    <3>1. \A s \in Sessions : ~SubmitWithdrawal(s)
      <4>1. SUFFICES ASSUME NEW s \in Sessions, SubmitWithdrawal(s) PROVE FALSE
        OBVIOUS
      <4>2. call[s].amount \in Nat \ {0}
        BY <1>0, <4>1, CallTypes DEF SubmitWithdrawal, ManagerTypeOK
      <4>3. balance' = balance - call[s].amount
        BY <4>1 DEF SubmitWithdrawal, WithdrawAlgo
      <4>4. QED
        BY <1>0, <2>3, <4>2, <4>3
    <3>2. QED
      BY <1>0, <3>1, TreasuryGrows
  <2>5. balance # 0 => balance >= MinBalanceWith(Live)
    BY <1>0 DEF Solvent, MinBalance
  <2>6. balance' # 0 => balance' >= MinBalanceWith(Live')
    BY <2>4 DEF Solvent, MinBalance
  <2>7. Surplus' >= Surplus
    BY <1>0, <2>2, <2>3, <2>5, <2>6
  <2>8. Surplus \in Int /\ Surplus' \in Int
    BY <1>0
  <2>9. CASE Surplus' = Surplus
    BY <2>1, <2>2, <2>9
  <2>10. CASE Surplus' > Surplus
    BY <2>1, <2>2, <2>10 DEF Earned!Receive, Gone
  <2>11. QED
    BY <2>7, <2>8, <2>9, <2>10
<1>6. ASSUME \/ Settled \/ UNCHANGED vars
             \/ \E s \in Sessions :
                  ReadTreasury(s) \/ Fails(s) \/ \E a \in Auctions : ReadForDeletion(s, a)
      PROVE  Stutter
  <2>1. UNCHANGED <<balance, auction, withdrawn>>
    BY <1>6 DEF Settled, vars, ReadTreasury, Fails, ReadForDeletion
  <2>2. QED
    BY <2>1 DEF Surplus, MinBalance, Live, Gone
<1>7. \/ Stutter \/ Earned!Receive \/ Earned!Collect \/ Earned!Withdraw
  BY <1>1, <1>2, <1>3, <1>4, <1>5, <1>6 DEF Next
<1>8. QED
  BY <1>7 DEF Earned!Next, Earned!vars, Gone

\* Seen from the creator, the manager is a treasury: creating an auction costs
\* nothing, deleting one brings in its fee, and only withdrawals take ALGO out.
THEOREM ManagerIsTreasury == Spec => ImplementsTreasury
<1>1. Init => Earned!Init
  BY DEF Init, Earned!Init, Surplus
<1>2. IInv /\ [Next]_vars => [Earned!Next]_(Earned!vars)
  BY TreasuryStep
<1>3. QED
  BY <1>1, <1>2, SpecIInv, PTL DEF Spec, ImplementsTreasury, Earned!Spec
=============================================================================
