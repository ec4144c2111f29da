------------------------------ MODULE Treasury ------------------------------
(***************************************************************************)
(* What an AuctionManager promises its creator: revenue of one storage fee *)
(* for every auction, collected when the auction is deleted, and a         *)
(* treasury that nothing but the creator's withdrawals makes smaller.      *)
(* There are no accounts and no minimum balances here.                     *)
(***************************************************************************)
EXTENDS Integers

CONSTANTS Auctions, StorageFee

VARIABLES
  surplus,    \* what the creator may withdraw
  collected,  \* the auctions whose fee has been collected
  paidOut     \* what the creator has withdrawn

vars == <<surplus, collected, paidOut>>

Init == surplus = 0 /\ collected = {} /\ paidOut = 0

\* The fee, and whatever ALGO the auction still held.
Collect ==
  \E a \in Auctions \ collected :
    /\ collected' = collected \cup {a}
    /\ surplus' >= surplus + StorageFee
    /\ UNCHANGED paidOut

Receive == surplus' > surplus /\ UNCHANGED <<collected, paidOut>>

Withdraw ==
  /\ surplus' < surplus /\ surplus' >= 0
  /\ paidOut' = paidOut + (surplus - surplus')
  /\ UNCHANGED collected

Next == Collect \/ Receive \/ Withdraw

Spec == Init /\ [][Next]_vars
=============================================================================
