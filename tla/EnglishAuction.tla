--------------------------- MODULE EnglishAuction ---------------------------
(***************************************************************************)
(* What an auction of this system promises, without accounts, balances or  *)
(* clocks: a seller sets it up, it is open to ever higher bids, it ends    *)
(* sold or not sold once and for all, and the assets are then handed over  *)
(* one by one until none is left.                                          *)
(***************************************************************************)
EXTENDS Naturals, FiniteSets

CONSTANTS Accounts, Assets, NoAsset, NoAccount

VARIABLES
  phase,     \* "setup", "open", "sold", "unsold" or "done"
  leader,    \* the highest bidder
  price,     \* the highest bid, 0 when there is none
  currency,  \* the asset bids are paid in
  lots       \* the assets in the auction's custody

saleVars == <<phase, leader, price, currency, lots>>

Init ==
  /\ phase = "setup"
  /\ leader = NoAccount
  /\ price = 0
  /\ currency = NoAsset
  /\ lots = {}

\* One asset at a time enters or leaves while the seller sets the sale up.
Arrange ==
  /\ phase = "setup"
  /\ phase' = "setup"
  /\ \E x \in Assets : lots' \in {lots, lots \cup {x}, lots \ {x}}
  /\ currency' \in Assets \cup {NoAsset}
  /\ currency' # NoAsset => currency' \in lots'
  /\ UNCHANGED <<leader, price>>

Open ==
  /\ phase = "setup"
  /\ currency \in lots
  /\ lots # {currency}
  /\ phase' = "open"
  /\ UNCHANGED <<leader, price, currency, lots>>

CallOff ==
  /\ phase = "setup"
  /\ phase' = IF lots = {} THEN "done" ELSE "unsold"
  /\ UNCHANGED <<leader, price, currency, lots>>

Raise(bidder, bid) ==
  /\ phase = "open"
  /\ bid > price
  /\ leader' = bidder
  /\ price' = bid
  /\ UNCHANGED <<phase, currency, lots>>

\* Bidding time is over, or the seller takes the highest bid.
Close ==
  /\ phase = "open"
  /\ phase' = IF price > 0 THEN "sold" ELSE "unsold"
  /\ UNCHANGED <<leader, price, currency, lots>>

HandOver(x) ==
  /\ phase \in {"sold", "unsold"}
  /\ x \in lots
  /\ lots' = lots \ {x}
  /\ phase' = IF lots' = {} THEN "done" ELSE phase
  /\ UNCHANGED <<leader, price, currency>>

Next ==
  \/ Arrange \/ Open \/ CallOff \/ Close
  \/ \E bidder \in Accounts : Raise(bidder, price')
  \/ \E x \in lots : HandOver(x)

Spec == Init /\ [][Next]_saleVars

=============================================================================
