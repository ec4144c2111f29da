--------------------------- MODULE MCWalletSession ---------------------------
(***************************************************************************)
(* Small instances of WalletSession for TLC.                               *)
(***************************************************************************)
EXTENDS WalletSession, TLC

CONSTANTS first    \* the wallet there is at first, whose two keys form the multisig

MCFirstName == [w \in Wallets |-> IF w = first THEN CHOOSE n \in Names : TRUE ELSE NoName]
MCFirstKeys == [w \in Wallets |-> IF w = first THEN MaxKeys ELSE 0]
MCMultisigs == {{<<first, 1>>, <<first, 2>>}}
UserSymmetry == Permutations(Users)
=============================================================================
