SPECIFICATION Spec
CONSTANTS
  Service = Service
  Creator = alice
  Users = {alice, bob}
  Apps = {a1}
  AccountApps = {w1, w2}
  Names = {n1}
  Signers = {s1}
  Keys = {k1, k2}
  WalletKeys = {wk}
  None = None
  MaxChanges = 2
INVARIANTS
  ConnectedIsOptedIn
  
  
