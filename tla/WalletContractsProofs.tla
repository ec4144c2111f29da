------------------------ MODULE WalletContractsProofs ------------------------
(***************************************************************************)
(* For any number of users, apps, names, keys and changes: a connection    *)
(* never outlives the opt-in, all permissions come from the global admin,  *)
(* and an account has one contract at most.                                *)
(***************************************************************************)
EXTENDS WalletConnectContracts, TLAPS

AllBits == {"Admin", "CreateApp", "CreateAccount", "RegisterKeys"}
Queries == [pc : {"idle", "first", "second", "answered"}, question : Questions,
            user : Users, app : Apps, read : AccountApps \cup {None},
            answer : Answers, truths : SUBSET Answers]

ContractTypes ==
  /\ creator \in [Apps -> {Service, None} \cup Users] /\ admin \in [Apps -> Users \cup {None}]
  /\ boxes \in [Names \cup Users -> Apps \cup AccountApps \cup {None}]
  /\ owner \in [AccountApps -> Users \cup {None}]
  /\ optedIn \in [Contracts -> SUBSET Holders]
  /\ appKeys \in [Apps -> [Signers -> Keys \cup {None}]]
  /\ conns \in [AccountApps -> [Apps -> WalletKeys \cup {None}]]
  /\ changes \in 0 .. MaxChanges /\ appointed \subseteq Contracts

PermissionTypes ==
  /\ perms \in [Contracts -> [Holders -> SUBSET AllBits]]
  /\ \A c \in Contracts, h \in Holders :
       perms[c][h] \subseteq Bits[c] /\ (h \notin optedIn[c] => perms[c][h] = {})

\* Account contracts opt in to apps of the service alone.
OnlyOfTheService ==
  \A a \in Apps : \A w \in AccountApps : w \in optedIn[a] => creator[a] = Service

CInv ==
  /\ ContractTypes /\ PermissionTypes /\ OnlyOfTheService /\ ConnectedIsOptedIn
  /\ AllComesFromTheAdmin /\ OneContractPerAccount

Inv == CInv /\ query \in Queries

LEMMA Types == Inv => WalletTypeOK
  BY DEF Inv, CInv, ContractTypes, PermissionTypes, WalletTypeOK, AllBits, Queries

LEMMA Constants ==
  /\ Service \in Contracts /\ Apps \subseteq Contracts /\ Users \subseteq Holders
  /\ AccountApps \subseteq Holders /\ None # Service /\ None \notin Users \cup Apps \cup AccountApps
  /\ Names \cap Users = {} /\ Users \cap AccountApps = {} /\ Service \notin Apps \cup Users
  BY WalletAssumption DEF WalletAssumption, Contracts, Holders

LEMMA BitsAreBits == \A c \in Contracts : Bits[c] \subseteq AllBits /\ "Admin" \in Bits[c]
  BY DEF Bits, AllBits

-----------------------------------------------------------------------------
(***************************************************************************)
(* Permissions.                                                            *)
(***************************************************************************)

WithPermissions(c, h, p) == [perms EXCEPT ![c][h] = p]

\* One holder's permissions in one contract change.
LEMMA OnePermission ==
  ASSUME CInv, NEW c \in Contracts, NEW h \in Holders, NEW p,
         p \subseteq Bits[c]
  PROVE  /\ WithPermissions(c, h, p) \in [Contracts -> [Holders -> SUBSET AllBits]]
         /\ \A d \in Contracts, k \in Holders :
              WithPermissions(c, h, p)[d][k] = IF d = c /\ k = h THEN p ELSE perms[d][k]
<1> DEFINE W == WithPermissions(c, h, p)
<1>1. perms \in [Contracts -> [Holders -> SUBSET AllBits]]
  BY DEF CInv, PermissionTypes
<1>2. p \in SUBSET AllBits
  BY BitsAreBits
<1>3. [perms[c] EXCEPT ![h] = p] \in [Holders -> SUBSET AllBits]
  BY <1>1, <1>2
<1>4. W = [perms EXCEPT ![c] = [perms[c] EXCEPT ![h] = p]]
  BY <1>1 DEF WithPermissions
<1> HIDE DEF W
<1>5. W \in [Contracts -> [Holders -> SUBSET AllBits]]
  BY <1>1, <1>3, <1>4
<1>6. ASSUME NEW d \in Contracts, NEW k \in Holders
      PROVE  W[d][k] = IF d = c /\ k = h THEN p ELSE perms[d][k]
  <2>1. perms[c] \in [Holders -> SUBSET AllBits]
    BY <1>1
  <2>2. CASE d = c
    <3>1. W[d] = [perms[c] EXCEPT ![h] = p]
      BY <1>1, <1>4, <2>2
    <3> QED BY <2>1, <2>2, <3>1
  <2>3. CASE d # c
    BY <1>1, <1>4, <2>3
  <2> QED BY <2>2, <2>3
<1> QED BY <1>5, <1>6 DEF W

\* Permissions are found only in a contract whose global admin has opted in.
LEMMA PermissionIsAppointed ==
  ASSUME CInv, NEW c \in Contracts, NEW h \in Users, NEW bits, bits # {}, Contains(c, h, bits)
  PROVE  c \in appointed
  BY Constants DEF CInv, AllComesFromTheAdmin, Contains

\* Permissions change in a contract that is appointed; all else stays.
LEMMA GrantsKeep ==
  ASSUME CInv, NEW c \in Contracts, NEW h \in Holders, NEW p, p \subseteq Bits[c],
         perms' = WithPermissions(c, h, p), h \in optedIn[c], c \in appointed,
         changes' \in 0 .. MaxChanges,
         UNCHANGED <<creator, admin, boxes, owner, optedIn, appKeys, conns, appointed>>
  PROVE  CInv'
<1>1. ContractTypes' /\ OnlyOfTheService' /\ ConnectedIsOptedIn' /\ OneContractPerAccount'
  BY DEF CInv, ContractTypes, OnlyOfTheService, ConnectedIsOptedIn, OneContractPerAccount, Registered
<1>2. PermissionTypes'
  BY OnePermission DEF CInv, PermissionTypes
<1>3. AllComesFromTheAdmin'
  BY OnePermission DEF CInv, AllComesFromTheAdmin, Registered
<1> QED BY <1>1, <1>2, <1>3 DEF CInv

LEMMA ChangesCount ==
  ASSUME CInv, changes < MaxChanges, changes' = changes + 1
  PROVE  changes' \in 0 .. MaxChanges
  BY WalletAssumption DEF CInv, ContractTypes, WalletAssumption

LEMMA PermissionsKeep ==
  ASSUME CInv, NEW c \in Contracts, NEW sender \in Users, NEW h \in Users, NEW bits \in SUBSET Bits[c],
         GrantPermissions(c, sender, h, bits) \/ RevokePermissions(c, sender, h, bits)
  PROVE  CInv'
<1>1. c \in appointed
  BY PermissionIsAppointed DEF GrantPermissions, RevokePermissions, IsAdmin
<1>2. h \in Holders /\ perms[c][h] \subseteq Bits[c]
  BY Constants DEF CInv, PermissionTypes
<1>3. CASE GrantPermissions(c, sender, h, bits)
  <2>1. perms' = WithPermissions(c, h, perms[c][h] \cup bits)
    BY <1>2, <1>3 DEF GrantPermissions, CInv, PermissionTypes, WithPermissions
  <2>2. perms[c][h] \cup bits \subseteq Bits[c]
    BY <1>2
  <2> QED BY <1>1, <1>2, <1>3, <2>1, <2>2, GrantsKeep, ChangesCount DEF GrantPermissions
<1>4. CASE RevokePermissions(c, sender, h, bits)
  <2>1. perms' = WithPermissions(c, h, perms[c][h] \ bits)
    BY <1>2, <1>4 DEF RevokePermissions, CInv, PermissionTypes, WithPermissions
  <2>2. perms[c][h] \ bits \subseteq Bits[c]
    BY <1>2
  <2> QED BY <1>1, <1>2, <1>4, <2>1, <2>2, GrantsKeep, ChangesCount DEF RevokePermissions
<1> QED BY <1>3, <1>4

\* A holder opts in; an account contract does only to an app of the service.
LEMMA OptsInKeeps ==
  ASSUME CInv, NEW c \in Contracts, NEW h \in Holders, OptsIn(c, h),
         h \in AccountApps => c = Service \/ creator[c] = Service,
         UNCHANGED <<creator, admin, boxes, owner, appKeys, conns, changes>>
  PROVE  CInv'
<1> DEFINE p == IF h = GlobalAdmin(c) THEN {"Admin"} ELSE {}
<1>1. p \subseteq Bits[c] /\ perms' = WithPermissions(c, h, p)
  BY BitsAreBits DEF OptsIn, WithPermissions
<1>2. optedIn \in [Contracts -> SUBSET Holders] /\ optedIn' = [optedIn EXCEPT ![c] = @ \cup {h}]
  BY DEF OptsIn, CInv, ContractTypes
<1>3. appointed' = IF h = GlobalAdmin(c) THEN appointed \cup {c} ELSE appointed
  BY DEF OptsIn
<1>4. optedIn' \in [Contracts -> SUBSET Holders] /\ \A d \in Contracts :
        optedIn'[d] = IF d = c THEN optedIn[d] \cup {h} ELSE optedIn[d]
  BY <1>2
<1>5. \A d \in Contracts, k \in Holders :
        perms'[d][k] = IF d = c /\ k = h THEN p ELSE perms[d][k]
  BY <1>1, OnePermission
<1>6. perms' \in [Contracts -> [Holders -> SUBSET AllBits]]
  BY <1>1, OnePermission
<1>7. p = {} \/ c \in appointed'
  BY <1>3
<1>8. appointed \subseteq appointed' /\ appointed' \subseteq Contracts
  BY <1>3 DEF CInv, ContractTypes
<1> HIDE DEF p
<1>9. ContractTypes'
  BY <1>4, <1>8 DEF CInv, ContractTypes
<1>10. PermissionTypes'
  BY <1>1, <1>4, <1>5, <1>6 DEF CInv, PermissionTypes
<1>11. OnlyOfTheService'
  BY <1>4, Constants DEF CInv, OnlyOfTheService
<1>12. ConnectedIsOptedIn' /\ OneContractPerAccount'
  BY <1>4, Constants DEF CInv, ConnectedIsOptedIn, OneContractPerAccount, Registered
<1>13. AllComesFromTheAdmin'
  BY <1>5, <1>7, <1>8 DEF CInv, AllComesFromTheAdmin, Registered
<1> QED BY <1>9, <1>10, <1>11, <1>12, <1>13 DEF CInv

\* A holder leaves; an account contract loses its connection.
LEMMA OptsOutKeeps ==
  ASSUME CInv, NEW c \in Contracts, NEW h \in Holders, OptsOut(c, h),
         UNCHANGED <<creator, admin, boxes, owner, appKeys, appointed>>,
         changes' \in 0 .. MaxChanges,
         conns' \in [AccountApps -> [Apps -> WalletKeys \cup {None}]],
         \A w \in AccountApps, a \in Apps :
           conns'[w][a] # None => conns[w][a] # None /\ ~(w = h /\ a = c)
  PROVE  CInv'
<1>1. perms' = WithPermissions(c, h, {})
  BY DEF OptsOut, WithPermissions
<1>2. optedIn' \in [Contracts -> SUBSET Holders] /\ \A d \in Contracts :
        optedIn'[d] = IF d = c THEN optedIn[d] \ {h} ELSE optedIn[d]
  BY DEF OptsOut, CInv, ContractTypes
<1>3. \A d \in Contracts, k \in Holders :
        perms'[d][k] = IF d = c /\ k = h THEN {} ELSE perms[d][k]
  BY <1>1, OnePermission
<1>4. perms' \in [Contracts -> [Holders -> SUBSET AllBits]]
  BY <1>1, OnePermission
<1>5. ContractTypes'
  BY <1>2 DEF CInv, ContractTypes
<1>6. PermissionTypes'
  BY <1>2, <1>3, <1>4 DEF CInv, PermissionTypes
<1>7. OnlyOfTheService' /\ OneContractPerAccount'
  BY <1>2, Constants DEF CInv, OnlyOfTheService, OneContractPerAccount, Registered
<1>8. ConnectedIsOptedIn'
  BY <1>2, Constants DEF CInv, ConnectedIsOptedIn
<1>9. AllComesFromTheAdmin'
  BY <1>3 DEF CInv, AllComesFromTheAdmin, Registered
<1> QED BY <1>5, <1>6, <1>7, <1>8, <1>9 DEF CInv

LEMMA OptinKeeps ==
  ASSUME CInv, NEW c \in Contracts, NEW u \in Users, Optin(c, u) PROVE CInv'
  BY OptsInKeeps, Constants DEF Optin

LEMMA LeaveKeeps ==
  ASSUME CInv, NEW c \in Contracts, NEW u \in Users, Leave(c, u) PROVE CInv'
<1>1. \A w \in AccountApps, a \in Apps :
        conns'[w][a] # None => conns[w][a] # None /\ ~(w = u /\ a = c)
  BY Constants DEF Leave
<1>2. conns' \in [AccountApps -> [Apps -> WalletKeys \cup {None}]]
  BY DEF Leave, CInv, ContractTypes
<1> QED BY <1>1, <1>2, OptsOutKeeps, ChangesCount, Constants DEF Leave

-----------------------------------------------------------------------------
(***************************************************************************)
(* Registration.                                                           *)
(***************************************************************************)
LEMMA CreateAppKeeps ==
  ASSUME CInv, NEW sender \in Users, NEW a \in Apps, NEW name \in Names, NEW u \in Users,
         CreateApp(sender, a, name, u)
  PROVE  CInv'
<1>1. /\ boxes[name] = None /\ creator[a] = None
      /\ creator' = [creator EXCEPT ![a] = Service] /\ admin' = [admin EXCEPT ![a] = u]
      /\ boxes' = [boxes EXCEPT ![name] = a]
      /\ UNCHANGED <<owner, optedIn, perms, appKeys, conns, changes, appointed>>
  BY DEF CreateApp
<1>2. Service \in appointed
  BY PermissionIsAppointed, Constants DEF CreateApp
<1>3. ContractTypes'
  BY <1>1, Constants DEF CInv, ContractTypes
<1>4. \A b \in Apps : creator'[b] = IF b = a THEN Service ELSE creator[b]
  BY <1>1 DEF CInv, ContractTypes
<1>5. \A n \in Names \cup Users : boxes'[n] = IF n = name THEN a ELSE boxes[n]
  BY <1>1 DEF CInv, ContractTypes
<1>6. PermissionTypes'
  BY <1>1 DEF CInv, PermissionTypes
<1>7. OnlyOfTheService'
  BY <1>1, <1>4 DEF CInv, OnlyOfTheService
<1>8. ConnectedIsOptedIn'
  BY <1>1, <1>4 DEF CInv, ConnectedIsOptedIn
<1>9. AllComesFromTheAdmin'
  BY <1>1, <1>2, <1>4 DEF CInv, AllComesFromTheAdmin, Registered
<1>10. OneContractPerAccount'
  <2>1. \A n \in Names : boxes[n] # None => boxes[n] # a
    BY <1>1, Constants DEF CInv, OneContractPerAccount, Registered
  <2>2. \A v \in Users : boxes'[v] = boxes[v]
    BY <1>5, Constants
  <2>3. \A w \in AccountApps : owner[w] \in Users \cup {None}
    BY DEF CInv, ContractTypes
  <2>4. \A w \in AccountApps : owner'[w] # None => boxes'[owner'[w]] = w
    BY <1>1, <2>2, <2>3 DEF CInv, OneContractPerAccount
  <2>5. \A v \in Users : boxes'[v] # None => boxes'[v] \in AccountApps /\ owner'[boxes'[v]] = v
    BY <1>1, <2>2 DEF CInv, OneContractPerAccount
  <2>6. \A n \in Names : boxes'[n] # None => boxes'[n] \in Apps /\ creator'[boxes'[n]] = Service
    BY <1>4, <1>5 DEF CInv, OneContractPerAccount, Registered
  <2>7. \A m, n \in Names : boxes'[m] = boxes'[n] => m = n \/ boxes'[m] = None
    BY <1>5, <2>1, Constants DEF CInv, OneContractPerAccount
  <2> QED BY <2>4, <2>5, <2>6, <2>7 DEF OneContractPerAccount, Registered
<1> QED BY <1>3, <1>6, <1>7, <1>8, <1>9, <1>10 DEF CInv

LEMMA CreateForeignAppKeeps ==
  ASSUME CInv, NEW sender \in Users, NEW a \in Apps, NEW u \in Users, CreateForeignApp(sender, a, u)
  PROVE  CInv'
<1>1. /\ creator[a] = None
      /\ creator' = [creator EXCEPT ![a] = sender] /\ admin' = [admin EXCEPT ![a] = u]
      /\ UNCHANGED <<boxes, owner, optedIn, perms, appKeys, conns, changes, appointed>>
  BY DEF CreateForeignApp
<1>2. ContractTypes'
  BY <1>1 DEF CInv, ContractTypes
<1>3. \A b \in Apps : creator'[b] = Service <=> creator[b] = Service
  BY <1>1, Constants DEF CInv, ContractTypes
<1>4. PermissionTypes'
  BY <1>1 DEF CInv, PermissionTypes
<1>5. OnlyOfTheService' /\ ConnectedIsOptedIn'
  BY <1>1, <1>3 DEF CInv, OnlyOfTheService, ConnectedIsOptedIn
<1>6. AllComesFromTheAdmin'
  BY <1>1, <1>3 DEF CInv, AllComesFromTheAdmin, Registered
<1>7. OneContractPerAccount'
  BY <1>1, <1>3 DEF CInv, OneContractPerAccount, Registered
<1> QED BY <1>2, <1>4, <1>5, <1>6, <1>7 DEF CInv

LEMMA CreateAccountKeeps ==
  ASSUME CInv, NEW sender \in Users, NEW w \in AccountApps, NEW u \in Users,
         CreateAccount(sender, w, u)
  PROVE  CInv'
<1>1. /\ boxes[u] = None /\ owner[w] = None
      /\ owner' = [owner EXCEPT ![w] = u] /\ boxes' = [boxes EXCEPT ![u] = w]
      /\ UNCHANGED <<creator, admin, optedIn, perms, appKeys, conns, changes, appointed>>
  BY DEF CreateAccount, RegisteredAccount
<1>2. ContractTypes'
  BY <1>1 DEF CInv, ContractTypes
<1>3. \A v \in AccountApps : owner'[v] = IF v = w THEN u ELSE owner[v]
  BY <1>1 DEF CInv, ContractTypes
<1>4. \A n \in Names \cup Users : boxes'[n] = IF n = u THEN w ELSE boxes[n]
  BY <1>1 DEF CInv, ContractTypes
<1>5. PermissionTypes' /\ OnlyOfTheService' /\ ConnectedIsOptedIn'
  BY <1>1 DEF CInv, PermissionTypes, OnlyOfTheService, ConnectedIsOptedIn
<1>6. AllComesFromTheAdmin'
  BY <1>1 DEF CInv, AllComesFromTheAdmin, Registered
<1>7. OneContractPerAccount'
  <2>1. \A v \in AccountApps : owner[v] \in Users \cup {None}
    BY DEF CInv, ContractTypes
  <2>2. \A v \in AccountApps : owner[v] # u
    BY <1>1, Constants DEF CInv, OneContractPerAccount
  <2>3. \A v \in AccountApps : owner'[v] # None => boxes'[owner'[v]] = v
    BY <1>3, <1>4, <2>1, <2>2 DEF CInv, OneContractPerAccount
  <2>4. \A v \in Users : boxes'[v] # None => boxes'[v] \in AccountApps /\ owner'[boxes'[v]] = v
    BY <1>1, <1>3, <1>4, Constants DEF CInv, OneContractPerAccount
  <2>5. \A n \in Names : boxes'[n] = boxes[n]
    BY <1>4, Constants
  <2>6. \A n \in Names : boxes'[n] # None => boxes'[n] \in Apps /\ creator'[boxes'[n]] = Service
    BY <1>1, <2>5 DEF CInv, OneContractPerAccount, Registered
  <2>7. \A m, n \in Names : boxes'[m] = boxes'[n] => m = n \/ boxes'[m] = None
    BY <2>5 DEF CInv, OneContractPerAccount
  <2> QED BY <2>3, <2>4, <2>6, <2>7 DEF OneContractPerAccount, Registered
<1> QED BY <1>2, <1>5, <1>6, <1>7 DEF CInv

LEMMA RegisterKeysKeeps ==
  ASSUME CInv, NEW a \in Apps, NEW sender \in Users, NEW s \in Signers, NEW k \in Keys,
         RegisterKeys(a, sender, s, k)
  PROVE  CInv'
<1>1. /\ appKeys' = [appKeys EXCEPT ![a][s] = k]
      /\ UNCHANGED <<creator, admin, boxes, owner, optedIn, perms, conns, changes, appointed>>
  BY DEF RegisterKeys
<1>2. a \in appointed
  BY PermissionIsAppointed, Constants DEF RegisterKeys
<1>3. appKeys' \in [Apps -> [Signers -> Keys \cup {None}]]
      /\ \A b \in Apps : b # a => appKeys'[b] = appKeys[b]
  <2>1. appKeys \in [Apps -> [Signers -> Keys \cup {None}]]
    BY DEF CInv, ContractTypes
  <2>2. [appKeys[a] EXCEPT ![s] = k] \in [Signers -> Keys \cup {None}]
    BY <2>1
  <2>3. appKeys' = [appKeys EXCEPT ![a] = [appKeys[a] EXCEPT ![s] = k]]
    BY <1>1, <2>1
  <2> QED BY <2>1, <2>2, <2>3
<1>4. ContractTypes'
  BY <1>1, <1>3 DEF CInv, ContractTypes
<1>5. PermissionTypes' /\ OnlyOfTheService' /\ ConnectedIsOptedIn'
  BY <1>1 DEF CInv, PermissionTypes, OnlyOfTheService, ConnectedIsOptedIn
<1>6. OneContractPerAccount'
  BY <1>1 DEF CInv, OneContractPerAccount, Registered
<1>7. AllComesFromTheAdmin'
  BY <1>1, <1>2, <1>3 DEF CInv, AllComesFromTheAdmin, Registered
<1> QED BY <1>4, <1>5, <1>6, <1>7 DEF CInv

-----------------------------------------------------------------------------
(***************************************************************************)
(* Connections.                                                            *)
(***************************************************************************)
WithKeys(w, a, keys) == [conns EXCEPT ![w][a] = keys]

LEMMA OneConnection ==
  ASSUME CInv, NEW w \in AccountApps, NEW a \in Apps, NEW keys \in WalletKeys \cup {None}
  PROVE  /\ WithKeys(w, a, keys) \in [AccountApps -> [Apps -> WalletKeys \cup {None}]]
         /\ \A v \in AccountApps, b \in Apps :
              WithKeys(w, a, keys)[v][b] = IF v = w /\ b = a THEN keys ELSE conns[v][b]
<1> DEFINE W == WithKeys(w, a, keys)
           row == [conns[w] EXCEPT ![a] = keys]
<1>1. conns \in [AccountApps -> [Apps -> WalletKeys \cup {None}]]
  BY DEF CInv, ContractTypes
<1>2. row \in [Apps -> WalletKeys \cup {None}]
  BY <1>1
<1>3. \A b \in Apps : row[b] = IF b = a THEN keys ELSE conns[w][b]
  BY <1>1
<1>4. W = [conns EXCEPT ![w] = row]
  BY <1>1 DEF WithKeys
<1> HIDE DEF W, row
<1>5. W \in [AccountApps -> [Apps -> WalletKeys \cup {None}]]
  BY <1>1, <1>2, <1>4
<1>6. \A v \in AccountApps : W[v] = IF v = w THEN row ELSE conns[v]
  BY <1>1, <1>4
<1> QED BY <1>3, <1>5, <1>6 DEF W

LEMMA OptinAppKeeps ==
  ASSUME CInv, NEW sender \in Users, NEW w \in AccountApps, NEW a \in Apps, OptinApp(sender, w, a)
  PROVE  CInv'
  BY OptsInKeeps, Constants DEF OptinApp

LEMMA CloseOutAppKeeps ==
  ASSUME CInv, NEW sender \in Users, NEW w \in AccountApps, NEW a \in Apps, CloseOutApp(sender, w, a)
  PROVE  CInv'
<1>1. conns' = WithKeys(w, a, None)
  BY DEF CloseOutApp, WithoutConnection, WithKeys
<1>2. conns' \in [AccountApps -> [Apps -> WalletKeys \cup {None}]]
      /\ \A v \in AccountApps, b \in Apps :
           conns'[v][b] = IF v = w /\ b = a THEN None ELSE conns[v][b]
  BY <1>1, OneConnection
<1>3. changes' \in 0 .. MaxChanges
  BY DEF CloseOutApp, CInv, ContractTypes
<1> QED BY <1>2, <1>3, OptsOutKeeps, Constants DEF CloseOutApp

LEMMA ConnectionKeeps ==
  ASSUME CInv, NEW w \in AccountApps, NEW a \in Apps, NEW keys \in WalletKeys \cup {None},
         conns' = WithKeys(w, a, keys), keys = None \/ w \in optedIn[a],
         UNCHANGED <<creator, admin, boxes, owner, optedIn, perms, appKeys, changes, appointed>>
  PROVE  CInv'
<1>1. conns' \in [AccountApps -> [Apps -> WalletKeys \cup {None}]]
      /\ \A v \in AccountApps, b \in Apps :
           conns'[v][b] = IF v = w /\ b = a THEN keys ELSE conns[v][b]
  BY OneConnection
<1>2. ContractTypes'
  BY <1>1 DEF CInv, ContractTypes
<1>3. PermissionTypes' /\ OnlyOfTheService'
  BY DEF CInv, PermissionTypes, OnlyOfTheService
<1>4. ConnectedIsOptedIn'
  BY <1>1 DEF CInv, OnlyOfTheService, ConnectedIsOptedIn
<1>5. AllComesFromTheAdmin'
  BY DEF CInv, AllComesFromTheAdmin, Registered
<1>6. OneContractPerAccount'
  BY DEF CInv, OneContractPerAccount, Registered
<1> QED BY <1>2, <1>3, <1>4, <1>5, <1>6 DEF CInv

LEMMA ConnectKeeps ==
  ASSUME CInv, NEW sender \in Users, NEW w \in AccountApps, NEW a \in Apps,
         DisconnectApp(sender, w, a) \/ \E keys \in WalletKeys : ConnectApp(sender, w, a, keys)
  PROVE  CInv'
<1>1. CASE DisconnectApp(sender, w, a)
  BY <1>1, ConnectionKeeps DEF DisconnectApp, WithKeys
<1>2. CASE \E keys \in WalletKeys : ConnectApp(sender, w, a, keys)
  <2>1. PICK keys \in WalletKeys : ConnectApp(sender, w, a, keys)
    BY <1>2
  <2> QED BY <2>1, ConnectionKeeps DEF ConnectApp, WithKeys
<1> QED BY <1>1, <1>2

-----------------------------------------------------------------------------
(***************************************************************************)
(* Questions.                                                              *)
(***************************************************************************)
TruthsAreAnswers ==
  \A question \in Questions, u \in Users, a \in Apps : Truth(question, u, a) \in Answers

LEMMA TruthIsAnswer == CInv => TruthsAreAnswers
<1> SUFFICES ASSUME CInv, NEW question \in Questions, NEW u \in Users, NEW a \in Apps
             PROVE  Truth(question, u, a) \in Answers
  BY DEF TruthsAreAnswers
<1>1. AccountOf(u) # {} => (CHOOSE w \in AccountOf(u) : TRUE) \in AccountApps
  BY DEF AccountOf
<1>2. conns \in [AccountApps -> [Apps -> WalletKeys \cup {None}]]
  BY DEF CInv, ContractTypes
<1> DEFINE w == CHOOSE x \in AccountOf(u) : TRUE
<1> HIDE DEF w
<1>3. AccountOf(u) # {} => w \in AccountApps /\ conns[w][a] \in WalletKeys \cup {None}
  BY <1>1, <1>2 DEF w
<1>4. \A p \in BOOLEAN : YesIf(p) \in Answers
  BY DEF YesIf, Answers
<1> DEFINE p1 == Registered(a)
           p2 == appKeys[a][AskedSigner] = AskedKey
           p3 == AccountOf(u) \cap optedIn[a] # {}
<1>5. YesIf(p1) \in Answers /\ YesIf(p2) \in Answers /\ YesIf(p3) \in Answers
  BY DEF YesIf, Answers
<1>6. CASE question = "app_registered"
  BY <1>5, <1>6 DEF Truth
<1>7. CASE question = "app_keys_registered"
  BY <1>5, <1>7 DEF Truth, Answers
<1>8. CASE question = "account_app_id"
  BY <1>3, <1>8 DEF Truth, Answers, w
<1>9. CASE question = "account_opted_in_app"
  BY <1>5, <1>9 DEF Truth
<1>10. CASE question = "wallet_app_conn_public_keys"
  BY <1>3, <1>10 DEF Truth, Answers, w
<1> QED BY <1>6, <1>7, <1>8, <1>9, <1>10 DEF Questions, AppQuestions, AccountQuestions

LEMMA TruthIsAnswerNext == CInv' => TruthsAreAnswers'
  BY TruthIsAnswer, PTL

\* A question in progress learns what is true after the step.
LEMMA ObservedKeeps ==
  ASSUME Inv, CInv', Observed
  PROVE  query' \in Queries
<1>1. PICK q \in {query} :
        query' = IF q.pc \in {"first", "second"}
                 THEN [q EXCEPT !.truths = @ \cup {Truth(q.question, q.user, q.app)'}]
                 ELSE q
  BY DEF Observed
<1>2. q \in Queries
  BY DEF Inv
<1>3. q.question \in Questions /\ q.user \in Users /\ q.app \in Apps
  BY <1>2 DEF Queries
<1> DEFINE t == Truth(q.question, q.user, q.app)'
<1>4. t \in Answers
  BY <1>3, TruthIsAnswerNext DEF TruthsAreAnswers
<1>5. query' = IF q.pc \in {"first", "second"} THEN [q EXCEPT !.truths = @ \cup {t}] ELSE q
  BY <1>1
<1> HIDE DEF t
<1> QED BY <1>2, <1>4, <1>5 DEF Queries

LEMMA AnsweredKeeps ==
  ASSUME query \in Queries, NEW answer \in Answers, Answered(answer)
  PROVE  query' \in Queries
  BY DEF Answered, Queries

LEMMA IdleIsQuery == Idle \in Queries
<1>1. (CHOOSE a \in Apps : TRUE) \in Apps /\ Creator \in Users
  BY WalletAssumption DEF WalletAssumption
<1>2. None \in Answers
  BY DEF Answers
<1> QED BY <1>1, <1>2 DEF Idle, Queries, Questions, AppQuestions

LEMMA AskKeeps ==
  ASSUME Inv, NEW question \in Questions, NEW u \in Users, NEW a \in Apps, Ask(question, u, a)
  PROVE  query' \in Queries
<1> DEFINE t == Truth(question, u, a)
<1>1. t \in Answers /\ None \in Answers
  BY TruthIsAnswer DEF TruthsAreAnswers, Inv, Answers
<1>2. query' = [pc |-> "first", question |-> question, user |-> u, app |-> a, read |-> None,
                answer |-> None, truths |-> {t}]
  BY DEF Ask
<1> HIDE DEF t
<1> QED BY <1>1, <1>2 DEF Queries

LEMMA ReadingKeeps ==
  ASSUME Inv, Reading PROVE query' \in Queries
<1>1. query \in Queries /\ ContractTypes /\ OneContractPerAccount
  BY DEF Inv, CInv
<1>2. query.question \in Questions /\ query.user \in Users /\ query.app \in Apps
  BY <1>1 DEF Queries
<1>3. "yes" \in Answers /\ "no" \in Answers /\ "AppNotRegistered" \in Answers
      /\ "error" \in Answers /\ None \in Answers
  BY DEF Answers
<1>4. boxes[query.user] \in AccountApps \cup {None} /\ boxes[query.user] \in Answers
  BY <1>1, <1>2 DEF OneContractPerAccount, Answers
<1>5. BoxOfApp(query.app, query.app) \in Answers
  BY <1>2, <1>3, WalletAssumption DEF BoxOfApp, WalletAssumption
<1>6. CASE FirstRead
  <2>1. CASE query.question = "app_registered"
    <3>1. Answered(YesIf(creator[query.app] = Service))
      BY <1>6, <2>1 DEF FirstRead
    <3>2. YesIf(creator[query.app] = Service) \in Answers
      BY <1>3 DEF YesIf
    <3> QED BY <1>1, <3>1, <3>2, AnsweredKeeps
  <2>2. CASE query.question = "app_keys_registered"
    <3>1. query' = [query EXCEPT !.pc = "second"] \/ Answered("AppNotRegistered")
      BY <1>6, <2>2 DEF FirstRead
    <3> QED BY <1>1, <1>3, <3>1, AnsweredKeeps DEF Queries
  <2>3. CASE query.question = "account_app_id"
    <3>1. Answered(boxes[query.user])
      BY <1>6, <2>3 DEF FirstRead
    <3> QED BY <1>1, <1>4, <3>1, AnsweredKeeps
  <2>4. CASE query.question = "account_opted_in_app"
    <3>1. query' = [query EXCEPT !.pc = "second", !.read = boxes[query.user]] \/ Answered("no")
      BY <1>6, <2>4 DEF FirstRead
    <3> QED BY <1>1, <1>3, <1>4, <3>1, AnsweredKeeps DEF Queries
  <2>5. CASE query.question = "wallet_app_conn_public_keys"
    <3>1. Answered(BoxOfApp(query.app, query.app))
      BY <1>6, <2>5 DEF FirstRead
    <3> QED BY <1>1, <1>5, <3>1, AnsweredKeeps
  <2> QED BY <1>2, <2>1, <2>2, <2>3, <2>4, <2>5 DEF Questions, AppQuestions, AccountQuestions
<1>7. CASE SecondRead
  <2>1. \E p : Answered(YesIf(p))
    <3>1. CASE query.question = "app_keys_registered"
      BY <1>7, <3>1 DEF SecondRead
    <3>2. CASE query.question # "app_keys_registered"
      BY <1>7, <3>2 DEF SecondRead
    <3> QED BY <3>1, <3>2
  <2>2. \A p : YesIf(p) \in Answers
    BY <1>3 DEF YesIf
  <2> QED BY <1>1, <2>1, <2>2, AnsweredKeeps
<1>8. CASE ReadFails
  BY <1>1, <1>3, <1>8, AnsweredKeeps DEF ReadFails
<1>9. CASE Told
  BY <1>9, IdleIsQuery DEF Told
<1> QED BY <1>6, <1>7, <1>8, <1>9 DEF Reading

-----------------------------------------------------------------------------
LEMMA InvInit == Init => Inv
<1> SUFFICES ASSUME Init PROVE Inv
  OBVIOUS
<1>1. 0 \in 0 .. MaxChanges
  BY WalletAssumption DEF WalletAssumption
<1>2. ContractTypes
  BY <1>1 DEF Init, ContractTypes
<1>3. PermissionTypes
  BY DEF Init, PermissionTypes
<1>4. OnlyOfTheService /\ ConnectedIsOptedIn
  BY Constants DEF Init, OnlyOfTheService, ConnectedIsOptedIn
<1>5. AllComesFromTheAdmin
  BY Constants DEF Init, AllComesFromTheAdmin, Registered
<1>6. OneContractPerAccount
  BY Constants DEF Init, OneContractPerAccount
<1>7. query \in Queries
  BY IdleIsQuery DEF Init
<1> QED BY <1>2, <1>3, <1>4, <1>5, <1>6, <1>7 DEF Inv, CInv

\* What leaves the contracts alone.
LEMMA ContractsStay ==
  ASSUME CInv, UNCHANGED <<contractVars, changes, appointed>> PROVE CInv'
<1>1. ContractTypes' /\ PermissionTypes'
  BY DEF CInv, ContractTypes, PermissionTypes, contractVars
<1>2. OnlyOfTheService' /\ ConnectedIsOptedIn' /\ AllComesFromTheAdmin' /\ OneContractPerAccount'
  BY DEF CInv, OnlyOfTheService, ConnectedIsOptedIn, AllComesFromTheAdmin, OneContractPerAccount,
         Registered, contractVars
<1> QED BY <1>1, <1>2 DEF CInv

LEMMA InvNext == Inv /\ [Next]_vars => Inv'
<1> SUFFICES ASSUME Inv, [Next]_vars PROVE Inv'
  OBVIOUS
<1>0. CInv
  BY DEF Inv
<1>1. ASSUME NEW c \in Contracts, Permissions(c) PROVE Inv'
  <2>1. CASE \E u \in Users : Optin(c, u) \/ Leave(c, u)
    <3>1. PICK u \in Users : Optin(c, u) \/ Leave(c, u)
      BY <2>1
    <3>2. CInv'
      BY <1>0, <3>1, OptinKeeps, LeaveKeeps
    <3>3. Observed
      BY <3>1 DEF Optin, Leave
    <3> QED BY <3>2, <3>3, ObservedKeeps DEF Inv
  <2>2. CASE \E sender, u \in Users, bits \in SUBSET Bits[c] \ {{}} :
               GrantPermissions(c, sender, u, bits) \/ RevokePermissions(c, sender, u, bits)
    <3>1. PICK sender, u \in Users, bits \in SUBSET Bits[c] \ {{}} :
            GrantPermissions(c, sender, u, bits) \/ RevokePermissions(c, sender, u, bits)
      BY <2>2
    <3>2. CInv'
      BY <1>0, <3>1, PermissionsKeep
    <3>3. Observed
      BY <3>1 DEF GrantPermissions, RevokePermissions
    <3> QED BY <3>2, <3>3, ObservedKeeps DEF Inv
  <2> QED BY <1>1, <2>1, <2>2 DEF Permissions
<1>2. ASSUME NEW sender \in Users, Registration(sender) PROVE Inv'
  <2>1. CInv' /\ Observed
    <3>1. CASE \E a \in Apps, u \in Users :
                 CreateForeignApp(sender, a, u) \/ \E name \in Names : CreateApp(sender, a, name, u)
      BY <1>0, <3>1, CreateForeignAppKeeps, CreateAppKeeps DEF CreateForeignApp, CreateApp
    <3>2. CASE \E w \in AccountApps, u \in Users : CreateAccount(sender, w, u)
      BY <1>0, <3>2, CreateAccountKeeps DEF CreateAccount
    <3>3. CASE \E a \in Apps, s \in Signers, k \in Keys : RegisterKeys(a, sender, s, k)
      BY <1>0, <3>3, RegisterKeysKeeps DEF RegisterKeys
    <3> QED BY <1>2, <3>1, <3>2, <3>3 DEF Registration
  <2> QED BY <2>1, ObservedKeeps DEF Inv
<1>3. ASSUME NEW sender \in Users, NEW w \in AccountApps, NEW a \in Apps, Connections(sender, w, a)
      PROVE  Inv'
  <2>1. CInv'
    BY <1>0, <1>3, OptinAppKeeps, CloseOutAppKeeps, ConnectKeeps DEF Connections
  <2>2. Observed
    BY <1>3 DEF Connections, OptinApp, CloseOutApp, DisconnectApp, ConnectApp
  <2> QED BY <2>1, <2>2, ObservedKeeps DEF Inv
<1>4. ASSUME NEW question \in Questions, NEW u \in Users, NEW a \in Apps, Ask(question, u, a)
      PROVE  Inv'
  BY <1>0, <1>4, AskKeeps, ContractsStay DEF Ask, Inv
<1>5. CASE Reading
  <2>1. UNCHANGED <<contractVars, changes, appointed>>
    BY <1>5 DEF Reading, FirstRead, SecondRead, ReadFails, Told
  <2> QED BY <1>0, <1>5, <2>1, ReadingKeeps, ContractsStay DEF Inv
<1>6. CASE UNCHANGED vars
  BY <1>0, <1>6, ContractsStay DEF vars, Inv
<1>7. Creator \in Users /\ AppQuestions \subseteq Questions /\ AccountQuestions \subseteq Questions
  BY WalletAssumption DEF WalletAssumption, Questions
<1> QED BY <1>1, <1>2, <1>3, <1>4, <1>5, <1>6, <1>7 DEF Next

LEMMA InvAlways == Spec => []Inv
  BY InvInit, InvNext, PTL DEF Spec

-----------------------------------------------------------------------------
(***************************************************************************)
(* The answers.  While a question is under way what is true now is among   *)
(* what has been true; what the first read has found stays as it is.       *)
(***************************************************************************)
TrueSoFar ==
  /\ query.pc \in {"first", "second"} => Truth(query.question, query.user, query.app) \in query.truths
  /\ query.pc = "second" =>
       \/ query.question = "app_keys_registered" /\ Registered(query.app)
       \/ /\ query.question = "account_opted_in_app"
          /\ query.read # None /\ query.read = boxes[query.user]
  /\ AnswersWereTrue

LEMMA AccountIsBox ==
  ASSUME CInv, NEW u \in Users
  PROVE  AccountOf(u) = IF boxes[u] = None THEN {} ELSE {boxes[u]}
  BY Constants DEF CInv, OneContractPerAccount, AccountOf

\* Registrations stay.
LEMMA RegistrationStays ==
  ASSUME Inv, [Next]_vars
  PROVE  /\ \A u \in Users : boxes[u] # None => boxes'[u] = boxes[u]
         /\ \A a \in Apps : Registered(a) => Registered(a)'
<1>0. ContractTypes
  BY DEF Inv, CInv
<1>1. ASSUME UNCHANGED <<boxes, creator>>
      PROVE  /\ \A u \in Users : boxes[u] # None => boxes'[u] = boxes[u]
             /\ \A a \in Apps : Registered(a) => Registered(a)'
  BY <1>1 DEF Registered
<1>2. ASSUME NEW c \in Contracts, Permissions(c) PROVE UNCHANGED <<boxes, creator>>
  BY <1>2 DEF Permissions, Optin, Leave, GrantPermissions, RevokePermissions
<1>3. ASSUME NEW sender \in Users, Registration(sender)
      PROVE  /\ \A u \in Users : boxes[u] # None => boxes'[u] = boxes[u]
             /\ \A a \in Apps : Registered(a) => Registered(a)'
  <2>1. ASSUME NEW a \in Apps, NEW u \in Users, CreateForeignApp(sender, a, u)
        PROVE  /\ \A v \in Users : boxes[v] # None => boxes'[v] = boxes[v]
               /\ \A b \in Apps : Registered(b) => Registered(b)'
    BY <1>0, <2>1, Constants DEF CreateForeignApp, Registered, ContractTypes
  <2>2. ASSUME NEW a \in Apps, NEW u \in Users, NEW name \in Names, CreateApp(sender, a, name, u)
        PROVE  /\ \A v \in Users : boxes[v] # None => boxes'[v] = boxes[v]
               /\ \A b \in Apps : Registered(b) => Registered(b)'
    BY <1>0, <2>2, Constants DEF CreateApp, Registered, ContractTypes
  <2>3. ASSUME NEW w \in AccountApps, NEW u \in Users, CreateAccount(sender, w, u)
        PROVE  /\ \A v \in Users : boxes[v] # None => boxes'[v] = boxes[v]
               /\ \A b \in Apps : Registered(b) => Registered(b)'
    BY <1>0, <2>3 DEF CreateAccount, RegisteredAccount, Registered, ContractTypes
  <2>4. ASSUME NEW a \in Apps, NEW s \in Signers, NEW k \in Keys, RegisterKeys(a, sender, s, k)
        PROVE  UNCHANGED <<boxes, creator>>
    BY <2>4 DEF RegisterKeys
  <2> QED BY <1>1, <1>3, <2>1, <2>2, <2>3, <2>4 DEF Registration
<1>4. ASSUME NEW sender \in Users, NEW w \in AccountApps, NEW a \in Apps, Connections(sender, w, a)
      PROVE  UNCHANGED <<boxes, creator>>
  BY <1>4 DEF Connections, OptinApp, CloseOutApp, DisconnectApp, ConnectApp
<1>5. ASSUME NEW question, NEW u, NEW a, Ask(question, u, a) PROVE UNCHANGED <<boxes, creator>>
  BY <1>5 DEF Ask, contractVars
<1>6. CASE Reading \/ UNCHANGED vars
  BY <1>1, <1>6 DEF Reading, FirstRead, SecondRead, ReadFails, Told, contractVars, vars
<1> QED BY <1>1, <1>2, <1>3, <1>4, <1>5, <1>6 DEF Next

\* A step of the contracts adds to what has been true.
LEMMA ObservedStaysTrue ==
  ASSUME Inv, TrueSoFar, [Next]_vars, Observed PROVE TrueSoFar'
<1>1. PICK q \in {query} :
        query' = IF q.pc \in {"first", "second"}
                 THEN [q EXCEPT !.truths = @ \cup {Truth(q.question, q.user, q.app)'}]
                 ELSE q
  BY DEF Observed
<1> DEFINE t == Truth(q.question, q.user, q.app)'
<1>2. query' = IF q.pc \in {"first", "second"} THEN [q EXCEPT !.truths = @ \cup {t}] ELSE q
  BY <1>1
<1>3. q \in Queries /\ q = query
  BY DEF Inv
<1>4. CASE q.pc \in {"first", "second"}
  <2> HIDE DEF t
  <2>1. query' = [q EXCEPT !.truths = @ \cup {t}]
    BY <1>2, <1>4
  <2>2. query'.pc = q.pc /\ query'.question = q.question /\ query'.user = q.user
        /\ query'.app = q.app /\ query'.read = q.read /\ t \in query'.truths
    BY <1>3, <2>1 DEF Queries
  <2>3. Truth(query.question, query.user, query.app)' = t
    BY <2>2 DEF t, Truth
  <2>4. q.pc = "second" =>
          \/ q.question = "app_keys_registered" /\ Registered(q.app)'
          \/ q.question = "account_opted_in_app" /\ q.read # None /\ q.read = boxes'[q.user]
    BY <1>3, RegistrationStays DEF TrueSoFar, Queries
  <2>5. AnswersWereTrue'
    BY <1>4, <2>2 DEF AnswersWereTrue
  <2> QED BY <2>2, <2>3, <2>4, <2>5 DEF TrueSoFar, Registered
<1>5. CASE q.pc \notin {"first", "second"}
  <2>1. query' = query
    BY <1>2, <1>3, <1>5
  <2> QED BY <1>3, <1>5, <2>1 DEF TrueSoFar, AnswersWereTrue
<1> QED BY <1>4, <1>5

\* The first read answers with the truth, or finds what the second one goes on with.
LEMMA FirstReadIsTrue ==
  ASSUME Inv, TrueSoFar, FirstRead PROVE TrueSoFar'
<1> DEFINE t == Truth(query.question, query.user, query.app)
<1>1. query \in Queries /\ CInv /\ query.pc = "first" /\ t \in query.truths
      /\ UNCHANGED contractVars
  BY DEF Inv, TrueSoFar, FirstRead
<1>2. query.question \in Questions /\ query.user \in Users /\ query.app \in Apps
  BY <1>1 DEF Queries
<1>3. ASSUME NEW answer, Answered(answer), answer = t PROVE TrueSoFar'
  <2>1. query' = [query EXCEPT !.pc = "answered", !.answer = answer]
    BY <1>3 DEF Answered
  <2>2. query'.pc = "answered" /\ query'.answer = t /\ query'.truths = query.truths
    BY <1>1, <1>3, <2>1 DEF Queries
  <2> QED BY <1>1, <2>2 DEF TrueSoFar, AnswersWereTrue
<1>4. AccountOf(query.user) = IF boxes[query.user] = None THEN {} ELSE {boxes[query.user]}
  BY <1>1, <1>2, AccountIsBox
<1>5. CASE query.question = "app_registered"
  <2>1. Answered(YesIf(creator[query.app] = Service))
    BY <1>5 DEF FirstRead
  <2>2. YesIf(creator[query.app] = Service) = t
    BY <1>5 DEF Truth, Registered
  <2> QED BY <1>3, <2>1, <2>2
<1>6. CASE query.question = "app_keys_registered"
  <2>1. CASE creator[query.app] = Service
    <3>1. query' = [query EXCEPT !.pc = "second"]
      BY <1>6, <2>1 DEF FirstRead
    <3>2. query'.pc = "second" /\ query'.question = query.question /\ query'.user = query.user
          /\ query'.app = query.app /\ query'.truths = query.truths
      BY <1>1, <3>1 DEF Queries
    <3>3. Truth(query.question, query.user, query.app)' = t
      BY <1>1, <3>2 DEF Truth, Registered, AccountOf, contractVars
    <3> QED BY <1>1, <1>6, <2>1, <3>2, <3>3 DEF TrueSoFar, AnswersWereTrue, Registered, contractVars
  <2>2. CASE creator[query.app] # Service
    <3>1. Answered("AppNotRegistered")
      BY <1>6, <2>2 DEF FirstRead
    <3>2. t = "AppNotRegistered"
      BY <1>6, <2>2 DEF Truth, Registered
    <3> QED BY <1>3, <3>1, <3>2
  <2> QED BY <2>1, <2>2
<1>7. CASE query.question = "account_app_id"
  <2>1. Answered(boxes[query.user])
    BY <1>7 DEF FirstRead
  <2>2. boxes[query.user] = t
    BY <1>4, <1>7 DEF Truth
  <2> QED BY <1>3, <2>1, <2>2
<1>8. CASE query.question = "account_opted_in_app"
  <2>1. CASE boxes[query.user] = None
    <3>1. Answered("no")
      BY <1>8, <2>1 DEF FirstRead
    <3>2. t = "no"
      BY <1>4, <1>8, <2>1 DEF Truth, YesIf
    <3> QED BY <1>3, <3>1, <3>2
  <2>2. CASE boxes[query.user] # None
    <3>1. query' = [query EXCEPT !.pc = "second", !.read = boxes[query.user]]
      BY <1>8, <2>2 DEF FirstRead
    <3>2. query'.pc = "second" /\ query'.question = query.question /\ query'.user = query.user
          /\ query'.app = query.app /\ query'.truths = query.truths
          /\ query'.read = boxes[query.user]
      BY <1>1, <3>1 DEF Queries
    <3>3. Truth(query.question, query.user, query.app)' = t
      BY <1>1, <3>2 DEF Truth, Registered, AccountOf, contractVars
    <3> QED BY <1>1, <1>8, <2>2, <3>2, <3>3 DEF TrueSoFar, AnswersWereTrue, contractVars
  <2> QED BY <2>1, <2>2
<1>9. CASE query.question = "wallet_app_conn_public_keys"
  <2>1. Answered(BoxOfApp(query.app, query.app))
    BY <1>9 DEF FirstRead
  <2>2. query'.pc = "answered" /\ query'.question = "wallet_app_conn_public_keys"
    BY <1>1, <1>9, <2>1 DEF Answered, Queries
  <2> QED BY <2>2 DEF TrueSoFar, AnswersWereTrue
<1> QED BY <1>2, <1>5, <1>6, <1>7, <1>8, <1>9 DEF Questions, AppQuestions, AccountQuestions

LEMMA SecondReadIsTrue ==
  ASSUME Inv, TrueSoFar, SecondRead PROVE TrueSoFar'
<1> DEFINE t == Truth(query.question, query.user, query.app)
<1>1. query \in Queries /\ CInv /\ query.pc = "second" /\ t \in query.truths
  BY DEF Inv, TrueSoFar, SecondRead
<1>2. query.user \in Users /\ query.app \in Apps
  BY <1>1 DEF Queries
<1>3. \E answer : Answered(answer) /\ answer = t
  <2>1. CASE query.question = "app_keys_registered"
    <3>1. Answered(YesIf(BoxOfApp(query.app, AskedSigner) = AskedKey))
      BY <2>1 DEF SecondRead
    <3>2. AskedSigner \in Signers
      BY WalletAssumption DEF WalletAssumption, AskedSigner
    <3>3. Registered(query.app)
      BY <1>1, <2>1 DEF TrueSoFar
    <3>4. t = YesIf(BoxOfApp(query.app, AskedSigner) = AskedKey)
      BY <2>1, <3>2, <3>3 DEF Truth, BoxOfApp
    <3> QED BY <3>1, <3>4
  <2>2. CASE query.question # "app_keys_registered"
    <3>1. Answered(YesIf(query.read \in optedIn[query.app]))
      BY <2>2 DEF SecondRead, OptedInAddress
    <3>2. query.question = "account_opted_in_app"
          /\ query.read # None /\ query.read = boxes[query.user]
      BY <1>1, <2>2 DEF TrueSoFar
    <3>3. AccountOf(query.user) = {query.read}
      BY <1>1, <1>2, <3>2, AccountIsBox
    <3>4. (AccountOf(query.user) \cap optedIn[query.app] # {}) = (query.read \in optedIn[query.app])
      BY <3>3
    <3>5. t = YesIf(query.read \in optedIn[query.app])
      BY <3>2, <3>4 DEF Truth, YesIf
    <3> QED BY <3>1, <3>5
  <2> QED BY <2>1, <2>2
<1>4. PICK answer : Answered(answer) /\ answer = t
  BY <1>3
<1>5. query' = [query EXCEPT !.pc = "answered", !.answer = answer]
  BY <1>4 DEF Answered
<1>6. query'.pc = "answered" /\ query'.answer = t /\ query'.truths = query.truths
  BY <1>1, <1>4, <1>5 DEF Queries
<1> QED BY <1>1, <1>6 DEF TrueSoFar, AnswersWereTrue

LEMMA TrueInit == Init => TrueSoFar
  BY DEF Init, Idle, TrueSoFar, AnswersWereTrue

LEMMA SameTruth ==
  ASSUME UNCHANGED contractVars, NEW q \in Questions, NEW u, NEW a
  PROVE  Truth(q, u, a)' = Truth(q, u, a) /\ Registered(a)' = Registered(a)
<1>1. creator' = creator /\ owner' = owner /\ optedIn' = optedIn /\ appKeys' = appKeys /\ conns' = conns
  BY DEF contractVars
<1>2. Registered(a)' = Registered(a) /\ AccountOf(u)' = AccountOf(u)
  BY <1>1 DEF Registered, AccountOf
<1>3. CASE q = "app_registered"
  BY <1>2, <1>3 DEF Truth
<1>4. CASE q = "app_keys_registered"
  BY <1>1, <1>2, <1>4 DEF Truth
<1>5. CASE q = "account_app_id"
  BY <1>2, <1>5 DEF Truth
<1>6. CASE q = "account_opted_in_app"
  BY <1>1, <1>2, <1>6 DEF Truth
<1>7. CASE q = "wallet_app_conn_public_keys"
  BY <1>1, <1>2, <1>7 DEF Truth
<1> QED BY <1>2, <1>3, <1>4, <1>5, <1>6, <1>7 DEF Questions, AppQuestions, AccountQuestions

LEMMA TrueNext == Inv /\ TrueSoFar /\ [Next]_vars => TrueSoFar'
<1> SUFFICES ASSUME Inv, TrueSoFar, [Next]_vars PROVE TrueSoFar'
  OBVIOUS
<1>1. ASSUME NEW c \in Contracts, Permissions(c) PROVE Observed
  BY <1>1 DEF Permissions, Optin, Leave, GrantPermissions, RevokePermissions
<1>2. ASSUME NEW sender \in Users, Registration(sender) PROVE Observed
  BY <1>2 DEF Registration, CreateForeignApp, CreateApp, CreateAccount, RegisterKeys
<1>3. ASSUME NEW sender \in Users, NEW w \in AccountApps, NEW a \in Apps, Connections(sender, w, a)
      PROVE  Observed
  BY <1>3 DEF Connections, OptinApp, CloseOutApp, DisconnectApp, ConnectApp
<1>4. ASSUME NEW question \in Questions, NEW u \in Users, NEW a \in Apps, Ask(question, u, a)
      PROVE  TrueSoFar'
  <2> DEFINE t == Truth(question, u, a)
  <2>1. query' = [pc |-> "first", question |-> question, user |-> u, app |-> a, read |-> None,
                  answer |-> None, truths |-> {t}] /\ UNCHANGED contractVars
    BY <1>4 DEF Ask
  <2>2. query'.pc = "first" /\ query'.question = question /\ query'.user = u /\ query'.app = a
        /\ query'.truths = {t}
    BY <2>1
  <2>3. Truth(query.question, query.user, query.app)' = t
    BY <2>1, <2>2, SameTruth
  <2> QED BY <2>2, <2>3 DEF TrueSoFar, AnswersWereTrue
<1>5. CASE Reading
  <2>1. query \in Queries
    BY DEF Inv
  <2>2. CASE ReadFails
    <3>1. query'.pc = "answered" /\ query'.answer = "error"
      BY <2>1, <2>2 DEF ReadFails, Answered, Queries
    <3> QED BY <3>1 DEF TrueSoFar, AnswersWereTrue
  <2>3. CASE Told
    BY <2>3 DEF Told, Idle, TrueSoFar, AnswersWereTrue
  <2> QED BY <1>5, <2>2, <2>3, FirstReadIsTrue, SecondReadIsTrue DEF Reading
<1>6. CASE UNCHANGED vars
  <2>1. UNCHANGED contractVars /\ query' = query /\ boxes' = boxes
    BY <1>6 DEF vars, contractVars
  <2>2. Truth(query.question, query.user, query.app)' = Truth(query.question, query.user, query.app)
        /\ Registered(query.app)' = Registered(query.app)
    BY <2>1, SameTruth DEF Inv, Queries
  <2> QED BY <2>1, <2>2 DEF TrueSoFar, AnswersWereTrue
<1>7. Creator \in Users /\ AppQuestions \subseteq Questions /\ AccountQuestions \subseteq Questions
  BY WalletAssumption DEF WalletAssumption, Questions
<1>8. Observed => TrueSoFar'
  BY ObservedStaysTrue
<1> QED BY <1>1, <1>2, <1>3, <1>4, <1>5, <1>6, <1>7, <1>8 DEF Next

-----------------------------------------------------------------------------
\* Types, of the contracts and of the question under way.
THEOREM WalletTypes == Spec => []WalletTypeOK
  BY Types, InvAlways, PTL

\* No connection of an account to an app outlives its opt-in.
THEOREM ConnectionNeedsOptin == Spec => []ConnectedIsOptedIn
<1>1. Inv => ConnectedIsOptedIn
  BY DEF Inv, CInv
<1> QED BY <1>1, InvAlways, PTL

\* Nobody has a permission that does not come from the global admin.
THEOREM AdminComesFirst == Spec => []AllComesFromTheAdmin
<1>1. Inv => AllComesFromTheAdmin
  BY DEF Inv, CInv
<1> QED BY <1>1, InvAlways, PTL

\* The boxes and the contracts agree on who owns what.
THEOREM AccountHasOneContract == Spec => []OneContractPerAccount
<1>1. Inv => OneContractPerAccount
  BY DEF Inv, CInv
<1> QED BY <1>1, InvAlways, PTL

\* The service answers with what was true at some time since it was asked, however
\* the contracts move between its reads.
THEOREM AnswersAreTrue == Spec => []AnswersWereTrue
<1>1. TrueSoFar => AnswersWereTrue
  BY DEF TrueSoFar
<1> QED BY <1>1, TrueInit, TrueNext, InvAlways, PTL DEF Spec
=============================================================================
