----------------------- MODULE WalletConnectContracts -----------------------
(***************************************************************************)
(* apps/wallet_connect/contracts: the wallet connect service contract,     *)
(* which registers apps and accounts, the contract of an app, the contract *)
(* of an account, and the permissions the first two keep for the accounts  *)
(* opted in to them; and services/wallet_connect_service.py, which answers *)
(* questions by reading them, one or two requests to algod per question.   *)
(*                                                                         *)
(* A contract call, with its inner transactions, is one atomic step; a     *)
(* call that fails an assertion is a step not taken.  Between two requests *)
(* of one question the contracts move on.                                  *)
(***************************************************************************)
EXTENDS Naturals, FiniteSets

CONSTANTS
  Service,      \* the wallet connect service contract
  Creator,      \* the account that created it
  Users,        \* accounts
  Apps,         \* app ids of WalletConnectApp contracts
  AccountApps,  \* app ids of WalletConnectAccount contracts
  Names,        \* names of apps
  Signers,      \* signing addresses of apps
  Keys,         \* encryption addresses of apps
  WalletKeys,   \* public keys of wallets
  None,
  MaxChanges    \* bound: permissions granted or revoked, and users who leave a contract

\* Apps and accounts are registered in boxes of the same contract, without a prefix:
\* that no app is named like the bytes of an address is an assumption.
ASSUME WalletAssumption ==
  /\ Creator \in Users /\ Apps # {} /\ Signers # {} /\ MaxChanges \in Nat
  /\ Names \cap Users = {} /\ Users \cap AccountApps = {} /\ Service \notin Apps
  /\ None \notin Users \cup Apps \cup AccountApps \cup Keys \cup WalletKeys \cup {Service}
  /\ Service \notin Users /\ Signers \cap Apps = {}

Contracts == {Service} \cup Apps
\* Who may be opted in: users, and account contracts.
Holders == Users \cup AccountApps

\* The permissions that some operation asks for.  A bit mask is the set of its bits.
Bits == [c \in Contracts |-> IF c = Service THEN {"Admin", "CreateApp", "CreateAccount"}
                                            ELSE {"Admin", "RegisterKeys"}]

VARIABLES
  creator,    \* creator[a]: Service, the user who created the app herself, or None
  admin,      \* admin[a]: the global admin of an app
  boxes,      \* boxes[name or user]: the app id registered for it
  owner,      \* owner[w]: the account an account contract belongs to
  optedIn,    \* optedIn[c]: holders opted in to contract c
  perms,      \* perms[c][h]: permissions of h in the local state of c
  appKeys,    \* appKeys[a][s]: encryption address registered for signing address s
  conns,      \* conns[w][a]: public keys of the wallet connected to the app
  changes,    \* number of such changes
  appointed,  \* contracts to which their global admin has ever opted in
  query       \* a question under way: what has been read, and what was true meanwhile

contractVars == <<creator, admin, boxes, owner, optedIn, perms, appKeys, conns>>
vars == <<contractVars, changes, appointed, query>>

AppQuestions == {"app_registered", "app_keys_registered"}
AccountQuestions == {"account_app_id", "account_opted_in_app", "wallet_app_conn_public_keys"}
Questions == AppQuestions \cup AccountQuestions
Answers == {"yes", "no", "AppNotRegistered", "error", None} \cup AccountApps \cup WalletKeys

WalletTypeOK ==
  /\ creator \in [Apps -> {Service, None} \cup Users] /\ admin \in [Apps -> Users \cup {None}]
  /\ boxes \in [Names \cup Users -> Apps \cup AccountApps \cup {None}]
  /\ owner \in [AccountApps -> Users \cup {None}]
  /\ optedIn \in [Contracts -> SUBSET Holders]
  /\ perms \in [Contracts -> [Holders -> SUBSET {"Admin", "CreateApp", "CreateAccount", "RegisterKeys"}]]
  /\ \A c \in Contracts, h \in Holders :
       perms[c][h] \subseteq Bits[c] /\ (h \notin optedIn[c] => perms[c][h] = {})
  /\ appKeys \in [Apps -> [Signers -> Keys \cup {None}]]
  /\ conns \in [AccountApps -> [Apps -> WalletKeys \cup {None}]]
  /\ changes \in 0 .. MaxChanges /\ appointed \subseteq Contracts
  /\ query \in [pc : {"idle", "first", "second", "answered"}, question : Questions,
                user : Users, app : Apps, read : AccountApps \cup {None},
                answer : Answers, truths : SUBSET Answers]

Idle == [pc |-> "idle", question |-> "app_registered", user |-> Creator,
         app |-> CHOOSE a \in Apps : TRUE, read |-> None, answer |-> None, truths |-> {}]

Init ==
  /\ creator = [a \in Apps |-> None] /\ admin = [a \in Apps |-> None]
  /\ boxes = [name \in Names \cup Users |-> None]
  /\ owner = [w \in AccountApps |-> None]
  /\ optedIn = [c \in Contracts |-> {}]
  /\ perms = [c \in Contracts |-> [h \in Holders |-> {}]]
  /\ appKeys = [a \in Apps |-> [s \in Signers |-> None]]
  /\ conns = [w \in AccountApps |-> [a \in Apps |-> None]]
  /\ changes = 0 /\ appointed = {}
  /\ query = Idle

-----------------------------------------------------------------------------
(***************************************************************************)
(* What is true of a question, by the contracts' own terms.  The key asked *)
(* about by app_keys_registered is one fixed pair.                         *)
(***************************************************************************)
AskedSigner == CHOOSE s \in Signers : TRUE
AskedKey == CHOOSE k \in Keys : TRUE
YesIf(p) == IF p THEN "yes" ELSE "no"

Registered(a) == creator[a] = Service
AccountOf(u) == {w \in AccountApps : owner[w] = u}

Truth(question, u, a) ==
  CASE question = "app_registered" -> YesIf(Registered(a))
    [] question = "app_keys_registered" ->
         IF Registered(a) THEN YesIf(appKeys[a][AskedSigner] = AskedKey) ELSE "AppNotRegistered"
    [] question = "account_app_id" -> IF AccountOf(u) = {} THEN None ELSE CHOOSE w \in AccountOf(u) : TRUE
    [] question = "account_opted_in_app" -> YesIf(AccountOf(u) \cap optedIn[a] # {})
    [] question = "wallet_app_conn_public_keys" ->
         IF AccountOf(u) = {} THEN None ELSE conns[CHOOSE w \in AccountOf(u) : TRUE][a]

\* What is true after this step is also true at some time while the question is
\* under way.
Observed ==
  \E q \in {query} :
    query' = IF q.pc \in {"first", "second"}
             THEN [q EXCEPT !.truths = @ \cup {Truth(q.question, q.user, q.app)'}]
             ELSE q

-----------------------------------------------------------------------------
(***************************************************************************)
(* Permissions, in the service contract and in the contract of an app.     *)
(***************************************************************************)
Exists(c) == c # Service => creator[c] # None
GlobalAdmin(c) == IF c = Service THEN Creator ELSE admin[c]

\* account_contains_permissions
Contains(c, h, bits) == h \in optedIn[c] /\ bits \subseteq perms[c][h]

IsAdmin(c, sender) == Contains(c, sender, {"Admin"})

\* opt_in: the local state is initialized, and the global admin is an admin.
OptsIn(c, h) ==
  /\ Exists(c) /\ h \notin optedIn[c]
  /\ optedIn' = [optedIn EXCEPT ![c] = @ \cup {h}]
  /\ perms' = [perms EXCEPT ![c][h] = IF h = GlobalAdmin(c) THEN {"Admin"} ELSE {}]
  /\ appointed' = IF h = GlobalAdmin(c) THEN appointed \cup {c} ELSE appointed

\* close_out of an app, or a clear-state transaction, which no contract can refuse.
OptsOut(c, h) ==
  /\ h \in optedIn[c]
  /\ optedIn' = [optedIn EXCEPT ![c] = @ \ {h}]
  /\ perms' = [perms EXCEPT ![c][h] = {}]

Optin(c, u) ==
  /\ OptsIn(c, u)
  /\ UNCHANGED <<creator, admin, boxes, owner, appKeys, conns, changes>> /\ Observed

Leave(c, u) ==
  /\ changes < MaxChanges /\ changes' = changes + 1
  /\ OptsOut(c, u)
  /\ UNCHANGED <<creator, admin, boxes, owner, appKeys, conns, appointed>> /\ Observed

\* The local state of an account that is not opted in cannot be written.
GrantPermissions(c, sender, h, bits) ==
  /\ changes < MaxChanges /\ changes' = changes + 1
  /\ IsAdmin(c, sender) /\ h \in optedIn[c]
  /\ perms' = [perms EXCEPT ![c][h] = @ \cup bits]
  /\ UNCHANGED <<creator, admin, boxes, owner, optedIn, appKeys, conns, appointed>> /\ Observed

\* revoke_permissions; revoke_all_permissions revokes all the bits.
RevokePermissions(c, sender, h, bits) ==
  /\ changes < MaxChanges /\ changes' = changes + 1
  /\ IsAdmin(c, sender) /\ h \in optedIn[c]
  /\ perms' = [perms EXCEPT ![c][h] = @ \ bits]
  /\ UNCHANGED <<creator, admin, boxes, owner, optedIn, appKeys, conns, appointed>> /\ Observed

-----------------------------------------------------------------------------
(***************************************************************************)
(* Registration, by the service contract.                                  *)
(***************************************************************************)
CreateApp(sender, a, name, globalAdmin) ==
  /\ Contains(Service, sender, {"CreateApp"})
  /\ boxes[name] = None /\ creator[a] = None
  /\ creator' = [creator EXCEPT ![a] = Service]
  /\ admin' = [admin EXCEPT ![a] = globalAdmin]
  /\ boxes' = [boxes EXCEPT ![name] = a]
  /\ UNCHANGED <<owner, optedIn, perms, appKeys, conns, changes, appointed>> /\ Observed

\* Anybody may create an instance of the contract of an app without the service.
CreateForeignApp(sender, a, globalAdmin) ==
  /\ creator[a] = None
  /\ creator' = [creator EXCEPT ![a] = sender]
  /\ admin' = [admin EXCEPT ![a] = globalAdmin]
  /\ UNCHANGED <<boxes, owner, optedIn, perms, appKeys, conns, changes, appointed>> /\ Observed

BoxesOfTheirOwn(w, u) == boxes

\* create_account stores the id through the mapping of apps and looks for it through
\* the mapping of accounts: without a prefix they are the same boxes.
RegisteredAccount(w, u) == [boxes EXCEPT ![u] = w]

CreateAccount(sender, w, u) ==
  /\ Contains(Service, sender, {"CreateAccount"})
  /\ boxes[u] = None /\ owner[w] = None
  /\ owner' = [owner EXCEPT ![w] = u]
  /\ boxes' = RegisteredAccount(w, u)
  /\ UNCHANGED <<creator, admin, optedIn, perms, appKeys, conns, changes, appointed>> /\ Observed

-----------------------------------------------------------------------------
(***************************************************************************)
(* The contract of an app, and the contract of an account.                 *)
(***************************************************************************)
RegisterKeys(a, sender, s, k) ==
  /\ Contains(a, sender, {"RegisterKeys"})
  /\ appKeys' = [appKeys EXCEPT ![a][s] = k]
  /\ UNCHANGED <<creator, admin, boxes, owner, optedIn, perms, conns, changes, appointed>> /\ Observed

\* is_account_owner
IsOwner(sender, w) == owner[w] = sender

\* The app has to be created by the creator of the account contract, the service.
OptinApp(sender, w, a) ==
  /\ IsOwner(sender, w) /\ creator[a] = Service
  /\ OptsIn(a, w)
  /\ UNCHANGED <<creator, admin, boxes, owner, appKeys, conns, changes>> /\ Observed

\* Definitions that no action uses are slips the code could have made, each before
\* the definition it would replace.
KeepsConnection(w, a) == conns

WithoutConnection(w, a) == [conns EXCEPT ![w][a] = None]

CloseOutApp(sender, w, a) ==
  /\ IsOwner(sender, w)
  /\ OptsOut(a, w)
  /\ conns' = WithoutConnection(w, a)
  /\ UNCHANGED <<creator, admin, boxes, owner, appKeys, changes, appointed>> /\ Observed

ConnectApp(sender, w, a, keys) ==
  /\ IsOwner(sender, w) /\ w \in optedIn[a]
  /\ conns' = [conns EXCEPT ![w][a] = keys]
  /\ UNCHANGED <<creator, admin, boxes, owner, optedIn, perms, appKeys, changes, appointed>> /\ Observed

DisconnectApp(sender, w, a) ==
  /\ IsOwner(sender, w)
  /\ conns' = [conns EXCEPT ![w][a] = None]
  /\ UNCHANGED <<creator, admin, boxes, owner, optedIn, perms, appKeys, changes, appointed>> /\ Observed

-----------------------------------------------------------------------------
(***************************************************************************)
(* OysterPackWalletConnectService: questions, one at a time.               *)
(***************************************************************************)
Answered(answer) == query' = [query EXCEPT !.pc = "answered", !.answer = answer]

Ask(question, u, a) ==
  /\ query.pc = "idle"
  /\ query' = [pc |-> "first", question |-> question, user |-> u, app |-> a, read |-> None,
               answer |-> None, truths |-> {Truth(question, u, a)}]
  /\ UNCHANGED <<contractVars, changes, appointed>>

\* A box of an app's contract; a name that is not a signing address has none.
BoxOfApp(a, name) == IF name \in Signers THEN appKeys[a][name] ELSE None

FirstRead ==
  /\ query.pc = "first"
  /\ CASE query.question = "app_registered" -> Answered(YesIf(creator[query.app] = Service))
       [] query.question = "app_keys_registered" ->
            IF creator[query.app] = Service THEN query' = [query EXCEPT !.pc = "second"]
            ELSE Answered("AppNotRegistered")
       [] query.question = "account_app_id" -> Answered(boxes[query.user])
       [] query.question = "account_opted_in_app" ->
            IF boxes[query.user] = None THEN Answered("no")
            ELSE query' = [query EXCEPT !.pc = "second", !.read = boxes[query.user]]
       [] query.question = "wallet_app_conn_public_keys" -> Answered(BoxOfApp(query.app, query.app))
  /\ UNCHANGED <<contractVars, changes, appointed>>

AccountItself(q) == q.user

\* The address whose opt-in counts: that of the account's contract.
OptedInAddress(q) == q.read

SecondRead ==
  /\ query.pc = "second"
  /\ IF query.question = "app_keys_registered"
     THEN Answered(YesIf(BoxOfApp(query.app, AskedSigner) = AskedKey))
     ELSE Answered(YesIf(OptedInAddress(query) \in optedIn[query.app]))
  /\ UNCHANGED <<contractVars, changes, appointed>>

\* algod fails to answer, and the question ends in an error.
ReadFails ==
  /\ query.pc \in {"first", "second"}
  /\ Answered("error")
  /\ UNCHANGED <<contractVars, changes, appointed>>

Told ==
  /\ query.pc = "answered"
  /\ query' = Idle
  /\ UNCHANGED <<contractVars, changes, appointed>>

-----------------------------------------------------------------------------
Permissions(c) ==
  \/ \E u \in Users : Optin(c, u) \/ Leave(c, u)
  \/ \E sender, u \in Users, bits \in SUBSET Bits[c] \ {{}} :
       GrantPermissions(c, sender, u, bits) \/ RevokePermissions(c, sender, u, bits)

Registration(sender) ==
  \/ \E a \in Apps, u \in Users :
       CreateForeignApp(sender, a, u) \/ \E name \in Names : CreateApp(sender, a, name, u)
  \/ \E w \in AccountApps, u \in Users : CreateAccount(sender, w, u)
  \/ \E a \in Apps, s \in Signers, k \in Keys : RegisterKeys(a, sender, s, k)

Connections(sender, w, a) ==
  \/ OptinApp(sender, w, a) \/ CloseOutApp(sender, w, a) \/ DisconnectApp(sender, w, a)
  \/ \E keys \in WalletKeys : ConnectApp(sender, w, a, keys)

Reading == FirstRead \/ SecondRead \/ ReadFails \/ Told

Next ==
  \/ \E c \in Contracts : Permissions(c)
  \/ \E sender \in Users : Registration(sender)
  \/ \E sender \in Users, w \in AccountApps, a \in Apps : Connections(sender, w, a)
  \/ \E a \in Apps, u \in Users :
       \/ \E question \in AppQuestions : Ask(question, Creator, a)
       \/ \E question \in AccountQuestions : Ask(question, u, a)
  \/ Reading

Spec == Init /\ [][Next]_vars

-----------------------------------------------------------------------------
(***************************************************************************)
(* Properties.                                                             *)
(***************************************************************************)
\* A wallet is connected only to an app that the account has opted in to and that the
\* service has registered: no connection survives a close-out, so that none comes back
\* to life when the account opts in again.
ConnectedIsOptedIn ==
  \A w \in AccountApps, a \in Apps :
    conns[w][a] # None => w \in optedIn[a] /\ creator[a] = Service

\* All permissions come from the global admin: until that account has opted in to a
\* contract nobody has any permission there, nothing is registered by the service and
\* no app has keys.
AllComesFromTheAdmin ==
  /\ \A c \in Contracts \ appointed : \A h \in Holders : perms[c][h] = {}
  /\ \A a \in Apps : Registered(a) => Service \in appointed
  /\ \A a \in Apps \ appointed : \A s \in Signers : appKeys[a][s] = None

\* An account has one contract at most, and it is the one its box names; the box of a
\* name holds an app of the service, and no two names hold the same.
OneContractPerAccount ==
  /\ \A w \in AccountApps : owner[w] # None => boxes[owner[w]] = w
  /\ \A u \in Users : boxes[u] # None => boxes[u] \in AccountApps /\ owner[boxes[u]] = u
  /\ \A name \in Names : boxes[name] # None => boxes[name] \in Apps /\ Registered(boxes[name])
  /\ \A m, n \in Names : boxes[m] = boxes[n] => m = n \/ boxes[m] = None

\* What the service answers was true at some time between the question and the answer,
\* although a question reads the contracts more than once.  The keys of a connection
\* are the exception: they are looked for in a contract that does not have them.
AnswersWereTrue ==
  query.pc = "answered" /\ query.answer # "error" /\ query.question # "wallet_app_conn_public_keys"
    => query.answer \in query.truths
=============================================================================
