------------------------ MODULE WalletSessionProofs ------------------------
(***************************************************************************)
(* However many users, wallets and keys there are: rekeying never takes an *)
(* account out of reach, what is sent is signed by whoever is authorized,  *)
(* no wallet comes to be unasked, and no multisig without one of its keys. *)
(***************************************************************************)
EXTENDS WalletSession, TLAPS

Held == [w \in Wallets |-> EverHeld(w)]
There == {wallet[w].name : w \in Wallets}

\* What an operation has learnt, and may rely on, at each of its requests.
Learnt(c, held, there, au) ==
  /\ c.pc # "idle" => c.id \in 1 .. MaxCalls
  /\ c.pc = "open" => c.name \in there \/ c.renamed
  /\ c.pc = "make" => c.op = "create" \/ c.renamed
  /\ c.pc \in {"open", "make", "rename"} => c.name \in Names
  /\ c.pc \notin {"idle", "open", "make", "rename"} => c.wallet \in Wallets
  /\ c.pc \in {"to", "auth", "sign", "send"} => c.account \in held[c.wallet]
  /\ c.pc \in {"auth", "sign", "send"} => c.to \in held[c.wallet]
  /\ c.pc \in {"sign", "send"} => c.signer = au[c.account] \/ c.account \in c.changed
  /\ c.pc = "send" => c.signer \in held[c.wallet]
  /\ c.pc \in {"key", "import"} /\ c.op = "import_multisig" =>
       c.multisig \in Multisigs /\ c.todo \subseteq c.multisig
  /\ c.pc \in {"with", "fallback"} => c.op = "sign_multisig"
  /\ c.pc = "import" => c.op = "import_multisig" /\ c.multisig \cap held[c.wallet] # {}

CallsLearn == \A u \in Users : Learnt(call[u], Held, There, auth)

Wellformed ==
  \A w \in Wallets :
    /\ wallet[w].name = NoName => EverHeld(w) = {} /\ wallet[w].multisigs = {}
    /\ wallet[w].name # NoName => wallet[w].seed \in Wallets

SessionsExist ==
  \A u \in Users : session[u] # Disconnected \/ call[u].pc = "rename" =>
    session[u].wallet \in Wallets /\ wallet[session[u].wallet].name # NoName

PendingInAWallet ==
  \A t \in pending : \E w \in Wallets : {t.account, t.to} \subseteq EverHeld(w)

Inv ==
  /\ SessionTypeOK /\ Wellformed /\ SessionsExist /\ CallsLearn /\ PendingInAWallet
  /\ RekeyedWithinAWallet /\ WalletsAreWanted /\ MultisigsAreSignable

-----------------------------------------------------------------------------
LEMMA IdleIsCall == Idle \in Calls
  BY WalletAssumption DEF WalletAssumption, Idle, Calls, Ops, Requests, Optional

\* Keys that come, and wallets that come, take nothing away from what is known.
LEMMA LearntStays ==
  ASSUME NEW c \in Calls, NEW held, NEW there, NEW held2, NEW there2, NEW au,
         Learnt(c, held, there, au), there \subseteq there2,
         \A w \in Wallets : held[w] \subseteq held2[w]
  PROVE  Learnt(c, held2, there2, au)
  BY DEF Learnt

LEMMA IdleLearns ==
  ASSUME NEW held, NEW there, NEW au
  PROVE  Learnt(Idle, held, there, au)
  BY DEF Learnt, Idle

LEMMA HeldKeys ==
  ASSUME SessionTypeOK, NEW w \in Wallets
  PROVE  /\ wallet[w].keys \subseteq Held[w] /\ Held[w] = EverHeld(w)
         /\ Held[w] \subseteq Accounts /\ wallet[w].keys \subseteq Accounts
         /\ wallet[w].multisigs \subseteq Multisigs
  BY DEF SessionTypeOK, Entries, Held, EverHeld

\* A step that touches neither KMD nor the chain leaves most of the invariant alone.
LEMMA Frame ==
  ASSUME Inv, UNCHANGED <<wallet, auth, pending>>
  PROVE  /\ Wellformed' /\ PendingInAWallet' /\ RekeyedWithinAWallet'
         /\ WalletsAreWanted' /\ MultisigsAreSignable'
         /\ Held' = Held /\ There' = There
  BY DEF Inv, Wellformed, PendingInAWallet, RekeyedWithinAWallet, WalletsAreWanted,
         MultisigsAreSignable, Held, There, EverHeld

LEMMA ReadsKeeps ==
  ASSUME Inv, NEW u \in Users, NEW c \in Calls, Reads(u, c), c.pc # "rename",
         Learnt(c, Held, There, auth)
  PROVE  Inv'
<1>1. UNCHANGED <<wallet, auth, pending, confirmed, session, calls>>
      /\ call' = [call EXCEPT ![u] = c]
  BY DEF Reads
<1>2. SessionTypeOK /\ SessionsExist /\ CallsLearn /\ call \in [Users -> Calls]
  BY DEF Inv, SessionTypeOK
<1>3. call' \in [Users -> Calls]
  BY <1>1, <1>2
<1>4. SessionTypeOK'
  BY <1>1, <1>2, <1>3 DEF SessionTypeOK
<1>5. SessionsExist'
  BY <1>1, <1>2 DEF SessionsExist
<1>6. CallsLearn'
  BY <1>1, <1>2, Frame DEF CallsLearn
<1> QED BY <1>1, <1>4, <1>5, <1>6, Frame DEF Inv

\* An operation that begins with its number.
LEMMA BeginKeeps ==
  ASSUME Inv, NEW u \in Users, NEW c \in Calls, Begin(u, c), c.pc # "idle",
         \A id \in 1 .. MaxCalls : Learnt([c EXCEPT !.id = id], Held, There, auth),
         c.pc = "rename" => session[u] # Disconnected
  PROVE  Inv'
<1> DEFINE d == [c EXCEPT !.id = calls + 1]
<1>1. UNCHANGED <<wallet, auth, pending, confirmed, session>> /\ calls' = calls + 1
      /\ call' = [call EXCEPT ![u] = d] /\ calls < MaxCalls
  BY DEF Begin
<1>2. SessionTypeOK /\ SessionsExist /\ CallsLearn /\ call \in [Users -> Calls]
      /\ calls \in 0 .. MaxCalls
  BY DEF Inv, SessionTypeOK
<1>3. calls + 1 \in 1 .. MaxCalls /\ calls + 1 \in 0 .. MaxCalls
  BY <1>1, <1>2, WalletAssumption DEF WalletAssumption
<1>4. d \in Calls /\ d.pc = c.pc
  BY <1>3 DEF Calls
<1>5. call' \in [Users -> Calls]
  BY <1>1, <1>2, <1>4
<1>6. SessionTypeOK'
  BY <1>1, <1>2, <1>3, <1>5 DEF SessionTypeOK
<1>7. SessionsExist'
  BY <1>1, <1>2, <1>4 DEF SessionsExist
<1>8. CallsLearn'
  <2>1. Learnt(d, Held, There, auth)
    BY <1>3
  <2> QED BY <1>1, <1>2, <2>1, Frame DEF CallsLearn
<1> QED BY <1>1, <1>6, <1>7, <1>8, Frame DEF Inv

-----------------------------------------------------------------------------
(***************************************************************************)
(* Operations begin.                                                       *)
(***************************************************************************)
LEMMA CreateKeeps ==
  ASSUME Inv, NEW u \in Users, CreateWallet(u) PROVE Inv'
<1>1. PICK n \in Names, s \in Optional({wallet[w].seed : w \in Wallets \ Unused}) :
        Begin(u, [Idle EXCEPT !.op = "create", !.pc = "make", !.name = n, !.seed = s])
  BY DEF CreateWallet
<1> DEFINE c == [Idle EXCEPT !.op = "create", !.pc = "make", !.name = n, !.seed = s]
<1>2. s \in Optional(Wallets)
  BY DEF Inv, SessionTypeOK, Entries, Optional, Wellformed, Unused
<1>3. "create" \in Ops /\ "make" \in Requests
  BY DEF Ops, Requests
<1>4. c \in Calls
  BY <1>2, <1>3, IdleIsCall DEF Calls
<1>5. \A id \in 1 .. MaxCalls : Learnt([c EXCEPT !.id = id], Held, There, auth)
  BY DEF Learnt, Idle
<1> QED BY <1>1, <1>4, <1>5, BeginKeeps DEF Idle

LEMMA ConnectKeeps ==
  ASSUME Inv, NEW u \in Users, Connect(u) PROVE Inv'
<1>1. PICK n \in Names, op \in {"connect", "export_key", "transfer_algo"} :
        /\ Exists(n)
        /\ Begin(u, [Idle EXCEPT !.op = op, !.pc = "open", !.name = n])
  BY DEF Connect
<1> DEFINE c == [Idle EXCEPT !.op = op, !.pc = "open", !.name = n]
<1>2. n \in There
  BY <1>1 DEF Exists, There
<1>3. op \in Ops /\ "open" \in Requests
  BY DEF Ops, Requests
<1>4. c \in Calls
  BY <1>3, IdleIsCall DEF Calls
<1>5. \A id \in 1 .. MaxCalls : Learnt([c EXCEPT !.id = id], Held, There, auth)
  BY <1>2 DEF Learnt, Idle
<1> QED BY <1>1, <1>4, <1>5, BeginKeeps DEF Idle

LEMMA RenameKeeps ==
  ASSUME Inv, NEW u \in Users, Rename(u) PROVE Inv'
<1>1. PICK n \in Names :
        /\ session[u] # Disconnected
        /\ Begin(u, [Idle EXCEPT !.op = "rename", !.pc = "rename", !.name = n])
  BY DEF Rename
<1> DEFINE c == [Idle EXCEPT !.op = "rename", !.pc = "rename", !.name = n]
<1>2. "rename" \in Ops /\ "rename" \in Requests
  BY DEF Ops, Requests
<1>3. c \in Calls
  BY <1>2, IdleIsCall DEF Calls
<1>4. \A id \in 1 .. MaxCalls : Learnt([c EXCEPT !.id = id], Held, There, auth)
  BY DEF Learnt, Idle
<1> QED BY <1>1, <1>3, <1>4, BeginKeeps DEF Idle

\* The wallet of a session is one that KMD has.
LEMMA SessionWallet ==
  ASSUME Inv, NEW u \in Users, session[u] # Disconnected
  PROVE  session[u].wallet \in Wallets /\ wallet[session[u].wallet].name # NoName
  BY DEF Inv, SessionsExist

LEMMA RekeyKeeps ==
  ASSUME Inv, NEW u \in Users, Rekey(u) PROVE Inv'
<1> DEFINE w == session[u].wallet
<1>1. w \in Wallets /\ SessionTypeOK
  BY SessionWallet DEF Rekey, Inv
<1>2. PICK a \in wallet[w].keys :
        Begin(u, [Idle EXCEPT !.op = "rekey", !.pc = "to", !.wallet = w, !.account = a])
  BY DEF Rekey
<1> DEFINE c == [Idle EXCEPT !.op = "rekey", !.pc = "to", !.wallet = w, !.account = a]
<1>3. a \in Held[w] /\ a \in Accounts
  BY <1>1, HeldKeys
<1>4. "rekey" \in Ops /\ "to" \in Requests /\ w \in Optional(Wallets) /\ a \in Optional(Accounts)
  BY <1>1, <1>3 DEF Ops, Requests, Optional
<1>5. c \in Calls
  BY <1>4, IdleIsCall DEF Calls
<1>6. \A id \in 1 .. MaxCalls : Learnt([c EXCEPT !.id = id], Held, There, auth)
  BY <1>1, <1>3 DEF Learnt, Idle
<1> QED BY <1>2, <1>5, <1>6, BeginKeeps DEF Idle

LEMMA ImportMultisigKeeps ==
  ASSUME Inv, NEW u \in Users, ImportMultisig(u) PROVE Inv'
<1> DEFINE w == session[u].wallet
<1>1. w \in Wallets
  BY SessionWallet DEF ImportMultisig
<1>2. PICK m \in Multisigs :
        Begin(u, [Idle EXCEPT !.op = "import_multisig", !.pc = "key", !.wallet = w,
                              !.multisig = m, !.todo = m])
  BY DEF ImportMultisig
<1> DEFINE c == [Idle EXCEPT !.op = "import_multisig", !.pc = "key", !.wallet = w,
                             !.multisig = m, !.todo = m]
<1>3. "import_multisig" \in Ops /\ "key" \in Requests /\ w \in Optional(Wallets)
      /\ m \in SUBSET Accounts
  BY <1>1, WalletAssumption DEF Ops, Requests, Optional, WalletAssumption
<1>4. c \in Calls
  BY <1>3, IdleIsCall DEF Calls
<1>5. \A id \in 1 .. MaxCalls : Learnt([c EXCEPT !.id = id], Held, There, auth)
  BY <1>1 DEF Learnt, Idle
<1> QED BY <1>2, <1>4, <1>5, BeginKeeps DEF Idle

LEMMA SignMultisigKeeps ==
  ASSUME Inv, NEW u \in Users, SignMultisig(u) PROVE Inv'
<1> DEFINE w == session[u].wallet
<1>1. w \in Wallets /\ SessionTypeOK
  BY SessionWallet DEF SignMultisig, Inv
<1>2. PICK m \in wallet[w].multisigs, sender \in {"multisig", "rekeyed", "other"} :
        \E a \in Optional(m) :
          Begin(u, [Idle EXCEPT !.op = "sign_multisig", !.pc = "key", !.multisig = m,
                                !.wallet = w, !.account = a, !.sender = sender,
                                !.todo = IF a = None THEN m ELSE {a}])
  BY DEF SignMultisig
<1>3. PICK a \in Optional(m) :
        Begin(u, [Idle EXCEPT !.op = "sign_multisig", !.pc = "key", !.multisig = m,
                              !.wallet = w, !.account = a, !.sender = sender,
                              !.todo = IF a = None THEN m ELSE {a}])
  BY <1>2
<1> DEFINE c == [Idle EXCEPT !.op = "sign_multisig", !.pc = "key", !.multisig = m,
                             !.wallet = w, !.account = a, !.sender = sender,
                             !.todo = IF a = None THEN m ELSE {a}]
<1>4. m \in SUBSET Accounts
  BY <1>1, HeldKeys, WalletAssumption DEF WalletAssumption
<1>5. "sign_multisig" \in Ops /\ "key" \in Requests /\ w \in Optional(Wallets)
      /\ a \in Optional(Accounts) /\ (IF a = None THEN m ELSE {a}) \in SUBSET Accounts
  BY <1>1, <1>4 DEF Ops, Requests, Optional
<1>6. c \in Calls
  BY <1>4, <1>5, IdleIsCall DEF Calls
<1>7. \A id \in 1 .. MaxCalls : Learnt([c EXCEPT !.id = id], Held, There, auth)
  BY <1>1 DEF Learnt, Idle
<1> QED BY <1>3, <1>6, <1>7, BeginKeeps DEF Idle

LEMMA GetRekeyedKeeps ==
  ASSUME Inv, NEW u \in Users, GetRekeyedAccounts(u) PROVE Inv'
<1> DEFINE w == session[u].wallet
           pc == IF wallet[w].keys = {} THEN "returned" ELSE "key"
           c == [Idle EXCEPT !.op = "get_rekeyed_accounts", !.wallet = w, !.todo = wallet[w].keys,
                             !.pc = pc]
<1>1. w \in Wallets /\ SessionTypeOK
  BY SessionWallet DEF GetRekeyedAccounts, Inv
<1>2. Begin(u, c)
  BY DEF GetRekeyedAccounts
<1>3. "get_rekeyed_accounts" \in Ops /\ pc \in Requests /\ w \in Optional(Wallets)
      /\ wallet[w].keys \in SUBSET Accounts
  BY <1>1, HeldKeys DEF Ops, Requests, Optional
<1>4. c \in Calls
  BY <1>3, IdleIsCall DEF Calls
<1>5. \A id \in 1 .. MaxCalls : Learnt([c EXCEPT !.id = id], Held, There, auth)
  BY <1>1 DEF Learnt, Idle
<1>6. c.pc # "idle" /\ c.pc # "rename"
  BY DEF Idle
<1> QED BY <1>2, <1>4, <1>5, <1>6, BeginKeeps

-----------------------------------------------------------------------------
(***************************************************************************)
(* Operations go on with a request that only reads.                        *)
(***************************************************************************)

\* An operation that ends, normally or not.
LEMMA EndKeeps ==
  ASSUME Inv, NEW u \in Users, Reads(u, Idle) PROVE Inv'
  BY ReadsKeeps, IdleIsCall, IdleLearns DEF Idle

LEMMA CallFacts ==
  ASSUME Inv, NEW u \in Users
  PROVE  call[u] \in Calls /\ SessionTypeOK /\ Learnt(call[u], Held, There, auth)
  BY DEF Inv, SessionTypeOK, CallsLearn

LEMMA HoldsSenderKeeps ==
  ASSUME Inv, NEW u \in Users, HoldsSender(u) PROVE Inv'
<1> DEFINE d == call[u]
<1>1. d \in Calls /\ SessionTypeOK /\ Learnt(d, Held, There, auth) /\ d.pc = "account"
  BY CallFacts DEF HoldsSender
<1>2. d.wallet \in Wallets
  BY <1>1 DEF Learnt
<1>3. PICK a \in wallet[d.wallet].keys : Reads(u, [d EXCEPT !.pc = "to", !.account = a])
  BY DEF HoldsSender
<1> DEFINE c == [d EXCEPT !.pc = "to", !.account = a]
<1>4. a \in Held[d.wallet] /\ a \in Optional(Accounts) /\ "to" \in Requests
  BY <1>1, <1>2, HeldKeys DEF Optional, Requests
<1> HIDE DEF d
<1>5. c \in Calls /\ c.pc = "to"
  BY <1>1, <1>4 DEF Calls
<1>6. Learnt(c, Held, There, auth)
  BY <1>1, <1>2, <1>4 DEF Learnt, Calls
<1> QED BY <1>3, <1>5, <1>6, ReadsKeeps

LEMMA HoldsTargetKeeps ==
  ASSUME Inv, NEW u \in Users, HoldsTarget(u) PROVE Inv'
<1> DEFINE d == call[u]
<1>1. d \in Calls /\ SessionTypeOK /\ Learnt(d, Held, There, auth) /\ d.pc = "to"
  BY CallFacts DEF HoldsTarget
<1>2. d.wallet \in Wallets
  BY <1>1 DEF Learnt
<1>3. PICK b \in wallet[d.wallet].keys : Reads(u, [d EXCEPT !.pc = "auth", !.to = b])
  BY DEF HoldsTarget
<1> DEFINE c == [d EXCEPT !.pc = "auth", !.to = b]
<1>4. b \in Held[d.wallet] /\ b \in Optional(Accounts) /\ "auth" \in Requests
  BY <1>1, <1>2, HeldKeys DEF Optional, Requests
<1> HIDE DEF d
<1>5. c \in Calls /\ c.pc = "auth"
  BY <1>1, <1>4 DEF Calls
<1>6. Learnt(c, Held, There, auth)
  BY <1>1, <1>2, <1>4 DEF Learnt, Calls
<1> QED BY <1>3, <1>5, <1>6, ReadsKeeps

LEMMA GetAuthAddressKeeps ==
  ASSUME Inv, NEW u \in Users, GetAuthAddress(u) PROVE Inv'
<1> DEFINE d == call[u]
           s == auth[d.account]
           left == d.changed \ {d.account}
           c == [d EXCEPT !.pc = "sign", !.signer = s, !.changed = @ \ {d.account}]
<1>1. d \in Calls /\ SessionTypeOK /\ Learnt(d, Held, There, auth) /\ d.pc = "auth"
  BY CallFacts DEF GetAuthAddress
<1>2. Reads(u, c)
  BY DEF GetAuthAddress
<1>3. d.wallet \in Wallets /\ d.account \in Held[d.wallet] /\ d.to \in Held[d.wallet]
  BY <1>1 DEF Learnt
<1>4. d.account \in Accounts
  BY <1>1, <1>3, HeldKeys
<1>5. s \in Optional(Accounts) /\ "sign" \in Requests
  BY <1>1, <1>4 DEF SessionTypeOK, Optional, Requests
<1> HIDE DEF d
<1>6. c \in Calls /\ c.pc = "sign"
  BY <1>1, <1>5 DEF Calls
<1>7. Learnt(c, Held, There, auth)
  BY <1>1, <1>3, <1>5 DEF Learnt, Calls
<1> QED BY <1>2, <1>6, <1>7, ReadsKeeps

LEMMA SignKeeps ==
  ASSUME Inv, NEW u \in Users, Sign(u) PROVE Inv'
<1> DEFINE d == call[u]
           c == [d EXCEPT !.pc = "send"]
<1>1. d \in Calls /\ SessionTypeOK /\ Learnt(d, Held, There, auth) /\ d.pc = "sign"
  BY CallFacts DEF Sign
<1>2. Reads(u, c) /\ d.signer \in wallet[d.wallet].keys
  BY DEF Sign, Holds
<1>3. d.wallet \in Wallets
  BY <1>1 DEF Learnt
<1>4. d.signer \in Held[d.wallet] /\ "send" \in Requests
  BY <1>1, <1>2, <1>3, HeldKeys DEF Requests
<1> HIDE DEF d
<1>5. c \in Calls /\ c.pc = "send"
  BY <1>1, <1>4 DEF Calls
<1>6. Learnt(c, Held, There, auth)
  BY <1>1, <1>3, <1>4 DEF Learnt, Calls
<1> QED BY <1>2, <1>5, <1>6, ReadsKeeps

LEMMA ImportNeedsKeyKeeps ==
  ASSUME Inv, NEW u \in Users, NEW k, ImportNeedsKey(u, k) PROVE Inv'
<1> DEFINE d == call[u]
<1>1. /\ d \in Calls /\ SessionTypeOK /\ Learnt(d, Held, There, auth)
      /\ d.pc = "key" /\ d.op = "import_multisig" /\ k \in d.todo
  BY CallFacts DEF ImportNeedsKey, At
<1>2. d.wallet \in Wallets /\ d.multisig \in Multisigs /\ d.todo \subseteq d.multisig
  BY <1>1 DEF Learnt
<1>3. CASE Holds(d.wallet, k)
  <2> DEFINE c == [d EXCEPT !.pc = "import"]
  <2>1. Reads(u, c)
    BY <1>3 DEF ImportNeedsKey
  <2>2. k \in d.multisig \cap Held[d.wallet] /\ "import" \in Requests
    BY <1>1, <1>2, <1>3, HeldKeys DEF Holds, Requests
  <2> HIDE DEF d
  <2>3. c \in Calls /\ c.pc = "import"
    BY <1>1, <2>2 DEF Calls
  <2>4. Learnt(c, Held, There, auth)
    BY <1>1, <1>2, <2>2 DEF Learnt, Calls
  <2> QED BY <2>1, <2>3, <2>4, ReadsKeeps
<1>4. CASE ~Holds(d.wallet, k)
  <2> DEFINE c == [d EXCEPT !.todo = @ \ {k}]
  <2>1. Reads(u, c)
    BY <1>4 DEF ImportNeedsKey
  <2> HIDE DEF d
  <2>2. c \in Calls /\ c.pc = "key"
    BY <1>1 DEF Calls
  <2>3. Learnt(c, Held, There, auth)
    BY <1>1, <1>2 DEF Learnt, Calls
  <2> QED BY <2>1, <2>2, <2>3, ReadsKeeps
<1> QED BY <1>3, <1>4

\* Signing for a multisig and listing the rekeyed accounts learn nothing that the
\* invariant speaks of: the wallet of the operation stays.
LEMMA OtherwiseLearns ==
  ASSUME Inv, NEW u \in Users, NEW c \in Calls,
         call[u].pc \in {"key", "with", "fallback"},
         call[u].op \in {"sign_multisig", "get_rekeyed_accounts"},
         c.pc \in {"key", "with", "fallback", "returned"},
         c.pc \in {"with", "fallback"} => c.op = "sign_multisig",
         c.op = call[u].op, c.id = call[u].id, c.wallet = call[u].wallet
  PROVE  Learnt(c, Held, There, auth)
<1>1. Learnt(call[u], Held, There, auth)
  BY CallFacts
<1> QED BY <1>1 DEF Learnt

LEMMA SignNeedsKeyKeeps ==
  ASSUME Inv, NEW u \in Users, NEW k, SignNeedsKey(u, k) PROVE Inv'
<1> DEFINE d == call[u]
           c == IF Holds(d.wallet, k) THEN [d EXCEPT !.pc = "with", !.to = k]
                ELSE [d EXCEPT !.todo = @ \ {k}]
<1>1. d \in Calls /\ d.pc = "key" /\ d.op = "sign_multisig" /\ k \in d.todo /\ Reads(u, c)
  BY CallFacts DEF SignNeedsKey, At
<1>2. k \in Optional(Accounts) /\ "with" \in Requests
  BY <1>1 DEF Calls, Optional, Requests
<1>3. c \in Calls /\ c.pc \in {"with", "key"} /\ c.op = d.op /\ c.id = d.id /\ c.wallet = d.wallet
  <2> HIDE DEF d
  <2>1. CASE Holds(d.wallet, k)
    BY <1>1, <1>2, <2>1 DEF Calls
  <2>2. CASE ~Holds(d.wallet, k)
    BY <1>1, <2>2 DEF Calls
  <2> QED BY <2>1, <2>2
<1> HIDE DEF c
<1>4. Learnt(c, Held, There, auth)
  BY <1>1, <1>3, OtherwiseLearns
<1> QED BY <1>1, <1>3, <1>4, ReadsKeeps

LEMMA ReadAuthAddressKeeps ==
  ASSUME Inv, NEW u \in Users, NEW k, ReadAuthAddress(u, k) PROVE Inv'
<1> DEFINE d == call[u]
           f == IF IsRekeyed(k) THEN d.found \cup {k} ELSE d.found
           pc == IF d.todo = {k} THEN "returned" ELSE "key"
           c == [d EXCEPT !.found = f, !.todo = @ \ {k}, !.pc = pc]
<1>1. d \in Calls /\ d.pc = "key" /\ d.op = "get_rekeyed_accounts" /\ k \in d.todo
  BY CallFacts DEF ReadAuthAddress, At
<1>2. Reads(u, c)
  BY <1>1 DEF ReadAuthAddress, Calls
<1>3. f \in SUBSET Accounts /\ pc \in Requests /\ pc \in {"key", "returned"}
  BY <1>1 DEF Calls, Requests
<1> HIDE DEF d, f, pc
<1>4. c \in Calls /\ c.pc = pc /\ c.op = d.op /\ c.id = d.id /\ c.wallet = d.wallet
  BY <1>1, <1>3 DEF Calls
<1> HIDE DEF c
<1>5. Learnt(c, Held, There, auth)
  BY <1>1, <1>3, <1>4, OtherwiseLearns DEF d
<1> QED BY <1>2, <1>3, <1>4, <1>5, ReadsKeeps

LEMMA SignWithKeeps ==
  ASSUME Inv, NEW u \in Users, SignWith(u) PROVE Inv'
<1> DEFINE d == call[u]
           c == [d EXCEPT !.pc = "key", !.todo = @ \ {d.to}, !.found = @ \cup {d.to}]
<1>1. d \in Calls /\ d.pc = "with" /\ d.to \in wallet[d.wallet].keys /\ Reads(u, c)
      /\ SessionTypeOK /\ Learnt(d, Held, There, auth)
  BY CallFacts DEF SignWith, Holds
<1>2. d.wallet \in Wallets /\ d.op = "sign_multisig"
  BY <1>1 DEF Learnt
<1>3. d.to \in Accounts /\ "key" \in Requests
  BY <1>1, <1>2, HeldKeys DEF Requests
<1>4. c \in Calls /\ c.pc = "key" /\ c.op = d.op /\ c.id = d.id /\ c.wallet = d.wallet
  <2> HIDE DEF d
  <2> QED BY <1>1, <1>3 DEF Calls
<1> HIDE DEF c
<1>5. Learnt(c, Held, There, auth)
  BY <1>1, <1>2, <1>4, OtherwiseLearns
<1> QED BY <1>1, <1>4, <1>5, ReadsKeeps

LEMMA KmdRefusesKeeps ==
  ASSUME Inv, NEW u \in Users, KmdRefuses(u) PROVE Inv'
<1> DEFINE d == call[u]
           c == [d EXCEPT !.pc = "fallback"]
<1>1. d \in Calls /\ d.pc \in {"with", "key"} /\ d.op = "sign_multisig" /\ Reads(u, c)
  BY CallFacts DEF KmdRefuses
<1>2. c \in Calls /\ c.pc = "fallback" /\ c.op = d.op /\ c.id = d.id /\ c.wallet = d.wallet
  <2> HIDE DEF d
  <2>1. "fallback" \in Requests
    BY DEF Requests
  <2> QED BY <1>1, <2>1 DEF Calls
<1> HIDE DEF c
<1>3. Learnt(c, Held, There, auth)
  BY <1>1, <1>2, OtherwiseLearns
<1> QED BY <1>1, <1>2, <1>3, ReadsKeeps

LEMMA FallBackKeeps ==
  ASSUME Inv, NEW u \in Users, FallBack(u) PROVE Inv'
<1> DEFINE d == call[u]
           pc == IF d.account = None THEN "key" ELSE "with"
           c == [d EXCEPT !.fallback = TRUE, !.todo = EveryKey(u), !.pc = pc]
<1>1. d \in Calls /\ d.pc = "fallback" /\ d.op = "sign_multisig" /\ Reads(u, c)
  BY CallFacts DEF FallBack, Learnt
<1>2. EveryKey(u) \in SUBSET Accounts /\ pc \in Requests /\ pc \in {"key", "with"}
  BY <1>1 DEF EveryKey, Calls, Requests, Optional
<1>3. TRUE \in BOOLEAN
  OBVIOUS
<1>4. c \in Calls /\ c.pc = pc /\ c.op = d.op /\ c.id = d.id /\ c.wallet = d.wallet
  <2> HIDE DEF d, pc
  <2> QED BY <1>1, <1>2, <1>3 DEF Calls
<1> HIDE DEF c
<1>5. Learnt(c, Held, There, auth)
  BY <1>1, <1>2, <1>4, OtherwiseLearns
<1> QED BY <1>1, <1>2, <1>4, <1>5, ReadsKeeps

LEMMA SignReturnsKeeps ==
  ASSUME Inv, NEW u \in Users, SignReturns(u) PROVE Inv'
<1> DEFINE d == call[u]
           c == [d EXCEPT !.pc = "returned"]
<1>1. d \in Calls /\ d.pc = "key" /\ d.op = "sign_multisig" /\ Reads(u, c)
  BY CallFacts DEF SignReturns, At
<1>2. c \in Calls /\ c.pc = "returned" /\ c.op = d.op /\ c.id = d.id /\ c.wallet = d.wallet
  <2> HIDE DEF d
  <2>1. "returned" \in Requests
    BY DEF Requests
  <2> QED BY <1>1, <2>1 DEF Calls
<1> HIDE DEF c
<1>3. Learnt(c, Held, There, auth)
  BY <1>1, <1>2, OtherwiseLearns
<1> QED BY <1>1, <1>2, <1>3, ReadsKeeps

-----------------------------------------------------------------------------
(***************************************************************************)
(* Steps that change a session, a wallet, or the chain.                    *)
(***************************************************************************)
LEMMA DisconnectKeeps ==
  ASSUME Inv, NEW u \in Users, Disconnect(u) PROVE Inv'
<1>1. UNCHANGED <<wallet, auth, pending, confirmed, call, calls>>
      /\ session' = [session EXCEPT ![u] = Disconnected] /\ call[u] = Idle
  BY DEF Disconnect
<1>2. SessionTypeOK /\ SessionsExist /\ CallsLearn
  BY DEF Inv
<1>3. Disconnected \in [wallet : Optional(Wallets), name : Names \cup {NoName}]
  BY DEF Disconnected, Optional
<1>4. SessionTypeOK'
  BY <1>1, <1>2, <1>3 DEF SessionTypeOK
<1>5. SessionsExist'
  BY <1>1, <1>2 DEF SessionsExist, SessionTypeOK, Idle
<1>6. CallsLearn'
  BY <1>1, <1>2, Frame DEF CallsLearn
<1> QED BY <1>1, <1>4, <1>5, <1>6, Frame DEF Inv

\* Wallet w is open: what Opened(u, w) does to the session and the call.
LEMMA OpenedIs ==
  ASSUME Inv, NEW u \in Users, NEW w \in Wallets, Opened(u, w), call[u].pc \in {"open", "make"}
  PROVE  /\ session' \in [Users -> [wallet : Optional(Wallets), name : Names \cup {NoName}]]
         /\ \E c \in Calls : /\ call' = [call EXCEPT ![u] = c]
                             /\ c.pc \in {"idle", "account"}
                             /\ c.pc = "account" => c.wallet \in Wallets /\ c.id \in 1 .. MaxCalls
         /\ \A v \in Users : session'[v] = session[v] \/ session'[v].wallet = w
<1> DEFINE d == call[u]
           s == [wallet |-> w, name |-> d.name]
<1>1. d \in Calls /\ SessionTypeOK /\ Learnt(d, Held, There, auth)
  BY CallFacts
<1>2. s \in [wallet : Optional(Wallets), name : Names \cup {NoName}]
  BY <1>1 DEF Calls, Optional
<1>3. session' = IF d.op = "connect" THEN [session EXCEPT ![u] = s] ELSE session
  BY DEF Opened
<1>4. session' \in [Users -> [wallet : Optional(Wallets), name : Names \cup {NoName}]]
      /\ \A v \in Users : session'[v] = session[v] \/ session'[v].wallet = w
  BY <1>1, <1>2, <1>3 DEF SessionTypeOK
<1>5. CASE d.op = "transfer_algo"
  <2> DEFINE c == [d EXCEPT !.wallet = w, !.pc = "account"]
  <2>1. call' = [call EXCEPT ![u] = c]
    BY <1>1, <1>5 DEF Opened, SessionTypeOK
  <2>2. w \in Optional(Wallets) /\ "account" \in Requests /\ d.id \in 1 .. MaxCalls
    BY <1>1 DEF Optional, Requests, Learnt
  <2> HIDE DEF d
  <2>3. c \in Calls /\ c.pc = "account" /\ c.wallet = w /\ c.id = d.id
    BY <1>1, <2>2 DEF Calls
  <2> HIDE DEF c
  <2> QED BY <1>4, <2>1, <2>2, <2>3
<1>6. CASE d.op # "transfer_algo"
  <2>1. call' = [call EXCEPT ![u] = Idle]
    BY <1>1, <1>6 DEF Opened, SessionTypeOK
  <2>2. Idle.pc = "idle"
    BY DEF Idle
  <2> QED BY <1>4, <2>1, <2>2, IdleIsCall
<1> QED BY <1>5, <1>6

LEMMA AccountLearns ==
  ASSUME NEW c \in Calls, NEW held, NEW there, NEW au, c.pc \in {"idle", "account"},
         c.pc = "account" => c.wallet \in Wallets /\ c.id \in 1 .. MaxCalls
  PROVE  Learnt(c, held, there, au)
  BY DEF Learnt

LEMMA OpenKeeps ==
  ASSUME Inv, NEW u \in Users, Open(u) PROVE Inv'
<1> DEFINE d == call[u]
<1>1. d \in Calls /\ SessionTypeOK /\ Learnt(d, Held, There, auth) /\ d.pc = "open"
      /\ SessionsExist /\ CallsLearn
  BY CallFacts DEF Open, Inv
<1>2. CASE Exists(d.name)
  <2>1. PICK w \in Wallets : wallet[w].name = d.name /\ Opened(u, w)
    BY <1>2 DEF Open
  <2>2. UNCHANGED <<wallet, auth, pending, confirmed, calls>>
    BY <1>2 DEF Open
  <2>3. PICK c \in Calls : /\ call' = [call EXCEPT ![u] = c]
                           /\ c.pc \in {"idle", "account"}
                           /\ c.pc = "account" => c.wallet \in Wallets /\ c.id \in 1 .. MaxCalls
    BY <1>1, <2>1, OpenedIs
  <2>4. session' \in [Users -> [wallet : Optional(Wallets), name : Names \cup {NoName}]]
        /\ \A v \in Users : session'[v] = session[v] \/ session'[v].wallet = w
    BY <1>1, <2>1, OpenedIs
  <2>5. d.name # NoName
    BY <1>1, WalletAssumption DEF Learnt, WalletAssumption
  <2>6. SessionTypeOK'
    BY <1>1, <2>2, <2>3, <2>4 DEF SessionTypeOK
  <2>7. SessionsExist'
    BY <1>1, <2>1, <2>2, <2>3, <2>4, <2>5 DEF SessionsExist, SessionTypeOK
  <2>8. CallsLearn'
    BY <1>1, <2>2, <2>3, Frame, AccountLearns DEF CallsLearn, SessionTypeOK
  <2> QED BY <2>2, <2>6, <2>7, <2>8, Frame DEF Inv
<1>3. CASE ~Exists(d.name)
  <2> DEFINE c == [d EXCEPT !.pc = "make"]
  <2>1. Reads(u, c) /\ "make" \in Requests /\ d.name \notin There
    BY <1>3 DEF Open, Requests, Exists, There
  <2> HIDE DEF d
  <2>2. c \in Calls /\ c.pc = "make"
    BY <1>1, <2>1 DEF Calls
  <2>3. Learnt(c, Held, There, auth)
    BY <1>1, <2>1 DEF Learnt, Calls
  <2> QED BY <2>1, <2>2, <2>3, ReadsKeeps
<1> QED BY <1>2, <1>3

\* A wallet changes and nothing that was ever held is lost.
LEMMA HoldingsGrow ==
  ASSUME PendingInAWallet, RekeyedWithinAWallet, UNCHANGED <<auth, pending>>,
         \A w \in Wallets : EverHeld(w) \subseteq EverHeld(w)'
  PROVE  PendingInAWallet' /\ RekeyedWithinAWallet' /\ \A w \in Wallets : Held[w] \subseteq Held'[w]
<1>1. PendingInAWallet'
  BY DEF PendingInAWallet
<1>2. RekeyedWithinAWallet'
  BY DEF RekeyedWithinAWallet
<1>3. \A w \in Wallets : Held[w] \subseteq Held'[w]
  BY DEF Held
<1> QED BY <1>1, <1>2, <1>3

LEMMA MakeKeeps ==
  ASSUME Inv, NEW u \in Users, Make(u) PROVE Inv'
<1> DEFINE d == call[u]
<1>1. /\ d \in Calls /\ SessionTypeOK /\ Learnt(d, Held, There, auth) /\ d.pc = "make"
      /\ SessionsExist /\ CallsLearn /\ Wellformed /\ PendingInAWallet /\ RekeyedWithinAWallet
      /\ WalletsAreWanted /\ MultisigsAreSignable
      /\ UNCHANGED <<auth, pending, confirmed, calls>>
  BY CallFacts DEF Make, Inv
<1>2. PICK w \in Unused :
        /\ wallet' = [wallet EXCEPT ![w] =
             [NoWallet EXCEPT !.name = d.name, !.wanted = d.op = "create" \/ d.renamed,
                              !.seed = IF d.seed = None THEN w ELSE d.seed]]
        /\ IF d.op = "create" THEN call' = [call EXCEPT ![u] = Idle] /\ UNCHANGED session
           ELSE Opened(u, w)
  BY DEF Make
<1> DEFINE s == IF d.seed = None THEN w ELSE d.seed
           e == [NoWallet EXCEPT !.name = d.name, !.wanted = d.op = "create" \/ d.renamed, !.seed = s]
<1>3. w \in Wallets /\ wallet[w].name = NoName /\ EverHeld(w) = {} /\ d.name \in Names
      /\ d.name # NoName
  BY <1>1, WalletAssumption DEF Unused, Wellformed, Learnt, WalletAssumption
<1>4. s \in Wallets
  BY <1>1, <1>3 DEF Calls, Optional
<1>5. e \in Entries
  <2>1. 0 \in 0 .. MaxKeys
    BY WalletAssumption DEF WalletAssumption
  <2>2. (d.op = "create" \/ d.renamed) \in BOOLEAN
    BY Zenon
  <2>3. s \in Optional(Wallets) /\ d.name \in Names \cup {NoName}
    BY <1>3, <1>4 DEF Optional
  <2> HIDE DEF s, d
  <2> QED BY <2>1, <2>2, <2>3 DEF Entries, NoWallet
<1>6. e.name = d.name /\ e.seed = s /\ e.keys = {} /\ e.deleted = {} /\ e.multisigs = {}
  BY DEF NoWallet
<1>7. e.wanted
  <2>1. d.op = "create" \/ d.renamed
    BY <1>1 DEF Learnt
  <2>2. e.wanted = (d.op = "create" \/ d.renamed)
    BY DEF NoWallet
  <2> QED BY <2>1, <2>2
<1>8. wallet' = [wallet EXCEPT ![w] = e]
  BY <1>2
<1> HIDE DEF e, s
<1>9. wallet' \in [Wallets -> Entries] /\ wallet \in [Wallets -> Entries]
  BY <1>1, <1>3, <1>5, <1>8 DEF SessionTypeOK
<1>10. \A v \in Wallets : EverHeld(v) \subseteq EverHeld(v)'
  BY <1>3, <1>8, <1>9 DEF EverHeld
<1>11. PendingInAWallet' /\ RekeyedWithinAWallet' /\ \A v \in Wallets : Held[v] \subseteq Held'[v]
  BY <1>1, <1>10, HoldingsGrow
<1>12. Wellformed'
  BY <1>1, <1>3, <1>4, <1>6, <1>8, <1>9 DEF Wellformed, EverHeld
<1>13. WalletsAreWanted' /\ MultisigsAreSignable'
  <2>1. WalletsAreWanted'
    BY <1>1, <1>7, <1>8, <1>9 DEF WalletsAreWanted
  <2>2. MultisigsAreSignable'
    BY <1>1, <1>6, <1>8, <1>9 DEF MultisigsAreSignable, EverHeld
  <2> QED BY <2>1, <2>2
<1>14. There \ {NoName} \subseteq There' /\ wallet'[w].name # NoName
       /\ \A v \in Wallets : wallet[v].name # NoName => wallet'[v].name # NoName
  BY <1>3, <1>6, <1>8, <1>9 DEF There
<1>15. \A v \in Users : Learnt(call[v], Held', There', auth)
  <2> TAKE v \in Users
  <2>1. call[v] \in Calls /\ Learnt(call[v], Held, There, auth)
    BY CallFacts
  <2> QED BY <2>1, <1>11, <1>14, WalletAssumption DEF Learnt, WalletAssumption
<1>16. CASE d.op = "create"
  <2>1. call' = [call EXCEPT ![u] = Idle] /\ session' = session
    BY <1>2, <1>16
  <2>2. SessionTypeOK'
    BY <1>1, <1>9, <2>1, IdleIsCall DEF SessionTypeOK
  <2>3. SessionsExist'
    BY <1>1, <1>14, <2>1 DEF SessionsExist, Idle, SessionTypeOK
  <2>4. CallsLearn'
    BY <1>1, <1>15, <2>1, IdleLearns DEF CallsLearn, SessionTypeOK
  <2> QED BY <1>11, <1>12, <1>13, <2>2, <2>3, <2>4 DEF Inv
<1>17. CASE d.op # "create"
  <2>1. Opened(u, w)
    BY <1>2, <1>17
  <2>2. PICK c \in Calls : /\ call' = [call EXCEPT ![u] = c]
                           /\ c.pc \in {"idle", "account"}
                           /\ c.pc = "account" => c.wallet \in Wallets /\ c.id \in 1 .. MaxCalls
    BY <1>1, <1>3, <2>1, OpenedIs
  <2>3. session' \in [Users -> [wallet : Optional(Wallets), name : Names \cup {NoName}]]
        /\ \A v \in Users : session'[v] = session[v] \/ session'[v].wallet = w
    BY <1>1, <1>3, <2>1, OpenedIs
  <2>4. SessionTypeOK'
    BY <1>1, <1>9, <2>2, <2>3 DEF SessionTypeOK
  <2>5. SessionsExist'
    BY <1>1, <1>3, <1>14, <2>2, <2>3 DEF SessionsExist, SessionTypeOK
  <2>6. CallsLearn'
    BY <1>1, <1>15, <2>2, AccountLearns DEF CallsLearn, SessionTypeOK
  <2> QED BY <1>11, <1>12, <1>13, <2>4, <2>5, <2>6 DEF Inv
<1> QED BY <1>16, <1>17

LEMMA SubmitRenameKeeps ==
  ASSUME Inv, NEW u \in Users, SubmitRename(u) PROVE Inv'
<1> DEFINE d == call[u]
           w == session[u].wallet
           e == [wallet[w] EXCEPT !.name = d.name]
           r(v) == [call[v] EXCEPT !.renamed = @ \/ call[v].name = wallet[w].name]
<1>1. /\ d \in Calls /\ SessionTypeOK /\ Learnt(d, Held, There, auth) /\ d.pc = "rename"
      /\ SessionsExist /\ CallsLearn /\ Wellformed /\ PendingInAWallet /\ RekeyedWithinAWallet
      /\ WalletsAreWanted /\ MultisigsAreSignable
      /\ UNCHANGED <<auth, pending, confirmed, calls>>
  BY CallFacts DEF SubmitRename, At, Inv
<1>2. /\ wallet' = [wallet EXCEPT ![w].name = d.name]
      /\ session' = [session EXCEPT ![u].name = d.name]
      /\ call' = [v \in Users |-> IF v = u THEN Idle ELSE r(v)]
  BY DEF SubmitRename
<1>3. w \in Wallets /\ wallet[w].name # NoName /\ d.name \in Names /\ d.name # NoName
  BY <1>1, WalletAssumption DEF SessionsExist, Learnt, WalletAssumption
<1>4. wallet \in [Wallets -> Entries] /\ wallet' \in [Wallets -> Entries]
      /\ \A v \in Wallets : /\ v # w => wallet'[v] = wallet[v]
                            /\ wallet'[v].keys = wallet[v].keys
                            /\ wallet'[v].deleted = wallet[v].deleted
                            /\ wallet'[v].multisigs = wallet[v].multisigs
                            /\ wallet'[v].seed = wallet[v].seed
                            /\ wallet'[v].wanted = wallet[v].wanted
      /\ wallet'[w].name = d.name
  BY <1>1, <1>2, <1>3 DEF SessionTypeOK, Entries
<1>5. PendingInAWallet' /\ RekeyedWithinAWallet' /\ \A v \in Wallets : Held[v] \subseteq Held'[v]
  BY <1>1, <1>4, HoldingsGrow DEF EverHeld
<1>6. Wellformed'
  BY <1>1, <1>3, <1>4 DEF Wellformed, EverHeld
<1>7. WalletsAreWanted' /\ MultisigsAreSignable'
  BY <1>1, <1>4 DEF WalletsAreWanted, MultisigsAreSignable, EverHeld
<1>8. \A n \in There : n = wallet[w].name \/ n \in There'
  BY <1>4 DEF There
<1>9. \A v \in Users : /\ r(v) \in Calls
                       /\ \A f \in {"op", "pc", "id", "name", "wallet", "account", "to", "signer",
                                    "todo", "multisig", "changed"} : r(v)[f] = call[v][f]
                       /\ r(v).renamed = (call[v].renamed \/ call[v].name = wallet[w].name)
  <2> TAKE v \in Users
  <2>1. call[v] \in Calls
    BY <1>1 DEF SessionTypeOK
  <2>2. (call[v].renamed \/ call[v].name = wallet[w].name) \in BOOLEAN
    BY Zenon
  <2> QED BY <2>1, <2>2 DEF Calls
<1>10. \A v \in Users : Learnt(r(v), Held', There', auth)
  <2> TAKE v \in Users
  <2> DEFINE c == r(v)
             b == call[v]
  <2>1. b \in Calls /\ Learnt(b, Held, There, auth)
    BY CallFacts
  <2>2. c \in Calls /\ c.op = b.op /\ c.pc = b.pc /\ c.id = b.id /\ c.name = b.name
        /\ c.wallet = b.wallet /\ c.account = b.account /\ c.to = b.to /\ c.signer = b.signer
        /\ c.todo = b.todo /\ c.multisig = b.multisig /\ c.changed = b.changed
    BY <1>9
  <2>3. c.renamed <=> b.renamed \/ b.name = wallet[w].name
    BY <1>9
  <2> HIDE DEF c, b
  <2>4. b.name \in There => b.name = wallet[w].name \/ b.name \in There'
    BY <1>8
  <2>5. Learnt(c, Held', There', auth)
    BY <1>5, <2>1, <2>2, <2>3, <2>4 DEF Learnt
  <2> QED BY <2>5 DEF c
<1>11. /\ session' \in [Users -> [wallet : Optional(Wallets), name : Names \cup {NoName}]]
       /\ \A v \in Users : session'[v].wallet = session[v].wallet
       /\ \A v \in Users : v # u => session'[v] = session[v]
  BY <1>1, <1>2, <1>3 DEF SessionTypeOK
<1>12. \A v \in Users : call'[v] = IF v = u THEN Idle ELSE r(v)
  BY <1>2
<1>13. call' \in [Users -> Calls]
  BY <1>2, <1>9, IdleIsCall
<1>14. SessionTypeOK'
  BY <1>1, <1>4, <1>11, <1>13 DEF SessionTypeOK
<1>15. \A v \in Users : call'[v].pc = "rename" => call[v].pc = "rename"
  <2> TAKE v \in Users
  <2>1. r(v).pc = call[v].pc
    BY <1>9
  <2>2. Idle.pc = "idle"
    BY DEF Idle
  <2> HIDE DEF r
  <2> QED BY <1>12, <2>1, <2>2
<1> HIDE DEF r, d
<1>16. SessionsExist'
  <2> SUFFICES ASSUME NEW v \in Users, session'[v] # Disconnected \/ call'[v].pc = "rename"
               PROVE  session'[v].wallet \in Wallets /\ wallet'[session'[v].wallet].name # NoName
    BY DEF SessionsExist
  <2>1. v = u \/ session[v] # Disconnected \/ call[v].pc = "rename"
    BY <1>11, <1>15
  <2>2. session[v].wallet \in Wallets /\ wallet[session[v].wallet].name # NoName
    BY <1>1, <1>3, <2>1 DEF SessionsExist
  <2> QED BY <1>3, <1>4, <1>11, <2>2
<1>17. CallsLearn'
  BY <1>1, <1>10, <1>12, IdleLearns DEF CallsLearn
<1> QED BY <1>5, <1>6, <1>7, <1>14, <1>16, <1>17 DEF Inv

\* A mark on a call is all that a change of a key or of an authorization does to it.
LEMMA MarkedIs ==
  ASSUME NEW c \in Calls, NEW a \in Optional(Accounts), NEW w
  PROVE  /\ Marked(c, a, w) \in Calls
         /\ \A f \in {"op", "pc", "id", "name", "wallet", "account", "to", "signer",
                      "todo", "found", "multisig", "renamed"} : Marked(c, a, w)[f] = c[f]
         /\ c.changed \subseteq Marked(c, a, w).changed
<1>1. CASE c.pc # "idle" /\ (w = None \/ c.wallet = w)
  BY <1>1 DEF Marked, Calls
<1>2. CASE ~(c.pc # "idle" /\ (w = None \/ c.wallet = w))
  BY <1>2 DEF Marked, Calls
<1> QED BY <1>1, <1>2

LEMMA MarkedLearns ==
  ASSUME NEW c \in Calls, NEW a \in Optional(Accounts), NEW w, NEW held, NEW held2, NEW there, NEW au,
         Learnt(c, held, there, au), \A v \in Wallets : held[v] \subseteq held2[v]
  PROVE  Learnt(Marked(c, a, w), held2, there, au)
<1> DEFINE m == Marked(c, a, w)
<1>1. m \in Calls /\ m.op = c.op /\ m.pc = c.pc /\ m.id = c.id /\ m.name = c.name
      /\ m.wallet = c.wallet /\ m.account = c.account /\ m.to = c.to /\ m.signer = c.signer
      /\ m.todo = c.todo /\ m.multisig = c.multisig /\ m.renamed = c.renamed
      /\ c.changed \subseteq m.changed
  BY MarkedIs
<1> HIDE DEF m
<1>2. Learnt(m, held2, there, au)
  BY <1>1 DEF Learnt
<1> QED BY <1>2 DEF m

\* The keys and multisigs of the wallet of a session change.
LEMMA ChangesKeeps ==
  ASSUME Inv, NEW u \in Users, NEW w \in Wallets, wallet[w].name # NoName,
         NEW e \in Entries, NEW a \in Optional(Accounts), Changes(u, w, e, a),
         e.name = wallet[w].name, e.seed = wallet[w].seed, e.wanted = wallet[w].wanted,
         EverHeld(w) \subseteq e.keys \cup e.deleted, e.multisigs \subseteq wallet[w].multisigs
  PROVE  Inv'
<1>1. /\ SessionTypeOK /\ SessionsExist /\ CallsLearn /\ Wellformed /\ PendingInAWallet
      /\ RekeyedWithinAWallet /\ WalletsAreWanted /\ MultisigsAreSignable
      /\ wallet \in [Wallets -> Entries] /\ call \in [Users -> Calls]
  BY DEF Inv, SessionTypeOK
<1>2. UNCHANGED <<auth, pending, confirmed, session, calls>>
      /\ wallet' = [wallet EXCEPT ![w] = e]
      /\ call' = [v \in Users |-> Marked(call[v], a, w)]
  BY DEF Changes
<1>3. wallet' \in [Wallets -> Entries] /\ wallet'[w] = e
      /\ \A v \in Wallets : v # w => wallet'[v] = wallet[v]
  BY <1>1, <1>2
<1>4. \A v \in Wallets : EverHeld(v) \subseteq EverHeld(v)' /\ wallet'[v].name = wallet[v].name
  BY <1>3 DEF EverHeld
<1>5. PendingInAWallet' /\ RekeyedWithinAWallet' /\ \A v \in Wallets : Held[v] \subseteq Held'[v]
  BY <1>1, <1>2, <1>4, HoldingsGrow
<1>6. Wellformed'
  BY <1>1, <1>3 DEF Wellformed, EverHeld
<1>7. WalletsAreWanted'
  BY <1>1, <1>3 DEF WalletsAreWanted
<1>8. MultisigsAreSignable'
  BY <1>1, <1>3, <1>4 DEF MultisigsAreSignable
<1>9. There' = There
  BY <1>4 DEF There
<1>10. call' \in [Users -> Calls] /\ \A v \in Users : call'[v].pc = call[v].pc
  BY <1>1, <1>2, MarkedIs
<1>11. CallsLearn'
  BY <1>1, <1>2, <1>5, <1>9, MarkedLearns DEF CallsLearn
<1>12. SessionTypeOK'
  BY <1>1, <1>2, <1>3, <1>10 DEF SessionTypeOK
<1>13. SessionsExist'
  BY <1>1, <1>2, <1>4, <1>10 DEF SessionsExist
<1> QED BY <1>5, <1>6, <1>7, <1>8, <1>11, <1>12, <1>13 DEF Inv

LEMMA GenerateKeyKeeps ==
  ASSUME Inv, NEW u \in Users, GenerateKey(u) PROVE Inv'
<1> DEFINE w == session[u].wallet
           n == wallet[w].generated + 1
           a == <<wallet[w].seed, n>>
           e == [wallet[w] EXCEPT !.generated = n, !.keys = @ \cup {a}]
<1>1. w \in Wallets /\ wallet[w].name # NoName /\ wallet[w] \in Entries
  BY SessionWallet DEF GenerateKey, Inv, SessionTypeOK
<1>2. n <= MaxKeys /\ Changes(u, w, e, a)
  BY DEF GenerateKey
<1>3. wallet[w].seed \in Wallets
  BY <1>1 DEF Inv, Wellformed
<1>4. n \in 1 .. MaxKeys /\ n \in 0 .. MaxKeys
  BY <1>1, <1>2, WalletAssumption DEF Entries, WalletAssumption
<1>5. a \in Accounts /\ a \in Optional(Accounts)
  BY <1>3, <1>4 DEF Accounts, Optional
<1> HIDE DEF a, n
<1>6. e \in Entries /\ e.name = wallet[w].name /\ e.seed = wallet[w].seed
      /\ e.wanted = wallet[w].wanted /\ EverHeld(w) \subseteq e.keys \cup e.deleted
      /\ e.multisigs \subseteq wallet[w].multisigs
  BY <1>1, <1>4, <1>5 DEF Entries, EverHeld
<1> QED BY <1>1, <1>2, <1>5, <1>6, ChangesKeeps

LEMMA DeleteKeyKeeps ==
  ASSUME Inv, NEW u \in Users, DeleteKey(u) PROVE Inv'
<1> DEFINE w == session[u].wallet
<1>1. w \in Wallets /\ wallet[w].name # NoName /\ wallet[w] \in Entries
  BY SessionWallet DEF DeleteKey, Inv, SessionTypeOK
<1>2. PICK a \in wallet[w].keys :
        Changes(u, w, [wallet[w] EXCEPT !.keys = @ \ {a}, !.deleted = @ \cup {a}], a)
  BY DEF DeleteKey
<1> DEFINE e == [wallet[w] EXCEPT !.keys = @ \ {a}, !.deleted = @ \cup {a}]
<1>3. a \in Accounts /\ a \in Optional(Accounts)
  BY <1>1 DEF Entries, Optional
<1>4. e \in Entries /\ e.name = wallet[w].name /\ e.seed = wallet[w].seed
      /\ e.wanted = wallet[w].wanted /\ EverHeld(w) \subseteq e.keys \cup e.deleted
      /\ e.multisigs \subseteq wallet[w].multisigs
  BY <1>1, <1>3 DEF Entries, EverHeld
<1> QED BY <1>1, <1>2, <1>3, <1>4, ChangesKeeps

LEMMA DeleteMultisigKeeps ==
  ASSUME Inv, NEW u \in Users, DeleteMultisig(u) PROVE Inv'
<1> DEFINE w == session[u].wallet
<1>1. w \in Wallets /\ wallet[w].name # NoName /\ wallet[w] \in Entries
  BY SessionWallet DEF DeleteMultisig, Inv, SessionTypeOK
<1>2. PICK m \in wallet[w].multisigs :
        Changes(u, w, [wallet[w] EXCEPT !.multisigs = @ \ {m}], None)
  BY DEF DeleteMultisig
<1> DEFINE e == [wallet[w] EXCEPT !.multisigs = @ \ {m}]
<1>3. None \in Optional(Accounts)
  BY DEF Optional
<1>4. e \in Entries /\ e.name = wallet[w].name /\ e.seed = wallet[w].seed
      /\ e.wanted = wallet[w].wanted /\ EverHeld(w) \subseteq e.keys \cup e.deleted
      /\ e.multisigs \subseteq wallet[w].multisigs
  BY <1>1 DEF Entries, EverHeld
<1> QED BY <1>1, <1>2, <1>3, <1>4, ChangesKeeps

LEMMA ImportKeeps ==
  ASSUME Inv, NEW u \in Users, Import(u) PROVE Inv'
<1> DEFINE d == call[u]
           w == d.wallet
<1>1. /\ d \in Calls /\ SessionTypeOK /\ Learnt(d, Held, There, auth) /\ d.pc = "import"
      /\ SessionsExist /\ CallsLearn /\ Wellformed /\ PendingInAWallet /\ RekeyedWithinAWallet
      /\ WalletsAreWanted /\ MultisigsAreSignable
      /\ UNCHANGED <<auth, pending, confirmed, session, calls>>
  BY CallFacts DEF Import, Inv
<1>2. wallet' = [wallet EXCEPT ![w].multisigs = @ \cup {d.multisig}]
      /\ call' = [call EXCEPT ![u] = Idle]
  BY DEF Import
<1>3. w \in Wallets /\ d.multisig \in Multisigs /\ d.multisig \cap EverHeld(w) # {}
  BY <1>1, HeldKeys DEF Learnt
<1> HIDE DEF d
<1> DEFINE e == [wallet[w] EXCEPT !.multisigs = @ \cup {d.multisig}]
<1>4. e \in Entries /\ wallet \in [Wallets -> Entries]
      /\ e.name = wallet[w].name /\ e.seed = wallet[w].seed /\ e.wanted = wallet[w].wanted
      /\ e.keys = wallet[w].keys /\ e.deleted = wallet[w].deleted
      /\ e.multisigs = wallet[w].multisigs \cup {d.multisig}
  BY <1>1, <1>3 DEF SessionTypeOK, Entries
<1>5. wallet' = [wallet EXCEPT ![w] = e]
  BY <1>2
<1> HIDE DEF e, w
<1>6. wallet' \in [Wallets -> Entries] /\ wallet'[w] = e
      /\ \A v \in Wallets : v # w => wallet'[v] = wallet[v]
  BY <1>3, <1>4, <1>5
<1>7. \A v \in Wallets : EverHeld(v)' = EverHeld(v) /\ wallet'[v].name = wallet[v].name
  BY <1>4, <1>6 DEF EverHeld
<1>8. PendingInAWallet' /\ RekeyedWithinAWallet' /\ \A v \in Wallets : Held[v] \subseteq Held'[v]
  BY <1>1, <1>7, HoldingsGrow
<1>9. wallet[w].name # NoName
  BY <1>1, <1>3 DEF Wellformed
<1>10. Wellformed' /\ WalletsAreWanted' /\ MultisigsAreSignable'
  <2>1. Wellformed'
    BY <1>1, <1>4, <1>6, <1>7, <1>9 DEF Wellformed
  <2>2. WalletsAreWanted'
    BY <1>1, <1>4, <1>6 DEF WalletsAreWanted
  <2>3. MultisigsAreSignable'
    BY <1>1, <1>3, <1>4, <1>6, <1>7 DEF MultisigsAreSignable
  <2> QED BY <2>1, <2>2, <2>3
<1>11. There' = There
  BY <1>7 DEF There
<1>12. call' \in [Users -> Calls] /\ \A v \in Users : call'[v] = IF v = u THEN Idle ELSE call[v]
  BY <1>1, <1>2, IdleIsCall DEF SessionTypeOK
<1>13. \A v \in Users : Learnt(call[v], Held', There', auth)
  BY <1>1, <1>8, <1>11, LearntStays DEF CallsLearn, SessionTypeOK
<1>14. CallsLearn'
  BY <1>1, <1>12, <1>13, IdleLearns DEF CallsLearn
<1>15. SessionTypeOK'
  BY <1>1, <1>6, <1>12 DEF SessionTypeOK
<1>16. SessionsExist'
  BY <1>1, <1>7, <1>12 DEF SessionsExist, Idle
<1> QED BY <1>8, <1>10, <1>14, <1>15, <1>16 DEF Inv

LEMMA SendKeeps ==
  ASSUME Inv, NEW u \in Users, Send(u) PROVE Inv'
<1> DEFINE d == call[u]
           t == [id |-> d.id, op |-> d.op, account |-> d.account, to |-> d.to, signer |-> d.signer]
           c == [d EXCEPT !.pc = "wait"]
<1>1. /\ d \in Calls /\ SessionTypeOK /\ Learnt(d, Held, There, auth) /\ d.pc = "send"
      /\ SessionsExist /\ CallsLearn /\ Wellformed /\ PendingInAWallet /\ RekeyedWithinAWallet
      /\ WalletsAreWanted /\ MultisigsAreSignable
      /\ UNCHANGED <<wallet, auth, confirmed, session, calls>>
      /\ pending' = pending \cup {t}
  BY CallFacts DEF Send, Inv
<1>2. call' = [call EXCEPT ![u] = c]
  BY <1>1 DEF Send, SessionTypeOK
<1>3. d.wallet \in Wallets /\ d.id \in 1 .. MaxCalls
      /\ {d.account, d.to, d.signer} \subseteq Held[d.wallet]
  BY <1>1 DEF Learnt
<1>4. Held[d.wallet] = EverHeld(d.wallet) /\ Held[d.wallet] \subseteq Accounts
  BY <1>1, <1>3, HeldKeys
<1>5. t \in Txns /\ {t.account, t.to} \subseteq EverHeld(d.wallet)
  BY <1>1, <1>3, <1>4 DEF Txns, Calls
<1>6. c \in Calls /\ c.pc = "wait" /\ c.wallet = d.wallet /\ c.id = d.id
  <2>1. "wait" \in Requests
    BY DEF Requests
  <2> HIDE DEF d
  <2> QED BY <1>1, <2>1 DEF Calls
<1> HIDE DEF c, t, d
<1>7. Learnt(c, Held, There, auth)
  BY <1>3, <1>6 DEF Learnt
<1>8. PendingInAWallet'
  BY <1>1, <1>3, <1>5 DEF PendingInAWallet, EverHeld
<1>9. RekeyedWithinAWallet' /\ Wellformed' /\ WalletsAreWanted' /\ MultisigsAreSignable'
      /\ Held' = Held /\ There' = There
  BY <1>1 DEF RekeyedWithinAWallet, Wellformed, WalletsAreWanted, MultisigsAreSignable, Held,
              There, EverHeld
<1>10. SessionTypeOK'
  BY <1>1, <1>2, <1>5, <1>6 DEF SessionTypeOK
<1>11. SessionsExist'
  BY <1>1, <1>2, <1>6 DEF SessionsExist, SessionTypeOK
<1>12. CallsLearn'
  BY <1>1, <1>2, <1>7, <1>9 DEF CallsLearn, SessionTypeOK
<1> QED BY <1>8, <1>9, <1>10, <1>11, <1>12 DEF Inv

LEMMA ConfirmKeeps ==
  ASSUME Inv, NEW t \in pending, Confirm(t) PROVE Inv'
<1>1. /\ SessionTypeOK /\ SessionsExist /\ CallsLearn /\ Wellformed /\ PendingInAWallet
      /\ RekeyedWithinAWallet /\ WalletsAreWanted /\ MultisigsAreSignable
      /\ UNCHANGED <<wallet, session, calls>> /\ pending' = pending \ {t}
      /\ confirmed' = confirmed \cup {t.id}
  BY DEF Inv, Confirm
<1>2. t \in Txns /\ t.id \in 1 .. MaxCalls /\ t.account \in Accounts /\ t.to \in Accounts
  BY <1>1 DEF SessionTypeOK, Txns
<1>3. PICK w \in Wallets : {t.account, t.to} \subseteq EverHeld(w)
  BY <1>1 DEF PendingInAWallet
<1>4. Wellformed' /\ WalletsAreWanted' /\ MultisigsAreSignable' /\ PendingInAWallet'
      /\ Held' = Held /\ There' = There /\ \A v \in Wallets : EverHeld(v)' = EverHeld(v)
  BY <1>1 DEF Wellformed, WalletsAreWanted, MultisigsAreSignable, PendingInAWallet, Held, There,
              EverHeld
<1>5. CASE t.op = "rekey"
  <2>1. auth' = [auth EXCEPT ![t.account] = t.to]
        /\ call' = [u \in Users |-> Marked(call[u], t.account, None)]
    BY <1>5 DEF Confirm
  <2>2. auth \in [Accounts -> Accounts] /\ auth' \in [Accounts -> Accounts]
        /\ auth'[t.account] = t.to
        /\ \A a \in Accounts : a # t.account => auth'[a] = auth[a]
    BY <1>1, <1>2, <2>1 DEF SessionTypeOK
  <2>3. RekeyedWithinAWallet'
    BY <1>1, <1>3, <1>4, <2>2 DEF RekeyedWithinAWallet
  <2>4. t.account \in Optional(Accounts)
    BY <1>2 DEF Optional
  <2>5. call' \in [Users -> Calls] /\ \A u \in Users : call'[u].pc = call[u].pc
    BY <1>1, <2>1, <2>4, MarkedIs DEF SessionTypeOK
  <2>6. SessionTypeOK'
    BY <1>1, <1>2, <2>2, <2>5 DEF SessionTypeOK
  <2>7. SessionsExist'
    BY <1>1, <2>5 DEF SessionsExist
  <2>8. ASSUME NEW u \in Users PROVE Learnt(call'[u], Held, There, auth')
    <3> DEFINE d == call[u]
               m == Marked(call[u], t.account, None)
    <3>1. d \in Calls /\ Learnt(d, Held, There, auth)
      BY CallFacts
    <3>2. m \in Calls /\ m.op = d.op /\ m.pc = d.pc /\ m.id = d.id /\ m.name = d.name
          /\ m.wallet = d.wallet /\ m.account = d.account /\ m.to = d.to /\ m.signer = d.signer
          /\ m.todo = d.todo /\ m.multisig = d.multisig /\ m.renamed = d.renamed
          /\ d.changed \subseteq m.changed
      BY <3>1, <2>4, MarkedIs
    <3>3. d.pc # "idle" => t.account \in m.changed
      BY <3>1 DEF Marked, Calls
    <3>4. call'[u] = m
      BY <2>1
    <3>5. d.pc \in {"sign", "send"} => d.account \in Accounts
      <4>1. d.pc \in {"sign", "send"} => d.wallet \in Wallets /\ d.account \in Held[d.wallet]
        BY <3>1 DEF Learnt
      <4> QED BY <1>1, <4>1, HeldKeys
    <3> HIDE DEF m, d
    <3>6. Learnt(m, Held, There, auth')
      BY <2>2, <3>1, <3>2, <3>3, <3>5 DEF Learnt
    <3> QED BY <3>4, <3>6
  <2>9. CallsLearn'
    BY <1>4, <2>8 DEF CallsLearn
  <2> QED BY <1>4, <2>3, <2>6, <2>7, <2>9 DEF Inv
<1>6. CASE t.op # "rekey"
  <2>1. auth' = auth /\ call' = call
    BY <1>6 DEF Confirm
  <2>2. SessionTypeOK'
    BY <1>1, <1>2, <2>1 DEF SessionTypeOK
  <2>3. RekeyedWithinAWallet' /\ SessionsExist' /\ CallsLearn'
    BY <1>1, <1>4, <2>1 DEF RekeyedWithinAWallet, SessionsExist, CallsLearn
  <2> QED BY <1>4, <2>2, <2>3 DEF Inv
<1> QED BY <1>5, <1>6

LEMMA ExpireKeeps ==
  ASSUME Inv, NEW t \in pending, Expire(t) PROVE Inv'
<1>1. UNCHANGED <<wallet, auth, confirmed, session, call, calls>> /\ pending' = pending \ {t}
  BY DEF Expire
<1> QED BY <1>1 DEF Inv, SessionTypeOK, Wellformed, SessionsExist, CallsLearn, PendingInAWallet,
                    RekeyedWithinAWallet, WalletsAreWanted, MultisigsAreSignable, Held, There,
                    EverHeld

LEMMA StutterKeeps ==
  ASSUME Inv, UNCHANGED vars PROVE Inv'
  BY DEF vars, Inv, SessionTypeOK, Wellformed, SessionsExist, CallsLearn, PendingInAWallet,
         RekeyedWithinAWallet, WalletsAreWanted, MultisigsAreSignable, Held, There, EverHeld

-----------------------------------------------------------------------------
LEMMA InvInit == Init => Inv
<1> SUFFICES ASSUME Init PROVE Inv
  OBVIOUS
<1> DEFINE K(w) == {<<w, n>> : n \in 1 .. FirstKeys[w]}
           e(w) == [NoWallet EXCEPT !.name = FirstName[w], !.seed = w, !.generated = FirstKeys[w],
                                    !.keys = K(w)]
<1>1. wallet = [w \in Wallets |-> IF FirstName[w] = NoName THEN NoWallet ELSE e(w)]
      /\ auth = [a \in Accounts |-> a] /\ pending = {} /\ confirmed = {} /\ calls = 0
      /\ call = [u \in Users |-> Idle]
      /\ session \in [Users -> {Disconnected} \cup
           {[wallet |-> w, name |-> FirstName[w]] : w \in {v \in Wallets : FirstName[v] # NoName}}]
  BY DEF Init
<1>2. \A w \in Wallets : FirstName[w] \in Names \cup {NoName} /\ FirstKeys[w] \in 0 .. MaxKeys
  BY WalletAssumption DEF WalletAssumption
<1>3. 0 \in 0 .. MaxCalls /\ 0 \in 0 .. MaxKeys
  BY WalletAssumption DEF WalletAssumption
<1>4. NoWallet \in Entries /\ NoWallet.name = NoName /\ NoWallet.keys = {}
      /\ NoWallet.deleted = {} /\ NoWallet.multisigs = {} /\ NoWallet.wanted
  <2>1. TRUE \in BOOLEAN
    OBVIOUS
  <2> QED BY <1>3, <2>1 DEF NoWallet, Entries, Optional
<1>5. ASSUME NEW w \in Wallets
      PROVE  e(w) \in Entries /\ e(w).name = FirstName[w] /\ e(w).seed = w
             /\ e(w).multisigs = {} /\ e(w).wanted
  <2>1. K(w) \in SUBSET Accounts
    <3>1. \A n \in 1 .. FirstKeys[w] : n \in 1 .. MaxKeys
      BY <1>2, WalletAssumption DEF WalletAssumption
    <3>2. \A n \in 1 .. FirstKeys[w] : <<w, n>> \in Accounts
      BY <3>1 DEF Accounts
    <3> QED BY <3>2
  <2>2. w \in Optional(Wallets)
    BY DEF Optional
  <2>3. NoWallet.multisigs = {} /\ NoWallet.wanted /\ NoWallet \in Entries
    BY <1>4
  <2> HIDE DEF K
  <2> QED BY <1>2, <2>1, <2>2, <2>3 DEF Entries
<1> HIDE DEF e
<1>6. \A w \in Wallets : wallet[w] = IF FirstName[w] = NoName THEN NoWallet ELSE e(w)
  BY <1>1
<1>7. wallet \in [Wallets -> Entries]
  BY <1>1, <1>4, <1>5
<1>8. session \in [Users -> [wallet : Optional(Wallets), name : Names \cup {NoName}]]
  <2>1. Disconnected \in [wallet : Optional(Wallets), name : Names \cup {NoName}]
    BY DEF Disconnected, Optional
  <2>2. \A w \in Wallets : [wallet |-> w, name |-> FirstName[w]]
          \in [wallet : Optional(Wallets), name : Names \cup {NoName}]
    BY <1>2 DEF Optional
  <2> QED BY <1>1, <2>1, <2>2
<1>9. SessionTypeOK
  BY <1>1, <1>3, <1>7, <1>8, IdleIsCall DEF SessionTypeOK
<1>10. Wellformed
  BY <1>4, <1>5, <1>6 DEF Wellformed, EverHeld
<1>11. SessionsExist
  <2> SUFFICES ASSUME NEW u \in Users, session[u] # Disconnected \/ call[u].pc = "rename"
               PROVE  session[u].wallet \in Wallets /\ wallet[session[u].wallet].name # NoName
    BY DEF SessionsExist
  <2>1. session[u] # Disconnected
    BY <1>1 DEF Idle
  <2>2. PICK w \in Wallets : FirstName[w] # NoName /\ session[u] = [wallet |-> w, name |-> FirstName[w]]
    BY <1>1, <2>1
  <2> QED BY <1>5, <1>6, <2>2
<1>12. CallsLearn
  BY <1>1, IdleLearns DEF CallsLearn
<1>13. PendingInAWallet /\ RekeyedWithinAWallet
  BY <1>1 DEF PendingInAWallet, RekeyedWithinAWallet
<1>14. WalletsAreWanted
  BY <1>4, <1>5, <1>6 DEF WalletsAreWanted
<1>15. MultisigsAreSignable
  BY <1>4, <1>5, <1>6 DEF MultisigsAreSignable
<1> QED BY <1>9, <1>10, <1>11, <1>12, <1>13, <1>14, <1>15 DEF Inv

LEMMA InvNext == Inv /\ [Next]_vars => Inv'
<1> SUFFICES ASSUME Inv, [Next]_vars PROVE Inv'
  OBVIOUS
<1>1. ASSUME NEW u \in Users,
             \/ CreateWallet(u) \/ Connect(u) \/ Disconnect(u) \/ Rename(u)
             \/ Open(u) \/ Make(u) \/ SubmitRename(u)
             \/ GenerateKey(u) \/ DeleteKey(u) \/ DeleteMultisig(u)
             \/ Rekey(u) \/ HoldsSender(u) \/ HoldsTarget(u) \/ GetAuthAddress(u) \/ Sign(u)
             \/ Send(u)
      PROVE  Inv'
  BY <1>1, CreateKeeps, ConnectKeeps, DisconnectKeeps, RenameKeeps, OpenKeeps, MakeKeeps,
     SubmitRenameKeeps, GenerateKeyKeeps, DeleteKeyKeeps, DeleteMultisigKeeps, RekeyKeeps,
     HoldsSenderKeeps, HoldsTargetKeeps, GetAuthAddressKeeps, SignKeeps, SendKeeps
<1>2. ASSUME NEW u \in Users,
             \/ ImportMultisig(u) \/ SignMultisig(u) \/ Import(u)
             \/ \E k \in call[u].todo :
                  ImportNeedsKey(u, k) \/ SignNeedsKey(u, k) \/ ReadAuthAddress(u, k)
             \/ SignWith(u) \/ KmdRefuses(u) \/ FallBack(u) \/ SignReturns(u)
             \/ GetRekeyedAccounts(u)
      PROVE  Inv'
  BY <1>2, ImportMultisigKeeps, SignMultisigKeeps, ImportKeeps, ImportNeedsKeyKeeps,
     SignNeedsKeyKeeps, ReadAuthAddressKeeps, SignWithKeeps, KmdRefusesKeeps, FallBackKeeps,
     SignReturnsKeeps, GetRekeyedKeeps
<1>3. ASSUME NEW u \in Users, WaitForConfirmation(u) \/ Return(u) \/ Raise(u) PROVE Inv'
  BY <1>3, EndKeeps DEF WaitForConfirmation, Return, Raise
<1>4. ASSUME NEW t \in pending, Confirm(t) \/ Expire(t) PROVE Inv'
  BY <1>4, ConfirmKeeps, ExpireKeeps
<1>5. CASE Quiet \/ UNCHANGED vars
  BY <1>5, StutterKeeps DEF Quiet
<1> QED BY <1>1, <1>2, <1>3, <1>4, <1>5 DEF Next

LEMMA InvAlways == Spec => []Inv
  BY InvInit, InvNext, PTL DEF Spec

-----------------------------------------------------------------------------
\* Types.
THEOREM SessionTypes == Spec => []SessionTypeOK
<1>1. Inv => SessionTypeOK
  BY DEF Inv
<1> QED BY <1>1, InvAlways, PTL

\* No account is rekeyed out of reach, whatever users of the same wallets rekey,
\* rename, create and confirm in between.
THEOREM NoAccountIsLost == Spec => []RekeyedWithinAWallet
<1>1. Inv => RekeyedWithinAWallet
  BY DEF Inv
<1> QED BY <1>1, InvAlways, PTL

\* What is signed is signed by the authorized account; only a rekey that was
\* confirmed since it was looked up can make the node refuse it.
THEOREM AuthorityIsAsked == Spec => []SignsForTheAuthority
<1>1. Inv => SignsForTheAuthority
  <2> SUFFICES ASSUME Inv, NEW u \in Users, call[u].pc = "send"
               PROVE  /\ call[u].signer = auth[call[u].account] \/ call[u].account \in call[u].changed
                      /\ call[u].signer \in EverHeld(call[u].wallet)
    BY DEF SignsForTheAuthority
  <2>1. SessionTypeOK /\ Learnt(call[u], Held, There, auth)
    BY CallFacts
  <2>2. /\ call[u].signer = auth[call[u].account] \/ call[u].account \in call[u].changed
        /\ call[u].wallet \in Wallets /\ call[u].signer \in Held[call[u].wallet]
    BY <2>1 DEF Learnt
  <2> QED BY <2>1, <2>2, HeldKeys
<1> QED BY <1>1, InvAlways, PTL

\* Connecting to a wallet creates none, but for a rename in between.
THEOREM OnlyWantedWallets == Spec => []WalletsAreWanted
<1>1. Inv => WalletsAreWanted
  BY DEF Inv
<1> QED BY <1>1, InvAlways, PTL

\* A multisig that a wallet holds is one it had a key of.
THEOREM MultisigsHaveAKey == Spec => []MultisigsAreSignable
<1>1. Inv => MultisigsAreSignable
  BY DEF Inv
<1> QED BY <1>1, InvAlways, PTL
-----------------------------------------------------------------------------
(***************************************************************************)
(* sign_multisig_transaction().  SignedByAll speaks of the call when it    *)
(* returns; before that, every key that counts is one it has signed with   *)
(* or has yet to come to, and in the fallback it is at the start again.    *)
(***************************************************************************)
Signing(c, ws) ==
  c.op = "sign_multisig" =>
    /\ c.pc \in {"key", "with", "fallback", "returned"}
    /\ c.pc = "returned" => c.todo = {}
    /\ c.account = None =>
         (c.multisig \cap ws[c.wallet].keys) \ c.changed \subseteq c.found \cup c.todo
    /\ c.account # None => c.todo \subseteq {c.account} /\ c.account \in c.found \cup c.todo
    /\ c.account # None /\ c.pc \in {"with", "fallback"} => c.to = c.account

SigningInv == \A u \in Users : Signing(call[u], wallet)

\* A key that is deleted meanwhile asks for less.
LEMMA SigningStays ==
  ASSUME NEW c, NEW ws, NEW ws2, Signing(c, ws),
         c.op = "sign_multisig" => ws2[c.wallet].keys \subseteq ws[c.wallet].keys
  PROVE  Signing(c, ws2)
  BY DEF Signing

LEMMA OneSigns ==
  ASSUME SessionTypeOK, SigningInv, UNCHANGED wallet, NEW u \in Users, NEW c,
         call' = [call EXCEPT ![u] = c], Signing(c, wallet)
  PROVE  SigningInv'
  BY DEF SigningInv, SessionTypeOK

LEMMA OtherOps ==
  ASSUME NEW c, NEW ws, c.op # "sign_multisig"
  PROVE  Signing(c, ws)
  BY DEF Signing

LEMMA IdleSigns == \A ws : Signing(Idle, ws)
  BY DEF Signing, Idle

\* A step of an operation that does not sign.
LEMMA OneOther ==
  ASSUME SessionTypeOK, SigningInv, UNCHANGED wallet, NEW u \in Users,
         \A v \in Users \ {u} : call'[v] = call[v], call'[u].op # "sign_multisig"
  PROVE  SigningInv'
  BY DEF SigningInv, Signing

LEMMA OtherUpdate ==
  ASSUME SessionTypeOK, SigningInv, UNCHANGED wallet, NEW u \in Users, NEW c,
         call' = [call EXCEPT ![u] = c], c.op # "sign_multisig"
  PROVE  SigningInv'
  BY OtherOps, OneSigns

LEMMA BeginOther ==
  ASSUME Inv, SigningInv, NEW u \in Users, NEW c, Begin(u, c),
         [c EXCEPT !.id = calls + 1].op # "sign_multisig"
  PROVE  SigningInv'
  BY OtherUpdate DEF Begin, Inv

\* Only sign_multisig_transaction() begins as a signing.
LEMMA OthersBegin ==
  ASSUME Inv, SigningInv, NEW u \in Users,
         \/ CreateWallet(u) \/ Connect(u) \/ Rename(u) \/ Rekey(u) \/ ImportMultisig(u)
         \/ GetRekeyedAccounts(u)
  PROVE  SigningInv'
<1>1. CASE CreateWallet(u)
  <2>1. PICK n \in Names, s \in Optional({wallet[w].seed : w \in Wallets \ Unused}) :
          Begin(u, [Idle EXCEPT !.op = "create", !.pc = "make", !.name = n, !.seed = s])
    BY <1>1 DEF CreateWallet
  <2> DEFINE c == [Idle EXCEPT !.op = "create", !.pc = "make", !.name = n, !.seed = s]
  <2>2. Begin(u, c)
    BY <2>1
  <2>3. [c EXCEPT !.id = calls + 1].op # "sign_multisig"
    BY DEF Idle
  <2> HIDE DEF c
  <2> QED BY <2>2, <2>3, BeginOther
<1>2. CASE Connect(u)
  <2>1. PICK n \in Names, op \in {"connect", "export_key", "transfer_algo"} :
          Begin(u, [Idle EXCEPT !.op = op, !.pc = "open", !.name = n])
    BY <1>2 DEF Connect
  <2> QED BY <2>1, BeginOther DEF Idle
<1>3. CASE Rename(u)
  <2>1. PICK n : Begin(u, [Idle EXCEPT !.op = "rename", !.pc = "rename", !.name = n])
    BY <1>3 DEF Rename
  <2> QED BY <2>1, BeginOther DEF Idle
<1>4. CASE Rekey(u)
  <2>1. PICK a : Begin(u, [Idle EXCEPT !.op = "rekey", !.pc = "to", !.wallet = session[u].wallet,
                                       !.account = a])
    BY <1>4 DEF Rekey
  <2> QED BY <2>1, BeginOther DEF Idle
<1>5. CASE ImportMultisig(u)
  <2>1. PICK m : Begin(u, [Idle EXCEPT !.op = "import_multisig", !.pc = "key",
                                       !.wallet = session[u].wallet, !.multisig = m, !.todo = m])
    BY <1>5 DEF ImportMultisig
  <2> QED BY <2>1, BeginOther DEF Idle
<1>6. CASE GetRekeyedAccounts(u)
  BY <1>6, BeginOther DEF GetRekeyedAccounts, Idle
<1> QED BY <1>1, <1>2, <1>3, <1>4, <1>5, <1>6

LEMMA SignMultisigSigns ==
  ASSUME Inv, SigningInv, NEW u \in Users, SignMultisig(u)
  PROVE  SigningInv'
<1> DEFINE w == session[u].wallet
<1>1. w \in Wallets /\ SessionTypeOK
  BY SessionWallet DEF SignMultisig, Inv
<1>2. PICK m \in wallet[w].multisigs, sender \in {"multisig", "rekeyed", "other"} :
        \E a \in Optional(m) :
          Begin(u, [Idle EXCEPT !.op = "sign_multisig", !.pc = "key", !.multisig = m,
                                !.wallet = w, !.account = a, !.sender = sender,
                                !.todo = IF a = None THEN m ELSE {a}])
  BY DEF SignMultisig
<1>3. PICK a \in Optional(m) :
        Begin(u, [Idle EXCEPT !.op = "sign_multisig", !.pc = "key", !.multisig = m,
                              !.wallet = w, !.account = a, !.sender = sender,
                              !.todo = IF a = None THEN m ELSE {a}])
  BY <1>2
<1> DEFINE todo == IF a = None THEN m ELSE {a}
           c == [[Idle EXCEPT !.op = "sign_multisig", !.pc = "key", !.multisig = m,
                              !.wallet = w, !.account = a, !.sender = sender, !.todo = todo]
                  EXCEPT !.id = calls + 1]
<1>4. call' = [call EXCEPT ![u] = c] /\ UNCHANGED wallet
  BY <1>3 DEF Begin
<1>5. (a = None => todo = m) /\ (a # None => todo = {a})
  OBVIOUS
<1>6. c.op = "sign_multisig" /\ c.pc = "key" /\ c.multisig = m /\ c.account = a /\ c.todo = todo
  BY DEF Idle
<1> HIDE DEF c, todo, w
<1>7. Signing(c, wallet)
  BY <1>5, <1>6 DEF Signing
<1> QED BY <1>1, <1>4, <1>7, OneSigns

\* The requests of the other operations, and those that end one.
LEMMA OthersGoOn ==
  ASSUME Inv, SigningInv, NEW u \in Users,
         \/ HoldsSender(u) \/ HoldsTarget(u) \/ GetAuthAddress(u) \/ Sign(u) \/ Send(u)
         \/ \E k : ImportNeedsKey(u, k) \/ ReadAuthAddress(u, k)
         \/ WaitForConfirmation(u) \/ Return(u) \/ Raise(u)
  PROVE  SigningInv'
<1> DEFINE d == call[u]
<1>1. d \in Calls /\ SessionTypeOK /\ Signing(d, wallet)
  BY CallFacts DEF SigningInv
<1>2. CASE WaitForConfirmation(u) \/ Return(u) \/ Raise(u)
  BY <1>1, <1>2, IdleSigns, OneSigns DEF WaitForConfirmation, Return, Raise, Reads
<1>3. CASE HoldsSender(u) \/ HoldsTarget(u) \/ GetAuthAddress(u) \/ Sign(u)
  <2>1. d.pc \notin {"key", "with", "fallback", "returned"} /\ UNCHANGED wallet
    BY <1>3 DEF HoldsSender, HoldsTarget, GetAuthAddress, Sign, Reads
  <2>2. d.op # "sign_multisig"
    BY <1>1, <2>1 DEF Signing
  <2>3. CASE HoldsSender(u)
    <3>1. PICK a : call' = [call EXCEPT ![u] = [d EXCEPT !.pc = "to", !.account = a]]
      BY <2>3 DEF HoldsSender, Reads
    <3>2. [d EXCEPT !.pc = "to", !.account = a].op = d.op
      BY <1>1 DEF Calls
    <3> QED BY <1>1, <2>1, <2>2, <3>1, <3>2, OtherUpdate
  <2>4. CASE HoldsTarget(u)
    <3>1. PICK b : call' = [call EXCEPT ![u] = [d EXCEPT !.pc = "auth", !.to = b]]
      BY <2>4 DEF HoldsTarget, Reads
    <3>2. [d EXCEPT !.pc = "auth", !.to = b].op = d.op
      BY <1>1 DEF Calls
    <3> QED BY <1>1, <2>1, <2>2, <3>1, <3>2, OtherUpdate
  <2>5. CASE GetAuthAddress(u)
    <3> DEFINE c == [d EXCEPT !.pc = "sign", !.signer = auth[d.account], !.changed = @ \ {d.account}]
    <3>1. call' = [call EXCEPT ![u] = c]
      BY <2>5 DEF GetAuthAddress, Reads
    <3>2. c.op = d.op
      BY <1>1 DEF Calls
    <3> HIDE DEF c
    <3> QED BY <1>1, <2>1, <2>2, <3>1, <3>2, OtherUpdate
  <2>6. CASE Sign(u)
    <3>1. call' = [call EXCEPT ![u] = [d EXCEPT !.pc = "send"]]
      BY <2>6 DEF Sign, Reads
    <3>2. [d EXCEPT !.pc = "send"].op = d.op
      BY <1>1 DEF Calls
    <3> QED BY <1>1, <2>1, <2>2, <3>1, <3>2, OtherUpdate
  <2> QED BY <1>3, <2>3, <2>4, <2>5, <2>6
<1>4. CASE Send(u)
  <2>1. d.pc = "send" /\ UNCHANGED wallet
    BY <1>4 DEF Send
  <2>2. d.op # "sign_multisig"
    BY <1>1, <2>1 DEF Signing
  <2>3. call'[u].op = d.op /\ \A v \in Users \ {u} : call'[v] = call[v]
    BY <1>1, <1>4 DEF Send, SessionTypeOK, Calls
  <2> QED BY <1>1, <2>1, <2>2, <2>3, OneOther
<1>5. ASSUME NEW k, ImportNeedsKey(u, k) PROVE SigningInv'
  <2> DEFINE c == IF Holds(d.wallet, k) THEN [d EXCEPT !.pc = "import"]
                  ELSE [d EXCEPT !.todo = @ \ {k}]
  <2>1. d.op # "sign_multisig" /\ UNCHANGED wallet /\ call' = [call EXCEPT ![u] = c]
    BY <1>5 DEF ImportNeedsKey, At, Reads
  <2>2. c.op = d.op
    BY <1>1 DEF Calls
  <2> HIDE DEF c
  <2> QED BY <1>1, <2>1, <2>2, OtherUpdate
<1>6. ASSUME NEW k, ReadAuthAddress(u, k) PROVE SigningInv'
  <2> DEFINE c == [d EXCEPT !.found = IF IsRekeyed(k) THEN @ \cup {k} ELSE @, !.todo = @ \ {k},
                            !.pc = IF d.todo = {k} THEN "returned" ELSE "key"]
  <2>1. d.op # "sign_multisig" /\ UNCHANGED wallet /\ call' = [call EXCEPT ![u] = c]
    BY <1>6 DEF ReadAuthAddress, At, Reads
  <2>2. c.op = d.op
    BY <1>1 DEF Calls
  <2> HIDE DEF c
  <2> QED BY <1>1, <2>1, <2>2, OtherUpdate
<1> QED BY <1>2, <1>3, <1>4, <1>5, <1>6

-----------------------------------------------------------------------------
\* A key the wallet does not hold is passed over; one it holds is signed with.
LEMMA SignNeedsKeySigns ==
  ASSUME Inv, SigningInv, NEW u \in Users, NEW k, SignNeedsKey(u, k)
  PROVE  SigningInv'
<1> DEFINE d == call[u]
<1>1. /\ d \in Calls /\ SessionTypeOK /\ Signing(d, wallet) /\ UNCHANGED wallet
      /\ d.pc = "key" /\ d.op = "sign_multisig" /\ k \in d.todo
      /\ d.account # None => Holds(d.wallet, k)
  BY CallFacts DEF SignNeedsKey, At, Reads, SigningInv
<1>2. CASE Holds(d.wallet, k)
  <2> DEFINE c == [d EXCEPT !.pc = "with", !.to = k]
  <2>1. call' = [call EXCEPT ![u] = c]
    BY <1>2 DEF SignNeedsKey, Reads
  <2> HIDE DEF d
  <2>2. /\ c.op = d.op /\ c.pc = "with" /\ c.to = k /\ c.todo = d.todo /\ c.found = d.found
        /\ c.account = d.account /\ c.multisig = d.multisig /\ c.wallet = d.wallet
        /\ c.changed = d.changed
    BY <1>1 DEF Calls
  <2> HIDE DEF c
  <2>3. Signing(c, wallet)
    BY <1>1, <2>2 DEF Signing
  <2> QED BY <1>1, <2>1, <2>3, OneSigns
<1>3. CASE ~Holds(d.wallet, k)
  <2> DEFINE c == [d EXCEPT !.todo = @ \ {k}]
  <2>1. call' = [call EXCEPT ![u] = c]
    BY <1>3 DEF SignNeedsKey, Reads
  <2> HIDE DEF d
  <2>2. /\ c.op = d.op /\ c.pc = d.pc /\ c.todo = d.todo \ {k} /\ c.found = d.found
        /\ c.account = d.account /\ c.multisig = d.multisig /\ c.wallet = d.wallet
        /\ c.changed = d.changed
    BY <1>1 DEF Calls
  <2>3. d.account = None /\ k \notin wallet[d.wallet].keys
    BY <1>1, <1>3 DEF Holds
  <2> HIDE DEF c
  <2>4. Signing(c, wallet)
    BY <1>1, <2>2, <2>3 DEF Signing
  <2> QED BY <1>1, <2>1, <2>4, OneSigns
<1> QED BY <1>2, <1>3

LEMMA SigningGoesOn ==
  ASSUME Inv, SigningInv, NEW u \in Users,
         SignWith(u) \/ KmdRefuses(u) \/ FallBack(u) \/ SignReturns(u)
  PROVE  SigningInv'
<1> DEFINE d == call[u]
<1>1. d \in Calls /\ SessionTypeOK /\ Signing(d, wallet) /\ Learnt(d, Held, There, auth)
  BY CallFacts DEF SigningInv
<1>2. UNCHANGED wallet /\ d.op = "sign_multisig"
  BY <1>1 DEF SignWith, KmdRefuses, FallBack, SignReturns, At, Reads, Learnt
<1>3. CASE SignWith(u)
  <2> DEFINE c == [d EXCEPT !.pc = "key", !.todo = @ \ {d.to}, !.found = @ \cup {d.to}]
  <2>1. call' = [call EXCEPT ![u] = c] /\ d.pc = "with"
    BY <1>3 DEF SignWith, Reads
  <2> HIDE DEF d
  <2>2. /\ c.op = d.op /\ c.pc = "key" /\ c.todo = d.todo \ {d.to} /\ c.found = d.found \cup {d.to}
        /\ c.account = d.account /\ c.multisig = d.multisig /\ c.wallet = d.wallet
        /\ c.changed = d.changed
    BY <1>1 DEF Calls
  <2> HIDE DEF c
  <2>3. Signing(c, wallet)
    BY <1>1, <1>2, <2>1, <2>2 DEF Signing
  <2> QED BY <1>1, <1>2, <2>1, <2>3, OneSigns
<1>4. CASE KmdRefuses(u)
  <2> DEFINE c == [d EXCEPT !.pc = "fallback"]
  <2>1. call' = [call EXCEPT ![u] = c] /\ (d.pc = "with" \/ d.account = None)
    BY <1>4 DEF KmdRefuses, Reads
  <2> HIDE DEF d
  <2>2. /\ c.op = d.op /\ c.pc = "fallback" /\ c.todo = d.todo /\ c.found = d.found
        /\ c.account = d.account /\ c.multisig = d.multisig /\ c.wallet = d.wallet
        /\ c.changed = d.changed /\ c.to = d.to
    BY <1>1 DEF Calls
  <2> HIDE DEF c
  <2>3. Signing(c, wallet)
    BY <1>1, <1>2, <2>1, <2>2 DEF Signing
  <2> QED BY <1>1, <1>2, <2>1, <2>3, OneSigns
<1>5. CASE FallBack(u)
  <2> DEFINE all == EveryKey(u)
             pc == IF d.account = None THEN "key" ELSE "with"
             c == [d EXCEPT !.fallback = TRUE, !.todo = all, !.pc = pc]
  <2>1. call' = [call EXCEPT ![u] = c] /\ d.pc = "fallback"
    BY <1>5 DEF FallBack, Reads
  <2>2. /\ d.account = None => all = d.multisig /\ pc = "key"
        /\ d.account # None => all = {d.account} /\ pc = "with"
    BY DEF EveryKey
  <2> HIDE DEF d, all, pc
  <2>3. /\ c.op = d.op /\ c.pc = pc /\ c.todo = all /\ c.found = d.found
        /\ c.account = d.account /\ c.multisig = d.multisig /\ c.wallet = d.wallet
        /\ c.changed = d.changed /\ c.to = d.to
    BY <1>1 DEF Calls
  <2> HIDE DEF c
  <2>4. Signing(c, wallet)
    BY <1>1, <1>2, <2>1, <2>2, <2>3 DEF Signing
  <2> QED BY <1>1, <1>2, <2>1, <2>4, OneSigns
<1>6. CASE SignReturns(u)
  <2> DEFINE c == [d EXCEPT !.pc = "returned"]
  <2>1. call' = [call EXCEPT ![u] = c] /\ d.todo = {}
    BY <1>6 DEF SignReturns, Reads
  <2> HIDE DEF d
  <2>2. /\ c.op = d.op /\ c.pc = "returned" /\ c.todo = d.todo /\ c.found = d.found
        /\ c.account = d.account /\ c.multisig = d.multisig /\ c.wallet = d.wallet
        /\ c.changed = d.changed /\ c.to = d.to
    BY <1>1 DEF Calls
  <2> HIDE DEF c
  <2>3. Signing(c, wallet)
    BY <1>1, <1>2, <2>1, <2>2 DEF Signing
  <2> QED BY <1>1, <1>2, <2>1, <2>3, OneSigns
<1> QED BY <1>3, <1>4, <1>5, <1>6

-----------------------------------------------------------------------------
\* Steps that change what wallets hold.  A key that comes is marked.
LEMMA ChangesSigns ==
  ASSUME Inv, SigningInv, NEW u \in Users, NEW w \in Wallets, NEW e, NEW a \in Optional(Accounts),
         Changes(u, w, e, a), e.keys \subseteq wallet[w].keys \cup {a}
  PROVE  SigningInv'
<1>1. /\ SessionTypeOK
      /\ wallet' = [wallet EXCEPT ![w] = e] /\ call' = [v \in Users |-> Marked(call[v], a, w)]
  BY DEF Inv, Changes
<1>2. wallet'[w] = e /\ \A x \in Wallets : x # w => wallet'[x] = wallet[x]
  BY <1>1 DEF SessionTypeOK
<1>3. ASSUME NEW v \in Users PROVE Signing(call'[v], wallet')
  <2> DEFINE d == call[v]
             m == Marked(d, a, w)
  <2>1. d \in Calls /\ Signing(d, wallet) /\ Learnt(d, Held, There, auth) /\ call'[v] = m
    BY <1>1, CallFacts DEF SigningInv
  <2>2. /\ m.op = d.op /\ m.pc = d.pc /\ m.todo = d.todo /\ m.found = d.found
        /\ m.account = d.account /\ m.multisig = d.multisig /\ m.wallet = d.wallet
        /\ m.to = d.to /\ d.changed \subseteq m.changed
    BY <2>1, MarkedIs
  <2>3. d.pc # "idle" /\ d.wallet = w => a \in m.changed
    BY <2>1 DEF Marked, Calls
  <2> HIDE DEF d, m
  <2>4. d.op = "sign_multisig" => d.pc # "idle" /\ d.wallet \in Wallets
    BY <2>1 DEF Signing, Learnt
  <2>5. d.op = "sign_multisig" =>
          wallet'[m.wallet].keys \ m.changed \subseteq wallet[d.wallet].keys \ d.changed
    BY <1>2, <2>2, <2>3, <2>4
  <2>6. Signing(m, wallet')
    BY <2>1, <2>2, <2>5 DEF Signing
  <2> QED BY <2>1, <2>6
<1> QED BY <1>3 DEF SigningInv

\* The account of the key that KMD generates next.
LEMMA GeneratedKey ==
  ASSUME Inv, NEW u \in Users, GenerateKey(u)
  PROVE  <<wallet[session[u].wallet].seed, wallet[session[u].wallet].generated + 1>> \in Optional(Accounts)
<1> DEFINE w == session[u].wallet
           n == wallet[w].generated + 1
<1>1. w \in Wallets /\ wallet[w].name # NoName /\ wallet[w] \in Entries
  BY SessionWallet DEF GenerateKey, Inv, SessionTypeOK
<1>2. wallet[w].seed \in Wallets
  BY <1>1 DEF Inv, Wellformed
<1>3. n \in 1 .. MaxKeys
  BY <1>1, WalletAssumption DEF GenerateKey, Entries, WalletAssumption
<1> QED BY <1>2, <1>3 DEF Accounts, Optional

LEMMA KeysSign ==
  ASSUME Inv, SigningInv, NEW u \in Users, GenerateKey(u) \/ DeleteKey(u) \/ DeleteMultisig(u)
  PROVE  SigningInv'
<1> DEFINE w == session[u].wallet
<1>1. w \in Wallets /\ wallet[w] \in Entries
  BY SessionWallet DEF GenerateKey, DeleteKey, DeleteMultisig, Inv, SessionTypeOK
<1>2. CASE GenerateKey(u)
  <2> DEFINE n == wallet[w].generated + 1
             a == <<wallet[w].seed, n>>
             e == [wallet[w] EXCEPT !.generated = n, !.keys = @ \cup {a}]
  <2>1. Changes(u, w, e, a) /\ a \in Optional(Accounts)
    BY <1>2, GeneratedKey DEF GenerateKey
  <2> HIDE DEF a, n
  <2>2. e.keys \subseteq wallet[w].keys \cup {a}
    BY <1>1 DEF Entries
  <2> QED BY <1>1, <2>1, <2>2, ChangesSigns
<1>3. CASE DeleteKey(u)
  <2>1. PICK a \in wallet[w].keys :
          Changes(u, w, [wallet[w] EXCEPT !.keys = @ \ {a}, !.deleted = @ \cup {a}], a)
    BY <1>3 DEF DeleteKey
  <2> DEFINE e == [wallet[w] EXCEPT !.keys = @ \ {a}, !.deleted = @ \cup {a}]
  <2>2. a \in Optional(Accounts) /\ e.keys \subseteq wallet[w].keys \cup {a}
    BY <1>1 DEF Entries, Optional
  <2> QED BY <1>1, <2>1, <2>2, ChangesSigns
<1>4. CASE DeleteMultisig(u)
  <2>1. PICK m \in wallet[w].multisigs :
          Changes(u, w, [wallet[w] EXCEPT !.multisigs = @ \ {m}], None)
    BY <1>4 DEF DeleteMultisig
  <2> DEFINE e == [wallet[w] EXCEPT !.multisigs = @ \ {m}]
  <2>2. None \in Optional(Accounts) /\ e.keys \subseteq wallet[w].keys \cup {None}
    BY <1>1 DEF Entries, Optional
  <2> QED BY <1>1, <2>1, <2>2, ChangesSigns
<1> QED BY <1>2, <1>3, <1>4

LEMMA OpenedSigns ==
  ASSUME NEW u \in Users, NEW w, Opened(u, w), call \in [Users -> Calls],
         call[u].op # "sign_multisig"
  PROVE  \E c : call' = [call EXCEPT ![u] = c] /\ c.op # "sign_multisig"
<1> DEFINE d == call[u]
           c == [d EXCEPT !.wallet = w, !.pc = "account"]
<1>1. call' = [call EXCEPT ![u] = c] \/ call' = [call EXCEPT ![u] = Idle]
  BY DEF Opened
<1> HIDE DEF d
<1>2. c.op = d.op
  BY DEF Calls, d
<1>3. Idle.op # "sign_multisig"
  BY DEF Idle
<1> QED BY <1>1, <1>2, <1>3 DEF d

\* The other steps of KMD bring no key to a wallet that is there.
LEMMA WalletsSign ==
  ASSUME Inv, SigningInv, NEW u \in Users,
         Open(u) \/ Make(u) \/ SubmitRename(u) \/ Import(u) \/ Disconnect(u)
  PROVE  SigningInv'
<1> DEFINE d == call[u]
<1>1. SessionTypeOK /\ call \in [Users -> Calls] /\ wallet \in [Wallets -> Entries]
  BY DEF Inv, SessionTypeOK
<1>2. \A x \in Wallets : wallet'[x].keys \subseteq wallet[x].keys
  <2>1. CASE Open(u) \/ Disconnect(u)
    BY <2>1 DEF Open, Disconnect, Reads
  <2>2. CASE Make(u)
    <3>1. PICK w \in Unused :
            wallet' = [wallet EXCEPT ![w] =
              [NoWallet EXCEPT !.name = d.name, !.wanted = d.op = "create" \/ d.renamed,
                               !.seed = IF d.seed = None THEN w ELSE d.seed]]
      BY <2>2 DEF Make
    <3> DEFINE s == IF d.seed = None THEN w ELSE d.seed
               e == [NoWallet EXCEPT !.name = d.name, !.wanted = d.op = "create" \/ d.renamed, !.seed = s]
    <3>2. wallet' = [wallet EXCEPT ![w] = e] /\ w \in Wallets
      BY <3>1 DEF Unused
    <3>3. e.keys = {}
      BY DEF NoWallet
    <3> HIDE DEF e
    <3> QED BY <1>1, <3>2, <3>3
  <2>3. CASE SubmitRename(u)
    BY <1>1, <2>3 DEF SubmitRename, Entries
  <2>4. CASE Import(u)
    BY <1>1, <2>4 DEF Import, Entries
  <2> QED BY <2>1, <2>2, <2>3, <2>4
<1>3. \A v \in Users : Signing(call[v], wallet')
  <2>1. \A v \in Users : call[v].op = "sign_multisig" => call[v].wallet \in Wallets
    BY CallFacts DEF SigningInv, Signing, Learnt
  <2> QED BY <1>2, <2>1, SigningStays DEF SigningInv
<1>4. CASE SubmitRename(u)
  <2>1. call' = [v \in Users |->
          IF v = u THEN Idle
          ELSE [call[v] EXCEPT !.renamed = @ \/ call[v].name = wallet[session[u].wallet].name]]
    BY <1>4 DEF SubmitRename
  <2>2. ASSUME NEW v \in Users, NEW r, Signing(call[v], wallet')
        PROVE  Signing([call[v] EXCEPT !.renamed = r], wallet')
    BY <1>1, <2>2 DEF Signing, Calls
  <2> QED BY <1>3, <2>1, <2>2, IdleSigns DEF SigningInv
<1>5. CASE Disconnect(u)
  BY <1>3, <1>5 DEF Disconnect, SigningInv
<1>6. CASE Open(u) \/ Make(u) \/ Import(u)
  <2>1. PICK c : call' = [call EXCEPT ![u] = c] /\ Signing(c, wallet')
    <3>1. d \in Calls /\ Signing(d, wallet) /\ Learnt(d, Held, There, auth)
      BY CallFacts DEF SigningInv
    <3>2. CASE Import(u)
      BY <3>2, IdleSigns DEF Import
    <3>3. CASE Open(u) \/ Make(u)
      <4>1. d.op # "sign_multisig"
        BY <3>1, <3>3 DEF Open, Make, Signing
      <4>2. CASE Open(u) /\ ~Exists(d.name)
        <5> DEFINE c == [d EXCEPT !.pc = "make"]
        <5>1. call' = [call EXCEPT ![u] = c]
          BY <4>2 DEF Open, Reads
        <5>2. c.op = d.op
          BY <3>1 DEF Calls
        <5> QED BY <4>1, <5>1, <5>2, OtherOps
      <4>3. CASE \E w \in Wallets : Opened(u, w)
        BY <1>1, <4>1, <4>3, OtherOps, OpenedSigns
      <4>4. CASE call' = [call EXCEPT ![u] = Idle]
        BY <4>4, IdleSigns
      <4> QED BY <3>3, <4>2, <4>3, <4>4 DEF Open, Make, Unused
    <3> QED BY <1>6, <3>2, <3>3
  <2> QED BY <1>1, <1>3, <2>1 DEF SigningInv
<1> QED BY <1>4, <1>5, <1>6

LEMMA ConfirmSigns ==
  ASSUME Inv, SigningInv, NEW t \in pending, Confirm(t)
  PROVE  SigningInv'
<1>1. SessionTypeOK /\ UNCHANGED wallet /\ t.account \in Accounts
  BY DEF Inv, Confirm, SessionTypeOK, Txns
<1>2. CASE t.op = "rekey"
  <2>1. call' = [u \in Users |-> Marked(call[u], t.account, None)]
    BY <1>2 DEF Confirm
  <2>2. ASSUME NEW v \in Users PROVE Signing(call'[v], wallet)
    <3> DEFINE d == call[v]
               m == Marked(d, t.account, None)
    <3>1. d \in Calls /\ Signing(d, wallet) /\ call'[v] = m /\ t.account \in Optional(Accounts)
      BY <1>1, <2>1, CallFacts DEF SigningInv, Optional
    <3>2. /\ m.op = d.op /\ m.pc = d.pc /\ m.todo = d.todo /\ m.found = d.found
          /\ m.account = d.account /\ m.multisig = d.multisig /\ m.wallet = d.wallet
          /\ m.to = d.to /\ d.changed \subseteq m.changed
      BY <3>1, MarkedIs
    <3> HIDE DEF d, m
    <3>3. Signing(m, wallet)
      BY <3>1, <3>2 DEF Signing
    <3> QED BY <3>1, <3>3
  <2> QED BY <1>1, <2>2 DEF SigningInv
<1>3. CASE t.op # "rekey"
  BY <1>1, <1>3 DEF Confirm, SigningInv
<1> QED BY <1>2, <1>3

LEMMA SigningNext == Inv /\ SigningInv /\ [Next]_vars => SigningInv'
<1> SUFFICES ASSUME Inv, SigningInv, [Next]_vars PROVE SigningInv'
  OBVIOUS
<1>1. CASE Quiet \/ UNCHANGED vars \/ \E t \in pending : Expire(t)
  BY <1>1 DEF Quiet, vars, Expire, SigningInv
<1>2. ASSUME NEW t \in pending, Confirm(t) PROVE SigningInv'
  BY <1>2, ConfirmSigns
<1>3. ASSUME NEW u \in Users,
             \/ CreateWallet(u) \/ Connect(u) \/ Rename(u) \/ Rekey(u) \/ ImportMultisig(u)
             \/ GetRekeyedAccounts(u) \/ SignMultisig(u)
      PROVE  SigningInv'
  BY <1>3, OthersBegin, SignMultisigSigns
<1>4. ASSUME NEW u \in Users,
             \/ HoldsSender(u) \/ HoldsTarget(u) \/ GetAuthAddress(u) \/ Sign(u) \/ Send(u)
             \/ \E k \in call[u].todo : ImportNeedsKey(u, k) \/ ReadAuthAddress(u, k)
             \/ WaitForConfirmation(u) \/ Return(u) \/ Raise(u)
      PROVE  SigningInv'
  BY <1>4, OthersGoOn
<1>5. ASSUME NEW u \in Users,
             \/ \E k \in call[u].todo : SignNeedsKey(u, k)
             \/ SignWith(u) \/ KmdRefuses(u) \/ FallBack(u) \/ SignReturns(u)
      PROVE  SigningInv'
  BY <1>5, SignNeedsKeySigns, SigningGoesOn
<1>6. ASSUME NEW u \in Users,
             \/ Open(u) \/ Make(u) \/ SubmitRename(u) \/ Import(u) \/ Disconnect(u)
             \/ GenerateKey(u) \/ DeleteKey(u) \/ DeleteMultisig(u)
      PROVE  SigningInv'
  BY <1>6, WalletsSign, KeysSign
<1> QED BY <1>1, <1>2, <1>3, <1>4, <1>5, <1>6 DEF Next

\* What sign_multisig_transaction() returns carries every signature it can: that of the
\* account it was given, or of every key the wallet held throughout, whatever other
\* users do to the wallet and wherever it took the fallback.
THEOREM EverySignatureIsThere == Spec => []SignedByAll
<1>1. Init => SigningInv
  BY IdleSigns DEF Init, SigningInv
<1>2. SigningInv => SignedByAll
  BY DEF SigningInv, Signing, SignedByAll, At
<1> QED BY <1>1, <1>2, SigningNext, InvAlways, PTL DEF Spec
=============================================================================
