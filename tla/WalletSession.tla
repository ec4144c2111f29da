---------------------------- MODULE WalletSession ----------------------------
(***************************************************************************)
(* algorand/client/accounts/kmd.py and apps/kmd_shell: users of one KMD    *)
(* server, each with a shell and the wallet session it is connected to.    *)
(*                                                                         *)
(* KMD and the node answer one request at a time; an operation is a        *)
(* sequence of requests, and the requests of different users interleave,   *)
(* so whatever an operation has checked may be gone when it acts.  Any     *)
(* request may fail, and the operation then raises; a password that is     *)
(* wrong is such a failure.  An operation starts with its first request,   *)
(* and an argument is chosen where it is first looked at.  A key and its   *)
(* account are the same here.                                              *)
(***************************************************************************)
EXTENDS Integers, FiniteSets

CONSTANTS
  Users,
  Wallets,       \* the wallets KMD can come to hold, and their derivation keys
  Names, NoName,
  MaxKeys,       \* bound: keys generated in a wallet
  Multisigs,     \* sets of accounts that form a multisig
  None,          \* no wallet, no account
  FirstName, FirstKeys,  \* the wallets there are at first, and their keys
  MaxCalls       \* bound: operations of more than one request

\* What a wallet generates depends on its master derivation key alone.
Accounts == Wallets \X (1 .. MaxKeys)

ASSUME WalletAssumption ==
  /\ MaxKeys \in Nat /\ MaxCalls \in Nat
  /\ NoName \notin Names /\ None \notin Wallets \cup Accounts
  /\ Multisigs \subseteq SUBSET Accounts
  /\ FirstName \in [Wallets -> Names \cup {NoName}] /\ FirstKeys \in [Wallets -> 0 .. MaxKeys]

VARIABLES
  wallet,     \* KMD: of each wallet, whether and what it is and holds, and what it has held
  auth,       \* the chain: the authorized account of every account
  pending, confirmed,  \* transactions in the pool; the numbers of those on the chain
  session,    \* App.wallet_session of each user: the wallet, and its name as the session knows it
  call,       \* the operation each user is in
  calls

vars == <<wallet, auth, pending, confirmed, session, call, calls>>

NoWallet == [name |-> NoName, seed |-> None, generated |-> 0, keys |-> {}, deleted |-> {},
             multisigs |-> {}, wanted |-> TRUE]
Disconnected == [wallet |-> None, name |-> NoName]
Idle == [op |-> "none", pc |-> "idle", id |-> 0, name |-> NoName, seed |-> None,
         wallet |-> None, account |-> None, to |-> None, signer |-> None,
         todo |-> {}, found |-> {}, multisig |-> {}, sender |-> "multisig", fallback |-> FALSE,
         \* history: the accounts whose key or authorization has changed meanwhile,
         \* and whether the wallet of that name has been renamed
         changed |-> {}, renamed |-> FALSE]

Ops == {"none", "create", "connect", "export_key", "transfer_algo", "rename", "rekey",
        "import_multisig", "sign_multisig", "get_rekeyed_accounts"}
Requests == {"idle", "open", "make", "rename", "account", "to", "auth", "sign", "send", "wait",
             "key", "import", "with", "fallback", "returned"}
Optional(S) == S \cup {None}

Calls ==
  [op : Ops, pc : Requests, id : 0 .. MaxCalls, name : Names \cup {NoName},
   seed : Optional(Wallets), wallet : Optional(Wallets), account : Optional(Accounts),
   to : Optional(Accounts), signer : Optional(Accounts), todo : SUBSET Accounts,
   found : SUBSET Accounts, multisig : SUBSET Accounts, sender : {"multisig", "rekeyed", "other"},
   fallback : BOOLEAN, changed : SUBSET Optional(Accounts), renamed : BOOLEAN]
Entries ==
  [name : Names \cup {NoName}, seed : Optional(Wallets), generated : 0 .. MaxKeys,
   keys : SUBSET Accounts, deleted : SUBSET Accounts, multisigs : SUBSET Multisigs,
   wanted : BOOLEAN]
Txns == [id : 1 .. MaxCalls, op : Ops, account : Accounts, to : Accounts, signer : Accounts]

SessionTypeOK ==
  /\ wallet \in [Wallets -> Entries]
  /\ auth \in [Accounts -> Accounts]
  /\ pending \subseteq Txns
  /\ confirmed \subseteq 1 .. MaxCalls /\ calls \in 0 .. MaxCalls
  /\ session \in [Users -> [wallet : Optional(Wallets), name : Names \cup {NoName}]]
  /\ call \in [Users -> Calls]

Init ==
  /\ wallet = [w \in Wallets |->
       IF FirstName[w] = NoName THEN NoWallet
       ELSE [NoWallet EXCEPT !.name = FirstName[w], !.seed = w, !.generated = FirstKeys[w],
                             !.keys = {<<w, n>> : n \in 1 .. FirstKeys[w]}]]
  /\ auth = [a \in Accounts |-> a]
  /\ pending = {} /\ confirmed = {}
  /\ session \in [Users -> {Disconnected} \cup
       {[wallet |-> w, name |-> FirstName[w]] : w \in {v \in Wallets : FirstName[v] # NoName}}]
  /\ call = [u \in Users |-> Idle]
  /\ calls = 0

-----------------------------------------------------------------------------
Exists(n) == \E w \in Wallets : wallet[w].name = n
Holds(w, a) == a \in wallet[w].keys
Unused == {w \in Wallets : wallet[w].name = NoName}

Begin(u, c) ==
  /\ call[u] = Idle
  /\ calls < MaxCalls
  /\ calls' = calls + 1
  /\ call' = [call EXCEPT ![u] = [c EXCEPT !.id = calls + 1]]
  /\ UNCHANGED <<wallet, auth, pending, confirmed, session>>

At(u, ops, pc) == call[u].op \in ops /\ call[u].pc = pc

\* A request that only reads, and the call with what it has learnt.
Reads(u, c) ==
  /\ call' = [call EXCEPT ![u] = c]
  /\ UNCHANGED <<wallet, auth, pending, confirmed, session, calls>>

\* Account a has changed under every call that is under way and may depend on it.
Marked(c, a, w) ==
  IF c.pc # "idle" /\ (w = None \/ c.wallet = w) THEN [c EXCEPT !.changed = @ \cup {a}] ELSE c

-----------------------------------------------------------------------------
(***************************************************************************)
(* Wallets: create_wallet(), recover_wallet(), WalletSession(), rename().  *)
(***************************************************************************)

\* get_wallet() comes first, and finds no wallet of the new name.  A new wallet,
\* or one with the master derivation key of another.
CreateWallet(u) ==
  \E n \in Names, s \in Optional({wallet[w].seed : w \in Wallets \ Unused}) :
    /\ ~Exists(n)
    /\ Begin(u, [Idle EXCEPT !.op = "create", !.pc = "make", !.name = n, !.seed = s])

Rename(u) ==
  \E n \in Names \ {session[u].name} :
    /\ session[u] # Disconnected
    /\ ~Exists(n)
    /\ Begin(u, [Idle EXCEPT !.op = "rename", !.pc = "rename", !.name = n])

LeavesItToTheSdk(u) ==
  \E n \in Names, op \in {"connect", "export_key", "transfer_algo"} :
    Begin(u, [Idle EXCEPT !.op = op, !.pc = "open", !.name = n])

\* connect_wallet(); export_key() and transfer_algo() open a session of their
\* own.  get_wallet() finds the wallet.
Connect(u) ==
  \E n \in Names, op \in {"connect", "export_key", "transfer_algo"} :
    /\ Exists(n)
    /\ Begin(u, [Idle EXCEPT !.op = op, !.pc = "open", !.name = n])

Disconnect(u) ==
  /\ call[u] = Idle /\ session[u] # Disconnected
  /\ session' = [session EXCEPT ![u] = Disconnected]
  /\ UNCHANGED <<wallet, auth, pending, confirmed, call, calls>>

Opened(u, w) ==
  /\ session' = IF call[u].op = "connect"
                THEN [session EXCEPT ![u] = [wallet |-> w, name |-> call[u].name]] ELSE session
  /\ call' = [call EXCEPT ![u] = IF call[u].op = "transfer_algo"
                                 THEN [@ EXCEPT !.wallet = w, !.pc = "account"] ELSE Idle]

\* The wallet object of the SDK looks the name up again.
Open(u) ==
  /\ call[u].pc = "open"
  /\ IF Exists(call[u].name)
     THEN /\ \E w \in Wallets : wallet[w].name = call[u].name /\ Opened(u, w)
          /\ UNCHANGED <<wallet, auth, pending, confirmed, calls>>
     ELSE Reads(u, [call[u] EXCEPT !.pc = "make"])

\* KMD creates the wallet, for create_wallet() or for that object; it refuses a
\* name that is taken.
Make(u) ==
  /\ call[u].pc = "make"
  /\ ~Exists(call[u].name)
  /\ \E w \in Unused :
       /\ wallet' = [wallet EXCEPT ![w] =
            [NoWallet EXCEPT !.name = call[u].name, !.wanted = call[u].op = "create" \/ call[u].renamed,
                             !.seed = IF call[u].seed = None THEN w ELSE call[u].seed]]
       /\ IF call[u].op = "create"
          THEN call' = [call EXCEPT ![u] = Idle] /\ UNCHANGED session
          ELSE Opened(u, w)
  /\ UNCHANGED <<auth, pending, confirmed, calls>>

SubmitRename(u) ==
  /\ At(u, {"rename"}, "rename")
  /\ ~Exists(call[u].name)
  /\ LET w == session[u].wallet IN
       /\ wallet' = [wallet EXCEPT ![w].name = call[u].name]
       /\ session' = [session EXCEPT ![u].name = call[u].name]
       /\ call' = [v \in Users |->
            IF v = u THEN Idle
            ELSE [call[v] EXCEPT !.renamed = @ \/ call[v].name = wallet[w].name]]
  /\ UNCHANGED <<auth, pending, confirmed, calls>>

-----------------------------------------------------------------------------
(***************************************************************************)
(* Keys.  The derivation index of a deleted key is not used again.         *)
(***************************************************************************)
Changes(u, w, entry, a) ==
  /\ call[u] = Idle
  /\ wallet' = [wallet EXCEPT ![w] = entry]
  /\ call' = [v \in Users |-> Marked(call[v], a, w)]
  /\ UNCHANGED <<auth, pending, confirmed, session, calls>>

GenerateKey(u) ==
  LET w == session[u].wallet
      n == wallet[w].generated + 1 IN
  /\ session[u] # Disconnected
  /\ n <= MaxKeys
  /\ Changes(u, w, [wallet[w] EXCEPT !.generated = n, !.keys = @ \cup {<<wallet[w].seed, n>>}],
             <<wallet[w].seed, n>>)

DeleteKey(u) ==
  LET w == session[u].wallet IN
  /\ session[u] # Disconnected
  /\ \E a \in wallet[w].keys :
       Changes(u, w, [wallet[w] EXCEPT !.keys = @ \ {a}, !.deleted = @ \cup {a}], a)

DeleteMultisig(u) ==
  LET w == session[u].wallet IN
  /\ session[u] # Disconnected
  /\ \E m \in wallet[w].multisigs :
       Changes(u, w, [wallet[w] EXCEPT !.multisigs = @ \ {m}], None)

-----------------------------------------------------------------------------
(***************************************************************************)
(* rekey() and rekey_back(), and transfer_algo() once its session is open. *)
(***************************************************************************)

\* contains_key(), of the one account and then of the other.
Rekey(u) ==
  LET w == session[u].wallet IN
  /\ session[u] # Disconnected
  /\ \E a \in wallet[w].keys :
       Begin(u, [Idle EXCEPT !.op = "rekey", !.pc = "to", !.wallet = w, !.account = a])

HoldsSender(u) ==
  /\ call[u].pc = "account"
  /\ \E a \in wallet[call[u].wallet].keys :
       Reads(u, [call[u] EXCEPT !.pc = "to", !.account = a])

AnyTarget(u) ==
  /\ call[u].pc = "to"
  /\ \E b \in Accounts : Reads(u, [call[u] EXCEPT !.pc = "auth", !.to = b])

HoldsTarget(u) ==
  /\ call[u].pc = "to"
  /\ \E b \in wallet[call[u].wallet].keys :
       Reads(u, [call[u] EXCEPT !.pc = "auth", !.to = b])

SignsItself(u) ==
  /\ call[u].pc = "auth"
  /\ Reads(u, [call[u] EXCEPT !.pc = "sign", !.signer = call[u].account])

GetAuthAddress(u) ==
  /\ call[u].pc = "auth"
  /\ Reads(u, [call[u] EXCEPT !.pc = "sign", !.signer = auth[call[u].account],
                              !.changed = @ \ {call[u].account}])

\* sign_transaction(): without the key it raises, whichever way it takes.
Sign(u) ==
  /\ call[u].pc = "sign"
  /\ Holds(call[u].wallet, call[u].signer)
  /\ Reads(u, [call[u] EXCEPT !.pc = "send"])

Send(u) ==
  /\ call[u].pc = "send"
  /\ auth[call[u].account] = call[u].signer
  /\ pending' = pending \cup {[id |-> call[u].id, op |-> call[u].op, account |-> call[u].account,
                               to |-> call[u].to, signer |-> call[u].signer]}
  /\ call' = [call EXCEPT ![u].pc = "wait"]
  /\ UNCHANGED <<wallet, auth, confirmed, session, calls>>

WaitForConfirmation(u) ==
  /\ call[u].pc = "wait"
  /\ call[u].id \in confirmed
  /\ Reads(u, Idle)

\* The chain, which checks the signature again; and the end of a validity period.
Confirm(t) ==
  /\ auth[t.account] = t.signer
  /\ auth' = IF t.op = "rekey" THEN [auth EXCEPT ![t.account] = t.to] ELSE auth
  /\ call' = IF t.op = "rekey" THEN [u \in Users |-> Marked(call[u], t.account, None)] ELSE call
  /\ confirmed' = confirmed \cup {t.id}
  /\ pending' = pending \ {t}
  /\ UNCHANGED <<wallet, session, calls>>

Expire(t) ==
  /\ pending' = pending \ {t}
  /\ UNCHANGED <<wallet, auth, confirmed, session, call, calls>>

-----------------------------------------------------------------------------
(***************************************************************************)
(* Multisigs.  The public keys are gone through in any order.              *)
(***************************************************************************)

\* contains_multisig() comes first: one that is there is not imported again.
ImportMultisig(u) ==
  LET w == session[u].wallet IN
  \E m \in Multisigs :
    /\ session[u] # Disconnected
    /\ m \notin wallet[w].multisigs
    /\ Begin(u, [Idle EXCEPT !.op = "import_multisig", !.pc = "key", !.wallet = w,
                             !.multisig = m, !.todo = m])

\* With an account, or for every key of the multisig that the wallet holds.  The
\* sender is the multisig, an account rekeyed to it, or something else.
SignMultisig(u) ==
  LET w == session[u].wallet IN
  /\ session[u] # Disconnected
  /\ \E m \in wallet[w].multisigs, sender \in {"multisig", "rekeyed", "other"} :
       \E a \in Optional(m) :
         Begin(u, [Idle EXCEPT !.op = "sign_multisig", !.pc = "key", !.multisig = m,
                               !.wallet = w, !.account = a, !.sender = sender,
                               !.todo = IF a = None THEN m ELSE {a}])

ImportNeedsKey(u, k) ==
  /\ At(u, {"import_multisig"}, "key")
  /\ k \in call[u].todo
  /\ Reads(u, IF Holds(call[u].wallet, k) THEN [call[u] EXCEPT !.pc = "import"]
              ELSE [call[u] EXCEPT !.todo = @ \ {k}])

Import(u) ==
  /\ call[u].pc = "import"
  /\ wallet' = [wallet EXCEPT ![call[u].wallet].multisigs = @ \cup {call[u].multisig}]
  /\ call' = [call EXCEPT ![u] = Idle]
  /\ UNCHANGED <<auth, pending, confirmed, session, calls>>

PassesOverMissing(u, k) ==
  /\ At(u, {"sign_multisig"}, "key")
  /\ k \in call[u].todo
  /\ Reads(u, IF Holds(call[u].wallet, k) THEN [call[u] EXCEPT !.pc = "with", !.to = k]
              ELSE [call[u] EXCEPT !.todo = @ \ {k}])

\* contains_key(k): a key the wallet does not hold is passed over, unless it is
\* the account asked for.
SignNeedsKey(u, k) ==
  /\ At(u, {"sign_multisig"}, "key")
  /\ k \in call[u].todo
  /\ call[u].account # None => Holds(call[u].wallet, k)
  /\ Reads(u, IF Holds(call[u].wallet, k) THEN [call[u] EXCEPT !.pc = "with", !.to = k]
              ELSE [call[u] EXCEPT !.todo = @ \ {k}])

\* KMD signs; in the fallback the key is exported, and the client signs.
SignWith(u) ==
  /\ call[u].pc = "with"
  /\ Holds(call[u].wallet, call[u].to)
  /\ ~call[u].fallback => call[u].sender = "multisig"
  /\ Reads(u, [call[u] EXCEPT !.pc = "key", !.todo = @ \ {call[u].to},
                              !.found = @ \cup {call[u].to}])

\* KMD answers with an error, which for one account only its signing may do.
KmdRefuses(u) ==
  /\ call[u].op = "sign_multisig" /\ ~call[u].fallback
  /\ call[u].pc = "with" \/ (call[u].pc = "key" /\ call[u].account = None /\ call[u].todo # {})
  /\ Reads(u, [call[u] EXCEPT !.pc = "fallback"])

EveryKey(u) == IF call[u].account = None THEN call[u].multisig ELSE {call[u].account}

\* If the multisig authorizes the sender, all the keys are gone through again.
FallBack(u) ==
  /\ call[u].pc = "fallback"
  /\ call[u].sender # "other"
  /\ Reads(u, [call[u] EXCEPT !.fallback = TRUE, !.todo = EveryKey(u),
                              !.pc = IF call[u].account = None THEN "key" ELSE "with"])

SignReturns(u) ==
  /\ At(u, {"sign_multisig"}, "key")
  /\ call[u].todo = {}
  /\ Reads(u, [call[u] EXCEPT !.pc = "returned"])

-----------------------------------------------------------------------------
(***************************************************************************)
(* get_rekeyed_accounts(): the keys, then one request for each.            *)
(***************************************************************************)
GetRekeyedAccounts(u) ==
  LET w == session[u].wallet IN
  /\ session[u] # Disconnected
  /\ Begin(u, [Idle EXCEPT !.op = "get_rekeyed_accounts", !.wallet = w, !.todo = wallet[w].keys,
                           !.pc = IF wallet[w].keys = {} THEN "returned" ELSE "key"])

IsRekeyed(k) == auth[k] # k

ReadAuthAddress(u, k) ==
  /\ At(u, {"get_rekeyed_accounts"}, "key")
  /\ k \in call[u].todo
  /\ Reads(u, [call[u] EXCEPT !.found = IF IsRekeyed(k) THEN @ \cup {k} ELSE @,
                              !.todo = @ \ {k},
                              !.pc = IF call[u].todo = {k} THEN "returned" ELSE "key"])

-----------------------------------------------------------------------------
Return(u) == call[u].pc = "returned" /\ Reads(u, Idle)

\* A request fails, or the operation finds a reason to raise.
Raise(u) == call[u].pc \notin {"idle", "returned"} /\ Reads(u, Idle)

\* Users may go away.
Quiet ==
  /\ \A u \in Users : call[u] = Idle
  /\ UNCHANGED vars

Next ==
  \/ Quiet
  \/ \E u \in Users :
       \/ CreateWallet(u) \/ Connect(u) \/ Disconnect(u) \/ Rename(u)
       \/ Open(u) \/ Make(u) \/ SubmitRename(u)
       \/ GenerateKey(u) \/ DeleteKey(u) \/ DeleteMultisig(u)
       \/ Rekey(u) \/ HoldsSender(u) \/ HoldsTarget(u) \/ GetAuthAddress(u) \/ Sign(u)
       \/ Send(u) \/ WaitForConfirmation(u)
       \/ ImportMultisig(u) \/ SignMultisig(u) \/ Import(u)
       \/ \E k \in call[u].todo :
            ImportNeedsKey(u, k) \/ SignNeedsKey(u, k) \/ ReadAuthAddress(u, k)
       \/ SignWith(u) \/ KmdRefuses(u) \/ FallBack(u) \/ SignReturns(u)
       \/ GetRekeyedAccounts(u)
       \/ Return(u) \/ Raise(u)
  \/ \E t \in pending : Confirm(t) \/ Expire(t)

Spec == Init /\ [][Next]_vars

-----------------------------------------------------------------------------
(***************************************************************************)
(* Properties.                                                             *)
(***************************************************************************)
EverHeld(w) == wallet[w].keys \cup wallet[w].deleted

\* No account is rekeyed out of reach: the account and the one that signs for it
\* are keys of one wallet, unless somebody deleted one.
RekeyedWithinAWallet ==
  \A a \in Accounts : auth[a] # a => \E w \in Wallets : {a, auth[a]} \subseteq EverHeld(w)

\* What has been signed is signed by the account that is authorized, with a key of
\* the session's wallet: another rekey alone can make the node refuse it.
SignsForTheAuthority ==
  \A u \in Users : call[u].pc = "send" =>
    /\ call[u].signer = auth[call[u].account] \/ call[u].account \in call[u].changed
    /\ call[u].signer \in EverHeld(call[u].wallet)

\* A wallet comes to be because somebody asked for a new one; connecting creates
\* one, empty, only if the wallet was renamed while the session was being opened.
WalletsAreWanted == \A w \in Wallets : wallet[w].wanted

\* A wallet holds a multisig only if it could once sign for it.
MultisigsAreSignable ==
  \A w \in Wallets : \A m \in wallet[w].multisigs : m \cap EverHeld(w) # {}

\* sign_multisig_transaction() returns with the signature of the account it was
\* given, or of every key that the wallet held throughout, also if it took the
\* fallback half-way.
SignedByAll ==
  \A u \in Users : At(u, {"sign_multisig"}, "returned") =>
    IF call[u].account = None
    THEN (call[u].multisig \cap wallet[call[u].wallet].keys) \ call[u].changed \subseteq call[u].found
    ELSE call[u].account \in call[u].found

=============================================================================
