# A TLA+ verification of oysterpack_smart

`oysterpack_smart` is a Python project on the Algorand blockchain: an English auction sold by smart contracts, the
services that mirror the contracts' state into a database, a messaging and wallet-connect layer that lets an
application ask a wallet to sign transactions, and the service framework they all run on. This directory models the
parts of it that keep state and make decisions, checks them with TLC and proves the main safety results with TLAPS.

All source paths below are relative to `src/oysterpack/oysterpack/`.

## 1. Inventory

### A. Auction contract — `apps/auction/contracts/auction.py`, `auction_status.py`, `algorand/application/transactions/asset.py`
* **State** — the contract's global state (`status`, `seller`, `bid_asset_id`, `min_bid`, `highest_bidder`,
  `highest_bid`, `start_time`, `end_time`) and, on the ledger, the assets its account holds.
* **Operations** — `create`, `set_bid_asset`, `optin_asset`, `optout_asset`, `withdraw_asset`, `commit`, `cancel`,
  `bid`, `accept_bid`, `finalize`, `delete`; read-only `app_name`, `latest_timestamp`.
* **Interaction** — created and deleted by the AuctionManager; every handler runs inside an atomic transaction group;
  the assets it holds are moved by inner transactions and, from outside, by anybody who sends it some.
* **Hard** — one pooled balance pays refunds, the price and the close-out; the outcome depends on the block timestamp,
  which moves while half of the assets have been handed over; anybody may call `finalize`, per asset, in any order; an
  account that has opted out of an asset cannot receive it.
* **Correct when** — the escrow always covers the highest bid, the outcome cannot change once the auction is over, an
  asset leaves the escrow only to whom it is owed, an outbid bidder is refunded, nothing is left when it is finalized,
  and a committed auction can be settled.

### B. AuctionManager contract and clients — `apps/auction/contracts/auction_manager.py`, `apps/auction/client/`, `apps/auction/domain/`, `apps/client.py`
* **State** — the manager's ALGO balance and its created applications; the clients keep none, they read the
  contract's state, decide, and submit a transaction.
* **Operations** — manager: `create_auction` (exact storage fee), `delete_finalized_auction` (anybody),
  `withdraw_algo` (creator); auction client: `set_bid_asset`, `bid`, `commit`, `finalize`, ... each a read followed by
  one or several transactions.
* **Hard** — check-then-act against a chain that moves (`bid` passes the highest bidder it has read; `is_bidding_open`
  uses the wall clock and `<`, the contract the block timestamp and `<=`); multi-transaction operations that fail in
  the middle and are retried while somebody else does the same.
* **Correct when** — the manager always covers its minimum balance and earns the fee exactly once per auction, a
  balance once read as available stays so until it is withdrawn; a retry of an interrupted client operation
  completes it.

### C. Database mirror — `apps/auction/services/`, `apps/auction/commands/`, `apps/auction/data/`
* **State** — tables of auctions, managers and service states; the cursor (`next_token`, `min_round`) of each search.
* **Operations** — `AuctionImportService` (poll, `ImportAuctions`: search the indexer above the highest stored id,
  store), `AuctionManagerWatcherService` (events since a round, refresh, publish, save the cursor),
  `RefreshAuctions`, `ImportAuction`, `DeleteFinalizedAuctions`, `RegisterAuctionManager`, `UnregisterAuctionManager`,
  paging queries.
* **Hard** — two services write the same rows from searches made at different times; the highest stored id is a cursor
  and the watcher can move it; a crash between refresh, publish and save; a row deleted between a search and its store.
* **Correct when** — every auction on the chain ends up in the database, every deleted one leaves it, and the event
  cursor never skips an event.

### D. Service framework — `core/service.py`, `core/service_manager.py`, `core/async_service.py`, `core/health_check.py`, `services/`
* **State** — the lifecycle state, the running and stopped events, the health-check timer, the lifecycle stream, the
  worker threads that subclasses start.
* **Operations** — `start`, `stop`, `restart`, `await_running`, `await_stopped`, command subscriptions, health checks.
* **Hard** — no lock anywhere: state is tested and set in different steps by several threads; one timer field for
  several health checks; a worker that learns of `stop` only if it looks before the next `start`.
* **The asyncio variant** — `core/async_service.py` has the same operations on one event loop, with
  `services/asyncio/websockets_server.py` and its server task on top. Nothing interleaves between two awaits, but hooks
  suspend, tasks are cancelled, and a task that was woken runs when the state may already be another one.
* **Correct when** — states follow the documented lifecycle, the events agree with the state, a running service has
  its worker and its health checks, a stopped one has neither; one hook runs at a time, one server listens at a time,
  and no waiting task misses its event.

### E. Secure messaging — `algorand/messaging/`, `core/message.py`
* **State** — the handler's set of message-processing tasks, its success and failure counters, the websockets.
* **Operations** — receive, unpack, process in a task or inline when throttled, task completion, close on failure.
* **Hard** — tasks shared by all connections; a failure in a task closes a websocket that other tasks still use.
* **Correct when** — every received message is counted once, the limit on concurrent processing holds, and a failed
  message closes its websocket.

### F. Wallet connect — `apps/wallet_connect/`
* **State** — opted-in apps and connected apps of an account (local state, boxes), subscriptions, keys.
* **Operations** — `AuthorizeTransactionsHandler` (four concurrent checks, accept, authorize, sign, reply), the
  service, app and account contracts.
* **Hard** — the checks run before the user is asked and are not repeated before signing; errors half way through.
* **Correct when** — nothing is signed without the checks and the authorization, and the client hears one outcome.

### G. Keys and wallets — `algorand/client/accounts/`, `apps/kmd_shell/`
* **State** — in KMD: wallets with their keys and multisig accounts; on the chain: the authorized account of every
  account; in a shell: the session of the wallet it is connected to.
* **Operations** — create, recover, rename and open a wallet; generate, delete and export keys; `rekey`, `rekey_back`,
  `transfer_algo`; import and sign with multisigs; list rekeyed accounts.
* **Interaction** — a sequence of requests to KMD and to a node, next to other users of both.
* **Hard** — whatever an operation has checked (a name, a key, an authorization) may have changed when it acts; a
  transaction is confirmed long after it was signed; a multisig signature that KMD refuses half-way is started again
  with exported keys.
* **Correct when** — no account is rekeyed to one outside its wallet, the authorized account signs, no wallet comes to
  be that nobody asked for, and a multisig transaction comes back with every signature the wallet can give.

## 2. Plan

| step | module(s) | abstract spec / composition | proofs | state |
|---|---|---|---|---|
| 1 | `Auction`, `EnglishAuction` | Auction implements EnglishAuction | all safety of Auction, the refinement | done |
| 2 | `ServiceLifecycle`, `ServiceManager` | the manager composes the lifecycle with its command streams | types, `SettlesDown`, and the rest of its safety while calls do not overlap | done |
| 3 | `AuctionSync` | mirror of the chain, with its cleaner | all its safety, `NothingIsSkipped` where no registration overtakes a worker | done |
| 4 | `SecureMessageHandler` | – | types, `CountedOnce`, the bound on tasks | done |
| 5 | `AuthorizeTransactions`, `WalletConnectContracts` | – | all safety of the handler, of the contracts, and of the answers of the service | done |
| 6 | `AuctionClient` | client operations over Auction | every client step is a step of Auction; types, `LotsAreFilled`, `ReturnsTellTheTruth` | done |
| 7 | `AuctionManager`, `Treasury` | AuctionManager implements Treasury | all its safety, the refinement | done |
| 8 | `AsyncService` | the lifecycle composed with the server task | all its safety | done |
| 9 | `WalletSession` | users, KMD and the chain | all its safety | done |

The order is that of the money: the contract that holds the assets first, then the programs everything else runs on,
then the mirror, the messages and the signatures, and the clients once the contract they act on was settled.

## 3. The modules and the code

```
EnglishAuction <-refines- Auction <-extends- AuctionClient      Treasury <-refines- AuctionManager
                             ^                ^        ^                                 ^
                         MCAuction  AuctionProofs  MCAuctionClient             AuctionManagerProofs

ServiceLifecycle <-extends- ServiceManager                      AsyncService          SecureMessageHandler
        ^                                                             ^                        ^
ServiceLifecycleProofs                                                +--- EventLoopProofs ----+

AuctionSync <- AuctionSyncProofs                                WalletSession <- WalletSessionProofs, MCWalletSession
AuthorizeTransactions <- AuthorizeProofs                        WalletConnectContracts <- WalletContractsProofs
```

In every module a step is the largest piece of code that nothing can interleave with: a contract call is atomic
because its transaction group is; a database transaction or a request to a node is one step of the program that makes
it; on an event loop everything between two awaits is one step; and where threads share a Python object without a lock,
every test and every assignment is a step of its own.

**`Auction`** — `apps/auction/contracts/auction.py`. The variables are the global state of the contract (`status`,
`bidAsset`, `minBid`, `highestBidder`, `highestBid`, `startTime`, `endTime`), the ledger (`bal`, `optin`), whether the
application `exists`, and `now`, the timestamp of the latest block. There is one action per handler, with the sender as
a parameter, so that `Authorize.only` is a guard: `SetBidAsset`, `OptinAsset`, `OptoutAsset`, `WithdrawAsset`, `Commit`,
`Cancel`, `SubmitBid`, `AcceptBid`, `Finalize`, `Delete`. The conditions under which the ledger rejects an inner
transaction (a receiver that is not opted in, a balance that is too small) are part of the guard. Other accounts
transfer assets, opt in and out, and the clawback address of a revocable asset takes what it likes. What the contract
calls sold and not sold is derived from `status` and `now`, as in the code.

**`EnglishAuction`** is what a seller and a bidder are promised: a phase, a leader, a price, the lots that are left. It
knows no balances, clocks or accounts. `Auction!Sale` is the refinement mapping.

**`AuctionClient`** — `apps/auction/client/auction_client.py` and `domain/auction_state.py`. `call[a]` is the operation
that account `a`'s client is in, where in it (`pc`), and what it has read. Each request (read the state, list the
assets, submit a transaction) is a step; `Fails` ends an operation at any request. `Clock` is the clock of the client's
machine: at the last block or ahead of it. The transactions are the actions of `Auction`.

**`ServiceLifecycle`** — `core/service.py`. `Step(c)` is the next step of the call that thread `c` is in, `Catch(c)`
the exception handlers; the hooks `_start` and `_stop` may raise; `timers` are the `threading.Timer` objects of the
health checks, of which `timer` is the one that the field `_healthcheck_timer` refers to; `workers` are the threads
that the two auction services start. `overlapped` is a history variable: whether one call has ever begun while another
was under way; the properties that lock-free calls cannot keep are stated for the time before. **`ServiceManager`** — `core/service_manager.py` — makes the callers the
subscriptions of a service to the manager's command stream: a queue each (`observe_on`), one more with every `start()`,
and gone once its handler has raised.

**`AuctionSync`** — `apps/auction/services/`, `apps/auction/commands/`. `log` is the history of the chain and `indexed`
how much of it the indexer knows; `db` are the rows, `cursor` the rounds the watcher has saved; `importer`, `watcher`
and `cleaner` are the local variables of the three programs between two requests.

**`SecureMessageHandler`** — `algorand/messaging/secure_message_handler.py`. `reader` is the coroutine of a connection,
`msg` what has become of a message, `open` the websockets, `metrics` the counters. `TaskSet` is the shared set of tasks. Its
definitions have names of their own (`MessagingNext`, ...) because one module proves about it and about `AsyncService`.

**`AuthorizeTransactions`** — `apps/wallet_connect/message_handlers/authorize_transactions.py`. `phase` is where the
handler of a request is, `asked` how far the four concurrent checks are, `facts` what they ask about, `held` and
`lacked` the facts that have held or been missing at some time since the request came in, `heard` the replies,
`executor` whether the shared executor is one of threads or of processes, or broken.

**`WalletConnectContracts`** — `apps/wallet_connect/contracts/` and `services/wallet_connect_service.py`. The boxes of
the service contract, the permissions in the local state of its and the apps' accounts, the owners, keys and
connections of the account contracts; and `query`, one question to the service, in one or two reads.

**`AuctionManager`** — `apps/auction/contracts/auction_manager.py` and `client/auction_manager_client.py`. `balance` is
the ALGO of the manager's account, `auction` the phase, the ALGO and the number of holdings of each auction's account,
`call[s]` what the client of session `s` has read. The minimum balance is computed the way the ledger does, the fee
the way `auction_storage_fees` does. `overtaken` is a history field: whether another session has withdrawn since the
balance was read; `paidIn` and `withdrawn` are the books. **`Treasury`** is what the creator is promised: an amount that
only grows until it is withdrawn. `AuctionManager!Earned` is the refinement mapping: the balance above the minimum.

**`AsyncService`** — `core/async_service.py`, `services/asyncio/websockets_server.py`. `call[t].at` is the await at which
task `t` is, `next` what it does afterwards, `woken` whether the event it awaits has been set. `Goes` runs a task from
one await to the next, through up to two states. `server[n]` is the task that runs the n-th server, `signalled` are those
whose stop signal has a result. `abandoned` records that a start was cancelled, which the properties have to
except: such a service stays STARTING.

**`WalletSession`** — `algorand/client/accounts/kmd.py`, `apps/kmd_shell/`. `wallet` is KMD's, `auth`, `pending` and
`confirmed` are the chain's, `session[u]` and `call[u]` are those of user `u`'s shell. An operation is a record with
where it is (`pc`) and what it has read; each request is a step. The wallet object of the SDK looks the name up once more
and creates the wallet if it is not there (`Open`, `Make`). `changed`, `renamed`, `deleted` and `wanted` are history:
what has happened since to the accounts an operation relies on, which keys a wallet has held, and whether it was asked
for.

## 4. The runs

Every property of a passing run is known to be able to fail: each has a mutant, a definition the code could plausibly
have had instead, under which TLC finds the property violated with the same configuration. Those definitions stand
directly before the ones they would replace and no action uses them.

| run | instance | what it shows |
|---|---|---|
| `auction_safety` | a seller, two bidders, a lot, a bid asset, balances up to 2, 3 times | the escrow is solvent, the outcome final, assets reach their owners, the outbid are refunded, the contract implements `EnglishAuction` |
| `auction_settles` | a seller, a bidder, a lot, a bid asset and an asset with a clawback address | a committed auction is settled if whoever is owed an asset is opted in to it from some time on |
| `client_calls` | the clients of a seller and a bidder, a lot and a bid asset | an operation that returns has done what it is for; what is for sale is really there |
| `service_two_callers` | two threads, three calls, a health check, a worker | while calls do not overlap: the documented lifecycle is followed, the events agree with the state, a running service keeps its worker; however they overlap: the service leaves every passing state, and one that stays stopped loses its workers |
| `manager_two_subscriptions` | two subscriptions, five commands | two threads start and stop one service, some calls fail, and stop is obeyed all the same |
| `sync_follows_chain` | two auctions, batches and pages of one, a failure, a restart | no live auction is skipped or removed; only a late import leaves the row of a deleted one behind |
| `messaging_throttled` | two connections, one place for a task, three messages | messages are counted once and settled, at most one is in a task, a failure closes its websocket |
| `authorize_request` | a request and two changes of what is checked | only what was checked, acknowledged and approved is signed; reasons given are true; there is one outcome, and always one |
| `wallet_contracts` | two users (one the admin), an app, two account contracts, two changes of permissions | a connection does not outlive the opt-in; an account has one contract; answers were true at some time |
| `auction_manager` | two auctions, two sessions of the creator, three payments from outside, prices of 1 and 2 | no ALGO is stranded; what was read as available can be withdrawn; the manager implements `Treasury` |
| `async_service` | three tasks, four calls, a cancellation | hooks do not overlap, servers do not compete, events tell the state and wake-ups are not lost; a call returns unless what it awaits has nobody left to bring it about |
| `kmd_sessions` | two users, two wallets, two names, two keys each, a multisig, three operations of several requests | accounts are rekeyed within a wallet and signed for by their authority; no wallet is created unasked; a multisig transaction has all signatures |

### Bounds

* *Accounts.* Two bidders are the least with which one outbids the other, and with a seller the least with which an
  asset can go to the wrong account. They are symmetric in `auction_safety`; no run that checks liveness uses symmetry.
* *Time* (`MaxTime`). Before, during and after the bidding are three times. `commit` may choose any start and end, so two
  ticks also reach auctions that start late or end at once. Amounts up to 2 are a bid and a higher one; transfers from
  outside add to them, so that a balance is not the highest bid.
* *Assets.* A lot and the bid asset can be confused with one another, and a third one has a clawback address. Several
  lots finalized in any order are covered by the proofs, which hold for any number.
* *Calls* (`MaxCalls`, `MaxCommands`). Start, stop, start is the shortest history in which a second worker and the
  timers of an earlier start can be alive, and with two threads also in which two calls race on what a third left; five commands leave one pending on each queue while another runs.
* *Auctions* (`MaxAuctions`). With pages and batches of one, two auctions are the least at which a search, a page or a
  cursor can miss one. A cursor is a position in `log` rather than a round: events of one round are read together.
* *Failures* (`MaxFailures`, `MaxChanges`, `MaxCleanups`, `MaxRegistrations`) are few because each may come at any step,
  also between any two steps of the recovery from it.
* *ALGO.* Storage prices are 1 and 2 microalgos instead of tens of thousands; what matters is that they differ from
  one another and that an amount sent from outside can be less than a fee, equal to it or more. Two auctions have one
  deleted while the other is created; the proofs hold for any prices.
* *Tasks* (`MaxCancels`). Three tasks and four calls reach a restart that waits for a stop which a third task overtakes,
  and a second server that is started while the first one closes. Cancellation may hit any await.
* *Wallets.* One wallet is there at first and one can be created or recovered; with two names there is a name to
  rename to, and one that is freed. Three operations overlap two at a time, and a single-request change (a key generated
  or deleted, a session closed) is not counted. Users are symmetric.
* *Messages.* With one place, three messages are one in a task, one inline, and one that is read after a failure.

### Fairness

* `Auction`: blocks are confirmed for ever, and `Finalize` of an asset to an account that stays possible is called in
  the end: anybody may call it and the AuctionManager's client does. Nothing obliges bidders, so no other action is fair.
  The owners' readiness is a premise of the property: the code cannot force an account to opt in.
* `ServiceLifecycle`, `ServiceManager`: a thread that can take its next step takes it, exceptions are caught, a worker
  keeps polling its stop signal, a queue is worked off. Nobody is obliged to call anything, and a timer may be late for
  ever.
* `AuctionSync`: the indexer follows the chain and the threads of the services run. An action that only an operator or
  another user takes is not fair.
* `SecureMessageHandler`, `AuthorizeTransactions`: the event loop runs every coroutine that is ready. A client need not
  send or disconnect. The user answers in the end: the handler awaits the answer without a timeout.
* `AsyncService`: the event loop runs a task that is ready, a hook and the binding of a port end in one way or another,
  and a server that was told to stop closes. Nobody is obliged to call, to leave the body of `start_server`, or to give
  up waiting.
* Safety runs (`auction_safety`, `client_calls`, `sync_follows_chain`, `wallet_contracts`, `auction_manager`,
  `kmd_sessions`) assume no fairness.

Deadlock is checked in every run. Where everything may really have been done (all calls made, all requests answered)
the specification has a step for it that changes nothing.

## 5. What is proved

The proofs hold for every value of the constants that satisfies the named assumptions: any number of accounts, assets,
balances, times, callers, timers, requests.

* **`AuctionProofs`** (from `AccountsAssumption`, `AssetsAssumption`, `BoundsAssumption`, `EndowmentAssumption`: the
  contract's account is no user's account, assets are finitely many, the rest are numbers). The inductive invariant
  `IInv` is the conjunction of `TypeOK`, `StatusInv`, `EscrowBacksTheBid`, `NoRevocableAsset`, `FinalizedHoldsNothing`
  and `CommittedIsConfigured`. None of the safety invariants is inductive alone. That the escrow covers the bid needs
  that `commit` starts from a zero bid and finds the bid asset in the escrow, which is `StatusInv`, and that nobody
  else can take it out, which is `NoRevocableAsset`. From `IInv` follow the three action properties and, step by step, the refinement of `EnglishAuction`:
  every action maps to a step of the sale or leaves it as it is. A tick of the clock can end the sale by itself.
  For the clients (from the same assumptions): every step of a client is a step of `Auction` or leaves it alone
  (`ClientsUseTheContract`), so all of the above holds of an auction used through the clients; this needs to know what
  arguments a call carries (`CallInv`). For `LotsAreFilled` the invariant `Filled` reaches back to the client: between its
  look at the assets and the commit every lot is there too, because only the seller could take one out, and the seller's
  client is at the commit. Two clients of one seller would break it; the code has no answer to that.
  For `ReturnsTellTheTruth` the invariant `ReturnInv` says what a call still relies on when it acts: a `finalize` that
  works off its list has every lot left on that list, because nothing is added once the auction is not new (`Settling`);
  an auction that holds nothing is finalized (`Unsettled`); and a deposit finds the auction new to the end, because only
  the seller could commit or cancel it (`Depositing`).
* **`ServiceLifecycleProofs`** (from `LifecycleAssumption`). `SettlesDown` speaks of moments when no call is under way.
  What holds at every step is `SomebodyLeaves`: a service in a passing state has a thread that is about to take it
  out, from the step at which it put the service there. Another thread may overtake it and change the state; then it is
  the other thread's turn, or the state is not a passing one. `FollowsLifecycle`, `EventsTellTheState` and
  `RunningHasWorker` hold while calls have not overlapped, and rest on `AloneInv`: the one call that is under way finds
  the service in the state its own last step left (`InPlace`), the running event is set no later than the state needs,
  and the worker of the latest start is alive from its creation on, because a stop signal is never that of a later start.
* **`AuthorizeProofs`** (from `AuthorizeAssumption`). `AuthorizedSoFar` collects what each phase relies on: the facts
  behind the questions already answered have held, so all have held when the checks are over; the acknowledgement was
  heard from "authorize" on, the approval from "sign" on. `ReplyInv` adds what may be said: a code that is on its way is
  true of the request from the failure that raised it on (`Outcome`), and what has been heard before each phase is
  nothing, or the acknowledgement. `FailuresAreTrue` and `OneOutcome` follow, the former because no two facts share a
  code. `AuthorizeTypes` is the type invariant, which the run does not check because it is proved.
* **`WalletContractsProofs`** (from `WalletAssumption`). The three facts about the contracts are one inductive invariant,
  with `OnlyOfTheService` (account contracts opt in to apps of the service alone) and the bits each contract has. For the
  answers, `TrueSoFar` says what the service may rely on between two reads: the box it has read still names the one
  account contract of that user. `AllComesFromTheAdmin` (nobody has a permission, and nothing is registered,
  before the admin has opted in) is proved and not run.
* **`AuctionManagerProofs`** (from `ManagerAssumption`, `AuctionsAssumption`). The balance covers the minimum balance, or
  it is empty and there are no auctions; with a fee equal to the growth of the minimum balance, creation keeps the surplus, and
  deletion raises it. From that invariant a balance that was read stays available, and every step is one of `Treasury`.
  `NothingIsStranded` adds up the ALGO of all auctions; that such a sum changes by what one member changes is proved for
  every finite set by taking a smallest one for which it fails (`SubsetInduction`; the property is given as a set,
  because the provers cannot instantiate the library's theorem with an operator).
* **`EventLoopProofs`** (from `AsyncAssumption`, `MessagingAssumption`). For `AsyncService` the invariant relates the state
  to the one task that is in a hook, the events to the state, the servers to the number of starts and the stop signals,
  and a sleeping task to its event. Each of the three safety properties is a part of it; they need each other: servers
  do not overlap because hooks do not. For `SecureMessageHandler`, `MessagingInv` adds to `CountedOnce` where a message
  may be: what is rejected or handled inline holds up the coroutine of its connection, one message at a time, and done
  callbacks find only messages that were in a task. Then every step moves one message, and both sides of each equation
  change by the same one. That the tasks are never more than there are places (`NoMoreTasksThanPlaces`) is proved and
  not run.
* **`AuctionSyncProofs`** (from the assumptions of `AuctionSync`). What a program has looked up may be old when it acts on
  it; `SyncInv` says what is still true of it: whatever is held is about auctions that were created, what is taken for
  gone is deleted for good, and a row that the watcher is about to write has its deletion, if there is one, still ahead
  of the cursor. `OnlyGoneAuctionsLeave` and `OnlyImportsResurrect` follow for any number of registrations, failures
  and cleanups. `NothingIsSkipped` needs that both writers store in the order of the ids (`SkipInv`: below every row, every
  result and every handled creation, what exists is stored), and a hypothesis: `QuietRegistrations`, no registration
  while a worker holds results of an earlier one. A single registration satisfies it (`RegisteredOnce`). Without it the
  statement is false (section 6). `SkipInv` was checked with two registrations before it was proved.
* **`WalletSessionProofs`** (from `WalletAssumption`). What an operation has checked may be gone, so the invariant speaks of
  what a wallet has *ever* held: keys a rekey was checked against, the pending transactions it has become, and the
  authorized accounts they lead to are keys that one wallet held. For `SignedByAll`, `SigningInv` follows the keys through
  the call: each that counts has signed or is still to come, also when the fallback starts again with all of them.
  `MultisigsAreSignable` is proved and not run.

Every safety invariant and every action property that a run checks is proved, `NothingIsSkipped` under the hypothesis
above. Model-checked only is liveness (`CommittedIsSettled`, `StopIsObeyed`, `StoppedServiceIsQuiet`, `FailureCloses`,
`EveryMessageIsSettled`, `EveryRequestIsAnswered`, `CallsReturn`), which rests on ENABLED and is out of this prover's
reach.

## 6. Where code and documentation disagree

Observed while modelling. The models follow the code, so each of these is in a state space; the properties say what
holds all the same.

* `Service.stop` cancels the one timer that `_healthcheck_timer` holds (`core/service.py:352`). Every
  `schedule_healthcheck` and every callback overwrites the field, so with two health checks the timer of the other one
  stays armed after `stop` and re-arms itself for ever, although `services/healthcheck_service.py:96` says that health
  checks are fully managed by the base service. A callback that is under way during `stop` does the same.
* `ServiceManager.start` subscribes each service to the command stream every time (`core/service_manager.py:88`). After
  start, stop, start two threads execute the same START, both may find `STOPPED` and both run `_start`, although
  `core/service.py:241` says that starting a starting service is a no-op. `StopIsObeyed` is checked with two subscriptions.
* `DeleteFinalizedAuctions` asks for the next page but throws it away
  (`apps/auction/commands/data/delete_finalized_autions.py:90`), so without a client the first page of auctions that
  still exist is read for ever and those behind it are never deleted, against the docstring at `:58`.
* `UnregisterAuctionManager` does not stop the workers. A search of the importer or a batch of the watcher that was read
  before it is stored after the manager has been registered again, when the cursors start from zero: the importer's
  cursor, the highest id stored (`apps/auction/commands/data/queries/get_max_auction_app_id.py`), is then past auctions
  that are not stored, and they are left out for good. `sync_follows_chain` has one registration, and the theorem
  `NothingIsPassedBy` names what it takes.
* `bid` never compares a bid with `min_bid` (`apps/auction/contracts/auction.py:398`, against the description of the
  field at `:72-75`), and neither does the client. The model follows the code: a first bid of any amount is accepted.
* The client's `finalize` expects an error from `get_bid_asset_holding` (`apps/auction/client/auction_client.py:777-791`)
  that it does not raise, so it submits one more call, which fails if somebody else has finished: it can raise although
  the auction is finalized. `ReturnsTellTheTruth` holds: it never returns although it is not.
* `wallet_app_conn_public_keys` (`apps/wallet_connect/services/wallet_connect_service.py:234`) reads the app's contract
  instead of the account's and therefore never finds a connection's keys. `app_registered` also answers yes for
  account contracts, which the service contract has created as well.
* `AuctionManagerWatcherService` publishes events before it saves its cursor, the other way round than its docstring
  (`apps/auction/services/auction_manager_watcher_service.py:121-122`): after a crash in between they are published again.
* `AuthorizeTransactionsHandler` unpacks the request outside the `try` that its docstring promises to cover
  (`message_handlers/authorize_transactions.py:141`).
* `Service` ends its lifecycle stream with `on_error` (`core/service.py:297`), after which observers hear nothing of
  later starts.
* `AsyncService`: `start` catches `Exception`, which a cancellation is not (`core/async_service.py:95`), so a cancelled
  start leaves the service STARTING for good. `restart` of a starting service waits for ever if the start fails (`:157`),
  and one that waits for a stop can be overtaken by another start (`:166`). `timeout.seconds` (`:65`, `:76`) drops the days
  and the fractions of a timeout.
* `WebsocketsServer` is RUNNING before its port is bound (`services/asyncio/websockets_server.py:51`), and remains so if
  binding fails. `start_server` cancelled between `start` and `try` (`:59-62`) leaves the server running; of two tasks in
  `start_server` the first to leave stops it for both.
* Wallets: whether one exists is checked before it is created, renamed or opened
  (`algorand/client/accounts/kmd.py:120`, `:179`, `:265`). KMD refuses a name that is taken, but the SDK creates a wallet
  that is not there, so a rename in between leaves a new, empty wallet. A rekey whose confirmation is followed by a failed
  lookup raises although it took place (`:377`). `delete_key` does not ask whether accounts are rekeyed to the key.
* `sign_transaction` documents `KeyNotFoundError` (`kmd.py:319`), but its fallback exports the key of an address that was
  overwritten with an encoding of it (`:336`, `:350`), and `str(err).index(...)` raises `ValueError` rather than -1 (`:348`).
* `get_rekeyed_accounts` (`apps/kmd_shell/app.py:171`) fails as a whole if one account does not exist on the chain.

## 7. What is not modelled

* **Transaction fees**, and ALGO outside `AuctionManager`: callers pay them.
* **Bit masks**: `decode_bit_mask` is used by tests only; permissions are sets. **Paging**: `AuctionSync` has the one use of
  a page that decides something, in the cleaner; the other filters and sort orders build a query.
* **Private keys** (`algorand/client/accounts/private_key.py`): derivation, encryption and signing of values, without state.
* **Encryption, signing, encoding, serialization**: library calls without state; their outcomes (a message unpacks, does
  not, is not signed) are choices of the modules that use them.
* **Health checks themselves**, logging, configuration, command line front ends and the UI: no state to relate.
* Within the modelled parts: in `WalletConnectContracts`, contracts of accounts that were not created by the service,
  `set_wallet_public_keys` (nothing reads what it stores), `url`, `enabled` and `expiration` (no handler changes them);
  in `AuctionClient`, what is read only to be returned.
