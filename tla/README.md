# TorEx: a TLA+ verification project

This directory models TorEx, a single-process spot exchange written in Rust
(`src/backend`), with Postgres, Redis and Kafka beside it and a Leptos frontend
(`src/frontend`) in front of it. It holds TLA+ modules, TLC configurations that
check them on small instances, and theorems that TLAPS proves for every value of
the constants. Paths below are relative to the repository root; `matching` stands
for `src/backend/crates/matching/src/lib.rs`, and likewise for the other crates;
`ws.rs`, `storage.rs` and the pages are under `src/frontend/src`.

Contents

1. Inventory: the system's parts, what is hard about them, what makes them correct
2. What is modelled, and how it corresponds to the code
3. The runs: what each one checks and shows
4. Bounds and fairness
5. What is proved
6. Findings
7. Plan
8. What is not modelled

## 1. Inventory

One process (`app/src/main.rs`) serves HTTP and WebSocket with axum, on a tokio
runtime with several worker threads, and spawns four tasks: the settlement consumer,
two deposit monitors and the withdrawal executor. All share one Postgres pool of ten
connections (`shared` 57). Handlers interleave at every `.await`, and, being on
several threads, at every lock.

```
 clients ──HTTP──> auth, wallet, matching, fees, admin ──sqlx──> Postgres
    │                │    │ trades            │ withdrawals
    │             Redis   v                   v
    └──WebSocket──> ws_gateway         Kafka topics ──> settlement ──> Postgres
          ^  depth, trades from               └───────> withdrawal executor
          └── matching (in memory)      deposit monitors ──> Postgres
```

| Component | State it keeps | Operations | What is hard | What makes it correct |
|---|---|---|---|---|
| **Order book** (`matching` 142-337) | per pair: two B-trees from tick to queue, last price; in memory | `submit`, `cancel` under a mutex | a matching loop with eight order types, rounding to ticks, levels that stay empty | price-time priority, no overfill, book not crossed, the loop ends, fill-or-kill is all or nothing |
| **Order handlers** (`matching` 378-659) | rows of `orders` and `trades`, the map of conditional orders (a sharded DashMap), the topic `trades` | `create_order`, `cancel_order`, `persist_trades`, OCO cancellation, stop triggers | two copies of every order (row and book) written at different times by many handlers; the iterator of the map holds a lock other handlers need; every call may fail half-way | an order enters the book at most once, every trade reaches the topic, what is cancelled stays gone, one order of a linked pair cancels the other, every request ends |
| **Settlement and fees** (`settlement`, `fees`) | balances, rows of orders, fee revenue, volumes, tiers | `process_trade`, `get_user_fee_tier`, `record_trade_fees` | row locks held while the same task asks the pool for a second connection; two transactions per trade; messages that come again, after a restart or without one | no lost update, a trade moves money once per delivery, fees follow money, nobody waits for ever |
| **Wallet** (`wallet`) | deposits, withdrawals, balances | `deposit_address`, `withdraw`, `balance` | a row lock shared with settlement and deposits; a message sent after the commit | a withdrawal is paid from money that is there, and the executor hears of it |
| **Blockchain** (`blockchain`) | deposits, balances, withdrawals, a buffer in memory | two monitors, `credit_deposit`, withdrawal executor | two monitors after the same deposits; a first deposit inserts a row nobody could lock; a key that is not always the same; a buffer lost at a restart | the two monitors confirm an address once, and in the end; an accepted withdrawal is broadcast or waits for approval, and its status moves forward |
| **Authentication** (`auth`) | users and administrators in Postgres; sessions, challenges in Redis; Noise states in memory | registration, session check, logout, admin login with password, TOTP and captcha, TOTP enrolment, passkey challenges, an HTTP handshake | a call is several statements on two databases; keys expire between them; read-compare-delete of challenges | whoever a session admits has a row, an ended session stays ended, a challenge is answered once |
| **WebSocket gateway** (`ws_gateway`) | per socket a Noise state, a ratchet, a sender and a task per subscription | handshake, `subscribe`, feeds of depth (every 100 ms), trades and own orders | encrypt and send under different locks; a lagging receiver ends its task | messages are opened in the order of their counters, none twice; a feed has no gaps; who subscribed is served |
| **Cryptographic primitives** (`crypto_primitives`) | the ratchet; otherwise pure functions | `init_sender`, `init_receiver`, `encrypt`, `decrypt`, Noise sessions; stealth addresses, balance encryption, commitments | counters that skip and go back | both ends derive the same keys in the same order |
| **Administration** (`admin`) | tables of the others | metrics, user creation, session reset, fee tiers, listing and approval of cold withdrawals | writes statuses other tasks write too, from lists that are old | a withdrawal is approved once each time it waits |
| **Frontend** (`src/frontend`) | LocalStorage and SessionStorage of the browser, the ratchet of the page | onboarding, trading, wallet, admin login and dashboard | tabs share one storage and not the other; answers come late | a tab acts for the user it registered |
| **Shared, app, infra** | configuration, clients, wiring, schema | start-up | no recovery of books at a restart | — |

PROJECT.json lists the hazards one by one, each at its line, with the properties
that would catch it going wrong, or the reason why there is none.

## 2. What is modelled

| Module | Models | Builds on |
|---|---|---|
| `Orders` | sides, order types, price and tick arithmetic | |
| `PriceTimeExchange` | abstract: what a matching engine promises | `Orders` |
| `OrderBook` | `OrderBook::submit` one iteration at a time, `cancel` | `Orders`; implements `PriceTimeExchange` |
| `OrderHandlers` | the handlers around the book, await by await | `Orders` |
| `Accounts` | arithmetic of settlement, fee tiers | |
| `Ledger` | abstract: what the accounts promise | `Accounts` |
| `Funds` | settlement, withdrawals, deposits as Postgres transactions | `Accounts`; implements `Ledger` |
| `Withdrawals` | a withdrawal from its commit to the executor and the administrator | |
| `Ratchet` | the sessions of the ratchet, with symbolic keys | |
| `Channel` | a WebSocket from the handshake to its end | `Ratchet` |
| `Sessions` | registration, sessions and logout, with the tabs of a browser | |
| `Console` | the administrators: codes, challenges, approvals | |
| `OrderBook_proofs`, `OrderHandlers_proofs`, `Funds_proofs`, `Withdrawals_proofs`, `Channel_proofs`, `Sessions_proofs`, `Console_proofs` | theorems, section 5 | the module of their name, `TLAPS` |
| `Sums` | lemmas about sums over finite sets and induction over them, section 5 | the libraries of `TLAPS` |
| `MC...` | values of the constants for TLC | the module of their name |

In several modules a small definition stands beside the one the code has, with a comment
that begins with "mutant" or with a name that says what it changes (`NothingElse`, `EveryTab`,
`SkipsExclusive`): the same step with a plausible bug in it. PROJECT.json names for
every property one such definition that TLC finds to break it.

### OrderBook

A price is a natural number of sub-ticks and `Resolution` sub-ticks make a tick, so
that `price_to_ticks` (`matching` 811) really rounds. `book[side]` is a function
from ticks to queues, as the two B-trees are; a level may be empty, as after
`entry().or_default()` in the PostOnly branch (170). Orders get their position in
`placed` for an id, in place of a UUID. `status` is what `submit` assigns to the orders it
holds; `executed` is a history variable: what an order has traded over all calls.

| Action | Code (`matching`) |
|---|---|
| `RejectPostOnly`, `RestPostOnly` | 157-173 |
| `KillFok` | 175-188 |
| `StartMatching` | 190-203, an iceberg sets its hidden part aside |
| `Match` | one iteration with a queue that is not empty, 203-235 and 250-281 |
| `SweepEmptyLevel` | one iteration that meets an empty level |
| `RestRemainder`, `DropRemainder` | 236-246, 282-292 |
| `Cancel` | 315-337 |

The two arms of `submit` for buys and sells are one action with the side as a
parameter. The mutex of the book is held from `StartMatching` to the end: no cancel
and no other submit comes in between, but each iteration is a step, so that what
holds inside the loop can be stated and its termination is a real liveness property.

`PriceTimeExchange` has no levels, queues or loop: a set of resting orders, and an
active order that trades, one counterparty at a time, with the first of them by price
and age, at that order's price and within its own limit. An order may join the others
only when none is left that it would accept, may leave with something left only then
(icebergs excepted, see section 6), and may be turned away only as PostOnly or as a fill-or-kill order
that the book cannot fill.

### OrderHandlers

One task per request of `Requests` and per cancellation of `Cancels`; a task's `pc` is the
next await or lock. The book is one sequence of resting orders by age, of which
`Makers` computes the matches of a submit in one step: its inner workings are
`OrderBook`'s subject, and here what matters is who calls it when. The row of an
order is `rows`, the map `CONDITIONAL_ORDERS` is `conds`, from id to best price,
in `Shards` shards. `check_conditional_triggers` is the sequence `LookAndTrigger`,
`LookAndSkip` or `LookAndFollow` per entry, with a read lock on the shard of the entry
(`Scanning`), `NextShard`, and then `Fire` for every triggered order. Every write to the
map waits for the iterators in its shard (`Writable`), as in DashMap 5.5.3.

Errors follow the code: a failed `persist_trades` of one's own order ends the request (486) with
everything after it undone; for a triggered order it is logged (596-598).
`Restart` empties book and map, as `main` does (`app` 31), loses the tasks, and makes
the consumer see some messages again. Settlement appears as what it does to the rows (`Settle`): a trade on the topic is
consumed any number of times, in any order, or never, since neither the producer (`shared` 94-97) nor the consumer
keeps a message from coming again. A handler that waits for the lock of an iterator, its own or another's, has no step:
`NeedsLock` says that it stands at `get_mut` (570), and `Circle` that some of them wait for each other.

### Funds

A transaction's writes become visible at its commit, so its updates and the commit
are one step; what it reads under a row lock is kept in the state of its task
(`sellerHad`, `had`) from the step that reads it, which is what makes lost updates possible
in the model if a lock is missing. `holder` and `claimant` are the row locks of `balances` and `deposits`.
`InTransaction` is the set of tasks that hold a connection; `Connected` says that the
pool has another. A call that gets none may time out (`NoConnection`; sqlx gives up after 30 seconds).

`sealed` is the key each row is encrypted with. `fetch_balance_key` returns the key of Vault, or another that is built into
the code when Vault's answer has no key at that path (`blockchain` 147-157); in `wallet` 114 any error does. A task that fetched the wrong one gets nowhere in settlement (`AbandonTrade`) and
in a withdrawal (`Refuse`), but a monitor takes a row that does not decrypt for 0 (`unwrap_or_default`, `blockchain` 130; `Had`)
and replaces it by the deposit alone, under its own key (`Credit`). `Ledger` says the same in the open: there a deposit is added to what is there,
or takes the place of what no longer opens.

| Action | Code |
|---|---|
| `Consume`, `BeginSettlement` | `settlement` 14-30 |
| `Redeliver` | a message that comes again in one life of the process: the producer retries and is not idempotent (`shared` 94-97), a group that is balanced anew goes back to its last offset |
| `LockSeller`, `LockBuyer` | `settlement` 31-40, `FOR UPDATE` |
| `CheckSellerFree`, `LookUpSellerTier`, and the same for the buyer | `fees` 17-64, each query with a connection of its own (`settlement` 45-46) |
| `MoveMoney` | `settlement` 43-80 |
| `RecordFees`, `Announce` | `settlement` 81-92, `fees` 74-118 |
| `AbandonTrade` | any `?` of `process_trade`, logged at `settlement` 17-19 |
| `BeginWithdrawal`, `LockToPay`, `Refuse`, `Pay`, `WithdrawalFails` | `wallet` 100-139 |
| `IssueAddress` | `wallet` 68-98 |
| `Poll`, `EndPoll`, `BeginCredit` | `blockchain` 50-80 |
| `Claim`, `LockToCredit`, `Credit`, `CreditFails` | `blockchain` 107-145 |
| `Restart` | a new process: transactions rolled back, messages redelivered |

Abstractions to know of:

- Amounts are small naturals; quantities and volumes are in tenths, so that
  `.round()` (a half rounds up) happens. `saturating_add` never saturates at these amounts, `saturating_sub` does.
- The monitors of the code are placeholders that pass the amount 0 (`blockchain` 59, 77) and ask nothing of the chain.
  `credit_deposit` takes any amount, and the instances give it one, so that a lost or doubled
  credit is visible. What they do not show is a deposit that is really paid: no code credits one (section 6).
- Balances are numbers, and whether a row decrypts is whether the task has the key in `sealed`. A fallback of the key counts as a failed call.
  Rows of 32 zero bytes, which `admin` 229-234 inserts and no key opens, are left out: they belong to users with keys that are drawn and thrown away, who cannot
  log in and so have no address, no order and no withdrawal.
- A withdrawal ends with its commit here; the message at `wallet` 146 and what follows is in `Withdrawals`.
- The schedule of fees is fixed while the model runs.

### Withdrawals

One row per call of `withdraw` that got past the debit. `topic`, `read` and `committed` are what
is on the topic, what the consumer has received and what its offsets say; `buffer` and `batch` are the two
places of the executor where a withdrawal can wait in memory. A message may come several times, also within one life of the process, so that they count
the messages of each withdrawal; nothing depends on their order. `received` counts what came, and `forsaken` notes for which
withdrawals a failed call or a restart has dropped the message they had.

| Action | Code |
|---|---|
| `Debited` | `wallet` 100-139, the commit (the transaction itself is in `Funds`) |
| `Send` | `wallet` 140-149; a failed send may have reached the topic |
| `Receive` | `blockchain` 29-37 |
| `Redeliver` | a message comes again without a restart: the producer is not idempotent (`shared` 94-97), the group is balanced anew |
| `Flush` | `blockchain` 41-84: five minutes have passed, `mem::take` |
| `Decide`, `DecideFails` | `blockchain` 85-105, one UPDATE each; the first error drops the rest of the batch |
| `Approve` | `admin` 409-424 |
| `CommitOffsets`, `Restart` | the timer of the client library; a new process |

### Ratchet and Channel

Keys are terms: a root is made of a key derivation and two public keys, a chain of a root, a label and a number of
steps, and two ends have the same key when they derived the same term. `Ratchet` has the operations of
`signal_ratchet` (`crypto_primitives` 129-247) as operators on sessions; `AfterDecrypt` keeps the order of the code, in
which chain and counter move before the key is tried.

`Channel` is one socket. `noise` counts the messages of the Noise XX handshake on each side (`crypto_primitives` 42-84),
`server` is the ratchet all tasks of the socket share, and `feed[f]` is the task of a subscription.

| Action | Code |
|---|---|
| `ServerAnswers`, `ServerFinishes`, `ReadCommand` | `ws_gateway` 40-80 |
| `Tick` | `ws_gateway` 80-85, a snapshot every 100 ms |
| `Receive` | `ws_gateway` 90-96, a broadcast receiver that may have fallen behind |
| `Encrypt`, `Send` | `ws_gateway` 86-87, 96-98: two locks, one after the other |
| `Publish` | `matching` 615-638 |
| `ClientHello`, `ClientFinishes`, `Read`, `Close` | `ws.rs` 157-278 |

The client is the page with one of two ratchets: `ClientKdf = "crate"` is a client with the ratchet of `crypto_primitives`,
`"page"` is the one of `ws.rs` 35-133, which has the same structure and other functions.
The connection is TCP: it keeps the order of frames and loses none.

### Sessions

A user stands for a recovery phrase, its keys and its `user_id`. `session` is Redis, `users` is Postgres,
`call[t]` is the request tab `t` waits for, `mnemonic` and `user_id` are LocalStorage, `session_id[t]` is SessionStorage.

| Action | Code |
|---|---|
| `OpenRoot`, `OpenOnboarding` | `app.rs` 14-35 |
| `SubmitPhrase`, `StoreIdentity` | `onboarding.rs` 16-77, `storage.rs` 12-23 |
| `RefuseTimestamp`, `InsertUser`, `SetSession` | `auth` 369-375, 173-197, 198-208 |
| `AskLogout`, `DeleteSession` | `auth` 150-171, 210-216; no page calls it, a client of the API may |
| `CallFails`, `Restart`, `Expire`, `CloseTab` | what may happen to a call, the process, a key and a tab |

### Console

One row of `admin_users`, the challenges and tokens in Redis, and the rows of large withdrawals. A TOTP secret stands for the codes of its
current 30 seconds, 0 for none; passwords are right and captchas passed. `late`
notes at the start of a finish whether its challenge had been answered by then. Setting up and confirming a secret asks for no session, as in the code. A withdrawal begins as "queued" (`wallet` 129);
the dashboard's filters "all" and "pending" both ask for the status "pending" (`admin` 389), which nothing writes, so they list nothing.

| Action | Code |
|---|---|
| `SetupTotp`, `CheckCode`, `Enrol` | `auth` 277-308 |
| `CheckLogin`, `OpenSession` | `auth` 246-275, `admin_login.rs` 15-33 |
| `StartPasskey`, `CompareChallenge`, `StoreCredential`, `DropChallenge` | `auth` 333-363, statement by statement |
| `ListWithdrawals`, `AskApproval`, `ApproveWithdrawal` | `admin` 19-31, 381-424, `admin_dashboard.rs` 68-82, 156-168, 324-350 |
| `SendToColdWallet` | `blockchain` 88-101 |
| `ExpireChallenge`, `CloseSession`, `Fails` | expiry, sign-out, a failed call or a lost answer |

## 3. The runs

| Run | Instance | Checks | States |
|---|---|---|---|
| `book_immediate` | 4 orders from a menu of Limit on and off the grid, FOK, IOC, Market, TWAP with FOK | `RestingSound`, `NeverOverfilled`, `FillOrKill`, `FilledIsFilled`, `PriceTimePriority`, `KeepsContract` | 260,703 |
| `book_resting` | 4 orders from Limit, PostOnly, OCO, Iceberg | `TypeOK`, `NotCrossed`, `MatchingEnds` | 432,496 |
| `handlers_stops` | a seller, a stop, two buyers that may both trigger it, of whom the second is linked to the seller, a cancel; one failure, one restart | `TypeOK`, `EntersOnce`, `TradesReachTopic`, `CancelledIsGone`, `TakerCancelsLink` | 4,112,340 |
| `handlers_end` | a seller, two buyers at two prices, two trailing stops, of which one fires at the higher price and one is in the shard of the nil id | `RequestsEnd` | 162,480 |
| `funds_transactions` | a trade and one of its buyer with himself, one of which may come again, a withdrawal by the seller, the first deposit of the buyer; two connections, one failure (also of the key), one restart | `TypeOK`, `FeesFollowMoney`, `KeepsLedger` | 1,172,726 |
| `funds_end` | the first trade, the withdrawal and two first deposits of the buyer; two connections, no failures | `KeepsLedger`, `NoDeadlock`, `TransactionsEnd`, `AddressesConfirmed` | 83,984 |
| `withdrawals` | withdrawals of 9,999, 10,000 and 25,000; one failure, one restart, one message that comes again | `TypeOK`, `NothingForgotten`, `OncePerMessage`, `Forward`, `ExecutorGetsThere` | 827,866 |
| `channel` | a feed of the book and one of trades, a receiver of capacity 1 | `TypeOK`, `OpenedInOrder`, `NothingLostInOrder`, `TradesFollow`, `SubscriptionServed` | 83,809 |
| `sessions` | two users, two tabs, three sessions; one failure, one restart | `TypeOK`, `SessionHasUser`, `NeverRevived`, `TabActsForItsUser` | 77,936 |
| `console` | two consoles, two secrets, two challenges, a withdrawal decided twice; one failure | `TypeOK`, `AnsweredOnce`, `ApprovedOnce` | 1,049,738 |
| `funds_overwritten`, `channel_page` | | expected violations, section 6 | |

What they show beyond the names:

- **RestingSound, NeverOverfilled, FilledIsFilled** tie the book to the history of
  trades over all submits: a maker is filled in place and a taker in a copy that rests later, and both must
  agree with what was traded.
- **FillOrKill** compares a quantity counted before the loop with what the loop then
  finds; **NotCrossed** holds for the types that skip the price check of the loop, with the one exception it
  names: an order off the tick grid is compared unrounded and rests rounded.
- **KeepsContract** is refinement: `OrderBook` implements `PriceTimeExchange`. TLC checks it for the menu of `book_immediate`; for the types that rest in
  ways of their own the theorem `ContractKept` stands alone.
- **EntersOnce**: of several handlers that saw a stop order triggered only the one that
  removes it from the map submits it.
- **TradesReachTopic**: a trade struck in memory is on the topic or on the list
  of a handler that is about to send it, unless a call failed or the process died; a stored trade was sent. What a failed
  `persist_trades` leaves behind is lost, and exempt.
- **RequestsEnd**: every request ends, or there is a circle: handlers whose iterators stand in the shards whose write locks they
  wait for. The instance reaches a circle of one handler (the second trailing stop is in the shard of the nil id) and one of two (the buyer's scan at 3 has triggered the first
  stop and stands in the second's shard, the other's scan is in the first's). That there is no other way to wait for ever is what the run shows; that circles form is a fault of the code (section 6).
- **CancelledIsGone**: with triggers, links, trades and settlement in between, an order that was in the
  book with its row written is gone after a cancel. Without that precondition it need not be: a cancel
  that comes while `create_order` has not yet submitted finds nothing, and the order rests afterwards.
- **TakerCancelsLink**: a taker's linked order is gone before the taker's client is answered. The code does nothing for the link of a maker (section 6).
- **KeepsLedger**: settlement, withdrawals and deposits on the same rows come to
  what they would come to one after the other, also when a trade comes again: then it moves all of its money again, since
  settlement does not ask whether a trade is new. It is what `FOR UPDATE` is for. A balance is lost at one place only, which `Ledger` names: to a deposit
  whose key does not open the row.
- **OncePerMessage**: the executor does not ask for the status of a row, so that it broadcasts a withdrawal as often as its message comes, and
  not more often.
- **FeesFollowMoney**: fees are in a second transaction; without failures and
  restarts every trade that moved money gets its fees, and none that did not.
- **NoDeadlock**: settlement locks two users and a monitor a deposit and its user, without a common order of the rows. No circle arises because there is
  one settlement, and whoever else holds a user's row does not wait for another.
- **TransactionsEnd**: settlement asks for a second connection while it holds
  locks that the holders of all the others may wait for. Only the pool's timeout resolves this. It is assumed that calls
  of Vault end: the one at `wallet` 114 is made under a row lock and has no timeout.
- **AddressesConfirmed**: the monitor that loses the race to insert a first balance tries again at the next poll. It says nothing of payments:
  every address is confirmed, paid or not (section 6).
- **NothingForgotten**: a debited withdrawal that nobody has decided is on its way, unless its own send failed, the flush it was in
  failed, or the process died with its message in memory and behind the committed offset (`forsaken`). All three happen: the message is sent after the commit, the offsets
  are committed before the flush, and the first error drops the rest of a batch. Withdrawals that a failure or restart does not concern are
  not exempt.
- **Forward**: a decision or an approval is never taken back, unless the message was received again: a withdrawal that
  was approved may then be sent to wait once more.
- **OpenedInOrder**: whatever overtakes what between the two locks, the client opens nothing twice and nothing
  out of order. **NothingLostInOrder**: it opens everything until a message overtakes another; then it may open
  nothing any more (section 6).
- **TradesFollow**: the trades that a client opens have no gap, since a feed that fell behind ends.
- **SubscriptionServed**: handshake, command and feed lead to a first message that can be opened.
- **SessionHasUser, NeverRevived, TabActsForItsUser**: two databases, expiry, late answers and shared storage do not make a
  session of nobody, of the past, or of somebody else. `TabActsForItsUser` compares a tab with the user who registered in it, not with the
  one its pages show (section 6).
- **AnsweredOnce** bounds what calls that begin later can do: two finishes that overlap can compare the same challenge, and both are answered.
- **ApprovedOnce**: the conditional UPDATE decides between dashboards with old lists.

## 4. Bounds and fairness

| Constant | Meaning | Why it is enough |
|---|---|---|
| `MaxOrders = 4` | orders per history of the book | two makers in one queue or on two levels, a taker over both, and a later order that meets what is left |
| `Resolution = 2` | sub-ticks per tick | the smallest that has prices off the grid |
| `Requests`, 3 to 5 | calls of `create_order` | two handlers that trigger the same stop, with the order that rests and the stop itself; two scans at two prices over two trailing stops |
| `Shards = 2` | shards of the map; `ShardOf` says where each id and the nil id are | two trailing stops in two shards, one of them beside the nil id: an iterator waits for itself, and two for each other; both were seen to occur by looking for states with `Circle` |
| `MaxFailures`, `MaxRestarts`, 0 or 1 | failed calls, restarts | one is enough to cut any handler at any step. `handlers_end` and `funds_end` have none, so that nothing is excused by them; `handlers_stops`, `funds_transactions` and the others have one of each |
| `MaxRedeliveries`, 0 or 1 | messages that come again without a restart | once, while the first is in memory or after it was decided, before a restart or after it |
| `Connections = 2` | pool size; the code has 10 | the pool is full when one transaction waits for another: the case that matters at any size |
| one trade, or two, in `Funds` | messages | there is one consumer, which settles one after the other; the second has one user on both sides, and a message that comes again and a restart repeat them |
| three withdrawals | messages | one on each side of the limit and one at it, so that a batch can be cut in the middle |
| `Capacity = 1`, `MaxTrades = 3` | receiver and trades | the receiver falls behind and has something left; the code has 256 |
| `MaxSent = 4` | messages of the gateway | one message overtakes another, and messages follow that must not be opened |
| 2 users, 2 tabs, `MaxSessions = 3` | registrations | each tab registers, and one of them again for the other user; users and tabs are symmetric |
| 2 consoles, `MaxSecrets = MaxChallenges = MaxDecisions = 2` | calls of administrators | each thing is replaced once while another console holds the first; consoles are symmetric. `Modes` has one member, since each has a key of its own |

Most instances switch deadlock checking off, since they stop when all
requests are done; the `cfg` files say so. That something must still happen is what the liveness
properties are for.

Fairness is weak throughout, nothing is assumed strongly fair:

- `OrderBook`: `WF_vars(LoopStep)`, the thread with the mutex of the book keeps running.
- `OrderHandlers`: `WF_vars(HandlerStep)`, as long as some handler can go on tokio polls one.
- `Funds`: the consumer, every withdrawal that has begun and both monitors, which
  `main` spawns and which loop for ever; a timeout is a step of its task. It is assumed that both chain
  nodes are configured and answer (`blockchain` 51, 65 return early otherwise).
- `Withdrawals`: `WF_vars(ExecutorStep)`, a task that `main` spawns and nothing ends.
- `Channel`: `WF_vars(SocketStep)` for the loops of the socket and of the page, and weak fairness of every feed, a task of its own
  (the mutexes of tokio are handed over in the order of arrival).
- `Sessions` and `Console` have safety properties only and state none.

Clients and administrators need not do anything, trades need not happen, Kafka need not deliver to the consumer of trades.


## 5. What is proved

Every theorem is of the form `Spec => ...` and holds for all values of the constants that satisfy the named
assumptions of the modules (bounds are naturals, resolution and shards at least one, requests and menus of the stated types,
users and tabs other than `none`); nothing else is assumed.

| Module | Theorems |
|---|---|
| `OrderBook_proofs` | `Invariance`, `TypeCorrect` (`TypeOK`), `BookSound` (`RestingSound`), `ByAge` (`QueuesByAge`), `NoOverfill` (`NeverOverfilled`), `InOrder` (`PriceTimePriority`), `Uncrossed` (`NotCrossed`), `FilledReported` (`FilledIsFilled`), `ContractKept` (`KeepsContract`, a refinement), `AllOrNothing` (`FillOrKill`), `LoopEndsInTime` |
| `OrderHandlers_proofs` | `Invariance`, `SubmittedOnce` (`EntersOnce`), `TypeCorrect` (`TypeOK`), `TradesSent` (`TradesReachTopic`), `Cancelled` (`CancelledIsGone`), `LinkCancelled` (`TakerCancelsLink`) |
| `Sums` | lemmas only |
| `Funds_proofs` | `Invariance`, `TypeCorrect`, `FeesFollow` (`FeesFollowMoney`), `LedgerKept` (`KeepsLedger`, a refinement), `NoCircle` (`NoDeadlock`) |
| `Withdrawals_proofs` | `Invariance`, `TypeCorrect`, `NoneForgotten` (`NothingForgotten`), `BroadcastOnce` (`OncePerMessage`), `MovesForward` (`Forward`) |
| `Channel_proofs` | `Invariance`, `TypeCorrect`, `NothingLost` (`NothingLostInOrder`), `InOrder` (`OpenedInOrder`), `NoGap` (`TradesFollow`) |
| `Sessions_proofs` | `Invariance`, `TypeCorrect`, `RowFirst` (`SessionHasUser`), `EndedForGood` (`NeverRevived`), `OwnSession` (`TabActsForItsUser`) |
| `Console_proofs` | `Invariance`, `TypeCorrect`, `ChallengeOnce` (`AnsweredOnce`), `ApprovalOnce` (`ApprovedOnce`) |

Hardly any of the properties is inductive alone. `Invariance` proves in every module that an
inductive strengthening holds of all reachable states; the other theorems follow from it.

**OrderBook.** `IInv` is the conjunction of `ScalarsOK` (types of everything but the book), `BookIsFunction` (both sides are
functions with ticks as domain, so that EXCEPT means what it should), `LevelsOK` (every queue is a sequence of entries that are sound
and ordered by age), `NeverOverfilled`, and `TakerSound` (the order in the loop is the youngest, its visible and hidden parts
add up to its quantity, its progress is its history, and it is not in the book). `TakerSound` is what makes
`RestRemainder` preserve `LevelsOK`, and `LevelsOK` is what makes `Match` preserve `NeverOverfilled`. There is one lemma
per helper on levels and one per action. `InOrder` follows from `IInv` and the guard `Best` of `Match`.

`Uncrossed` needs `Bounded` (the levels of a side have a greatest tick, so that a best level exists at
all; found with the well-foundedness of the naturals) and `Parted` (`NotCrossed` told by ids). The heart is a
lemma on rounding: a level that an order refuses lies beyond the tick at which it comes to rest, or is that
very tick and then its price is off the grid. Who refuses the best level refuses all, and one order joins per step. `FilledReported`
strengthens `FilledIsFilled` to the orders in the loop (`FillReported`), with the facts that what rests and what is in the loop is
neither rejected nor cancelled.

`ContractKept` says that every initial state of the book is one of `PriceTimeExchange` and every step one of its steps or a
stutter. The refinement mapping takes the set of ids that the levels hold, so each helper on levels has a lemma that says exactly how it changes that set
(nobody joins, only one leaves, one moves in). The code answers a fill-or-kill order by adding up queues level by level, the contract by adding up
the welcome orders of the other side: `AvailableIsLeft` turns one sum into the other, over the places of the queues, which are
as many as the ids because no order rests twice.

`AllOrNothing` is proved on the steps of the contract, with `FokOK`: a fill-or-kill order has traded nothing or all when it is not in the
loop, never rests, and while it is in the loop the welcome orders still hold what it lacks (`Covered`). A match takes the same amount
from both sides of that inequality.

`LoopEndsInTime` is `MatchingEnds` without its fairness: while an order is in the loop some step of the loop is possible (a way on is
named for every state), and `LoopBound`, what the taker lacks plus the number of levels it faces,
gets smaller with every step, also with those that only sweep an empty level. That the process keeps taking steps is the fairness, and stays with TLC.

**OrderHandlers.** An order that may still enter the book is at exactly one place: with its own call that has not got there
(`EarlyOK`), in the map (`InMapOK`), or with the one handler that took it from there (`HeldOK`). `Fire` moves it
from the second place to the third in one step, which is why several handlers that saw it triggered do no harm.

`TypeCorrect` also says that an order trades no more than was asked for. That is arithmetic about `Met`: the makers that are met are served in the order of
the book, and their shares add up to what the taker wants or to all there is (an induction over the makers). `TradesSent` says where a trade is that was
struck: on the topic, or on the list of the handler that has yet to send it (`Reaches`); a handler that goes on to the trades table
has sent the trade at the head of its list (`SentOK`). `Cancelled` rests on the fact that an order is `Finished` when it entered the book and nobody has yet
to write its row, and stays so: a cancellation that begins then (`CalmOK`) meets nobody. `LinkCancelled` follows a taker
from its trade to its link (`LinkOK`): on its way it is still to come by, at the row of the link the
linked order has left the book, and past it the row is closed as well. It needs that the link of a taker that
is sure of it was finished before (`SureOK`), and that an order enters by its own task only (`Base`).

**Funds.** `IInv` adds to the types that a row exists when its lock is held (`RowsHeld`), that what settlement, a withdrawal and a
monitor read under a lock is still what the row says, and was opened with the key the row has, or is 0 where a monitor's key does not open the row (`SettlerOK`, `WithdrawalOK`, `MonitorOK`), and that applied and recorded trades add up
(`Counted`, `Owing`). `LedgerKept` therefore does not say that no balance is lost: `Ledger` has the step in which a deposit takes the place of what its
key does not open, and `funds_overwritten` reaches it. From the first, every commit is a step of `Ledger` and every other step a stutter.
`NoCircle` adds the converse of the locks (`Owned`): who holds a row has locked it and has not ended. Hence whoever holds a user's row waits for nobody, but for
settlement between its two rows, which waits for such a holder; who holds a deposit waits for a user's row at most. No circle can be made of that.

**Withdrawals, Channel, Sessions, Console.** The invariants say where a withdrawal is and what its row, message and
broadcasts say of it; how the ratchets of both ends, the frames under way and the feeds belong together; that
an id that was drawn is nobody else's yet; and that keys hold unspent challenges and waiting withdrawals are owed one approval.
`NoGap` adds to the invariant of the socket where the trades of a feed are (`Tape`): opened, on their way, with the task of the feed, in its
receiver, in this order, and each followed by the next. It also needs that one command is sent, before any feed begins, so that no feed
starts afresh after one that ended (`CommandOK`).

**Sums.** The sums of the community modules are folds, and the library's theorems on induction take an operator as a parameter,
which no prover here instantiates. Instead each induction is by least counterexample: the sets (or numbers) for which a claim fails
form a set, the order of finite sets by strict inclusion is well-founded (a theorem of the library without parameter), so there is a smallest one, and it is shown
to have a smaller one. In this way `Sums` proves that a sum is a natural, that it grows by what an element adds, that it is monotone, that it
is the same over renamed elements, and that a sum of sums is one sum.

Each property was model-checked before it was proved.

All safety invariants and action properties of the passing runs are theorems, and both refinements. Only model-checked are the liveness properties
(`MatchingEnds`, `RequestsEnd`, `TransactionsEnd`, `AddressesConfirmed`, `ExecutorGetsThere`, `SubscriptionServed`): liveness
under fairness and ENABLED are out of the prover's reach. So are RECURSIVE operators, of which no module here has any. The two
violations of section 6 are counterexamples, found by TLC.

## 6. Findings

Two runs expect a violation: the code does something else than a document or a comment says of it.

| Run | The text | The code |
|---|---|---|
| `funds_overwritten` | "Credits the balance" (docs/architecture.md 260); another key is for "dev mode" only (191) | a balance that the fetched key does not open counts as 0 (`blockchain` 130), and the deposit takes its place. The other key is fetched when Vault's answer has none (154) |
| `channel_page` | "Signal ratchet (mirrors backend crypto_primitives::signal_ratchet)" (`ws.rs` 32) | the page derives root and chains with other functions (`ws.rs` 35-55) than the crate (225-246): the gateway cannot open the page's command, and the page waits for ever |

Met while modelling, without a run of their own. Order book and handlers:

- The best price of a trailing stop never moves: `get_mut` at `matching` 570 looks up the last triggered id or the nil id, never the entry at hand, against "Update best_price for
  trailing stops" (568) and "track best price seen since order placement" (128). `Followed` is that key.
- At the same line the iterator still holds the read lock of its shard after `drop(entry)`, and `get_mut` asks for the write lock of the shard of its key. A handler waits for itself when a trailing stop
  that is not triggered is in the shard of the last triggered order, or of the nil id when nothing is triggered; two handlers wait for each other when the iterator of each stands in the shard
  the other asks for. With them waits every call that needs these shards, and a taker that has traded is never answered, against "`trades` is non-empty when the order matched immediately"
  (docs/api.md 172). `Circle` names these states, and `handlers_end` reaches circles of one and of two.
- An order off the tick grid is compared with its own price and rests at its rounded tick (`matching` 811), and a later taker trades at the tick: half a
  tick outside the maker's limit. `NotCrossed` excepts orders off the grid and the contract of `KeepsContract` speaks of the price of the tick, so neither says anything against it.
- When `persist_trades` fails after some sends, the trades that are left are in the book and nowhere else. `TradesReachTopic` exempts failures.
- The row of an order is updated from a copy made before `submit` (489-498): it always says open with
  nothing filled, also over what settlement or a cancel wrote; and orders that were rejected or killed keep an open row.
- A PostOnly sell opens an empty bid level (170), and `would_match` asks only whether a level is there (160): the next
  order can be rejected by nobody, against "reject if it would immediately match" (157).
- An iceberg rests with all of its quantity (241-244), against "only put iceberg_peak_qty visible in book at a time" (190),
  and one whose peak is filled completely on arrival is dropped with its hidden quantity (236-246); `PriceTimeExchange` and `FilledIsFilled` except
  icebergs for that reason.
- Only the taker of a linked pair cancels its link (501-505); a linked order that is hit while it rests leaves the other in the book
  ("OCO (One-Cancels-Other)", `.github/copilot-instructions.md` 114).

Settlement, fees and withdrawals:

- Settlement sets both orders to filled with `filled = quantity` at every trade (`settlement` 72-79), also when they were filled in part.
- The seller is debited price times quantity and the buyer credited the quantity (`settlement` 43-67); docs/architecture.md
  176-189 says otherwise, and puts the fee records inside the transaction.
- Both monitors confirm every address at the next poll, with amount 0 (`blockchain` 57-60, 75-77), against "Credits the balance once
  `confirmations >= chain_config.confirmations`" (docs/architecture.md 260-264): what is paid later is never credited. `AddressesConfirmed` is about addresses, not payments.
- A trade that comes again is settled in full again (`settlement` 27-80 does not ask whether it is new): `KeepsLedger` counts it as
  another trade. No document says that it is settled once.
- `withdraw` asks Vault for the key while it holds the row of the balance (`wallet` 114), without a timeout.
- The code reads the field `balance_key` of the secret (`blockchain` 154, `settlement` 104, `wallet` 193), where docker-compose.yml 157 and docs/architecture.md 191 have
  `balance_enc_key`: as deployed there every fetch gives the built-in key, and the balances change hands between keys (`funds_overwritten`) when the field is put right.
- Every user that the dashboard creates gets a balance of 32 zero bytes (`admin` 229-234), which no key opens.
- A fee-free user pays 16 or 26 bps when the lookup gets no connection (`fees` 19): `Unserved` counts as no flag, against "Returns zero-fee tier if user has
  fee_free flag set" (15). Fee tiers leave gaps between the maximum of a tier and the minimum of the next, where 16/26 bps apply (59); the rolling volume
  never decreases.
- An approved withdrawal is not broadcast by anything (`admin` 409-424), against docs/architecture.md 271.

Gateway and pages:

- A message that overtakes another between the two locks (`ws_gateway` 86-87) does not only lose the other: the client's counter moves
  backwards while its chain does not, and nothing opens any more. This is the `late` of `NothingLostInOrder`.
- The feed `user:orders` is keyed by the id of the session (`ws_gateway` 102) and published by the id of the user (`matching` 634-635): nothing ever comes.
- A trade event is an object where the page expects an array (`ws.rs` 262).
- The Noise handshake over HTTP cannot finish: the call that reads the third message goes on to write a fourth, which fails (`auth` 232-233).
- `admin_totp_setup` and `admin_totp_verify` look for no session (`auth` 277-308), against "All admin endpoints require `X-Admin-Session`" (docs/api.md 375, and 400-411 for these two): a caller without one
  replaces the secret of an administrator, enrolled or not, and confirms it with its own code. In `Console` these actions therefore ask for nothing, and no property says that a code of a certain
  secret is asked for.
- The page of the administrator waits for `totp_required`, which the server does not send: it answers 400 (docs/api.md 390), so that login with a code is impossible
  from that page. The code itself is computed from the bytes of the base32 text of the secret, so that only the QR code gives matching codes.
- `reset_sessions` clears nothing, and answers how many sessions it cleared (`admin` 251-282). The dashboard sends other fields than the server
  reads for fee-free users and fee tiers, and its filters "all" and "pending" list nothing, since no statement writes that status.
- A tab with a phrase in LocalStorage and no session of its own is sent to the trading page (`app.rs` 27-35), where every call is refused.
- A tab shows the `user_id` of LocalStorage, which all tabs share (nav.rs 16, wallet.rs 22), and acts with the session of its own
  SessionStorage: after a registration in another tab it shows one user and acts for another.
- Two finishes of the same passkey challenge that overlap are both answered (`auth` 348-363).
- `finish_passkey` deletes the challenge that is there at that time (`auth` 361-363), which may be newer than the one it compared.

## 7. Plan

Done, in this order: `OrderBook` with its contract and proofs; `OrderHandlers`; `Funds` with its ledger; `Withdrawals`;
`Ratchet` and `Channel`; `Sessions`; `Console`; the theorems of section 5.

Left, in the order of what they would add:

1. The descent of the other loops, as `LoopEndsInTime` has it for matching: requests, transactions, the executor.
2. Late answers on the pages: a refresh that overtakes another in the trading and wallet pages.
3. The feed of a user's own orders, once something is published under its name.

## 8. What is not modelled

- Read-only handlers: depth, candles, ticker, lists of orders and trades, metrics, fee and balance queries.
- The handlers of `admin` and `fees` that are one statement on a table: creating users, fee tiers, fee-free flags.
- Floating point: quantities and prices are exact here. The code compares f64 sums and allows no tolerance but in the check of fill-or-kill (1e-9).
  Prices and quantities are positive, as the frontend sends them; `create_order` does not check.
- Cryptography beyond symbolic keys: ciphers, signatures, stealth addresses, commitments and encrypted balances are library calls.
  Passwords are right and captchas are passed.
- The handshake over HTTP (section 6): its transports are read by nothing.
- Calls to the nodes of the chains, which the code stubs.
- Start-up, migrations, configuration, deployment (`infra`, `nginx`, `monitoring`), and the trading, wallet and chart pages of the
  frontend, which render what the API answers.
