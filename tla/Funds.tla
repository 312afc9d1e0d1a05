------------------------------- MODULE Funds --------------------------------
(***************************************************************************)
(* Everything that changes a balance: the settlement of trades with its    *)
(* fees, withdrawals and deposits, as the Postgres transactions they are,  *)
(* with the row locks of SELECT ... FOR UPDATE, a pool of few connections, *)
(* messages that come again, calls that fail, and a key that Vault does    *)
(* not always give.                                                        *)
(*                                                                         *)
(* What a transaction has written is seen by others when it commits, so    *)
(* its updates and the commit are one step; what it has read is kept from  *)
(* the step that read it.  What becomes of a withdrawal after its commit   *)
(* is not part of this module.                                             *)
(***************************************************************************)
EXTENDS Accounts, FiniteSets

CONSTANTS
    Connections,        \* max_connections of the pool
    MaxFailures,        \* bound: failed calls of Postgres, Vault or Kafka
    MaxRestarts,        \* bound: restarts of the process
    MaxRedeliveries     \* bound: trades that come again in the life of a process

ASSUME ConnectionsAssumption == Connections \in Nat \ {0}
ASSUME FundsBoundsAssumption ==
    MaxFailures \in Nat /\ MaxRestarts \in Nat /\ MaxRedeliveries \in Nat

VARIABLES
    balance,    \* the committed rows of balances
    sealed,     \* the key that each of them is encrypted with
    holder,     \* who holds the lock of a user's row
    claimant,   \* who holds the lock of a deposit's row
    issued,     \* the deposits with an address
    confirmed,  \* those with confirmed_at
    paid,       \* the withdrawals with a row
    volume,     \* rolling_volume
    consumed,   \* the trades taken from the topic, unless they come again
    applied,    \* history: how often each trade moved money
    recorded,   \* history: how often its fees were recorded
    settler,    \* the consumer of the topic
    withdrawal, \* the withdraw calls
    monitor,    \* run_eth_monitor and run_tron_monitor
    failures,   \* how many calls have failed
    starved,    \* history: a call got no connection in time
    restarts,   \* how many times the process was restarted
    redelivered \* how many times a trade came again without a restart

locks    == <<holder, claimant>>
wallets  == <<balance, sealed, paid, confirmed, applied>>
fees     == <<volume, recorded>>
returns  == <<restarts, redelivered>>
faults   == <<failures, starved, returns>>
vars == <<balance, sealed, holder, claimant, issued, confirmed, paid, volume, consumed,
          applied, recorded, settler, withdrawal, monitor, failures, starved, restarts,
          redelivered>>

Nobody   == "nobody"
Settler  == "settlement"
Monitors == {"eth", "tron"}
Holders  == {Settler} \cup Withdrawals \cup Monitors

ASSUME HoldersAssumption ==
    /\ Withdrawals \cap ({Nobody, Settler} \cup Monitors) = {}
    /\ Nobody \notin Holders

-----------------------------------------------------------------------------
(* Locks, connections, failures and the key of the balances. *)

(* mutant: SELECT without FOR UPDATE *)
LockableAlways(who, u) == TRUE

Lockable(who, u) == holder[u] \in {Nobody, who}

Locked(who, u) == [holder EXCEPT ![u] = who]

(* mutant: a transaction that stays open after its commit or its error *)
ReleasedIfDone(held, who) == held

(* A commit or a rollback releases the locks of the transaction.            *)
Released(held, who) == [x \in DOMAIN held |-> IF held[x] = who THEN Nobody ELSE held[x]]

Lookups == {"sellerFree", "sellerTier", "buyerFree", "buyerTier"}

InTransaction ==
    {s \in {Settler} : settler.pc \in {"lockSeller", "lockBuyer", "money"} \cup Lookups}
      \cup {w \in Withdrawals : withdrawal[w].pc \in {"lock", "pay"}}
      \cup {m \in Monitors : monitor[m].pc \in {"claim", "lock", "credit"}}

Connected == Cardinality(InTransaction) < Connections

Fails == /\ failures < MaxFailures
         /\ failures' = failures + 1
         /\ UNCHANGED starved

(* mutant: a call waits for a connection as long as it takes *)
WaitsForConnection == FALSE

(* acquire_timeout *)
NoConnection == /\ ~Connected
                /\ starved' = TRUE
                /\ UNCHANGED failures

(* fetch_balance_key: an answer of Vault without the key is taken for the   *)
(* key that is built in; wallet takes any error for it, too.                *)
KeyFound(key) == \/ key = VaultKey /\ UNCHANGED <<failures, starved>>
                 \/ key = DefaultKey /\ Fails

(* decrypt_balance fails with another key than that of encrypt_balance.     *)
Opens(key, u) == sealed[u] = key

-----------------------------------------------------------------------------
(* process_trade *)

Idle == [pc |-> "idle", trade |-> "none", sellerHad |-> 0, buyerHad |-> 0,
         maker |-> 0, taker |-> 0, key |-> VaultKey]

Seller == TradeOf[settler.trade].seller
Buyer  == TradeOf[settler.trade].buyer

Consume(t) ==
    /\ settler.pc = "idle"
    /\ t \notin consumed
    /\ consumed' = consumed \cup {t}
    /\ settler' = [Idle EXCEPT !.pc = "begin", !.trade = t]
    /\ UNCHANGED <<wallets, locks, fees, faults, issued, withdrawal, monitor>>

(* The producer is not idempotent, and a group that is balanced anew goes   *)
(* back to the last offset it committed: no restart is needed for a trade   *)
(* to come again.                                                           *)
Redeliver(t) ==
    /\ t \in consumed
    /\ redelivered < MaxRedeliveries
    /\ consumed' = consumed \ {t}
    /\ redelivered' = redelivered + 1
    /\ UNCHANGED <<wallets, locks, fees, failures, starved, restarts, issued, settler,
                   withdrawal, monitor>>

BeginSettlement ==
    /\ settler.pc = "begin"
    /\ Connected
    /\ \E key \in Keys : /\ KeyFound(key)
                         /\ settler' = [settler EXCEPT !.pc = "lockSeller", !.key = key]
    /\ UNCHANGED <<wallets, locks, fees, returns, issued, consumed, withdrawal, monitor>>

LockSeller ==
    /\ settler.pc = "lockSeller"
    /\ balance[Seller] # NoRow
    /\ Lockable(Settler, Seller)
    /\ holder' = Locked(Settler, Seller)
    /\ settler' = [settler EXCEPT !.pc = "lockBuyer", !.sellerHad = balance[Seller]]
    /\ UNCHANGED <<wallets, claimant, fees, faults, issued, consumed, withdrawal, monitor>>

Readable == Opens(settler.key, Seller) /\ Opens(settler.key, Buyer)

(* Both rows are decrypted when both are locked. *)
LockBuyer ==
    /\ settler.pc = "lockBuyer"
    /\ balance[Buyer] # NoRow
    /\ Lockable(Settler, Buyer)
    /\ Readable
    /\ holder' = Locked(Settler, Buyer)
    /\ settler' = [settler EXCEPT !.pc = "sellerFree", !.buyerHad = balance[Buyer]]
    /\ UNCHANGED <<wallets, claimant, fees, faults, issued, consumed, withdrawal, monitor>>

(* get_user_fee_tier asks the pool for another connection, twice, while the *)
(* transaction keeps its own; no answer is as good as no flag or no tier.   *)
SellerRate(bps) == settler' = [settler EXCEPT !.pc = "buyerFree", !.maker = bps]
BuyerRate(bps)  == settler' = [settler EXCEPT !.pc = "money", !.taker = bps]

Unserved == (Fails \/ NoConnection) /\ UNCHANGED returns

CheckSellerFree ==
    /\ settler.pc = "sellerFree"
    /\ \/ /\ Connected
          /\ IF Seller \in FeeFree THEN SellerRate(0)
             ELSE settler' = [settler EXCEPT !.pc = "sellerTier"]
          /\ UNCHANGED faults
       \/ /\ Unserved
          /\ settler' = [settler EXCEPT !.pc = "sellerTier"]
    /\ UNCHANGED <<wallets, locks, fees, issued, consumed, withdrawal, monitor>>

LookUpSellerTier ==
    /\ settler.pc = "sellerTier"
    /\ \/ Connected /\ SellerRate(TierOf(volume[Seller]).maker) /\ UNCHANGED faults
       \/ Unserved /\ SellerRate(Fallback.maker)
    /\ UNCHANGED <<wallets, locks, fees, issued, consumed, withdrawal, monitor>>

CheckBuyerFree ==
    /\ settler.pc = "buyerFree"
    /\ \/ /\ Connected
          /\ IF Buyer \in FeeFree THEN BuyerRate(0)
             ELSE settler' = [settler EXCEPT !.pc = "buyerTier"]
          /\ UNCHANGED faults
       \/ /\ Unserved
          /\ settler' = [settler EXCEPT !.pc = "buyerTier"]
    /\ UNCHANGED <<wallets, locks, fees, issued, consumed, withdrawal, monitor>>

LookUpBuyerTier ==
    /\ settler.pc = "buyerTier"
    /\ \/ Connected /\ BuyerRate(TierOf(volume[Buyer]).taker) /\ UNCHANGED faults
       \/ Unserved /\ BuyerRate(Fallback.taker)
    /\ UNCHANGED <<wallets, locks, fees, issued, consumed, withdrawal, monitor>>

(* mutant: the fees are left out *)
AfterMoneyAnnounce == "announce"

AfterMoney == "record"

(* The updates of both balances, each under the key that opened it, of both *)
(* orders, and the commit.                                                  *)
MoveMoney ==
    /\ settler.pc = "money"
    /\ balance' = AfterTrade(balance, settler.trade, settler.sellerHad,
                             settler.buyerHad, settler.maker, settler.taker)
    /\ applied' = [applied EXCEPT ![settler.trade] = @ + 1]
    /\ holder' = Released(holder, Settler)
    /\ settler' = [settler EXCEPT !.pc = AfterMoney]
    /\ UNCHANGED <<sealed, paid, confirmed, claimant, fees, faults, issued, consumed,
                   withdrawal, monitor>>

(* record_trade_fees, in a transaction of its own: the volume of both       *)
(* parties grows, twice for one user.                                       *)
RecordFees ==
    /\ settler.pc = "record"
    /\ Connected
    /\ recorded' = [recorded EXCEPT ![settler.trade] = @ + 1]
    /\ volume' = [[volume EXCEPT ![Seller] = @ + Value(settler.trade)]
                     EXCEPT ![Buyer] = @ + Value(settler.trade)]
    /\ settler' = [settler EXCEPT !.pc = "announce"]
    /\ UNCHANGED <<wallets, locks, faults, issued, consumed, withdrawal, monitor>>

(* The message to settlement_complete; nobody consumes that topic.          *)
Announce ==
    /\ settler.pc = "announce"
    /\ settler' = Idle
    /\ UNCHANGED <<wallets, locks, fees, faults, issued, consumed, withdrawal, monitor>>

(* Any error is logged and the message is gone: no connection in time, no   *)
(* account, a row that the key does not open, a failed call.                *)
AbandonTrade ==
    /\ \/ settler.pc \in {"begin", "record"} /\ NoConnection
       \/ settler.pc \notin {"idle"} \cup Lookups /\ Fails
       \/ /\ settler.pc = "lockSeller"
          /\ balance[Seller] = NoRow
          /\ UNCHANGED <<failures, starved>>
       \/ /\ settler.pc = "lockBuyer"
          /\ \/ balance[Buyer] = NoRow
             \/ Lockable(Settler, Buyer) /\ ~Readable
          /\ UNCHANGED <<failures, starved>>
    /\ holder' = Released(holder, Settler)
    /\ settler' = Idle
    /\ UNCHANGED <<wallets, claimant, fees, returns, issued, consumed, withdrawal, monitor>>

SettlerStep == \/ BeginSettlement \/ LockSeller \/ LockBuyer
               \/ CheckSellerFree \/ LookUpSellerTier
               \/ CheckBuyerFree \/ LookUpBuyerTier
               \/ MoveMoney \/ RecordFees \/ Announce \/ AbandonTrade

-----------------------------------------------------------------------------
(* withdraw *)

WithdrawalTo(w, pc) == withdrawal' = [withdrawal EXCEPT ![w].pc = pc]

(* Without a connection in time the client is told and nothing has changed. *)
BeginWithdrawal(w) ==
    /\ withdrawal[w].pc = "new"
    /\ Connected
    /\ WithdrawalTo(w, "lock")
    /\ UNCHANGED <<wallets, locks, fees, faults, issued, consumed, settler, monitor>>

(* The key is fetched, and the row decrypted, while the row is locked.      *)
LockToPay(w) ==
    LET u == WithdrawalOf[w].user
    IN  /\ withdrawal[w].pc = "lock"
        /\ balance[u] # NoRow
        /\ Lockable(w, u)
        /\ \E key \in Keys : KeyFound(key) /\ Opens(key, u)
        /\ balance[u] >= WithdrawalOf[w].amount
        /\ holder' = Locked(w, u)
        /\ withdrawal' = [withdrawal EXCEPT ![w] = [pc |-> "pay", had |-> balance[u]]]
        /\ UNCHANGED <<wallets, claimant, fees, returns, issued, consumed, settler, monitor>>

(* NotFound, Unauthorized or Conflict, and the transaction is rolled back.  *)
Refuse(w) ==
    LET u == WithdrawalOf[w].user
    IN  /\ withdrawal[w].pc = "lock"
        /\ \/ balance[u] = NoRow /\ UNCHANGED <<failures, starved>>
           \/ /\ balance[u] # NoRow
              /\ Lockable(w, u)
              /\ \E key \in Keys :
                    /\ KeyFound(key)
                    /\ ~Opens(key, u) \/ balance[u] < WithdrawalOf[w].amount
        /\ WithdrawalTo(w, "refused")
        /\ UNCHANGED <<wallets, locks, fees, returns, issued, consumed, settler, monitor>>

Pay(w) ==
    /\ withdrawal[w].pc = "pay"
    /\ balance' = [balance EXCEPT ![WithdrawalOf[w].user] =
                      withdrawal[w].had - WithdrawalOf[w].amount]
    /\ paid' = paid \cup {w}
    /\ holder' = Released(holder, w)
    /\ WithdrawalTo(w, "paid")
    /\ UNCHANGED <<sealed, confirmed, applied, claimant, fees, faults, issued, consumed,
                   settler, monitor>>

WithdrawalFails(w) ==
    /\ withdrawal[w].pc \in {"lock", "pay"}
    /\ Fails
    /\ holder' = Released(holder, w)
    /\ WithdrawalTo(w, "failed")
    /\ UNCHANGED <<wallets, claimant, fees, returns, issued, consumed, settler, monitor>>

WithdrawalStep(w) == LockToPay(w) \/ Refuse(w) \/ Pay(w) \/ WithdrawalFails(w)

-----------------------------------------------------------------------------
(* deposit_address, the monitors and credit_deposit *)

Sleeping == [pc |-> "sleep", todo |-> {}, deposit |-> "none", had |-> 0, key |-> VaultKey]

IssueAddress(d) ==
    /\ d \notin issued
    /\ issued' = issued \cup {d}
    /\ UNCHANGED <<wallets, locks, fees, faults, consumed, settler, withdrawal, monitor>>

(* Both monitors ask for all unconfirmed deposits, whatever their chain.    *)
Poll(m) ==
    /\ monitor[m].pc = "sleep"
    /\ Connected
    /\ issued # confirmed
    /\ monitor' = [monitor EXCEPT ![m] = [Sleeping EXCEPT !.pc = "next",
                                              !.todo = issued \ confirmed]]
    /\ UNCHANGED <<wallets, locks, fees, faults, issued, consumed, settler, withdrawal>>

EndPoll(m) ==
    /\ monitor[m].pc = "next"
    /\ monitor[m].todo = {}
    /\ monitor' = [monitor EXCEPT ![m] = Sleeping]
    /\ UNCHANGED <<wallets, locks, fees, faults, issued, consumed, settler, withdrawal>>

(* An error of credit_deposit is ignored, and nothing asks whether anything *)
(* has arrived at the address.                                              *)
BeginCredit(m) ==
    /\ monitor[m].pc = "next"
    /\ \E d \in monitor[m].todo :
          \/ /\ Connected
             /\ \E key \in Keys :
                   /\ KeyFound(key)
                   /\ monitor' = [monitor EXCEPT ![m] = [monitor[m] EXCEPT !.pc = "claim",
                                      !.todo = @ \ {d}, !.deposit = d, !.key = key]]
             /\ UNCHANGED returns
          \/ /\ Unserved
             /\ monitor' = [monitor EXCEPT ![m].todo = @ \ {d}]
    /\ UNCHANGED <<wallets, locks, fees, issued, consumed, settler, withdrawal>>

(* The row is locked, unless the other monitor has confirmed it meanwhile.  *)
Claim(m) ==
    LET d == monitor[m].deposit
    IN  /\ monitor[m].pc = "claim"
        /\ claimant[d] = Nobody
        /\ IF d \in confirmed
           THEN /\ monitor' = [monitor EXCEPT ![m].pc = "next"]
                /\ UNCHANGED claimant
           ELSE /\ monitor' = [monitor EXCEPT ![m].pc = "lock"]
                /\ claimant' = [claimant EXCEPT ![d] = m]
        /\ UNCHANGED <<wallets, holder, fees, faults, issued, consumed, settler, withdrawal>>

(* unwrap_or_default: a row that the key does not open counts as 0.         *)
Had(key, u) == IF balance[u] = NoRow \/ Opens(key, u) THEN balance[u] ELSE 0

(* A row that is not there cannot be locked. *)
LockToCredit(m) ==
    LET u == DepositOf[monitor[m].deposit].user
    IN  /\ monitor[m].pc = "lock"
        /\ Lockable(m, u)
        /\ holder' = IF balance[u] = NoRow THEN holder ELSE Locked(m, u)
        /\ monitor' = [monitor EXCEPT ![m] = [@ EXCEPT !.pc = "credit",
                                                  !.had = Had(monitor[m].key, u)]]
        /\ UNCHANGED <<wallets, claimant, fees, faults, issued, consumed, settler, withdrawal>>

(* Somebody else may have inserted the row of the user since.               *)
Duplicate(m) == /\ monitor[m].had = NoRow
                /\ balance[DepositOf[monitor[m].deposit].user] # NoRow

Unlock(m) == /\ holder' = Released(holder, m)
             /\ claimant' = Released(claimant, m)
             /\ monitor' = [monitor EXCEPT ![m].pc = "next"]

Credit(m) ==
    LET d   == monitor[m].deposit
        u   == DepositOf[d].user
        had == monitor[m].had
        add == DepositOf[d].amount
    IN  /\ monitor[m].pc = "credit"
        /\ ~Duplicate(m)
        /\ balance' = [balance EXCEPT ![u] = IF had = NoRow THEN add ELSE had + add]
        /\ sealed' = [sealed EXCEPT ![u] = monitor[m].key]
        /\ confirmed' = confirmed \cup {d}
        /\ Unlock(m)
        /\ UNCHANGED <<paid, applied, fees, faults, issued, consumed, settler, withdrawal>>

(* A call that fails, or the INSERT of a row that is there by now.          *)
CreditFails(m) ==
    /\ monitor[m].pc \in {"claim", "lock", "credit"}
    /\ \/ Fails
       \/ monitor[m].pc = "credit" /\ Duplicate(m) /\ UNCHANGED <<failures, starved>>
    /\ Unlock(m)
    /\ UNCHANGED <<wallets, fees, returns, issued, consumed, settler, withdrawal>>

MonitorStep(m) == \/ Poll(m) \/ EndPoll(m) \/ BeginCredit(m) \/ Claim(m)
                  \/ LockToCredit(m) \/ Credit(m) \/ CreditFails(m)

-----------------------------------------------------------------------------

(* Open transactions are rolled back; messages whose offset was not yet     *)
(* committed come again, and one in progress may be lost.                   *)
Restart ==
    /\ restarts < MaxRestarts
    /\ restarts' = restarts + 1
    /\ holder' = [u \in Users |-> Nobody]
    /\ claimant' = [d \in Deposits |-> Nobody]
    /\ settler' = Idle
    /\ monitor' = [m \in Monitors |-> Sleeping]
    /\ withdrawal' = [w \in Withdrawals |->
                         IF withdrawal[w].pc \in {"lock", "pay"}
                         THEN [withdrawal[w] EXCEPT !.pc = "failed"] ELSE withdrawal[w]]
    /\ consumed' \in SUBSET consumed
    /\ UNCHANGED <<wallets, fees, issued, failures, starved, redelivered>>

Init == /\ balance = Initial
        /\ sealed = [u \in Users |-> VaultKey]
        /\ holder = [u \in Users |-> Nobody]
        /\ claimant = [d \in Deposits |-> Nobody]
        /\ issued = {}
        /\ confirmed = {}
        /\ paid = {}
        /\ volume = [u \in Users |-> 0]
        /\ consumed = {}
        /\ applied = [t \in Trades |-> 0]
        /\ recorded = [t \in Trades |-> 0]
        /\ settler = Idle
        /\ withdrawal = [w \in Withdrawals |-> [pc |-> "new", had |-> 0]]
        /\ monitor = [m \in Monitors |-> Sleeping]
        /\ failures = 0
        /\ starved = FALSE
        /\ restarts = 0
        /\ redelivered = 0

Next == \/ \E t \in Trades : Consume(t) \/ Redeliver(t)
        \/ SettlerStep
        \/ \E w \in Withdrawals : BeginWithdrawal(w) \/ WithdrawalStep(w)
        \/ \E d \in Deposits : IssueAddress(d)
        \/ \E m \in Monitors : MonitorStep(m)
        \/ Restart

(* The tasks that main spawns keep running, and a request that has begun is *)
(* carried on; users need not ask for anything.                             *)
Spec == /\ Init
        /\ [][Next]_vars
        /\ WF_vars(SettlerStep)
        /\ \A w \in Withdrawals : WF_vars(WithdrawalStep(w))
        /\ \A m \in Monitors : WF_vars(MonitorStep(m))

-----------------------------------------------------------------------------
(* Properties. *)

SettlerState == [pc : {"idle", "begin", "lockSeller", "lockBuyer", "money",
                       "record", "announce"} \cup Lookups,
                 trade : Trades \cup {"none"}, sellerHad : Nat, buyerHad : Nat,
                 maker : Nat, taker : Nat, key : Keys]

WithdrawalState == [pc : {"new", "lock", "pay", "paid", "refused", "failed"}, had : Nat]

MonitorState == [pc : {"sleep", "next", "claim", "lock", "credit"},
                 todo : SUBSET Deposits, deposit : Deposits \cup {"none"},
                 had : Nat \cup {NoRow}, key : Keys]

TypeOK ==
    /\ balance \in [Users -> Nat \cup {NoRow}]
    /\ sealed \in [Users -> Keys]
    /\ holder \in [Users -> Holders \cup {Nobody}]
    /\ claimant \in [Deposits -> Monitors \cup {Nobody}]
    /\ confirmed \subseteq issued /\ issued \subseteq Deposits
    /\ paid \subseteq Withdrawals
    /\ volume \in [Users -> Nat]
    /\ consumed \subseteq Trades
    /\ applied \in [Trades -> Nat]
    /\ recorded \in [Trades -> Nat]
    /\ settler \in SettlerState
    /\ withdrawal \in [Withdrawals -> WithdrawalState]
    /\ monitor \in [Monitors -> MonitorState]
    /\ failures \in 0 .. MaxFailures
    /\ starved \in BOOLEAN
    /\ restarts \in 0 .. MaxRestarts
    /\ redelivered \in 0 .. MaxRedeliveries

Serial == INSTANCE Ledger

(* Settlement, withdrawals and deposits of the same users at the same time  *)
(* come to what they would come to one after the other: no update is lost,  *)
(* no withdrawal is paid from money that is gone, no deposit is credited    *)
(* twice by the two monitors, and a trade that comes again moves the whole  *)
(* money again (FOR UPDATE in settlement lib.rs:31-40, wallet lib.rs:108,   *)
(* blockchain lib.rs:111-127).  What a row holds is lost only where Ledger  *)
(* says so: to a deposit whose key does not open it.                        *)
KeepsLedger == Serial!Spec

(* A deposit is added to what its user has (docs/architecture.md:260; a row *)
(* that does not decrypt counts as 0 in blockchain lib.rs:129-135).         *)
CreditAdds ==
    [][\A d \in confirmed' \ confirmed :
          LET u   == DepositOf[d].user
              had == IF balance[u] = NoRow THEN 0 ELSE balance[u]
          IN  balance'[u] = had + DepositOf[d].amount]_vars

(* Fees are recorded, and count towards the tier, for trades that moved     *)
(* money and for all of them, unless a call failed, got no connection or    *)
(* was cut off between the two transactions (settlement lib.rs:80-91).      *)
FeesFollowMoney ==
    \A t \in Trades :
        /\ recorded[t] <= applied[t]
        /\ recorded[t] < applied[t] =>
              \/ settler.pc = "record" /\ settler.trade = t
              \/ failures > 0 \/ restarts > 0 \/ starved

(* The row of user u is what a needs next. *)
WantsRow(a, u) ==
    \/ a = Settler /\ settler.pc = "lockSeller" /\ u = Seller
    \/ a = Settler /\ settler.pc = "lockBuyer" /\ u = Buyer
    \/ a \in Withdrawals /\ withdrawal[a].pc = "lock" /\ u = WithdrawalOf[a].user
    \/ a \in Monitors /\ monitor[a].pc = "lock" /\ u = DepositOf[monitor[a].deposit].user

WaitsFor(a, b) ==
    /\ a # b
    /\ \/ \E u \in Users : WantsRow(a, u) /\ holder[u] = b
       \/ a \in Monitors /\ monitor[a].pc = "claim" /\ claimant[monitor[a].deposit] = b

(* However many transactions wait for each other's rows, one of them waits  *)
(* for none of the others: the seller's row is locked before the buyer's    *)
(* and a deposit before its user's row, while withdrawals and credits of    *)
(* the same users hold theirs (settlement lib.rs:31-40, wallet lib.rs:108,  *)
(* blockchain lib.rs:111-127).                                              *)
NoDeadlock ==
    \A S \in SUBSET Holders : S # {} => \E a \in S : \A b \in S : ~WaitsFor(a, b)

(* Nobody waits for ever for a row lock or a connection, although           *)
(* settlement asks for a second connection while those that hold the others *)
(* may be waiting for its locks (settlement lib.rs:30-46).                  *)
TransactionsEnd ==
    /\ settler.pc # "idle" ~> settler.pc = "idle"
    /\ \A w \in Withdrawals : withdrawal[w].pc = "lock" ~> withdrawal[w].pc # "lock"

(* An address that was given out is confirmed in the end, paid or not, also *)
(* if the first attempt lost the race to insert the user's row, got no      *)
(* connection or failed: the next poll asks for it again (blockchain        *)
(* lib.rs:10-22, 107-145).                                                  *)
AddressesConfirmed == \A d \in Deposits : d \in issued ~> d \in confirmed
=============================================================================
