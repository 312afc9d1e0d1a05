---------------------------- MODULE Funds_proofs ----------------------------
(***************************************************************************)
(* Theorems about Funds, for every schedule of fees, all users, trades,    *)
(* withdrawals and deposits, and every size of the pool: the transactions  *)
(* come to what they would come to one after the other, fees follow the    *)
(* money, and transactions do not wait for each other in a circle.         *)
(***************************************************************************)
EXTENDS Funds, WellFoundedInduction, TLAPS

-----------------------------------------------------------------------------
(* Least and largest numbers. *)

LEMMA HasLeast == \A S \in SUBSET Nat : S # {} => \E m \in S : \A k \in S : m <= k
<1> DEFINE R == {p \in Nat \X Nat : p[1] < p[2]}
<1>1. IsWellFoundedOn(R, Nat)
  BY ONLY NatLessThanWellFounded, Zenon DEF OpToRel
<1> SUFFICES ASSUME NEW S \in SUBSET Nat, S # {} PROVE \E m \in S : \A k \in S : m <= k
  OBVIOUS
<1>2. PICK r : r = R
  OBVIOUS
<1>3. IsWellFoundedOn(r, Nat)
  BY ONLY <1>1, <1>2
<1>4. PICK m \in S : \A k \in S : ~(<<k, m>> \in r)
  BY ONLY <1>3, S \in SUBSET Nat, S # {}, WFMin, Zenon
<1>5. \A k \in S : ~(k < m)
  BY ONLY <1>2, <1>4, S \in SUBSET Nat
<1> QED BY ONLY <1>5, S \in SUBSET Nat

LEMMA HasLargest ==
    ASSUME NEW n \in Nat, NEW S, S \subseteq 1 .. n, S # {}
    PROVE  \E m \in S : \A k \in S : k <= m
<1> DEFINE T == {j \in Nat : \E k \in S : j = n - k}
<1>1. \A k \in S : k \in Nat /\ n - k \in T
  BY ONLY n \in Nat, S \subseteq 1 .. n
<1>2. T \in SUBSET Nat /\ T # {}
  BY ONLY <1>1, S # {}
<1>3. PICK t \in T : \A u \in T : t <= u
  BY ONLY <1>2, HasLeast
<1>4. PICK m \in S : t = n - m
  BY ONLY <1>3
<1>5. \A k \in S : t <= n - k
  BY ONLY <1>1, <1>3
<1> QED BY ONLY <1>1, <1>4, <1>5, n \in Nat

-----------------------------------------------------------------------------
(* The arithmetic of Accounts. *)

LEMMA Rounding == \A n \in Nat, d \in Nat \ {0} : Rounded(n, d) \in Nat
BY DEF Rounded

LEMMA Subtracting == \A a, b \in Nat : Less(a, b) \in Nat
BY DEF Less

Bps == {0, Fallback.maker, Fallback.taker}
          \cup {Schedule[i].maker : i \in DOMAIN Schedule}
          \cup {Schedule[i].taker : i \in DOMAIN Schedule}

LEMMA Rating ==
    ASSUME NEW v
    PROVE  TierOf(v).maker \in Bps /\ TierOf(v).taker \in Bps
<1> DEFINE fits == {i \in DOMAIN Schedule :
                      /\ Schedule[i].min <= v
                      /\ Schedule[i].max # NoRow => v <= Schedule[i].max}
           best == CHOOSE i \in fits : \A j \in fits : j <= i
<1>1. CASE fits = {}
  BY <1>1 DEF TierOf, Bps
<1>2. CASE fits # {}
  <2>1. \E i \in fits : \A j \in fits : j <= i
    <3>1. Len(Schedule) \in Nat /\ fits \subseteq 1 .. Len(Schedule)
      BY AccountsAssumption
    <3> HIDE DEF fits
    <3> QED BY ONLY <1>2, <3>1, HasLargest
  <2>2. best \in fits
    BY ONLY <2>1, Zenon
  <2>3. TierOf(v) = [maker |-> Schedule[best].maker, taker |-> Schedule[best].taker]
    BY ONLY <1>2 DEF TierOf
  <2>4. best \in DOMAIN Schedule
    BY ONLY <2>2
  <2>5. PICK b \in DOMAIN Schedule : b = best
    BY ONLY <2>4
  <2>6. Schedule[b].maker \in Bps /\ Schedule[b].taker \in Bps
    BY ONLY b \in DOMAIN Schedule DEF Bps
  <2> HIDE DEF best
  <2> QED BY ONLY <2>3, <2>5, <2>6
<1> QED BY <1>1, <1>2

LEMMA BpsAreNat == Bps \subseteq Nat
<1>1. ASSUME NEW i \in DOMAIN Schedule
      PROVE  Schedule[i].maker \in Nat /\ Schedule[i].taker \in Nat
  <2>1. Schedule[i] \in Tier
    BY AccountsAssumption
  <2> QED BY ONLY <2>1 DEF Tier
<1> QED BY ONLY <1>1 DEF Bps, Fallback

LEMMA Transfers ==
    /\ \A t \in Trades : /\ TradeOf[t].seller \in Users /\ TradeOf[t].buyer \in Users
                         /\ TradeOf[t].price \in Nat /\ TradeOf[t].quantity \in Nat
    /\ \A w \in Withdrawals : WithdrawalOf[w].user \in Users /\ WithdrawalOf[w].amount \in Nat
    /\ \A d \in Deposits : DepositOf[d].user \in Users /\ DepositOf[d].amount \in Nat
BY AccountsAssumption DEF Trade, Transfer

(* What a trade leaves to its parties. *)
LEMMA Trading ==
    ASSUME NEW t \in Trades, NEW had \in Nat, NEW bps \in Nat
    PROVE  SellerAfter(t, had, bps) \in Nat /\ BuyerAfter(t, had, bps) \in Nat
<1>1. TradeOf[t].price \in Nat /\ TradeOf[t].quantity \in Nat
  BY Transfers
<1>2. Value(t) \in Nat
  BY ONLY <1>1 DEF Value
<1>3. PICK v \in Nat : v = Value(t)
  BY ONLY <1>2
<1>4. v * bps \in Nat /\ Tenths \in Nat \ {0} /\ Tenths * 10000 \in Nat \ {0}
  BY DEF Tenths
<1>5. QuoteDelta(t) \in Nat /\ BaseDelta(t) \in Nat /\ Fee(t, bps) \in Nat
  BY ONLY <1>1, <1>3, <1>4, Rounding DEF QuoteDelta, BaseDelta, Fee
<1>6. PICK q \in Nat, b \in Nat, f \in Nat :
         q = QuoteDelta(t) /\ b = BaseDelta(t) /\ f = Fee(t, bps)
  BY ONLY <1>5
<1>7. had + b \in Nat /\ Less(had, q) \in Nat
  BY ONLY had \in Nat, b \in Nat, q \in Nat, Subtracting
<1>8. Less(Less(had, q), f) \in Nat /\ Less(had + b, f) \in Nat
  BY ONLY <1>7, f \in Nat, Subtracting
<1> QED BY ONLY <1>6, <1>8 DEF SellerAfter, BuyerAfter

LEMMA Traded ==
    ASSUME NEW t \in Trades, NEW rows \in [Users -> Nat \cup {NoRow}],
           NEW sellerHad \in Nat, NEW buyerHad \in Nat, NEW maker \in Nat, NEW taker \in Nat,
           NEW after, after = AfterTrade(rows, t, sellerHad, buyerHad, maker, taker)
    PROVE  /\ after \in [Users -> Nat \cup {NoRow}]
           /\ \A u \in Users : u \notin {TradeOf[t].seller, TradeOf[t].buyer} => after[u] = rows[u]
<1>1. PICK s \in Users, b \in Users : s = TradeOf[t].seller /\ b = TradeOf[t].buyer
  BY Transfers
<1>2. PICK sNow \in Nat, bNow \in Nat :
         sNow = SellerAfter(t, sellerHad, maker) /\ bNow = BuyerAfter(t, buyerHad, taker)
  BY Trading
<1>3. after = [[rows EXCEPT ![s] = sNow] EXCEPT ![b] = bNow]
  BY ONLY <1>1, <1>2, after = AfterTrade(rows, t, sellerHad, buyerHad, maker, taker)
     DEF AfterTrade
<1>4. after \in [Users -> Nat \cup {NoRow}]
  BY ONLY <1>3, rows \in [Users -> Nat \cup {NoRow}], sNow \in Nat, bNow \in Nat
<1>5. \A u \in Users : u \notin {s, b} => after[u] = rows[u]
  BY ONLY <1>3, rows \in [Users -> Nat \cup {NoRow}]
<1> QED BY ONLY <1>1, <1>4, <1>5

(* Nobody is a task, and no task is another. *)
LEMMA Names ==
    /\ Settler # Nobody /\ Settler \notin Withdrawals /\ Settler \notin Monitors
    /\ Nobody \notin Withdrawals /\ Nobody \notin Monitors
    /\ \A w \in Withdrawals : w \notin Monitors
BY HoldersAssumption DEF Settler, Nobody, Monitors

-----------------------------------------------------------------------------
(* The inductive invariant. *)

(* A row that somebody has locked is there. *)
RowsHeld == \A u \in Users : holder[u] # Nobody => balance[u] # NoRow

(* Settlement holds the rows it has read, and they are as it read them.     *)
SettlerOK ==
    /\ settler.maker \in Bps /\ settler.taker \in Bps
    /\ settler.pc # "idle" => settler.trade \in Trades
    /\ settler.pc \in {"lockBuyer", "money"} \cup Lookups =>
          /\ holder[TradeOf[settler.trade].seller] = Settler
          /\ balance[TradeOf[settler.trade].seller] = settler.sellerHad
    /\ settler.pc \in {"money"} \cup Lookups =>
          /\ holder[TradeOf[settler.trade].buyer] = Settler
          /\ balance[TradeOf[settler.trade].buyer] = settler.buyerHad
          /\ sealed[TradeOf[settler.trade].seller] = sealed[TradeOf[settler.trade].buyer]

(* So does a withdrawal, which has seen that there is enough.               *)
WithdrawalOK(w) ==
    /\ w \in paid => withdrawal[w].pc = "paid"
    /\ withdrawal[w].pc = "pay" =>
          /\ holder[WithdrawalOf[w].user] = w
          /\ balance[WithdrawalOf[w].user] = withdrawal[w].had
          /\ withdrawal[w].had >= WithdrawalOf[w].amount

(* So does a monitor, unless there was no row, and a row that its key does  *)
(* not open counts as 0; the deposit is its own.                            *)
MonitorOK(m) ==
    /\ monitor[m].todo \subseteq issued
    /\ monitor[m].pc \in {"claim", "lock", "credit"} => monitor[m].deposit \in issued
    /\ monitor[m].pc \in {"lock", "credit"} =>
          /\ claimant[monitor[m].deposit] = m
          /\ monitor[m].deposit \notin confirmed
    /\ monitor[m].pc = "credit" /\ monitor[m].had # NoRow =>
          /\ holder[DepositOf[monitor[m].deposit].user] = m
          /\ monitor[m].had = Had(monitor[m].key, DepositOf[monitor[m].deposit].user)

Recording(t) == settler.pc = "record" /\ settler.trade = t

Owing(t) ==
    /\ recorded[t] <= applied[t]
    /\ Recording(t) => recorded[t] < applied[t]
    /\ failures = 0 /\ restarts = 0 /\ ~starved =>
          applied[t] <= recorded[t] + (IF Recording(t) THEN 1 ELSE 0)

IInv ==
    /\ TypeOK
    /\ RowsHeld
    /\ SettlerOK
    /\ \A w \in Withdrawals : WithdrawalOK(w)
    /\ \A m \in Monitors : MonitorOK(m)
    /\ \A t \in Trades : Owing(t)

-----------------------------------------------------------------------------
(* What a step of one task leaves to the others. *)

(* A step of who changes no row, and no lock on one, that another holds.    *)
Respects(who) ==
    \A u \in Users : holder[u] \notin {Nobody, who} =>
                       /\ holder'[u] = holder[u]
                       /\ balance'[u] = balance[u] /\ sealed'[u] = sealed[u]

(* It writes to no row that another holds. *)
Spares(who) ==
    \A u \in Users : holder[u] \notin {Nobody, who} =>
                       balance'[u] = balance[u] /\ sealed'[u] = sealed[u]

(* It takes no deposit from another, and confirms none another has claimed. *)
RespectsClaims(who) ==
    /\ issued \subseteq issued'
    /\ \A d \in Deposits : claimant[d] \notin {Nobody, who} =>
                       claimant'[d] = claimant[d] /\ (d \in confirmed' => d \in confirmed)

LEMMA SettlerLeft ==
    ASSUME TypeOK, SettlerOK, NEW who, who # Settler, Respects(who),
           UNCHANGED settler
    PROVE  SettlerOK'
<1>1. CASE settler.pc \notin {"lockBuyer", "money"} \cup Lookups
  BY ONLY <1>1, SettlerOK, UNCHANGED settler DEF SettlerOK
<1>2. CASE settler.pc \in {"lockBuyer", "money"} \cup Lookups
  <2>1. settler.trade \in Trades
    BY <1>2 DEF SettlerOK, TypeOK, Lookups
  <2>2. PICK s \in Users, b \in Users :
           s = TradeOf[settler.trade].seller /\ b = TradeOf[settler.trade].buyer
    BY ONLY <2>1, Transfers
  <2>3. holder[s] = Settler => /\ holder'[s] = holder[s]
                               /\ balance'[s] = balance[s] /\ sealed'[s] = sealed[s]
    BY Names DEF Respects
  <2>4. holder[b] = Settler => /\ holder'[b] = holder[b]
                               /\ balance'[b] = balance[b] /\ sealed'[b] = sealed[b]
    BY Names DEF Respects
  <2> QED BY ONLY <2>2, <2>3, <2>4, SettlerOK, UNCHANGED settler DEF SettlerOK, Lookups
<1> QED BY <1>1, <1>2

LEMMA WithdrawalLeft ==
    ASSUME TypeOK, NEW w \in Withdrawals, WithdrawalOK(w), NEW who, who # w, Respects(who),
           withdrawal'[w] = withdrawal[w], w \in paid' => w \in paid
    PROVE  WithdrawalOK(w)'
<1>1. PICK u \in Users : u = WithdrawalOf[w].user
  BY Transfers
<1>2. holder[u] = w => holder'[u] = holder[u] /\ balance'[u] = balance[u]
  BY Names DEF Respects
<1> QED BY ONLY <1>1, <1>2, WithdrawalOK(w), withdrawal'[w] = withdrawal[w],
                w \in paid' => w \in paid DEF WithdrawalOK

LEMMA MonitorLeft ==
    ASSUME TypeOK, NEW m \in Monitors, MonitorOK(m), NEW who, who # m,
           Respects(who), RespectsClaims(who), monitor'[m] = monitor[m]
    PROVE  MonitorOK(m)'
<1>1. CASE monitor[m].pc \notin {"lock", "credit"}
  BY ONLY <1>1, MonitorOK(m), RespectsClaims(who), monitor'[m] = monitor[m]
     DEF MonitorOK, RespectsClaims
<1>2. CASE monitor[m].pc \in {"lock", "credit"}
  <2>1. PICK d \in Deposits : d = monitor[m].deposit
    BY ONLY <1>2, MonitorOK(m), TypeOK DEF MonitorOK, TypeOK
  <2>2. PICK u \in Users : u = DepositOf[d].user
    BY Transfers
  <2>3. holder[u] = m => /\ holder'[u] = holder[u]
                         /\ balance'[u] = balance[u] /\ sealed'[u] = sealed[u]
    BY Names DEF Respects
  <2>4. claimant[d] = m => claimant'[d] = m /\ (d \in confirmed' => d \in confirmed)
    BY Names DEF RespectsClaims
  <2>5. issued \subseteq issued'
    BY DEF RespectsClaims
  <2>6. holder[u] = m => Had(monitor[m].key, u)' = Had(monitor[m].key, u)
    BY ONLY <2>3, monitor'[m] = monitor[m] DEF Had, Opens
  <2> QED BY ONLY <1>2, <2>1, <2>2, <2>3, <2>4, <2>5, <2>6, MonitorOK(m),
                  monitor'[m] = monitor[m]
             DEF MonitorOK
<1> QED BY <1>1, <1>2

(* A row that is there is locked by who, if nobody else holds it. *)
LEMMA Locking ==
    ASSUME TypeOK, RowsHeld, NEW who \in Holders, NEW u \in Users, Lockable(who, u),
           balance[u] # NoRow, holder' = Locked(who, u), UNCHANGED <<balance, sealed, issued, confirmed, claimant>>
    PROVE  /\ Respects(who) /\ RespectsClaims(who) /\ RowsHeld'
           /\ holder' \in [Users -> Holders \cup {Nobody}]
           /\ holder'[u] = who
           /\ \A x \in Users : holder[x] = who => holder'[x] = who
<1>1. holder' = [holder EXCEPT ![u] = who] /\ holder \in [Users -> Holders \cup {Nobody}]
  BY DEF Locked, TypeOK
<1>2. \A x \in Users : holder'[x] = IF x = u THEN who ELSE holder[x]
  BY ONLY <1>1
<1>3. Respects(who)
  BY ONLY <1>2, Lockable(who, u), UNCHANGED <<balance, sealed>> DEF Respects, Lockable
<1>4. RespectsClaims(who)
  BY DEF RespectsClaims
<1>5. RowsHeld'
  BY ONLY <1>2, RowsHeld, balance[u] # NoRow, UNCHANGED balance DEF RowsHeld
<1>6. holder' \in [Users -> Holders \cup {Nobody}]
  BY ONLY <1>1, who \in Holders
<1> QED BY ONLY <1>2, <1>3, <1>4, <1>5, <1>6, u \in Users

(* The end of a transaction, which may have changed rows it held. *)
LEMMA Releasing ==
    ASSUME TypeOK, RowsHeld, NEW who, holder' = Released(holder, who),
           Spares(who)
    PROVE  Respects(who) /\ RowsHeld' /\ holder' \in [Users -> Holders \cup {Nobody}]
<1>1. /\ holder' = [x \in Users |-> IF holder[x] = who THEN Nobody ELSE holder[x]]
      /\ holder \in [Users -> Holders \cup {Nobody}]
  BY DEF Released, TypeOK
<1>2. \A x \in Users : holder'[x] = IF holder[x] = who THEN Nobody ELSE holder[x]
  BY ONLY <1>1
<1>3. Respects(who)
  BY ONLY <1>2, Spares(who) DEF Respects, Spares
<1>4. RowsHeld'
  BY ONLY <1>2, RowsHeld, Spares(who) DEF RowsHeld, Spares
<1>5. holder' \in [Users -> Holders \cup {Nobody}]
  BY ONLY <1>1
<1> QED BY <1>3, <1>4, <1>5

LEMMA OthersOfSettler ==
    ASSUME IInv, Respects(Settler), RespectsClaims(Settler), UNCHANGED <<paid, withdrawal, monitor>>
    PROVE  (\A w \in Withdrawals : WithdrawalOK(w))' /\ (\A m \in Monitors : MonitorOK(m))'
<1>1. ASSUME NEW w \in Withdrawals PROVE WithdrawalOK(w)'
  BY Names, WithdrawalLeft DEF IInv
<1>2. ASSUME NEW m \in Monitors PROVE MonitorOK(m)'
  BY Names, MonitorLeft DEF IInv
<1> QED BY <1>1, <1>2

(* Calls may fail, and nothing is forgotten of it. *)
FaultsGrow ==
    /\ failures' \in 0 .. MaxFailures /\ starved' \in BOOLEAN /\ restarts' = restarts
    /\ redelivered' \in 0 .. MaxRedeliveries
    /\ failures' = 0 => failures = 0
    /\ starved => starved'

LEMMA Faulting ==
    ASSUME TypeOK, UNCHANGED returns, Fails \/ NoConnection \/ UNCHANGED <<failures, starved>>
    PROVE  FaultsGrow
<1>1. UNCHANGED restarts /\ redelivered' \in 0 .. MaxRedeliveries
  BY DEF TypeOK, returns
<1>2. CASE Fails
  <2>1. failures \in 0 .. MaxFailures /\ starved \in BOOLEAN /\ MaxFailures \in Nat
    BY FundsBoundsAssumption DEF TypeOK
  <2> QED BY ONLY <1>1, <1>2, <2>1 DEF Fails, FaultsGrow
<1>3. CASE NoConnection
  BY <1>1, <1>3 DEF NoConnection, FaultsGrow, TypeOK
<1>4. CASE UNCHANGED <<failures, starved>>
  BY <1>1, <1>4 DEF FaultsGrow, TypeOK
<1> QED BY <1>2, <1>3, <1>4

LEMMA KeyOrFailure == \A key : KeyFound(key) => Fails \/ UNCHANGED <<failures, starved>>
BY DEF KeyFound

-----------------------------------------------------------------------------
(* The steps of settlement. *)

(* Those that touch no row. *)
LEMMA NoRowTouched ==
    ASSUME IInv, UNCHANGED <<wallets, locks, issued, withdrawal, monitor>>, FaultsGrow,
           settler' \in SettlerState, SettlerOK', (\A t \in Trades : Owing(t))',
           volume' \in [Users -> Nat], recorded' \in [Trades -> Nat], consumed' \subseteq Trades
    PROVE  IInv'
<1>1. TypeOK'
  BY DEF IInv, TypeOK, FaultsGrow, wallets, locks
<1>2. RowsHeld'
  BY DEF IInv, RowsHeld, wallets, locks
<1>3. Respects(Settler) /\ RespectsClaims(Settler)
  BY DEF Respects, RespectsClaims, wallets, locks
<1>4. (\A w \in Withdrawals : WithdrawalOK(w))' /\ (\A m \in Monitors : MonitorOK(m))'
  BY <1>3, OthersOfSettler DEF wallets
<1> QED BY <1>1, <1>2, <1>4 DEF IInv

(* Nothing new is owed while a trade is on its way.                         *)
LEMMA OwingOn ==
    ASSUME IInv, UNCHANGED <<applied, recorded>>, FaultsGrow,
           settler.pc \notin {"idle", "record", "announce"}, settler'.pc # "record"
    PROVE  (\A t \in Trades : Owing(t))'
<1> SUFFICES ASSUME NEW t \in Trades PROVE Owing(t)'
  OBVIOUS
<1>1. Owing(t)
  BY DEF IInv
<1>2. applied[t] \in Nat /\ recorded[t] \in Nat /\ restarts \in Nat /\ failures \in Nat
  BY FundsBoundsAssumption DEF IInv, TypeOK
<1> QED
  BY ONLY <1>1, <1>2, UNCHANGED <<applied, recorded>>, FaultsGrow,
          settler.pc \notin {"idle", "record", "announce"}, settler'.pc # "record"
     DEF Owing, Recording, FaultsGrow

LEMMA Consuming == ASSUME IInv, NEW c \in Trades, Consume(c) PROVE IInv'
<1>1. FaultsGrow
  BY Faulting DEF IInv, Consume, faults
<1>2. settler' = [pc |-> "begin", trade |-> c, sellerHad |-> 0, buyerHad |-> 0,
                  maker |-> 0, taker |-> 0, key |-> VaultKey]
  BY DEF Consume, Idle
<1>3. settler' \in SettlerState
  BY <1>2 DEF SettlerState, Keys
<1>4. consumed' = consumed \cup {c} /\ settler.pc = "idle"
  BY DEF Consume
<1>5. SettlerOK'
  BY ONLY <1>2, c \in Trades DEF SettlerOK, Lookups, Bps
<1>6. ASSUME NEW t \in Trades PROVE Owing(t)'
  <2>1. Owing(t)
    BY DEF IInv
  <2>2. UNCHANGED <<applied, recorded>>
    BY DEF Consume, wallets, fees
  <2> QED BY ONLY <1>1, <1>2, <1>4, <2>1, <2>2 DEF Owing, Recording, FaultsGrow
<1>7. volume' \in [Users -> Nat] /\ recorded' \in [Trades -> Nat] /\ consumed' \subseteq Trades
  BY <1>4 DEF Consume, fees, IInv, TypeOK
<1>8. UNCHANGED <<wallets, locks, issued, withdrawal, monitor>>
  BY DEF Consume
<1> QED BY ONLY IInv, <1>1, <1>3, <1>5, <1>6, <1>7, <1>8, NoRowTouched

(* A trade that comes again is as one that has not come yet.                *)
LEMMA ComingAgain == ASSUME IInv, NEW c \in Trades, Redeliver(c) PROVE IInv'
<1>1. FaultsGrow
  <2>1. redelivered \in Nat /\ MaxRedeliveries \in Nat
    BY FundsBoundsAssumption DEF IInv, TypeOK
  <2>2. redelivered' \in 0 .. MaxRedeliveries
    BY ONLY <2>1, Redeliver(c) DEF Redeliver
  <2> QED BY <2>2 DEF Redeliver, FaultsGrow, IInv, TypeOK
<1>2. UNCHANGED <<wallets, locks, fees, issued, settler, withdrawal, monitor>>
  BY DEF Redeliver
<1>3. settler' \in SettlerState /\ SettlerOK'
  BY <1>2 DEF IInv, TypeOK, SettlerOK, wallets, locks
<1>4. ASSUME NEW t \in Trades PROVE Owing(t)'
  <2>1. Owing(t)
    BY DEF IInv
  <2> QED BY ONLY <1>1, <1>2, <2>1 DEF Owing, Recording, FaultsGrow, wallets, fees
<1>5. volume' \in [Users -> Nat] /\ recorded' \in [Trades -> Nat] /\ consumed' \subseteq Trades
  BY <1>2 DEF Redeliver, fees, IInv, TypeOK
<1> QED BY ONLY IInv, <1>1, <1>2, <1>3, <1>4, <1>5, NoRowTouched

LEMMA Beginning == ASSUME IInv, BeginSettlement PROVE IInv'
<1>1. settler \in SettlerState /\ SettlerOK
  BY DEF IInv, TypeOK
<1>2. PICK key \in Keys :
         KeyFound(key) /\ settler' = [settler EXCEPT !.pc = "lockSeller", !.key = key]
  BY DEF BeginSettlement
<1>3. /\ settler' \in SettlerState /\ settler'.pc = "lockSeller" /\ settler'.trade = settler.trade
      /\ settler'.maker = settler.maker /\ settler'.taker = settler.taker
  BY ONLY <1>1, <1>2 DEF SettlerState
<1>4. settler.pc = "begin" /\ UNCHANGED <<wallets, locks, fees, issued, consumed, withdrawal, monitor>>
  BY DEF BeginSettlement
<1>5. FaultsGrow
  BY <1>2, Faulting, KeyOrFailure DEF IInv, BeginSettlement
<1>6. SettlerOK'
  BY ONLY <1>1, <1>3, <1>4 DEF SettlerOK, Lookups
<1>7. (\A t \in Trades : Owing(t))'
  BY ONLY IInv, <1>3, <1>4, <1>5, OwingOn DEF wallets, fees
<1>8. volume' \in [Users -> Nat] /\ recorded' \in [Trades -> Nat] /\ consumed' \subseteq Trades
  BY <1>4 DEF fees, IInv, TypeOK
<1> QED BY ONLY IInv, <1>3, <1>4, <1>5, <1>6, <1>7, <1>8, NoRowTouched

(* With both rows locked the rates are found, one answer after the other.   *)
LEMMA Answered ==
    ASSUME IInv, settler.pc \in Lookups,
           Unserved \/ UNCHANGED faults,
           UNCHANGED <<wallets, locks, fees, issued, consumed, withdrawal, monitor>>,
           settler' \in SettlerState, settler'.pc \in Lookups \cup {"money"},
           settler'.trade = settler.trade, settler'.maker \in Bps, settler'.taker \in Bps,
           settler'.sellerHad = settler.sellerHad, settler'.buyerHad = settler.buyerHad
    PROVE  IInv'
<1>1. FaultsGrow
  BY Faulting DEF IInv, Unserved, faults
<1>2. SettlerOK
  BY DEF IInv
<1>3. SettlerOK'
  BY ONLY <1>2, settler.pc \in Lookups, UNCHANGED <<wallets, locks, consumed>>,
          settler'.trade = settler.trade, settler'.maker \in Bps, settler'.taker \in Bps,
          settler'.sellerHad = settler.sellerHad, settler'.buyerHad = settler.buyerHad
     DEF SettlerOK, Lookups, wallets, locks
<1>4. (\A t \in Trades : Owing(t))'
  BY <1>1, OwingOn DEF wallets, fees, Lookups
<1>5. volume' \in [Users -> Nat] /\ recorded' \in [Trades -> Nat] /\ consumed' \subseteq Trades
  BY DEF fees, IInv, TypeOK
<1> QED BY ONLY IInv, <1>1, <1>3, <1>4, <1>5, settler' \in SettlerState,
                UNCHANGED <<wallets, locks, issued, withdrawal, monitor>>, NoRowTouched

LEMMA LookingUp ==
    ASSUME IInv, CheckSellerFree \/ LookUpSellerTier \/ CheckBuyerFree \/ LookUpBuyerTier
    PROVE  IInv'
<1>1. settler \in SettlerState /\ settler.maker \in Bps /\ settler.taker \in Bps
  BY DEF IInv, TypeOK, SettlerOK
<1>2. 0 \in Bps /\ Fallback.maker \in Bps /\ Fallback.taker \in Bps
  BY DEF Bps
<1>3. /\ settler.pc \in Lookups
      /\ Unserved \/ UNCHANGED faults
      /\ UNCHANGED <<wallets, locks, fees, issued, consumed, withdrawal, monitor>>
  BY DEF CheckSellerFree, LookUpSellerTier, CheckBuyerFree, LookUpBuyerTier, Lookups
<1>4. \/ \E pc \in Lookups : settler' = [settler EXCEPT !.pc = pc]
      \/ \E bps \in Bps : SellerRate(bps) \/ BuyerRate(bps)
  <2>1. CASE CheckSellerFree
    BY ONLY <2>1, <1>2 DEF CheckSellerFree, Lookups
  <2>2. CASE LookUpSellerTier
    BY ONLY <2>2, <1>2, Rating DEF LookUpSellerTier
  <2>3. CASE CheckBuyerFree
    BY ONLY <2>3, <1>2 DEF CheckBuyerFree, Lookups
  <2>4. CASE LookUpBuyerTier
    BY ONLY <2>4, <1>2, Rating DEF LookUpBuyerTier
  <2> QED BY <2>1, <2>2, <2>3, <2>4
<1>5. /\ settler' \in SettlerState /\ settler'.pc \in Lookups \cup {"money"}
      /\ settler'.trade = settler.trade /\ settler'.maker \in Bps /\ settler'.taker \in Bps
      /\ settler'.sellerHad = settler.sellerHad /\ settler'.buyerHad = settler.buyerHad
  <2>1. CASE \E pc \in Lookups : settler' = [settler EXCEPT !.pc = pc]
    BY ONLY <1>1, <2>1 DEF SettlerState
  <2>2. ASSUME NEW bps \in Bps, SellerRate(bps)
        PROVE  /\ settler' \in SettlerState /\ settler'.pc \in Lookups \cup {"money"}
               /\ settler'.trade = settler.trade /\ settler'.maker \in Bps /\ settler'.taker \in Bps
               /\ settler'.sellerHad = settler.sellerHad /\ settler'.buyerHad = settler.buyerHad
    BY ONLY <1>1, <2>2, BpsAreNat DEF SellerRate, SettlerState, Lookups
  <2>3. ASSUME NEW bps \in Bps, BuyerRate(bps)
        PROVE  /\ settler' \in SettlerState /\ settler'.pc \in Lookups \cup {"money"}
               /\ settler'.trade = settler.trade /\ settler'.maker \in Bps /\ settler'.taker \in Bps
               /\ settler'.sellerHad = settler.sellerHad /\ settler'.buyerHad = settler.buyerHad
    BY ONLY <1>1, <2>3, BpsAreNat DEF BuyerRate, SettlerState, Lookups
  <2> QED BY <1>4, <2>1, <2>2, <2>3
<1> QED BY ONLY IInv, <1>3, <1>5, Answered

LEMMA SellerLocked == ASSUME IInv, LockSeller PROVE IInv'
<1>1. settler \in SettlerState /\ SettlerOK /\ TypeOK /\ RowsHeld
  BY DEF IInv, TypeOK
<1>2. settler.pc = "lockSeller" /\ settler.trade \in Trades
  BY DEF IInv, TypeOK, SettlerOK, LockSeller
<1>3. PICK u \in Users : u = TradeOf[settler.trade].seller
  BY ONLY <1>2, Transfers
<1>4. /\ balance[u] # NoRow /\ Lockable(Settler, u) /\ holder' = Locked(Settler, u)
      /\ settler' = [settler EXCEPT !.pc = "lockBuyer", !.sellerHad = balance[u]]
      /\ UNCHANGED <<wallets, claimant, fees, faults, issued, consumed, withdrawal, monitor>>
  BY ONLY LockSeller, <1>3 DEF LockSeller, Seller
<1>5. balance[u] \in Nat
  BY ONLY <1>1, <1>4, u \in Users DEF TypeOK
<1>6. /\ settler' \in SettlerState /\ settler'.pc = "lockBuyer" /\ settler'.trade = settler.trade
      /\ settler'.maker = settler.maker /\ settler'.taker = settler.taker
      /\ settler'.sellerHad = balance[u]
  BY ONLY <1>1, <1>4, <1>5 DEF SettlerState
<1>7. /\ Respects(Settler) /\ RespectsClaims(Settler) /\ RowsHeld'
      /\ holder' \in [Users -> Holders \cup {Nobody}] /\ holder'[u] = Settler
  BY <1>1, <1>4, Locking DEF Holders, wallets
<1>8. TypeOK'
  BY ONLY <1>1, <1>4, <1>6, <1>7 DEF TypeOK, wallets, fees, faults, returns
<1>9. SettlerOK'
  BY ONLY <1>1, <1>2, <1>3, <1>4, <1>6, <1>7 DEF SettlerOK, Lookups, wallets
<1>10. FaultsGrow
  BY ONLY <1>1, <1>4, Faulting DEF faults
<1>11. (\A t \in Trades : Owing(t))'
  BY ONLY IInv, <1>2, <1>4, <1>6, <1>10, OwingOn DEF wallets, fees
<1>12. (\A w \in Withdrawals : WithdrawalOK(w))' /\ (\A m \in Monitors : MonitorOK(m))'
  BY ONLY IInv, <1>4, <1>7, OthersOfSettler DEF wallets
<1> QED BY ONLY <1>7, <1>8, <1>9, <1>11, <1>12 DEF IInv

LEMMA BuyerLocked == ASSUME IInv, LockBuyer PROVE IInv'
<1>1. settler \in SettlerState /\ SettlerOK /\ TypeOK /\ RowsHeld
  BY DEF IInv, TypeOK
<1>2. settler.pc = "lockBuyer" /\ settler.trade \in Trades
  BY DEF IInv, TypeOK, SettlerOK, LockBuyer
<1>3. PICK s \in Users, u \in Users :
         s = TradeOf[settler.trade].seller /\ u = TradeOf[settler.trade].buyer
  BY ONLY <1>2, Transfers
<1>4. /\ balance[u] # NoRow /\ Lockable(Settler, u) /\ holder' = Locked(Settler, u)
      /\ settler' = [settler EXCEPT !.pc = "sellerFree", !.buyerHad = balance[u]]
      /\ UNCHANGED <<wallets, claimant, fees, faults, issued, consumed, withdrawal, monitor>>
  BY ONLY LockBuyer, <1>3 DEF LockBuyer, Buyer
<1>13. sealed[s] = sealed[u]
  BY ONLY LockBuyer, <1>3 DEF LockBuyer, Readable, Opens, Seller, Buyer
<1>5. balance[u] \in Nat
  BY ONLY <1>1, <1>4, u \in Users DEF TypeOK
<1>6. /\ settler' \in SettlerState /\ settler'.pc = "sellerFree" /\ settler'.trade = settler.trade
      /\ settler'.maker = settler.maker /\ settler'.taker = settler.taker
      /\ settler'.sellerHad = settler.sellerHad /\ settler'.buyerHad = balance[u]
  BY ONLY <1>1, <1>4, <1>5 DEF SettlerState, Lookups
<1>7. /\ Respects(Settler) /\ RespectsClaims(Settler) /\ RowsHeld'
      /\ holder' \in [Users -> Holders \cup {Nobody}] /\ holder'[u] = Settler
      /\ holder[s] = Settler => holder'[s] = Settler
  BY <1>1, <1>4, Locking DEF Holders, wallets
<1>8. TypeOK'
  BY ONLY <1>1, <1>4, <1>6, <1>7 DEF TypeOK, wallets, fees, faults, returns
<1>9. SettlerOK'
  BY ONLY <1>1, <1>2, <1>3, <1>4, <1>6, <1>7, <1>13 DEF SettlerOK, Lookups, wallets
<1>10. FaultsGrow
  BY ONLY <1>1, <1>4, Faulting DEF faults
<1>11. (\A t \in Trades : Owing(t))'
  BY ONLY IInv, <1>2, <1>4, <1>6, <1>10, OwingOn DEF wallets, fees
<1>12. (\A w \in Withdrawals : WithdrawalOK(w))' /\ (\A m \in Monitors : MonitorOK(m))'
  BY ONLY IInv, <1>4, <1>7, OthersOfSettler DEF wallets
<1> QED BY ONLY <1>7, <1>8, <1>9, <1>11, <1>12 DEF IInv

LEMMA MoneyMoved == ASSUME IInv, MoveMoney PROVE IInv'
<1>1. settler \in SettlerState /\ SettlerOK /\ TypeOK /\ RowsHeld
  BY DEF IInv, TypeOK
<1>2. settler.pc = "money" /\ settler.trade \in Trades
  BY DEF IInv, TypeOK, SettlerOK, MoveMoney
<1>3. PICK t \in Trades : t = settler.trade
  BY <1>2
<1>4. PICK s \in Users, b \in Users : s = TradeOf[t].seller /\ b = TradeOf[t].buyer
  BY ONLY t \in Trades, Transfers
<1>5. /\ balance' = AfterTrade(balance, t, settler.sellerHad, settler.buyerHad,
                              settler.maker, settler.taker)
      /\ applied' = [applied EXCEPT ![t] = @ + 1]
      /\ holder' = Released(holder, Settler)
      /\ settler' = [settler EXCEPT !.pc = "record"]
      /\ UNCHANGED <<sealed, paid, confirmed, claimant, fees, faults, issued, consumed, withdrawal, monitor>>
  BY ONLY MoveMoney, <1>3 DEF MoveMoney, AfterMoney
<1>6. /\ settler' \in SettlerState /\ settler'.pc = "record" /\ settler'.trade = t
      /\ settler'.maker = settler.maker /\ settler'.taker = settler.taker
  BY ONLY <1>1, <1>3, <1>5 DEF SettlerState
<1>7. /\ balance' \in [Users -> Nat \cup {NoRow}]
      /\ \A u \in Users : u \notin {s, b} => balance'[u] = balance[u]
  <2>1. /\ settler.sellerHad \in Nat /\ settler.buyerHad \in Nat
        /\ settler.maker \in Nat /\ settler.taker \in Nat
    BY ONLY <1>1 DEF SettlerState
  <2>2. balance \in [Users -> Nat \cup {NoRow}]
    BY ONLY <1>1 DEF TypeOK
  <2>3. PICK rows \in [Users -> Nat \cup {NoRow}], sellerHad \in Nat, buyerHad \in Nat,
             maker \in Nat, taker \in Nat :
           /\ rows = balance
           /\ sellerHad = settler.sellerHad /\ buyerHad = settler.buyerHad
           /\ maker = settler.maker /\ taker = settler.taker
    BY ONLY <2>1, <2>2
  <2>4. PICK after : after = balance'
    OBVIOUS
  <2>5. after = AfterTrade(rows, t, sellerHad, buyerHad, maker, taker)
    BY ONLY <1>5, <2>3, <2>4
  <2>6. /\ after \in [Users -> Nat \cup {NoRow}]
        /\ \A u \in Users : u \notin {TradeOf[t].seller, TradeOf[t].buyer} => after[u] = rows[u]
    BY ONLY <2>5, t \in Trades, Traded
  <2> QED BY ONLY <1>4, <2>3, <2>4, <2>6
<1>8. holder[s] = Settler /\ holder[b] = Settler
  BY ONLY <1>1, <1>2, <1>3, <1>4 DEF SettlerOK
<1>9. Spares(Settler)
  BY ONLY <1>5, <1>7, <1>8 DEF Spares
<1>10. Respects(Settler) /\ RowsHeld' /\ holder' \in [Users -> Holders \cup {Nobody}]
  BY ONLY <1>1, <1>5, <1>9, Releasing
<1>11. RespectsClaims(Settler)
  BY ONLY <1>5 DEF RespectsClaims
<1>12. applied' \in [Trades -> Nat] /\ applied'[t] = applied[t] + 1
       /\ \A x \in Trades : x # t => applied'[x] = applied[x]
  BY ONLY <1>1, <1>5, t \in Trades DEF TypeOK
<1>13. TypeOK'
  BY ONLY <1>1, <1>5, <1>6, <1>7, <1>10, <1>12 DEF TypeOK, fees, faults, returns
<1>14. SettlerOK'
  BY ONLY <1>1, <1>2, <1>3, <1>5, <1>6 DEF SettlerOK, Lookups
<1>15. ASSUME NEW x \in Trades PROVE Owing(x)'
  <2>1. Owing(x)
    BY DEF IInv
  <2>2. applied[x] \in Nat /\ recorded[x] \in Nat /\ restarts \in Nat
    BY FundsBoundsAssumption DEF IInv, TypeOK
  <2> QED BY ONLY <1>2, <1>3, <1>5, <1>6, <1>12, <2>1, <2>2
             DEF Owing, Recording, faults, returns, fees
<1>16. (\A w \in Withdrawals : WithdrawalOK(w))' /\ (\A m \in Monitors : MonitorOK(m))'
  BY ONLY IInv, <1>5, <1>10, <1>11, OthersOfSettler
<1> QED BY ONLY <1>10, <1>13, <1>14, <1>15, <1>16 DEF IInv

LEMMA FeesRecorded == ASSUME IInv, RecordFees PROVE IInv'
<1>1. settler \in SettlerState /\ SettlerOK /\ TypeOK
  BY DEF IInv, TypeOK
<1>2. settler.pc = "record" /\ settler.trade \in Trades
  BY DEF IInv, TypeOK, SettlerOK, RecordFees
<1>3. PICK t \in Trades : t = settler.trade
  BY <1>2
<1>4. PICK s \in Users, b \in Users : s = TradeOf[t].seller /\ b = TradeOf[t].buyer
  BY ONLY t \in Trades, Transfers
<1>5. PICK v \in Nat : v = Value(t)
  BY ONLY t \in Trades, Transfers DEF Value
<1>6. /\ recorded' = [recorded EXCEPT ![t] = @ + 1]
      /\ volume' = [[volume EXCEPT ![s] = @ + v] EXCEPT ![b] = @ + v]
      /\ settler' = [settler EXCEPT !.pc = "announce"]
      /\ UNCHANGED <<wallets, locks, faults, issued, consumed, withdrawal, monitor>>
  BY ONLY RecordFees, <1>3, <1>4, <1>5 DEF RecordFees, Seller, Buyer
<1>7. /\ settler' \in SettlerState /\ settler'.pc = "announce" /\ settler'.trade = t
      /\ settler'.maker = settler.maker /\ settler'.taker = settler.taker
  BY ONLY <1>1, <1>3, <1>6 DEF SettlerState
<1>8. volume' \in [Users -> Nat]
  <2>1. volume \in [Users -> Nat]
    BY ONLY <1>1 DEF TypeOK
  <2>2. [volume EXCEPT ![s] = @ + v] \in [Users -> Nat]
    BY ONLY <2>1, s \in Users, v \in Nat
  <2>3. PICK f \in [Users -> Nat] : f = [volume EXCEPT ![s] = @ + v]
    BY ONLY <2>2
  <2>4. [f EXCEPT ![b] = @ + v] \in [Users -> Nat]
    BY ONLY f \in [Users -> Nat], b \in Users, v \in Nat
  <2> QED BY ONLY <1>6, <2>3, <2>4
<1>9. /\ recorded' \in [Trades -> Nat] /\ recorded'[t] = recorded[t] + 1
      /\ \A x \in Trades : x # t => recorded'[x] = recorded[x]
  BY ONLY <1>1, <1>6, t \in Trades DEF TypeOK
<1>10. SettlerOK'
  BY ONLY <1>1, <1>2, <1>3, <1>6, <1>7 DEF SettlerOK, Lookups
<1>11. ASSUME NEW x \in Trades PROVE Owing(x)'
  <2>1. Owing(x)
    BY DEF IInv
  <2>2. applied[x] \in Nat /\ recorded[x] \in Nat /\ restarts \in Nat
    BY FundsBoundsAssumption DEF IInv, TypeOK
  <2> QED BY ONLY <1>2, <1>3, <1>6, <1>7, <1>9, <2>1, <2>2
             DEF Owing, Recording, faults, returns, wallets
<1>12. FaultsGrow
  BY ONLY <1>1, <1>6, Faulting DEF faults
<1>13. consumed' \subseteq Trades
  BY ONLY <1>1, <1>6 DEF TypeOK
<1> QED BY ONLY IInv, <1>6, <1>7, <1>8, <1>9, <1>10, <1>11, <1>12, <1>13, NoRowTouched

LEMMA IdleIsState == Idle \in SettlerState /\ Idle.pc = "idle" /\ Idle.maker \in Bps /\ Idle.taker \in Bps
BY DEF Idle, SettlerState, Keys, Bps

(* An idle settler owes nothing new. *)
LEMMA OwingIdle ==
    ASSUME IInv, UNCHANGED <<applied, recorded>>, FaultsGrow, settler'.pc = "idle",
           settler.pc = "record" => failures' > 0 \/ starved'
    PROVE  (\A t \in Trades : Owing(t))'
<1> SUFFICES ASSUME NEW t \in Trades PROVE Owing(t)'
  OBVIOUS
<1>1. Owing(t)
  BY DEF IInv
<1>2. applied[t] \in Nat /\ recorded[t] \in Nat /\ restarts \in Nat /\ failures \in Nat
      /\ failures' \in Int
  BY FundsBoundsAssumption DEF IInv, TypeOK, FaultsGrow
<1> QED
  BY ONLY <1>1, <1>2, UNCHANGED <<applied, recorded>>, FaultsGrow, settler'.pc = "idle",
          settler.pc = "record" => failures' > 0 \/ starved'
     DEF Owing, Recording, FaultsGrow

LEMMA Announced == ASSUME IInv, Announce PROVE IInv'
<1>1. /\ settler.pc = "announce" /\ settler' = Idle
      /\ UNCHANGED <<wallets, locks, fees, faults, issued, consumed, withdrawal, monitor>>
  BY DEF Announce
<1>2. FaultsGrow
  BY <1>1, Faulting DEF IInv, faults
<1>3. settler' \in SettlerState /\ settler'.pc = "idle" /\ SettlerOK'
  BY ONLY <1>1, IdleIsState DEF SettlerOK, Lookups
<1>4. (\A t \in Trades : Owing(t))'
  BY ONLY IInv, <1>1, <1>2, <1>3, OwingIdle DEF wallets, fees
<1>5. volume' \in [Users -> Nat] /\ recorded' \in [Trades -> Nat] /\ consumed' \subseteq Trades
  BY <1>1 DEF fees, IInv, TypeOK
<1> QED BY ONLY IInv, <1>1, <1>2, <1>3, <1>4, <1>5, NoRowTouched

LEMMA Abandoned == ASSUME IInv, AbandonTrade PROVE IInv'
<1>1. /\ holder' = Released(holder, Settler) /\ settler' = Idle
      /\ UNCHANGED <<wallets, claimant, fees, returns, issued, consumed, withdrawal, monitor>>
  BY DEF AbandonTrade
<1>2. FaultsGrow
  BY ONLY IInv, AbandonTrade, Faulting DEF IInv, AbandonTrade
<1>3. settler.pc = "record" => failures' > 0 \/ starved'
  <2>1. failures \in Nat
    BY FundsBoundsAssumption DEF IInv, TypeOK
  <2> QED BY ONLY <2>1, AbandonTrade DEF AbandonTrade, Fails, NoConnection
<1>4. settler' \in SettlerState /\ settler'.pc = "idle" /\ SettlerOK'
  BY ONLY <1>1, IdleIsState DEF SettlerOK, Lookups
<1>5. (\A t \in Trades : Owing(t))'
  BY ONLY IInv, <1>1, <1>2, <1>3, <1>4, OwingIdle DEF wallets, fees
<1>6. Respects(Settler) /\ RowsHeld' /\ holder' \in [Users -> Holders \cup {Nobody}]
  BY <1>1, Releasing DEF IInv, Spares, wallets
<1>7. RespectsClaims(Settler)
  BY ONLY <1>1 DEF RespectsClaims, wallets
<1>8. TypeOK'
  BY ONLY IInv, <1>1, <1>2, <1>4, <1>6 DEF IInv, TypeOK, wallets, fees, FaultsGrow
<1>9. (\A w \in Withdrawals : WithdrawalOK(w))' /\ (\A m \in Monitors : MonitorOK(m))'
  BY ONLY IInv, <1>1, <1>6, <1>7, OthersOfSettler DEF wallets
<1> QED BY ONLY <1>4, <1>5, <1>6, <1>8, <1>9 DEF IInv

LEMMA SettlerSteps ==
    ASSUME IInv, SettlerStep \/ \E t \in Trades : Consume(t) \/ Redeliver(t) PROVE IInv'
<1>1. CASE \E t \in Trades : Consume(t) \/ Redeliver(t)
  BY <1>1, Consuming, ComingAgain
<1>2. CASE SettlerStep
  BY ONLY IInv, <1>2, Beginning, SellerLocked, BuyerLocked, LookingUp, MoneyMoved,
          FeesRecorded, Announced, Abandoned DEF SettlerStep
<1> QED BY <1>1, <1>2

-----------------------------------------------------------------------------
(* The steps of a withdrawal. *)

(* Nothing is owed because of the others. *)
LEMMA OwingStill ==
    ASSUME IInv, UNCHANGED <<applied, recorded, settler>>, FaultsGrow
    PROVE  (\A t \in Trades : Owing(t))'
<1> SUFFICES ASSUME NEW t \in Trades PROVE Owing(t)'
  OBVIOUS
<1>1. Owing(t)
  BY DEF IInv
<1> QED BY ONLY <1>1, UNCHANGED <<applied, recorded, settler>>, FaultsGrow
           DEF Owing, Recording, FaultsGrow

LEMMA OthersOfWithdrawal ==
    ASSUME IInv, NEW w \in Withdrawals, Respects(w),
           UNCHANGED <<claimant, issued, confirmed, consumed, settler, monitor>>,
           \A v \in Withdrawals \ {w} : withdrawal'[v] = withdrawal[v],
           paid' \subseteq paid \cup {w}, WithdrawalOK(w)'
    PROVE  /\ SettlerOK'
           /\ (\A v \in Withdrawals : WithdrawalOK(v))'
           /\ (\A m \in Monitors : MonitorOK(m))'
<1>1. SettlerOK'
  BY Names, SettlerLeft DEF IInv
<1>2. ASSUME NEW v \in Withdrawals PROVE WithdrawalOK(v)'
  <2>1. CASE v = w
    BY <2>1
  <2>2. CASE v # w
    BY <2>2, WithdrawalLeft DEF IInv
  <2> QED BY <2>1, <2>2
<1>3. RespectsClaims(w)
  BY DEF RespectsClaims
<1>4. ASSUME NEW m \in Monitors PROVE MonitorOK(m)'
  BY <1>3, Names, MonitorLeft DEF IInv
<1> QED BY <1>1, <1>2, <1>4

LEMMA WithdrawalMoved ==
    ASSUME TypeOK, NEW w \in Withdrawals, NEW e \in WithdrawalState,
           withdrawal' = [withdrawal EXCEPT ![w] = e]
    PROVE  /\ withdrawal' \in [Withdrawals -> WithdrawalState] /\ withdrawal'[w] = e
           /\ \A v \in Withdrawals \ {w} : withdrawal'[v] = withdrawal[v]
<1>1. withdrawal \in [Withdrawals -> WithdrawalState]
  BY DEF TypeOK
<1> QED BY ONLY <1>1, w \in Withdrawals, e \in WithdrawalState,
                withdrawal' = [withdrawal EXCEPT ![w] = e]

LEMMA WithdrawalTurned ==
    ASSUME TypeOK, NEW w \in Withdrawals,
           NEW pc \in {"new", "lock", "pay", "paid", "refused", "failed"}, WithdrawalTo(w, pc)
    PROVE  /\ withdrawal' \in [Withdrawals -> WithdrawalState] /\ withdrawal'[w].pc = pc
           /\ \A v \in Withdrawals \ {w} : withdrawal'[v] = withdrawal[v]
<1>1. PICK had \in Nat : had = withdrawal[w].had
  BY DEF TypeOK, WithdrawalState
<1>2. withdrawal \in [Withdrawals -> WithdrawalState]
  BY DEF TypeOK
<1>4. withdrawal' = [withdrawal EXCEPT ![w] = [pc |-> pc, had |-> had]]
  <2>1. PICK was \in WithdrawalState : was = withdrawal[w]
    BY ONLY <1>2, w \in Withdrawals
  <2>2. [was EXCEPT !.pc = pc] = [pc |-> pc, had |-> had]
    BY ONLY <1>1, <2>1, was \in WithdrawalState DEF WithdrawalState
  <2>3. withdrawal' = [withdrawal EXCEPT ![w] = [was EXCEPT !.pc = pc]]
    BY ONLY WithdrawalTo(w, pc), <2>1 DEF WithdrawalTo
  <2> QED BY ONLY <2>2, <2>3
<1>5. [pc |-> pc, had |-> had] \in WithdrawalState
  BY ONLY pc \in {"new", "lock", "pay", "paid", "refused", "failed"}, had \in Nat
     DEF WithdrawalState
<1>6. withdrawal'[w].pc = pc
  BY ONLY <1>2, <1>4, w \in Withdrawals
<1> QED BY <1>4, <1>5, <1>6, WithdrawalMoved

(* Steps that end or begin a withdrawal and pay nothing. *)
LEMMA WithdrawalIdle ==
    ASSUME IInv, NEW w \in Withdrawals, NEW pc \in {"lock", "refused", "failed"},
           WithdrawalTo(w, pc), withdrawal[w].pc # "paid",
           UNCHANGED holder \/ holder' = Released(holder, w), FaultsGrow,
           UNCHANGED <<wallets, claimant, fees, issued, consumed, settler, monitor>>
    PROVE  IInv'
<1>1. /\ withdrawal' \in [Withdrawals -> WithdrawalState] /\ withdrawal'[w].pc = pc
      /\ \A v \in Withdrawals \ {w} : withdrawal'[v] = withdrawal[v]
  BY WithdrawalTurned DEF IInv
<1>2. Respects(w) /\ RowsHeld' /\ holder' \in [Users -> Holders \cup {Nobody}]
  <2>1. CASE UNCHANGED holder
    BY <2>1 DEF Respects, RowsHeld, IInv, TypeOK, wallets
  <2>2. CASE holder' = Released(holder, w)
    BY <2>2, Releasing DEF IInv, Spares, wallets
  <2> QED BY <2>1, <2>2
<1>3. w \notin paid
  BY DEF IInv, WithdrawalOK
<1>4. WithdrawalOK(w)'
  BY ONLY <1>1, <1>3, pc \in {"lock", "refused", "failed"}, UNCHANGED wallets
     DEF WithdrawalOK, wallets
<1>5. /\ SettlerOK'
      /\ (\A v \in Withdrawals : WithdrawalOK(v))'
      /\ (\A m \in Monitors : MonitorOK(m))'
  BY <1>1, <1>2, <1>4, OthersOfWithdrawal DEF wallets
<1>6. TypeOK'
  BY ONLY IInv, <1>1, <1>2, FaultsGrow,
          UNCHANGED <<wallets, claimant, fees, issued, consumed, settler, monitor>>
     DEF IInv, TypeOK, wallets, fees, FaultsGrow
<1>7. (\A t \in Trades : Owing(t))'
  BY ONLY IInv, FaultsGrow, OwingStill, UNCHANGED <<wallets, fees, consumed, settler>>
     DEF wallets, fees
<1> QED BY ONLY <1>2, <1>5, <1>6, <1>7 DEF IInv

LEMMA WithdrawalPlain ==
    ASSUME IInv, NEW w \in Withdrawals, BeginWithdrawal(w) \/ Refuse(w) \/ WithdrawalFails(w)
    PROVE  IInv'
<1>1. CASE BeginWithdrawal(w)
  <2>1. FaultsGrow
    BY <1>1, Faulting DEF IInv, BeginWithdrawal, faults
  <2>2. WithdrawalTo(w, "lock")
    BY <1>1 DEF BeginWithdrawal
  <2> QED BY <1>1, <2>1, <2>2, WithdrawalIdle DEF BeginWithdrawal, locks
<1>2. CASE Refuse(w)
  <2>1. FaultsGrow
    BY <1>2, Faulting, KeyOrFailure DEF IInv, Refuse
  <2>2. WithdrawalTo(w, "refused")
    BY <1>2 DEF Refuse
  <2> QED BY <1>2, <2>1, <2>2, WithdrawalIdle DEF Refuse, locks
<1>3. CASE WithdrawalFails(w)
  <2>1. FaultsGrow
    BY <1>3, Faulting DEF IInv, WithdrawalFails
  <2>2. WithdrawalTo(w, "failed")
    BY <1>3 DEF WithdrawalFails
  <2> QED BY <1>3, <2>1, <2>2, WithdrawalIdle DEF WithdrawalFails
<1> QED BY <1>1, <1>2, <1>3

LEMMA PayLocked == ASSUME IInv, NEW w \in Withdrawals, LockToPay(w) PROVE IInv'
<1>1. PICK u \in Users : u = WithdrawalOf[w].user
  BY Transfers
<1>2. PICK had : had = balance[u]
  OBVIOUS
<1>3. /\ withdrawal[w].pc = "lock" /\ had # NoRow /\ Lockable(w, u)
      /\ had >= WithdrawalOf[w].amount /\ holder' = Locked(w, u)
      /\ withdrawal' = [withdrawal EXCEPT ![w] = [pc |-> "pay", had |-> had]]
      /\ UNCHANGED <<wallets, claimant, fees, returns, issued, consumed, settler, monitor>>
      /\ \E key \in Keys : KeyFound(key)
  BY ONLY LockToPay(w), <1>1, <1>2 DEF LockToPay
<1>14. FaultsGrow
  BY ONLY <1>3, IInv, Faulting, KeyOrFailure DEF IInv
<1>4. TypeOK /\ RowsHeld
  BY DEF IInv
<1>5. had \in Nat
  BY ONLY <1>2, <1>3, <1>4, u \in Users DEF TypeOK
<1>6. [pc |-> "pay", had |-> had] \in WithdrawalState
  BY ONLY <1>5 DEF WithdrawalState
<1>7. /\ withdrawal' \in [Withdrawals -> WithdrawalState]
      /\ withdrawal'[w] = [pc |-> "pay", had |-> had]
      /\ \A v \in Withdrawals \ {w} : withdrawal'[v] = withdrawal[v]
  BY ONLY <1>3, <1>4, <1>6, w \in Withdrawals, WithdrawalMoved
<1>8. /\ Respects(w) /\ RowsHeld' /\ holder' \in [Users -> Holders \cup {Nobody}]
      /\ holder'[u] = w
  BY <1>2, <1>3, <1>4, Locking DEF Holders, wallets
<1>9. w \notin paid
  BY <1>3 DEF IInv, WithdrawalOK
<1>10. WithdrawalOK(w)'
  BY ONLY <1>1, <1>2, <1>3, <1>7, <1>8, <1>9 DEF WithdrawalOK, wallets
<1>11. /\ SettlerOK'
       /\ (\A v \in Withdrawals : WithdrawalOK(v))'
       /\ (\A m \in Monitors : MonitorOK(m))'
  BY <1>3, <1>7, <1>8, <1>10, OthersOfWithdrawal DEF wallets
<1>12. TypeOK'
  BY ONLY <1>3, <1>4, <1>7, <1>8, <1>14 DEF TypeOK, wallets, fees, returns, FaultsGrow
<1>13. (\A t \in Trades : Owing(t))'
  BY <1>3, <1>14, OwingStill DEF wallets, fees
<1> QED BY ONLY <1>8, <1>11, <1>12, <1>13 DEF IInv

LEMMA Paying == ASSUME IInv, NEW w \in Withdrawals, Pay(w) PROVE IInv'
<1>1. PICK u \in Users, amount \in Nat :
         u = WithdrawalOf[w].user /\ amount = WithdrawalOf[w].amount
  BY Transfers
<1>2. TypeOK /\ RowsHeld /\ WithdrawalOK(w)
  BY DEF IInv
<1>3. /\ withdrawal[w].pc = "pay" /\ paid' = paid \cup {w} /\ WithdrawalTo(w, "paid")
      /\ balance' = [balance EXCEPT ![u] = withdrawal[w].had - amount]
      /\ holder' = Released(holder, w)
      /\ UNCHANGED <<sealed, confirmed, applied, claimant, fees, faults, issued, consumed, settler, monitor>>
  BY ONLY Pay(w), <1>1 DEF Pay
<1>4. /\ holder[u] = w /\ withdrawal[w].had >= amount /\ withdrawal[w].had = balance[u]
  BY ONLY <1>1, <1>2, <1>3 DEF WithdrawalOK
<1>5. withdrawal[w].had - amount \in Nat
  <2>1. withdrawal[w].had \in Nat
    BY <1>2 DEF TypeOK, WithdrawalState
  <2> QED BY ONLY <1>4, <2>1, amount \in Nat
<1>6. /\ balance' \in [Users -> Nat \cup {NoRow}]
      /\ \A x \in Users : x # u => balance'[x] = balance[x]
  BY ONLY <1>2, <1>3, <1>5, u \in Users DEF TypeOK
<1>7. /\ withdrawal' \in [Withdrawals -> WithdrawalState] /\ withdrawal'[w].pc = "paid"
      /\ \A v \in Withdrawals \ {w} : withdrawal'[v] = withdrawal[v]
  BY <1>2, <1>3, WithdrawalTurned
<1>8. Respects(w) /\ RowsHeld' /\ holder' \in [Users -> Holders \cup {Nobody}]
  <2>1. Spares(w)
    BY ONLY <1>3, <1>4, <1>6 DEF Spares
  <2> QED BY ONLY <1>2, <1>3, <2>1, Releasing
<1>9. WithdrawalOK(w)'
  BY ONLY <1>7 DEF WithdrawalOK
<1>10. /\ SettlerOK'
       /\ (\A v \in Withdrawals : WithdrawalOK(v))'
       /\ (\A m \in Monitors : MonitorOK(m))'
  BY <1>3, <1>7, <1>8, <1>9, OthersOfWithdrawal
<1>11. TypeOK'
  BY ONLY <1>2, <1>3, <1>6, <1>7, <1>8, w \in Withdrawals DEF TypeOK, fees, faults, returns
<1>12. (\A t \in Trades : Owing(t))'
  BY <1>2, <1>3, Faulting, OwingStill DEF fees, faults
<1> QED BY ONLY <1>8, <1>10, <1>11, <1>12 DEF IInv

-----------------------------------------------------------------------------
(* Deposits and the monitors. *)

LEMMA AddressIssued == ASSUME IInv, NEW d \in Deposits, IssueAddress(d) PROVE IInv'
<1>1. /\ issued' = issued \cup {d}
      /\ UNCHANGED <<wallets, locks, fees, faults, consumed, settler, withdrawal, monitor>>
  BY DEF IssueAddress
<1>2. Respects(Nobody) /\ RespectsClaims(Nobody) /\ RowsHeld'
  BY <1>1 DEF Respects, RespectsClaims, RowsHeld, IInv, wallets, locks
<1>3. SettlerOK'
  BY <1>1, <1>2, Names, SettlerLeft DEF IInv
<1>4. ASSUME NEW w \in Withdrawals PROVE WithdrawalOK(w)'
  BY <1>1, <1>2, Names, WithdrawalLeft DEF IInv, wallets
<1>5. ASSUME NEW m \in Monitors PROVE MonitorOK(m)'
  BY <1>1, <1>2, Names, MonitorLeft DEF IInv
<1>6. TypeOK'
  BY ONLY IInv, <1>1, d \in Deposits DEF IInv, TypeOK, wallets, locks, fees, faults, returns
<1>7. (\A t \in Trades : Owing(t))'
  BY <1>1, Faulting, OwingStill DEF IInv, wallets, fees, faults
<1> QED BY ONLY <1>2, <1>3, <1>4, <1>5, <1>6, <1>7 DEF IInv

LEMMA MonitorMoved ==
    ASSUME TypeOK, NEW m \in Monitors, NEW e \in MonitorState,
           monitor' = [monitor EXCEPT ![m] = e]
    PROVE  /\ monitor' \in [Monitors -> MonitorState] /\ monitor'[m] = e
           /\ \A n \in Monitors \ {m} : monitor'[n] = monitor[n]
<1>1. monitor \in [Monitors -> MonitorState]
  BY DEF TypeOK
<1> QED BY ONLY <1>1, m \in Monitors, e \in MonitorState, monitor' = [monitor EXCEPT ![m] = e]

(* A step of a monitor, once its own state is seen to be sound.             *)
LEMMA MonitorSteps ==
    ASSUME IInv, NEW m \in Monitors, Respects(m), RespectsClaims(m), RowsHeld',
           NEW e \in MonitorState, monitor' = [monitor EXCEPT ![m] = e], MonitorOK(m)', FaultsGrow,
           UNCHANGED <<paid, applied, fees, issued, consumed, settler, withdrawal>>,
           balance' \in [Users -> Nat \cup {NoRow}], sealed' \in [Users -> Keys],
           holder' \in [Users -> Holders \cup {Nobody}],
           claimant' \in [Deposits -> Monitors \cup {Nobody}], confirmed' \subseteq issued
    PROVE  IInv'
<1>1. /\ monitor' \in [Monitors -> MonitorState]
      /\ \A n \in Monitors \ {m} : monitor'[n] = monitor[n]
  BY MonitorMoved DEF IInv
<1>2. SettlerOK'
  BY Names, SettlerLeft DEF IInv
<1>3. ASSUME NEW w \in Withdrawals PROVE WithdrawalOK(w)'
  BY Names, WithdrawalLeft DEF IInv
<1>4. ASSUME NEW n \in Monitors PROVE MonitorOK(n)'
  <2>1. CASE n = m
    BY <2>1
  <2>2. CASE n # m
    BY <1>1, <2>2, MonitorLeft DEF IInv
  <2> QED BY <2>1, <2>2
<1>5. TypeOK'
  BY <1>1 DEF IInv, TypeOK, fees, FaultsGrow
<1>6. (\A t \in Trades : Owing(t))'
  BY OwingStill DEF fees
<1> QED BY ONLY RowsHeld', <1>2, <1>3, <1>4, <1>5, <1>6 DEF IInv

(* Steps of a monitor outside its transaction. *)
LEMMA MonitorOutside ==
    ASSUME IInv, NEW m \in Monitors, NEW e \in MonitorState, monitor' = [monitor EXCEPT ![m] = e],
           e.pc \in {"sleep", "next", "claim"}, e.todo \subseteq issued,
           e.pc = "claim" => e.deposit \in issued, FaultsGrow,
           UNCHANGED <<wallets, locks, fees, issued, consumed, settler, withdrawal>>
    PROVE  IInv'
<1>1. Respects(m) /\ RespectsClaims(m) /\ RowsHeld'
  BY DEF Respects, RespectsClaims, RowsHeld, IInv, wallets, locks
<1>2. monitor'[m] = e
  BY MonitorMoved DEF IInv
<1>3. MonitorOK(m)'
  BY ONLY <1>2, e.pc \in {"sleep", "next", "claim"}, e.todo \subseteq issued,
          e.pc = "claim" => e.deposit \in issued, UNCHANGED issued DEF MonitorOK
<1>4. /\ balance' \in [Users -> Nat \cup {NoRow}] /\ sealed' \in [Users -> Keys]
      /\ holder' \in [Users -> Holders \cup {Nobody}]
      /\ claimant' \in [Deposits -> Monitors \cup {Nobody}] /\ confirmed' \subseteq issued
  BY DEF IInv, TypeOK, wallets, locks
<1> QED BY <1>1, <1>3, <1>4, MonitorSteps DEF wallets

LEMMA Polling == ASSUME IInv, NEW m \in Monitors, Poll(m) \/ EndPoll(m) PROVE IInv'
<1>1. Sleeping \in MonitorState /\ Sleeping.pc = "sleep" /\ Sleeping.todo = {}
  BY DEF Sleeping, MonitorState, Keys
<1>2. PICK rest \in MonitorState : rest = Sleeping
  BY ONLY <1>1
<1>3. PICK open : open = issued \ confirmed
  OBVIOUS
<1>4. open \subseteq issued /\ open \in SUBSET Deposits
  BY <1>3 DEF IInv, TypeOK
<1>5. FaultsGrow
  BY Faulting DEF IInv, Poll, EndPoll, faults
<1>6. CASE Poll(m)
  <2>1. PICK e : e = [rest EXCEPT !.pc = "next", !.todo = open]
    OBVIOUS
  <2>2. e \in MonitorState /\ e.pc = "next" /\ e.todo = open
    BY ONLY <1>4, <2>1, rest \in MonitorState DEF MonitorState
  <2>3. /\ monitor' = [monitor EXCEPT ![m] = e]
        /\ UNCHANGED <<wallets, locks, fees, issued, consumed, settler, withdrawal>>
    BY ONLY <1>2, <1>3, <1>6, <2>1 DEF Poll
  <2> QED BY ONLY IInv, m \in Monitors, <1>4, <1>5, <2>2, <2>3, MonitorOutside
<1>7. CASE EndPoll(m)
  <2>1. /\ monitor' = [monitor EXCEPT ![m] = rest]
        /\ UNCHANGED <<wallets, locks, fees, issued, consumed, settler, withdrawal>>
    BY ONLY <1>2, <1>7 DEF EndPoll
  <2> QED BY ONLY IInv, m \in Monitors, <1>1, <1>2, <1>5, <2>1, MonitorOutside
<1> QED BY <1>6, <1>7

LEMMA Known ==
    ASSUME TypeOK, NEW m \in Monitors
    PROVE  /\ monitor[m] \in MonitorState
           /\ monitor[m] = [pc |-> monitor[m].pc, todo |-> monitor[m].todo,
                            deposit |-> monitor[m].deposit, had |-> monitor[m].had,
                            key |-> monitor[m].key]
<1>1. monitor[m] \in MonitorState
  BY DEF TypeOK
<1> QED BY ONLY <1>1 DEF MonitorState

LEMMA CreditBegun == ASSUME IInv, NEW m \in Monitors, BeginCredit(m) PROVE IInv'
<1>1. PICK was \in MonitorState : was = monitor[m]
  BY Known DEF IInv
<1>2. PICK d \in was.todo :
         \/ /\ \E key \in Keys :
                  /\ KeyFound(key)
                  /\ monitor' = [monitor EXCEPT ![m] = [was EXCEPT !.pc = "claim",
                                    !.todo = was.todo \ {d}, !.deposit = d, !.key = key]]
            /\ UNCHANGED returns
         \/ /\ Unserved
            /\ monitor' = [monitor EXCEPT ![m] = [was EXCEPT !.todo = was.todo \ {d}]]
  BY ONLY BeginCredit(m), <1>1 DEF BeginCredit
<1>3. was.todo \subseteq issued /\ was.pc = "next"
  BY <1>1 DEF IInv, MonitorOK, BeginCredit
<1>4. FaultsGrow
  BY <1>2, Faulting, KeyOrFailure DEF IInv, Unserved
<1>5. UNCHANGED <<wallets, locks, fees, issued, consumed, settler, withdrawal>>
  BY DEF BeginCredit
<1>6. ASSUME NEW key \in Keys,
             monitor' = [monitor EXCEPT ![m] = [was EXCEPT !.pc = "claim",
                            !.todo = was.todo \ {d}, !.deposit = d, !.key = key]]
      PROVE  IInv'
  <2>1. PICK e : e = [was EXCEPT !.pc = "claim", !.todo = was.todo \ {d}, !.deposit = d,
                                 !.key = key]
    OBVIOUS
  <2>2. /\ e \in MonitorState /\ e.pc = "claim" /\ e.todo = was.todo \ {d} /\ e.deposit = d
    BY ONLY <2>1, was \in MonitorState, d \in was.todo, key \in Keys DEF MonitorState
  <2> QED BY ONLY IInv, m \in Monitors, d \in was.todo, <1>3, <1>4, <1>5, <1>6, <2>1, <2>2,
                  MonitorOutside
<1>7. CASE monitor' = [monitor EXCEPT ![m] = [was EXCEPT !.todo = was.todo \ {d}]]
  <2>1. PICK e : e = [was EXCEPT !.todo = was.todo \ {d}]
    OBVIOUS
  <2>2. /\ e \in MonitorState /\ e.pc = "next" /\ e.todo = was.todo \ {d}
    BY ONLY <1>3, <2>1, was \in MonitorState, d \in was.todo DEF MonitorState
  <2> QED BY ONLY IInv, m \in Monitors, <1>3, <1>4, <1>5, <1>7, <2>1, <2>2, MonitorOutside
<1> QED BY <1>2, <1>6, <1>7

LEMMA Turned ==
    ASSUME NEW was \in MonitorState, NEW pc \in {"sleep", "next", "claim", "lock", "credit"}
    PROVE  /\ [was EXCEPT !.pc = pc] \in MonitorState /\ [was EXCEPT !.pc = pc].pc = pc
           /\ [was EXCEPT !.pc = pc].todo = was.todo
           /\ [was EXCEPT !.pc = pc].deposit = was.deposit
BY ONLY was \in MonitorState, pc \in {"sleep", "next", "claim", "lock", "credit"} DEF MonitorState

LEMMA Claimed == ASSUME IInv, NEW m \in Monitors, Claim(m) PROVE IInv'
<1>1. PICK was \in MonitorState : was = monitor[m]
  BY Known DEF IInv
<1>2. /\ was.todo \subseteq issued /\ was.deposit \in issued /\ was.deposit \in Deposits
      /\ was.pc = "claim"
  BY <1>1 DEF IInv, TypeOK, MonitorOK, Claim
<1>3. PICK d \in Deposits : d = was.deposit
  BY <1>2
<1>4. FaultsGrow
  BY Faulting DEF IInv, Claim, faults
<1>5. UNCHANGED <<wallets, holder, fees, issued, consumed, settler, withdrawal>> /\ claimant[d] = Nobody
  BY <1>1, <1>3 DEF Claim
<1>6. CASE d \in confirmed
  <2>1. monitor' = [monitor EXCEPT ![m] = [was EXCEPT !.pc = "next"]] /\ UNCHANGED claimant
    BY ONLY Claim(m), <1>1, <1>3, <1>6 DEF Claim
  <2>2. PICK e \in MonitorState : e = [was EXCEPT !.pc = "next"] /\ e.pc = "next"
                                   /\ e.todo = was.todo
    BY ONLY Turned
  <2> QED BY ONLY IInv, m \in Monitors, <1>2, <1>4, <1>5, <2>1, <2>2, MonitorOutside DEF locks
<1>7. CASE d \notin confirmed
  <2>1. /\ monitor' = [monitor EXCEPT ![m] = [was EXCEPT !.pc = "lock"]]
        /\ claimant' = [claimant EXCEPT ![d] = m]
    BY ONLY Claim(m), <1>1, <1>3, <1>7 DEF Claim
  <2>2. PICK e \in MonitorState : e = [was EXCEPT !.pc = "lock"] /\ e.pc = "lock"
                                   /\ e.todo = was.todo /\ e.deposit = d
    BY ONLY <1>3, Turned
  <2>3. claimant \in [Deposits -> Monitors \cup {Nobody}]
    BY DEF IInv, TypeOK
  <2>4. /\ claimant' \in [Deposits -> Monitors \cup {Nobody}] /\ claimant'[d] = m
        /\ \A x \in Deposits : x # d => claimant'[x] = claimant[x]
    BY ONLY <2>1, <2>3, m \in Monitors, d \in Deposits
  <2>5. Respects(m) /\ RowsHeld'
    BY <1>5 DEF Respects, RowsHeld, IInv, wallets
  <2>6. RespectsClaims(m)
    BY ONLY <1>5, <2>4 DEF RespectsClaims, wallets
  <2>7. monitor'[m] = e
    BY <2>1, <2>2, MonitorMoved DEF IInv
  <2>8. MonitorOK(m)'
    BY ONLY <1>2, <1>3, <1>5, <1>7, <2>2, <2>4, <2>7 DEF MonitorOK, wallets
  <2>9. /\ balance' \in [Users -> Nat \cup {NoRow}] /\ sealed' \in [Users -> Keys]
        /\ holder' \in [Users -> Holders \cup {Nobody}] /\ confirmed' \subseteq issued
    BY <1>5 DEF IInv, TypeOK, wallets
  <2> QED BY ONLY IInv, m \in Monitors, <1>4, <1>5, <2>1, <2>2, <2>4, <2>5, <2>6, <2>8, <2>9,
                  MonitorSteps DEF wallets
<1> QED BY <1>6, <1>7

LEMMA RowToCredit == ASSUME IInv, NEW m \in Monitors, LockToCredit(m) PROVE IInv'
<1>1. PICK was \in MonitorState : was = monitor[m]
  BY Known DEF IInv
<1>2. /\ was.pc = "lock" /\ was.todo \subseteq issued /\ was.deposit \in Deposits
      /\ was.deposit \in issued /\ claimant[was.deposit] = m /\ was.deposit \notin confirmed
  BY <1>1 DEF IInv, TypeOK, MonitorOK, LockToCredit
<1>3. PICK d \in Deposits : d = was.deposit
  BY <1>2
<1>4. PICK u \in Users : u = DepositOf[d].user
  BY Transfers
<1>5. PICK had \in Nat \cup {NoRow} : had = Had(was.key, u) /\ (had = NoRow <=> balance[u] = NoRow)
  BY DEF IInv, TypeOK, Had, NoRow
<1>6. /\ Lockable(m, u)
      /\ holder' = IF balance[u] = NoRow THEN holder ELSE Locked(m, u)
      /\ monitor' = [monitor EXCEPT ![m] = [was EXCEPT !.pc = "credit", !.had = had]]
      /\ UNCHANGED <<wallets, claimant, fees, faults, issued, consumed, settler, withdrawal>>
  BY ONLY LockToCredit(m), <1>1, <1>3, <1>4, <1>5 DEF LockToCredit
<1>7. PICK e : e = [was EXCEPT !.pc = "credit", !.had = had]
  OBVIOUS
<1>8. /\ e \in MonitorState /\ e.pc = "credit" /\ e.todo = was.todo /\ e.deposit = d
      /\ e.had = had /\ e.key = was.key
  BY ONLY <1>3, <1>7, was \in MonitorState, had \in Nat \cup {NoRow} DEF MonitorState
<1>9. monitor' = [monitor EXCEPT ![m] = e]
  BY ONLY <1>6, <1>7
<1>10. monitor'[m] = e
  BY <1>8, <1>9, MonitorMoved DEF IInv
<1>11. /\ Respects(m) /\ RespectsClaims(m) /\ RowsHeld'
       /\ holder' \in [Users -> Holders \cup {Nobody}] /\ (had # NoRow => holder'[u] = m)
  <2>1. CASE had = NoRow
    BY <1>5, <1>6, <2>1 DEF Respects, RespectsClaims, RowsHeld, IInv, TypeOK, wallets
  <2>2. CASE had # NoRow
    BY <1>5, <1>6, <2>2, Locking DEF IInv, Holders, wallets
  <2> QED BY <2>1, <2>2
<1>12. MonitorOK(m)'
  BY ONLY <1>2, <1>3, <1>4, <1>5, <1>6, <1>8, <1>10, <1>11 DEF MonitorOK, Had, Opens, wallets
<1>13. FaultsGrow
  BY <1>6, Faulting DEF IInv, faults
<1>14. /\ balance' \in [Users -> Nat \cup {NoRow}] /\ sealed' \in [Users -> Keys]
       /\ confirmed' \subseteq issued
       /\ claimant' \in [Deposits -> Monitors \cup {Nobody}]
  BY <1>6 DEF IInv, TypeOK, wallets
<1> QED BY ONLY IInv, m \in Monitors, <1>6, <1>8, <1>9, <1>11, <1>12, <1>13, <1>14, MonitorSteps
           DEF wallets

(* The end of a monitor's transaction.                                      *)
LEMMA Unlocking ==
    ASSUME IInv, NEW m \in Monitors, Unlock(m), monitor[m].pc \in {"claim", "lock", "credit"},
           Spares(m), balance' \in [Users -> Nat \cup {NoRow}], sealed' \in [Users -> Keys],
           confirmed' \subseteq confirmed
              \/ (monitor[m].pc # "claim" /\ confirmed' = confirmed \cup {monitor[m].deposit}),
           FaultsGrow, UNCHANGED <<paid, applied, fees, issued, consumed, settler, withdrawal>>
    PROVE  IInv'
<1>1. PICK was \in MonitorState : was = monitor[m]
  BY Known DEF IInv
<1>2. /\ was.todo \subseteq issued /\ was.deposit \in issued
      /\ was.pc # "claim" => claimant[was.deposit] = m
  BY <1>1 DEF IInv, MonitorOK
<1>3. /\ holder' = Released(holder, m) /\ claimant' = Released(claimant, m)
      /\ monitor' = [monitor EXCEPT ![m] = [was EXCEPT !.pc = "next"]]
  BY ONLY Unlock(m), <1>1 DEF Unlock
<1>4. PICK e \in MonitorState : e = [was EXCEPT !.pc = "next"] /\ e.pc = "next" /\ e.todo = was.todo
  BY ONLY Turned
<1>5. Respects(m) /\ RowsHeld' /\ holder' \in [Users -> Holders \cup {Nobody}]
  BY <1>3, Releasing DEF IInv
<1>6. claimant \in [Deposits -> Monitors \cup {Nobody}]
  BY DEF IInv, TypeOK
<1>7. claimant' = [x \in Deposits |-> IF claimant[x] = m THEN Nobody ELSE claimant[x]]
  BY ONLY <1>3, <1>6 DEF Released
<1>8. /\ claimant' \in [Deposits -> Monitors \cup {Nobody}]
      /\ \A x \in Deposits : claimant[x] # m => claimant'[x] = claimant[x]
  BY ONLY <1>6, <1>7
<1>9. \A x \in Deposits : claimant[x] # m /\ x \in confirmed' => x \in confirmed
  BY <1>1, <1>2
<1>10. RespectsClaims(m)
  BY ONLY <1>8, <1>9, UNCHANGED issued DEF RespectsClaims
<1>11. monitor'[m] = e
  BY <1>3, <1>4, MonitorMoved DEF IInv
<1>12. MonitorOK(m)'
  BY ONLY <1>2, <1>4, <1>11, UNCHANGED issued DEF MonitorOK
<1>13. confirmed' \subseteq issued
  BY <1>1, <1>2 DEF IInv, TypeOK
<1> QED BY <1>3, <1>4, <1>5, <1>8, <1>10, <1>12, <1>13, MonitorSteps

LEMMA NotCredited == ASSUME IInv, NEW m \in Monitors, CreditFails(m) PROVE IInv'
<1>1. FaultsGrow
  BY Faulting DEF IInv, CreditFails
<1>2. /\ balance' \in [Users -> Nat \cup {NoRow}] /\ sealed' \in [Users -> Keys]
      /\ confirmed' \subseteq confirmed /\ Spares(m)
  BY DEF IInv, TypeOK, CreditFails, Spares, wallets
<1>3. /\ Unlock(m) /\ monitor[m].pc \in {"claim", "lock", "credit"}
      /\ UNCHANGED <<paid, applied, fees, issued, consumed, settler, withdrawal>>
  BY DEF CreditFails, wallets
<1> QED BY ONLY IInv, m \in Monitors, <1>1, <1>2, <1>3, Unlocking

(* What a credit writes: nobody else holds the row, and it is there and as  *)
(* it was read, or had not been there.                                      *)
LEMMA CreditWrites ==
    ASSUME IInv, NEW m \in Monitors, Credit(m)
    PROVE  \E d \in Deposits, u \in Users, key \in Keys, had \in Nat \cup {NoRow}, add \in Nat :
              /\ d = monitor[m].deposit /\ u = DepositOf[d].user /\ add = DepositOf[d].amount
              /\ d \notin confirmed /\ confirmed' = confirmed \cup {d}
              /\ had = Had(key, u) /\ holder[u] \in {Nobody, m}
              /\ balance' = [balance EXCEPT ![u] = IF had = NoRow THEN add ELSE had + add]
              /\ sealed' = [sealed EXCEPT ![u] = key]
<1>1. PICK was \in MonitorState : was = monitor[m]
  BY Known DEF IInv
<1>2. /\ was.pc = "credit" /\ was.deposit \in Deposits /\ was.deposit \notin confirmed
      /\ was.had # NoRow => /\ holder[DepositOf[was.deposit].user] = m
                            /\ was.had = Had(was.key, DepositOf[was.deposit].user)
  BY <1>1 DEF IInv, TypeOK, MonitorOK, Credit
<1>3. PICK d \in Deposits : d = was.deposit
  BY <1>2
<1>4. PICK u \in Users, add \in Nat : u = DepositOf[d].user /\ add = DepositOf[d].amount
  BY Transfers
<1>5. /\ ~(was.had = NoRow /\ balance[u] # NoRow)
      /\ balance' = [balance EXCEPT ![u] = IF was.had = NoRow THEN add ELSE was.had + add]
      /\ sealed' = [sealed EXCEPT ![u] = was.key]
      /\ confirmed' = confirmed \cup {d}
  BY ONLY Credit(m), <1>1, <1>3, <1>4 DEF Credit, Duplicate
<1>6. PICK had \in Nat \cup {NoRow}, key \in Keys : had = was.had /\ key = was.key
  BY DEF MonitorState
<1>7. had = Had(key, u) /\ holder[u] \in {Nobody, m}
  <2>1. CASE had = NoRow
    BY <1>5, <1>6, <2>1 DEF IInv, RowsHeld, Had
  <2>2. CASE had # NoRow
    BY <1>2, <1>3, <1>4, <1>6, <2>2
  <2> QED BY <2>1, <2>2
<1> QED BY ONLY <1>1, <1>2, <1>3, <1>4, <1>5, <1>6, <1>7

LEMMA Credited == ASSUME IInv, NEW m \in Monitors, Credit(m) PROVE IInv'
<1>1. PICK d \in Deposits, u \in Users, key \in Keys, had \in Nat \cup {NoRow}, add \in Nat :
              /\ d = monitor[m].deposit /\ confirmed' = confirmed \cup {d}
              /\ holder[u] \in {Nobody, m}
              /\ balance' = [balance EXCEPT ![u] = IF had = NoRow THEN add ELSE had + add]
              /\ sealed' = [sealed EXCEPT ![u] = key]
  BY CreditWrites
<1>2. (IF had = NoRow THEN add ELSE had + add) \in Nat
  BY ONLY had \in Nat \cup {NoRow}, add \in Nat DEF NoRow
<1>3. balance \in [Users -> Nat \cup {NoRow}] /\ sealed \in [Users -> Keys]
  BY DEF IInv, TypeOK
<1>4. /\ balance' \in [Users -> Nat \cup {NoRow}] /\ sealed' \in [Users -> Keys]
      /\ \A x \in Users : x # u => balance'[x] = balance[x] /\ sealed'[x] = sealed[x]
  BY ONLY <1>1, <1>2, <1>3, u \in Users, key \in Keys
<1>5. Spares(m)
  BY ONLY <1>1, <1>4 DEF Spares
<1>6. FaultsGrow
  BY Faulting DEF IInv, Credit, faults
<1>7. /\ Unlock(m) /\ monitor[m].pc = "credit"
      /\ UNCHANGED <<paid, applied, fees, issued, consumed, settler, withdrawal>>
  BY DEF Credit
<1> QED BY ONLY IInv, m \in Monitors, <1>1, <1>4, <1>5, <1>6, <1>7, Unlocking

-----------------------------------------------------------------------------

LEMMA Restarted == ASSUME IInv, Restart PROVE IInv'
<1>1. /\ restarts' = restarts + 1 /\ restarts < MaxRestarts
      /\ holder' = [u \in Users |-> Nobody] /\ claimant' = [d \in Deposits |-> Nobody]
      /\ settler' = Idle /\ monitor' = [m \in Monitors |-> Sleeping]
      /\ consumed' \in SUBSET consumed
      /\ UNCHANGED <<wallets, fees, issued, failures, starved, redelivered>>
  BY DEF Restart
<1>2. /\ withdrawal' \in [Withdrawals -> WithdrawalState]
      /\ \A w \in Withdrawals :
            \/ withdrawal'[w].pc = "failed" /\ withdrawal[w].pc \in {"lock", "pay"}
            \/ withdrawal'[w] = withdrawal[w] /\ withdrawal[w].pc \notin {"lock", "pay"}
  <2>1. withdrawal' = [w \in Withdrawals |->
                          IF withdrawal[w].pc \in {"lock", "pay"}
                          THEN [withdrawal[w] EXCEPT !.pc = "failed"] ELSE withdrawal[w]]
    BY DEF Restart
  <2>2. ASSUME NEW x \in WithdrawalState
        PROVE  [x EXCEPT !.pc = "failed"] \in WithdrawalState /\ [x EXCEPT !.pc = "failed"].pc = "failed"
    BY ONLY <2>2 DEF WithdrawalState
  <2>3. \A w \in Withdrawals : withdrawal[w] \in WithdrawalState
    BY DEF IInv, TypeOK
  <2>4. ASSUME NEW w \in Withdrawals
        PROVE  /\ withdrawal'[w] \in WithdrawalState
               /\ \/ withdrawal'[w].pc = "failed" /\ withdrawal[w].pc \in {"lock", "pay"}
                  \/ withdrawal'[w] = withdrawal[w] /\ withdrawal[w].pc \notin {"lock", "pay"}
    <3>1. withdrawal'[w] = IF withdrawal[w].pc \in {"lock", "pay"}
                           THEN [withdrawal[w] EXCEPT !.pc = "failed"] ELSE withdrawal[w]
      BY ONLY <2>1, w \in Withdrawals
    <3>2. PICK x \in WithdrawalState : x = withdrawal[w]
      BY ONLY <2>3, w \in Withdrawals
    <3> QED BY ONLY <2>2, <3>1, <3>2
  <2>5. withdrawal' = [w \in Withdrawals |-> withdrawal'[w]]
    BY ONLY <2>1
  <2> QED BY ONLY <2>4, <2>5
<1>3. restarts \in Nat /\ MaxRestarts \in Nat /\ restarts' \in 0 .. MaxRestarts
  BY <1>1, FundsBoundsAssumption DEF IInv, TypeOK
<1>4. Sleeping \in MonitorState /\ Sleeping.pc = "sleep" /\ Sleeping.todo = {}
  BY DEF Sleeping, MonitorState, Keys
<1>5. TypeOK'
  <2>1. TypeOK
    BY DEF IInv
  <2>2. monitor' \in [Monitors -> MonitorState] /\ settler' \in SettlerState
    BY ONLY <1>1, <1>4, IdleIsState
  <2>3. /\ holder' \in [Users -> Holders \cup {Nobody}]
        /\ claimant' \in [Deposits -> Monitors \cup {Nobody}]
    BY ONLY <1>1
  <2> QED BY ONLY <1>1, <1>2, <1>3, <2>1, <2>2, <2>3 DEF TypeOK, wallets, fees
<1>6. RowsHeld'
  BY ONLY <1>1 DEF RowsHeld
<1>7. SettlerOK'
  BY ONLY <1>1, IdleIsState DEF SettlerOK, Lookups
<1>8. ASSUME NEW w \in Withdrawals PROVE WithdrawalOK(w)'
  <2>1. WithdrawalOK(w)
    BY DEF IInv
  <2> QED BY ONLY <1>1, <1>2, <2>1, w \in Withdrawals DEF WithdrawalOK, wallets
<1>9. ASSUME NEW m \in Monitors PROVE MonitorOK(m)'
  <2>1. monitor'[m] = Sleeping
    BY ONLY <1>1, m \in Monitors
  <2> QED BY ONLY <1>4, <2>1 DEF MonitorOK
<1>10. ASSUME NEW t \in Trades PROVE Owing(t)'
  <2>1. Owing(t) /\ applied[t] \in Nat /\ recorded[t] \in Nat
    BY DEF IInv, TypeOK
  <2> QED BY ONLY <1>1, <1>3, <2>1, IdleIsState DEF Owing, Recording, wallets, fees
<1> QED BY ONLY <1>5, <1>6, <1>7, <1>8, <1>9, <1>10 DEF IInv

LEMMA Starting == Init => IInv
<1> SUFFICES ASSUME Init PROVE IInv
  OBVIOUS
<1>1. Sleeping \in MonitorState /\ Sleeping.pc = "sleep" /\ Sleeping.todo = {}
  BY DEF Sleeping, MonitorState, Keys
<1>2. [pc |-> "new", had |-> 0] \in WithdrawalState
  BY DEF WithdrawalState
<1>3. TypeOK
  <2>1. /\ 0 \in 0 .. MaxFailures /\ 0 \in 0 .. MaxRestarts /\ 0 \in 0 .. MaxRedeliveries
        /\ Initial \in [Users -> Nat \cup {NoRow}]
    BY FundsBoundsAssumption, AccountsAssumption
  <2>2. [u \in Users |-> VaultKey] \in [Users -> Keys]
    BY DEF Keys
  <2> QED BY ONLY Init, <1>1, <1>2, <2>1, <2>2, IdleIsState DEF Init, TypeOK
<1>4. RowsHeld
  BY ONLY Init DEF Init, RowsHeld
<1>5. SettlerOK
  BY ONLY Init, IdleIsState DEF Init, SettlerOK, Lookups
<1>6. ASSUME NEW w \in Withdrawals PROVE WithdrawalOK(w)
  BY ONLY Init, w \in Withdrawals DEF Init, WithdrawalOK
<1>7. ASSUME NEW m \in Monitors PROVE MonitorOK(m)
  <2>1. monitor[m] = Sleeping
    BY ONLY Init, m \in Monitors DEF Init
  <2> QED BY ONLY <1>1, <2>1 DEF MonitorOK
<1>8. ASSUME NEW t \in Trades PROVE Owing(t)
  <2>1. applied[t] = 0 /\ recorded[t] = 0 /\ restarts = 0 /\ settler.pc = "idle"
    BY ONLY Init, t \in Trades, IdleIsState DEF Init
  <2> QED BY ONLY <2>1 DEF Owing, Recording
<1> QED BY ONLY <1>3, <1>4, <1>5, <1>6, <1>7, <1>8 DEF IInv

LEMMA Inductive == IInv /\ [Next]_vars => IInv'
<1> SUFFICES ASSUME IInv, [Next]_vars PROVE IInv'
  OBVIOUS
<1>1. CASE SettlerStep \/ \E t \in Trades : Consume(t) \/ Redeliver(t)
  BY ONLY IInv, <1>1, SettlerSteps
<1>2. ASSUME NEW w \in Withdrawals, BeginWithdrawal(w) \/ WithdrawalStep(w) PROVE IInv'
  BY ONLY IInv, <1>2, WithdrawalPlain, PayLocked, Paying DEF WithdrawalStep
<1>3. ASSUME NEW d \in Deposits, IssueAddress(d) PROVE IInv'
  BY ONLY IInv, <1>3, AddressIssued
<1>4. ASSUME NEW m \in Monitors, MonitorStep(m) PROVE IInv'
  BY ONLY IInv, <1>4, Polling, CreditBegun, Claimed, RowToCredit, Credited, NotCredited
     DEF MonitorStep
<1>5. CASE Restart
  BY ONLY IInv, <1>5, Restarted
<1>6. CASE UNCHANGED vars
  BY ONLY IInv, <1>6 DEF vars, IInv, TypeOK, RowsHeld, SettlerOK, WithdrawalOK, MonitorOK,
     Had, Opens, Owing, Recording
<1> QED BY ONLY [Next]_vars, <1>1, <1>2, <1>3, <1>4, <1>5, <1>6 DEF Next

(* The strengthening the theorems below rest on: what a transaction has     *)
(* read under a lock is still what the row says, or 0 where a monitor's key *)
(* does not open the row (settlement lib.rs:31-40, wallet lib.rs:108,       *)
(* blockchain lib.rs:111-130).                                              *)
THEOREM Invariance == Spec => []IInv
BY Starting, Inductive, PTL DEF Spec

(* Every balance is a natural number, or there is no row.                   *)
THEOREM TypeCorrect == Spec => []TypeOK
<1>1. IInv => TypeOK
  BY DEF IInv
<1> QED BY <1>1, Invariance, PTL

(* Fees are recorded for trades that moved money, and for all of them       *)
(* unless something failed in between (settlement lib.rs:80-91).            *)
THEOREM FeesFollow == Spec => []FeesFollowMoney
<1>1. IInv => FeesFollowMoney
  <2> SUFFICES ASSUME IInv, NEW t \in Trades
               PROVE  /\ recorded[t] <= applied[t]
                      /\ recorded[t] < applied[t] =>
                            \/ settler.pc = "record" /\ settler.trade = t
                            \/ failures > 0 \/ restarts > 0 \/ starved
    BY DEF FeesFollowMoney
  <2>1. Owing(t)
    BY DEF IInv
  <2>2. /\ applied[t] \in Nat /\ recorded[t] \in Nat /\ failures \in Nat /\ restarts \in Nat
        /\ starved \in BOOLEAN
    BY FundsBoundsAssumption DEF IInv, TypeOK
  <2> QED BY ONLY <2>1, <2>2 DEF Owing, Recording
<1> QED BY <1>1, Invariance, PTL

-----------------------------------------------------------------------------
(* Funds implements Ledger. *)

LEMMA SameRates == Bps = Serial!Rates
BY DEF Bps, Serial!Rates, Fallback, Serial!Fallback

LEMMA SameTrade ==
    ASSUME NEW rows, NEW t, NEW sh, NEW bh, NEW mk, NEW tk
    PROVE  AfterTrade(rows, t, sh, bh, mk, tk) = Serial!AfterTrade(rows, t, sh, bh, mk, tk)
<1>1. \A n, d : Rounded(n, d) = Serial!Rounded(n, d)
  BY ONLY TRUE, Zenon DEF Rounded, Serial!Rounded
<1>2. \A a, b : Less(a, b) = Serial!Less(a, b)
  BY ONLY TRUE, Zenon DEF Less, Serial!Less
<1>3. Tenths = Serial!Tenths
  BY ONLY TRUE DEF Tenths, Serial!Tenths
<1>4. Value(t) = Serial!Value(t)
  BY ONLY TRUE, Zenon DEF Value, Serial!Value
<1>5. QuoteDelta(t) = Serial!QuoteDelta(t) /\ BaseDelta(t) = Serial!BaseDelta(t)
  BY ONLY <1>1, <1>3, <1>4, Zenon DEF QuoteDelta, BaseDelta, Serial!QuoteDelta, Serial!BaseDelta
<1>6. ASSUME NEW bps PROVE Fee(t, bps) = Serial!Fee(t, bps)
  <2>1. PICK n, d : n = Value(t) * bps /\ d = Tenths * 10000
    OBVIOUS
  <2>2. n = Serial!Value(t) * bps /\ d = Serial!Tenths * 10000
    BY ONLY <1>3, <1>4, <2>1
  <2>3. Fee(t, bps) = Rounded(n, d)
    BY ONLY <2>1 DEF Fee
  <2>4. Serial!Fee(t, bps) = Serial!Rounded(n, d)
    BY ONLY <2>2 DEF Serial!Fee
  <2> QED BY ONLY <1>1, <2>3, <2>4, Zenon
<1>7. SellerAfter(t, sh, mk) = Serial!SellerAfter(t, sh, mk)
  BY ONLY <1>2, <1>5, <1>6, Zenon DEF SellerAfter, Serial!SellerAfter
<1>8. BuyerAfter(t, bh, tk) = Serial!BuyerAfter(t, bh, tk)
  BY ONLY <1>2, <1>5, <1>6, Zenon DEF BuyerAfter, Serial!BuyerAfter
<1> QED BY ONLY <1>7, <1>8, Zenon DEF AfterTrade, Serial!AfterTrade

LEMMA Settling == ASSUME IInv, MoveMoney PROVE Serial!Next
<1>1. settler.pc = "money" /\ settler.trade \in Trades /\ SettlerOK /\ TypeOK
  BY DEF IInv, TypeOK, SettlerOK, MoveMoney
<1>2. PICK t \in Trades : t = settler.trade
  BY <1>1
<1>3. PICK s \in Users, b \in Users : s = TradeOf[t].seller /\ b = TradeOf[t].buyer
  BY ONLY t \in Trades, Transfers
<1>4. PICK mk \in Bps, tk \in Bps : mk = settler.maker /\ tk = settler.taker
  BY ONLY <1>1 DEF SettlerOK
<1>5. /\ balance[s] = settler.sellerHad /\ balance[b] = settler.buyerHad
      /\ sealed[s] = sealed[b]
  BY ONLY <1>1, <1>2, <1>3 DEF SettlerOK
<1>6. balance[s] # NoRow /\ balance[b] # NoRow
  <2>1. settler.sellerHad \in Nat /\ settler.buyerHad \in Nat
    BY <1>1 DEF TypeOK, SettlerState
  <2> QED BY ONLY <1>5, <2>1 DEF NoRow
<1>7. /\ balance' = AfterTrade(balance, t, balance[s], balance[b], mk, tk)
      /\ applied' = [applied EXCEPT ![t] = @ + 1] /\ UNCHANGED <<sealed, paid, confirmed>>
  BY ONLY MoveMoney, <1>2, <1>4, <1>5 DEF MoveMoney
<1>8. balance' = Serial!AfterTrade(balance, t, balance[s], balance[b], mk, tk)
  BY ONLY <1>7, SameTrade, Zenon
<1>9. Serial!Settle(t)
  BY ONLY <1>3, <1>4, <1>5, <1>6, <1>7, <1>8, SameRates DEF Serial!Settle, NoRow, Serial!NoRow
<1> QED BY ONLY <1>9, t \in Trades DEF Serial!Next, Trades, Serial!Trades

LEMMA Withdrawing == ASSUME IInv, NEW w \in Withdrawals, Pay(w) PROVE Serial!Next
<1>1. PICK u \in Users, amount \in Nat :
         u = WithdrawalOf[w].user /\ amount = WithdrawalOf[w].amount
  BY Transfers
<1>2. withdrawal[w].pc = "pay" /\ WithdrawalOK(w) /\ TypeOK
  BY DEF IInv, Pay
<1>3. balance[u] = withdrawal[w].had /\ withdrawal[w].had >= amount /\ w \notin paid
  BY ONLY <1>1, <1>2 DEF WithdrawalOK
<1>4. balance[u] # NoRow
  <2>1. withdrawal[w].had \in Nat
    BY <1>2 DEF TypeOK, WithdrawalState
  <2> QED BY ONLY <1>3, <2>1 DEF NoRow
<1>5. /\ balance' = [balance EXCEPT ![u] = balance[u] - amount]
      /\ paid' = paid \cup {w} /\ UNCHANGED <<sealed, confirmed, applied>>
  BY ONLY Pay(w), <1>1, <1>3 DEF Pay
<1>6. Serial!Withdraw(w)
  BY ONLY <1>1, <1>3, <1>4, <1>5 DEF Serial!Withdraw, NoRow, Serial!NoRow
<1> QED BY ONLY <1>6, w \in Withdrawals DEF Serial!Next, Withdrawals, Serial!Withdrawals

LEMMA Depositing == ASSUME IInv, NEW m \in Monitors, Credit(m) PROVE Serial!Next
<1>1. PICK d \in Deposits, u \in Users, key \in Keys, had \in Nat \cup {NoRow}, add \in Nat :
              /\ d = monitor[m].deposit /\ u = DepositOf[d].user /\ add = DepositOf[d].amount
              /\ d \notin confirmed /\ confirmed' = confirmed \cup {d}
              /\ had = Had(key, u) /\ holder[u] \in {Nobody, m}
              /\ balance' = [balance EXCEPT ![u] = IF had = NoRow THEN add ELSE had + add]
              /\ sealed' = [sealed EXCEPT ![u] = key]
  BY CreditWrites
<1>2. UNCHANGED <<paid, applied>>
  BY DEF Credit
<1>3. (IF had = NoRow THEN add ELSE had + add)
         = IF balance[u] # NoRow /\ sealed[u] = key THEN balance[u] + add ELSE add
  BY ONLY <1>1, add \in Nat DEF Had, Opens, NoRow
<1>4. Serial!Deposit(d)
  BY ONLY <1>1, <1>2, <1>3 DEF Serial!Deposit, NoRow, Serial!NoRow, Keys, Serial!Keys,
     VaultKey, DefaultKey, Serial!VaultKey, Serial!DefaultKey
<1> QED BY ONLY <1>4, d \in Deposits DEF Serial!Next, Deposits, Serial!Deposits

LEMMA Simulation == IInv /\ [Next]_vars => [Serial!Next]_(Serial!vars)
<1> SUFFICES ASSUME IInv, [Next]_vars PROVE [Serial!Next]_(Serial!vars)
  OBVIOUS
<1> DEFINE Stutter == UNCHANGED <<balance, sealed, paid, confirmed, applied>>
<1>1. ASSUME NEW t \in Trades, Consume(t) \/ Redeliver(t) PROVE Stutter
  BY ONLY <1>1 DEF Consume, Redeliver, wallets
<1>2. CASE SettlerStep
  <2>1. CASE MoveMoney
    BY ONLY IInv, <2>1, Settling
  <2>2. CASE ~MoveMoney
    <3>1. Stutter
      BY ONLY <1>2, <2>2 DEF SettlerStep, BeginSettlement, LockSeller, LockBuyer, CheckSellerFree,
         LookUpSellerTier, CheckBuyerFree, LookUpBuyerTier, RecordFees, Announce, AbandonTrade, wallets
    <3> QED BY ONLY <3>1 DEF Serial!vars
  <2> QED BY <2>1, <2>2
<1>3. ASSUME NEW w \in Withdrawals, BeginWithdrawal(w) \/ WithdrawalStep(w)
      PROVE  Serial!Next \/ Stutter
  <2>1. CASE Pay(w)
    BY ONLY IInv, w \in Withdrawals, <2>1, Withdrawing
  <2>2. CASE ~Pay(w)
    BY ONLY <1>3, <2>2 DEF WithdrawalStep, BeginWithdrawal, LockToPay, Refuse, WithdrawalFails, wallets
  <2> QED BY <2>1, <2>2
<1>4. ASSUME NEW d \in Deposits, IssueAddress(d) PROVE Stutter
  BY ONLY <1>4 DEF IssueAddress, wallets
<1>5. ASSUME NEW m \in Monitors, MonitorStep(m) PROVE Serial!Next \/ Stutter
  <2>1. CASE Credit(m)
    BY ONLY IInv, m \in Monitors, <2>1, Depositing
  <2>2. CASE ~Credit(m)
    BY ONLY <1>5, <2>2 DEF MonitorStep, Poll, EndPoll, BeginCredit, Claim, LockToCredit, CreditFails,
       wallets
  <2> QED BY <2>1, <2>2
<1>6. Restart => Stutter
  BY ONLY TRUE DEF Restart, wallets
<1>7. UNCHANGED vars => Stutter
  BY ONLY TRUE DEF vars
<1>8. Serial!Next \/ Stutter \/ [Serial!Next]_(Serial!vars)
  BY ONLY [Next]_vars, <1>1, <1>2, <1>3, <1>4, <1>5, <1>6, <1>7 DEF Next
<1> QED BY ONLY <1>8 DEF Serial!vars

(* Settlement, withdrawals and deposits come to what they would come to one *)
(* after the other: no update is lost, whatever the users and the pool, and *)
(* what a row held is lost only to a deposit whose key does not open it     *)
(* (settlement lib.rs:31-40, wallet lib.rs:108, blockchain lib.rs:111-130). *)
THEOREM LedgerKept == Spec => KeepsLedger
<1>1. Init => Serial!Init
  BY DEF Init, Serial!Init, Trades, Serial!Trades, VaultKey, Serial!VaultKey
<1> QED BY <1>1, Simulation, Invariance, PTL DEF Spec, KeepsLedger, Serial!Spec

-----------------------------------------------------------------------------
(* Transactions do not wait in a circle. *)

SettlerHolds == {"lockBuyer", "money"} \cup Lookups

(* A lock is held by a transaction that has got far enough to take it, and  *)
(* has not ended.                                                           *)
SettlerOwns ==
    settler.pc \notin SettlerHolds => \A u \in Users : holder[u] # Settler

WithdrawalOwns(w) ==
    withdrawal[w].pc # "pay" => \A u \in Users : holder[u] # w

MonitorOwns(m) ==
    /\ monitor[m].pc # "credit" => \A u \in Users : holder[u] # m
    /\ monitor[m].pc \notin {"lock", "credit"} => \A d \in Deposits : claimant[d] # m

Owned ==
    /\ SettlerOwns
    /\ \A w \in Withdrawals : WithdrawalOwns(w)
    /\ \A m \in Monitors : MonitorOwns(m)

(* A step of who takes locks for itself, or releases some.                  *)
TakesRows(who) == \A u \in Users : holder'[u] \in {holder[u], who, Nobody}

TakesClaims(who) == \A d \in Deposits : claimant'[d] \in {claimant[d], who, Nobody}

(* It holds no row any more. *)
FreeOf(who) == \A u \in Users : holder'[u] # who

LEMMA RowsTaken ==
    ASSUME TypeOK, NEW who \in Holders
    PROVE  /\ UNCHANGED holder => TakesRows(who)
           /\ \A u \in Users : holder' = Locked(who, u) => TakesRows(who)
           /\ holder' = Released(holder, who) => TakesRows(who) /\ FreeOf(who)
<1>1. holder \in [Users -> Holders \cup {Nobody}] /\ who # Nobody
  BY HoldersAssumption DEF TypeOK
<1>2. UNCHANGED holder => TakesRows(who)
  BY DEF TakesRows
<1>3. ASSUME NEW u \in Users, holder' = Locked(who, u) PROVE TakesRows(who)
  <2>1. holder' = [holder EXCEPT ![u] = who]
    BY <1>3 DEF Locked
  <2> QED BY ONLY <1>1, <2>1 DEF TakesRows
<1>4. ASSUME holder' = Released(holder, who) PROVE TakesRows(who) /\ FreeOf(who)
  <2>1. holder' = [x \in Users |-> IF holder[x] = who THEN Nobody ELSE holder[x]]
    BY ONLY <1>1, <1>4 DEF Released
  <2> QED BY ONLY <1>1, <2>1 DEF TakesRows, FreeOf
<1> QED BY <1>2, <1>3, <1>4

LEMMA WithdrawalStillOwns ==
    ASSUME Owned, NEW who \in Holders, TakesRows(who), NEW w \in Withdrawals, w # who,
           withdrawal'[w] = withdrawal[w]
    PROVE  WithdrawalOwns(w)'
<1>1. WithdrawalOwns(w) /\ w # Nobody
  BY Names DEF Owned
<1> QED BY ONLY <1>1, TakesRows(who), w # who, withdrawal'[w] = withdrawal[w]
           DEF WithdrawalOwns, TakesRows

LEMMA MonitorStillOwns ==
    ASSUME Owned, NEW who \in Holders, TakesRows(who), TakesClaims(who),
           NEW m \in Monitors, m # who, monitor'[m] = monitor[m]
    PROVE  MonitorOwns(m)'
<1>1. MonitorOwns(m) /\ m # Nobody
  BY Names DEF Owned
<1> QED BY ONLY <1>1, TakesRows(who), TakesClaims(who), m # who, monitor'[m] = monitor[m]
           DEF MonitorOwns, TakesRows, TakesClaims

LEMMA SettlerStillOwns ==
    ASSUME Owned, NEW who \in Holders, TakesRows(who), who # Settler, UNCHANGED settler
    PROVE  SettlerOwns'
BY Names DEF Owned, SettlerOwns, TakesRows

LEMMA ClaimsKept == UNCHANGED claimant => \A who : TakesClaims(who)
BY DEF TakesClaims

LEMMA SettlerOwned ==
    ASSUME IInv, Owned, SettlerStep \/ \E t \in Trades : Consume(t) \/ Redeliver(t)
    PROVE  Owned'
<1> DEFINE Kept == UNCHANGED holder /\ (settler'.pc \in SettlerHolds \/ settler.pc \notin SettlerHolds)
           Took == settler'.pc \in SettlerHolds /\ \E u \in Users : holder' = Locked(Settler, u)
           Gave == holder' = Released(holder, Settler)
<1>1. settler \in SettlerState /\ Settler \in Holders
  BY DEF IInv, TypeOK, Holders
<1>2. UNCHANGED <<claimant, withdrawal, monitor>>
  BY DEF SettlerStep, Consume, Redeliver, BeginSettlement, LockSeller, LockBuyer, CheckSellerFree,
         LookUpSellerTier, CheckBuyerFree, LookUpBuyerTier, MoveMoney, RecordFees, Announce,
         AbandonTrade, locks
<1>3. Kept \/ Took \/ Gave
  <2>1. ASSUME NEW t \in Trades, Consume(t) \/ Redeliver(t) PROVE Kept
    BY <2>1 DEF Consume, Redeliver, locks, SettlerHolds, Lookups
  <2>2. CASE BeginSettlement
    BY <2>2 DEF BeginSettlement, locks, SettlerHolds, Lookups
  <2>3. CASE LockSeller \/ LockBuyer
    <3>1. settler'.pc \in SettlerHolds
      BY ONLY <1>1, <2>3 DEF LockSeller, LockBuyer, SettlerHolds, Lookups, SettlerState
    <3>2. settler.pc # "idle"
      BY <2>3 DEF LockSeller, LockBuyer
    <3>3. Seller \in Users /\ Buyer \in Users
      <4>1. settler.trade \in Trades
        BY <3>2 DEF IInv, SettlerOK, TypeOK
      <4> QED BY <4>1, Transfers DEF Seller, Buyer
    <3> QED BY <2>3, <3>1, <3>3 DEF LockSeller, LockBuyer
  <2>4. CASE CheckSellerFree \/ LookUpSellerTier \/ CheckBuyerFree \/ LookUpBuyerTier
    <3>1. UNCHANGED holder
      BY <2>4 DEF CheckSellerFree, LookUpSellerTier, CheckBuyerFree, LookUpBuyerTier, locks
    <3>2. settler'.pc \in SettlerHolds
      BY ONLY <1>1, <2>4 DEF CheckSellerFree, LookUpSellerTier, CheckBuyerFree, LookUpBuyerTier,
         SellerRate, BuyerRate, SettlerHolds, Lookups, SettlerState
    <3> QED BY <3>1, <3>2
  <2>5. CASE MoveMoney \/ AbandonTrade
    BY <2>5 DEF MoveMoney, AbandonTrade
  <2>6. CASE RecordFees \/ Announce
    BY <2>6 DEF RecordFees, Announce, locks, SettlerHolds, Lookups
  <2> QED BY <2>1, <2>2, <2>3, <2>4, <2>5, <2>6 DEF SettlerStep
<1>4. TakesRows(Settler) /\ SettlerOwns'
  <2>1. CASE Kept
    BY <1>1, <2>1, RowsTaken DEF IInv, Owned, SettlerOwns
  <2>2. CASE Took
    BY <1>1, <2>2, RowsTaken DEF IInv, SettlerOwns
  <2>3. CASE Gave
    BY <1>1, <2>3, RowsTaken DEF IInv, FreeOf, SettlerOwns
  <2> QED BY <1>3, <2>1, <2>2, <2>3
<1>5. TakesClaims(Settler)
  BY <1>2, ClaimsKept
<1>6. ASSUME NEW w \in Withdrawals PROVE WithdrawalOwns(w)'
  BY <1>1, <1>2, <1>4, Names, WithdrawalStillOwns
<1>7. ASSUME NEW m \in Monitors PROVE MonitorOwns(m)'
  BY <1>1, <1>2, <1>4, <1>5, Names, MonitorStillOwns
<1> QED BY <1>4, <1>6, <1>7 DEF Owned

LEMMA WithdrawalOwned ==
    ASSUME IInv, Owned, NEW w \in Withdrawals, BeginWithdrawal(w) \/ WithdrawalStep(w)
    PROVE  Owned'
<1> DEFINE Kept == UNCHANGED holder /\ withdrawal[w].pc # "pay"
           Took == withdrawal'[w].pc = "pay" /\ \E u \in Users : holder' = Locked(w, u)
           Gave == holder' = Released(holder, w)
<1>1. withdrawal \in [Withdrawals -> WithdrawalState] /\ w \in Holders
  BY DEF IInv, TypeOK, Holders
<1>2. UNCHANGED <<claimant, settler, monitor>>
  BY DEF BeginWithdrawal, WithdrawalStep, LockToPay, Refuse, Pay, WithdrawalFails, locks
<1>3. \A v \in Withdrawals \ {w} : withdrawal'[v] = withdrawal[v]
  BY ONLY <1>1, BeginWithdrawal(w) \/ WithdrawalStep(w)
     DEF BeginWithdrawal, WithdrawalStep, LockToPay, Refuse, Pay, WithdrawalFails, WithdrawalTo
<1>4. Kept \/ Took \/ Gave
  <2>1. CASE BeginWithdrawal(w) \/ Refuse(w)
    BY <2>1 DEF BeginWithdrawal, Refuse, locks
  <2>2. CASE LockToPay(w)
    <3>1. withdrawal'[w].pc = "pay"
      BY ONLY <1>1, <2>2 DEF LockToPay
    <3> QED BY <2>2, <3>1, Transfers DEF LockToPay
  <2>3. CASE Pay(w) \/ WithdrawalFails(w)
    BY <2>3 DEF Pay, WithdrawalFails
  <2> QED BY <2>1, <2>2, <2>3 DEF WithdrawalStep
<1>5. TakesRows(w) /\ WithdrawalOwns(w)'
  <2>1. CASE Kept
    BY <1>1, <2>1, RowsTaken DEF IInv, Owned, WithdrawalOwns
  <2>2. CASE Took
    BY <1>1, <2>2, RowsTaken DEF IInv, WithdrawalOwns
  <2>3. CASE Gave
    BY <1>1, <2>3, RowsTaken DEF IInv, FreeOf, WithdrawalOwns
  <2> QED BY <1>4, <2>1, <2>2, <2>3
<1>6. TakesClaims(w)
  BY <1>2, ClaimsKept
<1>7. SettlerOwns'
  BY <1>1, <1>2, <1>5, Names, SettlerStillOwns
<1>8. ASSUME NEW v \in Withdrawals PROVE WithdrawalOwns(v)'
  BY <1>1, <1>3, <1>5, WithdrawalStillOwns
<1>9. ASSUME NEW m \in Monitors PROVE MonitorOwns(m)'
  BY <1>1, <1>2, <1>5, <1>6, Names, MonitorStillOwns
<1> QED BY <1>7, <1>8, <1>9 DEF Owned

LEMMA ClaimTaken ==
    ASSUME TypeOK, NEW m \in Monitors, NEW d \in Deposits
    PROVE  /\ claimant' = [claimant EXCEPT ![d] = m] => TakesClaims(m)
           /\ claimant' = Released(claimant, m) =>
                 TakesClaims(m) /\ \A x \in Deposits : claimant'[x] # m
<1>1. claimant \in [Deposits -> Monitors \cup {Nobody}] /\ m # Nobody
  BY Names DEF TypeOK
<1>2. ASSUME claimant' = [claimant EXCEPT ![d] = m] PROVE TakesClaims(m)
  BY ONLY <1>1, <1>2 DEF TakesClaims
<1>3. ASSUME claimant' = Released(claimant, m)
      PROVE  TakesClaims(m) /\ \A x \in Deposits : claimant'[x] # m
  <2>1. claimant' = [x \in Deposits |-> IF claimant[x] = m THEN Nobody ELSE claimant[x]]
    BY ONLY <1>1, <1>3 DEF Released
  <2> QED BY ONLY <1>1, <2>1 DEF TakesClaims
<1> QED BY <1>2, <1>3

LEMMA MonitorOwned ==
    ASSUME IInv, Owned, NEW m \in Monitors, MonitorStep(m)
    PROVE  Owned'
<1>1. monitor \in [Monitors -> MonitorState] /\ m \in Holders
  BY DEF IInv, TypeOK, Holders
<1>2. UNCHANGED <<settler, withdrawal>>
  BY DEF MonitorStep, Poll, EndPoll, BeginCredit, Claim, LockToCredit, Credit, CreditFails
<1>3. \A n \in Monitors \ {m} : monitor'[n] = monitor[n]
  BY ONLY <1>1, MonitorStep(m)
     DEF MonitorStep, Poll, EndPoll, BeginCredit, Claim, LockToCredit, Credit, CreditFails, Unlock
<1>4. MonitorOwns(m)
  BY DEF Owned
<1>5. TakesRows(m) /\ TakesClaims(m) /\ MonitorOwns(m)'
  <2>1. CASE Poll(m) \/ EndPoll(m) \/ BeginCredit(m)
    <3>1. UNCHANGED <<holder, claimant>> /\ monitor[m].pc \notin {"lock", "credit"}
      BY <2>1 DEF Poll, EndPoll, BeginCredit, locks
    <3>2. TakesRows(m) /\ TakesClaims(m)
      BY <1>1, <3>1, RowsTaken, ClaimsKept DEF IInv
    <3> QED BY ONLY <1>4, <3>1, <3>2 DEF MonitorOwns
  <2>2. CASE Claim(m)
    <3>1. UNCHANGED holder /\ monitor[m].pc = "claim" /\ monitor[m].deposit \in Deposits
      BY <2>2 DEF Claim, IInv, TypeOK, MonitorOK
    <3>2. TakesRows(m)
      BY <1>1, <3>1, RowsTaken DEF IInv
    <3>3. \/ UNCHANGED claimant
          \/ /\ claimant' = [claimant EXCEPT ![monitor[m].deposit] = m]
             /\ monitor'[m].pc = "lock"
      <4>1. \/ UNCHANGED claimant
            \/ /\ claimant' = [claimant EXCEPT ![monitor[m].deposit] = m]
               /\ monitor' = [monitor EXCEPT ![m].pc = "lock"]
        BY ONLY <2>2 DEF Claim
      <4>2. monitor' = [monitor EXCEPT ![m].pc = "lock"] => monitor'[m].pc = "lock"
        BY ONLY <1>1 DEF MonitorState
      <4> QED BY <4>1, <4>2
    <3>4. TakesClaims(m)
      BY <3>1, <3>3, ClaimsKept, ClaimTaken DEF IInv
    <3> QED BY ONLY <1>4, <3>1, <3>2, <3>3, <3>4 DEF MonitorOwns
  <2>3. CASE LockToCredit(m)
    <3>1. UNCHANGED claimant /\ monitor[m].deposit \in Deposits
      BY <2>3 DEF LockToCredit, IInv, TypeOK, MonitorOK
    <3>2. monitor'[m].pc = "credit"
      BY ONLY <1>1, <2>3 DEF LockToCredit
    <3>3. UNCHANGED holder \/ \E u \in Users : holder' = Locked(m, u)
      BY <2>3, <3>1, Transfers DEF LockToCredit
    <3>4. TakesRows(m) /\ TakesClaims(m)
      BY <1>1, <3>1, <3>3, RowsTaken, ClaimsKept DEF IInv
    <3> QED BY ONLY <3>2, <3>4 DEF MonitorOwns
  <2>4. CASE Credit(m) \/ CreditFails(m)
    <3>1. holder' = Released(holder, m) /\ claimant' = Released(claimant, m)
      BY <2>4 DEF Credit, CreditFails, Unlock
    <3>2. monitor[m].deposit \in Deposits
      BY <2>4 DEF Credit, CreditFails, IInv, TypeOK, MonitorOK
    <3>3. /\ TakesRows(m) /\ FreeOf(m) /\ TakesClaims(m)
          /\ \A x \in Deposits : claimant'[x] # m
      BY <1>1, <3>1, <3>2, RowsTaken, ClaimTaken DEF IInv
    <3> QED BY ONLY <3>3 DEF MonitorOwns, FreeOf
  <2> QED BY <2>1, <2>2, <2>3, <2>4 DEF MonitorStep
<1>6. SettlerOwns'
  BY <1>1, <1>2, <1>5, Names, SettlerStillOwns
<1>7. ASSUME NEW w \in Withdrawals PROVE WithdrawalOwns(w)'
  BY <1>1, <1>2, <1>5, Names, WithdrawalStillOwns
<1>8. ASSUME NEW n \in Monitors PROVE MonitorOwns(n)'
  BY <1>1, <1>3, <1>5, MonitorStillOwns
<1> QED BY <1>6, <1>7, <1>8 DEF Owned

LEMMA NextOwned == IInv /\ Owned /\ [Next]_vars => Owned'
<1> SUFFICES ASSUME IInv, Owned, [Next]_vars PROVE Owned'
  OBVIOUS
<1>1. CASE Restart
  BY <1>1, Names DEF Restart, Owned, SettlerOwns, WithdrawalOwns, MonitorOwns
<1>2. CASE UNCHANGED vars \/ \E d \in Deposits : IssueAddress(d)
  BY <1>2 DEF vars, IssueAddress, locks, Owned, SettlerOwns, WithdrawalOwns, MonitorOwns
<1> QED BY <1>1, <1>2, SettlerOwned, WithdrawalOwned, MonitorOwned DEF Next

LEMMA InitOwned == Init => Owned
BY Names DEF Init, Owned, SettlerOwns, WithdrawalOwns, MonitorOwns

(* Who holds a user's row waits for nobody, but for settlement, which then  *)
(* waits for such a row; who holds a deposit waits for a user's row at      *)
(* most.                                                                    *)
LEMMA RowsLast ==
    ASSUME Owned, NEW a \in Holders, NEW b \in Holders, NEW u \in Users, holder[u] = b, b # Settler
    PROVE  ~WaitsFor(b, a)
<1>1. \/ b \in Withdrawals /\ withdrawal[b].pc = "pay"
      \/ b \in Monitors /\ monitor[b].pc = "credit"
  BY DEF Owned, WithdrawalOwns, MonitorOwns, Holders
<1> QED BY ONLY <1>1, b # Settler, Names DEF WaitsFor, WantsRow

LEMMA RowWaits ==
    ASSUME Owned, NEW a \in Holders, NEW b \in Holders, WaitsFor(a, b),
           ~(a \in Monitors /\ monitor[a].pc = "claim")
    PROVE  a # b /\ \E u \in Users : holder[u] = b
BY DEF WaitsFor

LEMMA ClaimWaits ==
    ASSUME IInv, Owned, NEW a \in Monitors, monitor[a].pc = "claim", NEW b \in Holders, WaitsFor(a, b)
    PROVE  b # Settler /\ ~(b \in Monitors /\ monitor[b].pc = "claim")
<1>1. ~\E u \in Users : WantsRow(a, u)
  BY Names DEF WantsRow
<1>2. claimant[monitor[a].deposit] = b /\ monitor[a].deposit \in Deposits
  BY <1>1 DEF WaitsFor, IInv, TypeOK, MonitorOK
<1>3. b \in Monitors
  BY <1>2, HoldersAssumption DEF IInv, TypeOK
<1> QED BY <1>2, <1>3, Names DEF Owned, MonitorOwns

(* Transactions never wait for each other in a circle, whatever the users,  *)
(* trades, withdrawals and deposits (settlement lib.rs:31-40, wallet        *)
(* lib.rs:108, blockchain lib.rs:111-127).                                  *)
THEOREM NoCircle == Spec => []NoDeadlock
<1>1. IInv /\ Owned => NoDeadlock
  <2> SUFFICES ASSUME IInv, Owned, NEW S \in SUBSET Holders, S # {},
                      \A a \in S : \E b \in S : WaitsFor(a, b)
               PROVE  FALSE
    BY DEF NoDeadlock
  <2>1. PICK a \in S : TRUE
    OBVIOUS
  <2>2. PICK b \in S : ~(b \in Monitors /\ monitor[b].pc = "claim")
    BY <2>1, ClaimWaits
  <2>3. PICK c \in S : b # c /\ \E u \in Users : holder[u] = c
    BY <2>2, RowWaits
  <2>4. c = Settler
    BY <2>3, RowsLast
  <2>5. PICK d \in S : c # d /\ \E u \in Users : holder[u] = d
    BY <2>4, Names, RowWaits
  <2> QED BY <2>4, <2>5, RowsLast
<1>2. Spec => [](IInv /\ Owned)
  BY Invariance, InitOwned, NextOwned, PTL DEF Spec
<1> QED BY <1>1, <1>2, PTL
=============================================================================
