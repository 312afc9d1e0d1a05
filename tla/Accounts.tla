------------------------------ MODULE Accounts ------------------------------
(***************************************************************************)
(* The arithmetic of money: what a trade does to the balances of its two   *)
(* parties, and the fee tier of a user (settlement and fees crates).       *)
(*                                                                         *)
(* Quantities are in tenths, so that rounding to whole units happens;      *)
(* volumes are in tenths, too.  Amounts stay far below 2^64, where         *)
(* saturating_add would matter.                                            *)
(***************************************************************************)
EXTENDS Integers, Sequences

CONSTANTS
    Users,
    Initial,        \* the balances before, NoRow for a user without one
    FeeFree,        \* the users with the fee_free flag
    Schedule,       \* the rows of fee_tiers by min_volume
    TradeOf,        \* what the messages of the topic "trades" say
    WithdrawalOf,   \* what users ask to withdraw
    DepositOf       \* who asked for a deposit address, what arrives there

NoRow == -1

(* The keys of AES-256-GCM: that of Vault, and the built-in one.            *)
VaultKey   == "vault"
DefaultKey == "default"
Keys == {VaultKey, DefaultKey}

Trades      == DOMAIN TradeOf
Withdrawals == DOMAIN WithdrawalOf
Deposits    == DOMAIN DepositOf

Trade == [seller : Users, buyer : Users, price : Nat, quantity : Nat \ {0}]
Transfer == [user : Users, amount : Nat]
Tier == [min : Nat, max : Nat \cup {NoRow}, maker : Nat, taker : Nat]

ASSUME AccountsAssumption ==
    /\ Initial \in [Users -> Nat \cup {NoRow}]
    /\ FeeFree \subseteq Users
    /\ Schedule \in Seq(Tier)
    /\ \A i, j \in DOMAIN Schedule : i < j => Schedule[i].min < Schedule[j].min
    /\ \A t \in Trades : TradeOf[t] \in Trade
    /\ \A w \in Withdrawals : WithdrawalOf[w] \in Transfer
    /\ \A d \in Deposits : DepositOf[d] \in Transfer

Tenths == 10

(* n / d to the nearest unit, a half rounds up. *)
Rounded(n, d) == (2 * n + d) \div (2 * d)

(* mutant: a debit that may go below zero *)
LessWraps(a, b) == a - b

(* saturating_sub *)
Less(a, b) == IF a > b THEN a - b ELSE 0

Value(t)      == TradeOf[t].price * TradeOf[t].quantity
QuoteDelta(t) == Rounded(Value(t), Tenths)
BaseDelta(t)  == Rounded(TradeOf[t].quantity, Tenths)
Fee(t, bps)   == Rounded(Value(t) * bps, Tenths * 10000)

SellerAfter(t, had, maker) == Less(Less(had, QuoteDelta(t)), Fee(t, maker))
BuyerAfter(t, had, taker)  == Less(had + BaseDelta(t), Fee(t, taker))

(* The row of the seller is written, then that of the buyer, also when they *)
(* are one user.                                                            *)
AfterTrade(balance, t, sellerHad, buyerHad, maker, taker) ==
    [[balance EXCEPT ![TradeOf[t].seller] = SellerAfter(t, sellerHad, maker)]
        EXCEPT ![TradeOf[t].buyer] = BuyerAfter(t, buyerHad, taker)]

Fallback == [maker |-> 16, taker |-> 26]

(* The row with the largest minimum among those a volume falls into.        *)
TierOf(volume) ==
    LET fits == {i \in DOMAIN Schedule :
                    /\ Schedule[i].min <= volume
                    /\ Schedule[i].max # NoRow => volume <= Schedule[i].max}
    IN  IF fits = {} THEN Fallback
        ELSE LET best == CHOOSE i \in fits : \A j \in fits : j <= i
             IN  [maker |-> Schedule[best].maker, taker |-> Schedule[best].taker]
=============================================================================
