------------------------------- MODULE MCFunds ------------------------------
(* Instances of Funds for TLC: who has what, trades, withdraws, deposits.   *)
EXTENDS Funds, TLC

MCUsers == {"ann", "bob"}

(* The first rows of the table that ensure_fee_tables inserts, in tenths.   *)
MCSchedule ==
    << [min |-> 0, max |-> 99999, maker |-> 16, taker |-> 26],
       [min |-> 100000, max |-> 499999, maker |-> 14, taker |-> 24],
       [min |-> 500000, max |-> NoRow, maker |-> 12, taker |-> 22] >>

MCTrade(seller, buyer, price, quantity) ==
    [seller |-> seller, buyer |-> buyer, price |-> price, quantity |-> quantity]

(* Bob has no account before his first deposit. *)
MCInitial == "ann" :> 9000 @@ "bob" :> NoRow

(* 10.4 units at 1000. *)
MCTradeOf == "t1" :> MCTrade("ann", "bob", 1000, 104)

(* And half a unit that bob sells to himself, for more than he has at first. *)
MCBothTrades == MCTradeOf @@ "t2" :> MCTrade("bob", "bob", 1000, 5)

MCWithdrawalOf == "w1" :> [user |-> "ann", amount |-> 8000]

(* What bob needs to have an account. *)
MCDeposit == "d1" :> [user |-> "bob", amount |-> 20]

MCDepositOf == "d1" :> [user |-> "bob", amount |-> 20]
            @@ "d2" :> [user |-> "bob", amount |-> 30]
=============================================================================
