------------------------------- MODULE Ledger -------------------------------
(***************************************************************************)
(* What the accounts promise: every trade settled, every withdrawal and    *)
(* every deposit changes the balances in one step, computed from the       *)
(* balances as they are; a withdrawal happens once and only if it is       *)
(* covered, a deposit is credited once.  Trades and withdrawals need the   *)
(* key of the balances they change; a deposit that comes with another key  *)
(* takes the place of what the user had.  No rows, locks, connections or   *)
(* tasks; Funds is shown to keep this promise.                             *)
(***************************************************************************)
EXTENDS Accounts

VARIABLES
    balance,    \* what every user has, NoRow for no account
    sealed,     \* the key of every balance
    paid,       \* the withdrawals made
    confirmed,  \* the deposits credited
    applied     \* how often each trade was settled

vars == <<balance, sealed, paid, confirmed, applied>>

Rates == {0} \cup {Fallback.maker, Fallback.taker}
             \cup {Schedule[i].maker : i \in DOMAIN Schedule}
             \cup {Schedule[i].taker : i \in DOMAIN Schedule}

Init == /\ balance = Initial
        /\ sealed = [u \in Users |-> VaultKey]
        /\ paid = {}
        /\ confirmed = {}
        /\ applied = [t \in Trades |-> 0]

Settle(t) ==
    LET s == TradeOf[t].seller
        b == TradeOf[t].buyer
    IN  /\ applied' = [applied EXCEPT ![t] = @ + 1]
        /\ UNCHANGED <<sealed, paid, confirmed>>
        /\ balance[s] # NoRow
        /\ balance[b] # NoRow
        /\ sealed[s] = sealed[b]
        /\ \E maker, taker \in Rates :
              balance' = AfterTrade(balance, t, balance[s], balance[b], maker, taker)

Withdraw(w) ==
    LET u == WithdrawalOf[w].user
        a == WithdrawalOf[w].amount
    IN  /\ w \notin paid
        /\ balance[u] # NoRow
        /\ balance[u] >= a
        /\ balance' = [balance EXCEPT ![u] = @ - a]
        /\ paid' = paid \cup {w}
        /\ UNCHANGED <<sealed, confirmed, applied>>

Deposit(d) ==
    LET u == DepositOf[d].user
        a == DepositOf[d].amount
    IN  /\ d \notin confirmed
        /\ \E key \in Keys :
              /\ sealed' = [sealed EXCEPT ![u] = key]
              /\ balance' = [balance EXCEPT ![u] =
                                IF @ # NoRow /\ sealed[u] = key THEN @ + a ELSE a]
        /\ confirmed' = confirmed \cup {d}
        /\ UNCHANGED <<paid, applied>>

Next == \/ \E t \in Trades : Settle(t)
        \/ \E w \in Withdrawals : Withdraw(w)
        \/ \E d \in Deposits : Deposit(d)

Spec == Init /\ [][Next]_vars
=============================================================================
