---------------------------- MODULE MCWithdrawals ---------------------------
(* Instances of Withdrawals for TLC: just below the limit, at it, above it. *)
EXTENDS Withdrawals, TLC

MCAmount == "below" :> 9999 @@ "at" :> 10000 @@ "above" :> 25000
MCWithdrawals == DOMAIN MCAmount
=============================================================================
