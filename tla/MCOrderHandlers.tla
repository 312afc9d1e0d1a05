-------------------------- MODULE MCOrderHandlers ---------------------------
(* Instances of OrderHandlers for TLC: who asks for what.                   *)
EXTENDS OrderHandlers

MCRequest(side, type, price, quantity) ==
    [side |-> side, type |-> type, price |-> price, stop |-> 0, pct |-> 0,
     quantity |-> quantity, link |-> 0]

MCStop(r, stop, pct) == [r EXCEPT !.stop = stop, !.pct = pct]
MCLink(r, link) == [r EXCEPT !.link = link]

(* Two buyers meet a seller, and each of their trades at 2 triggers a stop  *)
(* order.  The buyer at 3 trades at 3 if he is there before the seller, and *)
(* the stop order is passed over.                                           *)
StopRequests ==
    << MCRequest("Sell", "Limit", 2, 2),
       MCStop(MCRequest("Sell", "StopMarket", 0, 1), 2, 0),
       MCRequest("Buy", "Limit", 2, 1),
       MCLink(MCRequest("Buy", "Limit", 3, 1), 1) >>

(* Bound: one of a cancel, a failed call and a restart in a history.        *)
Cancelled == {id \in Cancels : cancel[id].pc # "new"}

OneDisturbance == failures' + restarts' + Cardinality(Cancelled') <= 1

(* The stop orders are not in the shard of the nil id. *)
TwoShards == [id \in 0 .. 4 |-> IF id = 2 THEN 2 ELSE 1]

(* The seller trades at 3 with the first buyer, who is there before him, or *)
(* both buyers trade with him at 2.  The first trailing stop follows from 1 *)
(* and fires at 3; the second follows from 1 and waits for 4.               *)
ScanRequests ==
    << MCRequest("Sell", "Limit", 2, 2),
       MCStop(MCRequest("Buy", "TrailingStop", 1, 1), 1, 150),
       MCStop(MCRequest("Buy", "TrailingStop", 1, 1), 1, 300),
       MCRequest("Buy", "Limit", 3, 1),
       MCRequest("Buy", "Limit", 2, 1) >>

(* The second trailing stop is in the shard of the nil id.                  *)
NilBesideSecond == [id \in 0 .. 5 |-> IF id \in {0, 3} THEN 2 ELSE 1]

=============================================================================
