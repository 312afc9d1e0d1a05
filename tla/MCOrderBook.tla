---------------------------- MODULE MCOrderBook -----------------------------
(* Instances of OrderBook for TLC: the menus of orders clients choose from. *)
EXTENDS OrderBook

MCOrder(side, type, tif, price, quantity, peak) ==
    [side |-> side, type |-> type, tif |-> tif, price |-> price,
     quantity |-> quantity, peak |-> peak]

(* One order type, both sides, the given prices and quantities. *)
MCOf(type, tif, prices, quantities) ==
    {MCOrder(s, type, tif, p, q, q) : s \in Side, p \in prices, q \in quantities}

(* Limit orders against every type that never rests.  With Resolution = 2  *)
(* the price 3 is off the tick grid and rounds up to 4.                     *)
ImmediateMenu ==
    MCOf("Limit", "GTC", {3, 6}, {1}) \cup MCOf("Limit", "GTC", {4}, {2})
      \cup MCOf("FOK", "GTC", {4}, {2}) \cup MCOf("TWAP", "FOK", {4}, {2})
      \cup MCOf("IOC", "GTC", {2}, {2}) \cup MCOf("Market", "GTC", {0}, {2})

(* The types that rest in ways of their own, among plain limit orders.      *)
RestingMenu ==
    MCOf("Limit", "GTC", {3, 4}, {1}) \cup MCOf("PostOnly", "GTC", {4, 6}, {1})
      \cup MCOf("OCO", "GTC", {4}, {2})
      \cup {MCOrder("Buy", "Iceberg", "GTC", 6, 3, 2),
            MCOrder("Sell", "Iceberg", "GTC", 4, 2, 3)}
=============================================================================
