------------------------------- MODULE Orders -------------------------------
(***************************************************************************)
(* The vocabulary of the matching crate: sides, order types, time in force *)
(* and the conversion between a price and the integer tick that keys a     *)
(* price level (backend/crates/matching/src/lib.rs).                       *)
(*                                                                         *)
(* A price is a natural number of sub-ticks and Resolution sub-ticks make  *)
(* one tick, so Resolution = 1 keeps every price on the tick grid, and a   *)
(* larger one admits the prices that price_to_ticks has to round.          *)
(***************************************************************************)
EXTENDS Integers

CONSTANT Resolution     \* sub-ticks per tick

ASSUME ResolutionAssumption == Resolution \in Nat \ {0}

Side == {"Buy", "Sell"}

Opposite(s) == IF s = "Buy" THEN "Sell" ELSE "Buy"

(* The types that reach OrderBook::submit: the conditional types are        *)
(* turned into Limit or Market by check_conditional_triggers before.        *)
OrderType ==
    {"Limit", "Market", "OCO", "Iceberg", "TWAP", "FOK", "IOC", "PostOnly"}

TimeInForce == {"GTC", "IOC", "FOK"}

(* What a client asks for. peak is iceberg_peak_qty.unwrap_or(quantity).    *)
Order == [side     : Side,
          type     : OrderType,
          tif      : TimeInForce,
          price    : Nat,
          quantity : Nat \ {0},
          peak     : Nat \ {0}]

(* The types whose price the matching loop compares with the best level.    *)
PriceLimited(o) == o.type \in {"Limit", "FOK", "IOC", "Iceberg"}

IsFok(o) == o.type = "FOK" \/ o.tif = "FOK"
IsIoc(o) == o.type = "IOC" \/ o.tif = "IOC"

(* (price * 1e6).round(): to the nearest tick, a half rounds up.            *)
PriceToTicks(p) == (2 * p + Resolution) \div (2 * Resolution)
TicksToPrice(t) == t * Resolution

(* Level t of the book of the side opposite to s is acceptable at price p.  *)
Acceptable(s, t, p) ==
    IF s = "Buy" THEN TicksToPrice(t) <= p ELSE TicksToPrice(t) >= p

(* Iteration order of a side's levels: bids from the highest, asks from     *)
(* the lowest tick.                                                         *)
Ahead(s, t, u) == IF s = "Buy" THEN t > u ELSE t < u
=============================================================================
