-------------------------- MODULE PriceTimeExchange --------------------------
(***************************************************************************)
(* What the matching engine promises its clients, without levels, queues   *)
(* or a matching loop: resting orders form a set; an active order trades,  *)
(* one counterparty at a time, with the resting order that comes first by  *)
(* price and then by age, at that order's price and within its own limit,  *)
(* and joins the set only when no resting order is left that it would      *)
(* accept.  docs/architecture.md "Matching algorithm" is this promise in   *)
(* words; OrderBook is shown to keep it.                                   *)
(***************************************************************************)
EXTENDS Orders, Sequences, Functions

CONSTANT Menu

VARIABLES
    placed,     \* the orders received; an order's id is its position
    executed,   \* what each order has traded
    resting,    \* the ids of the orders that wait for a counterparty
    active,     \* the id of the order being matched, or 0
    trades      \* the trades of the active, or the latest active, order

vars == <<placed, executed, resting, active, trades>>

Tick(id) == PriceToTicks(placed[id].price)

Left(id) == placed[id].quantity - executed[id]

OnSide(s) == {id \in resting : placed[id].side = s}

(* Price first, then age. *)
Precedes(s, a, b) == \/ Ahead(s, Tick(a), Tick(b))
                     \/ Tick(a) = Tick(b) /\ a < b

First(s, m) == /\ m \in OnSide(s)
               /\ \A id \in OnSide(s) : id = m \/ Precedes(s, m, id)

Accepts(id, m) ==
    PriceLimited(placed[id])
        => Acceptable(placed[id].side, Tick(m), placed[id].price)

Init == /\ placed = << >>
        /\ executed = << >>
        /\ resting = {}
        /\ active = 0
        /\ trades = << >>

(* Resting orders of the other side that an order would accept.            *)
Welcome(o) == {m \in OnSide(Opposite(o.side)) : Acceptable(o.side, Tick(m), o.price)}

Lefts == [id \in DOMAIN placed |-> Left(id)]

(* A fill-or-kill order that the resting orders cannot fill.                *)
Killed(o) == IsFok(o) /\ SumFunctionOnSet(Lefts, Welcome(o)) < o.quantity

(* An order arrives: it is matched, joins the resting orders as it is, or   *)
(* is turned away.  Only a PostOnly order may join unmatched, and only when *)
(* it would not have traded.                                                *)
Receive(o) ==
    LET id == Len(placed) + 1
    IN  /\ active = 0
        /\ placed' = Append(placed, o)
        /\ executed' = Append(executed, 0)
        /\ trades' = << >>
        /\ \/ active' = id /\ ~Killed(o) /\ UNCHANGED resting
           \/ /\ o.type = "PostOnly"
              /\ Welcome(o) = {}
              /\ resting' = resting \cup {id}
              /\ UNCHANGED active
           \/ /\ o.type = "PostOnly" \/ Killed(o)
              /\ UNCHANGED <<resting, active>>

Trade(m) ==
    LET us == placed[active].side
    IN  /\ active # 0
        /\ First(Opposite(us), m)
        /\ Accepts(active, m)
        /\ \E q \in 1 .. Left(m) :
              /\ q <= Left(active)
              /\ executed' = [executed EXCEPT ![m] = @ + q,
                                              ![active] = @ + q]
              /\ trades' = Append(trades,
                    [price    |-> TicksToPrice(Tick(m)),
                     quantity |-> q,
                     buyer    |-> IF us = "Buy" THEN active ELSE m,
                     seller   |-> IF us = "Buy" THEN m ELSE active])
              /\ resting' = IF q = Left(m) THEN resting \ {m} ELSE resting
        /\ UNCHANGED <<placed, active>>

(* Nobody is left whom the active order would trade with. *)
Alone == \A m \in OnSide(Opposite(placed[active].side)) : ~Accepts(active, m)

Immediate(o) == IsIoc(o) \/ IsFok(o) \/ o.type = "Market"

Rest ==
    /\ active # 0
    /\ Left(active) > 0
    /\ Alone
    /\ ~Immediate(placed[active])
    /\ resting' = resting \cup {active}
    /\ active' = 0
    /\ UNCHANGED <<placed, executed, trades>>

(* An order that is filled, or that may not wait.  Of an iceberg only the   *)
(* visible part is matched, and nothing is promised about the rest.         *)
Leave ==
    /\ active # 0
    /\ \/ Left(active) = 0
       \/ Immediate(placed[active]) /\ Alone
       \/ placed[active].type = "Iceberg"
    /\ active' = 0
    /\ UNCHANGED <<placed, executed, resting, trades>>

Withdraw(id) == /\ active = 0
                /\ id \in resting
                /\ resting' = resting \ {id}
                /\ UNCHANGED <<placed, executed, active, trades>>

Next == \/ \E o \in Menu : Receive(o)
        \/ \E m \in resting : Trade(m)
        \/ Rest
        \/ Leave
        \/ \E id \in resting : Withdraw(id)

Spec == Init /\ [][Next]_vars
=============================================================================
