----------------------------- MODULE OrderBook ------------------------------
(***************************************************************************)
(* The limit order book of one trading pair: OrderBook::submit, with the   *)
(* matching loop one iteration at a time, and OrderBook::cancel.           *)
(*                                                                         *)
(* Callers hold the parking_lot mutex of the book for a whole call; here   *)
(* the mutex is held while an order is being matched (taker # Idle).  The  *)
(* two match arms of submit are one action with the side as a parameter.   *)
(***************************************************************************)
EXTENDS Orders, Sequences, Functions

CONSTANTS Menu,         \* the orders clients may submit
          MaxOrders     \* bound: how many orders are submitted

ASSUME MenuAssumption == Menu \subseteq Order
ASSUME MaxOrdersAssumption == MaxOrders \in Nat

VARIABLES
    placed,     \* the orders submitted so far; an order's id is its position
    status,     \* order.status of every order, as last assigned
    book,       \* bids (book["Buy"]) and asks (book["Sell"]): tick -> queue
    lastPrice,  \* last_price, NoPrice when None
    taker,      \* the order being matched under the mutex, or Idle
    trades,     \* the Vec<Trade> of the current or latest submit
    executed    \* history: what each order has traded over all submits

vars == <<placed, status, book, lastPrice, taker, trades, executed>>

NoPrice == -1

Idle == [id |-> 0, quantity |-> 0, filled |-> 0, hidden |-> 0]

Id == 1 .. Len(placed)

Status == {"Open", "PartiallyFilled", "Filled", "Cancelled", "Rejected"}

Entry == [id : Nat \ {0}, quantity : Nat, filled : Nat]

-----------------------------------------------------------------------------
(* Price levels. *)

Tick(id) == PriceToTicks(placed[id].price)

Remaining(e) == e.quantity - e.filled

(* mutant: the asks' iteration order on both sides *)
BestIsLowest(s, t) == /\ t \in DOMAIN book[s]
                      /\ \A u \in DOMAIN book[s] : t <= u

Best(s, t) == /\ t \in DOMAIN book[s]
              /\ \A u \in DOMAIN book[s] : u = t \/ Ahead(s, t, u)

(* entry(t).or_default() *)
Opened(levels, t) ==
    [u \in DOMAIN levels \cup {t} |->
        IF u \in DOMAIN levels THEN levels[u] ELSE << >>]

(* mutant: the level stays *)
WithoutNothing(levels, t) == levels

Without(levels, t) == [u \in DOMAIN levels \ {t} |-> levels[u]]

(* A level whose queue became q: removed when q is empty. *)
Settled(levels, t, q) ==
    IF q = << >> THEN Without(levels, t) ELSE [levels EXCEPT ![t] = q]

(* add_resting: behind the orders of its level. *)
Rested(levels, t, e) == [Opened(levels, t) EXCEPT ![t] = Append(@, e)]

QueueLeft(queue) ==
    SumFunction([i \in DOMAIN queue |-> Remaining(queue[i])])

LevelsLeft(s) == [t \in DOMAIN book[s] |-> QueueLeft(book[s][t])]

(* mutant: counts the levels the order does not accept, too *)
AvailableAnywhere(s, p) == SumFunction(LevelsLeft(Opposite(s)))

(* available_qty_at_price: what the acceptable levels of the other side     *)
(* have left.                                                               *)
Available(s, p) ==
    SumFunctionOnSet(LevelsLeft(Opposite(s)),
                     {t \in DOMAIN book[Opposite(s)] : Acceptable(s, t, p)})

(* mutant: < and > for <= and >= *)
WouldMatchStrictly(o) ==
    \E t \in DOMAIN book[Opposite(o.side)] :
        /\ Best(Opposite(o.side), t)
        /\ TicksToPrice(t) # o.price
        /\ Acceptable(o.side, t, o.price)

(* PostOnly: the best level of the other side, empty or not, is acceptable. *)
WouldMatch(o) ==
    \E t \in DOMAIN book[Opposite(o.side)] :
        Best(Opposite(o.side), t) /\ Acceptable(o.side, t, o.price)

-----------------------------------------------------------------------------
(* submit *)

(* An order enters submit with status st; trades is a new vector. *)
Enter(o, st) ==
    /\ taker = Idle
    /\ Len(placed) < MaxOrders
    /\ placed' = Append(placed, o)
    /\ status' = Append(status, st)
    /\ executed' = Append(executed, 0)
    /\ trades' = << >>
    /\ UNCHANGED lastPrice

RejectPostOnly(o) ==
    /\ o.type = "PostOnly"
    /\ WouldMatch(o)
    /\ Enter(o, "Rejected")
    /\ UNCHANGED <<book, taker>>

(* The level is opened among the bids whatever the side of the order.       *)
RestPostOnly(o) ==
    LET t == PriceToTicks(o.price)
        e == [id |-> Len(placed) + 1, quantity |-> o.quantity, filled |-> 0]
        b == [book EXCEPT !["Buy"] = Opened(@, t)]
    IN  /\ o.type = "PostOnly"
        /\ ~WouldMatch(o)
        /\ Enter(o, "Open")
        /\ book' = [b EXCEPT ![o.side] = Rested(@, t, e)]
        /\ UNCHANGED taker

KillFok(o) ==
    /\ o.type # "PostOnly"
    /\ IsFok(o)
    /\ Available(o.side, o.price) < o.quantity
    /\ Enter(o, "Cancelled")
    /\ UNCHANGED <<book, taker>>

Smaller(a, b) == IF a <= b THEN a ELSE b

(* mutant: a peak larger than the order *)
VisibleIsPeak(o) == IF o.type = "Iceberg" THEN o.peak ELSE o.quantity

(* An iceberg is matched with its peak, the rest of it is set aside.        *)
Visible(o) ==
    IF o.type = "Iceberg" THEN Smaller(o.peak, o.quantity) ELSE o.quantity

StartMatching(o) ==
    LET q == Visible(o)
    IN  /\ o.type # "PostOnly"
        /\ IsFok(o) => Available(o.side, o.price) >= o.quantity
        /\ Enter(o, "Open")
        /\ taker' = [id |-> Len(placed) + 1, quantity |-> q, filled |-> 0,
                     hidden |-> o.quantity - q]
        /\ UNCHANGED book

Submit(o) == \/ RejectPostOnly(o)
             \/ RestPostOnly(o)
             \/ KillFok(o)
             \/ StartMatching(o)

-----------------------------------------------------------------------------
(* One iteration of the matching loop. *)

Matching == taker.id # 0

Us   == placed[taker.id].side
Them == Opposite(Us)

Stops(t) == /\ PriceLimited(placed[taker.id])
            /\ ~Acceptable(Us, t, placed[taker.id].price)

(* while order.filled < order.quantity, with best level t. *)
Iterate(t) == /\ taker.filled < taker.quantity
              /\ Best(Them, t)
              /\ ~Stops(t)

(* mutant: what the maker has left, whatever the taker wants *)
MakerLeft(a, b) == b

(* The quantity of a trade. *)
TradeQuantity(taken, resting) == Smaller(taken, resting)

(* mutant: > for >= *)
FillStatusLate(filled, quantity) ==
    IF filled > quantity THEN "Filled" ELSE "PartiallyFilled"

FillStatus(filled, quantity) ==
    IF filled >= quantity THEN "Filled" ELSE "PartiallyFilled"

TradeOf(t, q, maker) ==
    [price    |-> TicksToPrice(t),
     quantity |-> q,
     buyer    |-> IF Us = "Buy" THEN taker.id ELSE maker,
     seller   |-> IF Us = "Buy" THEN maker ELSE taker.id]

(* A trade with the front of the best level, popped when it is filled.      *)
Match ==
    /\ Matching
    /\ \E t \in DOMAIN book[Them] :
          LET queue == book[Them][t]
              maker == Head(queue)
              q     == TradeQuantity(Remaining(taker), Remaining(maker))
              after == [maker EXCEPT !.filled = @ + q]
              left  == IF after.filled >= after.quantity
                       THEN Tail(queue) ELSE [queue EXCEPT ![1] = after]
          IN  /\ Iterate(t)
              /\ queue # << >>
              /\ taker' = [taker EXCEPT !.filled = @ + q]
              /\ book' = [book EXCEPT ![Them] = Settled(@, t, left)]
              /\ status' = [status EXCEPT
                     ![maker.id] = FillStatus(after.filled, after.quantity),
                     ![taker.id] = FillStatus(taker.filled + q, taker.quantity)]
              /\ executed' = [executed EXCEPT ![maker.id] = @ + q,
                                              ![taker.id] = @ + q]
              /\ trades' = Append(trades, TradeOf(t, q, maker.id))
              /\ lastPrice' = TicksToPrice(t)
              /\ UNCHANGED placed

(* A best level without orders is removed and the loop goes on.             *)
SweepEmptyLevel ==
    /\ Matching
    /\ \E t \in DOMAIN book[Them] :
          /\ Iterate(t)
          /\ book[Them][t] = << >>
          /\ book' = [book EXCEPT ![Them] = Without(@, t)]
    /\ UNCHANGED <<placed, status, lastPrice, taker, trades, executed>>

-----------------------------------------------------------------------------
(* The end of submit. *)

LoopEnds == /\ Matching
            /\ \/ taker.filled >= taker.quantity
               \/ DOMAIN book[Them] = {}
               \/ \E t \in DOMAIN book[Them] : Best(Them, t) /\ Stops(t)

Unfilled == taker.filled < taker.quantity

(* mutant: an IOC order waits, too *)
RestsAnyway(o) == Unfilled /\ o.type # "Market" /\ ~IsFok(o)

Rests(o) == Unfilled /\ ~IsIoc(o) /\ o.type # "Market" /\ ~IsFok(o)

(* mutant: the order as it was before matching *)
RemainderUntouched == [id |-> taker.id, quantity |-> taker.quantity + taker.hidden,
                       filled |-> 0]

Remainder == [id |-> taker.id, quantity |-> taker.quantity + taker.hidden,
              filled |-> taker.filled]

(* The unfilled part rests, with the hidden quantity of an iceberg back in  *)
(* it.                                                                      *)
RestRemainder ==
    LET o == placed[taker.id]
    IN  /\ LoopEnds
        /\ Rests(o)
        /\ book' = [book EXCEPT ![Us] =
                       Rested(@, PriceToTicks(o.price), Remainder)]
        /\ taker' = Idle
        /\ UNCHANGED <<placed, status, lastPrice, trades, executed>>

(* The order is dropped: filled, or immediate (IOC, FOK or Market).         *)
DropRemainder ==
    LET o == placed[taker.id]
    IN  /\ LoopEnds
        /\ ~Rests(o)
        /\ status' = IF Unfilled /\ IsIoc(o)
                     THEN [status EXCEPT ![taker.id] = "Cancelled"]
                     ELSE status
        /\ taker' = Idle
        /\ UNCHANGED <<placed, book, lastPrice, trades, executed>>

-----------------------------------------------------------------------------
(* VecDeque::remove *)
Removed(q, i) ==
    [k \in 1 .. Len(q) - 1 |-> IF k < i THEN q[k] ELSE q[k + 1]]

(* cancel: the order is taken out of its queue, and an emptied level goes.  *)
Cancel(id) ==
    /\ ~Matching
    /\ \E s \in Side : \E t \in DOMAIN book[s] : \E i \in DOMAIN book[s][t] :
          /\ book[s][t][i].id = id
          /\ book' = [book EXCEPT ![s] = Settled(@, t, Removed(book[s][t], i))]
    /\ UNCHANGED <<placed, status, lastPrice, taker, trades, executed>>

-----------------------------------------------------------------------------

Init == /\ placed = << >>
        /\ status = << >>
        /\ book = [s \in Side |-> << >>]
        /\ lastPrice = NoPrice
        /\ taker = Idle
        /\ trades = << >>
        /\ executed = << >>

LoopStep == Match \/ SweepEmptyLevel \/ RestRemainder \/ DropRemainder

Next == \/ \E o \in Menu : Submit(o)
        \/ LoopStep
        \/ \E id \in Id : Cancel(id)

(* The thread that holds the mutex keeps running.                           *)
Spec == Init /\ [][Next]_vars /\ WF_vars(LoopStep)

-----------------------------------------------------------------------------
(* Properties. *)

TypeOK ==
    /\ placed \in Seq(Order)
    /\ status \in Seq(Status)
    /\ executed \in Seq(Nat)
    /\ Len(status) = Len(placed)
    /\ Len(executed) = Len(placed)
    /\ book = [s \in Side |-> book[s]]
    /\ \A s \in Side : /\ DOMAIN book[s] \subseteq Nat
                       /\ book[s] \in [DOMAIN book[s] -> Seq(Entry)]
    /\ taker \in [id : Nat, quantity : Nat, filled : Nat, hidden : Nat]
    /\ taker.id \in {0, Len(placed)}
    /\ ~Matching => taker = Idle
    /\ lastPrice \in Nat \cup {NoPrice}
    /\ trades \in Seq([price : Nat, quantity : Nat, buyer : Id, seller : Id])

RestingIds ==
    {id \in Id : \E s \in Side : \E t \in DOMAIN book[s] :
                    \E i \in DOMAIN book[s][t] : book[s][t][i].id = id}

(* Every resting order waits on its own side, at the level of its price,    *)
(* with something left, and the book agrees with the trades it has emitted  *)
(* about how much that is: submit fills a maker in place and rests a taker  *)
(* with the filled amount of its own loop.                                  *)
RestingSound ==
    \A s \in Side : \A t \in DOMAIN book[s] : \A i \in DOMAIN book[s][t] :
        LET e == book[s][t][i]
        IN  /\ e.id \in Id \ {taker.id}
            /\ placed[e.id].side = s
            /\ Tick(e.id) = t
            /\ e.quantity = placed[e.id].quantity
            /\ e.filled = executed[e.id]
            /\ e.filled < e.quantity

(* Within a level the order that came first is in front, and no order is    *)
(* there twice: push_back, pop_front and the removal by cancel keep age.    *)
QueuesByAge ==
    \A s \in Side : \A t \in DOMAIN book[s] :
        \A i, j \in DOMAIN book[s][t] :
            i < j => book[s][t][i].id < book[s][t][j].id

(* No order ever trades more than was asked for, over all the submits it    *)
(* takes part in, as taker and later as maker (lib.rs:201-242).             *)
NeverOverfilled == \A id \in Id : executed[id] <= placed[id].quantity

(* The price survives the conversion to ticks and back. *)
OnGrid(o) == TicksToPrice(PriceToTicks(o.price)) = o.price

(* The best bid stays below the best ask whatever mix of order types was    *)
(* submitted (OCO, TWAP and Market skip the price check of the loop), with  *)
(* one exception: an order off the tick grid is compared unrounded and then *)
(* rests rounded, so it can come to rest at the very tick of an order it    *)
(* did not accept (lib.rs:203-207, 297-298).                                *)
NotCrossed ==
    \A b \in DOMAIN book["Buy"], a \in DOMAIN book["Sell"] :
        \A i \in DOMAIN book["Buy"][b], j \in DOMAIN book["Sell"][a] :
            \/ b < a
            \/ /\ b = a
               /\ \/ ~OnGrid(placed[book["Buy"][b][i].id])
                  \/ ~OnGrid(placed[book["Sell"][a][j].id])

(* A trade hits the best level of the maker's side and the oldest order     *)
(* there, also after cancels and swept levels; no step trades past a better *)
(* resting order (the BTreeMap order and pop_front of lib.rs:200-290).      *)
PriceTimePriority ==
    [][\A s \in Side : \A t \in DOMAIN book[s] : \A i \in DOMAIN book[s][t] :
         LET e == book[s][t][i]
         IN  executed'[e.id] > executed[e.id] =>
               \A u \in DOMAIN book[s] : \A j \in DOMAIN book[s][u] :
                   \/ book[s][u][j].id = e.id
                   \/ Ahead(s, t, u)
                   \/ t = u /\ e.id < book[s][u][j].id]_vars

(* After submit a fill-or-kill order has traded all of its quantity or      *)
(* nothing: what available_qty_at_price counted before the loop is what the *)
(* loop then finds, level after level (lib.rs:181-188, 200-246).            *)
FillOrKill ==
    \A id \in Id \ {taker.id} :
        IsFok(placed[id]) /\ placed[id].type \notin {"Iceberg", "PostOnly"}
            => executed[id] \in {0, placed[id].quantity}

(* An order is reported filled exactly when it has traded its quantity, and *)
(* no longer rests then (icebergs aside, whose status is of their peak).    *)
FilledIsFilled ==
    \A id \in Id : placed[id].type # "Iceberg" =>
        /\ status[id] = "Filled" <=> executed[id] = placed[id].quantity
        /\ status[id] \in {"Filled", "Rejected", "Cancelled"}
              => id \notin RestingIds

(* Whoever holds the mutex of the book gives it back: every iteration of    *)
(* the loop fills the taker, pops a maker or removes a level.               *)
MatchingEnds == Matching ~> ~Matching

Contract == INSTANCE PriceTimeExchange
    WITH resting <- RestingIds, active <- taker.id

(* The engine keeps the promise of PriceTimeExchange: the levels, queues,   *)
(* opened and swept levels of the code cannot be told from a set of resting *)
(* orders matched in price-time priority.                                   *)
KeepsContract == Contract!Spec
=============================================================================
