--------------------------- MODULE OrderHandlers ----------------------------
(***************************************************************************)
(* The HTTP handlers of the matching crate around the order book of one    *)
(* pair: create_order, cancel_order, the OCO cancellation, the stop orders *)
(* that a trade triggers, and the persistence of trades, interleaved at    *)
(* every await and lock, with the settlement consumer, failures of Kafka   *)
(* or Postgres and restarts of the process.                                *)
(*                                                                         *)
(* An order is its position in Requests and so is the task that creates    *)
(* it.  The book is what OrderBook shows it to be: resting orders matched  *)
(* by price and age; a whole submit is one step, under the book's mutex.   *)
(***************************************************************************)
EXTENDS Orders, Sequences, SequencesExt, FiniteSetsExt

CONSTANTS
    Requests,       \* the orders clients ask for, one create_order each
    Cancels,        \* the orders that clients cancel, one cancel_order each
    Shards,         \* CONDITIONAL_ORDERS is a DashMap of this many shards
    ShardOf,        \* the shard of an order id, and of the nil id 0
    MaxFailures,    \* bound: failed calls of Kafka or Postgres
    MaxRestarts     \* bound: restarts of the process

Conditional == {"StopLimit", "StopMarket", "TrailingStop"}

(* stop is stop_price and link is oco_link_id, 0 when None; pct is          *)
(* trailing_pct in percent.                                                 *)
Request == [side     : Side,
            type     : {"Limit", "Market"} \cup Conditional,
            price    : Nat,
            stop     : Nat,
            pct      : Nat,
            quantity : Nat \ {0},
            link     : Nat]

Id == DOMAIN Requests

ASSUME RequestsAssumption ==
    /\ Requests \in Seq(Request)
    /\ \A id \in Id : Requests[id].link \in Id \cup {0}
    /\ Cancels \subseteq Id
ASSUME ShardsAssumption ==
    /\ Shards \in Nat \ {0}
    /\ ShardOf \in [Id \cup {0} -> 1 .. Shards]
ASSUME BoundsAssumption == MaxFailures \in Nat /\ MaxRestarts \in Nat

VARIABLES
    rows,       \* orders.status in Postgres, None before the INSERT
    book,       \* the resting orders, oldest first
    executed,   \* what each order has traded
    entered,    \* history: how often each order was submitted to the book
    struck,     \* history: the trades of the engine, <<taker, maker>>
    conds,      \* CONDITIONAL_ORDERS: id -> best_price
    topic,      \* the messages of the Kafka topic "trades"
    stored,     \* the rows of the trades table
    task,       \* the create_order calls
    cancel,     \* the cancel_order calls
    failures,   \* how many calls have failed
    restarts    \* how many times the process was restarted

database == <<rows, topic, stored>>
engine   == <<book, executed, entered, struck>>
vars == <<rows, book, executed, entered, struck, conds, topic, stored, task,
          cancel, failures, restarts>>

None == "none"

RowStatus == {None, "open", "pending_trigger", "filled", "cancelled"}

-----------------------------------------------------------------------------
(* The book. *)

Left(id) == Requests[id].quantity - executed[id]

(* check_conditional_triggers submits a StopLimit as Limit, the other stop  *)
(* types as Market.                                                         *)
Underlying(id) ==
    CASE Requests[id].type = "StopLimit"                   -> "Limit"
      [] Requests[id].type \in {"StopMarket", "TrailingStop"} -> "Market"
      [] OTHER                                             -> Requests[id].type

Resting(id) == \E k \in DOMAIN book : book[k] = id

OnSide(s) == {k \in DOMAIN book : Requests[book[k]].side = s}

Facing(id) ==
    LET o == Requests[id]
    IN  {k \in OnSide(Opposite(o.side)) :
            \/ Underlying(id) = "Market"
            \/ Acceptable(o.side, Requests[book[k]].price, o.price)}

(* Position k of the book is served before position l. *)
Before(k, l) ==
    LET a == Requests[book[k]]
        b == Requests[book[l]]
    IN  \/ Ahead(a.side, a.price, b.price)
        \/ a.price = b.price /\ k < l

(* mutant: what the maker has left, whatever the taker wants *)
MakerLeft(a, b) == a

Smaller(a, b) == IF a <= b THEN a ELSE b

Lefts == [k \in DOMAIN book |-> Left(book[k])]

(* What the order at position k of the book trades with order id.           *)
Share(id, k) ==
    LET better == {l \in Facing(id) : Before(l, k)}
        taken  == SumFunctionOnSet(Lefts, better)
    IN  IF taken < Left(id) THEN Smaller(Left(book[k]), Left(id) - taken) ELSE 0

Met(id) == {k \in Facing(id) : Share(id, k) > 0}

(* The elements of S in the order R: the n-th has n - 1 before it.          *)
Listed(S, R) ==
    [n \in 1 .. Cardinality(S) |->
        CHOOSE k \in S : Cardinality({l \in S : <<l, k>> \in R}) = n - 1]

(* The makers an order meets, in the order of its trades.                   *)
Makers(id) ==
    LET met == Met(id)
        hit == Listed(met, {kl \in met \X met : Before(kl[1], kl[2])})
    IN  [n \in DOMAIN hit |-> book[hit[n]]]

(* What is left of a queue that keeps the positions S.                      *)
Kept(queue, S) ==
    LET places == Listed(S, {kl \in S \X S : kl[1] < kl[2]})
    IN  [n \in DOMAIN places |-> queue[places[n]]]

Without(queue, id) == Kept(queue, {k \in DOMAIN queue : queue[k] # id})

(* What order i has traded after order id was submitted.                    *)
ExecutedAfter(id, i) ==
    LET shares == [k \in DOMAIN book |-> Share(id, k)]
    IN  executed[i] +
        SumFunctionOnSet(shares, {k \in Met(id) : i = id \/ book[k] = i})

(* book.lock().submit(order) *)
Submit(id) ==
    LET unfilled == {k \in DOMAIN book :
                        ExecutedAfter(id, book[k]) < Requests[book[k]].quantity}
        rests    == /\ Underlying(id) = "Limit"
                    /\ ExecutedAfter(id, id) < Requests[id].quantity
    IN  /\ executed' = [i \in Id |-> ExecutedAfter(id, i)]
        /\ book' = IF rests THEN Append(Kept(book, unfilled), id)
                            ELSE Kept(book, unfilled)
        /\ entered' = [entered EXCEPT ![id] = @ + 1]
        /\ struck' = struck \cup {<<id, book[k]>> : k \in Met(id)}

(* book.asks.iter().next() for a buy, book.bids.iter().next() for a sell.   *)
BestOpposite(id) ==
    LET best == {k \in OnSide(Opposite(Requests[id].side)) :
                    \A l \in OnSide(Opposite(Requests[id].side)) :
                        k = l \/ Before(k, l)}
    IN  IF best = {} THEN Requests[id].price
        ELSE Requests[book[CHOOSE k \in best : TRUE]].price

-----------------------------------------------------------------------------
(* The map of conditional orders and its shard locks. *)

Scanning(t, s) == task[t].pc = "scan" /\ task[t].shard = s

(* mutant: one lock for the whole map *)
WritableUnscanned(id) == \A t \in Id : task[t].pc # "scan"

(* A write to the map waits until no iterator is in the shard of the key.   *)
Writable(id) == \A t \in Id : ~Scanning(t, ShardOf[id])

Dropped(map, id) == [i \in DOMAIN map \ {id} |-> map[i]]

InShard(s) == {id \in DOMAIN conds : ShardOf[id] = s}

(* best_price * (1.0 + pct) and best_price * (1.0 - pct), in hundredths.    *)
Triggered(id, price) ==
    LET o == Requests[id]
    IN  /\ o.stop # 0
        /\ IF o.type = "TrailingStop"
           THEN IF o.side = "Buy" THEN 100 * price >= conds[id] * (100 + o.pct)
                                  ELSE 100 * price <= conds[id] * (100 - o.pct)
           ELSE IF o.side = "Buy" THEN price >= o.stop ELSE price <= o.stop

(* The best price a trailing stop has seen, with price among them.          *)
Follow(id, best, price) ==
    IF Requests[id].side = "Buy"
    THEN IF price < best THEN price ELSE best
    ELSE IF price > best THEN price ELSE best

-----------------------------------------------------------------------------
(* create_order *)

Fresh == [pc |-> "new", of |-> 0, todo |-> << >>, met |-> FALSE, price |-> 0,
          shard |-> 0, seen |-> {}, fire |-> << >>, sure |-> FALSE]

(* Calls that have not begun, were answered, or never will be. *)
Ended == {"new", "done", "failed", "lost"}

Goto(t, pc) == task' = [task EXCEPT ![t].pc = pc]

IsConditional(t) == Requests[t].type \in Conditional

(* The order of the caller, not a stop order that it triggered.             *)
Own(t) == task[t].of = t

(* A client names an order to link to that it can see in its list.          *)
InsertOrder(t) ==
    LET link == Requests[t].link
    IN  /\ task[t].pc = "new"
        /\ link # 0 => rows[link] # None
        /\ rows' = [rows EXCEPT ![t] =
                       IF IsConditional(t) THEN "pending_trigger" ELSE "open"]
        /\ task' = [task EXCEPT ![t].pc = IF IsConditional(t) THEN "peek" ELSE "submit",
                                ![t].of = t,
                                ![t].sure = link # 0 /\ task[link].pc = "done"]
        /\ UNCHANGED <<engine, conds, topic, stored, cancel, failures,
                       restarts>>

(* The best price of the other side is read under the book's lock ...       *)
Peek(t) ==
    /\ task[t].pc = "peek"
    /\ task' = [task EXCEPT ![t].pc = "register", ![t].price = BestOpposite(t)]
    /\ UNCHANGED <<database, engine, conds, cancel, failures, restarts>>

(* ... and the order goes into the map with it, and the client is answered. *)
Register(t) ==
    /\ task[t].pc = "register"
    /\ Writable(t)
    /\ conds' = [i \in DOMAIN conds \cup {t} |->
                    IF i = t THEN task[t].price ELSE conds[i]]
    /\ Goto(t, "done")
    /\ UNCHANGED <<database, engine, cancel, failures, restarts>>

SubmitOrder(t) ==
    LET id     == task[t].of
        makers == Makers(id)
    IN  /\ task[t].pc = "submit"
        /\ Submit(id)
        /\ task' = [task EXCEPT ![t].pc = "persist",
                                ![t].todo = [n \in DOMAIN makers |-> <<id, makers[n]>>],
                                ![t].met = makers # << >>,
                                ![t].price = IF Own(t) /\ makers # << >>
                                             THEN Requests[Last(makers)].price ELSE @]
        /\ UNCHANGED <<database, conds, cancel, failures, restarts>>

-----------------------------------------------------------------------------
(* persist_trades *)

SendTrade(t) ==
    /\ task[t].pc = "persist"
    /\ task[t].todo # << >>
    /\ topic' = topic \cup {Head(task[t].todo)}
    /\ Goto(t, "store")
    /\ UNCHANGED <<rows, stored, engine, conds, cancel, failures, restarts>>

(* mutant: the loop ends with the first trade *)
OnlyFirst(todo) == << >>

OthersToPersist(todo) == Tail(todo)

StoreTrade(t) ==
    /\ task[t].pc = "store"
    /\ stored' = stored \cup {Head(task[t].todo)}
    /\ task' = [task EXCEPT ![t].pc = "persist", ![t].todo = OthersToPersist(@)]
    /\ UNCHANGED <<rows, topic, engine, conds, cancel, failures, restarts>>

(* The handler of an order gives up at the first error; for a triggered     *)
(* order the error is logged and the loop goes on with the order's row.     *)
PersistFails(t) ==
    /\ task[t].pc \in {"persist", "store"}
    /\ task[t].todo # << >>
    /\ failures < MaxFailures
    /\ failures' = failures + 1
    /\ Goto(t, IF Own(t) THEN "failed" ELSE "row")
    /\ UNCHANGED <<database, engine, conds, cancel, restarts>>

Persisted(t) ==
    /\ task[t].pc = "persist"
    /\ task[t].todo = << >>
    /\ Goto(t, "row")
    /\ UNCHANGED <<database, engine, conds, cancel, failures, restarts>>

-----------------------------------------------------------------------------
(* After the trades: the order's row, its OCO link, the triggers. *)

(* mutant: the handler of an order leaves the link to those that fire it *)
HasLinkFired(t) == ~Own(t) /\ Requests[task[t].of].link # 0

HasLink(t) == Requests[task[t].of].link # 0

(* From the row update to the next thing to do. *)
AfterRow(t) == IF task[t].met /\ HasLink(t) THEN "oco"
               ELSE IF ~Own(t) THEN "fire"
               ELSE IF task[t].met THEN "scan" ELSE "done"

AfterOco(t) == IF Own(t) THEN "scan" ELSE "fire"

(* The local copy of the order still has filled = 0.0: the row says open,   *)
(* whatever submit did and whoever wrote it meanwhile.                      *)
UpdateRow(t) ==
    /\ task[t].pc = "row"
    /\ rows' = [rows EXCEPT ![task[t].of] = "open"]
    /\ task' = [task EXCEPT ![t].pc = AfterRow(t),
                            ![t].shard = IF AfterRow(t) = "scan" THEN 1 ELSE @]
    /\ UNCHANGED <<topic, stored, engine, conds, cancel, failures, restarts>>

(* The caller is told of the error; for a triggered order it is ignored.    *)
UpdateRowFails(t) ==
    /\ task[t].pc = "row"
    /\ failures < MaxFailures
    /\ failures' = failures + 1
    /\ Goto(t, IF Own(t) THEN "failed" ELSE AfterRow(t))
    /\ UNCHANGED <<database, engine, conds, cancel, restarts>>

LinkOf(t) == Requests[task[t].of].link

(* cancel_oco_linked: the book, ... *)
CancelLinkInBook(t) ==
    /\ task[t].pc = "oco"
    /\ book' = Without(book, LinkOf(t))
    /\ Goto(t, "ocorow")
    /\ UNCHANGED <<database, executed, entered, struck, conds, cancel, failures,
                   restarts>>

(* A failed SELECT leaves the book and the row alone. *)
SelectLinkFails(t) ==
    /\ task[t].pc = "oco"
    /\ failures < MaxFailures
    /\ failures' = failures + 1
    /\ Goto(t, "ocomap")
    /\ UNCHANGED <<database, engine, conds, cancel, restarts>>

(* ... the row, when it is still live (an error is ignored), ... *)
CancelLinkRow(t) ==
    /\ task[t].pc = "ocorow"
    /\ \/ /\ rows' = IF rows[LinkOf(t)] \in {"open", "pending_trigger"}
                     THEN [rows EXCEPT ![LinkOf(t)] = "cancelled"] ELSE rows
          /\ UNCHANGED failures
       \/ /\ failures < MaxFailures
          /\ failures' = failures + 1
          /\ UNCHANGED rows
    /\ Goto(t, "ocomap")
    /\ UNCHANGED <<topic, stored, engine, conds, cancel, restarts>>

(* ... and the map. *)
CancelLinkInMap(t) ==
    /\ task[t].pc = "ocomap"
    /\ Writable(LinkOf(t))
    /\ conds' = Dropped(conds, LinkOf(t))
    /\ task' = [task EXCEPT ![t].pc = AfterOco(t),
                            ![t].shard = IF AfterOco(t) = "scan" THEN 1 ELSE @]
    /\ UNCHANGED <<database, engine, cancel, failures, restarts>>

-----------------------------------------------------------------------------
(* check_conditional_triggers: one entry of the map after the other, with   *)
(* the shard of the entry locked for reading, ...                           *)

Unseen(t) == InShard(task[t].shard) \ task[t].seen

LookAndTrigger(t) ==
    /\ task[t].pc = "scan"
    /\ \E id \in Unseen(t) :
          /\ Triggered(id, task[t].price)
          /\ task' = [task EXCEPT ![t].seen = @ \cup {id}, ![t].fire = Append(@, id)]
    /\ UNCHANGED <<database, engine, conds, cancel, failures, restarts>>

Trails(id) == Requests[id].type = "TrailingStop" /\ Requests[id].stop # 0

LookAndSkip(t) ==
    /\ task[t].pc = "scan"
    /\ \E id \in Unseen(t) :
          /\ ~Trails(id)
          /\ ~Triggered(id, task[t].price)
          /\ task' = [task EXCEPT ![t].seen = @ \cup {id}]
    /\ UNCHANGED <<database, engine, conds, cancel, failures, restarts>>

(* The entry whose best price is updated: the last one to be triggered.     *)
Followed(t) == IF task[t].fire = << >> THEN 0 ELSE Last(task[t].fire)

LookAndFollow(t) ==
    /\ task[t].pc = "scan"
    /\ \E id \in Unseen(t) :
          /\ Trails(id)
          /\ ~Triggered(id, task[t].price)
          /\ Writable(Followed(t))
          /\ conds' = [i \in DOMAIN conds |->
                          IF i = Followed(t) THEN Follow(i, conds[i], task[t].price)
                                             ELSE conds[i]]
          /\ task' = [task EXCEPT ![t].seen = @ \cup {id}]
    /\ UNCHANGED <<database, engine, cancel, failures, restarts>>

NextShard(t) ==
    /\ task[t].pc = "scan"
    /\ Unseen(t) = {}
    /\ task' = IF task[t].shard < Shards
               THEN [task EXCEPT ![t].shard = @ + 1, ![t].seen = {}]
               ELSE [task EXCEPT ![t].pc = "fire", ![t].shard = 0, ![t].seen = {}]
    /\ UNCHANGED <<database, engine, conds, cancel, failures, restarts>>

(* ... and then the triggered ones, of which another handler may have been  *)
(* faster: who removes the order from the map submits it.                   *)

(* mutant: a copy of the entry taken while iterating is as good *)
ClaimedAnyway(id) == TRUE

Claimed(id) == id \in DOMAIN conds

Fire(t) ==
    LET id == Head(task[t].fire)
    IN  /\ task[t].pc = "fire"
        /\ task[t].fire # << >>
        /\ Writable(id)
        /\ conds' = Dropped(conds, id)
        /\ task' = [task EXCEPT ![t].fire = Tail(@),
                                ![t].of = IF Claimed(id) THEN id ELSE @,
                                ![t].pc = IF Claimed(id) THEN "submit" ELSE @]
        /\ UNCHANGED <<database, engine, cancel, failures, restarts>>

Answer(t) ==
    /\ task[t].pc = "fire"
    /\ task[t].fire = << >>
    /\ Goto(t, "done")
    /\ UNCHANGED <<database, engine, conds, cancel, failures, restarts>>

OtherStep(t) ==
    \/ Peek(t) \/ Register(t)
    \/ SendTrade(t) \/ StoreTrade(t) \/ PersistFails(t) \/ Persisted(t)
    \/ UpdateRow(t) \/ UpdateRowFails(t)
    \/ CancelLinkInBook(t) \/ SelectLinkFails(t) \/ CancelLinkRow(t)
    \/ CancelLinkInMap(t)
    \/ LookAndTrigger(t) \/ LookAndSkip(t) \/ LookAndFollow(t) \/ NextShard(t)
    \/ Fire(t) \/ Answer(t)

CreateStep(t) == OtherStep(t) \/ SubmitOrder(t)

-----------------------------------------------------------------------------
(* cancel_order *)

(* Somebody is submitting order id or has yet to write its row.             *)
Busy(id) == \E t \in Id : /\ task[t].of = id
                         /\ task[t].pc \in {"submit", "persist", "store", "row"}

SelectOrder(id) ==
    /\ cancel[id].pc = "new"
    /\ rows[id] # None
    /\ cancel' = [cancel EXCEPT ![id] =
                     [pc |-> "book", calm |-> entered[id] = 1 /\ ~Busy(id)]]
    /\ UNCHANGED <<database, engine, conds, task, failures, restarts>>

(* mutant: the entry stays in the queue *)
LeftAlone(queue, id) == queue

TakenOut(queue, id) == Without(queue, id)

CancelInBook(id) ==
    /\ cancel[id].pc = "book"
    /\ book' = TakenOut(book, id)
    /\ cancel' = [cancel EXCEPT ![id].pc = "map"]
    /\ UNCHANGED <<database, executed, entered, struck, conds, task, failures,
                   restarts>>

CancelInMap(id) ==
    /\ cancel[id].pc = "map"
    /\ Writable(id)
    /\ conds' = Dropped(conds, id)
    /\ cancel' = [cancel EXCEPT ![id].pc = "row"]
    /\ UNCHANGED <<database, engine, task, failures, restarts>>

CancelRow(id) ==
    /\ cancel[id].pc = "row"
    /\ rows' = [rows EXCEPT ![id] = "cancelled"]
    /\ cancel' = [cancel EXCEPT ![id].pc = "done"]
    /\ UNCHANGED <<topic, stored, engine, conds, task, failures, restarts>>

CancelRowFails(id) ==
    /\ cancel[id].pc = "row"
    /\ failures < MaxFailures
    /\ failures' = failures + 1
    /\ cancel' = [cancel EXCEPT ![id].pc = "failed"]
    /\ UNCHANGED <<database, engine, conds, task, restarts>>

CancelStep(id) == \/ CancelInBook(id)
                  \/ CancelInMap(id)
                  \/ CancelRow(id)
                  \/ CancelRowFails(id)

-----------------------------------------------------------------------------
(* The surroundings. *)

(* process_trade sets the rows of both orders to filled, with filled =      *)
(* quantity, in one transaction.  The topic has six partitions and messages *)
(* are keyed by trade: they are consumed in any order.  Neither producer    *)
(* nor consumer keeps a message from coming again, and one whose settlement *)
(* fails is gone: a message is consumed any number of times, or never.      *)
Settle ==
    \E trade \in topic :
        /\ rows' = [rows EXCEPT ![trade[1]] = "filled", ![trade[2]] = "filled"]
        /\ UNCHANGED <<topic, stored, engine, conds, task, cancel, failures, restarts>>

(* Books and conditional orders are in memory only, and main starts with    *)
(* empty ones.                                                              *)
Restart ==
    /\ restarts < MaxRestarts
    /\ restarts' = restarts + 1
    /\ book' = << >>
    /\ conds' = << >>
    /\ task' = [t \in Id |-> IF task[t].pc \in Ended THEN task[t]
                              ELSE [task[t] EXCEPT !.pc = "lost"]]
    /\ cancel' = [id \in Cancels |-> IF cancel[id].pc \in Ended THEN cancel[id]
                                      ELSE [cancel[id] EXCEPT !.pc = "lost"]]
    /\ UNCHANGED <<rows, topic, stored, executed, entered, struck, failures>>

-----------------------------------------------------------------------------

Init == /\ rows = [id \in Id |-> None]
        /\ book = << >>
        /\ executed = [id \in Id |-> 0]
        /\ entered = [id \in Id |-> 0]
        /\ struck = {}
        /\ conds = << >>
        /\ topic = {}
        /\ stored = {}
        /\ task = [t \in Id |-> Fresh]
        /\ cancel = [id \in Cancels |-> [pc |-> "new", calm |-> FALSE]]
        /\ failures = 0
        /\ restarts = 0

(* TLC is slow to find out whether a submit is possible: it comes last.     *)
HandlerStep == \/ \E id \in Cancels : CancelStep(id)
               \/ \E t \in Id : OtherStep(t)
               \/ \E t \in Id : SubmitOrder(t)

Next == \/ \E t \in Id : InsertOrder(t)
        \/ \E id \in Cancels : SelectOrder(id)
        \/ HandlerStep
        \/ Settle
        \/ Restart

(* As long as a handler can go on, one of them is polled; clients need not  *)
(* send anything, and settlement need not keep up.                          *)
Spec == Init /\ [][Next]_vars /\ WF_vars(HandlerStep)

-----------------------------------------------------------------------------
(* Properties. *)

Pc == Ended \cup {"peek", "register", "submit", "persist", "store", "row", "oco",
                  "ocorow", "ocomap", "scan", "fire"}

Trade == Id \X Id

TypeOK ==
    /\ rows \in [Id -> RowStatus]
    /\ book \in Seq(Id)
    /\ executed \in [Id -> Nat]
    /\ \A id \in Id : executed[id] <= Requests[id].quantity
    /\ entered \in [Id -> Nat]
    /\ struck \subseteq Trade
    /\ DOMAIN conds \subseteq {id \in Id : IsConditional(id)}
    /\ \A id \in DOMAIN conds : conds[id] \in Nat
    /\ topic \subseteq Trade
    /\ stored \subseteq Trade
    /\ task \in [Id -> [pc : Pc, of : Id \cup {0}, todo : Seq(Trade), met : BOOLEAN,
                        price : Nat, shard : 0 .. Shards, seen : SUBSET Id,
                        fire : Seq(Id), sure : BOOLEAN]]
    /\ cancel \in [Cancels -> [pc : Ended \cup {"book", "map", "row"},
                               calm : BOOLEAN]]

(* No order enters the book twice: several trades may trigger the same stop *)
(* order at once, and every handler that saw it tries to submit it, but     *)
(* only the one that removes it from the map does (lib.rs:579-594).         *)
EntersOnce ==
    \A id \in Id : /\ entered[id] <= 1
                   /\ entered[id] = 1 => id \notin DOMAIN conds

(* A trade of the engine is on the topic that settlement reads, or on the   *)
(* list of a handler that still has to send it, as long as no call failed   *)
(* and no process died; and what the trades table shows was sent.           *)
TradesReachTopic ==
    /\ stored \subseteq topic
    /\ failures = 0 /\ restarts = 0 =>
          \A trade \in struck :
              \/ trade \in topic
              \/ \E t \in Id : /\ trade \in Range(task[t].todo)
                              /\ task[t].pc \in {"persist", "store"}

(* An order that was in the book, with its row written, when cancel_order   *)
(* was called is gone once the client is told so: it rests nowhere and its  *)
(* row does not say open, also if it was triggered, linked, traded or       *)
(* settled meanwhile (lib.rs:640-659).                                      *)
CancelledIsGone ==
    \A id \in Cancels :
        cancel[id].pc = "done" /\ cancel[id].calm =>
            /\ ~Resting(id)
            /\ id \notin DOMAIN conds
            /\ rows[id] \in {"cancelled", "filled"}

(* An order that trades on arrival takes the order it is linked to off the  *)
(* book, and off the list of open orders, before its client is answered, if *)
(* the linked order was answered before and no call failed (lib.rs:501-505, *)
(* 516-536).                                                                *)
TakerCancelsLink ==
    \A t \in Id :
        LET link == Requests[t].link
        IN  /\ task[t].pc = "done"
            /\ task[t].sure
            /\ failures = 0
            /\ ~IsConditional(t)
            /\ ~IsConditional(link)
            /\ \E m \in Id : <<t, m>> \in struck
            => ~Resting(link) /\ rows[link] \in {"cancelled", "filled"}

Running == \/ \E t \in Id : task[t].pc \notin Ended
           \/ \E id \in Cancels : cancel[id].pc \notin Ended

(* A scan has only trailing stops before it that were not triggered, and    *)
(* for each of them it needs the lock of the entry it takes for theirs.     *)
NeedsLock(t) == /\ task[t].pc = "scan"
                /\ Unseen(t) # {}
                /\ \A id \in Unseen(t) : Trails(id) /\ ~Triggered(id, task[t].price)

(* Scans that wait for the shards of each other, or one for its own.        *)
Circle == \E S \in SUBSET {t \in Id : NeedsLock(t)} :
             /\ S # {}
             /\ \A t \in S : \E u \in S : Scanning(u, ShardOf[Followed(t)])

(* Every call ends, or a circle of scans keeps it from ending: the loops    *)
(* over trades, entries and triggered orders end, and there is no other way *)
(* to wait for ever for a lock of the map or of the book (lib.rs:538-613,   *)
(* 640-659).                                                                *)
RequestsEnd == Running ~> ~Running \/ Circle

=============================================================================
