-------------------------- MODULE OrderBook_proofs --------------------------
(***************************************************************************)
(* Theorems about OrderBook, for every menu of orders, resolution and      *)
(* number of orders.  In this order: the types, the queues and the trades  *)
(* of the book (Invariance and what it contains), price-time priority,     *)
(* which prices can rest on both sides at once, what the status of an      *)
(* order says, that the book implements PriceTimeExchange, that a          *)
(* fill-or-kill order trades all or nothing, and that the matching loop    *)
(* gets nearer to its end with every step.                                 *)
(***************************************************************************)
EXTENDS OrderBook, SequenceTheorems, NaturalsInduction, Sums, TLAPS

-----------------------------------------------------------------------------
(* The inductive invariant. *)

(* What the record of the order being matched says is what it has traded.   *)
TakerSound ==
    Matching => /\ taker.filled = executed[taker.id]
                /\ taker.filled <= taker.quantity
                /\ taker.quantity + taker.hidden = placed[taker.id].quantity

(* TypeOK without the book. *)
ScalarsOK ==
    /\ placed \in Seq(Order)
    /\ status \in Seq(Status)
    /\ executed \in Seq(Nat)
    /\ Len(status) = Len(placed)
    /\ Len(executed) = Len(placed)
    /\ taker \in [id : Nat, quantity : Nat, filled : Nat, hidden : Nat]
    /\ taker.id \in {0, Len(placed)}
    /\ ~Matching => taker = Idle
    /\ lastPrice \in Nat \cup {NoPrice}
    /\ trades \in Seq([price : Nat, quantity : Nat, buyer : Id, seller : Id])

BookIsFunction == /\ book = [s \in Side |-> book[s]]
                  /\ \A s \in Side : book[s] \in [DOMAIN book[s] -> Seq(Entry)]

Ascending(q) == \A i, j \in DOMAIN q : i < j => q[i].id < q[j].id

EntryOK(s, t, e) == /\ e.id \in Id \ {taker.id}
                    /\ placed[e.id].side = s
                    /\ Tick(e.id) = t
                    /\ e.quantity = placed[e.id].quantity
                    /\ e.filled = executed[e.id]
                    /\ e.filled < e.quantity

LevelOK(s, t, q) == /\ t \in Nat
                    /\ q \in Seq(Entry)
                    /\ Ascending(q)
                    /\ \A i \in DOMAIN q : EntryOK(s, t, q[i])

LevelsOK == \A s \in Side : \A t \in DOMAIN book[s] : LevelOK(s, t, book[s][t])

IInv == /\ ScalarsOK
        /\ BookIsFunction
        /\ LevelsOK
        /\ NeverOverfilled
        /\ TakerSound

LEMMA InvariantParts == IInv => TypeOK /\ RestingSound /\ QueuesByAge
BY DEF IInv, ScalarsOK, BookIsFunction, LevelsOK, LevelOK, EntryOK, Ascending,
       TypeOK, RestingSound, QueuesByAge

-----------------------------------------------------------------------------
(* Queues. *)

(* An order younger than all of a queue may join it at the back.            *)
LEMMA AppendQueue ==
    ASSUME NEW q \in Seq(Entry), NEW e \in Entry, Ascending(q),
           \A i \in DOMAIN q : q[i].id < e.id
    PROVE  /\ Append(q, e) \in Seq(Entry)
           /\ Ascending(Append(q, e))
           /\ \A i \in DOMAIN Append(q, e) :
                 \/ i \in DOMAIN q /\ Append(q, e)[i] = q[i]
                 \/ Append(q, e)[i] = e
BY DEF Ascending

LEMMA TailQueue ==
    ASSUME NEW q \in Seq(Entry), q # << >>, Ascending(q)
    PROVE  /\ Tail(q) \in Seq(Entry)
           /\ Ascending(Tail(q))
           /\ \A i \in DOMAIN Tail(q) :
                 i + 1 \in DOMAIN q \ {1} /\ Tail(q)[i] = q[i + 1]
BY DEF Ascending

LEMMA RemoveQueue ==
    ASSUME NEW q \in Seq(Entry), NEW i \in DOMAIN q, Ascending(q)
    PROVE  /\ Removed(q, i) \in Seq(Entry)
           /\ Ascending(Removed(q, i))
           /\ \A k \in DOMAIN Removed(q, i) :
                 \E m \in DOMAIN q : Removed(q, i)[k] = q[m]
<1>1. /\ Len(q) \in Nat
      /\ DOMAIN q = 1 .. Len(q)
      /\ i \in 1 .. Len(q)
      /\ \A m \in 1 .. Len(q) : q[m] \in Entry
  OBVIOUS
<1>2. \A k \in 1 .. Len(q) - 1 :
         /\ k \in 1 .. Len(q)
         /\ k + 1 \in 1 .. Len(q)
         /\ Removed(q, i)[k] = IF k < i THEN q[k] ELSE q[k + 1]
  BY <1>1 DEF Removed
<1>3. /\ Removed(q, i) \in [1 .. Len(q) - 1 -> Entry]
      /\ Len(q) - 1 \in Nat
  BY <1>1, <1>2 DEF Removed
<1>4. /\ Removed(q, i) \in Seq(Entry)
      /\ DOMAIN Removed(q, i) = 1 .. Len(q) - 1
  BY <1>3
<1>5. Ascending(Removed(q, i))
  <2> SUFFICES ASSUME NEW k \in 1 .. Len(q) - 1, NEW l \in 1 .. Len(q) - 1, k < l
               PROVE  Removed(q, i)[k].id < Removed(q, i)[l].id
    BY <1>4 DEF Ascending
  <2>1. \A m, n \in 1 .. Len(q) : m < n => q[m].id < q[n].id
    BY <1>1 DEF Ascending
  <2>2. CASE l < i
    BY <1>1, <1>2, <2>1, <2>2
  <2>3. CASE k < i /\ ~(l < i)
    <3>1. k < l + 1
      BY <1>1
    <3> QED BY <3>1, <1>2, <2>1, <2>3
  <2>4. CASE ~(k < i)
    <3>1. k + 1 < l + 1 /\ ~(l < i)
      BY <1>1, <2>4
    <3> QED BY <3>1, <1>2, <2>1, <2>4
  <2> QED BY <2>2, <2>3, <2>4
<1>6. \A k \in DOMAIN Removed(q, i) :
         \E m \in DOMAIN q : Removed(q, i)[k] = q[m]
  BY <1>1, <1>2, <1>4
<1> QED BY <1>4, <1>5, <1>6

-----------------------------------------------------------------------------
(* A step that leaves the book alone. *)

EntriesKept == \A s, u, x : EntryOK(s, u, x) => EntryOK(s, u, x)'

LEMMA BookKept ==
    ASSUME IInv, EntriesKept, book' = book
    PROVE  BookIsFunction' /\ LevelsOK'
<1>1. BookIsFunction'
  BY DEF IInv, BookIsFunction
<1>2. ASSUME NEW s \in Side, NEW t \in DOMAIN book'[s]
      PROVE  LevelOK(s, t, book[s][t])'
  <2>1. PICK q : q = book[s][t]
    OBVIOUS
  <2>2. LevelOK(s, t, q)
    BY <1>2, <2>1 DEF IInv, LevelsOK
  <2>3. \A i \in DOMAIN q : EntryOK(s, t, q[i])'
    BY <2>2 DEF LevelOK, EntriesKept
  <2>4. LevelOK(s, t, q)'
    BY <2>2, <2>3 DEF LevelOK
  <2> QED BY <2>1, <2>4 DEF LevelOK, EntryOK
<1> QED BY <1>1, <1>2 DEF LevelsOK

-----------------------------------------------------------------------------
(* Orders that enter the book. *)

LEMMA EnterFacts ==
    ASSUME IInv, NEW o \in Menu, NEW st \in Status, Enter(o, st)
    PROVE  /\ o \in Order
           /\ Len(placed) \in Nat
           /\ Len(placed') = Len(placed) + 1
           /\ Len(executed') = Len(placed) + 1
           /\ Len(status') = Len(placed) + 1
           /\ placed' \in Seq(Order)
           /\ executed' \in Seq(Nat)
           /\ status' \in Seq(Status)
           /\ \A id \in Id : placed'[id] = placed[id] /\ executed'[id] = executed[id]
           /\ placed'[Len(placed) + 1] = o
           /\ executed'[Len(placed) + 1] = 0
           /\ trades' = << >>
           /\ lastPrice' \in Nat \cup {NoPrice}
           /\ taker = Idle
BY MenuAssumption DEF IInv, ScalarsOK, Enter, Id

LEMMA EnterKeepsEntries ==
    ASSUME IInv, NEW o \in Menu, NEW st \in Status, Enter(o, st),
           taker'.id \in {0, Len(placed) + 1},
           NEW s, NEW t, NEW e, EntryOK(s, t, e)
    PROVE  EntryOK(s, t, e)'
<1>1. /\ e.id \in 1 .. Len(placed)
      /\ placed[e.id].side = s
      /\ PriceToTicks(placed[e.id].price) = t
      /\ e.quantity = placed[e.id].quantity
      /\ e.filled = executed[e.id]
      /\ e.filled < e.quantity
  BY DEF EntryOK, Id, Tick
<1>2. /\ Len(placed) \in Nat
      /\ Len(placed') = Len(placed) + 1
      /\ placed'[e.id] = placed[e.id]
      /\ executed'[e.id] = executed[e.id]
  BY <1>1, EnterFacts DEF Id
<1>3. e.id \in 1 .. Len(placed') /\ e.id # taker'.id
  BY <1>1, <1>2
<1> QED BY <1>1, <1>2, <1>3 DEF EntryOK, Id, Tick

(* What does not depend on where the new order goes.                        *)
LEMMA EnterKeepsScalars ==
    ASSUME IInv, NEW o \in Menu, NEW st \in Status, Enter(o, st),
           \/ taker' = Idle
           \/ /\ taker' \in [id : Nat, quantity : Nat, filled : Nat, hidden : Nat]
              /\ taker'.id = Len(placed) + 1
    PROVE  ScalarsOK' /\ NeverOverfilled'
<1>1. ScalarsOK'
  <2>1. Idle \in [id : Nat, quantity : Nat, filled : Nat, hidden : Nat] /\ Idle.id = 0
    BY DEF Idle
  <2>2. << >> \in Seq([price : Nat, quantity : Nat, buyer : Id', seller : Id'])
    OBVIOUS
  <2>3. taker'.id \in {0, Len(placed')} /\ (~Matching' => taker' = Idle)
    BY <2>1, EnterFacts DEF Matching
  <2> QED BY <2>1, <2>2, <2>3, EnterFacts DEF ScalarsOK
<1>2. NeverOverfilled'
  <2>1. \A id \in Id' : id \in Id \/ id = Len(placed) + 1
    BY EnterFacts DEF Id
  <2>2. \A id \in Id : executed'[id] <= placed'[id].quantity
    BY EnterFacts DEF IInv, NeverOverfilled
  <2>3. executed'[Len(placed) + 1] <= placed'[Len(placed) + 1].quantity
    BY EnterFacts DEF Order
  <2> QED BY <2>1, <2>2, <2>3 DEF NeverOverfilled
<1> QED BY <1>1, <1>2

LEMMA RejectPostOnlyStep ==
    ASSUME IInv, NEW o \in Menu, RejectPostOnly(o)
    PROVE  IInv'
<1>1. Enter(o, "Rejected") /\ book' = book /\ taker' = taker /\ "Rejected" \in Status
  BY DEF RejectPostOnly, Status
<1>2. taker' = Idle /\ taker'.id = 0
  BY <1>1 DEF Enter, Idle
<1>3. EntriesKept
  BY <1>1, <1>2, EnterKeepsEntries DEF EntriesKept
<1>4. TakerSound'
  BY <1>2 DEF TakerSound, Matching
<1> QED BY <1>1, <1>2, <1>3, <1>4, EnterKeepsScalars, BookKept DEF IInv

LEMMA KillFokStep ==
    ASSUME IInv, NEW o \in Menu, KillFok(o)
    PROVE  IInv'
<1>1. Enter(o, "Cancelled") /\ book' = book /\ taker' = taker /\ "Cancelled" \in Status
  BY DEF KillFok, Status
<1>2. taker' = Idle /\ taker'.id = 0
  BY <1>1 DEF Enter, Idle
<1>3. EntriesKept
  BY <1>1, <1>2, EnterKeepsEntries DEF EntriesKept
<1>4. TakerSound'
  BY <1>2 DEF TakerSound, Matching
<1> QED BY <1>1, <1>2, <1>3, <1>4, EnterKeepsScalars, BookKept DEF IInv

LEMMA StartMatchingStep ==
    ASSUME IInv, NEW o \in Menu, StartMatching(o)
    PROVE  IInv'
<1>1. Enter(o, "Open") /\ book' = book /\ "Open" \in Status
  BY DEF StartMatching, Status
<1>2. o \in Order /\ Visible(o) \in 0 .. o.quantity
  BY MenuAssumption DEF Order, Visible, Smaller
<1>3. taker' = [id |-> Len(placed) + 1, quantity |-> Visible(o), filled |-> 0,
                hidden |-> o.quantity - Visible(o)]
  BY DEF StartMatching
<1>4. /\ taker' \in [id : Nat, quantity : Nat, filled : Nat, hidden : Nat]
      /\ taker'.id = Len(placed) + 1
  BY <1>1, <1>2, <1>3, EnterFacts DEF Order
<1>5. TakerSound'
  <2>1. placed'[taker'.id] = o /\ executed'[taker'.id] = 0
    BY <1>1, <1>4, EnterFacts
  <2> QED BY <2>1, <1>2, <1>3 DEF TakerSound, Order
<1>6. EntriesKept
  BY <1>1, <1>4, EnterKeepsEntries DEF EntriesKept
<1> QED BY <1>1, <1>4, <1>5, <1>6, EnterKeepsScalars, BookKept DEF IInv

-----------------------------------------------------------------------------
(* Orders that come to rest. *)

(* A queue that its level's next order joins stays well formed.  The facts  *)
(* are about the next state, where the order may be the one just placed.    *)
LEMMA JoinLevel ==
    ASSUME NEW s \in Side, NEW t \in Nat, NEW q, NEW e \in Entry,
           q \in Seq(Entry), Ascending(q),
           \A i \in DOMAIN q : q[i].id < e.id /\ EntryOK(s, t, q[i])',
           EntryOK(s, t, e)'
    PROVE  LevelOK(s, t, Append(q, e))'
<1>1. /\ Append(q, e) \in Seq(Entry)
      /\ Ascending(Append(q, e))
      /\ \A i \in DOMAIN Append(q, e) :
            \/ i \in DOMAIN q /\ Append(q, e)[i] = q[i]
            \/ Append(q, e)[i] = e
  BY AppendQueue
<1>2. \A i \in DOMAIN Append(q, e) : EntryOK(s, t, Append(q, e)[i])'
  BY <1>1 DEF EntryOK
<1> QED BY <1>1, <1>2 DEF LevelOK

(* b is the book with at most an empty level t more. *)
ExtendsBook(b, t) ==
    /\ DOMAIN b = Side
    /\ \A s \in Side :
          /\ b[s] \in [DOMAIN b[s] -> Seq(Entry)]
          /\ \A u \in DOMAIN book[s] : u \in DOMAIN b[s] /\ b[s][u] = book[s][u]
          /\ \A u \in DOMAIN b[s] \ DOMAIN book[s] : u = t /\ b[s][u] = << >>

AllOlder(id) ==
    \A s \in Side : \A u \in DOMAIN book[s] :
        \A i \in DOMAIN book[s][u] : book[s][u][i].id < id

(* One order joins one level, a level may be opened, the rest is as before. *)
JoinsLevel(side, t, e) ==
    \A s \in Side : \A u \in DOMAIN book'[s] :
        \/ u \in DOMAIN book[s] /\ book'[s][u] = book[s][u]
        \/ u = t /\ book'[s][u] = << >>
        \/ /\ s = side
           /\ u = t
           /\ book'[s][u] =
                Append(IF t \in DOMAIN book[s] THEN book[s][t] ELSE << >>, e)

LEMMA JoinBook ==
    ASSUME NEW side \in Side, NEW t \in Nat, NEW e \in Entry,
           LevelsOK, EntriesKept, EntryOK(side, t, e)', AllOlder(e.id),
           JoinsLevel(side, t, e)
    PROVE  LevelsOK'
<1> SUFFICES ASSUME NEW s \in Side, NEW u \in DOMAIN book'[s]
             PROVE  LevelOK(s, u, book[s][u])'
  BY DEF LevelsOK
<1>1. PICK old : old = book[s][u]
  OBVIOUS
<1>2. PICK new : new = book'[s][u]
  OBVIOUS
<1>3. ASSUME u \in DOMAIN book[s]
      PROVE  /\ LevelOK(s, u, old)
             /\ \A i \in DOMAIN old : old[i].id < e.id /\ EntryOK(s, u, old[i])'
  <2>1. LevelOK(s, u, old)
    BY <1>1, <1>3 DEF LevelsOK
  <2>2. \A i \in DOMAIN old : EntryOK(s, u, old[i])
    BY <2>1 DEF LevelOK
  <2>3. \A i \in DOMAIN old : EntryOK(s, u, old[i])'
    BY <2>2 DEF EntriesKept
  <2> QED BY <2>1, <2>3, <1>1, <1>3 DEF AllOlder
<1>4. LevelOK(s, u, new)'
  <2>1. CASE u \in DOMAIN book[s] /\ new = old
    BY <1>3, <2>1 DEF LevelOK
  <2>2. CASE u = t /\ new = << >>
    BY <2>2 DEF LevelOK, Ascending
  <2>3. CASE s = side /\ u = t /\ u \in DOMAIN book[s] /\ new = Append(old, e)
    BY <1>3, <2>3, JoinLevel DEF LevelOK
  <2>4. CASE s = side /\ u = t /\ new = Append(<< >>, e)
    <3>1. << >> \in Seq(Entry) /\ Ascending(<< >>) /\ DOMAIN << >> = {}
      BY DEF Ascending
    <3> QED BY <3>1, <2>4, JoinLevel
  <2> QED BY <1>1, <1>2, <2>1, <2>2, <2>3, <2>4 DEF JoinsLevel
<1> QED BY <1>2, <1>4 DEF LevelOK, EntryOK

LEMMA TickIsNat == ASSUME NEW p \in Nat PROVE PriceToTicks(p) \in Nat
BY ResolutionAssumption DEF PriceToTicks

(* What the book is after an order has come to rest. *)
LEMMA RestedBook ==
    ASSUME NEW side \in Side, NEW t \in Nat, NEW e \in Entry, NEW b,
           ExtendsBook(b, t), book' = [b EXCEPT ![side] = Rested(@, t, e)]
    PROVE  BookIsFunction' /\ JoinsLevel(side, t, e)
<1> DEFINE r == Rested(b[side], t, e)
<1>1. /\ r \in [DOMAIN b[side] \cup {t} -> Seq(Entry)]
      /\ \A u \in DOMAIN b[side] \ {t} : r[u] = b[side][u]
      /\ r[t] = Append(IF t \in DOMAIN b[side] THEN b[side][t] ELSE << >>, e)
  <2>1. b[side] \in [DOMAIN b[side] -> Seq(Entry)]
    BY DEF ExtendsBook
  <2> QED BY ONLY <2>1, t \in Nat, e \in Entry DEF Rested, Opened
<1>2. /\ DOMAIN book' = Side
      /\ book'[side] = r
      /\ \A s \in Side \ {side} : book'[s] = b[s]
      /\ book' = [s \in Side |-> book'[s]]
  BY DEF ExtendsBook
<1> HIDE DEF r
<1>3. BookIsFunction'
  <2>1. \A s \in Side : book'[s] \in [DOMAIN book'[s] -> Seq(Entry)]
    BY <1>1, <1>2 DEF ExtendsBook
  <2> QED BY <1>2, <2>1 DEF BookIsFunction
<1>4. ASSUME NEW s \in Side, NEW u \in DOMAIN book'[s]
      PROVE  \/ u \in DOMAIN book[s] /\ book'[s][u] = book[s][u]
             \/ u = t /\ book'[s][u] = << >>
             \/ /\ s = side
                /\ u = t
                /\ book'[s][u] =
                     Append(IF t \in DOMAIN book[s] THEN book[s][t] ELSE << >>, e)
  <2>1. CASE s # side
    BY <2>1, <1>2, <1>4 DEF ExtendsBook
  <2>2. CASE s = side /\ u # t
    BY <2>2, <1>1, <1>2, <1>4 DEF ExtendsBook
  <2>3. CASE s = side /\ u = t
    <3>1. (IF t \in DOMAIN b[s] THEN b[s][t] ELSE << >>)
            = (IF t \in DOMAIN book[s] THEN book[s][t] ELSE << >>)
      BY DEF ExtendsBook
    <3> QED BY <3>1, <2>3, <1>1, <1>2
  <2> QED BY <2>1, <2>2, <2>3
<1> QED BY <1>3, <1>4 DEF JoinsLevel

LEMMA RestInBook ==
    ASSUME NEW side \in Side, NEW t \in Nat, NEW e \in Entry, NEW b,
           IInv, ExtendsBook(b, t), EntriesKept, EntryOK(side, t, e)', AllOlder(e.id),
           book' = [b EXCEPT ![side] = Rested(@, t, e)]
    PROVE  BookIsFunction' /\ LevelsOK'
<1>1. BookIsFunction' /\ JoinsLevel(side, t, e)
  BY RestedBook
<1>2. LevelsOK
  BY DEF IInv
<1> QED BY <1>1, <1>2, JoinBook

(* PostOnly opens a level among the bids. *)
LEMMA OpenedBook ==
    ASSUME IInv, NEW t, NEW b, b = [book EXCEPT !["Buy"] = Opened(@, t)]
    PROVE  ExtendsBook(b, t)
<1>1. /\ DOMAIN book = Side
      /\ \A s \in Side : book[s] \in [DOMAIN book[s] -> Seq(Entry)]
  BY DEF IInv, BookIsFunction
<1>2. /\ DOMAIN b = Side
      /\ b["Buy"] = Opened(book["Buy"], t)
      /\ b["Sell"] = book["Sell"]
  BY <1>1 DEF Side
<1> SUFFICES ASSUME NEW s \in Side
             PROVE  /\ b[s] \in [DOMAIN b[s] -> Seq(Entry)]
                    /\ \A u \in DOMAIN book[s] :
                          u \in DOMAIN b[s] /\ b[s][u] = book[s][u]
                    /\ \A u \in DOMAIN b[s] \ DOMAIN book[s] :
                          u = t /\ b[s][u] = << >>
  BY <1>2 DEF ExtendsBook
<1>3. /\ Opened(book["Buy"], t) \in [DOMAIN book["Buy"] \cup {t} -> Seq(Entry)]
      /\ \A u \in DOMAIN book["Buy"] : Opened(book["Buy"], t)[u] = book["Buy"][u]
      /\ t \notin DOMAIN book["Buy"] => Opened(book["Buy"], t)[t] = << >>
  <2>1. book["Buy"] \in [DOMAIN book["Buy"] -> Seq(Entry)]
    BY <1>1 DEF Side
  <2> QED BY ONLY <2>1 DEF Opened
<1>4. CASE s = "Buy"
  BY <1>3, <1>4, <1>2
<1>5. CASE s = "Sell"
  BY <1>5, <1>1, <1>2
<1> QED BY <1>4, <1>5 DEF Side

LEMMA RestPostOnlyStep ==
    ASSUME IInv, NEW o \in Menu, RestPostOnly(o)
    PROVE  IInv'
<1> DEFINE t == PriceToTicks(o.price)
<1>1. PICK e : e = [id |-> Len(placed) + 1, quantity |-> o.quantity, filled |-> 0]
  OBVIOUS
<1>2. PICK b : b = [book EXCEPT !["Buy"] = Opened(@, t)]
  OBVIOUS
<1>3. /\ Enter(o, "Open")
      /\ "Open" \in Status
      /\ taker' = taker
      /\ book' = [b EXCEPT ![o.side] = Rested(@, t, e)]
  BY <1>1, <1>2 DEF RestPostOnly, Status
<1>4. taker' = Idle /\ taker'.id = 0
  BY <1>3 DEF Enter, Idle
<1>5. /\ t \in Nat
      /\ o.side \in Side
      /\ e \in Entry
  BY <1>1, <1>3, EnterFacts, TickIsNat DEF Order, Entry
<1> HIDE DEF t
<1>6. ExtendsBook(b, t)
  BY <1>2, OpenedBook
<1>7. EntriesKept
  BY <1>3, <1>4, EnterKeepsEntries DEF EntriesKept
<1>8. EntryOK(o.side, t, e)'
  BY <1>1, <1>3, <1>4, EnterFacts DEF EntryOK, Id, Tick, t, Order
<1>9. AllOlder(e.id)
  BY <1>1, <1>3, EnterFacts DEF AllOlder, IInv, LevelsOK, LevelOK, EntryOK, Id
<1>10. BookIsFunction' /\ LevelsOK'
  BY <1>3, <1>5, <1>6, <1>7, <1>8, <1>9, RestInBook
<1>11. TakerSound'
  BY <1>4 DEF TakerSound, Matching
<1> QED BY <1>3, <1>4, <1>10, <1>11, EnterKeepsScalars DEF IInv

-----------------------------------------------------------------------------
(* The order being matched. *)

LEMMA MatchingFacts ==
    ASSUME IInv, Matching
    PROVE  /\ taker.id \in Id
           /\ taker.id = Len(placed)
           /\ Len(placed) \in Nat
           /\ placed[taker.id] \in Order
           /\ Us \in Side
           /\ Them \in Side
           /\ taker.quantity \in Nat
           /\ taker.filled \in Nat
           /\ taker.hidden \in Nat
           /\ taker.filled = executed[taker.id]
           /\ taker.filled <= taker.quantity
           /\ taker.quantity + taker.hidden = placed[taker.id].quantity
<1>1. taker.id \in Id /\ taker.id = Len(placed) /\ Len(placed) \in Nat
  BY DEF IInv, ScalarsOK, Matching, Id
<1>2. placed[taker.id] \in Order
  BY <1>1 DEF IInv, ScalarsOK, Id
<1>3. Us \in Side /\ Them \in Side
  BY <1>2 DEF Us, Them, Opposite, Side, Order
<1> QED BY <1>1, <1>2, <1>3 DEF IInv, ScalarsOK, TakerSound

(* When the mutex is given back, what a resting order is does not change.   *)
LEMMA IdleKeepsEntries ==
    ASSUME IInv, taker' = Idle, placed' = placed, executed' = executed
    PROVE  EntriesKept
<1>1. \A id \in Id : id # taker'.id
  BY DEF Idle, Id, IInv, ScalarsOK
<1> QED BY <1>1 DEF EntriesKept, EntryOK, Id, Tick

LEMMA RestRemainderStep ==
    ASSUME IInv, RestRemainder
    PROVE  IInv'
<1>1. Matching
  BY DEF RestRemainder, LoopEnds
<1>2. PICK side : side = Us
  OBVIOUS
<1>3. PICK t : t = PriceToTicks(placed[taker.id].price)
  OBVIOUS
<1>4. PICK e : e = Remainder
  OBVIOUS
<1>5. PICK b : b = book
  OBVIOUS
<1>6. /\ side \in Side
      /\ t \in Nat
      /\ e \in Entry
  <2>1. placed[taker.id].price \in Nat
    BY <1>1, MatchingFacts DEF Order
  <2>2. Remainder \in Entry
    BY <1>1, MatchingFacts DEF Entry, Remainder, Id
  <2> QED BY <1>1, <1>2, <1>3, <1>4, <2>1, <2>2, MatchingFacts, TickIsNat
<1>7. /\ book' = [b EXCEPT ![side] = Rested(@, t, e)]
      /\ taker' = Idle
      /\ placed' = placed
      /\ executed' = executed
      /\ UNCHANGED <<status, lastPrice, trades>>
      /\ taker.filled < taker.quantity
  BY <1>2, <1>3, <1>4, <1>5 DEF RestRemainder, Rests, Unfilled
<1>8. ExtendsBook(b, t)
  BY <1>5 DEF ExtendsBook, IInv, BookIsFunction
<1>9. EntriesKept
  BY <1>7, IdleKeepsEntries
<1>10. EntryOK(side, t, e)'
  <2>1. e.id \in Id' \ {taker'.id}
    BY <1>1, <1>4, <1>7, MatchingFacts DEF Remainder, Id, Idle
  <2> QED
    BY <2>1, <1>1, <1>2, <1>3, <1>4, <1>7, MatchingFacts
    DEF EntryOK, Tick, Remainder, Us
<1>11. AllOlder(e.id)
  BY <1>1, <1>4, MatchingFacts
  DEF AllOlder, IInv, LevelsOK, LevelOK, EntryOK, Id, Remainder
<1>12. BookIsFunction' /\ LevelsOK'
  BY <1>6, <1>7, <1>8, <1>9, <1>10, <1>11, RestInBook
<1>13. ScalarsOK'
  BY <1>7 DEF IInv, ScalarsOK, Idle, Matching, Id
<1>14. NeverOverfilled' /\ TakerSound'
  BY <1>7 DEF IInv, NeverOverfilled, TakerSound, Matching, Id, Idle
<1> QED BY <1>12, <1>13, <1>14 DEF IInv

LEMMA DropRemainderStep ==
    ASSUME IInv, DropRemainder
    PROVE  IInv'
<1>1. /\ taker' = Idle
      /\ placed' = placed
      /\ executed' = executed
      /\ UNCHANGED <<book, lastPrice, trades>>
      /\ Matching
  BY DEF DropRemainder, LoopEnds
<1>2. status' \in Seq(Status) /\ Len(status') = Len(status)
  <2>1. status \in Seq(Status) /\ "Cancelled" \in Status /\ taker.id \in 1 .. Len(status)
    BY <1>1, MatchingFacts DEF IInv, ScalarsOK, Id, Status
  <2>2. status' = [status EXCEPT ![taker.id] = "Cancelled"] \/ status' = status
    BY DEF DropRemainder
  <2> QED BY <2>1, <2>2
<1>3. ScalarsOK'
  BY <1>1, <1>2 DEF IInv, ScalarsOK, Idle, Matching, Id
<1>4. BookIsFunction' /\ LevelsOK'
  BY <1>1, IdleKeepsEntries, BookKept
<1>5. NeverOverfilled' /\ TakerSound'
  BY <1>1 DEF IInv, NeverOverfilled, TakerSound, Matching, Id, Idle
<1> QED BY <1>3, <1>4, <1>5 DEF IInv

-----------------------------------------------------------------------------
(* A level whose queue is replaced. *)

(* One queue is replaced or, when empty, removed. *)
Replaces(side, t, q) ==
    /\ \A s \in Side \ {side} : book'[s] = book[s]
    /\ DOMAIN book'[side] \subseteq DOMAIN book[side]
    /\ \A u \in DOMAIN book'[side] :
          book'[side][u] = IF u = t THEN q ELSE book[side][u]

LEMMA SettledBook ==
    ASSUME NEW side \in Side, NEW t, NEW q \in Seq(Entry), IInv, t \in DOMAIN book[side],
           book' = [book EXCEPT ![side] = Settled(@, t, q)]
    PROVE  BookIsFunction' /\ Replaces(side, t, q)
<1>1. /\ DOMAIN book = Side
      /\ \A s \in Side : book[s] \in [DOMAIN book[s] -> Seq(Entry)]
  BY DEF IInv, BookIsFunction
<1>2. /\ DOMAIN book' = Side
      /\ book'[side] = Settled(book[side], t, q)
      /\ \A s \in Side \ {side} : book'[s] = book[s]
      /\ book' = [s \in Side |-> book'[s]]
  BY <1>1
<1>3. /\ book'[side] \in [DOMAIN book'[side] -> Seq(Entry)]
      /\ DOMAIN book'[side] \subseteq DOMAIN book[side]
      /\ \A u \in DOMAIN book'[side] :
            book'[side][u] = IF u = t THEN q ELSE book[side][u]
  <2>1. CASE q = << >>
    <3>1. book'[side] = [u \in DOMAIN book[side] \ {t} |-> book[side][u]]
      BY <2>1, <1>2 DEF Settled, Without
    <3>2. book[side] \in [DOMAIN book[side] -> Seq(Entry)]
      BY <1>1
    <3> QED BY ONLY <3>1, <3>2
  <2>2. CASE q # << >>
    <3>1. book'[side] = [book[side] EXCEPT ![t] = q]
      BY <2>2, <1>2 DEF Settled
    <3>2. book[side] \in [DOMAIN book[side] -> Seq(Entry)]
      BY <1>1
    <3> QED BY ONLY <3>1, <3>2, t \in DOMAIN book[side], q \in Seq(Entry)
  <2> QED BY <2>1, <2>2
<1>4. BookIsFunction'
  BY <1>1, <1>2, <1>3 DEF BookIsFunction
<1> QED BY <1>2, <1>3, <1>4 DEF Replaces

(* The orders of the other levels stay what they are. *)
OthersKept(side, t) ==
    \A s \in Side : \A u \in DOMAIN book[s] : \A x :
        (s # side \/ u # t) /\ (\E i \in DOMAIN book[s][u] : x = book[s][u][i])
            => EntryOK(s, u, x)'

LEMMA ReplaceQueue ==
    ASSUME NEW side \in Side, NEW t \in Nat, NEW q \in Seq(Entry),
           IInv, t \in DOMAIN book[side], OthersKept(side, t), Ascending(q),
           \A i \in DOMAIN q : EntryOK(side, t, q[i])',
           book' = [book EXCEPT ![side] = Settled(@, t, q)]
    PROVE  BookIsFunction' /\ LevelsOK'
<1>1. BookIsFunction' /\ Replaces(side, t, q)
  BY SettledBook
<1>2. ASSUME NEW s \in Side, NEW u \in DOMAIN book'[s]
      PROVE  LevelOK(s, u, book[s][u])'
  <2>1. PICK new : new = book'[s][u]
    BY ZenonT(30)
  <2>2. CASE s = side /\ u = t
    <3>1. new = q
      BY <2>1, <2>2, <1>1, <1>2 DEF Replaces
    <3>2. LevelOK(s, u, new)'
      BY <3>1, <2>2 DEF LevelOK
    <3> QED BY <3>2, <2>1 DEF LevelOK, EntryOK
  <2>3. CASE s # side \/ u # t
    <3>1. u \in DOMAIN book[s] /\ new = book[s][u]
      BY <2>1, <2>3, <1>1, <1>2 DEF Replaces
    <3>2. LevelOK(s, u, new)
      BY <3>1 DEF IInv, LevelsOK
    <3>3. \A i \in DOMAIN new : EntryOK(s, u, new[i])'
      BY <3>1, <2>3 DEF OthersKept
    <3>4. LevelOK(s, u, new)'
      BY <3>2, <3>3 DEF LevelOK
    <3> QED BY <3>4, <2>1 DEF LevelOK, EntryOK
  <2> QED BY <2>2, <2>3
<1> QED BY <1>1, <1>2 DEF LevelsOK

LEMMA KeptAreOthersKept ==
    ASSUME IInv, EntriesKept, NEW side, NEW t
    PROVE  OthersKept(side, t)
<1> SUFFICES ASSUME NEW s \in Side, NEW u \in DOMAIN book[s], NEW x,
                    NEW i \in DOMAIN book[s][u], x = book[s][u][i]
             PROVE  EntryOK(s, u, x)'
  BY DEF OthersKept
<1>1. EntryOK(s, u, x)
  BY DEF IInv, LevelsOK, LevelOK
<1> QED BY <1>1 DEF EntriesKept

(* Nothing but the book changes. *)
LEMMA OnlyBook ==
    ASSUME IInv, UNCHANGED <<placed, status, lastPrice, taker, trades, executed>>
    PROVE  EntriesKept /\ ScalarsOK' /\ NeverOverfilled' /\ TakerSound'
BY DEF IInv, EntriesKept, EntryOK, ScalarsOK, NeverOverfilled, TakerSound, Matching,
       Id, Tick

LEMMA SweepEmptyLevelStep ==
    ASSUME IInv, SweepEmptyLevel
    PROVE  IInv'
<1>1. PICK side : side = Them
  OBVIOUS
<1>2. PICK t \in DOMAIN book[side] : book' = [book EXCEPT ![side] = Without(@, t)]
  BY <1>1 DEF SweepEmptyLevel
<1>3. side \in Side /\ t \in Nat
  BY <1>1, MatchingFacts DEF SweepEmptyLevel, IInv, LevelsOK, LevelOK
<1>4. << >> \in Seq(Entry) /\ Ascending(<< >>) /\ DOMAIN << >> = {}
  BY DEF Ascending
<1>5. /\ EntriesKept
      /\ ScalarsOK'
      /\ NeverOverfilled'
      /\ TakerSound'
  BY OnlyBook DEF SweepEmptyLevel
<1>6. OthersKept(side, t)
  BY <1>5, KeptAreOthersKept
<1>7. book' = [book EXCEPT ![side] = Settled(@, t, << >>)]
  BY <1>2 DEF Settled
<1>8. BookIsFunction' /\ LevelsOK'
  BY <1>2, <1>3, <1>4, <1>6, <1>7, ReplaceQueue
<1> QED BY <1>5, <1>8 DEF IInv

LEMMA CancelStep ==
    ASSUME IInv, NEW id \in Id, Cancel(id)
    PROVE  IInv'
<1>0a. PICK side \in Side : \E t \in DOMAIN book[side] :
          \E i \in DOMAIN book[side][t] :
             book' = [book EXCEPT ![side] = Settled(@, t, Removed(book[side][t], i))]
  BY DEF Cancel
<1>0b. PICK t \in DOMAIN book[side] : \E i \in DOMAIN book[side][t] :
          book' = [book EXCEPT ![side] = Settled(@, t, Removed(book[side][t], i))]
  BY <1>0a
<1>1. PICK i \in DOMAIN book[side][t] :
         book' = [book EXCEPT ![side] = Settled(@, t, Removed(book[side][t], i))]
  BY <1>0b
<1>2. PICK old : old = book[side][t]
  OBVIOUS
<1>3. /\ t \in Nat
      /\ old \in Seq(Entry)
      /\ Ascending(old)
      /\ \A m \in DOMAIN old : EntryOK(side, t, old[m])
  BY <1>1, <1>2 DEF IInv, LevelsOK, LevelOK
<1>4. PICK q : q = Removed(old, i)
  OBVIOUS
<1>5. /\ q \in Seq(Entry)
      /\ Ascending(q)
      /\ \A k \in DOMAIN q : \E m \in DOMAIN old : q[k] = old[m]
  BY <1>2, <1>3, <1>4, RemoveQueue
<1>6. /\ EntriesKept
      /\ ScalarsOK'
      /\ NeverOverfilled'
      /\ TakerSound'
  BY OnlyBook DEF Cancel
<1>7. \A k \in DOMAIN q : EntryOK(side, t, q[k])'
  BY <1>3, <1>5, <1>6 DEF EntriesKept
<1>8. OthersKept(side, t)
  BY <1>6, KeptAreOthersKept
<1>9. book' = [book EXCEPT ![side] = Settled(@, t, q)]
  BY <1>1, <1>2, <1>4
<1>10. BookIsFunction' /\ LevelsOK'
  BY <1>1, <1>3, <1>5, <1>7, <1>8, <1>9, ReplaceQueue
<1> QED BY <1>6, <1>10 DEF IInv

-----------------------------------------------------------------------------
(* A trade. *)

(* The trade of Match with level t of side, under names of its own.         *)
TradeStep(side, t, queue, maker, q, after, left) ==
    /\ side = Them
    /\ t \in DOMAIN book[side]
    /\ Best(side, t)
    /\ queue = book[side][t]
    /\ queue # << >>
    /\ maker = queue[1]
    /\ taker.filled < taker.quantity
    /\ q = Smaller(Remaining(taker), Remaining(maker))
    /\ after = [maker EXCEPT !.filled = @ + q]
    /\ left = IF after.filled >= after.quantity
              THEN Tail(queue) ELSE [queue EXCEPT ![1] = after]
    /\ taker' = [taker EXCEPT !.filled = @ + q]
    /\ book' = [book EXCEPT ![side] = Settled(@, t, left)]
    /\ status' = [status EXCEPT
           ![maker.id] = FillStatus(after.filled, after.quantity),
           ![taker.id] = FillStatus(taker.filled + q, taker.quantity)]
    /\ executed' = [executed EXCEPT ![maker.id] = @ + q, ![taker.id] = @ + q]
    /\ trades' = Append(trades, TradeOf(t, q, maker.id))
    /\ lastPrice' = TicksToPrice(t)
    /\ UNCHANGED placed

LEMMA MatchIsTrade ==
    ASSUME Match
    PROVE  \E side, t, queue, maker, q, after, left :
              TradeStep(side, t, queue, maker, q, after, left)
<1>1. PICK t \in DOMAIN book[Them] :
         LET queue == book[Them][t]
             maker == Head(queue)
             q     == TradeQuantity(Remaining(taker), Remaining(maker))
             after == [maker EXCEPT !.filled = @ + q]
             left  == IF after.filled >= after.quantity
                      THEN Tail(queue) ELSE [queue EXCEPT ![1] = after]
         IN  /\ Iterate(t)
             /\ queue # << >>
             /\ taker' = [taker EXCEPT !.filled = @ + q]
             /\ book' = [book EXCEPT ![Them] = Settled(@, t, left)]
             /\ status' = [status EXCEPT
                    ![maker.id] = FillStatus(after.filled, after.quantity),
                    ![taker.id] = FillStatus(taker.filled + q, taker.quantity)]
             /\ executed' = [executed EXCEPT ![maker.id] = @ + q,
                                             ![taker.id] = @ + q]
             /\ trades' = Append(trades, TradeOf(t, q, maker.id))
             /\ lastPrice' = TicksToPrice(t)
             /\ UNCHANGED placed
  BY Zenon DEF Match
<1>2. PICK queue : queue = book[Them][t]
  OBVIOUS
<1>3. PICK maker : maker = Head(queue)
  OBVIOUS
<1>4. PICK q : q = TradeQuantity(Remaining(taker), Remaining(maker))
  OBVIOUS
<1>5. PICK after : after = [maker EXCEPT !.filled = @ + q]
  OBVIOUS
<1>6. PICK left : left = IF after.filled >= after.quantity
                         THEN Tail(queue) ELSE [queue EXCEPT ![1] = after]
  OBVIOUS
<1>7. TradeStep(Them, t, queue, maker, q, after, left)
  BY <1>1, <1>2, <1>3, <1>4, <1>5, <1>6 DEF TradeStep, Iterate, TradeQuantity
<1> QED BY <1>7

(* What the trade relates, before and after. *)
TradeSound(side, t, queue, maker, q, after) ==
    /\ side \in Side
    /\ t \in Nat
    /\ queue \in Seq(Entry)
    /\ Ascending(queue)
    /\ \A i \in DOMAIN queue : EntryOK(side, t, queue[i])
    /\ 1 \in DOMAIN queue
    /\ maker \in Entry
    /\ maker.id \in Id
    /\ maker.id # taker.id
    /\ q \in Nat \ {0}
    /\ q <= maker.quantity - maker.filled
    /\ q <= taker.quantity - taker.filled
    /\ after = [id |-> maker.id, quantity |-> maker.quantity, filled |-> maker.filled + q]
    /\ Len(executed') = Len(placed)
    /\ executed' \in Seq(Nat)
    /\ executed'[maker.id] = executed[maker.id] + q
    /\ executed'[taker.id] = executed[taker.id] + q
    /\ \A id \in Id \ {maker.id, taker.id} : executed'[id] = executed[id]

(* One place of a sequence of numbers grows. *)
LEMMA OneGrows ==
    ASSUME NEW e \in Seq(Nat), NEW k \in 1 .. Len(e), NEW q \in Nat
    PROVE  LET f == [e EXCEPT ![k] = e[k] + q]
           IN  /\ f \in Seq(Nat)
               /\ Len(f) = Len(e)
               /\ f[k] = e[k] + q
               /\ \A i \in (1 .. Len(e)) \ {k} : f[i] = e[i]
<1>1. e[k] \in Nat
  BY ElementOfSeq
<1>2. e[k] + q \in Nat
  BY ONLY <1>1, q \in Nat
<1> DEFINE v == e[k] + q
<1> HIDE DEF v
<1>3. v \in Nat
  BY <1>2 DEF v
<1>4. /\ [e EXCEPT ![k] = v] \in Seq(Nat)
      /\ Len([e EXCEPT ![k] = v]) = Len(e)
      /\ \A j \in 1 .. Len(e) : [e EXCEPT ![k] = v][j] = IF j = k THEN v ELSE e[j]
  BY ONLY <1>3, e \in Seq(Nat), k \in 1 .. Len(e), ExceptSeq
<1> QED BY <1>4 DEF v

(* Two places of a sequence of numbers grow by the same amount. *)
LEMMA TwoGrow ==
    ASSUME NEW e \in Seq(Nat), NEW m \in 1 .. Len(e), NEW k \in 1 .. Len(e), m # k,
           NEW q \in Nat,
           NEW f, f = [e EXCEPT ![m] = @ + q, ![k] = @ + q]
    PROVE  /\ f \in Seq(Nat)
           /\ Len(f) = Len(e)
           /\ f[m] = e[m] + q
           /\ f[k] = e[k] + q
           /\ \A i \in (1 .. Len(e)) \ {m, k} : f[i] = e[i]
<1> DEFINE g == [e EXCEPT ![m] = e[m] + q]
<1>1. /\ g \in Seq(Nat)
      /\ Len(g) = Len(e)
      /\ g[m] = e[m] + q
      /\ \A i \in (1 .. Len(e)) \ {m} : g[i] = e[i]
  BY ONLY OneGrows, e \in Seq(Nat), m \in 1 .. Len(e), q \in Nat
<1>2. f = [g EXCEPT ![k] = g[k] + q]
  BY <1>1
<1> HIDE DEF g
<1>3. k \in 1 .. Len(g)
  BY <1>1
<1>4. /\ f \in Seq(Nat)
      /\ Len(f) = Len(g)
      /\ f[k] = g[k] + q
      /\ \A i \in (1 .. Len(g)) \ {k} : f[i] = g[i]
  BY ONLY OneGrows, <1>1, <1>2, <1>3, q \in Nat
<1>5. /\ f[m] = e[m] + q
      /\ f[k] = e[k] + q
      /\ \A i \in (1 .. Len(e)) \ {m, k} : f[i] = e[i]
  BY ONLY <1>1, <1>4, m \in 1 .. Len(e), k \in 1 .. Len(e), m # k
<1> QED BY <1>1, <1>4, <1>5

LEMMA TradeFacts ==
    ASSUME IInv, Matching, NEW side, NEW t, NEW queue, NEW maker, NEW q, NEW after,
           NEW left, TradeStep(side, t, queue, maker, q, after, left)
    PROVE  TradeSound(side, t, queue, maker, q, after)
<1>1. /\ side \in Side
      /\ t \in Nat
      /\ queue \in Seq(Entry)
      /\ Ascending(queue)
      /\ \A i \in DOMAIN queue : EntryOK(side, t, queue[i])
  BY MatchingFacts DEF TradeStep, IInv, LevelsOK, LevelOK
<1>2. 1 \in DOMAIN queue /\ maker = queue[1] /\ maker \in Entry
  BY <1>1 DEF TradeStep
<1>3. /\ maker.id \in Id
      /\ maker.id # taker.id
      /\ maker.filled < maker.quantity
  BY <1>1, <1>2 DEF EntryOK
<1>4. /\ q \in Nat \ {0}
      /\ q <= maker.quantity - maker.filled
      /\ q <= taker.quantity - taker.filled
  <2>1. q = Smaller(Remaining(taker), Remaining(maker)) /\ taker.filled < taker.quantity
    BY DEF TradeStep
  <2>2. /\ taker.filled \in Nat /\ taker.quantity \in Nat
        /\ maker.filled \in Nat /\ maker.quantity \in Nat
    BY <1>2, MatchingFacts DEF Entry
  <2> QED BY ONLY <2>1, <2>2, <1>3 DEF Smaller, Remaining
<1>5. after = [id |-> maker.id, quantity |-> maker.quantity, filled |-> maker.filled + q]
  BY <1>2, <1>4 DEF TradeStep, Entry
<1>6. /\ executed \in Seq(Nat)
      /\ Len(executed) = Len(placed)
      /\ executed' = [executed EXCEPT ![maker.id] = @ + q, ![taker.id] = @ + q]
      /\ maker.id \in 1 .. Len(placed)
      /\ taker.id \in 1 .. Len(placed)
  BY <1>3, MatchingFacts DEF TradeStep, IInv, ScalarsOK, Id
<1>7. /\ Len(executed') = Len(placed)
      /\ executed' \in Seq(Nat)
      /\ executed'[maker.id] = executed[maker.id] + q
      /\ executed'[taker.id] = executed[taker.id] + q
      /\ \A id \in Id \ {maker.id, taker.id} : executed'[id] = executed[id]
  <2>1. q \in Nat
    BY <1>4
  <2>2. PICK f : f = executed'
    BY ONLY TRUE
  <2>3. /\ maker.id \in 1 .. Len(executed)
        /\ taker.id \in 1 .. Len(executed)
        /\ maker.id # taker.id
        /\ executed \in Seq(Nat)
        /\ f = [executed EXCEPT ![maker.id] = @ + q, ![taker.id] = @ + q]
    BY ONLY <1>3, <1>6, <2>2
  <2>4. /\ f \in Seq(Nat)
        /\ Len(f) = Len(executed)
        /\ f[maker.id] = executed[maker.id] + q
        /\ f[taker.id] = executed[taker.id] + q
        /\ \A i \in (1 .. Len(executed)) \ {maker.id, taker.id} : f[i] = executed[i]
    BY ONLY <2>1, <2>3, TwoGrow, SMTT(30)
  <2>5. Id = 1 .. Len(executed)
    BY <1>6 DEF Id
  <2> QED BY ONLY <2>2, <2>4, <2>5, <1>6
<1> QED BY <1>1, <1>2, <1>3, <1>4, <1>5, <1>7 DEF TradeSound

LEMMA TradeKeepsEntries ==
    ASSUME IInv, Matching, NEW side, NEW t, NEW queue, NEW maker, NEW q, NEW after,
           NEW left, TradeStep(side, t, queue, maker, q, after, left),
           NEW s, NEW u, NEW x, EntryOK(s, u, x), x.id # maker.id
    PROVE  EntryOK(s, u, x)'
<1>1. /\ \A id \in Id \ {maker.id, taker.id} : executed'[id] = executed[id]
      /\ placed' = placed
      /\ taker'.id = taker.id
  <2>1. TradeSound(side, t, queue, maker, q, after)
    BY TradeFacts
  <2>2. taker' = [taker EXCEPT !.filled = @ + q] /\ placed' = placed
    BY DEF TradeStep
  <2>3. taker \in [id : Nat, quantity : Nat, filled : Nat, hidden : Nat]
    BY DEF IInv, ScalarsOK
  <2> QED BY <2>1, <2>2, <2>3 DEF TradeSound
<1> QED BY <1>1 DEF EntryOK, Id, Tick

LEMMA TradeKeepsBook ==
    ASSUME IInv, Matching, NEW side, NEW t, NEW queue, NEW maker, NEW q, NEW after,
           NEW left, TradeStep(side, t, queue, maker, q, after, left)
    PROVE  BookIsFunction' /\ LevelsOK'
<1>1. TradeSound(side, t, queue, maker, q, after)
  BY TradeFacts
<1>2. /\ t \in DOMAIN book[side]
      /\ queue = book[side][t]
      /\ maker = queue[1]
      /\ taker'.id = taker.id
      /\ placed' = placed
      /\ book' = [book EXCEPT ![side] = Settled(@, t, left)]
      /\ left = IF after.filled >= after.quantity
                THEN Tail(queue) ELSE [queue EXCEPT ![1] = after]
  BY MatchingFacts DEF TradeStep, IInv, ScalarsOK
<1>3. EntryOK(side, t, maker)
  BY <1>1, <1>2 DEF TradeSound
<1>4. OthersKept(side, t)
  <2> SUFFICES ASSUME NEW s \in Side, NEW u \in DOMAIN book[s], NEW x,
                      s # side \/ u # t,
                      NEW i \in DOMAIN book[s][u], x = book[s][u][i]
               PROVE  EntryOK(s, u, x)'
    BY DEF OthersKept
  <2>1. EntryOK(s, u, x)
    BY DEF IInv, LevelsOK, LevelOK
  <2>2. x.id # maker.id
    BY <2>1, <1>3 DEF EntryOK
  <2> QED BY <2>1, <2>2, TradeKeepsEntries
<1>5. \A i \in DOMAIN queue \ {1} : EntryOK(side, t, queue[i])'
  <2> SUFFICES ASSUME NEW i \in DOMAIN queue \ {1}
               PROVE  EntryOK(side, t, queue[i])'
    OBVIOUS
  <2>1. PICK x : x = queue[i]
    OBVIOUS
  <2>2. EntryOK(side, t, x) /\ x.id # maker.id
    <3>1. /\ queue \in Seq(Entry)
          /\ \A m, n \in DOMAIN queue : m < n => queue[m].id < queue[n].id
          /\ 1 \in DOMAIN queue
          /\ EntryOK(side, t, queue[i])
      BY <1>1 DEF TradeSound, Ascending
    <3>2. queue[1].id < queue[i].id /\ queue[1].id \in Nat
      <4>1. /\ DOMAIN queue = 1 .. Len(queue)
            /\ Len(queue) \in Nat
            /\ \A m \in DOMAIN queue : queue[m] \in Entry
        BY ONLY <3>1
      <4>2. 1 < i
        BY <4>1
      <4>3. queue[1].id \in Nat
        BY <4>1, <3>1 DEF Entry
      <4> QED BY <4>2, <4>3, <3>1
    <3> QED BY <3>1, <3>2, <1>2, <2>1
  <2>3. EntryOK(side, t, x)'
    BY <2>2, TradeKeepsEntries
  <2> QED BY <2>1, <2>3
<1>6. /\ left \in Seq(Entry)
      /\ Ascending(left)
      /\ \A i \in DOMAIN left : EntryOK(side, t, left[i])'
  <2>1. CASE after.filled >= after.quantity
    <3>1. left = Tail(queue)
      BY <1>2, <2>1
    <3>2. queue \in Seq(Entry) /\ queue # << >> /\ Ascending(queue)
      BY <1>1 DEF TradeSound
    <3>3. /\ Tail(queue) \in Seq(Entry)
          /\ Ascending(Tail(queue))
          /\ \A i \in DOMAIN Tail(queue) :
                i + 1 \in DOMAIN queue \ {1} /\ Tail(queue)[i] = queue[i + 1]
      BY <3>2, TailQueue
    <3> QED BY <3>1, <3>3, <1>5
  <2>2. CASE ~(after.filled >= after.quantity)
    <3>1. left = [queue EXCEPT ![1] = after]
      BY <1>2, <2>2
    <3>2. EntryOK(side, t, after)'
      <4>1. /\ after = [id |-> maker.id, quantity |-> maker.quantity,
                        filled |-> maker.filled + q]
            /\ executed'[maker.id] = executed[maker.id] + q
            /\ maker.filled \in Nat
            /\ maker.quantity \in Nat
            /\ q \in Nat
        BY <1>1 DEF TradeSound, Entry
      <4>2. /\ after.id = maker.id
            /\ after.quantity = maker.quantity
            /\ after.filled = maker.filled + q
            /\ after.filled < after.quantity
        BY ONLY <4>1, <2>2
      <4>3. /\ maker.id \in Id \ {taker.id}
            /\ placed[maker.id].side = side
            /\ Tick(maker.id) = t
            /\ maker.quantity = placed[maker.id].quantity
            /\ maker.filled = executed[maker.id]
        BY <1>3 DEF EntryOK
      <4>4. /\ Id' = Id
            /\ taker'.id = taker.id
            /\ placed' = placed
            /\ Tick(maker.id)' = Tick(maker.id)
        BY <1>2 DEF Id, Tick
      <4> QED BY ONLY <4>1, <4>2, <4>3, <4>4 DEF EntryOK, Tick
    <3>3. after \in Entry /\ after.id = queue[1].id
      <4>1. /\ after = [id |-> maker.id, quantity |-> maker.quantity,
                        filled |-> maker.filled + q]
            /\ maker \in Entry
            /\ q \in Nat
        BY <1>1 DEF TradeSound
      <4> QED BY ONLY <4>1, <1>2 DEF Entry
    <3>4. queue \in Seq(Entry) /\ Ascending(queue) /\ 1 \in DOMAIN queue
      BY <1>1 DEF TradeSound
    <3>5. /\ left \in Seq(Entry)
          /\ DOMAIN left = DOMAIN queue
          /\ left[1] = after
          /\ \A i \in DOMAIN queue \ {1} : left[i] = queue[i]
      BY ONLY <3>1, <3>3, <3>4
    <3>6. \A i \in DOMAIN queue : left[i].id = queue[i].id
      BY <3>3, <3>5
    <3>7. Ascending(left)
      BY <3>4, <3>5, <3>6 DEF Ascending
    <3>8. \A i \in DOMAIN left : EntryOK(side, t, left[i])'
      BY <3>2, <3>5, <1>5 DEF EntryOK
    <3> QED BY <3>5, <3>7, <3>8
  <2> QED BY <2>1, <2>2
<1>7. side \in Side /\ t \in Nat
  BY <1>1 DEF TradeSound
<1> QED BY <1>2, <1>4, <1>6, <1>7, ReplaceQueue

LEMMA TradeKeepsScalars ==
    ASSUME IInv, Matching, NEW side, NEW t, NEW queue, NEW maker, NEW q, NEW after,
           NEW left, TradeStep(side, t, queue, maker, q, after, left)
    PROVE  ScalarsOK' /\ NeverOverfilled' /\ TakerSound'
<1>1. TradeSound(side, t, queue, maker, q, after)
  BY TradeFacts
<1>2. /\ taker' = [taker EXCEPT !.filled = @ + q]
      /\ placed' = placed
      /\ Id' = Id
      /\ lastPrice' = TicksToPrice(t)
      /\ trades' = Append(trades, TradeOf(t, q, maker.id))
  BY DEF TradeStep, Id
<1>3. /\ taker' \in [id : Nat, quantity : Nat, filled : Nat, hidden : Nat]
      /\ taker'.id = taker.id
      /\ taker'.filled = taker.filled + q
      /\ taker'.quantity = taker.quantity
      /\ taker'.hidden = taker.hidden
  <2>1. taker \in [id : Nat, quantity : Nat, filled : Nat, hidden : Nat]
    BY DEF IInv, ScalarsOK
  <2>2. q \in Nat
    BY <1>1 DEF TradeSound
  <2> QED BY ONLY <2>1, <2>2, <1>2
<1>4. TakerSound'
  <2>1. /\ executed'[taker.id] = executed[taker.id] + q
        /\ q <= taker.quantity - taker.filled
        /\ q \in Nat
    BY <1>1 DEF TradeSound
  <2>2. /\ taker.filled = executed[taker.id]
        /\ taker.quantity + taker.hidden = placed[taker.id].quantity
        /\ taker.filled \in Nat
        /\ taker.quantity \in Nat
    BY MatchingFacts
  <2>3. /\ taker'.filled = executed'[taker'.id]
        /\ taker'.filled <= taker'.quantity
        /\ taker'.quantity + taker'.hidden = placed'[taker'.id].quantity
    BY ONLY <1>2, <1>3, <2>1, <2>2
  <2> QED BY <2>3 DEF TakerSound
<1>5. NeverOverfilled'
  <2> SUFFICES ASSUME NEW id \in Id
               PROVE  executed'[id] <= placed[id].quantity
    BY <1>2 DEF NeverOverfilled
  <2>1. CASE id = taker.id
    <3>1. /\ executed'[taker.id] = executed[taker.id] + q
          /\ q <= taker.quantity - taker.filled
          /\ q \in Nat
      BY <1>1 DEF TradeSound
    <3>2. /\ taker.filled = executed[taker.id]
          /\ taker.quantity + taker.hidden = placed[taker.id].quantity
          /\ taker.filled \in Nat
          /\ taker.quantity \in Nat
          /\ taker.hidden \in Nat
      BY MatchingFacts
    <3> QED BY ONLY <2>1, <3>1, <3>2
  <2>2. CASE id = maker.id
    <3>1. EntryOK(side, t, maker)
      BY <1>1 DEF TradeSound, TradeStep
    <3>2. /\ placed[maker.id].quantity = maker.quantity
          /\ executed[maker.id] = maker.filled
      BY <3>1 DEF EntryOK
    <3>3. /\ executed'[maker.id] = executed[maker.id] + q
          /\ q <= maker.quantity - maker.filled
          /\ q \in Nat
      BY <1>1 DEF TradeSound
    <3>4. maker \in Entry
      BY <1>1 DEF TradeSound
    <3>5. maker.filled \in Nat /\ maker.quantity \in Nat
      BY ONLY <3>4, SMTT(30) DEF Entry
    <3> QED BY ONLY <3>2, <3>3, <3>5, <2>2
  <2>3. CASE id \notin {maker.id, taker.id}
    BY <2>3, <1>1 DEF TradeSound, IInv, NeverOverfilled
  <2> QED BY <2>1, <2>2, <2>3
<1>6. status' \in Seq(Status) /\ Len(status') = Len(status)
  <2>1. \A m, n : FillStatus(m, n) \in Status
    BY DEF FillStatus, Status
  <2>2. /\ status \in Seq(Status)
        /\ maker.id \in 1 .. Len(status)
        /\ taker.id \in 1 .. Len(status)
    BY <1>1, MatchingFacts DEF TradeSound, IInv, ScalarsOK, Id
  <2> QED BY <2>1, <2>2 DEF TradeStep
<1>7. TicksToPrice(t) \in Nat
  BY <1>1, ResolutionAssumption DEF TicksToPrice, TradeSound
<1>8. trades' \in Seq([price : Nat, quantity : Nat, buyer : Id, seller : Id])
  <2>1. TradeOf(t, q, maker.id) \in [price : Nat, quantity : Nat, buyer : Id, seller : Id]
    BY <1>1, <1>7, MatchingFacts DEF TradeOf, TradeSound
  <2>2. trades \in Seq([price : Nat, quantity : Nat, buyer : Id, seller : Id])
    BY DEF IInv, ScalarsOK
  <2> QED BY <1>2, <2>1, <2>2
<1>9. ScalarsOK'
  <2>1. Matching'
    BY <1>3 DEF Matching
  <2> QED BY <2>1, <1>1, <1>2, <1>3, <1>6, <1>7, <1>8
          DEF IInv, ScalarsOK, TradeSound
<1> QED BY <1>4, <1>5, <1>9

LEMMA MatchStep ==
    ASSUME IInv, Match
    PROVE  IInv'
<1>1. PICK side, t, queue, maker, q, after, left :
         TradeStep(side, t, queue, maker, q, after, left)
  BY MatchIsTrade
<1>2. Matching
  BY DEF Match
<1> QED BY <1>1, <1>2, TradeKeepsBook, TradeKeepsScalars DEF IInv

-----------------------------------------------------------------------------
(* The theorems. *)

LEMMA InitInvariant == Init => IInv
<1> SUFFICES ASSUME Init PROVE IInv
  OBVIOUS
<1>1. ScalarsOK /\ TakerSound /\ NeverOverfilled
  BY DEF Init, Idle, NoPrice, ScalarsOK, TakerSound, NeverOverfilled, Matching, Id
<1>2. \A s \in Side : book[s] = << >> /\ DOMAIN book[s] = {}
  BY DEF Init
<1>3. BookIsFunction
  BY <1>2 DEF Init, BookIsFunction
<1>4. LevelsOK
  BY <1>2 DEF LevelsOK
<1> QED BY <1>1, <1>3, <1>4 DEF IInv

LEMMA NextInvariant == IInv /\ [Next]_vars => IInv'
<1> SUFFICES ASSUME IInv, [Next]_vars PROVE IInv'
  OBVIOUS
<1>1. ASSUME NEW o \in Menu, Submit(o) PROVE IInv'
  BY <1>1, RejectPostOnlyStep, RestPostOnlyStep, KillFokStep, StartMatchingStep
  DEF Submit
<1>2. CASE LoopStep
  BY <1>2, MatchStep, SweepEmptyLevelStep, RestRemainderStep, DropRemainderStep
  DEF LoopStep
<1>3. ASSUME NEW id \in Id, Cancel(id) PROVE IInv'
  BY <1>3, CancelStep
<1>4. CASE UNCHANGED vars
  <2>1. EntriesKept /\ ScalarsOK' /\ NeverOverfilled' /\ TakerSound' /\ book' = book
    BY <1>4, OnlyBook DEF vars
  <2> QED BY <2>1, BookKept DEF IInv
<1> QED BY <1>1, <1>2, <1>3, <1>4 DEF Next

(* The inductive invariant holds in every reachable state: queues, orders   *)
(* and trades of submit and cancel (lib.rs:154-337) stay consistent.        *)
THEOREM Invariance == Spec => []IInv
BY InitInvariant, NextInvariant, PTL DEF Spec

(* The state of the book has its types. *)
THEOREM TypeCorrect == Spec => []TypeOK
BY Invariance, InvariantParts, PTL

(* A resting order waits on its side, at its level, and the book and the    *)
(* trades agree about what is left of it.                                   *)
THEOREM BookSound == Spec => []RestingSound
BY Invariance, InvariantParts, PTL

(* Every queue of the book is in the order of arrival. *)
THEOREM ByAge == Spec => []QueuesByAge
BY Invariance, InvariantParts, PTL

(* No order trades more than its quantity. *)
THEOREM NoOverfill == Spec => []NeverOverfilled
<1>1. IInv => NeverOverfilled
  BY DEF IInv
<1> QED BY <1>1, Invariance, PTL

-----------------------------------------------------------------------------
(* Price-time priority. *)

LEMMA ExecutedIsNat == ASSUME IInv, NEW id \in Id PROVE executed[id] \in Nat
<1>1. executed \in Seq(Nat) /\ id \in 1 .. Len(executed)
  BY DEF IInv, ScalarsOK, Id
<1> QED BY <1>1

(* What PriceTimePriority says of a step. *)
InPriority ==
    \A s \in Side : \A t \in DOMAIN book[s] : \A i \in DOMAIN book[s][t] :
       LET e == book[s][t][i]
       IN  executed'[e.id] > executed[e.id] =>
             \A u \in DOMAIN book[s] : \A j \in DOMAIN book[s][u] :
                 \/ book[s][u][j].id = e.id
                 \/ Ahead(s, t, u)
                 \/ t = u /\ e.id < book[s][u][j].id

(* A step in which no resting order trades. *)
LEMMA NothingTrades ==
    ASSUME IInv, \A id \in Id : executed'[id] = executed[id]
    PROVE  InPriority
<1> SUFFICES ASSUME NEW s \in Side, NEW t \in DOMAIN book[s],
                    NEW i \in DOMAIN book[s][t]
             PROVE  ~(executed'[book[s][t][i].id] > executed[book[s][t][i].id])
  BY DEF InPriority
<1>1. EntryOK(s, t, book[s][t][i])
  BY DEF IInv, LevelsOK, LevelOK
<1>2. book[s][t][i].id \in Id
  BY <1>1 DEF EntryOK
<1>3. executed[book[s][t][i].id] \in Nat
  BY <1>2, ExecutedIsNat
<1> QED BY <1>2, <1>3

LEMMA MatchInPriority ==
    ASSUME IInv, Match
    PROVE  InPriority
<1>1. Matching
  BY DEF Match
<1>2. PICK side, t, queue, maker, q, after, left :
         TradeStep(side, t, queue, maker, q, after, left)
  BY MatchIsTrade
<1>3. TradeSound(side, t, queue, maker, q, after)
  BY <1>1, <1>2, TradeFacts
<1>4. /\ queue = book[side][t]
      /\ maker = queue[1]
      /\ \A u \in DOMAIN book[side] : u = t \/ Ahead(side, t, u)
  BY <1>2 DEF TradeStep, Best
<1>5. SUFFICES ASSUME NEW s \in Side, NEW v \in DOMAIN book[s],
                      NEW i \in DOMAIN book[s][v], NEW x, x = book[s][v][i],
                      executed'[x.id] > executed[x.id],
                      NEW u \in DOMAIN book[s], NEW j \in DOMAIN book[s][u],
                      NEW y, y = book[s][u][j]
               PROVE  \/ y.id = x.id
                      \/ Ahead(s, v, u)
                      \/ v = u /\ x.id < y.id
  BY DEF InPriority
<1>6. /\ EntryOK(s, v, x)
      /\ EntryOK(side, t, maker)
  BY <1>3, <1>4, <1>5 DEF IInv, LevelsOK, LevelOK, TradeSound
<1>7. x.id \in Id /\ executed[x.id] \in Nat
  BY <1>6, ExecutedIsNat DEF EntryOK
<1>8. x.id = maker.id
  BY <1>3, <1>5, <1>6, <1>7 DEF TradeSound, EntryOK
<1>9. s = side /\ v = t
  BY <1>6, <1>8 DEF EntryOK
<1>10. CASE u = t /\ j # 1
  <2>1. /\ queue \in Seq(Entry)
        /\ 1 \in DOMAIN queue
        /\ \A m, n \in DOMAIN queue : m < n => queue[m].id < queue[n].id
    BY <1>3 DEF TradeSound, Ascending
  <2>2. j \in DOMAIN queue /\ y = queue[j]
    BY <1>4, <1>5, <1>9, <1>10
  <2>3. 1 < j
    BY <2>1, <2>2, <1>10
  <2> QED BY <2>1, <2>2, <2>3, <1>4, <1>8, <1>9, <1>10
<1>11. CASE u = t /\ j = 1
  BY <1>4, <1>5, <1>8, <1>9, <1>11
<1>12. CASE u # t
  BY <1>4, <1>9, <1>12
<1> QED BY <1>10, <1>11, <1>12

LEMMA StepInPriority == IInv /\ [Next]_vars => InPriority \/ UNCHANGED vars
<1> SUFFICES ASSUME IInv, Next PROVE InPriority
  OBVIOUS
<1>1. ASSUME NEW o \in Menu, NEW st \in Status, Enter(o, st) PROVE InPriority
  BY <1>1, EnterFacts, NothingTrades
<1>2. ASSUME NEW o \in Menu, Submit(o) PROVE InPriority
  <2>1. {"Rejected", "Open", "Cancelled"} \subseteq Status
    BY DEF Status
  <2> QED BY <1>1, <1>2, <2>1
          DEF Submit, RejectPostOnly, RestPostOnly, KillFok, StartMatching
<1>3. CASE Match
  BY <1>3, MatchInPriority
<1>4. CASE UNCHANGED executed
  BY <1>4, NothingTrades
<1>5. CASE LoopStep
  BY <1>3, <1>4, <1>5 DEF LoopStep, SweepEmptyLevel, RestRemainder, DropRemainder
<1>6. ASSUME NEW id \in Id, Cancel(id) PROVE InPriority
  BY <1>4, <1>6 DEF Cancel
<1> QED BY <1>2, <1>5, <1>6 DEF Next

(* Every trade is with the best and, there, the oldest resting order of the *)
(* other side, whatever was cancelled or swept before.                      *)
THEOREM InOrder == Spec => PriceTimePriority
<1>1. IInv /\ [Next]_vars => [InPriority]_vars
  BY StepInPriority
<1>2. Spec => [][InPriority]_vars
  BY <1>1, Invariance, PTL DEF Spec
<1> QED BY <1>2 DEF PriceTimePriority, InPriority

-----------------------------------------------------------------------------
(* Rounding. *)

LEMMA Rounded ==
    ASSUME NEW p \in Nat
    PROVE  /\ PriceToTicks(p) \in Nat
           /\ 2 * (PriceToTicks(p) * Resolution) <= 2 * p + Resolution
           /\ 2 * p < 2 * (PriceToTicks(p) * Resolution) + Resolution
<1>1. Resolution \in Nat \ {0} /\ PriceToTicks(p) \in Nat
  BY ResolutionAssumption, TickIsNat
<1>2. PICK n \in Nat, d \in Nat \ {0} : n = 2 * p + Resolution /\ d = 2 * Resolution
  BY <1>1
<1>3. d * (n \div d) <= n /\ n < d * (n \div d) + d
  OBVIOUS
<1>4. PICK k \in Nat : k = PriceToTicks(p)
  BY <1>1
<1>5. k = n \div d
  BY <1>2, <1>4 DEF PriceToTicks
<1>6. (2 * Resolution) * k = 2 * (k * Resolution)
  BY <1>1
<1> QED BY <1>1, <1>2, <1>3, <1>4, <1>5, <1>6

LEMMA TicksAscend ==
    ASSUME NEW t \in Nat, NEW u \in Nat, t < u
    PROVE  t * Resolution + Resolution <= u * Resolution
<1>1. Resolution \in Nat \ {0}
  BY ResolutionAssumption
<1>2. PICK d \in Nat : u = t + 1 + d
  <2>1. u - (t + 1) \in Nat /\ u = t + 1 + (u - (t + 1))
    OBVIOUS
  <2> QED BY <2>1
<1>3. u * Resolution = t * Resolution + Resolution + d * Resolution
  BY <1>1, <1>2
<1>4. d * Resolution \in Nat /\ t * Resolution \in Nat
  BY <1>1
<1> QED BY <1>1, <1>3, <1>4

(* A level that an order did not accept is beyond the tick it rests at, or  *)
(* is that very tick, and the order is off the grid.                        *)
Clear(s, t, u, o) == IF s = "Buy" THEN t < u \/ (t = u /\ ~OnGrid(o))
                                  ELSE u < t \/ (t = u /\ ~OnGrid(o))

LEMMA RefusedIsClear ==
    ASSUME NEW s \in Side, NEW u \in Nat, NEW o \in Order,
           ~Acceptable(s, u, o.price)
    PROVE  Clear(s, PriceToTicks(o.price), u, o)
<1>1. PICK p \in Nat : p = o.price
  BY DEF Order
<1>2. PICK t \in Nat : t = PriceToTicks(p)
  BY TickIsNat
<1>3. /\ Resolution \in Nat \ {0}
      /\ t * Resolution \in Nat
      /\ u * Resolution \in Nat
      /\ 2 * (t * Resolution) <= 2 * p + Resolution
      /\ 2 * p < 2 * (t * Resolution) + Resolution
  <2>1. Resolution \in Nat \ {0}
    BY ResolutionAssumption
  <2>2. t * Resolution \in Nat /\ u * Resolution \in Nat
    BY <2>1
  <2>3. /\ 2 * (t * Resolution) <= 2 * p + Resolution
        /\ 2 * p < 2 * (t * Resolution) + Resolution
    BY <1>2, Rounded, Zenon
  <2> QED BY <2>1, <2>2, <2>3
<1>4. PICK m \in Nat, n \in Nat : m = t * Resolution /\ n = u * Resolution
  BY <1>3
<1>5. /\ t < u => m + Resolution <= n
      /\ u < t => n + Resolution <= m
  BY <1>4, TicksAscend
<1>6. t = u => m = n
  BY <1>4
<1>7. OnGrid(o) => m = p
  BY <1>1, <1>2, <1>4 DEF OnGrid, TicksToPrice
<1>8. CASE s = "Buy"
  <2>1. n > p
    BY <1>1, <1>4, <1>8 DEF Acceptable, TicksToPrice
  <2> QED BY <2>1, <1>1, <1>2, <1>3, <1>4, <1>5, <1>6, <1>7, <1>8 DEF Clear
<1>9. CASE s = "Sell"
  <2>1. n < p
    BY <1>1, <1>4, <1>9 DEF Acceptable, TicksToPrice
  <2> QED BY <2>1, <1>1, <1>2, <1>3, <1>4, <1>5, <1>6, <1>7, <1>9 DEF Clear
<1> QED BY <1>8, <1>9 DEF Side

-----------------------------------------------------------------------------
(* Best levels. *)

LEMMA HasLeast == \A S \in SUBSET Nat : S # {} => \E m \in S : \A k \in S : m <= k
<1> DEFINE R == {p \in Nat \X Nat : p[1] < p[2]}
<1>1. IsWellFoundedOn(R, Nat)
  BY ONLY NatLessThanWellFounded, Zenon DEF OpToRel
<1> SUFFICES ASSUME NEW S \in SUBSET Nat, S # {} PROVE \E m \in S : \A k \in S : m <= k
  OBVIOUS
<1>2. PICK r : r = R
  OBVIOUS
<1>3. IsWellFoundedOn(r, Nat)
  BY ONLY <1>1, <1>2
<1>4. PICK m \in S : \A k \in S : ~(<<k, m>> \in r)
  BY ONLY <1>3, S \in SUBSET Nat, S # {}, WFMin, Zenon
<1>5. \A k \in S : ~(k < m)
  BY ONLY <1>2, <1>4, S \in SUBSET Nat
<1> QED BY ONLY <1>5, S \in SUBSET Nat

LEMMA HasLargest ==
    ASSUME NEW S \in SUBSET Nat, S # {}, NEW n \in Nat, \A k \in S : k <= n
    PROVE  \E m \in S : \A k \in S : k <= m
<1> DEFINE T == {j \in Nat : \E k \in S : j = n - k}
<1>1. \A k \in S : k \in Nat /\ n - k \in T
  OBVIOUS
<1>2. T \in SUBSET Nat /\ T # {}
  BY ONLY <1>1, S # {}
<1>3. PICK d \in T : \A c \in T : d <= c
  BY ONLY <1>2, HasLeast
<1>4. PICK m \in S : d = n - m
  BY ONLY <1>3
<1>5. \A k \in S : d <= n - k
  BY ONLY <1>1, <1>3
<1> QED BY ONLY <1>1, <1>4, <1>5, n \in Nat

(* The levels of both sides are bounded, so that there is a best one. *)
Bounded == \A s \in Side : \E n \in Nat : \A t \in DOMAIN book[s] : t <= n

LEMMA LevelsAreNat == ASSUME IInv, NEW s \in Side PROVE DOMAIN book[s] \in SUBSET Nat
BY DEF IInv, LevelsOK, LevelOK

LEMMA HasBest ==
    ASSUME IInv, Bounded, NEW s \in Side, DOMAIN book[s] # {}
    PROVE  \E t \in DOMAIN book[s] : Best(s, t)
<1>1. PICK S : S = DOMAIN book[s]
  OBVIOUS
<1>2. S \in SUBSET Nat /\ S # {}
  BY <1>1, LevelsAreNat
<1>3. CASE s = "Sell"
  <2>1. PICK m \in S : \A k \in S : m <= k
    BY ONLY <1>2, HasLeast
  <2>2. \A k \in S : k = m \/ m < k
    BY <2>1, <1>2
  <2> QED BY <2>2, <1>1, <1>3 DEF Best, Ahead
<1>4. CASE s = "Buy"
  <2>1. PICK n \in Nat : \A t \in S : t <= n
    BY <1>1 DEF Bounded
  <2>2. PICK m \in S : \A k \in S : k <= m
    BY ONLY <2>1, <1>2, HasLargest
  <2>3. \A k \in S : k = m \/ m > k
    BY <2>2, <1>2
  <2> QED BY <2>3, <1>1, <1>4 DEF Best, Ahead
<1> QED BY <1>3, <1>4 DEF Side

(* Who accepts a level accepts the levels ahead of it. *)
LEMMA BetterAccepted ==
    ASSUME NEW s \in Side, NEW t \in Nat, NEW u \in Nat, NEW p \in Nat,
           t = u \/ Ahead(Opposite(s), t, u), Acceptable(s, u, p)
    PROVE  Acceptable(s, t, p)
<1>1. Resolution \in Nat \ {0}
  BY ResolutionAssumption
<1>2. PICK m \in Nat, n \in Nat : m = t * Resolution /\ n = u * Resolution
  BY <1>1
<1>3. /\ t < u => m + Resolution <= n
      /\ u < t => n + Resolution <= m
      /\ t = u => m = n
  BY <1>2, TicksAscend
<1>4. CASE s = "Buy"
  <2>1. u = t \/ t < u
    BY <1>4 DEF Opposite, Ahead
  <2>2. n <= p
    BY <1>2, <1>4 DEF Acceptable, TicksToPrice
  <2>3. m <= p
    BY <2>1, <2>2, <1>1, <1>3
  <2> QED BY <2>3, <1>2, <1>4 DEF Acceptable, TicksToPrice
<1>5. CASE s = "Sell"
  <2>1. u = t \/ u < t
    BY <1>5 DEF Opposite, Ahead
  <2>2. n >= p
    BY <1>2, <1>5 DEF Acceptable, TicksToPrice
  <2>3. m >= p
    BY <2>1, <2>2, <1>1, <1>3
  <2> QED BY <2>3, <1>2, <1>5 DEF Acceptable, TicksToPrice
<1> QED BY <1>4, <1>5 DEF Side

(* Who does not accept the best level accepts none. *)
LEMMA BestRefused ==
    ASSUME IInv, NEW s \in Side, NEW t \in DOMAIN book[Opposite(s)], NEW p \in Nat,
           Best(Opposite(s), t), ~Acceptable(s, t, p)
    PROVE  \A u \in DOMAIN book[Opposite(s)] : u \in Nat /\ ~Acceptable(s, u, p)
<1>1. Opposite(s) \in Side
  BY DEF Opposite, Side
<1> SUFFICES ASSUME NEW u \in DOMAIN book[Opposite(s)]
             PROVE  u \in Nat /\ ~Acceptable(s, u, p)
  OBVIOUS
<1>2. t \in Nat /\ u \in Nat
  BY <1>1, LevelsAreNat
<1>3. t = u \/ Ahead(Opposite(s), t, u)
  BY DEF Best
<1> QED BY <1>2, <1>3, BetterAccepted

-----------------------------------------------------------------------------
(* What a step adds to the book. *)

RestsAt(s, t, x) ==
    t \in DOMAIN book[s] /\ \E i \in DOMAIN book[s][t] : book[s][t][i].id = x

NoneJoins ==
    \A s \in Side : /\ DOMAIN book'[s] \subseteq DOMAIN book[s]
                    /\ \A u, x : RestsAt(s, u, x)' => RestsAt(s, u, x)

OneJoins(side, t, id) ==
    \A s \in Side : /\ DOMAIN book'[s] \subseteq DOMAIN book[s] \cup {t}
                    /\ \A u, x : RestsAt(s, u, x)' =>
                          RestsAt(s, u, x) \/ (s = side /\ u = t /\ x = id)

LEMMA SameBook == book' = book => NoneJoins
BY DEF NoneJoins, RestsAt

LEMMA ReplacedJoinsNone ==
    ASSUME NEW side \in Side, NEW t, NEW q, NEW old, Replaces(side, t, q),
           t \in DOMAIN book[side], old = book[side][t],
           \A k \in DOMAIN q : \E m \in DOMAIN old : q[k].id = old[m].id
    PROVE  NoneJoins
<1> SUFFICES ASSUME NEW s \in Side
             PROVE  /\ DOMAIN book'[s] \subseteq DOMAIN book[s]
                    /\ \A u, x : RestsAt(s, u, x)' => RestsAt(s, u, x)
  BY DEF NoneJoins
<1>1. CASE s # side
  BY <1>1 DEF Replaces, RestsAt
<1>2. CASE s = side
  <2>1. DOMAIN book'[s] \subseteq DOMAIN book[s]
    BY <1>2 DEF Replaces
  <2>2. ASSUME NEW u, NEW x, NEW i, u \in DOMAIN book'[s], i \in DOMAIN book'[s][u],
               book'[s][u][i].id = x
        PROVE  RestsAt(s, u, x)
    <3>1. CASE u = t
      <4>1. book'[s][u] = q
        BY <2>2, <1>2, <3>1 DEF Replaces
      <4>2. PICK m \in DOMAIN old : old[m].id = x
        BY <2>2, <4>1
      <4> QED BY <4>2, <1>2, <3>1 DEF RestsAt
    <3>2. CASE u # t
      <4>1. u \in DOMAIN book[s] /\ book'[s][u] = book[s][u]
        BY <2>2, <1>2, <3>2 DEF Replaces
      <4> QED BY <2>2, <4>1 DEF RestsAt
    <3> QED BY <3>1, <3>2
  <2> QED BY <2>1, <2>2 DEF RestsAt
<1> QED BY <1>1, <1>2

LEMMA RestedJoins ==
    ASSUME NEW side \in Side, NEW t \in Nat, NEW e \in Entry, LevelsOK,
           JoinsLevel(side, t, e)
    PROVE  OneJoins(side, t, e.id)
<1> SUFFICES ASSUME NEW s \in Side, NEW u \in DOMAIN book'[s]
             PROVE  /\ u \in DOMAIN book[s] \cup {t}
                    /\ \A i \in DOMAIN book'[s][u] : \A x : book'[s][u][i].id = x =>
                          RestsAt(s, u, x) \/ (s = side /\ u = t /\ x = e.id)
  BY DEF OneJoins, RestsAt
<1>1. CASE u \in DOMAIN book[s] /\ book'[s][u] = book[s][u]
  BY <1>1 DEF RestsAt
<1>2. CASE u = t /\ book'[s][u] = << >>
  BY <1>2
<1>3. CASE /\ s = side
           /\ u = t
           /\ book'[s][u] = Append(IF t \in DOMAIN book[s] THEN book[s][t] ELSE << >>, e)
  <2>1. PICK old : old = IF t \in DOMAIN book[s] THEN book[s][t] ELSE << >>
    OBVIOUS
  <2>2. old \in Seq(Entry) /\ book'[s][u] = Append(old, e)
    BY <2>1, <1>3 DEF LevelsOK, LevelOK
  <2>3. \A i \in DOMAIN Append(old, e) :
           (i \in DOMAIN old /\ Append(old, e)[i] = old[i]) \/ Append(old, e)[i] = e
    BY ONLY <2>2, e \in Entry
  <2>4. ASSUME NEW i \in DOMAIN old
        PROVE  RestsAt(s, u, old[i].id)
    BY <2>1, <2>4, <1>3 DEF RestsAt
  <2> QED BY <2>2, <2>3, <2>4, <1>3
<1> QED BY <1>1, <1>2, <1>3 DEF JoinsLevel

LEMMA PostOnlyJoins ==
    ASSUME IInv, NEW o \in Menu, RestPostOnly(o)
    PROVE  OneJoins(o.side, PriceToTicks(o.price), Len(placed) + 1)
<1>1. PICK t : t = PriceToTicks(o.price)
  OBVIOUS
<1>2. PICK e : e = [id |-> Len(placed) + 1, quantity |-> o.quantity, filled |-> 0]
  OBVIOUS
<1>3. PICK b : b = [book EXCEPT !["Buy"] = Opened(@, t)]
  OBVIOUS
<1>4. /\ Enter(o, "Open")
      /\ "Open" \in Status
      /\ book' = [b EXCEPT ![o.side] = Rested(@, t, e)]
  BY <1>1, <1>2, <1>3 DEF RestPostOnly, Status
<1>5. /\ t \in Nat
      /\ o.side \in Side
      /\ e \in Entry
      /\ e.id = Len(placed) + 1
  BY <1>1, <1>2, <1>4, EnterFacts, TickIsNat DEF Order, Entry
<1>6. ExtendsBook(b, t)
  BY <1>3, OpenedBook
<1>7. JoinsLevel(o.side, t, e)
  BY <1>4, <1>5, <1>6, RestedBook
<1>8. LevelsOK
  BY DEF IInv
<1>9. OneJoins(o.side, t, e.id)
  BY <1>5, <1>7, <1>8, RestedJoins
<1> QED BY <1>1, <1>5, <1>9

LEMMA RemainderJoins ==
    ASSUME IInv, RestRemainder
    PROVE  OneJoins(Us, PriceToTicks(placed[taker.id].price), taker.id)
<1>1. Matching
  BY DEF RestRemainder, LoopEnds
<1>2. PICK side : side = Us
  OBVIOUS
<1>3. PICK t : t = PriceToTicks(placed[taker.id].price)
  OBVIOUS
<1>4. PICK e : e = Remainder
  OBVIOUS
<1>5. PICK b : b = book
  OBVIOUS
<1>6. /\ side \in Side
      /\ t \in Nat
      /\ e \in Entry
      /\ e.id = taker.id
  <2>1. placed[taker.id].price \in Nat
    BY <1>1, MatchingFacts DEF Order
  <2>2. Remainder \in Entry /\ Remainder.id = taker.id
    BY <1>1, MatchingFacts DEF Entry, Remainder, Id
  <2> QED BY <1>1, <1>2, <1>3, <1>4, <2>1, <2>2, MatchingFacts, TickIsNat
<1>7. book' = [b EXCEPT ![side] = Rested(@, t, e)]
  BY <1>2, <1>3, <1>4, <1>5 DEF RestRemainder
<1>8. ExtendsBook(b, t)
  BY <1>5 DEF ExtendsBook, IInv, BookIsFunction
<1>9. JoinsLevel(side, t, e)
  BY <1>6, <1>7, <1>8, RestedBook
<1>10. LevelsOK
  BY DEF IInv
<1>11. OneJoins(side, t, e.id)
  BY <1>6, <1>9, <1>10, RestedJoins
<1> QED BY <1>2, <1>3, <1>6, <1>11

LEMMA SweepJoinsNone == ASSUME IInv, SweepEmptyLevel PROVE NoneJoins
<1>1. PICK side : side = Them
  OBVIOUS
<1>2. PICK t \in DOMAIN book[side] : book' = [book EXCEPT ![side] = Without(@, t)]
  BY <1>1 DEF SweepEmptyLevel
<1>3. side \in Side
  BY <1>1, MatchingFacts DEF SweepEmptyLevel
<1>4. << >> \in Seq(Entry) /\ DOMAIN << >> = {}
  OBVIOUS
<1>5. book' = [book EXCEPT ![side] = Settled(@, t, << >>)]
  BY <1>2 DEF Settled
<1>6. Replaces(side, t, << >>)
  BY <1>2, <1>3, <1>4, <1>5, SettledBook
<1>7. PICK old : old = book[side][t]
  OBVIOUS
<1> QED BY <1>2, <1>3, <1>4, <1>6, <1>7, ReplacedJoinsNone

LEMMA CancelJoinsNone == ASSUME IInv, NEW id \in Id, Cancel(id) PROVE NoneJoins
<1>1. PICK side \in Side : \E t \in DOMAIN book[side] :
         \E i \in DOMAIN book[side][t] :
            book' = [book EXCEPT ![side] = Settled(@, t, Removed(book[side][t], i))]
  BY DEF Cancel
<1>2. PICK t \in DOMAIN book[side] : \E i \in DOMAIN book[side][t] :
         book' = [book EXCEPT ![side] = Settled(@, t, Removed(book[side][t], i))]
  BY <1>1
<1>3. PICK i \in DOMAIN book[side][t] :
         book' = [book EXCEPT ![side] = Settled(@, t, Removed(book[side][t], i))]
  BY <1>2
<1>4. PICK old : old = book[side][t]
  OBVIOUS
<1>5. old \in Seq(Entry) /\ Ascending(old)
  BY <1>4 DEF IInv, LevelsOK, LevelOK
<1>6. PICK q : q = Removed(old, i)
  OBVIOUS
<1>7. /\ q \in Seq(Entry)
      /\ \A k \in DOMAIN q : \E m \in DOMAIN old : q[k] = old[m]
  BY <1>3, <1>4, <1>5, <1>6, RemoveQueue
<1>8. book' = [book EXCEPT ![side] = Settled(@, t, q)]
  BY <1>3, <1>4, <1>6
<1>9. Replaces(side, t, q)
  BY <1>7, <1>8, SettledBook
<1>10. \A k \in DOMAIN q : \E m \in DOMAIN old : q[k].id = old[m].id
  BY <1>7
<1> QED BY <1>4, <1>9, <1>10, ReplacedJoinsNone

LEMMA MatchJoinsNone == ASSUME IInv, Match PROVE NoneJoins
<1>1. PICK side, t, queue, maker, q, after, left :
         TradeStep(side, t, queue, maker, q, after, left)
  BY MatchIsTrade
<1>2. Matching
  BY DEF Match
<1>3. /\ side \in Side
      /\ queue \in Seq(Entry)
      /\ Ascending(queue)
      /\ 1 \in DOMAIN queue
      /\ maker \in Entry
      /\ q \in Nat \ {0}
      /\ q <= maker.quantity - maker.filled
      /\ after = [id |-> maker.id, quantity |-> maker.quantity, filled |-> maker.filled + q]
  BY <1>1, <1>2, TradeFacts DEF TradeSound
<1>4. /\ queue # << >>
      /\ maker = queue[1]
      /\ t \in DOMAIN book[side]
      /\ queue = book[side][t]
      /\ left = IF after.filled >= after.quantity
                THEN Tail(queue) ELSE [queue EXCEPT ![1] = after]
      /\ book' = [book EXCEPT ![side] = Settled(@, t, left)]
  BY <1>1 DEF TradeStep
<1>5. after \in Entry /\ after.id = maker.id
  BY <1>3 DEF Entry
<1>6. /\ left \in Seq(Entry)
      /\ \A k \in DOMAIN left : \E m \in DOMAIN queue : left[k].id = queue[m].id
  <2>1. CASE left = Tail(queue)
    BY <2>1, <1>3, <1>4, TailQueue
  <2>2. CASE left = [queue EXCEPT ![1] = after]
    BY <2>2, <1>3, <1>4, <1>5
  <2> QED BY <2>1, <2>2, <1>4
<1>7. Replaces(side, t, left)
  BY <1>3, <1>4, <1>6, SettledBook
<1>8. /\ side \in Side
      /\ t \in DOMAIN book[side]
      /\ queue = book[side][t]
      /\ \A k \in DOMAIN left : \E m \in DOMAIN queue : left[k].id = queue[m].id
  BY <1>3, <1>4, <1>6
<1> QED BY ONLY <1>7, <1>8, ReplacedJoinsNone

-----------------------------------------------------------------------------
(* Bids and asks stay apart. *)

Apart(b, a, x, y) ==
    b < a \/ (b = a /\ (~OnGrid(placed[x]) \/ ~OnGrid(placed[y])))

Parted ==
    \A b, a, x, y : RestsAt("Buy", b, x) /\ RestsAt("Sell", a, y) => Apart(b, a, x, y)

PricesOK == Bounded /\ Parted

LEMMA PartedIsNotCrossed == Parted => NotCrossed
BY DEF Parted, NotCrossed, RestsAt, Apart

OrdersKept == \A id \in Id : placed'[id] = placed[id]

LEMMA RestingIsPlaced ==
    ASSUME IInv, NEW s \in Side, NEW t, NEW x, RestsAt(s, t, x)
    PROVE  x \in Id /\ t \in Nat /\ t \in DOMAIN book[s]
BY DEF IInv, LevelsOK, LevelOK, EntryOK, RestsAt

LEMMA BoundedStays ==
    ASSUME Bounded, NEW t \in Nat, \A s \in Side : DOMAIN book'[s] \subseteq DOMAIN book[s] \cup {t},
           \A s \in Side : DOMAIN book[s] \in SUBSET Nat
    PROVE  Bounded'
<1> SUFFICES ASSUME NEW s \in Side
             PROVE  \E n \in Nat : \A u \in DOMAIN book'[s] : u <= n
  BY DEF Bounded
<1>1. PICK n \in Nat : \A u \in DOMAIN book[s] : u <= n
  BY DEF Bounded
<1>2. \A u \in DOMAIN book'[s] : u \in Nat /\ u <= n + t
  BY <1>1
<1>3. n + t \in Nat
  OBVIOUS
<1> QED BY <1>2, <1>3

LEMMA NoneJoinsKeepsPrices ==
    ASSUME IInv, PricesOK, NoneJoins, OrdersKept
    PROVE  PricesOK'
<1>1. \A s \in Side : DOMAIN book[s] \in SUBSET Nat
  BY LevelsAreNat
<1>2. \A s \in Side : DOMAIN book'[s] \subseteq DOMAIN book[s] \cup {0}
  BY DEF NoneJoins
<1>3. Bounded'
  BY <1>1, <1>2, BoundedStays DEF PricesOK
<1>4. ASSUME NEW b, NEW a, NEW x, NEW y, RestsAt("Buy", b, x)', RestsAt("Sell", a, y)'
      PROVE  Apart(b, a, x, y)'
  <2>1. RestsAt("Buy", b, x) /\ RestsAt("Sell", a, y)
    BY <1>4 DEF NoneJoins, Side
  <2>2. x \in Id /\ y \in Id
    BY <2>1, RestingIsPlaced DEF Side
  <2>3. Apart(b, a, x, y)
    BY <2>1 DEF PricesOK, Parted
  <2> QED BY <2>2, <2>3 DEF Apart, OrdersKept
<1> QED BY <1>3, <1>4 DEF PricesOK, Parted

(* An order may join that accepts no level of the other side. *)
LEMMA OneJoinsKeepsPrices ==
    ASSUME IInv, PricesOK, NEW side \in Side, NEW t \in Nat, NEW id, NEW o,
           OneJoins(side, t, id), OrdersKept, placed'[id] = o,
           \A u \in DOMAIN book[Opposite(side)] : Clear(side, t, u, o)
    PROVE  PricesOK'
<1>1. \A s \in Side : DOMAIN book[s] \in SUBSET Nat
  BY LevelsAreNat
<1>2. \A s \in Side : DOMAIN book'[s] \subseteq DOMAIN book[s] \cup {t}
  BY DEF OneJoins
<1>3. Bounded'
  BY <1>1, <1>2, BoundedStays DEF PricesOK
<1>4. ASSUME NEW b, NEW a, NEW x, NEW y, RestsAt("Buy", b, x)', RestsAt("Sell", a, y)'
      PROVE  Apart(b, a, x, y)'
  <2>1. /\ RestsAt("Buy", b, x) \/ (side = "Buy" /\ b = t /\ x = id)
        /\ RestsAt("Sell", a, y) \/ (side = "Sell" /\ a = t /\ y = id)
    BY <1>4 DEF OneJoins, Side
  <2>2. CASE RestsAt("Buy", b, x) /\ RestsAt("Sell", a, y)
    <3>1. x \in Id /\ y \in Id
      BY <2>2, RestingIsPlaced DEF Side
    <3>2. Apart(b, a, x, y)
      BY <2>2 DEF PricesOK, Parted
    <3> QED BY <3>1, <3>2 DEF Apart, OrdersKept
  <2>3. CASE side = "Buy" /\ b = t /\ x = id /\ RestsAt("Sell", a, y)
    <3>1. a \in DOMAIN book["Sell"]
      BY <2>3, RestingIsPlaced DEF Side
    <3>2. t < a \/ (t = a /\ ~OnGrid(o))
      BY <2>3, <3>1 DEF Clear, Opposite
    <3> QED BY <2>3, <3>2 DEF Apart, OnGrid
  <2>4. CASE side = "Sell" /\ a = t /\ y = id /\ RestsAt("Buy", b, x)
    <3>1. b \in DOMAIN book["Buy"]
      BY <2>4, RestingIsPlaced DEF Side
    <3>2. b < t \/ (t = b /\ ~OnGrid(o))
      BY <2>4, <3>1 DEF Clear, Opposite
    <3> QED BY <2>4, <3>2 DEF Apart, OnGrid
  <2> QED BY <2>1, <2>2, <2>3, <2>4
<1> QED BY <1>3, <1>4 DEF PricesOK, Parted

LEMMA RestPostOnlyPrices ==
    ASSUME IInv, PricesOK, NEW o \in Menu, RestPostOnly(o)
    PROVE  PricesOK'
<1>1. Enter(o, "Open") /\ "Open" \in Status /\ ~WouldMatch(o)
  BY DEF RestPostOnly, Status
<1>2. o \in Order /\ o.side \in Side /\ Opposite(o.side) \in Side /\ o.price \in Nat
  BY <1>1, EnterFacts DEF Order, Opposite, Side
<1>3. OrdersKept /\ placed'[Len(placed) + 1] = o
  BY <1>1, EnterFacts DEF OrdersKept
<1>4. OneJoins(o.side, PriceToTicks(o.price), Len(placed) + 1)
  BY PostOnlyJoins
<1>5. ASSUME NEW u \in DOMAIN book[Opposite(o.side)]
      PROVE  Clear(o.side, PriceToTicks(o.price), u, o)
  <2>1. PICK v \in DOMAIN book[Opposite(o.side)] : Best(Opposite(o.side), v)
    BY <1>2, <1>5, HasBest DEF PricesOK
  <2>2. ~Acceptable(o.side, v, o.price)
    BY <2>1, <1>1 DEF WouldMatch
  <2>3. u \in Nat /\ ~Acceptable(o.side, u, o.price)
    BY <2>1, <2>2, <1>2, <1>5, BestRefused
  <2> QED BY <2>3, <1>2, RefusedIsClear
<1> QED BY <1>2, <1>3, <1>4, <1>5, TickIsNat, OneJoinsKeepsPrices

LEMMA RestRemainderPrices ==
    ASSUME IInv, PricesOK, RestRemainder
    PROVE  PricesOK'
<1>1. /\ Matching
      /\ taker.filled < taker.quantity
      /\ placed' = placed
      /\ \/ taker.filled >= taker.quantity
         \/ DOMAIN book[Them] = {}
         \/ \E t \in DOMAIN book[Them] : Best(Them, t) /\ Stops(t)
  BY DEF RestRemainder, LoopEnds, Rests, Unfilled
<1>2. PICK o : o = placed[taker.id]
  OBVIOUS
<1>3. /\ o \in Order
      /\ o.price \in Nat
      /\ Us \in Side
      /\ Them = Opposite(Us)
      /\ taker.filled \in Nat
      /\ taker.quantity \in Nat
  BY <1>1, <1>2, MatchingFacts DEF Order, Them
<1>4. OneJoins(Us, PriceToTicks(o.price), taker.id)
  BY <1>2, RemainderJoins
<1>5. OrdersKept /\ placed'[taker.id] = o
  BY <1>1, <1>2 DEF OrdersKept
<1>6. ASSUME NEW u \in DOMAIN book[Opposite(Us)]
      PROVE  Clear(Us, PriceToTicks(o.price), u, o)
  <2>1. PICK v \in DOMAIN book[Opposite(Us)] :
           Best(Opposite(Us), v) /\ ~Acceptable(Us, v, o.price)
    BY <1>1, <1>2, <1>3, <1>6 DEF Stops
  <2>2. u \in Nat /\ ~Acceptable(Us, u, o.price)
    BY <2>1, <1>3, <1>6, BestRefused
  <2> QED BY <2>2, <1>3, RefusedIsClear
<1> QED BY <1>3, <1>4, <1>5, <1>6, TickIsNat, OneJoinsKeepsPrices

LEMMA InitPrices == Init => PricesOK
<1> SUFFICES ASSUME Init PROVE PricesOK
  OBVIOUS
<1>1. \A s \in Side : DOMAIN book[s] = {}
  BY DEF Init
<1>2. Bounded
  BY <1>1 DEF Bounded
<1>3. Parted
  BY <1>1 DEF Parted, RestsAt, Side
<1> QED BY <1>2, <1>3 DEF PricesOK

LEMMA NextPrices == IInv /\ PricesOK /\ [Next]_vars => PricesOK'
<1> SUFFICES ASSUME IInv, PricesOK, [Next]_vars PROVE PricesOK'
  OBVIOUS
<1>1. ASSUME NEW o \in Menu, NEW st \in Status, Enter(o, st), book' = book
      PROVE  PricesOK'
  <2>1. OrdersKept
    BY <1>1, EnterFacts DEF OrdersKept
  <2> QED BY <1>1, <2>1, SameBook, NoneJoinsKeepsPrices
<1>2. ASSUME NEW o \in Menu, Submit(o) PROVE PricesOK'
  <2>1. {"Rejected", "Open", "Cancelled"} \subseteq Status
    BY DEF Status
  <2> QED BY <1>1, <1>2, <2>1, RestPostOnlyPrices
          DEF Submit, RejectPostOnly, KillFok, StartMatching
<1>3. CASE NoneJoins /\ placed' = placed
  BY <1>3, NoneJoinsKeepsPrices DEF OrdersKept
<1>4. CASE Match
  <2>1. placed' = placed
    BY <1>4 DEF Match
  <2> QED BY <2>1, <1>3, <1>4, MatchJoinsNone
<1>5. CASE SweepEmptyLevel
  BY <1>3, <1>5, SweepJoinsNone DEF SweepEmptyLevel
<1>6. CASE DropRemainder
  BY <1>3, <1>6, SameBook DEF DropRemainder
<1>7. ASSUME NEW id \in Id, Cancel(id) PROVE PricesOK'
  BY <1>3, <1>7, CancelJoinsNone DEF Cancel
<1>8. CASE UNCHANGED vars
  BY <1>3, <1>8, SameBook DEF vars
<1> QED BY <1>2, <1>4, <1>5, <1>6, <1>7, <1>8, RestRemainderPrices DEF Next, LoopStep

(* The best bid stays below the best ask, whatever types of orders are      *)
(* submitted (lib.rs:154-302), but for an order off the tick grid, which    *)
(* may come to rest at the tick of an order it did not accept.              *)
THEOREM Uncrossed == Spec => []NotCrossed
<1>1. Spec => []PricesOK
  BY InitPrices, NextPrices, Invariance, PTL DEF Spec
<1>2. PricesOK => NotCrossed
  BY PartedIsNotCrossed DEF PricesOK
<1> QED BY <1>1, <1>2, PTL

-----------------------------------------------------------------------------
(* What the status of an order says. *)

Dead == {"Rejected", "Cancelled"}

FillReported ==
    \A id \in Id : placed[id].type # "Iceberg" =>
        (status[id] = "Filled" <=> executed[id] = placed[id].quantity)

RestingAlive == \A s \in Side : \A t, x : RestsAt(s, t, x) => status[x] \notin Dead

TakerAlive ==
    Matching => /\ status[taker.id] \notin Dead
                /\ placed[taker.id].type # "Iceberg" => taker.hidden = 0

StatusOK == FillReported /\ RestingAlive /\ TakerAlive

LEMMA RestingEntry ==
    ASSUME IInv, NEW s \in Side, NEW t, NEW x, RestsAt(s, t, x)
    PROVE  /\ x \in Id /\ x # taker.id
           /\ placed[x].quantity \in Nat /\ executed[x] \in Nat
           /\ executed[x] < placed[x].quantity
<1>1. PICK e : /\ EntryOK(s, t, e)
               /\ e.id = x
  BY DEF IInv, LevelsOK, LevelOK, RestsAt
<1>2. /\ x \in Id /\ x # taker.id
      /\ executed[x] < placed[x].quantity
  BY <1>1 DEF EntryOK
<1>3. placed[x] \in Order /\ executed[x] \in Nat
  BY <1>2, ExecutedIsNat DEF IInv, ScalarsOK, Id
<1> QED BY <1>2, <1>3 DEF Order

LEMMA StatusIsFilled ==
    ASSUME IInv, StatusOK
    PROVE  FilledIsFilled
<1> SUFFICES ASSUME NEW id \in Id, placed[id].type # "Iceberg", id \in RestingIds,
                    status[id] \in {"Filled", "Rejected", "Cancelled"}
             PROVE  FALSE
  BY DEF FilledIsFilled, StatusOK, FillReported
<1>1. PICK s \in Side : \E t : RestsAt(s, t, id)
  BY DEF RestingIds, RestsAt
<1>2. status[id] = "Filled"
  BY <1>1 DEF StatusOK, RestingAlive, Dead
<1>3. executed[id] = placed[id].quantity
  BY <1>2 DEF StatusOK, FillReported
<1> QED BY <1>1, <1>3, RestingEntry

(* Nobody new rests and nothing is said or traded anew. *)
LEMMA NoneJoinsKeepsStatus ==
    ASSUME IInv, StatusOK, NoneJoins, UNCHANGED <<placed, status, executed>>,
           taker' = taker \/ taker' = Idle
    PROVE  StatusOK'
<1>1. FillReported'
  BY DEF StatusOK, FillReported, Id
<1>2. RestingAlive'
  <2> SUFFICES ASSUME NEW s \in Side, NEW t, NEW x, RestsAt(s, t, x)'
               PROVE  status'[x] \notin Dead
    BY DEF RestingAlive
  <2>1. RestsAt(s, t, x)
    BY DEF NoneJoins
  <2> QED BY <2>1 DEF StatusOK, RestingAlive
<1>3. TakerAlive'
  BY DEF StatusOK, TakerAlive, Matching, Idle
<1> QED BY <1>1, <1>2, <1>3 DEF StatusOK

LEMMA EnterStatus ==
    ASSUME IInv, NEW o \in Menu, NEW st \in Status, Enter(o, st)
    PROVE  /\ \A id \in Id : status'[id] = status[id]
           /\ status'[Len(placed) + 1] = st
<1>1. /\ status \in Seq(Status)
      /\ Len(status) = Len(placed)
      /\ status' = Append(status, st)
  BY DEF Enter, IInv, ScalarsOK
<1> QED BY <1>1 DEF Id

LEMMA EnterReported ==
    ASSUME IInv, StatusOK, NEW o \in Menu, NEW st \in Status \ {"Filled"}, Enter(o, st)
    PROVE  FillReported'
<1>1. \A id \in Id' : id \in Id \/ id = Len(placed) + 1
  BY EnterFacts DEF Id
<1>2. /\ \A id \in Id : /\ placed'[id] = placed[id]
                        /\ executed'[id] = executed[id]
                        /\ status'[id] = status[id]
      /\ placed'[Len(placed) + 1] = o
      /\ executed'[Len(placed) + 1] = 0
      /\ status'[Len(placed) + 1] = st
      /\ o.quantity # 0
  BY EnterFacts, EnterStatus DEF Order
<1> QED BY <1>1, <1>2 DEF FillReported, StatusOK

LEMMA EnterKeepsStatus ==
    ASSUME IInv, StatusOK, NEW o \in Menu, NEW st \in Status \ {"Filled"}, Enter(o, st),
           NoneJoins \/ (st \notin Dead /\ \E s \in Side, t \in Nat : OneJoins(s, t, Len(placed) + 1)),
           TakerAlive'
    PROVE  StatusOK'
<1>1. RestingAlive'
  <2> SUFFICES ASSUME NEW s \in Side, NEW t, NEW x, RestsAt(s, t, x)'
               PROVE  status'[x] \notin Dead
    BY DEF RestingAlive
  <2>1. RestsAt(s, t, x) \/ (st \notin Dead /\ x = Len(placed) + 1)
    BY DEF NoneJoins, OneJoins
  <2>2. CASE RestsAt(s, t, x)
    <3>1. x \in Id /\ status[x] \notin Dead
      BY <2>2, RestingEntry DEF StatusOK, RestingAlive
    <3> QED BY <3>1, EnterStatus
  <2> QED BY <2>1, <2>2, EnterStatus
<1> QED BY <1>1, EnterReported DEF StatusOK

LEMMA SubmitStatus ==
    ASSUME IInv, StatusOK, NEW o \in Menu, Submit(o)
    PROVE  StatusOK'
<1>1. /\ "Rejected" \in Status \ {"Filled"}
      /\ "Open" \in Status \ {"Filled"}
      /\ "Cancelled" \in Status \ {"Filled"}
      /\ "Open" \notin Dead
  BY DEF Status, Dead
<1>2. ASSUME taker' = Idle PROVE TakerAlive'
  BY <1>2 DEF TakerAlive, Matching, Idle
<1>3. CASE RejectPostOnly(o)
  <2>1. Enter(o, "Rejected") /\ NoneJoins /\ taker' = Idle
    BY <1>3, SameBook DEF RejectPostOnly, Enter
  <2> QED BY <2>1, <1>1, <1>2, EnterKeepsStatus
<1>4. CASE KillFok(o)
  <2>1. Enter(o, "Cancelled") /\ NoneJoins /\ taker' = Idle
    BY <1>4, SameBook DEF KillFok, Enter
  <2> QED BY <2>1, <1>1, <1>2, EnterKeepsStatus
<1>5. CASE RestPostOnly(o)
  <2>1. Enter(o, "Open") /\ taker' = Idle
    BY <1>5 DEF RestPostOnly, Enter
  <2>2. o.side \in Side /\ PriceToTicks(o.price) \in Nat
    BY <2>1, <1>1, EnterFacts, TickIsNat DEF Order
  <2>3. OneJoins(o.side, PriceToTicks(o.price), Len(placed) + 1)
    BY <1>5, PostOnlyJoins
  <2> QED BY <2>1, <2>2, <2>3, <1>1, <1>2, EnterKeepsStatus
<1>6. CASE StartMatching(o)
  <2>1. /\ Enter(o, "Open")
        /\ NoneJoins
        /\ taker'.id = Len(placed) + 1
        /\ taker'.hidden = o.quantity - Visible(o)
    BY <1>6, SameBook DEF StartMatching
  <2>2. o \in Order /\ placed'[taker'.id] = o /\ status'[taker'.id] = "Open"
    BY <2>1, <1>1, EnterFacts, EnterStatus
  <2>3. o.type # "Iceberg" => taker'.hidden = 0
    BY <2>1, <2>2 DEF Visible, Order
  <2>4. TakerAlive'
    BY <2>2, <2>3, <1>1 DEF TakerAlive
  <2> QED BY <2>1, <2>4, <1>1, EnterKeepsStatus
<1> QED BY <1>3, <1>4, <1>5, <1>6 DEF Submit

LEMMA RestRemainderStatus ==
    ASSUME IInv, StatusOK, RestRemainder
    PROVE  StatusOK'
<1>1. /\ Matching
      /\ taker' = Idle
      /\ UNCHANGED <<placed, status, executed>>
  BY DEF RestRemainder, LoopEnds
<1>2. FillReported'
  BY <1>1 DEF StatusOK, FillReported, Id
<1>3. TakerAlive'
  BY <1>1 DEF TakerAlive, Matching, Idle
<1>4. RestingAlive'
  <2> SUFFICES ASSUME NEW s \in Side, NEW t, NEW x, RestsAt(s, t, x)'
               PROVE  status'[x] \notin Dead
    BY DEF RestingAlive
  <2>1. RestsAt(s, t, x) \/ x = taker.id
    BY RemainderJoins DEF OneJoins
  <2> QED BY <2>1, <1>1 DEF StatusOK, RestingAlive, TakerAlive
<1> QED BY <1>2, <1>3, <1>4 DEF StatusOK

LEMMA DropRemainderStatus ==
    ASSUME IInv, StatusOK, DropRemainder
    PROVE  StatusOK'
<1>1. /\ Matching
      /\ taker' = Idle
      /\ UNCHANGED <<book, placed, executed>>
  BY DEF DropRemainder, LoopEnds
<1>2. CASE status' = status
  BY <1>1, <1>2, SameBook, NoneJoinsKeepsStatus
<1>3. CASE Unfilled /\ status' = [status EXCEPT ![taker.id] = "Cancelled"]
  <2>1. /\ \A id \in Id \ {taker.id} : status'[id] = status[id]
        /\ status'[taker.id] = "Cancelled"
    BY <1>1, <1>3, MatchingFacts DEF IInv, ScalarsOK, Id
  <2>2. executed[taker.id] # placed[taker.id].quantity
    BY <1>1, <1>3, MatchingFacts DEF Unfilled
  <2>3. FillReported'
    BY <2>1, <2>2, <1>1 DEF StatusOK, FillReported, Id
  <2>4. TakerAlive'
    BY <1>1 DEF TakerAlive, Matching, Idle
  <2>5. RestingAlive'
    <3> SUFFICES ASSUME NEW s \in Side, NEW t, NEW x, RestsAt(s, t, x)'
                 PROVE  status'[x] \notin Dead
      BY DEF RestingAlive
    <3>1. RestsAt(s, t, x)
      BY <1>1 DEF RestsAt
    <3>2. x \in Id \ {taker.id}
      BY <3>1, RestingEntry
    <3> QED BY <3>1, <3>2, <2>1 DEF StatusOK, RestingAlive
  <2> QED BY <2>3, <2>4, <2>5 DEF StatusOK
<1> QED BY <1>2, <1>3 DEF DropRemainder

(* Two places of a sequence change. *)
LEMMA TwoChange ==
    ASSUME NEW e \in Seq(Status), NEW m \in 1 .. Len(e), NEW k \in 1 .. Len(e), m # k,
           NEW a, NEW b, NEW f, f = [e EXCEPT ![m] = a, ![k] = b]
    PROVE  /\ f[m] = a
           /\ f[k] = b
           /\ \A i \in (1 .. Len(e)) \ {m, k} : f[i] = e[i]
OBVIOUS

LEMMA FillStatusSays ==
    ASSUME NEW f \in Nat, NEW n \in Nat, f <= n
    PROVE  /\ FillStatus(f, n) = "Filled" <=> f = n
           /\ FillStatus(f, n) \notin Dead
BY DEF FillStatus, Dead

LEMMA MatchStatus ==
    ASSUME IInv, StatusOK, Match
    PROVE  StatusOK'
<1>1. PICK side, t, queue, maker, q, after, left :
         TradeStep(side, t, queue, maker, q, after, left)
  BY MatchIsTrade
<1>2. Matching
  BY DEF Match
<1>3. TradeSound(side, t, queue, maker, q, after)
  BY <1>1, <1>2, TradeFacts
<1>4. /\ EntryOK(side, t, maker)
      /\ maker \in Entry
      /\ maker.id \in Id
      /\ maker.id # taker.id
      /\ q \in Nat
      /\ q <= maker.quantity - maker.filled
      /\ q <= taker.quantity - taker.filled
      /\ after.filled = maker.filled + q
      /\ after.quantity = maker.quantity
      /\ executed'[maker.id] = executed[maker.id] + q
      /\ executed'[taker.id] = executed[taker.id] + q
      /\ \A id \in Id \ {maker.id, taker.id} : executed'[id] = executed[id]
  <2>1. maker = queue[1]
    BY <1>1 DEF TradeStep
  <2> QED BY <2>1, <1>3 DEF TradeSound
<1>5. PICK a, b : /\ a = FillStatus(after.filled, after.quantity)
                  /\ b = FillStatus(taker.filled + q, taker.quantity)
  OBVIOUS
<1>6. /\ status' = [status EXCEPT ![maker.id] = a, ![taker.id] = b]
      /\ placed' = placed
      /\ taker' = [taker EXCEPT !.filled = @ + q]
  BY <1>1, <1>5 DEF TradeStep
<1>7. /\ taker.id \in Id
      /\ taker.quantity \in Nat
      /\ taker.filled \in Nat
      /\ taker.filled = executed[taker.id]
      /\ taker.quantity + taker.hidden = placed[taker.id].quantity
      /\ taker \in [id : Nat, quantity : Nat, filled : Nat, hidden : Nat]
  BY <1>2, MatchingFacts DEF IInv, ScalarsOK
<1>8. /\ \A id \in Id \ {maker.id, taker.id} : status'[id] = status[id]
      /\ status'[maker.id] = a
      /\ status'[taker.id] = b
  <2>1. status \in Seq(Status) /\ Len(status) = Len(placed)
    BY DEF IInv, ScalarsOK
  <2>2. maker.id \in 1 .. Len(status) /\ taker.id \in 1 .. Len(status)
    BY <2>1, <1>4, <1>7 DEF Id
  <2>3. PICK f, m, k : f = status' /\ m = maker.id /\ k = taker.id
    OBVIOUS
  <2>4. f = [status EXCEPT ![m] = a, ![k] = b] /\ m # k
    BY <2>3, <1>4, <1>6
  <2>5. /\ f[m] = a
        /\ f[k] = b
        /\ \A i \in (1 .. Len(status)) \ {m, k} : f[i] = status[i]
    BY ONLY <2>1, <2>2, <2>3, <2>4, TwoChange
  <2> QED BY <2>1, <2>3, <2>5 DEF Id
<1>9. /\ a = "Filled" <=> executed'[maker.id] = placed[maker.id].quantity
      /\ a \notin Dead
  <2>1. /\ maker.filled \in Nat /\ maker.quantity \in Nat
        /\ maker.filled = executed[maker.id]
        /\ maker.quantity = placed[maker.id].quantity
    BY <1>4 DEF Entry, EntryOK
  <2>2. after.filled \in Nat /\ after.filled <= after.quantity /\ after.quantity \in Nat
    BY <2>1, <1>4
  <2> QED BY <2>1, <2>2, <1>4, <1>5, FillStatusSays
<1>10. /\ b = "Filled" <=> taker.filled + q = taker.quantity
       /\ b \notin Dead
  <2>1. taker.filled + q \in Nat /\ taker.filled + q <= taker.quantity
    BY <1>4, <1>7
  <2> QED BY <2>1, <1>5, <1>7, FillStatusSays
<1>11. placed[taker.id].type # "Iceberg" =>
          (b = "Filled" <=> executed'[taker.id] = placed[taker.id].quantity)
  BY <1>2, <1>4, <1>7, <1>10 DEF StatusOK, TakerAlive
<1>12. FillReported'
  <2>1. Id' = Id
    BY <1>6 DEF Id
  <2>2. ASSUME NEW id \in Id, placed[id].type # "Iceberg"
        PROVE  status'[id] = "Filled" <=> executed'[id] = placed[id].quantity
    <3>1. CASE id = maker.id
      BY <3>1, <1>8, <1>9
    <3>2. CASE id = taker.id
      BY <2>2, <3>2, <1>8, <1>11
    <3>3. CASE id \in Id \ {maker.id, taker.id}
      <4>1. status'[id] = status[id] /\ executed'[id] = executed[id]
        BY <3>3, <1>4, <1>8
      <4> QED BY <2>2, <4>1 DEF StatusOK, FillReported
    <3> QED BY <3>1, <3>2, <3>3
  <2> QED BY <2>1, <2>2, <1>6 DEF FillReported
<1>13. RestingAlive'
  <2> SUFFICES ASSUME NEW s \in Side, NEW u, NEW x, RestsAt(s, u, x)'
               PROVE  status'[x] \notin Dead
    BY DEF RestingAlive
  <2>1. RestsAt(s, u, x)
    BY MatchJoinsNone DEF NoneJoins
  <2>2. x \in Id /\ status[x] \notin Dead
    BY <2>1, RestingEntry DEF StatusOK, RestingAlive
  <2> QED BY <2>2, <1>8, <1>9, <1>10
<1>14. TakerAlive'
  <2>1. taker'.id = taker.id /\ taker'.hidden = taker.hidden
    BY <1>6, <1>7
  <2> QED BY <2>1, <1>2, <1>6, <1>8, <1>10 DEF StatusOK, TakerAlive
<1> QED BY <1>12, <1>13, <1>14 DEF StatusOK

LEMMA InitStatus == Init => StatusOK
<1> SUFFICES ASSUME Init PROVE StatusOK
  OBVIOUS
<1>1. FillReported /\ TakerAlive
  BY DEF Init, FillReported, TakerAlive, Matching, Idle, Id
<1>2. RestingAlive
  BY DEF Init, RestingAlive, RestsAt
<1> QED BY <1>1, <1>2 DEF StatusOK

LEMMA NextStatus == IInv /\ StatusOK /\ [Next]_vars => StatusOK'
<1> SUFFICES ASSUME IInv, StatusOK, [Next]_vars PROVE StatusOK'
  OBVIOUS
<1>1. ASSUME NEW o \in Menu, Submit(o) PROVE StatusOK'
  BY <1>1, SubmitStatus
<1>2. CASE SweepEmptyLevel
  BY <1>2, SweepJoinsNone, NoneJoinsKeepsStatus DEF SweepEmptyLevel
<1>3. ASSUME NEW id \in Id, Cancel(id) PROVE StatusOK'
  BY <1>3, CancelJoinsNone, NoneJoinsKeepsStatus DEF Cancel
<1>4. CASE UNCHANGED vars
  BY <1>4, SameBook, NoneJoinsKeepsStatus DEF vars
<1> QED BY <1>1, <1>2, <1>3, <1>4, MatchStatus, RestRemainderStatus, DropRemainderStatus
        DEF Next, LoopStep

(* An order is reported filled exactly when it has traded its quantity, as  *)
(* taker and maker over any number of submits, and does not rest then       *)
(* (lib.rs:200-292); icebergs aside.                                        *)
THEOREM FilledReported == Spec => []FilledIsFilled
<1>1. Spec => []StatusOK
  BY InitStatus, NextStatus, Invariance, PTL DEF Spec
<1>2. IInv /\ StatusOK => FilledIsFilled
  BY StatusIsFilled
<1> QED BY <1>1, <1>2, Invariance, PTL

-----------------------------------------------------------------------------
(* What a step takes out of the book. *)

(* Nobody but y leaves its place. *)
OnlyLeaves(y) ==
    \A s \in Side : \A u, x : RestsAt(s, u, x) /\ x # y => RestsAt(s, u, x)'

(* The other levels stay, and level t when its queue q is not empty. *)
OthersStay(side, t, q) ==
    /\ \A s \in Side \ {side} : book'[s] = book[s]
    /\ \A u \in DOMAIN book[side] \ {t} :
          u \in DOMAIN book'[side] /\ book'[side][u] = book[side][u]
    /\ q # << >> => t \in DOMAIN book'[side] /\ book'[side][t] = q

LEMMA SettledKeeps ==
    ASSUME NEW side \in Side, NEW t, NEW q \in Seq(Entry), IInv, t \in DOMAIN book[side],
           book' = [book EXCEPT ![side] = Settled(@, t, q)]
    PROVE  OthersStay(side, t, q)
<1>1. DOMAIN book = Side
  BY DEF IInv, BookIsFunction
<1>2. PICK l : l = book[side]
  OBVIOUS
<1>3. /\ book'[side] = Settled(l, t, q)
      /\ \A s \in Side \ {side} : book'[s] = book[s]
  BY <1>1, <1>2
<1>4. DOMAIN l = DOMAIN [u \in DOMAIN l |-> l[u]] /\ l = [u \in DOMAIN l |-> l[u]]
  BY <1>2 DEF IInv, BookIsFunction
<1>5. /\ \A u \in DOMAIN l \ {t} :
            u \in DOMAIN Settled(l, t, q) /\ Settled(l, t, q)[u] = l[u]
      /\ q # << >> => t \in DOMAIN Settled(l, t, q) /\ Settled(l, t, q)[t] = q
  BY ONLY <1>2, <1>4, t \in DOMAIN book[side] DEF Settled, Without
<1> QED BY <1>2, <1>3, <1>5 DEF OthersStay

LEMMA SettledLeaves ==
    ASSUME NEW side \in Side, NEW t, NEW q \in Seq(Entry), NEW old, old = book[side][t],
           OthersStay(side, t, q), NEW y,
           \A m \in DOMAIN old : old[m].id # y => \E k \in DOMAIN q : q[k].id = old[m].id
    PROVE  OnlyLeaves(y)
<1>1. PICK b : b = book'
  BY Zenon
<1>2. /\ \A s \in Side \ {side} : b[s] = book[s]
      /\ \A u \in DOMAIN book[side] \ {t} : u \in DOMAIN b[side] /\ b[side][u] = book[side][u]
      /\ q # << >> => t \in DOMAIN b[side] /\ b[side][t] = q
  BY <1>1 DEF OthersStay
<1> SUFFICES ASSUME NEW s \in Side, NEW u \in DOMAIN book[s], NEW m \in DOMAIN book[s][u],
                    book[s][u][m].id # y
             PROVE  u \in DOMAIN b[s] /\ \E i \in DOMAIN b[s][u] : b[s][u][i].id = book[s][u][m].id
  BY <1>1 DEF OnlyLeaves, RestsAt
<1>3. CASE s = side /\ u = t
  <2>1. PICK k \in DOMAIN q : q[k].id = old[m].id
    BY <1>3
  <2>2. q # << >>
    BY <2>1
  <2> QED BY <2>1, <2>2, <1>2, <1>3
<1>4. CASE s = side /\ u # t
  BY <1>2, <1>4
<1>5. CASE s # side
  BY <1>2, <1>5
<1> QED BY <1>3, <1>4, <1>5

(* The place of a resting order is the one of its side and price. *)
LEMMA OnePlace ==
    ASSUME IInv, NEW s \in Side, NEW t, NEW x, RestsAt(s, t, x)
    PROVE  s = placed[x].side /\ t = Tick(x)
BY DEF IInv, LevelsOK, LevelOK, EntryOK, RestsAt

LEMMA RestedKeeps ==
    ASSUME NEW side \in Side, NEW t \in Nat, NEW e \in Entry, NEW b, IInv,
           ExtendsBook(b, t), book' = [b EXCEPT ![side] = Rested(@, t, e)]
    PROVE  /\ RestsAt(side, t, e.id)'
           /\ \A s \in Side : \A u, x : RestsAt(s, u, x) => RestsAt(s, u, x)'
<1>1. PICK r : r = Rested(b[side], t, e)
  OBVIOUS
<1>2. PICK old : old = IF t \in DOMAIN b[side] THEN b[side][t] ELSE << >>
  OBVIOUS
<1>3. b[side] \in [DOMAIN b[side] -> Seq(Entry)]
  BY DEF ExtendsBook
<1>4. old \in Seq(Entry)
  BY <1>2, <1>3
<1>5. /\ DOMAIN r = DOMAIN b[side] \cup {t}
      /\ \A u \in DOMAIN b[side] \ {t} : r[u] = b[side][u]
      /\ r[t] = Append(old, e)
  BY ONLY <1>1, <1>2, <1>3, e \in Entry DEF Rested, Opened
<1>6. /\ \E i \in DOMAIN Append(old, e) : Append(old, e)[i] = e
      /\ \A m \in DOMAIN old : m \in DOMAIN Append(old, e) /\ Append(old, e)[m] = old[m]
  <2>1. Len(old) + 1 \in DOMAIN Append(old, e) /\ Append(old, e)[Len(old) + 1] = e
    BY ONLY <1>4, e \in Entry
  <2> QED BY ONLY <1>4, e \in Entry, <2>1
<1>7. PICK c : c = book'
  BY Zenon
<1>8. c[side] = r /\ \A s \in Side \ {side} : c[s] = b[s]
  BY <1>1, <1>7 DEF ExtendsBook
<1>9. RestsAt(side, t, e.id)'
  <2>1. t \in DOMAIN c[side] /\ \E i \in DOMAIN c[side][t] : c[side][t][i].id = e.id
    BY <1>5, <1>6, <1>8
  <2> QED BY <2>1, <1>7 DEF RestsAt
<1>10. ASSUME NEW s \in Side, NEW u \in DOMAIN book[s], NEW m \in DOMAIN book[s][u]
       PROVE  u \in DOMAIN c[s] /\ \E i \in DOMAIN c[s][u] : c[s][u][i].id = book[s][u][m].id
  <2>1. u \in DOMAIN b[s] /\ b[s][u] = book[s][u]
    BY DEF ExtendsBook
  <2>2. CASE s # side
    BY <2>1, <2>2, <1>8
  <2>3. CASE s = side /\ u # t
    BY <2>1, <2>3, <1>5, <1>8
  <2>4. CASE s = side /\ u = t
    <3>1. old = book[s][u] /\ c[s][u] = Append(old, e) /\ u \in DOMAIN c[s]
      BY <2>1, <2>4, <1>2, <1>5, <1>8
    <3> QED BY <3>1, <1>6
  <2> QED BY <2>2, <2>3, <2>4
<1> QED BY <1>7, <1>9, <1>10 DEF RestsAt

-----------------------------------------------------------------------------
(* How the set of resting orders changes. *)

LEMMA RestingIs ==
    ASSUME IInv, NEW x
    PROVE  x \in RestingIds <=> \E s \in Side : \E t : RestsAt(s, t, x)
<1>1. x \in RestingIds => \E s \in Side : \E t : RestsAt(s, t, x)
  BY DEF RestingIds, RestsAt
<1>2. ASSUME NEW s \in Side, NEW t, RestsAt(s, t, x) PROVE x \in RestingIds
  BY <1>2, RestingIsPlaced DEF RestingIds, RestsAt
<1> QED BY <1>1, <1>2

LEMMA RestingAfter ==
    ASSUME IInv', NEW x
    PROVE  (x \in RestingIds)' <=> \E s \in Side : \E t : RestsAt(s, t, x)'
<1>1. (x \in RestingIds)' => \E s \in Side : \E t : RestsAt(s, t, x)'
  BY DEF RestingIds, RestsAt
<1>2. ASSUME NEW s \in Side, NEW t, RestsAt(s, t, x)' PROVE (x \in RestingIds)'
  <2>1. (x \in Id)'
    BY <1>2 DEF IInv, LevelsOK, LevelOK, EntryOK, RestsAt
  <2> QED BY <1>2, <2>1 DEF RestingIds, RestsAt
<1> QED BY <1>1, <1>2

LEMMA NobodyMoves ==
    ASSUME IInv, IInv', NoneJoins, NEW y, OnlyLeaves(y)
    PROVE  RestingIds' \subseteq RestingIds /\ RestingIds \ {y} \subseteq RestingIds'
<1>1. \A x : (x \in RestingIds)' => x \in RestingIds
  BY RestingIs, RestingAfter DEF NoneJoins
<1>2. \A x : x \in RestingIds /\ x # y => (x \in RestingIds)'
  BY RestingIs, RestingAfter DEF OnlyLeaves
<1> QED BY <1>1, <1>2

LEMMA OneMovesIn ==
    ASSUME IInv, IInv', NEW side \in Side, NEW t, NEW id, OneJoins(side, t, id),
           RestsAt(side, t, id)',
           \A s \in Side : \A u, x : RestsAt(s, u, x) => RestsAt(s, u, x)'
    PROVE  RestingIds' = RestingIds \cup {id}
<1>1. \A x : (x \in RestingIds)' => x \in RestingIds \/ x = id
  BY RestingIs, RestingAfter DEF OneJoins
<1>2. \A x : x \in RestingIds => (x \in RestingIds)'
  BY RestingIs, RestingAfter
<1>3. (id \in RestingIds)'
  BY RestingAfter
<1> QED BY <1>1, <1>2, <1>3

LEMMA SameResting ==
    ASSUME IInv, IInv', book' = book PROVE RestingIds' = RestingIds
<1>1. \A x : (\E s \in Side : \E t : RestsAt(s, t, x)') <=> \E s \in Side : \E t : RestsAt(s, t, x)
  BY DEF RestsAt
<1>2. \A x : (x \in RestingIds)' <=> x \in RestingIds
  BY <1>1, RestingIs, RestingAfter
<1> QED BY <1>2

(* Cancel takes its order out of the book and leaves the others. *)
LEMMA CancelLeaves ==
    ASSUME IInv, IInv', NEW id \in Id, Cancel(id)
    PROVE  id \in RestingIds /\ RestingIds' = RestingIds \ {id}
<1>1. PICK side \in Side : \E t \in DOMAIN book[side] :
         \E i \in DOMAIN book[side][t] :
            /\ book[side][t][i].id = id
            /\ book' = [book EXCEPT ![side] = Settled(@, t, Removed(book[side][t], i))]
  BY DEF Cancel
<1>2. PICK t \in DOMAIN book[side] : \E i \in DOMAIN book[side][t] :
         /\ book[side][t][i].id = id
         /\ book' = [book EXCEPT ![side] = Settled(@, t, Removed(book[side][t], i))]
  BY <1>1
<1>3. PICK i \in DOMAIN book[side][t] :
         /\ book[side][t][i].id = id
         /\ book' = [book EXCEPT ![side] = Settled(@, t, Removed(book[side][t], i))]
  BY <1>2
<1>4. PICK old : old = book[side][t]
  OBVIOUS
<1>5. old \in Seq(Entry) /\ Ascending(old) /\ i \in DOMAIN old /\ old[i].id = id
  BY <1>3, <1>4 DEF IInv, LevelsOK, LevelOK
<1>6. PICK q : q = Removed(old, i)
  OBVIOUS
<1>7. q \in Seq(Entry)
  BY <1>5, <1>6, RemoveQueue
<1>8. /\ \A m \in DOMAIN old : old[m].id # id => \E k \in DOMAIN q : q[k].id = old[m].id
      /\ \A k \in DOMAIN q : q[k].id # id
  <2>1. /\ Len(old) \in Nat /\ DOMAIN old = 1 .. Len(old)
        /\ \A m \in 1 .. Len(old) : old[m].id \in Nat
    <3>1. \A e \in Entry : e.id \in Nat
      BY DEF Entry
    <3> QED BY ONLY <1>5, <3>1
  <2>2. /\ DOMAIN q = 1 .. Len(old) - 1
        /\ \A k \in 1 .. Len(old) - 1 : q[k] = IF k < i THEN old[k] ELSE old[k + 1]
    BY <1>6 DEF Removed
  <2>3. \A m, n \in 1 .. Len(old) : m < n => old[m].id < old[n].id
    BY <1>5, <2>1 DEF Ascending
  <2>4. i \in 1 .. Len(old) /\ old[i].id = id
    BY <1>5, <2>1
  <2>5. ASSUME NEW m \in 1 .. Len(old), m # i PROVE \E k \in 1 .. Len(old) - 1 : q[k] = old[m]
    <3>1. CASE m < i
      <4>1. m \in 1 .. Len(old) - 1 /\ q[m] = old[m]
        BY ONLY <2>1, <2>2, <2>4, <3>1, m \in 1 .. Len(old)
      <4> QED BY <4>1
    <3>2. CASE m > i
      <4>1. m - 1 \in 1 .. Len(old) - 1 /\ ~(m - 1 < i) /\ (m - 1) + 1 = m
        BY ONLY <2>1, <2>4, <3>2, m \in 1 .. Len(old)
      <4>2. q[m - 1] = old[m]
        BY ONLY <4>1, <2>2
      <4> QED BY <4>1, <4>2
    <3> QED BY <3>1, <3>2, <2>4, m # i
  <2>6. ASSUME NEW k \in 1 .. Len(old) - 1 PROVE q[k].id # id
    <3>1. CASE k < i
      <4>1. k \in 1 .. Len(old) /\ q[k] = old[k] /\ old[k].id < old[i].id
        BY ONLY <2>1, <2>2, <2>3, <2>4, <3>1, k \in 1 .. Len(old) - 1
      <4> QED BY ONLY <4>1, <2>1, <2>4
    <3>2. CASE ~(k < i)
      <4>1. k + 1 \in 1 .. Len(old) /\ q[k] = old[k + 1] /\ i < k + 1
        BY ONLY <2>1, <2>2, <2>4, <3>2, k \in 1 .. Len(old) - 1
      <4>2. old[i].id < old[k + 1].id
        BY ONLY <2>3, <2>4, <4>1
      <4> QED BY ONLY <4>1, <4>2, <2>1, <2>4
    <3> QED BY <3>1, <3>2
  <2> QED BY ONLY <2>1, <2>2, <2>4, <2>5, <2>6
<1>9. book' = [book EXCEPT ![side] = Settled(@, t, q)]
  BY <1>3, <1>4, <1>6
<1>10. OnlyLeaves(id)
  <2>1. OthersStay(side, t, q)
    BY <1>7, <1>9, SettledKeeps
  <2> QED BY <2>1, <1>4, <1>7, <1>8, SettledLeaves
<1>11. NoneJoins
  BY CancelJoinsNone
<1>12. RestsAt(side, t, id)
  BY <1>4, <1>5 DEF RestsAt
<1>13. ~(id \in RestingIds)'
  <2> SUFFICES ASSUME NEW s \in Side, NEW u, RestsAt(s, u, id)' PROVE FALSE
    BY RestingAfter
  <2>1. RestsAt(s, u, id)
    BY <1>11 DEF NoneJoins
  <2>2. s = side /\ u = t
    BY <2>1, <1>12, OnePlace
  <2>3. Replaces(side, t, q)
    BY <1>7, <1>9, SettledBook
  <2> QED BY <2>2, <2>3, <1>8 DEF Replaces, RestsAt
<1>14. id \in RestingIds
  BY <1>12, RestingIs
<1> QED BY <1>10, <1>11, <1>13, <1>14, NobodyMoves

(* A trade takes the maker out of the book when it is filled. *)
LEMMA TradeLeaves ==
    ASSUME IInv, IInv', Match, Matching, NEW side, NEW t, NEW queue, NEW maker, NEW q,
           NEW after, NEW left, TradeStep(side, t, queue, maker, q, after, left)
    PROVE  /\ maker.id \in RestingIds
           /\ RestsAt(side, t, maker.id)
           /\ RestingIds' = IF q = maker.quantity - maker.filled
                            THEN RestingIds \ {maker.id} ELSE RestingIds
<1>1. /\ side \in Side
      /\ queue \in Seq(Entry)
      /\ Ascending(queue)
      /\ 1 \in DOMAIN queue
      /\ maker \in Entry
      /\ q \in Nat \ {0}
      /\ q <= maker.quantity - maker.filled
      /\ after = [id |-> maker.id, quantity |-> maker.quantity, filled |-> maker.filled + q]
  BY TradeFacts DEF TradeSound
<1>2. /\ queue # << >>
      /\ maker = queue[1]
      /\ t \in DOMAIN book[side]
      /\ queue = book[side][t]
      /\ left = IF after.filled >= after.quantity
                THEN Tail(queue) ELSE [queue EXCEPT ![1] = after]
      /\ book' = [book EXCEPT ![side] = Settled(@, t, left)]
  BY DEF TradeStep
<1>3. after \in Entry /\ after.id = maker.id
  BY <1>1 DEF Entry
<1>4. RestsAt(side, t, maker.id) /\ maker.id \in RestingIds
  <2>1. RestsAt(side, t, maker.id)
    BY <1>1, <1>2 DEF RestsAt
  <2> QED BY <2>1, <1>1, RestingIs
<1>5. NoneJoins
  BY MatchJoinsNone
<1>6. CASE q = maker.quantity - maker.filled
  <2>1. left = Tail(queue)
    <3>1. maker.quantity \in Nat /\ maker.filled \in Nat
      BY <1>1 DEF Entry
    <3>2. after.filled >= after.quantity
      BY ONLY <3>1, <1>1, <1>6
    <3> QED BY <3>2, <1>2
  <2>2. /\ left \in Seq(Entry)
        /\ \A k \in DOMAIN left : k + 1 \in DOMAIN queue \ {1} /\ left[k] = queue[k + 1]
    BY <2>1, <1>1, <1>2, TailQueue
  <2>3. \A m \in DOMAIN queue : queue[m].id # maker.id =>
           \E k \in DOMAIN left : left[k].id = queue[m].id
    <3>1. ASSUME NEW m \in DOMAIN queue, m # 1 PROVE m - 1 \in DOMAIN left /\ left[m - 1] = queue[m]
      BY ONLY <2>1, <1>1, <1>2, <3>1
    <3> QED BY <3>1, <1>2
  <2>4. OthersStay(side, t, left)
    BY <1>1, <1>2, <2>2, SettledKeeps
  <2>5. OnlyLeaves(maker.id)
    <3>1. PICK y : y = maker.id
      OBVIOUS
    <3>2. /\ side \in Side
          /\ queue = book[side][t]
          /\ left \in Seq(Entry)
          /\ \A m \in DOMAIN queue : queue[m].id # y => \E k \in DOMAIN left : left[k].id = queue[m].id
      BY <2>2, <2>3, <1>1, <1>2, <3>1
    <3>3. OnlyLeaves(y)
      BY ONLY <2>4, <3>2, SettledLeaves
    <3> QED BY <3>1, <3>3
  <2>6. \A k \in DOMAIN left : left[k].id # maker.id
    <3>1. ASSUME NEW k \in DOMAIN left PROVE left[k].id # maker.id
      <4>1. PICK n : n = k + 1
        OBVIOUS
      <4>2. n \in DOMAIN queue /\ 1 < n /\ left[k] = queue[n]
        <5>1. n \in DOMAIN queue \ {1} /\ left[k] = queue[n]
          BY <2>2, <4>1
        <5> QED BY ONLY <5>1, <1>1
      <4>3. maker.id < queue[n].id
        BY <4>2, <1>1, <1>2 DEF Ascending
      <4>4. maker.id \in Nat
        BY <1>1 DEF Entry
      <4> QED BY <4>2, <4>3, <4>4
    <3> QED BY <3>1
  <2>7. ~(maker.id \in RestingIds)'
    <3> SUFFICES ASSUME NEW s \in Side, NEW u, RestsAt(s, u, maker.id)' PROVE FALSE
      BY RestingAfter
    <3>1. RestsAt(s, u, maker.id)
      BY <1>5 DEF NoneJoins
    <3>2. s = side /\ u = t
      BY <3>1, <1>1, <1>4, OnePlace
    <3>3. Replaces(side, t, left)
      BY <1>1, <1>2, <2>2, SettledBook
    <3> QED BY <3>2, <3>3, <2>6 DEF Replaces, RestsAt
  <2>8. RestingIds' \subseteq RestingIds /\ RestingIds \ {maker.id} \subseteq RestingIds'
    BY <2>5, <1>5, NobodyMoves
  <2> QED BY <2>7, <2>8, <1>4, <1>6
<1>7. CASE q # maker.quantity - maker.filled
  <2>1. left = [queue EXCEPT ![1] = after]
    <3>1. maker.quantity \in Nat /\ maker.filled \in Nat
      BY <1>1 DEF Entry
    <3>2. ~(after.filled >= after.quantity)
      BY ONLY <3>1, <1>1, <1>7
    <3> QED BY <3>2, <1>2
  <2>2. /\ left \in Seq(Entry)
        /\ \A m \in DOMAIN queue : m \in DOMAIN left /\ left[m].id = queue[m].id
    BY <2>1, <1>1, <1>2, <1>3
  <2>3. OthersStay(side, t, left)
    BY <1>1, <1>2, <2>2, SettledKeeps
  <2>4. OnlyLeaves(0)
    <3>1. /\ side \in Side
          /\ queue = book[side][t]
          /\ left \in Seq(Entry)
          /\ \A m \in DOMAIN queue : queue[m].id # 0 => \E k \in DOMAIN left : left[k].id = queue[m].id
      BY <2>2, <1>1, <1>2
    <3> QED BY ONLY <2>3, <3>1, SettledLeaves
  <2>5. RestingIds' \subseteq RestingIds /\ RestingIds \ {0} \subseteq RestingIds'
    BY <2>4, <1>5, NobodyMoves
  <2>6. 0 \notin RestingIds
    BY DEF RestingIds, Id
  <2> QED BY <2>5, <2>6, <1>4, <1>7
<1> QED BY <1>4, <1>6, <1>7

LEMMA SweepLeaves == ASSUME IInv, IInv', SweepEmptyLevel PROVE RestingIds' = RestingIds
<1>1. PICK side : side = Them
  OBVIOUS
<1>2. PICK t \in DOMAIN book[side] : /\ book[side][t] = << >>
                                     /\ book' = [book EXCEPT ![side] = Without(@, t)]
  BY <1>1 DEF SweepEmptyLevel
<1>3. side \in Side
  BY <1>1, MatchingFacts DEF SweepEmptyLevel
<1>4. << >> \in Seq(Entry) /\ DOMAIN << >> = {}
  OBVIOUS
<1>5. book' = [book EXCEPT ![side] = Settled(@, t, << >>)]
  BY <1>2 DEF Settled
<1>6. OthersStay(side, t, << >>)
  BY <1>3, <1>4, <1>5, SettledKeeps
<1>7. OnlyLeaves(0)
  <2>1. PICK old : old = book[side][t]
    OBVIOUS
  <2>2. PICK q \in Seq(Entry) : q = << >>
    BY <1>4
  <2>3. \A m \in DOMAIN old : FALSE
    BY <2>1, <1>2, <1>4
  <2> QED BY <2>1, <2>2, <2>3, <1>3, <1>6, SettledLeaves
<1>8. NoneJoins
  BY SweepJoinsNone
<1>9. RestingIds' \subseteq RestingIds /\ RestingIds \ {0} \subseteq RestingIds'
  BY <1>7, <1>8, NobodyMoves
<1>10. 0 \notin RestingIds
  BY DEF RestingIds, Id
<1> QED BY <1>9, <1>10

LEMMA PostOnlyMovesIn ==
    ASSUME IInv, IInv', NEW o \in Menu, RestPostOnly(o)
    PROVE  RestingIds' = RestingIds \cup {Len(placed) + 1}
<1>1. PICK t : t = PriceToTicks(o.price)
  OBVIOUS
<1>2. PICK e : e = [id |-> Len(placed) + 1, quantity |-> o.quantity, filled |-> 0]
  OBVIOUS
<1>3. PICK b : b = [book EXCEPT !["Buy"] = Opened(@, t)]
  OBVIOUS
<1>4. /\ Enter(o, "Open")
      /\ "Open" \in Status
      /\ book' = [b EXCEPT ![o.side] = Rested(@, t, e)]
  BY <1>1, <1>2, <1>3 DEF RestPostOnly, Status
<1>5. /\ t \in Nat
      /\ o.side \in Side
      /\ e \in Entry
      /\ e.id = Len(placed) + 1
  BY <1>1, <1>2, <1>4, EnterFacts, TickIsNat DEF Order, Entry
<1>6. ExtendsBook(b, t)
  BY <1>3, OpenedBook
<1>7. PICK n : n = Len(placed) + 1
  OBVIOUS
<1>8. RestsAt(o.side, t, e.id)' /\ \A s \in Side : \A u, x : RestsAt(s, u, x) => RestsAt(s, u, x)'
  BY <1>4, <1>5, <1>6, RestedKeeps
<1>9. RestsAt(o.side, t, n)'
  <2>1. PICK k : k = e.id
    OBVIOUS
  <2>2. k = n
    BY <2>1, <1>5, <1>7
  <2> QED BY <2>1, <2>2, <1>8
<1>10. OneJoins(o.side, t, n)
  BY <1>1, <1>7, PostOnlyJoins
<1>11. RestingIds' = RestingIds \cup {n}
  BY <1>5, <1>8, <1>9, <1>10, OneMovesIn
<1> QED BY <1>7, <1>11

LEMMA RemainderMovesIn ==
    ASSUME IInv, IInv', RestRemainder
    PROVE  RestingIds' = RestingIds \cup {taker.id}
<1>1. Matching
  BY DEF RestRemainder, LoopEnds
<1>2. PICK side : side = Us
  OBVIOUS
<1>3. PICK t : t = PriceToTicks(placed[taker.id].price)
  OBVIOUS
<1>4. PICK e : e = Remainder
  OBVIOUS
<1>5. PICK b : b = book
  OBVIOUS
<1>6. /\ side \in Side
      /\ t \in Nat
      /\ e \in Entry
      /\ e.id = taker.id
  <2>1. placed[taker.id].price \in Nat
    BY <1>1, MatchingFacts DEF Order
  <2>2. Remainder \in Entry /\ Remainder.id = taker.id
    BY <1>1, MatchingFacts DEF Entry, Remainder, Id
  <2> QED BY <1>1, <1>2, <1>3, <1>4, <2>1, <2>2, MatchingFacts, TickIsNat
<1>7. book' = [b EXCEPT ![side] = Rested(@, t, e)]
  BY <1>2, <1>3, <1>4, <1>5 DEF RestRemainder
<1>8. ExtendsBook(b, t)
  BY <1>5 DEF ExtendsBook, IInv, BookIsFunction
<1>9. PICK n : n = taker.id
  OBVIOUS
<1>10. RestsAt(side, t, e.id)' /\ \A s \in Side : \A u, x : RestsAt(s, u, x) => RestsAt(s, u, x)'
  BY <1>6, <1>7, <1>8, RestedKeeps
<1>11. RestsAt(side, t, n)'
  <2>1. PICK k : k = e.id
    OBVIOUS
  <2>2. k = n
    BY <2>1, <1>6, <1>9
  <2> QED BY <2>1, <2>2, <1>10
<1>12. OneJoins(side, t, n)
  BY <1>2, <1>3, <1>9, RemainderJoins
<1>13. RestingIds' = RestingIds \cup {n}
  BY <1>6, <1>10, <1>11, <1>12, OneMovesIn
<1> QED BY <1>9, <1>13

-----------------------------------------------------------------------------
(* What available_qty_at_price counts is what the welcome orders have left. *)

(* The contract is about the same sides, prices and types. *)
LEMMA SameWords ==
    /\ \A s : Contract!Opposite(s) = Opposite(s)
    /\ \A p : Contract!PriceToTicks(p) = PriceToTicks(p)
    /\ \A t : Contract!TicksToPrice(t) = TicksToPrice(t)
    /\ \A s, t, p : Contract!Acceptable(s, t, p) <=> Acceptable(s, t, p)
    /\ \A s, t, u : Contract!Ahead(s, t, u) <=> Ahead(s, t, u)
    /\ \A o : /\ Contract!PriceLimited(o) <=> PriceLimited(o)
              /\ Contract!IsFok(o) <=> IsFok(o)
              /\ Contract!IsIoc(o) <=> IsIoc(o)
<1>1. \A s : Contract!Opposite(s) = Opposite(s)
  BY DEF Contract!Opposite, Opposite
<1>2. \A p : Contract!PriceToTicks(p) = PriceToTicks(p)
  BY DEF Contract!PriceToTicks, PriceToTicks
<1>3. \A t : Contract!TicksToPrice(t) = TicksToPrice(t)
  BY DEF Contract!TicksToPrice, TicksToPrice
<1>4. \A s, t, p : Contract!Acceptable(s, t, p) <=> Acceptable(s, t, p)
  BY <1>3 DEF Contract!Acceptable, Acceptable
<1>5. \A s, t, u : Contract!Ahead(s, t, u) <=> Ahead(s, t, u)
  BY DEF Contract!Ahead, Ahead
<1>6. \A o : /\ Contract!PriceLimited(o) <=> PriceLimited(o)
             /\ Contract!IsFok(o) <=> IsFok(o)
             /\ Contract!IsIoc(o) <=> IsIoc(o)
  BY DEF Contract!PriceLimited, PriceLimited, Contract!IsFok, IsFok, Contract!IsIoc, IsIoc
<1> QED BY <1>1, <1>2, <1>3, <1>4, <1>5, <1>6

LEMMA SameSum == \A f, S : Contract!SumFunctionOnSet(f, S) = SumFunctionOnSet(f, S)
BY Zenon DEF Contract!SumFunctionOnSet, Contract!FoldFunctionOnSet, Contract!MapThenFoldSet,
             SumFunctionOnSet, FoldFunctionOnSet, MapThenFoldSet

LEMMA DomainOfSeq == ASSUME NEW q \in Seq(Entry) PROVE DOMAIN q = 1 .. Len(q) /\ Len(q) \in Nat
OBVIOUS

LEMMA LeftIs ==
    ASSUME IInv, NEW id \in Id
    PROVE  /\ Contract!Lefts[id] = placed[id].quantity - executed[id]
           /\ Contract!Lefts[id] \in Nat
           /\ executed[id] \in Nat
           /\ placed[id].quantity \in Nat \ {0}
           /\ placed[id] \in Order
<1>1. placed \in Seq(Order) /\ DOMAIN placed = Id
  BY DEF IInv, ScalarsOK, Id
<1>2. Contract!Lefts[id] = placed[id].quantity - executed[id]
  BY <1>1 DEF Contract!Lefts, Contract!Left
<1>3. placed[id] \in Order
  BY <1>1
<1>4. placed[id].quantity \in Nat \ {0}
  BY <1>3 DEF Order
<1>5. executed[id] <= placed[id].quantity
  BY DEF IInv, NeverOverfilled
<1>6. executed[id] \in Nat
  BY ExecutedIsNat
<1>7. placed[id].quantity - executed[id] \in Nat
  BY ONLY <1>4, <1>5, <1>6
<1> QED BY <1>2, <1>3, <1>4, <1>6, <1>7

IdsAt(s, t) == {book[s][t][i].id : i \in DOMAIN book[s][t]}

LEMMA LevelSum ==
    ASSUME IInv, NEW s \in Side, NEW t \in DOMAIN book[s]
    PROVE  /\ IsFiniteSet(IdsAt(s, t))
           /\ IdsAt(s, t) \subseteq Id
           /\ NatOn(Contract!Lefts, IdsAt(s, t))
           /\ LevelsLeft(s)[t] = SumFunctionOnSet(Contract!Lefts, IdsAt(s, t))
<1>1. PICK q : q = book[s][t]
  OBVIOUS
<1>2. /\ q \in Seq(Entry)
      /\ Ascending(q)
      /\ \A i \in DOMAIN q : EntryOK(s, t, q[i])
  BY <1>1 DEF IInv, LevelsOK, LevelOK
<1>3. PICK f : f = [i \in DOMAIN q |-> Remaining(q[i])]
  OBVIOUS
<1>4. PICK g : g = Contract!Lefts
  OBVIOUS
<1>5. PICK b : b = [i \in DOMAIN q |-> q[i].id]
  OBVIOUS
<1>6. PICK D : D = DOMAIN q
  OBVIOUS
<1>7. IsFiniteSet(D)
  BY <1>2, <1>6, DomainOfSeq, FS_Interval
<1>8. \A i \in D : b[i] \in Id /\ g[b[i]] = f[i] /\ f[i] \in Nat
  <2> SUFFICES ASSUME NEW i \in D PROVE b[i] \in Id /\ g[b[i]] = f[i] /\ f[i] \in Nat
    OBVIOUS
  <2>1. EntryOK(s, t, q[i]) /\ b[i] = q[i].id /\ f[i] = q[i].quantity - q[i].filled
    BY <1>2, <1>3, <1>5, <1>6 DEF Remaining
  <2>2. b[i] \in Id /\ q[i].quantity = placed[b[i]].quantity /\ q[i].filled = executed[b[i]]
    BY <2>1 DEF EntryOK
  <2>3. g[b[i]] = placed[b[i]].quantity - executed[b[i]] /\ g[b[i]] \in Nat
    BY <2>2, <1>4, LeftIs
  <2> QED BY ONLY <2>1, <2>2, <2>3
<1>9. \A i, j \in D : b[i] = b[j] => i = j
  <2> SUFFICES ASSUME NEW i \in D, NEW j \in D, b[i] = b[j], i # j PROVE FALSE
    OBVIOUS
  <2>1. b[i] = q[i].id /\ b[j] = q[j].id /\ b[i] \in Nat
    BY <1>5, <1>6, <1>8 DEF Id
  <2>2. i < j \/ j < i
    BY ONLY <1>2, <1>6, DomainOfSeq, i \in D, j \in D, i # j
  <2>3. q[i].id < q[j].id \/ q[j].id < q[i].id
    BY <2>2, <1>2, <1>6 DEF Ascending
  <2> QED BY ONLY <2>1, <2>3, b[i] = b[j]
<1>10. /\ IsFiniteSet({b[i] : i \in D})
       /\ SumFunctionOnSet(g, {b[i] : i \in D}) = SumFunctionOnSet(f, D)
  <2>1. \A i \in D : g[b[i]] = f[i] /\ f[i] \in Nat
    BY <1>8
  <2> QED BY ONLY <1>7, <1>9, <2>1, SumRenamed
<1>11. IdsAt(s, t) = {b[i] : i \in D}
  BY <1>1, <1>5, <1>6 DEF IdsAt
<1>12. LevelsLeft(s)[t] = SumFunctionOnSet(f, D)
  <2>1. LevelsLeft(s)[t] = QueueLeft(q)
    BY <1>1 DEF LevelsLeft
  <2>2. QueueLeft(q) = SumFunctionOnSet(f, DOMAIN f)
    BY <1>3 DEF QueueLeft, SumFunction
  <2>3. DOMAIN f = D
    BY <1>3, <1>6
  <2> QED BY <2>1, <2>2, <2>3
<1>13. NatOn(g, {b[i] : i \in D}) /\ {b[i] : i \in D} \subseteq Id
  BY <1>8 DEF NatOn
<1> QED BY <1>4, <1>10, <1>11, <1>12, <1>13

LEMMA LevelsAreFinite == ASSUME IInv, Bounded, NEW s \in Side PROVE IsFiniteSet(DOMAIN book[s])
<1>1. PICK n \in Nat : \A t \in DOMAIN book[s] : t <= n
  BY DEF Bounded
<1>2. DOMAIN book[s] \subseteq 0 .. n
  BY <1>1, LevelsAreNat
<1>3. IsFiniteSet(0 .. n)
  BY FS_Interval
<1> QED BY <1>2, <1>3, FS_Subset

LEMMA WelcomeIs ==
    ASSUME NEW o, NEW m
    PROVE  m \in Contract!Welcome(o) <=>
              /\ m \in RestingIds
              /\ placed[m].side = Opposite(o.side)
              /\ Acceptable(o.side, Tick(m), o.price)
BY SameWords DEF Contract!Welcome, Contract!OnSide, Contract!Tick, Tick

(* The sum of what the welcome orders have left, a number. *)
LEMMA WelcomeSum ==
    ASSUME IInv, NEW o
    PROVE  /\ IsFiniteSet(Contract!Welcome(o))
           /\ Contract!Welcome(o) \subseteq Id
           /\ NatOn(Contract!Lefts, Contract!Welcome(o))
           /\ SumFunctionOnSet(Contract!Lefts, Contract!Welcome(o)) \in Nat
<1>1. PICK w : w = Contract!Welcome(o)
  OBVIOUS
<1>2. w \subseteq Id
  BY <1>1, WelcomeIs DEF RestingIds
<1>3. IsFiniteSet(Id)
  <2>1. Len(placed) \in Nat
    BY DEF IInv, ScalarsOK
  <2> QED BY <2>1, FS_Interval DEF Id
<1>4. IsFiniteSet(w)
  BY <1>2, <1>3, FS_Subset
<1>5. PICK f : f = Contract!Lefts
  OBVIOUS
<1>6. NatOn(f, w)
  BY <1>2, <1>5, LeftIs DEF NatOn
<1>7. SumFunctionOnSet(f, w) \in Nat
  BY ONLY <1>4, <1>6, SumInNat
<1> QED BY <1>1, <1>2, <1>4, <1>5, <1>6, <1>7

(* The welcome orders are those at the acceptable levels. *)
LEMMA WelcomeAre ==
    ASSUME IInv, NEW o \in Order, NEW s, s = Opposite(o.side), NEW m
    PROVE  m \in Contract!Welcome(o) <=>
              \E t \in DOMAIN book[s] : Acceptable(o.side, t, o.price) /\ m \in IdsAt(s, t)
<1>1. s \in Side
  BY DEF Opposite, Side
<1>2. m \in Contract!Welcome(o) <=>
         m \in RestingIds /\ placed[m].side = s /\ Acceptable(o.side, Tick(m), o.price)
  BY WelcomeIs
<1>3. ASSUME m \in RestingIds, placed[m].side = s PROVE RestsAt(s, Tick(m), m)
  <2>1. PICK v \in Side : \E t : RestsAt(v, t, m)
    BY <1>3, RestingIs
  <2>2. PICK t : RestsAt(v, t, m)
    BY <2>1
  <2> QED BY <2>2, <1>3, OnePlace
<1>4. ASSUME NEW t, RestsAt(s, t, m) PROVE m \in RestingIds /\ placed[m].side = s /\ Tick(m) = t
  BY <1>4, <1>1, OnePlace, RestingIs
<1>5. \A t : RestsAt(s, t, m) <=> t \in DOMAIN book[s] /\ m \in IdsAt(s, t)
  BY DEF RestsAt, IdsAt
<1> QED BY <1>2, <1>3, <1>4, <1>5

LEMMA AvailableIsLeft ==
    ASSUME IInv, Bounded, NEW o \in Order
    PROVE  Available(o.side, o.price) = SumFunctionOnSet(Contract!Lefts, Contract!Welcome(o))
<1>1. PICK s \in Side : s = Opposite(o.side)
  BY DEF Opposite, Side
<1>2. PICK A : A = {u \in DOMAIN book[s] : Acceptable(o.side, u, o.price)}
  OBVIOUS
<1>3. IsFiniteSet(A) /\ A \subseteq DOMAIN book[s]
  BY <1>2, LevelsAreFinite, FS_Subset
<1>4. PICK P : P = [t \in A |-> IdsAt(s, t)]
  OBVIOUS
<1>5. PICK f : f = Contract!Lefts
  OBVIOUS
<1>6. PICK h : h = LevelsLeft(s)
  OBVIOUS
<1>7. \A t \in A : /\ IsFiniteSet(P[t])
                   /\ NatOn(f, P[t])
                   /\ h[t] = SumFunctionOnSet(f, P[t])
  BY <1>3, <1>4, <1>5, <1>6, LevelSum
<1>8. \A t, u \in A : t # u => P[t] \cap P[u] = {}
  <2> SUFFICES ASSUME NEW t \in A, NEW u \in A, NEW m, m \in P[t], m \in P[u] PROVE t = u
    BY Zenon
  <2>1. RestsAt(s, t, m) /\ RestsAt(s, u, m)
    BY <1>3, <1>4 DEF RestsAt, IdsAt
  <2> QED BY <2>1, OnePlace
<1>9. /\ IsFiniteSet(UNION {P[t] : t \in A})
      /\ SumFunctionOnSet(h, A) = SumFunctionOnSet(f, UNION {P[t] : t \in A})
  <2>1. \A t \in A : /\ IsFiniteSet(P[t])
                     /\ NatOn(f, P[t])
                     /\ h[t] = SumFunctionOnSet(f, P[t])
    BY <1>7
  <2> QED BY ONLY <1>3, <1>8, <2>1, SumOfSums
<1>10. Contract!Welcome(o) = UNION {P[t] : t \in A}
  <2>1. UNION {P[t] : t \in A} = UNION {IdsAt(s, t) : t \in A}
    BY <1>4
  <2>2. \A m : m \in Contract!Welcome(o) <=> \E t \in A : m \in IdsAt(s, t)
    BY <1>1, <1>2, WelcomeAre
  <2> QED BY <2>1, <2>2
<1>11. Available(o.side, o.price) = SumFunctionOnSet(h, A)
  BY <1>1, <1>2, <1>6 DEF Available
<1> QED BY <1>5, <1>9, <1>10, <1>11

-----------------------------------------------------------------------------
(* Every step of the book is a step of the contract, or none of its own. *)

LEMMA OnSideIs ==
    ASSUME IInv, NEW s \in Side, NEW m
    PROVE  m \in Contract!OnSide(s) <=> RestsAt(s, Tick(m), m)
<1>1. m \in Contract!OnSide(s) <=> m \in RestingIds /\ placed[m].side = s
  BY DEF Contract!OnSide
<1>2. ASSUME m \in RestingIds, placed[m].side = s PROVE RestsAt(s, Tick(m), m)
  <2>1. PICK v \in Side : \E t : RestsAt(v, t, m)
    BY <1>2, RestingIs
  <2>2. PICK t : RestsAt(v, t, m)
    BY <2>1
  <2> QED BY <2>2, <1>2, OnePlace
<1>3. ASSUME RestsAt(s, Tick(m), m) PROVE m \in RestingIds /\ placed[m].side = s
  BY <1>3, OnePlace, RestingIs
<1> QED BY <1>1, <1>2, <1>3

LEMMA TickIs == ASSUME NEW m PROVE Contract!Tick(m) = Tick(m)
BY SameWords DEF Contract!Tick, Tick

(* The contract's variables when an order enters. *)
LEMMA Received ==
    ASSUME NEW o \in Menu, NEW st, Enter(o, st),
           \/ taker'.id = Len(placed) + 1 /\ ~Contract!Killed(o) /\ RestingIds' = RestingIds
           \/ /\ o.type = "PostOnly"
              /\ Contract!Welcome(o) = {}
              /\ RestingIds' = RestingIds \cup {Len(placed) + 1}
              /\ taker'.id = taker.id
           \/ /\ o.type = "PostOnly" \/ Contract!Killed(o)
              /\ RestingIds' = RestingIds
              /\ taker'.id = taker.id
    PROVE  Contract!Next
<1>1. taker.id = 0
  BY DEF Enter, Idle
<1>2. Contract!Receive(o)
  BY <1>1, Zenon DEF Contract!Receive, Enter
<1> QED BY <1>2 DEF Contract!Next

LEMMA KilledIs ==
    ASSUME IInv, Bounded, NEW o \in Order
    PROVE  Contract!Killed(o) <=> IsFok(o) /\ Available(o.side, o.price) < o.quantity
BY AvailableIsLeft, SameWords, SameSum DEF Contract!Killed

LEMMA SubmitReceived ==
    ASSUME IInv, IInv', Bounded, NEW o \in Menu, Submit(o)
    PROVE  Contract!Next
<1>1. o \in Order
  BY MenuAssumption
<1>2. CASE RejectPostOnly(o)
  <2>1. RestingIds' = RestingIds
    BY <1>2, SameResting DEF RejectPostOnly
  <2> QED BY <2>1, <1>2, Received DEF RejectPostOnly
<1>3. CASE RestPostOnly(o)
  <2>1. RestingIds' = RestingIds \cup {Len(placed) + 1}
    BY <1>3, PostOnlyMovesIn
  <2>2. Contract!Welcome(o) = {}
    <3>1. PICK s \in Side : s = Opposite(o.side)
      BY DEF Opposite, Side
    <3>2. o.side \in Side /\ o.price \in Nat
      BY <1>1 DEF Order
    <3> SUFFICES ASSUME NEW m \in Contract!Welcome(o) PROVE FALSE
      OBVIOUS
    <3>3. PICK u \in DOMAIN book[s] : Acceptable(o.side, u, o.price)
      BY <1>1, <3>1, WelcomeAre
    <3>4. PICK t \in DOMAIN book[s] : Best(s, t)
      BY <3>3, HasBest
    <3>5. ~Acceptable(o.side, t, o.price)
      BY <1>3, <3>1, <3>4 DEF RestPostOnly, WouldMatch
    <3> QED BY <3>1, <3>2, <3>3, <3>4, <3>5, BestRefused
  <2> QED BY <2>1, <2>2, <1>3, Received DEF RestPostOnly
<1>4. CASE KillFok(o)
  <2>1. RestingIds' = RestingIds
    BY <1>4, SameResting DEF KillFok
  <2>2. Contract!Killed(o)
    BY <1>1, <1>4, KilledIs DEF KillFok
  <2> QED BY <2>1, <2>2, <1>4, Received DEF KillFok
<1>5. CASE StartMatching(o)
  <2>1. RestingIds' = RestingIds
    BY <1>5, SameResting DEF StartMatching
  <2>2. ~Contract!Killed(o)
    <3>1. Contract!Killed(o) => Available(o.side, o.price) < o.quantity /\ IsFok(o)
      BY <1>1, KilledIs
    <3>2. IsFok(o) => Available(o.side, o.price) >= o.quantity
      BY <1>5 DEF StartMatching
    <3>3. Available(o.side, o.price) \in Nat /\ o.quantity \in Nat
      BY <1>1, AvailableIsLeft, WelcomeSum DEF Order
    <3> QED BY ONLY <3>1, <3>2, <3>3
  <2>3. taker'.id = Len(placed) + 1
    BY <1>5 DEF StartMatching
  <2> QED BY <2>1, <2>2, <2>3, <1>5, Received DEF StartMatching
<1> QED BY <1>2, <1>3, <1>4, <1>5 DEF Submit

(* Nobody is left for the taker of a loop that ends unfilled. *)
LEMMA LoopLeavesAlone ==
    ASSUME IInv, LoopEnds, Unfilled
    PROVE  Contract!Alone
<1>1. /\ Matching
      /\ \/ DOMAIN book[Them] = {}
         \/ \E t \in DOMAIN book[Them] : Best(Them, t) /\ Stops(t)
  BY MatchingFacts DEF LoopEnds, Unfilled
<1>2. PICK us \in Side : us = Us
  BY <1>1, MatchingFacts
<1>3. PICK them \in Side : them = Them /\ them = Opposite(us)
  BY <1>1, <1>2, MatchingFacts DEF Them
<1>4. PICK o : o = placed[taker.id]
  OBVIOUS
<1>5. o \in Order /\ o.price \in Nat /\ o.side = us
  BY <1>1, <1>2, <1>4, MatchingFacts DEF Order, Us
<1> SUFFICES ASSUME NEW m, m \in Contract!OnSide(them), Contract!Accepts(taker.id, m)
             PROVE  FALSE
  BY <1>3, <1>4, <1>5, SameWords DEF Contract!Alone
<1>6. RestsAt(them, Tick(m), m)
  BY OnSideIs
<1>7. Tick(m) \in DOMAIN book[them]
  BY <1>6 DEF RestsAt
<1>8. PICK t \in DOMAIN book[them] : Best(them, t) /\ PriceLimited(o) /\ ~Acceptable(us, t, o.price)
  BY <1>1, <1>2, <1>3, <1>4, <1>7 DEF Stops
<1>9. ~Acceptable(us, Tick(m), o.price)
  BY <1>3, <1>5, <1>7, <1>8, BestRefused
<1>10. Acceptable(us, Tick(m), o.price)
  BY <1>4, <1>5, <1>8, SameWords, TickIs DEF Contract!Accepts
<1> QED BY <1>9, <1>10

LEMMA TakerLeft ==
    ASSUME IInv, Matching
    PROVE  /\ Contract!Left(taker.id) = placed[taker.id].quantity - taker.filled
           /\ Contract!Left(taker.id) = (taker.quantity - taker.filled) + taker.hidden
BY MatchingFacts DEF Contract!Left

LEMMA RestIsRest ==
    ASSUME IInv, IInv', RestRemainder
    PROVE  Contract!Next
<1>1. /\ Matching /\ LoopEnds /\ Unfilled /\ Rests(placed[taker.id])
      /\ taker' = Idle
      /\ UNCHANGED <<placed, executed, trades>>
  BY DEF RestRemainder, LoopEnds, Rests
<1>2. taker.id # 0 /\ taker'.id = 0
  BY <1>1 DEF Matching, Idle
<1>3. Contract!Alone
  BY <1>1, LoopLeavesAlone
<1>4. Contract!Left(taker.id) > 0
  BY <1>1, TakerLeft, MatchingFacts DEF Unfilled
<1>5. ~Contract!Immediate(placed[taker.id])
  BY <1>1, SameWords DEF Rests, Contract!Immediate
<1>6. RestingIds' = RestingIds \cup {taker.id}
  BY RemainderMovesIn
<1>7. Contract!Rest
  BY ONLY <1>1, <1>2, <1>3, <1>4, <1>5, <1>6 DEF Contract!Rest
<1> QED BY <1>7 DEF Contract!Next

LEMMA DropIsLeave ==
    ASSUME IInv, IInv', StatusOK, DropRemainder
    PROVE  Contract!Next
<1>1. /\ Matching /\ LoopEnds /\ ~Rests(placed[taker.id])
      /\ taker' = Idle
      /\ book' = book
      /\ UNCHANGED <<placed, executed, trades>>
  BY DEF DropRemainder, LoopEnds
<1>2. taker.id # 0 /\ taker'.id = 0
  BY <1>1 DEF Matching, Idle
<1>3. RestingIds' = RestingIds
  BY <1>1, SameResting
<1>4. CASE Unfilled
  <2>1. Contract!Alone
    BY <1>1, <1>4, LoopLeavesAlone
  <2>2. Contract!Immediate(placed[taker.id])
    BY <1>1, <1>4, SameWords DEF Rests, Contract!Immediate
  <2>3. Contract!Leave
    BY ONLY <1>1, <1>2, <1>3, <2>1, <2>2 DEF Contract!Leave
  <2> QED BY <2>3 DEF Contract!Next
<1>5. CASE ~Unfilled
  <2>1. placed[taker.id].type = "Iceberg" \/ taker.hidden = 0
    BY <1>1 DEF StatusOK, TakerAlive
  <2>2. taker.hidden = 0 => Contract!Left(taker.id) = 0
    BY <1>1, <1>5, TakerLeft, MatchingFacts DEF Unfilled
  <2>3. Contract!Leave
    BY ONLY <1>1, <1>2, <1>3, <2>1, <2>2 DEF Contract!Leave
  <2> QED BY <2>3 DEF Contract!Next
<1> QED BY <1>4, <1>5

LEMMA CancelIsWithdraw ==
    ASSUME IInv, IInv', NEW id \in Id, Cancel(id)
    PROVE  Contract!Next
<1>1. id \in RestingIds /\ RestingIds' = RestingIds \ {id}
  BY CancelLeaves
<1>2. taker.id = 0 /\ UNCHANGED <<placed, executed, taker, trades>>
  BY DEF Cancel, Matching
<1>3. Contract!Withdraw(id)
  BY ONLY <1>1, <1>2 DEF Contract!Withdraw
<1> QED BY <1>1, <1>3 DEF Contract!Next

(* The maker is the first of its side. *)
LEMMA MakerIsFirst ==
    ASSUME IInv, Match, Matching, NEW side, NEW t, NEW queue, NEW maker, NEW q,
           NEW after, NEW left, TradeStep(side, t, queue, maker, q, after, left),
           RestsAt(side, t, maker.id)
    PROVE  Contract!First(side, maker.id)
<1>1. /\ side \in Side
      /\ queue = book[side][t]
      /\ maker = queue[1]
      /\ t \in DOMAIN book[side]
      /\ Best(side, t)
  BY TradeFacts DEF TradeStep, TradeSound
<1>2. queue \in Seq(Entry) /\ Ascending(queue) /\ 1 \in DOMAIN queue
  BY TradeFacts DEF TradeSound
<1>3. PICK y : y = maker.id
  OBVIOUS
<1>4. Tick(y) = t
  BY <1>1, <1>3, OnePlace
<1>5. y \in Contract!OnSide(side)
  BY <1>1, <1>3, <1>4, OnSideIs
<1>6. ASSUME NEW m \in Contract!OnSide(side), m # y PROVE Contract!Precedes(side, y, m)
  <2>1. RestsAt(side, Tick(m), m)
    BY <1>1, <1>6, OnSideIs
  <2>2. PICK u : u = Tick(m)
    OBVIOUS
  <2>3. PICK i \in DOMAIN book[side][u] : u \in DOMAIN book[side] /\ book[side][u][i].id = m
    BY <2>1, <2>2 DEF RestsAt
  <2>4. u = t \/ Ahead(side, t, u)
    BY <1>1, <2>3 DEF Best
  <2>5. CASE u = t
    <3>1. i \in DOMAIN queue /\ queue[i].id = m
      BY <1>1, <2>3, <2>5
    <3>2. 1 < i
      <4>1. i # 1
        BY <3>1, <1>1, <1>3, <1>6
      <4> QED BY ONLY <3>1, <4>1, <1>2
    <3>3. y < m
      BY <3>1, <3>2, <1>1, <1>2, <1>3 DEF Ascending
    <3> QED BY <3>3, <2>2, <2>5, <1>4, TickIs, SameWords DEF Contract!Precedes
  <2>6. CASE Ahead(side, t, u)
    BY <2>2, <2>6, <1>4, TickIs, SameWords DEF Contract!Precedes
  <2> QED BY <2>4, <2>5, <2>6
<1> QED BY <1>3, <1>5, <1>6 DEF Contract!First

LEMMA MatchIsTradeOfContract ==
    ASSUME IInv, IInv', Match
    PROVE  \E m \in RestingIds : Contract!Trade(m)
<1>1. PICK side, t, queue, maker, q, after, left :
         TradeStep(side, t, queue, maker, q, after, left)
  BY MatchIsTrade
<1>2. Matching
  BY DEF Match
<1>3. PICK y : y = maker.id
  OBVIOUS
<1>4. /\ y \in RestingIds
      /\ RestsAt(side, t, y)
      /\ RestingIds' = IF q = maker.quantity - maker.filled
                       THEN RestingIds \ {y} ELSE RestingIds
  BY <1>1, <1>2, <1>3, TradeLeaves
<1>5. Contract!First(side, y)
  BY <1>1, <1>2, <1>3, <1>4, MakerIsFirst
<1>6. PICK us \in Side : us = Us /\ us = placed[taker.id].side /\ side = Opposite(us) /\ side \in Side
  BY <1>1, <1>2, MatchingFacts DEF TradeStep, Them, Us
<1>7. TradeSound(side, t, queue, maker, q, after)
  BY <1>1, <1>2, TradeFacts
<1>8. EntryOK(side, t, maker)
  BY <1>7, <1>1 DEF TradeSound, TradeStep
<1>9. /\ Contract!Left(y) = maker.quantity - maker.filled
      /\ Tick(y) = t
      /\ y \in Id
  BY <1>3, <1>8 DEF EntryOK, Contract!Left
<1>10. q \in 1 .. Contract!Left(y)
  <2>1. maker \in Entry /\ q \in Nat \ {0} /\ q <= maker.quantity - maker.filled
    BY <1>7 DEF TradeSound
  <2>2. maker.quantity \in Nat /\ maker.filled \in Nat
    BY <2>1 DEF Entry
  <2> QED BY ONLY <2>1, <2>2, <1>9
<1>11. q <= Contract!Left(taker.id)
  <2>1. q \in Nat /\ q <= taker.quantity - taker.filled
    BY <1>7 DEF TradeSound
  <2> QED BY <2>1, <1>2, TakerLeft, MatchingFacts
<1>12. Contract!Accepts(taker.id, y)
  <2>1. ~Stops(t)
    <3>1. PICK v \in DOMAIN book[Them] : Iterate(v)
      BY DEF Match
    <3>2. Best(Them, v) /\ Best(Them, t) /\ ~Stops(v) /\ v \in DOMAIN book[Them] /\ t \in DOMAIN book[Them]
      BY <3>1, <1>1 DEF Iterate, TradeStep
    <3>3. v = t
      <4>1. v \in Nat /\ t \in Nat
        BY <3>2, <1>2, MatchingFacts, LevelsAreNat
      <4>2. v = t \/ (Ahead(Them, v, t) /\ Ahead(Them, t, v))
        BY <3>2 DEF Best
      <4> QED BY <4>1, <4>2 DEF Ahead
    <3> QED BY <3>2, <3>3
  <2>2. PriceLimited(placed[taker.id]) => Acceptable(us, t, placed[taker.id].price)
    BY <2>1, <1>6 DEF Stops
  <2> QED BY <2>2, <1>6, <1>9, TickIs, SameWords DEF Contract!Accepts
<1>13. /\ executed' = [executed EXCEPT ![y] = @ + q, ![taker.id] = @ + q]
       /\ taker'.id = taker.id
       /\ placed' = placed
  <2>1. taker \in [id : Nat, quantity : Nat, filled : Nat, hidden : Nat]
    BY DEF IInv, ScalarsOK
  <2> QED BY <2>1, <1>1, <1>3 DEF TradeStep
<1>14. trades' = Append(trades, [price    |-> Contract!TicksToPrice(Contract!Tick(y)),
                                 quantity |-> q,
                                 buyer    |-> IF us = "Buy" THEN taker.id ELSE y,
                                 seller   |-> IF us = "Buy" THEN y ELSE taker.id])
  <2>1. trades' = Append(trades, TradeOf(t, q, y))
    BY <1>1, <1>3 DEF TradeStep
  <2>2. Contract!TicksToPrice(Contract!Tick(y)) = TicksToPrice(t)
    BY <1>9, TickIs, SameWords
  <2> QED BY ONLY <2>1, <2>2, <1>6 DEF TradeOf
<1>15. RestingIds' = IF q = Contract!Left(y) THEN RestingIds \ {y} ELSE RestingIds
  BY <1>4, <1>9
<1>16. Contract!First(Contract!Opposite(us), y) /\ taker.id # 0
  BY <1>2, <1>5, <1>6, SameWords DEF Matching
<1>17. Contract!Trade(y)
  <2>1. /\ q \in 1 .. Contract!Left(y)
        /\ q <= Contract!Left(taker.id)
        /\ executed' = [executed EXCEPT ![y] = @ + q, ![taker.id] = @ + q]
        /\ trades' = Append(trades,
              [price    |-> Contract!TicksToPrice(Contract!Tick(y)),
               quantity |-> q,
               buyer    |-> IF placed[taker.id].side = "Buy" THEN taker.id ELSE y,
               seller   |-> IF placed[taker.id].side = "Buy" THEN y ELSE taker.id])
        /\ RestingIds' = IF q = Contract!Left(y) THEN RestingIds \ {y} ELSE RestingIds
    BY ONLY <1>6, <1>10, <1>11, <1>13, <1>14, <1>15
  <2>2. Contract!First(Contract!Opposite(placed[taker.id].side), y)
    BY ONLY <1>6, <1>16
  <2> QED BY ONLY Zenon, <2>1, <2>2, <1>12, <1>13, <1>16 DEF Contract!Trade
<1> QED BY <1>4, <1>17

LEMMA StepKept ==
    IInv /\ PricesOK /\ StatusOK /\ [Next]_vars => [Contract!Next]_(Contract!vars)
<1> SUFFICES ASSUME IInv, PricesOK, StatusOK, [Next]_vars
             PROVE  Contract!Next \/ UNCHANGED <<placed, executed, RestingIds, taker.id, trades>>
  BY DEF Contract!vars
<1>1. IInv' /\ Bounded
  BY NextInvariant DEF PricesOK
<1>2. ASSUME NEW o \in Menu, Submit(o) PROVE Contract!Next
  BY <1>1, <1>2, SubmitReceived
<1>3. CASE Match
  BY <1>1, <1>3, MatchIsTradeOfContract DEF Contract!Next
<1>4. CASE SweepEmptyLevel
  BY <1>1, <1>4, SweepLeaves DEF SweepEmptyLevel
<1>5. CASE RestRemainder
  BY <1>1, <1>5, RestIsRest
<1>6. CASE DropRemainder
  BY <1>1, <1>6, DropIsLeave
<1>7. ASSUME NEW id \in Id, Cancel(id) PROVE Contract!Next
  BY <1>1, <1>7, CancelIsWithdraw
<1>8. CASE UNCHANGED vars
  BY <1>1, <1>8, SameResting DEF vars
<1> QED BY <1>2, <1>3, <1>4, <1>5, <1>6, <1>7, <1>8 DEF Next, LoopStep

LEMMA InitKept == Init => Contract!Init
<1> SUFFICES ASSUME Init PROVE Contract!Init
  OBVIOUS
<1>1. RestingIds = {}
  BY DEF Init, RestingIds, Id
<1> QED BY <1>1 DEF Init, Contract!Init, Idle

(* The book keeps its promise: whatever levels, queues and emptied levels   *)
(* the code goes through, it trades, rests, kills and cancels as a set of   *)
(* orders in price-time priority would (lib.rs:150-337).                    *)
THEOREM ContractKept == Spec => KeepsContract
<1>1. Spec => [](IInv /\ PricesOK /\ StatusOK)
  BY InitPrices, NextPrices, InitStatus, NextStatus, Invariance, PTL DEF Spec
<1>2. Spec => [][Contract!Next]_(Contract!vars)
  BY <1>1, StepKept, PTL DEF Spec
<1> QED BY <1>2, InitKept, PTL DEF Spec, KeepsContract, Contract!Spec

-----------------------------------------------------------------------------
(* Fill or kill. *)

(* The orders FillOrKill is about. *)
AllOrNone(o) == IsFok(o) /\ o.type \notin {"Iceberg", "PostOnly"}

NoneWaits == \A id \in RestingIds : ~AllOrNone(placed[id])

(* What the taker still wants is what the orders welcome to it have left.   *)
Covered ==
    Matching /\ AllOrNone(placed[taker.id]) =>
        Contract!Left(taker.id)
           <= SumFunctionOnSet(Contract!Lefts, Contract!Welcome(placed[taker.id]))

FokOK == FillOrKill /\ NoneWaits /\ Covered

LEMMA WelcomeAfter ==
    ASSUME NEW o, NEW m
    PROVE  m \in Contract!Welcome(o)' <=>
              /\ m \in RestingIds'
              /\ placed'[m].side = Opposite(o.side)
              /\ Acceptable(o.side, Tick(m)', o.price)
BY SameWords DEF Contract!Welcome, Contract!OnSide, Contract!Tick, Tick

(* One element of a sum falls by q and leaves when nothing is left of it. *)
LEMMA SumFalls ==
    ASSUME NEW S, IsFiniteSet(S), NEW f, NEW g, NEW y \in S, NEW q \in Nat, NatOn(f, S),
           g[y] \in Nat, f[y] = g[y] + q, \A x \in S \ {y} : g[x] = f[x],
           NEW T, T = S \/ (T = S \ {y} /\ g[y] = 0)
    PROVE  SumFunctionOnSet(f, S) = SumFunctionOnSet(g, T) + q
<1>1. PICK R : R = S \ {y}
  OBVIOUS
<1>2. IsFiniteSet(R) /\ NatOn(f, R) /\ NatOn(g, S) /\ \A x \in R : f[x] = g[x]
  BY <1>1, FS_Subset DEF NatOn
<1>3. SumFunctionOnSet(f, S) = f[y] + SumFunctionOnSet(f, R)
  BY ONLY <1>1, IsFiniteSet(S), NatOn(f, S), y \in S, SumRemove
<1>4. SumFunctionOnSet(g, S) = g[y] + SumFunctionOnSet(g, R)
  BY ONLY <1>1, <1>2, IsFiniteSet(S), y \in S, SumRemove
<1>5. SumFunctionOnSet(f, R) = SumFunctionOnSet(g, R)
  BY ONLY <1>2, SumEqual
<1>6. SumFunctionOnSet(f, R) \in Nat
  BY ONLY <1>2, SumInNat
<1>7. CASE T = S
  BY <1>3, <1>4, <1>5, <1>6, <1>7
<1>8. CASE T = R /\ g[y] = 0
  BY <1>3, <1>5, <1>6, <1>8
<1> QED BY <1>1, <1>7, <1>8

LEMMA LeftsAfter ==
    ASSUME IInv', NEW id \in Id'
    PROVE  /\ Contract!Lefts'[id] = placed'[id].quantity - executed'[id]
           /\ Contract!Lefts'[id] \in Nat
<1>1. placed' \in Seq(Order) /\ executed' \in Seq(Nat) /\ Len(executed') = Len(placed') /\ id \in 1 .. Len(placed')
  BY DEF IInv, ScalarsOK, Id
<1>2. Contract!Lefts'[id] = placed'[id].quantity - executed'[id]
  BY <1>1 DEF Contract!Lefts, Contract!Left
<1>3. placed'[id] \in Order /\ executed'[id] \in Nat
  BY <1>1
<1>4. placed'[id].quantity \in Nat
  BY <1>3 DEF Order
<1>5. executed'[id] <= placed'[id].quantity
  BY DEF IInv, NeverOverfilled
<1> QED BY ONLY <1>2, <1>3, <1>4, <1>5

LEMMA CoveredAfter ==
    ASSUME NEW k, k = taker'.id, NEW o, o = placed'[k],
           NEW w, \A m : m \in Contract!Welcome(o)' <=> m \in w,
           NEW f, f = Contract!Lefts',
           k # 0 /\ AllOrNone(o) => o.quantity - executed'[k] <= SumFunctionOnSet(f, w)
    PROVE  Covered'
<1>1. \A m : m \in Contract!Welcome(placed[taker.id])' <=> m \in Contract!Welcome(o)'
  BY DEF Contract!Welcome, Contract!OnSide, Contract!Tick
<1>2. PICK v : v = Contract!Welcome(placed[taker.id])'
  BY Zenon
<1>3. v = w
  BY ONLY <1>1, <1>2, \A m : m \in Contract!Welcome(o)' <=> m \in w
<1>4. Contract!Left(taker.id)' = o.quantity - executed'[k]
  BY DEF Contract!Left
<1>5. SumFunctionOnSet(Contract!Lefts, Contract!Welcome(placed[taker.id]))' = SumFunctionOnSet(f, v)
  BY <1>2, Zenon
<1> QED BY <1>3, <1>4, <1>5 DEF Covered, Matching

LEMMA ReceiveFok ==
    ASSUME IInv, IInv', FokOK, NEW o \in Menu, Contract!Receive(o)
    PROVE  FokOK'
<1>1. PICK n : n = Len(placed) + 1
  OBVIOUS
<1>2. /\ taker.id = 0
      /\ placed' = Append(placed, o)
      /\ executed' = Append(executed, 0)
      /\ \/ taker'.id = n /\ ~Contract!Killed(o) /\ RestingIds' = RestingIds
         \/ taker'.id = 0 /\ o.type = "PostOnly" /\ RestingIds' = RestingIds \cup {n}
         \/ taker'.id = 0 /\ RestingIds' = RestingIds
  BY <1>1, Zenon DEF Contract!Receive
<1>3. /\ o \in Order
      /\ placed \in Seq(Order)
      /\ executed \in Seq(Nat)
      /\ Len(executed) = Len(placed)
  BY MenuAssumption DEF IInv, ScalarsOK
<1>4. /\ n \in Nat \ {0} /\ n \notin Id
      /\ \A id \in Id' : id \in Id \/ id = n
      /\ n \in Id'
      /\ Id \subseteq Id'
      /\ \A id \in Id : placed'[id] = placed[id] /\ executed'[id] = executed[id]
      /\ placed'[n] = o /\ executed'[n] = 0
  BY <1>1, <1>2, <1>3 DEF Id
<1>5. RestingIds \subseteq Id
  BY DEF RestingIds
<1>6. FillOrKill'
  <2> SUFFICES ASSUME NEW id \in Id', id # taker'.id, AllOrNone(placed'[id])
               PROVE  executed'[id] \in {0, placed'[id].quantity}
    BY DEF FillOrKill, AllOrNone, IsFok
  <2>1. CASE id \in Id
    <3>1. id # taker.id
      BY <1>2, <2>1 DEF Id
    <3>2. executed[id] \in {0, placed[id].quantity}
      BY <3>1, <2>1, <1>4 DEF FokOK, FillOrKill, AllOrNone
    <3> QED BY <3>2, <2>1, <1>4
  <2>2. CASE id = n
    BY <2>2, <1>4
  <2> QED BY <2>1, <2>2, <1>4
<1>7. NoneWaits'
  <2> SUFFICES ASSUME NEW id \in RestingIds' PROVE ~AllOrNone(placed'[id])
    BY DEF NoneWaits, AllOrNone, IsFok
  <2>1. id \in RestingIds \/ (id = n /\ o.type = "PostOnly")
    BY <1>2
  <2>2. id \in RestingIds => placed'[id] = placed[id] /\ ~AllOrNone(placed[id])
    BY <1>4, <1>5 DEF FokOK, NoneWaits
  <2> QED BY <2>1, <2>2, <1>4 DEF AllOrNone
<1>8. Covered'
  <2>1. PICK w : w = Contract!Welcome(o)
    OBVIOUS
  <2>2. PICK f, g : f = Contract!Lefts' /\ g = Contract!Lefts
    BY Zenon
  <2>3. CASE taker'.id = n /\ ~Contract!Killed(o) /\ RestingIds' = RestingIds
    <3>1. \A m : m \in Contract!Welcome(o)' <=> m \in w
      <4> SUFFICES ASSUME NEW m PROVE m \in Contract!Welcome(o)' <=> m \in w
        OBVIOUS
      <4>1. m \in RestingIds => placed'[m] = placed[m] /\ Tick(m)' = Tick(m)
        BY <1>4, <1>5 DEF Tick
      <4> QED BY <4>1, <2>1, <2>3, WelcomeIs, WelcomeAfter
    <3>2. IsFiniteSet(w) /\ w \subseteq Id /\ SumFunctionOnSet(g, w) \in Nat
      BY <2>1, <2>2, WelcomeSum
    <3>3. \A x \in w : f[x] = g[x]
      BY <3>2, <2>2, <1>4, LeftIs, LeftsAfter
    <3>4. SumFunctionOnSet(f, w) = SumFunctionOnSet(g, w)
      BY ONLY <3>2, <3>3, SumEqual
    <3>5. AllOrNone(o) => o.quantity <= SumFunctionOnSet(g, w)
      <4>1. AllOrNone(o) => ~(SumFunctionOnSet(g, w) < o.quantity)
        BY <2>1, <2>2, <2>3, SameWords, SameSum DEF Contract!Killed, AllOrNone
      <4>2. o.quantity \in Nat
        BY <1>3 DEF Order
      <4> QED BY ONLY <4>1, <4>2, <3>2
    <3>6. AllOrNone(o) => o.quantity - executed'[n] <= SumFunctionOnSet(f, w)
      <4>1. o.quantity \in Nat
        BY <1>3 DEF Order
      <4> QED BY ONLY <4>1, <3>4, <3>5, <1>4
    <3>7. n = taker'.id /\ o = placed'[n]
      BY <2>3, <1>4
    <3> QED BY ONLY <3>1, <3>6, <3>7, <2>2, CoveredAfter
  <2>4. CASE taker'.id = 0
    BY <2>4 DEF Covered, Matching
  <2> QED BY <2>3, <2>4, <1>2
<1> QED BY <1>6, <1>7, <1>8 DEF FokOK

LEMMA TradeFok ==
    ASSUME IInv, IInv', FokOK, NEW y \in RestingIds, Contract!Trade(y)
    PROVE  FokOK'
<1>1. PICK k : k = taker.id
  OBVIOUS
<1>2. PICK us : us = placed[k].side
  OBVIOUS
<1>3. /\ k # 0
      /\ Contract!First(Opposite(us), y)
      /\ Contract!Accepts(k, y)
      /\ placed' = placed
      /\ taker'.id = k
  BY <1>1, <1>2, SameWords, Zenon DEF Contract!Trade
<1>4. PICK q \in 1 .. Contract!Left(y) :
         /\ q <= Contract!Left(k)
         /\ executed' = [executed EXCEPT ![y] = @ + q, ![k] = @ + q]
         /\ RestingIds' = IF q = Contract!Left(y) THEN RestingIds \ {y} ELSE RestingIds
  BY <1>1, Zenon DEF Contract!Trade
<1>5. /\ k \in Id /\ y \in Id
      /\ placed[k] \in Order
      /\ Contract!Left(y) \in Nat /\ Contract!Left(k) \in Nat
      /\ Contract!Left(y) = placed[y].quantity - executed[y]
      /\ Contract!Left(k) = placed[k].quantity - executed[k]
  <2>1. k \in Id /\ y \in Id
    BY <1>1, <1>3, MatchingFacts DEF Matching, RestingIds
  <2> QED BY <2>1, LeftIs DEF Contract!Left
<1>6. placed[y].side = Opposite(us) /\ us \in Side
  BY <1>2, <1>3, <1>5 DEF Contract!First, Contract!OnSide, Order
<1>7. y # k
  BY <1>2, <1>6 DEF Opposite, Side
<1>8. q \in Nat \ {0} /\ q <= Contract!Left(y)
  BY ONLY <1>5, q \in 1 .. Contract!Left(y)
<1>9. /\ executed'[y] = executed[y] + q
      /\ executed'[k] = executed[k] + q
      /\ \A id \in Id \ {y, k} : executed'[id] = executed[id]
  <2>1. PICK e \in Seq(Nat) : e = executed /\ Len(e) = Len(placed)
    BY DEF IInv, ScalarsOK
  <2>2. PICK f : f = executed'
    BY Zenon
  <2>3. f = [e EXCEPT ![y] = @ + q, ![k] = @ + q]
    BY <1>4, <2>1, <2>2
  <2>4. y \in 1 .. Len(e) /\ k \in 1 .. Len(e) /\ q \in Nat
    BY <1>5, <1>8, <2>1 DEF Id
  <2>5. /\ f[y] = e[y] + q
        /\ f[k] = e[k] + q
        /\ \A i \in (1 .. Len(e)) \ {y, k} : f[i] = e[i]
    BY ONLY <1>7, <2>3, <2>4, e \in Seq(Nat), TwoGrow
  <2> QED BY <2>1, <2>2, <2>5 DEF Id
<1>10. ~AllOrNone(placed[y])
  BY DEF FokOK, NoneWaits
<1>11. FillOrKill'
  <2> SUFFICES ASSUME NEW id \in Id, id # k, AllOrNone(placed[id])
               PROVE  executed'[id] \in {0, placed[id].quantity}
    BY <1>3 DEF FillOrKill, AllOrNone, IsFok, Id
  <2>1. executed'[id] = executed[id]
    BY <1>9, <1>10
  <2> QED BY <2>1, <1>1 DEF FokOK, FillOrKill, AllOrNone
<1>12. NoneWaits'
  <2>1. RestingIds' \subseteq RestingIds
    BY <1>4
  <2> QED BY <2>1, <1>3 DEF FokOK, NoneWaits, AllOrNone, IsFok
<1>13. Covered'
  <2>1. PICK o \in Order : o = placed[k]
    BY <1>5
  <2>2. PICK w : w = Contract!Welcome(o)
    OBVIOUS
  <2>3. PICK f, g : f = Contract!Lefts' /\ g = Contract!Lefts
    BY Zenon
  <2>4. PICK v : v = IF q = Contract!Left(y) THEN w \ {y} ELSE w
    OBVIOUS
  <2>5. \A m : m \in Contract!Welcome(o)' <=> m \in v
    <3> SUFFICES ASSUME NEW m PROVE m \in Contract!Welcome(o)' <=> m \in v
      OBVIOUS
    <3>1. m \in RestingIds' <=> m \in RestingIds /\ (q = Contract!Left(y) => m # y)
      BY <1>4
    <3>2. Tick(m)' = Tick(m) /\ placed'[m] = placed[m]
      BY <1>3 DEF Tick
    <3>3. m \in w <=> /\ m \in RestingIds
                      /\ placed[m].side = Opposite(o.side)
                      /\ Acceptable(o.side, Tick(m), o.price)
      BY <2>2, WelcomeIs
    <3>4. m \in Contract!Welcome(o)' <=> /\ m \in RestingIds'
                                         /\ placed'[m].side = Opposite(o.side)
                                         /\ Acceptable(o.side, Tick(m)', o.price)
      BY WelcomeAfter
    <3> QED BY ONLY <2>4, <3>1, <3>2, <3>3, <3>4
  <2>6. IsFiniteSet(w) /\ w \subseteq Id /\ NatOn(g, w) /\ SumFunctionOnSet(g, w) \in Nat
    BY <2>2, <2>3, WelcomeSum
  <2>7. AllOrNone(o) => Contract!Left(k) <= SumFunctionOnSet(g, w)
    BY <1>1, <1>3, <2>1, <2>2, <2>3, SameSum DEF FokOK, Covered, Matching
  <2>8. CASE y \in w
    <3>1. /\ g[y] = Contract!Left(y)
          /\ f[y] = Contract!Left(y) - q
          /\ \A x \in w \ {y} : f[x] = g[x]
      <4>1. Id' = Id
        BY <1>3 DEF Id
      <4>2. k \notin w
        <5>1. k \notin RestingIds
          BY <1>1 DEF RestingIds, IInv, LevelsOK, LevelOK, EntryOK
        <5> QED BY <5>1, <2>2, WelcomeIs
      <4>3. \A x \in Id : g[x] = placed[x].quantity - executed[x] /\ f[x] = placed[x].quantity - executed'[x]
        BY <4>1, <1>3, <2>3, LeftIs, LeftsAfter
      <4>4. placed[y].quantity \in Nat /\ executed[y] \in Nat
        BY <1>5, LeftIs
      <4>5. f[y] = Contract!Left(y) - q
        BY ONLY <4>3, <4>4, <1>5, <1>8, <1>9
      <4>6. \A x \in w \ {y} : f[x] = g[x]
        BY ONLY <4>2, <4>3, <1>9, <2>6
      <4> QED BY <4>3, <4>5, <4>6, <1>5
    <3>2. f[y] \in Nat /\ g[y] = f[y] + q /\ (v = w \/ (v = w \ {y} /\ f[y] = 0)) /\ q \in Nat
      BY ONLY <3>1, <1>5, <1>8, <2>4
    <3>3. SumFunctionOnSet(g, w) = SumFunctionOnSet(f, v) + q
      BY ONLY <2>6, <2>8, <3>1, <3>2, SumFalls
    <3>4. SumFunctionOnSet(f, v) \in Nat
      <4>1. IsFiniteSet(v) /\ v \subseteq w
        BY <2>4, <2>6, FS_Subset
      <4>2. NatOn(f, v)
        BY <4>1, <3>1, <3>2, <2>6 DEF NatOn
      <4> QED BY ONLY <4>1, <4>2, SumInNat
    <3>5. o.quantity - executed'[k] = Contract!Left(k) - q
      <4>1. placed[k].quantity \in Nat /\ executed[k] \in Nat
        BY <1>5, LeftIs
      <4> QED BY ONLY <4>1, <1>5, <1>8, <1>9, <2>1
    <3>6. AllOrNone(o) => o.quantity - executed'[k] <= SumFunctionOnSet(f, v)
      BY ONLY <3>3, <3>4, <3>5, <2>7, <1>5, <1>8
    <3>7. k = taker'.id /\ o = placed'[k]
      BY <1>3, <2>1
    <3> QED BY ONLY <2>3, <2>5, <3>6, <3>7, CoveredAfter
  <2>9. CASE y \notin w
    <3>1. w = {}
      <4> SUFFICES ASSUME NEW m \in w PROVE FALSE
        OBVIOUS
      <4>1. m \in RestingIds /\ placed[m].side = Opposite(us) /\ Acceptable(us, Tick(m), o.price)
        BY <2>1, <2>2, <1>2, WelcomeIs
      <4>2. m # y
        BY <2>9
      <4>3. Tick(y) = Tick(m) \/ Ahead(Opposite(us), Tick(y), Tick(m))
        BY <4>1, <4>2, <1>3, SameWords, TickIs DEF Contract!First, Contract!OnSide, Contract!Precedes
      <4>4. Tick(y) \in Nat /\ Tick(m) \in Nat /\ o.price \in Nat
        BY <4>1, RestingIs, RestingIsPlaced, OnePlace DEF Order
      <4>5. Acceptable(us, Tick(y), o.price)
        BY <4>1, <4>3, <4>4, <1>6, BetterAccepted
      <4>6. y \in w
        BY <4>5, <2>1, <2>2, <1>2, <1>6, WelcomeIs
      <4> QED BY <4>6, <2>9
    <3>2. ~AllOrNone(o)
      BY <3>1, <2>7, SumEmpty, <1>5, <1>4, <1>8
    <3>3. k = taker'.id /\ o = placed'[k]
      BY <1>3, <2>1
    <3> QED BY ONLY <2>3, <2>5, <3>2, <3>3, CoveredAfter
  <2> QED BY <2>8, <2>9
<1> QED BY <1>11, <1>12, <1>13 DEF FokOK

(* A step that only gives up the active order, or takes orders away. *)
LEMMA OthersFok ==
    ASSUME IInv, FokOK, placed' = placed, executed' = executed, taker'.id = 0,
           taker.id # 0 /\ AllOrNone(placed[taker.id])
              => executed[taker.id] = placed[taker.id].quantity,
           \A id \in RestingIds' : id \in RestingIds \/ ~AllOrNone(placed[id])
    PROVE  FokOK'
<1>1. FillOrKill'
  <2> SUFFICES ASSUME NEW id \in Id, AllOrNone(placed[id])
               PROVE  executed[id] \in {0, placed[id].quantity}
    BY DEF FillOrKill, AllOrNone, IsFok, Id
  <2> QED BY DEF FokOK, FillOrKill, AllOrNone, Id
<1>2. NoneWaits'
  BY DEF FokOK, NoneWaits, AllOrNone, IsFok
<1>3. Covered'
  BY DEF Covered, Matching
<1> QED BY <1>1, <1>2, <1>3 DEF FokOK

LEMMA RestFok ==
    ASSUME IInv, FokOK, Contract!Rest PROVE FokOK'
<1>1. /\ UNCHANGED <<placed, executed>>
      /\ taker'.id = 0
      /\ RestingIds' = RestingIds \cup {taker.id}
      /\ ~Contract!Immediate(placed[taker.id])
  BY DEF Contract!Rest
<1>2. ~AllOrNone(placed[taker.id])
  BY <1>1, SameWords DEF Contract!Immediate, AllOrNone
<1> QED BY <1>1, <1>2, OthersFok

LEMMA LeaveFok ==
    ASSUME IInv, FokOK, Contract!Leave PROVE FokOK'
<1>1. /\ UNCHANGED <<placed, executed>>
      /\ taker.id # 0
      /\ taker'.id = 0
      /\ RestingIds' = RestingIds
  BY DEF Contract!Leave
<1>2. PICK k : k = taker.id
  OBVIOUS
<1>3. /\ k \in Id
      /\ Contract!Left(k) \in Nat
      /\ Contract!Left(k) = placed[k].quantity - executed[k]
      /\ placed[k].quantity \in Nat /\ executed[k] \in Nat
      /\ placed[k] \in Order
  <2>1. k \in Id
    BY <1>1, <1>2, MatchingFacts DEF Matching
  <2> QED BY <2>1, LeftIs DEF Contract!Left
<1>4. ASSUME AllOrNone(placed[k]) PROVE executed[k] = placed[k].quantity
  <2>1. CASE Contract!Left(k) = 0
    BY ONLY <2>1, <1>3
  <2>2. CASE Contract!Alone
    <3>1. PICK o, w : o = placed[k] /\ w = Contract!Welcome(o)
      OBVIOUS
    <3>2. w = {}
      <4> SUFFICES ASSUME NEW m \in w PROVE FALSE
        OBVIOUS
      <4>1. /\ m \in Contract!OnSide(Contract!Opposite(o.side))
            /\ Contract!Acceptable(o.side, Contract!Tick(m), o.price)
        BY <3>1 DEF Contract!Welcome
      <4> QED BY <4>1, <2>2, <3>1, <1>2 DEF Contract!Alone, Contract!Accepts
    <3>3. Contract!Left(k) <= SumFunctionOnSet(Contract!Lefts, w)
      BY <3>1, <1>1, <1>2, <1>4, SameSum DEF FokOK, Covered, Matching
    <3> QED BY <3>2, <3>3, SumEmpty, <1>3
  <2> QED BY <2>1, <2>2, <1>2, <1>4 DEF Contract!Leave, AllOrNone
<1> QED BY <1>1, <1>2, <1>4, OthersFok

LEMMA StutterFok ==
    ASSUME FokOK, UNCHANGED <<placed, executed, RestingIds, taker.id, trades>> PROVE FokOK'
<1>1. FillOrKill' /\ NoneWaits'
  BY DEF FokOK, FillOrKill, NoneWaits, AllOrNone, IsFok, Id
<1>2. Covered'
  <2>1. PICK k, o, w, f : k = taker.id /\ o = placed[k] /\ w = Contract!Welcome(o) /\ f = Contract!Lefts
    OBVIOUS
  <2>2. \A m : m \in Contract!Welcome(o)' <=> m \in w
    BY <2>1 DEF Contract!Welcome, Contract!OnSide, Contract!Tick
  <2>3. f = Contract!Lefts'
    BY <2>1 DEF Contract!Lefts, Contract!Left
  <2>4. k # 0 /\ AllOrNone(o) => o.quantity - executed'[k] <= SumFunctionOnSet(f, w)
    BY <2>1 DEF FokOK, Covered, Matching, Contract!Left
  <2>5. k = taker'.id /\ o = placed'[k]
    BY <2>1
  <2> QED BY ONLY <2>2, <2>3, <2>4, <2>5, CoveredAfter
<1> QED BY <1>1, <1>2 DEF FokOK

LEMMA NextFok ==
    ASSUME IInv, IInv', FokOK, [Contract!Next]_(Contract!vars)
    PROVE  FokOK'
<1>1. CASE UNCHANGED Contract!vars
  BY <1>1, StutterFok DEF Contract!vars
<1>2. ASSUME NEW o \in Menu, Contract!Receive(o) PROVE FokOK'
  BY <1>2, ReceiveFok
<1>3. ASSUME NEW m \in RestingIds, Contract!Trade(m) PROVE FokOK'
  BY <1>3, TradeFok
<1>4. CASE Contract!Rest
  BY <1>4, RestFok
<1>5. CASE Contract!Leave
  BY <1>5, LeaveFok
<1>6. ASSUME NEW id \in RestingIds, Contract!Withdraw(id) PROVE FokOK'
  <2>1. /\ UNCHANGED <<placed, executed>>
        /\ taker.id = 0 /\ taker'.id = 0
        /\ RestingIds' = RestingIds \ {id}
    BY <1>6 DEF Contract!Withdraw
  <2> QED BY <2>1, OthersFok
<1> QED BY <1>1, <1>2, <1>3, <1>4, <1>5, <1>6 DEF Contract!Next

LEMMA InitFok == Init => FokOK
<1> SUFFICES ASSUME Init PROVE FokOK
  OBVIOUS
<1>1. Id = {} /\ taker.id = 0
  BY DEF Init, Id, Idle
<1> QED BY <1>1 DEF FokOK, FillOrKill, NoneWaits, RestingIds, Covered, Matching

(* After submit a fill-or-kill order has traded all or nothing, whatever    *)
(* rests, is cancelled or is swept around it (lib.rs:181-246).              *)
THEOREM AllOrNothing == Spec => []FillOrKill
<1>1. IInv /\ PricesOK /\ StatusOK /\ FokOK /\ [Next]_vars => FokOK'
  BY NextInvariant, StepKept, NextFok
<1>2. Spec => [](IInv /\ PricesOK /\ StatusOK)
  BY InitPrices, NextPrices, InitStatus, NextStatus, Invariance, PTL DEF Spec
<1>3. Spec => []FokOK
  BY <1>1, <1>2, InitFok, PTL DEF Spec
<1>4. FokOK => FillOrKill
  BY DEF FokOK
<1> QED BY <1>3, <1>4, PTL

-----------------------------------------------------------------------------
(* The matching loop ends: what MatchingEnds says, but for fairness. *)

(* What bounds the iterations a loop still has. *)
LoopBound == Remaining(taker) + Cardinality(DOMAIN book[Them])

(* A best level is there to iterate on, unless the loop ends. *)
LoopGoesOn == \/ LoopEnds
              \/ \E t \in DOMAIN book[Them] : Iterate(t)

LEMMA LoopHasBound ==
    ASSUME IInv, Bounded, Matching
    PROVE  LoopBound \in Nat /\ LoopGoesOn
<1>1. Them \in Side
  BY MatchingFacts
<1>2. IsFiniteSet(DOMAIN book[Them])
  BY <1>1, LevelsAreFinite
<1>3. Cardinality(DOMAIN book[Them]) \in Nat
  BY <1>2, FS_CardinalityType
<1>4. Remaining(taker) \in Nat
  BY MatchingFacts DEF Remaining
<1>5. LoopBound \in Nat
  BY <1>3, <1>4 DEF LoopBound
<1>6. LoopGoesOn
  <2>1. CASE DOMAIN book[Them] = {}
    BY <2>1 DEF LoopGoesOn, LoopEnds
  <2>2. CASE DOMAIN book[Them] # {}
    <3>1. PICK t \in DOMAIN book[Them] : Best(Them, t)
      BY <1>1, <2>2, HasBest
    <3> QED BY <3>1, MatchingFacts DEF LoopGoesOn, LoopEnds, Iterate
  <2> QED BY <2>1, <2>2
<1> QED BY <1>5, <1>6

LEMMA IterationDescends ==
    ASSUME IInv, Bounded, Matching, Match \/ SweepEmptyLevel
    PROVE  LoopBound' < LoopBound
<1>1. PICK S : S = DOMAIN book[Them]
  OBVIOUS
<1>2. PICK T : T = DOMAIN book'[Them]
  BY Zenon
<1>3. Them \in Side /\ Remaining(taker) \in Nat
  BY MatchingFacts DEF Remaining
<1>4. IsFiniteSet(S) /\ Cardinality(S) \in Nat
  BY <1>1, <1>3, LevelsAreFinite, FS_CardinalityType
<1>5. CASE Match
  <2>1. PICK side, t, queue, maker, q, after, left :
           TradeStep(side, t, queue, maker, q, after, left)
    BY <1>5, MatchIsTrade
  <2>2. q \in Nat \ {0}
    BY <2>1, TradeFacts DEF TradeSound
  <2>3. /\ taker'.id = taker.id
        /\ Remaining(taker)' = Remaining(taker) - q
        /\ placed' = placed
    <3>1. taker \in [id : Nat, quantity : Nat, filled : Nat, hidden : Nat]
      BY DEF IInv, ScalarsOK
    <3> QED BY <3>1, <2>1, <2>2 DEF TradeStep, Remaining
  <2>4. Them' = Them
    BY <2>3 DEF Them, Us
  <2>5. T \subseteq S
    BY <1>1, <1>2, <1>3, <1>5, MatchJoinsNone DEF NoneJoins
  <2>6. Cardinality(T) \in Nat /\ Cardinality(T) <= Cardinality(S)
    BY ONLY <1>4, <2>5, FS_Subset, FS_CardinalityType
  <2>7. LoopBound' = Remaining(taker) - q + Cardinality(T)
    BY <1>2, <2>3, <2>4 DEF LoopBound
  <2> QED BY <1>1, <1>3, <1>4, <2>2, <2>6, <2>7 DEF LoopBound
<1>6. CASE SweepEmptyLevel
  <2>1. PICK t \in DOMAIN book[Them] : book' = [book EXCEPT ![Them] = Without(@, t)]
    BY <1>6 DEF SweepEmptyLevel
  <2>2. UNCHANGED <<placed, taker>>
    BY <1>6 DEF SweepEmptyLevel
  <2>3. T = S \ {t} /\ t \in S
    BY <1>1, <1>2, <1>3, <2>1 DEF Without, IInv, BookIsFunction
  <2>4. Cardinality(T) = Cardinality(S) - 1
    BY ONLY <1>4, <2>3, FS_RemoveElement
  <2>5. LoopBound' = Remaining(taker) + Cardinality(T)
    BY <1>2, <2>2 DEF LoopBound, Them, Us, Remaining
  <2> QED BY <1>1, <1>3, <1>4, <2>4, <2>5 DEF LoopBound
<1> QED BY <1>5, <1>6

LoopDescends == Matching /\ Matching' => LoopBound' < LoopBound

(* While an order is being matched there is a next iteration or an end to   *)
(* the loop, and every step of the book takes the loop nearer to its end:   *)
(* the while of lib.rs:200-290 cannot spin.                                 *)
THEOREM LoopEndsInTime ==
    Spec => /\ [](Matching => LoopBound \in Nat /\ LoopGoesOn)
            /\ [][LoopDescends]_vars
<1>1. Spec => [](IInv /\ PricesOK)
  BY InitPrices, NextPrices, Invariance, PTL DEF Spec
<1>2. IInv /\ PricesOK => (Matching => LoopBound \in Nat /\ LoopGoesOn)
  BY LoopHasBound DEF PricesOK
<1>3. IInv /\ PricesOK /\ [Next]_vars => [LoopDescends]_vars
  <2> SUFFICES ASSUME IInv, PricesOK, Next, Matching, Matching'
               PROVE  LoopBound' < LoopBound
    BY DEF LoopDescends
  <2>1. Match \/ SweepEmptyLevel
    <3>1. \A o \in Menu : ~Submit(o)
      BY DEF Submit, RejectPostOnly, RestPostOnly, KillFok, StartMatching, Enter, Matching, Idle
    <3>2. ~RestRemainder /\ ~DropRemainder
      BY DEF RestRemainder, DropRemainder, Matching, Idle
    <3>3. \A id \in Id : ~Cancel(id)
      BY DEF Cancel
    <3> QED BY <3>1, <3>2, <3>3 DEF Next, LoopStep
  <2> QED BY <2>1, IterationDescends DEF PricesOK
<1> QED BY <1>1, <1>2, <1>3, PTL DEF Spec

=============================================================================
