----------------------- MODULE OrderHandlers_proofs ------------------------
(***************************************************************************)
(* Theorems about OrderHandlers, for any requests, cancellations, shards,  *)
(* failures and restarts.  In this order: no order enters the book twice;  *)
(* the types, which need what a submit trades; trades reach the topic;     *)
(* what is cancelled is gone; and the taker of a linked pair takes the     *)
(* other order off the book.                                               *)
(***************************************************************************)
EXTENDS OrderHandlers, Sums, TLAPS

(* The calls that have yet to submit, or to register, their own order. *)
Early == {"new", "peek", "register"}

(* The handler of t is about to submit order id. *)
Holds(t, id) == task[t].pc = "submit" /\ task[t].of = id

FieldsUsed == {"pc", "of", "fire"}

(* What the proof needs of the types of tasks and map. *)
TasksOK ==
    /\ DOMAIN task = Id
    /\ \A t \in Id : /\ FieldsUsed \subseteq DOMAIN task[t]
                     /\ task[t].of \in Id \cup {0}
                     /\ task[t].fire \in Seq(Id)

MapOK == DOMAIN conds \subseteq Id

CountsOK == entered \in [Id -> 0 .. 1]

(* An order that may still enter the book has not entered it, and is at one *)
(* place only: with its own call, in the map, or with one handler that is   *)
(* about to submit it.                                                      *)
EarlyOK ==
    \A id \in Id : task[id].pc \in Early =>
        /\ entered[id] = 0
        /\ id \notin DOMAIN conds
        /\ \A t \in Id : ~Holds(t, id)

InMapOK ==
    \A id \in Id : id \in DOMAIN conds =>
        entered[id] = 0 /\ \A t \in Id : ~Holds(t, id)

HeldOK ==
    \A id \in Id : \A t \in Id : Holds(t, id) =>
        entered[id] = 0 /\ \A u \in Id : Holds(u, id) => u = t

OneOK == TasksOK /\ MapOK /\ CountsOK /\ EarlyOK /\ InMapOK /\ HeldOK

-----------------------------------------------------------------------------
(* The steps of one task. *)

LEMMA Begins == Init => OneOK
<1> SUFFICES ASSUME Init PROVE OneOK
  OBVIOUS
<1>1. /\ task = [t \in Id |-> Fresh]
      /\ conds = << >>
      /\ entered = [id \in Id |-> 0]
  BY DEF Init
<1>2. << >> \in Seq(Id)
  OBVIOUS
<1>3. TasksOK
  BY ONLY <1>1, <1>2 DEF TasksOK, Fresh, FieldsUsed
<1>4. \A t \in Id : task[t].pc = "new"
  BY ONLY <1>1 DEF Fresh
<1>5. DOMAIN conds = {}
  BY ONLY <1>1
<1>6. MapOK /\ CountsOK /\ EarlyOK /\ InMapOK /\ HeldOK
  BY ONLY <1>1, <1>4, <1>5 DEF MapOK, CountsOK, EarlyOK, InMapOK, HeldOK, Holds
<1> QED BY ONLY <1>3, <1>6 DEF OneOK

(* Task t, and no other, has moved. *)
Moved(t) ==
    /\ DOMAIN task' = Id
    /\ \A u \in Id \ {t} : task'[u] = task[u]
    /\ FieldsUsed \subseteq DOMAIN task'[t]
    /\ task'[t].of \in Id \cup {0}
    /\ task'[t].fire \in Seq(Id)

LEMMA MovedTasksOK == ASSUME OneOK, NEW t \in Id, Moved(t) PROVE TasksOK'
BY DEF OneOK, TasksOK, Moved

(* The task has gone where it neither waits to submit nor is early. *)
Elsewhere(t) == task'[t].pc \notin Early \cup {"submit"}

LEMMA ElsewhereOK ==
    ASSUME OneOK, NEW t \in Id, Moved(t), Elsewhere(t), entered' = entered,
           DOMAIN conds' \subseteq DOMAIN conds
    PROVE  OneOK'
BY MovedTasksOK DEF OneOK, MapOK, CountsOK, EarlyOK, InMapOK, HeldOK, Moved, Elsewhere, Holds

(* Most steps change neither the entries of the map nor what has entered. *)
LEMMA GoesElsewhere ==
    ASSUME OneOK, NEW t \in Id,
           \/ SendTrade(t) \/ StoreTrade(t) \/ PersistFails(t) \/ Persisted(t)
           \/ CancelLinkInBook(t) \/ SelectLinkFails(t) \/ CancelLinkRow(t)
           \/ Answer(t)
    PROVE  OneOK'
<1>1. /\ Moved(t)
      /\ Elsewhere(t)
      /\ entered' = entered
      /\ DOMAIN conds' \subseteq DOMAIN conds
  BY DEF OneOK, TasksOK, FieldsUsed, Moved, Elsewhere, Early, SendTrade, StoreTrade, PersistFails,
     Persisted, CancelLinkInBook, SelectLinkFails, CancelLinkRow, Answer, Goto, engine
<1> QED BY <1>1, ElsewhereOK

LEMMA WritesRow ==
    ASSUME OneOK, NEW t \in Id, UpdateRow(t) \/ UpdateRowFails(t)
    PROVE  OneOK'
<1>1. AfterRow(t) \notin Early \cup {"submit"}
  BY DEF AfterRow, Early
<1>2. /\ Moved(t)
      /\ Elsewhere(t)
      /\ entered' = entered
      /\ DOMAIN conds' \subseteq DOMAIN conds
  BY <1>1 DEF OneOK, TasksOK, FieldsUsed, Moved, Elsewhere, Early, UpdateRow,
     UpdateRowFails, Goto, engine
<1> QED BY <1>2, ElsewhereOK

LEMMA DropsLink ==
    ASSUME OneOK, NEW t \in Id, CancelLinkInMap(t)
    PROVE  OneOK'
<1>1. AfterOco(t) \notin Early \cup {"submit"}
  BY DEF AfterOco, Early
<1>2. /\ Moved(t)
      /\ Elsewhere(t)
      /\ entered' = entered
      /\ DOMAIN conds' \subseteq DOMAIN conds
  BY <1>1 DEF OneOK, TasksOK, FieldsUsed, Moved, Elsewhere, CancelLinkInMap, Dropped, engine
<1> QED BY <1>2, ElsewhereOK

(* The scan lists entries of the map, and changes none but by its price. *)
LEMMA Scans ==
    ASSUME OneOK, NEW t \in Id,
           LookAndTrigger(t) \/ LookAndSkip(t) \/ LookAndFollow(t) \/ NextShard(t)
    PROVE  OneOK'
<1>1. /\ entered' = entered
      /\ DOMAIN conds' \subseteq DOMAIN conds
  BY DEF LookAndTrigger, LookAndSkip, LookAndFollow, NextShard, engine
<1>2. CASE LookAndTrigger(t)
  <2>1. PICK id \in Unseen(t) :
            task' = [task EXCEPT ![t].seen = @ \cup {id}, ![t].fire = Append(@, id)]
    BY <1>2 DEF LookAndTrigger
  <2>2. id \in Id
    BY DEF Unseen, InShard, OneOK, MapOK
  <2>3. Append(task[t].fire, id) \in Seq(Id)
    BY <2>2 DEF OneOK, TasksOK
  <2>4. task[t].pc = "scan"
    BY <1>2 DEF LookAndTrigger
  <2>5. Moved(t) /\ Elsewhere(t)
    BY <2>1, <2>3, <2>4 DEF OneOK, TasksOK, FieldsUsed, Moved, Elsewhere, Early
  <2> QED BY <1>1, <2>5, ElsewhereOK
<1>3. CASE LookAndSkip(t) \/ LookAndFollow(t) \/ NextShard(t)
  <2>1. Moved(t) /\ Elsewhere(t)
    BY <1>3 DEF LookAndSkip, LookAndFollow, NextShard, OneOK, TasksOK, FieldsUsed, Moved,
       Elsewhere, Early
  <2> QED BY <1>1, <2>1, ElsewhereOK
<1> QED BY <1>2, <1>3

-----------------------------------------------------------------------------
(* The steps that bring an order closer to the book. *)

LEMMA Inserts ==
    ASSUME OneOK, NEW t \in Id, InsertOrder(t)
    PROVE  OneOK'
<1>1. /\ task[t].pc = "new"
      /\ task'[t].pc \in {"peek", "submit"}
      /\ task'[t].of = t
      /\ entered' = entered
      /\ conds' = conds
      /\ Moved(t)
  BY DEF InsertOrder, OneOK, TasksOK, FieldsUsed, Moved, engine
<1>2. \A u, id \in Id : Holds(u, id)' => Holds(u, id) \/ (u = t /\ id = t)
  BY <1>1 DEF Holds, Moved
<1>3. /\ entered[t] = 0
      /\ t \notin DOMAIN conds
      /\ \A u \in Id : ~Holds(u, t)
  BY <1>1 DEF OneOK, EarlyOK, Early
<1>4. TasksOK'
  BY <1>1, MovedTasksOK
<1>5. MapOK' /\ CountsOK'
  BY <1>1 DEF OneOK, MapOK, CountsOK
<1>6. \A id \in Id \ {t} : task'[id].pc \in Early => task[id].pc \in Early
  BY <1>1 DEF Moved
<1>7. EarlyOK'
  <2> SUFFICES ASSUME NEW id \in Id, task'[id].pc \in Early
               PROVE  /\ entered'[id] = 0
                      /\ id \notin DOMAIN conds'
                      /\ \A u \in Id : ~Holds(u, id)'
    BY DEF EarlyOK
  <2>1. CASE id = t
    <3>1. task'[t].pc # "submit"
      BY <2>1 DEF Early
    <3> QED BY <1>1, <1>2, <1>3, <2>1, <3>1 DEF Holds
  <2>2. CASE id # t
    BY <1>1, <1>2, <1>6, <2>2 DEF OneOK, EarlyOK
  <2> QED BY <2>1, <2>2
<1>8. InMapOK'
  BY <1>1, <1>2, <1>3 DEF OneOK, InMapOK
<1>9. HeldOK'
  BY <1>1, <1>2, <1>3 DEF OneOK, HeldOK
<1> QED BY <1>4, <1>5, <1>7, <1>8, <1>9 DEF OneOK

LEMMA Peeks ==
    ASSUME OneOK, NEW t \in Id, Peek(t)
    PROVE  OneOK'
<1>1. /\ task[t].pc = "peek"
      /\ task'[t].pc = "register"
      /\ entered' = entered
      /\ conds' = conds
      /\ Moved(t)
  BY DEF Peek, OneOK, TasksOK, FieldsUsed, Moved, engine
<1>2. \A u, id \in Id : Holds(u, id)' => Holds(u, id)
  BY <1>1 DEF Holds, Moved
<1>3. \A id \in Id : task'[id].pc \in Early => task[id].pc \in Early
  BY <1>1 DEF Moved, Early
<1>4. TasksOK'
  BY <1>1, MovedTasksOK
<1> QED BY <1>1, <1>2, <1>3, <1>4 DEF OneOK, MapOK, CountsOK, EarlyOK, InMapOK, HeldOK

LEMMA Registers ==
    ASSUME OneOK, NEW t \in Id, Register(t)
    PROVE  OneOK'
<1>1. /\ task[t].pc = "register"
      /\ task'[t].pc = "done"
      /\ entered' = entered
      /\ DOMAIN conds' = DOMAIN conds \cup {t}
      /\ Moved(t)
  BY DEF Register, Goto, OneOK, TasksOK, FieldsUsed, Moved, engine
<1>2. \A u, id \in Id : Holds(u, id)' => Holds(u, id)
  BY <1>1 DEF Holds, Moved
<1>3. \A id \in Id : task'[id].pc \in Early => id # t /\ task[id].pc \in Early
  BY <1>1 DEF Moved, Early
<1>4. /\ entered[t] = 0
      /\ \A u \in Id : ~Holds(u, t)
  BY <1>1 DEF OneOK, EarlyOK, Early
<1>5. TasksOK'
  BY <1>1, MovedTasksOK
<1> QED BY <1>1, <1>2, <1>3, <1>4, <1>5 DEF OneOK, MapOK, CountsOK, EarlyOK, InMapOK, HeldOK

(* Of the handlers that saw an order triggered one takes it from the map. *)
LEMMA Fires ==
    ASSUME OneOK, NEW t \in Id, Fire(t)
    PROVE  OneOK'
<1>1. PICK id : id = Head(task[t].fire)
  OBVIOUS
<1>2. id \in Id /\ Tail(task[t].fire) \in Seq(Id)
  BY <1>1 DEF Fire, OneOK, TasksOK
<1>3. /\ task[t].pc = "fire"
      /\ entered' = entered
      /\ DOMAIN conds' = DOMAIN conds \ {id}
      /\ task' = [task EXCEPT ![t].fire = Tail(@),
                              ![t].of = IF Claimed(id) THEN id ELSE @,
                              ![t].pc = IF Claimed(id) THEN "submit" ELSE @]
  BY <1>1 DEF Fire, Dropped, engine
<1>4. Moved(t)
  BY <1>2, <1>3 DEF OneOK, TasksOK, FieldsUsed, Moved
<1>5. CASE Claimed(id)
  <2>1. task'[t].pc = "submit" /\ task'[t].of = id
    BY <1>3, <1>5 DEF OneOK, TasksOK, FieldsUsed
  <2>2. \A u, i \in Id : Holds(u, i)' => Holds(u, i) \/ (u = t /\ i = id)
    BY <1>4, <2>1 DEF Holds, Moved
  <2>3. entered[id] = 0 /\ \A u \in Id : ~Holds(u, id)
    BY <1>2, <1>5 DEF OneOK, InMapOK, Claimed
  <2>4. \A i \in Id : task'[i].pc \in Early => task[i].pc \in Early
    BY <1>4, <2>1 DEF Moved, Early
  <2>5. \A i \in Id : task'[i].pc \in Early => i # id
    BY <1>5, <2>4 DEF OneOK, EarlyOK, Claimed
  <2>6. TasksOK'
    BY <1>4, MovedTasksOK
  <2>7. entered' = entered /\ DOMAIN conds' = DOMAIN conds \ {id}
    BY <1>3
  <2>8. MapOK' /\ CountsOK'
    BY <2>7 DEF OneOK, MapOK, CountsOK
  <2>9. EarlyOK'
    BY <2>2, <2>4, <2>5, <2>7 DEF OneOK, EarlyOK
  <2>10. InMapOK'
    BY <2>2, <2>7 DEF OneOK, InMapOK
  <2>11. HeldOK'
    BY <2>2, <2>3, <2>7 DEF OneOK, HeldOK
  <2> QED BY <2>6, <2>8, <2>9, <2>10, <2>11 DEF OneOK
<1>6. CASE ~Claimed(id)
  <2>1. Elsewhere(t)
    BY <1>3, <1>6 DEF OneOK, TasksOK, FieldsUsed, Elsewhere, Early
  <2>2. DOMAIN conds' \subseteq DOMAIN conds
    BY <1>3
  <2> QED BY <1>3, <1>4, <2>1, <2>2, ElsewhereOK
<1> QED BY <1>5, <1>6

LEMMA Submits ==
    ASSUME OneOK, NEW t \in Id, SubmitOrder(t)
    PROVE  OneOK'
<1>1. PICK id : id = task[t].of
  OBVIOUS
<1>2. /\ task[t].pc = "submit"
      /\ entered' = [entered EXCEPT ![id] = @ + 1]
      /\ conds' = conds
  BY <1>1 DEF SubmitOrder, Submit
<1>3. Moved(t) /\ Elsewhere(t)
  BY DEF SubmitOrder, OneOK, TasksOK, FieldsUsed, Moved, Elsewhere, Early
<1>4. TasksOK'
  BY <1>3, MovedTasksOK
<1>5. \A u, i \in Id : Holds(u, i)' => u # t /\ Holds(u, i)
  BY <1>3 DEF Holds, Moved, Elsewhere
<1>6. \A i \in Id : task'[i].pc \in Early => task[i].pc \in Early
  BY <1>3 DEF Moved, Elsewhere
<1>7. CASE id \in Id
  <2>1. Holds(t, id)
    BY <1>1, <1>2 DEF Holds
  <2>2. /\ entered[id] = 0
        /\ id \notin DOMAIN conds
        /\ task[id].pc \notin Early
        /\ \A u \in Id : Holds(u, id) => u = t
    BY <1>7, <2>1 DEF OneOK, HeldOK, InMapOK, EarlyOK
  <2>3. /\ entered' \in [Id -> 0 .. 1]
        /\ \A i \in Id \ {id} : entered'[i] = entered[i]
    BY <1>2, <1>7, <2>2 DEF OneOK, CountsOK
  <2> QED BY <1>2, <1>4, <1>5, <1>6, <2>2, <2>3
          DEF OneOK, MapOK, CountsOK, EarlyOK, InMapOK, HeldOK
<1>8. CASE id \notin Id
  <2>1. entered' = entered
    BY <1>2, <1>8 DEF OneOK, CountsOK
  <2> QED BY <1>2, <1>3, <2>1, ElsewhereOK
<1> QED BY <1>7, <1>8

-----------------------------------------------------------------------------
(* The steps of the others. *)

LEMMA OthersMove ==
    ASSUME OneOK, task' = task, entered' = entered, DOMAIN conds' \subseteq DOMAIN conds
    PROVE  OneOK'
BY DEF OneOK, TasksOK, MapOK, CountsOK, EarlyOK, InMapOK, HeldOK, Holds

LEMMA Cancellations ==
    ASSUME OneOK, NEW id \in Cancels, SelectOrder(id) \/ CancelStep(id)
    PROVE  OneOK'
<1>1. /\ task' = task
      /\ entered' = entered
      /\ DOMAIN conds' \subseteq DOMAIN conds
  BY DEF SelectOrder, CancelStep, CancelInBook, CancelInMap, CancelRow, CancelRowFails, Dropped,
     engine
<1> QED BY <1>1, OthersMove

LEMMA Settles == ASSUME OneOK, Settle PROVE OneOK'
<1>1. task' = task /\ entered' = entered /\ conds' = conds
  BY DEF Settle, engine
<1> QED BY <1>1, OthersMove

LEMMA Restarts == ASSUME OneOK, Restart PROVE OneOK'
<1>1. /\ entered' = entered
      /\ conds' = << >>
      /\ task' = [t \in Id |-> IF task[t].pc \in Ended THEN task[t]
                                ELSE [task[t] EXCEPT !.pc = "lost"]]
  BY DEF Restart
<1>2. DOMAIN conds' = {}
  BY ONLY <1>1
<1>3. /\ TasksOK'
      /\ \A t \in Id : task'[t].pc # "submit"
      /\ \A t \in Id : task'[t].pc \in Early => task[t].pc \in Early
  BY <1>1 DEF OneOK, TasksOK, FieldsUsed, Ended, Early
<1> QED BY <1>1, <1>2, <1>3 DEF OneOK, MapOK, CountsOK, EarlyOK, InMapOK, HeldOK, Holds

-----------------------------------------------------------------------------

(* In every reachable state an order is at one place from which it can      *)
(* enter the book, or at none and then it never will again.                 *)
THEOREM Invariance == Spec => []OneOK
<1>1. ASSUME OneOK, [Next]_vars PROVE OneOK'
  <2>1. CASE UNCHANGED vars
    BY <1>1, <2>1, OthersMove DEF vars
  <2>2. CASE Next
    BY <1>1, <2>2, GoesElsewhere, WritesRow, DropsLink, Scans, Inserts, Peeks, Registers, Fires,
       Submits, Cancellations, Settles, Restarts DEF Next, HandlerStep, CreateStep, OtherStep
  <2> QED BY <1>1, <2>1, <2>2
<1> QED BY <1>1, Begins, PTL DEF Spec

(* No order enters the book twice, however many handlers saw it triggered   *)
(* (lib.rs:579-594).                                                        *)
THEOREM SubmittedOnce == Spec => []EntersOnce
<1>1. OneOK => EntersOnce
  BY DEF OneOK, CountsOK, InMapOK, EntersOnce, MapOK
<1> QED BY <1>1, Invariance, PTL

-----------------------------------------------------------------------------
(* Listed goes through a set in order, Kept takes entries out of a queue.   *)

LEMMA ListedAll ==
    ASSUME NEW S, IsFiniteSet(S), NEW R, StrictOrderOn(R, S)
    PROVE  /\ Cardinality(S) \in Nat
           /\ Listed(S, R) \in [1 .. Cardinality(S) -> S]
           /\ \A k \in S : \E n \in 1 .. Cardinality(S) : Listed(S, R)[n] = k
           /\ \A m, n \in 1 .. Cardinality(S) : Listed(S, R)[m] = Listed(S, R)[n] => m = n
<1> DEFINE Place(k) == Cardinality({l \in S : <<l, k>> \in R})
           N == Cardinality(S)
<1>1. ASSUME NEW k \in S PROVE Place(k) \in Nat /\ Place(k) < N /\ N \in Nat
  BY EarlierIsFewer DEF Earlier
<1>2. /\ \A n \in 1 .. N : \E k \in S : Place(k) = n - 1
      /\ \A k, l \in S : Place(k) = Place(l) => k = l
  BY PlacesTaken DEF Earlier
<1>3. N \in Nat
  BY FS_CardinalityType
<1>4. PICK q : q = Listed(S, R)
  OBVIOUS
<1>5. q = [n \in 1 .. N |-> CHOOSE k \in S : Place(k) = n - 1]
  BY <1>4 DEF Listed
<1> HIDE DEF Place, N
<1>6. ASSUME NEW n \in 1 .. N PROVE q[n] \in S /\ Place(q[n]) = n - 1
  <2>1. \E k \in S : Place(k) = n - 1
    BY <1>2
  <2> QED BY ONLY <1>5, <2>1, n \in 1 .. N
<1>7. q \in [1 .. N -> S]
  BY <1>5, <1>6
<1>8. ASSUME NEW k \in S PROVE \E n \in 1 .. N : q[n] = k
  <2>1. Place(k) + 1 \in 1 .. N
    BY <1>1
  <2>2. q[Place(k) + 1] \in S /\ Place(q[Place(k) + 1]) = Place(k)
    BY <1>1, <1>6, <2>1
  <2> QED BY <1>2, <2>1, <2>2
<1>9. ASSUME NEW m \in 1 .. N, NEW n \in 1 .. N, q[m] = q[n] PROVE m = n
  <2>1. m - 1 = n - 1
    BY <1>6, <1>9
  <2> QED BY <1>3, <2>1
<1> QED BY <1>3, <1>4, <1>7, <1>8, <1>9 DEF N

LEMMA KeptSome ==
    ASSUME NEW T, NEW queue \in Seq(T), NEW S \in SUBSET DOMAIN queue
    PROVE  /\ Kept(queue, S) \in Seq(T)
           /\ \A n \in DOMAIN Kept(queue, S) : \E k \in S : Kept(queue, S)[n] = queue[k]
           /\ (\A k, l \in DOMAIN queue : queue[k] = queue[l] => k = l)
                 => \A m, n \in DOMAIN Kept(queue, S) :
                       Kept(queue, S)[m] = Kept(queue, S)[n] => m = n
<1>1. PICK R : R = {kl \in S \X S : kl[1] < kl[2]}
  OBVIOUS
<1>2. S \subseteq Nat /\ IsFiniteSet(S)
  <2>1. DOMAIN queue = 1 .. Len(queue) /\ Len(queue) \in Nat
    OBVIOUS
  <2>2. IsFiniteSet(1 .. Len(queue))
    BY <2>1, FS_Interval
  <2> QED BY <2>1, <2>2, FS_Subset
<1>3. StrictOrderOn(R, S)
  <2>1. \A k, l \in S : <<k, l>> \in R <=> k < l
    BY <1>1
  <2> QED BY ONLY <1>2, <2>1 DEF StrictOrderOn
<1>4. PICK p, c : p = Listed(S, R) /\ c = Cardinality(S)
  OBVIOUS
<1>5. /\ c \in Nat
      /\ p \in [1 .. c -> S]
      /\ \A m, n \in 1 .. c : p[m] = p[n] => m = n
  BY ONLY <1>2, <1>3, <1>4, ListedAll
<1>6. PICK q : q = Kept(queue, S)
  OBVIOUS
<1>7. q = [n \in 1 .. c |-> queue[p[n]]]
  <2>1. q = [n \in DOMAIN Listed(S, R) |-> queue[Listed(S, R)[n]]]
    BY <1>1, <1>6 DEF Kept
  <2> QED BY ONLY <1>4, <1>5, <2>1
<1>8. \A k \in S : queue[k] \in T
  OBVIOUS
<1>9. q \in [1 .. c -> T]
  BY ONLY <1>5, <1>7, <1>8
<1>10. q \in Seq(T)
  BY ONLY <1>5, <1>9
<1>11. \A n \in DOMAIN q : \E k \in S : q[n] = queue[k]
  BY ONLY <1>5, <1>7
<1>12. ASSUME \A k, l \in DOMAIN queue : queue[k] = queue[l] => k = l
       PROVE  \A m, n \in DOMAIN q : q[m] = q[n] => m = n
  <2>1. \A n \in 1 .. c : p[n] \in DOMAIN queue
    BY <1>5
  <2> QED BY ONLY <1>5, <1>7, <1>12, <2>1
<1> QED BY ONLY <1>6, <1>10, <1>11, <1>12

(* Nothing is added to a queue by taking an order out, and it is out. *)
LEMMA WithoutOne ==
    ASSUME NEW T, NEW queue \in Seq(T), NEW id
    PROVE  /\ Without(queue, id) \in Seq(T)
           /\ \A n \in DOMAIN Without(queue, id) :
                 /\ Without(queue, id)[n] # id
                 /\ \E k \in DOMAIN queue : Without(queue, id)[n] = queue[k]
           /\ (\A k, l \in DOMAIN queue : queue[k] = queue[l] => k = l)
                 => \A m, n \in DOMAIN Without(queue, id) :
                       Without(queue, id)[m] = Without(queue, id)[n] => m = n
<1>1. PICK S : S = {k \in DOMAIN queue : queue[k] # id}
  OBVIOUS
<1>2. PICK q : q = Without(queue, id)
  OBVIOUS
<1>3. q = Kept(queue, S) /\ S \in SUBSET DOMAIN queue
  BY <1>1, <1>2 DEF Without
<1>4. /\ q \in Seq(T)
      /\ \A n \in DOMAIN q : \E k \in S : q[n] = queue[k]
      /\ (\A k, l \in DOMAIN queue : queue[k] = queue[l] => k = l)
            => \A m, n \in DOMAIN q : q[m] = q[n] => m = n
  BY ONLY <1>3, queue \in Seq(T), KeptSome
<1> QED BY ONLY <1>1, <1>2, <1>4

-----------------------------------------------------------------------------
(* What a submit trades: nobody more than is left of his order.             *)

(* The book holds orders that entered it, each once.                        *)
BookOK == /\ \A k, l \in DOMAIN book : book[k] = book[l] => k = l
          /\ \A k \in DOMAIN book : entered[book[k]] = 1

ExecutedOK == /\ executed \in [Id -> Nat]
              /\ \A i \in Id : executed[i] <= Requests[i].quantity

LEMMA RequestOK ==
    ASSUME NEW i \in Id
    PROVE  /\ Requests[i].side \in Side
           /\ Requests[i].price \in Nat
           /\ Requests[i].quantity \in Nat
           /\ Requests[i].link \in Id \cup {0}
<1>1. Requests[i] \in Request
  BY RequestsAssumption DEF Id
<1> QED BY <1>1, RequestsAssumption DEF Request

LEMMA BookFinite ==
    ASSUME book \in Seq(Id), NEW id
    PROVE  /\ IsFiniteSet(DOMAIN book)
           /\ Facing(id) \in SUBSET DOMAIN book
           /\ IsFiniteSet(Facing(id))
           /\ Met(id) \in SUBSET Facing(id)
           /\ IsFiniteSet(Met(id))
<1>1. DOMAIN book = 1 .. Len(book) /\ Len(book) \in Nat
  OBVIOUS
<1>2. IsFiniteSet(DOMAIN book)
  BY <1>1, FS_Interval
<1>3. Facing(id) \in SUBSET DOMAIN book /\ Met(id) \in SUBSET Facing(id)
  BY DEF Facing, OnSide, Met
<1> QED BY <1>2, <1>3, FS_Subset

(* Orders of one side are served one before the other. *)
LEMMA BeforeOrders ==
    ASSUME book \in Seq(Id), NEW id \in Id, NEW S \in SUBSET Facing(id)
    PROVE  StrictOrderOn({kl \in S \X S : Before(kl[1], kl[2])}, S)
<1>1. PICK R : R = {kl \in S \X S : Before(kl[1], kl[2])}
  OBVIOUS
<1>2. PICK s : s = Opposite(Requests[id].side)
  OBVIOUS
<1>3. \A k \in S : /\ k \in Nat
                   /\ Requests[book[k]].side = s
                   /\ Requests[book[k]].price \in Nat
  BY <1>2, RequestOK DEF Facing, OnSide
<1>4. \A k, l \in S : <<k, l>> \in R <=>
          \/ Ahead(s, Requests[book[k]].price, Requests[book[l]].price)
          \/ Requests[book[k]].price = Requests[book[l]].price /\ k < l
  BY <1>1, <1>3 DEF Before
<1>5. StrictOrderOn(R, S)
  <2>1. CASE s = "Buy"
    BY ONLY <1>3, <1>4, <2>1 DEF StrictOrderOn, Ahead
  <2>2. CASE s # "Buy"
    BY ONLY <1>3, <1>4, <2>2 DEF StrictOrderOn, Ahead
  <2> QED BY <2>1, <2>2
<1> QED BY <1>1, <1>5

LEMMA LeftNat ==
    ASSUME book \in Seq(Id), ExecutedOK
    PROVE  /\ \A i \in Id : Left(i) \in Nat
           /\ \A k \in DOMAIN book : Lefts[k] = Left(book[k]) /\ Lefts[k] \in Nat
BY RequestOK DEF ExecutedOK, Left, Lefts

LEMMA ShareFits ==
    ASSUME book \in Seq(Id), ExecutedOK, NEW id \in Id, NEW k \in DOMAIN book
    PROVE  Share(id, k) \in Nat /\ Share(id, k) <= Left(book[k])
<1>1. PICK B : B = {l \in Facing(id) : Before(l, k)}
  OBVIOUS
<1>2. B \in SUBSET DOMAIN book /\ IsFiniteSet(B)
  BY <1>1, BookFinite, FS_Subset
<1>3. NatOn(Lefts, B)
  BY <1>2, LeftNat DEF NatOn
<1>4. PICK t : t = SumFunctionOnSet(Lefts, B)
  OBVIOUS
<1>5. t \in Nat
  BY ONLY <1>2, <1>3, <1>4, SumInNat
<1>6. Left(id) \in Nat /\ Left(book[k]) \in Nat
  BY LeftNat
<1>7. Share(id, k) = IF t < Left(id) THEN Smaller(Left(book[k]), Left(id) - t) ELSE 0
  BY <1>1, <1>4 DEF Share
<1> QED BY ONLY <1>5, <1>6, <1>7 DEF Smaller

(* The orders that are served first share what the taker wants, or get all  *)
(* that they want.                                                          *)
LEMMA SharesOfFirst ==
    ASSUME book \in Seq(Id), ExecutedOK, NEW id \in Id, NEW shares,
           shares = [k \in DOMAIN book |-> Share(id, k)],
           NEW D \in SUBSET Facing(id),
           \A l \in D : \A j \in Facing(id) : Before(j, l) => j \in D
    PROVE  SumFunctionOnSet(shares, D) = Smaller(Left(id), SumFunctionOnSet(Lefts, D))
<1> DEFINE Closed(d) == \A l \in d : \A j \in Facing(id) : Before(j, l) => j \in d
           Bad(d) == SumFunctionOnSet(shares, d)
                        # Smaller(Left(id), SumFunctionOnSet(Lefts, d))
           C == {d \in SUBSET D : Closed(d) /\ Bad(d)}
<1> SUFFICES ASSUME Bad(D) PROVE FALSE
  OBVIOUS
<1>1. PICK c : c = C
  OBVIOUS
<1>2. c # {} /\ \A d \in c : IsFiniteSet(d)
  BY <1>1, BookFinite, FS_Subset
<1>3. PICK m \in c : \A d \in c : d \subseteq m => d = m
  BY ONLY <1>2, HasSmallest
<1>4. m \in SUBSET Facing(id) /\ IsFiniteSet(m) /\ Closed(m) /\ Bad(m) /\ m \in SUBSET D
  BY <1>1, <1>2, <1>3
<1>5. Left(id) \in Nat
  BY LeftNat
<1>6. m # {}
  <2> SUFFICES ASSUME m = {} PROVE FALSE
    OBVIOUS
  <2>1. SumFunctionOnSet(shares, m) = 0 /\ SumFunctionOnSet(Lefts, m) = 0
    BY ONLY m = {}, SumEmpty
  <2> QED BY <1>4, <1>5, <2>1 DEF Smaller
<1>7. PICK R : R = {kl \in m \X m : Before(kl[1], kl[2])}
  OBVIOUS
<1>8. StrictOrderOn(R, m)
  BY <1>4, <1>7, BeforeOrders
<1>9. PICK k \in m : Earlier(k, R, m) = m \ {k}
  BY ONLY <1>4, <1>6, <1>8, HasLast
<1>10. PICK n : n = m \ {k}
  OBVIOUS
<1>11. \A l \in m : <<l, k>> \in R <=> l # k
  BY ONLY <1>8, <1>9 DEF Earlier, StrictOrderOn
<1>12. \A l \in m : Before(l, k) <=> l # k
  BY ONLY <1>7, <1>11
<1>13. n = {l \in Facing(id) : Before(l, k)}
  BY <1>4, <1>10, <1>12
<1>14. Closed(n)
  <2> SUFFICES ASSUME NEW l \in n, NEW j \in Facing(id), Before(j, l) PROVE j \in n
    OBVIOUS
  <2>1. j \in m /\ l \in m /\ l # k
    BY <1>4, <1>10
  <2>2. <<j, l>> \in R /\ <<l, k>> \in R
    BY <1>7, <1>11, <2>1
  <2>3. j # k
    BY ONLY <1>8, <2>1, <2>2 DEF StrictOrderOn
  <2> QED BY <1>10, <2>1, <2>3
<1>15. ~Bad(n)
  <2>1. n \notin c
    BY <1>3, <1>10
  <2>2. n \in SUBSET D
    BY <1>4, <1>10
  <2> QED BY <1>1, <1>14, <2>1, <2>2
<1>16. PICK t, u : t = SumFunctionOnSet(Lefts, n) /\ u = SumFunctionOnSet(shares, n)
  OBVIOUS
<1>17. k \in DOMAIN book /\ m \in SUBSET DOMAIN book /\ n \in SUBSET DOMAIN book
  BY <1>4, <1>10, BookFinite
<1>18. NatOn(Lefts, m) /\ NatOn(shares, m)
  BY <1>17, LeftNat, ShareFits DEF NatOn
<1>19. NatOn(Lefts, n) /\ NatOn(shares, n) /\ IsFiniteSet(n)
  BY <1>4, <1>10, <1>18, FS_Subset DEF NatOn
<1>20. t \in Nat /\ u \in Nat
  BY ONLY <1>16, <1>19, SumInNat
<1>21. /\ SumFunctionOnSet(Lefts, m) = Lefts[k] + t
       /\ SumFunctionOnSet(shares, m) = shares[k] + u
  BY ONLY <1>4, <1>10, <1>16, <1>18, SumRemove
<1>22. Lefts[k] = Left(book[k]) /\ Lefts[k] \in Nat
  BY <1>17, LeftNat
<1>23. shares[k] = IF t < Left(id) THEN Smaller(Lefts[k], Left(id) - t) ELSE 0
  BY <1>13, <1>16, <1>17, <1>22 DEF Share
<1>24. u = Smaller(Left(id), t)
  BY <1>15, <1>16
<1>25. shares[k] + u = Smaller(Left(id), Lefts[k] + t)
  BY ONLY <1>5, <1>20, <1>22, <1>23, <1>24 DEF Smaller
<1> QED BY <1>4, <1>21, <1>25

LEMMA ExecutedFits ==
    ASSUME book \in Seq(Id), ExecutedOK, BookOK, NEW id \in Id,
           \A k \in DOMAIN book : book[k] # id, NEW i \in Id
    PROVE  ExecutedAfter(id, i) \in Nat /\ ExecutedAfter(id, i) <= Requests[i].quantity
<1>1. PICK shares, M : /\ shares = [k \in DOMAIN book |-> Share(id, k)]
                       /\ M = {k \in Met(id) : i = id \/ book[k] = i}
  OBVIOUS
<1>2. ExecutedAfter(id, i) = executed[i] + SumFunctionOnSet(shares, M)
  BY <1>1 DEF ExecutedAfter
<1>3. M \in SUBSET Facing(id) /\ M \in SUBSET DOMAIN book /\ IsFiniteSet(Facing(id))
  BY <1>1, BookFinite
<1>4. NatOn(shares, Facing(id)) /\ NatOn(Lefts, Facing(id))
  BY <1>1, BookFinite, ShareFits, LeftNat DEF NatOn
<1>5. IsFiniteSet(M) /\ NatOn(shares, M)
  BY <1>3, <1>4, FS_Subset DEF NatOn
<1>6. SumFunctionOnSet(shares, M) \in Nat
  BY ONLY <1>5, SumInNat
<1>7. SumFunctionOnSet(shares, M) <= Left(i)
  <2>1. CASE i = id
    <3>1. PICK F : F = Facing(id)
      OBVIOUS
    <3>2. SumFunctionOnSet(shares, F) = Smaller(Left(id), SumFunctionOnSet(Lefts, F))
      BY <1>1, <3>1, SharesOfFirst
    <3>3. SumFunctionOnSet(shares, M) <= SumFunctionOnSet(shares, F)
      BY ONLY <1>3, <1>4, <3>1, SumOfPart
    <3>4. SumFunctionOnSet(shares, F) \in Nat /\ SumFunctionOnSet(Lefts, F) \in Nat
      BY ONLY <1>3, <1>4, <3>1, SumInNat
    <3>5. Left(id) \in Nat
      BY LeftNat
    <3> QED BY ONLY <1>6, <2>1, <3>2, <3>3, <3>4, <3>5 DEF Smaller
  <2>2. CASE i # id /\ M # {}
    <3>1. PICK k \in M : TRUE
      BY <2>2
    <3>2. M = {k}
      BY <1>1, <1>3, <2>2, <3>1 DEF BookOK
    <3>3. shares[k] \in Nat /\ shares[k] <= Left(i)
      BY <1>1, <1>3, <2>2, <3>1, ShareFits
    <3>4. SumFunctionOnSet(shares, {k}) = shares[k]
      BY ONLY <3>3, SumSingleton
    <3> QED BY ONLY <3>2, <3>3, <3>4
  <2>3. CASE M = {}
    BY <2>3, SumEmpty, LeftNat
  <2> QED BY <2>1, <2>2, <2>3
<1> QED BY ONLY <1>2, <1>6, <1>7, ExecutedOK, i \in Id, RequestOK DEF Left, ExecutedOK

-----------------------------------------------------------------------------
(* Which actions write which variable. *)

LEMMA WritesRows ==
    ASSUME [Next]_vars
    PROVE  \/ rows' = rows
           \/ \E t \in Id : InsertOrder(t) \/ UpdateRow(t) \/ CancelLinkRow(t)
           \/ \E id \in Cancels : CancelRow(id)
           \/ Settle
BY DEF Next, vars, HandlerStep, CreateStep, OtherStep, CancelStep, database, Peek, Register, SubmitOrder, SendTrade,
   StoreTrade, PersistFails, Persisted, UpdateRowFails, CancelLinkInBook, SelectLinkFails,
   CancelLinkInMap, LookAndTrigger, LookAndSkip, LookAndFollow, NextShard, Fire, Answer,
   SelectOrder, CancelInBook, CancelInMap, CancelRowFails, Restart

LEMMA WritesBook ==
    ASSUME [Next]_vars
    PROVE  \/ book' = book
           \/ \E t \in Id : SubmitOrder(t) \/ CancelLinkInBook(t)
           \/ \E id \in Cancels : CancelInBook(id)
           \/ Restart
BY DEF Next, vars, HandlerStep, CreateStep, OtherStep, CancelStep, engine, InsertOrder, Peek, Register, SendTrade,
   StoreTrade, PersistFails, Persisted, UpdateRow, UpdateRowFails, SelectLinkFails, CancelLinkRow,
   CancelLinkInMap, LookAndTrigger, LookAndSkip, LookAndFollow, NextShard, Fire, Answer,
   SelectOrder, CancelInMap, CancelRow, CancelRowFails, Settle

LEMMA WritesEngine ==
    ASSUME [Next]_vars
    PROVE  \/ executed' = executed /\ entered' = entered /\ struck' = struck
           \/ \E t \in Id : SubmitOrder(t)
<1> DEFINE Same == executed' = executed /\ entered' = entered /\ struck' = struck
<1>1. ASSUME NEW t \in Id, InsertOrder(t) \/ CreateStep(t) PROVE Same \/ SubmitOrder(t)
  <2>1. CASE InsertOrder(t) \/ Peek(t) \/ Register(t) \/ SendTrade(t) \/ StoreTrade(t)
             \/ PersistFails(t) \/ Persisted(t) \/ UpdateRow(t) \/ UpdateRowFails(t)
    BY <2>1 DEF engine, InsertOrder, Peek, Register, SendTrade, StoreTrade, PersistFails,
       Persisted, UpdateRow, UpdateRowFails
  <2>2. CASE CancelLinkInBook(t) \/ SelectLinkFails(t) \/ CancelLinkRow(t) \/ CancelLinkInMap(t)
             \/ LookAndTrigger(t) \/ LookAndSkip(t) \/ LookAndFollow(t) \/ NextShard(t)
             \/ Fire(t) \/ Answer(t)
    BY <2>2 DEF engine, CancelLinkInBook, SelectLinkFails, CancelLinkRow, CancelLinkInMap,
       LookAndTrigger, LookAndSkip, LookAndFollow, NextShard, Fire, Answer
  <2> QED BY <1>1, <2>1, <2>2 DEF CreateStep, OtherStep
<1>2. ASSUME NEW id \in Cancels, SelectOrder(id) \/ CancelStep(id) PROVE Same
  BY <1>2 DEF engine, CancelStep, SelectOrder, CancelInBook, CancelInMap, CancelRow, CancelRowFails
<1>3. ASSUME Settle \/ Restart \/ UNCHANGED vars PROVE Same
  BY <1>3 DEF engine, Settle, Restart, vars
<1> QED BY <1>1, <1>2, <1>3 DEF Next, HandlerStep, CreateStep

LEMMA WritesConds ==
    ASSUME [Next]_vars
    PROVE  \/ conds' = conds
           \/ \E t \in Id : Register(t) \/ CancelLinkInMap(t) \/ LookAndFollow(t) \/ Fire(t)
           \/ \E id \in Cancels : CancelInMap(id)
           \/ Restart
BY DEF Next, vars, HandlerStep, CreateStep, OtherStep, CancelStep, InsertOrder, Peek, SubmitOrder, SendTrade,
   StoreTrade, PersistFails, Persisted, UpdateRow, UpdateRowFails, CancelLinkInBook, SelectLinkFails,
   CancelLinkRow, LookAndTrigger, LookAndSkip, NextShard, Answer,
   SelectOrder, CancelInBook, CancelRow, CancelRowFails, Settle

LEMMA WritesTopic ==
    ASSUME [Next]_vars
    PROVE  \/ topic' = topic
           \/ \E t \in Id : SendTrade(t)
BY DEF Next, vars, HandlerStep, CreateStep, OtherStep, CancelStep, database, InsertOrder, Peek, Register, SubmitOrder,
   StoreTrade, PersistFails, Persisted, UpdateRow, UpdateRowFails, CancelLinkInBook, SelectLinkFails,
   CancelLinkRow, CancelLinkInMap, LookAndTrigger, LookAndSkip, LookAndFollow, NextShard, Fire, Answer,
   SelectOrder, CancelInBook, CancelInMap, CancelRow, CancelRowFails, Settle, Restart

LEMMA WritesStored ==
    ASSUME [Next]_vars
    PROVE  \/ stored' = stored
           \/ \E t \in Id : StoreTrade(t)
BY DEF Next, vars, HandlerStep, CreateStep, OtherStep, CancelStep, database, InsertOrder, Peek, Register, SubmitOrder,
   SendTrade, PersistFails, Persisted, UpdateRow, UpdateRowFails, CancelLinkInBook, SelectLinkFails,
   CancelLinkRow, CancelLinkInMap, LookAndTrigger, LookAndSkip, LookAndFollow, NextShard, Fire, Answer,
   SelectOrder, CancelInBook, CancelInMap, CancelRow, CancelRowFails, Settle, Restart

LEMMA WritesTask ==
    ASSUME [Next]_vars
    PROVE  \/ task' = task
           \/ \E t \in Id : InsertOrder(t) \/ CreateStep(t)
           \/ Restart
BY DEF Next, vars, HandlerStep, CreateStep, CancelStep, SelectOrder, CancelInBook, CancelInMap, CancelRow,
   CancelRowFails, Settle

LEMMA WritesCancel ==
    ASSUME [Next]_vars
    PROVE  \/ cancel' = cancel
           \/ \E id \in Cancels : SelectOrder(id) \/ CancelStep(id)
           \/ Restart
BY DEF Next, vars, HandlerStep, CreateStep, OtherStep, InsertOrder, Peek, Register, SubmitOrder, SendTrade,
   StoreTrade, PersistFails, Persisted, UpdateRow, UpdateRowFails, CancelLinkInBook, SelectLinkFails,
   CancelLinkRow, CancelLinkInMap, LookAndTrigger, LookAndSkip, LookAndFollow, NextShard, Fire, Answer,
   Settle

-----------------------------------------------------------------------------
(* Types. *)

TaskType == [pc : Pc, of : Id \cup {0}, todo : Seq(Trade), met : BOOLEAN, price : Nat,
             shard : 0 .. Shards, seen : SUBSET Id, fire : Seq(Id), sure : BOOLEAN]

Tasks == [Id -> TaskType]

(* A field at a time a task may change to anything of the field's type.     *)
LEMMA FieldsTyped ==
    ASSUME NEW f \in Tasks, NEW t \in Id
    PROVE  /\ \A v \in Pc : [f EXCEPT ![t].pc = v] \in Tasks
           /\ \A v \in Id \cup {0} : [f EXCEPT ![t].of = v] \in Tasks
           /\ \A v \in Seq(Trade) : [f EXCEPT ![t].todo = v] \in Tasks
           /\ \A v \in BOOLEAN : [f EXCEPT ![t].met = v] \in Tasks
           /\ \A v \in Nat : [f EXCEPT ![t].price = v] \in Tasks
           /\ \A v \in 0 .. Shards : [f EXCEPT ![t].shard = v] \in Tasks
           /\ \A v \in SUBSET Id : [f EXCEPT ![t].seen = v] \in Tasks
           /\ \A v \in Seq(Id) : [f EXCEPT ![t].fire = v] \in Tasks
           /\ \A v \in BOOLEAN : [f EXCEPT ![t].sure = v] \in Tasks
<1>1. PICK A, B, C, D, E, F, G, H, K :
          /\ A = Pc
          /\ B = Id \cup {0}
          /\ C = Seq(Trade)
          /\ D = BOOLEAN
          /\ E = Nat
          /\ F = 0 .. Shards
          /\ G = SUBSET Id
          /\ H = Seq(Id)
          /\ K = BOOLEAN
  OBVIOUS
<1>2. PICK R : R = [pc : A, of : B, todo : C, met : D, price : E, shard : F, seen : G,
                 fire : H, sure : K]
  OBVIOUS
<1>3. Tasks = [Id -> R]
  BY ONLY <1>1, <1>2 DEF Tasks, TaskType
<1>4. f \in [Id -> R]
  BY <1>3
<1>5. \A v \in A : [f EXCEPT ![t].pc = v] \in [Id -> R]
  BY ONLY <1>2, <1>4, t \in Id
<1>6. \A v \in B : [f EXCEPT ![t].of = v] \in [Id -> R]
  BY ONLY <1>2, <1>4, t \in Id
<1>7. \A v \in C : [f EXCEPT ![t].todo = v] \in [Id -> R]
  BY ONLY <1>2, <1>4, t \in Id
<1>8. \A v \in D : [f EXCEPT ![t].met = v] \in [Id -> R]
  BY ONLY <1>2, <1>4, t \in Id
<1>9. \A v \in E : [f EXCEPT ![t].price = v] \in [Id -> R]
  BY ONLY <1>2, <1>4, t \in Id
<1>10. \A v \in F : [f EXCEPT ![t].shard = v] \in [Id -> R]
  BY ONLY <1>2, <1>4, t \in Id
<1>11. \A v \in G : [f EXCEPT ![t].seen = v] \in [Id -> R]
  BY ONLY <1>2, <1>4, t \in Id
<1>12. \A v \in H : [f EXCEPT ![t].fire = v] \in [Id -> R]
  BY ONLY <1>2, <1>4, t \in Id
<1>13. \A v \in K : [f EXCEPT ![t].sure = v] \in [Id -> R]
  BY ONLY <1>2, <1>4, t \in Id
<1> QED BY ONLY <1>1, <1>3, <1>5, <1>6, <1>7, <1>8, <1>9, <1>10, <1>11, <1>12, <1>13

FieldNames == {"pc", "of", "todo", "met", "price", "shard", "seen", "fire", "sure"}

LEMMA TaskIs ==
    ASSUME NEW f \in Tasks
    PROVE  /\ DOMAIN f = Id
           /\ \A t \in Id : /\ DOMAIN f[t] = FieldNames
                            /\ f[t].pc \in Pc
                            /\ f[t].of \in Id \cup {0}
                            /\ f[t].todo \in Seq(Trade)
                            /\ f[t].met \in BOOLEAN
                            /\ f[t].price \in Nat
                            /\ f[t].shard \in 0 .. Shards
                            /\ f[t].seen \in SUBSET Id
                            /\ f[t].fire \in Seq(Id)
                            /\ f[t].sure \in BOOLEAN
<1>1. DOMAIN f = Id /\ \A t \in Id : f[t] \in TaskType
  BY DEF Tasks
<1>2. ASSUME NEW r \in TaskType
      PROVE  /\ DOMAIN r = FieldNames
             /\ r.pc \in Pc /\ r.of \in Id \cup {0} /\ r.todo \in Seq(Trade)
             /\ r.met \in BOOLEAN /\ r.price \in Nat /\ r.shard \in 0 .. Shards
             /\ r.seen \in SUBSET Id /\ r.fire \in Seq(Id) /\ r.sure \in BOOLEAN
  BY DEF TaskType, FieldNames
<1> QED BY ONLY <1>1, <1>2

(* A task that left the beginning has an order in hand, one that has sent   *)
(* a trade still has it, and only stop orders are looked up and registered. *)
Ready(r, t) == /\ r.pc # "new" => r.of \in Id
               /\ r.pc = "store" => r.todo # << >>
               /\ r.pc \in {"peek", "register"} => IsConditional(t)

TasksTyped == task \in Tasks /\ \A t \in Id : Ready(task[t], t)

LEMMA GoesTyped ==
    ASSUME TasksTyped, NEW t \in Id, NEW p \in Pc, Goto(t, p), task[t].pc # "new",
           p = "store" => task[t].todo # << >>, p \notin {"peek", "register"}
    PROVE  TasksTyped'
<1>1. task \in Tasks /\ task' = [task EXCEPT ![t].pc = p]
  BY DEF TasksTyped, Goto
<1>2. task' \in Tasks
  BY ONLY <1>1, t \in Id, p \in Pc, FieldsTyped
<1>3. /\ \A u \in Id \ {t} : task'[u] = task[u]
      /\ task'[t].pc = p /\ task'[t].of = task[t].of /\ task'[t].todo = task[t].todo
  BY ONLY <1>1, t \in Id, TaskIs DEF FieldNames
<1> QED BY <1>2, <1>3 DEF TasksTyped, Ready

LEMMA GoTyped ==
    ASSUME TasksTyped, NEW t \in Id,
           \/ Register(t) \/ SendTrade(t) \/ PersistFails(t) \/ Persisted(t)
           \/ UpdateRowFails(t) \/ CancelLinkInBook(t) \/ SelectLinkFails(t)
           \/ CancelLinkRow(t) \/ Answer(t)
    PROVE  TasksTyped'
<1>1. AfterRow(t) \in {"oco", "fire", "scan", "done"}
  BY DEF AfterRow
<1>2. \E p \in Pc : /\ Goto(t, p)
                    /\ task[t].pc # "new"
                    /\ p = "store" => task[t].todo # << >>
                    /\ p \notin {"peek", "register"}
  BY <1>1 DEF Register, SendTrade, PersistFails, Persisted, UpdateRowFails, CancelLinkInBook,
     SelectLinkFails, CancelLinkRow, Answer, Pc, Ended
<1> QED BY <1>2, GoesTyped

LEMMA ReadyStep ==
    ASSUME TasksTyped, NEW t \in Id, task' \in Tasks,
           \A u \in Id \ {t} : task'[u] = task[u], Ready(task'[t], t)
    PROVE  TasksTyped'
BY DEF TasksTyped, Ready

LEMMA InsertTyped == ASSUME TasksTyped, NEW t \in Id, InsertOrder(t) PROVE TasksTyped'
<1>1. PICK p, o, s : /\ p = IF IsConditional(t) THEN "peek" ELSE "submit"
                     /\ o = t
                     /\ s = (Requests[t].link # 0 /\ task[Requests[t].link].pc = "done")
  OBVIOUS
<1>2. p \in Pc /\ s \in BOOLEAN /\ o \in Id
  BY <1>1 DEF Pc
<1>3. task \in Tasks /\ task' = [task EXCEPT ![t].pc = p, ![t].of = o, ![t].sure = s]
  BY <1>1 DEF InsertOrder, TasksTyped
<1>4. PICK f, g : f = [task EXCEPT ![t].pc = p] /\ g = [f EXCEPT ![t].of = o]
  OBVIOUS
<1>5. f \in Tasks
  BY ONLY <1>2, <1>3, <1>4, FieldsTyped, t \in Id
<1>6. g \in Tasks
  BY ONLY <1>2, <1>4, <1>5, FieldsTyped, t \in Id
<1>7. task' = [g EXCEPT ![t].sure = s]
  BY <1>3, <1>4, Zenon
<1>8. task' \in Tasks
  BY ONLY <1>2, <1>6, <1>7, FieldsTyped, t \in Id
<1>9. /\ \A u \in Id \ {t} : task'[u] = task[u]
      /\ task'[t].pc = p /\ task'[t].of = o
  BY ONLY <1>3, t \in Id, TaskIs DEF FieldNames
<1>10. Ready(task'[t], t)
  BY <1>1, <1>2, <1>9 DEF Ready
<1> QED BY <1>8, <1>9, <1>10, ReadyStep

LEMMA BestIsPrice == ASSUME book \in Seq(Id), NEW t \in Id PROVE BestOpposite(t) \in Nat
<1> DEFINE S == {k \in OnSide(Opposite(Requests[t].side)) :
                    \A l \in OnSide(Opposite(Requests[t].side)) : k = l \/ Before(k, l)}
<1>1. BestOpposite(t) = IF S = {} THEN Requests[t].price
                        ELSE Requests[book[CHOOSE k \in S : TRUE]].price
  BY Zenon DEF BestOpposite
<1>2. S \in SUBSET DOMAIN book
  BY DEF OnSide
<1>3. PICK c : c = CHOOSE k \in S : TRUE
  OBVIOUS
<1> HIDE DEF S
<1>4. S # {} => c \in S
  BY ONLY <1>3
<1>5. S # {} => book[c] \in Id
  BY <1>2, <1>4
<1> QED BY <1>1, <1>3, <1>5, RequestOK

LEMMA PeekTyped ==
    ASSUME TasksTyped, book \in Seq(Id), NEW t \in Id, Peek(t)
    PROVE  TasksTyped'
<1>1. PICK v \in Nat : v = BestOpposite(t)
  BY BestIsPrice
<1>2. /\ task \in Tasks
      /\ task' = [task EXCEPT ![t].pc = "register", ![t].price = v]
      /\ task[t].pc = "peek"
      /\ "register" \in Pc
  BY <1>1 DEF Peek, TasksTyped, Pc
<1>3. PICK f : f = [task EXCEPT ![t].pc = "register"]
  OBVIOUS
<1>4. f \in Tasks
  BY ONLY <1>2, <1>3, FieldsTyped, t \in Id
<1>5. task' = [f EXCEPT ![t].price = v]
  BY <1>2, <1>3, Zenon
<1>6. task' \in Tasks
  BY ONLY <1>4, <1>5, FieldsTyped, t \in Id, v \in Nat
<1>7. /\ \A u \in Id \ {t} : task'[u] = task[u]
      /\ task'[t].pc = "register" /\ task'[t].of = task[t].of
  BY ONLY <1>2, t \in Id, TaskIs DEF FieldNames
<1>8. Ready(task'[t], t)
  BY <1>2, <1>7 DEF TasksTyped, Ready
<1> QED BY <1>6, <1>7, <1>8, ReadyStep

(* The list of makers has the orders that are met, and no others. *)
LEMMA MakersMet ==
    ASSUME book \in Seq(Id), NEW id \in Id
    PROVE  /\ Makers(id) \in Seq(Id)
           /\ \A k \in Met(id) : \E n \in DOMAIN Makers(id) : Makers(id)[n] = book[k]
           /\ \A n \in DOMAIN Makers(id) : \E k \in Met(id) : Makers(id)[n] = book[k]
<1>1. PICK M : M = Met(id)
  OBVIOUS
<1>2. M \in SUBSET Facing(id) /\ M \in SUBSET DOMAIN book /\ IsFiniteSet(M)
  BY <1>1, BookFinite
<1>3. PICK R : R = {kl \in M \X M : Before(kl[1], kl[2])}
  OBVIOUS
<1>4. StrictOrderOn(R, M)
  BY <1>2, <1>3, BeforeOrders
<1>5. PICK p, c : p = Listed(M, R) /\ c = Cardinality(M)
  OBVIOUS
<1>6. /\ c \in Nat
      /\ p \in [1 .. c -> M]
      /\ \A k \in M : \E n \in 1 .. c : p[n] = k
  BY ONLY <1>2, <1>4, <1>5, ListedAll
<1>7. PICK q : q = Makers(id)
  OBVIOUS
<1>8. q = [n \in 1 .. c |-> book[p[n]]]
  <2>1. q = [n \in DOMAIN Listed(M, R) |-> book[Listed(M, R)[n]]]
    BY <1>1, <1>3, <1>7 DEF Makers
  <2> QED BY ONLY <1>5, <1>6, <2>1
<1>9. \A k \in M : book[k] \in Id
  BY <1>2
<1>10. q \in [1 .. c -> Id]
  BY ONLY <1>6, <1>8, <1>9
<1>11. q \in Seq(Id)
  BY ONLY <1>6, <1>10
<1> QED BY ONLY <1>1, <1>6, <1>7, <1>8, <1>11

LEMMA SubmitTyped ==
    ASSUME TasksTyped, book \in Seq(Id), NEW t \in Id, SubmitOrder(t)
    PROVE  TasksTyped'
<1>1. PICK id, makers : id = task[t].of /\ makers = Makers(id)
  OBVIOUS
<1>2. task \in Tasks /\ task[t].pc = "submit" /\ id \in Id
  BY <1>1 DEF SubmitOrder, TasksTyped, Ready
<1>3. makers \in Seq(Id)
  BY <1>1, <1>2, MakersMet
<1>4. PICK d, m, v : /\ d = [n \in DOMAIN makers |-> <<id, makers[n]>>]
                     /\ m = (makers # << >>)
                     /\ v = IF Own(t) /\ makers # << >>
                            THEN Requests[Last(makers)].price ELSE task[t].price
  OBVIOUS
<1>5. task' = [task EXCEPT ![t].pc = "persist", ![t].todo = d, ![t].met = m, ![t].price = v]
  BY <1>1, <1>4 DEF SubmitOrder
<1>6. d \in Seq(Trade) /\ m \in BOOLEAN
  BY <1>2, <1>3, <1>4 DEF Trade
<1>7. v \in Nat
  <2>1. task[t].price \in Nat
    BY <1>2, TaskIs
  <2>2. makers # << >> => Last(makers) \in Id
    BY <1>3 DEF Last
  <2> QED BY <1>4, <2>1, <2>2, RequestOK
<1>8. PICK f, g, h : /\ f = [task EXCEPT ![t].pc = "persist"]
                     /\ g = [f EXCEPT ![t].todo = d]
                     /\ h = [g EXCEPT ![t].met = m]
  OBVIOUS
<1>9. f \in Tasks
  <2>1. "persist" \in Pc
    BY DEF Pc
  <2> QED BY ONLY <1>2, <1>8, <2>1, FieldsTyped, t \in Id
<1>10. g \in Tasks
  BY ONLY <1>6, <1>8, <1>9, FieldsTyped, t \in Id
<1>11. h \in Tasks
  BY ONLY <1>6, <1>8, <1>10, FieldsTyped, t \in Id
<1>12. task' = [h EXCEPT ![t].price = v]
  BY ONLY <1>5, <1>8, Zenon
<1>13. task' \in Tasks
  BY ONLY <1>7, <1>11, <1>12, FieldsTyped, t \in Id
<1>14. /\ \A u \in Id \ {t} : task'[u] = task[u]
       /\ task'[t].pc = "persist" /\ task'[t].of = id
  BY ONLY <1>1, <1>2, <1>5, t \in Id, TaskIs DEF FieldNames
<1>15. Ready(task'[t], t)
  BY <1>2, <1>14 DEF Ready
<1> QED BY <1>13, <1>14, <1>15, ReadyStep

LEMMA StoreTyped == ASSUME TasksTyped, NEW t \in Id, StoreTrade(t) PROVE TasksTyped'
<1>1. PICK d : d = Tail(task[t].todo)
  OBVIOUS
<1>2. /\ task \in Tasks /\ task[t].pc = "store" /\ task[t].of \in Id
      /\ task[t].todo # << >>
      /\ task' = [task EXCEPT ![t].pc = "persist", ![t].todo = d]
  BY <1>1 DEF StoreTrade, OthersToPersist, TasksTyped, Ready
<1>3. d \in Seq(Trade) /\ "persist" \in Pc
  BY <1>1, <1>2, TaskIs DEF Pc
<1>4. PICK f : f = [task EXCEPT ![t].pc = "persist"]
  OBVIOUS
<1>5. f \in Tasks
  BY ONLY <1>2, <1>3, <1>4, FieldsTyped, t \in Id
<1>6. task' = [f EXCEPT ![t].todo = d]
  BY <1>2, <1>4, Zenon
<1>7. task' \in Tasks
  BY ONLY <1>3, <1>5, <1>6, FieldsTyped, t \in Id
<1>8. /\ \A u \in Id \ {t} : task'[u] = task[u]
      /\ task'[t].pc = "persist" /\ task'[t].of = task[t].of
  BY ONLY <1>2, t \in Id, TaskIs DEF FieldNames
<1>9. Ready(task'[t], t)
  BY <1>2, <1>8 DEF Ready
<1> QED BY <1>7, <1>8, <1>9, ReadyStep

(* After its row and after its link a task may begin to scan. *)
LEMMA EntersScan ==
    ASSUME TasksTyped, NEW t \in Id, NEW p \in {"oco", "fire", "scan", "done"},
           task[t].pc \in {"row", "ocomap"},
           task' = [task EXCEPT ![t].pc = p,
                                ![t].shard = IF p = "scan" THEN 1 ELSE @]
    PROVE  TasksTyped'
<1>1. PICK n : n = IF p = "scan" THEN 1 ELSE task[t].shard
  OBVIOUS
<1>2. task \in Tasks /\ task' = [task EXCEPT ![t].pc = p, ![t].shard = n]
  BY <1>1 DEF TasksTyped
<1>3. n \in 0 .. Shards /\ p \in Pc
  <2>1. task[t].shard \in 0 .. Shards
    BY <1>2, TaskIs
  <2> QED BY ONLY <1>1, <2>1, ShardsAssumption, p \in {"oco", "fire", "scan", "done"}
          DEF Pc, Ended
<1>4. PICK f : f = [task EXCEPT ![t].pc = p]
  OBVIOUS
<1>5. f \in Tasks
  BY ONLY <1>2, <1>3, <1>4, FieldsTyped, t \in Id
<1>6. task' = [f EXCEPT ![t].shard = n]
  BY ONLY <1>2, <1>4, Zenon
<1>7. task' \in Tasks
  BY ONLY <1>3, <1>5, <1>6, FieldsTyped, t \in Id
<1>8. /\ \A u \in Id \ {t} : task'[u] = task[u]
      /\ task'[t].pc = p /\ task'[t].of = task[t].of
  BY ONLY <1>2, t \in Id, TaskIs DEF FieldNames
<1>9. Ready(task'[t], t)
  BY <1>8 DEF TasksTyped, Ready
<1> QED BY <1>7, <1>8, <1>9, ReadyStep

LEMMA RowTyped ==
    ASSUME TasksTyped, NEW t \in Id, UpdateRow(t) \/ CancelLinkInMap(t)
    PROVE  TasksTyped'
<1>1. /\ AfterRow(t) \in {"oco", "fire", "scan", "done"}
      /\ AfterOco(t) \in {"oco", "fire", "scan", "done"}
  BY DEF AfterRow, AfterOco
<1>2. \E p \in {"oco", "fire", "scan", "done"} :
         /\ task[t].pc \in {"row", "ocomap"}
         /\ task' = [task EXCEPT ![t].pc = p, ![t].shard = IF p = "scan" THEN 1 ELSE @]
  BY <1>1 DEF UpdateRow, CancelLinkInMap
<1> QED BY <1>2, EntersScan

(* The scan: what is seen grows, and what is to be fired. *)
LEMMA SeesTyped ==
    ASSUME TasksTyped, NEW t \in Id, NEW S \in SUBSET Id, NEW q \in Seq(Id),
           task[t].pc = "scan",
           task' = [task EXCEPT ![t].seen = S, ![t].fire = q]
    PROVE  TasksTyped'
<1>1. task \in Tasks
  BY DEF TasksTyped
<1>2. PICK f : f = [task EXCEPT ![t].seen = S]
  OBVIOUS
<1>3. f \in Tasks
  BY ONLY <1>1, <1>2, FieldsTyped, t \in Id, S \in SUBSET Id
<1>4. task' = [f EXCEPT ![t].fire = q]
  BY <1>2, Zenon
<1>5. task' \in Tasks
  BY ONLY <1>3, <1>4, FieldsTyped, t \in Id, q \in Seq(Id)
<1>6. /\ \A u \in Id \ {t} : task'[u] = task[u]
      /\ task'[t].pc = "scan" /\ task'[t].of = task[t].of
  BY ONLY <1>1, t \in Id, TaskIs, task[t].pc = "scan",
     task' = [task EXCEPT ![t].seen = S, ![t].fire = q] DEF FieldNames
<1>7. Ready(task'[t], t)
  BY <1>6 DEF TasksTyped, Ready
<1> QED BY <1>5, <1>6, <1>7, ReadyStep

LEMMA LooksTyped ==
    ASSUME TasksTyped, DOMAIN conds \in SUBSET Id, NEW t \in Id,
           LookAndTrigger(t) \/ LookAndSkip(t) \/ LookAndFollow(t)
    PROVE  TasksTyped'
<1>1. /\ task \in Tasks
      /\ task[t].seen \in SUBSET Id
      /\ task[t].fire \in Seq(Id)
      /\ task[t].pc = "scan"
  BY TaskIs DEF TasksTyped, LookAndTrigger, LookAndSkip, LookAndFollow
<1>2. PICK id \in Unseen(t) :
          \/ task' = [task EXCEPT ![t].seen = @ \cup {id}, ![t].fire = Append(@, id)]
          \/ task' = [task EXCEPT ![t].seen = @ \cup {id}]
  BY DEF LookAndTrigger, LookAndSkip, LookAndFollow
<1>3. id \in Id
  BY <1>2 DEF Unseen, InShard
<1>4. PICK S : S = task[t].seen \cup {id}
  OBVIOUS
<1>5. PICK q : q = task[t].fire
  OBVIOUS
<1>6. CASE task' = [task EXCEPT ![t].seen = @ \cup {id}, ![t].fire = Append(@, id)]
  <2>1. PICK r : r = Append(q, id)
    OBVIOUS
  <2>2. S \in SUBSET Id /\ r \in Seq(Id)
    BY <1>1, <1>3, <1>4, <1>5, <2>1
  <2>3. task' = [task EXCEPT ![t].seen = S, ![t].fire = r]
    BY <1>4, <1>5, <1>6, <2>1
  <2> QED BY <1>1, <2>2, <2>3, SeesTyped
<1>7. CASE task' = [task EXCEPT ![t].seen = @ \cup {id}]
  <2>1. task' = [task EXCEPT ![t].seen = S]
    BY <1>4, <1>7
  <2>2. S \in SUBSET Id
    BY <1>1, <1>3, <1>4
  <2>3. task' \in Tasks
    BY ONLY <1>1, <2>1, <2>2, FieldsTyped, t \in Id
  <2>4. /\ \A u \in Id \ {t} : task'[u] = task[u]
        /\ task'[t].pc = "scan" /\ task'[t].of = task[t].of
    BY ONLY <1>1, <2>1, t \in Id, TaskIs DEF FieldNames
  <2>5. Ready(task'[t], t)
    BY <1>1, <2>4 DEF TasksTyped, Ready
  <2> QED BY <2>3, <2>4, <2>5, ReadyStep
<1> QED BY <1>2, <1>6, <1>7

LEMMA ShardTyped == ASSUME TasksTyped, NEW t \in Id, NextShard(t) PROVE TasksTyped'
<1>1. PICK n : n = IF task[t].shard < Shards THEN task[t].shard + 1 ELSE 0
  OBVIOUS
<1>2. PICK p : p = IF task[t].shard < Shards THEN "scan" ELSE "fire"
  OBVIOUS
<1>3. task \in Tasks /\ task[t].pc = "scan" /\ task[t].shard \in 0 .. Shards
  BY TaskIs DEF TasksTyped, NextShard
<1>4. n \in 0 .. Shards /\ p \in Pc
  BY ONLY <1>1, <1>2, <1>3, ShardsAssumption DEF Pc
<1>5. PICK f, g : f = [task EXCEPT ![t].pc = p] /\ g = [f EXCEPT ![t].shard = n]
  OBVIOUS
<1>6. f \in Tasks
  BY ONLY <1>3, <1>4, <1>5, FieldsTyped, t \in Id
<1>7. g \in Tasks
  BY ONLY <1>4, <1>5, <1>6, FieldsTyped, t \in Id
<1>8. task' = [g EXCEPT ![t].seen = {}]
  <2>1. CASE task[t].shard < Shards
    <3>1. task' = [task EXCEPT ![t].shard = n, ![t].seen = {}]
      BY <1>1, <2>1 DEF NextShard
    <3>2. f = task
      <4>1. p = task[t].pc
        BY <1>2, <1>3, <2>1
      <4>2. DOMAIN task = Id /\ task \in [Id -> TaskType] /\ task[t] \in TaskType
        BY <1>3 DEF Tasks
      <4>3. \A r \in TaskType : [r EXCEPT !.pc = r.pc] = r
        BY DEF TaskType
      <4> QED BY ONLY <1>5, <4>1, <4>2, <4>3, t \in Id
    <3> QED BY ONLY <1>5, <3>1, <3>2, Zenon
  <2>2. CASE ~(task[t].shard < Shards)
    BY <1>1, <1>2, <1>5, <2>2, Zenon DEF NextShard
  <2> QED BY <2>1, <2>2
<1>9. task' \in Tasks
  BY ONLY <1>7, <1>8, FieldsTyped, t \in Id
<1>10. /\ \A u \in Id \ {t} : task'[u] = task[u]
       /\ task'[t].pc \in {"scan", "fire"} /\ task'[t].of = task[t].of
  BY ONLY <1>2, <1>3, NextShard(t), t \in Id, TaskIs DEF FieldNames, NextShard
<1>11. Ready(task'[t], t)
  BY <1>3, <1>10 DEF TasksTyped, Ready
<1> QED BY <1>9, <1>10, <1>11, ReadyStep

LEMMA FireTyped == ASSUME TasksTyped, NEW t \in Id, Fire(t) PROVE TasksTyped'
<1>1. PICK id, q : id = Head(task[t].fire) /\ q = Tail(task[t].fire)
  OBVIOUS
<1>2. /\ task \in Tasks
      /\ task[t].pc = "fire" /\ task[t].of \in Id
      /\ task[t].fire \in Seq(Id) /\ task[t].fire # << >>
  BY TaskIs DEF TasksTyped, Fire, Ready
<1>3. id \in Id /\ q \in Seq(Id)
  BY <1>1, <1>2
<1>4. PICK o, p : /\ o = IF Claimed(id) THEN id ELSE task[t].of
                  /\ p = IF Claimed(id) THEN "submit" ELSE "fire"
  OBVIOUS
<1>5. o \in Id /\ p \in Pc
  BY <1>2, <1>3, <1>4 DEF Pc
<1>6. task' = [task EXCEPT ![t].fire = q, ![t].of = o, ![t].pc = p]
  BY <1>1, <1>2, <1>4 DEF Fire
<1>7. PICK f, g : f = [task EXCEPT ![t].fire = q] /\ g = [f EXCEPT ![t].of = o]
  OBVIOUS
<1>8. f \in Tasks
  BY ONLY <1>2, <1>3, <1>7, FieldsTyped, t \in Id
<1>9. g \in Tasks
  BY ONLY <1>5, <1>7, <1>8, FieldsTyped, t \in Id
<1>10. task' = [g EXCEPT ![t].pc = p]
  BY ONLY <1>6, <1>7, Zenon
<1>11. task' \in Tasks
  BY ONLY <1>5, <1>9, <1>10, FieldsTyped, t \in Id
<1>12. /\ \A u \in Id \ {t} : task'[u] = task[u]
       /\ task'[t].pc = p /\ task'[t].of = o
  BY ONLY <1>2, <1>6, t \in Id, TaskIs DEF FieldNames
<1>13. Ready(task'[t], t)
  BY <1>4, <1>5, <1>12 DEF Ready
<1> QED BY <1>11, <1>12, <1>13, ReadyStep

LEMMA RestartTyped == ASSUME TasksTyped, Restart PROVE TasksTyped'
<1>1. /\ task \in Tasks
      /\ task' = [t \in Id |-> IF task[t].pc \in Ended THEN task[t]
                                ELSE [task[t] EXCEPT !.pc = "lost"]]
  BY DEF TasksTyped, Restart
<1>2. ASSUME NEW t \in Id PROVE task'[t] \in TaskType
  <2>1. PICK f : f = [task EXCEPT ![t].pc = "lost"]
    OBVIOUS
  <2>2. "lost" \in Pc
    BY DEF Pc, Ended
  <2>3. f \in Tasks
    BY ONLY <1>1, <2>1, <2>2, FieldsTyped, t \in Id
  <2>4. task[t] \in TaskType /\ f[t] \in TaskType
    BY <1>1, <2>3 DEF Tasks
  <2>5. f[t] = [task[t] EXCEPT !.pc = "lost"]
    BY <1>1, <2>1 DEF Tasks
  <2> QED BY <1>1, <2>4, <2>5
<1>3. task' \in Tasks
  BY ONLY <1>1, <1>2 DEF Tasks
<1>4. \A t \in Id : Ready(task'[t], t)
  <2> SUFFICES ASSUME NEW t \in Id PROVE Ready(task'[t], t)
    OBVIOUS
  <2>1. CASE task[t].pc \in Ended
    <3>1. task'[t] = task[t]
      BY <1>1, <2>1
    <3> QED BY <3>1 DEF TasksTyped
  <2>2. CASE task[t].pc \notin Ended
    <3>1. task'[t].pc = "lost" /\ task'[t].of = task[t].of
      BY ONLY <1>1, <2>2, TaskIs DEF FieldNames
    <3>2. task[t].of \in Id
      BY <2>2 DEF TasksTyped, Ready, Ended
    <3> QED BY <3>1, <3>2 DEF Ready
  <2> QED BY <2>1, <2>2
<1> QED BY <1>3, <1>4 DEF TasksTyped

LEMMA StepTasksTyped ==
    ASSUME TasksTyped, book \in Seq(Id), DOMAIN conds \in SUBSET Id, [Next]_vars
    PROVE  TasksTyped'
<1>1. CASE task' = task
  BY <1>1 DEF TasksTyped
<1>2. CASE \E t \in Id : InsertOrder(t) \/ CreateStep(t)
  BY <1>2, GoTyped, InsertTyped, PeekTyped, SubmitTyped, StoreTyped, RowTyped, LooksTyped,
     ShardTyped, FireTyped DEF CreateStep, OtherStep
<1>3. CASE Restart
  BY <1>3, RestartTyped
<1> QED BY <1>1, <1>2, <1>3, WritesTask

-----------------------------------------------------------------------------
(* The types of the rest. *)

RowsTyped == rows \in [Id -> RowStatus]

EngineTyped == /\ book \in Seq(Id)
               /\ ExecutedOK
               /\ entered \in [Id -> Nat]
               /\ struck \subseteq Trade
               /\ BookOK

MapTyped == /\ DOMAIN conds \subseteq {id \in Id : IsConditional(id)}
            /\ \A id \in DOMAIN conds : conds[id] \in Nat

TradesTyped == topic \subseteq Trade /\ stored \subseteq Trade

CancelTyped == cancel \in [Cancels -> [pc : Ended \cup {"book", "map", "row"}, calm : BOOLEAN]]

Typed == RowsTyped /\ EngineTyped /\ MapTyped /\ TradesTyped /\ TasksTyped /\ CancelTyped

LEMMA StepRowsTyped == ASSUME Typed, [Next]_vars PROVE RowsTyped'
<1> USE DEF Typed, RowsTyped
<1>1. CASE rows' = rows
  BY <1>1
<1>2. ASSUME NEW t \in Id, InsertOrder(t) \/ UpdateRow(t) \/ CancelLinkRow(t)
      PROVE  RowsTyped'
  BY <1>2 DEF InsertOrder, UpdateRow, CancelLinkRow, RowStatus
<1>3. ASSUME NEW id \in Cancels, CancelRow(id) PROVE RowsTyped'
  BY <1>3 DEF CancelRow, RowStatus
<1>4. CASE Settle
  <2>1. rows' = rows \/ \E trade \in topic :
            rows' = [rows EXCEPT ![trade[1]] = "filled", ![trade[2]] = "filled"]
    BY <1>4 DEF Settle
  <2>2. \A f \in [Id -> RowStatus], i, j \in Id :
            [f EXCEPT ![i] = "filled", ![j] = "filled"] \in [Id -> RowStatus]
    BY DEF RowStatus
  <2>3. \A trade \in topic : trade[1] \in Id /\ trade[2] \in Id
    BY DEF TradesTyped, Trade
  <2>4. CASE rows' = rows
    BY <2>4
  <2>5. ASSUME NEW trade \in topic,
               rows' = [rows EXCEPT ![trade[1]] = "filled", ![trade[2]] = "filled"]
        PROVE  RowsTyped'
    <3>1. PICK i, j : i = trade[1] /\ j = trade[2]
      OBVIOUS
    <3>2. i \in Id /\ j \in Id /\ rows \in [Id -> RowStatus]
      BY <2>3, <3>1
    <3>3. rows' = [rows EXCEPT ![i] = "filled", ![j] = "filled"]
      BY <2>5, <3>1
    <3> QED BY ONLY <2>2, <3>2, <3>3 DEF RowsTyped
  <2> QED BY <2>1, <2>4, <2>5
<1> QED BY <1>1, <1>2, <1>3, <1>4, WritesRows

LEMMA StepTradesTyped == ASSUME Typed, [Next]_vars PROVE TradesTyped'
<1> USE DEF Typed, TradesTyped
<1>1. \A t \in Id : task[t].todo # << >> => Head(task[t].todo) \in Trade
  <2>1. \A t \in Id : task[t].todo \in Seq(Trade)
    BY TaskIs DEF TasksTyped
  <2> QED BY <2>1
<1>2. topic \subseteq topic' /\ topic' \subseteq Trade
  BY <1>1, WritesTopic DEF SendTrade
<1>3. stored' \subseteq Trade
  BY <1>1, WritesStored DEF StoreTrade, TasksTyped, Ready
<1> QED BY <1>2, <1>3

LEMMA StepMapTyped == ASSUME Typed, [Next]_vars PROVE MapTyped'
<1> USE DEF Typed, MapTyped
<1>1. CASE conds' = conds
  BY <1>1
<1>2. ASSUME NEW t \in Id, Register(t) PROVE MapTyped'
  <2>1. task[t].price \in Nat /\ IsConditional(t)
    BY <1>2, TaskIs DEF TasksTyped, Ready, Register
  <2>2. /\ DOMAIN conds' = DOMAIN conds \cup {t}
        /\ \A i \in DOMAIN conds \cup {t} :
              conds'[i] = IF i = t THEN task[t].price ELSE conds[i]
    BY <1>2 DEF Register
  <2> QED BY <2>1, <2>2
<1>3. ASSUME NEW id, conds' = Dropped(conds, id) PROVE MapTyped'
  BY <1>3 DEF Dropped
<1>4. ASSUME NEW t \in Id, LookAndFollow(t) PROVE MapTyped'
  <2>1. task[t].price \in Nat
    BY TaskIs DEF TasksTyped
  <2>2. /\ DOMAIN conds' = DOMAIN conds
        /\ \A i \in DOMAIN conds :
              conds'[i] = IF i = Followed(t) THEN Follow(i, conds[i], task[t].price)
                                             ELSE conds[i]
    BY <1>4 DEF LookAndFollow
  <2> QED BY <2>1, <2>2 DEF Follow
<1>5. CASE Restart
  <2>1. conds' = << >>
    BY <1>5 DEF Restart
  <2>2. DOMAIN conds' = {}
    BY ONLY <2>1
  <2> QED BY <2>2
<1> QED BY <1>1, <1>2, <1>3, <1>4, <1>5, WritesConds DEF CancelLinkInMap, Fire, CancelInMap

LEMMA StepCancelTyped == ASSUME Typed, [Next]_vars PROVE CancelTyped'
<1> USE DEF Typed, CancelTyped, Ended
<1>1. CASE cancel' = cancel
  BY <1>1
<1>2. ASSUME NEW id \in Cancels, SelectOrder(id) PROVE CancelTyped'
  BY <1>2 DEF SelectOrder
<1>3. ASSUME NEW id \in Cancels, CancelStep(id) PROVE CancelTyped'
  BY <1>3 DEF CancelStep, CancelInBook, CancelInMap, CancelRow, CancelRowFails
<1>4. CASE Restart
  BY <1>4 DEF Restart
<1> QED BY <1>1, <1>2, <1>3, <1>4, WritesCancel

LEMMA SubmitEngine == ASSUME Typed, OneOK, NEW t \in Id, SubmitOrder(t) PROVE EngineTyped'
<1>1. PICK id : id = task[t].of
  OBVIOUS
<1>2. id \in Id /\ task[t].pc = "submit" /\ Submit(id)
  BY <1>1 DEF SubmitOrder, Typed, TasksTyped, Ready
<1>3. entered[id] = 0
  BY <1>1, <1>2 DEF OneOK, HeldOK, Holds
<1>4. /\ book \in Seq(Id)
      /\ ExecutedOK
      /\ BookOK
      /\ entered \in [Id -> Nat]
      /\ struck \subseteq Trade
  BY DEF Typed, EngineTyped
<1>5. \A k \in DOMAIN book : book[k] # id
  BY <1>3, <1>4 DEF BookOK
<1>6. ExecutedOK'
  <2>1. executed' = [i \in Id |-> ExecutedAfter(id, i)]
    BY <1>2 DEF Submit
  <2>2. \A i \in Id : ExecutedAfter(id, i) \in Nat
                      /\ ExecutedAfter(id, i) <= Requests[i].quantity
    BY <1>2, <1>4, <1>5, ExecutedFits
  <2> QED BY ONLY <2>1, <2>2 DEF ExecutedOK
<1>7. PICK S \in SUBSET DOMAIN book :
          book' = Append(Kept(book, S), id) \/ book' = Kept(book, S)
  BY <1>2 DEF Submit
<1>8. PICK q : q = Kept(book, S)
  OBVIOUS
<1>9. /\ q \in Seq(Id)
      /\ \A n \in DOMAIN q : \E k \in DOMAIN book : q[n] = book[k]
      /\ \A m, n \in DOMAIN q : q[m] = q[n] => m = n
  <2>1. \A k, l \in DOMAIN book : book[k] = book[l] => k = l
    BY <1>4 DEF BookOK
  <2>2. book \in Seq(Id) /\ S \in SUBSET DOMAIN book
    BY <1>4
  <2>3. /\ q \in Seq(Id)
        /\ \A n \in DOMAIN q : \E k \in S : q[n] = book[k]
        /\ \A m, n \in DOMAIN q : q[m] = q[n] => m = n
    BY ONLY <1>8, <2>1, <2>2, KeptSome
  <2> QED BY <2>2, <2>3
<1>10. /\ entered' \in [Id -> Nat]
       /\ entered'[id] = 1
       /\ \A i \in Id \ {id} : entered'[i] = entered[i]
  BY <1>2, <1>3, <1>4 DEF Submit
<1>11. /\ book' \in Seq(Id)
       /\ \A n \in DOMAIN book' : book'[n] = id \/ \E k \in DOMAIN book : book'[n] = book[k]
       /\ \A m, n \in DOMAIN book' : book'[m] = book'[n] => m = n
  <2>1. \A n \in DOMAIN q : q[n] # id
    BY <1>5, <1>9
  <2>2. CASE book' = q
    BY ONLY <1>9, <2>2
  <2>3. CASE book' = Append(q, id)
    BY ONLY <1>2, <1>9, <2>1, <2>3
  <2> QED BY <1>7, <1>8, <2>2, <2>3
<1>12. BookOK'
  <2>1. \A k \in DOMAIN book : book[k] \in Id \ {id} /\ entered[book[k]] = 1
    BY <1>4, <1>5 DEF BookOK
  <2>2. \A n \in DOMAIN book' : entered'[book'[n]] = 1
    BY ONLY <1>10, <1>11, <2>1
  <2> QED BY ONLY <1>11, <2>2 DEF BookOK
<1>13. struck' \subseteq Trade
  <2>1. struck' = struck \cup {<<id, book[k]>> : k \in Met(id)}
    BY <1>2 DEF Submit
  <2>2. \A k \in Met(id) : book[k] \in Id
    BY <1>4, BookFinite
  <2> QED BY <1>2, <1>4, <2>1, <2>2 DEF Trade
<1> QED BY <1>6, <1>10, <1>11, <1>12, <1>13 DEF EngineTyped

LEMMA WithoutEngine ==
    ASSUME Typed, NEW id, book' = Without(book, id), executed' = executed,
           entered' = entered, struck' = struck
    PROVE  EngineTyped'
<1>1. /\ book' \in Seq(Id)
      /\ \A n \in DOMAIN book' : \E k \in DOMAIN book : book'[n] = book[k]
      /\ \A m, n \in DOMAIN book' : book'[m] = book'[n] => m = n
  BY WithoutOne DEF Typed, EngineTyped, BookOK
<1> QED BY <1>1 DEF Typed, EngineTyped, BookOK, ExecutedOK

LEMMA StepEngineTyped == ASSUME Typed, OneOK, [Next]_vars PROVE EngineTyped'
<1>1. ASSUME NEW t \in Id, SubmitOrder(t) PROVE EngineTyped'
  BY <1>1, SubmitEngine
<1>2. ASSUME executed' = executed /\ entered' = entered /\ struck' = struck
      PROVE  EngineTyped'
  <2>1. CASE book' = book
    BY <1>2, <2>1 DEF Typed, EngineTyped, BookOK, ExecutedOK
  <2>2. ASSUME NEW id, book' = Without(book, id) PROVE EngineTyped'
    BY <1>2, <2>2, WithoutEngine
  <2>3. CASE Restart
    <3>1. book' = << >>
      BY <2>3 DEF Restart
    <3>2. book' \in Seq(Id) /\ DOMAIN book' = {}
      BY ONLY <3>1
    <3> QED BY <1>2, <3>2 DEF Typed, EngineTyped, BookOK, ExecutedOK
  <2> QED BY <1>1, <2>1, <2>2, <2>3, WritesBook DEF CancelLinkInBook, CancelInBook, TakenOut
<1> QED BY <1>1, <1>2, WritesEngine

LEMMA TypedBegins == Init => Typed
<1> SUFFICES ASSUME Init PROVE Typed
  OBVIOUS
<1>1. RowsTyped
  BY DEF Init, RowsTyped, RowStatus
<1>2. EngineTyped
  <2>1. book \in Seq(Id) /\ DOMAIN book = {}
    BY DEF Init
  <2> QED BY <2>1, RequestOK DEF Init, EngineTyped, BookOK, ExecutedOK
<1>3. MapTyped
  <2>1. conds = << >>
    BY DEF Init
  <2>2. DOMAIN conds = {}
    BY ONLY <2>1
  <2> QED BY <2>2 DEF MapTyped
<1>4. TradesTyped
  BY DEF Init, TradesTyped
<1>5. TasksTyped
  <2>1. task = [t \in Id |-> Fresh]
    BY DEF Init
  <2>2. Fresh \in TaskType
    <3>1. /\ "new" \in Pc
          /\ 0 \in 0 .. Shards
          /\ {} \in SUBSET Id
          /\ << >> \in Seq(Id) /\ << >> \in Seq(Trade)
      BY ShardsAssumption DEF Pc, Ended
    <3> QED BY <3>1 DEF Fresh, TaskType
  <2>3. Fresh.pc = "new"
    BY DEF Fresh
  <2>4. task \in Tasks
    BY ONLY <2>1, <2>2 DEF Tasks
  <2>5. \A t \in Id : task[t].pc = "new"
    BY ONLY <2>1, <2>3
  <2> QED BY <2>4, <2>5 DEF TasksTyped, Ready
<1>6. CancelTyped
  BY DEF Init, CancelTyped, Ended
<1> QED BY <1>1, <1>2, <1>3, <1>4, <1>5, <1>6 DEF Typed

LEMMA StepTyped == ASSUME Typed, OneOK, [Next]_vars PROVE Typed'
<1>1. TasksTyped'
  <2>1. DOMAIN conds \in SUBSET Id /\ book \in Seq(Id) /\ TasksTyped
    BY DEF Typed, MapTyped, EngineTyped
  <2> QED BY <2>1, StepTasksTyped
<1> QED BY <1>1, StepRowsTyped, StepEngineTyped, StepMapTyped, StepTradesTyped, StepCancelTyped
        DEF Typed

LEMMA Types == Spec => []Typed
<1>1. ASSUME Typed, OneOK, [Next]_vars PROVE Typed'
  BY <1>1, StepTyped
<1> QED BY <1>1, TypedBegins, Invariance, PTL DEF Spec

(* Every variable has its type; an order trades no more than was asked for, *)
(* settlement has consumed only what was sent, and only stop orders are in  *)
(* the map.                                                                 *)
THEOREM TypeCorrect == Spec => []TypeOK
<1>1. Typed => TypeOK
  BY DEF Typed, RowsTyped, EngineTyped, ExecutedOK, MapTyped, TradesTyped, TasksTyped, Tasks,
     TaskType, CancelTyped, TypeOK
<1> QED BY <1>1, Types, PTL

-----------------------------------------------------------------------------
(* How a task goes on. *)

LEMMA MovesAlone ==
    ASSUME TasksTyped, NEW t \in Id, InsertOrder(t) \/ CreateStep(t)
    PROVE  \A u \in Id \ {t} : task'[u] = task[u]
<1>1. task \in Tasks
  BY DEF TasksTyped
<1>2. DOMAIN task = Id
  BY <1>1, TaskIs
<1>3. CASE \/ InsertOrder(t) \/ Peek(t) \/ Register(t) \/ SubmitOrder(t) \/ SendTrade(t)
           \/ StoreTrade(t) \/ PersistFails(t) \/ Persisted(t)
  BY ONLY <1>2, <1>3 DEF InsertOrder, Peek, Register, SubmitOrder, SendTrade, StoreTrade,
     PersistFails, Persisted, Goto
<1>4. CASE \/ UpdateRow(t) \/ UpdateRowFails(t) \/ CancelLinkInBook(t) \/ SelectLinkFails(t)
           \/ CancelLinkRow(t) \/ CancelLinkInMap(t)
  BY ONLY <1>2, <1>4 DEF UpdateRow, UpdateRowFails, CancelLinkInBook, SelectLinkFails,
     CancelLinkRow, CancelLinkInMap, Goto
<1>5. CASE \/ LookAndTrigger(t) \/ LookAndSkip(t) \/ LookAndFollow(t) \/ NextShard(t)
           \/ Fire(t) \/ Answer(t)
  BY ONLY <1>2, <1>5 DEF LookAndTrigger, LookAndSkip, LookAndFollow, NextShard, Fire, Answer,
     Goto
<1> QED BY <1>3, <1>4, <1>5 DEF CreateStep, OtherStep

Keeps(t) == /\ task'[t].of = task[t].of
            /\ task'[t].sure = task[t].sure
            /\ task'[t].met = task[t].met

Turns(t, p) == task'[t].pc = p /\ task'[t].todo = task[t].todo /\ Keeps(t)

LEMMA FlowInsert ==
    ASSUME TasksTyped, NEW t \in Id, InsertOrder(t)
    PROVE  /\ task[t].pc = "new"
           /\ task'[t].pc = IF IsConditional(t) THEN "peek" ELSE "submit"
           /\ task'[t].of = t
           /\ task'[t].sure =
                 (Requests[t].link # 0 /\ task[Requests[t].link].pc = "done")
BY TaskIs DEF TasksTyped, InsertOrder, FieldNames

LEMMA FlowPeek ==
    ASSUME TasksTyped, NEW t \in Id, Peek(t) \/ Register(t)
    PROVE  /\ Peek(t) => task[t].pc = "peek" /\ Turns(t, "register")
           /\ Register(t) => task[t].pc = "register" /\ Turns(t, "done")
<1>1. task \in Tasks
  BY DEF TasksTyped
<1>2. Peek(t) => task[t].pc = "peek" /\ Turns(t, "register")
  BY ONLY <1>1, t \in Id, TaskIs DEF Peek, Turns, Keeps, FieldNames
<1>3. Register(t) => task[t].pc = "register" /\ Turns(t, "done")
  BY ONLY <1>1, t \in Id, TaskIs DEF Register, Goto, Turns, Keeps, FieldNames
<1> QED BY <1>2, <1>3

LEMMA FlowSubmit ==
    ASSUME TasksTyped, NEW t \in Id, SubmitOrder(t), NEW id, id = task[t].of,
           NEW makers, makers = Makers(id)
    PROVE  /\ task[t].pc = "submit" /\ Submit(id)
           /\ task'[t].pc = "persist"
           /\ task'[t].of = id
           /\ task'[t].sure = task[t].sure
           /\ task'[t].todo = [n \in DOMAIN makers |-> <<id, makers[n]>>]
<1>1. task \in Tasks
  BY DEF TasksTyped
<1>2. PICK d, v : /\ d = [n \in DOMAIN makers |-> <<id, makers[n]>>]
                  /\ v = IF Own(t) /\ makers # << >>
                         THEN Requests[Last(makers)].price ELSE task[t].price
  OBVIOUS
<1>3. PICK m : m = (makers # << >>)
  OBVIOUS
<1>4. /\ task[t].pc = "submit" /\ Submit(id)
      /\ task' = [task EXCEPT ![t].pc = "persist", ![t].todo = d, ![t].met = m, ![t].price = v]
  BY <1>2, <1>3 DEF SubmitOrder
<1>5. /\ task'[t].pc = "persist" /\ task'[t].of = task[t].of /\ task'[t].sure = task[t].sure
      /\ task'[t].todo = d
  BY ONLY <1>1, <1>4, t \in Id, TaskIs DEF FieldNames
<1> QED BY <1>2, <1>3, <1>4, <1>5

LEMMA SubmitMeets ==
    ASSUME TasksTyped, NEW t \in Id, SubmitOrder(t), Makers(task[t].of) # << >>
    PROVE  task'[t].met
<1>1. task \in Tasks
  BY DEF TasksTyped
<1>2. PICK makers : makers = Makers(task[t].of)
  OBVIOUS
<1>3. PICK d, v : /\ d = [n \in DOMAIN makers |-> <<task[t].of, makers[n]>>]
                  /\ v = IF Own(t) /\ makers # << >>
                         THEN Requests[Last(makers)].price ELSE task[t].price
  OBVIOUS
<1>4. PICK m : m = (makers # << >>)
  OBVIOUS
<1>5. task' = [task EXCEPT ![t].pc = "persist", ![t].todo = d, ![t].met = m, ![t].price = v]
  BY <1>2, <1>3, <1>4 DEF SubmitOrder
<1>6. task'[t].met = m
  BY ONLY <1>1, <1>5, t \in Id, TaskIs DEF FieldNames
<1> QED BY <1>2, <1>4, <1>6

LEMMA FlowPersist ==
    ASSUME TasksTyped, NEW t \in Id,
           SendTrade(t) \/ StoreTrade(t) \/ PersistFails(t) \/ Persisted(t)
    PROVE  /\ SendTrade(t) => task[t].pc = "persist" /\ Turns(t, "store")
           /\ StoreTrade(t) => /\ task[t].pc = "store"
                               /\ task'[t].pc = "persist"
                               /\ task'[t].todo = Tail(task[t].todo)
                               /\ Keeps(t)
           /\ PersistFails(t) => /\ task[t].pc \in {"persist", "store"}
                                 /\ Turns(t, IF Own(t) THEN "failed" ELSE "row")
           /\ Persisted(t) => task[t].pc = "persist" /\ task[t].todo = << >> /\ Turns(t, "row")
<1>1. task \in Tasks
  BY DEF TasksTyped
<1>2. SendTrade(t) => task[t].pc = "persist" /\ Turns(t, "store")
  BY ONLY <1>1, t \in Id, TaskIs DEF SendTrade, Goto, Turns, Keeps, FieldNames
<1>3. StoreTrade(t) => /\ task[t].pc = "store"
                       /\ task'[t].pc = "persist"
                       /\ task'[t].todo = Tail(task[t].todo)
                       /\ Keeps(t)
  BY ONLY <1>1, t \in Id, TaskIs DEF StoreTrade, OthersToPersist, Keeps, FieldNames
<1>4. PersistFails(t) => /\ task[t].pc \in {"persist", "store"}
                         /\ Turns(t, IF Own(t) THEN "failed" ELSE "row")
  BY ONLY <1>1, t \in Id, TaskIs DEF PersistFails, Goto, Turns, Keeps, FieldNames
<1>5. Persisted(t) => task[t].pc = "persist" /\ task[t].todo = << >> /\ Turns(t, "row")
  BY ONLY <1>1, t \in Id, TaskIs DEF Persisted, Goto, Turns, Keeps, FieldNames
<1> QED BY <1>2, <1>3, <1>4, <1>5

LEMMA FlowRow ==
    ASSUME TasksTyped, NEW t \in Id, UpdateRow(t) \/ UpdateRowFails(t)
    PROVE  /\ task[t].pc = "row"
           /\ UpdateRow(t) => Turns(t, AfterRow(t))
           /\ UpdateRowFails(t) => Turns(t, IF Own(t) THEN "failed" ELSE AfterRow(t))
           /\ AfterRow(t) \in {"oco", "fire", "scan", "done"}
<1>1. AfterRow(t) \in {"oco", "fire", "scan", "done"}
  BY DEF AfterRow
<1>2. UpdateRow(t) => Turns(t, AfterRow(t)) /\ task[t].pc = "row"
  BY TaskIs DEF TasksTyped, UpdateRow, Turns, Keeps, FieldNames
<1>3. UpdateRowFails(t) => /\ Turns(t, IF Own(t) THEN "failed" ELSE AfterRow(t))
                           /\ task[t].pc = "row"
  BY TaskIs DEF TasksTyped, UpdateRowFails, Goto, Turns, Keeps, FieldNames
<1> QED BY <1>1, <1>2, <1>3

LEMMA FlowLink ==
    ASSUME TasksTyped, NEW t \in Id,
           CancelLinkInBook(t) \/ SelectLinkFails(t) \/ CancelLinkRow(t) \/ CancelLinkInMap(t)
    PROVE  /\ CancelLinkInBook(t) => task[t].pc = "oco" /\ Turns(t, "ocorow")
           /\ SelectLinkFails(t) => task[t].pc = "oco" /\ Turns(t, "ocomap")
           /\ CancelLinkRow(t) => task[t].pc = "ocorow" /\ Turns(t, "ocomap")
           /\ CancelLinkInMap(t) => task[t].pc = "ocomap" /\ Turns(t, AfterOco(t))
           /\ AfterOco(t) \in {"scan", "fire"}
<1>1. AfterOco(t) \in {"scan", "fire"}
  BY DEF AfterOco
<1>2. CancelLinkInMap(t) => task[t].pc = "ocomap" /\ Turns(t, AfterOco(t))
  BY TaskIs DEF TasksTyped, CancelLinkInMap, Turns, Keeps, FieldNames
<1>3. /\ CancelLinkInBook(t) => task[t].pc = "oco" /\ Turns(t, "ocorow")
      /\ SelectLinkFails(t) => task[t].pc = "oco" /\ Turns(t, "ocomap")
      /\ CancelLinkRow(t) => task[t].pc = "ocorow" /\ Turns(t, "ocomap")
  <2>1. task \in Tasks
    BY DEF TasksTyped
  <2>2. CancelLinkInBook(t) => task[t].pc = "oco" /\ Turns(t, "ocorow")
    BY ONLY <2>1, t \in Id, TaskIs DEF CancelLinkInBook, Goto, Turns, Keeps, FieldNames
  <2>3. SelectLinkFails(t) => task[t].pc = "oco" /\ Turns(t, "ocomap")
    BY ONLY <2>1, t \in Id, TaskIs DEF SelectLinkFails, Goto, Turns, Keeps, FieldNames
  <2>4. CancelLinkRow(t) => task[t].pc = "ocorow" /\ Turns(t, "ocomap")
    BY ONLY <2>1, t \in Id, TaskIs DEF CancelLinkRow, Goto, Turns, Keeps, FieldNames
  <2> QED BY <2>2, <2>3, <2>4
<1> QED BY <1>1, <1>2, <1>3

LEMMA FlowScan ==
    ASSUME TasksTyped, NEW t \in Id,
           LookAndTrigger(t) \/ LookAndSkip(t) \/ LookAndFollow(t) \/ NextShard(t) \/ Answer(t)
    PROVE  /\ task[t].pc \in {"scan", "fire"}
           /\ task'[t].pc \in {"scan", "fire", "done"}
           /\ task[t].pc = "fire" => task'[t].pc = "done"
           /\ Turns(t, task'[t].pc)
<1>1. task \in Tasks
  BY DEF TasksTyped
<1>2. CASE LookAndTrigger(t)
  BY ONLY <1>1, <1>2, t \in Id, TaskIs DEF LookAndTrigger, Turns, Keeps, FieldNames
<1>3. CASE LookAndSkip(t) \/ LookAndFollow(t)
  <2>1. PICK S : task' = [task EXCEPT ![t].seen = S] /\ task[t].pc = "scan"
    BY <1>3 DEF LookAndSkip, LookAndFollow
  <2> QED BY ONLY <1>1, <2>1, t \in Id, TaskIs DEF Turns, Keeps, FieldNames
<1>4. CASE NextShard(t)
  BY ONLY <1>1, <1>4, t \in Id, TaskIs DEF NextShard, Turns, Keeps, FieldNames
<1>5. CASE Answer(t)
  BY ONLY <1>1, <1>5, t \in Id, TaskIs DEF Answer, Goto, Turns, Keeps, FieldNames
<1> QED BY <1>2, <1>3, <1>4, <1>5

LEMMA FlowFire ==
    ASSUME TasksTyped, NEW t \in Id, Fire(t)
    PROVE  /\ task[t].pc = "fire"
           /\ task'[t].sure = task[t].sure
           /\ task'[t].todo = task[t].todo
           /\ task'[t].met = task[t].met
           /\ \/ task'[t].pc = "fire" /\ task'[t].of = task[t].of
              \/ task'[t].pc = "submit" /\ task'[t].of \in DOMAIN conds
<1>1. task \in Tasks
  BY DEF TasksTyped
<1>2. PICK id : id = Head(task[t].fire)
  OBVIOUS
<1>3. /\ task[t].pc = "fire"
      /\ task' = [task EXCEPT ![t].fire = Tail(@),
                              ![t].of = IF Claimed(id) THEN id ELSE @,
                              ![t].pc = IF Claimed(id) THEN "submit" ELSE @]
  BY <1>2 DEF Fire
<1>4. Claimed(id) => id \in DOMAIN conds
  BY DEF Claimed
<1> QED BY ONLY <1>1, <1>3, <1>4, t \in Id, TaskIs DEF FieldNames

LEMMA FlowRestart ==
    ASSUME TasksTyped, Restart, NEW t \in Id
    PROVE  IF task[t].pc \in Ended THEN task'[t] = task[t] ELSE Turns(t, "lost")
<1>1. task \in Tasks
  BY DEF TasksTyped
<1> QED BY ONLY <1>1, Restart, t \in Id, TaskIs DEF Restart, Turns, Keeps, FieldNames

(* Nothing makes up for a failure or a restart. *)
LEMMA FailuresStay ==
    ASSUME [Next]_vars, failures \in Nat, restarts \in Nat
    PROVE  /\ failures' \in Nat /\ restarts' \in Nat
           /\ failures' = 0 => failures = 0
           /\ restarts' = 0 => restarts = 0 /\ ~Restart
<1>1. failures' = failures \/ failures' = failures + 1
  BY DEF Next, vars, HandlerStep, CreateStep, OtherStep, CancelStep, InsertOrder, Peek, Register, SubmitOrder,
     SendTrade, StoreTrade, PersistFails, Persisted, UpdateRow, UpdateRowFails, CancelLinkInBook,
     SelectLinkFails, CancelLinkRow, CancelLinkInMap, LookAndTrigger, LookAndSkip, LookAndFollow,
     NextShard, Fire, Answer, SelectOrder, CancelInBook, CancelInMap, CancelRow, CancelRowFails,
     Settle, Restart
<1>2. (restarts' = restarts /\ ~Restart) \/ restarts' = restarts + 1
  BY DEF Next, vars, HandlerStep, CreateStep, OtherStep, CancelStep, InsertOrder, Peek, Register, SubmitOrder,
     SendTrade, StoreTrade, PersistFails, Persisted, UpdateRow, UpdateRowFails, CancelLinkInBook,
     SelectLinkFails, CancelLinkRow, CancelLinkInMap, LookAndTrigger, LookAndSkip, LookAndFollow,
     NextShard, Fire, Answer, SelectOrder, CancelInBook, CancelInMap, CancelRow, CancelRowFails,
     Settle, Restart
<1> QED BY <1>1, <1>2

-----------------------------------------------------------------------------
(* Trades reach the topic. *)

(* A handler that goes on to the trades table has sent the trade. *)
SentOK == \A t \in Id : task[t].pc = "store" => Head(task[t].todo) \in topic

Pending(t, trade) == task[t].pc \in {"persist", "store"} /\ trade \in Range(task[t].todo)

LEMMA TopicGrows == ASSUME [Next]_vars PROVE topic \subseteq topic'
<1>1. CASE topic' = topic
  BY <1>1
<1>2. ASSUME NEW t \in Id, SendTrade(t) PROVE topic \subseteq topic'
  <2>1. PICK sent : topic' = topic \cup {sent}
    BY <1>2 DEF SendTrade
  <2> QED BY ONLY <2>1
<1> QED BY <1>1, <1>2, WritesTopic

(* The tasks that do not deal with trades. *)
Aside(t) ==
    \/ InsertOrder(t) \/ Peek(t) \/ Register(t) \/ UpdateRow(t) \/ UpdateRowFails(t)
    \/ CancelLinkInBook(t) \/ SelectLinkFails(t) \/ CancelLinkRow(t) \/ CancelLinkInMap(t)
    \/ LookAndTrigger(t) \/ LookAndSkip(t) \/ LookAndFollow(t) \/ NextShard(t)
    \/ Fire(t) \/ Answer(t)

LEMMA AsideFlow ==
    ASSUME TasksTyped, NEW t \in Id, Aside(t)
    PROVE  /\ task[t].pc \notin {"persist", "store"}
           /\ task'[t].pc \notin {"persist", "store"}
<1> USE DEF Turns
<1>1. CASE InsertOrder(t)
  BY <1>1, FlowInsert
<1>2. CASE Peek(t) \/ Register(t)
  BY <1>2, FlowPeek
<1>3. CASE UpdateRow(t) \/ UpdateRowFails(t)
  BY <1>3, FlowRow
<1>4. CASE CancelLinkInBook(t) \/ SelectLinkFails(t) \/ CancelLinkRow(t) \/ CancelLinkInMap(t)
  BY <1>4, FlowLink
<1>5. CASE LookAndTrigger(t) \/ LookAndSkip(t) \/ LookAndFollow(t) \/ NextShard(t) \/ Answer(t)
  BY <1>5, FlowScan
<1>6. CASE Fire(t)
  BY <1>6, FlowFire
<1> QED BY <1>1, <1>2, <1>3, <1>4, <1>5, <1>6 DEF Aside

LEMMA StepSent == ASSUME Typed, SentOK, [Next]_vars PROVE SentOK'
<1>1. TasksTyped
  BY DEF Typed
<1>2. topic \subseteq topic'
  BY TopicGrows
<1>3. CASE task' = task
  BY <1>2, <1>3 DEF SentOK
<1>4. ASSUME NEW t \in Id, InsertOrder(t) \/ CreateStep(t) PROVE SentOK'
  <2>1. \A u \in Id \ {t} : task'[u] = task[u]
    BY <1>1, <1>4, MovesAlone
  <2>2. task'[t].pc = "store" => Head(task'[t].todo) \in topic'
    <3>1. CASE SendTrade(t)
      <4>1. topic' = topic \cup {Head(task[t].todo)}
        BY <3>1 DEF SendTrade
      <4>2. task'[t].todo = task[t].todo
        BY <1>1, <3>1, FlowPersist DEF Turns
      <4> QED BY <4>1, <4>2
    <3>2. CASE SubmitOrder(t)
      <4>1. task'[t].pc = "persist"
        BY <1>1, <3>2, FlowSubmit
      <4> QED BY <4>1
    <3>3. CASE StoreTrade(t) \/ PersistFails(t) \/ Persisted(t)
      <4>1. task'[t].pc # "store"
        BY <1>1, <3>3, FlowPersist DEF Turns
      <4> QED BY <4>1
    <3>4. CASE Aside(t)
      BY <1>1, <3>4, AsideFlow
    <3> QED BY <1>4, <3>1, <3>2, <3>3, <3>4 DEF CreateStep, OtherStep, Aside
  <2> QED BY <1>2, <2>1, <2>2 DEF SentOK
<1>5. CASE Restart
  <2>1. \A t \in Id : task'[t] = task[t] \/ task'[t].pc = "lost"
    BY <1>1, <1>5, FlowRestart DEF Turns
  <2> QED BY <1>2, <2>1 DEF SentOK
<1> QED BY <1>3, <1>4, <1>5, WritesTask

(* Every trade that was struck is sent or listed. *)
Reaches == \A trade \in struck : trade \in topic \/ \E t \in Id : Pending(t, trade)

LEMMA SubmitReaches == ASSUME Typed, Reaches, NEW t \in Id, SubmitOrder(t) PROVE Reaches'
<1>1. TasksTyped /\ book \in Seq(Id)
  BY DEF Typed, EngineTyped
<1>2. PICK id, makers : id = task[t].of /\ makers = Makers(id)
  OBVIOUS
<1>3. /\ task[t].pc = "submit" /\ Submit(id)
      /\ task'[t].pc = "persist"
      /\ task'[t].todo = [n \in DOMAIN makers |-> <<id, makers[n]>>]
  BY <1>1, <1>2, FlowSubmit
<1>4. id \in Id
  BY <1>1, <1>2, <1>3 DEF TasksTyped, Ready
<1>5. struck' = struck \cup {<<id, book[k]>> : k \in Met(id)}
  BY <1>3 DEF Submit
<1>6. topic' = topic
  BY DEF SubmitOrder, database
<1>7. \A k \in Met(id) : \E n \in DOMAIN makers : makers[n] = book[k]
  BY <1>1, <1>2, <1>4, MakersMet
<1>8. ASSUME NEW k \in Met(id), NEW trade, trade = <<id, book[k]>> PROVE Pending(t, trade)'
  <2>1. PICK n \in DOMAIN makers : makers[n] = book[k]
    BY <1>7
  <2>2. n \in DOMAIN task'[t].todo /\ task'[t].todo[n] = trade
    BY ONLY <1>3, <1>8, <2>1
  <2> QED BY ONLY <1>3, <2>2 DEF Pending, Range
<1>9. ASSUME NEW trade, NEW u \in Id, Pending(u, trade) PROVE Pending(u, trade)'
  <2>1. u # t
    BY <1>3, <1>9 DEF Pending
  <2>2. task'[u] = task[u]
    BY <1>1, <2>1, MovesAlone DEF CreateStep, OtherStep
  <2> QED BY <1>9, <2>2 DEF Pending
<1>10. SUFFICES ASSUME NEW trade \in struck' PROVE trade \in topic' \/ \E u \in Id : Pending(u, trade)'
  BY DEF Reaches
<1>11. CASE trade \in struck
  BY <1>6, <1>9, <1>11 DEF Reaches
<1>12. CASE trade \notin struck
  <2>1. PICK k \in Met(id) : trade = <<id, book[k]>>
    BY <1>5, <1>12
  <2> QED BY <1>8, <2>1
<1> QED BY <1>11, <1>12

LEMMA StepReaches ==
    ASSUME Typed, SentOK, Reaches, [Next]_vars, failures = 0, failures' = 0, ~Restart
    PROVE  Reaches'
<1>1. TasksTyped
  BY DEF Typed
<1>2. topic \subseteq topic'
  BY TopicGrows
<1>3. ASSUME NEW t \in Id, SubmitOrder(t) PROVE Reaches'
  BY <1>3, SubmitReaches
<1>4. ASSUME struck' = struck,
             \A t \in Id : \A trade : Pending(t, trade) => trade \in topic' \/ Pending(t, trade)'
      PROVE  Reaches'
  BY <1>2, <1>4 DEF Reaches
<1>5. CASE task' = task /\ struck' = struck
  BY <1>4, <1>5 DEF Pending
<1>6. ASSUME NEW t \in Id, InsertOrder(t) \/ CreateStep(t), ~SubmitOrder(t), struck' = struck
      PROVE  Reaches'
  <2>1. \A u \in Id \ {t} : task'[u] = task[u]
    BY <1>1, <1>6, MovesAlone
  <2>2. ASSUME NEW trade, Pending(t, trade) PROVE trade \in topic' \/ Pending(t, trade)'
    <3>1. CASE SendTrade(t)
      <4>1. task'[t].todo = task[t].todo /\ task'[t].pc = "store"
        BY <1>1, <3>1, FlowPersist DEF Turns
      <4> QED BY <2>2, <4>1 DEF Pending
    <3>2. CASE StoreTrade(t)
      <4>1. PICK s : s = task[t].todo
        OBVIOUS
      <4>2. /\ s # << >> /\ s \in Seq(Trade)
            /\ Head(s) \in topic
            /\ task'[t].todo = Tail(s) /\ task'[t].pc = "persist"
        <5>1. task[t].pc = "store" /\ task'[t].todo = Tail(s) /\ task'[t].pc = "persist"
          BY <1>1, <3>2, <4>1, FlowPersist
        <5> QED BY <4>1, <5>1, TaskIs DEF TasksTyped, Ready, Typed, SentOK
      <4>3. PICK n \in DOMAIN s : s[n] = trade
        BY <2>2, <4>1 DEF Pending, Range
      <4>4. n = 1 \/ (n - 1 \in DOMAIN Tail(s) /\ Tail(s)[n - 1] = trade)
        BY ONLY <4>2, <4>3
      <4>5. n = 1 => trade \in topic
        BY ONLY <4>2, <4>3
      <4>6. (n - 1 \in DOMAIN Tail(s) /\ Tail(s)[n - 1] = trade) => Pending(t, trade)'
        BY ONLY <4>2 DEF Pending, Range
      <4> QED BY <1>2, <4>4, <4>5, <4>6
    <3>3. CASE PersistFails(t)
      BY <3>3 DEF PersistFails
    <3>4. CASE Persisted(t)
      <4>1. task[t].todo = << >>
        BY <1>1, <3>4, FlowPersist
      <4> QED BY <2>2, <4>1 DEF Pending, Range
    <3>5. CASE Aside(t)
      BY <1>1, <2>2, <3>5, AsideFlow DEF Pending
    <3> QED BY <1>6, <3>1, <3>2, <3>3, <3>4, <3>5 DEF CreateStep, OtherStep, Aside
  <2>3. \A u \in Id : \A trade : Pending(u, trade) => trade \in topic' \/ Pending(u, trade)'
    BY <2>1, <2>2 DEF Pending
  <2> QED BY <1>4, <1>6, <2>3
<1> QED BY <1>3, <1>5, <1>6, WritesTask, WritesEngine

Counted == failures \in Nat /\ restarts \in Nat

Sent == /\ SentOK
        /\ stored \subseteq topic
        /\ failures = 0 /\ restarts = 0 => Reaches

LEMMA StepSentAll == ASSUME Typed, Counted, Sent, [Next]_vars PROVE Sent' /\ Counted'
<1>1. /\ Counted'
      /\ failures' = 0 => failures = 0
      /\ restarts' = 0 => restarts = 0 /\ ~Restart
  BY FailuresStay DEF Counted
<1>2. SentOK'
  BY StepSent DEF Sent
<1>3. stored' \subseteq topic'
  <2>1. stored \subseteq topic'
    BY TopicGrows DEF Sent
  <2>2. ASSUME NEW t \in Id, StoreTrade(t) PROVE stored' \subseteq topic'
    <3>1. PICK sent : sent = Head(task[t].todo)
      OBVIOUS
    <3>2. sent \in topic /\ stored' = stored \cup {sent}
      BY <2>2, <3>1 DEF StoreTrade, Sent, SentOK
    <3> QED BY <2>1, <3>2, TopicGrows
  <2> QED BY <2>1, <2>2, WritesStored
<1>4. ASSUME failures' = 0, restarts' = 0 PROVE Reaches'
  BY <1>1, <1>4, StepReaches DEF Sent
<1> QED BY <1>1, <1>2, <1>3, <1>4 DEF Sent

LEMMA SentBegins == Init => Sent /\ Counted
<1> SUFFICES ASSUME Init PROVE Sent /\ Counted
  OBVIOUS
<1>1. \A t \in Id : task[t].pc = "new"
  BY DEF Init, Fresh
<1> QED BY <1>1 DEF Init, Sent, SentOK, Reaches, Counted

LEMMA SentAlways == Spec => [](Sent /\ Counted)
<1>1. ASSUME Typed, Sent /\ Counted, [Next]_vars PROVE (Sent /\ Counted)'
  BY <1>1, StepSentAll
<1> QED BY <1>1, SentBegins, Types, PTL DEF Spec

(* As long as no call failed and no process died, a trade of the engine is  *)
(* on the topic that settlement reads or on the list of a handler that has  *)
(* yet to send it; the trades table never shows a trade that was not sent   *)
(* (persist_trades, lib.rs:539-556).                                        *)
THEOREM TradesSent == Spec => []TradesReachTopic
<1>1. Sent => TradesReachTopic
  BY DEF Sent, Reaches, Pending, TradesReachTopic
<1> QED BY <1>1, SentAlways, PTL

-----------------------------------------------------------------------------
(* What is cancelled is gone. *)

(* The order was in the book, and nobody has yet to write its row. *)
Finished(id) == entered[id] = 1 /\ ~Busy(id)

LEMMA FinishedIs ==
    ASSUME NEW id
    PROVE  Finished(id) <=>
              /\ entered[id] = 1
              /\ \A t \in Id : task[t].of = id =>
                     task[t].pc \notin {"submit", "persist", "store", "row"}
BY DEF Finished, Busy

(* Who submits an order, or writes its row, did not begin with it just now, *)
(* unless he inserted it or fired it.                                       *)
LEMMA BusyBefore ==
    ASSUME TasksTyped, NEW t \in Id, CreateStep(t), ~Fire(t),
           task'[t].pc \in {"submit", "persist", "store", "row"}
    PROVE  /\ task'[t].of = task[t].of
           /\ task[t].pc \in {"submit", "persist", "store", "row"}
<1> USE DEF Turns, Keeps
<1>1. CASE Peek(t) \/ Register(t)
  BY <1>1, FlowPeek
<1>2. CASE SubmitOrder(t)
  BY <1>2, FlowSubmit
<1>3. CASE SendTrade(t) \/ StoreTrade(t) \/ PersistFails(t) \/ Persisted(t)
  BY <1>3, FlowPersist
<1>4. CASE UpdateRow(t) \/ UpdateRowFails(t)
  BY <1>4, FlowRow
<1>5. CASE CancelLinkInBook(t) \/ SelectLinkFails(t) \/ CancelLinkRow(t) \/ CancelLinkInMap(t)
  BY <1>5, FlowLink
<1>6. CASE LookAndTrigger(t) \/ LookAndSkip(t) \/ LookAndFollow(t) \/ NextShard(t) \/ Answer(t)
  BY <1>6, FlowScan
<1> QED BY <1>1, <1>2, <1>3, <1>4, <1>5, <1>6 DEF CreateStep, OtherStep

LEMMA FinishedStays ==
    ASSUME Typed, OneOK, OneOK', [Next]_vars, NEW id \in Id, Finished(id)
    PROVE  Finished(id)'
<1>1. TasksTyped
  BY DEF Typed
<1>2. entered[id] = 1 /\ \A t \in Id : task[t].of = id =>
          task[t].pc \notin {"submit", "persist", "store", "row"}
  BY FinishedIs
<1>3. entered'[id] = 1
  <2>1. entered \in [Id -> 0 .. 1] /\ entered' \in [Id -> 0 .. 1]
    BY DEF OneOK, CountsOK
  <2>2. ASSUME NEW t \in Id, SubmitOrder(t) PROVE entered'[id] = 1
    <3>1. PICK i : entered' = [entered EXCEPT ![i] = @ + 1]
      BY <2>2 DEF SubmitOrder, Submit
    <3> QED BY ONLY <1>2, <2>1, <3>1, id \in Id
  <2> QED BY <1>2, <2>2, WritesEngine
<1>4. /\ task[id].pc # "new"
      /\ id \notin DOMAIN conds
  BY <1>2 DEF OneOK, EarlyOK, Early, InMapOK
<1>5. ASSUME NEW t \in Id, task'[t].of = id,
             task'[t].pc \in {"submit", "persist", "store", "row"}
      PROVE  FALSE
  <2>1. CASE task'[t] = task[t]
    BY <1>2, <1>5, <2>1
  <2>2. CASE InsertOrder(t)
    BY <1>1, <1>4, <1>5, <2>2, FlowInsert
  <2>3. CASE CreateStep(t) /\ ~Fire(t)
    BY <1>1, <1>2, <1>5, <2>3, BusyBefore
  <2>4. CASE Fire(t)
    BY <1>1, <1>4, <1>5, <2>4, FlowFire
  <2>5. CASE Restart
    <3>1. task'[t] = task[t] \/ task'[t].pc = "lost"
      BY <1>1, <2>5, FlowRestart DEF Turns
    <3> QED BY <1>5, <2>1, <3>1
  <2>6. ASSUME NEW u \in Id, InsertOrder(u) \/ CreateStep(u), u # t PROVE task'[t] = task[t]
    BY <1>1, <2>6, MovesAlone
  <2> QED BY <2>1, <2>2, <2>3, <2>4, <2>5, <2>6, WritesTask
<1> QED BY <1>3, <1>5 DEF Finished, Busy

(* Such an order comes back neither to the book nor to the list of open     *)
(* orders.                                                                  *)
LEMMA FinishedRows ==
    ASSUME Typed, OneOK, [Next]_vars, NEW id \in Id, Finished(id)
    PROVE  rows'[id] \in {rows[id], "cancelled", "filled"}
<1>1. TasksTyped /\ rows \in [Id -> RowStatus]
  BY DEF Typed, RowsTyped
<1>2. entered[id] = 1 /\ \A t \in Id : task[t].of = id =>
          task[t].pc \notin {"submit", "persist", "store", "row"}
  BY FinishedIs
<1>3. task[id].pc # "new"
  BY <1>2 DEF OneOK, EarlyOK, Early
<1>4. ASSUME NEW t \in Id, InsertOrder(t) PROVE rows'[id] = rows[id]
  <2>1. t # id
    BY <1>1, <1>3, <1>4, FlowInsert
  <2>2. PICK s : rows' = [rows EXCEPT ![t] = s]
    BY <1>4 DEF InsertOrder
  <2> QED BY ONLY <1>1, <2>1, <2>2, id \in Id
<1>5. ASSUME NEW t \in Id, UpdateRow(t) PROVE rows'[id] = rows[id]
  <2>1. task[t].of # id
    BY <1>2, <1>5 DEF UpdateRow
  <2>2. rows' = [rows EXCEPT ![task[t].of] = "open"]
    BY <1>5 DEF UpdateRow
  <2> QED BY ONLY <1>1, <2>1, <2>2, id \in Id
<1>6. ASSUME NEW t \in Id, CancelLinkRow(t) PROVE rows'[id] \in {rows[id], "cancelled"}
  BY ONLY <1>1, <1>6, id \in Id DEF CancelLinkRow
<1>7. ASSUME NEW i \in Cancels, CancelRow(i) PROVE rows'[id] \in {rows[id], "cancelled"}
  BY ONLY <1>1, <1>7, id \in Id DEF CancelRow
<1>8. ASSUME Settle PROVE rows'[id] \in {rows[id], "filled"}
  <2>1. rows' = rows \/ \E a, b : rows' = [rows EXCEPT ![a] = "filled", ![b] = "filled"]
    BY <1>8 DEF Settle
  <2> QED BY ONLY <1>1, <2>1, id \in Id
<1> QED BY <1>4, <1>5, <1>6, <1>7, <1>8, WritesRows

LEMMA KeptRests ==
    ASSUME book \in Seq(Id), NEW S \in SUBSET DOMAIN book, NEW q, q = Kept(book, S)
    PROVE  /\ q \in Seq(Id)
           /\ \A n \in DOMAIN q : \E k \in DOMAIN book : q[n] = book[k]
<1>1. \A n \in DOMAIN q : \E k \in S : q[n] = book[k]
  BY KeptSome
<1>2. q \in Seq(Id)
  BY KeptSome
<1> QED BY <1>1, <1>2

(* Only the submit of an order brings it into the book. *)
LEMMA RestsBefore ==
    ASSUME Typed, [Next]_vars, NEW id \in Id,
           \A t \in Id : task[t].pc = "submit" => task[t].of # id, Resting(id)'
    PROVE  Resting(id)
<1>1. book \in Seq(Id) /\ TasksTyped
  BY DEF Typed, EngineTyped
<1>2. PICK n \in DOMAIN book' : book'[n] = id
  BY DEF Resting
<1>3. CASE book' = book
  BY <1>2, <1>3 DEF Resting
<1>4. ASSUME NEW t \in Id, SubmitOrder(t) PROVE Resting(id)
  <2>1. PICK i : i = task[t].of
    OBVIOUS
  <2>2. i # id /\ Submit(i)
    BY <1>4, <2>1 DEF SubmitOrder
  <2>3. PICK S \in SUBSET DOMAIN book :
            book' = Append(Kept(book, S), i) \/ book' = Kept(book, S)
    BY <2>2 DEF Submit
  <2>4. PICK q : q = Kept(book, S)
    OBVIOUS
  <2>5. q \in Seq(Id) /\ \A m \in DOMAIN q : \E k \in DOMAIN book : q[m] = book[k]
    BY <1>1, <2>4, KeptRests
  <2>6. book' = Append(q, i) \/ book' = q
    BY <2>3, <2>4
  <2>7. n \in DOMAIN q /\ q[n] = id
    BY ONLY <1>2, <2>2, <2>5, <2>6
  <2> QED BY <2>5, <2>7 DEF Resting
<1>5. ASSUME NEW i, book' = Without(book, i) PROVE Resting(id)
  <2>1. \A m \in DOMAIN book' : \E k \in DOMAIN book : book'[m] = book[k]
    BY <1>1, <1>5, WithoutOne
  <2> QED BY <1>2, <2>1 DEF Resting
<1>6. CASE Restart
  <2>1. book' = << >>
    BY <1>6 DEF Restart
  <2>2. DOMAIN book' = {}
    BY ONLY <2>1
  <2> QED BY <1>2, <2>2
<1> QED BY <1>3, <1>4, <1>5, <1>6, WritesBook DEF CancelLinkInBook, CancelInBook, TakenOut

(* A calm cancellation deals with an order that is finished: past the book  *)
(* it has taken it out, and at the end its row is not open either.          *)
CalmOK ==
    \A id \in Cancels : cancel[id].calm =>
        /\ Finished(id)
        /\ cancel[id].pc \in {"map", "row", "done"} => ~Resting(id)
        /\ cancel[id].pc = "done" => rows[id] \in {"cancelled", "filled"}

LEMMA TakenOutGone == ASSUME Typed, NEW id \in Id, CancelInBook(id) PROVE ~Resting(id)'
<1>1. book \in Seq(Id) /\ book' = Without(book, id)
  BY DEF CancelInBook, TakenOut, Typed, EngineTyped
<1>2. \A n \in DOMAIN book' : book'[n] # id
  BY <1>1, WithoutOne
<1> QED BY <1>2 DEF Resting

(* Where a cancellation stands after a step. *)
LEMMA FlowCancel ==
    ASSUME CancelTyped, NEW id \in Cancels, [Next]_vars
    PROVE  \/ cancel'[id] = cancel[id]
           \/ SelectOrder(id) /\ cancel'[id].pc = "book" /\ cancel'[id].calm = (entered[id] = 1 /\ ~Busy(id))
           \/ /\ cancel'[id].calm = cancel[id].calm
              /\ \/ CancelInBook(id) /\ cancel'[id].pc = "map"
                 \/ cancel[id].pc = "map" /\ cancel'[id].pc = "row"
                 \/ CancelRow(id) /\ cancel[id].pc = "row" /\ cancel'[id].pc = "done"
                 \/ cancel'[id].pc \in {"failed", "lost"}
<1> USE DEF CancelTyped
<1>1. CASE cancel' = cancel
  BY <1>1
<1>2. CASE SelectOrder(id)
  BY ONLY <1>2, CancelTyped, id \in Cancels DEF CancelTyped, SelectOrder
<1>3. CASE CancelInBook(id)
  BY ONLY <1>3, CancelTyped, id \in Cancels DEF CancelTyped, CancelInBook
<1>4. CASE CancelInMap(id)
  BY ONLY <1>4, CancelTyped, id \in Cancels DEF CancelTyped, CancelInMap
<1>5. CASE CancelRow(id)
  BY ONLY <1>5, CancelTyped, id \in Cancels DEF CancelTyped, CancelRow
<1>6. CASE CancelRowFails(id)
  BY ONLY <1>6, CancelTyped, id \in Cancels DEF CancelTyped, CancelRowFails
<1>7. ASSUME NEW i \in Cancels, i # id, SelectOrder(i) \/ CancelStep(i)
      PROVE  cancel'[id] = cancel[id]
  BY ONLY <1>7, CancelTyped, id \in Cancels DEF CancelTyped, SelectOrder, CancelStep, CancelInBook,
     CancelInMap, CancelRow, CancelRowFails
<1>8. CASE Restart
  BY ONLY <1>8, CancelTyped, id \in Cancels DEF CancelTyped, Restart
<1> QED BY <1>1, <1>2, <1>3, <1>4, <1>5, <1>6, <1>7, <1>8, WritesCancel DEF CancelStep

LEMMA StepCalm ==
    ASSUME Typed, OneOK, OneOK', CalmOK, [Next]_vars
    PROVE  CalmOK'
<1> SUFFICES ASSUME NEW id \in Cancels, cancel'[id].calm
             PROVE  /\ Finished(id)'
                    /\ cancel'[id].pc \in {"map", "row", "done"} => ~Resting(id)'
                    /\ cancel'[id].pc = "done" => rows'[id] \in {"cancelled", "filled"}
  BY DEF CalmOK
<1>1. CancelTyped /\ id \in Id /\ TasksTyped /\ rows \in [Id -> RowStatus]
  BY RequestsAssumption DEF Typed, RowsTyped
<1>2. Finished(id)
  <2>1. CASE cancel[id].calm
    BY <2>1 DEF CalmOK
  <2>2. CASE ~cancel[id].calm
    <3>1. cancel'[id].calm = (entered[id] = 1 /\ ~Busy(id))
      BY <1>1, <2>2, FlowCancel
    <3> QED BY <3>1 DEF Finished
  <2> QED BY <2>1, <2>2
<1>3. Finished(id)'
  BY <1>1, <1>2, FinishedStays
<1>4. rows'[id] \in {rows[id], "cancelled", "filled"}
  BY <1>1, <1>2, FinishedRows
<1>5. Resting(id)' => Resting(id)
  <2>1. \A t \in Id : task[t].pc = "submit" => task[t].of # id
    BY <1>2, FinishedIs
  <2> QED BY <1>1, <2>1, RestsBefore
<1>6. ASSUME cancel'[id].pc \in {"map", "row", "done"} PROVE ~Resting(id)'
  <2>1. CASE CancelInBook(id)
    BY <1>1, <2>1, TakenOutGone
  <2>2. CASE ~CancelInBook(id)
    <3>1. cancel[id].pc \in {"map", "row", "done"} /\ cancel[id].calm
      BY <1>1, <1>6, <2>2, FlowCancel
    <3> QED BY <1>5, <3>1 DEF CalmOK
  <2> QED BY <2>1, <2>2
<1>7. ASSUME cancel'[id].pc = "done" PROVE rows'[id] \in {"cancelled", "filled"}
  <2>1. CASE CancelRow(id)
    <3>1. rows' = [rows EXCEPT ![id] = "cancelled"]
      BY <2>1 DEF CancelRow
    <3> QED BY ONLY <1>1, <3>1
  <2>2. CASE ~CancelRow(id)
    <3>1. cancel[id].pc = "done" /\ cancel[id].calm
      BY <1>1, <1>7, <2>2, FlowCancel
    <3> QED BY <1>4, <3>1 DEF CalmOK
  <2> QED BY <2>1, <2>2
<1> QED BY <1>3, <1>6, <1>7

(* Once cancel_order has answered for an order that was in the book, with   *)
(* its row written, the order rests nowhere, waits in no map, and its row   *)
(* does not say open: also if it was triggered, linked, traded or settled   *)
(* meanwhile (lib.rs:640-659).                                              *)
THEOREM Cancelled == Spec => []CancelledIsGone
<1>1. Init => CalmOK
  BY DEF Init, CalmOK
<1>2. ASSUME Typed, OneOK, OneOK', CalmOK, [Next]_vars PROVE CalmOK'
  BY <1>2, StepCalm
<1>3. Typed /\ OneOK /\ CalmOK => CancelledIsGone
  BY RequestsAssumption DEF CalmOK, CancelledIsGone, Finished, OneOK, InMapOK
<1> QED BY <1>1, <1>2, <1>3, Types, Invariance, PTL DEF Spec

-----------------------------------------------------------------------------
(* The taker takes the order that it is linked to off the book.             *)

(* A task has its own order in hand, or a stop order that it triggered.     *)
OfOK == \A t \in Id : task[t].of \in {0, t} \/ IsConditional(task[t].of)

(* An order that is no stop order was submitted by its own task, when this  *)
(* did not die before.                                                      *)
EnteredOK ==
    \A t \in Id : ~IsConditional(t) /\ task[t].pc \notin {"new", "lost"} /\ ~Holds(t, t)
                      => entered[t] = 1

(* Only an order that was submitted has traded as the taker. *)
StruckOK == \A trade \in struck : entered[trade[1]] = 1

RowsOK == \A t \in Id : task[t].pc # "new" => rows[t] # None

Base == OfOK /\ EnteredOK /\ StruckOK /\ RowsOK

LEMMA FlowKeeps ==
    ASSUME TasksTyped, NEW t \in Id, CreateStep(t)
    PROVE  /\ task[t].pc # "new"
           /\ task'[t].pc # "new"
           /\ task'[t].sure = task[t].sure
           /\ \/ task'[t].of = task[t].of
              \/ task'[t].of \in DOMAIN conds
<1> USE DEF Turns, Keeps
<1>1. CASE Peek(t) \/ Register(t)
  BY <1>1, FlowPeek
<1>2. CASE SubmitOrder(t)
  BY <1>2, FlowSubmit
<1>3. CASE SendTrade(t) \/ StoreTrade(t) \/ PersistFails(t) \/ Persisted(t)
  BY <1>3, FlowPersist
<1>4. CASE UpdateRow(t) \/ UpdateRowFails(t)
  BY <1>4, FlowRow
<1>5. CASE CancelLinkInBook(t) \/ SelectLinkFails(t) \/ CancelLinkRow(t) \/ CancelLinkInMap(t)
  BY <1>5, FlowLink
<1>6. CASE LookAndTrigger(t) \/ LookAndSkip(t) \/ LookAndFollow(t) \/ NextShard(t) \/ Answer(t)
  BY <1>6, FlowScan
<1>7. CASE Fire(t)
  BY <1>7, FlowFire
<1> QED BY <1>1, <1>2, <1>3, <1>4, <1>5, <1>6, <1>7 DEF CreateStep, OtherStep

(* What may have happened to a task in a step. *)
LEMMA TaskCases ==
    ASSUME TasksTyped, NEW t \in Id, [Next]_vars
    PROVE  \/ task'[t] = task[t]
           \/ InsertOrder(t)
           \/ CreateStep(t)
           \/ Restart /\ task[t].pc \notin Ended /\ Turns(t, "lost")
<1>1. CASE task' = task
  BY <1>1
<1>2. ASSUME NEW u \in Id, InsertOrder(u) \/ CreateStep(u), u # t PROVE task'[t] = task[t]
  BY <1>2, MovesAlone
<1>3. CASE Restart
  BY <1>3, FlowRestart
<1> QED BY <1>1, <1>2, <1>3, WritesTask

LEMMA StepOf == ASSUME Typed, OfOK, [Next]_vars PROVE OfOK'
<1>1. TasksTyped /\ \A i \in DOMAIN conds : IsConditional(i)
  BY DEF Typed, MapTyped
<1> SUFFICES ASSUME NEW t \in Id
             PROVE  task'[t].of \in {0, t} \/ IsConditional(task'[t].of)
  BY DEF OfOK, IsConditional
<1>2. CASE task'[t].of = task[t].of
  BY <1>2 DEF OfOK
<1>3. CASE InsertOrder(t)
  BY <1>1, <1>3, FlowInsert
<1>4. CASE CreateStep(t)
  BY <1>1, <1>2, <1>4, FlowKeeps
<1> QED BY <1>1, <1>2, <1>3, <1>4, TaskCases DEF Turns, Keeps

LEMMA RowStays ==
    ASSUME Typed, [Next]_vars, NEW i \in Id, rows[i] # None
    PROVE  rows'[i] # None
<1>1. rows \in [Id -> RowStatus]
  BY DEF Typed, RowsTyped
<1>2. ASSUME NEW t \in Id, InsertOrder(t) PROVE rows'[i] # None
  <2>1. PICK s : s = IF IsConditional(t) THEN "pending_trigger" ELSE "open"
    OBVIOUS
  <2>2. rows' = [rows EXCEPT ![t] = s] /\ s # None
    BY <1>2, <2>1 DEF InsertOrder, None
  <2> QED BY ONLY <1>1, <2>2, i \in Id, rows[i] # None
<1>3. ASSUME NEW t \in Id, UpdateRow(t) PROVE rows'[i] # None
  BY ONLY <1>1, <1>3, i \in Id, rows[i] # None DEF UpdateRow, None
<1>4. ASSUME NEW t \in Id, CancelLinkRow(t) PROVE rows'[i] # None
  BY ONLY <1>1, <1>4, i \in Id, rows[i] # None DEF CancelLinkRow, None
<1>5. ASSUME NEW id \in Cancels, CancelRow(id) PROVE rows'[i] # None
  BY ONLY <1>1, <1>5, i \in Id, rows[i] # None DEF CancelRow, None
<1>6. ASSUME Settle PROVE rows'[i] # None
  <2>1. rows' = rows \/ \E a, b : rows' = [rows EXCEPT ![a] = "filled", ![b] = "filled"]
    BY <1>6 DEF Settle
  <2> QED BY ONLY <1>1, <2>1, i \in Id, rows[i] # None DEF None
<1> QED BY <1>2, <1>3, <1>4, <1>5, <1>6, WritesRows

LEMMA StepRowsOK == ASSUME Typed, RowsOK, [Next]_vars PROVE RowsOK'
<1>1. TasksTyped /\ rows \in [Id -> RowStatus]
  BY DEF Typed, RowsTyped
<1> SUFFICES ASSUME NEW t \in Id, task'[t].pc # "new" PROVE rows'[t] # None
  BY DEF RowsOK, None
<1>2. CASE task[t].pc # "new"
  BY <1>2, RowStays DEF RowsOK
<1>3. CASE InsertOrder(t)
  <2>1. PICK s : s = IF IsConditional(t) THEN "pending_trigger" ELSE "open"
    OBVIOUS
  <2>2. rows' = [rows EXCEPT ![t] = s] /\ s # None
    BY <1>3, <2>1 DEF InsertOrder, None
  <2> QED BY ONLY <1>1, <2>2, t \in Id
<1>4. CASE CreateStep(t)
  BY <1>1, <1>2, <1>4, FlowKeeps
<1> QED BY <1>1, <1>2, <1>3, <1>4, TaskCases DEF Ended

(* An order that entered stays entered, and whose task has it in hand has   *)
(* not entered.                                                             *)
LEMMA EnteredStays ==
    ASSUME OneOK, OneOK', [Next]_vars, NEW i \in Id, entered[i] = 1
    PROVE  entered'[i] = 1
<1>1. entered \in [Id -> 0 .. 1] /\ entered' \in [Id -> 0 .. 1]
  BY DEF OneOK, CountsOK
<1>2. ASSUME NEW t \in Id, SubmitOrder(t) PROVE entered'[i] = 1
  <2>1. PICK j : entered' = [entered EXCEPT ![j] = @ + 1]
    BY <1>2 DEF SubmitOrder, Submit
  <2> QED BY ONLY <1>1, <2>1, i \in Id, entered[i] = 1
<1> QED BY <1>2, WritesEngine

LEMMA StepEntered ==
    ASSUME Typed, OneOK, OneOK', OfOK, EnteredOK, [Next]_vars
    PROVE  EnteredOK'
<1>1. TasksTyped /\ \A i \in DOMAIN conds : IsConditional(i)
  BY DEF Typed, MapTyped
<1> SUFFICES ASSUME NEW t \in Id, ~IsConditional(t), task'[t].pc \notin {"new", "lost"},
                    ~Holds(t, t)'
             PROVE  entered'[t] = 1
  BY DEF EnteredOK, IsConditional
<1>2. CASE task[t].pc \notin {"new", "lost"} /\ ~Holds(t, t)
  BY <1>2, EnteredStays DEF EnteredOK
<1>3. CASE InsertOrder(t)
  BY <1>1, <1>3, FlowInsert DEF Holds
<1>4. CASE CreateStep(t) /\ Holds(t, t)
  <2>1. SubmitOrder(t)
    <3>1. task[t].pc = "submit"
      BY <1>4 DEF Holds
    <3> QED BY <1>4, <3>1 DEF CreateStep, OtherStep, Peek, Register, SendTrade, StoreTrade, PersistFails,
            Persisted, UpdateRow, UpdateRowFails, CancelLinkInBook, SelectLinkFails, CancelLinkRow,
            CancelLinkInMap, LookAndTrigger, LookAndSkip, LookAndFollow, NextShard, Fire, Answer
  <2>2. entered' = [entered EXCEPT ![t] = @ + 1]
    BY <1>4, <2>1 DEF SubmitOrder, Submit, Holds
  <2>3. entered \in [Id -> 0 .. 1] /\ entered[t] = 0
    BY <1>4 DEF OneOK, CountsOK, HeldOK
  <2> QED BY ONLY <2>2, <2>3, t \in Id
<1>5. CASE task'[t] = task[t]
  BY <1>2, <1>5 DEF Holds
<1>6. ASSUME CreateStep(t) PROVE task[t].pc \notin {"new", "lost"}
  <2>1. task[t].pc # "new"
    BY <1>1, <1>6, FlowKeeps
  <2>2. task[t].pc # "lost"
    BY <1>6 DEF CreateStep, OtherStep, Peek, Register, SubmitOrder, SendTrade, StoreTrade, PersistFails,
       Persisted, UpdateRow, UpdateRowFails, CancelLinkInBook, SelectLinkFails, CancelLinkRow,
       CancelLinkInMap, LookAndTrigger, LookAndSkip, LookAndFollow, NextShard, Fire, Answer
  <2> QED BY <2>1, <2>2
<1> QED BY <1>1, <1>2, <1>3, <1>4, <1>5, <1>6, TaskCases DEF Turns

LEMMA StepStruck ==
    ASSUME Typed, OneOK, OneOK', StruckOK, [Next]_vars
    PROVE  StruckOK'
<1> SUFFICES ASSUME NEW trade \in struck' PROVE entered'[trade[1]] = 1
  BY DEF StruckOK
<1>1. CASE trade \in struck
  <2>1. trade[1] \in Id
    BY <1>1 DEF Typed, EngineTyped, Trade
  <2>2. entered[trade[1]] = 1
    BY <1>1 DEF StruckOK
  <2> QED BY <2>1, <2>2, EnteredStays
<1>2. ASSUME NEW t \in Id, SubmitOrder(t), trade \notin struck PROVE entered'[trade[1]] = 1
  <2>1. PICK id : id = task[t].of
    OBVIOUS
  <2>2. task[t].pc = "submit" /\ Submit(id)
    BY <1>2, <2>1 DEF SubmitOrder
  <2>3. id \in Id /\ entered[id] = 0 /\ entered \in [Id -> 0 .. 1]
    BY <2>1, <2>2 DEF OneOK, CountsOK, HeldOK, Holds, Typed, TasksTyped, Ready
  <2>4. entered'[id] = 1
    BY <2>2, <2>3 DEF Submit
  <2>5. trade[1] = id
    BY <1>2, <2>2 DEF Submit
  <2> QED BY <2>4, <2>5
<1> QED BY <1>1, <1>2, WritesEngine

(* The link of a task that is sure of it was answered before: the linked    *)
(* order, if it is no stop order, is finished.                              *)
SureOK ==
    \A t \in Id : task[t].sure =>
        /\ Requests[t].link \in Id
        /\ ~IsConditional(Requests[t].link) =>
              Finished(Requests[t].link) /\ rows[Requests[t].link] # None

LEMMA AnsweredIsFinished ==
    ASSUME Typed, Base, NEW i \in Id, ~IsConditional(i), task[i].pc = "done"
    PROVE  Finished(i) /\ rows[i] # None
<1>1. entered[i] = 1
  BY DEF Base, EnteredOK, Holds
<1>2. rows[i] # None
  BY DEF Base, RowsOK
<1>3. ASSUME NEW t \in Id, task[t].of = i, task[t].pc \in {"submit", "persist", "store", "row"}
      PROVE  FALSE
  <2>1. i # 0
    BY RequestsAssumption DEF Id
  <2>2. t = i
    BY <1>3, <2>1 DEF Base, OfOK
  <2> QED BY <1>3, <2>2
<1> QED BY <1>1, <1>2, <1>3 DEF Finished, Busy

LEMMA StepSure ==
    ASSUME Typed, OneOK, OneOK', Base, SureOK, [Next]_vars
    PROVE  SureOK'
<1> SUFFICES ASSUME NEW t \in Id, task'[t].sure, NEW l, l = Requests[t].link
             PROVE  l \in Id /\ (~IsConditional(l) => Finished(l)' /\ rows'[l] # None)
  BY DEF SureOK, IsConditional, None
<1>1. TasksTyped
  BY DEF Typed
<1>2. l \in Id /\ (~IsConditional(l) => Finished(l) /\ rows[l] # None)
  <2>1. CASE task[t].sure
    BY <2>1 DEF SureOK
  <2>2. CASE InsertOrder(t)
    <3>1. l # 0 /\ task[l].pc = "done"
      BY <1>1, <2>2, FlowInsert
    <3>2. l \in Id
      BY <3>1, RequestOK
    <3> QED BY <3>1, <3>2, AnsweredIsFinished
  <2>3. task'[t].sure = task[t].sure \/ InsertOrder(t)
    BY <1>1, TaskCases, FlowKeeps DEF Turns, Keeps
  <2> QED BY <2>1, <2>2, <2>3
<1>3. ASSUME ~IsConditional(l) PROVE Finished(l)' /\ rows'[l] # None
  BY <1>2, <1>3, FinishedStays, RowStays
<1> QED BY <1>2, <1>3

Linked(t) == task[t].sure /\ ~IsConditional(t) /\ ~IsConditional(Requests[t].link)

Traded(t) == \E trade \in struck : trade[1] = t

Gone(id) == ~Resting(id) /\ rows[id] \in {"cancelled", "filled"}

(* On the way from the book to the link, and past it.                       *)
Coming(t) == task[t].of = t /\ task[t].pc \in {"persist", "store", "row", "oco"}

Midway(t) == task[t].of = t /\ task[t].pc = "ocorow"

Past(t) ==
    \/ task[t].pc \in {"ocomap", "scan", "fire", "done"}
    \/ /\ task[t].of # t
       /\ task[t].pc \in {"submit", "persist", "store", "row", "oco", "ocorow"}

LinkOK ==
    \A t \in Id : Linked(t) /\ Traded(t) =>
        /\ Coming(t) => task[t].met
        /\ Midway(t) => ~Resting(Requests[t].link)
        /\ Past(t) => Gone(Requests[t].link)

(* The linked order stays away from the book, and its row stays closed.     *)
LEMMA GoneStays ==
    ASSUME Typed, OneOK, SureOK, [Next]_vars, NEW t \in Id, Linked(t), NEW l, l = Requests[t].link
    PROVE  /\ l \in Id
           /\ Finished(l)
           /\ rows[l] # None
           /\ ~Resting(l) => ~Resting(l)'
           /\ Gone(l) => Gone(l)'
<1>1. l \in Id /\ Finished(l) /\ rows[l] # None
  BY DEF SureOK, Linked
<1>2. \A u \in Id : task[u].pc = "submit" => task[u].of # l
  BY <1>1, FinishedIs
<1>3. ~Resting(l) => ~Resting(l)'
  BY <1>1, <1>2, RestsBefore
<1>4. rows'[l] \in {rows[l], "cancelled", "filled"}
  BY <1>1, FinishedRows
<1> QED BY <1>1, <1>3, <1>4 DEF Gone

(* The trades of an order as the taker are those of its own submit. *)
LEMMA TradesNow ==
    ASSUME Typed, Base, [Next]_vars, NEW t \in Id, ~IsConditional(t), Traded(t)', ~Traded(t)
    PROVE  /\ SubmitOrder(t)
           /\ task'[t].pc = "persist"
           /\ task'[t].of = t
           /\ task'[t].met
<1>1. TasksTyped /\ book \in Seq(Id)
  BY DEF Typed, EngineTyped
<1>2. PICK trade \in struck' : trade[1] = t /\ trade \notin struck
  BY DEF Traded
<1>3. PICK u \in Id : SubmitOrder(u)
  BY <1>2, WritesEngine
<1>4. PICK id, makers : id = task[u].of /\ makers = Makers(id)
  OBVIOUS
<1>5. /\ Submit(id) /\ task[u].pc = "submit"
      /\ task'[u].pc = "persist"
      /\ task'[u].of = id
  BY <1>1, <1>3, <1>4, FlowSubmit
<1>6. PICK k \in Met(id) : trade = <<id, book[k]>>
  <2>1. struck' = struck \cup {<<id, book[k]>> : k \in Met(id)}
    BY <1>5 DEF Submit
  <2> QED BY ONLY <1>2, <2>1
<1>7. id = t
  BY <1>2, <1>6
<1>8. u = t
  <2>1. t # 0
    BY RequestsAssumption DEF Id
  <2> QED BY <1>4, <1>7, <2>1 DEF Base, OfOK
<1>9. makers # << >>
  <2>1. \E n \in DOMAIN makers : makers[n] = book[k]
    BY <1>1, <1>4, <1>6, <1>7, MakersMet
  <2>2. makers = << >> => DOMAIN makers = {}
    OBVIOUS
  <2> QED BY <2>1, <2>2
<1>10. task'[t].met
  BY <1>1, <1>3, <1>4, <1>8, <1>9, SubmitMeets
<1> QED BY <1>3, <1>5, <1>7, <1>8, <1>10

(* Past the link a handler stays there, or gives up. *)
LEMMA PastStep ==
    ASSUME Typed, Base, NEW t \in Id, ~IsConditional(t), Past(t), CreateStep(t)
    PROVE  task'[t].pc = "failed" \/ Past(t)'
<1> USE DEF Past, Turns, Keeps
<1>1. TasksTyped /\ \A i \in DOMAIN conds : IsConditional(i)
  BY DEF Typed, MapTyped
<1>2. CASE Peek(t) \/ Register(t)
  BY <1>1, <1>2, FlowPeek
<1>3. CASE SubmitOrder(t)
  BY <1>1, <1>3, FlowSubmit
<1>4. CASE SendTrade(t) \/ StoreTrade(t) \/ PersistFails(t) \/ Persisted(t)
  BY <1>1, <1>4, FlowPersist
<1>5. CASE UpdateRow(t) \/ UpdateRowFails(t)
  BY <1>1, <1>5, FlowRow
<1>6. CASE CancelLinkInBook(t) \/ SelectLinkFails(t) \/ CancelLinkRow(t) \/ CancelLinkInMap(t)
  BY <1>1, <1>6, FlowLink
<1>7. CASE LookAndTrigger(t) \/ LookAndSkip(t) \/ LookAndFollow(t) \/ NextShard(t) \/ Answer(t)
  BY <1>1, <1>7, FlowScan
<1>8. CASE Fire(t)
  BY <1>1, <1>8, FlowFire
<1> QED BY <1>2, <1>3, <1>4, <1>5, <1>6, <1>7, <1>8 DEF CreateStep, OtherStep

(* A handler on its way to the link reaches it, if nothing fails. *)
LEMMA ComingStep ==
    ASSUME Typed, NEW t \in Id, Coming(t), task[t].met, Requests[t].link # 0,
           CreateStep(t), failures \in Nat, failures = 0, failures' = 0
    PROVE  \/ Coming(t)' /\ task'[t].met
           \/ Midway(t)' /\ CancelLinkInBook(t)
<1> USE DEF Coming, Midway, Turns, Keeps
<1>1. TasksTyped
  BY DEF Typed
<1>2. CASE SendTrade(t) \/ StoreTrade(t) \/ Persisted(t)
  BY <1>1, <1>2, FlowPersist
<1>3. CASE UpdateRow(t)
  <2>1. AfterRow(t) = "oco"
    BY DEF AfterRow, HasLink
  <2> QED BY <1>1, <1>3, <2>1, FlowRow
<1>4. CASE CancelLinkInBook(t)
  BY <1>1, <1>4, FlowLink
<1>5. CASE PersistFails(t) \/ UpdateRowFails(t) \/ SelectLinkFails(t)
  BY <1>5 DEF PersistFails, UpdateRowFails, SelectLinkFails
<1>6. CASE \/ Peek(t) \/ Register(t) \/ SubmitOrder(t) \/ CancelLinkRow(t) \/ CancelLinkInMap(t)
           \/ LookAndTrigger(t) \/ LookAndSkip(t) \/ LookAndFollow(t) \/ NextShard(t)
           \/ Fire(t) \/ Answer(t)
  BY <1>6 DEF Peek, Register, SubmitOrder, CancelLinkRow, CancelLinkInMap, LookAndTrigger,
     LookAndSkip, LookAndFollow, NextShard, Fire, Answer
<1> QED BY <1>2, <1>3, <1>4, <1>5, <1>6 DEF CreateStep, OtherStep

LEMMA MidwayStep ==
    ASSUME Typed, NEW t \in Id, Midway(t), CreateStep(t)
    PROVE  CancelLinkRow(t) /\ task'[t].pc = "ocomap"
<1>1. TasksTyped /\ task[t].pc = "ocorow"
  BY DEF Typed, Midway
<1>2. CancelLinkRow(t)
  BY <1>1 DEF CreateStep, OtherStep, Peek, Register, SubmitOrder, SendTrade, StoreTrade, PersistFails,
     Persisted, UpdateRow, UpdateRowFails, CancelLinkInBook, SelectLinkFails, CancelLinkInMap,
     LookAndTrigger, LookAndSkip, LookAndFollow, NextShard, Fire, Answer
<1> QED BY <1>1, <1>2, FlowLink DEF Turns

LEMMA StepLink ==
    ASSUME Typed, OneOK, Base, SureOK, LinkOK, [Next]_vars,
           failures \in Nat, failures = 0, failures' = 0
    PROVE  LinkOK'
<1> SUFFICES ASSUME NEW t \in Id, Linked(t)', Traded(t)', NEW l, l = Requests[t].link
             PROVE  /\ Coming(t)' => task'[t].met
                    /\ Midway(t)' => ~Resting(l)'
                    /\ Past(t)' => Gone(l)'
  BY DEF LinkOK
<1>1. TasksTyped /\ book \in Seq(Id) /\ rows \in [Id -> RowStatus]
  BY DEF Typed, EngineTyped, RowsTyped
<1>2. ~IsConditional(t) /\ ~IsConditional(l)
  BY DEF Linked, IsConditional
<1>3. CASE InsertOrder(t)
  <2>1. task'[t].pc = "submit" /\ task'[t].of = t
    BY <1>1, <1>2, <1>3, FlowInsert
  <2> QED BY <2>1 DEF Coming, Midway, Past
<1>4. CASE Turns(t, "lost")
  BY <1>4 DEF Coming, Midway, Past, Turns
<1>5. ASSUME task'[t] = task[t] \/ CreateStep(t)
      PROVE  /\ Coming(t)' => task'[t].met
             /\ Midway(t)' => ~Resting(l)'
             /\ Past(t)' => Gone(l)'
  <2>1. Linked(t)
    <3>1. task[t].sure
      BY <1>1, <1>5, FlowKeeps DEF Linked
    <3> QED BY <1>2, <3>1 DEF Linked
  <2>2. /\ l \in Id /\ Finished(l) /\ rows[l] # None
        /\ ~Resting(l) => ~Resting(l)'
        /\ Gone(l) => Gone(l)'
    BY <2>1, GoneStays
  <2>3. CASE ~Traded(t)
    <3>1. task'[t].pc = "persist" /\ task'[t].of = t /\ task'[t].met
      BY <1>2, <2>3, TradesNow
    <3> QED BY <3>1 DEF Midway, Past
  <2>4. ASSUME Traded(t)
        PROVE  /\ Coming(t) => task[t].met
               /\ Midway(t) => ~Resting(l)
               /\ Past(t) => Gone(l)
    BY <2>1, <2>4 DEF LinkOK
  <2>5. CASE Traded(t) /\ task'[t] = task[t]
    BY <2>2, <2>4, <2>5 DEF Coming, Midway, Past
  <2>6. CASE Traded(t) /\ CreateStep(t)
    <3>1. Coming(t) \/ Midway(t) \/ Past(t) \/ task'[t].pc \in {"failed", "lost"}
      <4>1. task[t].pc \notin {"new", "failed", "lost", "peek", "register"}
        BY <1>1, <1>2, <2>6 DEF TasksTyped, Ready, CreateStep, OtherStep, Peek, Register, SubmitOrder, SendTrade,
           StoreTrade, PersistFails, Persisted, UpdateRow, UpdateRowFails, CancelLinkInBook,
           SelectLinkFails, CancelLinkRow, CancelLinkInMap, LookAndTrigger, LookAndSkip,
           LookAndFollow, NextShard, Fire, Answer
      <4>2. ~(task[t].pc = "submit" /\ task[t].of = t)
        <5>1. PICK trade \in struck : trade[1] = t
          BY <2>6 DEF Traded
        <5>2. entered[t] = 1
          BY <5>1 DEF Base, StruckOK
        <5> QED BY <5>2 DEF OneOK, HeldOK, Holds
      <4>3. task[t].pc \in Pc
        BY <1>1, TaskIs DEF TasksTyped
      <4> QED BY <4>1, <4>2, <4>3 DEF Coming, Midway, Past, Pc, Ended
    <3>2. CASE Past(t)
      <4>1. task'[t].pc = "failed" \/ Past(t)'
        BY <1>2, <2>6, <3>2, PastStep
      <4>2. Gone(l)'
        BY <2>2, <2>4, <2>6, <3>2
      <4> QED BY <4>1, <4>2 DEF Coming, Midway, Past, Gone
    <3>3. CASE Coming(t)
      <4>1. l # 0 /\ task[t].met
        BY <2>2, <2>4, <2>6, <3>3, RequestsAssumption DEF Id
      <4>2. \/ Coming(t)' /\ task'[t].met
            \/ Midway(t)' /\ CancelLinkInBook(t)
        BY <2>6, <3>3, <4>1, ComingStep
      <4>3. ~Past(t)'
        BY <4>2 DEF Coming, Midway, Past
      <4>4. CancelLinkInBook(t) => ~Resting(l)'
        <5>1. LinkOf(t) = l
          BY <3>3 DEF LinkOf, Coming
        <5>2. CancelLinkInBook(t) => book' = Without(book, l)
          BY <5>1 DEF CancelLinkInBook
        <5>3. book' = Without(book, l) => \A n \in DOMAIN book' : book'[n] # l
          BY <1>1, WithoutOne
        <5> QED BY <5>2, <5>3 DEF Resting
      <4>5. Coming(t)' => ~Midway(t)'
        BY DEF Coming, Midway
      <4> QED BY <4>2, <4>3, <4>4, <4>5
    <3>4. CASE Midway(t)
      <4>1. CancelLinkRow(t) /\ task'[t].pc = "ocomap"
        BY <2>6, <3>4, MidwayStep
      <4>2. ~Resting(l)'
        BY <2>2, <2>4, <2>6, <3>4
      <4>3. rows'[l] \in {"cancelled", "filled"}
        <5>1. LinkOf(t) = l
          BY <3>4 DEF LinkOf, Midway
        <5>2. rows' = IF rows[l] \in {"open", "pending_trigger"}
                      THEN [rows EXCEPT ![l] = "cancelled"] ELSE rows
          BY <4>1, <5>1 DEF CancelLinkRow
        <5> QED BY ONLY <1>1, <2>2, <5>2 DEF RowStatus, None
      <4> QED BY <4>1, <4>2, <4>3 DEF Coming, Midway, Past, Gone
    <3>5. CASE task'[t].pc \in {"failed", "lost"}
      BY <3>5 DEF Coming, Midway, Past
    <3> QED BY <3>1, <3>2, <3>3, <3>4, <3>5
  <2> QED BY <1>5, <2>3, <2>5, <2>6
<1> QED BY <1>1, <1>3, <1>4, <1>5, TaskCases

LinksOK == Base /\ SureOK /\ (failures = 0 => LinkOK)

LEMMA LinksBegin == Init => LinksOK
<1> SUFFICES ASSUME Init PROVE LinksOK
  OBVIOUS
<1>1. \A t \in Id : task[t].pc = "new" /\ task[t].of = 0 /\ task[t].sure = FALSE
  BY DEF Init, Fresh
<1>2. struck = {}
  BY DEF Init
<1>3. Base
  BY <1>1, <1>2 DEF Base, OfOK, EnteredOK, StruckOK, RowsOK
<1>4. SureOK
  BY <1>1 DEF SureOK
<1>5. LinkOK
  BY <1>2 DEF LinkOK, Traded
<1> QED BY <1>3, <1>4, <1>5 DEF LinksOK

LEMMA StepLinks ==
    ASSUME Typed, OneOK, OneOK', Counted, LinksOK, [Next]_vars
    PROVE  LinksOK'
<1>1. Base /\ SureOK
  BY DEF LinksOK
<1>2. Base'
  BY <1>1, StepOf, StepEntered, StepStruck, StepRowsOK DEF Base
<1>3. SureOK'
  BY <1>1, StepSure
<1>4. ASSUME failures' = 0 PROVE LinkOK'
  <2>1. failures = 0 /\ failures \in Nat
    BY <1>4, FailuresStay DEF Counted
  <2>2. LinkOK
    BY <2>1 DEF LinksOK
  <2> QED BY <1>1, <1>4, <2>1, <2>2, StepLink
<1> QED BY <1>2, <1>3, <1>4 DEF LinksOK

LEMMA Links == Spec => []LinksOK
<1>1. ASSUME Typed, OneOK, OneOK', Sent /\ Counted, LinksOK, [Next]_vars PROVE LinksOK'
  BY <1>1, StepLinks
<1> QED BY <1>1, LinksBegin, Types, Invariance, SentAlways, PTL DEF Spec

(* An order that trades on arrival takes the order it is linked to off the  *)
(* book, and off the list of open orders, before its client is answered, if *)
(* the linked order was answered before and no call failed: whatever else   *)
(* trades, is triggered, cancelled or settled meanwhile, and also when the  *)
(* process restarts afterwards (lib.rs:501-505, 516-536).                   *)
THEOREM LinkCancelled == Spec => []TakerCancelsLink
<1>1. Typed /\ LinksOK => TakerCancelsLink
  <2> SUFFICES ASSUME Typed, LinksOK, NEW t \in Id, NEW l, l = Requests[t].link,
                      task[t].pc = "done", task[t].sure, failures = 0, ~IsConditional(t),
                      ~IsConditional(l), NEW m \in Id, <<t, m>> \in struck
               PROVE  ~Resting(l) /\ rows[l] \in {"cancelled", "filled"}
    BY DEF TakerCancelsLink
  <2>1. Traded(t)
    <3>1. PICK trade : trade = <<t, m>>
      OBVIOUS
    <3>2. trade \in struck /\ trade[1] = t
      BY <3>1
    <3> QED BY <3>2 DEF Traded
  <2>2. LinkOK /\ Linked(t) /\ Past(t)
    BY DEF LinksOK, Linked, Past
  <2> QED BY <2>1, <2>2 DEF LinkOK, Gone
<1> QED BY <1>1, Types, Links, PTL

=============================================================================
