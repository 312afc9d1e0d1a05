------------------------- MODULE Withdrawals_proofs -------------------------
(***************************************************************************)
(* Theorems about Withdrawals, for every set of withdrawals, every amount  *)
(* and limit, and every number of failures and restarts.                   *)
(***************************************************************************)
EXTENDS Withdrawals, TLAPS

-----------------------------------------------------------------------------
(* The inductive invariant. *)

(* Where the message of a withdrawal is says how far its handler got. *)
RequestOK(w) ==
    /\ w \in topic => request[w] \in {"sent", "failed"}
    /\ request[w] = "sent" => w \in topic
    /\ request[w] = "new" <=> status[w] = "none"
    /\ request[w] = "send" => status[w] = "queued"
    /\ buffer[w] + batch[w] > 0 => w \in topic

(* The status fits the amount. *)
DecisionOK(w) ==
    /\ Amount[w] >= ColdLimit => broadcasts[w] = 0
    /\ status[w] \in {"pending_cold_wallet", "approved"} => Amount[w] >= ColdLimit
    /\ status[w] = "broadcasted" => Amount[w] < ColdLimit

(* What was received is still in memory or was good for one broadcast at    *)
(* most, and what is decided took one message.                              *)
MessagesOK(w) ==
    /\ broadcasts[w] + buffer[w] + batch[w] <= received[w]
    /\ status[w] \in {"pending_cold_wallet", "approved", "broadcasted"} =>
          1 + buffer[w] + batch[w] <= received[w]

HeldOK(w) == status[w] = "queued" => request[w] = "send" \/ Held(w) \/ w \in forsaken

IInv ==
    /\ TypeOK
    /\ \A w \in Withdrawals :
          RequestOK(w) /\ DecisionOK(w) /\ MessagesOK(w) /\ HeldOK(w)

-----------------------------------------------------------------------------
(* It holds at the start and is kept by every action. *)

LEMMA InitInvariant == Init => IInv
BY WithdrawalsAssumption DEF Init, NoMessages, IInv, TypeOK, Status, RequestOK, DecisionOK,
   MessagesOK, HeldOK, Held

LEMMA TypeStep == IInv /\ [Next]_vars => TypeOK'
<1> SUFFICES ASSUME IInv, [Next]_vars PROVE TypeOK'
  OBVIOUS
<1> USE WithdrawalsAssumption
<1>0. TypeOK /\ \A w \in Withdrawals : RequestOK(w)
  BY DEF IInv
<1>1. ASSUME NEW w \in Withdrawals, Debited(w) \/ Send(w) \/ Approve(w) PROVE TypeOK'
  BY <1>0, <1>1 DEF Debited, Send, Approve, Waiting, Fails, TypeOK, Status, wallet, kafka, executor,
     past, faults
<1>2. ASSUME NEW w \in Withdrawals, Receive(w) \/ Redeliver(w) PROVE TypeOK'
  BY <1>0, <1>2 DEF Receive, Redeliver, TypeOK, Status, wallet, executor, past, faults
<1>3. ASSUME NEW w \in Withdrawals, Decide(w) \/ DecideFails(w) PROVE TypeOK'
  BY <1>0, <1>3 DEF Decide, OthersToDecide, DecideFails, NoMessages, Update, Decision, Fails,
     TypeOK, Status, kafka, faults
<1>4. CASE Flush \/ CommitOffsets \/ Restart \/ UNCHANGED vars
  BY <1>0, <1>4 DEF Flush, Taken, CommitOffsets, Restart, ResumedAt, NoMessages, TypeOK, Status, vars, wallet,
     kafka, executor, past, faults
<1> QED BY <1>1, <1>2, <1>3, <1>4 DEF Next, ExecutorStep

LEMMA PartsStep ==
    ASSUME IInv, [Next]_vars, NEW w \in Withdrawals
    PROVE  (RequestOK(w) /\ DecisionOK(w) /\ MessagesOK(w) /\ HeldOK(w))'
<1> USE WithdrawalsAssumption
<1> DEFINE Parts == RequestOK(w) /\ DecisionOK(w) /\ MessagesOK(w) /\ HeldOK(w)
<1>0. TypeOK /\ Parts
  BY DEF IInv
<1>1. ASSUME NEW v \in Withdrawals, Debited(v) \/ Send(v) \/ Approve(v) PROVE Parts'
  BY <1>0, <1>1 DEF Debited, Send, Approve, Waiting, Fails, TypeOK, Status, RequestOK, DecisionOK,
     MessagesOK, HeldOK, Held, wallet, kafka, executor, past, faults
<1>2. ASSUME NEW v \in Withdrawals, Receive(v) \/ Redeliver(v) PROVE Parts'
  BY <1>0, <1>2 DEF Receive, Redeliver, TypeOK, Status, RequestOK, DecisionOK, MessagesOK, HeldOK,
     Held, wallet, executor, past, faults
<1>3. CASE Flush
  BY <1>0, <1>3 DEF Flush, Taken, NoMessages, TypeOK, Status, RequestOK, DecisionOK, MessagesOK,
     HeldOK, Held, wallet, kafka, past, faults
<1>4. ASSUME NEW v \in Withdrawals, Decide(v) PROVE Parts'
  BY <1>0, <1>4 DEF Decide, OthersToDecide, Update, Decision, TypeOK, Status, RequestOK,
     DecisionOK, MessagesOK, HeldOK, Held, kafka, faults
<1>5. ASSUME NEW v \in Withdrawals, DecideFails(v) PROVE Parts'
  BY <1>0, <1>5 DEF DecideFails, NoMessages, Update, Decision, TypeOK, Status, RequestOK,
     DecisionOK, MessagesOK, HeldOK, Held, kafka
<1>6. CASE Restart
  BY <1>0, <1>6 DEF Restart, ResumedAt, InMemory, NoMessages, TypeOK, Status, RequestOK,
     DecisionOK, MessagesOK, HeldOK, Held
<1>7. CASE CommitOffsets \/ UNCHANGED vars
  BY <1>0, <1>7 DEF CommitOffsets, TypeOK, RequestOK, DecisionOK, MessagesOK, HeldOK, Held, vars,
     wallet, kafka, executor, past, faults
<1> QED BY <1>1, <1>2, <1>3, <1>4, <1>5, <1>6, <1>7 DEF Next, ExecutorStep

LEMMA NextInvariant == IInv /\ [Next]_vars => IInv'
BY TypeStep, PartsStep DEF IInv

-----------------------------------------------------------------------------
(* The theorems. *)

(* The inductive invariant of withdrawals. *)
THEOREM Invariance == Spec => []IInv
BY InitInvariant, NextInvariant, PTL DEF Spec

(* Every variable keeps its type. *)
THEOREM TypeCorrect == Spec => []TypeOK
<1>1. IInv => TypeOK
  BY DEF IInv
<1> QED BY <1>1, Invariance, PTL

(* No interleaving of handler, consumer, flush and commit forgets a         *)
(* withdrawal, and no failure and no restart one that it does not concern.  *)
THEOREM NoneForgotten == Spec => []NothingForgotten
<1>1. IInv => NothingForgotten
  BY DEF IInv, HeldOK, NothingForgotten
<1> QED BY <1>1, Invariance, PTL

(* A withdrawal is broadcast at most once for each message received.        *)
THEOREM BroadcastOnce == Spec => []OncePerMessage
<1>1. ASSUME IInv, NEW w \in Withdrawals PROVE broadcasts[w] <= received[w]
  <2>1. /\ broadcasts[w] \in Nat /\ received[w] \in Nat
        /\ buffer[w] \in Nat /\ batch[w] \in Nat
    BY <1>1 DEF IInv, TypeOK
  <2>2. broadcasts[w] + buffer[w] + batch[w] <= received[w]
    BY <1>1 DEF IInv, MessagesOK
  <2> QED BY <2>1, <2>2
<1>2. IInv => OncePerMessage
  BY <1>1 DEF OncePerMessage
<1> QED BY <1>2, Invariance, PTL

ForwardStep ==
    \A w \in Withdrawals :
       status'[w] # status[w] =>
           \/ status[w] = "none" /\ status'[w] = "queued"
           \/ status[w] = "queued" /\ status'[w] = Decision(w)
           \/ status[w] = "pending_cold_wallet" /\ status'[w] = "approved"
           \/ /\ received[w] > 1
              /\ status[w] = "approved"
              /\ status'[w] = "pending_cold_wallet"

LEMMA StepForward == IInv /\ [Next]_vars => [ForwardStep]_vars
<1> SUFFICES ASSUME IInv, Next, NEW w \in Withdrawals, status'[w] # status[w]
             PROVE  \/ status[w] = "none" /\ status'[w] = "queued"
                    \/ status[w] = "queued" /\ status'[w] = Decision(w)
                    \/ status[w] = "pending_cold_wallet" /\ status'[w] = "approved"
                    \/ /\ received[w] > 1
                       /\ status[w] = "approved"
                       /\ status'[w] = "pending_cold_wallet"
  BY DEF ForwardStep
<1>0. TypeOK /\ RequestOK(w) /\ MessagesOK(w) /\ DecisionOK(w)
  BY DEF IInv
<1>1. ASSUME NEW v \in Withdrawals, Debited(v) \/ Approve(v)
      PROVE  \/ status[w] = "none" /\ status'[w] = "queued"
             \/ status[w] = "pending_cold_wallet" /\ status'[w] = "approved"
  BY <1>0, <1>1 DEF Debited, Approve, Waiting, TypeOK, RequestOK
<1>2. ASSUME NEW v \in Withdrawals, Decide(v) \/ DecideFails(v)
      PROVE  \/ status[w] = "queued" /\ status'[w] = Decision(w)
             \/ /\ received[w] > 1
                /\ status[w] = "approved"
                /\ status'[w] = "pending_cold_wallet"
  <2>1. batch[w] > 0 /\ status'[w] = Decision(w)
    BY <1>0, <1>2 DEF Decide, DecideFails, Update, TypeOK
  <2> QED BY <1>0, <2>1, WithdrawalsAssumption
             DEF TypeOK, Status, RequestOK, MessagesOK, DecisionOK, Decision
<1>3. ASSUME NEW v \in Withdrawals,
             \/ Send(v) \/ Redeliver(v) \/ Receive(v)
             \/ Flush \/ CommitOffsets \/ Restart
      PROVE  FALSE
  BY <1>3 DEF Send, Redeliver, Receive, Flush, CommitOffsets, Restart, wallet
<1> QED BY <1>1, <1>2, <1>3 DEF Next, ExecutorStep

(* Decisions and approvals are final, unless the message comes again.       *)
THEOREM MovesForward == Spec => Forward
<1>1. Spec => [][ForwardStep]_vars
  BY StepForward, Invariance, PTL DEF Spec
<1> QED BY <1>1 DEF Forward, ForwardStep

=============================================================================
