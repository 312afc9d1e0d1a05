----------------------------- MODULE Withdrawals ----------------------------
(***************************************************************************)
(* What becomes of a withdrawal after its money was debited: withdraw in   *)
(* the wallet crate commits a row "queued" (the transaction itself is in   *)
(* Funds) and then sends a message; the executor of the blockchain crate   *)
(* gathers messages in memory and decides them every five minutes; the     *)
(* administration approves what waits for the cold wallet.                 *)
(*                                                                         *)
(* The executor is one task, so that it does not receive while it flushes. *)
(* The same message may come several times; nothing here depends on order, *)
(* so that buffer and batch count the messages of each withdrawal.         *)
(***************************************************************************)
EXTENDS Naturals

CONSTANTS
    Withdrawals,   \* one for each call of withdraw that got past the debit
    Amount,        \* what each of them asks for
    ColdLimit,     \* 10_000 in flush_withdrawals
    MaxFailures,   \* bound on failed calls of Kafka and Postgres
    MaxRestarts,   \* bound on restarts of the process
    MaxRedeliveries \* bound on messages that come again without a restart

ASSUME WithdrawalsAssumption ==
    /\ Amount \in [Withdrawals -> Nat]
    /\ ColdLimit \in Nat
    /\ MaxFailures \in Nat
    /\ MaxRestarts \in Nat
    /\ MaxRedeliveries \in Nat

VARIABLES
    status,      \* the status column of the row of each withdrawal
    request,     \* how far the handler of the wallet is with it
    topic,       \* messages on the Kafka topic "withdrawals"
    read,        \* those the consumer has received, or skipped after a restart
    committed,   \* those behind the committed offsets
    buffer,      \* the buffer of run_withdrawal_executor
    batch,       \* what flush_withdrawals took out of it and still has to do
    received,    \* history: how often its message was received
    broadcasts,  \* history: how often each was written as broadcast
    forsaken,    \* history: those a failed call or a restart was in the way of
    failures, restarts, redelivered

wallet == <<status, request>>
kafka == <<topic, read, committed>>
executor == <<buffer, batch>>
faults == <<failures, restarts, redelivered>>
past == <<received, broadcasts, forsaken>>
vars == <<wallet, kafka, executor, past, faults>>

Status == {"none", "queued", "pending_cold_wallet", "approved", "broadcasted"}

NoMessages == [w \in Withdrawals |-> 0]

Fails == failures < MaxFailures /\ failures' = failures + 1

-----------------------------------------------------------------------------
(* The handler of the wallet. *)

(* The transaction that debits the balance inserts the row and commits. *)
Debited(w) ==
    /\ request[w] = "new"
    /\ request' = [request EXCEPT ![w] = "send"]
    /\ status' = [status EXCEPT ![w] = "queued"]
    /\ UNCHANGED <<kafka, executor, past, faults>>

(* A send that is reported as failed may have reached the topic all the same. *)
Send(w) ==
    /\ request[w] = "send"
    /\ \/ /\ topic' = topic \cup {w}
          /\ request' = [request EXCEPT ![w] = "sent"]
          /\ UNCHANGED <<failures, forsaken>>
       \/ /\ Fails
          /\ topic' \in {topic, topic \cup {w}}
          /\ request' = [request EXCEPT ![w] = "failed"]
          /\ forsaken' = forsaken \cup {w}
    /\ UNCHANGED <<status, read, committed, executor, received, broadcasts, restarts,
                   redelivered>>

-----------------------------------------------------------------------------
(* The executor. *)

Receive(w) ==
    /\ batch = NoMessages
    /\ w \in topic \ read
    /\ read' = read \cup {w}
    /\ buffer' = [buffer EXCEPT ![w] = @ + 1]
    /\ received' = [received EXCEPT ![w] = @ + 1]
    /\ UNCHANGED <<wallet, topic, committed, batch, broadcasts, forsaken, faults>>

(* The producer retries and is not idempotent, and a group that is balanced *)
(* anew goes back to the committed offsets: a message comes again without a *)
(* restart, while the one before is still in memory or long decided.        *)
Redeliver(w) ==
    /\ w \in read
    /\ redelivered < MaxRedeliveries
    /\ redelivered' = redelivered + 1
    /\ read' = read \ {w}
    /\ committed' = committed \ {w}
    /\ UNCHANGED <<wallet, topic, executor, past, failures, restarts>>

(* The client library commits what the consumer has received, not what the *)
(* executor has done, every few seconds.                                   *)
CommitOffsets ==
    /\ committed # read
    /\ committed' = read
    /\ UNCHANGED <<wallet, topic, read, executor, past, faults>>

TwoGathered == \E v, w \in Withdrawals : v # w /\ buffer[v] > 0 /\ buffer[w] > 0

Gathered == buffer # NoMessages

NotTaken == buffer

(* What mem::take leaves in the buffer. *)
Taken == NoMessages

(* Five minutes have passed. *)
Flush ==
    /\ batch = NoMessages
    /\ Gathered
    /\ batch' = buffer
    /\ buffer' = Taken
    /\ UNCHANGED <<wallet, kafka, past, faults>>

Decision(w) ==
    IF Amount[w] >= ColdLimit THEN "pending_cold_wallet" ELSE "broadcasted"

(* The UPDATE of one withdrawal, whatever the status of its row is. *)
Update(w) ==
    /\ status' = [status EXCEPT ![w] = Decision(w)]
    /\ broadcasts' = [broadcasts EXCEPT
                         ![w] = @ + (IF Decision(w) = "broadcasted" THEN 1 ELSE 0)]

NothingElse(w) == NoMessages

OthersToDecide(w) == [batch EXCEPT ![w] = @ - 1]

Decide(w) ==
    /\ batch[w] > 0
    /\ Update(w)
    /\ batch' = OthersToDecide(w)
    /\ UNCHANGED <<request, kafka, buffer, received, forsaken, faults>>

(* The first UPDATE that is reported as failed, done or not, ends the flush, *)
(* and what is left of the batch is dropped.                                *)
DecideFails(w) ==
    /\ batch[w] > 0
    /\ Fails
    /\ Update(w) \/ UNCHANGED <<status, broadcasts>>
    /\ forsaken' = forsaken \cup {v \in Withdrawals : batch[v] > 0}
    /\ batch' = NoMessages
    /\ UNCHANGED <<request, kafka, buffer, received, restarts, redelivered>>

-----------------------------------------------------------------------------
(* The administration: only a row that waits for the cold wallet is approved. *)

Known(w) == status[w] # "none"

Waiting(w) == status[w] = "pending_cold_wallet"

Approve(w) ==
    /\ Waiting(w)
    /\ status' = [status EXCEPT ![w] = "approved"]
    /\ UNCHANGED <<request, kafka, executor, past, faults>>

Beginning == {}

ResumedAt == committed

InMemory(w) == request[w] = "send" \/ buffer[w] + batch[w] > 0

(* Buffer and batch are in memory only; the consumer goes on from the        *)
(* committed offsets; handlers that had not sent their message never do.     *)
Restart ==
    /\ restarts < MaxRestarts
    /\ restarts' = restarts + 1
    /\ request' = [w \in Withdrawals |->
                      IF request[w] = "send" THEN "failed" ELSE request[w]]
    /\ read' = ResumedAt
    /\ buffer' = NoMessages
    /\ batch' = NoMessages
    /\ forsaken' = forsaken \cup {w \in Withdrawals : InMemory(w) /\ w \notin topic \ committed}
    /\ UNCHANGED <<status, topic, committed, received, broadcasts, failures, redelivered>>

-----------------------------------------------------------------------------

Init ==
    /\ status = [w \in Withdrawals |-> "none"]
    /\ request = [w \in Withdrawals |-> "new"]
    /\ topic = {} /\ read = {} /\ committed = {}
    /\ buffer = NoMessages /\ batch = NoMessages
    /\ received = NoMessages /\ broadcasts = NoMessages /\ forsaken = {}
    /\ failures = 0 /\ restarts = 0 /\ redelivered = 0

ExecutorStep ==
    \/ Flush
    \/ \E w \in Withdrawals : Receive(w) \/ Decide(w) \/ DecideFails(w)

Next ==
    \/ \E w \in Withdrawals : Debited(w) \/ Send(w) \/ Redeliver(w) \/ Approve(w)
    \/ ExecutorStep
    \/ CommitOffsets
    \/ Restart

(* main spawns the executor and nothing ever ends it; users, administrators *)
(* and the timer of the Kafka client need not do anything.                  *)
Spec == Init /\ [][Next]_vars /\ WF_vars(ExecutorStep)

-----------------------------------------------------------------------------
(* Properties. *)

TypeOK ==
    /\ status \in [Withdrawals -> Status]
    /\ request \in [Withdrawals -> {"new", "send", "sent", "failed"}]
    /\ topic \subseteq Withdrawals
    /\ read \subseteq topic
    /\ committed \subseteq read
    /\ buffer \in [Withdrawals -> Nat]
    /\ batch \in [Withdrawals -> Nat]
    /\ received \in [Withdrawals -> Nat]
    /\ broadcasts \in [Withdrawals -> Nat]
    /\ forsaken \subseteq Withdrawals
    /\ failures \in 0 .. MaxFailures
    /\ restarts \in 0 .. MaxRestarts
    /\ redelivered \in 0 .. MaxRedeliveries

(* On its way to a decision. *)
Held(w) == w \in topic \ read \/ buffer[w] + batch[w] > 0

(* A debited withdrawal that nobody has decided is on its way to the         *)
(* executor, unless its message failed, the flush it was in failed, or the   *)
(* process died with it in memory and not before the committed offsets: no   *)
(* interleaving of handler, consumer, flush and commit forgets one, and no   *)
(* failure and no restart one that it does not concern (wallet               *)
(* lib.rs:139-146, blockchain lib.rs:24-48, 82-105).                         *)
NothingForgotten ==
    \A w \in Withdrawals :
        status[w] = "queued" => request[w] = "send" \/ Held(w) \/ w \in forsaken

(* A withdrawal is broadcast at most once for each time its message was      *)
(* received, however often flushes and sends fail and whatever gathers in    *)
(* the buffer (blockchain lib.rs:84, 98; no UPDATE asks for the status).     *)
OncePerMessage == \A w \in Withdrawals : broadcasts[w] <= received[w]

(* The status moves forward only: a decision of the executor is final, and   *)
(* so is an approval, unless the message was received again (blockchain      *)
(* lib.rs:91-101, admin lib.rs:417).                                         *)
Forward ==
    [][\A w \in Withdrawals :
          status'[w] # status[w] =>
              \/ status[w] = "none" /\ status'[w] = "queued"
              \/ status[w] = "queued" /\ status'[w] = Decision(w)
              \/ status[w] = "pending_cold_wallet" /\ status'[w] = "approved"
              \/ /\ received[w] > 1
                 /\ status[w] = "approved"
                 /\ status'[w] = "pending_cold_wallet"]_vars

(* What is on its way gets to its end: the executor reads the topic and      *)
(* empties its buffer for ever, through failures and restarts (blockchain    *)
(* lib.rs:27-47).                                                            *)
ExecutorGetsThere == \A w \in Withdrawals : Held(w) ~> ~Held(w)
=============================================================================
