-------------------------- MODULE Sessions_proofs ---------------------------
(***************************************************************************)
(* Proofs about Sessions: types, that whoever a session admits has a row,  *)
(* that an ended session stays ended and that a tab acts for its user, for *)
(* any number of users, tabs, sessions, failures and restarts.             *)
(***************************************************************************)
EXTENDS Sessions, TLAPS

(* Who asks for a session is a user; who is about to get one has a row.     *)
CallersKnown ==
    \A t \in Tabs :
        /\ call[t].pc \in {"sent", "inserted", "answered"} => call[t].who \in Users
        /\ call[t].pc = "inserted" => call[t].who \in users

(* An id that was drawn and not yet stored is nobody else's: no session, no *)
(* ended one, no tab and no other call has it.                              *)
DrawnIsFresh ==
    \A t \in Tabs : call[t].pc = "inserted" =>
        /\ call[t].id \in 1 .. issued
        /\ call[t].id \notin DOMAIN session
        /\ call[t].id \notin ended
        /\ \A s \in Tabs : session_id[s] # call[t].id
        /\ \A s \in Tabs \ {t} : call[s].pc \in {"inserted", "answered"}
                                   => call[s].id # call[t].id

(* What the server answers to a tab is the session of who asked in it.      *)
AnswerIsOwn ==
    \A t \in Tabs : call[t].pc = "answered" /\ call[t].id \in DOMAIN session
                        => session[call[t].id] = call[t].who

Inv == /\ TypeOK
       /\ SessionHasUser
       /\ NeverRevived
       /\ TabActsForItsUser
       /\ CallersKnown
       /\ DrawnIsFresh
       /\ AnswerIsOwn

USE NoUserAssumption, BoundsAssumption

-----------------------------------------------------------------------------

LEMMA Begins == Init => Inv
BY DEF Init, Inv, TypeOK, SessionHasUser, NeverRevived, TabActsForItsUser, CallersKnown,
       DrawnIsFresh, AnswerIsOwn, Idle, Call, SentId, Admitted, UserOf

(* The tab opens, moves or closes: server and storage stay as they are. *)
LEMMA Browses ==
    ASSUME Inv, NEW t \in Tabs, OpenRoot(t) \/ OpenOnboarding(t)
    PROVE  Inv'
BY DEF OpenRoot, OpenOnboarding, server, local, tabs, faults, Inv, TypeOK, SessionHasUser,
       NeverRevived, TabActsForItsUser, CallersKnown, DrawnIsFresh, AnswerIsOwn, Idle, Call,
       SentId, Admitted, UserOf

LEMMA Closes ==
    ASSUME Inv, NEW t \in Tabs, CloseTab(t)
    PROVE  Inv'
BY DEF CloseTab, Hangs, server, local, tabs, faults, Inv, TypeOK, SessionHasUser,
       NeverRevived, TabActsForItsUser, CallersKnown, DrawnIsFresh, AnswerIsOwn, Idle, Call,
       SentId, Admitted, UserOf

LEMMA Submits ==
    ASSUME Inv, NEW t \in Tabs, SubmitPhrase(t)
    PROVE  Inv'
<1> PICK u \in Users : call' = [call EXCEPT ![t] = [pc |-> "sent", who |-> u, id |-> 0]]
  BY DEF SubmitPhrase
<1>1. UNCHANGED <<server, local, tabs, faults>>
  BY DEF SubmitPhrase
<1>2. /\ call' \in [Tabs -> [pc : {"idle", "sent", "inserted", "answered", "leaving"},
                              who : Users \cup {NoUser}, id : 0 .. issued]]
      /\ call'[t].pc = "sent" /\ call'[t].who = u
      /\ \A s \in Tabs \ {t} : call'[s] = call[s]
  BY DEF Inv, TypeOK, Call
<1>3. TypeOK'
  BY <1>1, <1>2 DEF server, local, tabs, faults, Inv, TypeOK, Call
<1>4. CallersKnown' /\ DrawnIsFresh' /\ AnswerIsOwn'
  BY <1>1, <1>2 DEF server, local, tabs, faults, Inv, TypeOK, CallersKnown, DrawnIsFresh,
     AnswerIsOwn
<1> QED
  BY <1>1, <1>3, <1>4 DEF server, local, tabs, faults, Inv, SessionHasUser, NeverRevived,
     TabActsForItsUser, SentId, Admitted, UserOf

LEMMA Stores ==
    ASSUME Inv, NEW t \in Tabs, StoreIdentity(t)
    PROVE  Inv'
BY DEF StoreIdentity, Keepers, Hangs, server, local, tabs, faults, Inv, TypeOK,
       SessionHasUser, NeverRevived, TabActsForItsUser, CallersKnown, DrawnIsFresh,
       AnswerIsOwn, Idle, Call, SentId, Admitted, UserOf

LEMMA GivesUp ==
    ASSUME Inv, NEW t \in Tabs, RefuseTimestamp(t) \/ CallFails(t)
    PROVE  Inv'
<1>1. UNCHANGED <<server, local, tabs>> /\ failures' \in 0 .. MaxFailures /\ UNCHANGED restarts
  BY DEF RefuseTimestamp, CallFails, faults, Inv, TypeOK
<1>2. /\ call' \in [Tabs -> [pc : {"idle", "sent", "inserted", "answered", "leaving"},
                              who : Users \cup {NoUser}, id : 0 .. issued]]
      /\ call'[t].pc = "idle"
      /\ \A s \in Tabs \ {t} : call'[s] = call[s]
  BY DEF RefuseTimestamp, CallFails, Hangs, Inv, TypeOK, Call, Idle
<1>3. TypeOK'
  BY <1>1, <1>2 DEF server, local, tabs, faults, Inv, TypeOK, Call
<1>4. CallersKnown' /\ DrawnIsFresh' /\ AnswerIsOwn'
  BY <1>1, <1>2 DEF server, local, tabs, faults, Inv, TypeOK, CallersKnown, DrawnIsFresh,
     AnswerIsOwn
<1> QED
  BY <1>1, <1>3, <1>4 DEF server, local, tabs, faults, Inv, SessionHasUser, NeverRevived,
     TabActsForItsUser, SentId, Admitted, UserOf

LEMMA Inserts ==
    ASSUME Inv, NEW t \in Tabs, InsertUser(t)
    PROVE  Inv'
<1>1. /\ UNCHANGED <<session, ended, local, tabs, faults>>
      /\ issued' = issued + 1 /\ issued' \in 1 .. MaxSessions
      /\ users' = users \cup {call[t].who} /\ call[t].who \in Users
  BY DEF InsertUser, Inv, TypeOK, CallersKnown
<1> DEFINE drew == [pc |-> "inserted", who |-> call[t].who, id |-> issued + 1]
<1>3. call' = [call EXCEPT ![t] = drew]
  BY DEF InsertUser, NewSession
<1>4. /\ call' \in [Tabs -> [pc : {"idle", "sent", "inserted", "answered", "leaving"},
                              who : Users \cup {NoUser}, id : 0 .. issued']]
      /\ call'[t] = drew
      /\ \A s \in Tabs \ {t} : call'[s] = call[s]
  <2>1. issued \in Nat /\ \A s \in Tabs : call[s] \in
           [pc : {"idle", "sent", "inserted", "answered", "leaving"},
            who : Users \cup {NoUser}, id : 0 .. issued + 1]
    BY DEF Inv, TypeOK, Call
  <2>2. drew \in [pc : {"idle", "sent", "inserted", "answered", "leaving"},
                 who : Users \cup {NoUser}, id : 0 .. issued + 1]
    BY <1>1, <2>1
  <2> QED BY <1>1, <1>3, <2>1, <2>2 DEF Inv, TypeOK
<1>5. TypeOK'
  BY <1>1, <1>4 DEF local, tabs, faults, Inv, TypeOK, Call
<1>6. CallersKnown' /\ DrawnIsFresh' /\ AnswerIsOwn'
  BY <1>1, <1>4 DEF local, tabs, faults, Inv, TypeOK, Call, CallersKnown, DrawnIsFresh,
     AnswerIsOwn
<1> QED
  BY <1>1, <1>5, <1>6 DEF local, tabs, faults, Inv, SessionHasUser, NeverRevived,
     TabActsForItsUser, SentId, Admitted, UserOf

LEMMA Sets ==
    ASSUME Inv, NEW t \in Tabs, SetSession(t)
    PROVE  Inv'
BY DEF SetSession, Inserted, SessionOf, Goto, server, local, tabs, faults, Inv, TypeOK,
       SessionHasUser, NeverRevived, TabActsForItsUser, CallersKnown, DrawnIsFresh,
       AnswerIsOwn, Idle, Call, SentId, Admitted, UserOf

LEMMA Leaves ==
    ASSUME Inv, NEW t \in Tabs, AskLogout(t)
    PROVE  Inv'
<1>1. UNCHANGED <<server, local, tabs, faults>>
  BY DEF AskLogout
<1>2. /\ call' \in [Tabs -> [pc : {"idle", "sent", "inserted", "answered", "leaving"},
                              who : Users \cup {NoUser}, id : 0 .. issued]]
      /\ call'[t].pc = "leaving"
      /\ \A s \in Tabs \ {t} : call'[s] = call[s]
  BY DEF AskLogout, SentId, Inv, TypeOK, Call, Idle
<1>3. TypeOK'
  BY <1>1, <1>2 DEF server, local, tabs, faults, Inv, TypeOK, Call
<1>4. CallersKnown' /\ DrawnIsFresh' /\ AnswerIsOwn'
  BY <1>1, <1>2 DEF server, local, tabs, faults, Inv, TypeOK, CallersKnown, DrawnIsFresh,
     AnswerIsOwn
<1> QED
  BY <1>1, <1>3, <1>4 DEF server, local, tabs, faults, Inv, SessionHasUser, NeverRevived,
     TabActsForItsUser, SentId, Admitted, UserOf

LEMMA Deletes ==
    ASSUME Inv, NEW t \in Tabs, DeleteSession(t)
    PROVE  Inv'
BY DEF DeleteSession, End, Hangs, server, local, tabs, faults, Inv, TypeOK,
       SessionHasUser, NeverRevived, TabActsForItsUser, CallersKnown, DrawnIsFresh,
       AnswerIsOwn, Idle, Call, SentId, Admitted, UserOf

LEMMA Expires ==
    ASSUME Inv, Expire
    PROVE  Inv'
BY DEF Expire, End, server, local, tabs, faults, Inv, TypeOK,
       SessionHasUser, NeverRevived, TabActsForItsUser, CallersKnown, DrawnIsFresh,
       AnswerIsOwn, Idle, Call, SentId, Admitted, UserOf

LEMMA Restarts ==
    ASSUME Inv, Restart
    PROVE  Inv'
BY DEF Restart, server, local, tabs, faults, Inv, TypeOK,
       SessionHasUser, NeverRevived, TabActsForItsUser, CallersKnown, DrawnIsFresh,
       AnswerIsOwn, Idle, Call, SentId, Admitted, UserOf

(* The inductive invariant holds in every reachable state. *)
THEOREM Invariance == Spec => []Inv
<1>1. ASSUME Inv, [Next]_vars PROVE Inv'
  <2>1. CASE UNCHANGED vars
    BY <1>1, <2>1 DEF vars, Inv, TypeOK, SessionHasUser, NeverRevived, TabActsForItsUser,
       CallersKnown, DrawnIsFresh, AnswerIsOwn, Call, SentId, Admitted, UserOf
  <2>2. CASE Next
    BY <1>1, <2>2, Browses, Closes, Submits, Stores, GivesUp, Inserts, Sets, Leaves, Deletes,
       Expires, Restarts DEF Next, TabStep
  <2> QED BY <1>1, <2>1, <2>2
<1> QED BY <1>1, Begins, PTL DEF Spec
(* Every variable of Sessions has its type. *)
THEOREM TypeCorrect == Spec => []TypeOK
<1>1. Inv => TypeOK BY DEF Inv
<1> QED BY <1>1, Invariance, PTL

(* Whoever a session admits has a row in users, whichever call fails        *)
(* (auth lib.rs:188-202).                                                   *)
THEOREM RowFirst == Spec => []SessionHasUser
<1>1. Inv => SessionHasUser BY DEF Inv
<1> QED BY <1>1, Invariance, PTL

(* A session that was ended stays ended (auth lib.rs:187, 210-216).         *)
THEOREM EndedForGood == Spec => []NeverRevived
<1>1. Inv => NeverRevived BY DEF Inv
<1> QED BY <1>1, Invariance, PTL

(* A tab acts for the user who registered in it (storage.rs:13-23).         *)
THEOREM OwnSession == Spec => []TabActsForItsUser
<1>1. Inv => TabActsForItsUser BY DEF Inv
<1> QED BY <1>1, Invariance, PTL
=============================================================================
