------------------------------ MODULE Sessions ------------------------------
(***************************************************************************)
(* The sessions of users: register and logout of the auth crate, statement *)
(* by statement, with the expiry of Redis, and the browser at the other    *)
(* end: tabs that share LocalStorage and keep a SessionStorage each.       *)
(*                                                                         *)
(* A user is who signs with the keys of a recovery phrase; the phrase, the *)
(* public key and the user_id stand for each other.                        *)
(***************************************************************************)
EXTENDS Naturals

CONSTANTS
    Users,          \* those whose phrases are created or imported
    Tabs,           \* the tabs of one browser
    NoUser,         \* nothing stored
    MaxSessions,    \* bound: session ids drawn by register
    MaxFailures,    \* bound: failed calls of Postgres or Redis, lost answers
    MaxRestarts     \* bound: restarts of the process

ASSUME NoUserAssumption == NoUser \notin Users
ASSUME BoundsAssumption == /\ MaxSessions \in Nat
                           /\ MaxFailures \in Nat
                           /\ MaxRestarts \in Nat

VARIABLES
    users,      \* the rows of the table users
    session,    \* Redis: session:{id} -> user_id, while it has not expired
    issued,     \* how many session ids were drawn
    call,       \* what each tab is waiting for
    mnemonic,   \* LocalStorage: torex_mnemonic
    user_id,    \* LocalStorage: torex_user_id
    session_id, \* SessionStorage of each tab: torex_session_id, 0 when none
    page,       \* the page each tab shows
    signed,     \* history: who registered in a tab since it was opened
    ended,      \* history: the sessions that were logged out or expired
    failures,
    restarts

server == <<users, session, issued, ended>>
local  == <<mnemonic, user_id>>
tabs   == <<session_id, page, signed>>
faults == <<failures, restarts>>
vars   == <<users, session, issued, ended, call, mnemonic, user_id, session_id, page,
            signed, failures, restarts>>

Idle == [pc |-> "idle", who |-> NoUser, id |-> 0]

Goto(t, pc) == call' = [call EXCEPT ![t].pc = pc]

Hangs(t) == call' = [call EXCEPT ![t] = Idle]

-----------------------------------------------------------------------------
(* The browser. *)

(* RootGate: whoever has a phrase goes on to trade, with a session or not.  *)
OpenRoot(t) ==
    /\ page[t] = "closed"
    /\ page' = [page EXCEPT ![t] = IF mnemonic # NoUser THEN "trade" ELSE "onboarding"]
    /\ UNCHANGED <<server, call, local, session_id, signed, faults>>

OpenOnboarding(t) ==
    /\ page[t] = "trade"
    /\ call[t].pc = "idle"
    /\ page' = [page EXCEPT ![t] = "onboarding"]
    /\ UNCHANGED <<server, call, local, session_id, signed, faults>>

(* SessionStorage goes with its tab, and so does the call under way. *)
CloseTab(t) ==
    /\ page[t] # "closed"
    /\ page' = [page EXCEPT ![t] = "closed"]
    /\ session_id' = [session_id EXCEPT ![t] = 0]
    /\ signed' = [signed EXCEPT ![t] = NoUser]
    /\ Hangs(t)
    /\ UNCHANGED <<server, local, faults>>

(* The button of a phrase, new or imported: disabled while one is pending.  *)
CanSubmit(t) == page[t] = "onboarding" /\ call[t].pc = "idle"

SubmitPhrase(t) ==
    /\ CanSubmit(t)
    /\ \E u \in Users :
          call' = [call EXCEPT ![t] = [pc |-> "sent", who |-> u, id |-> 0]]
    /\ UNCHANGED <<server, local, tabs, faults>>

(* mutant: LocalStorage, which the tabs share *)
EveryTab(t) == Tabs

(* The tabs that see what tab t puts into SessionStorage. *)
Keepers(t) == {t}

StoreIdentity(t) ==
    /\ call[t].pc = "answered"
    /\ mnemonic' = call[t].who
    /\ user_id' = call[t].who
    /\ session_id' = [s \in Tabs |-> IF s \in Keepers(t) THEN call[t].id ELSE session_id[s]]
    /\ signed' = [signed EXCEPT ![t] = call[t].who]
    /\ page' = [page EXCEPT ![t] = "trade"]
    /\ Hangs(t)
    /\ UNCHANGED <<server, faults>>

-----------------------------------------------------------------------------
(* register *)

(* verify_timestamp: signed more than 30 s before or after the server's now. *)
RefuseTimestamp(t) ==
    /\ call[t].pc = "sent"
    /\ Hangs(t)
    /\ UNCHANGED <<server, local, tabs, faults>>

(* mutant: an id nobody has counted *)
SkipsOne == issued + 2

(* Uuid::now_v7 *)
NewSession == issued + 1

(* ON CONFLICT DO NOTHING: who registers again finds the row there. *)
InsertUser(t) ==
    /\ call[t].pc = "sent"
    /\ issued < MaxSessions
    /\ issued' = issued + 1
    /\ users' = users \cup {call[t].who}
    /\ call' = [call EXCEPT ![t] = [pc |-> "inserted", who |-> call[t].who,
                                    id |-> NewSession]]
    /\ UNCHANGED <<session, ended, local, tabs, faults>>

(* mutant: the session is set before the row is there *)
Drawn(t) == call[t].pc = "sent"

Inserted(t) == call[t].pc = "inserted"

(* mutant: the id that the client sends along *)
SentAlong(t) == IF session_id[t] # 0 THEN session_id[t] ELSE call[t].id

SessionOf(t) == call[t].id

(* SETEX session:{id} user_id 86400 *)
SetSession(t) ==
    /\ Inserted(t)
    /\ session' = [id \in DOMAIN session \cup {SessionOf(t)} |->
                      IF id = SessionOf(t) THEN call[t].who ELSE session[id]]
    /\ Goto(t, "answered")
    /\ UNCHANGED <<users, issued, ended, local, tabs, faults>>

-----------------------------------------------------------------------------
(* authenticate_headers, logout *)

(* The header X-Session-Id of a call. *)
SentId(t) == session_id[t]

Admitted(t) == SentId(t) \in DOMAIN session

UserOf(t) == session[SentId(t)]

(* The extractor has found the session ... *)
AskLogout(t) ==
    /\ page[t] = "trade"
    /\ call[t].pc = "idle"
    /\ Admitted(t)
    /\ call' = [call EXCEPT ![t] = [pc |-> "leaving", who |-> NoUser,
                                    id |-> SentId(t)]]
    /\ UNCHANGED <<server, local, tabs, faults>>

End(id) ==
    /\ session' = [i \in DOMAIN session \ {id} |-> session[i]]
    /\ ended' = ended \cup ({id} \cap DOMAIN session)

(* ... and DEL removes it, if it is still there. *)
DeleteSession(t) ==
    /\ call[t].pc = "leaving"
    /\ End(call[t].id)
    /\ Hangs(t)
    /\ UNCHANGED <<users, issued, local, tabs, faults>>

Expire ==
    /\ \E id \in DOMAIN session : End(id)
    /\ UNCHANGED <<users, issued, call, local, tabs, faults>>

(* A statement fails, or the answer is lost: the page shows an error, and   *)
(* what was written remains.                                                *)
CallFails(t) ==
    /\ call[t].pc # "idle"
    /\ failures < MaxFailures
    /\ failures' = failures + 1
    /\ Hangs(t)
    /\ UNCHANGED <<server, local, tabs, restarts>>

(* Rows and sessions outlive the process, its calls do not. *)
Restart ==
    /\ restarts < MaxRestarts
    /\ restarts' = restarts + 1
    /\ call' = [t \in Tabs |-> IF call[t].pc = "answered" THEN call[t] ELSE Idle]
    /\ UNCHANGED <<server, local, tabs, failures>>

-----------------------------------------------------------------------------

Init == /\ users = {}
        /\ session = [id \in {} |-> NoUser]
        /\ issued = 0
        /\ ended = {}
        /\ call = [t \in Tabs |-> Idle]
        /\ mnemonic = NoUser
        /\ user_id = NoUser
        /\ session_id = [t \in Tabs |-> 0]
        /\ page = [t \in Tabs |-> "closed"]
        /\ signed = [t \in Tabs |-> NoUser]
        /\ failures = 0
        /\ restarts = 0

TabStep(t) == \/ OpenRoot(t) \/ OpenOnboarding(t) \/ CloseTab(t)
              \/ SubmitPhrase(t) \/ StoreIdentity(t)
              \/ RefuseTimestamp(t) \/ InsertUser(t) \/ SetSession(t)
              \/ AskLogout(t) \/ DeleteSession(t) \/ CallFails(t)

Next == \/ \E t \in Tabs : TabStep(t)
        \/ Expire
        \/ Restart

Spec == Init /\ [][Next]_vars

-----------------------------------------------------------------------------
(* Properties. *)

Call == [pc  : {"idle", "sent", "inserted", "answered", "leaving"},
         who : Users \cup {NoUser},
         id  : 0 .. issued]

TypeOK ==
    /\ users \subseteq Users
    /\ issued \in 0 .. MaxSessions
    /\ DOMAIN session \subseteq 1 .. issued
    /\ session = [id \in DOMAIN session |-> session[id]]
    /\ \A id \in DOMAIN session : session[id] \in Users
    /\ ended \subseteq 1 .. issued
    /\ call \in [Tabs -> Call]
    /\ mnemonic \in Users \cup {NoUser}
    /\ user_id \in Users \cup {NoUser}
    /\ session_id \in [Tabs -> 0 .. issued]
    /\ page \in [Tabs -> {"closed", "onboarding", "trade"}]
    /\ signed \in [Tabs -> Users \cup {NoUser}]
    /\ failures \in 0 .. MaxFailures
    /\ restarts \in 0 .. MaxRestarts

(* Whoever a session admits has a row: orders, balances and withdrawals     *)
(* refer to it.  The row and the session are written by two calls to two    *)
(* databases, and any of them may fail (auth lib.rs:188-202).               *)
SessionHasUser == \A id \in DOMAIN session : session[id] \in users

(* A session that was logged out or expired stays ended, whatever the tab   *)
(* that still has its id, a late logout or another registration do          *)
(* (auth lib.rs:156-171, 187, 210-216).                                     *)
NeverRevived == ended \cap DOMAIN session = {}

(* A tab acts for the user who registered in it, also when another tab of   *)
(* the browser has registered another user since and the phrase they share  *)
(* is that user's (storage.rs:13-23, onboarding.rs:36-41).                  *)
TabActsForItsUser == \A t \in Tabs : Admitted(t) => UserOf(t) = signed[t]
=============================================================================
