------------------------------ MODULE Console -------------------------------
(***************************************************************************)
(* The administrators: login with a one-time code (TOTP), its enrolment,   *)
(* the passkey challenges, the sessions of the console and the list of     *)
(* withdrawals its dashboard shows and approves.  A call is a sequence of  *)
(* statements of the auth and admin crates on Postgres and Redis, and the  *)
(* calls of several consoles interleave.                                   *)
(*                                                                         *)
(* A secret stands for the codes of its current 30 seconds; passwords are  *)
(* right and captchas passed.  A console waits for one call at a time.     *)
(***************************************************************************)
EXTENDS Naturals

CONSTANTS
    Consoles,       \* browsers or clients of the administrator
    Modes,          \* what a passkey challenge is for: register, login
    NoMode,         \* no challenge
    Large,          \* the withdrawals above the limit of the cold wallet
    NoOne,          \* no withdrawal
    MaxSecrets,     \* bound: TOTP secrets generated
    MaxChallenges,  \* bound: passkey challenges issued
    MaxDecisions,   \* bound: how often the executor decides on a withdrawal
    MaxFailures     \* bound: failed calls of Postgres or Redis, lost answers

ASSUME NothingAssumption == NoMode \notin Modes /\ NoOne \notin Large
ASSUME BoundsAssumption == /\ MaxSecrets \in Nat
                           /\ MaxChallenges \in Nat
                           /\ MaxDecisions \in Nat
                           /\ MaxFailures \in Nat

VARIABLES
    secret,     \* admin_users.totp_secret, 0 when NULL
    enrolled,   \* admin_users.totp_enrolled
    credential, \* admin_users.passkey_credential: the challenge it answered, 0 when NULL
    challenge,  \* Redis: admin:passkey:{mode}:{username}, 0 when there is none
    token,      \* the consoles whose SessionStorage has a token that Redis admits
    status,     \* withdrawals.status
    secrets,    \* how many secrets and ...
    challenges, \* ... challenges were drawn
    phone,      \* the secret each console's authenticator holds, 0 when none
    list,       \* the withdrawals each dashboard shows with a button
    call,       \* what each console is waiting for
    spent,      \* history: the challenges of which a finish was answered
    decisions,  \* history: how often the executor sent each to the cold wallet
    approvals,  \* history: how often a console was told of its approval
    failures

row    == <<secret, enrolled, credential>>
redis  == <<challenge, token>>
drawn  == <<secrets, challenges>>
desk   == <<status, list, decisions, approvals>>
vars   == <<secret, enrolled, credential, challenge, token, status, secrets, challenges,
            phone, list, call, spent, decisions, approvals, failures>>

(* of is the challenge that a finish answers; late says that a finish of it *)
(* had been answered before.                                                *)
Idle == [pc |-> "idle", of |-> 0, mode |-> NoMode, one |-> NoOne, late |-> FALSE]

Begins(c, pc) == /\ call[c].pc = "idle"
                 /\ call' = [call EXCEPT ![c] = [Idle EXCEPT !.pc = pc]]

Ends(c) == call' = [call EXCEPT ![c] = Idle]

-----------------------------------------------------------------------------
(* admin_totp_setup, admin_totp_verify *)

(* UPDATE admin_users SET totp_secret, for whoever asks: no session is       *)
(* looked for, and the row is enrolled or not as before.                    *)
(* The administrator may or may not scan the secret that is answered.       *)
SetupTotp(c) ==
    /\ call[c].pc = "idle"
    /\ secrets < MaxSecrets
    /\ secrets' = secrets + 1
    /\ secret' = secrets + 1
    /\ phone' \in {phone, [phone EXCEPT ![c] = secrets + 1]}
    /\ UNCHANGED <<enrolled, credential, redis, challenges, call, spent, desk, failures>>

(* mutant: no secret and no code are the same *)
SameCode(code) == code = secret

RightCode(code) == secret # 0 /\ code = secret

(* The code is checked against the secret of the row read ... *)
CheckCode(c) ==
    /\ RightCode(phone[c])
    /\ Begins(c, "verified")
    /\ UNCHANGED <<row, redis, drawn, phone, spent, desk, failures>>

(* ... and whatever secret the row has by now is enrolled. *)
Enrol(c) ==
    /\ call[c].pc = "verified"
    /\ enrolled' = TRUE
    /\ Ends(c)
    /\ UNCHANGED <<secret, credential, redis, drawn, phone, spent, desk, failures>>

-----------------------------------------------------------------------------
(* admin_login *)

Passes(code) == enrolled => RightCode(code)

(* The page sends a code only after an answer asks for one; clients of the  *)
(* API send it when they have it.                                           *)
CheckLogin(c) ==
    /\ \E code \in {0, phone[c]} : Passes(code)
    /\ Begins(c, "checked")
    /\ UNCHANGED <<row, redis, drawn, phone, spent, desk, failures>>

(* SETEX admin:session:{token} username 3600, and the page keeps the token  *)
(* instead of the one it had.                                               *)
OpenSession(c) ==
    /\ call[c].pc = "checked"
    /\ token' = token \cup {c}
    /\ Ends(c)
    /\ UNCHANGED <<row, challenge, drawn, phone, spent, desk, failures>>

(* It has expired in Redis, or SignOut has made the page forget it.         *)
CloseSession ==
    /\ \E c \in token : token' = token \ {c}
    /\ UNCHANGED <<row, challenge, drawn, phone, spent, desk, call, failures>>

-----------------------------------------------------------------------------
(* issue_passkey_challenge, finish_passkey *)

StartPasskey(c) ==
    /\ call[c].pc = "idle"
    /\ challenges < MaxChallenges
    /\ challenges' = challenges + 1
    /\ \E m \in Modes : challenge' = [challenge EXCEPT ![m] = challenges + 1]
    /\ UNCHANGED <<row, token, secrets, phone, call, spent, desk, failures>>

(* GET: the key has to hold the challenge that is answered, which           *)
(* passkey_get shows to every console.                                      *)
CompareChallenge(c) ==
    /\ call[c].pc = "idle"
    /\ \E m \in Modes :
          /\ challenge[m] # 0
          /\ call' = [call EXCEPT ![c] = [pc |-> "compared", of |-> challenge[m],
                                          mode |-> m, one |-> NoOne,
                                          late |-> challenge[m] \in spent]]
    /\ UNCHANGED <<row, redis, drawn, phone, spent, desk, failures>>

StoreCredential(c) ==
    /\ call[c].pc = "compared"
    /\ credential' = call[c].of
    /\ call' = [call EXCEPT ![c].pc = "stored"]
    /\ UNCHANGED <<secret, enrolled, redis, drawn, phone, spent, desk, failures>>

(* mutant: the key is left to its 300 seconds *)
LeftToExpire(m) == challenge

Removed(m) == [challenge EXCEPT ![m] = 0]

(* DEL removes the key, also with a challenge issued in the meantime. *)
DropChallenge(c) ==
    /\ call[c].pc = "stored"
    /\ challenge' = Removed(call[c].mode)
    /\ spent' = spent \cup {call[c].of}
    /\ Ends(c)
    /\ UNCHANGED <<row, token, drawn, phone, desk, failures>>

-----------------------------------------------------------------------------
(* The withdrawals of the dashboard. *)

(* flush_withdrawals; a withdrawal that is delivered again is sent to the   *)
(* cold wallet again, whatever became of it.                                *)
SendToColdWallet(w) ==
    /\ decisions[w] < MaxDecisions
    /\ decisions' = [decisions EXCEPT ![w] = @ + 1]
    /\ status' = [status EXCEPT ![w] = "pending_cold_wallet"]
    /\ UNCHANGED <<row, redis, drawn, phone, spent, list, approvals, call, failures>>

(* What the dashboard may ask for; for "all" it asks for no status, and     *)
(* handle_list_withdrawals takes that for "pending", which no statement of  *)
(* any crate writes: both lists are empty.                                  *)
Filters == {"all", "pending", "pending_cold_wallet", "approved"}

Listed(filter) ==
    {w \in Large : status[w] = IF filter = "all" THEN "pending" ELSE filter}

(* The rows with a button. *)
CanApprove(w) == status[w] = "pending_cold_wallet"

(* check_admin_auth *)
Admits(c) == c \in token

(* refresh_withdrawals: the list shown is as old as the last answer.        *)
ListWithdrawals(c) ==
    /\ Admits(c)
    /\ \E filter \in Filters :
          list' = [list EXCEPT ![c] = {w \in Listed(filter) : CanApprove(w)}]
    /\ UNCHANGED <<row, redis, drawn, phone, spent, status, decisions, approvals, call,
                   failures>>

(* approve_withdrawal, from a list that may be old: the session is found ...*)
AskApproval(c) ==
    /\ call[c].pc = "idle"
    /\ Admits(c)
    /\ \E w \in list[c] :
          call' = [call EXCEPT ![c] = [pc |-> "admitted", of |-> 0, mode |-> NoMode,
                                       one |-> w, late |-> FALSE]]
    /\ UNCHANGED <<row, redis, drawn, phone, spent, desk, failures>>

(* mutant: WHERE withdrawal_id = $1 *)
Known(w) == TRUE

Waiting(w) == status[w] = "pending_cold_wallet"

(* ... and the row updated, if it still waits; otherwise the answer is 404. *)
ApproveWithdrawal(c) ==
    LET w == call[c].one
    IN  /\ call[c].pc = "admitted"
        /\ IF Waiting(w)
           THEN /\ status' = [status EXCEPT ![w] = "approved"]
                /\ approvals' = [approvals EXCEPT ![w] = @ + 1]
           ELSE UNCHANGED <<status, approvals>>
        /\ Ends(c)
        /\ UNCHANGED <<row, redis, drawn, phone, spent, list, decisions, failures>>

-----------------------------------------------------------------------------

ExpireChallenge ==
    /\ \E m \in Modes : challenge[m] # 0 /\ challenge' = [challenge EXCEPT ![m] = 0]
    /\ UNCHANGED <<row, token, drawn, phone, spent, desk, call, failures>>

(* A statement fails or the answer is lost; what was written remains.       *)
Fails(c) ==
    /\ call[c].pc # "idle"
    /\ failures < MaxFailures
    /\ failures' = failures + 1
    /\ Ends(c)
    /\ UNCHANGED <<row, redis, drawn, phone, spent, desk>>

Init == /\ secret = 0
        /\ enrolled = FALSE
        /\ credential = 0
        /\ challenge = [m \in Modes |-> 0]
        /\ token = {}
        /\ status = [w \in Large |-> "queued"]
        /\ secrets = 0
        /\ challenges = 0
        /\ phone = [c \in Consoles |-> 0]
        /\ list = [c \in Consoles |-> {}]
        /\ call = [c \in Consoles |-> Idle]
        /\ spent = {}
        /\ decisions = [w \in Large |-> 0]
        /\ approvals = [w \in Large |-> 0]
        /\ failures = 0

ConsoleStep(c) == \/ SetupTotp(c) \/ CheckCode(c) \/ Enrol(c)
                  \/ CheckLogin(c) \/ OpenSession(c)
                  \/ StartPasskey(c) \/ CompareChallenge(c) \/ StoreCredential(c)
                  \/ DropChallenge(c)
                  \/ ListWithdrawals(c) \/ AskApproval(c) \/ ApproveWithdrawal(c)
                  \/ Fails(c)

Next == \/ \E c \in Consoles : ConsoleStep(c)
        \/ \E w \in Large : SendToColdWallet(w)
        \/ CloseSession
        \/ ExpireChallenge

Spec == Init /\ [][Next]_vars

-----------------------------------------------------------------------------
(* Properties. *)

Call == [pc   : {"idle", "verified", "checked", "compared", "stored", "admitted"},
         of   : Nat,
         mode : Modes \cup {NoMode},
         one  : Large \cup {NoOne},
         late : BOOLEAN]

TypeOK ==
    /\ secret \in 0 .. secrets
    /\ secrets \in 0 .. MaxSecrets
    /\ enrolled \in BOOLEAN
    /\ enrolled => secret # 0
    /\ credential \in 0 .. challenges
    /\ challenge \in [Modes -> 0 .. challenges]
    /\ challenges \in 0 .. MaxChallenges
    /\ token \subseteq Consoles
    /\ status \in [Large -> {"queued", "pending_cold_wallet", "approved"}]
    /\ phone \in [Consoles -> 0 .. secrets]
    /\ list \in [Consoles -> SUBSET Large]
    /\ call \in [Consoles -> Call]
    /\ spent \subseteq 1 .. challenges
    /\ decisions \in [Large -> 0 .. MaxDecisions]
    /\ approvals \in [Large -> Nat]
    /\ failures \in 0 .. MaxFailures

(* A passkey challenge of which a finish was answered is not accepted by    *)
(* one that begins later, whatever challenges were issued, expired or left  *)
(* behind by a failed finish in between (auth lib.rs:333-363).              *)
AnsweredOnce == \A c \in Consoles : call[c].pc \in {"compared", "stored"} => ~call[c].late

(* For each time a withdrawal was sent to the cold wallet one console at    *)
(* most is told that it has approved it: the dashboards show old lists, and *)
(* two of them may ask for the same one (admin lib.rs:415-424).             *)
ApprovedOnce == \A w \in Large : approvals[w] <= decisions[w]
=============================================================================
