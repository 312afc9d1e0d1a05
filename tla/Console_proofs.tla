--------------------------- MODULE Console_proofs ---------------------------
(***************************************************************************)
(* Proofs about Console: types, that an answered passkey challenge is not *)
(* accepted again and that a withdrawal is approved once each time it      *)
(* waits, for any number of consoles, modes and withdrawals and any bounds.*)
(***************************************************************************)
EXTENDS Console, TLAPS

(* A console whose code was right is about to enrol a secret that is there. *)
SecretIsThere == \A c \in Consoles : call[c].pc = "verified" => secret # 0

(* Redis holds no challenge of which a finish was answered. *)
ChallengeUnspent == \A m \in Modes : challenge[m] \notin spent

(* A challenge is for one mode: the keys of two hold different ones, and a  *)
(* call that compares one compares a challenge that was issued, which no    *)
(* other key holds.                                                         *)
OneMode ==
    /\ \A m, o \in Modes : m # o /\ challenge[m] # 0 => challenge[m] # challenge[o]
    /\ \A c \in Consoles : call[c].pc \in {"compared", "stored"}
          => /\ call[c].of \in 1 .. challenges
             /\ call[c].mode \in Modes
             /\ \A o \in Modes : o # call[c].mode => challenge[o] # call[c].of

(* A console asks to approve a withdrawal. *)
AsksForOne == \A c \in Consoles : call[c].pc = "admitted" => call[c].one \in Large

(* While a withdrawal waits one approval more may come than were told.      *)
WaitingIsOwed ==
    \A w \in Large : approvals[w] + (IF Waiting(w) THEN 1 ELSE 0) <= decisions[w]

Inv == /\ TypeOK
       /\ AnsweredOnce
       /\ SecretIsThere
       /\ ChallengeUnspent
       /\ OneMode
       /\ AsksForOne
       /\ WaitingIsOwed

USE NothingAssumption, BoundsAssumption

-----------------------------------------------------------------------------

LEMMA Begin == Init => Inv
<1> HAVE Init
<1>1. Idle \in Call BY DEF Idle, Call
<1>2. TypeOK
  <2>1. /\ challenge \in [Modes -> 0 .. challenges]
        /\ status \in [Large -> {"queued", "pending_cold_wallet", "approved"}]
        /\ phone \in [Consoles -> 0 .. secrets]
    BY DEF Init
  <2>2. list \in [Consoles -> SUBSET Large]
    BY DEF Init
  <2>3. call \in [Consoles -> Call]
    BY <1>1 DEF Init
  <2>4. decisions \in [Large -> 0 .. MaxDecisions] /\ approvals \in [Large -> Nat]
    BY DEF Init
  <2>5. /\ secret \in 0 .. secrets
        /\ secrets \in 0 .. MaxSecrets
        /\ credential \in 0 .. challenges
        /\ challenges \in 0 .. MaxChallenges
        /\ failures \in 0 .. MaxFailures
    BY DEF Init
  <2>6. token \subseteq Consoles /\ spent \subseteq 1 .. challenges
    BY DEF Init
  <2>7. enrolled \in BOOLEAN /\ (enrolled => secret # 0)
    BY DEF Init
  <2> QED BY ONLY <2>1, <2>2, <2>3, <2>4, <2>5, <2>6, <2>7 DEF TypeOK
<1>3. \A c \in Consoles : call[c].pc = "idle"
  BY DEF Init, Idle
<1>4. AnsweredOnce /\ SecretIsThere /\ AsksForOne
  BY <1>3 DEF Init, AnsweredOnce, SecretIsThere, AsksForOne
<1>5. ChallengeUnspent BY DEF Init, ChallengeUnspent
<1>6. OneMode BY <1>3 DEF Init, OneMode
<1>7. WaitingIsOwed BY DEF Init, WaitingIsOwed, Waiting
<1> QED BY <1>2, <1>4, <1>5, <1>6, <1>7 DEF Inv

LEMMA SetsUp ==
    ASSUME Inv, NEW c \in Consoles, SetupTotp(c)
    PROVE  Inv'
BY DEF SetupTotp, redis, desk, Inv, TypeOK, AnsweredOnce,
       SecretIsThere, ChallengeUnspent, OneMode, AsksForOne, WaitingIsOwed, Waiting, Call

LEMMA Enrols ==
    ASSUME Inv, NEW c \in Consoles, Enrol(c)
    PROVE  Inv'
<1>1. /\ call' \in [Consoles -> Call]
      /\ call'[c].pc = "idle"
      /\ \A d \in Consoles : d # c => call'[d] = call[d]
  BY DEF Enrol, Ends, Idle, Inv, TypeOK, Call
<1>2. TypeOK'
  BY <1>1 DEF Enrol, redis, drawn, desk, Inv, TypeOK, SecretIsThere
<1>3. /\ AnsweredOnce' /\ SecretIsThere'
      /\ ChallengeUnspent' /\ OneMode' /\ AsksForOne' /\ WaitingIsOwed'
  <2>1. UNCHANGED <<secret, challenge, spent, challenges, status, decisions, approvals>>
    BY DEF Enrol, redis, drawn, desk
  <2>2. AnsweredOnce' /\ AsksForOne'
    BY <1>1 DEF Inv, AnsweredOnce, AsksForOne
  <2>3. SecretIsThere'
    BY <1>1, <2>1 DEF Enrol, Inv, SecretIsThere
  <2>4. ChallengeUnspent' /\ WaitingIsOwed'
    BY <2>1 DEF Inv, ChallengeUnspent, WaitingIsOwed, Waiting
  <2>5. OneMode'
    BY <1>1, <2>1 DEF Inv, OneMode
  <2> QED BY <2>2, <2>3, <2>4, <2>5
<1> QED BY <1>2, <1>3 DEF Inv

LEMMA ChecksCode ==
    ASSUME Inv, NEW c \in Consoles, CheckCode(c)
    PROVE  Inv'
BY DEF CheckCode, RightCode, Begins, Idle, row, redis, drawn, desk, Inv, TypeOK, AnsweredOnce, SecretIsThere, ChallengeUnspent, OneMode, AsksForOne, WaitingIsOwed,
       Waiting, Call

LEMMA ChecksLogin ==
    ASSUME Inv, NEW c \in Consoles, CheckLogin(c)
    PROVE  Inv'
BY DEF CheckLogin, Passes, RightCode, Begins, Idle, row, redis, drawn, desk, Inv, TypeOK, AnsweredOnce, SecretIsThere, ChallengeUnspent, OneMode, AsksForOne, WaitingIsOwed,
       Waiting, Call

LEMMA Opens ==
    ASSUME Inv, NEW c \in Consoles, OpenSession(c)
    PROVE  Inv'
BY DEF OpenSession, Ends, Idle, row, drawn, desk, Inv, TypeOK, AnsweredOnce, SecretIsThere, ChallengeUnspent, OneMode, AsksForOne, WaitingIsOwed,
       Waiting, Call

LEMMA StartsPasskey ==
    ASSUME Inv, NEW c \in Consoles, StartPasskey(c)
    PROVE  Inv'
BY DEF StartPasskey, row, desk, Inv, TypeOK, AnsweredOnce, SecretIsThere, ChallengeUnspent, OneMode, AsksForOne, WaitingIsOwed,
       Waiting, Call

LEMMA Compares ==
    ASSUME Inv, NEW c \in Consoles, CompareChallenge(c)
    PROVE  Inv'
<1>1. PICK m \in Modes :
          /\ challenge[m] # 0
          /\ call' = [call EXCEPT ![c] = [pc |-> "compared", of |-> challenge[m], mode |-> m,
                                          one |-> NoOne, late |-> challenge[m] \in spent]]
  BY DEF CompareChallenge
<1> DEFINE asks == [pc |-> "compared", of |-> challenge[m], mode |-> m,
                    one |-> NoOne, late |-> challenge[m] \in spent]
<1>2. challenge[m] \in 1 .. challenges /\ challenge[m] \notin spent
  BY <1>1 DEF Inv, TypeOK, ChallengeUnspent
<1>3. asks = [pc |-> "compared", of |-> challenge[m], mode |-> m,
              one |-> NoOne, late |-> FALSE]
  <2>1. (challenge[m] \in spent) = FALSE BY <1>2
  <2> QED BY ONLY <2>1, Zenon
<1>4. /\ asks \in Call
      /\ asks.of \in 1 .. challenges
      /\ asks.mode \in Modes
      /\ ~asks.late
      /\ asks.pc = "compared"
  <2> HIDE DEF asks
  <2>1. challenge[m] \in Nat BY <1>2 DEF Inv, TypeOK
  <2>2. [pc |-> "compared", of |-> challenge[m], mode |-> m, one |-> NoOne,
         late |-> FALSE] \in Call
    BY <2>1 DEF Call
  <2> QED BY ONLY <1>2, <1>3, <2>2, m \in Modes
<1>5. call' = [call EXCEPT ![c] = asks] BY <1>1, Zenon
<1> HIDE DEF asks
<1>6. /\ call' \in [Consoles -> Call]
      /\ call'[c] = asks
      /\ \A d \in Consoles : d # c => call'[d] = call[d]
  BY <1>4, <1>5 DEF Inv, TypeOK
<1>7. TypeOK'
  BY <1>6 DEF CompareChallenge, row, redis, drawn, desk, Inv, TypeOK
<1>8. AnsweredOnce' /\ AsksForOne'
  BY <1>4, <1>6 DEF Inv, AnsweredOnce, AsksForOne
<1>9. SecretIsThere' /\ ChallengeUnspent' /\ WaitingIsOwed'
  BY <1>4, <1>6 DEF CompareChallenge, row, redis, drawn, desk, Inv, SecretIsThere,
     ChallengeUnspent, WaitingIsOwed, Waiting
<1>10. \A o \in Modes : o # m => challenge[o] # challenge[m]
  BY <1>1 DEF Inv, OneMode
<1>11. asks.mode = m /\ asks.of = challenge[m]
  BY DEF asks
<1>12. OneMode'
  BY <1>4, <1>6, <1>10, <1>11 DEF CompareChallenge, redis, drawn, Inv, OneMode
<1> QED BY <1>7, <1>8, <1>9, <1>12 DEF Inv

LEMMA StoresCredential ==
    ASSUME Inv, NEW c \in Consoles, StoreCredential(c)
    PROVE  Inv'
BY DEF StoreCredential, redis, drawn, desk, Inv, TypeOK, AnsweredOnce, SecretIsThere, ChallengeUnspent, OneMode, AsksForOne, WaitingIsOwed,
       Waiting, Call

LEMMA Drops ==
    ASSUME Inv, NEW c \in Consoles, DropChallenge(c)
    PROVE  Inv'
<1>1. /\ call' \in [Consoles -> Call]
      /\ call'[c].pc = "idle"
      /\ \A d \in Consoles : d # c => call'[d] = call[d]
  BY DEF DropChallenge, Ends, Idle, Inv, TypeOK, Call
<1> DEFINE n == call[c].of
           m == call[c].mode
<1>2. n \in 1 .. challenges /\ m \in Modes
  BY DEF DropChallenge, Inv, OneMode
<1>3. /\ challenge' \in [Modes -> 0 .. challenges]
      /\ challenge'[m] = 0
      /\ \A o \in Modes : o # m => challenge'[o] = challenge[o]
  BY <1>2 DEF DropChallenge, Removed, Inv, TypeOK
<1>4. spent' \subseteq 1 .. challenges
  BY <1>2 DEF DropChallenge, Inv, TypeOK
<1>5. TypeOK'
  BY <1>1, <1>3, <1>4 DEF DropChallenge, row, drawn, desk, Inv, TypeOK
<1>6. AnsweredOnce' /\ AsksForOne'
  BY <1>1 DEF Inv, AnsweredOnce, AsksForOne
<1>7. SecretIsThere' /\ WaitingIsOwed'
  BY <1>1 DEF DropChallenge, row, desk, Inv, SecretIsThere, WaitingIsOwed, Waiting
<1>8. \A o \in Modes : o # m => challenge[o] # n
  BY DEF DropChallenge, Inv, OneMode
<1>9. ChallengeUnspent'
  BY <1>2, <1>3, <1>8 DEF DropChallenge, Inv, TypeOK, ChallengeUnspent
<1>10. OneMode'
  BY <1>1, <1>2, <1>3 DEF DropChallenge, drawn, Inv, TypeOK, OneMode
<1> QED BY <1>5, <1>6, <1>7, <1>9, <1>10 DEF Inv

LEMMA Lists ==
    ASSUME Inv, NEW c \in Consoles, ListWithdrawals(c)
    PROVE  Inv'
<1>1. PICK filter \in Filters :
         list' = [list EXCEPT ![c] = {w \in Listed(filter) : CanApprove(w)}]
  BY DEF ListWithdrawals
<1>2. {w \in Listed(filter) : CanApprove(w)} \in SUBSET Large
  BY DEF Listed
<1>3. list' \in [Consoles -> SUBSET Large]
  BY <1>1, <1>2 DEF Inv, TypeOK
<1>4. TypeOK'
  BY <1>3 DEF ListWithdrawals, row, redis, drawn, Inv, TypeOK
<1>5. /\ AnsweredOnce' /\ SecretIsThere'
      /\ ChallengeUnspent' /\ OneMode' /\ AsksForOne' /\ WaitingIsOwed'
  BY DEF ListWithdrawals, row, redis, drawn, Inv, AnsweredOnce,
     SecretIsThere, ChallengeUnspent, OneMode, AsksForOne, WaitingIsOwed, Waiting
<1> QED BY <1>4, <1>5 DEF Inv

LEMMA Asks ==
    ASSUME Inv, NEW c \in Consoles, AskApproval(c)
    PROVE  Inv'
<1>1. PICK w \in list[c] :
          call' = [call EXCEPT ![c] = [pc |-> "admitted", of |-> 0, mode |-> NoMode,
                                       one |-> w, late |-> FALSE]]
  BY DEF AskApproval
<1>2. w \in Large BY DEF Inv, TypeOK
<1>3. /\ call' \in [Consoles -> Call]
      /\ call'[c].pc = "admitted"
      /\ call'[c].one \in Large
      /\ \A d \in Consoles : d # c => call'[d] = call[d]
  BY <1>1, <1>2 DEF Inv, TypeOK, Call
<1>4. TypeOK'
  BY <1>3 DEF AskApproval, row, redis, drawn, desk, Inv, TypeOK
<1>5. /\ AnsweredOnce' /\ SecretIsThere'
      /\ ChallengeUnspent' /\ OneMode' /\ AsksForOne' /\ WaitingIsOwed'
  BY <1>3 DEF AskApproval, row, redis, drawn, desk, Inv, AnsweredOnce,
     SecretIsThere, ChallengeUnspent, OneMode, AsksForOne, WaitingIsOwed, Waiting
<1> QED BY <1>4, <1>5 DEF Inv

LEMMA Approves ==
    ASSUME Inv, NEW c \in Consoles, ApproveWithdrawal(c)
    PROVE  Inv'
<1>1. /\ call' \in [Consoles -> Call]
      /\ call'[c].pc = "idle"
      /\ \A d \in Consoles : d # c => call'[d] = call[d]
  BY DEF ApproveWithdrawal, Ends, Idle, Inv, TypeOK, Call
<1>2. TypeOK'
  BY <1>1 DEF ApproveWithdrawal, row, redis, drawn, Inv, TypeOK
<1>3. /\ AnsweredOnce' /\ SecretIsThere'
      /\ ChallengeUnspent' /\ OneMode' /\ AsksForOne' /\ WaitingIsOwed'
  BY <1>1 DEF ApproveWithdrawal, row, redis, drawn, Inv, TypeOK, AnsweredOnce,
     SecretIsThere, ChallengeUnspent, OneMode, AsksForOne, WaitingIsOwed, Waiting
<1> QED BY <1>2, <1>3 DEF Inv

LEMMA GivesUp ==
    ASSUME Inv, NEW c \in Consoles, Fails(c)
    PROVE  Inv'
BY DEF Fails, Ends, Idle, row, redis, drawn, desk, Inv, TypeOK,
       AnsweredOnce, SecretIsThere, ChallengeUnspent, OneMode, AsksForOne,
       WaitingIsOwed, Waiting, Call

LEMMA GoesCold ==
    ASSUME Inv, NEW w \in Large, SendToColdWallet(w)
    PROVE  Inv'
BY DEF SendToColdWallet, row, redis, drawn, Inv, TypeOK,
       AnsweredOnce, SecretIsThere, ChallengeUnspent, OneMode, AsksForOne,
       WaitingIsOwed, Waiting, Call

LEMMA Closes ==
    ASSUME Inv, CloseSession
    PROVE  Inv'
<1>1. token' \subseteq Consoles BY DEF CloseSession, Inv, TypeOK
<1>2. TypeOK'
  BY <1>1 DEF CloseSession, row, drawn, desk, Inv, TypeOK
<1>3. /\ AnsweredOnce' /\ SecretIsThere'
      /\ ChallengeUnspent' /\ OneMode' /\ AsksForOne' /\ WaitingIsOwed'
  BY DEF CloseSession, row, drawn, desk, Inv, AnsweredOnce,
     SecretIsThere, ChallengeUnspent, OneMode, AsksForOne, WaitingIsOwed, Waiting
<1> QED BY <1>2, <1>3 DEF Inv

LEMMA Expires ==
    ASSUME Inv, ExpireChallenge
    PROVE  Inv'
<1>1. PICK m \in Modes : challenge[m] # 0 /\ challenge' = [challenge EXCEPT ![m] = 0]
  BY DEF ExpireChallenge
<1>2. /\ challenge' \in [Modes -> 0 .. challenges]
      /\ challenge'[m] = 0
      /\ \A o \in Modes : o # m => challenge'[o] = challenge[o]
  BY <1>1 DEF Inv, TypeOK
<1>3. TypeOK'
  BY <1>2 DEF ExpireChallenge, row, drawn, desk, Inv, TypeOK
<1>4. AnsweredOnce' /\ SecretIsThere' /\ AsksForOne' /\ WaitingIsOwed'
  BY DEF ExpireChallenge, row, drawn, desk, Inv, AnsweredOnce,
     SecretIsThere, AsksForOne, WaitingIsOwed, Waiting
<1>5. ChallengeUnspent'
  BY <1>2 DEF ExpireChallenge, Inv, TypeOK, ChallengeUnspent
<1>6. OneMode'
  BY <1>2 DEF ExpireChallenge, drawn, Inv, TypeOK, OneMode
<1> QED BY <1>3, <1>4, <1>5, <1>6 DEF Inv

(* The inductive invariant holds in every reachable state. *)
THEOREM Invariance == Spec => []Inv
<1>1. ASSUME Inv, [Next]_vars PROVE Inv'
  <2>1. CASE UNCHANGED vars
    BY <1>1, <2>1 DEF vars, Inv, TypeOK, AnsweredOnce, SecretIsThere,
       ChallengeUnspent, OneMode, AsksForOne, WaitingIsOwed, Waiting, Call
  <2>2. CASE Next
    BY <1>1, <2>2, SetsUp, Enrols, ChecksCode, ChecksLogin, Opens, StartsPasskey, Compares,
       StoresCredential, Drops, Lists, Asks, Approves, GivesUp, GoesCold, Closes,
       Expires
       DEF Next, ConsoleStep
  <2> QED BY <1>1, <2>1, <2>2
<1> QED BY <1>1, Begin, PTL DEF Spec

(* Every variable of Console has its type, and who is enrolled has a secret.*)
THEOREM TypeCorrect == Spec => []TypeOK
<1>1. Inv => TypeOK BY DEF Inv
<1> QED BY <1>1, Invariance, PTL

(* An answered challenge is not accepted again (auth lib.rs:333-363).       *)
THEOREM ChallengeOnce == Spec => []AnsweredOnce
<1>1. Inv => AnsweredOnce BY DEF Inv
<1> QED BY <1>1, Invariance, PTL

(* One console at most is told that it approved a withdrawal each time it   *)
(* waits for approval (admin lib.rs:415-424).                               *)
THEOREM ApprovalOnce == Spec => []ApprovedOnce
<1>1. Inv => ApprovedOnce BY DEF Inv, TypeOK, WaitingIsOwed, ApprovedOnce
<1> QED BY <1>1, Invariance, PTL
=============================================================================
