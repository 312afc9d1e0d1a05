--------------------------- MODULE Channel_proofs ---------------------------
(***************************************************************************)
(* Theorems about Channel, for every set of subscriptions, every capacity  *)
(* and every number of messages and trades.                                *)
(***************************************************************************)
EXTENDS Channel, SequenceTheorems, TLAPS

(* The stages of a Noise session are numbers in what follows. *)
USE DEF NewNoise, Written, ReadBy, Finished, Shows

-----------------------------------------------------------------------------
(* What is where: the messages of the gateway name their own key, and each  *)
(* end has the session that goes with its key and its side.                 *)

ServerChain == [root : {Root("crate", "serverKey", "clientKey")},
                label : {"initiator-recv"}, step : Nat]

Payloads == [feed : Feeds, n : Nat]

Message == {m \in [ratchet : {"serverKey"}, counter : Nat, key : ServerChain,
                   payload : Payloads] : m.key.step = m.counter}

AnyChain == [root : {Root(k, "serverKey", "clientKey") : k \in {"crate", "page"}},
             label : {"initiator-send", "initiator-recv"}, step : Nat]

AnyServerSession ==
    [kdf : {"crate"}, own : {"serverKey"}, peer : {"clientKey"},
     sending : ServerChain, sent : Nat, receiving : AnyChain, received : Nat]

ServerSession == {s \in AnyServerSession : s.sending.step = s.sent}

ClientSession ==
    [kdf : {ClientKdf}, own : {"clientKey"}, peer : {"serverKey"},
     sending : AnyChain, sent : Nat,
     receiving : [root : {Root(ClientKdf, "clientKey", "serverKey")},
                  label : {"initiator-recv"}, step : Nat],
     received : Nat]

Command == [ratchet : {"clientKey"}, counter : Nat, key : AnyChain, payload : {"subscribe"}]

FeedOK(f) ==
    \/ feed[f] \in [pc : {"off", "idle", "ended"}, payload : {"none"}]
    \/ feed[f] \in [pc : {"encrypt"}, payload : Payloads]
    \/ feed[f] \in [pc : {"send"}, payload : {m \in Message : m.counter < server.sent}]

SessionsOK ==
    /\ noise \in [client : {0, 1, 3}, server : {0, 2, 3}]
    /\ noise["server"] = 3 => noise["client"] = 3 /\ server \in ServerSession
    /\ noise["server"] # 3 => \A f \in Feeds : FeedIs(f, "off")
    /\ noise["client"] = 3 => client \in ClientSession
    /\ open \in BOOLEAN
    /\ up \in Seq(Command)

TrafficOK ==
    /\ down \in Seq(Message)
    /\ \A i \in DOMAIN down : down[i].counter < server.sent
    /\ down # << >> => noise["server"] = 3
    /\ DOMAIN feed = Feeds
    /\ \A f \in Feeds : FeedOK(f)
    /\ unread \in [Tapes -> Seq(1 .. MaxTrades)]
    /\ trades \in 0 .. MaxTrades

(* What the client has opened lies behind its chain, and as long as nothing *)
(* came late, chain and counter stand after the newest message.             *)
HistoryOK ==
    /\ got \in Seq(Message)
    /\ newest \in Nat
    /\ late \in BOOLEAN
    /\ noise["client"] # 3 => got = << >> /\ newest = 0
    /\ \A i \in DOMAIN got : Nth(i) < client.receiving.step
    /\ OpenedInOrder

UpToDate ==
    ~late /\ noise["client"] = 3 =>
        client.received = newest /\ client.receiving.step = newest

IInv == SessionsOK /\ TrafficOK /\ HistoryOK /\ UpToDate

-----------------------------------------------------------------------------
(* Facts about the ratchet. *)

LEMMA SameRoot == \A k : Root(k, "clientKey", "serverKey") = Root(k, "serverKey", "clientKey")
BY DEF Root

LEMMA ClientChain ==
    ASSUME NEW s \in ClientSession, NEW k \in Nat
    PROVE  /\ Advanced(s.receiving, k) \in
                  [root : {Root(ClientKdf, "clientKey", "serverKey")},
                   label : {"initiator-recv"}, step : Nat]
           /\ Advanced(s.receiving, k).step = s.receiving.step + k
BY DEF Advanced, ClientSession

LEMMA ServerChains ==
    ASSUME NEW s \in ServerSession, NEW k \in Nat
    PROVE  /\ Advanced(s.receiving, k) \in AnyChain
           /\ Advanced(s.sending, k) \in ServerChain
           /\ Advanced(s.sending, k).step = s.sent + k
BY DEF Advanced, ServerSession, AnyServerSession, ServerChain, AnyChain

LEMMA Reading ==
    ASSUME NEW s \in ClientSession, NEW m \in Message
    PROVE  /\ Ratcheted(s, m) = s
           /\ Skips(s, m) \in Nat
           /\ AfterDecrypt(s, m) \in ClientSession
           /\ AfterDecrypt(s, m).received = m.counter + 1
           /\ AfterDecrypt(s, m).receiving.step = s.receiving.step + Skips(s, m)
<1>1. s.peer = "serverKey" /\ m.ratchet = "serverKey" /\ m.counter \in Nat /\ s.received \in Nat
  BY DEF ClientSession, Message
<1>2. Ratcheted(s, m) = s
  BY <1>1 DEF Ratcheted
<1>3. Skips(s, m) \in Nat
  BY <1>1 DEF Skips
<1>4. AfterDecrypt(s, m) =
          [s EXCEPT !.receiving = Advanced(@, Skips(s, m)), !.received = m.counter + 1]
  BY <1>2 DEF AfterDecrypt
<1> DEFINE k == Skips(s, m)
           r == m.counter + 1
<1>5. k \in Nat /\ r \in Nat
  BY <1>1, <1>3
<1>6. AfterDecrypt(s, m) = [s EXCEPT !.receiving = Advanced(@, k), !.received = r]
  BY <1>4
<1> HIDE DEF k, r
<1> DEFINE chain == Advanced(s.receiving, k)
<1>a. /\ chain \in [root : {Root(ClientKdf, "clientKey", "serverKey")},
                     label : {"initiator-recv"}, step : Nat]
      /\ chain.step = s.receiving.step + k
      /\ AfterDecrypt(s, m) = [s EXCEPT !.receiving = chain, !.received = r]
  BY <1>5, <1>6, ClientChain
<1> HIDE DEF chain
<1>7. AfterDecrypt(s, m) \in ClientSession
  BY ONLY <1>5, <1>a, s \in ClientSession DEF ClientSession
<1>8. AfterDecrypt(s, m).received = r
  BY ONLY <1>5, <1>a, s \in ClientSession DEF ClientSession
<1>9. AfterDecrypt(s, m).receiving.step = s.receiving.step + k
  BY ONLY <1>5, <1>a, s \in ClientSession DEF ClientSession
<1> QED BY <1>2, <1>3, <1>7, <1>8, <1>9 DEF k, r

(* The client opens a message only with the key its chain comes to. *)
LEMMA Opening ==
    ASSUME NEW s \in ClientSession, NEW m \in Message
    PROVE  /\ Opens(s, m) => /\ m.counter >= s.received
                             /\ m.key.step = s.receiving.step + (m.counter - s.received)
                             /\ m.key.step < s.receiving.step + Skips(s, m)
           /\ /\ ClientKdf = "crate"
              /\ s.received = s.receiving.step
              /\ m.counter >= s.received
              => Opens(s, m)
<1>1. Ratcheted(s, m) = s
  BY Reading
<1>2. /\ s.receiving.step \in Nat /\ s.received \in Nat /\ m.counter \in Nat
      /\ m.key.step = m.counter
  BY DEF ClientSession, Message, ServerChain
<1>3. Opens(s, m) <=> /\ m.counter >= s.received
                      /\ m.key = Advanced(s.receiving, m.counter - s.received)
  BY <1>1 DEF Opens
<1>4. Advanced(s.receiving, m.counter - s.received).step
          = s.receiving.step + (m.counter - s.received)
  BY DEF ClientSession, Advanced
<1>5. ASSUME Opens(s, m)
      PROVE  /\ m.counter >= s.received
             /\ m.key.step = s.receiving.step + (m.counter - s.received)
             /\ m.key.step < s.receiving.step + Skips(s, m)
  <2>1. m.counter >= s.received
    BY <1>3, <1>5
  <2>2. m.key.step = s.receiving.step + (m.counter - s.received)
    BY ONLY <1>3, <1>4, <1>5
  <2>3. Skips(s, m) = m.counter - s.received + 1
    BY ONLY <2>1 DEF Skips
  <2>4. \A a, b, c \in Nat : a >= b => c + (a - b) < c + (a - b + 1)
    OBVIOUS
  <2>5. s.receiving.step + (m.counter - s.received)
            < s.receiving.step + (m.counter - s.received + 1)
    BY ONLY <1>2, <2>1, <2>4
  <2> QED BY ONLY <2>1, <2>2, <2>3, <2>5
<1>6. ASSUME ClientKdf = "crate", s.received = s.receiving.step, m.counter >= s.received
      PROVE  Opens(s, m)
  <2>1. s.receiving = [root |-> Root("crate", "serverKey", "clientKey"),
                       label |-> "initiator-recv", step |-> s.receiving.step]
    BY <1>6, SameRoot DEF ClientSession
  <2>2. m.key = [root |-> Root("crate", "serverKey", "clientKey"),
                 label |-> "initiator-recv", step |-> m.counter]
    BY <1>2 DEF Message, ServerChain
  <2>3. s.receiving.step + (m.counter - s.received) = m.counter
    BY <1>2, <1>6
  <2> QED BY <1>3, <1>6, <2>1, <2>2, <2>3 DEF Advanced
<1> QED BY <1>5, <1>6

LEMMA Commanding ==
    ASSUME NEW s \in ServerSession, NEW c \in Command
    PROVE  AfterDecrypt(s, c) \in ServerSession /\ AfterDecrypt(s, c).sent = s.sent
<1>1. s.peer = "clientKey" /\ c.ratchet = "clientKey" /\ c.counter \in Nat /\ s.received \in Nat
  BY DEF ServerSession, AnyServerSession, Command
<1>2. Ratcheted(s, c) = s
  BY <1>1 DEF Ratcheted
<1>3. Skips(s, c) \in Nat
  BY <1>1 DEF Skips
<1>4. AfterDecrypt(s, c) =
          [s EXCEPT !.receiving = Advanced(@, Skips(s, c)), !.received = c.counter + 1]
  BY <1>2 DEF AfterDecrypt
<1> DEFINE chain == Advanced(s.receiving, Skips(s, c))
           r == c.counter + 1
<1>5. chain \in AnyChain /\ r \in Nat
  BY <1>1, <1>3, ServerChains
<1>6. AfterDecrypt(s, c) = [s EXCEPT !.receiving = chain, !.received = r]
  BY <1>4
<1> HIDE DEF chain, r
<1> QED BY ONLY <1>5, <1>6, s \in ServerSession DEF ServerSession, AnyServerSession

LEMMA Encrypting ==
    ASSUME NEW s \in ServerSession, NEW p \in Payloads
    PROVE  /\ AfterEncrypt(s) \in ServerSession
           /\ AfterEncrypt(s).sent = s.sent + 1
           /\ Encrypted(s, p) \in Message
           /\ Encrypted(s, p).counter = s.sent
<1>1. AfterEncrypt(s) \in ServerSession /\ AfterEncrypt(s).sent = s.sent + 1
  <2> DEFINE chain == Advanced(s.sending, 1)
             n == s.sent + 1
  <2>1. chain \in ServerChain /\ chain.step = s.sent + 1
    BY ServerChains
  <2>2. AfterEncrypt(s) = [s EXCEPT !.sending = chain, !.sent = n]
    BY DEF AfterEncrypt
  <2>n. n \in Nat
    BY DEF ServerSession, AnyServerSession
  <2> HIDE DEF chain, n
  <2>3. s \in AnyServerSession /\ s.sending.step = s.sent
    BY DEF ServerSession
  <2>4. /\ AfterEncrypt(s) \in AnyServerSession
        /\ AfterEncrypt(s).sent = n
        /\ AfterEncrypt(s).sending = chain
    BY ONLY <2>1, <2>2, <2>3, <2>n DEF AnyServerSession
  <2> QED BY <2>1, <2>4 DEF ServerSession, n
<1>2. Encrypted(s, p) \in Message /\ Encrypted(s, p).counter = s.sent
  BY DEF Encrypted, ServerSession, AnyServerSession, ServerChain, Message
<1> QED BY <1>1, <1>2

LEMMA FirstSessions ==
    /\ InitReceiver("crate", "serverKey", "clientKey") \in ServerSession
    /\ AfterEncrypt(ClientSender) \in ClientSession
    /\ AfterEncrypt(ClientSender).received = 0
    /\ AfterEncrypt(ClientSender).receiving.step = 0
    /\ Subscribed(ClientSender) \in Command
<1> DEFINE s == ClientSender
<1>1. InitReceiver("crate", "serverKey", "clientKey") \in ServerSession
  BY DEF InitReceiver, Session, Chain, ServerSession, AnyServerSession, ServerChain, AnyChain
<1>2. s = [kdf |-> ClientKdf, own |-> "clientKey", peer |-> "serverKey",
           sending |-> [root |-> Root(ClientKdf, "clientKey", "serverKey"),
                        label |-> "initiator-send", step |-> 0], sent |-> 0,
           receiving |-> [root |-> Root(ClientKdf, "clientKey", "serverKey"),
                          label |-> "initiator-recv", step |-> 0], received |-> 0]
  BY DEF ClientSender, InitSender, Session, Chain
<1>3. Root(ClientKdf, "clientKey", "serverKey") = Root(ClientKdf, "serverKey", "clientKey")
  BY SameRoot
<1>4. ClientKdf \in {"crate", "page"}
  BY ChannelAssumption
<1> HIDE DEF s
<1>5. /\ AfterEncrypt(s) \in ClientSession
      /\ AfterEncrypt(s).received = 0
      /\ AfterEncrypt(s).receiving.step = 0
  <2> DEFINE chain == Advanced(s.sending, 1)
             n == s.sent + 1
  <2>1. chain \in AnyChain
    BY <1>2, <1>3, <1>4 DEF Advanced, AnyChain
  <2>2. AfterEncrypt(s) = [s EXCEPT !.sending = chain, !.sent = n]
    BY DEF AfterEncrypt
  <2>n. n \in Nat
    BY <1>2
  <2> HIDE DEF chain, n
  <2>3. s \in ClientSession /\ s.received = 0 /\ s.receiving.step = 0
    BY <1>2, <1>3, <1>4 DEF ClientSession, AnyChain
  <2> QED BY ONLY <2>1, <2>2, <2>3, <2>n DEF ClientSession
<1>6. Subscribed(s) \in Command
  BY <1>2, <1>3, <1>4 DEF Subscribed, Encrypted, Command, AnyChain
<1> QED BY <1>1, <1>5, <1>6 DEF s

-----------------------------------------------------------------------------
(* The invariant holds at the start and is kept by every action. *)

LEMMA InitInvariant == Init => IInv
<1> SUFFICES ASSUME Init PROVE IInv
  OBVIOUS
<1>1. SessionsOK
  BY DEF Init, SessionsOK, FeedIs, Idle
<1>2. \A f \in Feeds : FeedOK(f)
  BY DEF Init, FeedOK, Idle
<1>3. TrafficOK
  BY <1>2, ChannelAssumption DEF Init, TrafficOK
<1>4. HistoryOK
  <2>1. got = << >> /\ DOMAIN got = {} /\ newest = 0 /\ late = FALSE
    BY DEF Init
  <2>2. got \in Seq(Message) /\ OpenedInOrder /\ \A i \in DOMAIN got : Nth(i) < client.receiving.step
    BY ONLY <2>1, EmptySeq DEF OpenedInOrder
  <2> QED BY <2>1, <2>2 DEF HistoryOK
<1>5. UpToDate
  BY DEF Init, UpToDate
<1> QED BY <1>1, <1>3, <1>4, <1>5 DEF IInv

LEMMA SessionsStep == IInv /\ [Next]_vars => SessionsOK'
<1> SUFFICES ASSUME IInv, [Next]_vars PROVE SessionsOK'
  OBVIOUS
<1>0. SessionsOK /\ TrafficOK
  BY DEF IInv
<1>1. CASE ClientHello \/ ServerAnswers
  BY <1>0, <1>1 DEF SessionsOK, ClientHello, ServerAnswers, ratchets, FeedIs
<1>2. CASE ClientFinishes
  <2>1. client' \in ClientSession /\ up' \in Seq(Command)
    BY <1>0, <1>2, FirstSessions DEF ClientFinishes, SessionsOK
  <2> QED BY <1>0, <1>2, <2>1 DEF SessionsOK, ClientFinishes, FeedIs
<1>3. CASE ServerFinishes
  <2>1. server' \in ServerSession
    BY <1>3, FirstSessions DEF ServerFinishes
  <2> QED BY <1>0, <1>3, <2>1 DEF SessionsOK, ServerFinishes
<1>4. CASE ReadCommand
  <2>1. server \in ServerSession /\ Head(up) \in Command /\ Tail(up) \in Seq(Command)
    BY <1>0, <1>4 DEF ReadCommand, SessionsOK
  <2>2. server' \in ServerSession
    BY <1>4, <2>1, Commanding DEF ReadCommand
  <2> QED BY <1>0, <1>4, <2>1, <2>2 DEF SessionsOK, ReadCommand, ends
<1>5. CASE Read
  <2>1. Head(down) \in Message
    BY <1>0, <1>5 DEF Read, TrafficOK
  <2>2. noise["client"] = 3
    BY <1>0, <1>5 DEF Read, TrafficOK, SessionsOK
  <2>3. client' \in ClientSession
    BY <1>0, <1>5, <2>1, <2>2, Reading DEF Read, SessionsOK
  <2> QED BY <1>0, <1>5, <2>3 DEF SessionsOK, Read, ends, FeedIs
<1>6. CASE Publish \/ Close \/ UNCHANGED vars
  <2>1. UNCHANGED <<noise, server, client, feed>> /\ open' \in {open, FALSE} /\ up' \in {up, << >>}
    BY <1>6 DEF Publish, Close, vars, ends, ratchets
  <2>2. up' \in Seq(Command)
    BY <1>0, <2>1, EmptySeq DEF SessionsOK
  <2>3. open' \in BOOLEAN
    BY <1>0, <2>1 DEF SessionsOK
  <2> QED BY ONLY <1>0, <2>1, <2>2, <2>3 DEF SessionsOK, FeedIs
<1>7. ASSUME NEW f \in Feeds, FeedStep(f) PROVE SessionsOK'
  <2>1. DOMAIN feed = Feeds /\ ~FeedIs(f, "off") /\ noise["server"] = 3
    BY <1>0, <1>7 DEF SessionsOK, TrafficOK, FeedStep, Tick, Receive, Encrypt, Send, FeedIs
  <2>2. CASE Tick(f) \/ Receive(f) \/ Send(f)
    BY <1>0, <2>1, <2>2 DEF SessionsOK, Tick, Receive, Send, ends, ratchets
  <2>3. CASE Encrypt(f)
    <3>1. feed[f].payload \in Payloads
      BY <1>0, <2>3 DEF TrafficOK, FeedOK, FeedIs, Encrypt
    <3>2. server' \in ServerSession
      BY <1>0, <2>1, <2>3, <3>1, Encrypting DEF SessionsOK, Encrypt
    <3> QED BY <1>0, <2>1, <2>3, <3>2 DEF SessionsOK, Encrypt, ends
  <2> QED BY <1>7, <2>2, <2>3 DEF FeedStep
<1> QED BY <1>1, <1>2, <1>3, <1>4, <1>5, <1>6, <1>7 DEF Next, SocketStep

LEMMA FeedsStep == IInv /\ [Next]_vars => DOMAIN feed' = Feeds /\ \A f \in Feeds : FeedOK(f)'
<1> SUFFICES ASSUME IInv, [Next]_vars PROVE DOMAIN feed' = Feeds /\ \A f \in Feeds : FeedOK(f)'
  OBVIOUS
<1>0. /\ DOMAIN feed = Feeds /\ \A f \in Feeds : FeedOK(f)
      /\ noise["server"] = 3 => server \in ServerSession
      /\ noise["server"] # 3 => \A f \in Feeds : FeedIs(f, "off")
      /\ trades \in Nat
      /\ unread \in [Tapes -> Seq(1 .. MaxTrades)]
  BY ChannelAssumption DEF IInv, SessionsOK, TrafficOK
<1>1. CASE UNCHANGED <<feed, server>>
  BY <1>0, <1>1 DEF FeedOK
<1>2. CASE ServerFinishes
  BY <1>0, <1>2 DEF ServerFinishes, FeedOK, FeedIs
<1>3. CASE ReadCommand
  <2>1. server'.sent = server.sent
    <3>1. server \in ServerSession /\ Head(up) \in Command
      BY <1>3 DEF IInv, SessionsOK, ReadCommand
    <3> QED BY <1>3, <3>1, Commanding DEF ReadCommand
  <2> QED BY <1>0, <1>3, <2>1 DEF ReadCommand, FeedOK, Idle
<1>4. ASSUME NEW f \in Feeds, FeedStep(f)
      PROVE  DOMAIN feed' = Feeds /\ \A g \in Feeds : FeedOK(g)'
  <2>1. noise["server"] = 3
    BY <1>0, <1>4 DEF FeedStep, Tick, Receive, Encrypt, Send, FeedIs
  <2>2. server \in ServerSession
    BY <1>0, <2>1
  <2>3. CASE Tick(f)
    <3>1. Payload(f, trades) \in Payloads
      BY <1>0 DEF Payload, Payloads
    <3>2. PICK p : p = Payload(f, trades)
      OBVIOUS
    <3>3. feed' = [feed EXCEPT ![f] = [pc |-> "encrypt", payload |-> p]] /\ UNCHANGED server
      BY <2>3, <3>2 DEF Tick, ratchets
    <3> QED BY ONLY <1>0, <3>1, <3>2, <3>3 DEF FeedOK
  <2>4. CASE Receive(f)
    <3>1. PICK q : q = unread[f]
      OBVIOUS
    <3>2. q \in Seq(1 .. MaxTrades) /\ q # << >>
      BY <1>0, <2>4, <3>1 DEF Receive
    <3>3. Head(q) \in Nat
      BY <3>2, ChannelAssumption
    <3>4. PICK p : p = Payload(f, Head(q))
      OBVIOUS
    <3>5. p \in Payloads
      BY <3>3, <3>4 DEF Payload, Payloads
    <3>6. /\ UNCHANGED server
          /\ \/ feed' = [feed EXCEPT ![f] = [pc |-> "encrypt", payload |-> p]]
             \/ feed' = [feed EXCEPT ![f] = [pc |-> "ended", payload |-> "none"]]
      BY <2>4, <3>1, <3>4 DEF Receive, Idle, EndsLoop, ratchets
    <3>7. CASE feed' = [feed EXCEPT ![f] = [pc |-> "encrypt", payload |-> p]]
      BY ONLY <1>0, <3>5, <3>6, <3>7 DEF FeedOK
    <3>8. CASE feed' = [feed EXCEPT ![f] = [pc |-> "ended", payload |-> "none"]]
      BY ONLY <1>0, <3>6, <3>8 DEF FeedOK
    <3> QED BY <3>6, <3>7, <3>8
  <2>5. CASE Encrypt(f)
    <3>1. feed[f].payload \in Payloads
      BY <1>0, <2>5 DEF FeedOK, FeedIs, Encrypt
    <3>2. PICK m : m = Encrypted(server, feed[f].payload)
      OBVIOUS
    <3>3. m \in Message /\ m.counter = server.sent /\ server'.sent = server.sent + 1
      BY <2>2, <2>5, <3>1, <3>2, Encrypting DEF Encrypt
    <3>4. server.sent \in Nat
      BY <2>2 DEF ServerSession, AnyServerSession
    <3>5. feed' = [feed EXCEPT ![f] = [pc |-> "send", payload |-> m]]
      BY <2>5, <3>2 DEF Encrypt
    <3>6. \A n \in Message : n.counter < server.sent => n.counter < server'.sent
      BY <3>3, <3>4 DEF Message
    <3>7. m.counter < server'.sent
      BY <3>3, <3>4
    <3> QED BY ONLY <1>0, <3>3, <3>5, <3>6, <3>7 DEF FeedOK
  <2>6. CASE Send(f)
    <3>1. /\ UNCHANGED server
          /\ \E pc \in {"idle", "ended"} :
                feed' = [feed EXCEPT ![f] = [pc |-> pc, payload |-> "none"]]
      BY <2>6 DEF Send, Idle, ratchets
    <3> QED BY ONLY <1>0, <3>1 DEF FeedOK
  <2> QED BY <1>4, <2>3, <2>4, <2>5, <2>6 DEF FeedStep
<1> QED BY <1>1, <1>2, <1>3, <1>4
        DEF Next, SocketStep, ClientHello, ServerAnswers, ClientFinishes, Read, Publish, Close,
            vars, ratchets

LEMMA TrafficStep == IInv /\ [Next]_vars => TrafficOK'
<1> SUFFICES ASSUME IInv, [Next]_vars PROVE TrafficOK'
  OBVIOUS
<1>0. TrafficOK /\ SessionsOK
  BY DEF IInv
<1>1. unread' \in [Tapes -> Seq(1 .. MaxTrades)] /\ trades' \in 0 .. MaxTrades
  <2>1. CASE Publish
    <3>1. trades + 1 \in 1 .. MaxTrades
      BY <1>0, <2>1, ChannelAssumption DEF Publish, TrafficOK
    <3>2. \A q \in Seq(1 .. MaxTrades) : Append(q, trades + 1) \in Seq(1 .. MaxTrades)
      BY <3>1
    <3>3. trades' = trades + 1 /\ unread' = [f \in Tapes |-> unread'[f]]
      BY <2>1 DEF Publish
    <3>4. ASSUME NEW f \in Tapes PROVE unread'[f] \in {unread[f], Append(unread[f], trades + 1)}
      BY <2>1 DEF Publish
    <3>5. \A f \in Tapes : unread'[f] \in Seq(1 .. MaxTrades)
      BY <1>0, <3>2, <3>4 DEF TrafficOK
    <3>6. trades' \in 0 .. MaxTrades
      BY <3>1, <3>3, ChannelAssumption
    <3> QED BY ONLY <3>3, <3>5, <3>6
  <2>2. ASSUME NEW f \in Tapes, Receive(f)
        PROVE  unread' \in [Tapes -> Seq(1 .. MaxTrades)] /\ trades' = trades
    <3>1. PICK q \in Seq(1 .. MaxTrades) : q = unread[f] /\ q # << >>
      BY <1>0, <2>2 DEF TrafficOK, Receive
    <3>2. Tail(q) \in Seq(1 .. MaxTrades)
      BY ONLY <3>1, HeadTailProperties
    <3>3. ASSUME Len(q) > Capacity
          PROVE  SubSeq(q, Len(q) - Capacity + 1, Len(q)) \in Seq(1 .. MaxTrades)
      <4>1. Len(q) - Capacity + 1 \in 1 .. Len(q) + 1
        <5>1. Len(q) \in Nat /\ Capacity \in Nat
          BY <3>1, ChannelAssumption
        <5> QED BY ONLY <3>3, <5>1
      <4>2. \A i \in Len(q) - Capacity + 1 .. Len(q) : q[i] \in 1 .. MaxTrades
        <5> DEFINE S == 1 .. MaxTrades
        <5>1. q \in Seq(S)
          BY <3>1
        <5> HIDE DEF S
        <5>2. \A i \in 1 .. Len(q) : q[i] \in S
          BY ONLY <5>1, ElementOfSeq
        <5> QED BY ONLY <3>1, <4>1, <5>2 DEF S
      <4>3. Len(q) \in Int /\ Len(q) - Capacity + 1 \in Int
        BY ONLY <3>1, <4>1
      <4> QED BY ONLY <4>2, <4>3, SubSeqProperties
    <3>4. /\ \/ unread' = [unread EXCEPT ![f] = Tail(q)]
             \/ /\ Len(q) > Capacity
                /\ unread' = [unread EXCEPT ![f] = SubSeq(q, Len(q) - Capacity + 1, Len(q))]
          /\ trades' = trades
      BY <1>0, <2>2, <3>1 DEF Receive, TrafficOK
    <3> QED BY <1>0, <3>2, <3>3, <3>4 DEF TrafficOK
  <2> QED BY <1>0, <2>1, <2>2
          DEF TrafficOK, Next, SocketStep, ClientHello, ServerAnswers, ClientFinishes,
              ServerFinishes, ReadCommand, Read, Close, FeedStep, Tick, Receive, Encrypt, Send, vars
<1>2. /\ down' \in Seq(Message)
      /\ \A i \in DOMAIN down' : down'[i].counter < server'.sent
      /\ down' # << >> => noise'["server"] = 3
  <2>1. CASE UNCHANGED <<down, server, noise>>
    BY <1>0, <2>1 DEF TrafficOK
  <2>2. CASE ClientHello \/ ServerAnswers \/ ClientFinishes \/ ServerFinishes
    BY <1>0, <2>2 DEF TrafficOK, SessionsOK, ClientHello, ServerAnswers, ClientFinishes,
       ServerFinishes, ratchets
  <2>3. CASE ReadCommand
    <3>1. server'.sent = server.sent
      <4>1. server \in ServerSession /\ Head(up) \in Command
        BY <1>0, <2>3 DEF SessionsOK, ReadCommand
      <4> QED BY <2>3, <4>1, Commanding DEF ReadCommand
    <3> QED BY <1>0, <2>3, <3>1 DEF TrafficOK, ReadCommand, ends
  <2>4. CASE Read
    <3>1. down' = Tail(down) /\ down # << >> /\ UNCHANGED <<server, noise>>
      BY <2>4 DEF Read, ends
    <3> QED BY <1>0, <3>1 DEF TrafficOK
  <2>5. CASE Close
    BY <2>5 DEF Close
  <2>6. ASSUME NEW f \in Feeds, Encrypt(f)
        PROVE  UNCHANGED <<down, noise>> /\ server \in ServerSession /\ server'.sent = server.sent + 1
    <3>1. noise["server"] = 3
      BY <1>0, <2>6 DEF SessionsOK, TrafficOK, FeedIs, Encrypt
    <3>2. server \in ServerSession /\ feed[f].payload \in Payloads
      BY <1>0, <2>6, <3>1 DEF SessionsOK, TrafficOK, FeedOK, FeedIs, Encrypt
    <3> QED BY <2>6, <3>2, Encrypting DEF Encrypt, ends
  <2>7. ASSUME NEW f \in Feeds, Encrypt(f)
        PROVE  /\ down' \in Seq(Message)
               /\ \A i \in DOMAIN down' : down'[i].counter < server'.sent
               /\ down' # << >> => noise'["server"] = 3
    <3>1. server.sent \in Nat
      BY <2>6, <2>7 DEF ServerSession, AnyServerSession
    <3>2. \A i \in DOMAIN down : down[i] \in Message /\ down[i].counter \in Nat
      BY <1>0 DEF TrafficOK, Message
    <3> QED BY <1>0, <2>6, <2>7, <3>1, <3>2 DEF TrafficOK
  <2>8. ASSUME NEW f \in Feeds, Send(f)
        PROVE  /\ down' \in Seq(Message)
               /\ \A i \in DOMAIN down' : down'[i].counter < server'.sent
               /\ down' # << >> => noise'["server"] = 3
    <3>1. PICK m : m = feed[f].payload
      OBVIOUS
    <3>2. m \in Message /\ m.counter < server.sent /\ noise["server"] = 3
      BY <1>0, <2>8, <3>1 DEF SessionsOK, TrafficOK, FeedOK, FeedIs, Send
    <3>3. (down' = Append(down, m) \/ down' = down) /\ UNCHANGED <<server, noise>>
      BY <2>8, <3>1 DEF Send, ends, ratchets
    <3>4. /\ down \in Seq(Message) /\ \A i \in DOMAIN down : down[i].counter < server.sent
      BY <1>0 DEF TrafficOK
    <3>5. CASE down' = Append(down, m)
      <4>1. /\ down' \in Seq(Message)
            /\ \A i \in DOMAIN down' : \/ down'[i] = m
                                      \/ (i \in DOMAIN down /\ down'[i] = down[i])
        <5>1. /\ down' \in Seq(Message)
              /\ Len(down') = Len(down) + 1
              /\ \A i \in 1 .. Len(down) : down'[i] = down[i]
              /\ down'[Len(down) + 1] = m
          BY ONLY <3>2, <3>4, <3>5, AppendProperties
        <5>2. Len(down) \in Nat /\ DOMAIN down = 1 .. Len(down) /\ DOMAIN down' = 1 .. Len(down')
          BY <3>4, <5>1
        <5> QED BY ONLY <5>1, <5>2
      <4> QED BY ONLY <3>2, <3>3, <3>4, <4>1
    <3> QED BY ONLY <3>2, <3>3, <3>4, <3>5
  <2> QED BY <2>1, <2>2, <2>3, <2>4, <2>5, <2>7, <2>8
          DEF Next, SocketStep, Publish, FeedStep, Tick, Receive, vars, ends, ratchets
<1> QED BY <1>1, <1>2, FeedsStep DEF TrafficOK

(* What reading a message does to the client and to its history. *)
LEMMA ReadFacts ==
    ASSUME IInv, Read
    PROVE  \E m \in Message :
              /\ client \in ClientSession /\ client' \in ClientSession
              /\ noise["client"] = 3 /\ noise' = noise
              /\ client'.received = m.counter + 1
              /\ client'.receiving.step = client.receiving.step + Skips(client, m)
              /\ got' = IF Opens(client, m) THEN Append(got, m) ELSE got
              /\ late' = (late \/ m.counter < newest)
              /\ newest' = IF m.counter < newest THEN newest ELSE m.counter + 1
<1>1. Head(down) \in Message /\ noise["client"] = 3 /\ client \in ClientSession
  BY DEF Read, IInv, TrafficOK, SessionsOK
<1>2. PICK m \in Message : m = Head(down)
  BY <1>1
<1>3. client' = AfterDecrypt(client, m)
  BY <1>2 DEF Read
<1>4. client' \in ClientSession /\ client'.received = m.counter + 1
         /\ client'.receiving.step = client.receiving.step + Skips(client, m)
  BY <1>1, <1>3, Reading
<1> WITNESS m \in Message
<1> QED BY <1>1, <1>2, <1>4 DEF Read, ends

LEMMA HistoryStep == IInv /\ [Next]_vars => HistoryOK' /\ UpToDate'
<1> SUFFICES ASSUME IInv, [Next]_vars PROVE HistoryOK' /\ UpToDate'
  OBVIOUS
<1>0. HistoryOK /\ UpToDate /\ SessionsOK
  BY DEF IInv
<1>1. CASE ClientFinishes
  <2>1. got = << >> /\ DOMAIN got = {} /\ newest = 0 /\ late \in BOOLEAN
    BY <1>0, <1>1 DEF ClientFinishes, HistoryOK
  <2>2. got' = got /\ newest' = newest /\ late' = late
    BY <1>1 DEF ClientFinishes, history
  <2>3. client'.received = 0 /\ client'.receiving.step = 0
    BY <1>1, FirstSessions DEF ClientFinishes
  <2>4. got' \in Seq(Message) /\ \A i \in DOMAIN got' : FALSE
    BY ONLY <2>1, <2>2, EmptySeq
  <2> QED BY ONLY <2>1, <2>2, <2>3, <2>4 DEF HistoryOK, UpToDate, OpenedInOrder, Nth
<1>2. CASE Read
  <2>1. PICK m \in Message :
              /\ client \in ClientSession /\ client' \in ClientSession
              /\ noise["client"] = 3 /\ noise' = noise
              /\ client'.received = m.counter + 1
              /\ client'.receiving.step = client.receiving.step + Skips(client, m)
              /\ got' = IF Opens(client, m) THEN Append(got, m) ELSE got
              /\ late' = (late \/ m.counter < newest)
              /\ newest' = IF m.counter < newest THEN newest ELSE m.counter + 1
    BY <1>2, ReadFacts
  <2>2. /\ client.receiving.step \in Nat /\ client'.receiving.step \in Nat
        /\ client.received \in Nat /\ m.counter \in Nat /\ newest \in Nat
        /\ Skips(client, m) \in Nat
        /\ client.receiving.step <= client'.receiving.step
    <3>1. client.receiving.step \in Nat /\ client'.receiving.step \in Nat /\ client.received \in Nat
      BY ONLY <2>1 DEF ClientSession
    <3>2. m.counter \in Nat /\ newest \in Nat /\ Skips(client, m) \in Nat
      BY <1>0, <2>1, Reading DEF Message, HistoryOK
    <3> QED BY ONLY <2>1, <3>1, <3>2
  <2>3. got \in Seq(Message) /\ \A i \in DOMAIN got : got[i].key.step < client.receiving.step
    BY <1>0 DEF HistoryOK, Nth
  <2>4. \A i, j \in DOMAIN got : i < j => got[i].key.step < got[j].key.step
    BY <1>0 DEF HistoryOK, OpenedInOrder, Nth
  <2>5. \A i \in DOMAIN got : got[i].key.step \in Nat
    BY <2>3 DEF Message, ServerChain
  <2>6. /\ got' \in Seq(Message)
        /\ \A i \in DOMAIN got' : got'[i].key.step < client'.receiving.step
        /\ \A i, j \in DOMAIN got' : i < j => got'[i].key.step < got'[j].key.step
    <3>1. CASE ~Opens(client, m)
      BY ONLY <2>1, <2>2, <2>3, <2>4, <2>5, <3>1
    <3>2. CASE Opens(client, m)
      <4>1. /\ m.key.step \in Nat
            /\ client.receiving.step <= m.key.step
            /\ m.key.step < client'.receiving.step
        <5>1. /\ m.counter >= client.received
              /\ m.key.step = client.receiving.step + (m.counter - client.received)
              /\ m.key.step < client.receiving.step + Skips(client, m)
          BY <2>1, <3>2, Opening
        <5> QED BY ONLY <2>1, <2>2, <5>1
      <4>2. /\ got' \in Seq(Message)
            /\ Len(got') = Len(got) + 1
            /\ \A i \in 1 .. Len(got) : got'[i] = got[i]
            /\ got'[Len(got) + 1] = m
        BY ONLY <2>1, <2>3, <3>2, AppendProperties
      <4>3. Len(got) \in Nat /\ DOMAIN got = 1 .. Len(got) /\ DOMAIN got' = 1 .. Len(got')
        BY ONLY <2>3, <4>2
      <4>4. \A i \in DOMAIN got' : i \in DOMAIN got \/ i = Len(got) + 1
        BY ONLY <4>2, <4>3
      <4>5. \A i \in DOMAIN got' : got'[i].key.step < client'.receiving.step
        BY ONLY <2>2, <2>3, <2>5, <4>1, <4>2, <4>3, <4>4
      <4>6. ASSUME NEW i \in DOMAIN got', NEW j \in DOMAIN got', i < j
            PROVE  got'[i].key.step < got'[j].key.step
        <5>1. i \in DOMAIN got /\ got'[i] = got[i]
          BY ONLY <4>2, <4>3, <4>4, <4>6
        <5>2. got[i].key.step < m.key.step
          BY ONLY <2>2, <2>3, <2>5, <4>1, <5>1
        <5>3. CASE j \in DOMAIN got
          BY ONLY <2>4, <4>2, <4>3, <4>6, <5>1, <5>3
        <5>4. CASE j = Len(got) + 1
          BY ONLY <4>2, <5>1, <5>2, <5>4
        <5> QED BY <4>4, <5>3, <5>4
      <4> QED BY <4>2, <4>5, <4>6
    <3> QED BY <3>1, <3>2
  <2>7. HistoryOK'
    <3>1. newest' \in Nat /\ late' \in BOOLEAN /\ noise'["client"] = 3
      BY ONLY <1>0, <2>1, <2>2 DEF HistoryOK
    <3> QED BY ONLY <2>6, <3>1 DEF HistoryOK, OpenedInOrder, Nth
  <2>8. UpToDate'
    <3>1. ASSUME ~late' PROVE client'.received = newest' /\ client'.receiving.step = newest'
      <4>1. ~late /\ ~(m.counter < newest)
        BY <2>1, <3>1
      <4>2. client.received = newest /\ client.receiving.step = newest
        BY <1>0, <2>1, <4>1 DEF UpToDate
      <4>3. Skips(client, m) = m.counter - client.received + 1
        BY ONLY <2>2, <4>1, <4>2 DEF Skips
      <4> QED BY ONLY <2>1, <2>2, <4>1, <4>2, <4>3
    <3> QED BY <3>1 DEF UpToDate
  <2> QED BY <2>7, <2>8
<1> DEFINE Quiet == /\ UNCHANGED <<client, history>>
                    /\ \/ noise'["client"] = noise["client"]
                       \/ noise["client"] # 3 /\ noise'["client"] = 1
<1>3. CASE Quiet
  BY ONLY <1>0, <1>3 DEF HistoryOK, UpToDate, OpenedInOrder, Nth, history
<1>4. ClientFinishes \/ Read \/ Quiet
  BY <1>0 DEF SessionsOK, Next, SocketStep, ClientHello, ServerAnswers, ServerFinishes, ReadCommand,
     Publish, Close, FeedStep, Tick, Receive, Encrypt, Send, vars, ends, ratchets
<1> QED BY <1>1, <1>2, <1>3, <1>4

LEMMA NextInvariant == IInv /\ [Next]_vars => IInv'
BY SessionsStep, TrafficStep, HistoryStep DEF IInv

-----------------------------------------------------------------------------
(* The theorems. *)

(* The inductive invariant of a socket, whoever derives the client's keys.  *)
THEOREM Invariance == Spec => []IInv
BY InitInvariant, NextInvariant, PTL DEF Spec

(* Every variable keeps its type. *)
THEOREM TypeCorrect == Spec => []TypeOK
<1>1. IInv => TypeOK
  BY DEF IInv, SessionsOK, TrafficOK, HistoryOK, FeedOK, TypeOK
<1> QED BY <1>1, Invariance, PTL

LEMMA NothingLostStep ==
    ASSUME ClientKdf = "crate", IInv, NothingLostInOrder, [Next]_vars
    PROVE  NothingLostInOrder'
<1>1. CASE Read
  <2>1. PICK m \in Message :
              /\ client \in ClientSession
              /\ noise["client"] = 3
              /\ got' = IF Opens(client, m) THEN Append(got, m) ELSE got
              /\ late' = (late \/ m.counter < newest)
              /\ newest' = IF m.counter < newest THEN newest ELSE m.counter + 1
    BY <1>1, ReadFacts
  <2>2. SUFFICES ASSUME ~late'
                 PROVE  got' # << >> /\ got'[Len(got')].counter = newest' - 1
    BY DEF NothingLostInOrder
  <2>3. ~late /\ ~(m.counter < newest)
    BY <2>1, <2>2
  <2>4. client.received = newest /\ client.receiving.step = newest
    BY <2>1, <2>3 DEF IInv, UpToDate
  <2>5. m.counter \in Nat /\ newest \in Nat /\ got \in Seq(Message)
    BY DEF IInv, HistoryOK, Message
  <2>6. m.counter >= client.received
    BY ONLY <2>3, <2>4, <2>5
  <2>7. Opens(client, m)
    BY ONLY <2>1, <2>4, <2>6, ClientKdf = "crate", Opening
  <2>8. got' = Append(got, m) /\ newest' = m.counter + 1
    BY ONLY <2>1, <2>3, <2>7
  <2>9. /\ got' # << >> /\ Len(got') = Len(got) + 1
        /\ got'[Len(got) + 1] = m
    BY ONLY <2>1, <2>5, <2>8, AppendProperties
  <2> QED BY ONLY <2>5, <2>8, <2>9
<1>2. CASE UNCHANGED history
  BY <1>2 DEF NothingLostInOrder, history
<1>3. Read \/ UNCHANGED history
  BY DEF Next, SocketStep, ClientHello, ServerAnswers, ClientFinishes, ServerFinishes, ReadCommand,
     Publish, Close, FeedStep, Tick, Receive, Encrypt, Send, vars
<1> QED BY <1>1, <1>2, <1>3

(* A client with the gateway's key derivation opens every message it reads, *)
(* across any gap, until it has read one after a newer one.                 *)
THEOREM NothingLost ==
    ASSUME ClientKdf = "crate"
    PROVE  Spec => []NothingLostInOrder
<1>1. Init => NothingLostInOrder
  BY DEF Init, NothingLostInOrder
<1>2. IInv /\ NothingLostInOrder /\ [Next]_vars => NothingLostInOrder'
  BY NothingLostStep
<1> QED BY <1>1, <1>2, Invariance, PTL DEF Spec

(* The client opens messages in the order of their encryption, and none     *)
(* twice, however tasks overtake each other on the way to the socket.       *)
THEOREM InOrder == Spec => []OpenedInOrder
<1>1. IInv => OpenedInOrder
  BY DEF IInv, HistoryOK
<1> QED BY <1>1, Invariance, PTL

-----------------------------------------------------------------------------
(* Where the trades of a feed are: opened, on their way, with the task of   *)
(* the feed, and in its receiver, and from one to the next they go up by    *)
(* one.  The place of a feed is told by values, without the variables.      *)

IsLast(q, f, i) ==
    i \in DOMAIN q /\ Of(q, f, i) /\ \A k \in DOMAIN q : i < k => ~Of(q, f, k)

IsFirst(q, f, i) ==
    i \in DOMAIN q /\ Of(q, f, i) /\ \A k \in DOMAIN q : k < i => ~Of(q, f, k)

LastIs(q, f, x) == \A i : IsLast(q, f, i) => q[i].payload.n = x

FirstIs(q, f, x) == \A i : IsFirst(q, f, i) => q[i].payload.n = x

NoneOf(q, f) == \A i \in DOMAIN q : ~Of(q, f, i)

(* In r comes what follows the last of feed f in q. *)
Joined(q, r, f) == \A i : IsLast(q, f, i) => FirstIs(r, f, q[i].payload.n + 1)

(* The messages of both sequences, and the receivers, have numbers. *)
Numbered(q) == DOMAIN q = 1 .. Len(q) /\ Len(q) \in Nat /\ \A i \in DOMAIN q : q[i].payload.n \in Nat

LEMMA MessagesNumbered == ASSUME NEW q \in Seq(Message) PROVE Numbered(q)
<1>1. DOMAIN q = 1 .. Len(q) /\ Len(q) \in Nat /\ \A i \in DOMAIN q : q[i] \in Message
  OBVIOUS
<1> QED BY ONLY <1>1 DEF Numbered, Message, Payloads

(* r is q with m at its end. *)
Longer(q, m, r) ==
    /\ DOMAIN q = 1 .. Len(q) /\ Len(q) \in Nat
    /\ DOMAIN r = 1 .. Len(q) + 1
    /\ \A i \in 1 .. Len(q) : r[i] = q[i]
    /\ r[Len(q) + 1] = m

LEMMA AppendIsLonger ==
    ASSUME NEW S, NEW q \in Seq(S), NEW m \in S
    PROVE  Longer(q, m, Append(q, m))
<1>1. /\ Append(q, m) \in Seq(S)
      /\ Len(Append(q, m)) = Len(q) + 1
      /\ \A i \in 1 .. Len(q) : Append(q, m)[i] = q[i]
      /\ Append(q, m)[Len(q) + 1] = m
  BY AppendProperties
<1>2. /\ DOMAIN q = 1 .. Len(q) /\ Len(q) \in Nat
      /\ DOMAIN Append(q, m) = 1 .. Len(Append(q, m))
  BY <1>1
<1> QED BY ONLY <1>1, <1>2 DEF Longer

(* r is q without its head. *)
Shorter(q, r) ==
    /\ DOMAIN q = 1 .. Len(q) /\ Len(q) \in Nat \ {0}
    /\ DOMAIN r = 1 .. Len(q) - 1
    /\ \A i \in 1 .. Len(q) - 1 : r[i] = q[i + 1]

LEMMA TailIsShorter ==
    ASSUME NEW S, NEW q \in Seq(S), q # << >>
    PROVE  Shorter(q, Tail(q)) /\ Head(q) = q[1]
<1>1. /\ Tail(q) \in Seq(S)
      /\ Len(Tail(q)) = Len(q) - 1
      /\ \A i \in 1 .. Len(Tail(q)) : Tail(q)[i] = q[i + 1]
      /\ Head(q) = q[1]
  BY HeadTailProperties
<1>2. /\ DOMAIN q = 1 .. Len(q) /\ Len(q) \in Nat \ {0}
      /\ DOMAIN Tail(q) = 1 .. Len(Tail(q))
  BY <1>1
<1> QED BY ONLY <1>1, <1>2 DEF Shorter

(* A message of another feed is appended. *)
LEMMA OtherAppended ==
    ASSUME NEW q, NEW m, NEW r, Longer(q, m, r), NEW f, m.payload.feed # f, NEW x
    PROVE  /\ FollowOn(q, f) => FollowOn(r, f)
           /\ LastIs(q, f, x) => LastIs(r, f, x)
           /\ FirstIs(q, f, x) => FirstIs(r, f, x)
           /\ NoneOf(q, f) <=> NoneOf(r, f)
           /\ \A i : IsLast(r, f, i) => IsLast(q, f, i) /\ r[i] = q[i]
<1>1. \A i \in DOMAIN r : Of(r, f, i) => i \in DOMAIN q
  BY ONLY Longer(q, m, r), m.payload.feed # f DEF Longer, Of
<1>2. \A i \in DOMAIN q : i \in DOMAIN r /\ r[i] = q[i] /\ (Of(r, f, i) <=> Of(q, f, i))
  BY ONLY Longer(q, m, r) DEF Longer, Of
<1>3. FollowOn(q, f) => FollowOn(r, f)
  BY ONLY <1>1, <1>2 DEF FollowOn
<1>4. \A i : IsLast(r, f, i) => IsLast(q, f, i) /\ r[i] = q[i]
  BY ONLY <1>1, <1>2 DEF IsLast
<1>5. \A i : IsFirst(r, f, i) => IsFirst(q, f, i) /\ r[i] = q[i]
  BY ONLY <1>1, <1>2 DEF IsFirst
<1>6. NoneOf(q, f) <=> NoneOf(r, f)
  BY ONLY <1>1, <1>2 DEF NoneOf
<1> QED BY ONLY <1>3, <1>4, <1>5, <1>6 DEF LastIs, FirstIs

(* The next message of the feed is appended. *)
LEMMA NextAppended ==
    ASSUME NEW q, NEW m, NEW r, Longer(q, m, r), NEW f, m.payload.feed = f,
           FollowOn(q, f), NEW x, m.payload.n = x + 1, LastIs(q, f, x)
    PROVE  FollowOn(r, f) /\ LastIs(r, f, x + 1)
<1> DEFINE e == Len(q) + 1
<1>1. /\ DOMAIN r = 1 .. e /\ DOMAIN q = 1 .. e - 1 /\ e \in Nat
      /\ r[e] = m /\ Of(r, f, e)
      /\ \A i \in DOMAIN q : r[i] = q[i] /\ (Of(r, f, i) <=> Of(q, f, i))
  BY DEF Longer, Of
<1> HIDE DEF e
<1>2. LastIs(r, f, x + 1)
  BY ONLY <1>1, m.payload.n = x + 1 DEF LastIs, IsLast
<1>3. ASSUME NEW i \in DOMAIN r, NEW j \in DOMAIN r, i < j, Of(r, f, i), Of(r, f, j),
             \A k \in DOMAIN r : i < k /\ k < j => ~Of(r, f, k)
      PROVE  r[j].payload.n = r[i].payload.n + 1
  <2>1. i \in DOMAIN q /\ r[i] = q[i] /\ Of(q, f, i)
    BY ONLY <1>1, <1>3
  <2>2. CASE j = e
    <3>1. IsLast(q, f, i)
      BY ONLY <1>1, <1>3, <2>1, <2>2 DEF IsLast
    <3> QED BY ONLY <1>1, <2>1, <2>2, <3>1, LastIs(q, f, x), m.payload.n = x + 1 DEF LastIs
  <2>3. CASE j # e
    <3>1. j \in DOMAIN q /\ r[j] = q[j] /\ Of(q, f, j)
      BY ONLY <1>1, <1>3, <2>3
    <3>2. \A k \in DOMAIN q : i < k /\ k < j => ~Of(q, f, k)
      BY ONLY <1>1, <1>3
    <3> QED BY ONLY <1>3, <2>1, <3>1, <3>2, FollowOn(q, f) DEF FollowOn
  <2> QED BY <2>2, <2>3
<1> QED BY ONLY <1>2, <1>3 DEF FollowOn

(* If there was one of the feed before, the first is the same as ever.      *)
LEMMA FirstAppended ==
    ASSUME NEW q, NEW m, NEW r, Longer(q, m, r), NEW f, m.payload.feed = f, NEW x,
           FirstIs(q, f, x), NoneOf(q, f) => m.payload.n = x
    PROVE  FirstIs(r, f, x)
<1>1. /\ \A i \in DOMAIN r : i \in DOMAIN q \/ (i = Len(q) + 1 /\ r[i] = m)
      /\ \A i \in DOMAIN q : i \in DOMAIN r /\ i < Len(q) + 1
      /\ \A i \in DOMAIN q : r[i] = q[i] /\ (Of(r, f, i) <=> Of(q, f, i))
  BY DEF Longer, Of
<1>2. SUFFICES ASSUME NEW i, IsFirst(r, f, i) PROVE r[i].payload.n = x
  BY DEF FirstIs
<1>3. CASE i \in DOMAIN q
  <2>1. IsFirst(q, f, i)
    BY ONLY <1>1, <1>2, <1>3 DEF IsFirst
  <2> QED BY ONLY <1>1, <1>3, <2>1, FirstIs(q, f, x) DEF FirstIs
<1>4. CASE i \notin DOMAIN q
  <2>1. i = Len(q) + 1 /\ r[i] = m
    BY ONLY <1>1, <1>2, <1>4 DEF IsFirst
  <2>2. NoneOf(q, f)
    BY ONLY <1>1, <1>2, <2>1 DEF IsFirst, NoneOf
  <2> QED BY ONLY <2>1, <2>2, NoneOf(q, f) => m.payload.n = x
<1> QED BY <1>3, <1>4

(* The head is taken off. *)
LEMMA HeadTaken ==
    ASSUME NEW q, NEW r, Shorter(q, r), NEW f, NEW x
    PROVE  /\ FollowOn(q, f) => FollowOn(r, f)
           /\ LastIs(q, f, x) => LastIs(r, f, x)
           /\ NoneOf(q, f) => NoneOf(r, f)
<1>1. \A i \in DOMAIN r : /\ i + 1 \in DOMAIN q /\ i \in Int
                         /\ r[i] = q[i + 1] /\ (Of(r, f, i) <=> Of(q, f, i + 1))
  BY DEF Shorter, Of
<1>2. \A k \in DOMAIN q : k \in Int /\ (k > 1 => k - 1 \in DOMAIN r /\ (k - 1) + 1 = k)
  BY DEF Shorter
<1>3. FollowOn(q, f) => FollowOn(r, f)
  <2> SUFFICES ASSUME FollowOn(q, f), NEW i \in DOMAIN r, NEW j \in DOMAIN r, i < j,
                      Of(r, f, i), Of(r, f, j),
                      \A k \in DOMAIN r : i < k /\ k < j => ~Of(r, f, k)
               PROVE  r[j].payload.n = r[i].payload.n + 1
    BY DEF FollowOn
  <2>1. ASSUME NEW k \in DOMAIN q, i + 1 < k, k < j + 1 PROVE ~Of(q, f, k)
    <3>1. k > 1
      BY <1>1, <1>2, <2>1 DEF Shorter
    <3>2. k - 1 \in DOMAIN r /\ i < k - 1 /\ k - 1 < j /\ (k - 1) + 1 = k
      BY ONLY <1>1, <1>2, <2>1, <3>1, i \in DOMAIN r, j \in DOMAIN r
    <3>3. ~Of(r, f, k - 1)
      BY <3>2
    <3> QED BY ONLY <1>1, <3>2, <3>3
  <2>2. i + 1 < j + 1
    BY ONLY <1>1, i \in DOMAIN r, j \in DOMAIN r, i < j
  <2> QED BY <1>1, <2>1, <2>2 DEF FollowOn
<1>4. ASSUME NEW i, IsLast(r, f, i) PROVE IsLast(q, f, i + 1) /\ r[i] = q[i + 1]
  <2>1. i \in DOMAIN r
    BY ONLY <1>4 DEF IsLast
  <2>2. ASSUME NEW k \in DOMAIN q, i + 1 < k PROVE ~Of(q, f, k)
    <3>0. i > 0
      BY <2>1 DEF Shorter
    <3>1. k > 1
      BY ONLY <1>1, <1>2, <2>1, <2>2, <3>0
    <3>2. k - 1 \in DOMAIN r /\ i < k - 1 /\ (k - 1) + 1 = k
      BY ONLY <1>1, <1>2, <2>1, <2>2, <3>1
    <3>3. ~Of(r, f, k - 1)
      BY ONLY <1>4, <3>2 DEF IsLast
    <3> QED BY ONLY <1>1, <3>2, <3>3
  <2> QED BY ONLY <1>1, <1>4, <2>1, <2>2 DEF IsLast
<1>5. LastIs(q, f, x) => LastIs(r, f, x)
  BY ONLY <1>4 DEF LastIs
<1>6. NoneOf(q, f) => NoneOf(r, f)
  BY ONLY <1>1 DEF NoneOf
<1> QED BY <1>3, <1>5, <1>6

(* The head was of another feed. *)
LEMMA OtherTaken ==
    ASSUME NEW q, NEW r, Shorter(q, r), NEW f, ~Of(q, f, 1), NEW x
    PROVE  /\ FirstIs(q, f, x) => FirstIs(r, f, x)
           /\ NoneOf(r, f) => NoneOf(q, f)
<1>1. \A i \in DOMAIN r : /\ i + 1 \in DOMAIN q /\ i \in Int
                         /\ r[i] = q[i + 1] /\ (Of(r, f, i) <=> Of(q, f, i + 1))
  BY DEF Shorter, Of
<1>2. \A k \in DOMAIN q : k \in Int /\ (k = 1 \/ (k - 1 \in DOMAIN r /\ (k - 1) + 1 = k))
  BY DEF Shorter
<1>3. ASSUME NEW i, IsFirst(r, f, i) PROVE IsFirst(q, f, i + 1) /\ r[i] = q[i + 1]
  <2>1. i \in DOMAIN r
    BY ONLY <1>3 DEF IsFirst
  <2>2. ASSUME NEW k \in DOMAIN q, k < i + 1 PROVE ~Of(q, f, k)
    <3>1. CASE k = 1
      BY <3>1
    <3>2. CASE k # 1
      <4>1. k - 1 \in DOMAIN r /\ k - 1 < i /\ (k - 1) + 1 = k
        BY ONLY <1>1, <1>2, <2>1, <2>2, <3>2
      <4>2. ~Of(r, f, k - 1)
        BY ONLY <1>3, <4>1 DEF IsFirst
      <4> QED BY ONLY <1>1, <4>1, <4>2
    <3> QED BY <3>1, <3>2
  <2> QED BY ONLY <1>1, <1>3, <2>1, <2>2 DEF IsFirst
<1>4. FirstIs(q, f, x) => FirstIs(r, f, x)
  BY ONLY <1>3 DEF FirstIs
<1>5. NoneOf(r, f) => NoneOf(q, f)
  <2> SUFFICES ASSUME NoneOf(r, f), NEW k \in DOMAIN q PROVE ~Of(q, f, k)
    BY DEF NoneOf
  <2> QED BY <1>1, <1>2 DEF NoneOf
<1> QED BY <1>4, <1>5

(* The head was of this feed. *)
LEMMA OwnTaken ==
    ASSUME NEW q, NEW r, Shorter(q, r), NEW f, Of(q, f, 1), NEW x
    PROVE  /\ FirstIs(q, f, x) => q[1].payload.n = x
           /\ FollowOn(q, f) => FirstIs(r, f, q[1].payload.n + 1)
           /\ NoneOf(r, f) /\ LastIs(q, f, x) => q[1].payload.n = x
<1>1. \A i \in DOMAIN r : /\ i + 1 \in DOMAIN q /\ i \in Int
                         /\ r[i] = q[i + 1] /\ (Of(r, f, i) <=> Of(q, f, i + 1))
  BY DEF Shorter, Of
<1>2. \A k \in DOMAIN q : /\ k \in Int /\ k >= 1
                         /\ (k = 1 \/ (k - 1 \in DOMAIN r /\ (k - 1) + 1 = k))
  BY DEF Shorter
<1>3. 1 \in DOMAIN q
  BY DEF Shorter
<1>4. IsFirst(q, f, 1)
  BY ONLY <1>2, <1>3, Of(q, f, 1) DEF IsFirst
<1>5. ASSUME FollowOn(q, f), NEW i, IsFirst(r, f, i)
      PROVE  r[i].payload.n = q[1].payload.n + 1
  <2>1. i \in DOMAIN r /\ Of(r, f, i)
    BY ONLY <1>5 DEF IsFirst
  <2>2. ASSUME NEW k \in DOMAIN q, 1 < k, k < i + 1 PROVE ~Of(q, f, k)
    <3>1. k - 1 \in DOMAIN r /\ k - 1 < i /\ (k - 1) + 1 = k
      BY ONLY <1>1, <1>2, <2>1, <2>2
    <3>2. ~Of(r, f, k - 1)
      BY ONLY <1>5, <3>1 DEF IsFirst
    <3> QED BY ONLY <1>1, <3>1, <3>2
  <2>3. i + 1 \in DOMAIN q /\ 1 < i + 1 /\ r[i] = q[i + 1] /\ Of(q, f, i + 1)
    <3>1. i >= 1
      BY <2>1 DEF Shorter
    <3> QED BY ONLY <1>1, <2>1, <3>1
  <2>4. q[i + 1].payload.n = q[1].payload.n + 1
    BY ONLY <1>3, <1>5, <2>2, <2>3, Of(q, f, 1) DEF FollowOn
  <2> QED BY ONLY <2>3, <2>4
<1>6. ASSUME NoneOf(r, f) PROVE IsLast(q, f, 1)
  <2>1. ASSUME NEW k \in DOMAIN q, 1 < k PROVE ~Of(q, f, k)
    BY <1>1, <1>2, <1>6, <2>1 DEF NoneOf
  <2> QED BY ONLY <1>3, <2>1, Of(q, f, 1) DEF IsLast
<1>7. FirstIs(q, f, x) => q[1].payload.n = x
  BY ONLY <1>4 DEF FirstIs
<1>8. FollowOn(q, f) => FirstIs(r, f, q[1].payload.n + 1)
  BY ONLY <1>5 DEF FirstIs
<1>9. NoneOf(r, f) /\ LastIs(q, f, x) => q[1].payload.n = x
  BY ONLY <1>6 DEF LastIs
<1> QED BY <1>7, <1>8, <1>9

-----------------------------------------------------------------------------
(* The place of feed f: p is its task, u its receiver and t the number of   *)
(* trades; d is on its way, g is opened, o says that the connection is up   *)
(* and l that something came late.                                          *)

Live == {"idle", "encrypt", "send"}

Busy == {"encrypt", "send"}

(* The last trade that was handed to the connection, if any was. *)
Handed(p, u, t) == t - Len(u) - (IF p.pc \in Busy THEN 1 ELSE 0)

(* The receiver has the latest trades, and the task the one before them. *)
Waiting(u, t) == \A k \in DOMAIN u : u[k] = t - Len(u) + k

TaskOK(f, p, u, t) ==
    /\ p.pc = "encrypt" => p.payload = [feed |-> f, n |-> t - Len(u)]
    /\ p.pc = "send" => p.payload.payload = [feed |-> f, n |-> t - Len(u)]

Tape(f, p, u, t, d, g, o, l) ==
    /\ p.pc = "off" => NoneOf(d, f) /\ NoneOf(g, f) /\ u = << >>
    /\ p.pc \in Live => /\ Waiting(u, t)
                        /\ TaskOK(f, p, u, t)
                        /\ LastIs(d, f, Handed(p, u, t))
                        /\ o /\ ~l /\ NoneOf(d, f) => LastIs(g, f, Handed(p, u, t))
    /\ FollowOn(d, f)
    /\ ~l => FollowOn(g, f)
    /\ o /\ ~l => Joined(g, d, f)

LEMMA TapePublished ==
    ASSUME NEW f, NEW p, NEW u \in Seq(1 .. MaxTrades), NEW t \in Nat, t < MaxTrades,
           NEW d, NEW g, NEW o, NEW l, Tape(f, p, u, t, d, g, o, l), p.pc # "off"
    PROVE  Tape(f, p, Append(u, t + 1), t + 1, d, g, o, l)
<1>1. CASE p.pc \in Live
  <2>1. t + 1 \in 1 .. MaxTrades
    BY ChannelAssumption
  <2>2. PICK v : v = Append(u, t + 1)
    OBVIOUS
  <2>3. /\ Len(v) = Len(u) + 1 /\ Len(u) \in Nat
        /\ \A k \in 1 .. Len(u) : v[k] = u[k]
        /\ v[Len(u) + 1] = t + 1
        /\ DOMAIN u = 1 .. Len(u) /\ DOMAIN v = 1 .. Len(v)
    <3> DEFINE S == 1 .. MaxTrades
    <3>1. u \in Seq(S) /\ t + 1 \in S
      BY <2>1
    <3> HIDE DEF S
    <3>2. /\ v \in Seq(S) /\ Len(v) = Len(u) + 1
          /\ \A k \in 1 .. Len(u) : v[k] = u[k]
          /\ v[Len(u) + 1] = t + 1
      BY ONLY <2>2, <3>1, AppendProperties
    <3> QED BY ONLY <3>1, <3>2
  <2>4. (t + 1) - Len(v) = t - Len(u)
    BY ONLY <2>3, t \in Nat
  <2>5. Waiting(v, t + 1)
    <3>1. Waiting(u, t)
      BY <1>1 DEF Tape
    <3> QED BY ONLY <2>3, <2>4, <3>1, t \in Nat DEF Waiting
  <2>6. Handed(p, v, t + 1) = Handed(p, u, t)
    BY ONLY <2>4 DEF Handed
  <2>7. TaskOK(f, p, v, t + 1)
    <3>1. TaskOK(f, p, u, t)
      BY <1>1 DEF Tape
    <3> QED BY ONLY <2>4, <3>1 DEF TaskOK
  <2>8. Tape(f, p, v, t + 1, d, g, o, l)
    BY ONLY <1>1, <2>5, <2>6, <2>7, Tape(f, p, u, t, d, g, o, l), p.pc # "off" DEF Tape
  <2> QED BY <2>2, <2>8
<1>2. CASE p.pc \notin Live
  BY ONLY <1>2, Tape(f, p, u, t, d, g, o, l), p.pc # "off" DEF Tape
<1> QED BY <1>1, <1>2

LEMMA TapeReceived ==
    ASSUME NEW f, NEW p, NEW u \in Seq(1 .. MaxTrades), NEW t \in Nat,
           NEW d, NEW g, NEW o, NEW l, Tape(f, p, u, t, d, g, o, l), p.pc = "idle", u # << >>,
           NEW q, q.pc = "encrypt", q.payload = [feed |-> f, n |-> Head(u)]
    PROVE  Tape(f, q, Tail(u), t, d, g, o, l)
<1>1. PICK v : v = Tail(u)
  OBVIOUS
<1>2. /\ Shorter(u, v) /\ Head(u) = u[1] /\ Len(v) = Len(u) - 1 /\ Len(u) \in Nat
  <2> DEFINE S == 1 .. MaxTrades
  <2>1. u \in Seq(S)
    OBVIOUS
  <2> HIDE DEF S
  <2>2. v \in Seq(S) /\ Len(v) = Len(u) - 1 /\ Len(u) \in Nat
    BY ONLY <1>1, <2>1, u # << >>, HeadTailProperties
  <2> QED BY ONLY <1>1, <2>1, <2>2, u # << >>, TailIsShorter
<1>3. Waiting(u, t) /\ p.pc \in Live
  BY DEF Tape, Live
<1>4. Head(u) = t - Len(v) /\ Waiting(v, t)
  <2>1. u[1] = t - Len(u) + 1
    BY ONLY <1>2, <1>3 DEF Waiting, Shorter
  <2>2. ASSUME NEW k \in DOMAIN v PROVE v[k] = t - Len(v) + k
    <3>1. k + 1 \in DOMAIN u /\ k \in Int /\ v[k] = u[k + 1]
      BY ONLY <1>2, <2>2 DEF Shorter
    <3>2. u[k + 1] = t - Len(u) + (k + 1)
      BY ONLY <1>3, <3>1 DEF Waiting
    <3> QED BY ONLY <1>2, <3>1, <3>2, t \in Nat
  <2> QED BY ONLY <1>2, <2>1, <2>2, t \in Nat DEF Waiting
<1>5. Handed(q, v, t) = Handed(p, u, t)
  BY ONLY <1>2, t \in Nat, p.pc = "idle", q.pc = "encrypt" DEF Handed, Busy
<1>6. TaskOK(f, q, v, t)
  BY ONLY <1>4, q.pc = "encrypt", q.payload = [feed |-> f, n |-> Head(u)] DEF TaskOK
<1>7. Tape(f, q, v, t, d, g, o, l)
  BY ONLY <1>3, <1>4, <1>5, <1>6, Tape(f, p, u, t, d, g, o, l), q.pc = "encrypt" DEF Tape, Live
<1> QED BY <1>1, <1>7

LEMMA TapeEnded ==
    ASSUME NEW f, NEW p, NEW u, NEW t, NEW d, NEW g, NEW o, NEW l,
           Tape(f, p, u, t, d, g, o, l), NEW q, q.pc = "ended", NEW v
    PROVE  Tape(f, q, v, t, d, g, o, l)
BY DEF Tape, Live

LEMMA TapeEncrypted ==
    ASSUME NEW f, NEW p, NEW u, NEW t, NEW d, NEW g, NEW o, NEW l,
           Tape(f, p, u, t, d, g, o, l), p.pc = "encrypt",
           NEW q, q.pc = "send", q.payload.payload = p.payload
    PROVE  Tape(f, q, u, t, d, g, o, l)
<1>1. Handed(q, u, t) = Handed(p, u, t)
  BY DEF Handed, Busy
<1> QED BY <1>1 DEF Tape, Live, TaskOK

LEMMA TapeSubscribed ==
    ASSUME NEW f, NEW p, NEW u, NEW t, NEW d, NEW g, NEW o, NEW l,
           Tape(f, p, u, t, d, g, o, l), p.pc = "off", NEW q, q.pc = "idle"
    PROVE  Tape(f, q, u, t, d, g, o, l)
<1>1. u = << >> /\ NoneOf(d, f) /\ NoneOf(g, f)
  BY DEF Tape
<1>2. Waiting(u, t)
  BY ONLY <1>1 DEF Waiting
<1>3. \A x : LastIs(d, f, x) /\ LastIs(g, f, x)
  BY ONLY <1>1 DEF LastIs, IsLast, NoneOf
<1>4. TaskOK(f, q, u, t)
  BY DEF TaskOK
<1> QED BY <1>2, <1>3, <1>4 DEF Tape

LEMMA TapeSent ==
    ASSUME NEW f, NEW p, NEW u \in Seq(1 .. MaxTrades), NEW t \in Nat, NEW d, NEW g, NEW l,
           Tape(f, p, u, t, d, g, TRUE, l), p.pc = "send",
           NEW e, Longer(d, p.payload, e), NEW q, q.pc = "idle"
    PROVE  Tape(f, q, u, t, e, g, TRUE, l)
<1>1. PICK m : m = p.payload
  OBVIOUS
<1>2. PICK x : x = Handed(p, u, t)
  OBVIOUS
<1>3. Len(u) \in Nat
  OBVIOUS
<1>4. /\ x + 1 = t - Len(u) /\ Handed(q, u, t) = x + 1 /\ x \in Int
  BY ONLY <1>2, <1>3, t \in Nat, p.pc = "send", q.pc = "idle" DEF Handed, Busy
<1>5. /\ Waiting(u, t)
      /\ m.payload.feed = f /\ m.payload.n = x + 1
      /\ LastIs(d, f, x) /\ FollowOn(d, f)
      /\ ~l /\ NoneOf(d, f) => LastIs(g, f, x)
      /\ ~l => FollowOn(g, f) /\ Joined(g, d, f)
  BY <1>1, <1>2, <1>4 DEF Tape, Live, TaskOK
<1>6. Longer(d, m, e)
  BY <1>1
<1>7. FollowOn(e, f) /\ LastIs(e, f, x + 1)
  BY ONLY <1>5, <1>6, NextAppended
<1>8. ~NoneOf(e, f)
  <2>1. Len(d) + 1 \in DOMAIN e /\ Of(e, f, Len(d) + 1)
    BY ONLY <1>5, <1>6 DEF Longer, Of
  <2> QED BY ONLY <2>1 DEF NoneOf
<1>9. ~l => Joined(g, e, f)
  <2> SUFFICES ASSUME ~l, NEW i, IsLast(g, f, i) PROVE FirstIs(e, f, g[i].payload.n + 1)
    BY DEF Joined
  <2>1. PICK y : y = g[i].payload.n + 1
    OBVIOUS
  <2>2. FirstIs(d, f, y)
    BY <1>5, <2>1 DEF Joined
  <2>3. NoneOf(d, f) => m.payload.n = y
    BY <1>5, <2>1 DEF LastIs
  <2>4. FirstIs(e, f, y)
    BY ONLY <1>5, <1>6, <2>2, <2>3, FirstAppended
  <2> QED BY <2>1, <2>4
<1>10. TaskOK(f, q, u, t)
  BY DEF TaskOK
<1> QED BY ONLY <1>4, <1>5, <1>7, <1>8, <1>9, <1>10, q.pc = "idle" DEF Tape, Live

(* Another feed sends. *)
LEMMA TapePassed ==
    ASSUME NEW f, NEW p, NEW u, NEW t, NEW d, NEW g, NEW o, NEW l,
           Tape(f, p, u, t, d, g, o, l), NEW m, m.payload.feed # f, NEW e, Longer(d, m, e)
    PROVE  Tape(f, p, u, t, e, g, o, l)
<1>1. \A x : /\ FollowOn(d, f) => FollowOn(e, f)
             /\ LastIs(d, f, x) => LastIs(e, f, x)
             /\ FirstIs(d, f, x) => FirstIs(e, f, x)
             /\ NoneOf(d, f) <=> NoneOf(e, f)
  BY OtherAppended
<1>2. Joined(g, d, f) => Joined(g, e, f)
  BY ONLY <1>1 DEF Joined
<1> QED BY ONLY <1>1, <1>2, Tape(f, p, u, t, d, g, o, l) DEF Tape

(* The client opens what is next. *)
LEMMA TapeOpened ==
    ASSUME NEW f, NEW p, NEW u, NEW t, NEW d, NEW g, NEW o,
           Tape(f, p, u, t, d, g, o, FALSE), o = TRUE,
           NEW e, Shorter(d, e), NEW h, Longer(g, d[1], h)
    PROVE  Tape(f, p, u, t, e, h, o, FALSE)
<1>1. PICK m : m = d[1]
  OBVIOUS
<1>2. PICK x : x = Handed(p, u, t)
  OBVIOUS
<1>3. Longer(g, m, h)
  BY <1>1
<1>4. /\ p.pc = "off" => NoneOf(d, f) /\ NoneOf(g, f) /\ u = << >>
      /\ p.pc \in Live => /\ Waiting(u, t) /\ TaskOK(f, p, u, t) /\ LastIs(d, f, x)
                          /\ NoneOf(d, f) => LastIs(g, f, x)
      /\ FollowOn(d, f) /\ FollowOn(g, f) /\ Joined(g, d, f)
  BY ONLY <1>2, Tape(f, p, u, t, d, g, o, FALSE), o = TRUE DEF Tape
<1>5. /\ FollowOn(e, f)
      /\ LastIs(d, f, x) => LastIs(e, f, x)
      /\ NoneOf(d, f) => NoneOf(e, f)
  BY ONLY <1>4, Shorter(d, e), HeadTaken
<1>6. CASE m.payload.feed # f
  <2>1. ~Of(d, f, 1)
    BY ONLY <1>1, <1>6 DEF Of
  <2>2. \A y : FirstIs(d, f, y) => FirstIs(e, f, y)
    BY ONLY <2>1, Shorter(d, e), OtherTaken
  <2>3. NoneOf(e, f) => NoneOf(d, f)
    BY ONLY <2>1, Shorter(d, e), OtherTaken
  <2>4. \A y : LastIs(g, f, y) => LastIs(h, f, y)
    BY ONLY <1>3, <1>6, OtherAppended
  <2>5. /\ FollowOn(h, f)
        /\ NoneOf(g, f) => NoneOf(h, f)
        /\ \A i : IsLast(h, f, i) => IsLast(g, f, i) /\ h[i] = g[i]
    BY ONLY <1>3, <1>4, <1>6, OtherAppended
  <2>6. Joined(h, e, f)
    BY ONLY <1>4, <2>2, <2>5 DEF Joined
  <2> QED BY ONLY <1>2, <1>4, <1>5, <2>3, <2>4, <2>5, <2>6 DEF Tape
<1>7. CASE m.payload.feed = f
  <2>1. Of(d, f, 1) /\ 1 \in DOMAIN d
    BY ONLY <1>1, <1>7, Shorter(d, e) DEF Of, Shorter
  <2>2. ~NoneOf(d, f)
    BY ONLY <2>1 DEF NoneOf
  <2>3. /\ \A y : FirstIs(d, f, y) => m.payload.n = y
        /\ FirstIs(e, f, m.payload.n + 1)
        /\ NoneOf(e, f) /\ LastIs(d, f, x) => m.payload.n = x
    BY ONLY <1>1, <1>4, <2>1, Shorter(d, e), OwnTaken
  <2>4. Len(g) + 1 \in DOMAIN h /\ h[Len(g) + 1] = m
    BY ONLY <1>3 DEF Longer
  <2>5. \A i : IsLast(h, f, i) => h[i] = m
    BY ONLY <1>3, <1>7, <2>4 DEF IsLast, Longer, Of
  <2>6. \A i : IsLast(g, f, i) => m.payload.n = g[i].payload.n + 1
    BY ONLY <1>4, <2>3 DEF Joined
  <2>7. FollowOn(h, f)
    <3> SUFFICES ASSUME NEW i \in DOMAIN h, NEW j \in DOMAIN h, i < j, Of(h, f, i), Of(h, f, j),
                        \A k \in DOMAIN h : i < k /\ k < j => ~Of(h, f, k)
                 PROVE  h[j].payload.n = h[i].payload.n + 1
      BY DEF FollowOn
    <3>1. /\ DOMAIN h = 1 .. Len(g) + 1 /\ DOMAIN g = 1 .. Len(g) /\ Len(g) \in Nat
          /\ \A k \in DOMAIN g : h[k] = g[k] /\ (Of(h, f, k) <=> Of(g, f, k))
      BY ONLY <1>3 DEF Longer, Of
    <3>2. i \in DOMAIN g
      BY ONLY <3>1, i \in DOMAIN h, j \in DOMAIN h, i < j
    <3>3. CASE j \in DOMAIN g
      <4>1. \A k \in DOMAIN g : i < k /\ k < j => ~Of(g, f, k)
        BY <3>1
      <4> QED BY ONLY <1>4, <3>1, <3>2, <3>3, <4>1, i < j, Of(h, f, i), Of(h, f, j) DEF FollowOn
    <3>4. CASE j \notin DOMAIN g
      <4>1. j = Len(g) + 1
        BY ONLY <3>1, <3>4, j \in DOMAIN h
      <4>2. \A k \in DOMAIN g : i < k => ~Of(g, f, k)
        BY <3>1, <4>1
      <4>3. IsLast(g, f, i)
        BY ONLY <3>1, <3>2, <4>2, Of(h, f, i) DEF IsLast
      <4> QED BY ONLY <2>4, <2>6, <3>1, <3>2, <4>1, <4>3
    <3> QED BY <3>3, <3>4
  <2>8. Joined(h, e, f)
    BY ONLY <2>3, <2>5 DEF Joined
  <2>9. NoneOf(e, f) /\ LastIs(d, f, x) => LastIs(h, f, x)
    BY ONLY <2>3, <2>5 DEF LastIs
  <2> QED BY ONLY <1>2, <1>4, <1>5, <2>2, <2>7, <2>8, <2>9 DEF Tape
<1> QED BY <1>6, <1>7

(* The client reads what comes late. *)
LEMMA TapeLate ==
    ASSUME NEW f, NEW p, NEW u, NEW t, NEW d, NEW g, NEW o, NEW l,
           Tape(f, p, u, t, d, g, o, l), NEW e, Shorter(d, e),
           NEW h, h = g \/ Longer(g, d[1], h)
    PROVE  Tape(f, p, u, t, e, h, o, TRUE)
<1>1. /\ FollowOn(d, f) => FollowOn(e, f)
      /\ \A x : LastIs(d, f, x) => LastIs(e, f, x)
      /\ NoneOf(d, f) => NoneOf(e, f)
  BY HeadTaken
<1>2. NoneOf(d, f) /\ NoneOf(g, f) => NoneOf(h, f)
  <2>1. NoneOf(d, f) => d[1].payload.feed # f
    BY DEF NoneOf, Of, Shorter
  <2>2. d[1].payload.feed # f /\ Longer(g, d[1], h) => (NoneOf(g, f) <=> NoneOf(h, f))
    BY OtherAppended
  <2> QED BY <2>1, <2>2
<1> QED BY ONLY <1>1, <1>2, Tape(f, p, u, t, d, g, o, l) DEF Tape

LEMMA TapeClosed ==
    ASSUME NEW f, NEW p, NEW u, NEW t, NEW d, NEW g, NEW o, NEW l,
           Tape(f, p, u, t, d, g, o, l)
    PROVE  Tape(f, p, u, t, << >>, g, FALSE, l)
<1>1. NoneOf(<< >>, f) /\ FollowOn(<< >>, f) /\ \A x : LastIs(<< >>, f, x)
  BY DEF NoneOf, FollowOn, LastIs, IsLast
<1> QED BY ONLY <1>1, Tape(f, p, u, t, d, g, o, l) DEF Tape

-----------------------------------------------------------------------------
(* One command is sent, before any feed begins; messages name their feed;   *)
(* every trade is in its place.                                             *)

AllOff == \A f \in Feeds : FeedIs(f, "off")

CommandOK ==
    /\ Len(up) <= 1
    /\ up # << >> => AllOff
    /\ noise["client"] # 3 => up = << >> /\ AllOff

NamedOK ==
    \A f \in Feeds : /\ FeedIs(f, "encrypt") => feed[f].payload.feed = f
                     /\ FeedIs(f, "send") => feed[f].payload.payload.feed = f

TapesOK == \A f \in Tapes : Tape(f, feed[f], unread[f], trades, down, got, open, late)

TInv == CommandOK /\ NamedOK /\ TapesOK

LEMMA TapesBegin == Init => TInv
<1> SUFFICES ASSUME Init PROVE TInv
  OBVIOUS
<1>1. CommandOK
  BY DEF Init, CommandOK, AllOff, FeedIs, Idle, NewNoise
<1>2. NamedOK
  BY DEF Init, NamedOK, FeedIs, Idle
<1>3. ASSUME NEW f \in Tapes PROVE Tape(f, feed[f], unread[f], trades, down, got, open, late)
  <2>1. feed[f].pc = "off" /\ unread[f] = << >> /\ down = << >> /\ got = << >>
    BY DEF Init, Feeds, Idle
  <2>2. NoneOf(<< >>, f) /\ FollowOn(<< >>, f) /\ Joined(<< >>, << >>, f)
    BY DEF NoneOf, FollowOn, Joined, IsLast
  <2> QED BY ONLY <2>1, <2>2 DEF Tape, Live
<1> QED BY <1>1, <1>2, <1>3 DEF TInv, TapesOK

LEMMA CommandStep == IInv /\ CommandOK /\ [Next]_vars => CommandOK'
<1> SUFFICES ASSUME IInv, CommandOK, [Next]_vars PROVE CommandOK'
  OBVIOUS
<1>1. CASE ClientFinishes
  <2>1. up = << >> /\ AllOff
    BY <1>1 DEF ClientFinishes, CommandOK
  <2>2. Len(up') = 1
    BY ONLY <1>1, <2>1 DEF ClientFinishes
  <2>3. AllOff' /\ noise'["client"] = 3
    BY <1>1, <2>1 DEF ClientFinishes, AllOff, FeedIs, IInv, SessionsOK
  <2> QED BY ONLY <2>2, <2>3 DEF CommandOK
<1>2. CASE ReadCommand
  <2>1. up' = << >>
    <3>1. PICK q : q = up
      OBVIOUS
    <3>2. q \in Seq(Command) /\ Len(q) <= 1 /\ q # << >> /\ up' = Tail(q)
      BY <1>2, <3>1 DEF IInv, SessionsOK, CommandOK, ReadCommand
    <3> QED BY ONLY <3>2
  <2>2. noise'["client"] = 3
    BY <1>2 DEF ReadCommand, IInv, SessionsOK, ends
  <2> QED BY ONLY <2>1, <2>2 DEF CommandOK
<1>3. ASSUME NEW f \in Feeds, FeedStep(f) PROVE CommandOK'
  <2>1. ~FeedIs(f, "off") /\ UNCHANGED <<up, noise>>
    BY <1>3 DEF FeedStep, Tick, Receive, Encrypt, Send, FeedIs, ends
  <2>2. up = << >> /\ noise["client"] = 3
    BY <2>1 DEF CommandOK, AllOff
  <2> QED BY ONLY <2>1, <2>2 DEF CommandOK
<1>4. CASE ClientHello \/ ServerAnswers \/ ServerFinishes \/ Read \/ Publish \/ Close \/ UNCHANGED vars
  <2>1. /\ up' \in {up, << >>} /\ feed' = feed
        /\ noise'["client"] # 3 => noise["client"] # 3
    BY <1>4 DEF ClientHello, ServerAnswers, ServerFinishes, Read, Publish, Close, vars, ends, IInv,
       SessionsOK
  <2> QED BY <2>1 DEF CommandOK, AllOff, FeedIs
<1> QED BY <1>1, <1>2, <1>3, <1>4 DEF Next, SocketStep

LEMMA NamedStep == IInv /\ NamedOK /\ [Next]_vars => NamedOK'
<1> SUFFICES ASSUME IInv, NamedOK, [Next]_vars PROVE NamedOK'
  OBVIOUS
<1>0. DOMAIN feed = Feeds
  BY DEF IInv, TrafficOK
<1>1. CASE UNCHANGED feed
  BY <1>1 DEF NamedOK, FeedIs
<1>2. CASE ReadCommand
  BY <1>2 DEF ReadCommand, NamedOK, FeedIs, Idle
<1>3. ASSUME NEW f \in Feeds, FeedStep(f) PROVE NamedOK'
  <2>1. PICK p : p = feed'[f]
    OBVIOUS
  <2>2. feed' = [feed EXCEPT ![f] = p]
    BY <1>0, <1>3, <2>1 DEF FeedStep, Tick, Receive, Encrypt, Send
  <2>3. /\ p.pc = "encrypt" => p.payload.feed = f
        /\ p.pc = "send" => p.payload.payload.feed = f
    BY <1>0, <1>3, <2>1 DEF FeedStep, Tick, Receive, Encrypt, Send, NamedOK, FeedIs, Idle, Payload,
       Encrypted, EndsLoop
  <2> QED BY ONLY <1>0, <2>2, <2>3, NamedOK DEF NamedOK, FeedIs
<1> QED BY <1>1, <1>2, <1>3
        DEF Next, SocketStep, ClientHello, ServerAnswers, ClientFinishes, ServerFinishes, Read,
            Publish, Close, vars

TapeOf(f) == Tape(f, feed[f], unread[f], trades, down, got, open, late)

LEMMA TapesCommanded ==
    ASSUME IInv, TInv, ReadCommand
    PROVE  TapesOK'
<1>1. SUFFICES ASSUME NEW f \in Tapes
               PROVE  Tape(f, feed'[f], unread[f], trades, down, got, open, late)
  BY DEF ReadCommand, TapesOK, ends, history
<1>2. TapeOf(f) /\ feed[f].pc = "off"
  BY DEF TInv, TapesOK, TapeOf, CommandOK, AllOff, ReadCommand, FeedIs, Feeds
<1>3. feed'[f] = feed[f] \/ feed'[f].pc = "idle"
  BY DEF ReadCommand, Idle, Feeds
<1> QED BY <1>2, <1>3, TapeSubscribed DEF TapeOf

LEMMA TapesPublished ==
    ASSUME IInv, TInv, Publish
    PROVE  TapesOK'
<1>1. SUFFICES ASSUME NEW f \in Tapes
               PROVE  Tape(f, feed[f], unread'[f], trades + 1, down, got, open, late)
  BY DEF Publish, TapesOK, ends, history
<1>2. TapeOf(f) /\ unread[f] \in Seq(1 .. MaxTrades) /\ trades \in Nat /\ trades < MaxTrades
  BY ChannelAssumption DEF TInv, TapesOK, TapeOf, IInv, TrafficOK, Publish
<1>3. unread'[f] = IF feed[f].pc \in {"off", "ended"} THEN unread[f]
                   ELSE Append(unread[f], trades + 1)
  BY DEF Publish, FeedIs
<1>4. CASE feed[f].pc \in {"off", "ended"}
  BY <1>2, <1>3, <1>4 DEF TapeOf, Tape, Live
<1>5. CASE feed[f].pc \notin {"off", "ended"}
  BY <1>2, <1>3, <1>5, TapePublished DEF TapeOf
<1> QED BY <1>4, <1>5

LEMMA TapesFed ==
    ASSUME IInv, TInv, NEW h \in Feeds, Receive(h) \/ Encrypt(h)
    PROVE  TapesOK'
<1>1. SUFFICES ASSUME NEW f \in Tapes
               PROVE  Tape(f, feed'[f], unread'[f], trades, down, got, open, late)
  BY DEF Receive, Encrypt, TapesOK, ends, history
<1>2. /\ TapeOf(f) /\ unread[f] \in Seq(1 .. MaxTrades) /\ trades \in Nat
      /\ DOMAIN feed = Feeds /\ f \in Feeds /\ DOMAIN unread = Tapes
  BY ChannelAssumption DEF TInv, TapesOK, TapeOf, IInv, TrafficOK, Feeds
<1>3. CASE f # h
  <2>1. feed'[f] = feed[f] /\ unread'[f] = unread[f]
    BY <1>2, <1>3 DEF Receive, Encrypt
  <2> QED BY <1>2, <2>1 DEF TapeOf
<1>4. CASE f = h /\ Encrypt(h)
  <2>1. /\ feed[f].pc = "encrypt" /\ unread'[f] = unread[f]
        /\ feed'[f].pc = "send" /\ feed'[f].payload.payload = feed[f].payload
    BY <1>2, <1>4 DEF Encrypt, Encrypted, FeedIs
  <2> QED BY <1>2, <2>1, TapeEncrypted DEF TapeOf
<1>5. CASE f = h /\ Receive(h)
  <2>1. PICK u : u = unread[f]
    OBVIOUS
  <2>2. PICK q : q = feed'[f]
    OBVIOUS
  <2>3. /\ feed[f].pc = "idle" /\ u # << >>
        /\ \/ /\ q.pc = "encrypt" /\ q.payload = [feed |-> f, n |-> Head(u)]
              /\ unread'[f] = Tail(u)
           \/ q.pc = "ended"
    BY <1>2, <1>5, <2>1, <2>2 DEF Receive, FeedIs, Payload, Idle, EndsLoop
  <2>4. CASE q.pc = "ended"
    BY <1>2, <2>2, <2>4, TapeEnded DEF TapeOf
  <2>5. CASE q.pc # "ended"
    <3>1. PICK p, tr, dn, gt, op, lt :
            /\ p = feed[f] /\ tr = trades /\ dn = down
            /\ gt = got /\ op = open /\ lt = late
      OBVIOUS
    <3>2. /\ Tape(f, p, u, tr, dn, gt, op, lt)
          /\ u \in Seq(1 .. MaxTrades) /\ tr \in Nat
      BY ONLY <1>2, <2>1, <3>1 DEF TapeOf
    <3>3. /\ p.pc = "idle" /\ u # << >> /\ q.pc = "encrypt"
          /\ q.payload = [feed |-> f, n |-> Head(u)]
      BY ONLY <2>3, <2>5, <3>1
    <3>4. Tape(f, q, Tail(u), tr, dn, gt, op, lt)
      BY ONLY <3>2, <3>3, TapeReceived
    <3>5. unread'[f] = Tail(u)
      BY ONLY <2>3, <2>5
    <3> QED BY ONLY <2>2, <3>1, <3>4, <3>5
  <2> QED BY <2>4, <2>5
<1> QED BY <1>3, <1>4, <1>5

LEMMA TapesTicked ==
    ASSUME IInv, TInv, NEW h \in Feeds, Tick(h)
    PROVE  TapesOK'
<1>1. SUFFICES ASSUME NEW f \in Tapes
               PROVE  Tape(f, feed'[f], unread[f], trades, down, got, open, late)
  BY DEF Tick, TapesOK, ends, history
<1>2. feed'[f] = feed[f]
  BY ChannelAssumption DEF Tick, IInv, TrafficOK
<1> QED BY <1>2 DEF TInv, TapesOK

LEMMA TapesSent ==
    ASSUME IInv, TInv, NEW h \in Feeds, Send(h)
    PROVE  TapesOK'
<1>1. SUFFICES ASSUME NEW f \in Tapes
               PROVE  Tape(f, feed'[f], unread[f], trades, down', got, open, late)
  BY DEF Send, TapesOK, ends, history
<1>2. /\ TapeOf(f) /\ unread[f] \in Seq(1 .. MaxTrades) /\ trades \in Nat
      /\ DOMAIN feed = Feeds /\ f \in Feeds
  BY ChannelAssumption DEF TInv, TapesOK, TapeOf, IInv, TrafficOK, Feeds
<1>3. PICK m : m = feed[h].payload
  OBVIOUS
<1>4. PICK q : q = feed'[f]
  OBVIOUS
<1>5. m \in Message /\ m.payload.feed = h /\ down \in Seq(Message) /\ feed[h].pc = "send"
  BY <1>3 DEF IInv, TrafficOK, FeedOK, Send, FeedIs, TInv, NamedOK
<1>6. /\ f = h => q.pc = IF open THEN "idle" ELSE "ended"
      /\ f # h => q = feed[f]
      /\ down' = IF open THEN Append(down, m) ELSE down
      /\ open \in BOOLEAN
  BY <1>2, <1>3, <1>4 DEF Send, Idle, IInv, SessionsOK
<1>7. Longer(down, m, Append(down, m))
  BY ONLY <1>5, AppendIsLonger
<1>8. CASE ~open
  <2>1. CASE f = h
    BY <1>2, <1>4, <1>6, <1>8, <2>1, TapeEnded DEF TapeOf
  <2>2. CASE f # h
    BY <1>2, <1>4, <1>6, <1>8, <2>2 DEF TapeOf
  <2> QED BY <2>1, <2>2
<1>9. CASE open
  <2>0. open = TRUE
    BY <1>6, <1>9
  <2>1. CASE f = h
    BY <1>2, <1>3, <1>4, <1>5, <1>6, <1>7, <2>0, <2>1, TapeSent DEF TapeOf
  <2>2. CASE f # h
    BY <1>2, <1>4, <1>5, <1>6, <1>7, <1>9, <2>2, TapePassed DEF TapeOf
  <2> QED BY <2>1, <2>2
<1> QED BY <1>8, <1>9

LEMMA TapesRead ==
    ASSUME ClientKdf = "crate", IInv, TInv, Read
    PROVE  TapesOK'
<1>1. SUFFICES ASSUME NEW f \in Tapes
               PROVE  Tape(f, feed[f], unread[f], trades, down', got', open, late')
  BY DEF Read, TapesOK, ends
<1>2. TapeOf(f) /\ open = TRUE /\ late \in BOOLEAN
  BY DEF TInv, TapesOK, TapeOf, Read, IInv, SessionsOK, HistoryOK
<1>3. PICK e : e = down'
  OBVIOUS
<1>4. /\ down \in Seq(Message) /\ down # << >> /\ e = Tail(down) /\ got \in Seq(Message)
  BY <1>3 DEF Read, IInv, TrafficOK, HistoryOK
<1>5. Shorter(down, e) /\ Head(down) = down[1]
  BY ONLY <1>4, TailIsShorter
<1>6. PICK m : m = down[1]
  OBVIOUS
<1>7. /\ m \in Message /\ client \in ClientSession
      /\ got' = IF Opens(client, m) THEN Append(got, m) ELSE got
      /\ late' = (late \/ m.counter < newest)
      /\ noise["client"] = 3
  <2>1. m \in Message /\ Head(down) = m
    BY ONLY <1>4, <1>5, <1>6, HeadTailProperties
  <2> QED BY <2>1 DEF Read, IInv, TrafficOK, SessionsOK
<1>8. Longer(got, m, Append(got, m))
  BY ONLY <1>4, <1>7, AppendIsLonger
<1>9. CASE late'
  <2>1. got' = got \/ Longer(got, down[1], got')
    BY ONLY <1>6, <1>7, <1>8
  <2>2. late' = TRUE
    BY ONLY <1>2, <1>7, <1>9
  <2>3. PICK g : g = got'
    OBVIOUS
  <2>4. Tape(f, feed[f], unread[f], trades, e, g, open, TRUE)
    BY <1>2, <1>5, <2>1, <2>3, TapeLate DEF TapeOf
  <2> QED BY <1>3, <2>2, <2>3, <2>4
<1>10. CASE ~late'
  <2>1. late = FALSE /\ late' = FALSE /\ ~(m.counter < newest)
    BY ONLY <1>2, <1>7, <1>10
  <2>2. client.received = newest /\ client.receiving.step = newest
    BY <1>7, <2>1 DEF IInv, UpToDate
  <2>3. m.counter \in Nat /\ newest \in Nat
    BY <1>7 DEF IInv, HistoryOK, Message
  <2>4. m.counter >= client.received
    BY ONLY <2>1, <2>2, <2>3
  <2>5. Opens(client, m)
    BY ONLY <1>7, <2>2, <2>4, ClientKdf = "crate", Opening
  <2>6. PICK g : g = got'
    OBVIOUS
  <2>7. Longer(got, down[1], g)
    BY ONLY <1>6, <1>7, <1>8, <2>5, <2>6
  <2>8. Tape(f, feed[f], unread[f], trades, e, g, open, FALSE)
    BY <1>2, <1>5, <2>1, <2>7, TapeOpened DEF TapeOf
  <2> QED BY <1>3, <2>1, <2>6, <2>8
<1> QED BY <1>9, <1>10

LEMMA TapesClosed ==
    ASSUME IInv, TInv, Close
    PROVE  TapesOK'
<1>1. SUFFICES ASSUME NEW f \in Tapes
               PROVE  Tape(f, feed[f], unread[f], trades, << >>, got, FALSE, late)
  BY DEF Close, TapesOK, history
<1>2. TapeOf(f)
  BY DEF TInv, TapesOK, TapeOf
<1> QED BY <1>2, TapeClosed DEF TapeOf

LEMMA TapesStep ==
    ASSUME ClientKdf = "crate", IInv, TInv, [Next]_vars
    PROVE  TInv'
<1>1. CASE ClientHello \/ ServerAnswers \/ ServerFinishes \/ ClientFinishes \/ UNCHANGED vars
  <2>1. UNCHANGED <<feed, unread, trades, down, got, open, late>>
    BY <1>1 DEF ClientHello, ServerAnswers, ServerFinishes, ClientFinishes, vars, ends, history
  <2> QED BY <2>1, CommandStep, NamedStep DEF TInv, TapesOK
<1>2. CASE ReadCommand \/ Read \/ Publish \/ Close
  BY <1>2, TapesCommanded, TapesRead, TapesPublished, TapesClosed, CommandStep, NamedStep DEF TInv
<1>3. ASSUME NEW f \in Feeds, FeedStep(f) PROVE TInv'
  BY <1>3, TapesTicked, TapesFed, TapesSent, CommandStep, NamedStep DEF TInv, FeedStep
<1> QED BY <1>1, <1>2, <1>3 DEF Next, SocketStep

(* The trades of a feed that a client opens have no gap, until it has read  *)
(* a message after a newer one: a feed that fell behind has ended (gateway  *)
(* lib.rs:95).                                                              *)
THEOREM NoGap ==
    ASSUME ClientKdf = "crate"
    PROVE  Spec => []TradesFollow
<1>1. IInv /\ TInv /\ [Next]_vars => TInv'
  BY TapesStep
<1>2. TInv => TradesFollow
  BY DEF TInv, TapesOK, Tape, TradesFollow
<1> QED BY <1>1, <1>2, TapesBegin, Invariance, PTL DEF Spec
=============================================================================
