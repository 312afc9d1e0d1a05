------------------------------- MODULE Channel ------------------------------
(***************************************************************************)
(* One WebSocket of the gateway: the Noise handshake, the subscription,    *)
(* the tasks that feed the socket, and the client at the other end.        *)
(*                                                                         *)
(* The connection keeps the order of its frames and loses none of them.    *)
(* Every task encrypts under the lock of the ratchet and sends under the   *)
(* lock of the sender, one after the other: between the two another task   *)
(* may do both.                                                            *)
(***************************************************************************)
EXTENDS Ratchet, Sequences

CONSTANTS
    Books, Tapes,  \* subscriptions to orderbook:... and to trades:...
    ClientKdf,     \* "crate", or "page" for the ratchet of frontend ws.rs
    Capacity,      \* of a broadcast channel, 256 in trade_sender
    MaxSent,       \* bound on messages of the gateway
    MaxTrades      \* bound on trades, and on changes of the book

ASSUME ChannelAssumption ==
    /\ Books \cap Tapes = {}
    /\ ClientKdf \in {"crate", "page"}
    /\ Capacity \in Nat /\ MaxSent \in Nat /\ MaxTrades \in Nat

VARIABLES
    noise,     \* for each side, how many of the three messages it has done
    open,      \* the connection is up
    server,    \* the ratchet of the gateway, shared by all tasks of the socket
    client,    \* the ratchet of the client
    up, down,  \* frames on their way
    feed,      \* the task of each subscription
    unread,    \* trades that wait in the receiver of each subscription
    trades,    \* how many trades there were: the n-th changes the book to n
    got,       \* history: the messages the client could open
    newest,    \* history: one more than the largest counter it has read
    late       \* history: it has read a message after one that is newer

ends == <<noise, open>>
ratchets == <<server, client>>
history == <<got, newest, late>>
vars == <<ends, ratchets, up, down, feed, unread, trades, history>>

Feeds == Books \cup Tapes

FeedIs(f, pc) == feed[f].pc = pc

(* What a feed has to send: the state of the book, or a trade. *)
Payload(f, n) == [feed |-> f, n |-> n]

Idle(pc) == [pc |-> pc, payload |-> "none"]

-----------------------------------------------------------------------------
(* The handshake: Noise XX, three messages; the server answers the first,   *)
(* the client the second with the third.  With the third the client goes    *)
(* over to the ratchet, and so does the server when it has read it.         *)

NoSession == InitSender("none", "none", "none")

(* A Noise session is the number of messages it has written or read. *)
NewNoise == 0

Written(n) == n + 1

ReadBy(n) == n + 1

(* is_handshake_finished; only then may it go into transport. *)
Finished(n) == n = 3

(* The session of the page begins with keys of the page's own functions. *)
ClientSender == InitSender(ClientKdf, "clientKey", "serverKey")

Subscribed(s) == Encrypted(s, "subscribe")

ClientHello ==
    /\ open /\ noise["client"] = 0
    /\ noise' = [noise EXCEPT !["client"] = Written(@)]
    /\ UNCHANGED <<open, ratchets, up, down, feed, unread, trades, history>>

ServerAnswers ==
    /\ open /\ noise = [client |-> 1, server |-> 0]
    /\ noise' = [noise EXCEPT !["server"] = Written(ReadBy(@))]
    /\ UNCHANGED <<open, ratchets, up, down, feed, unread, trades, history>>

(* The client sends what it subscribes to at once. *)
ClientFinishes ==
    /\ open /\ noise = [client |-> 1, server |-> 2]
    /\ noise' = [noise EXCEPT !["client"] = Written(ReadBy(@))]
    /\ client' = AfterEncrypt(ClientSender)
    /\ up' = Append(up, Subscribed(ClientSender))
    /\ UNCHANGED <<open, server, down, feed, unread, trades, history>>

ServerFinishes ==
    /\ noise = [client |-> 3, server |-> 2]
    /\ noise' = [noise EXCEPT !["server"] = ReadBy(@)]
    /\ server' = InitReceiver("crate", "serverKey", "clientKey")
    /\ UNCHANGED <<open, client, up, down, feed, unread, trades, history>>

(* A command that cannot be opened is passed over. *)
ReadCommand ==
    /\ Finished(noise["server"])
    /\ up # << >>
    /\ up' = Tail(up)
    /\ server' = AfterDecrypt(server, Head(up))
    /\ feed' = IF Opens(server, Head(up))
                 THEN [f \in Feeds |-> Idle("idle")]
                 ELSE feed
    /\ UNCHANGED <<ends, client, down, unread, trades, history>>

-----------------------------------------------------------------------------
(* The tasks of the subscriptions. *)

(* persist_trades publishes to whoever subscribes to the pair.  What a user  *)
(* subscribes to with user:orders is named by the session and published by   *)
(* user, so that nothing ever comes; there is no feed for it here.           *)
Publish ==
    /\ trades < MaxTrades
    /\ trades' = trades + 1
    /\ unread' = [f \in Tapes |-> IF FeedIs(f, "off") \/ FeedIs(f, "ended") THEN unread[f]
                                  ELSE Append(unread[f], trades + 1)]
    /\ UNCHANGED <<ends, ratchets, up, down, feed, history>>

(* Every 100 ms a task takes a snapshot of the book. *)
Tick(f) ==
    /\ f \in Books
    /\ FeedIs(f, "idle")
    /\ server.sent < MaxSent
    /\ feed' = [feed EXCEPT ![f] = [pc |-> "encrypt", payload |-> Payload(f, trades)]]
    /\ UNCHANGED <<ends, ratchets, up, down, unread, trades, history>>

GoesOn == "idle"

EndsLoop == "ended"

(* A receiver that has fallen behind gets an error and the oldest message   *)
(* that is still there; for "while let Ok(msg)" the error is the end.       *)
Receive(f) ==
    /\ f \in Tapes
    /\ FeedIs(f, "idle")
    /\ unread[f] # << >>
    /\ \/ /\ Len(unread[f]) <= Capacity
          /\ server.sent < MaxSent
          /\ feed' = [feed EXCEPT ![f] = [pc |-> "encrypt",
                                         payload |-> Payload(f, Head(unread[f]))]]
          /\ unread' = [unread EXCEPT ![f] = Tail(@)]
       \/ /\ Len(unread[f]) > Capacity
          /\ feed' = [feed EXCEPT ![f] = Idle(EndsLoop)]
          /\ unread' = [unread EXCEPT ![f] = SubSeq(@, Len(@) - Capacity + 1, Len(@))]
    /\ UNCHANGED <<ends, ratchets, up, down, trades, history>>

Encrypt(f) ==
    /\ FeedIs(f, "encrypt")
    /\ feed' = [feed EXCEPT ![f] =
                   [pc |-> "send", payload |-> Encrypted(server, @.payload)]]
    /\ server' = AfterEncrypt(server)
    /\ UNCHANGED <<ends, client, up, down, unread, trades, history>>

Send(f) ==
    /\ FeedIs(f, "send")
    /\ \/ /\ open
          /\ down' = Append(down, feed[f].payload)
          /\ feed' = [feed EXCEPT ![f] = Idle("idle")]
       \/ /\ ~open
          /\ feed' = [feed EXCEPT ![f] = Idle("ended")]
          /\ UNCHANGED down
    /\ UNCHANGED <<ends, ratchets, up, unread, trades, history>>

-----------------------------------------------------------------------------
(* The client shows what it can open, and passes over the rest. *)

Shows(m) == Opens(client, m)

Read ==
    /\ open
    /\ down # << >>
    /\ LET m == Head(down)
       IN  /\ client' = AfterDecrypt(client, m)
           /\ got' = IF Shows(m) THEN Append(got, m) ELSE got
           /\ late' = (late \/ m.counter < newest)
           /\ newest' = IF m.counter < newest THEN newest ELSE m.counter + 1
    /\ down' = Tail(down)
    /\ UNCHANGED <<ends, server, up, feed, unread, trades>>

(* The page is left; the gateway may still read what was sent before. *)
Close ==
    /\ open
    /\ open' = FALSE
    /\ up' \in {up, << >>}
    /\ down' = << >>
    /\ UNCHANGED <<noise, ratchets, feed, unread, trades, history>>

-----------------------------------------------------------------------------

Init ==
    /\ noise = [client |-> NewNoise, server |-> NewNoise]
    /\ open = TRUE
    /\ server = NoSession /\ client = NoSession
    /\ up = << >> /\ down = << >>
    /\ feed = [f \in Feeds |-> Idle("off")]
    /\ unread = [f \in Tapes |-> << >>]
    /\ trades = 0
    /\ got = << >> /\ newest = 0 /\ late = FALSE

FeedStep(f) == Tick(f) \/ Receive(f) \/ Encrypt(f) \/ Send(f)

SocketStep ==
    ClientHello \/ ServerAnswers \/ ClientFinishes \/ ServerFinishes \/ ReadCommand \/ Read

Next == SocketStep \/ (\E f \in Feeds : FeedStep(f)) \/ Publish \/ Close

(* Both ends read what comes, and every task gets its turn; nobody need      *)
(* trade, and nobody need leave the page.                                    *)
Spec ==
    /\ Init
    /\ [][Next]_vars
    /\ WF_vars(SocketStep)
    /\ \A f \in Feeds : WF_vars(FeedStep(f))

-----------------------------------------------------------------------------
(* Properties. *)

Nth(i) == got[i].key.step

TypeOK ==
    /\ noise \in [client : {0, 1, 3}, server : {0, 2, 3}]
    /\ open \in BOOLEAN
    /\ \A i \in DOMAIN down : down[i].counter < server.sent
    /\ DOMAIN feed = Feeds
    /\ \A f \in Feeds : feed[f].pc \in {"off", "idle", "encrypt", "send", "ended"}
    /\ unread \in [Tapes -> Seq(1 .. MaxTrades)]
    /\ trades \in 0 .. MaxTrades
    /\ newest \in Nat
    /\ late \in BOOLEAN

(* What the client opens, it opens once and in the order in which it was    *)
(* encrypted, whatever overtakes what on the way to the socket (gateway     *)
(* lib.rs:86-87, 96-97; crypto_primitives lib.rs:185-216).                  *)
OpenedInOrder == \A i, j \in DOMAIN got : i < j => Nth(i) < Nth(j)

(* The client opens everything it reads, also across gaps, as long as it    *)
(* has not read a message after a newer one (crypto_primitives              *)
(* lib.rs:196-216).                                                         *)
NothingLostInOrder ==
    ~late /\ newest > 0 => /\ got # << >>
                           /\ got[Len(got)].counter = newest - 1

Of(q, f, i) == q[i].payload.feed = f

(* Whatever feed f has in q goes up by one from each to the next. *)
FollowOn(q, f) ==
    \A i, j \in DOMAIN q :
        /\ i < j /\ Of(q, f, i) /\ Of(q, f, j)
        /\ \A k \in DOMAIN q : i < k /\ k < j => ~Of(q, f, k)
        => q[j].payload.n = q[i].payload.n + 1

(* The trades of one feed that the client opens follow one another without   *)
(* a gap: a feed that fell behind ends and never goes on after what it      *)
(* missed (gateway lib.rs:95, matching lib.rs:397-413).                     *)
TradesFollow == ~late => \A f \in Tapes : FollowOn(got, f)

(* What a client that has subscribed waits for comes: both ends get through  *)
(* the handshake, the command is opened, and a snapshot follows (gateway     *)
(* lib.rs:40-88), unless the page is left.  A client with the ratchet of the *)
(* crate is served; the page, which has one that "mirrors backend            *)
(* crypto_primitives::signal_ratchet" (frontend ws.rs:32), is not: its root  *)
(* and chains are derived by other functions (ws.rs:35-55).                  *)
SubscriptionServed == noise["client"] = 3 ~> got # << >> \/ ~open
=============================================================================
