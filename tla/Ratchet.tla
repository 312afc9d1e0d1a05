------------------------------- MODULE Ratchet ------------------------------
(***************************************************************************)
(* The sessions of crypto_primitives::signal_ratchet, with symbolic keys:  *)
(* a key is the term that derives it, and two keys are equal if they were  *)
(* derived alike.  The page has a ratchet of its own (frontend ws.rs) that *)
(* derives the same terms with other functions; "kdf" says whose they are. *)
(***************************************************************************)
EXTENDS Naturals

(* Whoever knows one of two secrets and the other public key knows this. *)
Root(kdf, a, b) == [kdf |-> kdf, keys |-> {a, b}]

(* A chain after kdf_chain was applied to it "step" times; the message key *)
(* that it gives next is named by the chain itself.                        *)
Chain(root, label) == [root |-> root, label |-> label, step |-> 0]

Advanced(chain, n) == [chain EXCEPT !.step = @ + n]

Session(kdf, own, peer, sending, receiving) ==
    [kdf |-> kdf, own |-> own, peer |-> peer,
     sending |-> Chain(Root(kdf, own, peer), sending), sent |-> 0,
     receiving |-> Chain(Root(kdf, own, peer), receiving), received |-> 0]

InitSender(kdf, own, peer) ==
    Session(kdf, own, peer, "initiator-send", "initiator-recv")

InitReceiverAlike(kdf, own, peer) ==
    Session(kdf, own, peer, "initiator-send", "initiator-recv")

InitReceiver(kdf, own, peer) ==
    Session(kdf, own, peer, "initiator-recv", "initiator-send")

Encrypted(s, payload) ==
    [ratchet |-> s.own, counter |-> s.sent, key |-> s.sending, payload |-> payload]

AfterEncryptUncounted(s) == [s EXCEPT !.sending = Advanced(@, 1)]

AfterEncrypt(s) == [s EXCEPT !.sending = Advanced(@, 1), !.sent = @ + 1]

(* A new ratchet key of the peer starts a new receiving chain. *)
Ratcheted(s, m) ==
    IF s.peer = m.ratchet THEN s
    ELSE [s EXCEPT !.peer = m.ratchet,
                   !.receiving = Chain(Root(s.kdf, s.own, m.ratchet), "initiator-send"),
                   !.received = 0]

(* The loop over receiving_counter ..= counter does nothing for a message   *)
(* with an older counter, and there is no key for it then.                  *)
SkipsExclusive(s, m) == IF m.counter >= s.received THEN m.counter - s.received ELSE 0

Skips(s, m) == IF m.counter >= s.received THEN m.counter - s.received + 1 ELSE 0

Opens(s, m) ==
    LET r == Ratcheted(s, m)
    IN  /\ m.counter >= r.received
        /\ m.key = Advanced(r.receiving, m.counter - r.received)

AfterDecryptOfCopy(s, m) == s

(* Chain and counter are written before the key is tried, and the counter   *)
(* also if there is no key.                                                 *)
AfterDecrypt(s, m) ==
    LET r == Ratcheted(s, m)
    IN  [r EXCEPT !.receiving = Advanced(@, Skips(r, m)), !.received = m.counter + 1]
=============================================================================
