------------------------------ MODULE MCChannel -----------------------------
(* Instances of Channel for TLC: one subscription to a book, one to trades. *)
EXTENDS Channel
=============================================================================
