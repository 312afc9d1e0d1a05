----------------------------- MODULE MCConsole ------------------------------
(* An instance of Console for TLC: the consoles are interchangeable.        *)
EXTENDS Console, TLC

Symmetry == Permutations(Consoles)
=============================================================================
