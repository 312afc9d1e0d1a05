----------------------------- MODULE MCSessions -----------------------------
(* An instance of Sessions for TLC: users and tabs are interchangeable.     *)
EXTENDS Sessions, TLC

Symmetry == Permutations(Users) \cup Permutations(Tabs)
=============================================================================
