---- MODULE MCHapServer ----
(* HapServer for TLC: the permutations that leave it unchanged. *)
EXTENDS HapServer, TLC

Symmetry == Permutations(Conns) \cup Permutations(Ids) \cup Permutations(Keys)
====
