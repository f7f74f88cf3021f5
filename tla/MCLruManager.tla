---------------------------- MODULE MCLruManager ----------------------------
(* The LRU manager on small instances; keys and callers are interchangeable. *)
EXTENDS LruHeadroom, TLC

Symmetry == Permutations(Keys) \cup Permutations(Callers)
=============================================================================
