---------------------------- MODULE MCLruOrder -----------------------------
(* One caller of the LRU manager at a time, with the order of its calls. *)
EXTENDS LruOrder, TLC
=============================================================================
