---------------------------- MODULE MCThrottler -----------------------------
(* The throttler on small instances; the requests are interchangeable. *)
EXTENDS Throttler, TLC

RequestSymmetry == Permutations(Requests)
=============================================================================
