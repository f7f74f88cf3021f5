-------------------------- MODULE MCImageCoherence --------------------------
(* ImageCoherence on small instances; the requests are interchangeable. *)
EXTENDS ImageCoherence, TLC

RequestSymmetry == Permutations(Requests)
=============================================================================
