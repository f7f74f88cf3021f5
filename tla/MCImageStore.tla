-------------------------- MODULE MCImageStore --------------------------
(* ImageStore on small instances; the requests are interchangeable. *)
EXTENDS ImageStore, TLC

RequestSymmetry == Permutations(Requests)
=============================================================================
