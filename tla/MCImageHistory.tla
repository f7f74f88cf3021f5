--------------------------- MODULE MCImageHistory ---------------------------
(* ImageHistory on small instances; the requests are interchangeable. *)
EXTENDS ImageHistory, TLC

RequestSymmetry == Permutations(Requests)
=============================================================================
