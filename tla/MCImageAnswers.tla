--------------------------- MODULE MCImageAnswers ---------------------------
(* ImageAnswers on small instances; the requests are interchangeable. *)
EXTENDS ImageAnswers, TLC

RequestSymmetry == Permutations(Requests)
=============================================================================
