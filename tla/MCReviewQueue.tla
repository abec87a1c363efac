---------------------------- MODULE MCReviewQueue ----------------------------
(* A small instance of ReviewQueue for TLC. *)
EXTENDS ReviewQueueRefinement

(* One worker that claims batches of two and one that claims one by one.   *)
BatchAndSingle == [w \in Workers |-> IF w = "gpu0" THEN 2 ELSE 1]
=============================================================================
