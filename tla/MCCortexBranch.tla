--------------------------- MODULE MCCortexBranch ---------------------------
(* A branch of one session, with an original and a repaired session list,  *)
(* and one caller that authorizes.                                         *)
EXTENDS CortexBranch

NoReconstruction == {}
=============================================================================
