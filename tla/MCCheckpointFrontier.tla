------------------------ MODULE MCCheckpointFrontier ------------------------
(* A branch of two sessions, each evaluated, or only the last of them and  *)
(* both preserved.                                                         *)
EXTENDS CheckpointFrontier

Recipe(policy, chosen, preserved) ==
  [policy |-> policy, chosen |-> chosen, preserved |-> preserved]

EachEvaluated == Recipe("behavioral_and_mri", {}, {})
LastEvaluated == Recipe("selected", {2}, {1, 2})
BothRecipes == {EachEvaluated, LastEvaluated}
=============================================================================
