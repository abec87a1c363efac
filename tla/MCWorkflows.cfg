SPECIFICATION Spec
CONSTANTS
  original = original
  repaired = repaired
  Null = Null
  a = a
  b = b
INVARIANTS TrainedInOrder CandidateFirst PackIsFirstUsable SkippedOnlyForRetired ExhaustedAfterTwo AcceptedAreUsable OneGpuWorkload HealsTheEvaluatedMerge TaughtOnWhatIsKnown RecordedAreWhole DistinctPositives RunsAttestedSource TokensLeasable SelectionsDistinct
\* A plan that is packed, or out of attempts, rests; a word loop ends.
CHECK_DEADLOCK FALSE
