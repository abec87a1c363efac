SPECIFICATION RecoverySpec
CONSTANTS
  Jobs = {"evaluate", "respond", "again"}
  Machines = {"hub"}
  Lanes = {"daemon"}
  LaneMachine <- OneMachine
  OnCallMachines = {"hub"}
  Providers = {}
  Trigger <- OneMessage
  About <- AboutEvaluation
  Stages = {"evaluate"}
  Definition <- EvaluationAndResponses
  MaxConcurrent <- Allow1
  ProviderConcurrency <- NoProvider
  Holdable = {}
  Codes = {"job_spec_invalid", "provider_timeout", "disk_write_failed"}
  MaxRestarts = 1
  MaxRuns = 2
  MaxRepairs = 2
  MaxDeployments = 2
  Null = Null
CHECK_DEADLOCK FALSE
CONSTRAINT RepairsOrResponses
INVARIANTS VerifiedWithEvidence ResponseRecoveredWhenSettled
