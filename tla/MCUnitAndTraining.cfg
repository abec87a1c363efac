SPECIFICATION Spec
CONSTANTS
  Jobs = {"unit", "train"}
  Machines = {"trainbox"}
  Lanes = {"daemon", "cli"}
  LaneMachine <- OneMachine
  OnCallMachines = {}
  Providers = {}
  Definition <- UnitAndTraining
  MaxConcurrent <- Allow1
  ProviderConcurrency <- NoProvider
  Holdable = {}
  Codes = {"transport_unavailable", "job_spec_invalid", "disk_write_failed"}
  MaxRestarts = 0
  MaxRuns = 2
  MaxRepairs = 1
  MaxDeployments = 1
  Null = Null
CHECK_DEADLOCK FALSE
INVARIANTS TypeOK RunLog PlanFollowsJob FailureHasIncident RecoveredByLaterRun
  SpecificationFailureNotRetried
PROPERTIES EndedRunsAreFinal JobPromiseKept
