SPECIFICATION Spec
CONSTANTS
  Jobs = {"respond", "plan"}
  Machines = {"hub"}
  Lanes = {"daemon", "cli"}
  LaneMachine <- OneMachine
  OnCallMachines = {"hub"}
  Providers = {"codex"}
  Definition <- HubWork
  MaxConcurrent <- Allow2
  ProviderConcurrency <- NoProvider
  Holdable = {"respond"}
  Codes = {"provider_rate_limited"}
  MaxRestarts = 0
  MaxRuns = 2
  MaxRepairs = 1
  MaxDeployments = 2
  Null = Null
CHECK_DEADLOCK FALSE
INVARIANTS WithinCapacity
PROPERTIES PauseStopsDispatch
