SPECIFICATION FairSpec
CONSTANTS
  Jobs = {"unit", "train"}
  Machines = {"trainbox"}
  Lanes = {"daemon"}
  LaneMachine <- OneMachine
  OnCallMachines = {}
  Providers = {}
  Definition <- UnitAndTraining
  MaxConcurrent <- Allow1
  ProviderConcurrency <- NoProvider
  Holdable = {}
  Codes = {"output_schema_invalid"}
  MaxRestarts = 0
  MaxRuns = 2
  MaxRepairs = 1
  MaxDeployments = 1
  Null = Null
CHECK_DEADLOCK FALSE
PROPERTIES RunsClose QueuedWorkSettles SettledRecoveryCloses
