SPECIFICATION LivenessSpec
CONSTANTS
  Jobs = {"train"}
  Machines = {"trainbox"}
  Lanes = {"daemon"}
  LaneMachine <- OneMachine
  OnCallMachines = {}
  Providers = {}
  Trigger <- OwnTrigger
  About <- AboutNothing
  Stages = {}
  Definition <- DiskWork
  MaxConcurrent <- Allow1
  ProviderConcurrency <- NoProvider
  Holdable = {}
  Codes = {"disk_write_failed"}
  MaxRestarts = 1
  MaxRuns = 2
  MaxRepairs = 1
  MaxDeployments = 1
  Null = Null
  n1 = n1
  o1 = o1
CHECK_DEADLOCK FALSE
PROPERTIES DiskFailureSettles MessagesAnswered
