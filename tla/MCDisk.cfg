SPECIFICATION RecoverySpec
CONSTANTS
  Jobs = {"train", "build"}
  Machines = {"trainbox"}
  Lanes = {"daemon"}
  LaneMachine <- OneMachine
  OnCallMachines = {}
  Providers = {}
  Trigger <- OwnTrigger
  About <- AboutNothing
  Stages = {"build"}
  Definition <- DiskWork
  MaxConcurrent <- Allow1
  ProviderConcurrency <- NoProvider
  Holdable = {}
  Codes = {"disk_write_failed"}
  MaxRestarts = 1
  MaxRuns = 3
  MaxRepairs = 1
  MaxDeployments = 1
  Null = Null
CHECK_DEADLOCK FALSE
CONSTRAINT DiskOnly
INVARIANTS SpentOnlyByExpiry
