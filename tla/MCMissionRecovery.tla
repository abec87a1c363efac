--------------------------- MODULE MCMissionRecovery ---------------------------
(* Small instances of MissionRecovery for TLC. *)
EXTENDS MissionRecovery, MCMissionLedger

(* One evaluation of a campaign whose failures end it, with a budget of    *)
(* two repairs.                                                            *)
Evaluation == Work("ordinary", TRUE, 1, "operator_after_evidence")
OneEvaluation == [j \in Jobs |-> Evaluation]

(* Jobs that write to the disk, with a budget of one repair: training by   *)
(* itself, and a stage of a Cortex workflow that may run twice.            *)
DiskWork ==
  [j \in Jobs |-> Work("ordinary", FALSE, IF j = "build" THEN 2 ELSE 1, "infrastructure_only")]

(* That evaluation, and two response jobs of one message.                  *)
EvaluationAndResponses ==
  [j \in Jobs |-> IF j = "evaluate" THEN Evaluation ELSE Work("respond", FALSE, 1, "classified")]

OwnTrigger == [j \in Jobs |-> j]
OneMessage == [j \in Jobs |-> IF j = "evaluate" THEN j ELSE "respond"]

(* No message, or one about the evaluation. *)
AboutNothing    == [t \in Jobs |-> {}]
AboutEvaluation == [t \in Jobs |-> IF t = "respond" THEN {"evaluate"} ELSE {}]

Reported(code) == \E r \in RunIds : run[r].code = code

(* Repairs on their own: no disk failure, so neither the notices nor the   *)
(* acknowledged pipeline state matter; no lease lapses; no job outlives    *)
(* its queue age.                                                          *)
RepairsOnly ==
  /\ \A j \in Jobs \ {"evaluate"} : job[j].status = "absent"
  /\ noticed = {} /\ pipeline.applied = "paused"
  /\ \A r \in RunIds : run[r].lease = "fresh"
  /\ \A j \in Jobs : job[j].queue = "ready"
  /\ ~Reported("provider_timeout") /\ ~Reported("disk_write_failed")

(* Nothing but the ledger, the notices and the operator.                   *)
NoRepair == hub = HubIdle /\ disk = DiskIdle /\ \A m \in Machines : deployed[m] = 1

(* Responses on their own: they are tried once and no operator helps.      *)
ResponsesOnly ==
  /\ job["evaluate"].status = "absent"
  /\ \A j \in Jobs : job[j].restarts = 0
  /\ ~Reported("job_spec_invalid") /\ ~Reported("disk_write_failed")
  /\ \A r \in RunIds : incident[r].started <= 1
  /\ \A m \in Machines : deployed[m] = 1

(* The evaluation waits too long, or fails on the disk and is put back by  *)
(* the operator, while one response to the message about it may expire.    *)
RestorationOnly ==
  /\ NoRepair /\ job["again"].status = "absent"
  /\ \A r \in RunIds : run[r].code \in {"none", "disk_write_failed"}
  /\ \A n \in 1 .. MaxRuns : run[<<"evaluate", n>>].lease = "fresh"
  /\ job["respond"].queue = "ready"

(* Run `recovery' asks of each of the three. *)
RepairsOrResponses == RepairsOnly \/ ResponsesOnly \/ RestorationOnly

(* A disk recovery on its own: the on-call starts no repair and no         *)
(* envelope is refused; only the stage's leases may lapse, while it is     *)
(* alone; one incident is noticed at most.                                 *)
DiskOnly ==
  /\ hub = HubIdle /\ ~Reported("job_spec_invalid") /\ Cardinality(noticed) <= 1
  /\ \A r \in RunIds :
       run[r].lease = "lapsed" => JobOf(r) = "build" /\ job["train"].status = "absent"
  /\ \A j \in Jobs : job[j].queue = "ready"
=============================================================================
