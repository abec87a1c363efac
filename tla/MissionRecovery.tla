---------------------------- MODULE MissionRecovery ----------------------------
(***************************************************************************)
(* Recovery of failed work above the ledger: the on-call response that     *)
(* starts, retries or blocks a repair (operations_workflow.py), the        *)
(* RecoveryCoordinator that executes it (recovery.py), the disk recovery   *)
(* of the retention thread (retention.py), and the operator's ways to put  *)
(* work back (store.py).                                                   *)
(*                                                                         *)
(* A repair is many transactions of one daemon thread, which may die       *)
(* between any two; every other process of the ledger runs in between.     *)
(***************************************************************************)
EXTENDS MissionLedger

CONSTANTS
  Trigger,  \* [Jobs -> Jobs]: the message a response answers, named by one of its answers
  About,    \* [Jobs -> SUBSET Jobs]: the work that a message, or its thread before it, names
  Stages    \* jobs that are stages of a Cortex or visual workflow

(* No message is about a response: a failed one is not recorded            *)
(* (accept_result), and the incident of an expired one is silent.          *)
ASSUME RecoveryAssumption ==
  /\ Trigger \in [Jobs -> Jobs]
  /\ About \in [Jobs -> SUBSET {j \in Jobs : ~IsRespond(j)}]
  /\ Stages \subseteq Jobs

VARIABLES
  hub,      \* the daemon's tick thread: which repair it is in, and where
  disk,     \* the retention thread: where a disk recovery is
  noticed,  \* incidents with an operational thread, which the on-call answers
  reply     \* operational_responses.status of each message: "open" until answered or blocked

restVars     == <<disk, noticed, reply>>
recoveryVars == <<job, run, plan, lane, deployed, pipeline, incident, repair, latest, block,
                  hub, disk, noticed, reply>>

HubPhases  == {"idle", "starting", "preserved", "applying", "deployed", "repaired", "requeued",
               "recorded", "restarting"}
DiskPhases == {"idle", "cleaning", "requeuing", "restarting"}

(* Incident and attempt the thread works on, the deployment its driver     *)
(* activated, and whether an on-call response rather than the coordinator  *)
(* drives the retry.                                                       *)
HubRecord  == [phase : HubPhases, incident : RunIds \cup {Null},
               attempt : AttemptIds \cup {Null}, deployment : 0 .. MaxDeployments,
               onCall : BOOLEAN]
HubIdle    == [phase |-> "idle", incident |-> Null, attempt |-> Null, deployment |-> 0,
               onCall |-> FALSE]
DiskRecord == [phase : DiskPhases, pending : SUBSET RunIds]
DiskIdle   == [phase |-> "idle", pending |-> {}]

RecoveryInit ==
  /\ Init /\ hub = HubIdle /\ disk = DiskIdle
  /\ noticed = {} /\ reply = [t \in Jobs |-> "open"]

At(p)      == hub.phase = p
Advance(p) == hub' = [hub EXCEPT !.phase = p]
Done       == hub' = HubIdle

-----------------------------------------------------------------------------
(* The notice that puts an incident before the on-call.                    *)

RetryOrRepairActive(r) ==
  \/ incident[r].state \in {"monitoring", "verifying", "recovered"}
  \/ /\ incident[r].state = "classified" /\ incident[r].allowed
     /\ incident[r].started < incident[r].budget

(* _record_lab_incident_notice, after the transaction that captured the    *)
(* failure: silent while a retry or repair is presumed under way, unless   *)
(* the breaker tripped on it or a configured retry of it failed.           *)
Notify(r) ==
  /\ r \notin noticed /\ incident[r].state # "none"
  /\ \/ ~RetryOrRepairActive(r)
     \/ \E s \in RunIds \ {r} : incident[s].state # "none"
     \/ \E n \in 1 .. MaxRepairs : repair[<<r, n>>].state = "failed"
  /\ noticed' = noticed \cup {r}
  /\ UNCHANGED <<vars, hub, disk, reply>>

-----------------------------------------------------------------------------
(* The on-call response: OperationalResponseCoordinator._act.              *)

(* begin_repair, first transaction: the pipeline is paused.                *)
BeginRepair(r) ==
  /\ At("idle") /\ incident[r].state # "none"
  /\ pipeline' = [pipeline EXCEPT !.desired = "paused"]
  /\ hub' = [HubIdle EXCEPT !.phase = "starting", !.incident = r]
  /\ UNCHANGED <<jobVars, deployed, incidentVars, restVars>>

NextOrdinal(r)   == incident[r].started + 1

(* start_authorized_repair: a new attempt, whatever closed the incident;   *)
(* none when a repair is already in progress or the incident recovered.    *)
RepairUnderWay == {"repairing", "verifying", "recovered"}

StartAuthorizedRepair ==
  LET r == hub.incident
      n == NextOrdinal(r)
  IN
  /\ At("starting")
  /\ IF incident[r].state \in RepairUnderWay
       THEN UNCHANGED <<incident, repair>>
       ELSE /\ n <= MaxRepairs
            /\ repair' = [repair EXCEPT ![<<r, n>>] =
                 [state |-> "planned", strategy |-> "principal_authorized_repair",
                  evidence |-> {}]]
            /\ incident' = [incident EXCEPT
                 ![r].state = "repairing", ![r].allowed = TRUE, ![r].started = n,
                 ![r].budget = IF @ >= n THEN @ ELSE n, ![r].blocker = "none"]
  /\ Done
  /\ UNCHANGED <<jobVars, deployed, pipeline, latest, block, restVars>>

(* operator_required: the incident is blocked on a human authority.        *)
BlockIncident(r) ==
  /\ At("idle")
  /\ incident[r].state \notin ClosedIncident \cup {"none"}
  /\ incident' = [incident EXCEPT ![r].state = "blocked", ![r].blocker = "human_authority"]
  /\ UNCHANGED <<jobVars, deployed, pipeline, repair, latest, block, hub, restVars>>

SameTrigger(i, j) == IsRespond(i) /\ IsRespond(j) /\ Trigger[i] = Trigger[j]

(* Open incidents of the jobs that tried to answer message t.              *)
Superseded(t) ==
  {r \in RunIds : /\ IsRespond(JobOf(r)) /\ Trigger[JobOf(r)] = t
                  /\ incident[r].state \notin {"none", "recovered"}}

(* _close_superseded_on_call_incidents, a transaction after the one that   *)
(* closes the message; it is not made up if the daemon dies between them.  *)
CloseSuperseded(t) ==
  incident' = [r \in RunIds |->
    IF r \in Superseded(t)
      THEN [incident[r] EXCEPT !.state = "recovered", !.allowed = FALSE, !.blocker = "none"]
      ELSE incident[r]]

Settles(t) ==
  /\ reply' = [reply EXCEPT ![t] = "succeeded"]
  /\ CloseSuperseded(t) \/ UNCHANGED incident
  /\ UNCHANGED <<jobVars, deployed, pipeline, repair, latest, block, hub, disk, noticed>>

(* The assessment of a response that succeeded was carried out.            *)
AnswerMessage(j) ==
  /\ At("idle") /\ IsRespond(j) /\ job[j].status = "succeeded"
  /\ reply[Trigger[j]] = "open"
  /\ Settles(Trigger[j])

Suppressed(t) == TRUE  \* fault: the work is not looked at
Resolved(t)   ==       \* _legacy_trigger_resolved
  \E j \in About[t] :
    \/ job[j].status = "succeeded"
    \/ \E r \in RunIds : JobOf(r) = j /\ incident[r].state = "recovered"

(* _reconcile_legacy_responses: a message that was blocked is closed when  *)
(* what it is about was settled otherwise, and so are the incidents of its *)
(* responses, though none of them succeeded.                               *)
ReconcileBlocked(t) ==
  /\ At("idle") /\ reply[t] = "blocked" /\ Resolved(t)
  /\ Settles(t)

-----------------------------------------------------------------------------
(* Executing a repair: RecoveryCoordinator._execute.                       *)

(* Planned attempts, of each incident the oldest (ORDER BY started_at,id). *)
PlannedAttempts ==
  {a \in AttemptIds : /\ repair[a].state = "planned"
                      /\ \A n \in 1 .. (a[2] - 1) : repair[<<a[1], n>>].state # "planned"}

Gains(a, kinds) == repair' = [repair EXCEPT ![a].evidence = @ \cup kinds]

PreserveEvidence(a) ==
  /\ At("idle") /\ a \in PlannedAttempts
  /\ Gains(a, {"evidence_preserved"})
  /\ hub' = [HubIdle EXCEPT !.phase = "preserved", !.incident = a[1], !.attempt = a]
  /\ UNCHANGED <<jobVars, deployed, pipeline, incident, latest, block, restVars>>

MarkApplying ==
  /\ At("preserved")
  /\ repair' = [repair EXCEPT ![hub.attempt].state = "applying"]
  /\ Advance("applying")
  /\ UNCHANGED <<jobVars, deployed, pipeline, incident, latest, block, restVars>>

TargetMachine    == run[hub.incident].machine
FailedDeployment == run[hub.incident].deployment

(* The driver patches and tests in a worktree, then activates a release    *)
(* other than the failed run's; it does not wait for a quiet boundary.     *)
DriverDeploys ==
  /\ At("applying")
  /\ \E d \in (1 .. MaxDeployments) \ {deployed[TargetMachine], FailedDeployment} :
       /\ deployed' = [deployed EXCEPT ![TargetMachine] = d]
       /\ hub' = [hub EXCEPT !.phase = "deployed", !.deployment = d]
  /\ UNCHANGED <<jobVars, pipeline, incidentVars, restVars>>

(* fail_attempt: the attempt failed, and its incident falls back whatever  *)
(* its state is.                                                           *)
FailAttempt(a) ==
  /\ repair' = [repair EXCEPT ![a].state = "failed"]
  /\ incident' = [incident EXCEPT ![a[1]] = AfterFailedAttempt(@)]

DriverFails ==
  /\ At("applying")
  /\ FailAttempt(hub.attempt)
  /\ Done
  /\ UNCHANGED <<jobVars, deployed, pipeline, latest, block, restVars>>

RecordOutcome ==
  /\ At("deployed")
  /\ Gains(hub.attempt, {"mutation", "tests", "deployment"})
  /\ Advance("repaired")
  /\ UNCHANGED <<jobVars, deployed, pipeline, incident, latest, block, restVars>>

EvidenceBegun(a) ==  \* fault: any recorded action will do
  "evidence_preserved" \in repair[a].evidence

(* require_ready_for_retry, the action kinds: the strategy is that of the  *)
(* incident's last attempt.                                                *)
EvidenceComplete(a) ==
  RequiredBeforeRetry(incident[a[1]].category, repair[LastAttempt(a[1])].strategy)
    \subseteq repair[a].evidence

(* The response's retry_failed_job: takes up an attempt left unfinished    *)
(* with complete evidence.                                                 *)
OnCallRetries(a) ==
  /\ At("idle") /\ repair[a].state \in {"planned", "applying"}
  /\ EvidenceComplete(a)
  /\ hub' = [HubIdle EXCEPT !.phase = "repaired", !.incident = a[1], !.attempt = a,
                            !.onCall = TRUE]
  /\ UNCHANGED <<vars, restVars>>

LastRun(j) == <<j, job[j].attempts>>

Quiet == pipeline.desired = "paused" /\ LiveRuns = {}

AnyJob(j)    == TRUE  \* fault: the status of the job is not checked
FailedJob(j) == job[j].status = "failed"

(* _verify_active_deployment, and what retry_failed_job_after_repair       *)
(* demands before the job may move.                                        *)
RetryAllowed ==
  LET j == JobOf(hub.incident) IN
  /\ hub.onCall \/ deployed[TargetMachine] = hub.deployment
  /\ EvidenceComplete(hub.attempt)
  /\ Quiet
  /\ FailedJob(j)
  /\ incident[hub.incident].state = "repairing"
  /\ deployed[TargetMachine] # run[LastRun(j)].deployment

RetryRepairedJob ==
  LET j == JobOf(hub.incident) IN
  /\ At("repaired") /\ RetryAllowed
  /\ job[j].restarts < MaxRestarts
  /\ job' = [job EXCEPT ![j].status = "queued", ![j].queue = "ready", ![j].restarts = @ + 1]
  /\ Advance("requeued")
  /\ UNCHANGED <<run, plan, lane, deployed, pipeline, incidentVars, restVars>>

(* The retry is refused, here or by the workflow the job belongs to.  The  *)
(* coordinator then fails the attempt unless the incident is closed; the   *)
(* on-call response keeps its action for later.                            *)
RetryRefused ==
  LET r == hub.incident
      open == incident[r].state \notin ClosedIncident /\ repair[LastAttempt(r)].state # "failed"
  IN
  /\ At("repaired") /\ (~RetryAllowed \/ Definition[JobOf(r)].workflow)
  /\ IF ~hub.onCall /\ open THEN FailAttempt(hub.attempt) ELSE UNCHANGED <<repair, incident>>
  /\ Done
  /\ UNCHANGED <<jobVars, deployed, pipeline, latest, block, restVars>>

RecordRetry ==
  /\ At("requeued")
  /\ Gains(hub.attempt, {"job_retry"})
  /\ Advance("recorded")
  /\ UNCHANGED <<jobVars, deployed, pipeline, incident, latest, block, restVars>>

(* mark_retrying: no check that the incident is still being repaired.      *)
MarkRetrying ==
  /\ At("recorded")
  /\ repair' = [repair EXCEPT ![hub.attempt].state = "verifying"]
  /\ incident' = [incident EXCEPT ![hub.incident].state = "verifying"]
  /\ Advance("restarting")
  /\ UNCHANGED <<jobVars, deployed, pipeline, latest, block, restVars>>

RestartPipeline ==
  /\ At("restarting")
  /\ pipeline' = [pipeline EXCEPT !.desired = "running"]
  /\ Done
  /\ UNCHANGED <<jobVars, deployed, incidentVars, restVars>>

-----------------------------------------------------------------------------
(* Disk recovery: DiskCapacityRecoveryCoordinator.tick.                    *)

(* Disk failures the on-call was not told about whose job still waits.     *)
DiskFailures ==
  {r \in RunIds \ noticed : /\ incident[r].state \in {"classified", "escalated"}
                            /\ incident[r].code = "disk_write_failed"
                            /\ job[JobOf(r)].status = "failed"}
CleanupTried(r) ==
  \E n \in 1 .. MaxRepairs : repair[<<r, n>>].strategy = "local_resource_restored_retry"

DiskPauses ==
  /\ disk.phase = "idle" /\ DiskFailures # {} /\ pipeline.desired # "paused"
  /\ pipeline' = [pipeline EXCEPT !.desired = "paused"]
  /\ UNCHANGED <<jobVars, deployed, incidentVars, hub, restVars>>

(* Incidents whose cleanup already failed once go to the on-call; cleaning *)
(* starts for the others.                                                  *)
DiskCleans ==
  LET pending == {r \in DiskFailures : ~CleanupTried(r)} IN
  /\ disk.phase = "idle" /\ DiskFailures # {} /\ Quiet
  /\ disk' = [phase |-> IF pending = {} THEN "idle" ELSE "cleaning", pending |-> pending]
  /\ noticed' = noticed \cup (DiskFailures \ pending)
  /\ UNCHANGED <<vars, hub, reply>>

(* restore_capacity found the machine quiet and freed enough.              *)
DiskRestored ==
  /\ disk.phase = "cleaning" /\ LiveRuns = {}
  /\ disk' = [disk EXCEPT !.phase = "requeuing"]
  /\ UNCHANGED <<vars, hub, noticed, reply>>

(* retry_after_local_resource_restoration: what it demands of an incident. *)
LocalResource == {"resource_temporarily_unavailable", "disk_write_failed"}
Reentry(r)    == /\ incident[r].state = "escalated" /\ incident[r].code = "disk_write_failed"
                 /\ incident[r].blocker = "repair_budget_exhausted"
Retryable(r)  ==
  LET last == LastRun(JobOf(r)) IN
  /\ incident[r].state = "classified" \/ Reentry(r)
  /\ incident[r].code \in LocalResource
  /\ job[JobOf(r)].status = "failed"
  /\ run[last].status = "failed" /\ run[last].code = incident[r].code
  /\ Reentry(r) \/ last = r
  /\ \A n \in 1 .. MaxRepairs : repair[<<r, n>>].state \in {"none", "failed"}

BatchAllowed(batch) ==
  /\ Quiet /\ pipeline.applied = "paused"
  /\ \A r \in batch : Retryable(r)

(* Messages in the threads of the batch, and responses that wait to answer *)
(* them.                                                                   *)
MessagesOn(batch) ==
  {t \in Jobs : reply[t] = "open" /\ \E r \in batch \cap noticed : JobOf(r) \in About[t]}
WaitingOn(T)      == {j \in Jobs : IsRespond(j) /\ Trigger[j] \in T /\ job[j].status = "queued"}

(* One transaction over the batch: its jobs are requeued, and those of its *)
(* messages blocked that wait for an answer, with the job if one is queued *)
(* and linked to the message.                                              *)
RestoreWork(batch) ==
  LET of(j) == {r \in batch : JobOf(r) = j} IN
  /\ BatchAllowed(batch)
  /\ \A r \in batch : incident[r].started < MaxRepairs
  /\ \A j \in Jobs : job[j].restarts + Cardinality(of(j)) <= MaxRestarts
  /\ \E T \in SUBSET MessagesOn(batch) : \E withdrawn \in SUBSET WaitingOn(T) :
       /\ reply' = [t \in Jobs |-> IF t \in T THEN "blocked" ELSE reply[t]]
       /\ job' = [j \in Jobs |->
            IF of(j) # {}
              THEN [job[j] EXCEPT !.status = "queued", !.queue = "ready",
                                  !.restarts = @ + Cardinality(of(j))]
            ELSE IF j \in withdrawn THEN [job[j] EXCEPT !.status = "cancelled"]
            ELSE job[j]]
  /\ repair' = [a \in AttemptIds |->
       IF a[1] \in batch /\ a[2] = incident[a[1]].started + 1
         THEN [state |-> "verifying", strategy |-> "local_resource_restored_retry",
               evidence |-> {"evidence_preserved", "job_retry"}]
         ELSE repair[a]]
  /\ incident' = [r \in RunIds |->
       IF r \in batch THEN [incident[r] EXCEPT !.state = "verifying", !.started = @ + 1,
                                               !.blocker = "none"]
       ELSE incident[r]]
  /\ UNCHANGED <<run, plan, lane, deployed, pipeline, latest, block, hub, noticed>>

DiskRequeues ==
  /\ disk.phase = "requeuing"
  /\ RestoreWork(disk.pending)
  /\ disk' = [disk EXCEPT !.phase = "restarting", !.pending = {}]

(* No capacity, or the batch is refused (also by a workflow with other     *)
(* failed work).                                                           *)
NoCapacity     == disk.phase = "cleaning"  \* fault: a refused batch is not handled
RecoveryFailed ==
  \/ disk.phase = "cleaning"
  \/ /\ disk.phase = "requeuing"
     /\ ~BatchAllowed(disk.pending) \/ \E r \in disk.pending : Definition[JobOf(r)].workflow

(* The on-call is told, and the incidents leave this lane.                 *)
DiskGivesUp ==
  /\ RecoveryFailed
  /\ disk' = DiskIdle
  /\ noticed' = noticed \cup disk.pending
  /\ UNCHANGED <<vars, hub, reply>>

DiskRestarts ==
  /\ disk.phase = "restarting"
  /\ pipeline' = [pipeline EXCEPT !.desired = "running"]
  /\ disk' = DiskIdle
  /\ UNCHANGED <<jobVars, deployed, incidentVars, hub, noticed, reply>>

-----------------------------------------------------------------------------
(* What an operator puts back by hand.                                     *)

(* recovery-local-resource-restored: a batch that the operator names.      *)
OperatorRestores ==
  /\ \E batch \in SUBSET {r \in RunIds : Retryable(r)} :
       batch # {} /\ RestoreWork(batch)
  /\ UNCHANGED disk

AttemptsOrOneMore(j) == job[j].attempts <= Definition[j].maxAttempts  \* fault: off by one
AttemptsLeft(j)      == job[j].attempts < Definition[j].maxAttempts

(* retry_failed_cortex_stage: a stage that an infrastructure failure ended *)
(* is queued again on the attempts its definition leaves; the pipeline may *)
(* run, no restart is counted and its incident stays as it is.             *)
RetryFailedStage(j) ==
  /\ j \in Stages /\ FailedJob(j)
  /\ run[LastRun(j)].status = "failed" /\ run[LastRun(j)].code \in OperationalTransient
  /\ AttemptsLeft(j)
  /\ LiveRuns = {}
  /\ job' = [job EXCEPT ![j].status = "queued", ![j].queue = "ready"]
  /\ UNCHANGED <<run, plan, lane, deployed, pipeline, incidentVars, hub, restVars>>

(* recover_queue_expired_cortex_stage (the on-call's too) and              *)
(* resume_queue_expired_visual_frontiers: a stage that waited too long     *)
(* while its workflow was not active, and never ran.                       *)
RecoverQueueExpired(j) ==
  /\ j \in Stages /\ job[j].status = "blocked"
  /\ job[j].queue = "stale" /\ ~Definition[j].workflow
  /\ job[j].attempts = 0
  /\ job' = [job EXCEPT ![j].status = "queued", ![j].queue = "ready"]
  /\ UNCHANGED <<run, plan, lane, deployed, pipeline, incidentVars, hub, restVars>>

-----------------------------------------------------------------------------
(* The daemon dies: its threads forget what they were doing, rows stay.    *)
DaemonCrash ==
  /\ ~At("idle") \/ disk # DiskIdle
  /\ Done
  /\ disk' = DiskIdle
  /\ UNCHANGED <<vars, noticed, reply>>

OnCallStep ==
  \/ StartAuthorizedRepair
  \/ \E r \in RunIds : BeginRepair(r) \/ BlockIncident(r)
  \/ \E j \in Jobs : AnswerMessage(j) \/ ReconcileBlocked(j)
  \/ \E a \in AttemptIds : OnCallRetries(a)

CoordinatorStep ==
  \/ \E a \in AttemptIds : PreserveEvidence(a)
  \/ MarkApplying \/ DriverDeploys \/ DriverFails \/ RecordOutcome
  \/ RetryRepairedJob \/ RetryRefused \/ RecordRetry \/ MarkRetrying \/ RestartPipeline

DiskStep ==
  DiskPauses \/ DiskCleans \/ DiskRestored \/ DiskRequeues \/ DiskGivesUp \/ DiskRestarts

NoticeStep == \E r \in RunIds : Notify(r)

OperatorStep ==
  OperatorRestores \/ \E j \in Jobs : RetryFailedStage(j) \/ RecoverQueueExpired(j)

(* A response is created only for a message that waits for one (_queue).   *)
RespondsToOpen ==
  \A j \in Jobs : IsRespond(j) /\ job[j].status = "absent" =>
    reply[Trigger[j]] = "open" \/ job'[j] = job[j]

(* The ledger's own steps.  Reconciling incidents is the tick thread's.    *)
LedgerStep ==
  /\ JobStep \/ LaneStep \/ HubStep \/ (At("idle") /\ ReconcileStep)
  /\ RespondsToOpen
  /\ UNCHANGED <<hub, restVars>>

RecoveryNext ==
  \/ LedgerStep \/ OnCallStep \/ CoordinatorStep \/ DiskStep \/ NoticeStep \/ OperatorStep
  \/ DaemonCrash

RecoverySpec == RecoveryInit /\ [][RecoveryNext]_recoveryVars

(* Fairness: both threads go on with what they began, and the retention    *)
(* thread polls for disk failures.  No on-call response and no notice (it  *)
(* is best effort, and lost with the daemon) is assumed to come.           *)
RecoveryFairness ==
  /\ DispatchFairness
  /\ WF_recoveryVars(StartAuthorizedRepair \/ CoordinatorStep)
  /\ WF_recoveryVars(DiskStep)

FairRecoverySpec == RecoverySpec /\ RecoveryFairness

-----------------------------------------------------------------------------
(* Properties.                                                             *)

(* The type invariant of the two threads.                                  *)
RecoveryTypeOK ==
  /\ TypeOK
  /\ hub \in HubRecord /\ disk \in DiskRecord /\ noticed \subseteq RunIds
  /\ reply \in [Jobs -> {"open", "blocked", "succeeded"}]

(* An attempt waits for verification, or succeeded, only with the evidence *)
(* its strategy demands, the retry of the job included.                    *)
VerifiedWithEvidence ==
  \A a \in AttemptIds :
    repair[a].state \in {"verifying", "succeeded"} =>
      /\ "job_retry" \in repair[a].evidence
      /\ repair[a].strategy = "principal_authorized_repair" =>
           {"mutation", "tests", "deployment"} \subseteq repair[a].evidence

(* An incident of a response is recovered only when its message is         *)
(* settled: some response job to it succeeded, maybe not the one that      *)
(* failed, or the message was closed unanswered because the work it is     *)
(* about was put back otherwise, and that work has succeeded.              *)
ResponseRecoveredWhenSettled ==
  \A r \in RunIds : IsRespond(JobOf(r)) /\ incident[r].state = "recovered" =>
    LET t == Trigger[JobOf(r)] IN
    \/ \E j \in Jobs : SameTrigger(JobOf(r), j) /\ job[j].status = "succeeded"
    \/ reply[t] = "succeeded" /\ \E j \in About[t] : job[j].status = "succeeded"

(* A job waits in the queue with no execution left only if its last lease  *)
(* expired: no retry, repair, restoration or stage retry, whichever thread *)
(* or operator asked for it, puts a job back that the next lease would     *)
(* fail without running it.                                                *)
SpentOnlyByExpiry ==
  \A j \in Jobs :
    job[j].status = "queued" /\ job[j].attempts >= AllowedAttempts(j) =>
      run[LastRun(j)].status = "expired"

(* The model refuses another restart or attempt here, not the code.        *)
AtBound(r) == job[JobOf(r)].restarts = MaxRestarts \/ incident[r].started = MaxRepairs

(* While the pipeline stays paused and the daemon up, no disk failure is   *)
(* left waiting: its job returns to the queue, or the on-call is told.     *)
DiskFailureSettles ==
  <>[](pipeline.desired = "paused") /\ <>[][~DaemonCrash]_recoveryVars =>
    \A r \in RunIds :
      r \in DiskFailures ~> r \notin DiskFailures \/ AtBound(r)
=============================================================================
