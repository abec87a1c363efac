---------------------------- MODULE MissionLedger ----------------------------
(***************************************************************************)
(* The authoritative job ledger of Mission Hub (mission_hub/store.py) with *)
(* the failure capture that shares its transactions (recovery.py): jobs,   *)
(* their runs and leases, the pipeline switch, and the recovery incidents, *)
(* attempts and campaign blocks a failing or expiring run leaves behind.   *)
(* Each SQLite transaction (BEGIN IMMEDIATE, one writer) is one action.    *)
(*                                                                         *)
(* Time is not a number here: a lease is "fresh" or "lapsed", a queued job *)
(* is in "backoff", "ready" or "stale" (older than max_queue_age_seconds), *)
(* and actions of their own let time pass.                                 *)
(***************************************************************************)
EXTENDS Integers, FiniteSets, FailureTaxonomy

CONSTANTS
  Jobs,                 \* job identities (one per idempotency key)
  Machines,             \* configured machines
  Lanes,                \* processes that lease and execute: daemon lanes, CLI dispatch-once
  LaneMachine,          \* [Lanes -> Machines]
  OnCallMachines,       \* machines of role mission_hub
  Providers,            \* configured model providers
  Definition,           \* [Jobs -> JobDefinitions]: job type, route and link data of each job
  MaxConcurrent,        \* [Machines -> Nat]: max_concurrent_jobs
  ProviderConcurrency,  \* [Providers -> Nat]
  Holdable,             \* jobs whose lease the artifact registry or the on-call interval may hold
  Codes,                \* failure codes that executions report
  MaxRestarts,          \* bound: operator_restart_count of a job
  MaxRuns,              \* bound: runs of a job
  MaxRepairs,           \* bound: recovery attempts of an incident
  MaxDeployments,       \* bound: deployments a machine can switch between
  Null                  \* no run

JobKinds      == {"ordinary", "atomic", "training", "chat", "respond", "probe"}
JobStatuses   == {"absent", "awaiting_approval", "queued", "leased", "running",
                  "succeeded", "failed", "blocked", "cancelled"}
OpenEndedJob  == {"failed", "blocked", "cancelled"}  \* fault: a success may be cancelled
TerminalJob   == {"succeeded", "failed", "blocked", "cancelled"}
RunStatuses   == {"none", "leased", "running", "succeeded", "failed", "cancelled", "expired"}
Live          == {"leased", "running"}
IncidentStates == {"none", "monitoring", "classified", "repairing", "verifying",
                   "recovered", "blocked", "escalated"}
ClosedIncident == {"recovered", "blocked", "escalated"}
AttemptStates == {"none", "planned", "applying", "verifying", "failed", "succeeded"}

JobDefinitions ==
  [kind        : JobKinds,
   requested   : SUBSET Machines,   \* machines the row may be leased by (all when NULL)
   executors   : SUBSET Machines,   \* machines whose role, types and capabilities fit
   campaign    : BOOLEAN,           \* belongs to a campaign
   approval    : BOOLEAN,           \* needs an operator's approval
   workflow    : BOOLEAN,           \* linked to an active workflow
   maxAttempts : Nat \ {0},
   policy      : Policies,
   providers   : SUBSET Providers,
   priority    : Nat]

ASSUME LedgerAssumption ==
  /\ LaneMachine \in [Lanes -> Machines]
  /\ Definition \in [Jobs -> JobDefinitions]
  /\ MaxConcurrent \in [Machines -> Nat]
  /\ ProviderConcurrency \in [Providers -> Nat]
  /\ OnCallMachines \subseteq Machines
  /\ Holdable \subseteq Jobs
  /\ Codes \subseteq FailureCodes
  /\ MaxRestarts \in Nat /\ MaxRuns \in Nat
  /\ MaxRepairs \in Nat \ {0} /\ MaxDeployments \in Nat \ {0}
  /\ \A j \in Jobs : Definition[j].maxAttempts + MaxRestarts <= MaxRuns
  /\ Null \notin Jobs \X (1 .. MaxRuns)

VARIABLES
  job,        \* jobs rows
  run,        \* runs rows; the key <<j, n>> is UNIQUE(job_id, attempt)
  plan,       \* training_session_plans.status of a training job
  lane,       \* what each executing process holds: its run and lease token
  deployed,   \* active deployment of each machine
  pipeline,   \* pipeline_control
  incident,   \* recovery_incidents, keyed by failed_run_id
  repair,     \* recovery_attempts with their succeeded actions, keyed by incident and ordinal
  latest,     \* the incident of ordinary work created last (ORDER BY created_at DESC LIMIT 1)
  block       \* campaign_blocks, one per incident

jobVars      == <<job, run, plan, lane>>
incidentVars == <<incident, repair, latest, block>>
vars == <<job, run, plan, lane, deployed, pipeline, incident, repair, latest, block>>

RunIds     == Jobs \X (1 .. MaxRuns)
AttemptIds == RunIds \X (1 .. MaxRepairs)
JobOf(r)   == r[1]

JobRecord == [status : JobStatuses, attempts : 0 .. MaxRuns, restarts : 0 .. MaxRestarts,
              queue : {"backoff", "ready", "stale"}]
RunRecord == [status : RunStatuses, machine : Machines \cup {Null},
              deployment : 0 .. MaxDeployments, lease : {"fresh", "lapsed"},
              code : FailureCodes \cup {"none"}]
LaneRecord == [phase : {"idle"}, run : {Null}]
                \cup [phase : {"starting", "executing"}, run : RunIds]
IncidentRecord == [state : IncidentStates, category : Categories, allowed : BOOLEAN,
                   budget : Nat, started : 0 .. MaxRepairs,
                   blocker : Blockers, code : FailureCodes \cup {"none"}]
RepairRecord == [state : AttemptStates, strategy : Strategies, evidence : SUBSET ActionKinds]

NoRunYet      == [status |-> "none", machine |-> Null, deployment |-> 0, lease |-> "fresh",
                  code |-> "none"]
NoIncidentYet == [state |-> "none", category |-> "software", allowed |-> FALSE, budget |-> 0,
                  started |-> 0, blocker |-> "none", code |-> "none"]
NoRepairYet   == [state |-> "none", strategy |-> "none", evidence |-> {}]

Init ==
  /\ job = [j \in Jobs |-> [status |-> "absent", attempts |-> 0, restarts |-> 0,
                            queue |-> "ready"]]
  /\ run = [r \in RunIds |-> NoRunYet]
  /\ plan = [j \in Jobs |-> "none"]
  /\ lane = [l \in Lanes |-> [phase |-> "idle", run |-> Null]]
  /\ deployed = [m \in Machines |-> 1]
  /\ pipeline = [desired |-> "paused", applied |-> "paused"]
  /\ incident = [r \in RunIds |-> NoIncidentYet]
  /\ repair = [a \in AttemptIds |-> NoRepairYet]
  /\ latest = Null
  /\ block = [r \in RunIds |-> "none"]

-----------------------------------------------------------------------------
(* Admission and approval.                                                 *)

(* create_job: one insert with, for a training job, its admitted plan.  A  *)
(* second call with the same idempotency key returns the row unchanged.    *)
CreateJob(j) ==
  /\ job[j].status = "absent"
  /\ \E approved \in BOOLEAN, queue \in {"ready", "backoff"} :
       job' = [job EXCEPT ![j].status = IF Definition[j].approval /\ ~approved
                                          THEN "awaiting_approval" ELSE "queued",
                          ![j].queue = queue]
  /\ plan' = [plan EXCEPT ![j] = IF Definition[j].kind = "training" THEN "admitted" ELSE @]
  /\ UNCHANGED <<run, lane, deployed, pipeline, incidentVars>>

ApproveJob(j) ==
  /\ job[j].status = "awaiting_approval"
  /\ job' = [job EXCEPT ![j].status = "queued"]
  /\ UNCHANGED <<run, plan, lane, deployed, pipeline, incidentVars>>

-----------------------------------------------------------------------------
(* Leasing.                                                                *)

LiveRuns    == {r \in RunIds : run[r].status \in Live}
LiveOn(m)   == {r \in LiveRuns : run[r].machine = m}
LiveWith(p) == {r \in LiveRuns : p \in Definition[JobOf(r)].providers}

(* The job classes lease_next lets through a paused pipeline.              *)
AllButTraining == JobKinds \ {"training"}  \* fault: the pause holds training only
PauseExempt    == {"chat", "respond", "probe"}

(* Queued too long, and no active workflow keeps the job waiting.          *)
StaleFor(m) ==
  {j \in Jobs : /\ job[j].status = "queued" /\ job[j].queue = "stale"
                /\ m \in Definition[j].requested
                /\ ~Definition[j].workflow}

UnderRecovery(j) == \E r \in RunIds : JobOf(r) = j /\ incident[r].state = "verifying"
IsRespond(j)     == Definition[j].kind = "respond"

(* The dispatch order: jobs of a recovery first, then on-call responses,   *)
(* then priority; creation order decides among equals (any of them here).  *)
Precedes(i, j) ==
  \/ UnderRecovery(i) /\ ~UnderRecovery(j)
  \/ /\ UnderRecovery(i) <=> UnderRecovery(j)
     /\ \/ IsRespond(i) /\ ~IsRespond(j)
        \/ /\ IsRespond(i) <=> IsRespond(j)
           /\ Definition[i].priority > Definition[j].priority

HasRoomForOneMore(p) == Cardinality(LiveWith(p)) <= ProviderConcurrency[p]  \* fault: off by one
HasRoom(p)           == Cardinality(LiveWith(p)) < ProviderConcurrency[p]

(* Queued jobs that machine m may run now, before the admission check.     *)
(* onCall: an on-call response is waiting, so a hub machine serves nothing *)
(* else.                                                                   *)
Offered(m, onCall) ==
  {j \in Jobs \ StaleFor(m) :
     /\ job[j].status = "queued" /\ job[j].queue # "backoff"
     /\ m \in Definition[j].requested \cap Definition[j].executors
     /\ onCall => IsRespond(j)
     /\ pipeline.desired = "running" \/ Definition[j].kind \in PauseExempt
     /\ \A p \in Definition[j].providers : HasRoom(p)}

Admitted(j) == Definition[j].kind = "training" => plan[j] = "admitted"

BlockJobs(S) == [j \in Jobs |-> IF j \in S THEN [job[j] EXCEPT !.status = "blocked"] ELSE job[j]]

NextAttempt(j) == job[j].attempts + 1

LenientBudget(j)   == Definition[j].maxAttempts + job[j].restarts + 1  \* fault: off by one
AllowedAttempts(j) == Definition[j].maxAttempts + job[j].restarts

(* What becomes of a job whose attempts are spent.                         *)
LeaveQueued(swept, j)   == swept  \* fault: the job stays queued
FailExhausted(swept, j) == [swept EXCEPT ![j].status = "failed"]

(* An on-call response may be waiting for a hub machine to serve it.       *)
OnCallPending(m) == IF m \in OnCallMachines THEN BOOLEAN ELSE {FALSE}

(* Lease the job to the lane, or fail it when its attempts are spent;      *)
(* `swept' is the job table after what the scan blocked.                   *)
Grant(l, j, swept) ==
  LET n == NextAttempt(j)
      m == LaneMachine[l]
  IN
  IF n > AllowedAttempts(j)
    THEN job' = FailExhausted(swept, j) /\ UNCHANGED <<run, lane>>
    ELSE /\ job' = [swept EXCEPT ![j].status = "leased", ![j].attempts = n,
                                 ![j].queue = "ready"]
         /\ run' = [run EXCEPT ![<<j, n>>] =
                      [status |-> "leased", machine |-> m, deployment |-> deployed[m],
                       lease |-> "fresh", code |-> "none"]]
         /\ lane' = [lane EXCEPT ![l] = [phase |-> "starting", run |-> <<j, n>>]]

(* lease_next: block what waited too long, walk the candidates in order    *)
(* (blocking training work that lost its admission), and grant the first   *)
(* that fits.                                                              *)
LeaseNext(l) ==
  LET m == LaneMachine[l] IN
  /\ lane[l].phase = "idle"
  /\ Cardinality(LiveOn(m)) < MaxConcurrent[m]
  /\ \E held \in SUBSET Holdable, onCall \in OnCallPending(m) :
       LET offered    == Offered(m, onCall)
           unadmitted == {j \in offered : ~Admitted(j)}
           candidates == (offered \ unadmitted) \ held
       IN
       \/ /\ candidates = {}
          /\ StaleFor(m) \cup unadmitted # {}
          /\ job' = BlockJobs(StaleFor(m) \cup unadmitted)
          /\ UNCHANGED <<run, lane>>
       \/ \E j \in candidates :
            /\ \A i \in candidates : ~Precedes(i, j)
            /\ Grant(l, j, BlockJobs(StaleFor(m) \cup {u \in unadmitted : ~Precedes(j, u)}))
  /\ UNCHANGED <<plan, deployed, pipeline, incidentVars>>

-----------------------------------------------------------------------------
(* Failure capture: capture_failure_db, inside the transaction that closes *)
(* the run.                                                                *)

(* Recovery attempts of job j that wait for its next run to succeed.       *)
VerifyingAttempts(j) ==
  {a \in AttemptIds : /\ JobOf(a[1]) = j
                      /\ incident[a[1]].state \in {"monitoring", "verifying"}
                      /\ repair[a].state = "verifying"}
VerifyingAttempt(j) ==
  CHOOSE a \in VerifyingAttempts(j) : \A b \in VerifyingAttempts(j) : b[2] <= a[2]

IsAtomic(j) == Definition[j].kind = "atomic"

NewIncident(r, code, state, verdict, started) ==
  [state |-> state, category |-> verdict.category, allowed |-> verdict.allowed,
   budget |-> RetryPolicy[Definition[JobOf(r)].policy].repairs, started |-> started,
   blocker |-> IF state = "blocked" THEN verdict.blocker ELSE "none", code |-> code]

OpensIncident(r) == VerifyingAttempts(JobOf(r)) = {}

(* The runs in S failed and their jobs went back to the queue.  A failure  *)
(* of a job whose recovery is being verified stays in that incident; any   *)
(* other opens one in "monitoring", with an attempt already verifying.     *)
CaptureRetried(S, code) ==
  LET opened   == {r \in S : OpensIncident(r)}
      watched  == {VerifyingAttempt(JobOf(r))[1] : r \in S \ opened}
      ordinary == {r \in opened : ~IsRespond(JobOf(r))}
  IN
  /\ incident' = [r \in RunIds |->
       IF r \in opened
         THEN NewIncident(r, code, "monitoring",
                          IncidentVerdict(code, FALSE, IsAtomic(JobOf(r))), 1)
       ELSE IF r \in watched
         THEN [incident[r] EXCEPT !.state = "monitoring", !.blocker = "none"]
       ELSE incident[r]]
  /\ repair' = [a \in AttemptIds |->
       IF a[1] \in opened /\ a[2] = 1
         THEN [state |-> "verifying", strategy |-> "deterministic_retry",
               evidence |-> {"evidence_preserved", "job_retry"}]
         ELSE repair[a]]
  /\ IF ordinary = {} THEN UNCHANGED latest ELSE latest' \in ordinary
  /\ UNCHANGED block

(* The state an incident falls back to when an attempt of it failed.       *)
FailsWithAttempt(inc) == [inc EXCEPT !.state = "failed"]  \* fault: an attempt's state
AfterFailedAttempt(inc) ==
  IF inc.started >= inc.budget
    THEN [inc EXCEPT !.state = "escalated", !.blocker = "repair_budget_exhausted"]
    ELSE [inc EXCEPT !.state = "classified", !.blocker = "none"]

(* A run failed for good while attempt a was verifying its job.            *)
VerificationFailed(a, j, code) ==
  LET spent == AtomicBudgetSpent(code, IsAtomic(j)) IN
  /\ repair' = [repair EXCEPT ![a].state = "failed"]
  /\ incident' = [incident EXCEPT ![a[1]] =
       IF spent
         THEN [@ EXCEPT !.state = "blocked", !.allowed = FALSE,
                        !.blocker = "atomic_unit_retry_budget_exhausted"]
         ELSE AfterFailedAttempt(@)]
  /\ block' = IF spent /\ Definition[j].campaign /\ block[a[1]] = "none"
                THEN [block EXCEPT ![a[1]] = "active"] ELSE block
  /\ UNCHANGED latest

(* The circuit breaker looks at the incident created last.                 *)
BreakerTrips == latest # Null /\ incident[latest].state # "recovered"

(* A run failed for good and no recovery of its job was being verified.    *)
OpenTerminalIncident(r, code) ==
  LET j       == JobOf(r)
      verdict == IncidentVerdict(code, TRUE, IsAtomic(j))
      state   == IF verdict.blocker # "none" THEN "blocked" ELSE "classified"
  IN
  /\ incident' = [incident EXCEPT ![r] = NewIncident(r, code, state, verdict, 0)]
  /\ latest' = r
  /\ block' = IF Definition[j].campaign THEN [block EXCEPT ![r] = "active"] ELSE block
  /\ UNCHANGED repair

CaptureTerminal(r, code) ==
  LET verified == VerifyingAttempts(JobOf(r)) # {} IN
  /\ IF verified
       THEN VerificationFailed(VerifyingAttempt(JobOf(r)), JobOf(r), code)
       ELSE OpenTerminalIncident(r, code)
  /\ pipeline' = IF code = "disk_write_failed" \/ (~verified /\ BreakerTrips)
                   THEN [pipeline EXCEPT !.desired = "paused"] ELSE pipeline

-----------------------------------------------------------------------------
(* The run's executor: a daemon lane or a CLI process holding the token.   *)

Idle(l)       == lane' = [lane EXCEPT ![l] = [phase |-> "idle", run |-> Null]]
Holds(l)      == lane[l].phase # "idle"
AnyHeld(l)    == Holds(l)  \* fault: the token is accepted whatever the run
HeldLive(l)   == Holds(l) /\ run[lane[l].run].status \in Live

(* The plan of a training job settles with the job.                        *)
KeepPlan(j, s)   == UNCHANGED plan  \* fault: the plan is forgotten
SettlePlan(j, s) == plan' = [plan EXCEPT ![j] = IF @ = "admitted" THEN s ELSE @]

(* start_run.                                                              *)
StartRun(l) ==
  LET r == lane[l].run IN
  /\ lane[l].phase = "starting"
  /\ run[r].status = "leased"
  /\ run' = [run EXCEPT ![r].status = "running"]
  /\ job' = [job EXCEPT ![JobOf(r)].status = "running"]
  /\ lane' = [lane EXCEPT ![l].phase = "executing"]
  /\ UNCHANGED <<plan, deployed, pipeline, incidentVars>>

(* heartbeat_run: extends the lease, even one that already lapsed.         *)
Heartbeat(l) ==
  /\ lane[l].phase = "executing" /\ HeldLive(l)
  /\ run[lane[l].run].lease = "lapsed"
  /\ run' = [run EXCEPT ![lane[l].run].lease = "fresh"]
  /\ UNCHANGED <<job, plan, lane, deployed, pipeline, incidentVars>>

(* accept_result, finish_run("succeeded").                                 *)
FinishSucceeded(l) ==
  LET r == lane[l].run
      j == JobOf(r)
  IN
  /\ lane[l].phase = "executing" /\ HeldLive(l)
  /\ Admitted(j)
  /\ run' = [run EXCEPT ![r].status = "succeeded"]
  /\ job' = [job EXCEPT ![j].status = "succeeded"]
  /\ SettlePlan(j, "completed")
  /\ Idle(l)
  /\ UNCHANGED <<deployed, pipeline, incidentVars>>

(* record_failure, finish_run("failed"); before start_run only the refusal *)
(* of the envelope ends a run, with job_spec_invalid.                      *)
FinishFailed(l, code) ==
  LET r == lane[l].run
      j == JobOf(r)
      d == Definition[j]
      retried == RetryScheduled(code, d.policy, r[2], d.maxAttempts)
  IN
  /\ HeldLive(l)
  /\ lane[l].phase = "starting" => code = "job_spec_invalid"
  /\ run' = [run EXCEPT ![r].status = "failed", ![r].code = code]
  /\ job' = [job EXCEPT ![j].status = IF retried THEN "queued" ELSE "failed",
                        ![j].queue = IF retried THEN "backoff" ELSE @]
  /\ Idle(l)
  /\ CASE IsRespond(j)             -> UNCHANGED <<pipeline, incidentVars>>
       [] ~IsRespond(j) /\ retried -> CaptureRetried({r}, code) /\ UNCHANGED pipeline
       [] OTHER                    -> CaptureTerminal(r, code)
  /\ UNCHANGED <<plan, deployed>>

(* A result, a start or a heartbeat for a run that is no longer live is    *)
(* refused, and a cancelled run's result dropped; nothing is written.      *)
ResultRefused(l) ==
  /\ Holds(l) /\ ~HeldLive(l)
  /\ Idle(l)
  /\ UNCHANGED <<job, run, plan, deployed, pipeline, incidentVars>>

(* The executing process dies, or cannot close the run (for instance the   *)
(* failure log cannot be written): the token is lost, the run stays live.  *)
LaneLost(l) ==
  /\ Holds(l)
  /\ Idle(l)
  /\ UNCHANGED <<job, run, plan, deployed, pipeline, incidentVars>>

-----------------------------------------------------------------------------
(* Cancellation, lease expiry and the pipeline switch.                     *)

RunningOf(j) == {r \in LiveRuns : JobOf(r) = j /\ run[r].status = "running"}  \* fault: not leased
LiveOf(j)    == {r \in LiveRuns : JobOf(r) = j}

CancelJob(j) ==
  /\ job[j].status \notin TerminalJob \cup {"absent"}
  /\ job' = [job EXCEPT ![j].status = "cancelled"]
  /\ SettlePlan(j, "cancelled")
  /\ run' = [r \in RunIds |-> IF r \in LiveOf(j) THEN [run[r] EXCEPT !.status = "cancelled"]
                              ELSE run[r]]
  /\ UNCHANGED <<lane, deployed, pipeline, incidentVars>>

LapsedRunning == {r \in LiveRuns : run[r].lease = "lapsed" /\ run[r].status = "running"}  \* fault
LapsedRuns    == {r \in LiveRuns : run[r].lease = "lapsed"}

CaptureNothing(S) == UNCHANGED incidentVars  \* fault: as when called without a configuration
CaptureExpired(S) == CaptureRetried(S, "lease_expired")

(* expire_leases: every lapsed lease in one transaction.  The job returns  *)
(* to the queue however many attempts it has used.                         *)
ExpireLeases ==
  LET expired == LapsedRuns IN
  /\ expired # {}
  /\ run' = [r \in RunIds |-> IF r \in expired THEN [run[r] EXCEPT !.status = "expired"]
                              ELSE run[r]]
  /\ job' = [j \in Jobs |->
       IF job[j].status \in Live /\ \E r \in expired : JobOf(r) = j
         THEN [job[j] EXCEPT !.status = "queued", !.queue = "ready"] ELSE job[j]]
  /\ CaptureExpired(expired)
  /\ UNCHANGED <<plan, lane, deployed, pipeline>>

RequestPipelineState(s) ==
  /\ pipeline.desired # s
  /\ pipeline' = [pipeline EXCEPT !.desired = s]
  /\ UNCHANGED <<job, run, plan, lane, deployed, incidentVars>>

(* apply_pipeline_state: a pause is acknowledged only when nothing runs.   *)
ApplyPipelineState ==
  /\ pipeline.desired # pipeline.applied
  /\ pipeline.desired = "paused" => LiveRuns = {}
  /\ pipeline' = [pipeline EXCEPT !.applied = pipeline.desired]
  /\ UNCHANGED <<job, run, plan, lane, deployed, incidentVars>>

(* An operator registers or reactivates another deployment of a machine.   *)
ActivateDeployment(m) ==
  /\ \E d \in (1 .. MaxDeployments) \ {deployed[m]} : deployed' = [deployed EXCEPT ![m] = d]
  /\ UNCHANGED <<job, run, plan, lane, pipeline, incidentVars>>

-----------------------------------------------------------------------------
(* Closing incidents: _reconcile_one, in the daemon tick.                  *)

LastAttempt(r) == <<r, incident[r].started>>

ReconcileCancelled(r) ==
  /\ incident[r].state \in {"monitoring", "verifying"}
  /\ job[JobOf(r)].status = "cancelled"
  /\ repair' = IF /\ LastAttempt(r) \in AttemptIds
                  /\ repair[LastAttempt(r)].state \notin {"failed", "succeeded"}
                 THEN [repair EXCEPT ![LastAttempt(r)].state = "failed"] ELSE repair
  /\ incident' = [incident EXCEPT ![r].state = "blocked", ![r].blocker = "operator_cancelled"]
  /\ UNCHANGED <<jobVars, deployed, pipeline, latest, block>>

RetryDispatched(r)    == \E n \in 1 .. MaxRuns : n > r[2] /\ run[<<JobOf(r), n>>].status # "none"  \* fault
SuccessorSucceeded(r) ==
  /\ job[JobOf(r)].status = "succeeded"
  /\ \E n \in 1 .. MaxRuns : run[<<JobOf(r), n>>].status = "succeeded" /\ n # r[2]

ReconcileRecovered(r) ==
  LET a     == LastAttempt(r)
      proof == repair[a].evidence \cup {"artifact_validation", "health_check"}
  IN
  /\ incident[r].state \in {"monitoring", "verifying"}
  /\ SuccessorSucceeded(r)
  /\ a \in AttemptIds /\ repair[a].state = "verifying"
  /\ RequiredToClose(incident[r].category, repair[a].strategy) \subseteq proof
  /\ repair' = [repair EXCEPT ![a].state = "succeeded", ![a].evidence = proof]
  /\ incident' = [incident EXCEPT ![r].state = "recovered", ![r].blocker = "none"]
  /\ block' = [block EXCEPT ![r] = IF @ = "active" THEN "resolved" ELSE @]
  /\ UNCHANGED <<jobVars, deployed, pipeline, latest>>

Reconcile(r) == ReconcileCancelled(r) \/ ReconcileRecovered(r)

-----------------------------------------------------------------------------
(* Time.                                                                   *)

LeaseLapses(r) ==
  /\ run[r].status \in Live /\ run[r].lease = "fresh"
  /\ run' = [run EXCEPT ![r].lease = "lapsed"]
  /\ UNCHANGED <<job, plan, lane, deployed, pipeline, incidentVars>>

(* available_at passes, or max_queue_age_seconds more.                     *)
QueueAges(j) ==
  /\ job[j].status = "queued" /\ job[j].queue # "stale"
  /\ job' = [job EXCEPT ![j].queue = IF @ = "backoff" THEN "ready" ELSE "stale"]
  /\ UNCHANGED <<run, plan, lane, deployed, pipeline, incidentVars>>

-----------------------------------------------------------------------------
JobStep == \E j \in Jobs : CreateJob(j) \/ ApproveJob(j) \/ CancelJob(j) \/ QueueAges(j)

LaneStep ==
  \E l \in Lanes :
    \/ LeaseNext(l) \/ StartRun(l) \/ Heartbeat(l) \/ FinishSucceeded(l)
    \/ \E code \in Codes \cup {"job_spec_invalid"} : FinishFailed(l, code)
    \/ ResultRefused(l) \/ LaneLost(l)

HubStep ==
  \/ ExpireLeases \/ ApplyPipelineState
  \/ \E r \in RunIds : LeaseLapses(r)
  \/ \E s \in {"running", "paused"} : RequestPipelineState(s)
  \/ \E m \in Machines : ActivateDeployment(m)

ReconcileStep == \E r \in RunIds : Reconcile(r)

Next == JobStep \/ LaneStep \/ HubStep \/ ReconcileStep

Spec == Init /\ [][Next]_vars

-----------------------------------------------------------------------------
(* Fairness.  The daemon loop calls expire_leases every poll; each machine *)
(* lane polls for work; an execution ends, because every handler call is   *)
(* bounded by a provider or transport timeout; clocks advance.  Nothing is *)
(* assumed of operators, of crashes, or of a lease lapsing before its time.*)
Executes(l) ==
  FinishSucceeded(l) \/ \E code \in Codes \cup {"job_spec_invalid"} : FinishFailed(l, code)

DispatchFairness ==
  /\ WF_vars(ExpireLeases)
  /\ \A l \in Lanes : /\ WF_vars(LeaseNext(l)) /\ WF_vars(StartRun(l))
                      /\ WF_vars(Executes(l)) /\ WF_vars(ResultRefused(l))
  /\ \A r \in RunIds : WF_vars(LeaseLapses(r))
  /\ \A j \in Jobs : WF_vars(QueueAges(j) /\ job[j].queue = "backoff")

Fairness == DispatchFairness /\ \A r \in RunIds : WF_vars(Reconcile(r))

FairSpec == Spec /\ Fairness

-----------------------------------------------------------------------------
(* Properties.                                                             *)

(* The type invariant of the ledger's rows.                                *)
TypeOK ==
  /\ job \in [Jobs -> JobRecord]
  /\ run \in [RunIds -> RunRecord]
  /\ plan \in [Jobs -> {"none", "admitted", "completed", "cancelled"}]
  /\ lane \in [Lanes -> LaneRecord]
  /\ deployed \in [Machines -> 1 .. MaxDeployments]
  /\ pipeline \in [desired : {"running", "paused"}, applied : {"running", "paused"}]
  /\ incident \in [RunIds -> IncidentRecord]
  /\ repair \in [AttemptIds -> RepairRecord]
  /\ latest \in RunIds \cup {Null}
  /\ block \in [RunIds -> {"none", "active", "resolved"}]

(* The runs of a job are a gapless log: attempts 1..n exist, all but the   *)
(* last ended in failure or expiry, and while the last one is live, or if  *)
(* it succeeded or was cancelled, the job's status says the same.  So a    *)
(* job never has two live runs, however leases, expiries, crashes and late *)
(* results interleave.                                                     *)
JobLog(j) ==
  LET n == job[j].attempts IN
  /\ \A k \in 1 .. MaxRuns : run[<<j, k>>].status = "none" <=> k > n
  /\ \A k \in 1 .. (n - 1) : run[<<j, k>>].status \in {"failed", "expired"}
  /\ job[j].status \in Live => n > 0 /\ run[<<j, n>>].status \in Live
  /\ n > 0 /\ run[<<j, n>>].status \in Live \cup {"succeeded", "cancelled"} =>
       job[j].status = run[<<j, n>>].status
RunLog == \A j \in Jobs : JobLog(j)

(* One token, one holder: a live run is never executed by two processes,   *)
(* and a process executes only a run that is in the log.                   *)
OneHolder ==
  \A l \in Lanes : Holds(l) =>
    /\ run[lane[l].run].status # "none"
    /\ run[lane[l].run].machine = LaneMachine[l]
    /\ \A k \in Lanes \ {l} : lane[k].run # lane[l].run

(* max_concurrent_jobs of a machine and concurrency of a provider hold     *)
(* over all lanes and processes together.                                  *)
WithinCapacity ==
  /\ \A m \in Machines : Cardinality(LiveOn(m)) <= MaxConcurrent[m]
  /\ \A p \in Providers : Cardinality(LiveWith(p)) <= ProviderConcurrency[p]

(* A run that ended never changes again: the late result of an expired or  *)
(* cancelled lease is refused ("duplicate results are idempotently         *)
(* rejected").                                                             *)
EndedRunsAreFinal ==
  [][\A r \in RunIds : run[r].status \notin Live \cup {"none"} => run'[r] = run[r]]_vars

(* A succeeded or cancelled job stays so: no late result, expiry, retry or *)
(* lease scan touches it.                                                  *)
SettledJobsStay ==
  [][\A j \in Jobs : job[j].status \in {"succeeded", "cancelled"} =>
       job'[j].status = job[j].status]_vars

(* While a pause is requested no run of ordinary work begins.              *)
PauseStopsDispatch ==
  [][pipeline.desired = "paused" =>
       \A r \in RunIds : run[r].status = "none" /\ run'[r].status = "leased" =>
         Definition[JobOf(r)].kind \in {"chat", "respond", "probe"}]_vars

(* A training job has exactly one plan, and the plan tells the job's fate: *)
(* admitted until the job succeeds or is cancelled.                        *)
PlanFollowsJob ==
  \A j \in Jobs :
    /\ plan[j] = "completed" => job[j].status = "succeeded"
    /\ plan[j] = "cancelled" => job[j].status = "cancelled"
    /\ Definition[j].kind = "training" /\ job[j].status # "absent" =>
         plan[j] = CASE job[j].status = "succeeded" -> "completed"
                     [] job[j].status = "cancelled" -> "cancelled"
                     [] OTHER                       -> "admitted"

(* Every failed or expired run of ordinary work is accounted for by an     *)
(* incident of its job, opened by it or by an earlier run.                 *)
FailureHasIncident ==
  \A r \in RunIds :
    run[r].status \in {"failed", "expired"} /\ ~IsRespond(JobOf(r)) =>
      \E k \in 1 .. r[2] : incident[<<JobOf(r), k>>].state # "none"

(* An incident is recovered only by a later, distinct, succeeded run of    *)
(* the same job, and only then is its campaign block resolved.             *)
RecoveredByLaterRun ==
  \A r \in RunIds :
    /\ incident[r].state = "recovered" =>
         /\ \E k \in (r[2] + 1) .. MaxRuns : run[<<JobOf(r), k>>].status = "succeeded"
         /\ block[r] # "active"
    /\ block[r] = "resolved" => incident[r].state = "recovered"

(* "A deterministic specification failure is never retried": a run follows *)
(* such a failure only by one of the job's counted restarts.               *)
SpecificationFailureNotRetried ==
  \A j \in Jobs :
    Cardinality({k \in 1 .. (job[j].attempts - 1) :
                   run[<<j, k>>].code \in DeterministicSpecification}) <= job[j].restarts

(* At most one incident of a job is being verified, so a succeeding run    *)
(* closes the recovery it belongs to and no other.                         *)
OneVerification ==
  \A j \in Jobs : Cardinality(VerifyingAttempts(j)) <= 1

(* A failure that ends its job and opens an incident while the incident    *)
(* before it is not recovered leaves the pipeline paused.                  *)
BreakerPauses ==
  [][\A r \in RunIds :
       /\ incident[r].state = "none" /\ incident'[r].state \in {"classified", "blocked"}
       /\ latest # Null /\ incident[latest].state # "recovered"
       => pipeline'.desired = "paused"]_vars

(* Every lease ends, whatever crashes: a live run is closed by its holder  *)
(* or expired by the daemon.                                               *)
RunsClose == \A r \in RunIds : run[r].status \in Live ~> run[r].status \notin Live

(* A recovery under verification is closed once its job succeeded or was   *)
(* cancelled; it does not stay open as the breaker's unresolved incident.  *)
SettledRecoveryCloses ==
  \A r \in RunIds :
    incident[r].state \in {"monitoring", "verifying"}
      /\ job[JobOf(r)].status \in {"succeeded", "cancelled"}
    ~> incident[r].state \in ClosedIncident

(* If the pipeline is left running, queued work is settled: it succeeds,   *)
(* fails, is blocked or cancelled.                                         *)
QueuedWorkSettles ==
  <>[](pipeline.desired = "running") =>
    \A j \in Jobs : job[j].status = "queued" ~> job[j].status \in TerminalJob
=============================================================================
