# Mission Hub: a verification development

This directory holds TLA+ models of Mission Hub, the control plane of the
Ninereeds project (`src/mission_hub`), and of the image work of its Campaign 35
(`src/image_registry`, `src/image_benchmark`): what TLC checks of them on small
instances and what TLAPS proves of them for all instances.

Every definition is a translation of code; `PROJECT.json` ("map") names the
lines. In this text paths are relative to `src/`; `S` is
`mission_hub/store.py`, `R` is `mission_hub/recovery.py`, `O` is
`mission_hub/operations_workflow.py`, `RQ` is `image_registry/review_queue.py`,
`QW` is `image_benchmark/queue_worker_api.py` and `WL` is
`image_registry/campaign35_word_loop_controller.py`; *architecture* and
*runbook* are `docs/mission_hub_architecture.md` and
`docs/mission_hub_operator_runbook.md`.

## 1. Inventory

Mission Hub is one daemon process per site, a set of short-lived CLI and HTTP
processes, and one SQLite database they all write (`BEGIN IMMEDIATE`, so one
transaction at a time). Inside the daemon run the tick thread, one lane thread
for each machine slot, and a retention thread. Long work is done by *jobs*; a job
is *leased* by a lane, executed there or by an agent process on a remote machine
(the trainbox), and *finished* by a transaction that checks the lease token. The
image review queue is a second lease queue, in a database of its own, with its own
worker processes; controllers and commands of the image registry work around it
and keep their state in files.

| Component | State it keeps | Operations | Interacts by |
|---|---|---|---|
| Job ledger (`store.py`) | `jobs`, `runs`, `training_session_plans`, `pipeline_control`, `deployments` | create, approve, lease, start, heartbeat, finish, cancel, expire, request/apply pipeline state, activate deployment | transactions; called by every other part |
| Failure taxonomy (`failure_codes`, `retry_policies`, classification in `recovery.py`) | none (tables) | retryable?, classify, evidence needed | pure calls |
| Failure capture and reconciliation (`RecoveryManager`) | `recovery_incidents`, `recovery_attempts`, `recovery_actions`, `campaign_blocks` | capture inside the failing transaction, reconcile in the tick, start/fail/mark attempts | shares the ledger's transactions |
| Repair execution (`RecoveryCoordinator`, `repair_driver.py`) | worktree; the attempt's row | plan, apply, test, deploy, retry, restart | several transactions of the tick thread |
| Disk recovery (`retention.py`) | none of its own | pause, wait for quiet, clean, requeue, restart, tell the on-call | retention thread against lanes |
| On-call responses (`operations_workflow.py`) | `operational_responses`, messages | queue a response job, apply its action, close superseded incidents | jobs and messages |
| Daemon and lanes (`daemon.py`, `service.py`) | threads, held runs | tick, dispatch, execute and record | ledger transactions, transport |
| Retention and frontier prune (`retention.py`, `cortex_workflow.py`) | prune request slot, protections, deletions, a published activity | scan, protect, delete in two phases | files; a gate on dispatch |
| Artifact store (`artifacts.py`) | object files, artifact rows and locations | put, get, ingest, inventory, delete | SSH; rows written after the bytes |
| Remote runs (`transport.py`, `agent_cli.py`, `gpu_lock.py`) | processes, a flock | execute over SSH, watchdogs, signals | connection, process groups |
| Releases (`deployment.py`, `release.py`, `repair_driver.py`, store) | configuration snapshots, deployments, release directories, a link | build, install, activate, roll back, verify | files on two machines |
| Cortex workflows (`cortex_workflow.py`, store) | workflow rows and their jobs | authorise, replace, restart, continue, reconstruct, retry, advance | jobs and plans |
| Visual workflows (`visual_workflow.py`) | workflow rows and their jobs | materialise, gate, select, succeed, close | jobs |
| Campaign 35 coordinator (`campaign35_workflow.py`) | the metadata of the campaign | commission, bind, merge, evaluate, heal, decide | workflows, jobs |
| Campaigns, training order, knowledge (`store.py`, `training_order.py`) | campaigns, certificates, plans, knowledge of checkpoints | certify, admit, record, inherit, close | jobs and plans |
| Lab settings (`lab.py`, `runtime_settings.py`) | drafts, active and pending settings | save, rebase, sanitise, apply at a boundary | jobs, pipeline |
| Scheduler, chat, material workflow | rows and messages | fire once per slot; post and reply; materialise | jobs |
| Image review queue (`RQ`, `QW`) | `review_queue`, `review_worker`, `review_attempt` | claim a batch, renew, complete, fail, expire, requeue, finalise | one database, many worker processes |
| Word-image loop (`WL` and its workers) | `state.json`, queues of a round, the registry | find, download, review, escalate, fold in, stop | queues, files, spawned workers |
| Generated-image stage (`campaign35_flux_*`) | `state.json`, generation ledgers, decisions | plan, generate in shards, review, ingest, reconcile | systemd units over SSH, files |
| Lesson acquisition (shortlists, `lesson_verification.py`, `acquisition_*`) | selections, needs, proposals, queues | shortlist, download, review, propose, verify, fold in | files that age |
| Handlers, models, training code | files | numerical work | results of jobs |

What is hard about it:

* **Interleaving.** Lanes, CLI dispatches, the tick thread and the retention
  thread write the same rows. Several operations are more than one transaction:
  a repair is nine of them, a disk recovery four, a stage of a workflow two.
* **Leases and late answers.** A lease is a promise with a deadline. The holder
  may die, or answer after the deadline, or renew a lease that is about to be
  taken; the row it wants to write may be cancelled or leased again by then. On
  the trainbox its processes may outlive the run.
* **Crashes.** The daemon is restarted by systemd. What it was doing between two
  transactions is known only from the rows it left. The image controllers run a
  phase again that was cut short.
* **Failure policy.** One failing run decides in one transaction about its job,
  a retry, an incident, a campaign block and the pipeline switch. Several routes
  put a job back in the queue (configured retry, expiry, repaired retry, disk
  recovery, restoration by an operator, stage retry, recovery of a stage that waited
  too long) and they must respect each other's budgets.
* **Stale plans.** Retention deletes by a plan, a build is archived by a manifest,
  settings are carried over a new configuration, an acquisition round is folded
  in by proposals, that are all older than what they act on.
* **Liveness.** A queue with exclusions, budgets, pauses and blockers has many
  ways to stop serving a row without anyone having decided so.

What makes each component correct:

* ledger: one live run for a job and one holder for a run; the log of runs is
  never rewritten; a settled job stays settled; capacity and the pause are
  respected; every lease ends and queued work settles;
* failure capture: every failure is accounted for by an incident, one recovery
  at a time is being verified, an incident is recovered only by a later success,
  the breaker pauses, a failure no retry can fix is not retried;
* repairs: evidence precedes the retry (a repaired retry and a restoration wait for a
  quiet boundary, a stage retry only until no run is live), and no route puts a job back that
  has no execution left;
* disk recovery: no failure is left waiting;
* on-call: every message is answered or what its assessment asks for is refused; an
  incident of a response is closed when its message is settled: answered, or closed
  unanswered because the work it is about has succeeded;
* retention: what a stage will read is not deleted; a deletion is authorised
  before the file goes and recorded after; the dispatch gate opens again;
  superseded checkpoints do go;
* artifacts: a recorded location holds the whole object, or a deletion of it is
  under way;
* remote runs: one GPU workload of the hub at a time;
* releases: an accepted run was executed by the source its deployment attests;
* Cortex workflows: every session trained once, in order, from the checkpoint
  before it, and skipped only when its checkpoint is gone by authority;
* visual workflows: an item is packed after its candidates are settled, and the
  pack is the first usable candidates in the order of the plan;
* Campaign 35: the healing starts from the merge that was evaluated; a session is
  taught only on concepts its parent knows;
* settings: a job is leased with a pair of token limits a check would accept;
* review queue: one owner for an item, no stale answer, no worker twice, one
  result, no worker locked out by its own leases, every item goes round;
* word loop: it gives up only after two fruitless searches in a row, and what it
  accepts is usable in the registry;
* generated images: one image is accepted for one slot, within the reuse cap;
* lesson acquisition: one protected image for an item, and one item for an image.

## 2. Modules

```
JobPromise                 what the ledger promises of a job
FailureTaxonomy            tables and decisions on a failure
  MissionLedger            jobs, runs, leases, pipeline, failure capture
    MissionLedgerRefinement  the mapping of the ledger to JobPromise
    MissionLedgerProofs    theorems: types, the run log, holders
      MissionLedgerPolicyProofs    plans, the pause, capacity, specification failures,
                                   and that the ledger keeps JobPromise
      MissionLedgerIncidentProofs  incidents, the breaker, verification
    MCMissionLedger        instances for TLC
    MissionRecovery        on-call, repair coordinator, disk recovery, crashes
      MissionRecoveryProofs        theorems, those of the ledger again among them
      MCMissionRecovery    instances for TLC
        MCRecoveryLiveness one of them, and the messages of OperationalResponse

OperationalResponse        the rows of the messages to the on-call

ReviewPromise              what the review queue promises of an item
ReviewQueue                its ledger, its workers, the operator
  ReviewQueueRefinement    the mapping of the one to the other
    ReviewQueueProofs      theorems, the refinement among them
    MCReviewQueue          instance for TLC

CheckpointFrontier         a branch, the dispatch gate and the retention thread
  CheckpointFrontierProofs theorems: types, authorization, what is kept
  MCCheckpointFrontier     instance for TLC

CortexBranch               the workflows of one branch
  MCCortexBranch           the instance of one finding
VisualWorkflow  FiveBuild  TeachingLedger
RemoteRun  ArtifactStore  Releases  LabSettings
WordLoop  FluxSpecialist  LessonAcquisition
  MCWorkflows              instances of these eleven modules, one in each behaviour
  TrainboxProofs           theorems about RemoteRun, Releases and ArtifactStore
  WorkflowProofs           theorems about TeachingLedger, LabSettings, FiveBuild,
                           LessonAcquisition, WordLoop, CortexBranch, VisualWorkflow
                           and FluxSpecialist
```

`CheckpointFrontier` and the ledger meet the same rows at two grains: there a
session is two jobs and a lane that passes a gate, here a job has runs, retries
and incidents. `FiveBuild` sees a Cortex branch as one flow that ends, and
`CortexBranch` says how it gets there; `TeachingLedger` says what the sessions
of all branches may assume.

`MCWorkflows` holds components that share no state. `part` picks one of them
(with one of its instances) in the initial state, and the slots `v1`, ..., `w5`
are its variables; so one run explores 27 instances side by side, and a property
speaks of the parts it is about.

### FailureTaxonomy

Failure codes by class, the retry policies of `config/mission_hub`, whether a
failed run is retried, the category and blocker of an incident and the evidence
a recovery needs. Sets of codes stand for the tables; the model's code
`provider_credential_missing` is `provider_capability_unavailable` with a message
that names a missing credential, which the code tells apart by that message.

### MissionLedger

One action for each transaction of the store; the failure capture of `recovery.py` is
part of the transaction that closes the run, as in the code.

| Variable | Rows |
|---|---|
| `job`, `run` | `jobs`; `runs`, keyed by job and attempt number |
| `plan` | `training_session_plans.status` of a training job |
| `lane` | the token in the hands of a lane thread or a CLI process |
| `deployed`, `pipeline` | the active deployment of each machine; `pipeline_control` |
| `incident`, `repair`, `block`, `latest` | incidents (one for each failed run), their attempts with the kinds of their succeeded actions, campaign blocks, and the incident created last |

| Action | Code |
|---|---|
| `CreateJob`, `ApproveJob` | `create_job`, `approve_job` |
| `LeaseNext` | `lease_next`: stale jobs are blocked, candidates walked in order, training work without admission blocked, spent jobs failed, the first that fits leased |
| `StartRun`, `Heartbeat` | `start_run`, `heartbeat_run` (which renews even a lapsed lease) |
| `FinishSucceeded`, `FinishFailed`, `ResultRefused` | `finish_run` and its refusals |
| `CaptureRetried`, `CaptureTerminal` | `capture_failure_db` |
| `LaneLost` | an executor that dies or cannot close its run |
| `CancelJob`, `ExpireLeases` | `cancel_job`, `expire_leases` |
| `RequestPipelineState`, `ApplyPipelineState` | the pipeline switch |
| `ReconcileCancelled`, `ReconcileRecovered` | `_reconcile_one` |

Abstractions. Time is a flag: a lease is fresh or lapsed, a queued job in
backoff, ready or stale; actions of their own let time pass, in any order. The
configuration is one fixed snapshot. The artifact registry and the on-call
interval, which may hold a job back in `lease_next`, are a choice (`Holdable`);
so is whether an on-call response is pending for a hub machine. Creation order
among equals is any order. The reading of the incident ids in `reconcile` and
the transaction for each of them are one action per incident.

### JobPromise, MissionLedgerRefinement

`JobPromise` is the abstract specification: a job is held by a process only while an
execution is granted, one process at a time may answer for it and nobody else
settles it, a process that is gone leaves it held until that is noticed, and of what
is settled only a failure, or a block of what never began, comes back, and only with an
execution left. It knows no runs, tokens, leases,
pipeline or incidents. `MissionLedgerRefinement` reads it off the rows: the process
that may answer for a job is the lane whose token names the job's last run while
that is live. A lease is the beginning of an execution, a result an answer, an expiry
a return; a scan that blocks and grants is a step of several jobs at once.

### MissionRecovery

Everything above the ledger that moves a failed job. `hub` is the tick thread:
the repair it is in and the transaction it has reached. `disk` is the retention
thread. `noticed` are the incidents that were put before the on-call, and `reply` the
status of each message in `operational_responses`.
`RecoveryCoordinator._execute` is nine actions, `_act` of the on-call
five, `DiskCapacityRecoveryCoordinator.tick` six, and `DaemonCrash` may come
between any two. `RetryAllowed` is the conjunction of what
`_verify_active_deployment` and `retry_failed_job_after_repair` demand.

`CloseSuperseded` (`_close_superseded_on_call_incidents`) has two callers. `AnswerMessage`
is the end of `_act`. `ReconcileBlocked` is `_reconcile_legacy_responses`: a message that
`retry_after_local_resource_restoration` blocked is closed when the work it is about (`About`)
succeeded or had an incident recovered, and the incidents of its responses close with it,
though none of them succeeded. In both the closing is a transaction after the one that settles
the message and is not made up after a crash (`Settles`).

The operator's ways to put work back are `OperatorRestores`
(`recovery-local-resource-restored`, a batch of any choice), `RetryFailedStage`
(`retry_failed_cortex_stage`: no live run, whatever the pipeline is asked to be, and no restart
counted) and `RecoverQueueExpired` (`recover_queue_expired_cortex_stage` and
`resume_queue_expired_visual_frontiers`, for stages that never ran).

Abstractions. What a driver patches and tests is one outcome: it deploys or it
fails (its steps are in `Releases`). Whether cleanup frees enough is a choice.
`Trigger` says which response
jobs answer one message; there may be two of one message at a time, after a crash,
and how that comes about is in `OperationalResponse`. `About` is a set, since notices that are
coalesced share a thread; it names no workflows, which the messages of incidents never do.
The two requeues of a stage ask nothing of its workflow's and its campaign's state, so
more is allowed here than in the code; and an incident's SSH timeout of an old release, which
`retry_failed_cortex_stage` lets pass although it was recorded as deterministic, is left out:
`transport.py` 76–80 no longer produces it. `RetryRefused` is also possible for a job of an active workflow,
because the workflow's own checks may refuse.

### OperationalResponse

The other half of the on-call: what happens to a message. `row` is
`operational_responses`, `job` the response jobs of a message by their idempotency
key (which counts the checks, so that a job made and not linked is not found again
once a check was counted). `WaitForBoundary`, `CreateResponse` and `LinkResponse` are
`_queue`; `FollowJob`, `RetainForRetry` and `Act` are `tick`, and `BeginRepair`,
`MarkRetrying`, `RestartPipeline`, `Answer` and `RecordAnswer` the transactions of
`_act` that follow; `DaemonCrash` may come between any two.
`LeaseResponse` and `LeaseOrdinary` are the part of `lease_next` that holds ordinary
work back for a response that has waited, and a response for its interval.
`RestoreResources` is the operator's `retry_local_resource_incidents`.

Abstractions. All messages are about one piece of failed work, whose own course is
`WorkProceeds`. An assessment asks for one of seven actions; a recommission or
`operator_required` changes nothing here. Work that recovers an incident goes before
a response in `lease_next`: it is `trouble`, bounded like the crashes. The responder's
provider serves one run at a time.

### ReviewQueue, ReviewPromise, ReviewQueueRefinement

`item` and `attempts` are `review_queue` and `review_attempt`; `worker` is what
each API worker process knows: where it is in its loop and which claim tokens it
holds. `ClaimBatch`, `CountQueue`, `RenewClaim`, `CompleteClaim`, `FailClaim`, `EndpointFails`,
`ReturnUntouched` and the others are the transactions of `RQ` in the order of
the main loop of `QW`; `Crash` may come between any two. `_expire_leases`
is part of every claim and status query, as in the code, and undone with a claim that is
refused. `RequeueFailures` and `FinalizeFailures` are the operator's (in
Campaign 35 the word-loop controller's).

`ReviewPromise` is the abstract specification: an item has at most one owner,
the owner decides it only while its lease is good, no worker owns it twice, and a
decision stands unless a failure is reopened or closed.
`ReviewQueueRefinement` reads owner, history and outcome off the rows. A claim
that first releases a lapsed lease of the same item and then takes it is one
transaction, so the promise lets a lost item be taken directly.

Abstractions. One queue. Leases are fresh or lapsed, and those of one batch may
lapse one by one. The request of claims by number, which the worker does not
use, and `--once` are left out. Which failed items are requeued is a choice
(the code selects by error type).

### CheckpointFrontier

One Cortex branch of `N` sessions, a machine lane, the CLI and the retention
thread, over the checkpoints they write, read and retire. `creating` and `linked`
are the two transactions of a stage; `gated` is a lane between the activity check
and the lease; `keeper` is the retention thread with what it has read so far
(`KeeperChecks`, `KeeperDerives`, `KeeperReleases`, `KeeperPlans`,
`KeeperAuthorizes`, `KeeperDeletes`, `KeeperRecords`, `KeeperFails`,
`KeeperClears`, `KeeperRests`: one transaction or file operation each);
`request` is the slot of the prune request. `DaemonDies` takes what all three
threads knew. `early` and `retried` are history: a step that overtook the
bookkeeping of the daemon, and stages an operator requeued, for which the program
promises nothing.

### CortexBranch

The rows of `cortex_workflows` for one branch, in the order of their creation,
and everything that may add to them or move them: authorisation, replacement by
repaired material, restart, continuation behind an evaluation whose checkpoint is
gone, reconstruction of a prefix, `retry_failed_cortex_stage`, and the
coordinator. `asked` is a caller of `create_cortex_workflow` between its read and
its insert. `bound` is `training_session_plans`.

### VisualWorkflow

The workflows of one lesson plan. `hub` is what each coordinator has read and is
about to do: a step is taken on the snapshot the coordinator made at its
beginning, so two coordinators (the daemon and `visual-workflow-tick`) overlap.
A workflow closed as rejected and its successor are two transactions.

### FiveBuild, TeachingLedger

`FiveBuild`: the five builds of Campaign 35 (words, images and both from one
root, the merge of the first two, and the third replayed on the merge). `step` is
the transactions the coordinator, or a commissioning script, still has to make; a
crash drops them. A branch stands for the latest stage of its workflow, and `start` is the
merge that the workflow begins from. A failure may hold a block of the campaign: then no step of
the graph is taken and no workflow is advanced (`Selected`, `Steers`), and jobs are leased as
ever; once the job was put back and has succeeded the reconciliation of its incident lifts the
block (`Lifts`). In between the operator may retry stages, replace a failed workflow or
switch the pipeline. `TeachingLedger`: certification, admission, completion and
knowledge of training sessions, over two branches, their merge and a branch on
it, with the decision and the closure of the campaign.

### RemoteRun, ArtifactStore, Releases, LabSettings

`RemoteRun`: attempts of a GPU job on the trainbox, each with its lane, its SSH
connection, its agent and the GPU child; the lock is a flock, gone with the agent
that holds it. The vision API is a second user of the GPU. `ArtifactStore`: the
copies of one checkpoint on two machines, its row and locations, transfers,
clean-ups by the daemon and by the CLI. `Releases`: configurations, deployments,
the archive, the release directories and the link of the trainbox, the operator's
registration and the repair driver's. `LabSettings`: drafts, `active` and
`pending` settings, the form of an operator, activation of another configuration,
the rebase, and the sanitising read at lease.

### WordLoop, FluxSpecialist, LessonAcquisition

`WordLoop`: the controller's phases with `state.json` written at the end of each,
the queues of first and second reviews, the workers it spawns and the
finalisation in the registry. A review is one action here (`ReviewQueue` has its
leases). `FluxSpecialist`: cycles of planning, generation in two shards, copying,
review, ingest and reconciliation, each resumed from files. `LessonAcquisition`:
shortlist, download, inspection, review, proposal, verification, folding in of
registry and external rounds, reassessment, boundary; every command reads files
that may be older than the registry or each other.

Abstractions of these eleven. What a search finds, a reviewer sees, a test shows
or an evaluation measures is a choice. Failures, crashes, cut connections and
interventions are bounded together by one number of the instance (`MaxTrouble`,
`MaxFailures`, `MaxChanges`, `MaxInterventions`).

## 3. Runs and bounds

| Run | Instance | What it shows | Distinct states |
|---|---|---|---|
| `unit_and_training` | one machine, one slot, a daemon lane and a CLI process; an atomic unit with a retry and a training job that needs approval; one code each that is retried, that no retry can fix, and that disk recovery owns | the run log, plans, incidents, ended rows final, no retry of what cannot be fixed, and `JobPromise` implemented | 168,696 |
| `hub` | the hub machine with two slots, a provider with one; an on-call response that may be held back, and work of an active workflow; two deployments | capacity of machine and provider over two leasing processes, and the pause | 1,232,656 |
| `liveness` | as the first with the daemon's lane alone | leases end, queued work settles, settled recoveries close | 39,736 |
| `recovery` | one campaign evaluation whose failure needs a repair; two repairs, one restart, two deployments the operator may switch; or two response jobs of one message; or that evaluation put back by the operator while a response about it may expire | evidence before the retry, an incident of a response recovered only when its message is settled, with a crash between any two transactions | 498,670 |
| `disk` | two jobs that fail on a full disk, one of them a stage of a workflow with two attempts; three runs, one restart and one repair each | no job waits with no execution left unless its lease expired, whoever put it back | 1,074,672 |
| `recovery_liveness` | a job that fails on a full disk, with two runs; or messages to the on-call: a notice about failed work, a message of the operator with a crash, or both with ordinary work alone | no disk failure waits for ever, and every message is answered or its action refused | 73,632 |
| `review` | two items; a worker that claims two at a time and one that claims one; two attempts for each item | all of the review queue: leases, batches, going round, and `ReviewPromise` implemented | 36,247 |
| `frontier` | two sessions, each evaluated or only the last with both preserved; one intervention, one inventory | needed checkpoints kept, two-phase deletion, the gate reopens, superseded checkpoints go | 184,468 |
| `workflows` | 27 instances of eleven modules (below) | fourteen properties, one or two for each module | 2,576,606 |
| `doc_daemon_restart` | the instance of `frontier` | a restart of the daemon blocks a branch (section 6) | until the counterexample |
| `doc_one_owner` | one session, an original and a repaired list | two active workflows of one branch (section 6) | until the counterexample |
| `doc_escalation` | the instance of `workflows` | a round taken for complete with an alarm nobody reviews (section 6) | until the counterexample |

The parts of `workflows`:

| Part | Instance | Properties |
|---|---|---|
| repaired, contended branch | three sessions, three workflows, one failed run; one caller with two session lists, or two callers with one | `TrainedInOrder`, `SkippedOnlyForRetired` |
| five lesson plans | one item with two seeds under two coordinators and no failure; one item with two cohorts of two; two items with successors; three items of which two are packed; two items in shadow mode | `CandidateFirst`, `PackIsFirstUsable` |
| four word loops | the cascade of word reviews or that of image reviews on one slot, usability with trouble, or two slots without second reviews | `ExhaustedAfterTwo`, `AcceptedAreUsable` |
| remote runs | two attempts, two troubles | `OneGpuWorkload` |
| two five builds | no trouble where the visual workflows encoded an archive or shards; two troubles where the images come from the scripts alone | `HealsTheEvaluatedMerge` |
| teaching | one session on each of two branches, two on their merge, one concept an operator may seed, one trouble | `TaughtOnWhatIsKnown` |
| four artifact stores | two transfers of one build; two builds; two cleaners of one build, or of two builds without transfers; one inventory, one trouble | `RecordedAreWhole` |
| three specialists | three slots of two concepts with one error allowed, two slots over three cycles, three routes; a cap of two, two troubles | `DistinctPositives` |
| three release trees | two sources of one configuration, of two, or one of them not committed; two or three changes | `RunsAttestedSource` |
| settings | two configurations whose limits exclude each other's, one job, two runs, three changes | `TokensLeasable` |
| acquisition | two items, an image of the registry and one of COCO, two shortlists, two verification passes | `SelectionsDistinct` |

The bounds of the models, all of them constants:

* `MaxRuns` of the ledger: runs of one job. It only sizes the run table: `lease_next` bounds
  them by `max_attempts` and the operator restarts, and `LedgerAssumption` demands
  room for both, so this bound never stops an action the code allows.
  Two are enough for a failure, its retry and the late answer of the first run;
  `disk` has three, for the two attempts of a stage and the run after its restart.
* `MaxRestarts`: operator restarts of one job. The code has no bound.
* `MaxRepairs`: recovery attempts of one incident. The code bounds them by the
  retry policy's budget; two show a re-entry after a failed attempt. `disk` has one.
* `MaxDeployments`: deployments of one machine. Two, so that one can be the
  deployment that failed.
* `MaxAttempts` and `MaxClaims` of the review queue are the program's own
  parameters (`--max-attempts`, the batch size of a worker), and so are
  `MaxTries` and `MaxErrors` of the word loop, `Cap` and `MaxErrors` of the
  specialist, `Cohort`, `PackLimit` and `Budget` of a lesson plan.
* `MaxWorkflows` (rows of a branch or a plan): three let a workflow be replaced
  and its replacement be restarted or reconstructed.
* `MaxTrouble`, `trouble` of a setting (one, in `OperationalResponse`: a second crash could leave a
  third response job of one message), `MaxFailures`, `MaxChanges`, `MaxInterventions`, `MaxScans`,
  `MaxCycles`, `MaxLists`, `MaxPasses`: how often in a behaviour something fails,
  is cut, or is asked for by an operator. The properties say what two or three such events
  in any order cannot break; one is used where two instances of the same component
  contend already.

An action that would pass a bound is not enabled. That the interesting cases do
occur inside the bounds is shown by the mutants: for every property of every
passing run, a definition that models code is replaced by a variant with a
plausible bug (the operators marked `\* fault:` beside the originals: a guard
dropped, a reset forgotten, two steps swapped, a token not compared), and TLC
then finds the property violated in the same instance.

Two constraints cut an instance down to its question. `RepairsOrResponses` (run
`recovery`) has three cases: repairs (`RepairsOnly`), without states with a notice, an
acknowledged running pipeline or a lapsed lease; responses (`ResponsesOnly`), without the
evaluation; and the operator's restoration of the evaluation beside one response
(`RestorationOnly`), without repairs.
`DiskOnly` (run `disk`) leaves out states with a repair by the
on-call or a refused envelope; leases lapse only for the stage, while it is alone, and at most
one incident is noticed. Both are used with safety properties alone. Deadlock is not checked in the
runs of the ledger, of recovery and of `workflows`, because those instances really may stop: every
job settled, every workflow closed, or every bound reached (`recovery_liveness` among them). The review queue never stops
(`QueueStatus` can always be asked) and a frontier can always switch its pipeline, so there
the check of deadlock is left on, and liveness is the check that says something.

## 4. Fairness

Weak fairness is assumed of what a loop of the program does on every round, and
of nothing a person or a fault does.

| Assumed | Because |
|---|---|
| `ExpireLeases`, `Reconcile` | `MissionHubDaemon.tick` calls both on every round, whether or not the pipeline runs |
| `LeaseNext`, `StartRun`, `Executes`, `ResultRefused` of each lane | lane threads poll, and what a lane executes is bounded by the job's timeout |
| `LeaseLapses`, the end of a backoff | clocks advance |
| `StartAuthorizedRepair`, `CoordinatorStep` (recovery) | the tick thread finishes what it began; a coordinator step is bounded by the driver's timeouts |
| `DiskStep` | the retention thread polls for disk failures |
| `Start` of a review worker | its systemd unit has `Restart=on-failure` |
| `Advance` of a review worker | requests have timeouts and the loop sleeps a bounded time |
| `ClaimBatch` of a review worker (strong) | before a claim the endpoint is asked whether it is healthy, and it may be unhealthy any number of times; strong fairness says it is found healthy some time if asked for ever |
| `CoordinatorStep` (frontier), `LaneStep`, `LeaseExpires` | every tick advances the Cortex workflows and expires leases; lanes poll |
| `KeeperPolls`, `KeeperStep` | the retention thread polls for a prune request, and each of its steps is a transaction or a request with a timeout |
| `TickStep` of a message (strong) | a tick visits every response row, whatever it does for the others |
| `ComesDue`, `IntervalEnds`, `OrdinaryEnds` | clocks advance, and ordinary work is bounded by its timeout |
| `LeaseResponse` of a message (strong) | `lease_next` takes responses in the order of their creation, so a message whose job can be leased again and again is not passed over for ever |
| `ResponseSucceeds` of a message (strong) | a responder that is asked again and again answers some time; an environmental assumption, without which nothing is owed |

No operator, no approval, no on-call response, no notice and no crash is assumed
to come. `Executes` is fair only as a whole, so a run may end in any of its ways,
the loss of its executor included, each time.

The liveness properties say their conditions. `QueuedWorkSettles` assumes that the
pipeline is left running: a paused pipeline serves nothing, by design.
`DiskFailureSettles` assumes that the pipeline stays paused, because a
disk failure is recovered at a quiet boundary and an operator who keeps starting
the pipeline keeps that boundary away, and that the daemon stops being killed at some
point. It excepts a job or incident at a bound of the model (`AtBound`).
`MessagesAnswered` assumes nothing of the operator or of the pipeline. It excepts a message
whose assessment asks for what is refused (`refused`: the action is tried again every minute,
and the code has no end to it) and one closed by the operator with the incident it was about.
`ItemsGoRound` excepts an item that every worker that stays has tried: such an item
remains pending until a worker with a new id is started, which is documented
(`docs/image_review_queue.md`) and what the Campaign 35 word-loop controller does.
`GateReopens` and `SupersededRetired` are of a branch that is left to run and where nothing
breaks (`Undisturbed`): no deletion fails or is left half done, the workflow is not
failed or blocked, the pipeline runs in the end, and the daemon stops being killed.
Each condition is needed: what happens without it is in section 6.

## 5. Proofs

Every leaf is checked by TLAPS; the theorems hold for all values of the
constants that satisfy the named assumptions.

### MissionLedgerProofs

Assumes `LedgerAssumption`: the functions that describe jobs, machines and
providers have their types, the bounds are natural numbers, the run table has
room for every run `lease_next` may grant, and `Null` is no run.

* `TypeCorrect`: `TypeOK` is inductive by itself. One lemma for each group of
  actions; `LeaseEffect` gathers what the three steps of `LeaseNext` (block the
  stale, walk the candidates, grant) do to the rows together.
* `RunLogCorrect`: `RunLog` is inductive relative to `TypeOK`. The argument is
  by job. Three lemmas say when the log of one job survives: `LogKept`, when
  its runs and attempt number stay and its status stays consistent with the last
  run; `LogClosed`, when its last run, live before, ends and the status follows;
  `LogExtended`, when a run is added to a job whose last run is not live.
  `LiveIsLast` (a live run is the last run of its job) is what makes a holder's
  step, an expiry or a cancellation touch the last run and no other. Then each
  action is one of these three for the job it moves and the first for
  the others.
* `OneHolderCorrect` (two lanes never hold one run): inductive relative to both: a granted run did not exist
  before (`GrantIsNew`), so nobody can hold it yet.
* `EndedRunsFinal`, `SettledFinal`: action properties, from the same invariant.
  A holder's result is accepted only for a run that is live, and the guards on
  the job's status keep every other route away from a settled job.

### MissionLedgerPolicyProofs

* `PlanCorrect`: per job; the invariant is `PlanFollowsJob` itself, relative to
  the run log. A step settles the plan with the job, or leaves the plan and moves
  the job between statuses that do not concern it (`PlanUntouched`).
* `PauseCorrect` and `CapacityCorrect` rest on the same two facts: a run becomes
  live only in `lease_next`, which has checked the switch, the slot and the
  providers of the job (`DispatchBegins`), and no other transaction makes a run
  live (`OnlyDispatchBegins`). `WithinCapacity` alone is not inductive when there
  are infinitely many jobs, because `Cardinality` says nothing of an infinite set;
  `Capacities` adds that the live runs are finitely many.

* `SpecificationCorrect`: `SpecAccount` keeps an account for each job: its specification
  failures before the last run are covered by counted restarts, and when the job waits
  for its next run, the last failure too. That a failure ends the job or is no
  specification failure (`Outcome`) pays for the one side, that only a counted restart
  takes a settled job back for the other. A retry after repair counts as one.

* `JobPromiseCorrect`: `Spec => JobPromiseKept`, the whole of `JobPromise!Spec` under the
  mapping. The argument is by job: `KeepsPromised` and `LeavesPromised` say what its
  row and the tokens must do for a stutter, or for a step after which nobody answers for
  it, and every action is one of the two for each job but two: the grant of `LeaseNext`
  begins an execution, and a lost process leaves the job held. It rests on the run log (a result is
  taken for a live run, which is the job's last, so its holder is the one that may answer)
  and on `OneHolder` (when that process is gone nobody else may).

### MissionLedgerIncidentProofs

Every step moves an incident and its block in one of four ways (`IncidentStep`):
they stay, a failing run opens the incident, an incident under watch proceeds, or it is
recovered (`EveryStepMoves`). The strengthening is `EndedIncidents`, that only runs that
failed or expired have incidents; it is what makes a live run's incident new.

* `RecoveredCorrect`: the success found by `_reconcile_one` is of the job's last run
  and, by `EndedIncidents` and the run log, the incident's run is an earlier one. The
  code only asks for another run; that it is a later one is proved.
* `FailuresCaptured`: a run that fails opens an incident or its job has a verifying
  attempt, whose incident belongs to an earlier run.
* `BreakerCorrect` (a failure that ends its job and opens an incident while the incident
  before it is not recovered leaves the pipeline paused): only one of the four ways leads from no incident to a
  classified or blocked one.
* `OneVerificationCorrect`: a retried failure starts a verification only for a job
  that has none, and two runs of one expired batch are never of one job, because a
  live run is the last run of its job.

`_verifying_attempt` takes the attempt with the highest ordinal: that there is one is
`ChosenIsVerifying`, by the well-foundedness of the naturals.

### ReviewQueueProofs

Assumes `ReviewAssumption` (`ItemCount` and the limits are natural numbers) and
`NobodyAssumption` (`Nobody` is no worker).

The rows of one item move in one of seven ways whatever transaction runs
(`RowStep`): not at all, an expiry, a claim (with the expiry that precedes it), a
lapse, an answer, a reopening, or a closing as unreviewable.
`StepMovesRows` shows it of every action once; everything else is about one item
and seven ways:

* `Agree`, for each item, joins `OneLease`, `OneResult` and `OncePerWorker` with
  what they need of each other. `IInv` is `TypeOK` with `Agree` for each item,
  and `RowStepAgrees` shows that each way preserves it. `OneLease` alone is not inductive: a
  late answer is harmless only because its token names the current attempt.
* `AttemptsRemainCorrect`: no way shortens the attempts or touches an ended one.
* `PromiseIsKept`: `Spec => PromiseKept`, with `PromiseKept` the whole of
  `ReviewPromise!Spec` under the mapping of `ReviewQueueRefinement`. Each of the seven ways is a step of the promise
  for that item or a stutter (`RowStepPromised`).
* `BatchCorrect`: `BatchGivenUp` is a property of the moment of a claim; the invariant
  `AllInHand` says of every moment before it that each good lease of a worker is one of
  the claims in its hands. Steps of others touch only leases that are not good
  any more, or are not its own (`OnlyOld`).

### MissionRecoveryProofs

Assumes `RecoveryAssumption` beside the ledger's. `RecoveryInv` joins the types, the run log,
`EndedIncidents`, `AttemptsOK` (an incident's attempts are numbered without gaps, and have
the evidence that their status and strategy demand) and `ThreadOK` (the place of the tick
thread agrees with the attempt it works on: what it has in hand when it
dies is what the next process finds).

* `RecoveryInvariant`, `RecoveryTypeCorrect`, `VerifiedCorrect`, `EvidenceNeverLost`.
* `LedgerHoldsUnderRecovery`, `SettledUnderRecovery`, `PauseUnderRecovery`: the theorems of the
  ledger are about `Spec`, where no repair runs. `LedgerOrRequeue` splits
  the steps: one is a step of the ledger, or it moves no run and does nothing to jobs
  but put failed ones, or stages that never ran, back into the queue and withdraw queued
  responses (`RequeuesOnly`). The promises that survive the second
  kind are carried over: `RunLog`, `OneHolder`, `FailureHasIncident`, `PlanFollowsJob`,
  `WithinCapacity` and the three action properties.
  `RecoveredByLaterRun`, `OneVerification` and `BreakerPauses` do not carry over, nor should they:
  the recovery closes incidents in ways of its own.
* `SpentCorrect`: a job waits with no execution left only if its last lease expired. `Budgets`
  says it, and that no job ever began more executions than it was granted; a step of the ledger
  keeps it because a configured retry leaves an attempt (`FailureWaits`), an expiry leaves an
  expired run (`ExpiryWaits`), and a requeue either counts a restart or finds an attempt
  (`BudgetStep`).
* `PromiseUnderRecovery`: `JobPromise` survives too, with what is put back as its `Reopen`: it
  had failed, or was blocked before it began, and it has an execution left, by a counted restart
  or by the attempts of its definition (`ReopenPromised`, from `Budgets`).
* `AnswerCorrect`: the incident of a response is recovered by its own success, by an answer, or
  by `ReconcileBlocked`. For the last, `WorkRecovered` carries through every step that ordinary work
  with a recovered incident has succeeded; so what the code takes for resolved is (`SettledMeans`).
* `SpecificationUnderRecovery` (with `SpecAccount`): a requeue after a specification failure is a
  counted restart; a stage is retried after failures of the infrastructure only.

### CheckpointFrontierProofs

Assumes `FrontierAssumption`: there is a session, recipes are recipes, the root is
declared, the bounds are numbers, `Null` is no stage.

`FrontierInv` has two parts. What always holds: the rows of jobs and checkpoints
agree, stages are created in order, what the retention thread has in hand was in the
ledger when it planned (`HandOK`), and `AuthorizedFirst`. And what holds as long as no run
was started beside the gate (`~early`): the bookkeeping has been `Followed`: every trained
session is linked, its prune request stays in its slot until it is evaluated, no run is live
while the thread may delete, and from the reading of the protections to the last deletion whatever
the thread would delete is `Retirable` (`Spares`): its successor is trained and
evaluated, no stage that may still run reads it, and the recipe does not preserve it.
`RetirableStays` is the core: no step makes such a checkpoint needed again.

* `AuthorizedCorrect` needs only the first part and holds for every behaviour.
* `CheckpointsCorrect` needs both; its exception (`early`) is the one `CheckpointsKept` states.

### TrainboxProofs and WorkflowProofs

The modules of `MCWorkflows` are proved about one at a time, by `INSTANCE`, under the
hypotheses that each theorem states.

* `OneGpuCorrect` (`MaxTrouble` is a number, `Null` is none): an agent holds the lock exactly
  between its check and its end, only its child gets so far as to load, and once the preflight
  found the memory free no child of another attempt occupies it (`AttemptOK`).
* `AttestedCorrect` (`Null` is no archive): an installed release is what its manifest says and
  stays (`InstalledOK`), whatever becomes of the tree it was made from; an agent that was
  admitted runs from it (`AgentOK`).
* `CopiesCorrect` (the bounds are numbers; build files are none of the two stores): the stores'
  objects are only ever replaced by whole ones (`ObjectsOK`), a build file is nobody's copy before
  its run ended (`BuildOK`), and an inventory that is older than a deletion names a file that
  was whole or whose deletion has its row (`CleanerOK`).
* `TaughtCorrect` (no hypothesis): a plan is admitted on top of what its parent knows, and knowledge
  is never taken back, so it holds of the plan whenever its job trains (`TaughtInv`).
* `LeasableCorrect` (the limits of each configuration are valid themselves. `config.py` does
  not compare them, `save_settings` does, `runtime_settings.py` 181, and the text models of
  `models.toml` satisfy it): every draft, wherever it is on its way, is valid for the
  configuration it names (`SettingsInv`), and each rebase pairs it with one it is valid for.
* `HealsCorrect` (no hypothesis): a merge that was evaluated is bound for good, since another is
  bound only while the evaluation of the first has failed; so what the coordinator still has to
  write is right whatever happened since it read (`CoordinatorOK`), failures, retries and lifted
  blocks of every branch among it (`Keeps`).
* `SelectionsCorrect` (items are numbers; COCO's assets are assets; `Null` is none of the values it
  stands beside): until every item has a route all that is accepted is of one proposal
  (`OfOneProposal`), and afterwards no pass of it is folded in; an exported queue is older than
  the registry, but no verdict was taken back since (`PassOK`); and an overlap with what is
  protected is refused, by item and by image.
* `AcceptedCorrect` (the cascade is among the four queues): what the export took is `Kept`, and that
  stays true while workers go on, because a second review says one thing and is opened only
  where the first review raised its alarm (`ReviewsOK`).
* `ExhaustedCorrect` (as above, with a finite set of candidates and a number of slots): a round
  appends its gain to the history exactly when it takes it from the residual, and the count of
  fruitless rounds stands for rounds the history still shows (`HistoryInv`). The gains are summed
  without an induction: the invariant says that the history has running totals and that
  they all end on the slots filled so far, and a round adds one more (`OneMoreTotal`).
* `CandidateFirstCorrect`, `PackCorrect` (`PlanOK`: a seed and a cohort at least, and the items of an
  exact plan fit a pack, which the plan stage checks, `handlers/visual.py` 390): a coordinator acts
  on what it read, however old. `VisInv` says that what it read is still a part of what is there,
  because a success is final and the verdict of a review comes with it (`Readings`, `Verdicts`); that
  every stage was ready for some reading when it was created (`Stages`); and that the pack is
  the selection of the present rows, which a settled candidate cannot change (`Packs`).
* `PositivesCorrect` (`SlotsOK`: finitely many slots, each of a known concept): the plan of a cycle asks for
  images only of concepts whose slots are open, the ingest refuses a ledger in which an image
  occurs twice or whose images are not exactly what is missing, and so the order of the
  images counts them off onto the open slots, one each (`NthInOrder`, `BoundApart`, by the
  pigeonhole of `RanksCover`). An image of an earlier cycle is never one of this cycle (`FluxInv`).
* `TrainedCorrect`, `SkippedCorrect` (the recipe has a session; `Null` is no stage): `BranchInv` says of a
  stage that exists that all sessions before it are done and that the ledger admitted
  the session for this very job, unless the job is beyond retry (`StageOK`: what lets a
  restart move the session); of a workflow that starts behind another, that it continues
  that one's last trained session, whose evaluation has lost its parent (`StartOK`); and of
  a workflow blocked for a retired input, that its last session is that one
  (`BlockedOK`). The last is what `continue_cortex_workflow_after_retention_evaluation_gap` relies on
  without looking: it reads the reason and the jobs, not whether the parent was deleted.

### What the proofs changed in the models

An invariant that is not inductive, or an expression the provers read otherwise than
TLC, was a reason to look again: `SUBSET X \ {{}}` is parenthesized everywhere; `CheckpointFrontier`,
`FiveBuild`, `WordLoop` and `LessonAcquisition` state with disjuncts and quantifiers
what they stated by `CASE`, nested conditions or cardinalities; a job of
`CortexBranch` is `job[<<w, k, "train">>]`; `VisualWorkflow` keeps the places of the stages
that are left instead of filtering a list; `WordLoop` names the two fruitless rounds and
sums the gains by a recursive function; `FluxSpecialist` counts entries of a ledger where it
summed numbers. None of these changed what the runs explore.

### Checked on instances only

Every invariant and every action property of the passing runs is proved. What is left:

* All liveness (`RunsClose`, `QueuedWorkSettles`, `SettledRecoveryCloses`,
  `DiskFailureSettles`, `MessagesAnswered`, `ItemsGoRound`, `GateReopens`, `SupersededRetired`): TLAPS does
  not reach fairness and `ENABLED`.
* `OperationalResponse` but for what `AnswerCorrect` says of incidents.

`OneHolder`, `OneVerification`, `BreakerPauses` and `SettledJobsStay` (which `JobPromiseKept` implies), and the type invariant of the review queue, are
proved for all instances and are in no configuration.

## 6. Where documents and code differ, and what the models left to tell

With a run that shows it:

| Document | Code | Run |
|---|---|---|
| architecture, line 288: "A new Mission Hub process or fresh model invocation needs only the database" | a daemon that stops between `create_job` and the link of a training stage asks for a second certificate when it returns, is refused, and blocks the branch (`cortex_workflow.py` 301, S:4789) | `doc_daemon_restart` |
| S:2151: "an active Cortex workflow already owns this campaign branch" | `retry_failed_cortex_stage` activates a replaced workflow beside its replacement (S:2850); two raced calls of `create_cortex_workflow` do the same (S:2137, S:2186) | `doc_one_owner` |
| WL:169: "every currently implied escalation before testing completion" | the cascades are synced before the queues are read (WL:544), and the last first review may raise its alarm in between | `doc_escalation` |

Found while reading and modelling, without a run of their own.

**Ledger and pipeline**

* architecture, line 127 says `model.chat` is the only job dispatched during a
  pause; S:3165 also lets on-call responses and image review probes through.
  `PauseStopsDispatch` states what the code does.
* runbook, line 254 says a start takes effect only after the daemon acknowledges it;
  `lease_next` reads the desired state (S:3083).
* `apply_pipeline_state` acknowledges a pause when nothing runs (S:899),
  but a start, or one of the exempt jobs, may have begun a run between the
  request and the acknowledgement; `applied = "paused"` does not mean quiet from
  then on.
* `lease_envelope` catches only `ProtocolError`: any other error while an envelope is
  prepared leaves the leased job to its expiry (`service.py` 65).

**Failure capture and repair**

* architecture, line 65: a terminal campaign job's failure creates a campaign block; none
  is created when the job fails for good while its configured retry is under
  verification (R:212).
* runbook, line 168: `blocked` "prevents an authorized repair"; a planned attempt of
  an incident blocked in the meantime is executed (R:1388).
* S:3530: "This cannot retry under the deployment that failed"; the deployment is compared
  when the job is queued (S:3570), not when it is leased.
* architecture, line 287: a new process needs only the database; an attempt left in
  `applying` is never taken up (R:1388).
* architecture, line 75 says a second incident pauses the pipeline; when
  the failed job has a configured retry it does not (R:264; the comment at R:261
  gives the reason: the retry needs the scheduler). `BreakerPauses` states what the code does.
* architecture, line 71 says an exhausted unit surfaces to the operator; a job
  whose attempts are spent by expired leases is failed by `lease_next` without
  an incident of its own (S:3244).
* architecture, line 293 says responder attempts open no incident; an expired
  lease of a responder does (S:3652), unlike a failed run (S:3483).
* R:1056 demands evidence of repair before a terminal job moves; for an incident
  whose latest attempt is a configured retry the evidence of that is enough (R:1273).
* S:3532 says a repaired retry is bounded by the job's attempt ceiling; each retry raises the
  ceiling by one (S:3580).
* After `retry_failed_cortex_stage` (S:2849) the incident of the failure stays `classified` for
  ever, whatever becomes of the stage, and the breaker counts it as unresolved.
* runbook, line 180 says a classified incident is mapped to `begin_repair`; the
  first one with repair budget is silent (S:3721), and nothing else starts
  its repair.

**On-call responses**

* runbook, line 191: "A thread update is emitted when the action succeeds". A daemon that
  dies after `retry_failed_job_after_repair` or `begin_repair` and before the row is updated
  finds the action refused when it returns (the work has left the state the action asks for), at
  every later try: the message stays `running` and is never answered, and the pipeline may
  stay paused.
* A refused `begin_repair` is tried again every minute and pauses the pipeline each
  time (O:400), so it undoes an operator's start.
* A crash between posting the answer and updating the row executes the action again and posts twice.
* A crash between `create_job` and its link, followed by a wait for a boundary, counts a check,
  which changes the idempotency key (O:325): two response jobs of one message, and what
  the first asks for is never acted upon.
* `wait_started_at` is never reset: while the responder keeps failing, each pending minute
  holds back all other work of the hub machine (S:3157), where architecture, line 293 says
  "without pausing unrelated work".
* A retry requeues a job and marks its attempt in two transactions; an attempt that was not
  marked may be used for a second retry behind another deployment.
* A crash between the rows of a chat message and its job leaves the invocation queued.

**Retention and artifacts**

* A lane that passed the gate, or a dispatch by hand, starts a run while retention
  deletes (`daemon.py` 213, `cli.py` 567); `CheckpointsKept` excepts that (`early`).
* Under the evaluation policy `none` a request that waits for the evaluation
  after a training is never ready (S:819), and the gate stays closed; the same holds when the
  workflow fails or is blocked first.
* A deletion whose reply is lost leaves a failed row that `INSERT OR IGNORE`
  keeps, and the gate closed; a row left `authorized` refuses a later protection
  of that artifact.
* Bytes that are produced again after their artifact was deleted get a location under
  a row that stays `deleted` (`INSERT OR IGNORE`): no job resolves them and retention does not
  see them.
* A second cleaner's inventory that is older than a deletion registers the location again;
  that deletion then fails first in every later clean-up, which stops at the first
  failure.
* A plan applied again by the CLI after a failed deletion deletes an artifact
  protected in between, and the deletion is refused only when it is recorded.

**Cortex and visual workflows**

* `reopen_cortex_workflow_after_retention_repair` expects a situation the other operations
  no longer produce.
* A context mismatch refuses a reconstruction whose earlier sessions are all evaluated.
* A crash between the closing of a rejected plan without a notice and its
  successor (`visual_workflow.py` 645) leaves a failed workflow that is neither retried
  nor surfaced.
* Two coordinators, or a reopening at the same time, can give a plan two active workflows
  and spend its budget twice.
* A stage read as failed whose job is being repaired closes its workflow as failed.

**Campaign 35**

* "M5 replays the exact M3 bytes and order" (`docs/campaign35_multimodal_foundation_mission.md`):
  m3 may be commissioned again with other material after m5 was authorised
  (`meta/scripts/commission_campaign35_m3.py` 282).
* The decision may cite the evaluation of the first merge after the second was bound.
* A crash between binding the merge and inheriting its knowledge is not made up; the
  certificates of m5 are then refused.
* An incremental visual workflow has no job `encode`, which the coordinator reads: the
  campaign is blocked by the error. A block of the coordinator has no incident
  that would lift it.
* Two active campaigns of this kind raise an error that ends the daemon.
* `close_campaign` cannot close it, because the images branch is never evaluated.
* Knowledge inherited by a merge does not follow what is recorded for a parent later; a repaired
  retry does not ask whether its campaign is active; the views of the knowledge in files
  refuse every append after a torn line.

**Remote runs and releases**

* The vision API takes the GPU lock without the preflight and its inference has no
  parent-death signal, so it may share the GPU with a run (`OneGpuUser` does not
  hold; `gpu_lock.py` 42–44 says lock and preflight cover orphaned processes).
* An interrupted SSH session becomes `job_spec_invalid`, a deterministic failure
  (`service.py` 288, `transport.py` 85), while `tests/test_mission_hub_fault_injection.py` 30
  declares such losses transient. A child's own timeout becomes
  `unexpected_internal_error`, though the hub's deadline is `transport_unavailable`.
* An error while the evidence of a remote failure is registered leaves the run live
  (`service.py` 250, against "always close" at 210).
* runbook, line 104: "Dirty source can be registered only as a candidate. It cannot be
  activated"; a configuration rollback activates a candidate, without looking at its source,
  when its snapshot never had an active deployment.
* A rollback does not move the trainbox's release link: every envelope is refused until an
  operator does. A crash between the activation there and the one in the hub does the same.
* A release directory is keyed by its source alone: the same source under another configuration
  cannot be installed.
* The archive reads the tree again after the manifest hashed it; `verify_release`
  catches a difference at the installation.

**Settings**

* architecture, line 121: "Save is authoritative"; `apply_pending_settings` reads and
  activates in two transactions, so an older pending draft can replace a newer save. The same line
  promises activation before another step is leased; machine lanes lease without looking at it.
* Limits other than the token limits are not repaired by a rebase: settings that
  no longer fit fail in `active_settings`, and with it the tick of the daemon.
* The API process keeps the configuration it was started with; a form loaded before an
  activation saves old defaults as choices of the operator.
* A restart of a step restarts the first live run and sets the pipeline running over a pause.

**Image work**

* Word loop: it need not end (`LoopEnds` of `WordLoop` fails under its fair specification):
  a second-review worker that exits between its last sync and its look at the sources
  leaves an alarm pending, and workers are spawned again only while first reviews are open (WL:580).
* A crash between the quarantine of a file and its row makes every later
  finalisation fail ("asset bytes are missing"), although `finalize_review.py` keeps the two
  "atomically adjacent". An item closed as unreviewable in the usability review blocks the
  loop; one closed in the watermark review is registered as usable.
* Generated images: an ingest cut between its commit and its summary fails for ever on
  "selection already exists"; a failed shard is not started again; the count of finished images
  counts rows, so an image made twice can end the generation early (the ingest
  then refuses the duplicate); the planner generates for a route the ingest does not accept
  (`campaign35_scene_bundle_plan.py` 196, `campaign35_flux_ingest.py` 58). The shards do
  not take the GPU lock.
* Lesson acquisition: folding the registry's round after an external one does not
  compare images (`acquisition_reconciliation.py`); the model follows the documented
  order, in which it comes first. A pass that accepts a protected image can never be
  folded in, and its other accepts are lost. A reassessment begun before a round
  writes back needs that the round settled. A selection that is downloaded again resets the status
  of a reviewed image (`cli.py` 615), and `finalize_review` does not restore it. Only
  COCO's search leaves out the pictures of another dataset, so one picture may be protected
  under two names.

## 7. Not modelled

* The scheduler (one firing for a slot, by a key and an idempotency key), chat and
  threads, the material workflow, the legacy visual graph with its migration and batch
  recovery, path protections and disk measurements,
  the commissioning request, readiness reports, environment attestation and the local release
  root.
* The ledger meets other parts as choices: a job may belong to an active workflow, a
  remote execution ends in a result, a code or a loss, the configuration is one snapshot. No
  module has the queue and a second snapshot together. The restart of a step with new settings
  (`lab.py` 566–605: a live run cancelled, its job queued with one restart more) is in neither
  ledger module.
* Evidence files, the failure log, the migration, wiki and briefs: hashing and files.
* HTTP API, CLI, front end: entry points to operations that are modelled.
* What handlers, models, training code, searches, inspections and exports compute: numerical
  or batch work, a choice of its outcomes here.

## 8. Plan

1. **Proofs.** The safety of `OperationalResponse`: its messages are checked for liveness only.
2. **On-call composed.** `OperationalResponse` with `MissionRecovery` in place of `Trigger` and
   `reply`, on instances small enough for both.
3. **StageWorkflow.** What the Cortex, visual and Campaign 35 workflows promise alike (a stage is
   created once and settles once, a workflow closes when all are settled), as an
   abstract specification of the three modules.
