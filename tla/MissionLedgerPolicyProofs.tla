---------------------- MODULE MissionLedgerPolicyProofs ----------------------
(***************************************************************************)
(* What the ledger's rules of admission and dispatch achieve, for any      *)
(* number of jobs, machines, lanes and providers: training plans follow    *)
(* their jobs, a pause stops dispatch, capacity holds, and the ledger      *)
(* keeps the promise of JobPromise.  The arguments rest on the run log of  *)
(* MissionLedgerProofs.                                                    *)
(***************************************************************************)
EXTENDS MissionLedgerProofs, MissionLedgerRefinement, FiniteSetTheorems

-----------------------------------------------------------------------------
(* Plans.                                                                  *)

PlanOf(j) ==
  /\ plan[j] = "completed" => job[j].status = "succeeded"
  /\ plan[j] = "cancelled" => job[j].status = "cancelled"
  /\ Definition[j].kind = "training" /\ job[j].status # "absent" =>
       plan[j] = CASE job[j].status = "succeeded" -> "completed"
                   [] job[j].status = "cancelled" -> "cancelled"
                   [] OTHER                       -> "admitted"

(* Where a plan has nothing to follow: the plan stays, and the job's       *)
(* status stays or moves between statuses that leave it admitted.          *)
Unsettled == JobStatuses \ {"absent", "succeeded", "cancelled"}
PlanUntouched(j) ==
  /\ plan'[j] = plan[j]
  /\ \/ job'[j].status = job[j].status
     \/ job[j].status \in Unsettled /\ job'[j].status \in Unsettled

LEMMA PlanUntouchedFollows ==
  ASSUME NEW j \in Jobs, PlanOf(j), PlanUntouched(j) PROVE PlanOf(j)'
BY DEF PlanOf, PlanUntouched, Unsettled

(* The job is admitted, succeeds, or is cancelled, and its plan with it.   *)
LEMMA PlanSettles ==
  ASSUME TypeOK, NEW j \in Jobs, PlanOf(j), NEW s \in {"succeeded", "cancelled"},
         job[j].status \in Unsettled, job'[j].status = s,
         SettlePlan(j, IF s = "succeeded" THEN "completed" ELSE "cancelled"),
         s = "succeeded" => Admitted(j)
  PROVE  PlanOf(j)'
<1>1. plan'[j] = IF plan[j] = "admitted"
                   THEN IF s = "succeeded" THEN "completed" ELSE "cancelled"
                   ELSE plan[j]
  BY DEF SettlePlan, TypeOK
<1>2. plan[j] \notin {"completed", "cancelled"}
  BY DEF PlanOf, Unsettled
<1>3. Definition[j].kind = "training" => plan[j] = "admitted"
  BY DEF PlanOf, Unsettled
<1> QED
  BY <1>1, <1>2, <1>3 DEF PlanOf

LEMMA JobStepPlan ==
  ASSUME TypeOK, NEW i \in Jobs, NEW j \in Jobs, PlanOf(j),
         CreateJob(i) \/ ApproveJob(i) \/ CancelJob(i) \/ QueueAges(i)
  PROVE  PlanOf(j)'
<1>1. job \in [Jobs -> JobRecord] /\ job[j] \in JobRecord
      /\ plan \in [Jobs -> {"none", "admitted", "completed", "cancelled"}]
  BY DEF TypeOK
<1>2. CASE CreateJob(i)
  <2>1. CASE i = j
    <3>1. job'[j].status \in {"awaiting_approval", "queued"}
      <4>1. PICK status \in {"awaiting_approval", "queued"}, queue \in {"ready", "backoff"} :
              job' = [job EXCEPT ![j].status = status, ![j].queue = queue]
        BY <1>2, <2>1 DEF CreateJob
      <4> QED
        BY <1>1, <4>1 DEF JobRecord
    <3>2. plan'[j] = IF Definition[j].kind = "training" THEN "admitted" ELSE plan[j]
      BY <1>1, <1>2, <2>1 DEF CreateJob
    <3>3. job[j].status = "absent"
      BY <1>2, <2>1 DEF CreateJob
    <3> QED
      BY <3>1, <3>2, <3>3 DEF PlanOf
  <2>2. CASE i # j
    BY <1>1, <1>2, <2>2, PlanUntouchedFollows DEF CreateJob, PlanUntouched
  <2> QED
    BY <2>1, <2>2
<1>3. CASE ApproveJob(i) \/ QueueAges(i)
  <2>1. PlanUntouched(j)
    BY <1>1, <1>3 DEF ApproveJob, QueueAges, PlanUntouched, JobRecord, Unsettled, JobStatuses
  <2> QED
    BY <2>1, PlanUntouchedFollows
<1>4. CASE CancelJob(i)
  <2>1. CASE i = j
    <3>1. job[j].status \in Unsettled /\ job'[j].status = "cancelled" /\ SettlePlan(j, "cancelled")
      BY <1>1, <1>4, <2>1 DEF CancelJob, Unsettled, JobRecord, TerminalJob
    <3> QED
      BY <3>1, PlanSettles
  <2>2. CASE i # j
    BY <1>1, <1>4, <2>2, PlanUntouchedFollows DEF CancelJob, SettlePlan, PlanUntouched
  <2> QED
    BY <2>1, <2>2
<1> QED
  BY <1>2, <1>3, <1>4

(* The lease scan blocks, fails or leases jobs that were queued.           *)
LEMMA LeasePlan ==
  ASSUME TypeOK, NEW l \in Lanes, LeaseNext(l), NEW j \in Jobs, PlanOf(j)
  PROVE  PlanOf(j)'
<1>1. job \in [Jobs -> JobRecord] /\ job[j] \in JobRecord /\ plan' = plan
  BY LeaseEffect DEF TypeOK
<1>2. ASSUME NEW S \in SUBSET {i \in Jobs : job[i].status = "queued"}
      PROVE  /\ BlockJobs(S) \in [Jobs -> JobRecord]
             /\ \/ BlockJobs(S)[j] = job[j]
                \/ job[j].status = "queued" /\ BlockJobs(S)[j].status = "blocked"
  BY <1>1 DEF BlockJobs, JobRecord, JobStatuses
<1>3. ASSUME NEW S \in SUBSET {i \in Jobs : job[i].status = "queued"},
             NEW i \in {i \in Jobs : job[i].status = "queued"}, Grant(l, i, BlockJobs(S))
      PROVE  PlanUntouched(j)
  <2>1. i = j => job'[j].status \in {"failed", "leased"}
    BY <1>2, <1>3 DEF Grant, FailExhausted, JobRecord
  <2>2. i # j => job'[j] = BlockJobs(S)[j]
    BY <1>2, <1>3 DEF Grant, FailExhausted
  <2> QED
    BY <1>1, <1>2, <2>1, <2>2 DEF PlanUntouched, Unsettled, JobStatuses
<1>4. PlanUntouched(j)
  BY <1>1, <1>2, <1>3, LeaseEffect DEF PlanUntouched, Unsettled, JobStatuses
<1> QED
  BY <1>4, PlanUntouchedFollows

LEMMA HolderPlan ==
  ASSUME TypeOK, RunLog, NEW l \in Lanes, NEW j \in Jobs, PlanOf(j),
         \/ StartRun(l) \/ FinishSucceeded(l)
         \/ \E code \in Codes \cup {"job_spec_invalid"} : FinishFailed(l, code)
  PROVE  PlanOf(j)'
<1> DEFINE r == lane[l].run
<1>1. /\ job \in [Jobs -> JobRecord] /\ job[j] \in JobRecord
      /\ plan \in [Jobs -> {"none", "admitted", "completed", "cancelled"}]
  BY DEF TypeOK
<1>2. r \in RunIds /\ run[r].status \in Live
  BY DEF TypeOK, LaneRecord, StartRun, FinishSucceeded, FinishFailed, HeldLive, Holds, Live
<1>3. JobOf(r) \in Jobs /\ job[JobOf(r)].status \in Unsettled
  BY <1>2, RunKey, LiveIsLast DEF RunLog, Live, Unsettled, JobStatuses
<1>4. CASE StartRun(l)
  <2>1. PlanUntouched(j)
    BY <1>1, <1>3, <1>4 DEF StartRun, PlanUntouched, Unsettled, JobRecord, JobStatuses
  <2> QED
    BY <2>1, PlanUntouchedFollows
<1>5. CASE FinishSucceeded(l)
  <2>1. CASE JobOf(r) = j
    <3>1. job'[j].status = "succeeded" /\ SettlePlan(j, "completed") /\ Admitted(j)
      BY <1>1, <1>5, <2>1 DEF FinishSucceeded, JobRecord
    <3> QED
      BY <1>3, <2>1, <3>1, PlanSettles
  <2>2. CASE JobOf(r) # j
    BY <1>1, <1>3, <1>5, <2>2, PlanUntouchedFollows
    DEF FinishSucceeded, SettlePlan, PlanUntouched
  <2> QED
    BY <2>1, <2>2
<1>6. ASSUME NEW code \in Codes \cup {"job_spec_invalid"}, FinishFailed(l, code)
      PROVE  PlanOf(j)'
  <2>1. plan' = plan
    BY <1>6 DEF FinishFailed
  <2>2. \E s \in {"queued", "failed"} : job'[JobOf(r)].status = s
    BY <1>1, <1>3, <1>6 DEF FinishFailed, JobRecord
  <2>3. JobOf(r) # j => job'[j] = job[j]
    BY <1>1, <1>3, <1>6 DEF FinishFailed
  <2>4. PlanUntouched(j)
    BY <1>3, <2>1, <2>2, <2>3 DEF PlanUntouched, Unsettled, JobStatuses
  <2> QED
    BY <2>4, PlanUntouchedFollows
<1> QED
  BY <1>4, <1>5, <1>6

LEMMA PlanStep == TypeOK /\ RunLog /\ PlanFollowsJob /\ [Next]_vars => PlanFollowsJob'
<1> SUFFICES ASSUME TypeOK, RunLog, PlanFollowsJob, [Next]_vars, NEW j \in Jobs
             PROVE  PlanOf(j)'
  BY DEF PlanFollowsJob, PlanOf
<1>1. PlanOf(j) /\ job \in [Jobs -> JobRecord]
  BY DEF PlanFollowsJob, PlanOf, TypeOK
<1>2. CASE UNCHANGED <<job, plan>>
  BY <1>1, <1>2, PlanUntouchedFollows DEF PlanUntouched
<1>3. CASE JobStep
  BY <1>1, <1>3, JobStepPlan DEF JobStep
<1>4. CASE LaneStep
  <2>1. ASSUME NEW l \in Lanes, Heartbeat(l) \/ ResultRefused(l) \/ LaneLost(l) PROVE PlanOf(j)'
    BY <1>2, <2>1 DEF Heartbeat, ResultRefused, LaneLost
  <2> QED
    BY <1>1, <1>4, <2>1, LeasePlan, HolderPlan DEF LaneStep
<1>5. CASE HubStep
  <2>1. CASE ExpireLeases
    <3>1. PlanUntouched(j)
      BY <1>1, <2>1 DEF ExpireLeases, PlanUntouched, Unsettled, Live, JobStatuses, JobRecord
    <3> QED
      BY <1>1, <3>1, PlanUntouchedFollows
  <2> QED
    BY <1>2, <1>5, <2>1
    DEF HubStep, ApplyPipelineState, LeaseLapses, RequestPipelineState, ActivateDeployment
<1>6. CASE ReconcileStep
  BY <1>2, <1>6 DEF ReconcileStep, Reconcile, ReconcileCancelled, ReconcileRecovered, jobVars
<1> QED
  BY <1>2, <1>3, <1>4, <1>5, <1>6 DEF Next, vars

(* A training plan is admitted with its job and settles in the transaction *)
(* that settles the job, and in no other.                                  *)
THEOREM PlanCorrect == Spec => []PlanFollowsJob
<1>1. Init => PlanFollowsJob
  BY DEF Init, PlanFollowsJob
<1> QED
  BY <1>1, PlanStep, TypeCorrect, RunLogCorrect, PTL DEF Spec

-----------------------------------------------------------------------------
(* Dispatch: the pause and the capacities.                                 *)

(* A run begins only where lease_next checked the slot, the switch and the *)
(* providers, and only one run at a time.                                  *)
Begins(l, r) ==
  /\ run[r].status = "none"
  /\ pipeline.desired = "running" \/ Definition[JobOf(r)].kind \in PauseExempt
  /\ \A p \in Definition[JobOf(r)].providers : HasRoom(p)
  /\ Cardinality(LiveOn(LaneMachine[l])) < MaxConcurrent[LaneMachine[l]]
  /\ run'[r].machine = LaneMachine[l] /\ \A q \in RunIds \ {r} : run'[q] = run[q]

LEMMA DispatchBegins ==
  ASSUME TypeOK, RunLog, NEW l \in Lanes, LeaseNext(l)
  PROVE  run' = run \/ \E r \in RunIds : Begins(l, r)
<1> DEFINE m == LaneMachine[l]
<1>1. Cardinality(LiveOn(m)) < MaxConcurrent[m]
  BY DEF LeaseNext
<1>2. PICK onCall :
        \/ run' = run
        \/ \E j \in Offered(m, onCall) : \E swept : Grant(l, j, swept)
  BY DEF LeaseNext
<1>3. ASSUME NEW j \in Offered(m, onCall), NEW swept, Grant(l, j, swept), run' # run
      PROVE  \E r \in RunIds : Begins(l, r)
  <2> DEFINE n == NextAttempt(j)
             r == <<j, n>>
  <2>1. /\ j \in Jobs /\ JobOf(r) = j
        /\ pipeline.desired = "running" \/ Definition[j].kind \in PauseExempt
        /\ \A p \in Definition[j].providers : HasRoom(p)
    BY DEF Offered, JobOf
  <2>2. ~(n > AllowedAttempts(j))
    BY <1>3 DEF Grant
  <2>3. n \in 1 .. MaxRuns /\ n > job[j].attempts
    BY <2>1, <2>2, LedgerAssumption
    DEF NextAttempt, AllowedAttempts, TypeOK, JobRecord, JobDefinitions
  <2>4. r \in RunIds /\ run[r].status = "none"
    BY <2>1, <2>3 DEF RunIds, RunLog, JobLog
  <2>5. run' = [run EXCEPT ![r] =
                  [status |-> "leased", machine |-> m, deployment |-> deployed[m],
                   lease |-> "fresh", code |-> "none"]]
    BY <1>3, <2>2 DEF Grant
  <2>6. run \in [RunIds -> RunRecord]
    BY DEF TypeOK
  <2>7. run'[r].machine = m /\ \A q \in RunIds \ {r} : run'[q] = run[q]
    BY <2>4, <2>5, <2>6
  <2> QED
    BY <1>1, <2>1, <2>4, <2>7 DEF Begins
<1> QED
  BY <1>2, <1>3

(* No other transaction makes a run live.                                  *)
LEMMA OnlyDispatchBegins ==
  ASSUME TypeOK, RunLog, [Next]_vars, ~\E l \in Lanes : LeaseNext(l),
         NEW r \in RunIds, run'[r].status \in Live
  PROVE  run[r].status \in Live
<1>1. run \in [RunIds -> RunRecord] /\ run[r] \in RunRecord
  BY DEF TypeOK
<1>2. CASE UNCHANGED run
  BY <1>2
<1>3. CASE JobStep
  <2>1. ASSUME NEW j \in Jobs, CancelJob(j) PROVE run[r].status \in Live
    <3>1. run'[r] = IF r \in LiveOf(j) THEN [run[r] EXCEPT !.status = "cancelled"] ELSE run[r]
      BY <2>1 DEF CancelJob
    <3> QED
      BY <1>1, <3>1 DEF RunRecord, Live, LiveOf, LiveRuns
  <2> QED
    BY <1>2, <1>3, <2>1 DEF JobStep, CreateJob, ApproveJob, QueueAges
<1>4. CASE LaneStep
  <2> PICK l \in Lanes :
         \/ StartRun(l) \/ Heartbeat(l) \/ FinishSucceeded(l)
         \/ \E code \in Codes \cup {"job_spec_invalid"} : FinishFailed(l, code)
         \/ ResultRefused(l) \/ LaneLost(l)
    BY <1>4 DEF LaneStep
  <2>1. CASE run[lane[l].run].status \in Live
    <3>1. r # lane[l].run => run'[r] = run[r]
      BY <1>1
      DEF StartRun, Heartbeat, FinishSucceeded, FinishFailed, ResultRefused, LaneLost
    <3> QED
      BY <2>1, <3>1
  <2>2. CASE ResultRefused(l) \/ LaneLost(l)
    BY <1>2, <2>2 DEF ResultRefused, LaneLost
  <2> QED
    BY <2>1, <2>2 DEF StartRun, Heartbeat, FinishSucceeded, FinishFailed, HeldLive, Live
<1>5. CASE HubStep
  <2>1. CASE ExpireLeases
    <3>1. run'[r] = IF r \in LapsedRuns THEN [run[r] EXCEPT !.status = "expired"] ELSE run[r]
      BY <2>1 DEF ExpireLeases
    <3> QED
      BY <1>1, <3>1 DEF LapsedRuns, LiveRuns
  <2>2. ASSUME NEW q \in RunIds, LeaseLapses(q) PROVE run[r].status \in Live
    BY <1>1, <2>2 DEF LeaseLapses, RunRecord
  <2> QED
    BY <1>2, <1>5, <2>1, <2>2
    DEF HubStep, ApplyPipelineState, RequestPipelineState, ActivateDeployment
<1>6. CASE ReconcileStep
  BY <1>2, <1>6 DEF ReconcileStep, Reconcile, ReconcileCancelled, ReconcileRecovered, jobVars
<1> QED
  BY <1>2, <1>3, <1>4, <1>5, <1>6 DEF Next, vars

LEMMA PausedBegins ==
  ASSUME TypeOK, RunLog, [Next]_vars, pipeline.desired = "paused",
         NEW r \in RunIds, run[r].status = "none", run'[r].status = "leased"
  PROVE  Definition[JobOf(r)].kind \in {"chat", "respond", "probe"}
<1>1. run[r].status \notin Live /\ run'[r].status \in Live /\ run'[r] # run[r]
  BY DEF Live
<1>2. PICK l \in Lanes : LeaseNext(l)
  BY <1>1, OnlyDispatchBegins
<1>3. Begins(l, r)
  BY <1>1, <1>2, DispatchBegins DEF Begins
<1> QED
  BY <1>3 DEF Begins, PauseExempt

(* While a pause is requested only chat, on-call responses and probes      *)
(* begin, whoever leases.                                                  *)
THEOREM PauseCorrect == Spec => PauseStopsDispatch
<1>1. TypeOK /\ RunLog /\ [Next]_vars
        => [pipeline.desired = "paused" =>
              \A r \in RunIds : run[r].status = "none" /\ run'[r].status = "leased" =>
                Definition[JobOf(r)].kind \in {"chat", "respond", "probe"}]_vars
  BY PausedBegins
<1> QED
  BY <1>1, TypeCorrect, RunLogCorrect, PTL DEF Spec, PauseStopsDispatch

(* Live runs are finitely many, whatever the set of jobs is.               *)
Bounded(S, n) == IsFiniteSet(S) /\ Cardinality(S) <= n

Capacities ==
  /\ \A m \in Machines : Bounded(LiveOn(m), MaxConcurrent[m])
  /\ \A p \in Providers : Bounded(LiveWith(p), ProviderConcurrency[p])

LEMMA BoundedShrinks ==
  ASSUME NEW S, NEW T, NEW n \in Nat, Bounded(S, n), T \subseteq S PROVE Bounded(T, n)
<1>1. IsFiniteSet(T) /\ Cardinality(T) <= Cardinality(S)
  BY FS_Subset DEF Bounded
<1>2. Cardinality(S) \in Nat /\ Cardinality(T) \in Nat
  BY <1>1, FS_CardinalityType DEF Bounded
<1> QED
  BY <1>1, <1>2 DEF Bounded

LEMMA BoundedGrows ==
  ASSUME NEW S, NEW x, NEW T, NEW n \in Nat, Bounded(S, n), Cardinality(S) < n,
         T \subseteq S \cup {x}
  PROVE  Bounded(T, n)
<1>1. IsFiniteSet(S \cup {x}) /\ Cardinality(S \cup {x}) <= Cardinality(S) + 1
  <2>1. Cardinality(S) \in Nat
    BY FS_CardinalityType DEF Bounded
  <2> QED
    BY <2>1, FS_AddElement DEF Bounded
<1>2. Cardinality(S) \in Nat /\ Cardinality(S \cup {x}) \in Nat
  BY <1>1, FS_CardinalityType DEF Bounded
<1>3. Bounded(S \cup {x}, n)
  BY <1>1, <1>2 DEF Bounded
<1> QED
  BY <1>3, BoundedShrinks

LEMMA CapacityStep == TypeOK /\ RunLog /\ Capacities /\ [Next]_vars => Capacities'
<1> SUFFICES ASSUME TypeOK, RunLog, Capacities, [Next]_vars PROVE Capacities'
  OBVIOUS
<1>1. \A r \in RunIds : run[r].status \in Live => run'[r].machine = run[r].machine
  BY RowsStay DEF Live
<1>2. CASE \A r \in RunIds : run'[r].status \in Live => run[r].status \in Live
  <2>1. ASSUME NEW m \in Machines PROVE Bounded(LiveOn(m), MaxConcurrent[m])'
    <3>1. LiveOn(m)' \subseteq LiveOn(m)
      BY <1>1, <1>2 DEF LiveOn, LiveRuns
    <3> QED
      BY <3>1, BoundedShrinks, LedgerAssumption DEF Capacities, Bounded
  <2>2. ASSUME NEW p \in Providers PROVE Bounded(LiveWith(p), ProviderConcurrency[p])'
    <3>1. LiveWith(p)' \subseteq LiveWith(p)
      BY <1>2 DEF LiveWith, LiveRuns
    <3> QED
      BY <3>1, BoundedShrinks, LedgerAssumption DEF Capacities, Bounded
  <2> QED
    BY <2>1, <2>2 DEF Capacities
<1>3. ASSUME NEW l \in Lanes, NEW r \in RunIds, Begins(l, r) PROVE Capacities'
  <2>1. \A q \in RunIds \ {r} : run'[q] = run[q]
    BY <1>3 DEF Begins
  <2>2. ASSUME NEW m \in Machines PROVE Bounded(LiveOn(m), MaxConcurrent[m])'
    <3>1. CASE m = LaneMachine[l]
      <4>1. LiveOn(m)' \subseteq LiveOn(m) \cup {r}
        BY <2>1 DEF LiveOn, LiveRuns
      <4> QED
        BY <1>3, <3>1, <4>1, BoundedGrows, LedgerAssumption DEF Capacities, Begins, Bounded
    <3>2. CASE m # LaneMachine[l]
      <4>1. LiveOn(m)' \subseteq LiveOn(m)
        BY <1>3, <2>1, <3>2 DEF LiveOn, LiveRuns, Begins
      <4> QED
        BY <4>1, BoundedShrinks, LedgerAssumption DEF Capacities, Bounded
    <3> QED
      BY <3>1, <3>2
  <2>3. ASSUME NEW p \in Providers PROVE Bounded(LiveWith(p), ProviderConcurrency[p])'
    <3>1. CASE p \in Definition[JobOf(r)].providers
      <4>1. LiveWith(p)' \subseteq LiveWith(p) \cup {r}
        BY <2>1 DEF LiveWith, LiveRuns
      <4>2. Cardinality(LiveWith(p)) < ProviderConcurrency[p]
        BY <1>3, <3>1 DEF Begins, HasRoom
      <4> QED
        BY <4>1, <4>2, BoundedGrows, LedgerAssumption DEF Capacities, Bounded
    <3>2. CASE p \notin Definition[JobOf(r)].providers
      <4>1. LiveWith(p)' \subseteq LiveWith(p)
        BY <2>1, <3>2 DEF LiveWith, LiveRuns
      <4> QED
        BY <4>1, BoundedShrinks, LedgerAssumption DEF Capacities, Bounded
    <3> QED
      BY <3>1, <3>2
  <2> QED
    BY <2>2, <2>3 DEF Capacities
<1>4. CASE \E l \in Lanes : LeaseNext(l)
  BY <1>2, <1>3, <1>4, DispatchBegins
<1> QED
  BY <1>2, <1>4, OnlyDispatchBegins

LEMMA InitCapacities == Init => Capacities
<1> SUFFICES ASSUME Init PROVE Capacities
  OBVIOUS
<1>1. LiveRuns = {}
  BY DEF Init, LiveRuns, NoRunYet, Live
<1>2. /\ \A m \in Machines : LiveOn(m) = {}
      /\ \A p \in Providers : LiveWith(p) = {}
  BY <1>1 DEF LiveOn, LiveWith
<1>3. \A n \in Nat : Bounded({}, n)
  BY FS_EmptySet DEF Bounded
<1> QED
  BY <1>2, <1>3, LedgerAssumption DEF Capacities

(* No machine and no provider is ever given more live runs than it takes,  *)
(* over all lanes and processes together.                                  *)
THEOREM CapacityCorrect == Spec => []WithinCapacity
<1>1. Capacities => WithinCapacity
  BY DEF Capacities, WithinCapacity, Bounded
<1> QED
  BY <1>1, InitCapacities, CapacityStep, TypeCorrect, RunLogCorrect, PTL DEF Spec

-----------------------------------------------------------------------------
(* Specification failures and counted restarts.                            *)

SpecRuns(j, n) == {k \in 1 .. n : run[<<j, k>>].code \in DeterministicSpecification}

(* Only a failed run has a code.  The restarts of a job cover every        *)
(* specification failure that a later run follows; while the job waits     *)
(* for its next run, they cover the last failure too.                      *)
Coded(r)      == run[r].status # "failed" => run[r].code = "none"
WaitsToRun(j) == job[j].status \in {"absent", "awaiting_approval", "queued"}
Covered(j)    ==
  /\ Cardinality(SpecRuns(j, job[j].attempts - 1)) <= job[j].restarts
  /\ WaitsToRun(j) => Cardinality(SpecRuns(j, job[j].attempts)) <= job[j].restarts
SpecAccount == (\A r \in RunIds : Coded(r)) /\ (\A j \in Jobs : Covered(j))

(* How a step changes a run: not at all, without failing it, or by a       *)
(* failure that either ends the job or is no specification failure.        *)
Outcome(r) ==
  \/ run'[r] = run[r]
  \/ /\ run[r].status # "failed" /\ run'[r].status # "failed"
     /\ run'[r].code \in {run[r].code, "none"}
  \/ /\ run'[r].status = "failed"
     /\ job'[JobOf(r)].status = "failed" \/ run'[r].code \notin DeterministicSpecification

LEMMA EveryOutcome ==
  ASSUME TypeOK, RunLog, [Next]_vars, NEW r \in RunIds PROVE Outcome(r)
<1>1. run \in [RunIds -> RunRecord] /\ run[r] \in RunRecord /\ job \in [Jobs -> JobRecord]
  BY DEF TypeOK
<1>2. CASE run'[r] = run[r]
  BY <1>2 DEF Outcome
<1>3. ASSUME NEW s \in {"running", "succeeded", "cancelled", "expired"}, run[r].status \in Live,
             run'[r] = [run[r] EXCEPT !.status = s]
      PROVE  Outcome(r)
  <2>1. run'[r].status = s /\ run'[r].code = run[r].code
    BY <1>1, <1>3 DEF RunRecord
  <2> QED
    BY <1>3, <2>1 DEF Outcome, Live
<1>4. ASSUME NEW t \in {"fresh", "lapsed"}, run[r].status \in Live,
             run'[r] = [run[r] EXCEPT !.lease = t]
      PROVE  Outcome(r)
  <2>1. run'[r].status = run[r].status /\ run'[r].code = run[r].code
    BY <1>1, <1>4 DEF RunRecord
  <2> QED
    BY <1>4, <2>1 DEF Outcome, Live
<1>5. CASE JobStep
  <2>1. ASSUME NEW j \in Jobs, CancelJob(j) PROVE Outcome(r)
    <3>1. \/ run'[r] = run[r]
          \/ run[r].status \in Live /\ run'[r] = [run[r] EXCEPT !.status = "cancelled"]
      BY <2>1 DEF CancelJob, LiveOf, LiveRuns
    <3> QED
      BY <1>2, <1>3, <3>1
  <2> QED
    BY <1>2, <1>5, <2>1 DEF JobStep, CreateJob, ApproveJob, QueueAges
<1>6. CASE LaneStep
  <2> PICK l \in Lanes :
         \/ LeaseNext(l) \/ StartRun(l) \/ Heartbeat(l) \/ FinishSucceeded(l)
         \/ \E code \in Codes \cup {"job_spec_invalid"} : FinishFailed(l, code)
         \/ ResultRefused(l) \/ LaneLost(l)
    BY <1>6 DEF LaneStep
  <2>1. CASE LeaseNext(l)
    <3>1. \/ run'[r] = run[r]
          \/ /\ run[r].status = "none"
             /\ run'[r].status = "leased" /\ run'[r].code = "none"
      BY <1>1, <2>1, GrantIsNew
    <3> QED
      BY <3>1 DEF Outcome
  <2>2. CASE r # lane[l].run /\ ~LeaseNext(l)
    <3>1. run'[r] = run[r]
      BY <1>1, <2>2 DEF StartRun, Heartbeat, FinishSucceeded, FinishFailed, ResultRefused, LaneLost
    <3> QED
      BY <1>2, <3>1
  <2>3. ASSUME r = lane[l].run, NEW code \in Codes \cup {"job_spec_invalid"}, FinishFailed(l, code)
        PROVE  Outcome(r)
    <3> DEFINE d == Definition[JobOf(r)]
               retried == RetryScheduled(code, d.policy, r[2], d.maxAttempts)
    <3>1. run' = [run EXCEPT ![r].status = "failed", ![r].code = code]
      BY <2>3 DEF FinishFailed
    <3>2. run'[r].status = "failed" /\ run'[r].code = code
      BY <1>1, <3>1 DEF RunRecord
    <3>3. code \in DeterministicSpecification => ~retried
      BY DEF RetryScheduled, RetryableCodes, DeterministicSpecification, OperationalTransient,
             CapabilityTransient, RepairableOutput
    <3>4. JobOf(r) \in Jobs
      BY RunKey
    <3>5. ~retried => job'[JobOf(r)].status = "failed"
      <4> DEFINE j == JobOf(r)
      <4>1. job' = [job EXCEPT ![j].status = IF retried THEN "queued" ELSE "failed",
                               ![j].queue = IF retried THEN "backoff" ELSE @]
        BY <2>3 DEF FinishFailed
      <4> HIDE DEF retried, j
      <4> QED
        BY <1>1, <3>4, <4>1 DEF JobRecord, j
    <3> HIDE DEF retried
    <3> QED
      BY <3>2, <3>3, <3>5 DEF Outcome
  <2>4. CASE r = lane[l].run /\ StartRun(l)
    BY <1>1, <1>3, <2>4 DEF StartRun, Live
  <2>5. CASE r = lane[l].run /\ FinishSucceeded(l)
    BY <1>1, <1>3, <2>5 DEF FinishSucceeded, HeldLive
  <2>6. CASE r = lane[l].run /\ Heartbeat(l)
    BY <1>1, <1>4, <2>6 DEF Heartbeat, HeldLive
  <2>7. CASE ResultRefused(l) \/ LaneLost(l)
    BY <1>2, <2>7 DEF ResultRefused, LaneLost
  <2> QED
    BY <2>1, <2>2, <2>3, <2>4, <2>5, <2>6, <2>7
<1>7. CASE HubStep
  <2>1. CASE ExpireLeases
    <3>1. \/ run'[r] = run[r]
          \/ run[r].status \in Live /\ run'[r] = [run[r] EXCEPT !.status = "expired"]
      BY <2>1 DEF ExpireLeases, LapsedRuns, LiveRuns
    <3> QED
      BY <1>2, <1>3, <3>1
  <2>2. ASSUME NEW q \in RunIds, LeaseLapses(q) PROVE Outcome(r)
    BY <1>1, <1>2, <1>4, <2>2 DEF LeaseLapses
  <2> QED
    BY <1>2, <1>7, <2>1, <2>2
    DEF HubStep, ApplyPipelineState, RequestPipelineState, ActivateDeployment
<1>8. CASE ReconcileStep
  BY <1>2, <1>8 DEF ReconcileStep, Reconcile, ReconcileCancelled, ReconcileRecovered, jobVars
<1> QED
  BY <1>2, <1>5, <1>6, <1>7, <1>8 DEF Next, vars

(* A job's counters: only a lease adds an attempt, and the ledger itself   *)
(* adds no restart.                                                        *)
Counts(j) ==
  /\ job'[j].restarts = job[j].restarts
  /\ \/ job'[j].attempts = job[j].attempts
     \/ /\ job[j].status = "queued" /\ job'[j].status = "leased"
        /\ job'[j].attempts = job[j].attempts + 1

LEMMA EveryCount ==
  ASSUME TypeOK, [Next]_vars, NEW j \in Jobs PROVE Counts(j)
<1>1. job \in [Jobs -> JobRecord]
  BY DEF TypeOK
<1>2. CASE job'[j] = job[j]
  BY <1>2 DEF Counts
<1>3. ASSUME NEW i, NEW s, job' = [job EXCEPT ![i].status = s] PROVE Counts(j)
  BY <1>1, <1>3 DEF Counts, JobRecord
<1>4. ASSUME NEW i, NEW s, NEW q, job' = [job EXCEPT ![i].status = s, ![i].queue = q]
      PROVE  Counts(j)
  BY <1>1, <1>4 DEF Counts, JobRecord
<1>5. CASE JobStep
  <2>1. ASSUME NEW i \in Jobs, QueueAges(i) PROVE Counts(j)
    <3> DEFINE q == IF job[i].queue = "backoff" THEN "ready" ELSE "stale"
    <3>1. job' = [job EXCEPT ![i].queue = q]
      BY <1>1, <2>1 DEF QueueAges
    <3> HIDE DEF q
    <3> QED
      BY <1>1, <3>1 DEF Counts, JobRecord
  <2>2. ASSUME NEW i \in Jobs, CreateJob(i) PROVE Counts(j)
    <3>1. PICK approved \in BOOLEAN, q \in {"ready", "backoff"} :
            job' = [job EXCEPT ![i].status = IF Definition[i].approval /\ ~approved
                                               THEN "awaiting_approval" ELSE "queued",
                               ![i].queue = q]
      BY <2>2 DEF CreateJob
    <3> QED
      BY <1>4, <3>1
  <2> QED
    BY <1>5, <1>3, <2>1, <2>2 DEF JobStep, ApproveJob, CancelJob
<1>6. CASE LaneStep
  <2> PICK l \in Lanes :
         \/ LeaseNext(l) \/ StartRun(l) \/ Heartbeat(l) \/ FinishSucceeded(l)
         \/ \E code \in Codes \cup {"job_spec_invalid"} : FinishFailed(l, code)
         \/ ResultRefused(l) \/ LaneLost(l)
    BY <1>6 DEF LaneStep
  <2>1. CASE LeaseNext(l)
    <3> DEFINE queued == {i \in Jobs : job[i].status = "queued"}
    <3>1. ASSUME NEW S \in SUBSET queued
          PROVE  /\ BlockJobs(S) \in [Jobs -> JobRecord]
                 /\ BlockJobs(S)[j].attempts = job[j].attempts
                 /\ BlockJobs(S)[j].restarts = job[j].restarts
      BY <1>1 DEF BlockJobs, JobRecord, JobStatuses
    <3>2. CASE \E S \in SUBSET queued : job' = BlockJobs(S)
      BY <3>1, <3>2 DEF Counts
    <3>3. ASSUME NEW S \in SUBSET queued, NEW i \in queued, i \notin S, Grant(l, i, BlockJobs(S))
          PROVE  Counts(j)
      <4> DEFINE swept == BlockJobs(S)
                 n     == NextAttempt(i)
      <4>1. swept \in [Jobs -> JobRecord] /\ swept[j].attempts = job[j].attempts
            /\ swept[j].restarts = job[j].restarts
        BY <3>1
      <4>2. n = job[i].attempts + 1 /\ job[i].status = "queued"
        BY <3>3 DEF NextAttempt
      <4>3. \/ job' = [swept EXCEPT ![i].status = "failed"]
            \/ job' = [swept EXCEPT ![i].status = "leased", ![i].attempts = n, ![i].queue = "ready"]
        BY <3>3 DEF Grant, FailExhausted
      <4> HIDE DEF swept, n
      <4> QED
        BY <4>1, <4>2, <4>3 DEF Counts, JobRecord
    <3>4. \/ \E S \in SUBSET queued : job' = BlockJobs(S)
          \/ \E S \in SUBSET queued, i \in queued : i \notin S /\ Grant(l, i, BlockJobs(S))
      BY <2>1, LeaseEffect
    <3> HIDE DEF queued
    <3> QED
      BY <3>2, <3>3, <3>4
  <2>2. ASSUME NEW code \in Codes \cup {"job_spec_invalid"}, FinishFailed(l, code) PROVE Counts(j)
    <3> DEFINE i == JobOf(lane[l].run)
               d == Definition[i]
               retried == RetryScheduled(code, d.policy, lane[l].run[2], d.maxAttempts)
    <3>1. job' = [job EXCEPT ![i].status = IF retried THEN "queued" ELSE "failed",
                             ![i].queue = IF retried THEN "backoff" ELSE @]
      BY <2>2 DEF FinishFailed
    <3> HIDE DEF i, retried
    <3> QED
      BY <1>1, <3>1 DEF Counts, JobRecord
  <2>3. CASE StartRun(l) \/ FinishSucceeded(l)
    BY <1>3, <2>3 DEF StartRun, FinishSucceeded
  <2> QED
    BY <1>2, <2>1, <2>2, <2>3 DEF Heartbeat, ResultRefused, LaneLost
<1>7. CASE HubStep
  <2>1. CASE ExpireLeases
    <3>1. \/ job'[j] = job[j]
          \/ job'[j] = [job[j] EXCEPT !.status = "queued", !.queue = "ready"]
      BY <2>1 DEF ExpireLeases
    <3>2. job[j] \in JobRecord
      BY <1>1
    <3> QED
      BY <3>1, <3>2 DEF Counts, JobRecord
  <2> QED
    BY <1>2, <1>7, <2>1
    DEF HubStep, ApplyPipelineState, LeaseLapses, RequestPipelineState, ActivateDeployment
<1>8. CASE ReconcileStep
  BY <1>2, <1>8 DEF ReconcileStep, Reconcile, ReconcileCancelled, ReconcileRecovered, jobVars
<1> QED
  BY <1>2, <1>5, <1>6, <1>7, <1>8 DEF Next, vars

LEMMA SpecRunsFinite ==
  ASSUME NEW j, NEW n \in Int
  PROVE  IsFiniteSet(SpecRuns(j, n)) /\ Cardinality(SpecRuns(j, n)) \in Nat
<1>1. IsFiniteSet(1 .. n)
  BY FS_Interval
<1>2. SpecRuns(j, n) \subseteq 1 .. n
  BY DEF SpecRuns
<1> QED
  BY <1>1, <1>2, FS_Subset, FS_CardinalityType

(* Counting one more run adds at most one failure.                         *)
LEMMA SpecRunsGrow ==
  ASSUME NEW j, NEW n \in Nat
  PROVE  Cardinality(SpecRuns(j, n)) <= Cardinality(SpecRuns(j, n - 1)) + 1
<1> DEFINE S == SpecRuns(j, n - 1)
           T == SpecRuns(j, n)
<1>1. IsFiniteSet(S) /\ IsFiniteSet(T) /\ Cardinality(S) \in Nat /\ Cardinality(T) \in Nat
  BY SpecRunsFinite
<1>2. T = S \/ T = S \cup {n}
  BY DEF SpecRuns
<1>3. Cardinality(S \cup {n}) <= Cardinality(S) + 1
  <2> HIDE DEF S
  <2>1. CASE n \in S
    <3>1. S \cup {n} = S
      BY <2>1
    <3> QED
      BY <1>1, <3>1
  <2>2. CASE n \notin S
    <3>1. Cardinality(S \cup {n}) = Cardinality(S) + 1
      BY <1>1, <2>2, FS_AddElement
    <3> QED
      BY <1>1, <3>1
  <2> QED
    BY <2>1, <2>2
<1> HIDE DEF S, T
<1>4. Cardinality(T) <= Cardinality(S) + 1
  BY <1>1, <1>2, <1>3
<1> QED
  BY <1>4 DEF S, T

LEMMA CoveredStep ==
  ASSUME TypeOK, RunLog, SpecAccount, [Next]_vars, NEW j \in Jobs PROVE Covered(j)'
<1> DEFINE n == job[j].attempts
<1>1. /\ JobLog(j) /\ Covered(j) /\ Counts(j) /\ n \in 0 .. MaxRuns
      /\ job[j].status \in JobStatuses /\ MaxRuns \in Nat
  BY EveryCount, LedgerAssumption DEF RunLog, SpecAccount, TypeOK, JobRecord
<1>2. ASSUME NEW k \in 1 .. MaxRuns
      PROVE  /\ <<j, k>> \in RunIds /\ JobOf(<<j, k>>) = j
             /\ run[<<j, k>>].status \notin Live \cup {"none"} =>
                  run'[<<j, k>>] = run[<<j, k>>]
             /\ Coded(<<j, k>>) /\ Outcome(<<j, k>>)
  <2>1. <<j, k>> \in RunIds /\ JobOf(<<j, k>>) = j
    BY DEF RunIds, JobOf
  <2> QED
    BY <2>1, RowsStay, EveryOutcome DEF SpecAccount
<1>3. ASSUME NEW k \in 1 .. (n - 1) PROVE run'[<<j, k>>].code = run[<<j, k>>].code
  BY <1>1, <1>2 DEF JobLog, Live
<1>4. SpecRuns(j, n - 1)' = SpecRuns(j, n - 1) \/ job'[j].attempts # n
  BY <1>3 DEF SpecRuns
<1>5. n > 0 /\ run[<<j, n>>].status \notin Live => run'[<<j, n>>].code = run[<<j, n>>].code
  BY <1>1, <1>2 DEF JobLog, Live
<1>6. n > 0 /\ run[<<j, n>>].status \in Live =>
        job[j].status \in Live /\ run[<<j, n>>].code = "none"
  BY <1>1, <1>2 DEF JobLog, Live, Coded
<1>7. job[j].status \notin Live => \A k \in 1 .. n : run'[<<j, k>>].code = run[<<j, k>>].code
  BY <1>1, <1>3, <1>5, <1>6
<1>8. CASE job'[j].attempts = n + 1 /\ job[j].status = "queued" /\ job'[j].status = "leased"
  <2>1. job'[j].attempts - 1 = n
    BY <1>1, <1>8
  <2>2. {k \in 1 .. n : run'[<<j, k>>].code \in DeterministicSpecification} = SpecRuns(j, n)
    BY <1>7, <1>8 DEF Live, SpecRuns
  <2> QED
    BY <1>1, <1>8, <2>1, <2>2 DEF Covered, Counts, WaitsToRun, SpecRuns
<1>9. CASE job'[j].attempts = n
  <2>1. {k \in 1 .. (n - 1) : run'[<<j, k>>].code \in DeterministicSpecification}
          = SpecRuns(j, n - 1)
    BY <1>3 DEF SpecRuns
  <2>2. ASSUME job'[j].status \in {"absent", "awaiting_approval", "queued"}
        PROVE  \/ {k \in 1 .. n : run'[<<j, k>>].code \in DeterministicSpecification}
                    = SpecRuns(j, n - 1)
               \/ /\ job[j].status \in {"absent", "awaiting_approval", "queued"}
                  /\ {k \in 1 .. n : run'[<<j, k>>].code \in DeterministicSpecification}
                       = SpecRuns(j, n)
    <3>1. job[j].status \notin TerminalJob
      BY <2>2, TerminalStay DEF TerminalJob
    <3>2. CASE job[j].status \notin Live
      BY <1>1, <1>7, <3>1, <3>2 DEF SpecRuns, Live, TerminalJob, JobStatuses
    <3>3. CASE job[j].status \in Live
      <4>1. n \in 1 .. MaxRuns /\ run[<<j, n>>].status \in Live
        BY <1>1, <3>3 DEF JobLog
      <4>2. run'[<<j, n>>].code \notin DeterministicSpecification
        BY <1>2, <1>6, <2>2, <4>1
        DEF Outcome, DeterministicSpecification
      <4> QED
        BY <1>1, <1>3, <4>1, <4>2 DEF SpecRuns
    <3> QED
      BY <3>2, <3>3
  <2> QED
    BY <1>1, <1>9, <2>1, <2>2 DEF Covered, Counts, WaitsToRun, SpecRuns
<1> QED
  BY <1>1, <1>8, <1>9 DEF Counts

LEMMA CodedStep ==
  ASSUME TypeOK, RunLog, SpecAccount, [Next]_vars, NEW r \in RunIds PROVE Coded(r)'
BY EveryOutcome DEF SpecAccount, Coded, Outcome

LEMMA AccountStep == TypeOK /\ RunLog /\ SpecAccount /\ [Next]_vars => SpecAccount'
BY CoveredStep, CodedStep DEF SpecAccount

LEMMA InitAccount == Init => SpecAccount
<1> SUFFICES ASSUME Init PROVE SpecAccount
  OBVIOUS
<1>1. \A r \in RunIds : Coded(r)
  BY DEF Init, Coded, NoRunYet
<1>2. ASSUME NEW j \in Jobs PROVE Covered(j)
  <2>1. job[j].attempts = 0 /\ job[j].restarts = 0
    BY DEF Init
  <2>2. SpecRuns(j, 0 - 1) = {} /\ SpecRuns(j, 0) = {}
    BY DEF SpecRuns
  <2> QED
    BY <2>1, <2>2, FS_EmptySet DEF Covered
<1> QED
  BY <1>1, <1>2 DEF SpecAccount

LEMMA AccountSuffices == SpecAccount => SpecificationFailureNotRetried
BY DEF SpecAccount, Covered, SpecRuns, SpecificationFailureNotRetried

(* A deterministic specification failure is never retried: only a counted  *)
(* restart lets a run follow it.                                           *)
THEOREM SpecificationCorrect == Spec => []SpecificationFailureNotRetried
BY InitAccount, AccountStep, AccountSuffices, TypeCorrect, RunLogCorrect, PTL DEF Spec

-----------------------------------------------------------------------------
(* The ledger keeps the promise of JobPromise.                             *)

LEMMA StateKept == \A a, b : a.status = b.status => State(a) = State(b)
BY DEF State

(* A job that is not live is held by nobody.                               *)
LEMMA NotLive == \A j : job[j].status \notin Live => Answers(j) = {}
BY DEF Answers

(* The token of the live run has one holder, which is no idle process.     *)
LEMMA OneAnswers ==
  ASSUME TypeOK, RunLog, OneHolder, NEW j \in Jobs, NEW l \in Answers(j)
  PROVE  /\ l \in Lanes /\ Holds(l) /\ Answers(j) = {l}
         /\ job[j].status \in Live /\ lane[l].run = <<j, job[j].attempts>> /\ HeldLive(l)
<1>1. /\ l \in Lanes /\ job[j].status \in Live /\ lane[l].run = <<j, job[j].attempts>>
      /\ lane[l] \in LaneRecord /\ job[j] \in JobRecord
  BY DEF Answers, TypeOK
<1>2. job[j].attempts > 0 /\ run[<<j, job[j].attempts>>].status \in Live
  BY <1>1 DEF RunLog, JobLog
<1>3. <<j, job[j].attempts>> \in RunIds
  BY <1>1, <1>2, LedgerAssumption DEF JobRecord, RunIds
<1>4. Holds(l)
  BY <1>1, <1>3, LedgerAssumption DEF LaneRecord, Holds, RunIds
<1>5. ASSUME NEW k \in Answers(j) PROVE k = l
  BY <1>1, <1>4, <1>5 DEF OneHolder, Answers
<1> QED
  BY <1>1, <1>2, <1>4, <1>5 DEF HeldLive

(* What a job's row and the tokens must do for each kind of step.          *)
Tallies(j) == job'[j].attempts = job[j].attempts /\ job'[j].restarts = job[j].restarts

LEMMA KeepsPromised ==
  ASSUME TypeOK, NEW j \in Jobs, Tallies(j), State(job'[j]) = State(job[j]),
         \/ job[j].status \notin Live
         \/ /\ job'[j].status \in Live
            /\ \A l \in Lanes : lane'[l].run = <<j, job[j].attempts>> <=> l \in Answers(j)
  PROVE  Promise!JobStep(j)
<1>1. Answers(j)' = Answers(j)
  <2>1. CASE job[j].status \notin Live
    <3>1. job[j].status # "held"
      BY DEF TypeOK, JobRecord, JobStatuses
    <3>2. job'[j].status \notin Live
      BY <2>1, <3>1 DEF State
    <3> QED
      BY <2>1, <3>2 DEF Answers
  <2>2. CASE job[j].status \in Live
    <3>1. Answers(j) \subseteq Lanes /\ Answers(j)' \subseteq Lanes
      BY DEF Answers
    <3>2. \A l \in Lanes : l \in Answers(j)' <=> l \in Answers(j)
      BY <2>2 DEF Answers, Tallies
    <3> QED
      BY <3>1, <3>2
  <2> QED
    BY <2>1, <2>2
<1> QED
  BY <1>1 DEF Promise!JobStep, Promise!Keeps, Promise!SameCounts, stateOf, begunOf, extraOf, byOf, Tallies

LEMMA Reaches ==
  ASSUME NEW j \in Jobs, Tallies(j), Answers(j)' = {}
  PROVE  Promise!Becomes(j, State(job'[j]))
BY DEF Promise!Becomes, Promise!SameCounts, stateOf, begunOf, extraOf, byOf, Tallies

LEMMA RowOf ==
  ASSUME NEW j \in Jobs
  PROVE  /\ stateOf[j] = State(job[j]) /\ begunOf[j] = job[j].attempts
         /\ extraOf[j] = job[j].restarts /\ byOf[j] = Answers(j)
BY DEF stateOf, begunOf, extraOf, byOf

LEMMA LeavesPromised ==
  ASSUME TypeOK, NEW j \in Jobs, Tallies(j), job'[j].status \notin Live,
         \/ job[j].status = "absent" /\ job'[j].status \in {"awaiting_approval", "queued"}
         \/ job[j].status = "awaiting_approval" /\ job'[j].status \in {"queued", "cancelled"}
         \/ job[j].status = "queued" /\ job'[j].status \in {"blocked", "cancelled"}
         \/ job[j].status \in Live /\ job'[j].status \in {"queued", "cancelled"}
         \/ /\ job[j].status = "queued" /\ job'[j].status = "failed"
            /\ job[j].attempts + 1 > Definition[j].maxAttempts + job[j].restarts
         \/ Answers(j) # {} /\ job'[j].status \in {"succeeded", "failed"}
  PROVE  Promise!JobStep(j)
<1>1. Promise!Becomes(j, job'[j].status)
  <2>1. Answers(j)' = {}
    BY DEF Answers
  <2> QED
    BY <2>1, Reaches DEF State
<1>2. /\ job[j].attempts \in Int /\ job[j].restarts \in Int
      /\ Definition[j].maxAttempts \in Int
  BY LedgerAssumption DEF TypeOK, JobRecord, JobDefinitions
<1>3. job[j].status \in Live => State(job[j]) = "held"
  BY DEF State
<1>4. job[j].status \notin Live => State(job[j]) = job[j].status
  BY DEF State
<1>5. "absent" \notin Live /\ "awaiting_approval" \notin Live /\ "queued" \notin Live
  BY DEF Live
<1> QED
  BY <1>1, <1>2, <1>3, <1>4, <1>5, RowOf
  DEF Promise!JobStep, Promise!Admit, Promise!Answer, Promise!Return, Promise!GiveUp, Promise!Cancel

(* A process that drops a token, or takes one, is of no concern to a job   *)
(* it does not answer for.                                                 *)
LEMMA OthersKept ==
  ASSUME TypeOK, RunLog, NEW j \in Jobs, NEW l \in Lanes, l \notin Answers(j), job'[j] = job[j],
         \A k \in Lanes \ {l} : lane'[k].run = lane[k].run,
         \A n : lane'[l].run # <<j, n>> \/ lane'[l].run = lane[l].run
  PROVE  Promise!JobStep(j)
<1>1. job[j].status \in Live => \A k \in Lanes : lane'[k].run = <<j, job[j].attempts>> <=> k \in Answers(j)
  BY DEF Answers
<1> QED
  BY <1>1, KeepsPromised DEF Tallies

(* Admission, approval, ageing and cancellation.                           *)
LEMMA JobStepPromised ==
  ASSUME TypeOK, RunLog, OneHolder, JobStep, NEW j \in Jobs PROVE Promise!JobStep(j)
<1>1. job \in [Jobs -> JobRecord]
  BY DEF TypeOK
<1>2. PICK i \in Jobs : CreateJob(i) \/ ApproveJob(i) \/ CancelJob(i) \/ QueueAges(i)
  BY DEF JobStep
<1>3. lane' = lane
  BY <1>2 DEF CreateJob, ApproveJob, CancelJob, QueueAges
<1>4. \A k \in Lanes : job[j].status \in Live =>
        (lane'[k].run = <<j, job[j].attempts>> <=> k \in Answers(j))
  BY <1>3 DEF Answers
<1>5. CASE i # j
  <2>1. job'[j] = job[j]
    BY <1>1, <1>2, <1>5 DEF CreateJob, ApproveJob, CancelJob, QueueAges
  <2> QED
    BY <1>4, <2>1, KeepsPromised DEF Tallies
<1>6. CASE i = j /\ QueueAges(j)
  <2>1. Tallies(j) /\ job'[j].status = job[j].status
    <3> DEFINE q == IF job[j].queue = "backoff" THEN "ready" ELSE "stale"
    <3>1. job' = [job EXCEPT ![j].queue = q]
      BY <1>1, <1>6 DEF QueueAges
    <3> HIDE DEF q
    <3> QED
      BY <1>1, <3>1 DEF Tallies, JobRecord
  <2>2. job[j].status \notin Live
    BY <1>6 DEF QueueAges, Live
  <2> QED
    BY <2>1, <2>2, KeepsPromised, StateKept
<1>7. CASE i = j /\ ~QueueAges(j)
  <2>1. ASSUME CreateJob(j)
        PROVE  /\ job[j].status = "absent" /\ job'[j].status \in {"awaiting_approval", "queued"}
               /\ Tallies(j)
    <3>1. PICK s \in {"awaiting_approval", "queued"}, q \in {"ready", "backoff"} :
            job' = [job EXCEPT ![j].status = s, ![j].queue = q]
      BY <2>1 DEF CreateJob
    <3> QED
      BY <1>1, <2>1, <3>1 DEF CreateJob, Tallies, JobRecord
  <2>2. ApproveJob(j) =>
          job[j].status = "awaiting_approval" /\ job'[j].status = "queued" /\ Tallies(j)
    BY <1>1 DEF ApproveJob, Tallies, JobRecord
  <2>3. CancelJob(j) => /\ job[j].status \in {"awaiting_approval", "queued"} \cup Live
                        /\ job'[j].status = "cancelled" /\ Tallies(j)
    BY <1>1 DEF CancelJob, Tallies, JobRecord, JobStatuses, TerminalJob, Live
  <2> QED
    BY <1>2, <1>7, <2>1, <2>2, <2>3, LeavesPromised DEF Live
<1> QED
  BY <1>2, <1>5, <1>6, <1>7

(* The lease scan blocks, gives up what has no attempt left, and begins.   *)
LEMMA LeasePromised ==
  ASSUME TypeOK, RunLog, OneHolder, NEW l \in Lanes, LeaseNext(l), NEW j \in Jobs
  PROVE  Promise!JobStep(j)
<1> DEFINE queued == {i \in Jobs : job[i].status = "queued"}
<1>1. job \in [Jobs -> JobRecord] /\ lane \in [Lanes -> LaneRecord] /\ lane[l].phase = "idle"
  BY LeaseEffect DEF TypeOK
<1>2. l \notin Answers(j)
  BY <1>1, OneAnswers DEF Holds
<1>3. ASSUME NEW S \in SUBSET queued
      PROVE  /\ BlockJobs(S) \in [Jobs -> JobRecord]
             /\ j \notin S => BlockJobs(S)[j] = job[j]
             /\ j \in S => /\ BlockJobs(S)[j].status = "blocked" /\ job[j].status = "queued"
                           /\ BlockJobs(S)[j].attempts = job[j].attempts
                           /\ BlockJobs(S)[j].restarts = job[j].restarts
  BY <1>1 DEF BlockJobs, JobRecord, JobStatuses
<1>4. ASSUME NEW S \in SUBSET queued, job'[j] = BlockJobs(S)[j],
             \A k \in Lanes \ {l} : lane'[k].run = lane[k].run,
             \A n : lane'[l].run # <<j, n>> \/ lane'[l].run = lane[l].run
      PROVE  Promise!JobStep(j)
  <2>1. CASE j \in S
    <3>1. Tallies(j) /\ job'[j].status = "blocked" /\ job[j].status = "queued"
      BY <1>3, <1>4, <2>1 DEF Tallies
    <3> QED
      BY <3>1, LeavesPromised DEF Live
  <2>2. CASE j \notin S
    BY <1>2, <1>3, <1>4, <2>2, OthersKept
  <2> QED
    BY <2>1, <2>2
<1>5. ASSUME NEW S \in SUBSET queued, NEW i \in queued, i \notin S, Grant(l, i, BlockJobs(S))
      PROVE  Promise!JobStep(j)
  <2> DEFINE n == job[i].attempts + 1
  <2>1. CASE n > AllowedAttempts(i)
    <3>1. job' = [BlockJobs(S) EXCEPT ![i].status = "failed"] /\ lane' = lane
      BY <1>5, <2>1 DEF Grant, NextAttempt, FailExhausted
    <3>2. CASE i # j
      <4>1. job'[j] = BlockJobs(S)[j]
        BY <1>3, <3>1, <3>2
      <4> QED
        BY <1>4, <3>1, <4>1
    <3>3. CASE i = j
      <4>1. Tallies(j) /\ job'[j].status = "failed" /\ job[j].status = "queued"
        BY <1>1, <1>3, <1>5, <3>1, <3>3 DEF Tallies, JobRecord
      <4> QED
        BY <2>1, <3>3, <4>1, LeavesPromised DEF Live, AllowedAttempts
    <3> QED
      BY <3>2, <3>3
  <2>2. CASE ~(n > AllowedAttempts(i))
    <3>1. /\ job' = [BlockJobs(S) EXCEPT ![i].status = "leased", ![i].attempts = n, ![i].queue = "ready"]
          /\ lane' = [lane EXCEPT ![l] = [phase |-> "starting", run |-> <<i, n>>]]
      BY <1>5, <2>2 DEF Grant, NextAttempt
    <3>2. lane'[l].run = <<i, n>> /\ \A k \in Lanes \ {l} : lane'[k] = lane[k]
      BY <1>1, <3>1
    <3>3. CASE i # j
      <4>1. job'[j] = BlockJobs(S)[j]
        BY <1>3, <3>1, <3>3
      <4> QED
        BY <1>4, <3>2, <3>3, <4>1
    <3>4. CASE i = j
      <4>1. /\ job'[j].status = "leased" /\ job[j].status = "queued"
            /\ job'[j].attempts = n /\ job'[j].restarts = job[j].restarts
        BY <1>1, <1>3, <1>5, <3>1, <3>4 DEF JobRecord
      <4>2. \A k \in Lanes \ {l} : lane[k].run # <<j, n>>
        <5> SUFFICES ASSUME NEW k \in Lanes \ {l}, lane[k].run = <<j, n>> PROVE FALSE
          OBVIOUS
        <5>1. n \in 1 .. MaxRuns /\ n > job[j].attempts
          BY <1>1, <2>2, <3>4, LedgerAssumption DEF AllowedAttempts, JobRecord, JobDefinitions
        <5>2. run[<<j, n>>].status = "none"
          BY <5>1 DEF RunLog, JobLog
        <5>3. <<j, n>> \in RunIds
          BY <5>1 DEF RunIds
        <5> QED
          BY <1>1, <5>2, <5>3, LedgerAssumption DEF OneHolder, Holds, LaneRecord, RunIds
      <4>3. Answers(j)' = {l}
        BY <3>2, <3>4, <4>1, <4>2 DEF Answers, Live
      <4>4. \A i2 \in Jobs \ {j} : l \notin Answers(i2)'
        BY <3>2, <3>4 DEF Answers
      <4>5. n <= Definition[j].maxAttempts + job[j].restarts
        BY <1>1, <2>2, <3>4, LedgerAssumption DEF AllowedAttempts, JobRecord, JobDefinitions
      <4>6. Promise!Begin(j, l)
        BY <3>4, <4>1, <4>3, <4>4, <4>5 DEF Promise!Begin, stateOf, begunOf, extraOf, byOf, State, Live
      <4> QED
        BY <4>6 DEF Promise!JobStep
    <3> QED
      BY <3>3, <3>4
  <2> QED
    BY <2>1, <2>2
<1> QED
  BY <1>4, <1>5, LeaseEffect

(* A process answers with the token of the live run, drops it, or finds    *)
(* that it is worth nothing.                                               *)
LEMMA HolderPromised ==
  ASSUME TypeOK, RunLog, OneHolder, NEW l \in Lanes, NEW j \in Jobs,
         \/ StartRun(l) \/ Heartbeat(l) \/ FinishSucceeded(l) \/ ResultRefused(l) \/ LaneLost(l)
         \/ \E code \in Codes \cup {"job_spec_invalid"} : FinishFailed(l, code)
  PROVE  Promise!JobStep(j)
<1> DEFINE r == lane[l].run
           i == JobOf(r)
           Settles == /\ HeldLive(l) /\ Idle(l)
                      /\ \A k \in Jobs : k # i => job'[k] = job[k]
                      /\ job'[i].status \in {"succeeded", "failed", "queued"} /\ Tallies(i)
<1>1. job \in [Jobs -> JobRecord] /\ lane \in [Lanes -> LaneRecord] /\ Null \notin RunIds
  BY LedgerAssumption DEF TypeOK, RunIds
<1>2. Holds(l)
  BY DEF StartRun, Heartbeat, FinishSucceeded, ResultRefused, LaneLost, FinishFailed, HeldLive, Holds
<1>3. r \in RunIds /\ i \in Jobs /\ r = <<i, r[2]>>
  BY <1>1, <1>2, RunKey DEF Holds, LaneRecord
<1>4. HeldLive(l) => job[i].status \in Live /\ r = <<i, job[i].attempts>> /\ l \in Answers(i)
  BY <1>3, LiveIsLast DEF HeldLive, RunLog, Answers
<1>5. l \in Answers(j) => HeldLive(l) /\ i = j
  BY OneAnswers DEF JobOf
<1>6. Idle(l) => /\ \A k \in Lanes \ {l} : lane'[k].run = lane[k].run
                 /\ lane'[l].run = Null
  BY <1>1 DEF Idle
<1>7. \A n : job[j].attempts = n /\ job[j].status \in Live => Null # <<j, n>>
  BY <1>1, LedgerAssumption DEF RunLog, JobLog, JobRecord, RunIds
<1>8. CASE UNCHANGED job /\ Idle(l) /\ l \notin Answers(j)
  <2>1. job[j].status \in Live =>
          \A k \in Lanes : lane'[k].run = <<j, job[j].attempts>> <=> k \in Answers(j)
    BY <1>6, <1>7, <1>8 DEF Answers
  <2> QED
    BY <1>8, <2>1, KeepsPromised DEF Tallies
<1>9. CASE Heartbeat(l) \/ StartRun(l)
  <2>1. \A k \in Lanes : lane'[k].run = lane[k].run
    BY <1>1, <1>9 DEF Heartbeat, StartRun, LaneRecord
  <2>2. /\ Tallies(j)
        /\ job'[j].status = job[j].status \/ {job[j].status, job'[j].status} \subseteq Live
    <3>1. CASE Heartbeat(l)
      BY <3>1 DEF Heartbeat, Tallies
    <3>2. CASE StartRun(l)
      <4>1. job' = [job EXCEPT ![i].status = "running"] /\ HeldLive(l)
        BY <1>2, <3>2 DEF StartRun, HeldLive, Live
      <4>2. job[i].status \in Live
        BY <1>4, <4>1
      <4> HIDE DEF i
      <4> QED
        BY <1>1, <1>3, <4>1, <4>2 DEF Tallies, JobRecord, Live
    <3> QED
      BY <1>9, <3>1, <3>2
  <2>3. State(job'[j]) = State(job[j])
    BY <2>2 DEF State
  <2>4. job[j].status \in Live =>
          \A k \in Lanes : lane'[k].run = <<j, job[j].attempts>> <=> k \in Answers(j)
    BY <2>1 DEF Answers
  <2> QED
    BY <2>2, <2>3, <2>4, KeepsPromised
<1>10. CASE ResultRefused(l)
  BY <1>5, <1>8, <1>10 DEF ResultRefused
<1>11. CASE LaneLost(l)
  <2>1. CASE l \in Answers(j)
    <3>1. job[j].status \in Live /\ Answers(j) = {l}
      BY <2>1, OneAnswers
    <3>2. job' = job /\ Idle(l)
      BY <1>11 DEF LaneLost
    <3>3. Answers(j)' = {}
      BY <1>6, <1>7, <3>1, <3>2 DEF Answers
    <3>4. Promise!Becomes(j, State(job'[j]))
      BY <3>2, <3>3, Reaches DEF Tallies
    <3> QED
      BY <3>1, <3>2, <3>4, RowOf DEF Promise!JobStep, Promise!Lose, State
  <2> QED
    BY <1>8, <1>11, <2>1 DEF LaneLost
<1>12. ASSUME FinishSucceeded(l) \/ \E code \in Codes \cup {"job_spec_invalid"} : FinishFailed(l, code)
       PROVE  Promise!JobStep(j)
  <2>1. Settles
    <3>1. CASE FinishSucceeded(l)
      <4>1. job' = [job EXCEPT ![i].status = "succeeded"] /\ HeldLive(l) /\ Idle(l)
        BY <3>1 DEF FinishSucceeded
      <4> HIDE DEF i
      <4> QED
        BY <1>1, <1>3, <4>1 DEF Tallies, JobRecord
    <3>2. ASSUME NEW code \in Codes \cup {"job_spec_invalid"}, FinishFailed(l, code)
          PROVE  Settles
      <4> DEFINE retried == RetryScheduled(code, Definition[i].policy, r[2], Definition[i].maxAttempts)
                 s == IF retried THEN "queued" ELSE "failed"
                 q == IF retried THEN "backoff" ELSE job[i].queue
      <4>1. job' = [job EXCEPT ![i].status = s, ![i].queue = q] /\ HeldLive(l) /\ Idle(l)
        BY <1>1, <1>3, <3>2 DEF FinishFailed
      <4>2. s \in {"queued", "failed"}
        OBVIOUS
      <4> HIDE DEF s, q, i
      <4> QED
        BY <1>1, <1>3, <4>1, <4>2 DEF Tallies, JobRecord
    <3> QED
      BY <1>12, <3>1, <3>2
  <2>2. CASE i = j
    BY <1>4, <2>1, <2>2, LeavesPromised DEF Live
  <2>3. CASE i # j
    <3>1. job'[j] = job[j] /\ l \notin Answers(j)
      BY <1>5, <2>1, <2>3
    <3>2. job[j].status \in Live =>
            \A k \in Lanes : lane'[k].run = <<j, job[j].attempts>> <=> k \in Answers(j)
      BY <1>6, <1>7, <2>1, <3>1 DEF Answers
    <3> QED
      BY <3>1, <3>2, KeepsPromised DEF Tallies
  <2> QED
    BY <2>2, <2>3
<1> QED
  BY <1>9, <1>10, <1>11, <1>12

(* An expiry returns the jobs whose lease lapsed, each with its run.       *)
LEMMA ExpiryPromised ==
  ASSUME TypeOK, RunLog, ExpireLeases, NEW j \in Jobs PROVE Promise!JobStep(j)
<1>1. job \in [Jobs -> JobRecord] /\ lane' = lane
  BY DEF TypeOK, ExpireLeases
<1>2. CASE job'[j] = job[j]
  BY <1>1, <1>2, KeepsPromised DEF Tallies, Answers
<1>3. CASE job[j].status \in Live /\ job'[j] = [job[j] EXCEPT !.status = "queued", !.queue = "ready"]
  <2>1. job'[j].status = "queued" /\ Tallies(j)
    BY <1>1, <1>3 DEF JobRecord, Tallies
  <2> QED
    BY <1>3, <2>1, LeavesPromised DEF Live
<1> QED
  BY <1>2, <1>3 DEF ExpireLeases

(* Every step of the ledger is a step the promise allows of every job.     *)
LEMMA StepPromised ==
  ASSUME TypeOK, RunLog, OneHolder, [Next]_vars, NEW j \in Jobs PROVE Promise!JobStep(j)
<1>1. CASE UNCHANGED <<job, lane>>
  <2>1. job[j].status \in Live =>
          \A l \in Lanes : lane'[l].run = <<j, job[j].attempts>> <=> l \in Answers(j)
    BY <1>1 DEF Answers
  <2> QED
    BY <1>1, <2>1, KeepsPromised DEF Tallies
<1>2. CASE JobStep
  BY <1>2, JobStepPromised
<1>3. CASE LaneStep
  BY <1>3, LeasePromised, HolderPromised DEF LaneStep
<1>4. CASE HubStep
  BY <1>1, <1>4, ExpiryPromised
  DEF HubStep, ApplyPipelineState, LeaseLapses, RequestPipelineState, ActivateDeployment
<1>5. CASE ReconcileStep
  BY <1>1, <1>5 DEF ReconcileStep, Reconcile, ReconcileCancelled, ReconcileRecovered, jobVars
<1> QED
  BY <1>1, <1>2, <1>3, <1>4, <1>5 DEF Next, vars

LEMMA PromiseInit == Init => Promise!Init
<1> SUFFICES ASSUME Init PROVE Promise!Init
  OBVIOUS
<1>1. \A j \in Jobs : /\ State(job[j]) = "absent" /\ job[j].attempts = 0 /\ job[j].restarts = 0
                      /\ Answers(j) = {}
  BY DEF Init, State, Live, Answers
<1> QED
  BY <1>1 DEF Promise!Init, stateOf, begunOf, extraOf, byOf

(* The ledger keeps the promise of JobPromise: an execution begins only    *)
(* while one is granted, only the process with the token of the live run   *)
(* settles a job, and what succeeded, was blocked or cancelled stays so    *)
(* (lease_next, finish_run, cancel_job and expire_leases of store.py).     *)
THEOREM JobPromiseCorrect == Spec => JobPromiseKept
<1>1. TypeOK /\ RunLog /\ OneHolder /\ [Next]_vars => [Promise!Next]_(Promise!vars)
  BY StepPromised DEF Promise!Next
<1> QED
  BY <1>1, PromiseInit, TypeCorrect, RunLogCorrect, OneHolderCorrect, PTL
  DEF Spec, JobPromiseKept, Promise!Spec
=============================================================================
