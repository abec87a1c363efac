------------------------- MODULE MissionLedgerProofs -------------------------
(***************************************************************************)
(* What holds of the job ledger for any number of jobs, machines, lanes    *)
(* and runs: its types, the run log, the single holder of a lease token,   *)
(* and the two action properties that say history is never rewritten.      *)
(***************************************************************************)
EXTENDS MissionLedger, TLAPS

-----------------------------------------------------------------------------
(* Types.                                                                  *)

(* Every retry policy budgets a natural number of repairs.                 *)
LEMMA PolicyRepairs == \A p \in Policies : RetryPolicy[p].repairs \in Nat
<1> SUFFICES ASSUME NEW p \in Policies PROVE RetryPolicy[p].repairs \in Nat
  OBVIOUS
<1>1. p \in {"never", "infrastructure_only", "operator_after_evidence", "classified"}
  BY DEF Policies, RetryPolicy
<1>2. CASE p = "never"
  BY <1>2 DEF RetryPolicy
<1>3. CASE p = "infrastructure_only"
  BY <1>3 DEF RetryPolicy
<1>4. CASE p = "operator_after_evidence"
  BY <1>4 DEF RetryPolicy
<1>5. CASE p = "classified"
  BY <1>5 DEF RetryPolicy
<1> QED
  BY <1>1, <1>2, <1>3, <1>4, <1>5

(* The verdict on a failure names a known category and a known blocker.    *)
LEMMA VerdictTyped ==
  ASSUME NEW code, NEW terminal \in BOOLEAN, NEW atomic \in BOOLEAN
  PROVE  IncidentVerdict(code, terminal, atomic) \in
           [category : Categories, allowed : BOOLEAN, blocker : Blockers]
<1>1. ClassifyFailure(code, terminal) \in
        [category : Categories, allowed : BOOLEAN, blocker : Blockers]
  BY DEF ClassifyFailure, Verdict, Categories, Blockers
<1> QED
  BY <1>1 DEF IncidentVerdict, Verdict, Categories, Blockers

(* The empty ledger is typed.                                              *)
LEMMA InitTyped == Init => TypeOK
  BY LedgerAssumption
  DEF Init, TypeOK, JobRecord, JobStatuses, RunRecord, RunStatuses, NoRunYet, IncidentRecord,
      IncidentStates, NoIncidentYet, Categories, Blockers, RepairRecord, AttemptStates,
      NoRepairYet, Strategies, ActionKinds, LaneRecord

(* Admission, approval, cancellation and ageing keep the types.            *)
LEMMA JobStepTyped == TypeOK /\ JobStep => TypeOK'
<1> SUFFICES ASSUME TypeOK, NEW j \in Jobs,
                    CreateJob(j) \/ ApproveJob(j) \/ CancelJob(j) \/ QueueAges(j)
             PROVE  TypeOK'
  BY DEF JobStep
<1>1. job \in [Jobs -> JobRecord]
  BY DEF TypeOK
<1>2. plan \in [Jobs -> {"none", "admitted", "completed", "cancelled"}]
  BY DEF TypeOK
<1>3. run \in [RunIds -> RunRecord]
  BY DEF TypeOK
<1>4. CASE CreateJob(j)
  <2>1. PICK status \in JobStatuses, queue \in {"ready", "backoff"} :
          job' = [job EXCEPT ![j].status = status, ![j].queue = queue]
    BY <1>4 DEF CreateJob, JobStatuses
  <2>2. job' \in [Jobs -> JobRecord]
    BY <2>1, <1>1 DEF JobRecord
  <2>3. plan' \in [Jobs -> {"none", "admitted", "completed", "cancelled"}]
    BY <1>4, <1>2 DEF CreateJob
  <2> QED
    BY <1>4, <2>2, <2>3 DEF CreateJob, TypeOK, incidentVars
<1>5. CASE ApproveJob(j)
  <2>1. job' \in [Jobs -> JobRecord]
    BY <1>5, <1>1 DEF ApproveJob, JobRecord, JobStatuses
  <2> QED
    BY <1>5, <2>1 DEF ApproveJob, TypeOK, incidentVars
<1>6. CASE CancelJob(j)
  <2>1. job' \in [Jobs -> JobRecord]
    BY <1>6, <1>1 DEF CancelJob, JobRecord, JobStatuses
  <2>2. plan' \in [Jobs -> {"none", "admitted", "completed", "cancelled"}]
    BY <1>6, <1>2 DEF CancelJob, SettlePlan
  <2>3. run' \in [RunIds -> RunRecord]
    <3>1. \A r \in RunIds : [run[r] EXCEPT !.status = "cancelled"] \in RunRecord
      BY <1>3 DEF RunRecord, RunStatuses
    <3> QED
      BY <1>6, <1>3, <3>1 DEF CancelJob
  <2> QED
    BY <1>6, <2>1, <2>2, <2>3 DEF CancelJob, TypeOK, incidentVars
<1>7. CASE QueueAges(j)
  <2>1. job' \in [Jobs -> JobRecord]
    BY <1>7, <1>1 DEF QueueAges, JobRecord
  <2> QED
    BY <1>7, <2>1 DEF QueueAges, TypeOK, incidentVars
<1> QED
  BY <1>4, <1>5, <1>6, <1>7

(* What a lease scan writes: it blocks some queued jobs, and grants at     *)
(* most one other.                                                         *)
LEMMA LeaseEffect ==
  ASSUME NEW l \in Lanes, LeaseNext(l)
  PROVE  /\ \/ \E S \in SUBSET {j \in Jobs : job[j].status = "queued"} :
                 job' = BlockJobs(S) /\ UNCHANGED <<run, lane>>
            \/ \E S \in SUBSET {i \in Jobs : job[i].status = "queued"},
                  j \in {i \in Jobs : job[i].status = "queued"} :
                 j \notin S /\ Grant(l, j, BlockJobs(S))
         /\ lane[l].phase = "idle"
         /\ UNCHANGED <<plan, deployed, pipeline, incident, repair, latest, block>>
<1> DEFINE m      == LaneMachine[l]
           queued == {j \in Jobs : job[j].status = "queued"}
<1>1. PICK held, onCall :
        \/ LET unadmitted == {j \in Offered(m, onCall) : ~Admitted(j)} IN
             job' = BlockJobs(StaleFor(m) \cup unadmitted) /\ UNCHANGED <<run, lane>>
        \/ LET unadmitted == {j \in Offered(m, onCall) : ~Admitted(j)} IN
             \E j \in (Offered(m, onCall) \ unadmitted) \ held :
               Grant(l, j, BlockJobs(StaleFor(m) \cup {u \in unadmitted : ~Precedes(j, u)}))
  BY DEF LeaseNext
<1>2. StaleFor(m) \subseteq queued /\ Offered(m, onCall) \subseteq queued \ StaleFor(m)
  BY DEF StaleFor, Offered
<1>3. lane[l].phase = "idle" /\ UNCHANGED <<plan, deployed, pipeline, incident, repair, latest, block>>
  BY DEF LeaseNext, incidentVars
<1> HIDE DEF m
<1> DEFINE unadmitted == {j \in Offered(m, onCall) : ~Admitted(j)}
<1>4. CASE job' = BlockJobs(StaleFor(m) \cup unadmitted) /\ UNCHANGED <<run, lane>>
  <2>1. StaleFor(m) \cup unadmitted \in SUBSET queued
    BY <1>2
  <2> QED
    BY <1>3, <1>4, <2>1
<1>5. ASSUME NEW j \in (Offered(m, onCall) \ unadmitted) \ held,
             Grant(l, j, BlockJobs(StaleFor(m) \cup {u \in unadmitted : ~Precedes(j, u)}))
      PROVE  \E S \in SUBSET queued, i \in queued : i \notin S /\ Grant(l, i, BlockJobs(S))
  <2> DEFINE S == StaleFor(m) \cup {u \in unadmitted : ~Precedes(j, u)}
  <2>1. S \in SUBSET queued /\ j \in queued /\ j \notin S
    BY <1>2
  <2> QED
    BY <1>5, <2>1
<1> QED
  BY <1>1, <1>3, <1>4, <1>5

(* A lane leases: the new run is within the bound on a job's runs because  *)
(* the attempts a job is allowed are.                                      *)
LEMMA LeaseTyped == ASSUME TypeOK, NEW l \in Lanes, LeaseNext(l) PROVE TypeOK'
<1>1. job \in [Jobs -> JobRecord]
  BY DEF TypeOK
<1>2. run \in [RunIds -> RunRecord]
  BY DEF TypeOK
<1>3. lane \in [Lanes -> LaneRecord]
  BY DEF TypeOK
<1>4. \A S : BlockJobs(S) \in [Jobs -> JobRecord]
  <2>1. \A j \in Jobs : [job[j] EXCEPT !.status = "blocked"] \in JobRecord
    BY <1>1 DEF JobRecord, JobStatuses
  <2> QED
    BY <1>1, <2>1 DEF BlockJobs
<1>5. ASSUME NEW j \in Jobs, NEW S, Grant(l, j, BlockJobs(S))
      PROVE  /\ job' \in [Jobs -> JobRecord]
             /\ run' \in [RunIds -> RunRecord]
             /\ lane' \in [Lanes -> LaneRecord]
  <2> DEFINE swept == BlockJobs(S)
             n     == NextAttempt(j)
             m     == LaneMachine[l]
  <2>1. swept \in [Jobs -> JobRecord]
    BY <1>4
  <2>2. CASE n > AllowedAttempts(j)
    <3>1. job' = [swept EXCEPT ![j].status = "failed"] /\ UNCHANGED <<run, lane>>
      BY <1>5, <2>2 DEF Grant, FailExhausted
    <3> HIDE DEF swept
    <3>2. job' \in [Jobs -> JobRecord]
      BY <2>1, <3>1 DEF JobRecord, JobStatuses
    <3> QED
      BY <3>1, <3>2, <1>2, <1>3
  <2>3. CASE ~(n > AllowedAttempts(j))
    <3>1. n \in 1 .. MaxRuns /\ n \in 0 .. MaxRuns
      BY <2>3, <1>1, LedgerAssumption
      DEF NextAttempt, AllowedAttempts, JobRecord, JobDefinitions
    <3>2. /\ job' = [swept EXCEPT ![j].status = "leased", ![j].attempts = n,
                                  ![j].queue = "ready"]
          /\ run' = [run EXCEPT ![<<j, n>>] =
                       [status |-> "leased", machine |-> m, deployment |-> deployed[m],
                        lease |-> "fresh", code |-> "none"]]
          /\ lane' = [lane EXCEPT ![l] = [phase |-> "starting", run |-> <<j, n>>]]
      BY <1>5, <2>3 DEF Grant
    <3>3. m \in Machines /\ deployed[m] \in 0 .. MaxDeployments
      BY LedgerAssumption DEF TypeOK
    <3>4. <<j, n>> \in RunIds
      BY <3>1 DEF RunIds
    <3> HIDE DEF swept, n, m
    <3>5. job' \in [Jobs -> JobRecord]
      <4> DEFINE mid == [swept EXCEPT ![j].status = "leased", ![j].attempts = n]
      <4>1. mid \in [Jobs -> JobRecord]
        BY <2>1, <3>1 DEF JobRecord, JobStatuses
      <4>2. job' = [mid EXCEPT ![j].queue = "ready"]
        BY <3>2
      <4> HIDE DEF mid
      <4> QED
        BY <4>1, <4>2 DEF JobRecord
    <3>6. run' \in [RunIds -> RunRecord]
      BY <1>2, <3>2, <3>3 DEF RunRecord, RunStatuses
    <3>7. lane' \in [Lanes -> LaneRecord]
      BY <1>3, <3>2, <3>4 DEF LaneRecord
    <3> QED
      BY <3>5, <3>6, <3>7
  <2> QED
    BY <2>2, <2>3
<1> QED
  <2>1. /\ job' \in [Jobs -> JobRecord]
        /\ run' \in [RunIds -> RunRecord]
        /\ lane' \in [Lanes -> LaneRecord]
    BY <1>1, <1>2, <1>3, <1>4, <1>5, LeaseEffect
  <2> QED
    BY <2>1, LeaseEffect DEF TypeOK

(* Capturing failures keeps the incident tables typed.                     *)
LEMMA CaptureRetriedTyped ==
  ASSUME TypeOK, NEW S \in SUBSET RunIds, NEW code \in FailureCodes, CaptureRetried(S, code)
  PROVE  /\ incident' \in [RunIds -> IncidentRecord]
         /\ repair' \in [AttemptIds -> RepairRecord]
         /\ latest' \in RunIds \cup {Null}
         /\ block' \in [RunIds -> {"none", "active", "resolved"}]
<1>1. incident \in [RunIds -> IncidentRecord]
  BY DEF TypeOK
<1>2. repair \in [AttemptIds -> RepairRecord]
  BY DEF TypeOK
<1>3. \A r \in RunIds :
        NewIncident(r, code, "monitoring", IncidentVerdict(code, FALSE, IsAtomic(JobOf(r))), 1)
          \in IncidentRecord
  <2> SUFFICES ASSUME NEW r \in RunIds
               PROVE  NewIncident(r, code, "monitoring",
                                  IncidentVerdict(code, FALSE, IsAtomic(JobOf(r))), 1)
                        \in IncidentRecord
    OBVIOUS
  <2>1. Definition[JobOf(r)].policy \in Policies
    BY LedgerAssumption DEF RunIds, JobOf, JobDefinitions
  <2>2. IncidentVerdict(code, FALSE, IsAtomic(JobOf(r))) \in
          [category : Categories, allowed : BOOLEAN, blocker : Blockers]
    BY VerdictTyped DEF IsAtomic
  <2>3. 1 \in 0 .. MaxRepairs
    BY LedgerAssumption
  <2> HIDE DEF IncidentVerdict
  <2> QED
    BY <2>1, <2>2, <2>3, PolicyRepairs DEF NewIncident, IncidentRecord, IncidentStates, Blockers
<1>4. \A r \in RunIds :
        [incident[r] EXCEPT !.state = "monitoring", !.blocker = "none"] \in IncidentRecord
  BY <1>1 DEF IncidentRecord, IncidentStates, Blockers
<1>5. incident' \in [RunIds -> IncidentRecord]
  BY <1>1, <1>3, <1>4 DEF CaptureRetried
<1>6. repair' \in [AttemptIds -> RepairRecord]
  BY <1>2 DEF CaptureRetried, RepairRecord, AttemptStates, Strategies, ActionKinds
<1>7. latest' \in RunIds \cup {Null}
  BY DEF CaptureRetried, TypeOK
<1> QED
  BY <1>5, <1>6, <1>7 DEF CaptureRetried, TypeOK

(* So does the capture of a failure that ends its job.                    *)
LEMMA CaptureTerminalTyped ==
  ASSUME TypeOK, NEW r \in RunIds, NEW code \in FailureCodes, CaptureTerminal(r, code)
  PROVE  /\ incident' \in [RunIds -> IncidentRecord]
         /\ repair' \in [AttemptIds -> RepairRecord]
         /\ latest' \in RunIds \cup {Null}
         /\ block' \in [RunIds -> {"none", "active", "resolved"}]
         /\ pipeline' \in [desired : {"running", "paused"}, applied : {"running", "paused"}]
<1> DEFINE j == JobOf(r)
           a == VerifyingAttempt(j)
<1>1. incident \in [RunIds -> IncidentRecord]
  BY DEF TypeOK
<1>2. repair \in [AttemptIds -> RepairRecord]
  BY DEF TypeOK
<1>3. block \in [RunIds -> {"none", "active", "resolved"}]
  BY DEF TypeOK
<1>4. j \in Jobs /\ Definition[j].policy \in Policies
  BY LedgerAssumption DEF RunIds, JobOf, JobDefinitions
<1>5. CASE VerifyingAttempts(j) # {}
  <2>1. VerificationFailed(a, j, code)
    BY <1>5 DEF CaptureTerminal
  <2> HIDE DEF a, j
  <2>2. repair' \in [AttemptIds -> RepairRecord]
    BY <1>2, <2>1 DEF VerificationFailed, RepairRecord, AttemptStates
  <2>3. \A i \in RunIds :
          /\ [incident[i] EXCEPT !.state = "blocked", !.allowed = FALSE,
                                 !.blocker = "atomic_unit_retry_budget_exhausted"]
               \in IncidentRecord
          /\ AfterFailedAttempt(incident[i]) \in IncidentRecord
    BY <1>1 DEF AfterFailedAttempt, IncidentRecord, IncidentStates, Blockers
  <2>4. incident' \in [RunIds -> IncidentRecord]
    BY <1>1, <2>1, <2>3 DEF VerificationFailed
  <2>5. block' \in [RunIds -> {"none", "active", "resolved"}] /\ latest' = latest
    BY <1>3, <2>1 DEF VerificationFailed
  <2> QED
    BY <2>2, <2>4, <2>5 DEF CaptureTerminal, TypeOK
<1>6. CASE VerifyingAttempts(j) = {}
  <2> DEFINE verdict == IncidentVerdict(code, TRUE, IsAtomic(j))
             state   == IF verdict.blocker # "none" THEN "blocked" ELSE "classified"
  <2>1. OpenTerminalIncident(r, code)
    BY <1>6 DEF CaptureTerminal
  <2>2. verdict \in [category : Categories, allowed : BOOLEAN, blocker : Blockers]
    BY VerdictTyped DEF IsAtomic
  <2>3. /\ incident' = [incident EXCEPT ![r] = NewIncident(r, code, state, verdict, 0)]
        /\ latest' = r
        /\ block' = IF Definition[j].campaign THEN [block EXCEPT ![r] = "active"] ELSE block
        /\ repair' = repair
    BY <2>1 DEF OpenTerminalIncident
  <2> HIDE DEF verdict
  <2>4. NewIncident(r, code, state, verdict, 0) \in IncidentRecord
    BY <1>4, <2>2, PolicyRepairs, LedgerAssumption
    DEF NewIncident, IncidentRecord, IncidentStates, Blockers
  <2> HIDE DEF state
  <2>5. incident' \in [RunIds -> IncidentRecord]
    BY <1>1, <2>3, <2>4
  <2> QED
    BY <1>2, <1>3, <2>3, <2>5 DEF CaptureTerminal, TypeOK
<1> QED
  BY <1>5, <1>6

(* The token a lane presents names a run of the log while the run is live. *)
LEMMA LaneStepTyped == TypeOK /\ LaneStep => TypeOK'
<1> SUFFICES ASSUME TypeOK, NEW l \in Lanes,
                    \/ LeaseNext(l) \/ StartRun(l) \/ Heartbeat(l) \/ FinishSucceeded(l)
                    \/ \E code \in Codes \cup {"job_spec_invalid"} : FinishFailed(l, code)
                    \/ ResultRefused(l) \/ LaneLost(l)
             PROVE  TypeOK'
  BY DEF LaneStep
<1> DEFINE r == lane[l].run
<1>1. job \in [Jobs -> JobRecord]
  BY DEF TypeOK
<1>2. run \in [RunIds -> RunRecord]
  BY DEF TypeOK
<1>3. lane \in [Lanes -> LaneRecord]
  BY DEF TypeOK
<1>4. plan \in [Jobs -> {"none", "admitted", "completed", "cancelled"}]
  BY DEF TypeOK
<1>5. Idle(l) => lane' \in [Lanes -> LaneRecord]
  BY <1>3 DEF Idle, LaneRecord
<1>0. lane[l].phase # "idle" => r \in RunIds
  BY <1>3 DEF LaneRecord
<1>6. CASE LeaseNext(l)
  BY <1>6, LeaseTyped
<1>7. CASE StartRun(l)
  <2>1. job' \in [Jobs -> JobRecord]
    BY <1>1, <1>7 DEF StartRun, JobRecord, JobStatuses
  <2>2. run' \in [RunIds -> RunRecord]
    BY <1>2, <1>7 DEF StartRun, RunRecord, RunStatuses
  <2>3. lane' \in [Lanes -> LaneRecord]
    BY <1>3, <1>7 DEF StartRun, LaneRecord
  <2> QED
    BY <1>7, <2>1, <2>2, <2>3 DEF StartRun, TypeOK, incidentVars
<1>8. CASE Heartbeat(l)
  <2>1. run' \in [RunIds -> RunRecord]
    BY <1>2, <1>8 DEF Heartbeat, RunRecord
  <2> QED
    BY <1>8, <2>1 DEF Heartbeat, TypeOK, incidentVars
<1>9. CASE FinishSucceeded(l)
  <2>1. job' \in [Jobs -> JobRecord]
    BY <1>1, <1>9 DEF FinishSucceeded, JobRecord, JobStatuses
  <2>2. run' \in [RunIds -> RunRecord]
    BY <1>2, <1>9 DEF FinishSucceeded, RunRecord, RunStatuses
  <2>3. plan' \in [Jobs -> {"none", "admitted", "completed", "cancelled"}]
    BY <1>4, <1>9 DEF FinishSucceeded, SettlePlan
  <2> QED
    BY <1>5, <1>9, <2>1, <2>2, <2>3 DEF FinishSucceeded, TypeOK, incidentVars
<1>10. ASSUME NEW code \in Codes \cup {"job_spec_invalid"}, FinishFailed(l, code), r \in RunIds
       PROVE  TypeOK'
  <2>1. code \in FailureCodes
    BY LedgerAssumption DEF FailureCodes, DeterministicSpecification
  <2>2. job' \in [Jobs -> JobRecord]
    <3>1. PICK status \in JobStatuses, queue \in {"backoff", "ready", "stale"} :
            job' = [job EXCEPT ![JobOf(r)].status = status, ![JobOf(r)].queue = queue]
      <4> DEFINE retried == RetryScheduled(code, Definition[JobOf(r)].policy, r[2],
                                           Definition[JobOf(r)].maxAttempts)
      <4>1. job' = [job EXCEPT ![JobOf(r)].status = IF retried THEN "queued" ELSE "failed",
                               ![JobOf(r)].queue = IF retried THEN "backoff" ELSE @]
        BY <1>10 DEF FinishFailed
      <4>2. JobOf(r) \in Jobs
        BY <1>10 DEF JobOf, RunIds
      <4> HIDE DEF retried
      <4>3. job[JobOf(r)].queue \in {"backoff", "ready", "stale"}
        BY <1>1, <4>2 DEF JobRecord
      <4> QED
        BY <1>1, <4>1, <4>2, <4>3 DEF JobStatuses
    <3> QED
      BY <1>1, <3>1 DEF JobRecord
  <2>3. run' \in [RunIds -> RunRecord]
    BY <1>2, <1>10, <2>1 DEF FinishFailed, RunRecord, RunStatuses
  <2>4. CASE UNCHANGED <<pipeline, incidentVars>>
    BY <1>5, <1>10, <2>2, <2>3, <2>4 DEF FinishFailed, TypeOK, incidentVars
  <2>5. CASE CaptureRetried({r}, code) /\ UNCHANGED pipeline
    <3>1. {r} \in SUBSET RunIds
      BY <1>10
    <3> QED
      BY <1>5, <1>10, <2>1, <2>2, <2>3, <2>5, <3>1, CaptureRetriedTyped DEF FinishFailed, TypeOK
  <2>6. CASE CaptureTerminal(r, code)
    BY <1>5, <1>10, <2>1, <2>2, <2>3, <2>6, CaptureTerminalTyped DEF FinishFailed, TypeOK
  <2> QED
    BY <1>10, <2>4, <2>5, <2>6 DEF FinishFailed
<1>11. CASE ResultRefused(l)
  BY <1>5, <1>11 DEF ResultRefused, TypeOK, incidentVars
<1>12. CASE LaneLost(l)
  BY <1>5, <1>12 DEF LaneLost, TypeOK, incidentVars
<1> QED
  <2>1. ASSUME NEW code \in Codes \cup {"job_spec_invalid"}, FinishFailed(l, code)
        PROVE  TypeOK'
    BY <1>0, <1>10, <2>1 DEF FinishFailed, HeldLive, Holds
  <2> QED
    BY <1>6, <1>7, <1>8, <1>9, <1>11, <1>12, <2>1

(* The daemon's own steps and the operator's keep the types.               *)
LEMMA HubStepTyped == TypeOK /\ HubStep => TypeOK'
<1> SUFFICES ASSUME TypeOK, HubStep PROVE TypeOK'
  OBVIOUS
<1>1. job \in [Jobs -> JobRecord]
  BY DEF TypeOK
<1>2. run \in [RunIds -> RunRecord]
  BY DEF TypeOK
<1>3. pipeline \in [desired : {"running", "paused"}, applied : {"running", "paused"}]
  BY DEF TypeOK
<1>4. CASE ExpireLeases
  <2>1. job' \in [Jobs -> JobRecord]
    <3>1. \A j \in Jobs : [job[j] EXCEPT !.status = "queued", !.queue = "ready"] \in JobRecord
      BY <1>1 DEF JobRecord, JobStatuses
    <3> QED
      BY <1>1, <1>4, <3>1 DEF ExpireLeases
  <2>2. run' \in [RunIds -> RunRecord]
    <3>1. \A r \in RunIds : [run[r] EXCEPT !.status = "expired"] \in RunRecord
      BY <1>2 DEF RunRecord, RunStatuses
    <3> QED
      BY <1>2, <1>4, <3>1 DEF ExpireLeases
  <2>3. CaptureRetried(LapsedRuns, "lease_expired")
    BY <1>4 DEF ExpireLeases, CaptureExpired
  <2>4. LapsedRuns \in SUBSET RunIds /\ "lease_expired" \in FailureCodes
    BY DEF LapsedRuns, LiveRuns, FailureCodes, OperationalTransient
  <2> QED
    BY <1>4, <2>1, <2>2, <2>3, <2>4, CaptureRetriedTyped DEF ExpireLeases, TypeOK
<1>5. CASE ApplyPipelineState
  BY <1>5 DEF ApplyPipelineState, TypeOK, incidentVars
<1>6. ASSUME NEW r \in RunIds, LeaseLapses(r) PROVE TypeOK'
  <2>1. run' \in [RunIds -> RunRecord]
    BY <1>2, <1>6 DEF LeaseLapses, RunRecord
  <2> QED
    BY <1>6, <2>1 DEF LeaseLapses, TypeOK, incidentVars
<1>7. ASSUME NEW s \in {"running", "paused"}, RequestPipelineState(s) PROVE TypeOK'
  BY <1>7 DEF RequestPipelineState, TypeOK, incidentVars
<1>8. ASSUME NEW m \in Machines, ActivateDeployment(m) PROVE TypeOK'
  BY <1>8 DEF ActivateDeployment, TypeOK, incidentVars
<1> QED
  BY <1>4, <1>5, <1>6, <1>7, <1>8 DEF HubStep

(* Closing an incident keeps the types.                                    *)
LEMMA ReconcileTyped == TypeOK /\ ReconcileStep => TypeOK'
<1> SUFFICES ASSUME TypeOK, NEW r \in RunIds, ReconcileCancelled(r) \/ ReconcileRecovered(r)
             PROVE  TypeOK'
  BY DEF ReconcileStep, Reconcile
<1>1. incident \in [RunIds -> IncidentRecord]
  BY DEF TypeOK
<1>2. repair \in [AttemptIds -> RepairRecord]
  BY DEF TypeOK
<1>3. block \in [RunIds -> {"none", "active", "resolved"}]
  BY DEF TypeOK
<1>4. CASE ReconcileCancelled(r)
  <2>1. repair' \in [AttemptIds -> RepairRecord]
    BY <1>2, <1>4 DEF ReconcileCancelled, RepairRecord, AttemptStates
  <2>2. incident' \in [RunIds -> IncidentRecord]
    BY <1>1, <1>4 DEF ReconcileCancelled, IncidentRecord, IncidentStates, Blockers
  <2> QED
    BY <1>4, <2>1, <2>2 DEF ReconcileCancelled, TypeOK, jobVars
<1>5. CASE ReconcileRecovered(r)
  <2> DEFINE a     == LastAttempt(r)
             proof == repair[a].evidence \cup {"artifact_validation", "health_check"}
  <2>1. a \in AttemptIds
    BY <1>5 DEF ReconcileRecovered
  <2>2. proof \in SUBSET ActionKinds
    BY <1>2, <2>1 DEF RepairRecord, ActionKinds
  <2>3. /\ repair' = [repair EXCEPT ![a].state = "succeeded", ![a].evidence = proof]
        /\ incident' = [incident EXCEPT ![r].state = "recovered", ![r].blocker = "none"]
        /\ block' = [block EXCEPT ![r] = IF @ = "active" THEN "resolved" ELSE @]
    BY <1>5 DEF ReconcileRecovered
  <2> HIDE DEF a, proof
  <2>4. repair' \in [AttemptIds -> RepairRecord]
    BY <1>2, <2>2, <2>3 DEF RepairRecord, AttemptStates
  <2>5. incident' \in [RunIds -> IncidentRecord]
    BY <1>1, <2>3 DEF IncidentRecord, IncidentStates, Blockers
  <2>6. block' \in [RunIds -> {"none", "active", "resolved"}]
    BY <1>3, <2>3
  <2> QED
    BY <1>5, <2>4, <2>5, <2>6 DEF ReconcileRecovered, TypeOK, jobVars
<1> QED
  BY <1>4, <1>5

(* The rows of the ledger keep their types: every status is one the schema *)
(* knows, no run has a number beyond the job's allowance, no lease token   *)
(* names anything but a run.                                               *)
THEOREM TypeCorrect == Spec => []TypeOK
<1>1. TypeOK /\ [Next]_vars => TypeOK'
  <2> SUFFICES ASSUME TypeOK, [Next]_vars PROVE TypeOK'
    OBVIOUS
  <2>1. CASE UNCHANGED vars
    BY <2>1 DEF vars, TypeOK
  <2> QED
    BY <2>1, JobStepTyped, LaneStepTyped, HubStepTyped, ReconcileTyped DEF Next
<1> QED
  BY <1>1, InitTyped, PTL DEF Spec

-----------------------------------------------------------------------------
(* The run log.                                                            *)

Final == {"succeeded", "cancelled"}

(* A run identity is a job and a number.                                   *)
LEMMA RunKey == ASSUME NEW r \in RunIds
                PROVE  JobOf(r) \in Jobs /\ r[2] \in 1 .. MaxRuns /\ r = <<JobOf(r), r[2]>>
  BY DEF RunIds, JobOf

(* A live run is the last run of its job, and the job shows its status.    *)
LEMMA LiveIsLast ==
  ASSUME TypeOK, NEW r \in RunIds, run[r].status \in Live, JobLog(JobOf(r))
  PROVE  /\ JobOf(r) \in Jobs /\ r[2] = job[JobOf(r)].attempts
         /\ job[JobOf(r)].status = run[r].status
<1> DEFINE j == JobOf(r)
           n == job[j].attempts
           k == r[2]
<1>1. j \in Jobs /\ k \in 1 .. MaxRuns /\ r = <<j, k>>
  BY RunKey
<1>2. n \in Int
  BY <1>1 DEF TypeOK, JobRecord
<1>3. run[<<j, k>>].status \in {"leased", "running"}
  BY <1>1 DEF Live
<1>4. k <= n
  BY <1>1, <1>2, <1>3 DEF JobLog
<1>5. ~(k \in 1 .. (n - 1))
  BY <1>1, <1>3 DEF JobLog
<1>6. k = n
  BY <1>1, <1>2, <1>4, <1>5
<1> QED
  BY <1>1, <1>3, <1>6 DEF JobLog, Live

(* Three ways a step can leave the log of job j intact.  The runs keep     *)
(* their statuses, and the job keeps its own or moves between statuses     *)
(* that say nothing of the last run;                                       *)
LEMMA LogKept ==
  ASSUME NEW j \in Jobs, JobLog(j),
         job'[j].attempts = job[j].attempts,
         \A k \in 1 .. MaxRuns : run'[<<j, k>>].status = run[<<j, k>>].status,
         job[j].attempts \in 0 .. MaxRuns,
         \/ job'[j].status = job[j].status
         \/ job[j].status \notin Live \cup Final /\ job'[j].status \notin Live
  PROVE  JobLog(j)'
<1>1. MaxRuns \in Nat
  BY LedgerAssumption
<1>2. \A k \in 1 .. MaxRuns : run'[<<j, k>>].status = "none" <=> k > job'[j].attempts
  BY DEF JobLog, Live, Final
<1>3. \A k \in 1 .. (job'[j].attempts - 1) : run'[<<j, k>>].status \in {"failed", "expired"}
  BY <1>1 DEF JobLog
<1>4. job'[j].status \in Live =>
        job'[j].attempts > 0 /\ run'[<<j, job'[j].attempts>>].status \in Live
  BY <1>1 DEF JobLog, Live, Final
<1>5. job'[j].attempts > 0 /\ run'[<<j, job'[j].attempts>>].status \in Live \cup {"succeeded", "cancelled"} =>
        job'[j].status = run'[<<j, job'[j].attempts>>].status
  BY <1>1 DEF JobLog, Live, Final
<1> QED
  BY <1>2, <1>3, <1>4, <1>5 DEF JobLog

(* or the last run, live until now, moves on together with its job;        *)
LEMMA LogClosed ==
  ASSUME NEW j \in Jobs, JobLog(j), job[j].status \in Live,
         job[j].attempts \in 0 .. MaxRuns,
         job'[j].attempts = job[j].attempts,
         \A k \in 1 .. MaxRuns : k # job[j].attempts => run'[<<j, k>>].status = run[<<j, k>>].status,
         \/ /\ run'[<<j, job[j].attempts>>].status \in Live \cup Final
            /\ job'[j].status = run'[<<j, job[j].attempts>>].status
         \/ /\ run'[<<j, job[j].attempts>>].status \in {"failed", "expired"}
            /\ job'[j].status \notin Live
  PROVE  JobLog(j)'
<1>1. MaxRuns \in Nat
  BY LedgerAssumption
<1>2. \A k \in 1 .. MaxRuns : run'[<<j, k>>].status = "none" <=> k > job'[j].attempts
  BY DEF JobLog, Live, Final
<1>3. \A k \in 1 .. (job'[j].attempts - 1) : run'[<<j, k>>].status \in {"failed", "expired"}
  BY <1>1 DEF JobLog
<1>4. job'[j].status \in Live =>
        job'[j].attempts > 0 /\ run'[<<j, job'[j].attempts>>].status \in Live
  BY <1>1 DEF JobLog, Live, Final
<1>5. job'[j].attempts > 0 /\ run'[<<j, job'[j].attempts>>].status \in Live \cup {"succeeded", "cancelled"} =>
        job'[j].status = run'[<<j, job'[j].attempts>>].status
  BY <1>1 DEF JobLog, Live, Final
<1> QED
  BY <1>2, <1>3, <1>4, <1>5 DEF JobLog

(* or a queued job gets its next run.                                      *)
LEMMA LogExtended ==
  ASSUME NEW j \in Jobs, JobLog(j), job[j].status = "queued",
         \A k \in 1 .. MaxRuns : run[<<j, k>>].status \in RunStatuses,
         job[j].attempts \in 0 .. MaxRuns, job[j].attempts + 1 \in 1 .. MaxRuns,
         job'[j].attempts = job[j].attempts + 1, job'[j].status = "leased",
         run'[<<j, job[j].attempts + 1>>].status = "leased",
         \A k \in 1 .. MaxRuns : k # job[j].attempts + 1 => run'[<<j, k>>].status = run[<<j, k>>].status
  PROVE  JobLog(j)'
<1> DEFINE n == job[j].attempts
<1>1. n > 0 => run[<<j, n>>].status \in {"failed", "expired"}
  BY DEF JobLog, RunStatuses, Live
<1>2. \A k \in 1 .. n : run'[<<j, k>>].status \in {"failed", "expired"}
  <2>1. \A k \in 1 .. (n - 1) : run[<<j, k>>].status \in {"failed", "expired"}
    BY DEF JobLog
  <2>2. \A k \in 1 .. n : run[<<j, k>>].status \in {"failed", "expired"}
    BY <1>1, <2>1
  <2> QED
    BY <2>2, LedgerAssumption
<1> QED
  BY <1>1, <1>2 DEF JobLog, Live

(* Admission, approval, cancellation and ageing keep every job's log.      *)
LEMMA JobStepLog ==
  ASSUME TypeOK, RunLog, NEW i \in Jobs, NEW j \in Jobs,
         CreateJob(i) \/ ApproveJob(i) \/ CancelJob(i) \/ QueueAges(i)
  PROVE  JobLog(j)'
<1>1. job \in [Jobs -> JobRecord] /\ run \in [RunIds -> RunRecord]
  BY DEF TypeOK
<1>2. JobLog(j) /\ job[j].attempts \in 0 .. MaxRuns
  BY <1>1 DEF RunLog, JobRecord
<1>3. CASE CreateJob(i) \/ ApproveJob(i) \/ QueueAges(i)
  <2>1. run' = run
    BY <1>3 DEF CreateJob, ApproveJob, QueueAges
  <2>2. /\ job'[j].attempts = job[j].attempts
        /\ \/ job'[j].status = job[j].status
           \/ /\ job[j].status \in {"absent", "awaiting_approval"}
              /\ job'[j].status \in {"awaiting_approval", "queued"}
    <3>1. CASE CreateJob(i)
      <4>1. PICK status \in {"awaiting_approval", "queued"}, queue \in {"ready", "backoff"} :
              job' = [job EXCEPT ![i].status = status, ![i].queue = queue]
        BY <3>1 DEF CreateJob
      <4>2. job[i].status = "absent"
        BY <3>1 DEF CreateJob
      <4>3. CASE i = j
        <5>1. job'[j] = [job[j] EXCEPT !.status = status, !.queue = queue]
          BY <1>1, <4>1, <4>3
        <5> QED
          BY <1>1, <4>2, <4>3, <5>1 DEF JobRecord
      <4>4. CASE i # j
        BY <1>1, <4>1, <4>4
      <4> QED
        BY <4>3, <4>4
    <3>2. CASE ApproveJob(i)
      BY <1>1, <3>2 DEF ApproveJob, JobRecord
    <3>3. CASE QueueAges(i)
      BY <1>1, <3>3 DEF QueueAges, JobRecord
    <3> QED
      BY <1>3, <3>1, <3>2, <3>3
  <2> QED
    BY <1>2, <2>1, <2>2, LogKept DEF Live, Final
<1>4. CASE CancelJob(i) /\ i # j
  <2>1. job'[j] = job[j] /\ \A k \in 1 .. MaxRuns : run'[<<j, k>>] = run[<<j, k>>]
    BY <1>1, <1>4 DEF CancelJob, LiveOf, JobOf, RunIds
  <2> QED
    BY <1>2, <2>1, LogKept
<1>5. CASE CancelJob(i) /\ i = j
  <2> DEFINE n == job[j].attempts
  <2>1. /\ job'[j].status = "cancelled" /\ job'[j].attempts = n
        /\ job[j].status \notin Final
    BY <1>1, <1>5 DEF CancelJob, JobRecord, TerminalJob, Final
  <2>2. \A k \in 1 .. MaxRuns :
          run'[<<j, k>>].status = IF run[<<j, k>>].status \in Live THEN "cancelled"
                                  ELSE run[<<j, k>>].status
    BY <1>1, <1>5 DEF CancelJob, LiveOf, LiveRuns, JobOf, RunIds, RunRecord
  <2>3. \A k \in 1 .. MaxRuns : run[<<j, k>>].status \in Live => k = n
    <3> SUFFICES ASSUME NEW k \in 1 .. MaxRuns, run[<<j, k>>].status \in Live PROVE k = n
      OBVIOUS
    <3>1. <<j, k>> \in RunIds /\ JobOf(<<j, k>>) = j /\ <<j, k>>[2] = k
      BY DEF RunIds, JobOf
    <3> QED
      BY <1>2, <3>1, LiveIsLast
  <2>4. CASE job[j].status \in Live
    <3>1. n \in 1 .. MaxRuns /\ run[<<j, n>>].status \in Live
      BY <1>2, <2>4 DEF JobLog
    <3>2. run'[<<j, n>>].status = "cancelled"
      BY <2>2, <3>1
    <3>3. \A k \in 1 .. MaxRuns : k # n => run'[<<j, k>>].status = run[<<j, k>>].status
      BY <2>2, <2>3
    <3> QED
      BY <1>2, <2>1, <2>4, <3>2, <3>3, LogClosed DEF Final
  <2>5. CASE job[j].status \notin Live
    <3>1. \A k \in 1 .. MaxRuns : run[<<j, k>>].status \notin Live
      BY <1>2, <2>3, <2>5 DEF JobLog
    <3> QED
      BY <1>2, <2>1, <2>2, <2>5, <3>1, LogKept DEF Live, Final
  <2> QED
    BY <2>4, <2>5
<1> QED
  BY <1>3, <1>4, <1>5

(* A lease scan keeps every job's log.                                     *)
LEMMA LeaseLog ==
  ASSUME TypeOK, RunLog, NEW l \in Lanes, LeaseNext(l), NEW j \in Jobs
  PROVE  JobLog(j)'
<1>1. job \in [Jobs -> JobRecord] /\ run \in [RunIds -> RunRecord]
  BY DEF TypeOK
<1>2. JobLog(j) /\ job[j].attempts \in 0 .. MaxRuns
  BY <1>1 DEF RunLog, JobRecord
<1> DEFINE queued == {i \in Jobs : job[i].status = "queued"}
<1>3. \A S \in SUBSET queued :
        /\ BlockJobs(S)[j].attempts = job[j].attempts
        /\ \/ BlockJobs(S)[j].status = job[j].status
           \/ job[j].status = "queued" /\ BlockJobs(S)[j].status = "blocked"
        /\ j \notin S => BlockJobs(S)[j] = job[j]
        /\ BlockJobs(S) \in [Jobs -> JobRecord]
  <2> SUFFICES ASSUME NEW S \in SUBSET queued
               PROVE  /\ BlockJobs(S)[j].attempts = job[j].attempts
                      /\ \/ BlockJobs(S)[j].status = job[j].status
                         \/ job[j].status = "queued" /\ BlockJobs(S)[j].status = "blocked"
                      /\ j \notin S => BlockJobs(S)[j] = job[j]
                      /\ BlockJobs(S) \in [Jobs -> JobRecord]
    OBVIOUS
  <2>1. \A i \in Jobs : [job[i] EXCEPT !.status = "blocked"] \in JobRecord
    BY <1>1 DEF JobRecord, JobStatuses
  <2>2. BlockJobs(S) \in [Jobs -> JobRecord]
    BY <1>1, <2>1 DEF BlockJobs
  <2>3. BlockJobs(S)[j] = IF j \in S THEN [job[j] EXCEPT !.status = "blocked"] ELSE job[j]
    BY DEF BlockJobs
  <2> QED
    BY <1>1, <2>2, <2>3 DEF JobRecord
<1>4. ASSUME NEW S \in SUBSET queued, job' = BlockJobs(S), UNCHANGED <<run, lane>>
      PROVE  JobLog(j)'
  BY <1>2, <1>3, <1>4, LogKept DEF Live, Final
<1>5. ASSUME NEW S \in SUBSET queued, NEW i \in queued, i \notin S, Grant(l, i, BlockJobs(S))
      PROVE  JobLog(j)'
  <2> DEFINE swept == BlockJobs(S)
             n     == NextAttempt(i)
  <2>1. CASE n > AllowedAttempts(i)
    <3>1. job' = [swept EXCEPT ![i].status = "failed"] /\ UNCHANGED run
      BY <1>5, <2>1 DEF Grant, FailExhausted
    <3>2. /\ job'[j].attempts = job[j].attempts
          /\ \/ job'[j].status = job[j].status
             \/ job[j].status = "queued" /\ job'[j].status \in {"blocked", "failed"}
      BY <1>3, <1>5, <3>1 DEF JobRecord
    <3> QED
      BY <1>2, <3>1, <3>2, LogKept DEF Live, Final
  <2>2. CASE ~(n > AllowedAttempts(i))
    <3>1. /\ job' = [swept EXCEPT ![i].status = "leased", ![i].attempts = n,
                                  ![i].queue = "ready"]
          /\ \E row : run' = [run EXCEPT ![<<i, n>>] = row] /\ row.status = "leased"
      BY <1>5, <2>2 DEF Grant
    <3>2. n \in 1 .. MaxRuns /\ n = job[i].attempts + 1
      BY <2>2, <1>1, <1>5, LedgerAssumption
      DEF NextAttempt, AllowedAttempts, JobRecord, JobDefinitions
    <3>3. CASE i # j
      <4>1. /\ \A k \in 1 .. MaxRuns : run'[<<j, k>>] = run[<<j, k>>]
            /\ job'[j] = swept[j]
        BY <1>1, <1>3, <3>1, <3>3 DEF RunIds
      <4> QED
        BY <1>2, <1>3, <4>1, LogKept DEF Live, Final
    <3>4. CASE i = j
      <4>1. job'[j].attempts = n /\ job'[j].status = "leased"
        BY <1>3, <1>5, <3>1, <3>4 DEF JobRecord
      <4>2. /\ run'[<<j, n>>].status = "leased"
            /\ \A k \in 1 .. MaxRuns : k # n => run'[<<j, k>>].status = run[<<j, k>>].status
        BY <1>1, <3>1, <3>2, <3>4 DEF RunIds
      <4>3. \A k \in 1 .. MaxRuns : run[<<j, k>>].status \in RunStatuses
        BY <1>1 DEF RunIds, RunRecord
      <4> QED
        BY <1>2, <1>5, <3>2, <3>4, <4>1, <4>2, <4>3, LogExtended
    <3> QED
      BY <3>3, <3>4
  <2> QED
    BY <2>1, <2>2
<1> QED
  BY <1>4, <1>5, LeaseEffect

(* A step of a token holder touches the row of its own run and of the job  *)
(* of that run, and only while the run is live.                            *)
LEMMA HolderLog ==
  ASSUME TypeOK, RunLog, NEW l \in Lanes, NEW j \in Jobs,
         \/ StartRun(l) \/ Heartbeat(l) \/ FinishSucceeded(l)
         \/ \E code \in Codes \cup {"job_spec_invalid"} : FinishFailed(l, code)
  PROVE  JobLog(j)'
<1> DEFINE r == lane[l].run
           i == JobOf(r)
           n == job[i].attempts
<1>1. job \in [Jobs -> JobRecord] /\ run \in [RunIds -> RunRecord]
  BY DEF TypeOK
<1>2. JobLog(j) /\ job[j].attempts \in 0 .. MaxRuns
  BY <1>1 DEF RunLog, JobRecord
<1>3. run[r].status \in Live /\ lane[l].phase # "idle"
  BY DEF StartRun, Heartbeat, FinishSucceeded, FinishFailed, HeldLive, Holds, Live
<1>4. r \in RunIds
  BY <1>3 DEF TypeOK, LaneRecord
<1>5. i \in Jobs /\ r[2] \in 1 .. MaxRuns /\ r = <<i, r[2]>>
  BY <1>4, RunKey
<1>6. r[2] = n /\ job[i].status \in Live
  BY <1>3, <1>4, <1>5, LiveIsLast DEF RunLog
<1>7. CASE Heartbeat(l)
  <2>1. job' = job /\ \A k \in 1 .. MaxRuns : run'[<<j, k>>].status = run[<<j, k>>].status
    BY <1>1, <1>7 DEF Heartbeat, RunRecord, RunIds
  <2> QED
    BY <1>2, <2>1, LogKept
<1>8. ASSUME ~Heartbeat(l)
      PROVE  /\ \A q \in RunIds : q # r => run'[q] = run[q]
             /\ \A k \in Jobs : k # i => job'[k] = job[k]
             /\ job'[i].attempts = n
             /\ \/ run'[r].status \in {"running", "succeeded"} /\ job'[i].status = run'[r].status
                \/ run'[r].status = "failed" /\ job'[i].status \in {"queued", "failed"}
  <2>1. run[r] \in RunRecord /\ job[i] \in JobRecord
    BY <1>1, <1>4, <1>5
  <2>2. CASE StartRun(l)
    <3>1. /\ run' = [run EXCEPT ![r].status = "running"]
          /\ job' = [job EXCEPT ![i].status = "running"]
      BY <2>2 DEF StartRun
    <3> HIDE DEF r, i
    <3> QED
      BY <1>1, <1>4, <1>5, <2>1, <3>1 DEF RunRecord, JobRecord
  <2>3. CASE FinishSucceeded(l)
    <3>1. /\ run' = [run EXCEPT ![r].status = "succeeded"]
          /\ job' = [job EXCEPT ![i].status = "succeeded"]
      BY <2>3 DEF FinishSucceeded
    <3> HIDE DEF r, i
    <3> QED
      BY <1>1, <1>4, <1>5, <2>1, <3>1 DEF RunRecord, JobRecord
  <2>4. ASSUME NEW code \in Codes \cup {"job_spec_invalid"}, FinishFailed(l, code)
        PROVE  /\ \A q \in RunIds : q # r => run'[q] = run[q]
               /\ \A k \in Jobs : k # i => job'[k] = job[k]
               /\ job'[i].attempts = n
               /\ run'[r].status = "failed" /\ job'[i].status \in {"queued", "failed"}
    <3> DEFINE retried == RetryScheduled(code, Definition[i].policy, r[2],
                                         Definition[i].maxAttempts)
               old     == IF retried THEN "queued" ELSE "failed"
    <3>1. /\ run' = [run EXCEPT ![r].status = "failed", ![r].code = code]
          /\ job' = [job EXCEPT ![i].status = old,
                                ![i].queue = IF retried THEN "backoff" ELSE @]
      BY <2>4 DEF FinishFailed
    <3> HIDE DEF retried
    <3>2. PICK queue : job' = [job EXCEPT ![i].status = old, ![i].queue = queue]
      BY <3>1
    <3>3. old \in {"queued", "failed"}
      OBVIOUS
    <3> HIDE DEF old, r, i
    <3>4. /\ run'[r] = [run[r] EXCEPT !.status = "failed", !.code = code]
          /\ job'[i] = [job[i] EXCEPT !.status = old, !.queue = queue]
      BY <1>1, <1>4, <1>5, <3>1, <3>2
    <3>5. /\ \A q \in RunIds : q # r => run'[q] = run[q]
          /\ \A k \in Jobs : k # i => job'[k] = job[k]
      BY <1>1, <3>1, <3>2
    <3> QED
      BY <2>1, <3>3, <3>4, <3>5 DEF RunRecord, JobRecord
  <2> QED
    BY <1>8, <2>2, <2>3, <2>4
<1>9. CASE ~Heartbeat(l) /\ i # j
  <2>1. job'[j] = job[j] /\ \A k \in 1 .. MaxRuns : run'[<<j, k>>] = run[<<j, k>>]
    <3> HIDE DEF r, i
    <3> QED
      BY <1>5, <1>8, <1>9 DEF RunIds
  <2> QED
    BY <1>2, <2>1, LogKept
<1>10. CASE ~Heartbeat(l) /\ i = j
  <2> HIDE DEF r, i
  <2>1. \A k \in 1 .. MaxRuns : k # n => run'[<<j, k>>].status = run[<<j, k>>].status
    BY <1>5, <1>6, <1>8, <1>10 DEF RunIds
  <2>2. r = <<j, n>>
    BY <1>5, <1>6, <1>10
  <2> QED
    BY <1>2, <1>6, <1>8, <1>10, <2>1, <2>2, LogClosed DEF Live, Final
<1> QED
  BY <1>7, <1>9, <1>10

(* Expiry closes the last run of each job it requeues, and no other.       *)
LEMMA ExpireLog ==
  ASSUME TypeOK, RunLog, ExpireLeases, NEW j \in Jobs
  PROVE  JobLog(j)'
<1> DEFINE n == job[j].attempts
<1>1. job \in [Jobs -> JobRecord] /\ run \in [RunIds -> RunRecord]
  BY DEF TypeOK
<1>2. JobLog(j) /\ n \in 0 .. MaxRuns
  BY <1>1 DEF RunLog, JobRecord
<1>3. \A k \in 1 .. MaxRuns :
        run'[<<j, k>>].status = IF <<j, k>> \in LapsedRuns THEN "expired"
                                ELSE run[<<j, k>>].status
  <2>1. \A r \in RunIds :
          /\ run'[r] = IF r \in LapsedRuns THEN [run[r] EXCEPT !.status = "expired"] ELSE run[r]
          /\ run[r] \in RunRecord
    BY <1>1 DEF ExpireLeases
  <2>2. \A r \in RunIds : run'[r].status = IF r \in LapsedRuns THEN "expired" ELSE run[r].status
    BY <2>1 DEF RunRecord
  <2> QED
    BY <2>2 DEF RunIds
<1>4. \A k \in 1 .. MaxRuns : <<j, k>> \in LapsedRuns => k = n /\ job[j].status \in Live
  <2> SUFFICES ASSUME NEW k \in 1 .. MaxRuns, <<j, k>> \in LapsedRuns
               PROVE  k = n /\ job[j].status \in Live
    OBVIOUS
  <2>1. /\ <<j, k>> \in RunIds /\ JobOf(<<j, k>>) = j /\ <<j, k>>[2] = k
        /\ run[<<j, k>>].status \in Live
    BY DEF RunIds, JobOf, LapsedRuns, LiveRuns
  <2> QED
    BY <1>2, <2>1, LiveIsLast
<1>5. CASE \E k \in 1 .. MaxRuns : <<j, k>> \in LapsedRuns
  <2>1. n \in 1 .. MaxRuns /\ <<j, n>> \in LapsedRuns /\ job[j].status \in Live
    BY <1>4, <1>5
  <2>2. \E r \in LapsedRuns : JobOf(r) = j
    BY <2>1 DEF JobOf
  <2>3. job'[j] = [job[j] EXCEPT !.status = "queued", !.queue = "ready"]
    BY <2>1, <2>2 DEF ExpireLeases
  <2>4. job'[j].status = "queued" /\ job'[j].attempts = n
    BY <1>1, <2>3 DEF JobRecord
  <2>5. run'[<<j, n>>].status = "expired"
    BY <1>3, <2>1
  <2>6. \A k \in 1 .. MaxRuns : k # n => run'[<<j, k>>].status = run[<<j, k>>].status
    BY <1>3, <1>4
  <2> QED
    BY <1>2, <2>1, <2>4, <2>5, <2>6, LogClosed DEF Live
<1>6. CASE \A k \in 1 .. MaxRuns : <<j, k>> \notin LapsedRuns
  <2>1. ~\E r \in LapsedRuns : JobOf(r) = j
    BY <1>6, RunKey DEF LapsedRuns, LiveRuns
  <2>2. job'[j] = job[j]
    BY <2>1 DEF ExpireLeases
  <2> QED
    BY <1>2, <1>3, <1>6, <2>2, LogKept
<1> QED
  BY <1>5, <1>6

(* Every step of the ledger keeps the run log.                             *)
LEMMA LogStep == TypeOK /\ RunLog /\ [Next]_vars => RunLog'
<1> SUFFICES ASSUME TypeOK, RunLog, [Next]_vars, NEW j \in Jobs PROVE JobLog(j)'
  BY DEF RunLog
<1>1. run \in [RunIds -> RunRecord] /\ JobLog(j) /\ job[j].attempts \in 0 .. MaxRuns
  BY DEF RunLog, TypeOK, JobRecord
<1>2. CASE UNCHANGED <<job, run>>
  BY <1>1, <1>2, LogKept
<1>3. CASE JobStep
  BY <1>3, JobStepLog DEF JobStep
<1>4. CASE LaneStep
  <2>1. ASSUME NEW l \in Lanes, ResultRefused(l) \/ LaneLost(l) PROVE JobLog(j)'
    BY <1>2, <2>1 DEF ResultRefused, LaneLost
  <2> QED
    BY <1>4, <2>1, LeaseLog, HolderLog DEF LaneStep
<1>5. CASE HubStep
  <2>1. ASSUME NEW r \in RunIds, LeaseLapses(r) PROVE JobLog(j)'
    <3>1. job' = job /\ \A k \in 1 .. MaxRuns : run'[<<j, k>>].status = run[<<j, k>>].status
      BY <1>1, <2>1 DEF LeaseLapses, RunIds, RunRecord
    <3> QED
      BY <1>1, <3>1, LogKept
  <2> QED
    BY <1>2, <1>5, <2>1, ExpireLog
    DEF HubStep, ApplyPipelineState, RequestPipelineState, ActivateDeployment
<1>6. CASE ReconcileStep
  BY <1>2, <1>6 DEF ReconcileStep, Reconcile, ReconcileCancelled, ReconcileRecovered, jobVars
<1>7. CASE UNCHANGED vars
  BY <1>2, <1>7 DEF vars
<1> QED
  BY <1>3, <1>4, <1>5, <1>6, <1>7 DEF Next

(* The runs of every job are a gapless log with at most one live run, the  *)
(* last, whose status the job shows.                                       *)
THEOREM RunLogCorrect == Spec => []RunLog
<1>1. Init => RunLog
  BY LedgerAssumption DEF Init, RunLog, JobLog, RunIds, NoRunYet, Live
<1> QED
  BY <1>1, LogStep, TypeCorrect, PTL DEF Spec

-----------------------------------------------------------------------------
(* History is never rewritten, and a token has one holder.                 *)

(* What a grant adds to the log is a row that was not there.               *)
LEMMA GrantIsNew ==
  ASSUME TypeOK, RunLog, NEW l \in Lanes, LeaseNext(l)
  PROVE  \/ UNCHANGED <<run, lane>>
         \/ \E r \in RunIds :
              /\ run[r].status = "none"
              /\ run' = [run EXCEPT ![r] =
                           [status |-> "leased", machine |-> LaneMachine[l],
                            deployment |-> deployed[LaneMachine[l]], lease |-> "fresh",
                            code |-> "none"]]
              /\ lane' = [lane EXCEPT ![l] = [phase |-> "starting", run |-> r]]
<1> DEFINE queued == {i \in Jobs : job[i].status = "queued"}
<1>1. ASSUME NEW i \in queued, NEW S, Grant(l, i, BlockJobs(S)), ~UNCHANGED <<run, lane>>
      PROVE  \E r \in RunIds :
               /\ run[r].status = "none"
               /\ run' = [run EXCEPT ![r] =
                            [status |-> "leased", machine |-> LaneMachine[l],
                             deployment |-> deployed[LaneMachine[l]], lease |-> "fresh",
                             code |-> "none"]]
               /\ lane' = [lane EXCEPT ![l] = [phase |-> "starting", run |-> r]]
  <2> DEFINE n == NextAttempt(i)
             r == <<i, n>>
  <2>1. ~(n > AllowedAttempts(i))
    BY <1>1 DEF Grant
  <2>2. n \in 1 .. MaxRuns /\ n > job[i].attempts
    BY <2>1, LedgerAssumption
    DEF NextAttempt, AllowedAttempts, TypeOK, JobRecord, JobDefinitions
  <2>3. r \in RunIds /\ run[r].status = "none"
    BY <2>2 DEF RunIds, RunLog, JobLog
  <2> QED
    BY <1>1, <2>1, <2>3 DEF Grant
<1> QED
  BY <1>1, LeaseEffect

(* A row of the log stays, keeps its machine, and is frozen once it ended. *)
LEMMA RowsStay ==
  ASSUME TypeOK, RunLog, [Next]_vars, NEW r \in RunIds, run[r].status # "none"
  PROVE  /\ run'[r].status # "none" /\ run'[r].machine = run[r].machine
         /\ run[r].status \notin Live => run'[r] = run[r]
<1>1. run \in [RunIds -> RunRecord] /\ run[r] \in RunRecord
  BY DEF TypeOK
<1>2. CASE UNCHANGED run
  BY <1>2
<1>3. CASE JobStep
  <2>1. ASSUME NEW j \in Jobs, CancelJob(j)
        PROVE  /\ run'[r].status # "none" /\ run'[r].machine = run[r].machine
               /\ run[r].status \notin Live => run'[r] = run[r]
    <3>1. run'[r] = IF r \in LiveOf(j) THEN [run[r] EXCEPT !.status = "cancelled"] ELSE run[r]
      BY <2>1 DEF CancelJob
    <3>2. r \in LiveOf(j) => run[r].status \in Live
      BY DEF LiveOf, LiveRuns
    <3> QED
      BY <1>1, <3>1, <3>2 DEF RunRecord
  <2> QED
    BY <1>2, <1>3, <2>1 DEF JobStep, CreateJob, ApproveJob, QueueAges
<1>4. CASE LaneStep
  <2> PICK l \in Lanes :
         \/ LeaseNext(l) \/ StartRun(l) \/ Heartbeat(l) \/ FinishSucceeded(l)
         \/ \E code \in Codes \cup {"job_spec_invalid"} : FinishFailed(l, code)
         \/ ResultRefused(l) \/ LaneLost(l)
    BY <1>4 DEF LaneStep
  <2>1. CASE LeaseNext(l)
    BY <1>1, <2>1, GrantIsNew
  <2>2. CASE StartRun(l)
    BY <1>1, <2>2 DEF StartRun, RunRecord, Live
  <2>3. CASE Heartbeat(l)
    BY <1>1, <2>3 DEF Heartbeat, HeldLive, RunRecord
  <2>4. CASE FinishSucceeded(l)
    BY <1>1, <2>4 DEF FinishSucceeded, HeldLive, RunRecord
  <2>5. ASSUME NEW code \in Codes \cup {"job_spec_invalid"}, FinishFailed(l, code)
        PROVE  /\ run'[r].status # "none" /\ run'[r].machine = run[r].machine
               /\ run[r].status \notin Live => run'[r] = run[r]
    BY <1>1, <2>5 DEF FinishFailed, HeldLive, RunRecord
  <2>6. CASE ResultRefused(l) \/ LaneLost(l)
    BY <1>2, <2>6 DEF ResultRefused, LaneLost
  <2> QED
    BY <2>1, <2>2, <2>3, <2>4, <2>5, <2>6
<1>5. CASE HubStep
  <2>1. CASE ExpireLeases
    <3>1. run'[r] = IF r \in LapsedRuns THEN [run[r] EXCEPT !.status = "expired"] ELSE run[r]
      BY <2>1 DEF ExpireLeases
    <3>2. r \in LapsedRuns => run[r].status \in Live
      BY DEF LapsedRuns, LiveRuns
    <3> QED
      BY <1>1, <3>1, <3>2 DEF RunRecord
  <2>2. ASSUME NEW q \in RunIds, LeaseLapses(q)
        PROVE  /\ run'[r].status # "none" /\ run'[r].machine = run[r].machine
               /\ run[r].status \notin Live => run'[r] = run[r]
    BY <1>1, <2>2 DEF LeaseLapses, RunRecord
  <2> QED
    BY <1>2, <1>5, <2>1, <2>2
    DEF HubStep, ApplyPipelineState, RequestPipelineState, ActivateDeployment
<1>6. CASE ReconcileStep
  BY <1>2, <1>6 DEF ReconcileStep, Reconcile, ReconcileCancelled, ReconcileRecovered, jobVars
<1> QED
  BY <1>2, <1>3, <1>4, <1>5, <1>6 DEF Next, vars

(* A result, a heartbeat or an expiry that arrives after the run ended is  *)
(* refused: the rows of ended runs never change.                           *)
THEOREM EndedRunsFinal == Spec => EndedRunsAreFinal
<1>1. TypeOK /\ RunLog /\ [Next]_vars
        => [\A r \in RunIds : run[r].status \notin Live \cup {"none"} => run'[r] = run[r]]_vars
  BY RowsStay
<1> QED
  BY <1>1, TypeCorrect, RunLogCorrect, PTL DEF Spec, EndedRunsAreFinal

(* A token is copied by no step: the lane that steps drops its run, keeps  *)
(* it, or takes one that no lane could have held.                          *)
LEMMA HolderStep == TypeOK /\ RunLog /\ OneHolder /\ [Next]_vars => OneHolder'
<1> SUFFICES ASSUME TypeOK, RunLog, OneHolder, [Next]_vars PROVE OneHolder'
  OBVIOUS
<1>1. /\ lane \in [Lanes -> LaneRecord]
      /\ \A l \in Lanes : Holds(l) <=> lane[l].run \in RunIds
  BY LedgerAssumption DEF TypeOK, LaneRecord, Holds, RunIds
<1>2. \A r \in RunIds : run[r].status # "none" =>
        run'[r].status # "none" /\ run'[r].machine = run[r].machine
  BY RowsStay
<1>3. CASE UNCHANGED lane
  BY <1>1, <1>2, <1>3 DEF OneHolder, Holds
<1>4. ASSUME NEW l \in Lanes, NEW phase, lane' = [lane EXCEPT ![l].phase = phase], Holds(l)
      PROVE  OneHolder'
  <2>1. \A k \in Lanes : lane'[k].run = lane[k].run /\ (lane'[k].phase # "idle" => Holds(k))
    BY <1>1, <1>4 DEF Holds, LaneRecord
  <2> QED
    BY <1>1, <1>2, <2>1 DEF OneHolder, Holds
<1>5. ASSUME NEW l \in Lanes, Idle(l) PROVE OneHolder'
  <2>1. /\ lane'[l].phase = "idle" /\ lane'[l].run = Null
        /\ \A k \in Lanes \ {l} : lane'[k] = lane[k]
    BY <1>1, <1>5 DEF Idle
  <2>2. Null \notin RunIds
    BY LedgerAssumption DEF RunIds
  <2> QED
    BY <1>1, <1>2, <2>1, <2>2 DEF OneHolder, Holds
<1>6. ASSUME NEW l \in Lanes, LeaseNext(l) PROVE OneHolder'
  <2>1. CASE UNCHANGED <<run, lane>>
    BY <1>3, <2>1
  <2>2. CASE ~UNCHANGED <<run, lane>>
    <3>1. PICK r \in RunIds :
            /\ run[r].status = "none"
            /\ run' = [run EXCEPT ![r] =
                         [status |-> "leased", machine |-> LaneMachine[l],
                          deployment |-> deployed[LaneMachine[l]], lease |-> "fresh",
                          code |-> "none"]]
            /\ lane' = [lane EXCEPT ![l] = [phase |-> "starting", run |-> r]]
      BY <1>6, <2>2, GrantIsNew
    <3>2. /\ lane'[l].run = r /\ run'[r].status # "none" /\ run'[r].machine = LaneMachine[l]
          /\ \A k \in Lanes \ {l} : lane'[k] = lane[k]
      BY <1>1, <3>1 DEF TypeOK
    <3>3. \A k \in Lanes \ {l} : lane[k].run # r
      BY <1>1, <3>1 DEF OneHolder
    <3> QED
      BY <1>1, <1>2, <3>2, <3>3 DEF OneHolder, Holds
  <2> QED
    BY <2>1, <2>2
<1>7. ASSUME LaneStep PROVE OneHolder'
  <2> PICK l \in Lanes :
         \/ LeaseNext(l) \/ StartRun(l) \/ Heartbeat(l) \/ FinishSucceeded(l)
         \/ \E code \in Codes \cup {"job_spec_invalid"} : FinishFailed(l, code)
         \/ ResultRefused(l) \/ LaneLost(l)
    BY <1>7 DEF LaneStep
  <2>1. CASE StartRun(l)
    BY <1>4, <2>1 DEF StartRun, Holds
  <2>2. CASE Heartbeat(l)
    BY <1>3, <2>2 DEF Heartbeat
  <2>3. FinishSucceeded(l) \/ ResultRefused(l) \/ LaneLost(l) => Idle(l)
    BY DEF FinishSucceeded, ResultRefused, LaneLost
  <2>4. ASSUME NEW code \in Codes \cup {"job_spec_invalid"}, FinishFailed(l, code)
        PROVE  Idle(l)
    BY <2>4 DEF FinishFailed
  <2> QED
    BY <1>5, <1>6, <2>1, <2>2, <2>3, <2>4
<1>8. CASE JobStep
  BY <1>3, <1>8 DEF JobStep, CreateJob, ApproveJob, CancelJob, QueueAges
<1>9. CASE HubStep
  BY <1>3, <1>9 DEF HubStep, ExpireLeases, ApplyPipelineState, LeaseLapses,
                    RequestPipelineState, ActivateDeployment
<1>10. CASE ReconcileStep
  BY <1>3, <1>10 DEF ReconcileStep, Reconcile, ReconcileCancelled, ReconcileRecovered, jobVars
<1> QED
  BY <1>3, <1>7, <1>8, <1>9, <1>10 DEF Next, vars

(* No two processes ever hold the lease token of one run, and every token  *)
(* held is for a run leased on the holder's machine.                       *)
THEOREM OneHolderCorrect == Spec => []OneHolder
<1>1. Init => OneHolder
  BY DEF Init, OneHolder, Holds
<1> QED
  BY <1>1, HolderStep, TypeCorrect, RunLogCorrect, PTL DEF Spec

(* A job that ended is out of every handler's reach: the token holders act *)
(* on live runs, the lease scan on queued jobs.                            *)
LEMMA TerminalStay ==
  ASSUME TypeOK, RunLog, [Next]_vars, NEW j \in Jobs, job[j].status \in TerminalJob
  PROVE  job'[j].status = job[j].status
<1>1. job \in [Jobs -> JobRecord]
      /\ job[j].status \notin Live \cup {"absent", "awaiting_approval", "queued"}
  BY DEF TypeOK, Live, TerminalJob
<1>2. CASE UNCHANGED job
  BY <1>2
<1>3. CASE JobStep
  BY <1>1, <1>3 DEF JobStep, CreateJob, ApproveJob, CancelJob, QueueAges, TerminalJob
<1>4. CASE LaneStep
  <2> PICK l \in Lanes :
         \/ LeaseNext(l) \/ StartRun(l) \/ Heartbeat(l) \/ FinishSucceeded(l)
         \/ \E code \in Codes \cup {"job_spec_invalid"} : FinishFailed(l, code)
         \/ ResultRefused(l) \/ LaneLost(l)
    BY <1>4 DEF LaneStep
  <2>1. CASE LeaseNext(l)
    <3>1. \A S \in SUBSET {i \in Jobs : job[i].status = "queued"} :
            BlockJobs(S)[j] = job[j] /\ BlockJobs(S) = [i \in Jobs |-> BlockJobs(S)[i]]
      BY <1>1 DEF BlockJobs
    <3>2. ASSUME NEW S \in SUBSET {i \in Jobs : job[i].status = "queued"},
                 NEW i \in Jobs, job[i].status = "queued", Grant(l, i, BlockJobs(S))
          PROVE  job'[j] = job[j]
      <4>1. i # j
        BY <1>1, <3>2
      <4> QED
        BY <3>1, <3>2, <4>1 DEF Grant, FailExhausted
    <3> QED
      BY <2>1, <3>1, <3>2, LeaseEffect
  <2>2. CASE run[lane[l].run].status \in Live /\ lane[l].phase # "idle"
    <3>1. lane[l].run \in RunIds /\ JobOf(lane[l].run) \in Jobs
      BY <2>2, RunKey DEF TypeOK, LaneRecord
    <3>2. JobOf(lane[l].run) # j
      BY <1>1, <2>2, <3>1, LiveIsLast DEF RunLog
    <3> QED
      BY <1>1, <2>1, <3>2
      DEF StartRun, Heartbeat, FinishSucceeded, FinishFailed, ResultRefused, LaneLost
  <2>3. CASE ResultRefused(l) \/ LaneLost(l)
    BY <1>2, <2>3 DEF ResultRefused, LaneLost
  <2> QED
    BY <2>1, <2>2, <2>3
    DEF StartRun, Heartbeat, FinishSucceeded, FinishFailed, HeldLive, Holds, Live
<1>5. CASE HubStep
  <2>1. ExpireLeases => job'[j] = job[j]
    BY <1>1 DEF ExpireLeases
  <2> QED
    BY <1>2, <1>5, <2>1 DEF HubStep, ApplyPipelineState, LeaseLapses, RequestPipelineState,
                            ActivateDeployment
<1>6. CASE ReconcileStep
  BY <1>2, <1>6 DEF ReconcileStep, Reconcile, ReconcileCancelled, ReconcileRecovered, jobVars
<1> QED
  BY <1>2, <1>3, <1>4, <1>5, <1>6 DEF Next, vars

LEMMA SettledStay ==
  ASSUME TypeOK, RunLog, [Next]_vars, NEW j \in Jobs, job[j].status \in {"succeeded", "cancelled"}
  PROVE  job'[j].status = job[j].status
BY TerminalStay DEF TerminalJob

(* No late result, expiry or lease scan reopens a job that succeeded or    *)
(* was cancelled.                                                          *)
THEOREM SettledFinal == Spec => SettledJobsStay
<1>1. TypeOK /\ RunLog /\ [Next]_vars
        => [\A j \in Jobs : job[j].status \in {"succeeded", "cancelled"} =>
              job'[j].status = job[j].status]_vars
  BY SettledStay
<1> QED
  BY <1>1, TypeCorrect, RunLogCorrect, PTL DEF Spec, SettledJobsStay
=============================================================================
