------------------------- MODULE MissionRecoveryProofs -------------------------
(***************************************************************************)
(* The ledger under recovery, for any number of jobs, repairs and crashes: *)
(* what the on-call, the repair coordinator and the disk recovery do       *)
(* between any two transactions of the ledger breaks none of its log, and  *)
(* what they may conclude of an attempt is backed by its evidence.         *)
(*                                                                         *)
(* The theorems of MissionLedgerProofs are about [Next]_vars; a ledger     *)
(* step is one.  The other steps change no run, and a job only to requeue  *)
(* it or to withdraw a waiting response (RequeuesOnly, LedgerOrRequeue).   *)
(***************************************************************************)
EXTENDS MissionRecovery, MissionLedgerIncidentProofs, MissionLedgerPolicyProofs

-----------------------------------------------------------------------------
(* Types.                                                                  *)

(* The attempts of an incident are numbered from one, without gaps, and an *)
(* incident that was never opened has none.                                *)
Numbered(a)  == repair[a].state # "none" <=> a[2] <= incident[a[1]].started
Unopened(r)  == incident[r].state = "none" => incident[r].started = 0

(* What an attempt's evidence says in each of its states: a retry of the   *)
(* job follows the repair, and no attempt verifies before that retry.      *)
Repaired == {"mutation", "tests", "deployment"}
EvidenceInOrder(row) ==
  /\ row.state \in {"planned", "applying"} => row.strategy = "principal_authorized_repair"
  /\ row.strategy = "principal_authorized_repair" /\ "job_retry" \in row.evidence =>
       Repaired \subseteq row.evidence
  /\ row.state \in {"verifying", "succeeded"} => "job_retry" \in row.evidence

AttemptsOK ==
  /\ \A r \in RunIds : Unopened(r)
  /\ \A a \in AttemptIds : Numbered(a) /\ EvidenceInOrder(repair[a])

(* Where the tick thread is tells what it works on, and what the attempt   *)
(* it works on already shows.                                              *)
WorksOn(a) ==
  /\ a \in AttemptIds /\ a[1] = hub.incident
  /\ repair[a].state # "none" /\ repair[a].strategy = "principal_authorized_repair"
  /\ hub.phase \in {"repaired", "requeued", "recorded", "restarting"} =>
       Repaired \subseteq repair[a].evidence
  /\ hub.phase \in {"recorded", "restarting"} => "job_retry" \in repair[a].evidence
ThreadOK ==
  /\ ~At("idle") => hub.incident \in RunIds /\ incident[hub.incident].state # "none"
  /\ hub.phase \notin {"idle", "starting"} => WorksOn(hub.attempt)

RecoveryInv == RecoveryTypeOK /\ RunLog /\ EndedIncidents /\ AttemptsOK /\ ThreadOK

LEMMA LedgerStepIsNext == LedgerStep => [Next]_vars /\ UNCHANGED <<hub, disk, noticed, reply>>
BY DEF LedgerStep, Next, restVars

LEMMA LedgerTyped == TypeOK /\ [Next]_vars => TypeOK'
<1> SUFFICES ASSUME TypeOK, [Next]_vars PROVE TypeOK'
  OBVIOUS
<1>1. CASE UNCHANGED vars
  BY <1>1 DEF vars, TypeOK
<1> QED
  BY <1>1, JobStepTyped, LaneStepTyped, HubStepTyped, ReconcileTyped DEF Next

LEMMA AttemptKey ==
  ASSUME NEW a \in AttemptIds
  PROVE  a[1] \in RunIds /\ a[2] \in 1 .. MaxRepairs /\ a = <<a[1], a[2]>>
BY DEF AttemptIds

LEMMA PhaseTyped ==
  ASSUME NEW h \in HubRecord, NEW p \in HubPhases
  PROVE  [h EXCEPT !.phase = p] \in HubRecord
BY DEF HubRecord

LEMMA IdleTyped == HubIdle \in HubRecord /\ DiskIdle \in DiskRecord
BY LedgerAssumption DEF HubIdle, HubRecord, HubPhases, DiskIdle, DiskRecord, DiskPhases

(* fail_attempt.                                                           *)
LEMMA FailTyped ==
  ASSUME TypeOK, NEW a \in AttemptIds, FailAttempt(a)
  PROVE  /\ repair' \in [AttemptIds -> RepairRecord]
         /\ incident' \in [RunIds -> IncidentRecord]
<1>0. incident \in [RunIds -> IncidentRecord]
  BY DEF TypeOK
<1>1. \A i \in RunIds : AfterFailedAttempt(incident[i]) \in IncidentRecord
  BY <1>0 DEF AfterFailedAttempt, IncidentRecord, IncidentStates, Blockers
<1>2. repair' \in [AttemptIds -> RepairRecord]
  BY DEF TypeOK, FailAttempt, RepairRecord, AttemptStates
<1>3. incident' \in [RunIds -> IncidentRecord]
  BY <1>1 DEF TypeOK, FailAttempt
<1> QED
  BY <1>2, <1>3

LEMMA GainsTyped ==
  ASSUME TypeOK, NEW a, NEW kinds \in SUBSET ActionKinds, Gains(a, kinds)
  PROVE  repair' \in [AttemptIds -> RepairRecord]
BY DEF TypeOK, Gains, RepairRecord

LEMMA OnCallTyped == RecoveryTypeOK /\ ThreadOK /\ OnCallStep => RecoveryTypeOK'
<1> SUFFICES ASSUME RecoveryTypeOK, ThreadOK, OnCallStep PROVE RecoveryTypeOK'
  OBVIOUS
<1>1. TypeOK /\ hub \in HubRecord /\ disk \in DiskRecord /\ noticed \subseteq RunIds
      /\ incident \in [RunIds -> IncidentRecord]
  BY DEF RecoveryTypeOK, TypeOK
<1>2. CASE StartAuthorizedRepair
  <2> DEFINE r == hub.incident
             n == NextOrdinal(r)
  <2>1. r \in RunIds /\ n \in Nat /\ n >= 1
    BY <1>1, <1>2, LedgerAssumption
    DEF StartAuthorizedRepair, ThreadOK, At, NextOrdinal, IncidentRecord
  <2>2. CASE UNCHANGED <<incident, repair>>
    BY <1>1, <1>2, <2>2, IdleTyped
    DEF StartAuthorizedRepair, Done, RecoveryTypeOK, TypeOK, jobVars, restVars
  <2>3. CASE ~UNCHANGED <<incident, repair>>
    <3>1. /\ n <= MaxRepairs
          /\ repair' = [repair EXCEPT ![<<r, n>>] =
               [state |-> "planned", strategy |-> "principal_authorized_repair", evidence |-> {}]]
          /\ incident' = [incident EXCEPT
               ![r].state = "repairing", ![r].allowed = TRUE, ![r].started = n,
               ![r].budget = IF @ >= n THEN @ ELSE n, ![r].blocker = "none"]
      BY <1>2, <2>3 DEF StartAuthorizedRepair
    <3>2. repair' \in [AttemptIds -> RepairRecord]
      BY <1>1, <3>1 DEF TypeOK, RepairRecord, AttemptStates, Strategies
    <3>3. n \in 0 .. MaxRepairs
      BY <2>1, <3>1, LedgerAssumption
    <3> HIDE DEF n, r
    <3> DEFINE b   == IF incident[r].budget >= n THEN incident[r].budget ELSE n
               row == [incident[r] EXCEPT !.state = "repairing", !.allowed = TRUE,
                                          !.started = n, !.budget = b, !.blocker = "none"]
    <3>4. incident' = [incident EXCEPT ![r] = row]
      BY <1>1, <2>1, <3>1 DEF IncidentRecord
    <3>5. b \in Nat
      BY <1>1, <2>1 DEF IncidentRecord
    <3> HIDE DEF b
    <3>6. row \in IncidentRecord
      BY <1>1, <2>1, <3>3, <3>5 DEF IncidentRecord, IncidentStates, Blockers
    <3> HIDE DEF row
    <3>7. incident' \in [RunIds -> IncidentRecord]
      BY <1>1, <3>4, <3>6
    <3> QED
      BY <1>1, <1>2, <3>2, <3>7, IdleTyped
      DEF StartAuthorizedRepair, Done, RecoveryTypeOK, TypeOK, jobVars, restVars
  <2> QED
    BY <2>2, <2>3
<1>3. ASSUME NEW r \in RunIds, BeginRepair(r) PROVE RecoveryTypeOK'
  <2>1. hub' \in HubRecord
    BY <1>3, IdleTyped DEF BeginRepair, HubRecord, HubPhases
  <2>2. pipeline' \in [desired : {"running", "paused"}, applied : {"running", "paused"}]
    BY <1>1, <1>3 DEF BeginRepair, TypeOK
  <2> QED
    BY <1>1, <1>3, <2>1, <2>2
    DEF BeginRepair, RecoveryTypeOK, TypeOK, jobVars, incidentVars, restVars
<1>4. ASSUME NEW r \in RunIds, BlockIncident(r) PROVE RecoveryTypeOK'
  <2>1. [incident[r] EXCEPT !.state = "blocked", !.blocker = "human_authority"]
          \in IncidentRecord
    BY <1>1, <1>4 DEF IncidentRecord, IncidentStates, Blockers
  <2>2. incident' = [incident EXCEPT ![r] = [@ EXCEPT !.state = "blocked",
                                                      !.blocker = "human_authority"]]
    BY <1>1, <1>4 DEF BlockIncident
  <2>3. incident' \in [RunIds -> IncidentRecord]
    BY <1>1, <2>1, <2>2
  <2> QED
    BY <1>1, <1>4, <2>3 DEF BlockIncident, RecoveryTypeOK, TypeOK, jobVars, restVars
<1>5. ASSUME NEW t \in Jobs, Settles(t) PROVE RecoveryTypeOK'
  <2>1. \A r \in RunIds :
          [incident[r] EXCEPT !.state = "recovered", !.allowed = FALSE, !.blocker = "none"]
            \in IncidentRecord
    BY <1>1 DEF IncidentRecord, IncidentStates, Blockers
  <2>2. incident' \in [RunIds -> IncidentRecord]
    BY <1>1, <1>5, <2>1 DEF Settles, CloseSuperseded
  <2>3. reply' \in [Jobs -> {"open", "blocked", "succeeded"}]
    BY <1>5 DEF Settles, RecoveryTypeOK
  <2> QED
    BY <1>1, <1>5, <2>2, <2>3 DEF Settles, RecoveryTypeOK, TypeOK, jobVars
<1>6. ASSUME NEW a \in AttemptIds, OnCallRetries(a) PROVE RecoveryTypeOK'
  <2>1. hub' \in HubRecord
    BY <1>6, IdleTyped, AttemptKey DEF OnCallRetries, HubRecord, HubPhases
  <2> QED
    BY <1>1, <1>6, <2>1 DEF OnCallRetries, RecoveryTypeOK, TypeOK, vars, restVars
<1>7. \A t \in Jobs : AnswerMessage(t) \/ ReconcileBlocked(t) => \E q \in Jobs : Settles(q)
  BY RecoveryAssumption DEF AnswerMessage, ReconcileBlocked
<1> QED
  BY <1>2, <1>3, <1>4, <1>5, <1>6, <1>7 DEF OnCallStep

LEMMA CoordinatorTyped == RecoveryTypeOK /\ ThreadOK /\ CoordinatorStep => RecoveryTypeOK'
<1> SUFFICES ASSUME RecoveryTypeOK, ThreadOK, CoordinatorStep PROVE RecoveryTypeOK'
  OBVIOUS
<1>1. TypeOK /\ hub \in HubRecord /\ disk \in DiskRecord /\ noticed \subseteq RunIds
      /\ repair \in [AttemptIds -> RepairRecord] /\ incident \in [RunIds -> IncidentRecord]
  BY DEF RecoveryTypeOK, TypeOK
<1>2. \A p \in HubPhases : Advance(p) => hub' \in HubRecord
  BY <1>1, PhaseTyped DEF Advance
<1>3. Done => hub' \in HubRecord
  BY IdleTyped DEF Done
<1>4. hub.phase \notin {"idle", "starting"} => hub.attempt \in AttemptIds /\ hub.incident \in RunIds
  BY DEF ThreadOK, WorksOn, At
<1>5. ASSUME NEW a \in AttemptIds, PreserveEvidence(a) PROVE RecoveryTypeOK'
  <2>1. hub' \in HubRecord
    BY <1>5, IdleTyped, AttemptKey DEF PreserveEvidence, HubRecord, HubPhases
  <2>2. repair' \in [AttemptIds -> RepairRecord]
    BY <1>1, <1>5, GainsTyped DEF PreserveEvidence, ActionKinds
  <2> QED
    BY <1>1, <1>5, <2>1, <2>2 DEF PreserveEvidence, RecoveryTypeOK, TypeOK, jobVars, restVars
<1>6. CASE MarkApplying
  <2>1. repair' \in [AttemptIds -> RepairRecord] /\ hub' \in HubRecord
    BY <1>1, <1>2, <1>6 DEF MarkApplying, RepairRecord, AttemptStates, HubPhases
  <2> QED
    BY <1>1, <1>6, <2>1 DEF MarkApplying, RecoveryTypeOK, TypeOK, jobVars, restVars
<1>7. CASE DriverDeploys
  <2>1. PICK d \in 1 .. MaxDeployments :
          /\ deployed' = [deployed EXCEPT ![TargetMachine] = d]
          /\ hub' = [hub EXCEPT !.phase = "deployed", !.deployment = d]
    BY <1>7 DEF DriverDeploys
  <2>2. d \in 0 .. MaxDeployments
    BY LedgerAssumption
  <2>3. hub' \in HubRecord
    BY <1>1, <2>1, <2>2 DEF HubRecord, HubPhases
  <2>4. deployed' \in [Machines -> 1 .. MaxDeployments]
    BY <1>1, <2>1 DEF TypeOK
  <2> QED
    BY <1>1, <1>7, <2>3, <2>4
    DEF DriverDeploys, RecoveryTypeOK, TypeOK, jobVars, incidentVars, restVars
<1>8. CASE DriverFails
  <2>1. FailAttempt(hub.attempt) /\ hub.attempt \in AttemptIds
    BY <1>4, <1>8 DEF DriverFails, At
  <2> QED
    BY <1>1, <1>3, <1>8, <2>1, FailTyped
    DEF DriverFails, RecoveryTypeOK, TypeOK, jobVars, restVars
<1>9. CASE RecordOutcome
  <2>1. repair' \in [AttemptIds -> RepairRecord] /\ hub' \in HubRecord
    BY <1>1, <1>2, <1>9, GainsTyped DEF RecordOutcome, ActionKinds, HubPhases
  <2> QED
    BY <1>1, <1>9, <2>1 DEF RecordOutcome, RecoveryTypeOK, TypeOK, jobVars, restVars
<1>10. CASE RetryRepairedJob
  <2> DEFINE j == JobOf(hub.incident)
  <2>1. j \in Jobs /\ job[j] \in JobRecord /\ job[j].restarts < MaxRestarts
    BY <1>1, <1>4, <1>10, RunKey DEF RetryRepairedJob, At, TypeOK
  <2>2. job[j].restarts + 1 \in 0 .. MaxRestarts
    BY <2>1, LedgerAssumption DEF JobRecord
  <2>3. job' = [job EXCEPT ![j] = [@ EXCEPT !.status = "queued", !.queue = "ready",
                                            !.restarts = job[j].restarts + 1]]
    BY <1>1, <1>10, <2>1 DEF RetryRepairedJob, TypeOK
  <2> HIDE DEF j
  <2>4. job' \in [Jobs -> JobRecord]
    BY <1>1, <2>1, <2>2, <2>3 DEF TypeOK, JobRecord, JobStatuses
  <2>5. hub' \in HubRecord
    BY <1>2, <1>10 DEF RetryRepairedJob, HubPhases
  <2> QED
    BY <1>1, <1>10, <2>4, <2>5
    DEF RetryRepairedJob, RecoveryTypeOK, TypeOK, incidentVars, restVars
<1>11. CASE RetryRefused
  <2>1. \/ FailAttempt(hub.attempt) /\ hub.attempt \in AttemptIds
        \/ UNCHANGED <<repair, incident>>
    BY <1>4, <1>11 DEF RetryRefused, At
  <2> QED
    BY <1>1, <1>3, <1>11, <2>1, FailTyped
    DEF RetryRefused, RecoveryTypeOK, TypeOK, jobVars, restVars
<1>12. CASE RecordRetry
  <2>1. repair' \in [AttemptIds -> RepairRecord] /\ hub' \in HubRecord
    BY <1>1, <1>2, <1>12, GainsTyped DEF RecordRetry, ActionKinds, HubPhases
  <2> QED
    BY <1>1, <1>12, <2>1 DEF RecordRetry, RecoveryTypeOK, TypeOK, jobVars, restVars
<1>13. CASE MarkRetrying
  <2>1. repair' \in [AttemptIds -> RepairRecord]
    BY <1>1, <1>13 DEF MarkRetrying, RepairRecord, AttemptStates
  <2>2. incident' \in [RunIds -> IncidentRecord]
    BY <1>1, <1>13 DEF MarkRetrying, IncidentRecord, IncidentStates
  <2>3. hub' \in HubRecord
    BY <1>2, <1>13 DEF MarkRetrying, HubPhases
  <2> QED
    BY <1>1, <1>13, <2>1, <2>2, <2>3 DEF MarkRetrying, RecoveryTypeOK, TypeOK, jobVars, restVars
<1>14. CASE RestartPipeline
  <2>1. pipeline' \in [desired : {"running", "paused"}, applied : {"running", "paused"}]
    BY <1>1, <1>14 DEF RestartPipeline, TypeOK
  <2> QED
    BY <1>1, <1>3, <1>14, <2>1
    DEF RestartPipeline, RecoveryTypeOK, TypeOK, jobVars, incidentVars, restVars
<1> QED
  BY <1>5, <1>6, <1>7, <1>8, <1>9, <1>10, <1>11, <1>12, <1>13, <1>14 DEF CoordinatorStep

LEMMA RequeuedTyped ==
  ASSUME NEW row \in JobRecord, NEW n \in 0 .. MaxRestarts
  PROVE  [row EXCEPT !.status = "queued", !.queue = "ready", !.restarts = n] \in JobRecord
BY DEF JobRecord, JobStatuses

(* The incidents of one job are finitely many, whatever the set of jobs.   *)
LEMMA OneJobFinite ==
  ASSUME NEW j \in Jobs, NEW S \in SUBSET RunIds
  PROVE  LET of == {r \in S : JobOf(r) = j} IN
         IsFiniteSet(of) /\ Cardinality(of) \in Nat /\ (of # {} => Cardinality(of) >= 1)
<1> DEFINE of == {r \in S : JobOf(r) = j}
<1>1. of \in SUBSET ({j} \X (1 .. MaxRuns))
  <2> SUFFICES ASSUME NEW r \in of PROVE r \in {j} \X (1 .. MaxRuns)
    OBVIOUS
  <2>1. r \in RunIds /\ JobOf(r) = j
    OBVIOUS
  <2> QED
    BY <2>1 DEF RunIds, JobOf
<1>2. IsFiniteSet({j} \X (1 .. MaxRuns))
  <2>1. IsFiniteSet({j})
    BY FS_Singleton, Zenon
  <2>2. IsFiniteSet(1 .. MaxRuns)
    BY FS_Interval, LedgerAssumption
  <2> QED
    BY <2>1, <2>2, FS_Product
<1>3. IsFiniteSet(of)
  BY <1>1, <1>2, FS_Subset
<1> HIDE DEF of
<1>4. Cardinality(of) \in Nat /\ (of # {} => Cardinality(of) # 0)
  BY <1>3, FS_CardinalityType, FS_EmptySet
<1> QED
  BY <1>3, <1>4 DEF of

(* The transaction that puts a batch back.                                 *)
LEMMA RestoreTyped ==
  ASSUME RecoveryTypeOK, NEW batch \in SUBSET RunIds, RestoreWork(batch)
  PROVE  /\ TypeOK' /\ hub' = hub /\ noticed' = noticed
         /\ reply' \in [Jobs -> {"open", "blocked", "succeeded"}]
<1>1. TypeOK /\ repair \in [AttemptIds -> RepairRecord] /\ incident \in [RunIds -> IncidentRecord]
      /\ job \in [Jobs -> JobRecord] /\ reply \in [Jobs -> {"open", "blocked", "succeeded"}]
  BY DEF RecoveryTypeOK, TypeOK
<1> DEFINE of(j) == {r \in batch : JobOf(r) = j}
           requeued(j) == [job[j] EXCEPT !.status = "queued", !.queue = "ready",
                                         !.restarts = @ + Cardinality(of(j))]
           withdrawn(j) == [job[j] EXCEPT !.status = "cancelled"]
           verifying(r) == [incident[r] EXCEPT !.state = "verifying", !.started = @ + 1,
                                               !.blocker = "none"]
<1>2. ASSUME NEW j \in Jobs PROVE requeued(j) \in JobRecord /\ withdrawn(j) \in JobRecord
  <2> DEFINE c == Cardinality(of(j))
  <2>1. c \in Nat
    BY OneJobFinite
  <2>2. job[j].restarts + c <= MaxRestarts
    BY DEF RestoreWork
  <2>3. job[j] \in JobRecord
    BY <1>1
  <2> HIDE DEF c
  <2>4. job[j].restarts + c \in 0 .. MaxRestarts
    BY <2>1, <2>2, <2>3, LedgerAssumption DEF JobRecord
  <2>5. requeued(j) \in JobRecord
    BY <2>3, <2>4, RequeuedTyped DEF c
  <2>6. withdrawn(j) \in JobRecord
    BY <2>3 DEF JobRecord, JobStatuses
  <2> QED
    BY <2>5, <2>6
<1>3. PICK T \in SUBSET MessagesOn(batch) : \E gone \in SUBSET WaitingOn(T) :
        /\ reply' = [t \in Jobs |-> IF t \in T THEN "blocked" ELSE reply[t]]
        /\ job' = [j \in Jobs |-> IF of(j) # {} THEN requeued(j)
                                   ELSE IF j \in gone THEN withdrawn(j) ELSE job[j]]
  BY DEF RestoreWork
<1>4. ASSUME NEW r \in batch PROVE verifying(r) \in IncidentRecord
  <2>1. incident[r] \in IncidentRecord /\ incident[r].started < MaxRepairs
    BY <1>1 DEF RestoreWork
  <2>2. incident[r].started + 1 \in 0 .. MaxRepairs
    BY <2>1, LedgerAssumption DEF IncidentRecord
  <2> QED
    BY <2>1, <2>2 DEF IncidentRecord, IncidentStates, Blockers
<1>5. incident' = [r \in RunIds |-> IF r \in batch THEN verifying(r) ELSE incident[r]]
  BY DEF RestoreWork
<1> HIDE DEF requeued, withdrawn, verifying
<1>6. job' \in [Jobs -> JobRecord]
  BY <1>1, <1>2, <1>3
<1>7. incident' \in [RunIds -> IncidentRecord]
  BY <1>1, <1>4, <1>5
<1>8. repair' \in [AttemptIds -> RepairRecord]
  BY <1>1 DEF RestoreWork, RepairRecord, AttemptStates, Strategies, ActionKinds
<1>9. reply' \in [Jobs -> {"open", "blocked", "succeeded"}]
  BY <1>1, <1>3
<1> QED
  BY <1>1, <1>6, <1>7, <1>8, <1>9 DEF RestoreWork, TypeOK

LEMMA DiskTyped == RecoveryTypeOK /\ DiskStep => RecoveryTypeOK'
<1> SUFFICES ASSUME RecoveryTypeOK, DiskStep PROVE RecoveryTypeOK'
  OBVIOUS
<1>1. TypeOK /\ hub \in HubRecord /\ disk \in DiskRecord /\ noticed \subseteq RunIds
      /\ repair \in [AttemptIds -> RepairRecord] /\ incident \in [RunIds -> IncidentRecord]
      /\ job \in [Jobs -> JobRecord]
  BY DEF RecoveryTypeOK, TypeOK
<1>2. DiskFailures \subseteq RunIds /\ disk.pending \subseteq RunIds
  BY <1>1 DEF DiskFailures, DiskRecord
<1>3. CASE DiskPauses
  <2>1. pipeline' \in [desired : {"running", "paused"}, applied : {"running", "paused"}]
    BY <1>1, <1>3 DEF DiskPauses, TypeOK
  <2> QED
    BY <1>1, <1>3, <2>1
    DEF DiskPauses, RecoveryTypeOK, TypeOK, jobVars, incidentVars, restVars
<1>4. CASE DiskCleans
  <2>1. disk' \in DiskRecord /\ noticed' \subseteq RunIds
    BY <1>1, <1>2, <1>4 DEF DiskCleans, DiskRecord, DiskPhases
  <2> QED
    BY <1>1, <1>4, <2>1 DEF DiskCleans, RecoveryTypeOK, TypeOK, vars
<1>5. CASE DiskRestored
  <2>1. disk' \in DiskRecord
    BY <1>1, <1>5 DEF DiskRestored, DiskRecord, DiskPhases
  <2> QED
    BY <1>1, <1>5, <2>1 DEF DiskRestored, RecoveryTypeOK, TypeOK, vars
<1>6. CASE DiskRequeues
  <2>1. disk' \in DiskRecord
    BY <1>1, <1>6 DEF DiskRequeues, DiskRecord, DiskPhases
  <2> QED
    BY <1>1, <1>2, <1>6, <2>1, RestoreTyped DEF DiskRequeues, RecoveryTypeOK
<1>7. CASE DiskGivesUp
  BY <1>1, <1>2, <1>7, IdleTyped DEF DiskGivesUp, RecoveryTypeOK, TypeOK, vars
<1>8. CASE DiskRestarts
  <2>1. pipeline' \in [desired : {"running", "paused"}, applied : {"running", "paused"}]
    BY <1>1, <1>8 DEF DiskRestarts, TypeOK
  <2> QED
    BY <1>1, <1>8, <2>1, IdleTyped
    DEF DiskRestarts, RecoveryTypeOK, TypeOK, jobVars, incidentVars
<1> QED
  BY <1>3, <1>4, <1>5, <1>6, <1>7, <1>8 DEF DiskStep

(* The operator's steps.                                                   *)
LEMMA RequeuedAloneTyped ==
  ASSUME TypeOK, NEW j \in Jobs,
         job' = [job EXCEPT ![j].status = "queued", ![j].queue = "ready"]
  PROVE  job' \in [Jobs -> JobRecord]
BY DEF TypeOK, JobRecord, JobStatuses

LEMMA OperatorTyped == RecoveryTypeOK /\ OperatorStep => RecoveryTypeOK'
<1> SUFFICES ASSUME RecoveryTypeOK, OperatorStep PROVE RecoveryTypeOK'
  OBVIOUS
<1>1. TypeOK
  BY DEF RecoveryTypeOK
<1>2. CASE OperatorRestores
  <2>1. PICK batch \in SUBSET {r \in RunIds : Retryable(r)} : RestoreWork(batch)
    BY <1>2 DEF OperatorRestores
  <2>2. batch \in SUBSET RunIds
    OBVIOUS
  <2> QED
    BY <1>2, <2>1, <2>2, RestoreTyped DEF OperatorRestores, RecoveryTypeOK
<1>3. ASSUME NEW j \in Jobs, RetryFailedStage(j) \/ RecoverQueueExpired(j) PROVE RecoveryTypeOK'
  <2>1. job' \in [Jobs -> JobRecord]
    BY <1>1, <1>3, RequeuedAloneTyped DEF RetryFailedStage, RecoverQueueExpired
  <2> QED
    BY <1>1, <1>3, <2>1
    DEF RetryFailedStage, RecoverQueueExpired, RecoveryTypeOK, TypeOK, incidentVars, restVars
<1> QED
  BY <1>2, <1>3 DEF OperatorStep

LEMMA StepTyped == RecoveryTypeOK /\ ThreadOK /\ [RecoveryNext]_recoveryVars => RecoveryTypeOK'
<1> SUFFICES ASSUME RecoveryTypeOK, ThreadOK, [RecoveryNext]_recoveryVars PROVE RecoveryTypeOK'
  OBVIOUS
<1>1. CASE LedgerStep
  BY <1>1, LedgerStepIsNext, LedgerTyped DEF RecoveryTypeOK
<1>2. CASE NoticeStep \/ DaemonCrash
  BY <1>2, IdleTyped DEF NoticeStep, Notify, DaemonCrash, Done, RecoveryTypeOK, TypeOK, vars
<1>3. CASE UNCHANGED recoveryVars
  BY <1>3 DEF recoveryVars, RecoveryTypeOK, TypeOK
<1> QED
  BY <1>1, <1>2, <1>3, OnCallTyped, CoordinatorTyped, DiskTyped, OperatorTyped DEF RecoveryNext

-----------------------------------------------------------------------------
(* Runs and jobs.                                                          *)

(* A step above the ledger.                                                *)
RecoveryStep ==
  OnCallStep \/ CoordinatorStep \/ DiskStep \/ NoticeStep \/ OperatorStep \/ DaemonCrash

(* It touches a job in four ways.  A failed job is put back as one more of *)
(* its counted restarts; a failed stage is retried on an attempt it has    *)
(* left, after a failure of the infrastructure; a stage that never ran is  *)
(* put back; and a response that waits is withdrawn.                       *)
SameTally(j) == job'[j].attempts = job[j].attempts /\ job'[j].restarts = job[j].restarts
PutBack(j) ==
  /\ job[j].status = "failed" /\ job'[j].status = "queued"
  /\ job'[j].attempts = job[j].attempts /\ job'[j].restarts >= job[j].restarts + 1
StageRetried(j) ==
  /\ job[j].status = "failed" /\ job'[j].status = "queued" /\ SameTally(j)
  /\ AttemptsLeft(j) /\ run[LastRun(j)].code \notin DeterministicSpecification
StageResumed(j) ==
  /\ job[j].status = "blocked" /\ job'[j].status = "queued" /\ SameTally(j)
  /\ job[j].attempts = 0
Withdrawn(j) ==
  /\ IsRespond(j) /\ job[j].status = "queued" /\ job'[j].status = "cancelled" /\ SameTally(j)

Requeued(j) == PutBack(j) \/ StageRetried(j) \/ StageResumed(j)
Touched(j)  == Requeued(j) \/ Withdrawn(j)

LEMMA RestoreTouches ==
  ASSUME TypeOK, NEW batch \in SUBSET RunIds, RestoreWork(batch)
  PROVE  \A j \in Jobs : job'[j] = job[j] \/ Touched(j)
<1> SUFFICES ASSUME NEW j \in Jobs PROVE job'[j] = job[j] \/ Touched(j)
  OBVIOUS
<1> DEFINE of == {r \in batch : JobOf(r) = j}
           c  == Cardinality(of)
<1>1. job[j] \in JobRecord
  BY DEF TypeOK
<1>2. CASE of # {}
  <2>1. job'[j] = [job[j] EXCEPT !.status = "queued", !.queue = "ready", !.restarts = @ + c]
    BY <1>2 DEF RestoreWork
  <2>2. c \in Nat /\ c >= 1
    BY <1>2, OneJobFinite
  <2>3. job[j].status = "failed"
    BY <1>2 DEF RestoreWork, BatchAllowed, Retryable
  <2> HIDE DEF c
  <2> QED
    BY <1>1, <2>1, <2>2, <2>3 DEF Touched, Requeued, PutBack, JobRecord
<1>3. CASE of = {}
  <2>1. \/ job'[j] = job[j]
        \/ /\ \E T : j \in WaitingOn(T)
           /\ job'[j] = [job[j] EXCEPT !.status = "cancelled"]
    BY <1>3 DEF RestoreWork
  <2> QED
    BY <1>1, <2>1 DEF WaitingOn, Touched, Withdrawn, SameTally, JobRecord
<1> QED
  BY <1>2, <1>3

LEMMA OperatorTouches ==
  ASSUME RecoveryTypeOK, OperatorStep
  PROVE  /\ UNCHANGED <<run, plan, lane, latest, block>>
         /\ \A j \in Jobs : job'[j] = job[j] \/ Touched(j)
<1>1. TypeOK /\ job \in [Jobs -> JobRecord]
  BY DEF RecoveryTypeOK, TypeOK
<1>2. CASE OperatorRestores
  <2>1. PICK batch \in SUBSET {r \in RunIds : Retryable(r)} : RestoreWork(batch)
    BY <1>2 DEF OperatorRestores
  <2>2. batch \in SUBSET RunIds
    OBVIOUS
  <2> QED
    BY <1>1, <2>1, <2>2, RestoreTouches DEF RestoreWork
<1>3. ASSUME NEW i \in Jobs, RetryFailedStage(i) \/ RecoverQueueExpired(i),
             NEW j \in Jobs
      PROVE  job'[j] = job[j] \/ Touched(j)
  <2>1. job' = [job EXCEPT ![i].status = "queued", ![i].queue = "ready"]
    BY <1>3 DEF RetryFailedStage, RecoverQueueExpired
  <2>2. CASE j # i
    BY <1>1, <2>1, <2>2
  <2>3. CASE j = i
    <3>1. job'[j].status = "queued" /\ SameTally(j)
      BY <1>1, <2>1, <2>3 DEF SameTally, JobRecord
    <3>2. RetryFailedStage(j) => StageRetried(j)
      BY <3>1 DEF RetryFailedStage, FailedJob, StageRetried, OperationalTransient,
                  DeterministicSpecification
    <3>3. RecoverQueueExpired(j) => StageResumed(j)
      BY <3>1 DEF RecoverQueueExpired, StageResumed
    <3> QED
      BY <1>3, <2>3, <3>2, <3>3 DEF Touched, Requeued
  <2> QED
    BY <2>2, <2>3
<1>4. ASSUME NEW i \in Jobs, RetryFailedStage(i) \/ RecoverQueueExpired(i)
      PROVE  UNCHANGED <<run, plan, lane, latest, block>>
  BY <1>4 DEF RetryFailedStage, RecoverQueueExpired, incidentVars
<1> QED
  BY <1>2, <1>3, <1>4 DEF OperatorStep

LEMMA RequeuesOnly ==
  ASSUME RecoveryTypeOK, ThreadOK, RecoveryStep
  PROVE  /\ UNCHANGED <<run, plan, lane, latest, block>>
         /\ \A j \in Jobs : job'[j] = job[j] \/ Touched(j)
<1>1. TypeOK /\ job \in [Jobs -> JobRecord] /\ disk.pending \in SUBSET RunIds
  BY DEF RecoveryTypeOK, TypeOK, DiskRecord
<1>2. CASE OnCallStep
  BY <1>2 DEF OnCallStep, StartAuthorizedRepair, BeginRepair, BlockIncident, AnswerMessage,
              ReconcileBlocked, Settles, OnCallRetries, jobVars, incidentVars, vars
<1>3. CASE RetryRepairedJob
  <2> DEFINE i == JobOf(hub.incident)
  <2>1. i \in Jobs
    BY <1>3, RunKey DEF RetryRepairedJob, ThreadOK, At
  <2>2. job[i].status = "failed"
    BY <1>3 DEF RetryRepairedJob, RetryAllowed, FailedJob
  <2>3. job' = [job EXCEPT ![i].status = "queued", ![i].queue = "ready", ![i].restarts = @ + 1]
    BY <1>3 DEF RetryRepairedJob
  <2> HIDE DEF i
  <2>4. PutBack(i) /\ \A j \in Jobs \ {i} : job'[j] = job[j]
    BY <1>1, <2>1, <2>2, <2>3 DEF PutBack, JobRecord
  <2> QED
    BY <1>3, <2>4 DEF RetryRepairedJob, incidentVars, Touched, Requeued
<1>4. CASE CoordinatorStep /\ ~RetryRepairedJob
  BY <1>4 DEF CoordinatorStep, PreserveEvidence, MarkApplying, DriverDeploys, DriverFails,
              RecordOutcome, RetryRefused, RecordRetry, MarkRetrying, RestartPipeline,
              jobVars, incidentVars
<1>5. CASE DiskRequeues
  <2>1. RestoreWork(disk.pending)
    BY <1>5 DEF DiskRequeues
  <2> QED
    BY <1>1, <2>1, RestoreTouches DEF RestoreWork
<1>6. CASE DiskStep /\ ~DiskRequeues
  BY <1>6 DEF DiskStep, DiskPauses, DiskCleans, DiskRestored, DiskGivesUp, DiskRestarts,
              jobVars, incidentVars, vars
<1>7. CASE NoticeStep \/ DaemonCrash
  BY <1>7 DEF NoticeStep, Notify, DaemonCrash, vars
<1>8. CASE OperatorStep
  BY <1>8, OperatorTouches
<1> QED
  BY <1>2, <1>3, <1>4, <1>5, <1>6, <1>7, <1>8 DEF RecoveryStep

(* The ledger steps keep the log by LogStep; a job that recovery touches   *)
(* has no live run, and had not succeeded.                                 *)
LEMMA RecoveryKeepsLog ==
  ASSUME RecoveryTypeOK, ThreadOK, RunLog, RecoveryStep PROVE RunLog'
<1> SUFFICES ASSUME NEW j \in Jobs PROVE JobLog(j)'
  BY DEF RunLog
<1>1. JobLog(j) /\ job[j].attempts \in 0 .. MaxRuns /\ run' = run
  BY RequeuesOnly DEF RunLog, RecoveryTypeOK, TypeOK, JobRecord
<1>2. job'[j] = job[j] \/ Touched(j)
  BY RequeuesOnly
<1> QED
  BY <1>1, <1>2, LogKept
  DEF Touched, Requeued, PutBack, StageRetried, StageResumed, Withdrawn, SameTally, Live, Final

-----------------------------------------------------------------------------
(* Attempts and their evidence.                                            *)

(* No step takes evidence or strategy from an attempt that exists.         *)
Keeps(a) ==
  repair[a].state # "none" =>
    /\ repair'[a].state # "none" /\ repair'[a].strategy = repair[a].strategy
    /\ repair[a].evidence \subseteq repair'[a].evidence

Moves(a) == Numbered(a)' /\ EvidenceInOrder(repair'[a]) /\ Keeps(a)

SameCount(r) == incident'[r].started = incident[r].started

LEMMA Untouched ==
  ASSUME AttemptsOK, NEW a \in AttemptIds, repair'[a] = repair[a], SameCount(a[1])
  PROVE  Moves(a)
BY DEF AttemptsOK, Moves, Numbered, EvidenceInOrder, Keeps, SameCount

LEMMA Fails ==
  ASSUME AttemptsOK, repair \in [AttemptIds -> RepairRecord],
         NEW a \in AttemptIds, NEW b \in AttemptIds, repair[b].state # "none",
         repair' = [repair EXCEPT ![b].state = "failed"], SameCount(a[1])
  PROVE  Moves(a)
<1>1. CASE a # b
  BY <1>1, Untouched
<1>2. CASE a = b
  <2>1. /\ repair'[a].state = "failed" /\ repair'[a].strategy = repair[a].strategy
        /\ repair'[a].evidence = repair[a].evidence
    BY <1>2 DEF RepairRecord
  <2> QED
    BY <1>2, <2>1 DEF AttemptsOK, Moves, Numbered, EvidenceInOrder, Keeps, SameCount
<1> QED
  BY <1>1, <1>2

(* Fresh attempts: a number the incident has not used, with what the       *)
(* transaction that opens them writes.                                     *)
Fresh(a) ==
  /\ repair[a].state = "none" /\ repair'[a].state # "none"
  /\ a[2] <= incident'[a[1]].started
  /\ EvidenceInOrder(repair'[a])

LEMMA FreshMoves == ASSUME NEW a \in AttemptIds, Fresh(a) PROVE Moves(a)
BY DEF Fresh, Moves, Numbered, Keeps

LEMMA LiveHasNoAttempt ==
  ASSUME TypeOK, EndedIncidents, AttemptsOK, NEW a \in AttemptIds, run[a[1]].status \in Live
  PROVE  repair[a].state = "none" /\ incident[a[1]].started = 0
<1>1. a[1] \in RunIds /\ a[2] \in 1 .. MaxRepairs
  BY AttemptKey
<1>2. incident[a[1]].started = 0
  BY <1>1, LiveHasNoIncident DEF AttemptsOK, Unopened
<1> QED
  BY <1>1, <1>2 DEF AttemptsOK, Numbered

LEMMA RetriedAttempt ==
  ASSUME TypeOK, EndedIncidents, AttemptsOK, NEW S \in SUBSET RunIds, NEW code,
         \A q \in S : run[q].status \in Live, CaptureRetried(S, code), NEW a \in AttemptIds
  PROVE  Moves(a)
<1> DEFINE opened == {q \in S : OpensIncident(q)}
<1>1. a[1] \in RunIds /\ a[2] \in 1 .. MaxRepairs /\ incident \in [RunIds -> IncidentRecord]
  BY AttemptKey DEF TypeOK
<1>2. CASE a[1] \in opened
  <2>1. repair[a].state = "none"
    BY <1>2, LiveHasNoAttempt
  <2>2. incident'[a[1]].started = 1
    BY <1>1, <1>2 DEF CaptureRetried, NewIncident
  <2>3. CASE a[2] = 1
    <3>1. repair'[a] = [state |-> "verifying", strategy |-> "deterministic_retry",
                        evidence |-> {"evidence_preserved", "job_retry"}]
      BY <1>2, <2>3 DEF CaptureRetried
    <3>2. EvidenceInOrder(repair'[a])
      BY <3>1 DEF EvidenceInOrder
    <3>3. Fresh(a)
      BY <1>1, <2>1, <2>2, <2>3, <3>1, <3>2 DEF Fresh
    <3> QED
      BY <3>3, FreshMoves
  <2>4. CASE a[2] # 1
    <3>1. repair'[a] = repair[a]
      BY <2>4 DEF CaptureRetried
    <3>2. ~(a[2] <= 1)
      BY <1>1, <2>4
    <3> QED
      BY <2>1, <2>2, <3>1, <3>2 DEF AttemptsOK, Moves, Numbered, EvidenceInOrder, Keeps
  <2> QED
    BY <2>3, <2>4
<1>3. CASE a[1] \notin opened
  <2>1. repair'[a] = repair[a]
    BY <1>3 DEF CaptureRetried
  <2>2. \/ incident'[a[1]] = incident[a[1]]
        \/ incident'[a[1]] = [incident[a[1]] EXCEPT !.state = "monitoring", !.blocker = "none"]
    BY <1>1, <1>3 DEF CaptureRetried
  <2>3. SameCount(a[1])
    BY <1>1, <2>2 DEF SameCount, IncidentRecord
  <2> QED
    BY <2>1, <2>3, Untouched
<1> QED
  BY <1>2, <1>3

LEMMA AfterFailedCount ==
  ASSUME NEW inc \in IncidentRecord
  PROVE  AfterFailedAttempt(inc).started = inc.started /\ AfterFailedAttempt(inc).state # "none"
BY DEF AfterFailedAttempt, IncidentRecord

LEMMA TerminalAttempt ==
  ASSUME TypeOK, EndedIncidents, AttemptsOK, NEW q \in RunIds, NEW code,
         run[q].status \in Live, CaptureTerminal(q, code), NEW a \in AttemptIds
  PROVE  Moves(a)
<1> DEFINE b == VerifyingAttempt(JobOf(q))
<1>1. a[1] \in RunIds /\ incident \in [RunIds -> IncidentRecord]
      /\ repair \in [AttemptIds -> RepairRecord]
  BY AttemptKey DEF TypeOK
<1>2. CASE VerifyingAttempts(JobOf(q)) # {}
  <2>1. VerificationFailed(b, JobOf(q), code)
    BY <1>2 DEF CaptureTerminal
  <2>2. b \in AttemptIds /\ repair[b].state = "verifying"
    BY <1>2, ChosenIsVerifying, RunKey DEF VerifyingAttempts
  <2> HIDE DEF b
  <2>3. \/ incident'[a[1]] = incident[a[1]]
        \/ incident'[a[1]] = [incident[a[1]] EXCEPT !.state = "blocked", !.allowed = FALSE,
                                 !.blocker = "atomic_unit_retry_budget_exhausted"]
        \/ incident'[a[1]] = AfterFailedAttempt(incident[a[1]])
    BY <1>1, <2>1 DEF VerificationFailed
  <2>4. SameCount(a[1])
    BY <1>1, <2>3, AfterFailedCount DEF SameCount, IncidentRecord
  <2> QED
    BY <1>1, <2>1, <2>2, <2>4, Fails DEF VerificationFailed
<1>3. CASE VerifyingAttempts(JobOf(q)) = {}
  <2>1. OpenTerminalIncident(q, code)
    BY <1>3 DEF CaptureTerminal
  <2>2. a[1] # q => incident'[a[1]] = incident[a[1]]
    BY <1>1, <2>1 DEF OpenTerminalIncident
  <2>3. a[1] = q => incident'[q].started = 0 /\ incident[q].started = 0
    BY <1>1, <2>1, LiveHasNoAttempt DEF OpenTerminalIncident, NewIncident
  <2> QED
    BY <2>1, <2>2, <2>3, Untouched DEF OpenTerminalIncident, SameCount
<1> QED
  BY <1>2, <1>3

LEMMA ReconcileAttempt ==
  ASSUME TypeOK, AttemptsOK, NEW q \in RunIds, Reconcile(q), NEW a \in AttemptIds
  PROVE  Moves(a)
<1> DEFINE b == LastAttempt(q)
<1>1. a[1] \in RunIds /\ incident \in [RunIds -> IncidentRecord]
      /\ repair \in [AttemptIds -> RepairRecord]
  BY AttemptKey DEF TypeOK
<1>2. SameCount(a[1])
  BY <1>1 DEF Reconcile, ReconcileCancelled, ReconcileRecovered, SameCount, IncidentRecord
<1>3. b \in AttemptIds => repair[b].state # "none"
  BY <1>1 DEF LastAttempt, AttemptsOK, Numbered, IncidentRecord
<1>4. CASE ReconcileCancelled(q)
  <2>1. \/ repair' = repair
        \/ b \in AttemptIds /\ repair' = [repair EXCEPT ![b].state = "failed"]
    BY <1>4 DEF ReconcileCancelled
  <2> HIDE DEF b
  <2> QED
    BY <1>1, <1>2, <1>3, <2>1, Fails, Untouched
<1>5. CASE ReconcileRecovered(q)
  <2> DEFINE proof == repair[b].evidence \cup {"artifact_validation", "health_check"}
  <2>1. /\ b \in AttemptIds /\ repair[b].state = "verifying"
        /\ repair' = [repair EXCEPT ![b].state = "succeeded", ![b].evidence = proof]
    BY <1>5 DEF ReconcileRecovered
  <2> HIDE DEF b
  <2>2. CASE a # b
    BY <1>1, <1>2, <2>1, <2>2, Untouched
  <2>3. CASE a = b
    <3>1. /\ repair'[a].state = "succeeded" /\ repair'[a].strategy = repair[a].strategy
          /\ repair'[a].evidence = proof
      BY <1>1, <2>1, <2>3 DEF RepairRecord
    <3> QED
      BY <1>2, <2>1, <2>3, <3>1
      DEF AttemptsOK, Moves, Numbered, EvidenceInOrder, Keeps, SameCount, Repaired
  <2> QED
    BY <2>2, <2>3
<1> QED
  BY <1>4, <1>5 DEF Reconcile

LEMMA LedgerAttempt ==
  ASSUME TypeOK, EndedIncidents, AttemptsOK, [Next]_vars, NEW a \in AttemptIds
  PROVE  Moves(a)
<1>1. CASE UNCHANGED <<incident, repair>>
  BY <1>1, Untouched DEF SameCount
<1>2. CASE JobStep
  BY <1>1, <1>2 DEF JobStep, CreateJob, ApproveJob, CancelJob, QueueAges, incidentVars
<1>3. CASE LaneStep
  <2> PICK l \in Lanes :
         \/ LeaseNext(l) \/ StartRun(l) \/ Heartbeat(l) \/ FinishSucceeded(l)
         \/ \E code \in Codes \cup {"job_spec_invalid"} : FinishFailed(l, code)
         \/ ResultRefused(l) \/ LaneLost(l)
    BY <1>3 DEF LaneStep
  <2>1. ASSUME NEW code \in Codes \cup {"job_spec_invalid"}, FinishFailed(l, code)
        PROVE  Moves(a)
    <3> DEFINE q == lane[l].run
    <3>1. q \in RunIds /\ run[q].status \in Live
      BY <2>1, FailedRun
    <3>2. UNCHANGED incidentVars \/ CaptureRetried({q}, code) \/ CaptureTerminal(q, code)
      BY <2>1 DEF FinishFailed
    <3> HIDE DEF q
    <3>3. {q} \in SUBSET RunIds /\ \A p \in {q} : run[p].status \in Live
      BY <3>1
    <3> QED
      BY <1>1, <3>1, <3>2, <3>3, RetriedAttempt, TerminalAttempt DEF incidentVars
  <2> QED
    BY <1>1, <2>1
    DEF LeaseNext, StartRun, Heartbeat, FinishSucceeded, ResultRefused, LaneLost, incidentVars
<1>4. CASE HubStep
  <2>1. CASE ExpireLeases
    <3>1. LapsedRuns \in SUBSET RunIds /\ \A q \in LapsedRuns : run[q].status \in Live
      BY DEF LapsedRuns, LiveRuns
    <3> QED
      BY <2>1, <3>1, RetriedAttempt DEF ExpireLeases, CaptureExpired
  <2> QED
    BY <1>1, <1>4, <2>1
    DEF HubStep, ApplyPipelineState, LeaseLapses, RequestPipelineState, ActivateDeployment,
        incidentVars
<1>5. CASE ReconcileStep
  BY <1>5, ReconcileAttempt DEF ReconcileStep
<1> QED
  BY <1>1, <1>2, <1>3, <1>4, <1>5 DEF Next, vars

LEMMA LedgerAttempts ==
  TypeOK /\ EndedIncidents /\ AttemptsOK /\ [Next]_vars => AttemptsOK'
<1> SUFFICES ASSUME TypeOK, EndedIncidents, AttemptsOK, [Next]_vars PROVE AttemptsOK'
  OBVIOUS
<1>1. \A a \in AttemptIds : Numbered(a)' /\ EvidenceInOrder(repair[a])'
  BY LedgerAttempt DEF Moves
<1>2. ASSUME NEW r \in RunIds, incident'[r].state = "none" PROVE incident'[r].started = 0
  BY <1>2, EveryStepMoves
  DEF IncidentStep, Stays, Opens, Proceeds, Recovers, AttemptsOK, Unopened
<1> QED
  BY <1>1, <1>2 DEF AttemptsOK, Unopened

-----------------------------------------------------------------------------
(* What the recovery threads do to incidents and attempts.                 *)

(* They open no incident, and forget none.                                 *)
IncidentKept(r) ==
  IF incident[r].state = "none" THEN incident'[r] = incident[r] ELSE incident'[r].state # "none"

(* An attempt is rewritten in place.                                       *)
LEMMA Rewritten ==
  ASSUME AttemptsOK, repair \in [AttemptIds -> RepairRecord],
         NEW b \in AttemptIds, repair[b].state # "none",
         NEW row, repair' = [repair EXCEPT ![b] = row],
         row.state # "none", row.strategy = repair[b].strategy,
         repair[b].evidence \subseteq row.evidence, EvidenceInOrder(row),
         NEW a \in AttemptIds, SameCount(a[1])
  PROVE  Moves(a)
<1>1. CASE a # b
  BY <1>1, Untouched
<1>2. CASE a = b
  <2>1. repair'[a] = row
    BY <1>2
  <2> QED
    BY <1>2, <2>1 DEF AttemptsOK, Moves, Numbered, Keeps, SameCount
<1> QED
  BY <1>1, <1>2

LEMMA FailAttemptMoves ==
  ASSUME TypeOK, AttemptsOK, NEW b \in AttemptIds, repair[b].state # "none",
         incident[b[1]].state # "none", FailAttempt(b)
  PROVE  /\ \A a \in AttemptIds : Moves(a)
         /\ \A r \in RunIds : IncidentKept(r)
<1>1. incident \in [RunIds -> IncidentRecord] /\ repair \in [AttemptIds -> RepairRecord]
      /\ b[1] \in RunIds /\ \A a \in AttemptIds : a[1] \in RunIds
  BY AttemptKey DEF TypeOK
<1>2. incident' = [incident EXCEPT ![b[1]] = AfterFailedAttempt(incident[b[1]])]
  BY <1>1 DEF FailAttempt
<1>3. /\ AfterFailedAttempt(incident[b[1]]).started = incident[b[1]].started
      /\ AfterFailedAttempt(incident[b[1]]).state # "none"
  BY <1>1, AfterFailedCount
<1>4. \A r \in RunIds : SameCount(r) /\ IncidentKept(r)
  BY <1>1, <1>2, <1>3 DEF SameCount, IncidentKept
<1> QED
  BY <1>1, <1>4, Fails DEF FailAttempt

LEMMA OnCallMoves ==
  ASSUME RecoveryTypeOK, AttemptsOK, ThreadOK, OnCallStep
  PROVE  /\ \A a \in AttemptIds : Moves(a)
         /\ \A r \in RunIds : IncidentKept(r)
<1>1. /\ incident \in [RunIds -> IncidentRecord] /\ repair \in [AttemptIds -> RepairRecord]
      /\ \A a \in AttemptIds : a[1] \in RunIds
  BY AttemptKey DEF RecoveryTypeOK, TypeOK
<1>2. CASE UNCHANGED <<incident, repair>>
  BY <1>1, <1>2, Untouched DEF SameCount, IncidentKept
<1>3. CASE StartAuthorizedRepair /\ ~UNCHANGED <<incident, repair>>
  <2> DEFINE r == hub.incident
             n == NextOrdinal(r)
  <2>1. r \in RunIds /\ incident[r].state # "none"
    BY <1>3 DEF StartAuthorizedRepair, ThreadOK, At
  <2>2. /\ n = incident[r].started + 1 /\ n <= MaxRepairs
        /\ repair' = [repair EXCEPT ![<<r, n>>] =
             [state |-> "planned", strategy |-> "principal_authorized_repair", evidence |-> {}]]
        /\ incident' = [incident EXCEPT
             ![r].state = "repairing", ![r].allowed = TRUE, ![r].started = n,
             ![r].budget = IF @ >= n THEN @ ELSE n, ![r].blocker = "none"]
    BY <1>3 DEF StartAuthorizedRepair, NextOrdinal
  <2> HIDE DEF n, r
  <2>3. /\ incident'[r].state = "repairing" /\ incident'[r].started = n
        /\ \A q \in RunIds \ {r} : incident'[q] = incident[q]
    BY <1>1, <2>1, <2>2 DEF IncidentRecord
  <2>4. incident[r].started \in Nat
    BY <1>1, <2>1 DEF IncidentRecord
  <2>5. ASSUME NEW a \in AttemptIds PROVE Moves(a)
    <3>1. a = <<a[1], a[2]>> /\ a[2] \in Nat
      BY AttemptKey
    <3>2. CASE a[1] # r
      BY <1>1, <2>2, <2>3, <3>1, <3>2, Untouched DEF SameCount
    <3>3. CASE a[1] = r /\ a[2] = n
      <4>1. repair[a].state = "none"
        BY <2>2, <2>4, <3>3 DEF AttemptsOK, Numbered
      <4>2. repair'[a] = [state |-> "planned", strategy |-> "principal_authorized_repair",
                          evidence |-> {}]
        BY <1>1, <2>2, <3>1, <3>3
      <4>3. EvidenceInOrder(repair'[a])
        BY <4>2 DEF EvidenceInOrder
      <4>4. Fresh(a)
        BY <2>3, <3>1, <3>3, <4>1, <4>2, <4>3 DEF Fresh
      <4> QED
        BY <4>4, FreshMoves
    <3>4. CASE a[1] = r /\ a[2] # n
      <4>1. repair'[a] = repair[a]
        BY <1>1, <2>2, <3>1, <3>4
      <4>2. a[2] <= incident'[r].started <=> a[2] <= incident[r].started
        BY <2>2, <2>3, <2>4, <3>1, <3>4
      <4> QED
        BY <3>4, <4>1, <4>2 DEF AttemptsOK, Moves, Numbered, Keeps
    <3> QED
      BY <3>2, <3>3, <3>4
  <2> QED
    BY <2>1, <2>3, <2>5 DEF IncidentKept
<1>4. ASSUME NEW r \in RunIds, BlockIncident(r)
      PROVE  /\ \A a \in AttemptIds : Moves(a)
             /\ \A q \in RunIds : IncidentKept(q)
  <2>1. /\ incident[r].state # "none" /\ repair' = repair
        /\ incident'[r].state = "blocked" /\ incident'[r].started = incident[r].started
        /\ \A q \in RunIds \ {r} : incident'[q] = incident[q]
    BY <1>1, <1>4 DEF BlockIncident, IncidentRecord
  <2> QED
    BY <1>1, <2>1, Untouched DEF SameCount, IncidentKept
<1>5. ASSUME NEW t, Settles(t)
      PROVE  /\ \A a \in AttemptIds : Moves(a)
             /\ \A q \in RunIds : IncidentKept(q)
  <2>1. repair' = repair
    BY <1>5 DEF Settles
  <2>2. ASSUME NEW r \in RunIds PROVE SameCount(r) /\ IncidentKept(r)
    <3>1. \/ incident'[r] = incident[r]
          \/ /\ incident[r].state # "none"
             /\ incident'[r] = [incident[r] EXCEPT !.state = "recovered", !.allowed = FALSE,
                                                   !.blocker = "none"]
      BY <1>5 DEF Settles, CloseSuperseded, Superseded
    <3>2. incident[r] \in IncidentRecord
      BY <1>1
    <3> QED
      BY <3>1, <3>2 DEF SameCount, IncidentKept, IncidentRecord
  <2>3. \A r \in RunIds : SameCount(r) /\ IncidentKept(r)
    BY <2>2
  <2> QED
    BY <1>1, <2>1, <2>3, Untouched
<1>6. CASE (\E r \in RunIds : BeginRepair(r)) \/ \E a \in AttemptIds : OnCallRetries(a)
  BY <1>2, <1>6 DEF BeginRepair, OnCallRetries, incidentVars, vars
<1> QED
  BY <1>2, <1>3, <1>4, <1>5, <1>6 DEF OnCallStep, AnswerMessage, ReconcileBlocked

LEMMA CoordinatorMoves ==
  ASSUME RecoveryTypeOK, AttemptsOK, ThreadOK, CoordinatorStep
  PROVE  /\ \A a \in AttemptIds : Moves(a)
         /\ \A r \in RunIds : IncidentKept(r)
<1> DEFINE b == hub.attempt
<1>1. /\ TypeOK /\ incident \in [RunIds -> IncidentRecord]
      /\ repair \in [AttemptIds -> RepairRecord] /\ \A a \in AttemptIds : a[1] \in RunIds
  BY AttemptKey DEF RecoveryTypeOK, TypeOK
<1>2. hub.phase \notin {"idle", "starting"} =>
        /\ b \in AttemptIds /\ repair[b] \in RepairRecord /\ EvidenceInOrder(repair[b])
        /\ WorksOn(b) /\ incident[b[1]].state # "none" /\ b[1] = hub.incident
  BY <1>1 DEF ThreadOK, WorksOn, At, AttemptsOK
<1>3. CASE UNCHANGED <<incident, repair>>
  BY <1>1, <1>3, Untouched DEF SameCount, IncidentKept
<1>4. ASSUME NEW a \in AttemptIds, incident' = incident PROVE SameCount(a[1])
  BY <1>4 DEF SameCount
<1>5. ASSUME NEW c \in AttemptIds, PreserveEvidence(c)
      PROVE  \A a \in AttemptIds : Moves(a)
  <2> DEFINE row == [repair[c] EXCEPT !.evidence = @ \cup {"evidence_preserved"}]
  <2>1. repair' = [repair EXCEPT ![c] = row] /\ incident' = incident
    BY <1>1, <1>5 DEF PreserveEvidence, Gains
  <2>2. repair[c] \in RepairRecord /\ repair[c].state = "planned" /\ EvidenceInOrder(repair[c])
    BY <1>1, <1>5 DEF PreserveEvidence, PlannedAttempts, AttemptsOK
  <2>3. /\ row.state = repair[c].state /\ row.strategy = repair[c].strategy
        /\ row.evidence = repair[c].evidence \cup {"evidence_preserved"}
    BY <2>2 DEF RepairRecord
  <2> HIDE DEF row
  <2>4. EvidenceInOrder(row)
    BY <2>2, <2>3 DEF EvidenceInOrder, Repaired
  <2> QED
    BY <1>1, <1>4, <2>1, <2>2, <2>3, <2>4, Rewritten
<1>6. ASSUME MarkApplying PROVE \A a \in AttemptIds : Moves(a)
  <2> DEFINE row == [repair[b] EXCEPT !.state = "applying"]
  <2>1. repair' = [repair EXCEPT ![b] = row] /\ incident' = incident /\ At("preserved")
    BY <1>1, <1>6 DEF MarkApplying
  <2>2. /\ row.state = "applying" /\ row.strategy = repair[b].strategy
        /\ row.evidence = repair[b].evidence
    BY <1>2, <2>1 DEF RepairRecord, At
  <2> HIDE DEF row
  <2>3. EvidenceInOrder(row)
    BY <1>2, <2>1, <2>2 DEF EvidenceInOrder, WorksOn, At
  <2> QED
    BY <1>1, <1>2, <1>4, <2>1, <2>2, <2>3, Rewritten DEF WorksOn, At
<1>7. ASSUME RecordOutcome PROVE \A a \in AttemptIds : Moves(a)
  <2> DEFINE row == [repair[b] EXCEPT !.evidence = @ \cup Repaired]
  <2>1. repair' = [repair EXCEPT ![b] = row] /\ incident' = incident /\ At("deployed")
    BY <1>1, <1>7 DEF RecordOutcome, Gains, Repaired
  <2>2. /\ row.state = repair[b].state /\ row.strategy = repair[b].strategy
        /\ row.evidence = repair[b].evidence \cup Repaired
    BY <1>2, <2>1 DEF RepairRecord, At
  <2> HIDE DEF row
  <2>3. EvidenceInOrder(row)
    BY <1>2, <2>1, <2>2 DEF EvidenceInOrder, Repaired, At
  <2> QED
    BY <1>1, <1>2, <1>4, <2>1, <2>2, <2>3, Rewritten DEF WorksOn, At
<1>8. ASSUME RecordRetry PROVE \A a \in AttemptIds : Moves(a)
  <2> DEFINE row == [repair[b] EXCEPT !.evidence = @ \cup {"job_retry"}]
  <2>1. repair' = [repair EXCEPT ![b] = row] /\ incident' = incident /\ At("requeued")
    BY <1>1, <1>8 DEF RecordRetry, Gains
  <2>2. /\ row.state = repair[b].state /\ row.strategy = repair[b].strategy
        /\ row.evidence = repair[b].evidence \cup {"job_retry"}
    BY <1>2, <2>1 DEF RepairRecord, At
  <2> HIDE DEF row
  <2>3. Repaired \subseteq repair[b].evidence
    BY <1>2, <2>1 DEF WorksOn, At
  <2>4. EvidenceInOrder(row)
    BY <1>2, <2>1, <2>2, <2>3 DEF EvidenceInOrder, At
  <2> QED
    BY <1>1, <1>2, <1>4, <2>1, <2>2, <2>4, Rewritten DEF WorksOn, At
<1>9. CASE MarkRetrying
  <2> DEFINE row == [repair[b] EXCEPT !.state = "verifying"]
  <2>1. /\ repair' = [repair EXCEPT ![b] = row] /\ At("recorded")
        /\ incident' = [incident EXCEPT ![hub.incident].state = "verifying"]
    BY <1>1, <1>9 DEF MarkRetrying
  <2>2. /\ row.state = "verifying" /\ row.strategy = repair[b].strategy
        /\ row.evidence = repair[b].evidence
    BY <1>2, <2>1 DEF RepairRecord, At
  <2> HIDE DEF row
  <2>3. EvidenceInOrder(row)
    BY <1>2, <2>1, <2>2 DEF EvidenceInOrder, WorksOn, At
  <2>4. \A r \in RunIds : SameCount(r) /\ IncidentKept(r)
    BY <1>1, <1>2, <2>1 DEF SameCount, IncidentKept, IncidentRecord, At
  <2> QED
    BY <1>1, <1>2, <2>1, <2>2, <2>3, <2>4, Rewritten DEF WorksOn, At
<1>10. CASE DriverFails \/ RetryRefused
  <2>1. \/ FailAttempt(b) /\ hub.phase \notin {"idle", "starting"}
        \/ UNCHANGED <<incident, repair>>
    BY <1>10 DEF DriverFails, RetryRefused, At
  <2> QED
    BY <1>1, <1>2, <1>3, <2>1, FailAttemptMoves DEF WorksOn
<1>11. CASE DriverDeploys \/ RetryRepairedJob \/ RestartPipeline
  BY <1>3, <1>11 DEF DriverDeploys, RetryRepairedJob, RestartPipeline, incidentVars
<1>12. incident' = incident => \A r \in RunIds : IncidentKept(r)
  BY DEF IncidentKept
<1> QED
  BY <1>5, <1>6, <1>7, <1>8, <1>9, <1>10, <1>11, <1>12
  DEF CoordinatorStep, PreserveEvidence, MarkApplying, RecordOutcome, RecordRetry

LEMMA RestoreMoves ==
  ASSUME TypeOK, AttemptsOK, NEW batch \in SUBSET RunIds, RestoreWork(batch)
  PROVE  /\ \A a \in AttemptIds : Moves(a)
         /\ \A r \in RunIds : IncidentKept(r)
<1>0. /\ incident \in [RunIds -> IncidentRecord] /\ \A a \in AttemptIds : a[1] \in RunIds
  BY AttemptKey DEF TypeOK
<1>1. \A r \in batch : incident[r].state # "none"
  BY DEF RestoreWork, BatchAllowed, Retryable, Reentry
<1>2. ASSUME NEW r \in RunIds
      PROVE  /\ r \notin batch => incident'[r] = incident[r]
             /\ r \in batch => /\ incident'[r].state = "verifying"
                               /\ incident'[r].started = incident[r].started + 1
  <2>1. incident'[r] = IF r \in batch
                         THEN [incident[r] EXCEPT !.state = "verifying", !.started = @ + 1,
                                                  !.blocker = "none"]
                         ELSE incident[r]
    BY DEF RestoreWork
  <2> QED
    BY <1>0, <2>1 DEF IncidentRecord
<1>3. ASSUME NEW a \in AttemptIds PROVE Moves(a)
  <2> DEFINE n == incident[a[1]].started
  <2>1. a[1] \in RunIds /\ a[2] \in Nat /\ n \in Nat
    BY <1>0, AttemptKey DEF IncidentRecord
  <2>2. repair'[a] = IF a[1] \in batch /\ a[2] = n + 1
                       THEN [state |-> "verifying", strategy |-> "local_resource_restored_retry",
                             evidence |-> {"evidence_preserved", "job_retry"}]
                       ELSE repair[a]
    BY DEF RestoreWork
  <2>3. CASE a[1] \notin batch
    BY <1>2, <2>1, <2>2, <2>3, Untouched DEF SameCount
  <2>4. CASE a[1] \in batch /\ a[2] = n + 1
    <3>1. repair[a].state = "none"
      BY <2>1, <2>4 DEF AttemptsOK, Numbered
    <3>2. EvidenceInOrder(repair'[a]) /\ repair'[a].state # "none"
      BY <2>2, <2>4 DEF EvidenceInOrder
    <3>3. a[2] <= incident'[a[1]].started
      BY <1>2, <2>1, <2>4
    <3> QED
      BY <3>1, <3>2, <3>3, FreshMoves DEF Fresh
  <2>5. CASE a[1] \in batch /\ a[2] # n + 1
    <3>1. repair'[a] = repair[a]
      BY <2>2, <2>5
    <3>2. a[2] <= incident'[a[1]].started <=> a[2] <= n
      BY <1>2, <2>1, <2>5
    <3> QED
      BY <3>1, <3>2 DEF AttemptsOK, Moves, Numbered, Keeps
  <2> QED
    BY <2>3, <2>4, <2>5
<1> QED
  BY <1>1, <1>2, <1>3 DEF IncidentKept

LEMMA DiskMoves ==
  ASSUME RecoveryTypeOK, AttemptsOK, DiskStep
  PROVE  /\ \A a \in AttemptIds : Moves(a)
         /\ \A r \in RunIds : IncidentKept(r)
<1>1. /\ incident \in [RunIds -> IncidentRecord] /\ \A a \in AttemptIds : a[1] \in RunIds
  BY AttemptKey DEF RecoveryTypeOK, TypeOK
<1>2. CASE UNCHANGED <<incident, repair>>
  BY <1>1, <1>2, Untouched DEF SameCount, IncidentKept
<1>3. CASE DiskRequeues
  <2>1. RestoreWork(disk.pending) /\ TypeOK /\ disk.pending \in SUBSET RunIds
    BY <1>3 DEF DiskRequeues, RecoveryTypeOK, DiskRecord
  <2> QED
    BY <2>1, RestoreMoves
<1>4. CASE ~DiskRequeues
  BY <1>2, <1>4 DEF DiskStep, DiskPauses, DiskCleans, DiskRestored, DiskGivesUp, DiskRestarts,
                    incidentVars, vars
<1> QED
  BY <1>3, <1>4

LEMMA OperatorMoves ==
  ASSUME RecoveryTypeOK, AttemptsOK, OperatorStep
  PROVE  /\ \A a \in AttemptIds : Moves(a)
         /\ \A r \in RunIds : IncidentKept(r)
<1>1. CASE OperatorRestores
  <2>1. PICK batch \in SUBSET {r \in RunIds : Retryable(r)} : RestoreWork(batch)
    BY <1>1 DEF OperatorRestores
  <2>2. batch \in SUBSET RunIds
    OBVIOUS
  <2> QED
    BY <2>1, <2>2, RestoreMoves DEF RecoveryTypeOK
<1>2. CASE \E j \in Jobs : RetryFailedStage(j) \/ RecoverQueueExpired(j)
  <2>1. incident' = incident /\ repair' = repair
    BY <1>2 DEF RetryFailedStage, RecoverQueueExpired, incidentVars
  <2> QED
    BY <2>1, Untouched DEF SameCount, IncidentKept
<1> QED
  BY <1>1, <1>2 DEF OperatorStep

LEMMA RecoveryMoves ==
  ASSUME RecoveryTypeOK, AttemptsOK, ThreadOK, RecoveryStep
  PROVE  /\ \A a \in AttemptIds : Moves(a)
         /\ \A r \in RunIds : IncidentKept(r)
<1>1. CASE NoticeStep \/ DaemonCrash
  <2>1. incident' = incident /\ repair' = repair
    BY <1>1 DEF NoticeStep, Notify, DaemonCrash, vars
  <2> QED
    BY <2>1, Untouched DEF SameCount, IncidentKept
<1> QED
  BY <1>1, OnCallMoves, CoordinatorMoves, DiskMoves, OperatorMoves DEF RecoveryStep

-----------------------------------------------------------------------------
(* The tick thread.                                                        *)

Remains(r) == incident[r].state # "none" => incident'[r].state # "none"

(* The attempt the thread works on goes on to phase p of the repair.       *)
LEMMA GoesOn ==
  ASSUME RecoveryTypeOK, ThreadOK, hub.phase \notin {"idle", "starting"},
         \A a \in AttemptIds : Keeps(a), \A r \in RunIds : Remains(r),
         hub'.incident = hub.incident, hub'.attempt = hub.attempt,
         hub'.phase \in {"repaired", "requeued", "recorded", "restarting"} =>
           Repaired \subseteq repair'[hub.attempt].evidence,
         hub'.phase \in {"recorded", "restarting"} => "job_retry" \in repair'[hub.attempt].evidence
  PROVE  ThreadOK'
<1>1. /\ hub.incident \in RunIds /\ incident[hub.incident].state # "none"
      /\ WorksOn(hub.attempt)
  BY DEF ThreadOK, At
<1> QED
  BY <1>1 DEF ThreadOK, WorksOn, At, Keeps, Remains

LEMMA OnCallThread ==
  ASSUME RecoveryTypeOK, AttemptsOK, ThreadOK, OnCallStep, hub' # hub, hub' # HubIdle
  PROVE  ThreadOK'
<1>1. ASSUME NEW r \in RunIds, BeginRepair(r) PROVE ThreadOK'
  <2>1. /\ hub'.phase = "starting" /\ hub'.incident = r
        /\ incident[r].state # "none" /\ incident' = incident
    BY <1>1 DEF BeginRepair, HubIdle, incidentVars
  <2> QED
    BY <2>1 DEF ThreadOK, At
<1>2. ASSUME NEW a \in AttemptIds, OnCallRetries(a) PROVE ThreadOK'
  <2>1. /\ hub'.phase = "repaired" /\ hub'.incident = a[1] /\ hub'.attempt = a
        /\ incident' = incident /\ repair' = repair
        /\ repair[a].state \in {"planned", "applying"} /\ EvidenceComplete(a)
    BY <1>2 DEF OnCallRetries, HubIdle, vars
  <2>2. a[1] \in RunIds /\ a[2] \in 1 .. MaxRepairs /\ incident \in [RunIds -> IncidentRecord]
    BY AttemptKey DEF RecoveryTypeOK, TypeOK
  <2>3. incident[a[1]].state # "none"
    BY <2>1, <2>2 DEF AttemptsOK, Unopened, Numbered
  <2>4. repair[a].strategy = "principal_authorized_repair"
    BY <2>1 DEF AttemptsOK, EvidenceInOrder
  <2>5. \/ "job_retry" \in repair[a].evidence
        \/ Repaired \subseteq repair[a].evidence
    BY <2>1 DEF EvidenceComplete, RequiredBeforeRetry, Repaired
  <2>6. Repaired \subseteq repair[a].evidence
    BY <2>4, <2>5 DEF AttemptsOK, EvidenceInOrder
  <2> QED
    BY <2>1, <2>2, <2>3, <2>4, <2>6 DEF ThreadOK, WorksOn, At
<1> QED
  BY <1>1, <1>2 DEF OnCallStep, StartAuthorizedRepair, Done, BlockIncident, AnswerMessage,
                    ReconcileBlocked, Settles

LEMMA CoordinatorThread ==
  ASSUME RecoveryTypeOK, AttemptsOK, ThreadOK, CoordinatorStep, hub' # HubIdle,
         \A a \in AttemptIds : Keeps(a), \A r \in RunIds : Remains(r)
  PROVE  ThreadOK'
<1> DEFINE b == hub.attempt
<1>1. /\ hub \in HubRecord /\ repair \in [AttemptIds -> RepairRecord]
      /\ incident \in [RunIds -> IncidentRecord]
  BY DEF RecoveryTypeOK, TypeOK
<1>2. hub.phase \notin {"idle", "starting"} => WorksOn(b) /\ Keeps(b)
  BY DEF ThreadOK, WorksOn
<1>3. ASSUME NEW a \in AttemptIds, PreserveEvidence(a) PROVE ThreadOK'
  <2>1. /\ hub'.phase = "preserved" /\ hub'.incident = a[1] /\ hub'.attempt = a
        /\ incident' = incident /\ repair[a].state = "planned"
    BY <1>3 DEF PreserveEvidence, PlannedAttempts, HubIdle
  <2>2. a[1] \in RunIds /\ a[2] \in 1 .. MaxRepairs
    BY AttemptKey
  <2>3. incident[a[1]].state # "none"
    BY <1>1, <2>1, <2>2 DEF AttemptsOK, Unopened, Numbered
  <2>4. repair'[a].state # "none" /\ repair'[a].strategy = "principal_authorized_repair"
    BY <2>1 DEF AttemptsOK, EvidenceInOrder, Keeps
  <2> QED
    BY <2>1, <2>2, <2>3, <2>4 DEF ThreadOK, WorksOn, At
<1>4. CASE MarkApplying
  <2>1. /\ At("preserved") /\ hub'.phase = "applying"
        /\ hub'.incident = hub.incident /\ hub'.attempt = b
    BY <1>1, <1>4 DEF MarkApplying, Advance, HubRecord
  <2> QED
    BY <2>1, GoesOn DEF At
<1>5. CASE DriverDeploys
  <2>1. /\ At("applying") /\ hub'.phase = "deployed"
        /\ hub'.incident = hub.incident /\ hub'.attempt = b
    BY <1>1, <1>5 DEF DriverDeploys, HubRecord
  <2> QED
    BY <2>1, GoesOn DEF At
<1>6. CASE RecordOutcome
  <2>1. /\ At("deployed") /\ hub'.phase = "repaired"
        /\ hub'.incident = hub.incident /\ hub'.attempt = b
        /\ repair' = [repair EXCEPT ![b].evidence = @ \cup Repaired]
    BY <1>1, <1>6 DEF RecordOutcome, Advance, HubRecord, Gains, Repaired
  <2>2. Repaired \subseteq repair'[b].evidence
    BY <1>1, <1>2, <2>1 DEF WorksOn, At, RepairRecord
  <2> QED
    BY <2>1, <2>2, GoesOn DEF At
<1>7. CASE RetryRepairedJob
  <2>1. /\ At("repaired") /\ hub'.phase = "requeued"
        /\ hub'.incident = hub.incident /\ hub'.attempt = b
    BY <1>1, <1>7 DEF RetryRepairedJob, Advance, HubRecord
  <2>2. Repaired \subseteq repair'[b].evidence
    BY <1>2, <2>1 DEF WorksOn, At, Keeps
  <2> QED
    BY <2>1, <2>2, GoesOn DEF At
<1>8. CASE RecordRetry
  <2>1. /\ At("requeued") /\ hub'.phase = "recorded"
        /\ hub'.incident = hub.incident /\ hub'.attempt = b
        /\ repair' = [repair EXCEPT ![b].evidence = @ \cup {"job_retry"}]
    BY <1>1, <1>8 DEF RecordRetry, Advance, HubRecord, Gains
  <2>2. Repaired \subseteq repair'[b].evidence /\ "job_retry" \in repair'[b].evidence
    BY <1>1, <1>2, <2>1 DEF WorksOn, At, Keeps, RepairRecord
  <2> QED
    BY <2>1, <2>2, GoesOn DEF At
<1>9. CASE MarkRetrying
  <2>1. /\ At("recorded") /\ hub'.phase = "restarting"
        /\ hub'.incident = hub.incident /\ hub'.attempt = b
    BY <1>1, <1>9 DEF MarkRetrying, Advance, HubRecord
  <2>2. Repaired \subseteq repair'[b].evidence /\ "job_retry" \in repair'[b].evidence
    BY <1>2, <2>1 DEF WorksOn, At, Keeps
  <2> QED
    BY <2>1, <2>2, GoesOn DEF At
<1>10. CASE DriverFails \/ RetryRefused \/ RestartPipeline
  BY <1>10 DEF DriverFails, RetryRefused, RestartPipeline, Done
<1> QED
  BY <1>3, <1>4, <1>5, <1>6, <1>7, <1>8, <1>9, <1>10 DEF CoordinatorStep

LEMMA ThreadStep ==
  RecoveryInv /\ [RecoveryNext]_recoveryVars => ThreadOK'
<1> SUFFICES ASSUME RecoveryInv, [RecoveryNext]_recoveryVars PROVE ThreadOK'
  OBVIOUS
<1> USE DEF RecoveryInv
<1>1. CASE hub' = HubIdle
  BY <1>1 DEF HubIdle, ThreadOK, At
<1>2. ASSUME \A a \in AttemptIds : Keeps(a), \A r \in RunIds : Remains(r), hub' = hub
      PROVE  ThreadOK'
  BY <1>2 DEF ThreadOK, WorksOn, At, Keeps, Remains
<1>3. CASE LedgerStep
  <2>1. [Next]_vars /\ hub' = hub /\ TypeOK
    BY <1>3, LedgerStepIsNext DEF RecoveryTypeOK
  <2>2. \A a \in AttemptIds : Keeps(a)
    BY <2>1, LedgerAttempt DEF Moves
  <2>3. \A r \in RunIds : Remains(r)
    BY <2>1, IncidentRemains DEF Remains
  <2> QED
    BY <1>2, <2>1, <2>2, <2>3
<1>4. CASE UNCHANGED recoveryVars
  BY <1>2, <1>4 DEF recoveryVars, Keeps, Remains
<1>5. CASE RecoveryStep
  <2>1. \A a \in AttemptIds : Keeps(a)
    BY <1>5, RecoveryMoves DEF Moves
  <2>2. \A r \in RunIds : Remains(r)
    BY <1>5, RecoveryMoves DEF IncidentKept, Remains
  <2>3. CASE OnCallStep
    BY <1>1, <1>2, <2>1, <2>2, <2>3, OnCallThread
  <2>4. CASE CoordinatorStep
    BY <1>1, <2>1, <2>2, <2>4, CoordinatorThread
  <2>5. CASE DiskStep \/ NoticeStep \/ OperatorStep \/ DaemonCrash
    <3>1. hub' = hub \/ hub' = HubIdle
      BY <2>5 DEF DiskStep, DiskPauses, DiskCleans, DiskRestored, DiskRequeues, RestoreWork,
                  DiskGivesUp, DiskRestarts, NoticeStep, Notify, OperatorStep, OperatorRestores,
                  RetryFailedStage, RecoverQueueExpired, DaemonCrash, Done
    <3> QED
      BY <1>1, <1>2, <2>1, <2>2, <3>1
  <2> QED
    BY <1>5, <2>3, <2>4, <2>5 DEF RecoveryStep
<1> QED
  BY <1>3, <1>4, <1>5 DEF RecoveryNext, RecoveryStep

-----------------------------------------------------------------------------
(* The inductive invariant.                                                *)

LEMMA RecoveryInvStep == RecoveryInv /\ [RecoveryNext]_recoveryVars => RecoveryInv'
<1> SUFFICES ASSUME RecoveryInv, [RecoveryNext]_recoveryVars PROVE RecoveryInv'
  OBVIOUS
<1>1. RecoveryTypeOK' /\ ThreadOK'
  BY StepTyped, ThreadStep DEF RecoveryInv
<1>2. CASE LedgerStep
  <2>1. [Next]_vars /\ TypeOK
    BY <1>2, LedgerStepIsNext DEF RecoveryInv, RecoveryTypeOK
  <2> QED
    BY <1>1, <2>1, LogStep, EndedStep, LedgerAttempts DEF RecoveryInv
<1>3. CASE RecoveryStep
  <2>1. RunLog' /\ run' = run
    BY <1>3, RecoveryKeepsLog, RequeuesOnly DEF RecoveryInv
  <2>2. /\ \A a \in AttemptIds : Moves(a)
        /\ \A r \in RunIds : IncidentKept(r)
    BY <1>3, RecoveryMoves DEF RecoveryInv
  <2>3. EndedIncidents'
    BY <2>1, <2>2 DEF RecoveryInv, EndedIncidents, OfEndedRun, IncidentKept
  <2>4. AttemptsOK'
    BY <2>2 DEF RecoveryInv, AttemptsOK, Moves, Unopened, IncidentKept
  <2> QED
    BY <1>1, <2>1, <2>3, <2>4 DEF RecoveryInv
<1>4. CASE UNCHANGED recoveryVars
  <2>1. UNCHANGED vars
    BY <1>4 DEF recoveryVars, vars
  <2> QED
    BY <1>1, <1>4, <2>1, LogStep, EndedStep, LedgerAttempts DEF RecoveryInv, RecoveryTypeOK
<1> QED
  BY <1>2, <1>3, <1>4 DEF RecoveryNext, RecoveryStep

LEMMA RecoveryInvInit == RecoveryInit => RecoveryInv
<1> SUFFICES ASSUME RecoveryInit PROVE RecoveryInv
  OBVIOUS
<1>1. RecoveryTypeOK
  BY InitTyped, IdleTyped DEF RecoveryInit, RecoveryTypeOK
<1>2. RunLog
  BY LedgerAssumption DEF RecoveryInit, Init, RunLog, JobLog, RunIds, NoRunYet, Live
<1>3. EndedIncidents
  BY DEF RecoveryInit, Init, EndedIncidents, OfEndedRun, NoIncidentYet
<1>4. AttemptsOK
  <2>1. \A r \in RunIds : Unopened(r)
    BY DEF RecoveryInit, Init, Unopened, NoIncidentYet
  <2>2. ASSUME NEW a \in AttemptIds PROVE Numbered(a) /\ EvidenceInOrder(repair[a])
    <3>1. a[1] \in RunIds /\ a[2] \in 1 .. MaxRepairs
      BY AttemptKey
    <3> QED
      BY <3>1 DEF RecoveryInit, Init, Numbered, EvidenceInOrder, NoIncidentYet, NoRepairYet
  <2> QED
    BY <2>1, <2>2 DEF AttemptsOK
<1>5. ThreadOK
  BY DEF RecoveryInit, HubIdle, ThreadOK, At
<1> QED
  BY <1>1, <1>2, <1>3, <1>4, <1>5 DEF RecoveryInv

(* The invariant of the recovery threads: rows keep their types, the log   *)
(* its shape, attempts their numbering and their evidence, and the tick    *)
(* thread's place agrees with the attempt it works on.                     *)
THEOREM RecoveryInvariant == RecoverySpec => []RecoveryInv
BY RecoveryInvInit, RecoveryInvStep, PTL DEF RecoverySpec

(* Rows and threads keep their types.                                      *)
THEOREM RecoveryTypeCorrect == RecoverySpec => []RecoveryTypeOK
BY RecoveryInvariant, PTL DEF RecoveryInv

(* No attempt verifies or has succeeded without the evidence its strategy  *)
(* demands, wherever the threads are and wherever a crash left them.       *)
THEOREM VerifiedCorrect == RecoverySpec => []VerifiedWithEvidence
<1>1. RecoveryInv => VerifiedWithEvidence
  BY DEF RecoveryInv, AttemptsOK, EvidenceInOrder, Repaired, VerifiedWithEvidence
<1> QED
  BY <1>1, RecoveryInvariant, PTL

(* What an attempt was planned as and what it has shown is never taken     *)
(* back: nothing rewrites an attempt's strategy or drops its evidence, and *)
(* no crash makes an attempt number free again.                            *)
THEOREM EvidenceNeverLost == RecoverySpec => [][\A a \in AttemptIds : Keeps(a)]_recoveryVars
<1>1. RecoveryInv /\ [RecoveryNext]_recoveryVars => [\A a \in AttemptIds : Keeps(a)]_recoveryVars
  <2> SUFFICES ASSUME RecoveryInv, RecoveryNext, NEW a \in AttemptIds PROVE Keeps(a)
    OBVIOUS
  <2>1. CASE LedgerStep
    BY <2>1, LedgerStepIsNext, LedgerAttempt DEF RecoveryInv, RecoveryTypeOK, Moves
  <2>2. CASE RecoveryStep
    BY <2>2, RecoveryMoves DEF RecoveryInv, Moves
  <2> QED
    BY <2>1, <2>2 DEF RecoveryNext, RecoveryStep
<1> QED
  BY <1>1, RecoveryInvariant, PTL DEF RecoverySpec

-----------------------------------------------------------------------------
(* The ledger's promises, kept under recovery.                             *)

(* A recovery step writes no run, plan or lane, so of the ledger's         *)
(* invariants it can disturb only what is said of jobs and incidents.      *)
LEMMA CarriesOver ==
  ASSUME RecoveryInv, RecoveryStep, OneHolder, FailureHasIncident, PlanFollowsJob, Capacities
  PROVE  /\ OneHolder' /\ FailureHasIncident' /\ PlanFollowsJob' /\ Capacities'
<1>1. /\ UNCHANGED <<run, plan, lane>>
      /\ \A j \in Jobs : job'[j] = job[j] \/ Touched(j)
      /\ \A r \in RunIds : IncidentKept(r)
  BY RequeuesOnly, RecoveryMoves DEF RecoveryInv
<1>2. OneHolder'
  BY <1>1 DEF OneHolder, Holds
<1>3. Capacities'
  BY <1>1 DEF Capacities, Bounded, LiveOn, LiveWith, LiveRuns
<1>4. PlanFollowsJob'
  <2> SUFFICES ASSUME NEW j \in Jobs PROVE PlanOf(j)'
    BY DEF PlanFollowsJob, PlanOf
  <2>1. PlanOf(j)
    BY DEF PlanFollowsJob, PlanOf
  <2>2. CASE job'[j] = job[j] \/ Requeued(j)
    <3>1. PlanUntouched(j)
      BY <1>1, <2>2 DEF PlanUntouched, Requeued, PutBack, StageRetried, StageResumed, Unsettled,
                        JobStatuses
    <3> QED
      BY <2>1, <3>1, PlanUntouchedFollows
  <2>3. CASE Withdrawn(j)
    BY <1>1, <2>1, <2>3 DEF PlanOf, Withdrawn, IsRespond
  <2> QED
    BY <1>1, <2>2, <2>3 DEF Touched
<1>5. FailureHasIncident'
  <2> SUFFICES ASSUME NEW r \in RunIds, run[r].status \in {"failed", "expired"},
                      ~IsRespond(JobOf(r))
               PROVE  \E k \in 1 .. r[2] : incident'[<<JobOf(r), k>>].state # "none"
    BY <1>1 DEF FailureHasIncident, IsRespond
  <2>1. PICK k \in 1 .. r[2] : incident[<<JobOf(r), k>>].state # "none"
    BY DEF FailureHasIncident
  <2>2. <<JobOf(r), k>> \in RunIds
    BY RunKey, LedgerAssumption DEF RunIds
  <2> QED
    BY <1>1, <2>1, <2>2 DEF IncidentKept
<1> QED
  BY <1>2, <1>3, <1>4, <1>5

LedgerPromises == OneHolder /\ FailureHasIncident /\ PlanFollowsJob /\ Capacities

LEMMA PromisesStep == RecoveryInv /\ LedgerPromises /\ [RecoveryNext]_recoveryVars => LedgerPromises'
<1> SUFFICES ASSUME RecoveryInv, LedgerPromises, [RecoveryNext]_recoveryVars PROVE LedgerPromises'
  OBVIOUS
<1>1. CASE LedgerStep \/ UNCHANGED recoveryVars
  <2>1. [Next]_vars
    BY <1>1, LedgerStepIsNext DEF recoveryVars, vars
  <2> QED
    BY <2>1, HolderStep, CapturedStep, PlanStep, CapacityStep
    DEF RecoveryInv, RecoveryTypeOK, LedgerPromises
<1>2. CASE RecoveryStep
  BY <1>2, CarriesOver DEF LedgerPromises
<1> QED
  BY <1>1, <1>2 DEF RecoveryNext, RecoveryStep

(* Repairs, requeues and crashes of the daemon break none of the ledger's  *)
(* promises: the log of runs, one holder of each lease, an incident for    *)
(* every failure, plans that follow their jobs, and the capacities.        *)
THEOREM LedgerHoldsUnderRecovery ==
  RecoverySpec => [](RunLog /\ OneHolder /\ FailureHasIncident /\ PlanFollowsJob /\ WithinCapacity)
<1>1. RecoveryInit => LedgerPromises
  <2> SUFFICES ASSUME Init PROVE LedgerPromises
    BY DEF RecoveryInit
  <2>1. OneHolder /\ FailureHasIncident /\ PlanFollowsJob
    BY DEF Init, OneHolder, Holds, FailureHasIncident, NoRunYet, PlanFollowsJob
  <2>2. Capacities
    BY InitCapacities
  <2> QED
    BY <2>1, <2>2 DEF LedgerPromises
<1>2. LedgerPromises => OneHolder /\ FailureHasIncident /\ PlanFollowsJob /\ WithinCapacity
  BY DEF LedgerPromises, Capacities, WithinCapacity, Bounded
<1>3. RecoveryInv => RunLog
  BY DEF RecoveryInv
<1> QED
  BY <1>1, <1>2, <1>3, PromisesStep, RecoveryInvariant, PTL DEF RecoverySpec

(* A ledger step, or one that writes no run and touches jobs as above.     *)
LEMMA LedgerOrRequeue ==
  ASSUME RecoveryInv, [RecoveryNext]_recoveryVars
  PROVE  \/ [Next]_vars
         \/ run' = run /\ \A j \in Jobs : job'[j] = job[j] \/ Touched(j)
<1>1. CASE LedgerStep \/ UNCHANGED recoveryVars
  BY <1>1, LedgerStepIsNext DEF recoveryVars, vars
<1>2. CASE RecoveryStep
  BY <1>2, RequeuesOnly DEF RecoveryInv
<1> QED
  BY <1>1, <1>2 DEF RecoveryNext, RecoveryStep

LEMMA TouchesUnsettled ==
  \A j : Touched(j) => job[j].status \notin {"succeeded", "cancelled"}
BY DEF Touched, Requeued, PutBack, StageRetried, StageResumed, Withdrawn

(* No repair and no requeue reopens a run that ended, or a job that        *)
(* succeeded or was cancelled.                                             *)
THEOREM SettledUnderRecovery == RecoverySpec => EndedRunsAreFinal /\ SettledJobsStay
<1>1. RecoveryInv /\ [RecoveryNext]_recoveryVars
        => [\A r \in RunIds : run[r].status \notin Live \cup {"none"} => run'[r] = run[r]]_vars
  BY LedgerOrRequeue, RowsStay DEF RecoveryInv, RecoveryTypeOK
<1>2. RecoveryInv /\ [RecoveryNext]_recoveryVars
        => [\A j \in Jobs : job[j].status \in {"succeeded", "cancelled"} =>
              job'[j].status = job[j].status]_vars
  BY LedgerOrRequeue, TouchesUnsettled, SettledStay DEF RecoveryInv, RecoveryTypeOK
<1>3. RecoverySpec => EndedRunsAreFinal
  BY <1>1, RecoveryInvariant, PTL DEF RecoverySpec, EndedRunsAreFinal
<1>4. RecoverySpec => SettledJobsStay
  BY <1>2, RecoveryInvariant, PTL DEF RecoverySpec, SettledJobsStay
<1> QED
  BY <1>3, <1>4

-----------------------------------------------------------------------------
(* Executions a job has left.                                              *)

(* No job begins more executions than it is granted, none before it is     *)
(* admitted, and it waits with none left only after its lease expired.     *)
Spent(j)    == job[j].attempts >= AllowedAttempts(j)
Budgeted(j) ==
  /\ job[j].attempts <= AllowedAttempts(j)
  /\ job[j].status \in {"absent", "awaiting_approval"} => job[j].attempts = 0
  /\ job[j].status = "queued" /\ Spent(j) => run[LastRun(j)].status = "expired"
Budgets == \A j \in Jobs : Budgeted(j)

LEMMA Granting ==
  ASSUME NEW j \in Jobs
  PROVE  Definition[j].maxAttempts \in Nat /\ Definition[j].maxAttempts >= 1
BY LedgerAssumption DEF JobDefinitions

(* How a job comes to wait in the ledger: it waited or was admitted, or    *)
(* its run failed with an attempt left, or its lease expired.              *)
Waits(j) ==
  job'[j].status = "queued" =>
    \/ job[j].status \in {"absent", "awaiting_approval", "queued"}
    \/ job[j].attempts < Definition[j].maxAttempts
    \/ run'[LastRun(j)].status = "expired"

LEMMA FailureWaits ==
  ASSUME TypeOK, RunLog, NEW l \in Lanes, NEW code \in Codes \cup {"job_spec_invalid"},
         FinishFailed(l, code), NEW j \in Jobs
  PROVE  Waits(j)
<1> DEFINE i == JobOf(lane[l].run)
           d == Definition[i]
           retried == RetryScheduled(code, d.policy, lane[l].run[2], d.maxAttempts)
<1>1. job \in [Jobs -> JobRecord] /\ lane[l].run \in RunIds /\ run[lane[l].run].status \in Live
  BY FailedRun DEF TypeOK
<1>2. job' = [job EXCEPT ![i].status = IF retried THEN "queued" ELSE "failed",
                         ![i].queue = IF retried THEN "backoff" ELSE @]
  BY DEF FinishFailed
<1>3. i \in Jobs /\ lane[l].run[2] = job[i].attempts
  BY <1>1, LiveIsLast, RunKey DEF RunLog
<1>4. retried => job[i].attempts < Definition[i].maxAttempts
  BY <1>3 DEF RetryScheduled
<1> HIDE DEF i, retried
<1>5. CASE j # i
  BY <1>1, <1>2, <1>5 DEF Waits
<1>6. CASE j = i
  <2>1. job'[j].status = "queued" => retried
    BY <1>1, <1>2, <1>3, <1>6 DEF JobRecord
  <2> QED
    BY <1>4, <1>6, <2>1 DEF Waits
<1> QED
  BY <1>5, <1>6

LEMMA ExpiryWaits ==
  ASSUME TypeOK, RunLog, ExpireLeases, NEW j \in Jobs
  PROVE  Waits(j)
<1>1. job \in [Jobs -> JobRecord]
  BY DEF TypeOK
<1>2. \/ job'[j] = job[j]
      \/ \E r \in LapsedRuns : JobOf(r) = j
  BY DEF ExpireLeases
<1>3. ASSUME NEW r \in LapsedRuns, JobOf(r) = j PROVE run'[LastRun(j)].status = "expired"
  <2>1. r \in RunIds /\ run[r].status \in Live
    BY DEF LapsedRuns, LiveRuns
  <2>2. r = LastRun(j)
    BY <1>3, <2>1, LiveIsLast, RunKey DEF RunLog, LastRun
  <2>3. run'[r] = [run[r] EXCEPT !.status = "expired"] /\ run[r] \in RunRecord
    BY <2>1 DEF ExpireLeases, TypeOK
  <2> QED
    BY <2>2, <2>3 DEF RunRecord
<1> QED
  BY <1>2, <1>3 DEF Waits

LEMMA EveryWait ==
  ASSUME TypeOK, RunLog, [Next]_vars, NEW j \in Jobs PROVE Waits(j)
<1>1. job \in [Jobs -> JobRecord]
  BY DEF TypeOK
<1>2. CASE job'[j] = job[j]
  BY <1>2 DEF Waits
<1>3. CASE JobStep
  <2>1. ASSUME NEW i \in Jobs, CreateJob(i) \/ ApproveJob(i) \/ CancelJob(i) \/ QueueAges(i)
        PROVE  Waits(j)
    <3>1. CASE i # j
      <4>1. job'[j] = job[j]
        BY <1>1, <2>1, <3>1 DEF CreateJob, ApproveJob, CancelJob, QueueAges
      <4> QED
        BY <1>2, <4>1
    <3>2. CASE i = j
      <4>1. CASE CancelJob(j)
        <5>1. job'[j].status = "cancelled"
          BY <1>1, <4>1 DEF CancelJob, JobRecord
        <5> QED
          BY <5>1 DEF Waits
      <4> QED
        BY <2>1, <3>2, <4>1 DEF CreateJob, ApproveJob, QueueAges, Waits
    <3> QED
      BY <3>1, <3>2
  <2> QED
    BY <1>3, <2>1 DEF JobStep
<1>4. CASE LaneStep
  <2> PICK l \in Lanes :
         \/ LeaseNext(l) \/ StartRun(l) \/ Heartbeat(l) \/ FinishSucceeded(l)
         \/ \E code \in Codes \cup {"job_spec_invalid"} : FinishFailed(l, code)
         \/ ResultRefused(l) \/ LaneLost(l)
    BY <1>4 DEF LaneStep
  <2>1. CASE LeaseNext(l)
    <3> DEFINE queued == {i \in Jobs : job[i].status = "queued"}
    <3>1. ASSUME NEW S \in SUBSET queued, j \notin queued PROVE BlockJobs(S)[j] = job[j]
      BY <3>1 DEF BlockJobs
    <3>2. ASSUME NEW S \in SUBSET queued PROVE BlockJobs(S) \in [Jobs -> JobRecord]
      BY <1>1 DEF BlockJobs, JobRecord, JobStatuses
    <3>3. CASE j \in queued
      BY <3>3 DEF Waits
    <3>4. ASSUME NEW S \in SUBSET queued, NEW i \in queued, Grant(l, i, BlockJobs(S)), j \notin queued
          PROVE  job'[j] = job[j]
      <4> DEFINE swept == BlockJobs(S)
      <4>1. swept \in [Jobs -> JobRecord] /\ swept[j] = job[j]
        BY <3>1, <3>2, <3>4
      <4>2. \/ job' = [swept EXCEPT ![i].status = "failed"]
            \/ job' = [swept EXCEPT ![i].status = "leased", ![i].attempts = NextAttempt(i),
                                    ![i].queue = "ready"]
        BY <3>4 DEF Grant, FailExhausted
      <4> HIDE DEF swept
      <4> QED
        BY <3>4, <4>1, <4>2
    <3>5. \/ \E S \in SUBSET queued : job' = BlockJobs(S)
          \/ \E S \in SUBSET queued, i \in queued : i \notin S /\ Grant(l, i, BlockJobs(S))
      BY <2>1, LeaseEffect
    <3> HIDE DEF queued
    <3> QED
      BY <1>2, <3>1, <3>3, <3>4, <3>5
  <2>2. CASE StartRun(l) \/ FinishSucceeded(l)
    <3>1. \/ job'[j] = job[j]
          \/ \E s \in {"running", "succeeded"} : job'[j] = [job[j] EXCEPT !.status = s]
      BY <1>1, <2>2 DEF StartRun, FinishSucceeded
    <3>2. job[j] \in JobRecord
      BY <1>1
    <3> QED
      BY <1>2, <3>1, <3>2 DEF Waits, JobRecord
  <2> QED
    BY <1>2, <2>1, <2>2, FailureWaits DEF Heartbeat, ResultRefused, LaneLost
<1>5. CASE HubStep
  BY <1>2, <1>5, ExpiryWaits
  DEF HubStep, ApplyPipelineState, LeaseLapses, RequestPipelineState, ActivateDeployment
<1>6. CASE ReconcileStep
  BY <1>2, <1>6 DEF ReconcileStep, Reconcile, ReconcileCancelled, ReconcileRecovered, jobVars
<1> QED
  BY <1>2, <1>3, <1>4, <1>5, <1>6 DEF Next, vars

(* What the promise allows of a job keeps its executions within the        *)
(* grants.                                                                 *)
LEMMA PromiseBudgets ==
  ASSUME TypeOK, TypeOK', NEW j \in Jobs, Budgeted(j), Promise!JobStep(j)
  PROVE  /\ job'[j].attempts <= AllowedAttempts(j)'
         /\ job'[j].status \in {"absent", "awaiting_approval"} => job'[j].attempts = 0
<1>1. /\ job[j].attempts \in Nat /\ job[j].restarts \in Nat
      /\ job'[j].attempts \in Nat /\ job'[j].restarts \in Nat
  BY LedgerAssumption DEF TypeOK, JobRecord
<1>2. /\ stateOf[j] = State(job[j]) /\ stateOf'[j] = State(job'[j])
      /\ begunOf[j] = job[j].attempts /\ begunOf'[j] = job'[j].attempts
      /\ extraOf[j] = job[j].restarts /\ extraOf'[j] = job'[j].restarts
  BY DEF stateOf, begunOf, extraOf, State
<1>3. \/ /\ job'[j].attempts = job[j].attempts /\ job'[j].restarts >= job[j].restarts
         /\ \/ State(job'[j]) = State(job[j])
            \/ State(job'[j]) \notin {"absent", "awaiting_approval"}
            \/ State(job[j]) \in {"absent", "awaiting_approval"}
      \/ /\ job'[j].attempts <= Definition[j].maxAttempts + job[j].restarts
         /\ job'[j].restarts = job[j].restarts /\ State(job'[j]) = "held"
  BY <1>1, <1>2, Granting
  DEF Promise!JobStep, Promise!Keeps, Promise!Admit, Promise!Becomes, Promise!SameCounts,
      Promise!Lose, Promise!Answer, Promise!Return, Promise!GiveUp, Promise!Cancel,
      Promise!Reopen, Promise!Begin
<1> QED
  BY <1>1, <1>3, Granting DEF Budgeted, AllowedAttempts, State, Live

(* Repairs and requeues keep the promise of JobPromise too: what they put  *)
(* back has an execution left, and no process answers for what they touch. *)
LEMMA ReopenPromised ==
  ASSUME TypeOK, TypeOK', NEW j \in Jobs, Budgeted(j), lane' = lane,
         job'[j] = job[j] \/ Touched(j)
  PROVE  Promise!JobStep(j)
<1>1. CASE job'[j] = job[j]
  BY <1>1, KeepsPromised DEF Tallies, Answers
<1>2. ASSUME Touched(j) PROVE Answers(j) = {} /\ Answers(j)' = {}
  BY <1>2 DEF Touched, Requeued, PutBack, StageRetried, StageResumed, Withdrawn, Answers, Live
<1>3. job[j].attempts \in Nat /\ job[j].restarts \in Nat /\ job'[j].restarts \in Nat
  BY LedgerAssumption DEF TypeOK, JobRecord
<1>4. CASE Requeued(j)
  <2>1. /\ job[j].status \in {"failed", "blocked"} /\ job'[j].status = "queued"
        /\ job[j].status = "blocked" => job[j].attempts = 0
        /\ job'[j].attempts = job[j].attempts
        /\ \/ job'[j].restarts >= job[j].restarts + 1
           \/ /\ job'[j].restarts = job[j].restarts
              /\ job[j].attempts < Definition[j].maxAttempts
    BY <1>3, <1>4, Granting
    DEF Requeued, PutBack, StageRetried, StageResumed, SameTally, AttemptsLeft
  <2>2. CASE job'[j].restarts >= job[j].restarts + 1
    <3>1. /\ job'[j].restarts >= job[j].restarts
          /\ job[j].attempts < Definition[j].maxAttempts + job'[j].restarts
      BY <1>3, <2>2, Granting DEF Budgeted, AllowedAttempts
    <3> QED
      BY <1>2, <1>4, <2>1, <3>1, Granting
      DEF Touched, Promise!JobStep, Promise!Reopen, stateOf, begunOf, extraOf, byOf, State, Live
  <2>3. CASE job'[j].restarts = job[j].restarts /\ job[j].attempts < Definition[j].maxAttempts
    <3>1. /\ job'[j].restarts >= job[j].restarts
          /\ job[j].attempts < Definition[j].maxAttempts + job'[j].restarts
      BY <1>3, <2>3, Granting
    <3> QED
      BY <1>2, <1>4, <2>1, <3>1, Granting
      DEF Touched, Promise!JobStep, Promise!Reopen, stateOf, begunOf, extraOf, byOf, State, Live
  <2> QED
    BY <2>1, <2>2, <2>3
<1>5. CASE Withdrawn(j)
  <2>1. Promise!Cancel(j)
    BY <1>2, <1>5
    DEF Touched, Withdrawn, SameTally, Promise!Cancel, Promise!Becomes, Promise!SameCounts,
        stateOf, begunOf, extraOf, byOf, State, Live
  <2> QED
    BY <2>1 DEF Promise!JobStep
<1> QED
  BY <1>1, <1>4, <1>5 DEF Touched

LEMMA StepsPromised ==
  ASSUME RecoveryInv, OneHolder, Budgets, [RecoveryNext]_recoveryVars, NEW j \in Jobs
  PROVE  Promise!JobStep(j)
<1>1. CASE LedgerStep \/ UNCHANGED recoveryVars
  BY <1>1, LedgerStepIsNext, StepPromised DEF RecoveryInv, RecoveryTypeOK, recoveryVars, vars
<1>2. CASE RecoveryStep
  BY <1>2, RequeuesOnly, ReopenPromised, RecoveryInvStep DEF RecoveryInv, RecoveryTypeOK, Budgets
<1> QED
  BY <1>1, <1>2 DEF RecoveryNext, RecoveryStep

(* A job that waits with no execution left waited so before, or its lease  *)
(* just expired.                                                           *)
LEMMA BudgetStep ==
  RecoveryInv /\ OneHolder /\ Budgets /\ [RecoveryNext]_recoveryVars => Budgets'
<1> SUFFICES ASSUME RecoveryInv, OneHolder, Budgets, [RecoveryNext]_recoveryVars,
                    NEW j \in Jobs
             PROVE  Budgeted(j)'
  BY DEF Budgets
<1>1. /\ TypeOK /\ TypeOK' /\ RunLog /\ Budgeted(j) /\ Promise!JobStep(j)
  BY RecoveryInvStep, StepsPromised DEF RecoveryInv, RecoveryTypeOK, Budgets
<1>2. /\ job[j].attempts \in 0 .. MaxRuns /\ job[j].restarts \in Nat /\ MaxRuns \in Nat
      /\ job'[j].attempts \in Nat /\ job'[j].restarts \in Nat
  BY <1>1, LedgerAssumption DEF TypeOK, JobRecord
<1>3. ASSUME job'[j].status = "queued", Spent(j)' PROVE run'[LastRun(j)'].status = "expired"
  <2>1. CASE [Next]_vars
    <3>1. Waits(j) /\ Counts(j)
      BY <1>1, <2>1, EveryWait, EveryCount
    <3>2. job'[j].attempts = job[j].attempts /\ job'[j].restarts = job[j].restarts
          /\ LastRun(j)' = LastRun(j)
      BY <1>3, <3>1 DEF Counts, LastRun
    <3>3. Spent(j) /\ ~(job[j].attempts < Definition[j].maxAttempts)
      BY <1>2, <1>3, <3>2, Granting DEF Spent, AllowedAttempts
    <3>4. CASE job[j].status = "queued"
      <4>1. LastRun(j) \in RunIds /\ run[LastRun(j)].status = "expired"
        BY <1>1, <1>2, <3>3, <3>4, Granting DEF Budgeted, LastRun, RunIds
      <4> QED
        BY <1>1, <2>1, <3>2, <4>1, RowsStay DEF Live
    <3>5. job[j].status \notin {"absent", "awaiting_approval"}
      BY <1>1, <3>3, Granting DEF Budgeted
    <3> QED
      BY <1>3, <3>1, <3>2, <3>3, <3>4, <3>5 DEF Waits
  <2>2. CASE run' = run /\ (job'[j] = job[j] \/ Touched(j))
    <3>1. CASE job'[j] = job[j]
      BY <1>1, <1>3, <2>2, <3>1 DEF Budgeted, Spent, AllowedAttempts, LastRun
    <3>2. CASE PutBack(j)
      BY <1>1, <1>2, <1>3, <3>2, Granting DEF PutBack, Budgeted, Spent, AllowedAttempts
    <3>3. CASE StageRetried(j) \/ StageResumed(j)
      BY <1>2, <1>3, <3>3, Granting
      DEF StageRetried, StageResumed, SameTally, AttemptsLeft, Spent, AllowedAttempts
    <3> QED
      BY <1>3, <2>2, <3>1, <3>2, <3>3 DEF Touched, Requeued, Withdrawn
  <2> QED
    BY <2>1, <2>2, LedgerOrRequeue
<1> QED
  BY <1>1, <1>3, PromiseBudgets DEF Budgeted

LEMMA InitBudgets == RecoveryInit => Budgets
BY Granting DEF RecoveryInit, Init, Budgets, Budgeted, Spent, AllowedAttempts

LEMMA BudgetInvariant == RecoverySpec => []Budgets
<1>1. RecoverySpec => []OneHolder
  BY LedgerHoldsUnderRecovery, PTL
<1> QED
  BY <1>1, BudgetStep, InitBudgets, RecoveryInvariant, PTL DEF RecoverySpec

(* Work waits with no execution left only where a lease expired: no retry, *)
(* repair, restoration or stage retry puts back what the next lease would  *)
(* fail unrun.                                                             *)
THEOREM SpentCorrect == RecoverySpec => []SpentOnlyByExpiry
<1>1. Budgets => SpentOnlyByExpiry
  BY DEF Budgets, Budgeted, Spent, SpentOnlyByExpiry
<1> QED
  BY <1>1, BudgetInvariant, PTL

(* The promise of JobPromise holds under recovery: what was settled comes  *)
(* back only with an execution left, counted as a restart or not.          *)
THEOREM PromiseUnderRecovery == RecoverySpec => JobPromiseKept
<1>1. RecoveryInv /\ OneHolder /\ Budgets /\ [RecoveryNext]_recoveryVars
        => [Promise!Next]_(Promise!vars)
  BY StepsPromised DEF Promise!Next
<1>2. RecoveryInit => Promise!Init
  BY PromiseInit DEF RecoveryInit
<1> QED
  BY <1>1, <1>2, RecoveryInvariant, BudgetInvariant, LedgerHoldsUnderRecovery, PTL
  DEF RecoverySpec, JobPromiseKept, Promise!Spec

-----------------------------------------------------------------------------
(* Pauses and specification failures.                                      *)

(* While a pause is requested no ordinary work begins, recovery or not.    *)
THEOREM PauseUnderRecovery == RecoverySpec => PauseStopsDispatch
<1>1. ASSUME RecoveryInv, [RecoveryNext]_recoveryVars, pipeline.desired = "paused",
             NEW r \in RunIds, run[r].status = "none", run'[r].status = "leased"
      PROVE  Definition[JobOf(r)].kind \in {"chat", "respond", "probe"}
  <2>1. [Next]_vars
    BY <1>1, LedgerOrRequeue
  <2> QED
    BY <1>1, <2>1, PausedBegins DEF RecoveryInv, RecoveryTypeOK
<1>2. RecoveryInv /\ [RecoveryNext]_recoveryVars
        => [pipeline.desired = "paused" =>
              \A r \in RunIds : run[r].status = "none" /\ run'[r].status = "leased" =>
                Definition[JobOf(r)].kind \in {"chat", "respond", "probe"}]_vars
  BY <1>1
<1> QED
  BY <1>2, RecoveryInvariant, PTL DEF RecoverySpec, PauseStopsDispatch

(* A requeue after a specification failure is one more counted restart,    *)
(* whoever asks for it; a stage is retried after other failures only.      *)
LEMMA RequeueAccounts ==
  ASSUME RecoveryInv, SpecAccount, RecoveryStep PROVE SpecAccount'
<1>1. /\ run' = run
      /\ \A j \in Jobs : job'[j] = job[j] \/ Touched(j)
  BY RequeuesOnly DEF RecoveryInv
<1>2. \A r \in RunIds : Coded(r)'
  BY <1>1 DEF SpecAccount, Coded
<1>3. ASSUME NEW j \in Jobs PROVE Covered(j)'
  <2> DEFINE n == job[j].attempts
  <2>1. Covered(j) /\ n \in Nat /\ job[j].restarts \in Nat /\ job'[j].restarts \in Nat
    <3>1. job[j] \in JobRecord /\ job'[j] \in JobRecord
      BY RecoveryInvStep DEF RecoveryNext, RecoveryStep, RecoveryInv, RecoveryTypeOK, TypeOK
    <3> QED
      BY <3>1, LedgerAssumption DEF SpecAccount, JobRecord
  <2>2. CASE job'[j] = job[j]
    BY <1>1, <2>1, <2>2 DEF Covered, WaitsToRun, SpecRuns
  <2>3. \A m : {k \in 1 .. m : run'[<<j, k>>].code \in DeterministicSpecification} = SpecRuns(j, m)
    BY <1>1 DEF SpecRuns
  <2>4. CASE PutBack(j)
    <3>1. /\ Cardinality(SpecRuns(j, n)) \in Nat /\ Cardinality(SpecRuns(j, n - 1)) \in Nat
          /\ Cardinality(SpecRuns(j, n)) <= Cardinality(SpecRuns(j, n - 1)) + 1
      BY <2>1, SpecRunsFinite, SpecRunsGrow
    <3>2. /\ Cardinality(SpecRuns(j, n - 1)) <= job[j].restarts
          /\ job'[j].restarts >= job[j].restarts + 1 /\ job'[j].attempts = n
      BY <2>1, <2>4 DEF Covered, PutBack
    <3>3. /\ Cardinality(SpecRuns(j, n - 1)) <= job'[j].restarts
          /\ Cardinality(SpecRuns(j, n)) <= job'[j].restarts
      BY <2>1, <3>1, <3>2
    <3> QED
      BY <2>3, <3>2, <3>3 DEF Covered, SpecRuns
  <2>5. CASE StageRetried(j) \/ StageResumed(j)
    <3>1. SpecRuns(j, n) = SpecRuns(j, n - 1)
      <4>1. n = 0 => SpecRuns(j, n) = {} /\ SpecRuns(j, n - 1) = {}
        BY DEF SpecRuns
      <4>2. n = 0 \/ run[<<j, n>>].code \notin DeterministicSpecification
        BY <2>5 DEF StageRetried, StageResumed, LastRun
      <4> QED
        BY <2>1, <4>1, <4>2 DEF SpecRuns
    <3>2. job'[j].attempts = n /\ job'[j].restarts = job[j].restarts
      BY <2>5 DEF StageRetried, StageResumed, SameTally
    <3> QED
      BY <2>1, <2>3, <3>1, <3>2 DEF Covered, SpecRuns
  <2>6. CASE Withdrawn(j)
    BY <2>1, <2>3, <2>6 DEF Covered, Withdrawn, SameTally, WaitsToRun, SpecRuns
  <2> QED
    BY <1>1, <2>2, <2>4, <2>5, <2>6 DEF Touched, Requeued
<1> QED
  BY <1>2, <1>3 DEF SpecAccount

(* A deterministic specification failure is never retried, whatever the    *)
(* recovery threads and their crashes do, but by a counted restart.        *)
THEOREM SpecificationUnderRecovery == RecoverySpec => []SpecificationFailureNotRetried
<1>1. RecoveryInv /\ SpecAccount /\ [RecoveryNext]_recoveryVars => SpecAccount'
  <2> SUFFICES ASSUME RecoveryInv, SpecAccount, [RecoveryNext]_recoveryVars PROVE SpecAccount'
    OBVIOUS
  <2>1. CASE LedgerStep \/ UNCHANGED recoveryVars
    BY <2>1, LedgerStepIsNext, AccountStep DEF recoveryVars, vars, RecoveryInv, RecoveryTypeOK
  <2> QED
    BY <2>1, RequeueAccounts DEF RecoveryNext, RecoveryStep
<1>2. RecoveryInit => SpecAccount
  BY InitAccount DEF RecoveryInit
<1> QED
  BY <1>1, <1>2, AccountSuffices, RecoveryInvariant, PTL DEF RecoverySpec

-----------------------------------------------------------------------------
(* Responses.                                                              *)

Succeeded(j) == job[j].status = "succeeded"
Answered(r)  ==
  \/ \E j \in Jobs : SameTrigger(JobOf(r), j) /\ Succeeded(j)
  \/ reply[Trigger[JobOf(r)]] = "succeeded" /\ \E j \in About[Trigger[JobOf(r)]] : Succeeded(j)

(* An incident of other work is recovered only with its job.               *)
WorkRecovered ==
  \A r \in RunIds :
    ~IsRespond(JobOf(r)) /\ incident[r].state = "recovered" => Succeeded(JobOf(r))

(* Above the ledger, only settling a message recovers an incident, and     *)
(* only incidents of the responses to that message.                        *)
RecoveredBy(r, t) == Settles(t) /\ IsRespond(JobOf(r)) /\ Trigger[JobOf(r)] = t

LEMMA RecoversBySettling ==
  ASSUME RecoveryInv, RecoveryStep, NEW r \in RunIds,
         incident'[r].state = "recovered", incident[r].state # "recovered"
  PROVE  \E t \in Jobs : /\ RecoveredBy(r, t)
                         /\ ReconcileBlocked(t) \/ \E j \in Jobs : AnswerMessage(j) /\ Trigger[j] = t
<1>1. incident \in [RunIds -> IncidentRecord] /\ \A a \in AttemptIds : a[1] \in RunIds
  BY AttemptKey DEF RecoveryInv, RecoveryTypeOK, TypeOK
<1>2. incident'[r] # incident[r]
  OBVIOUS
<1>3. \A inc \in IncidentRecord : AfterFailedAttempt(inc).state \in {"classified", "escalated"}
  BY DEF AfterFailedAttempt, IncidentRecord
<1>4. ASSUME NEW a, FailAttempt(a) PROVE FALSE
  <2>1. incident'[r] = incident[r] \/ incident'[r] = AfterFailedAttempt(incident[r])
    BY <1>1, <1>4 DEF FailAttempt
  <2> QED
    BY <1>1, <1>3, <2>1
<1>5. ASSUME NEW batch, RestoreWork(batch) PROVE FALSE
  BY <1>1, <1>5 DEF RestoreWork, IncidentRecord
<1>6. CASE OnCallStep
  <2>1. ASSUME NEW t, Settles(t) PROVE RecoveredBy(r, t)
    BY <1>2, <2>1 DEF Settles, CloseSuperseded, Superseded, RecoveredBy
  <2>2. CASE \E j \in Jobs : AnswerMessage(j) \/ ReconcileBlocked(j)
    BY <2>1, <2>2, RecoveryAssumption DEF AnswerMessage, ReconcileBlocked
  <2>3. CASE StartAuthorizedRepair
    <3> DEFINE i == hub.incident
               n == NextOrdinal(i)
    <3>1. incident' = [incident EXCEPT
               ![i].state = "repairing", ![i].allowed = TRUE, ![i].started = n,
               ![i].budget = IF @ >= n THEN @ ELSE n, ![i].blocker = "none"]
      BY <1>2, <2>3 DEF StartAuthorizedRepair
    <3> HIDE DEF i, n
    <3>2. r = i => incident'[r].state = "repairing"
      BY <1>1, <3>1 DEF IncidentRecord
    <3>3. r # i => incident'[r] = incident[r]
      BY <1>1, <3>1
    <3> QED
      BY <1>2, <3>2, <3>3
  <2>4. ASSUME NEW q \in RunIds, BlockIncident(q) PROVE FALSE
    BY <1>1, <2>4 DEF BlockIncident, IncidentRecord
  <2> QED
    BY <1>2, <1>6, <2>2, <2>3, <2>4 DEF OnCallStep, BeginRepair, OnCallRetries, incidentVars, vars
<1>7. CASE CoordinatorStep
  <2>1. CASE MarkRetrying
    BY <1>1, <2>1 DEF MarkRetrying, IncidentRecord
  <2> QED
    BY <1>2, <1>4, <1>7, <2>1
    DEF CoordinatorStep, PreserveEvidence, MarkApplying, DriverDeploys, DriverFails,
        RecordOutcome, RetryRepairedJob, RetryRefused, RecordRetry, RestartPipeline, incidentVars
<1>8. CASE DiskStep
  BY <1>2, <1>5, <1>8 DEF DiskStep, DiskPauses, DiskCleans, DiskRestored, DiskRequeues,
                          DiskGivesUp, DiskRestarts, incidentVars, vars
<1>9. CASE OperatorStep
  BY <1>2, <1>5, <1>9 DEF OperatorStep, OperatorRestores, RetryFailedStage,
                          RecoverQueueExpired, incidentVars
<1>10. CASE NoticeStep \/ DaemonCrash
  BY <1>2, <1>10 DEF NoticeStep, Notify, DaemonCrash, vars
<1> QED
  BY <1>6, <1>7, <1>8, <1>9, <1>10 DEF RecoveryStep

LEMMA SucceededStays ==
  ASSUME RecoveryInv, [RecoveryNext]_recoveryVars, NEW j \in Jobs, Succeeded(j)
  PROVE  Succeeded(j)'
BY LedgerOrRequeue, TouchesUnsettled, SettledStay DEF RecoveryInv, RecoveryTypeOK, Succeeded

(* A message that is settled stays so.                                     *)
LEMMA ReplyStays ==
  ASSUME [RecoveryNext]_recoveryVars, RecoveryTypeOK, NEW t \in Jobs, reply[t] = "succeeded"
  PROVE  reply'[t] = "succeeded"
<1>1. reply \in [Jobs -> {"open", "blocked", "succeeded"}]
  BY DEF RecoveryTypeOK
<1>2. ASSUME NEW q, Settles(q) PROVE reply'[t] = "succeeded"
  BY <1>1, <1>2 DEF Settles
<1>3. ASSUME NEW batch, RestoreWork(batch) PROVE reply'[t] = "succeeded"
  BY <1>1, <1>3 DEF RestoreWork, MessagesOn
<1>4. CASE OnCallStep
  BY <1>2, <1>4 DEF OnCallStep, StartAuthorizedRepair, BeginRepair, BlockIncident,
                    AnswerMessage, ReconcileBlocked, OnCallRetries, restVars
<1>5. CASE CoordinatorStep
  BY <1>5 DEF CoordinatorStep, PreserveEvidence, MarkApplying, DriverDeploys, DriverFails,
              RecordOutcome, RetryRepairedJob, RetryRefused, RecordRetry, MarkRetrying,
              RestartPipeline, restVars
<1>6. CASE DiskStep
  BY <1>3, <1>6 DEF DiskStep, DiskPauses, DiskCleans, DiskRestored, DiskRequeues, DiskGivesUp,
                    DiskRestarts, restVars
<1>7. CASE OperatorStep
  BY <1>3, <1>7 DEF OperatorStep, OperatorRestores, RetryFailedStage, RecoverQueueExpired,
                    restVars
<1>8. CASE LedgerStep \/ NoticeStep \/ DaemonCrash \/ UNCHANGED recoveryVars
  BY <1>8 DEF LedgerStep, NoticeStep, Notify, DaemonCrash, recoveryVars, restVars
<1> QED
  BY <1>4, <1>5, <1>6, <1>7, <1>8 DEF RecoveryNext

LEMMA AnswerStays ==
  ASSUME RecoveryInv, [RecoveryNext]_recoveryVars, NEW r \in RunIds, Answered(r)
  PROVE  Answered(r)'
<1>1. JobOf(r) \in Jobs /\ Trigger[JobOf(r)] \in Jobs
      /\ \A t \in Jobs : About[t] \subseteq Jobs
  BY RunKey, RecoveryAssumption
<1> QED
  BY <1>1, SucceededStays, ReplyStays DEF RecoveryInv, Answered, SameTrigger, IsRespond

(* A step that recovers an incident has settled what it stands for.        *)
LEMMA LedgerRecovers ==
  ASSUME RecoveryInv, [Next]_vars, NEW r \in RunIds,
         incident'[r].state = "recovered", incident[r].state # "recovered"
  PROVE  JobOf(r) \in Jobs /\ Succeeded(JobOf(r))
<1>1. SuccessorSucceeded(r)
  BY EveryStepMoves
  DEF RecoveryInv, RecoveryTypeOK, IncidentStep, Stays, Opens, Proceeds, Recovers
<1> QED
  BY <1>1, RunKey DEF SuccessorSucceeded, Succeeded

LEMMA WorkRecoveredStep ==
  RecoveryInv /\ WorkRecovered /\ [RecoveryNext]_recoveryVars => WorkRecovered'
<1> SUFFICES ASSUME RecoveryInv, WorkRecovered, [RecoveryNext]_recoveryVars,
                    NEW r \in RunIds, ~IsRespond(JobOf(r)), incident'[r].state = "recovered"
             PROVE  Succeeded(JobOf(r))'
  BY DEF WorkRecovered, IsRespond
<1>1. JobOf(r) \in Jobs
  BY RunKey
<1>2. Succeeded(JobOf(r))
  <2>1. CASE incident[r].state = "recovered"
    BY <2>1 DEF WorkRecovered
  <2>2. CASE incident[r].state # "recovered" /\ (LedgerStep \/ UNCHANGED recoveryVars)
    BY <2>2, LedgerStepIsNext, LedgerRecovers DEF recoveryVars, vars
  <2>3. CASE incident[r].state # "recovered" /\ RecoveryStep
    BY <2>3, RecoversBySettling DEF RecoveredBy
  <2> QED
    BY <2>1, <2>2, <2>3 DEF RecoveryNext, RecoveryStep
<1> QED
  BY <1>1, <1>2, SucceededStays

LEMMA SettledMeans ==
  ASSUME RecoveryInv, WorkRecovered, [RecoveryNext]_recoveryVars, RecoveryStep,
         NEW r \in RunIds, incident'[r].state = "recovered", incident[r].state # "recovered"
  PROVE  Answered(r)'
<1>1. PICK t \in Jobs :
        /\ RecoveredBy(r, t)
        /\ ReconcileBlocked(t) \/ \E j \in Jobs : AnswerMessage(j) /\ Trigger[j] = t
  BY RecoversBySettling
<1>2. JobOf(r) \in Jobs /\ IsRespond(JobOf(r)) /\ Trigger[JobOf(r)] = t
  BY <1>1, RunKey DEF RecoveredBy
<1>3. CASE ReconcileBlocked(t)
  <2>1. PICK j \in About[t] :
          \/ job[j].status = "succeeded"
          \/ \E q \in RunIds : JobOf(q) = j /\ incident[q].state = "recovered"
    BY <1>3 DEF ReconcileBlocked, Resolved
  <2>2. j \in Jobs /\ ~IsRespond(j)
    BY <2>1, RecoveryAssumption
  <2>3. Succeeded(j)
    BY <2>1, <2>2 DEF WorkRecovered, Succeeded
  <2>4. Succeeded(j)'
    BY <2>2, <2>3, SucceededStays
  <2>5. reply'[t] = "succeeded"
    BY <1>3 DEF ReconcileBlocked, Settles, RecoveryInv, RecoveryTypeOK
  <2> QED
    BY <1>2, <2>1, <2>4, <2>5 DEF Answered
<1>4. ASSUME NEW j \in Jobs, AnswerMessage(j), Trigger[j] = t PROVE Answered(r)'
  <2>1. SameTrigger(JobOf(r), j) /\ Succeeded(j)
    BY <1>2, <1>4 DEF AnswerMessage, SameTrigger, Succeeded
  <2>2. Succeeded(j)'
    BY <2>1, SucceededStays
  <2> QED
    BY <2>1, <2>2 DEF Answered, SameTrigger, IsRespond
<1> QED
  BY <1>1, <1>3, <1>4

(* The incident of a response that could not be delivered is recovered     *)
(* only when its message is settled: answered, by it or by another         *)
(* response, or closed because the work it is about succeeded.             *)
THEOREM AnswerCorrect == RecoverySpec => []ResponseRecoveredWhenSettled
<1> DEFINE P == \A r \in RunIds :
                  IsRespond(JobOf(r)) /\ incident[r].state = "recovered" => Answered(r)
<1>1. RecoveryInit => P /\ WorkRecovered
  BY DEF RecoveryInit, Init, WorkRecovered, NoIncidentYet
<1>2. ASSUME RecoveryInv, WorkRecovered, P, [RecoveryNext]_recoveryVars PROVE P'
  <2> SUFFICES ASSUME NEW r \in RunIds, IsRespond(JobOf(r)), incident'[r].state = "recovered"
               PROVE  Answered(r)'
    BY DEF IsRespond
  <2>1. CASE incident[r].state = "recovered"
    BY <1>2, <2>1, AnswerStays
  <2>2. CASE incident[r].state # "recovered" /\ (LedgerStep \/ UNCHANGED recoveryVars)
    <3>1. JobOf(r) \in Jobs /\ Succeeded(JobOf(r))
      BY <1>2, <2>2, LedgerStepIsNext, LedgerRecovers DEF recoveryVars, vars
    <3>2. Answered(r)
      BY <3>1 DEF Answered, SameTrigger
    <3> QED
      BY <1>2, <3>2, AnswerStays
  <2>3. CASE incident[r].state # "recovered" /\ RecoveryStep
    BY <1>2, <2>3, SettledMeans
  <2> QED
    BY <1>2, <2>1, <2>2, <2>3 DEF RecoveryNext, RecoveryStep
<1>3. P => ResponseRecoveredWhenSettled
  BY DEF ResponseRecoveredWhenSettled, Answered, Succeeded
<1> HIDE DEF P
<1> QED
  BY <1>1, <1>2, <1>3, WorkRecoveredStep, RecoveryInvariant, PTL DEF RecoverySpec
=============================================================================
