--------------------- MODULE MissionLedgerIncidentProofs ---------------------
(***************************************************************************)
(* What failure capture guarantees of incidents, for any number of jobs:   *)
(* every failure is accounted for, an incident is recovered by a later     *)
(* success only, and the circuit breaker pauses the pipeline.              *)
(*                                                                         *)
(* Every step moves an incident and its block in one of four ways; the     *)
(* theorems are proved of these ways, IncidentStep.                        *)
(***************************************************************************)
EXTENDS MissionLedgerProofs, FiniteSetTheorems, WellFoundedInduction

-----------------------------------------------------------------------------
(* The recovery attempt a finished run belongs to.                         *)

LEMMA HasLeast ==
  ASSUME NEW T, T \subseteq Nat, T # {} PROVE \E x \in T : \A y \in T : x <= y
<1> DEFINE R == {ss \in Nat \X Nat : ss[1] < ss[2]}
<1>1. IsWellFoundedOn(R, Nat)
  BY NatLessThanWellFounded DEF OpToRel
<1> HIDE DEF R
<1>2. PICK x \in T : \A y \in T : ~(<<y, x>> \in R)
  BY <1>1, WFMin
<1>3. ASSUME NEW y \in T PROVE x <= y
  <2>1. <<y, x>> \in Nat \X Nat /\ ~(<<y, x>> \in R) /\ x \in Int /\ y \in Int
    BY <1>2
  <2> QED
    BY <2>1 DEF R
<1> QED
  BY <1>3

(* _verifying_attempt: the one with the highest ordinal exists.            *)
LEMMA ChosenIsVerifying ==
  ASSUME NEW j \in Jobs, VerifyingAttempts(j) # {}
  PROVE  VerifyingAttempt(j) \in VerifyingAttempts(j)
<1> DEFINE V == VerifyingAttempts(j)
           T == {MaxRepairs - a[2] : a \in V}
<1>1. \A a \in V : a[2] \in Int /\ a[2] >= 1 /\ a[2] <= MaxRepairs
  BY LedgerAssumption DEF VerifyingAttempts, AttemptIds
<1>2. T \subseteq Nat /\ T # {}
  BY <1>1, LedgerAssumption
<1>3. PICK x \in T : \A y \in T : x <= y
  BY <1>2, HasLeast
<1>4. PICK a \in V : x = MaxRepairs - a[2]
  BY <1>3
<1>5. \A b \in V : MaxRepairs - a[2] <= MaxRepairs - b[2]
  BY <1>3, <1>4
<1>6. \A b \in V : b[2] <= a[2]
  BY <1>1, <1>4, <1>5, LedgerAssumption
<1> QED
  BY <1>4, <1>6 DEF VerifyingAttempt

Watched == {"monitoring", "verifying"}

LEMMA ChosenIsWatched ==
  ASSUME NEW j \in Jobs, VerifyingAttempts(j) # {}
  PROVE  LET i == VerifyingAttempt(j)[1] IN
         i \in RunIds /\ JobOf(i) = j /\ incident[i].state \in Watched
BY ChosenIsVerifying DEF VerifyingAttempts, AttemptIds, Watched

-----------------------------------------------------------------------------
(* The ways an incident moves.                                             *)

(* Incidents belong to runs that failed or expired.                        *)
OfEndedRun(r)  == incident[r].state # "none" => run[r].status \in {"failed", "expired"}
EndedIncidents == \A r \in RunIds : OfEndedRun(r)

Stays(r) == incident'[r] = incident[r] /\ block'[r] = block[r]

Opens(r) ==
  /\ run[r].status \in Live /\ incident[r].state = "none"
  /\ run'[r].status \in {"failed", "expired"}
  /\ incident'[r].state \in {"monitoring", "classified", "blocked"}
  /\ block'[r] \in {block[r], "active"}
  /\ incident'[r].state \in {"classified", "blocked"} /\ BreakerTrips =>
       pipeline'.desired = "paused"

Proceeds(r) ==
  /\ incident[r].state \in Watched
  /\ incident'[r].state \in {"monitoring", "blocked", "escalated", "classified"}
  /\ block'[r] \in {block[r], "active"}

Recovers(r) ==
  /\ incident[r].state \in Watched /\ incident'[r].state = "recovered"
  /\ SuccessorSucceeded(r) /\ run' = run
  /\ block'[r] = IF block[r] = "active" THEN "resolved" ELSE block[r]

IncidentStep(r) == Stays(r) \/ Opens(r) \/ Proceeds(r) \/ Recovers(r)

LEMMA LiveHasNoIncident ==
  ASSUME EndedIncidents, NEW r \in RunIds, run[r].status \in Live
  PROVE  incident[r].state = "none"
BY DEF EndedIncidents, OfEndedRun, Live

(* A failure whose job goes back to the queue.                             *)
LEMMA RetriedStep ==
  ASSUME TypeOK, EndedIncidents, NEW S \in SUBSET RunIds, NEW code,
         \A q \in S : run[q].status \in Live /\ run'[q].status \in {"failed", "expired"},
         CaptureRetried(S, code), NEW r \in RunIds
  PROVE  IncidentStep(r)
<1> DEFINE opened  == {q \in S : OpensIncident(q)}
           watched == {VerifyingAttempt(JobOf(q))[1] : q \in S \ opened}
<1>1. block' = block /\ incident \in [RunIds -> IncidentRecord]
  BY DEF CaptureRetried, TypeOK
<1>2. CASE r \in opened
  <2>1. incident'[r].state = "monitoring"
    BY <1>2 DEF CaptureRetried, NewIncident
  <2>2. run[r].status \in Live /\ run'[r].status \in {"failed", "expired"}
    BY <1>2
  <2> QED
    BY <1>1, <2>1, <2>2, LiveHasNoIncident DEF IncidentStep, Opens
<1>3. CASE r \notin opened /\ r \in watched
  <2>1. PICK q \in S \ opened : r = VerifyingAttempt(JobOf(q))[1]
    BY <1>3
  <2>2. incident[r].state \in Watched
    BY <2>1, ChosenIsWatched, RunKey DEF OpensIncident
  <2>3. incident'[r] = [incident[r] EXCEPT !.state = "monitoring", !.blocker = "none"]
    BY <1>3 DEF CaptureRetried
  <2>4. incident'[r].state = "monitoring"
    BY <1>1, <2>3 DEF IncidentRecord
  <2> QED
    BY <1>1, <2>2, <2>4 DEF IncidentStep, Proceeds
<1>4. CASE r \notin opened /\ r \notin watched
  BY <1>1, <1>4 DEF CaptureRetried, IncidentStep, Stays
<1> QED
  BY <1>2, <1>3, <1>4

(* A failure that ends its job.                                            *)
LEMMA TerminalStep ==
  ASSUME TypeOK, EndedIncidents, NEW q \in RunIds, NEW code,
         run[q].status \in Live, run'[q].status \in {"failed", "expired"},
         CaptureTerminal(q, code), NEW r \in RunIds
  PROVE  IncidentStep(r)
<1> DEFINE j == JobOf(q)
           a == VerifyingAttempt(j)
<1>1. /\ incident \in [RunIds -> IncidentRecord]
      /\ block \in [RunIds -> {"none", "active", "resolved"}]
      /\ pipeline \in [desired : {"running", "paused"}, applied : {"running", "paused"}]
      /\ j \in Jobs
  BY RunKey DEF TypeOK
<1>2. CASE VerifyingAttempts(j) # {}
  <2>1. VerificationFailed(a, j, code)
    BY <1>2 DEF CaptureTerminal
  <2>2. a[1] \in RunIds /\ incident[a[1]].state \in Watched
    BY <1>1, <1>2, ChosenIsWatched
  <2> HIDE DEF a, j
  <2>3. CASE r = a[1]
    <3>1. \/ incident'[r] = [incident[r] EXCEPT !.state = "blocked", !.allowed = FALSE,
                               !.blocker = "atomic_unit_retry_budget_exhausted"]
          \/ incident'[r] = AfterFailedAttempt(incident[r])
      BY <1>1, <2>1, <2>3 DEF VerificationFailed
    <3>2. incident'[r].state \in {"blocked", "escalated", "classified"}
      BY <1>1, <3>1 DEF AfterFailedAttempt, IncidentRecord
    <3>3. block'[r] \in {block[r], "active"}
      BY <1>1, <2>1, <2>3 DEF VerificationFailed
    <3> QED
      BY <2>2, <2>3, <3>2, <3>3 DEF IncidentStep, Proceeds
  <2>4. CASE r # a[1]
    <3>1. incident'[r] = incident[r] /\ block'[r] = block[r]
      BY <1>1, <2>1, <2>4 DEF VerificationFailed
    <3> QED
      BY <3>1 DEF IncidentStep, Stays
  <2> QED
    BY <2>3, <2>4
<1>3. CASE VerifyingAttempts(j) = {}
  <2>1. OpenTerminalIncident(q, code)
    BY <1>3 DEF CaptureTerminal
  <2>2. CASE r = q
    <3>1. incident'[r].state \in {"classified", "blocked"}
      BY <1>1, <2>1, <2>2 DEF OpenTerminalIncident, NewIncident
    <3>2. block'[r] \in {block[r], "active"}
      BY <1>1, <2>1, <2>2 DEF OpenTerminalIncident
    <3>3. BreakerTrips => pipeline'.desired = "paused"
      BY <1>1, <1>3 DEF CaptureTerminal
    <3> QED
      BY <2>2, <3>1, <3>2, <3>3, LiveHasNoIncident DEF IncidentStep, Opens
  <2>3. CASE r # q
    <3>1. incident'[r] = incident[r] /\ block'[r] = block[r]
      BY <1>1, <2>1, <2>3 DEF OpenTerminalIncident
    <3> QED
      BY <3>1 DEF IncidentStep, Stays
  <2> QED
    BY <2>2, <2>3
<1> QED
  BY <1>2, <1>3

LEMMA ReconcileIncident ==
  ASSUME TypeOK, NEW q \in RunIds, Reconcile(q), NEW r \in RunIds
  PROVE  IncidentStep(r)
<1>1. /\ incident \in [RunIds -> IncidentRecord]
      /\ block \in [RunIds -> {"none", "active", "resolved"}]
  BY DEF TypeOK
<1>2. incident[q].state \in Watched
  BY DEF Reconcile, ReconcileCancelled, ReconcileRecovered, Watched
<1>3. CASE ReconcileCancelled(q)
  <2>1. r = q => incident'[r].state = "blocked"
    BY <1>1, <1>3 DEF ReconcileCancelled, IncidentRecord
  <2>2. r # q => incident'[r] = incident[r]
    BY <1>1, <1>3 DEF ReconcileCancelled
  <2>3. block' = block
    BY <1>3 DEF ReconcileCancelled
  <2> QED
    BY <1>2, <2>1, <2>2, <2>3 DEF IncidentStep, Proceeds, Stays
<1>4. CASE ReconcileRecovered(q)
  <2>1. r = q => incident'[r].state = "recovered"
    BY <1>1, <1>4 DEF ReconcileRecovered, IncidentRecord
  <2>2. r # q => incident'[r] = incident[r] /\ block'[r] = block[r]
    BY <1>1, <1>4 DEF ReconcileRecovered
  <2>3. r = q => block'[r] = IF block[r] = "active" THEN "resolved" ELSE block[r]
    BY <1>1, <1>4 DEF ReconcileRecovered
  <2>4. SuccessorSucceeded(q) /\ run' = run
    BY <1>4 DEF ReconcileRecovered, jobVars
  <2> QED
    BY <1>2, <2>1, <2>2, <2>3, <2>4 DEF IncidentStep, Recovers, Stays
<1> QED
  BY <1>3, <1>4 DEF Reconcile

(* A run that ends in FinishFailed or ExpireLeases.                        *)
LEMMA FailedRun ==
  ASSUME TypeOK, NEW l \in Lanes, NEW code \in Codes \cup {"job_spec_invalid"},
         FinishFailed(l, code)
  PROVE  /\ lane[l].run \in RunIds /\ run[lane[l].run].status \in Live
         /\ run'[lane[l].run].status = "failed"
         /\ \A q \in RunIds \ {lane[l].run} : run'[q] = run[q]
<1> DEFINE r == lane[l].run
<1>1. r \in RunIds /\ run[r].status \in Live /\ run \in [RunIds -> RunRecord]
  BY DEF TypeOK, LaneRecord, FinishFailed, HeldLive, Holds
<1> QED
  BY <1>1 DEF FinishFailed, RunRecord

LEMMA ExpiredRuns ==
  ASSUME TypeOK, ExpireLeases
  PROVE  /\ \A q \in LapsedRuns : /\ q \in RunIds /\ run[q].status \in Live
                                  /\ run'[q].status = "expired"
         /\ \A q \in RunIds \ LapsedRuns : run'[q] = run[q]
<1>1. run \in [RunIds -> RunRecord]
  BY DEF TypeOK
<1>2. run' = [q \in RunIds |-> IF q \in LapsedRuns THEN [run[q] EXCEPT !.status = "expired"]
                               ELSE run[q]]
  BY DEF ExpireLeases
<1>3. \A q \in LapsedRuns : q \in RunIds /\ run[q].status \in Live
  BY DEF LapsedRuns, LiveRuns
<1> QED
  BY <1>1, <1>2, <1>3 DEF RunRecord

LEMMA EveryStepMoves ==
  ASSUME TypeOK, EndedIncidents, [Next]_vars, NEW r \in RunIds
  PROVE  IncidentStep(r)
<1>1. CASE UNCHANGED <<incident, block>>
  BY <1>1 DEF IncidentStep, Stays
<1>2. CASE JobStep
  BY <1>1, <1>2 DEF JobStep, CreateJob, ApproveJob, CancelJob, QueueAges, incidentVars
<1>3. CASE LaneStep
  <2> PICK l \in Lanes :
         \/ LeaseNext(l) \/ StartRun(l) \/ Heartbeat(l) \/ FinishSucceeded(l)
         \/ \E code \in Codes \cup {"job_spec_invalid"} : FinishFailed(l, code)
         \/ ResultRefused(l) \/ LaneLost(l)
    BY <1>3 DEF LaneStep
  <2>1. ASSUME NEW code \in Codes \cup {"job_spec_invalid"}, FinishFailed(l, code)
        PROVE  IncidentStep(r)
    <3> DEFINE q == lane[l].run
    <3>1. q \in RunIds /\ run[q].status \in Live /\ run'[q].status = "failed"
      BY <2>1, FailedRun
    <3>2. CASE UNCHANGED incidentVars
      BY <1>1, <3>2 DEF incidentVars
    <3>3. CASE CaptureRetried({q}, code)
      <4>1. {q} \in SUBSET RunIds
            /\ \A p \in {q} : run[p].status \in Live /\ run'[p].status \in {"failed", "expired"}
        BY <3>1
      <4> HIDE DEF q
      <4> QED
        BY <3>3, <4>1, RetriedStep
    <3>4. CASE CaptureTerminal(q, code)
      BY <3>1, <3>4, TerminalStep
    <3> QED
      BY <2>1, <3>2, <3>3, <3>4 DEF FinishFailed
  <2> QED
    BY <1>1, <2>1
    DEF LeaseNext, StartRun, Heartbeat, FinishSucceeded, ResultRefused, LaneLost, incidentVars
<1>4. CASE HubStep
  <2>1. CASE ExpireLeases
    <3>1. LapsedRuns \in SUBSET RunIds /\ CaptureRetried(LapsedRuns, "lease_expired")
      BY <2>1 DEF ExpireLeases, CaptureExpired, LapsedRuns, LiveRuns
    <3>2. \A q \in LapsedRuns : run[q].status \in Live /\ run'[q].status \in {"failed", "expired"}
      BY <2>1, ExpiredRuns
    <3> QED
      BY <3>1, <3>2, RetriedStep
  <2> QED
    BY <1>1, <1>4, <2>1
    DEF HubStep, ApplyPipelineState, LeaseLapses, RequestPipelineState, ActivateDeployment,
        incidentVars
<1>5. CASE ReconcileStep
  BY <1>5, ReconcileIncident DEF ReconcileStep
<1> QED
  BY <1>1, <1>2, <1>3, <1>4, <1>5 DEF Next, vars

-----------------------------------------------------------------------------
(* Theorems.                                                               *)

LEMMA EndedStep == TypeOK /\ RunLog /\ EndedIncidents /\ [Next]_vars => EndedIncidents'
<1> SUFFICES ASSUME TypeOK, RunLog, EndedIncidents, [Next]_vars, NEW r \in RunIds
             PROVE  OfEndedRun(r)'
  BY DEF EndedIncidents
<1>1. incident[r].state # "none" => run[r].status \in {"failed", "expired"} /\ run'[r] = run[r]
  BY RowsStay DEF EndedIncidents, OfEndedRun, Live
<1> QED
  BY <1>1, EveryStepMoves DEF OfEndedRun, IncidentStep, Stays, Opens, Proceeds, Recovers, Watched

(* Only failed and expired runs have incidents.                            *)
THEOREM IncidentsOfEndedRuns == Spec => []EndedIncidents
<1>1. Init => EndedIncidents
  BY DEF Init, EndedIncidents, OfEndedRun, NoIncidentYet
<1> QED
  BY <1>1, EndedStep, TypeCorrect, RunLogCorrect, PTL DEF Spec

(* A run of the log is at most the last.                                   *)
LEMMA WithinLog ==
  ASSUME TypeOK, RunLog, NEW r \in RunIds, run[r].status # "none"
  PROVE  r[2] <= job[JobOf(r)].attempts
<1>1. JobOf(r) \in Jobs /\ r[2] \in 1 .. MaxRuns /\ r = <<JobOf(r), r[2]>>
  BY RunKey
<1>2. JobLog(JobOf(r)) /\ job[JobOf(r)].attempts \in Int
  BY <1>1 DEF RunLog, TypeOK, JobRecord
<1> QED
  BY <1>1, <1>2 DEF JobLog

RecoveredLater(r) ==
  /\ incident[r].state = "recovered" =>
       /\ \E k \in (r[2] + 1) .. MaxRuns : run[<<JobOf(r), k>>].status = "succeeded"
       /\ block[r] # "active"
  /\ block[r] = "resolved" => incident[r].state = "recovered"

(* The success that closes an incident is of the last run, the incident of *)
(* an earlier one.                                                         *)
LEMMA SuccessorIsLater ==
  ASSUME TypeOK, RunLog, NEW r \in RunIds, run[r].status \in {"failed", "expired"},
         SuccessorSucceeded(r)
  PROVE  \E k \in (r[2] + 1) .. MaxRuns : run[<<JobOf(r), k>>].status = "succeeded"
<1> DEFINE j == JobOf(r)
           n == job[j].attempts
<1>1. j \in Jobs /\ r[2] \in 1 .. MaxRuns /\ r[2] <= n
  BY RunKey, WithinLog
<1>2. JobLog(j) /\ n \in 0 .. MaxRuns /\ MaxRuns \in Nat
  BY <1>1, LedgerAssumption DEF RunLog, TypeOK, JobRecord
<1>3. PICK k \in 1 .. MaxRuns : run[<<j, k>>].status = "succeeded" /\ k # r[2]
  BY DEF SuccessorSucceeded
<1>4. k <= n /\ ~(k \in 1 .. (n - 1))
  BY <1>1, <1>2, <1>3 DEF JobLog
<1> HIDE DEF n
<1>5. k \in (r[2] + 1) .. MaxRuns
  BY <1>1, <1>2, <1>3, <1>4
<1> QED
  BY <1>3, <1>5

LEMMA RecoveredStep ==
  TypeOK /\ RunLog /\ EndedIncidents /\ RecoveredByLaterRun /\ [Next]_vars => RecoveredByLaterRun'
<1> SUFFICES ASSUME TypeOK, RunLog, EndedIncidents, RecoveredByLaterRun, [Next]_vars,
                    NEW r \in RunIds
             PROVE  RecoveredLater(r)'
  BY DEF RecoveredByLaterRun, RecoveredLater
<1>1. RecoveredLater(r) /\ block[r] \in {"none", "active", "resolved"}
  BY DEF RecoveredByLaterRun, RecoveredLater, TypeOK
<1>2. CASE Stays(r)
  <2>1. ASSUME NEW k \in (r[2] + 1) .. MaxRuns, run[<<JobOf(r), k>>].status = "succeeded"
        PROVE  run'[<<JobOf(r), k>>].status = "succeeded"
    <3>1. <<JobOf(r), k>> \in RunIds
      BY RunKey, LedgerAssumption DEF RunIds
    <3> QED
      BY <2>1, <3>1, RowsStay DEF Live
  <2> QED
    BY <1>1, <1>2, <2>1 DEF RecoveredLater, Stays
<1>3. CASE Opens(r) \/ Proceeds(r)
  BY <1>1, <1>3 DEF RecoveredLater, Opens, Proceeds, Watched
<1>4. CASE Recovers(r)
  <2>1. run[r].status \in {"failed", "expired"}
    BY <1>4 DEF Recovers, EndedIncidents, OfEndedRun, Watched
  <2>2. \E k \in (r[2] + 1) .. MaxRuns : run[<<JobOf(r), k>>].status = "succeeded"
    BY <1>4, <2>1, SuccessorIsLater DEF Recovers
  <2> QED
    BY <1>1, <1>4, <2>2 DEF RecoveredLater, Recovers
<1> QED
  BY <1>2, <1>3, <1>4, EveryStepMoves DEF IncidentStep

(* An incident is closed as recovered only by a later success of its job,  *)
(* and its campaign block is lifted then and not before.                   *)
THEOREM RecoveredCorrect == Spec => []RecoveredByLaterRun
<1>1. Init => RecoveredByLaterRun
  BY DEF Init, RecoveredByLaterRun, NoIncidentYet
<1> QED
  BY <1>1, RecoveredStep, TypeCorrect, RunLogCorrect, IncidentsOfEndedRuns, PTL DEF Spec

(* A failure under verification belongs to the incident of an earlier run. *)
LEMMA WatchedEarlier ==
  ASSUME TypeOK, RunLog, EndedIncidents, NEW r \in RunIds, run[r].status \in Live,
         VerifyingAttempts(JobOf(r)) # {}
  PROVE  \E k \in 1 .. r[2] : incident[<<JobOf(r), k>>].state # "none"
<1> DEFINE j == JobOf(r)
           i == VerifyingAttempt(j)[1]
<1>1. j \in Jobs /\ r[2] = job[j].attempts
  BY LiveIsLast, RunKey DEF RunLog
<1>2. i \in RunIds /\ JobOf(i) = j /\ incident[i].state # "none"
  BY <1>1, ChosenIsWatched DEF Watched
<1> HIDE DEF i
<1>3. run[i].status # "none"
  BY <1>2 DEF EndedIncidents, OfEndedRun
<1>4. i = <<j, i[2]>> /\ i[2] \in 1 .. MaxRuns /\ i[2] <= r[2] /\ r[2] \in Int
  BY <1>1, <1>2, <1>3, RunKey, WithinLog
<1>5. i[2] \in 1 .. r[2]
  BY <1>4
<1> QED
  BY <1>2, <1>4, <1>5

(* Incidents are never forgotten.                                          *)
LEMMA IncidentRemains ==
  ASSUME TypeOK, EndedIncidents, [Next]_vars, NEW r \in RunIds, incident[r].state # "none"
  PROVE  incident'[r].state # "none"
BY EveryStepMoves DEF IncidentStep, Stays, Opens, Proceeds, Recovers

(* A run that ends without success opens an incident or has an earlier one.*)
LEMMA NewFailureCaptured ==
  ASSUME TypeOK, RunLog, EndedIncidents, [Next]_vars, NEW r \in RunIds,
         run[r].status \notin {"failed", "expired"}, run'[r].status \in {"failed", "expired"},
         ~IsRespond(JobOf(r))
  PROVE  \/ incident'[r].state # "none"
         \/ run[r].status \in Live /\ VerifyingAttempts(JobOf(r)) # {}
<1>1. run \in [RunIds -> RunRecord] /\ run' # run
  BY DEF TypeOK
<1>2. CASE JobStep
  <2>1. ASSUME NEW j \in Jobs, CancelJob(j) PROVE FALSE
    <3>1. run'[r] = IF r \in LiveOf(j) THEN [run[r] EXCEPT !.status = "cancelled"] ELSE run[r]
      BY <2>1 DEF CancelJob
    <3> QED
      BY <1>1, <3>1 DEF RunRecord
  <2> QED
    BY <1>1, <1>2, <2>1 DEF JobStep, CreateJob, ApproveJob, QueueAges
<1>3. CASE LaneStep
  <2> PICK l \in Lanes :
         \/ LeaseNext(l) \/ StartRun(l) \/ Heartbeat(l) \/ FinishSucceeded(l)
         \/ \E code \in Codes \cup {"job_spec_invalid"} : FinishFailed(l, code)
         \/ ResultRefused(l) \/ LaneLost(l)
    BY <1>3 DEF LaneStep
  <2>1. ASSUME NEW code \in Codes \cup {"job_spec_invalid"}, FinishFailed(l, code)
        PROVE  \/ incident'[r].state # "none"
               \/ run[r].status \in Live /\ VerifyingAttempts(JobOf(r)) # {}
    <3>1. r = lane[l].run /\ run[r].status \in Live
      BY <2>1, FailedRun
    <3>2. CaptureRetried({r}, code) \/ CaptureTerminal(r, code)
      BY <2>1, <3>1 DEF FinishFailed
    <3>3. ASSUME VerifyingAttempts(JobOf(r)) = {}, CaptureRetried({r}, code)
          PROVE  incident'[r].state # "none"
      BY <3>3 DEF CaptureRetried, OpensIncident, NewIncident
    <3>4. ASSUME VerifyingAttempts(JobOf(r)) = {}, CaptureTerminal(r, code)
          PROVE  incident'[r].state # "none"
      <4>1. incident \in [RunIds -> IncidentRecord]
        BY DEF TypeOK
      <4>2. OpenTerminalIncident(r, code)
        BY <3>4 DEF CaptureTerminal
      <4> QED
        BY <4>1, <4>2 DEF OpenTerminalIncident, NewIncident
    <3> QED
      BY <3>1, <3>2, <3>3, <3>4
  <2>2. CASE LeaseNext(l)
    BY <1>1, <2>2, GrantIsNew
  <2>3. CASE StartRun(l)
    BY <1>1, <2>3 DEF StartRun, RunRecord
  <2>4. CASE Heartbeat(l)
    BY <1>1, <2>4 DEF Heartbeat, RunRecord
  <2>5. CASE FinishSucceeded(l)
    BY <1>1, <2>5 DEF FinishSucceeded, RunRecord
  <2> QED
    BY <1>1, <2>1, <2>2, <2>3, <2>4, <2>5 DEF ResultRefused, LaneLost
<1>4. CASE HubStep
  <2>1. CASE ExpireLeases
    <3>1. r \in LapsedRuns /\ run[r].status \in Live
      BY <2>1, ExpiredRuns
    <3>2. CaptureRetried(LapsedRuns, "lease_expired")
      BY <2>1 DEF ExpireLeases, CaptureExpired
    <3>3. VerifyingAttempts(JobOf(r)) = {} => incident'[r].state # "none"
      BY <3>1, <3>2 DEF CaptureRetried, OpensIncident, NewIncident
    <3> QED
      BY <3>1, <3>3
  <2>2. ASSUME NEW q \in RunIds, LeaseLapses(q) PROVE FALSE
    BY <1>1, <2>2 DEF LeaseLapses, RunRecord
  <2> QED
    BY <1>1, <1>4, <2>1, <2>2
    DEF HubStep, ApplyPipelineState, RequestPipelineState, ActivateDeployment
<1>5. CASE ReconcileStep
  BY <1>1, <1>5 DEF ReconcileStep, Reconcile, ReconcileCancelled, ReconcileRecovered, jobVars
<1> QED
  BY <1>1, <1>2, <1>3, <1>4, <1>5 DEF Next, vars

LEMMA CapturedStep ==
  TypeOK /\ RunLog /\ EndedIncidents /\ FailureHasIncident /\ [Next]_vars => FailureHasIncident'
<1> SUFFICES ASSUME TypeOK, RunLog, EndedIncidents, FailureHasIncident, [Next]_vars,
                    NEW r \in RunIds, run'[r].status \in {"failed", "expired"},
                    ~IsRespond(JobOf(r))
             PROVE  \E k \in 1 .. r[2] : incident'[<<JobOf(r), k>>].state # "none"
  BY DEF FailureHasIncident, IsRespond
<1>1. JobOf(r) \in Jobs /\ r[2] \in 1 .. MaxRuns /\ r = <<JobOf(r), r[2]>>
  BY RunKey
<1>2. ASSUME NEW k \in 1 .. r[2], incident[<<JobOf(r), k>>].state # "none"
      PROVE  incident'[<<JobOf(r), k>>].state # "none"
  <2>1. <<JobOf(r), k>> \in RunIds
    BY <1>1, LedgerAssumption DEF RunIds
  <2> QED
    BY <1>2, <2>1, IncidentRemains
<1>3. CASE run[r].status \in {"failed", "expired"}
  BY <1>2, <1>3 DEF FailureHasIncident
<1>4. CASE run[r].status \notin {"failed", "expired"}
  <2>1. CASE incident'[r].state # "none"
    BY <1>1, <2>1
  <2>2. CASE run[r].status \in Live /\ VerifyingAttempts(JobOf(r)) # {}
    BY <1>2, <2>2, WatchedEarlier
  <2> QED
    BY <1>4, <2>1, <2>2, NewFailureCaptured
<1> QED
  BY <1>3, <1>4

(* No failed or expired run of ordinary work goes unaccounted for.         *)
THEOREM FailuresCaptured == Spec => []FailureHasIncident
<1>1. Init => FailureHasIncident
  BY DEF Init, FailureHasIncident, NoRunYet
<1> QED
  BY <1>1, CapturedStep, TypeCorrect, RunLogCorrect, IncidentsOfEndedRuns, PTL DEF Spec

(* A failure that ends its job behind an unresolved incident leaves the    *)
(* pipeline paused.                                                        *)
THEOREM BreakerCorrect == Spec => BreakerPauses
<1>1. ASSUME TypeOK, EndedIncidents, [Next]_vars, NEW r \in RunIds,
             incident[r].state = "none", incident'[r].state \in {"classified", "blocked"},
             BreakerTrips
      PROVE  pipeline'.desired = "paused"
  BY <1>1, EveryStepMoves DEF IncidentStep, Stays, Opens, Proceeds, Recovers, Watched
<1>2. TypeOK /\ EndedIncidents /\ [Next]_vars
        => [\A r \in RunIds :
              /\ incident[r].state = "none" /\ incident'[r].state \in {"classified", "blocked"}
              /\ latest # Null /\ incident[latest].state # "recovered"
              => pipeline'.desired = "paused"]_vars
  BY <1>1 DEF BreakerTrips
<1> QED
  BY <1>2, TypeCorrect, IncidentsOfEndedRuns, PTL DEF Spec, BreakerPauses

-----------------------------------------------------------------------------
(* One verification at a time.                                             *)

(* Attempts that verify belong to incidents, and a job has at most one.    *)
VerifiesIncident(a) == repair[a].state = "verifying" => incident[a[1]].state # "none"
Alone ==
  /\ \A a \in AttemptIds : VerifiesIncident(a)
  /\ \A j \in Jobs : \A a, b \in VerifyingAttempts(j) : a = b

(* Most steps start no verification.                                       *)
StartsNone(a) ==
  repair'[a].state = "verifying" =>
    /\ repair[a].state = "verifying"
    /\ incident'[a[1]].state \in Watched => incident[a[1]].state \in Watched

LEMMA AloneKept ==
  ASSUME TypeOK, EndedIncidents, Alone, [Next]_vars, \A a \in AttemptIds : StartsNone(a)
  PROVE  Alone'
<1>1. \A a \in AttemptIds : VerifiesIncident(a)'
  <2> SUFFICES ASSUME NEW a \in AttemptIds, repair'[a].state = "verifying"
               PROVE  incident'[a[1]].state # "none"
    BY DEF VerifiesIncident
  <2>1. a[1] \in RunIds /\ incident[a[1]].state # "none"
    BY DEF AttemptIds, Alone, VerifiesIncident, StartsNone
  <2> QED
    BY <2>1, IncidentRemains
<1>2. ASSUME NEW j \in Jobs PROVE VerifyingAttempts(j)' \subseteq VerifyingAttempts(j)
  BY DEF VerifyingAttempts, StartsNone, Watched
<1> QED
  BY <1>1, <1>2 DEF Alone

(* A failure that is retried starts a verification only for a job that had *)
(* none, and by RunLog only one run of a job can fail at a time.           *)
LEMMA RetriedAlone ==
  ASSUME TypeOK, RunLog, EndedIncidents, Alone, [Next]_vars,
         NEW S \in SUBSET RunIds, NEW code, \A q \in S : run[q].status \in Live,
         CaptureRetried(S, code)
  PROVE  Alone'
<1> DEFINE opened == {q \in S : OpensIncident(q)}
<1>1. \A a \in AttemptIds :
        /\ a[1] \in opened /\ a[2] = 1 => incident'[a[1]].state = "monitoring"
        /\ ~(a[1] \in opened /\ a[2] = 1) => repair'[a] = repair[a]
  BY DEF CaptureRetried, NewIncident, AttemptIds
<1>2. \A q \in opened : incident[q].state = "none" /\ VerifyingAttempts(JobOf(q)) = {}
  BY LiveHasNoIncident DEF OpensIncident
<1>3. ASSUME NEW a \in AttemptIds PROVE VerifiesIncident(a)'
  <2>1. a[1] \in RunIds
    BY DEF AttemptIds
  <2> QED
    BY <1>1, <2>1, IncidentRemains DEF Alone, VerifiesIncident
<1>4. \A r \in RunIds \ opened : incident'[r].state \in Watched => incident[r].state \in Watched
  <2> SUFFICES ASSUME NEW r \in RunIds \ opened, incident'[r].state \in Watched
               PROVE  incident[r].state \in Watched
    OBVIOUS
  <2>1. CASE \E q \in S \ opened : r = VerifyingAttempt(JobOf(q))[1]
    BY <2>1, ChosenIsWatched, RunKey DEF OpensIncident
  <2>2. CASE ~\E q \in S \ opened : r = VerifyingAttempt(JobOf(q))[1]
    BY <2>2 DEF CaptureRetried
  <2> QED
    BY <2>1, <2>2
<1>5. \A a \in AttemptIds :
        a[1] \in opened /\ repair'[a].state = "verifying" => a[2] = 1
  BY <1>1, <1>2 DEF Alone, VerifiesIncident
<1>6. ASSUME NEW j \in Jobs, NEW a \in VerifyingAttempts(j)'
      PROVE  /\ a \in AttemptIds /\ JobOf(a[1]) = j
             /\ \/ a \in VerifyingAttempts(j) /\ a[1] \notin opened
                \/ a[1] \in opened /\ a[2] = 1 /\ VerifyingAttempts(j) = {}
  <2>1. a \in AttemptIds /\ a[1] \in RunIds /\ JobOf(a[1]) = j
        /\ incident'[a[1]].state \in Watched /\ repair'[a].state = "verifying"
    BY DEF VerifyingAttempts, Watched, AttemptIds
  <2>2. CASE a[1] \in opened
    BY <1>2, <1>5, <2>1, <2>2
  <2>3. CASE a[1] \notin opened
    <3>1. repair[a].state = "verifying" /\ incident[a[1]].state \in Watched
      BY <1>1, <1>4, <2>1, <2>3
    <3> QED
      BY <2>1, <2>3, <3>1 DEF VerifyingAttempts, Watched
  <2> QED
    BY <2>1, <2>2, <2>3
<1>7. \A q, r \in S : JobOf(q) = JobOf(r) => q = r
  <2> SUFFICES ASSUME NEW q \in S, NEW r \in S, JobOf(q) = JobOf(r) PROVE q = r
    OBVIOUS
  <2>1. JobOf(q) \in Jobs /\ q[2] = job[JobOf(q)].attempts /\ r[2] = job[JobOf(r)].attempts
    BY LiveIsLast, RunKey DEF RunLog
  <2> QED
    BY <2>1, RunKey
<1>8. ASSUME NEW j \in Jobs, NEW a \in VerifyingAttempts(j)', NEW b \in VerifyingAttempts(j)'
      PROVE  a = b
  <2>1. CASE a \in VerifyingAttempts(j) /\ b \in VerifyingAttempts(j)
    BY <2>1 DEF Alone
  <2>2. CASE ~(a \in VerifyingAttempts(j) /\ b \in VerifyingAttempts(j))
    <3>1. /\ a \in AttemptIds /\ a[1] \in opened /\ a[2] = 1
          /\ b \in AttemptIds /\ b[1] \in opened /\ b[2] = 1
          /\ JobOf(a[1]) = JobOf(b[1])
      BY <1>6, <1>8, <2>2
    <3>2. a[1] = b[1] /\ a = <<a[1], a[2]>> /\ b = <<b[1], b[2]>>
      BY <1>7, <3>1 DEF AttemptIds
    <3> QED
      BY <3>1, <3>2
  <2> QED
    BY <2>1, <2>2
<1> QED
  BY <1>3, <1>8 DEF Alone

(* A failure that ends its job, and the closing of an incident, end        *)
(* verifications and start none.                                           *)
LEMMA TerminalAlone ==
  ASSUME TypeOK, EndedIncidents, Alone, [Next]_vars, NEW q \in RunIds, NEW code,
         CaptureTerminal(q, code)
  PROVE  Alone'
<1>1. repair \in [AttemptIds -> RepairRecord] /\ incident \in [RunIds -> IncidentRecord]
  BY DEF TypeOK
<1>2. ASSUME NEW r \in RunIds, incident'[r].state \in Watched
      PROVE  incident[r].state \in Watched
  <2>1. CASE VerifyingAttempts(JobOf(q)) # {}
    <3> DEFINE i == VerifyingAttempt(JobOf(q))[1]
    <3>1. incident[i].state \in Watched
      BY <2>1, ChosenIsWatched, RunKey
    <3>2. VerificationFailed(VerifyingAttempt(JobOf(q)), JobOf(q), code)
      BY <2>1 DEF CaptureTerminal
    <3>3. r # i => incident'[r] = incident[r]
      BY <1>1, <3>2 DEF VerificationFailed
    <3> QED
      BY <1>2, <3>1, <3>3
  <2>2. CASE VerifyingAttempts(JobOf(q)) = {}
    <3>1. OpenTerminalIncident(q, code)
      BY <2>2 DEF CaptureTerminal
    <3>2. r # q => incident'[r] = incident[r]
      BY <1>1, <3>1 DEF OpenTerminalIncident
    <3>3. incident'[q].state \in {"classified", "blocked"}
      BY <1>1, <3>1 DEF OpenTerminalIncident, NewIncident
    <3> QED
      BY <1>2, <3>2, <3>3 DEF Watched
  <2> QED
    BY <2>1, <2>2
<1>3. ASSUME NEW a \in AttemptIds, repair'[a].state = "verifying"
      PROVE  repair[a].state = "verifying"
  <2>1. repair' = repair \/ \E b : repair' = [repair EXCEPT ![b].state = "failed"]
    BY DEF CaptureTerminal, VerificationFailed, OpenTerminalIncident
  <2> QED
    BY <1>1, <1>3, <2>1 DEF RepairRecord
<1>4. \A a \in AttemptIds : StartsNone(a)
  BY <1>2, <1>3 DEF StartsNone, AttemptIds
<1> QED
  BY <1>4, AloneKept

LEMMA ReconcileAlone ==
  ASSUME TypeOK, EndedIncidents, Alone, [Next]_vars, NEW q \in RunIds, Reconcile(q)
  PROVE  Alone'
<1>1. repair \in [AttemptIds -> RepairRecord] /\ incident \in [RunIds -> IncidentRecord]
  BY DEF TypeOK
<1>2. \A r \in RunIds : incident'[r].state \in Watched => incident[r].state \in Watched
  <2>1. incident[q].state \in Watched
    BY DEF Reconcile, ReconcileCancelled, ReconcileRecovered, Watched
  <2>2. \A r \in RunIds \ {q} : incident'[r] = incident[r]
    BY <1>1 DEF Reconcile, ReconcileCancelled, ReconcileRecovered
  <2> QED
    BY <2>1, <2>2
<1>3. ASSUME NEW a \in AttemptIds, repair'[a].state = "verifying"
      PROVE  repair[a].state = "verifying"
  BY <1>1, <1>3 DEF Reconcile, ReconcileCancelled, ReconcileRecovered, RepairRecord
<1>4. \A a \in AttemptIds : StartsNone(a)
  BY <1>2, <1>3 DEF StartsNone, AttemptIds
<1> QED
  BY <1>4, AloneKept

LEMMA AloneStep == TypeOK /\ RunLog /\ EndedIncidents /\ Alone /\ [Next]_vars => Alone'
<1> SUFFICES ASSUME TypeOK, RunLog, EndedIncidents, Alone, [Next]_vars PROVE Alone'
  OBVIOUS
<1>1. CASE UNCHANGED <<incident, repair>>
  BY <1>1 DEF Alone, VerifiesIncident, VerifyingAttempts
<1>2. CASE JobStep
  BY <1>1, <1>2 DEF JobStep, CreateJob, ApproveJob, CancelJob, QueueAges, incidentVars
<1>3. CASE LaneStep
  <2> PICK l \in Lanes :
         \/ LeaseNext(l) \/ StartRun(l) \/ Heartbeat(l) \/ FinishSucceeded(l)
         \/ \E code \in Codes \cup {"job_spec_invalid"} : FinishFailed(l, code)
         \/ ResultRefused(l) \/ LaneLost(l)
    BY <1>3 DEF LaneStep
  <2>1. ASSUME NEW code \in Codes \cup {"job_spec_invalid"}, FinishFailed(l, code)
        PROVE  Alone'
    <3> DEFINE q == lane[l].run
    <3>1. q \in RunIds /\ run[q].status \in Live
      BY <2>1, FailedRun
    <3>2. UNCHANGED incidentVars \/ CaptureRetried({q}, code) \/ CaptureTerminal(q, code)
      BY <2>1 DEF FinishFailed
    <3> HIDE DEF q
    <3>3. {q} \in SUBSET RunIds /\ \A p \in {q} : run[p].status \in Live
      BY <3>1
    <3> QED
      BY <1>1, <3>1, <3>2, <3>3, RetriedAlone, TerminalAlone DEF incidentVars
  <2> QED
    BY <1>1, <2>1
    DEF LeaseNext, StartRun, Heartbeat, FinishSucceeded, ResultRefused, LaneLost, incidentVars
<1>4. CASE HubStep
  <2>1. CASE ExpireLeases
    <3>1. LapsedRuns \in SUBSET RunIds /\ \A q \in LapsedRuns : run[q].status \in Live
      BY DEF LapsedRuns, LiveRuns
    <3> QED
      BY <2>1, <3>1, RetriedAlone DEF ExpireLeases, CaptureExpired
  <2> QED
    BY <1>1, <1>4, <2>1
    DEF HubStep, ApplyPipelineState, LeaseLapses, RequestPipelineState, ActivateDeployment,
        incidentVars
<1>5. CASE ReconcileStep
  BY <1>5, ReconcileAlone DEF ReconcileStep
<1> QED
  BY <1>1, <1>2, <1>3, <1>4, <1>5 DEF Next, vars

(* A job has at most one recovery under verification, so a success closes  *)
(* the recovery it belongs to.                                             *)
THEOREM OneVerificationCorrect == Spec => []OneVerification
<1>1. Init => Alone
  BY DEF Init, Alone, VerifiesIncident, VerifyingAttempts, NoRepairYet
<1>2. Alone => OneVerification
  <2> SUFFICES ASSUME Alone, NEW j \in Jobs PROVE Cardinality(VerifyingAttempts(j)) <= 1
    BY DEF OneVerification
  <2>1. CASE VerifyingAttempts(j) = {}
    BY <2>1, FS_EmptySet
  <2>2. ASSUME NEW a \in VerifyingAttempts(j) PROVE Cardinality(VerifyingAttempts(j)) <= 1
    <3>1. VerifyingAttempts(j) = {a}
      BY <2>2 DEF Alone
    <3>2. Cardinality(VerifyingAttempts(j)) = 1
      BY <3>1, FS_Singleton, Zenon
    <3> QED
      BY <3>2
  <2> QED
    BY <2>1, <2>2
<1> QED
  BY <1>1, <1>2, AloneStep, TypeCorrect, RunLogCorrect, IncidentsOfEndedRuns, PTL DEF Spec
=============================================================================
