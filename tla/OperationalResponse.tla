-------------------------- MODULE OperationalResponse --------------------------
(***************************************************************************)
(* The rows of operational_responses: each message to the operational      *)
(* channel is assessed by a job of the hub machine, and the tick thread    *)
(* carries out what the assessment asks for and answers.  Lanes serve      *)
(* ordinary work beside it.                                                *)
(***************************************************************************)
EXTENDS Naturals, FiniteSets

CONSTANTS
    Messages,
    Notices,     \* those the hub wrote itself
    Slots,       \* number of lanes of the hub machine
    MaxAttempts, \* runs of one response job, at least one
    Settings,    \* [posted, actions, broken, trouble]: the messages that are posted, what an
                 \* assessment may ask for, whether there is failed work to repair, and a
                 \* bound on crashes of the daemon and work that goes before a response (at most
                 \* one: a second crash could leave a third job of a message)
    Null

(* "unfit" stands for what is malformed or not permitted, "leave" and      *)
(* "allow" for no action and automatic recovery of a named job, "none" for *)
(* what changes nothing here (operator_required blocks the incident, a     *)
(* recommission makes a visual workflow).                                  *)
Actions == {"none", "leave", "allow", "pause", "repair", "retry", "unfit"}

VARIABLES
    setting,
    row,      \* row[m]: the response row; `key` tells the idempotency key of its next job
    job,      \* job[m][k]: the response job of key k
    other,    \* ordinary work under way, of which some shares the provider of the responses
    pipeline, \* desired state
    work,     \* the failed job the messages are about, and its repair
    rested,   \* the last automated response started long enough ago
    hub,      \* the tick thread between two transactions
    trouble

rows == <<row, job, other, pipeline, work, rested, hub, trouble>>
vars == <<setting, rows>>

Keys == {1, 2}
ResponseJobs == Messages \X Keys
Status == {"absent", "pending", "queued", "running", "succeeded", "blocked"}
Idle == [at |-> "idle", message |-> Null]

TypeOK ==
    /\ row \in [Messages -> [status : Status, waited : BOOLEAN, due : BOOLEAN, refused : BOOLEAN,
                             linked : BOOLEAN, key : Keys]]
    /\ job \in [Messages -> [Keys -> [
                   status : {"none", "queued", "live", "succeeded", "failed", "cancelled"},
                   attempts : 0 .. MaxAttempts, action : Actions \cup {Null}]]]
    /\ other \in [plain : 0 .. Slots, shared : 0 .. 1]
    /\ pipeline \in {"running", "paused"}
    /\ work \in {"failed", "repairing", "ready", "requeued", "spent", "verifying", "healthy"}
    /\ rested \in BOOLEAN /\ trouble \in 0 .. setting.trouble /\ setting \in Settings
    /\ hub \in [at : {"idle", "linking", "beginning", "marking", "starting", "posting", "recording"},
                message : Messages \cup {Null}]

NoJob == [status |-> "none", attempts |-> 0, action |-> Null]

Init ==
    /\ setting \in Settings
    /\ row = [m \in Messages |-> [status |-> "absent", waited |-> FALSE, due |-> TRUE,
                                  refused |-> FALSE, linked |-> FALSE, key |-> 1]]
    /\ job = [m \in Messages |-> [k \in Keys |-> NoJob]]
    /\ other = [plain |-> 0, shared |-> 0]
    /\ pipeline = "running" /\ work = (IF setting.broken THEN "failed" ELSE "healthy")
    /\ rested = TRUE /\ hub = Idle /\ trouble = 0

At(place, m) == hub = [at |-> place, message |-> m]
Go(place, m) == hub' = [at |-> place, message |-> m]
Rest == hub' = Idle

Job(m) == job[m][row[m].key]
LiveResponses == {r \in ResponseJobs : job[r[1]][r[2]].status = "live"}
OrdinaryLive == other.plain + other.shared > 0
Quiet == ~OrdinaryLive /\ LiveResponses = {}

-----------------------------------------------------------------------------
(* Messages: a thread, a message in it, a notice of the hub.               *)

Post(m) ==
    /\ row[m].status = "absent" /\ m \in setting.posted
    /\ row' = [row EXCEPT ![m].status = "pending"]
    /\ UNCHANGED <<job, other, pipeline, work, rested, hub, trouble>>

-----------------------------------------------------------------------------
(* _queue.                                                                 *)

Waiting(m) == row[m].status = "pending" /\ row[m].due

(* The key counts the checks, so a job made and not linked is not found    *)
(* again once a check was counted.                                         *)
Counted(m) ==
    IF ~row[m].linked /\ Job(m).status # "none" THEN 3 - row[m].key ELSE row[m].key

WaitForBoundary(m) ==
    /\ hub = Idle /\ Waiting(m) /\ OrdinaryLive
    /\ row' = [row EXCEPT ![m].waited = TRUE, ![m].due = FALSE, ![m].key = Counted(m)]
    /\ UNCHANGED <<job, other, pipeline, work, rested, hub, trouble>>

(* create_job returns the job that exists for the key.                     *)
CreateResponse(m) ==
    /\ hub = Idle /\ Waiting(m) /\ ~OrdinaryLive
    /\ job' = IF Job(m).status = "none"
              THEN [job EXCEPT ![m][row[m].key].status = "queued"] ELSE job
    /\ Go("linking", m)
    /\ UNCHANGED <<row, other, pipeline, work, rested, trouble>>

LinkResponse(m) ==
    /\ At("linking", m)
    /\ row' = [row EXCEPT ![m].status = "queued", ![m].linked = TRUE, ![m].due = TRUE]
    /\ Rest
    /\ UNCHANGED <<job, other, pipeline, work, rested, trouble>>

-----------------------------------------------------------------------------
(* The rest of tick: the rows whose job exists.                            *)

Polled(m) == hub = Idle /\ (row[m].status = "queued" \/ (row[m].status = "running" /\ row[m].due))

FollowJob(m) ==
    /\ Polled(m) /\ Job(m).status \in {"queued", "live"}
    /\ LET seen == IF Job(m).status = "live" THEN "running" ELSE "queued" IN
        /\ row[m].status # seen
        /\ row' = [row EXCEPT ![m].status = seen]
    /\ UNCHANGED <<job, other, pipeline, work, rested, hub, trouble>>

(* A failed assessment is asked for again, under the next key.             *)
RetainForRetry(m) ==
    /\ Polled(m) /\ Job(m).status \in {"failed", "cancelled"}
    /\ row' = [row EXCEPT ![m].status = "pending", ![m].linked = FALSE, ![m].due = FALSE]
    /\ job' = [job EXCEPT ![m][row[m].key] = NoJob]
    /\ UNCHANGED <<other, pipeline, work, rested, hub, trouble>>

(* _act, up to its first transaction.                                      *)
Refused(m) == row' = [row EXCEPT ![m].status = "running", ![m].refused = TRUE, ![m].due = FALSE]

Retryable == work = "ready" /\ pipeline = "paused" /\ Quiet
StillFailed == work \in {"failed", "repairing", "ready", "spent"}
Recovering == work \in {"requeued", "verifying"}

IsRefused(action) ==
    \/ action = "unfit"
    \/ action = "leave" /\ StillFailed
    \/ action = "allow" /\ ~Recovering
    \/ action = "retry" /\ ~Retryable

(* An operator's message may restart the pipeline for a job in the queue.  *)
PipelineAfter(action, m) ==
    IF action \in {"pause", "repair"} THEN {"paused"}
    ELSE IF action = "allow" /\ m \notin Notices THEN {pipeline, "running"} ELSE {pipeline}

StepAfter(action) ==
    IF action = "repair" THEN "beginning" ELSE IF action = "retry" THEN "marking" ELSE "posting"

Act(m) ==
    /\ Polled(m) /\ Job(m).status = "succeeded"
    /\ LET action == Job(m).action IN
        IF IsRefused(action)
        THEN Refused(m) /\ UNCHANGED <<pipeline, work, hub>>
        ELSE /\ pipeline' \in PipelineAfter(action, m)
             /\ work' = IF action = "retry" THEN "requeued" ELSE work
             /\ Go(StepAfter(action), m) /\ UNCHANGED row
    /\ UNCHANGED <<job, other, rested, trouble>>

BeginRepair(m) ==
    /\ At("beginning", m)
    /\ IF work = "failed"
       THEN work' = "repairing" /\ Go("posting", m) /\ UNCHANGED row
       ELSE Refused(m) /\ Rest /\ UNCHANGED work
    /\ UNCHANGED <<job, other, pipeline, rested, trouble>>

MarkRetrying(m) ==
    /\ At("marking", m)
    /\ work' = "verifying" /\ Go("starting", m)
    /\ UNCHANGED <<row, job, other, pipeline, rested, trouble>>

RestartPipeline(m) ==
    /\ At("starting", m)
    /\ pipeline' = "running" /\ Go("posting", m)
    /\ UNCHANGED <<row, job, other, work, rested, trouble>>

(* add_thread_message of the answer, then the row.                         *)
Answer(m) ==
    /\ At("posting", m)
    /\ Go("recording", m)
    /\ UNCHANGED <<row, job, other, pipeline, work, rested, trouble>>

RecordAnswer(m) ==
    /\ At("recording", m)
    /\ row' = [row EXCEPT ![m].status = "succeeded", ![m].refused = FALSE, ![m].due = TRUE]
    /\ Rest
    /\ UNCHANGED <<job, other, pipeline, work, rested, trouble>>

(* _reconcile_legacy_responses; a workflow counts as soon as it is active. *)
Resolved == Recovering \/ work = "healthy"

ReconcileBlocked(m) ==
    /\ hub = Idle /\ row[m].status = "blocked" /\ Resolved
    /\ row' = [row EXCEPT ![m].status = "succeeded"]
    /\ UNCHANGED <<job, other, pipeline, work, rested, hub, trouble>>

TickStep(m) ==
    \/ WaitForBoundary(m) \/ CreateResponse(m) \/ LinkResponse(m)
    \/ FollowJob(m) \/ RetainForRetry(m) \/ Act(m)
    \/ BeginRepair(m) \/ MarkRetrying(m) \/ RestartPipeline(m)
    \/ Answer(m) \/ RecordAnswer(m) \/ ReconcileBlocked(m)

-----------------------------------------------------------------------------
(* lease_next on the hub machine.                                          *)

FreeSlot == other.plain + other.shared + Cardinality(LiveResponses) < Slots
ProviderFree == other.shared = 0 /\ LiveResponses = {}

Leasable(m, k) ==
    job[m][k].status = "queued" /\ ProviderFree /\ (m \in Notices => rested)

NeverHeld == FALSE  \* fault: ordinary work does not wait for a response
HeldBack == \E m \in Messages : row[m].status = "pending" /\ row[m].waited

LeaseResponse(m, k) ==
    /\ FreeSlot /\ Leasable(m, k)
    /\ job' = [job EXCEPT ![m][k].status = "live", ![m][k].attempts = @ + 1]
    /\ rested' = (rested /\ m \notin Notices)
    /\ UNCHANGED <<row, other, pipeline, work, hub, trouble>>

(* Ordinary work; only what recovers an incident goes before a response.   *)
LeaseOrdinary(kind) ==
    /\ FreeSlot /\ pipeline = "running" /\ ~HeldBack
    /\ kind = "shared" => ProviderFree
    /\ IF \E r \in ResponseJobs : Leasable(r[1], r[2])
       THEN trouble < setting.trouble /\ trouble' = trouble + 1
       ELSE UNCHANGED trouble
    /\ other' = [other EXCEPT ![kind] = @ + 1]
    /\ UNCHANGED <<row, job, pipeline, work, rested, hub>>

OrdinaryEnds(kind) ==
    /\ other[kind] > 0
    /\ other' = [other EXCEPT ![kind] = @ - 1]
    /\ UNCHANGED <<row, job, pipeline, work, rested, hub, trouble>>

ResponseSucceeds(m, k) ==
    /\ job[m][k].status = "live"
    /\ \E action \in setting.actions :
           job' = [job EXCEPT ![m][k].status = "succeeded", ![m][k].action = action]
    /\ UNCHANGED <<row, other, pipeline, work, rested, hub, trouble>>

ResponseFails(m, k) ==
    /\ job[m][k].status = "live"
    /\ \/ job' = [job EXCEPT ![m][k].status = "failed"]
       \/ /\ job[m][k].attempts < MaxAttempts
          /\ job' = [job EXCEPT ![m][k].status = "queued"]
    /\ UNCHANGED <<row, other, pipeline, work, rested, hub, trouble>>

-----------------------------------------------------------------------------
(* Time, the operator, the repair coordinator, crashes.                    *)

ComesDue(m) ==
    /\ ~row[m].due
    /\ row' = [row EXCEPT ![m].due = TRUE]
    /\ UNCHANGED <<job, other, pipeline, work, rested, hub, trouble>>

IntervalEnds ==
    /\ ~rested /\ rested' = TRUE
    /\ UNCHANGED <<row, job, other, pipeline, work, hub, trouble>>

SwitchPipeline ==
    /\ pipeline' \in {"running", "paused"} \ {pipeline}
    /\ UNCHANGED <<row, job, other, work, rested, hub, trouble>>

(* The attempt goes through, is left unfinished or fails; the retried job  *)
(* runs and succeeds or fails again; an attempt that was never marked may  *)
(* be used once more behind another deployment.                            *)
WorkProceeds ==
    /\ \/ work = "failed" /\ work' = "repairing"
       \/ work = "repairing" /\ work' \in {"ready", "verifying", "failed"}
       \/ work = "requeued" /\ pipeline = "running" /\ work' \in {"healthy", "spent"}
       \/ work = "spent" /\ work' = "ready"
       \/ work = "verifying" /\ pipeline = "running" /\ work' \in {"healthy", "failed"}
    /\ UNCHANGED <<row, job, other, pipeline, rested, hub, trouble>>

(* retry_local_resource_incidents, by the operator: the responses to the   *)
(* notices of the restored incidents are closed.                           *)
RestoreResources(m) ==
    /\ pipeline = "paused" /\ Quiet /\ work = "failed" /\ work' = "verifying"
    /\ m \in Notices /\ row[m].status \in {"pending", "queued"}
    /\ row' = [row EXCEPT ![m].status = "blocked"]
    /\ job' = IF row[m].linked /\ Job(m).status = "queued"
              THEN [job EXCEPT ![m][row[m].key].status = "cancelled"] ELSE job
    /\ UNCHANGED <<other, pipeline, rested, hub, trouble>>

DaemonCrash ==
    /\ hub # Idle /\ trouble < setting.trouble /\ trouble' = trouble + 1
    /\ Rest
    /\ UNCHANGED <<row, job, other, pipeline, work, rested>>

-----------------------------------------------------------------------------
Next ==
    /\ UNCHANGED setting
    /\ \/ \E m \in Messages : Post(m) \/ TickStep(m) \/ ComesDue(m) \/ RestoreResources(m)
       \/ \E m \in Messages, k \in Keys :
              LeaseResponse(m, k) \/ ResponseSucceeds(m, k) \/ ResponseFails(m, k)
       \/ \E kind \in {"plain", "shared"} : LeaseOrdinary(kind) \/ OrdinaryEnds(kind)
       \/ IntervalEnds \/ SwitchPipeline \/ WorkProceeds \/ DaemonCrash

(* A tick visits every row, lanes take responses in the order of their     *)
(* creation, runs and intervals end, and a provider that is asked again    *)
(* and again answers some time.                                            *)
Fairness ==
    /\ \A m \in Messages :
        /\ SF_rows(TickStep(m)) /\ WF_rows(ComesDue(m))
        /\ SF_rows(\E k \in Keys : LeaseResponse(m, k))
        /\ SF_rows(\E k \in Keys : ResponseSucceeds(m, k))
    /\ \A kind \in {"plain", "shared"} : WF_rows(OrdinaryEnds(kind))
    /\ WF_rows(IntervalEnds)

Spec == Init /\ [][Next]_vars /\ Fairness

-----------------------------------------------------------------------------
(* Properties.                                                             *)

\* Every message is answered, unless what its assessment asks for is refused or an operator
\* closed it with the failure it was about: though ordinary work never ends, assessments
\* fail, and the daemon dies between any two transactions.
MessagesAnswered ==
    \A m \in Messages : row[m].status = "pending" ~>
        row[m].status \in {"succeeded", "blocked"} \/ row[m].refused
===============================================================================
