-------------------------- MODULE CheckpointFrontier --------------------------
(***************************************************************************)
(* One Cortex branch, the checkpoints it trains, and the retention thread  *)
(* that retires them.  Session k trains checkpoint k from checkpoint k-1   *)
(* and, when the recipe says so, is evaluated against it.  The coordinator *)
(* (tick thread), a machine lane and the retention thread work on the same *)
(* rows, one transaction at a time; the bytes are on the trainbox.         *)
(***************************************************************************)
EXTENDS Naturals, FiniteSets

CONSTANTS
    N,           \* sessions of the recipe
    Recipes,     \* [policy, chosen, preserved]: evaluation_policy, evaluation_indices (of policy
                 \* "selected") and preserve_session_indices
    Declared,    \* checkpoints named in the metadata of the active campaign
    MaxInterventions,  \* repairs of the workflow and dispatches by hand
    MaxScans,    \* storage inventories
    Null

Session == 1..N
Checkpoint == 0..N
Stage == Session \X {"train", "evaluate"}

ASSUME FrontierAssumption ==
    /\ N \in Nat \ {0}
    /\ Recipes \subseteq [policy : {"behavioral_and_mri", "selected", "none"},
                          chosen : SUBSET Session, preserved : SUBSET Session]
    /\ Declared \subseteq Checkpoint /\ 0 \in Declared
    /\ MaxInterventions \in Nat /\ MaxScans \in Nat
    /\ Null \notin Stage

VARIABLES
    recipe,       \* the immutable specification of the workflow
    job,          \* job[s]: status of the job of stage s
    linked,       \* stages recorded in cortex_workflow_jobs
    workflow,     \* status of the Cortex workflow
    desired,      \* desired state of the pipeline
    creating,     \* stage whose job the coordinator has created and not linked
    gated,        \* the lane has passed the gate and not leased yet
    lane,         \* the stage the lane executes
    row,          \* row[c]: the artifact and its location in the ledger
    bytes,        \* checkpoints whose file exists on the trainbox
    auto,         \* checkpoints with an active automatic protection
    kept,         \* checkpoints the recipe preserves (operator protections)
    deletion,     \* rows of retention_deletions
    request,      \* the slot of the frontier prune request: the stage that asked
    activity,     \* a scheduler activity that blocks scheduling is published
    keeper,       \* the retention thread
    early,        \* (history) a step overtook the daemon's bookkeeping
    retried,      \* stages the operator has requeued
    interventions, scans

branch == <<recipe, workflow, retried, interventions>>
lanes == <<gated, lane, early>>
runs == <<branch, job, linked, desired, creating, lanes>>
files == <<row, bytes>>
guards == <<auto, kept>>
retention == <<deletion, request, activity, keeper, scans>>
vars == <<runs, files, guards, retention>>

JobStatus == {"none", "queued", "running", "succeeded", "collapsed", "failed"}

\* A succeeded evaluation is "collapsed" when its report names a structural failure.
Ended(s) == job[s] \in {"succeeded", "collapsed"}

Linked(s) == IF s \in linked THEN job[s] ELSE "none"

Inputs(s) == IF s[2] = "train" THEN {s[1] - 1} ELSE {s[1] - 1, s[1]}

EvaluationRequired(k) ==
    \/ recipe.policy = "behavioral_and_mri"
    \/ recipe.policy = "selected" /\ k \in recipe.chosen

LiveRun == \E s \in Stage : job[s] = "running"

-----------------------------------------------------------------------------
(* The retention ledger.                                                   *)

\* The last checkpoint trained, and any other that no completed session continued.
Head(c) ==
    /\ c \in Session
    /\ Ended(<<c, "train">>)
    /\ ~(c + 1 \in Session /\ Ended(<<c + 1, "train">>))

NeededBy(s) == IF job[s] \in {"queued", "running"} THEN Inputs(s) ELSE {}

\* What reconcile_retention_protections wants protected: the checkpoints of the active
\* campaign's metadata, lineage heads, and inputs of live or authorized work.
WantedProtected ==
    {c \in Checkpoint : /\ row[c] # "deleted"
                        /\ row[c] # "none"
                        /\ \/ c \in Declared
                           \/ Head(c)
                           \/ \E s \in Stage : c \in NeededBy(s)}

DeletionPending(c) == \E d \in deletion : d.item = c /\ d.state = "authorized"

\* The exact plan: what may go, with everything its hash covers.
Inventory ==
    [eligible |-> {c \in Checkpoint : row[c] = "available" /\ c \notin auto \cup kept},
     protected |-> auto \cup kept, observed |-> scans]

\* fault: the request of a training is served at once
PruneReadyAtOnce(s) == TRUE

\* fault: it waits for the evaluation to have ended
PruneReadyLate(s) ==
    \/ s[2] = "evaluate"
    \/ s \notin linked
    \/ recipe.policy = "selected" /\ s[1] \notin recipe.chosen
    \/ Ended(<<s[1], "evaluate">>)

\* A post-training prune waits until the evaluation owns candidate and parent.
PruneReady(s) ==
    \/ s[2] = "evaluate"
    \/ s \notin linked
    \/ recipe.policy = "selected" /\ s[1] \notin recipe.chosen
    \/ <<s[1], "evaluate">> \in linked

Resting == [at |-> "idle", why |-> Null, token |-> Null, wanted |-> {}, plan |-> Null, left |-> {}]

PlanType == [eligible : SUBSET Checkpoint, protected : SUBSET Checkpoint, observed : 0..MaxScans]

TypeOK ==
    /\ job \in [Stage -> JobStatus]
    /\ linked \subseteq Stage
    /\ recipe \in Recipes
    /\ workflow \in {"active", "succeeded", "failed", "blocked"}
    /\ desired \in {"running", "paused"}
    /\ creating \in Stage \cup {Null}
    /\ gated \in BOOLEAN /\ early \in BOOLEAN /\ lane \in Stage \cup {Null}
    /\ row \in [Checkpoint -> {"none", "available", "deleted"}]
    /\ bytes \subseteq Checkpoint /\ auto \subseteq Checkpoint /\ kept \subseteq Session
    /\ deletion \subseteq [plan : PlanType, item : Checkpoint,
                           state : {"authorized", "deleted", "failed"}]
    /\ request \in Stage \cup {Null}
    /\ activity \in BOOLEAN
    /\ keeper.at \in {"idle", "check", "derive", "release", "plan", "authorize", "delete",
                      "record", "fail", "clear", "done"}
    /\ retried \subseteq Stage /\ interventions \in 0..MaxInterventions /\ scans \in 0..MaxScans

Init ==
    /\ recipe \in Recipes
    /\ job = [s \in Stage |-> "none"]
    /\ linked = {}
    /\ workflow = "active"
    /\ desired = "running"
    /\ creating = Null
    /\ gated = FALSE /\ lane = Null /\ early = FALSE
    /\ row = [c \in Checkpoint |-> IF c = 0 THEN "available" ELSE "none"]
    /\ bytes = {0}
    /\ auto = {} /\ kept = {}
    /\ deletion = {}
    /\ request = Null
    /\ activity = FALSE
    /\ keeper = Resting
    /\ retried = {} /\ interventions = 0 /\ scans = 0

-----------------------------------------------------------------------------
(* The workflow coordinator.                                               *)

\* A retired checkpoint is replayed as evidence only once its session has been
\* evaluated and continued.
ReplayAllowed(k) ==
    /\ EvaluationRequired(k) => Linked(<<k, "evaluate">>) \in {"succeeded", "collapsed"}
    /\ k + 1 \in Session /\ Linked(<<k + 1, "train">>) = "succeeded"

SessionDone(k) ==
    /\ Linked(<<k, "train">>) = "succeeded"
    /\ EvaluationRequired(k) => Linked(<<k, "evaluate">>) = "succeeded"

\* The session the walk of _advance stops at (N + 1: none).
Frontier ==
    CHOOSE k \in 1..(N + 1) :
        /\ k = N + 1 \/ ~SessionDone(k)
        /\ \A j \in 1..(k - 1) : SessionDone(j)

\* Trained sessions whose result the walk reads.
Walked == {k \in 1..N : k <= Frontier /\ Linked(<<k, "train">>) = "succeeded"}

\* The walk is refused: a checkpoint it reads is deleted, or cannot be preserved.
WalkRefused ==
    \E k \in Walked :
        \/ row[k] = "deleted" /\ ~ReplayAllowed(k)
        \/ k \in recipe.preserved /\ (row[k] = "deleted" \/ DeletionPending(k))

NextStage ==
    IF Frontier = N + 1 THEN Null
    ELSE IF <<Frontier, "train">> \notin linked THEN <<Frontier, "train">>
    ELSE <<Frontier, "evaluate">>

Coordinating ==
    /\ workflow = "active"
    /\ desired = "running"
    /\ creating = Null

Terminal == {s \in linked : job[s] = "failed"}

Ends(status) ==
    /\ workflow' = status
    /\ UNCHANGED <<recipe, retried, interventions, job, linked, creating, lanes, files, retention>>

Terminate ==
    /\ Coordinating
    /\ Terminal # {}
    /\ Ends("failed")
    /\ UNCHANGED <<desired, guards>>

\* The next stage is there to be created.
Due ==
    /\ NextStage # Null /\ NextStage \notin linked
    /\ NextStage[2] = "evaluate" => Linked(<<NextStage[1], "train">>) = "succeeded"

\* A training job that was created and not linked holds its session: the certificate of a
\* second one is refused.
SessionBound == NextStage[2] = "train" /\ job[NextStage] # "none"

\* Refused by the ledger (a retired result, a retired input, a session that is bound) or by
\* the report.
Block ==
    /\ Coordinating
    /\ Terminal = {}
    /\ \/ WalkRefused
       \/ Frontier <= N /\ Linked(<<Frontier, "evaluate">>) = "collapsed"
       \/ Due /\ (SessionBound \/ \E c \in Inputs(NextStage) : row[c] = "deleted")
    /\ Ends("blocked")
    /\ UNCHANGED <<desired, guards>>

PreserveWalked == kept' = kept \cup (Walked \cap recipe.preserved)

\* create_job: by its idempotency key an evaluation that exists is returned.
CreateStage ==
    /\ Coordinating
    /\ Terminal = {} /\ ~WalkRefused
    /\ Due /\ ~SessionBound /\ \A c \in Inputs(NextStage) : row[c] # "deleted"
    /\ job' = [job EXCEPT ![NextStage] = IF @ = "none" THEN "queued" ELSE @]
    /\ creating' = NextStage
    /\ PreserveWalked
    /\ UNCHANGED <<branch, linked, desired, lanes, files, auto, retention>>

\* link_cortex_workflow_job: a transaction of its own.
LinkStage ==
    /\ creating # Null
    /\ linked' = linked \cup {creating}
    /\ creating' = Null
    /\ UNCHANGED <<branch, job, desired, lanes, files, guards, retention>>

FinishWorkflow ==
    /\ Coordinating
    /\ Terminal = {} /\ ~WalkRefused
    /\ Frontier = N + 1
    /\ Ends("succeeded")
    /\ desired' = "paused"
    /\ PreserveWalked
    /\ UNCHANGED auto

-----------------------------------------------------------------------------
(* A machine lane (the gate is read before the lease) and the CLI.         *)

PassGate ==
    /\ lane = Null /\ ~gated
    /\ ~activity
    /\ request = Null
    /\ gated' = TRUE
    /\ UNCHANGED <<branch, job, linked, desired, creating, lane, early, files, guards, retention>>

\* lease_next and the envelope: an input that is not available leaves the lease to expire.
Takes ==
    /\ desired = "running" /\ ~LiveRun
    /\ \E s \in Stage :
        /\ job[s] = "queued"
        /\ job' = [job EXCEPT ![s] = "running"]
        /\ lane' = IF \A c \in Inputs(s) : row[c] = "available" THEN s ELSE Null
    /\ early' = (early \/ activity)
    /\ UNCHANGED <<linked, desired, creating, files, guards, retention>>

Lease ==
    /\ gated
    /\ gated' = FALSE
    /\ UNCHANGED branch
    /\ Takes

\* dispatch-once of the CLI leases without asking at the gate.
DispatchOnce ==
    /\ lane = Null
    /\ interventions < MaxInterventions /\ interventions' = interventions + 1
    /\ UNCHANGED <<gated, recipe, workflow, retried>>
    /\ Takes

NothingToLease ==
    /\ gated
    /\ desired = "paused" \/ LiveRun \/ \A s \in Stage : job[s] # "queued"
    /\ gated' = FALSE
    /\ UNCHANGED <<branch, job, linked, desired, creating, lane, early, files, guards, retention>>

\* finish_run: an ended stage leaves a prune request in the one slot there is.
RunSucceeds ==
    /\ lane \in Stage
    /\ \E status \in IF lane[2] = "train" THEN {"succeeded"} ELSE {"succeeded", "collapsed"} :
        job' = [job EXCEPT ![lane] = status]
    /\ IF lane[2] = "train"
       THEN /\ row' = [row EXCEPT ![lane[1]] = "available"]
            /\ bytes' = bytes \cup {lane[1]}
       ELSE UNCHANGED files
    /\ request' = lane
    /\ lane' = Null
    /\ early' = (early \/ lane \notin linked)
    /\ UNCHANGED <<branch, linked, desired, creating, gated, guards, deletion, activity, keeper, scans>>

RunFails ==
    /\ lane \in Stage
    /\ job' = [job EXCEPT ![lane] = "failed"]
    /\ lane' = Null
    /\ UNCHANGED <<branch, linked, desired, creating, gated, early, files, guards, retention>>

\* A live run without an executor: requeued, or failed when its attempts are spent.
LeaseExpires ==
    \E s \in Stage :
        /\ job[s] = "running" /\ lane # s
        /\ \E status \in {"queued", "failed"} : job' = [job EXCEPT ![s] = status]
        /\ UNCHANGED <<branch, linked, desired, creating, lanes, files, guards, retention>>

-----------------------------------------------------------------------------
(* The operator.                                                           *)

SwitchPipeline ==
    /\ desired' = IF desired = "running" THEN "paused" ELSE "running"
    /\ UNCHANGED <<branch, job, linked, creating, lanes, files, guards, retention>>

\* retry_failed_cortex_stage: exactly one failed stage, at a quiet boundary.
RetryStage ==
    /\ workflow = "failed"
    /\ ~LiveRun
    /\ interventions < MaxInterventions /\ interventions' = interventions + 1
    /\ \E s \in linked :
        /\ {t \in linked : job[t] = "failed"} = {s}
        /\ job' = [job EXCEPT ![s] = "queued"]
        /\ retried' = retried \cup {s}
    /\ workflow' = "active"
    /\ UNCHANGED <<recipe, linked, desired, creating, lanes, files, guards, retention>>

-----------------------------------------------------------------------------
(* The retention thread.                                                   *)

MovesTo(step) == keeper' = [keeper EXCEPT !.at = step]

KeeperOnly == UNCHANGED <<runs, files>>

\* One round of _retention_loop: a prune request goes before a storage inventory.
KeeperPolls ==
    /\ keeper.at = "idle"
    /\ \/ /\ request # Null
          /\ keeper' = [Resting EXCEPT !.at = "check", !.why = "prune"]
       \/ /\ request = Null /\ ~LiveRun /\ scans < MaxScans
          /\ keeper' = [Resting EXCEPT !.at = "check", !.why = "scan"]
    /\ activity' = TRUE
    /\ UNCHANGED <<runs, files, guards, deletion, request, scans>>

\* The boundary must be quiet; a prune reads the request anew and, after a training, waits
\* for the evaluation.  An inventory registers every file it finds, dating the locations anew.
KeeperChecks ==
    /\ keeper.at = "check"
    /\ LET asked == [keeper EXCEPT !.token = IF keeper.why = "prune" THEN request ELSE Null]
       IN  IF LiveRun \/ (keeper.why = "prune" /\ (request = Null \/ ~PruneReady(request)))
           THEN keeper' = [asked EXCEPT !.at = "done"] /\ UNCHANGED scans
           ELSE /\ keeper' = [asked EXCEPT !.at = "derive"]
                /\ scans' = IF keeper.why = "scan" THEN scans + 1 ELSE scans
    /\ KeeperOnly /\ UNCHANGED <<guards, deletion, request, activity>>

\* Protections are written one by one from one reading; a pending deletion refuses its own.
KeeperDerives ==
    /\ keeper.at = "derive"
    /\ IF \E c \in WantedProtected : DeletionPending(c)
       THEN /\ MovesTo("done")
            /\ \E written \in SUBSET {c \in WantedProtected : ~DeletionPending(c)} : auto' = auto \cup written
       ELSE /\ keeper' = [keeper EXCEPT !.at = "release", !.wanted = WantedProtected]
            /\ auto' = auto \cup WantedProtected
    /\ KeeperOnly /\ UNCHANGED <<kept, deletion, request, activity, scans>>

KeeperReleases ==
    /\ keeper.at = "release"
    /\ auto' = keeper.wanted
    /\ MovesTo("plan")
    /\ KeeperOnly /\ UNCHANGED <<kept, deletion, request, activity, scans>>

\* Nothing is left to delete: a request that was served is taken off.
AfterPlan == IF keeper.why = "prune" THEN "clear" ELSE "done"

\* A scan goes on to delete only when the disk is full enough.
KeeperPlans ==
    /\ keeper.at = "plan"
    /\ \E triggered \in IF keeper.why = "prune" THEN {TRUE} ELSE BOOLEAN :
        keeper' = [keeper EXCEPT
            !.plan = Inventory,
            !.at = IF Inventory.eligible # {} /\ triggered THEN "authorize" ELSE AfterPlan]
    /\ KeeperOnly /\ UNCHANGED <<guards, deletion, request, activity, scans>>

\* authorize_retention_plan: a row that exists (of an earlier try of this plan) is kept.
KeeperAuthorizes ==
    /\ keeper.at = "authorize"
    /\ IF LiveRun \/ Inventory # keeper.plan
       THEN MovesTo("done") /\ UNCHANGED deletion
       ELSE /\ deletion' = deletion \cup
                    {[plan |-> keeper.plan, item |-> c, state |-> "authorized"] :
                        c \in {e \in keeper.plan.eligible :
                                 ~\E d \in deletion : d.plan = keeper.plan /\ d.item = e}}
            /\ keeper' = [keeper EXCEPT !.at = "delete", !.left = keeper.plan.eligible]
    /\ KeeperOnly /\ UNCHANGED <<guards, request, activity, scans>>

\* The item in hand: the first of the plan.
Item == CHOOSE c \in keeper.left : \A e \in keeper.left : c <= e

Intent == CHOOSE d \in deletion : d.plan = keeper.plan /\ d.item = Item

\* fault: a reply that was not understood counts as a receipt
KeeperDeletesTrusting ==
    /\ keeper.at = "delete"
    /\ \E gone \in {{Item}, {}} : bytes' = bytes \ gone
    /\ MovesTo("record")
    /\ UNCHANGED <<runs, row, guards, deletion, request, activity, scans>>

\* artifact-delete on the trainbox: the reply may be lost, before or after the file is gone.
KeeperDeletes ==
    /\ keeper.at = "delete"
    /\ \/ /\ Item \in bytes
          /\ bytes' = bytes \ {Item}
          /\ \E step \in {"record", "fail"} : MovesTo(step)
       \/ /\ UNCHANGED bytes
          /\ MovesTo("fail")
    /\ UNCHANGED <<runs, row, guards, deletion, request, activity, scans>>

\* record_retention_deletion: refused without an open authorization.
KeeperRecords ==
    /\ keeper.at = "record"
    /\ IF Intent.state = "authorized" /\ Item \notin auto \cup kept /\ row[Item] = "available"
       THEN /\ row' = [row EXCEPT ![Item] = "deleted"]
            /\ deletion' = (deletion \ {Intent}) \cup {[Intent EXCEPT !.state = "deleted"]}
            /\ keeper' = [keeper EXCEPT
                    !.left = @ \ {Item},
                    !.at = IF keeper.left # {Item} THEN "delete" ELSE AfterPlan]
       ELSE MovesTo("fail") /\ UNCHANGED <<row, deletion>>
    /\ UNCHANGED <<runs, bytes, guards, request, activity, scans>>

\* fail_retention_deletion, and the cleanup stops at the first failure.
KeeperFails ==
    /\ keeper.at = "fail"
    /\ deletion' = IF Intent.state = "authorized"
                   THEN (deletion \ {Intent}) \cup {[Intent EXCEPT !.state = "failed"]}
                   ELSE deletion
    /\ MovesTo("done")
    /\ KeeperOnly /\ UNCHANGED <<guards, request, activity, scans>>

\* fault: the request is taken off whoever asked
KeeperClearsAny ==
    /\ keeper.at = "clear"
    /\ request' = Null
    /\ MovesTo("done")
    /\ KeeperOnly /\ UNCHANGED <<guards, deletion, activity, scans>>

\* Only the request that was served is taken off.
KeeperClears ==
    /\ keeper.at = "clear"
    /\ request' = IF request = keeper.token THEN Null ELSE request
    /\ MovesTo("done")
    /\ KeeperOnly /\ UNCHANGED <<guards, deletion, activity, scans>>

KeeperRests ==
    /\ keeper.at = "done"
    /\ activity' = FALSE
    /\ keeper' = Resting
    /\ UNCHANGED <<runs, files, guards, deletion, request, scans>>

KeeperStep ==
    \/ KeeperChecks \/ KeeperDerives \/ KeeperReleases \/ KeeperPlans \/ KeeperAuthorizes
    \/ KeeperDeletes \/ KeeperRecords \/ KeeperFails \/ KeeperClears \/ KeeperRests

-----------------------------------------------------------------------------
\* The daemon dies: its threads lose what they knew, a run loses its executor, and the
\* activity it published goes stale.  A run of the CLI lives on.
DaemonDies ==
    /\ creating' = Null
    /\ gated' = FALSE /\ lane' \in {lane, Null}
    /\ keeper' = Resting
    /\ activity' = FALSE
    /\ creating # Null \/ gated \/ lane' # lane \/ keeper # Resting
    /\ UNCHANGED <<branch, job, linked, desired, early, files, guards, deletion, request, scans>>

CoordinatorStep == Terminate \/ Block \/ CreateStage \/ LinkStage \/ FinishWorkflow

LaneStep == PassGate \/ Lease \/ NothingToLease \/ RunSucceeds \/ RunFails

Next ==
    \/ CoordinatorStep
    \/ LaneStep
    \/ LeaseExpires
    \/ SwitchPipeline \/ DispatchOnce
    \/ RetryStage
    \/ KeeperPolls \/ KeeperStep
    \/ DaemonDies

Spec == Init /\ [][Next]_vars

FairSpec ==
    /\ Spec
    /\ WF_vars(CoordinatorStep) /\ WF_vars(LaneStep) /\ WF_vars(LeaseExpires)
    /\ WF_vars(KeeperPolls) /\ WF_vars(KeeperStep)

-----------------------------------------------------------------------------
(* Properties.                                                             *)

\* What a waiting or running stage reads, and what the recipe preserves, is on the disk:
\* retention works from a plan that is several transactions old when a file goes.  Not
\* promised of a stage requeued by hand, nor after a step that overtook the bookkeeping.
CheckpointsKept ==
    ~early => /\ \A s \in Stage \ retried : NeededBy(s) \subseteq bytes
              /\ kept \subseteq bytes

\* A file is gone only under a deletion the ledger authorized before, and the ledger says
\* "deleted" only of a file that is gone: whatever reply is lost, whenever the daemon dies.
AuthorizedFirst ==
    \A c \in Checkpoint :
        /\ row[c] = "deleted" => c \notin bytes
        /\ row[c] = "available" /\ c \notin bytes => \E d \in deletion : d.item = c

\* No deletion has failed or been left behind, and every file is where the ledger has it.
Healthy ==
    /\ \A d \in deletion : d.state # "failed"
    /\ \A c \in WantedProtected : ~DeletionPending(c)
    /\ \A c \in Checkpoint : row[c] = "available" /\ c \notin bytes => keeper.at = "record"

\* The branch is left to run and nothing breaks.
Undisturbed ==
    /\ []Healthy
    /\ [](workflow \notin {"failed", "blocked"})
    /\ <>[](desired = "running" \/ workflow = "succeeded")
    /\ <>[][DaemonDies => KeeperRests \/ NothingToLease]_vars

\* The gate that a prune request closes for every lane opens again.
GateReopens == Undisturbed => (request # Null ~> request = Null)

Superseded(c) ==
    /\ c \in Session \ (kept \cup Declared \cup recipe.preserved) /\ row[c] # "deleted"
    /\ c < N /\ \A k \in {c, c + 1} : Ended(<<k, "train">>) /\ (EvaluationRequired(k) => Ended(<<k, "evaluate">>))

\* A superseded checkpoint is retired, although a second request takes the slot of the first.
SupersededRetired == Undisturbed => \A c \in Session : Superseded(c) ~> ~Superseded(c)

\* "A new Mission Hub process [...] needs only the database" (docs/mission_hub_architecture.md,
\* line 288): a branch is blocked by a structural failure or a retired checkpoint, not by a
\* restart of the daemon.  One that falls between create_job and the link blocks it.
BlockedForCause ==
    workflow = "blocked" =>
        \/ \E s \in Stage : job[s] = "collapsed"
        \/ \E c \in Checkpoint : row[c] = "deleted" \/ DeletionPending(c)
=============================================================================
