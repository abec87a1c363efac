---------------------------- MODULE TeachingLedger ----------------------------
(***************************************************************************)
(* What a checkpoint has been taught.  A campaign starts from a checkpoint *)
(* and trains its branches session by session; a session lists concepts    *)
(* with the concepts they depend on, is certified against what its parent  *)
(* knows, admitted, and recorded with the checkpoint that it produces.     *)
(* Branches are merged, evaluated, and the campaign is decided and closed. *)
(***************************************************************************)
EXTENDS Naturals, Sequences, FiniteSets

CONSTANTS
    Sessions,    \* each names the checkpoint that it produces, too
    Lesson,      \* Lesson[s]: its branch, the parent its workflow gives it, its ordered concepts
    Final,       \* Final[b]: the last checkpoint of branch b
    Sources,     \* the checkpoints that are merged
    Seeded,      \* the concepts that an operator records without training
    MaxTrouble   \* bound: seeds, failures and crashes

VARIABLES
    campaign,    \* its state, what it knew at its start, its merge and its decision
    branch,      \* branch[b]: its workflow, and the evaluation of its last checkpoint
    knows,       \* knows[c]: the concepts recorded for checkpoint c
    certificate, \* certificate[s]: the parent, and what it knew, of the last certificate for s
    plan,        \* plan[s]: the admitted plan of s and its job
    pipe, trouble

vars == <<campaign, branch, knows, certificate, plan, pipe, trouble>>

Branches == DOMAIN Final
Checkpoints == {"root", "merged"} \cup Sessions
Concepts == UNION {{Lesson[s].order[i].concept : i \in DOMAIN Lesson[s].order} : s \in Sessions}

Merged == {"succeeded", "bound", "inherited", "not inherited"}
Live == {"queued", "running"}
Asked == {"asked of some", "asked of all"}

TypeOK ==
    /\ campaign \in [state : {"none", "active", "closed"}, known : SUBSET Concepts,
                     merge : Merged \cup {"none", "queued"}, decision : {"none", "queued", "executed"}]
    /\ branch \in [Branches -> [flow : {"none", "asked", "active", "succeeded"},
                                evaluation : Asked \cup {"none", "queued", "succeeded"}]]
    /\ knows \in [Checkpoints -> SUBSET Concepts]
    /\ certificate \in [Sessions -> [parent : Checkpoints \cup {"none"}, known : SUBSET Concepts]]
    /\ plan \in [Sessions -> [parent : Checkpoints \cup {"none"}, linked : BOOLEAN,
                              job : Live \cup {"none", "failed", "cancelled", "completed"}]]
    /\ pipe \in {"running", "paused"} /\ trouble \in 0 .. MaxTrouble

Init ==
    /\ campaign = [state |-> "none", known |-> {}, merge |-> "none", decision |-> "none"]
    /\ branch = [b \in Branches |-> [flow |-> "none", evaluation |-> "none"]]
    /\ knows = [c \in Checkpoints |-> {}]
    /\ certificate = [s \in Sessions |-> [parent |-> "none", known |-> {}]]
    /\ plan = [s \in Sessions |-> [parent |-> "none", linked |-> FALSE, job |-> "none"]]
    /\ pipe = "running" /\ trouble = 0

Trouble == trouble < MaxTrouble /\ trouble' = trouble + 1

Completed(s) == plan[s].job = "completed"
Exists(c) ==
    \/ c = "root"
    \/ c = "merged" /\ campaign.merge \in Merged
    \/ c \in Sessions /\ Completed(c)

-----------------------------------------------------------------------------
(* Campaigns and what is known without training.                           *)

CreateCampaign ==
    /\ campaign.state = "none"
    /\ campaign' = [campaign EXCEPT !.state = "active", !.known = knows["root"]]
    /\ UNCHANGED <<branch, knows, certificate, plan, pipe, trouble>>

\* A configured campaign first records what its baseline is known to know.
Reconcile ==
    /\ campaign.state = "none" /\ ~(Seeded \subseteq knows["root"])
    /\ knows' = [knows EXCEPT !["root"] = @ \cup Seeded]
    /\ UNCHANGED <<campaign, branch, certificate, plan, pipe, trouble>>

\* An operator records a concept for any checkpoint, at any time.
Seed(c, k) ==
    /\ Trouble /\ Exists(c) /\ k \notin knows[c]
    /\ knows' = [knows EXCEPT ![c] = @ \cup {k}]
    /\ UNCHANGED <<campaign, branch, certificate, plan, pipe>>

\* The campaign is looked at in one transaction, the workflow inserted in another.
AskToAuthorize(b) ==
    /\ branch[b].flow = "none" /\ campaign.state = "active" /\ branch' = [branch EXCEPT ![b].flow = "asked"]
    /\ UNCHANGED <<campaign, knows, certificate, plan, pipe, trouble>>

Authorize(b) ==
    /\ branch[b].flow = "asked" /\ branch' = [branch EXCEPT ![b].flow = "active"]
    /\ UNCHANGED <<campaign, knows, certificate, plan, pipe, trouble>>

-----------------------------------------------------------------------------
(* A training session: certified, admitted, trained, recorded.             *)

\* A parent is where the campaign starts, the merge it is bound to, or of the same branch.
Lineage(s, p) ==
    \/ p = "root"
    \/ p = "merged" /\ campaign.merge \in Merged \ {"succeeded"}
    \/ p \in Sessions /\ Completed(p) /\ Lesson[p].branch = Lesson[s].branch

Taught(s) == {Lesson[s].order[i].concept : i \in DOMAIN Lesson[s].order}
TaughtBefore(s, i) == {Lesson[s].order[j].concept : j \in 1 .. (i - 1)}

\* A mutant: what the campaign taught anywhere is at hand.
CampaignAvailable(p) == UNION {knows[c] : c \in Checkpoints}

Available(p) == knows[p]

InOrder(s, p) ==
    \A i \in DOMAIN Lesson[s].order :
        Lesson[s].order[i].needs \subseteq Available(p) \cup TaughtBefore(s, i)

\* A session is planned once in a campaign, whatever becomes of it.
Plannable(s, p) ==
    /\ campaign.state = "active" /\ Exists(p) /\ Lineage(s, p)
    /\ plan[s].job = "none" /\ InOrder(s, p)

\* A certificate is good for the parent it was made for and what that knew then.
Certified(s, p) == certificate[s] = [parent |-> p, known |-> knows[p]]

Certify(s, p) ==
    /\ Plannable(s, p)
    /\ certificate' = [certificate EXCEPT ![s] = [parent |-> p, known |-> knows[p]]]
    /\ UNCHANGED <<campaign, branch, knows, plan, pipe, trouble>>

\* The coordinator of an active workflow trains on from the prescribed parent; a job may be made by hand.
Admit(s, linked) ==
    LET p == certificate[s].parent IN
    /\ p # "none" /\ Plannable(s, p) /\ Certified(s, p)
    /\ linked => branch[Lesson[s].branch].flow = "active" /\ p = Lesson[s].parent
    /\ plan' = [plan EXCEPT ![s] = [parent |-> p, linked |-> linked, job |-> "queued"]]
    /\ UNCHANGED <<campaign, branch, knows, certificate, pipe, trouble>>

Lease(s) ==
    /\ pipe = "running" /\ plan[s].job = "queued" /\ plan' = [plan EXCEPT ![s].job = "running"]
    /\ UNCHANGED <<campaign, branch, knows, certificate, pipe, trouble>>

\* The checkpoint inherits what its parent knows by now.
Finish(s) ==
    /\ plan[s].job = "running" /\ plan' = [plan EXCEPT ![s].job = "completed"]
    /\ knows' = [knows EXCEPT ![s] = @ \cup knows[plan[s].parent] \cup Taught(s)]
    /\ UNCHANGED <<campaign, branch, certificate, pipe, trouble>>

Fail(s) ==
    /\ Trouble /\ plan[s].job = "running" /\ plan' = [plan EXCEPT ![s].job = "failed"]
    /\ UNCHANGED <<campaign, branch, knows, certificate, pipe>>

\* A repaired job keeps its plan, whatever its campaign has become.
RetryAfterRepair(s) ==
    /\ plan[s].job = "failed" /\ plan' = [plan EXCEPT ![s].job = "queued"]
    /\ UNCHANGED <<campaign, branch, knows, certificate, pipe, trouble>>

Cancel(s) ==
    /\ Trouble /\ plan[s].job \in Live /\ plan' = [plan EXCEPT ![s].job = "cancelled"]
    /\ UNCHANGED <<campaign, branch, knows, certificate, pipe>>

-----------------------------------------------------------------------------
(* The merge of two branches.                                              *)

MergeJob(from, to) ==
    /\ campaign.merge = from /\ campaign' = [campaign EXCEPT !.merge = to]
    /\ UNCHANGED <<branch, certificate, plan, pipe>>

CreateMerge == (\A c \in Sources : Exists(c)) /\ MergeJob("none", "queued") /\ UNCHANGED <<knows, trouble>>
FinishMerge == pipe = "running" /\ MergeJob("queued", "succeeded") /\ UNCHANGED <<knows, trouble>>
BindMerge == MergeJob("succeeded", "bound") /\ UNCHANGED <<knows, trouble>>

\* In the next transaction the merged checkpoint gets what its sources know.
InheritMerged ==
    /\ MergeJob("bound", "inherited")
    /\ knows' = [knows EXCEPT !["merged"] = @ \cup UNION {knows[c] : c \in Sources}]
    /\ UNCHANGED trouble

CrashBetween == Trouble /\ MergeJob("bound", "not inherited") /\ UNCHANGED knows

-----------------------------------------------------------------------------
(* Evaluations, the decision and the end of the campaign.                  *)

Evaluated == {b \in Branches : branch[b].evaluation = "succeeded"}

\* The last checkpoint of an active workflow, or a merge, completes its branch.
CompletesBranch(b) ==
    LET c == Final[b] IN
    IF c = "merged" THEN campaign.merge \in Merged ELSE Completed(c) /\ plan[c].linked /\ branch[b].flow = "active"

AllComplete(b) == Branches \subseteq Evaluated \cup {b}
Claim(b) == IF AllComplete(b) THEN "asked of all" ELSE "asked of some"

AskEvaluation(b) ==
    /\ branch[b].evaluation = "none" /\ CompletesBranch(b) /\ branch' = [branch EXCEPT ![b].evaluation = Claim(b)]
    /\ UNCHANGED <<campaign, knows, certificate, plan, pipe, trouble>>

\* The context it was asked with is compared with the evaluations that succeeded meanwhile.
CreateEvaluation(b) ==
    /\ branch[b].evaluation \in Asked /\ CompletesBranch(b)
    /\ branch' = [branch EXCEPT ![b].evaluation =
                          IF campaign.state = "active" /\ @ = Claim(b) THEN "queued" ELSE "none"]
    /\ UNCHANGED <<campaign, knows, certificate, plan, pipe, trouble>>

FinishEvaluation(b) ==
    /\ branch[b].evaluation = "queued" /\ pipe = "running"
    /\ branch' = [branch EXCEPT ![b].evaluation = "succeeded"]
    /\ UNCHANGED <<campaign, knows, certificate, plan, pipe, trouble>>

FinishWorkflow(b) ==
    /\ branch[b].flow = "active" /\ branch[b].evaluation = "succeeded" /\ branch' = [branch EXCEPT ![b].flow = "succeeded"]
    /\ UNCHANGED <<campaign, knows, certificate, plan, pipe, trouble>>

Decide(from, to) ==
    /\ campaign.decision = from /\ campaign' = [campaign EXCEPT !.decision = to]
    /\ IF from = "none" THEN Branches = Evaluated ELSE pipe = "running"
    /\ UNCHANGED <<branch, knows, certificate, plan, pipe, trouble>>

SwitchPipeline(state) ==
    /\ pipe # state /\ pipe' = state
    /\ UNCHANGED <<campaign, branch, knows, certificate, plan, trouble>>

CloseCampaign ==
    /\ campaign.state = "active" /\ Branches = Evaluated
    /\ "active" \notin {branch[b].flow : b \in Branches}
    /\ {plan[s].job : s \in Sessions} \cap Live = {}
    /\ campaign.merge # "queued" /\ campaign.decision # "queued" /\ pipe = "paused"
    /\ campaign' = [campaign EXCEPT !.state = "closed"]
    /\ UNCHANGED <<branch, knows, certificate, plan, pipe, trouble>>

Next ==
    \/ Reconcile \/ CreateCampaign \/ CloseCampaign
    \/ \E c \in Checkpoints, k \in Seeded : Seed(c, k)
    \/ \E b \in Branches :
        \/ AskToAuthorize(b) \/ Authorize(b) \/ FinishWorkflow(b)
        \/ AskEvaluation(b) \/ CreateEvaluation(b) \/ FinishEvaluation(b)
    \/ \E s \in Sessions :
        \/ \E p \in Checkpoints : Certify(s, p)
        \/ \E linked \in BOOLEAN : Admit(s, linked)
        \/ Lease(s) \/ Finish(s) \/ Fail(s) \/ RetryAfterRepair(s) \/ Cancel(s)
    \/ CreateMerge \/ FinishMerge \/ BindMerge \/ InheritMerged \/ CrashBetween
    \/ Decide("none", "queued") \/ Decide("queued", "executed")
    \/ SwitchPipeline("running") \/ SwitchPipeline("paused")

Spec == Init /\ [][Next]_vars

\* Every concept is taught on top of the concepts it depends on: whatever was
\* seeded, merged, retried or trained beside it, the parent that a completed
\* session really trained from has each of them on record, or the session
\* taught it before (_training_session_plan, _append_checkpoint_knowledge_db).
TaughtOnWhatIsKnown ==
    \A s \in Sessions : Completed(s) =>
        \A i \in DOMAIN Lesson[s].order :
            Lesson[s].order[i].needs \subseteq knows[plan[s].parent] \cup TaughtBefore(s, i)
=============================================================================
