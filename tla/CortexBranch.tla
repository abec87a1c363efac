----------------------------- MODULE CortexBranch -----------------------------
(***************************************************************************)
(* Who may train a campaign branch next.  A branch is taught by workflows, *)
(* one after the other: the first is authorized from the recipe, a later   *)
(* one repairs its material, restarts it, continues it behind an           *)
(* evaluation that can no longer be made, or reconstructs a prefix of it.  *)
(* Each of these operations has conditions of its own; the ledger admits   *)
(* every training session once.                                            *)
(***************************************************************************)
EXTENDS Naturals, Sequences, FiniteSets

CONSTANTS
    N,             \* sessions of the recipe
    Materials,     \* session lists: the original and its repairs
    Prefixes,      \* [last, chosen] of the reconstructions that are asked for
    Clients,       \* callers of create_cortex_workflow
    MaxWorkflows,  \* bound: rows in cortex_workflows
    MaxTrouble,    \* bound: runs that fail
    Null

VARIABLES
    workflows,  \* rows of cortex_workflows, in the order of their creation
    job,        \* job[w, k, kind]: status of the job of a stage of workflow w
    touched,    \* jobs that have run
    bound,      \* training_session_plans: the job each session is admitted for
    retired,    \* checkpoints that retention has deleted
    asked,      \* asked[c]: the material client c is about to authorize
    desired,    \* desired state of the pipeline
    trouble

vars == <<workflows, job, touched, bound, retired, asked, desired, trouble>>

Row == 1..MaxWorkflows
Stage == Row \X (1..N) \X {"train", "evaluate"}

\* A checkpoint is named by the training stage that wrote it.
Base == <<0, 0>>
Checkpoint == {Base} \cup (Row \X (1..N))

\* A reconstruction is admitted under session identities of its own.
SessionId == Materials \X (1..N) \X (0..MaxWorkflows)

Rows == DOMAIN workflows
Active(w) == workflows[w].status = "active"
Sessions(w) == workflows[w].first .. workflows[w].last

Id(w, k) == <<workflows[w].material, k, IF workflows[w].copy THEN w ELSE 0>>

\* What session k of workflow w learns from.
Parent(w, k) == IF k = workflows[w].first THEN workflows[w].start ELSE <<w, k - 1>>

Trained(w, k) == job[<<w, k, "train">>] = "succeeded"
Evaluated(w, k) == job[<<w, k, "evaluate">>] \in {"succeeded", "collapsed"}

Inputs(s) ==
    {Parent(s[1], s[2])} \cup IF s[3] = "evaluate" THEN {<<s[1], s[2]>>} ELSE {}

StagesOf(w) == {s \in Stage : s[1] = w /\ job[s] # "none"}

LiveRun == \E s \in Stage : job[s] = "running"
Quiet == desired = "paused" /\ ~LiveRun

Some(S) == CHOOSE x \in S : TRUE
Largest(S) == CHOOSE x \in S : \A y \in S : y <= x

TypeOK ==
    /\ workflows \in Seq([material : Materials, first : 1..N, last : 1..N, copy : BOOLEAN,
                          chosen : SUBSET (1..N), start : Checkpoint,
                          status : {"active", "succeeded", "failed", "blocked"},
                          why : {"", "retired input", "other"}])
    /\ job \in [Stage -> {"none", "queued", "running", "succeeded", "collapsed",
                          "transient", "faulty", "gap"}]
    /\ touched \subseteq Stage /\ retired \subseteq Checkpoint
    /\ bound \in [SessionId -> Stage \cup {Null}]
    /\ asked \in [Clients -> Materials \cup {Null}]
    /\ desired \in {"running", "paused"} /\ trouble \in 0..MaxTrouble

Init ==
    /\ workflows = <<>>
    /\ job = [s \in Stage |-> "none"]
    /\ touched = {}
    /\ bound = [i \in SessionId |-> Null]
    /\ retired = {}
    /\ asked = [c \in Clients |-> Null]
    /\ desired = "running"
    /\ trouble = 0

-----------------------------------------------------------------------------
(* Authorization.                                                          *)

Recipe(m) ==
    [material |-> m, first |-> 1, last |-> N, copy |-> FALSE, chosen |-> 1..N,
     start |-> Base, status |-> "active", why |-> ""]

SameSpecification(w, r) ==
    [workflows[w] EXCEPT !.status = r.status, !.why = r.why] = r

Room == Len(workflows) < MaxWorkflows

\* create_cortex_workflow reads the rows of the branch.  It goes on only for the first
\* workflow of the branch, or to replace one that ended before a session was trained.
AskToAuthorize ==
    \E c \in Clients, m \in Materials :
        /\ asked[c] = Null
        /\ Room
        /\ \A w \in Rows : ~Active(w) /\ ~SameSpecification(w, Recipe(m))
        /\ Rows # {} =>
              /\ \E w \in Rows : workflows[w].status \in {"failed", "blocked"}
              /\ Quiet
              /\ ~\E w \in Rows, k \in 1..N : Trained(w, k)
        /\ asked' = [asked EXCEPT ![c] = m]
        /\ UNCHANGED <<workflows, job, touched, bound, retired, desired, trouble>>

\* The row is inserted in a transaction of its own.
Authorize ==
    \E c \in Clients :
        /\ asked[c] # Null
        /\ Room
        /\ workflows' = Append(workflows, Recipe(asked[c]))
        /\ asked' = [asked EXCEPT ![c] = Null]
        /\ UNCHANGED <<job, touched, bound, retired, desired, trouble>>

\* The workflow ended at an evaluation that has lost its comparison parent.
MissingEvaluation(w) ==
    workflows[w].status = "blocked" /\ workflows[w].why = "retired input"

TrainedIn(w) == {k \in Sessions(w) : job[<<w, k, "train">>] # "none"}

\* continue_cortex_workflow_after_retention_evaluation_gap: every session up to the frontier
\* is trained and every one before it evaluated; the rest becomes a workflow of its own.
Continue(w) ==
    /\ Quiet
    /\ MissingEvaluation(w)
    /\ Room
    /\ TrainedIn(w) # {}
    /\ LET f == Largest(TrainedIn(w))
       IN  /\ f < workflows[w].last
           /\ {s \in StagesOf(w) : job[s] # "gap"} =
                 {<<w, k, "train">> : k \in workflows[w].first .. f}
                    \cup {<<w, k, "evaluate">> : k \in workflows[w].first .. (f - 1)}
           /\ \A s \in StagesOf(w) : job[s] \in {"succeeded", "collapsed", "gap"}
           /\ job[<<w, f, "evaluate">>] \in {"none", "gap"}
           /\ <<w, f>> \notin retired
           /\ \A v \in Rows : ~Active(v)
           /\ workflows' = Append(workflows,
                 [workflows[w] EXCEPT
                    !.first = f + 1, !.start = <<w, f>>, !.status = "active", !.why = "",
                    !.chosen = (f + 1) .. workflows[w].last])
    /\ UNCHANGED <<job, touched, bound, retired, asked, desired, trouble>>

\* create_cortex_reconstruction_workflow: an exact prefix of a workflow that succeeded.
Reconstruct(w) ==
    /\ Quiet
    /\ Room
    /\ workflows[w].status = "succeeded" /\ ~workflows[w].copy
    /\ workflows[w].start \notin retired
    /\ \A v \in Rows : ~Active(v)
    /\ \E prefix \in Prefixes :
        LET copy == [workflows[w] EXCEPT !.last = prefix.last, !.chosen = prefix.chosen,
                                         !.copy = TRUE, !.status = "active"]
        IN  /\ prefix.last \in Sessions(w) /\ prefix.chosen \subseteq Sessions(w)
            /\ \A v \in Rows : ~SameSpecification(v, copy)
            /\ workflows' = Append(workflows, copy)
    /\ UNCHANGED <<job, touched, bound, retired, asked, desired, trouble>>

\* restart_failed_cortex_workflow: the report of the very first training broke the
\* commissioned contract.  The session moves to a new job of a new workflow.
Restart(w) ==
    /\ Quiet
    /\ Room
    /\ workflows[w].status = "failed" /\ ~workflows[w].copy
    /\ LET first == workflows[w].first
           failed == {s \in StagesOf(w) : job[s] \in {"transient", "faulty"}}
           new == <<Len(workflows) + 1, first, "train">>
       IN  /\ failed = {<<w, first, "train">>} /\ job[<<w, first, "train">>] = "faulty"
           /\ bound[Id(w, first)] = <<w, first, "train">>
           /\ \A v \in Rows : ~Active(v)
           /\ workflows' = Append(workflows, [workflows[w] EXCEPT !.status = "active", !.why = ""])
           /\ job' = [job EXCEPT ![new] = "queued"]
           /\ bound' = [bound EXCEPT ![Id(w, first)] = new]
    /\ UNCHANGED <<touched, retired, asked, desired, trouble>>

-----------------------------------------------------------------------------
(* Ended workflows that are taken up again.                                *)

SetStatus(w, status, why) ==
    workflows' = [workflows EXCEPT ![w].status = status, ![w].why = why]

\* retry_failed_cortex_stage
RetryStage(w) ==
    /\ workflows[w].status = "failed"
    /\ ~LiveRun
    /\ \E s \in StagesOf(w) :
        /\ {t \in StagesOf(w) : job[t] \in {"transient", "faulty"}} = {s}
        /\ job[s] = "transient"
        /\ job' = [job EXCEPT ![s] = "queued"]
    /\ SetStatus(w, "active", "")
    /\ UNCHANGED <<touched, bound, retired, asked, desired, trouble>>

\* reopen_blocked_cortex_reconstruction_workflow
ReopenReconstruction(w) ==
    /\ Quiet
    /\ workflows[w].status = "blocked" /\ workflows[w].copy
    /\ StagesOf(w) = {}
    /\ SetStatus(w, "active", "")
    /\ UNCHANGED <<job, touched, bound, retired, asked, desired, trouble>>

\* fault: the operator is believed
GapBackedUnseen(w, k) == <<w, k>> \notin retired

\* The gap is backed by the deletion of the parent, and the candidate is there.
GapBacked(w, k) == Parent(w, k) \in retired /\ <<w, k>> \notin retired

\* block_cortex_workflow_for_retired_evaluation_parent
BlockForRetiredParent(w) ==
    /\ Quiet
    /\ Active(w)
    /\ \E s \in StagesOf(w) :
        /\ {t \in StagesOf(w) : t[3] = "evaluate" /\ job[t] = "queued"} = {s}
        /\ s \notin touched
        /\ GapBacked(w, s[2])
        /\ job' = [job EXCEPT ![s] = "gap"]
    /\ SetStatus(w, "blocked", "retired input")
    /\ UNCHANGED <<touched, bound, retired, asked, desired, trouble>>

-----------------------------------------------------------------------------
(* The coordinator.                                                        *)

SessionDone(w, k) ==
    /\ Trained(w, k)
    /\ k \in workflows[w].chosen => Evaluated(w, k)

\* The session the walk stops at, and the stage that is missing there.
At(w) ==
    Some({k \in workflows[w].first .. (workflows[w].last + 1) :
             /\ k \in Sessions(w) => ~SessionDone(w, k)
             /\ \A j \in workflows[w].first .. (k - 1) : SessionDone(w, j)})

Missing(w) ==
    IF Trained(w, At(w)) THEN <<w, At(w), "evaluate">> ELSE <<w, At(w), "train">>

Coordinating(w) == Active(w) /\ desired = "running"

Terminal(w) == {s \in StagesOf(w) : job[s] \in {"transient", "faulty", "gap"}}

Collapsed(w) == \E s \in StagesOf(w) : job[s] = "collapsed"

Due(w) ==
    /\ Coordinating(w)
    /\ Terminal(w) = {} /\ ~Collapsed(w)
    /\ At(w) \in Sessions(w)
    /\ job[Missing(w)] = "none"

\* The evaluation context the coordinator claims, and what _candidate_completes_cortex_branch
\* proves from the rows: they differ for a reconstruction that evaluated every session.
Claimed(w, k) == k = workflows[w].last /\ ~workflows[w].copy
Proven(w, k) ==
    k = workflows[w].last /\ \A j \in workflows[w].first .. (k - 1) : Evaluated(w, j)

\* fault: the ledger does not look for an earlier admission of the session
AdmittedNever(w, k) == FALSE

Admitted(w, k) == bound[Id(w, k)] # Null

Refused(s) ==
    \/ Inputs(s) \cap retired # {}
    \/ s[3] = "train" /\ Admitted(s[1], s[2])
    \/ s[3] = "evaluate" /\ Claimed(s[1], s[2]) # Proven(s[1], s[2])

CreateStage(w) ==
    /\ Due(w)
    /\ LET s == Missing(w)
       IN  /\ ~Refused(s)
           /\ job' = [job EXCEPT ![s] = "queued"]
           /\ bound' = IF s[3] = "train" THEN [bound EXCEPT ![Id(w, s[2])] = s] ELSE bound
    /\ UNCHANGED <<workflows, touched, retired, asked, desired, trouble>>

Block(w) ==
    /\ \/ /\ Due(w) /\ Refused(Missing(w))
          /\ SetStatus(w, "blocked",
                IF Missing(w)[3] = "evaluate" /\ Inputs(Missing(w)) \cap retired # {}
                THEN "retired input" ELSE "other")
       \/ /\ Coordinating(w) /\ Terminal(w) = {} /\ Collapsed(w)
          /\ SetStatus(w, "blocked", "other")
    /\ UNCHANGED <<job, touched, bound, retired, asked, desired, trouble>>

Terminate(w) ==
    /\ Coordinating(w)
    /\ Terminal(w) # {}
    /\ SetStatus(w, "failed", "other")
    /\ UNCHANGED <<job, touched, bound, retired, asked, desired, trouble>>

Finish(w) ==
    /\ Coordinating(w)
    /\ Terminal(w) = {} /\ ~Collapsed(w)
    /\ At(w) = workflows[w].last + 1
    /\ SetStatus(w, "succeeded", "")
    /\ desired' = "paused"
    /\ UNCHANGED <<job, touched, bound, retired, asked, trouble>>

-----------------------------------------------------------------------------
(* Execution, retention, the operator.                                     *)

\* lease_next: a training job runs only for the session admitted for it.
Lease ==
    /\ desired = "running" /\ ~LiveRun
    /\ \E s \in Stage :
        /\ job[s] = "queued"
        /\ s[3] = "train" => \E i \in SessionId : bound[i] = s
        /\ Inputs(s) \cap retired = {}
        /\ job' = [job EXCEPT ![s] = "running"]
        /\ touched' = touched \cup {s}
    /\ UNCHANGED <<workflows, bound, retired, asked, desired, trouble>>

EndRun ==
    \E s \in Stage :
        /\ job[s] = "running"
        /\ \E status \in IF s[3] = "train" THEN {"succeeded", "transient", "faulty"}
                                           ELSE {"succeeded", "transient", "collapsed"} :
              /\ job' = [job EXCEPT ![s] = status]
              /\ trouble' = IF status = "succeeded" THEN trouble ELSE trouble + 1
              /\ trouble' <= MaxTrouble
        /\ UNCHANGED <<workflows, touched, bound, retired, asked, desired>>

\* Retention may take a checkpoint that a trained one continues (CheckpointFrontier has how),
\* an input of a waiting evaluation included.
Retire ==
    /\ ~LiveRun
    /\ \E w \in Rows : \E k \in Sessions(w) :
        /\ Trained(w, k)
        /\ Parent(w, k) \notin retired \cup {Base}
        /\ retired' = retired \cup {Parent(w, k)}
    /\ UNCHANGED <<workflows, job, touched, bound, asked, desired, trouble>>

SwitchPipeline ==
    /\ desired' = IF desired = "running" THEN "paused" ELSE "running"
    /\ UNCHANGED <<workflows, job, touched, bound, retired, asked, trouble>>

Next ==
    \/ AskToAuthorize \/ Authorize
    \/ \E w \in Rows :
        \/ Continue(w) \/ Reconstruct(w) \/ Restart(w)
        \/ RetryStage(w) \/ ReopenReconstruction(w)
        \/ BlockForRetiredParent(w)
        \/ CreateStage(w) \/ Block(w) \/ Terminate(w) \/ Finish(w)
    \/ Lease \/ EndRun
    \/ Retire \/ SwitchPipeline

Spec == Init /\ [][Next]_vars

-----------------------------------------------------------------------------
(* Properties.                                                             *)

\* Whoever owns the branch, and however its workflows replaced, restarted and continued each
\* other: the sessions of a material are trained in order, each once, each from the
\* checkpoint of the session before it.
TrainedInOrder ==
    \A w \in Rows : \A k \in Sessions(w) :
        Trained(w, k) =>
            LET p == Parent(w, k)
            IN  /\ IF k = 1 THEN p = Base
                   ELSE /\ p[2] = k - 1 /\ Trained(p[1], p[2])
                        /\ workflows[p[1]].material = workflows[w].material
                /\ ~workflows[w].copy =>
                      \A v \in Rows \ {w} : ~workflows[v].copy /\ Trained(v, k)
                                               => workflows[v].material # workflows[w].material

\* A branch goes on behind a session that was not evaluated only when the comparison
\* parent of that evaluation has been deleted.
SkippedOnlyForRetired ==
    \A w \in Rows : \A k \in Sessions(w) :
        Trained(w, k) /\ ~workflows[w].copy /\ k > 1 =>
            LET p == Parent(w, k)
            IN  Evaluated(p[1], p[2]) \/ Parent(p[1], p[2]) \in retired

\* "an active Cortex workflow already owns this campaign branch" (store.py): one owner.
OneOwner == \A v, w \in Rows : Active(v) /\ Active(w) => v = w
===============================================================================
