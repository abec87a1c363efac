------------------------------ MODULE FiveBuild ------------------------------
(***************************************************************************)
(* The five builds of Campaign 35: words (m1), images (m2) and both (m3)   *)
(* trained from one root, m1 and m2 merged (m4), and m3 replayed on the    *)
(* merge (m5).  The coordinator takes at most one step of the graph in a   *)
(* tick of the daemon, in one or more transactions; two scripts commission *)
(* m2 and m3 beside it, and a repair may give m4 a second merge.  A job    *)
(* that fails may block the campaign until a repair of it succeeded.       *)
(***************************************************************************)
EXTENDS Naturals, Sequences

CONSTANT MaxTrouble  \* bound: failures, crashes, and material given anew

VARIABLES
    record,  \* the metadata of the campaign
    flow,    \* flow[b]: the latest workflow of branch b
    job,     \* the latest stage of each workflow, the other jobs by key, the probe in progress
    visual,  \* where the visual workflows of the batches encoded, if all of them ended well
    held,    \* active blocks of the campaign: of the incident of a job, of the coordinator
    pipe,    \* desired state of the pipeline
    step,    \* transactions that the coordinator, and a script, still have to make
    trouble

vars == <<record, flow, job, visual, held, pipe, step, trouble>>

Trained == {"m1", "m2", "m3", "m5"}
Merges == {1, 2}
Evaluation == <<"evaluate", "repaired evaluate">>
Keys == {"root", "merge", "probe", "decide"} \cup {Evaluation[v] : v \in Merges}
Failures == {"failed", "blocked"}

\* A branch stands for the latest stage of its workflow.
Work == Trained \cup Keys

TypeOK ==
    /\ record \in [status : {"authorized_paused", "blocked", "complete"}, batches : {1, 2},
                   frozen : BOOLEAN, root : BOOLEAN, merge : {0} \cup Merges, knows : BOOLEAN,
                   m2 : BOOLEAN, m3 : 0 .. 2]
    /\ flow \in [Trained -> [status : {"none", "active", "succeeded"} \cup Failures,
                             trained : BOOLEAN, material : 0 .. 2, start : {0} \cup Merges]]
    /\ job \in [status : [Work -> {"none", "queued", "running", "succeeded"} \cup Failures],
                probe : 0 .. 5]
    /\ visual \in {"none", "archive", "shards"}
    /\ held \subseteq Work \cup {"coordinator"}
    /\ pipe \in {"running", "paused"} /\ trouble \in 0 .. MaxTrouble

Idle == [coordinator |-> <<>>, script |-> <<>>]

\* The campaign was commissioned: its root is queued, the pipeline still paused.
Init ==
    /\ record = [status |-> "authorized_paused", batches |-> 1, frozen |-> FALSE, root |-> FALSE,
                 merge |-> 0, knows |-> FALSE, m2 |-> FALSE, m3 |-> 0]
    /\ flow = [b \in Trained |-> [status |-> "none", trained |-> FALSE, material |-> 0, start |-> 0]]
    /\ job = [status |-> [k \in Work |-> IF k = "root" THEN "queued" ELSE "none"], probe |-> 0]
    /\ visual \in {"none", "archive", "shards"}
    /\ held = {} /\ pipe = "paused" /\ step = Idle /\ trouble = 0

Trouble == trouble < MaxTrouble /\ trouble' = trouble + 1

-----------------------------------------------------------------------------
(* Which step of the graph is due.                                         *)

Is(key, status) == job.status[key] = status
Quiet == \A k \in Work : ~Is(k, "running")
Absent(b) == flow[b].status = "none"
Done(b) == flow[b].status = "succeeded"

Selected == record.status = "authorized_paused" /\ held = {}
Rooted == Selected /\ Is("root", "succeeded") /\ record.root
Words == Rooted /\ flow["m1"].status \notin Failures \cup {"none"}
Siblings == Done("m2") /\ Done("m3")
Foundations == Words /\ Siblings /\ Done("m1")
Bound == Foundations /\ Is("merge", "succeeded") /\ record.merge # 0

\* The coordinator's own m2 and m3 take the material of workflows that encoded an archive.
Archived == Words /\ ~Siblings /\ record.frozen /\ visual = "archive"

\* A mutant: any evaluation of an m4 will do.
AnyEvaluated(v) == \E w \in Merges : Is(Evaluation[w], "succeeded")

\* The evaluation has the bound checkpoint for its candidate.
Evaluated(v) == Is(Evaluation[v], "succeeded")

Healing == Bound /\ Evaluated(record.merge)
Healed == Healing /\ Done("m5")
Probed == Healed /\ job.probe = 5 /\ Is("probe", "succeeded")

Block == <<"mark blocked", "block", "pause">>

\* Incremental workflows encode in shards, and the lookup of their `encode` stage fails.
Due(work) ==
    \/ work = <<"bind root">> /\ Selected /\ Is("root", "succeeded") /\ ~record.root
    \/ work = <<"author m1">> /\ Rooted /\ Absent("m1")
    \/ work = <<"author m2">> /\ Archived /\ Absent("m2")
    \/ work = <<"author m3">> /\ Archived /\ ~Absent("m2") /\ Absent("m3")
    \/ work = <<"merge">> /\ Foundations /\ Is("merge", "none")
    \/ work = <<"bind merge", "inherit">> /\ Foundations /\ Is("merge", "succeeded") /\ record.merge = 0
    \/ work = <<"evaluate">> /\ Bound /\ ~Evaluated(record.merge) /\ Is("evaluate", "none")
    \/ work = <<"author m5">> /\ Healing /\ Absent("m5") /\ record.m3 # 0
    \/ work = <<"probe">> /\ Healed /\ job.probe < 5 /\ job.status["probe"] \in {"none", "succeeded"}
    \/ work = <<"decide">> /\ Probed /\ Is("decide", "none")
    \/ work = <<"complete", "pause">> /\ Probed /\ Is("decide", "succeeded")
    \/ work = Block /\ Words /\ ~Siblings /\ record.frozen /\ visual = "shards"
    \/ work = Block /\ Healing /\ Absent("m5") /\ record.m3 = 0

Works == {<<"bind root">>, <<"author m1">>, <<"author m2">>, <<"author m3">>, <<"merge">>,
          <<"bind merge", "inherit">>, <<"evaluate">>, <<"author m5">>, <<"probe">>, <<"decide">>,
          <<"complete", "pause">>, Block}

Tick(work) ==
    /\ step.coordinator = <<>> /\ pipe = "running" /\ Due(work)
    /\ step' = [step EXCEPT !.coordinator = work]
    /\ UNCHANGED <<record, flow, job, visual, held, pipe, trouble>>

-----------------------------------------------------------------------------
(* Its transactions.                                                       *)

Writes(w) == step.coordinator # <<>> /\ Head(step.coordinator) = w
Proceed == step' = [step EXCEPT !.coordinator = Tail(@)]

BindRoot ==
    /\ Writes("bind root") /\ Proceed /\ record' = [record EXCEPT !.root = TRUE]
    /\ UNCHANGED <<flow, job, visual, held, pipe, trouble>>

\* Another workflow of the branch is left alone while it is active, and an error once it has ended.
Author(b, work, material, start) ==
    /\ Writes(work)
    /\ IF Absent(b)
       THEN /\ flow' = [flow EXCEPT ![b] = [status |-> "active", trained |-> FALSE,
                                            material |-> material, start |-> start]]
            /\ Proceed
       ELSE step' = [step EXCEPT !.coordinator = IF flow[b].status = "active" THEN <<>> ELSE Block]
            /\ UNCHANGED flow
    /\ UNCHANGED <<record, job, visual, held, pipe, trouble>>

CreateJob(key) ==
    /\ Writes(key) /\ Proceed
    /\ job' = [job EXCEPT !.status[key] = "queued", !.probe = IF key = "probe" THEN @ + 1 ELSE @]
    /\ UNCHANGED <<record, flow, visual, held, pipe, trouble>>

BindMerge ==
    /\ Writes("bind merge") /\ Proceed /\ record' = [record EXCEPT !.merge = 1]
    /\ UNCHANGED <<flow, job, visual, held, pipe, trouble>>

Inherit ==
    /\ Writes("inherit") /\ Proceed /\ record' = [record EXCEPT !.knows = TRUE]
    /\ UNCHANGED <<flow, job, visual, held, pipe, trouble>>

Complete ==
    /\ Writes("complete") /\ Proceed /\ record' = [record EXCEPT !.status = "complete"]
    /\ UNCHANGED <<flow, job, visual, held, pipe, trouble>>

MarkBlocked ==
    /\ Writes("mark blocked")
    /\ IF Selected THEN record' = [record EXCEPT !.status = "blocked"] /\ Proceed
                   ELSE step' = [step EXCEPT !.coordinator = <<>>] /\ UNCHANGED record
    /\ UNCHANGED <<flow, job, visual, held, pipe, trouble>>

BlockCampaign ==
    /\ Writes("block") /\ Proceed /\ held' = held \cup {"coordinator"}
    /\ UNCHANGED <<record, flow, job, visual, pipe, trouble>>

Pause ==
    /\ Writes("pause") /\ Proceed /\ pipe' = "paused"
    /\ UNCHANGED <<record, flow, job, visual, held, trouble>>

-----------------------------------------------------------------------------
(* The operator and the scripts.                                           *)

\* Commissioned anew, the campaign may have other batches until a weight was updated.
Commission(batches) ==
    /\ Trouble /\ \A b \in Trained : ~flow[b].trained
    /\ record' = [record EXCEPT !.status = "authorized_paused", !.batches = batches, !.frozen = FALSE]
    /\ UNCHANGED <<flow, job, visual, held, pipe, step>>

Freeze ==
    /\ ~record.frozen /\ record' = [record EXCEPT !.frozen = TRUE]
    /\ UNCHANGED <<flow, job, visual, held, pipe, step, trouble>>

Switch(state) ==
    /\ pipe # state /\ pipe' = state
    /\ UNCHANGED <<record, flow, job, visual, held, step, trouble>>

Script(b, material) ==
    /\ step.script = <<>> /\ record.root
    /\ IF b = "m2" THEN ~record.m2 ELSE record.m2 /\ material > record.m3
    /\ step' = [step EXCEPT !.script = <<[do |-> "author", b |-> b, m |-> material],
                                         [do |-> "freeze", b |-> b, m |-> material],
                                         [do |-> "resume", b |-> b, m |-> material]>>]
    /\ UNCHANGED <<record, flow, job, visual, held, pipe, trouble>>

Doing(what) == step.script # <<>> /\ Head(step.script).do = what

\* A workflow that failed untrained may be replaced, in a paused pipeline, by other material.
ScriptAuthors ==
    /\ Doing("author")
    /\ LET s == Head(step.script)
           old == flow[s.b]
           replaces == old.status \in Failures /\ ~old.trained /\ pipe = "paused" /\ Quiet IN
       IF old.status = "none" \/ (replaces /\ old.material # s.m)
       THEN /\ flow' = [flow EXCEPT ![s.b] = [status |-> "active", trained |-> FALSE,
                                              material |-> s.m, start |-> 0]]
            /\ job' = [job EXCEPT !.status[s.b] = "none"]
            /\ step' = [step EXCEPT !.script = Tail(@)]
       ELSE /\ step' = [step EXCEPT !.script = IF old.material = s.m THEN Tail(@) ELSE <<>>]
            /\ UNCHANGED <<flow, job>>
    /\ UNCHANGED <<record, visual, held, pipe, trouble>>

ScriptFreezes ==
    /\ Doing("freeze") /\ step' = [step EXCEPT !.script = Tail(@)]
    /\ record' = IF Head(step.script).b = "m2" THEN [record EXCEPT !.m2 = TRUE]
                                               ELSE [record EXCEPT !.m3 = Head(step.script).m]
    /\ UNCHANGED <<flow, job, visual, held, pipe, trouble>>

ScriptResumes ==
    /\ Doing("resume") /\ step' = [step EXCEPT !.script = <<>>] /\ pipe' = "running"
    /\ UNCHANGED <<record, flow, job, visual, held, trouble>>

-----------------------------------------------------------------------------
(* The coordinator of the workflows.                                       *)

\* It leaves every workflow of a blocked campaign alone.
Steers(b) == pipe = "running" /\ held = {} /\ flow[b].status = "active"

\* No stage of the workflow is under way.
Rests(b) == job.status[b] \in {"none", "succeeded"}

CreatesStage(b) ==
    /\ Steers(b) /\ Rests(b) /\ job' = [job EXCEPT !.status[b] = "queued"]
    /\ UNCHANGED <<record, flow, visual, held, pipe, step, trouble>>

MarksFailed(b) ==
    /\ Steers(b) /\ Is(b, "failed") /\ flow' = [flow EXCEPT ![b].status = "failed"]
    /\ UNCHANGED <<record, job, visual, held, pipe, step, trouble>>

\* An error of the coordinator, or an evaluation that found the checkpoint structurally broken.
GivesUp(b) ==
    /\ Trouble /\ Steers(b) /\ Rests(b)
    /\ \E status \in Failures : flow' = [flow EXCEPT ![b].status = status]
    /\ UNCHANGED <<record, job, visual, held, pipe, step>>

\* The workflow of a script does not let the pipeline go on after it.
Finishes(b) ==
    /\ Steers(b) /\ Is(b, "succeeded") /\ flow' = [flow EXCEPT ![b].status = "succeeded"]
    /\ pipe' = IF b \in {"m2", "m3"} /\ flow[b].material # 0 THEN "paused" ELSE pipe
    /\ UNCHANGED <<record, job, visual, held, step, trouble>>

-----------------------------------------------------------------------------
(* Jobs and their repair.                                                  *)

\* Everything but the decision runs on the trainbox, one job at a time.
Free(k) == k = "decide" \/ \A l \in Work \ {"decide"} : ~Is(l, "running")

Leases(k) ==
    /\ pipe = "running" /\ Is(k, "queued") /\ Free(k) /\ job' = [job EXCEPT !.status[k] = "running"]
    /\ UNCHANGED <<record, flow, visual, held, pipe, step, trouble>>

\* The first stage of a workflow trains.
Succeeds(k) ==
    /\ Is(k, "running") /\ job' = [job EXCEPT !.status[k] = "succeeded"]
    /\ flow' = IF k \in Trained THEN [flow EXCEPT ![k].trained = TRUE] ELSE flow
    /\ UNCHANGED <<record, visual, held, pipe, step, trouble>>

\* A failure that opens an incident blocks the campaign; one that ends a retry or a repair opens none.
Fails(k) ==
    /\ Trouble /\ Is(k, "running") /\ job' = [job EXCEPT !.status[k] = "failed"]
    /\ held' \in {held, held \cup {k}} /\ UNCHANGED <<record, flow, visual, pipe, step>>

\* Too old in the queue, a job is blocked without an incident, unless it is of an active workflow.
Ages(key) ==
    /\ Trouble /\ Is(key, "queued") /\ job' = [job EXCEPT !.status[key] = "blocked"]
    /\ UNCHANGED <<record, flow, visual, held, pipe, step>>

\* Every stage is of a workflow, which goes on with it.
Requeues(k) ==
    /\ Is(k, "failed") /\ Quiet /\ (k \in Trained => ~Absent(k))
    /\ job' = [job EXCEPT !.status[k] = "queued"]
    /\ flow' = IF k \in Trained THEN [flow EXCEPT ![k].status = "active"] ELSE flow
    /\ UNCHANGED <<record, visual, held, pipe, step, trouble>>

\* A repair leaves the block: the campaign goes on only once the repair is known to have worked.
Repaired(k) == pipe = "paused" /\ Requeues(k)

\* The operator retries the failed stage, or starts the workflow again from its first.
Retried(b) == flow[b].status = "failed" /\ Requeues(b)

Lifts(k) ==
    /\ k \in held /\ Is(k, "succeeded") /\ held' = held \ {k}
    /\ UNCHANGED <<record, flow, job, visual, pipe, step, trouble>>

Reopens(b) ==
    /\ flow[b].status = "blocked" /\ pipe = "paused" /\ held = {} /\ Quiet
    /\ flow' = [flow EXCEPT ![b].status = "active"]
    /\ UNCHANGED <<record, job, visual, held, pipe, step, trouble>>

\* A failed m4 is merged again and evaluated again, and the campaign bound to it.
RepairMerge ==
    /\ Is("evaluate", "failed") /\ record.merge = 1
    /\ record' = [record EXCEPT !.merge = 2]
    /\ job' = [job EXCEPT !.status["repaired evaluate"] = "queued"]
    /\ held' = held \ {"evaluate"} /\ UNCHANGED <<flow, visual, pipe, step, trouble>>

Crash(who) ==
    /\ Trouble /\ step[who] # <<>> /\ step' = [step EXCEPT ![who] = <<>>]
    /\ UNCHANGED <<record, flow, job, visual, held, pipe>>

-----------------------------------------------------------------------------

Next ==
    \/ \E work \in Works : Tick(work)
    \/ BindRoot \/ BindMerge \/ Inherit \/ Complete \/ MarkBlocked \/ BlockCampaign \/ Pause
    \/ Author("m1", "author m1", record.batches, 0) \/ Author("m2", "author m2", 0, 0)
    \/ Author("m3", "author m3", 0, 0) \/ Author("m5", "author m5", record.m3, record.merge)
    \/ \E key \in {"merge", "evaluate", "probe", "decide"} : CreateJob(key)
    \/ Commission(3 - record.batches) \/ Freeze \/ Switch("running") \/ Switch("paused")
    \/ Script("m2", 1) \/ \E m \in {1, 2} : Script("m3", m)
    \/ ScriptAuthors \/ ScriptFreezes \/ ScriptResumes
    \/ \E b \in Trained : \/ CreatesStage(b) \/ MarksFailed(b) \/ GivesUp(b) \/ Finishes(b)
                          \/ Retried(b) \/ Reopens(b)
    \/ \E k \in Work : Leases(k) \/ Succeeds(k) \/ Fails(k) \/ Repaired(k) \/ Lifts(k)
    \/ RepairMerge \/ \E key \in Keys : Ages(key)
    \/ \E who \in DOMAIN step : Crash(who)

Spec == Init /\ [][Next]_vars

\* m5 heals the merge the campaign is bound to, and only after that very
\* checkpoint was evaluated, whichever of two merges and two evaluations was
\* repaired, retried or bound meanwhile (Campaign35Coordinator._advance).
HealsTheEvaluatedMerge ==
    ~Absent("m5") => /\ flow["m5"].start = record.merge
                     /\ Is(Evaluation[record.merge], "succeeded")
=============================================================================
