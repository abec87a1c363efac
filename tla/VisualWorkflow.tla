---------------------------- MODULE VisualWorkflow ----------------------------
(***************************************************************************)
(* The visual workflows of one lesson plan.  A coordinator reads the       *)
(* stages a workflow has, then creates the next one: each candidate image  *)
(* is generated, inspected, captioned, decided and reviewed before the     *)
(* next one is begun; the accepted ones are packed, encoded and compiled.  *)
(* A workflow whose candidates were all rejected is closed and, while the  *)
(* plan has attempts left, a successor with other seeds takes its place.   *)
(***************************************************************************)
EXTENDS Naturals, Sequences, FiniteSets

CONSTANTS
    Items, Seeds,      \* items of the plan, candidates of each
    Cohort, Captions,  \* candidates and captions tried at a time: 1 or 2
    Exact,             \* every item needs its image
    PackLimit,
    Budget,            \* candidates that successors may spend on an item
    Shadow,            \* shadow mode: nothing is admitted
    Coordinators,      \* processes that run the coordinator
    MaxWorkflows,      \* bound: workflows of the plan
    MaxFailures,       \* bound: jobs that fail, retry or are cancelled
    Null

VARIABLES
    flow,      \* rows of visual_workflows, in the order of their creation
    job,       \* job[w]: the status of the stages of workflow w that were created
    linked,    \* visual_workflow_jobs
    usable,    \* candidates whose review found them usable
    incident,  \* jobs with an open recovery incident
    block,     \* jobs with an active campaign block
    hub,       \* what each coordinator has read and is about to do
    failures

vars == <<flow, job, linked, usable, incident, block, hub, failures>>

Unit == 1..(Items * Seeds)
ItemOf(u) == (u - 1) \div Seeds + 1
Mates(u) == {v \in Unit : ItemOf(v) = ItemOf(u)
                          /\ ((v - 1) % Seeds) \div Cohort = ((u - 1) % Seeds) \div Cohort}

\* The stages of a candidate, and those of the workflow before and after them.
Chain == IF Captions = 2
         THEN <<"generate", "inspect", "caption", "recaption", "decide", "review">>
         ELSE <<"generate", "inspect", "caption", "decide", "review">>
Plan == <<"plan", 0>>
Pack == <<"pack", 0>>

Least(S) == CHOOSE x \in S : \A y \in S : x <= y

Workflows == DOMAIN flow
TerminalFailure == {"failed", "blocked", "cancelled"}
Jobs(w) == DOMAIN job[w]
Idle == [pc |-> "idle", w |-> 0, jobs |-> <<>>, s |-> Null]

Init ==
    /\ flow = <<[status |-> "active", why |-> "", pack |-> {}, told |-> FALSE, rejected |-> FALSE]>>
    /\ job = <<  <<>>  >>
    /\ linked = {} /\ usable = {} /\ incident = {} /\ block = {}
    /\ hub = [c \in Coordinators |-> Idle]
    /\ failures = 0

-----------------------------------------------------------------------------
(* The order of the stages, as `jobs', a reading of them, shows it.        *)

Done(jobs, s) == s \in DOMAIN jobs /\ jobs[s] = "succeeded"
Reviewed(jobs, u) == Done(jobs, <<"review", u>>)

\* The usable candidates of item i in a cohort whose reviews are complete.
Accepted(w, jobs, i) ==
    {u \in Unit : /\ ItemOf(u) = i
                  /\ \A v \in Mates(u) : Reviewed(jobs, v)
                  /\ <<w, u>> \in usable}

AcceptedItems(w, jobs) == {i \in 1..Items : Accepted(w, jobs, i) # {}}

\* fault: a cohort is begun whatever became of the one before it
VisitedAtOnce(w, jobs, u) == Exact \/ Cardinality(AcceptedItems(w, jobs)) < PackLimit

\* A further cohort of an item is begun when the earlier ones were all rejected, a
\* further item when the item before it is settled.
Visited(w, jobs, u) ==
    LET i == ItemOf(u)
    IN /\ \A v \in Unit : ItemOf(v) = i /\ v < u /\ v \notin Mates(u) =>
              Reviewed(jobs, v) /\ <<w, v>> \notin usable
       /\ \A v \in Unit : ItemOf(v) < i /\ ItemOf(v) \notin AcceptedItems(w, jobs) =>
              ~Exact /\ Reviewed(jobs, v)
       /\ Exact \/ Cardinality({k \in AcceptedItems(w, jobs) : k < i}) < PackLimit

Open(w, jobs) == {u \in Unit : Visited(w, jobs, u) /\ ~Reviewed(jobs, u)}

Exhausted(w, jobs) ==
    /\ Open(w, jobs) = {}
    /\ IF Exact THEN AcceptedItems(w, jobs) # 1..Items ELSE AcceptedItems(w, jobs) = {}

\* fault: the traversal of a cohort does not break at its first usable candidate
SelectedLast(w, jobs) ==
    {CHOOSE u \in Accepted(w, jobs, i) : \A v \in Accepted(w, jobs, i) : v <= u :
        i \in AcceptedItems(w, jobs)}

Selected(w, jobs) == {Least(Accepted(w, jobs, i)) : i \in AcceptedItems(w, jobs)}

\* What is left of a list of stages: the places of those that are not done.
Left(jobs, stages) == {k \in DOMAIN stages : ~Done(jobs, stages[k])}

Admission(w, jobs) ==
    <<Pack>> \o [k \in 1..Cardinality(Selected(w, jobs)) |-> <<"encode", k>>]
             \o <<<<"features", 0>>, <<"experience", 0>>>>

\* The stages that a coordinator goes through; the first that is left is the next.
Remaining(w, jobs) ==
    IF ~Done(jobs, Plan) THEN <<Plan>>
    ELSE IF Open(w, jobs) # {}
    THEN [k \in DOMAIN Chain |-> <<Chain[k], Least(Open(w, jobs))>>]
    ELSE IF Exhausted(w, jobs) \/ Shadow THEN <<>>
    ELSE Admission(w, jobs)

-----------------------------------------------------------------------------
(* The coordinator: it reads a workflow with its jobs, and acts later.     *)

Read(c) ==
    \E w \in Workflows :
        /\ hub[c] = Idle
        /\ flow[w].status = "active"
        /\ hub' = [hub EXCEPT ![c] =
              [Idle EXCEPT !.pc = "read", !.w = w,
                           !.jobs = [s \in {t \in Jobs(w) : <<w, t>> \in linked} |-> job[w][s]]]]
        /\ UNCHANGED <<flow, job, linked, usable, incident, block, failures>>

\* finish_visual_workflow closes a row that is still active; the event is written anyway.
Close(w, status, why, rejected) ==
    flow' = [flow EXCEPT
                ![w].status = IF @ = "active" THEN status ELSE @,
                ![w].why = IF status = "failed" THEN why ELSE @,
                ![w].rejected = @ \/ rejected]

\* A campaign that is blocked waits.
AdvanceBlocked(c) ==
    /\ hub[c].pc = "read"
    /\ block # {}
    /\ hub' = [hub EXCEPT ![c] = Idle]
    /\ UNCHANGED <<flow, job, linked, usable, incident, block, failures>>

Advance(c) ==
    LET w    == hub[c].w
        jobs == hub[c].jobs
        todo == Remaining(w, jobs)
        left == Left(jobs, todo)
        s    == todo[Least(left)]
    IN /\ hub[c].pc = "read"
       /\ block = {}
       /\ \/ /\ \E t \in DOMAIN jobs : jobs[t] \in TerminalFailure
             /\ Close(w, "failed", "job", FALSE)
             /\ hub' = [hub EXCEPT ![c] = Idle]
             /\ UNCHANGED job
          \/ /\ ~\E t \in DOMAIN jobs : jobs[t] \in TerminalFailure
             /\ Plan \in DOMAIN jobs /\ Done(jobs, Plan) /\ Exhausted(w, jobs)
             /\ Close(w, "failed", "rejected", TRUE)
             /\ hub' = [hub EXCEPT ![c].pc = "rejected"]
             /\ UNCHANGED job
          \/ /\ ~\E t \in DOMAIN jobs : jobs[t] \in TerminalFailure
             /\ left = {} /\ ~Exhausted(w, jobs)
             /\ Close(w, IF Shadow THEN "shadow_complete" ELSE "succeeded", "", FALSE)
             /\ hub' = [hub EXCEPT ![c] = Idle]
             /\ UNCHANGED job
          \/ \* The stage exists and has not ended: wait.
             /\ ~\E t \in DOMAIN jobs : jobs[t] \in TerminalFailure
             /\ left # {} /\ s \in DOMAIN jobs
             /\ hub' = [hub EXCEPT ![c] = Idle]
             /\ UNCHANGED <<flow, job>>
          \/ \* create_job: an idempotency key that exists already stands for its job.
             /\ ~\E t \in DOMAIN jobs : jobs[t] \in TerminalFailure
             /\ left # {} /\ s \notin DOMAIN jobs
             /\ hub' = [hub EXCEPT ![c].pc = "created", ![c].s = s]
             /\ IF s \in Jobs(w) THEN UNCHANGED <<flow, job>>
                ELSE /\ job' = [job EXCEPT ![w] =
                           [t \in DOMAIN @ \cup {s} |->
                               IF t = s THEN "queued" ELSE @[t]]]
                     /\ flow' = [flow EXCEPT ![w].pack =
                           IF s = Pack THEN Selected(w, jobs) ELSE @]
       /\ UNCHANGED <<linked, usable, incident, block, failures>>

Link(c) ==
    /\ hub[c].pc = "created"
    /\ linked' = linked \cup {<<hub[c].w, hub[c].s>>}
    /\ hub' = [hub EXCEPT ![c] = Idle]
    /\ UNCHANGED <<flow, job, usable, incident, block, failures>>

-----------------------------------------------------------------------------
(* A successor for a workflow whose candidates were all rejected.          *)

Spent == Seeds * Cardinality({v \in Workflows : flow[v].rejected})

\* The reading half of recommission_visual_workflow; only the coordinator has a budget.
MaySucceed(w, budget) ==
    /\ flow[w].status = "failed" /\ flow[w].why = "rejected"
    /\ w = Len(flow)
    /\ Exact
    /\ IF budget = Null THEN TRUE ELSE Spent < budget

DecideSuccessor(c) ==
    /\ hub[c].pc = "rejected"
    /\ hub' = [hub EXCEPT ![c].pc = IF MaySucceed(hub[c].w, Budget) THEN "commission" ELSE "notify"]
    /\ UNCHANGED <<flow, job, linked, usable, incident, block, failures>>

\* The on-call answers the notice; it acts in the thread of the daemon's tick.
OnCallRecommission ==
    \E c \in Coordinators, w \in Workflows :
        /\ hub[c] = Idle
        /\ flow[w].told
        /\ MaySucceed(w, Null)
        /\ hub' = [hub EXCEPT ![c] = [Idle EXCEPT !.pc = "commission", !.w = w]]
        /\ UNCHANGED <<flow, job, linked, usable, incident, block, failures>>

\* create_visual_workflow looks at no other workflow of the plan.
CreateSuccessor(c) ==
    /\ hub[c].pc = "commission"
    /\ Len(flow) < MaxWorkflows
    /\ flow' = Append(flow, [status |-> "active", why |-> "", pack |-> {},
                             told |-> FALSE, rejected |-> FALSE])
    /\ job' = Append(job, <<>>)
    /\ hub' = [hub EXCEPT ![c] = Idle]
    /\ UNCHANGED <<linked, usable, incident, block, failures>>

\* It may be refused: the campaign, its storage proof, the configuration.
SuccessorRefused(c) ==
    /\ hub[c].pc = "commission"
    /\ hub' = [hub EXCEPT ![c].pc = "notify"]
    /\ UNCHANGED <<flow, job, linked, usable, incident, block, failures>>

Notify(c) ==
    /\ hub[c].pc = "notify"
    /\ flow' = [flow EXCEPT ![hub[c].w].told = TRUE]
    /\ hub' = [hub EXCEPT ![c] = Idle]
    /\ UNCHANGED <<job, linked, usable, incident, block, failures>>

\* The process ends between two transactions.
Crash(c) ==
    /\ hub[c] # Idle
    /\ failures < MaxFailures /\ failures' = failures + 1
    /\ hub' = [hub EXCEPT ![c] = Idle]
    /\ UNCHANGED <<flow, job, linked, usable, incident, block>>

\* reopen_visual_workflow_after_coordinator_repair; the pipeline is paused and idle.
Reopen ==
    \E w \in Workflows :
        /\ flow[w].status = "failed"
        /\ ~\E v \in Workflows : flow[v].status = "active"
        /\ \A t \in linked : t[1] = w => job[w][t[2]] = "succeeded"
        /\ failures < MaxFailures /\ failures' = failures + 1
        /\ flow' = [flow EXCEPT ![w].status = "active"]
        /\ UNCHANGED <<job, linked, usable, incident, block, hub>>

-----------------------------------------------------------------------------
(* What the ledger does with the jobs.                                     *)

Queued == {p \in UNION {{w} \X Jobs(w) : w \in Workflows} : job[p[1]][p[2]] = "queued"}
Failed == {p \in UNION {{w} \X Jobs(w) : w \in Workflows} : job[p[1]][p[2]] = "failed"}
Put(p, status) == job' = [job EXCEPT ![p[1]][p[2]] = status]
Trouble == failures < MaxFailures /\ failures' = failures + 1

\* A run succeeds; a success recovers the incident of its job and lifts the block.
JobSucceeds ==
    \E p \in Queued :
        /\ Put(p, "succeeded")
        /\ \/ usable' = usable
           \/ p[2][1] = "review" /\ usable' = usable \cup {<<p[1], p[2][2]>>}
        /\ UNCHANGED <<flow, linked, incident, block, hub, failures>>

IncidentRecovers ==
    \E p \in incident :
        /\ job[p[1]][p[2]] = "succeeded"
        /\ incident' = incident \ {p}
        /\ block' = block \ {p}
        /\ UNCHANGED <<flow, job, linked, usable, hub, failures>>

\* The first failure is retried as configured: an incident, but no block.
JobRetriedAsConfigured ==
    \E p \in Queued \ incident :
        /\ Trouble
        /\ incident' = incident \cup {p}
        /\ UNCHANGED <<flow, job, linked, usable, block, hub>>

\* A failure that is not retried blocks the campaign, but only with a new incident.
JobFails ==
    \E p \in Queued :
        /\ Trouble
        /\ Put(p, "failed")
        /\ incident' = incident \cup {p}
        /\ block' = IF p \in incident THEN block ELSE block \cup {p}
        /\ UNCHANGED <<flow, linked, usable, hub>>

\* Repair and disk recovery put the job back; the block stays until it succeeds.
JobRepaired ==
    \E p \in Failed \cap incident :
        /\ Put(p, "queued")
        /\ UNCHANGED <<flow, linked, usable, incident, block, hub, failures>>

IncidentGivenUp ==
    \E p \in Failed \cap incident :
        /\ incident' = incident \ {p}
        /\ UNCHANGED <<flow, job, linked, usable, block, hub, failures>>

JobCancelled ==
    \E p \in Queued :
        /\ Trouble
        /\ Put(p, "cancelled")
        /\ UNCHANGED <<flow, linked, usable, incident, block, hub>>

Next ==
    \/ \E c \in Coordinators :
          \/ Read(c) \/ AdvanceBlocked(c) \/ Advance(c) \/ Link(c)
          \/ DecideSuccessor(c) \/ CreateSuccessor(c) \/ SuccessorRefused(c) \/ Notify(c) \/ Crash(c)
    \/ OnCallRecommission \/ Reopen
    \/ JobSucceeds \/ JobFails \/ JobRetriedAsConfigured \/ JobRepaired \/ JobCancelled
    \/ IncidentRecovers \/ IncidentGivenUp

Spec == Init /\ [][Next]_vars

-----------------------------------------------------------------------------
TypeOK ==
    /\ flow \in Seq([status : {"active", "failed", "succeeded", "shadow_complete"},
                     why : {"", "job", "rejected"}, pack : SUBSET Unit,
                     told : BOOLEAN, rejected : BOOLEAN])
    /\ Len(job) = Len(flow)
    /\ \A w \in Workflows : job[w] \in [Jobs(w) -> {"queued", "succeeded", "failed", "cancelled"}]
    /\ \A p \in linked \cup incident \cup block : p[2] \in Jobs(p[1])
    /\ usable \subseteq Workflows \X Unit
    /\ failures \in 0..MaxFailures

(***************************************************************************)
(* A candidate reaches its review before the next one is begun, whatever   *)
(* stale reading a coordinator acts on, whichever of two creates the stage *)
(* and wherever one stops: a workflow never has two stages that have not   *)
(* succeeded, generates an image only after every earlier image was        *)
(* reviewed or its item already had one, and no further image of an item   *)
(* that an earlier cohort has supplied.                                    *)
(***************************************************************************)
CandidateFirst ==
    \A w \in Workflows :
        /\ Cardinality({s \in Jobs(w) : job[w][s] # "succeeded"}) <= 1
        /\ \A u, v \in Unit :
              /\ v < u
              /\ <<"generate", u>> \in Jobs(w)
              => /\ \/ Reviewed(job[w], v)
                    \/ \E x \in Unit : ItemOf(x) = ItemOf(v) /\ x < v /\ <<w, x>> \in usable
                 /\ ItemOf(u) = ItemOf(v) /\ v \notin Mates(u) => <<w, v>> \notin usable

(***************************************************************************)
(* What enters a pack: of every item the first usable candidate in the     *)
(* order of the plan, no other image, no more than the pack holds, and     *)
(* for exact material one of every item.                                   *)
(***************************************************************************)
PackIsFirstUsable ==
    \A w \in Workflows :
        LET first(i) == {u \in Unit : /\ ItemOf(u) = i /\ <<w, u>> \in usable
                                      /\ \A v \in Unit : ItemOf(v) = i /\ v < u =>
                                             <<w, v>> \notin usable}
        IN flow[w].pack # {} =>
              /\ flow[w].pack \subseteq UNION {first(i) : i \in 1..Items}
              /\ Cardinality(flow[w].pack) <= PackLimit
              /\ Exact => \A i \in 1..Items : first(i) \subseteq flow[w].pack /\ first(i) # {}
=============================================================================
